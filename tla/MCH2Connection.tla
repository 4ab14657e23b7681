--------------------------- MODULE MCH2Connection ---------------------------
(* Instances of H2Connection: sizes of the header fields.                  *)
EXTENDS H2Connection

Sizes == [f \in Field |-> IF f.name = "a" THEN 1 ELSE 2]
LongFields == {f \in Field : f.name = "a" /\ f.value = "x"}
HugeFields == {f \in Field : f.name = "b" /\ f.value = "y"}

=============================================================================
