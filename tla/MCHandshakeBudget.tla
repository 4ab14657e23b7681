------------------------- MODULE MCHandshakeBudget --------------------------
(* A burst of two, three milliseconds to a token and a clock that may step *)
(* back by one: over twelve instants the bucket empties, refills in parts  *)
(* and overflows.                                                          *)
EXTENDS HandshakeBudget

=============================================================================
