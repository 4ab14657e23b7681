------------------------------ MODULE MCDevice ------------------------------
(* Two devices.  Index is a symmetry set: indices are only compared.       *)
EXTENDS Device, TLC

Indices == Permutations(Index)

=============================================================================
