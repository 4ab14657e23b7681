--------------------------- MODULE MCReplayWindow ---------------------------
(* Counters 0..9 against a window of four and a message limit of nine: the *)
(* jumps cover one bit, several bits, exactly a window and more.           *)
EXTENDS ReplayWindow

AllArrivals == 0 .. 9

=============================================================================
