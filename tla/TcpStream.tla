------------------------------- MODULE TcpStream -------------------------------
(***************************************************************************)
(* The receiving half of the TcpStream of harness/src/net.rs: what the     *)
(* other end has sent, what has been delivered to the socket, and the two  *)
(* ways to read it.  TCP keeps the order and loses nothing; what it does   *)
(* not keep is where one write ended and the next began, so a read returns *)
(* as much as happens to be there.  A reader may throw bytes away.         *)
(***************************************************************************)
EXTENDS Naturals, Sequences

VARIABLES
  coming,    \* sent, not yet delivered
  stream,    \* delivered, not yet read
  dropped    \* how many units were read and thrown away
connection == <<coming, stream, dropped>>

After(s, n) == SubSeq(s, n + 1, Len(s))
Least(m, n) == IF m < n THEN m ELSE n

Delivers(n) == /\ n <= Len(coming)
               /\ stream' = stream \o SubSeq(coming, 1, n)
               /\ coming' = After(coming, n)

\* TcpStream::read into a buffer with this much room.
read(room) == SubSeq(stream, 1, Least(room, Len(stream)))

\* TcpStream::read_exact: the reads it makes are seen by nobody until the last.
read_exact(n) == SubSeq(stream, 1, n)
================================================================================
