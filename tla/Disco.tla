--------------------------------- MODULE Disco ---------------------------------
(***************************************************************************)
(* exchange of harness/src/disco.rs: probe every candidate path once an    *)
(* interval, answer the pings that arrive, count the pongs, until the time *)
(* to listen is over.  What a datagram is to the exchange is all that is   *)
(* left of packet.rs and message.rs of ts-disco.                           *)
(***************************************************************************)
EXTENDS Executor

CONSTANTS
  Candidates,         \* peers with a disco key and an endpoint
  LISTEN, PROBE_INTERVAL,
  MaxDatagrams        \* bound: datagrams sent to the exchange

UDP == "udp"

\* What a datagram can be: not disco at all, not a whole packet, from a key no
\* candidate has, sealed by someone else, or a message (message.rs) of a peer.
Datagrams == {"wireguard", "truncated", "stranger", "forged", "undecodable",
              "ping", "pong", "call-me-maybe"}

VARIABLES
  disco,     \* where the exchange is: "start", "top", "select" or "done"
  inbox,     \* the socket's receive buffer
  arrived,      \* how many datagrams were sent to it
  next_probe, sleep_until,
  pongs, pings
exchange == <<disco, inbox, arrived, next_probe, sleep_until, pongs, pings>>

DiscoInit == /\ disco = "start" /\ inbox = <<>> /\ arrived = 0
             /\ next_probe = 0 /\ sleep_until = 0 /\ pongs = 0 /\ pings = 0

\* A peer, or anyone, sends a datagram.
Arrive == /\ disco # "done" /\ arrived < MaxDatagrams
          /\ \E d \in Datagrams : inbox' = Append(inbox, d)
          /\ arrived' = arrived + 1
          /\ UNCHANGED <<disco, next_probe, sleep_until, pongs, pings>>
          /\ UNCHANGED reactor

\* Everything before the loop: without candidates there is nothing to do.
Begin == /\ disco = "start"
         /\ disco' = IF Candidates = {} THEN "done" ELSE "top"
         /\ UNCHANGED <<inbox, arrived, next_probe, sleep_until, pongs, pings>>
         /\ UNCHANGED reactor

\* The top of the loop: give up, or probe if it is time to, and start to wait.
Top == /\ disco = "top"
       /\ IF now >= LISTEN
          THEN disco' = "done" /\ UNCHANGED <<next_probe, sleep_until>>
          ELSE /\ disco' = "select"
               /\ sleep_until' = now + PROBE_INTERVAL
               /\ next_probe' = IF now >= next_probe THEN now + PROBE_INTERVAL ELSE next_probe
       /\ UNCHANGED <<inbox, arrived, pongs, pings>>
       /\ UNCHANGED reactor

HasData == inbox # <<>>

\* A datagram that is no message of a candidate is dropped.  A pong is counted,
\* whatever its transaction; a ping is counted and answered.
Receive == /\ disco = "select"
           /\ SelectReads(UDP, HasData)
           /\ pongs' = pongs + (IF Head(inbox) = "pong" THEN 1 ELSE 0)
           /\ pings' = pings + (IF Head(inbox) = "ping" THEN 1 ELSE 0)
           /\ inbox' = Tail(inbox)
           /\ disco' = "top"
           /\ UNCHANGED <<arrived, next_probe, sleep_until>>

Expire == /\ disco = "select" /\ SelectExpires(UDP, HasData, sleep_until)
          /\ disco' = "top"
          /\ UNCHANGED <<inbox, arrived, next_probe, sleep_until, pongs, pings>>

Pend == disco = "select" /\ SelectPends(UDP, HasData, sleep_until) /\ UNCHANGED exchange

Wake == WaitWakes(IF HasData THEN {UDP} ELSE {}) /\ UNCHANGED exchange
TimeOut == WaitTimesOut /\ UNCHANGED exchange
Interrupt == WaitInterrupted /\ UNCHANGED exchange
Pass == disco # "done" /\ Tick /\ UNCHANGED exchange

DiscoSteps == Begin \/ Top \/ Receive \/ Expire \/ Pend \/ Wake \/ TimeOut
DiscoNext == DiscoSteps \/ Arrive \/ Interrupt \/ Pass
================================================================================
