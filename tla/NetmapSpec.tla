------------------------------ MODULE NetmapSpec ------------------------------
(***************************************************************************)
(* What fetch_map promises its caller: the responses the server sent, each *)
(* applied whole and in order, to a map with no limits but the number of   *)
(* peers and regions.  Nothing here knows of bytes, frames or tokens.      *)
(*                                                                         *)
(* A response is a sequence of changes, and `broken` when its text is not  *)
(* a whole JSON document of values that parse.  A map is a set of peers, a *)
(* set of relay regions and the node's own key.                            *)
(***************************************************************************)
EXTENDS Naturals, Sequences, FiniteSets

CONSTANTS Responses, MaxPeers, MaxRegions, Wanted

VARIABLES sent,      \* the responses the server has written
          applied,   \* how many of them have been dealt with
          map,       \* what the caller has been shown
          status     \* "reading", "returned" or "failed"

EmptyMap == [self |-> <<>>, peers |-> {}, regions |-> {}]

Without(entries, id) == {e \in entries : e.id # id}
Known(entries, id)   == \E e \in entries : e.id = id

\* A field a patch does not mention keeps its value.
Patched(peer, patch) ==
  [field \in DOMAIN peer |-> IF field \in DOMAIN patch THEN patch[field] ELSE peer[field]]

Changed(m, change) ==
  CASE change.kind = "self" ->
         [m EXCEPT !.self = <<change.key>>, !.peers = {p \in @ : p.node_key # change.key}]
    [] change.kind = "peer" ->
         IF <<change.peer.node_key>> = m.self THEN m
         ELSE [m EXCEPT !.peers = Without(@, change.peer.id) \cup {change.peer}]
    [] change.kind = "patch" ->
         [m EXCEPT !.peers = {IF p.id = change.id THEN Patched(p, change.fields) ELSE p : p \in @}]
    [] change.kind = "remove" -> [m EXCEPT !.peers = Without(@, change.id)]
    [] change.kind = "region" ->
         [m EXCEPT !.regions = Without(@, change.region.id) \cup {change.region}]

\* The map after the first n changes of a response.
After(m, response, n) ==
  LET upto[i \in 0..n] == IF i = 0 THEN m ELSE Changed(upto[i - 1], response.changes[i])
  IN  upto[n]

Apply(m, response) == After(m, response, Len(response.changes))

WithinLimits(m) == Cardinality(m.peers) <= MaxPeers /\ Cardinality(m.regions) <= MaxRegions

\* The limits hold after every change, in the order the response lists them.
Acceptable(m, response) ==
  /\ ~response.broken
  /\ \A n \in 0..Len(response.changes) : WithinLimits(After(m, response, n))

vars == <<sent, applied, map, status>>

Init == sent = <<>> /\ applied = 0 /\ map = EmptyMap /\ status = "reading"

Send == /\ \E response \in Responses : sent' = Append(sent, response)
        /\ UNCHANGED <<applied, map, status>>

ApplyNext ==
  /\ status = "reading" /\ applied < Len(sent)
  /\ Acceptable(map, sent[applied + 1])
  /\ map' = Apply(map, sent[applied + 1])
  /\ applied' = applied + 1
  /\ UNCHANGED <<sent, status>>

Refuse ==
  /\ status = "reading" /\ applied < Len(sent)
  /\ ~Acceptable(map, sent[applied + 1])
  /\ status' = "failed"
  /\ UNCHANGED <<sent, applied, map>>

\* The caller has what it came for, or the server ended the stream.
Return ==
  /\ status = "reading"
  /\ applied >= Wanted \/ applied = Len(sent)
  /\ status' = "returned"
  /\ UNCHANGED <<sent, applied, map>>

Next == Send \/ ApplyNext \/ Refuse \/ Return

Spec == Init /\ [][Next]_vars
================================================================================
