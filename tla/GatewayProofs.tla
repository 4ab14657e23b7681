----------------------------- MODULE GatewayProofs -----------------------------
(***************************************************************************)
(* Proofs about the flow tables of the gateway, for tables of any size,    *)
(* any timeouts and any number of flows, requests and peers: first what    *)
(* the operations of NatTable do to one table, then what the steps of the  *)
(* tunnel task do to the tables and to the requests on the uplink.         *)
(***************************************************************************)
EXTENDS Gateway, TLAPS, WellFoundedInduction

-----------------------------------------------------------------------------
(* One table, whose slots are S, at time now: a slot is empty or holds a   *)
(* flow last used by now, and no flow is there twice.                      *)
Entry(e, now) == \/ e = NoFlow
                 \/ /\ e = Flow(e.client, e.server, e.last_used_ms)
                    /\ e.last_used_ms \in Nat /\ e.last_used_ms <= now
SameFlow(d, e) == d.used /\ e.used /\ d.client = e.client /\ d.server = e.server
GoodTable(t, S, now) == /\ t = [s \in S |-> t[s]]
                        /\ \A s \in S : Entry(t[s], now)
                        /\ \A s1, s2 \in S : s1 # s2 => ~SameFlow(t[s1], t[s2])

(* From table t to table u every flow keeps its slot, and is used no       *)
(* earlier than it was, unless it was idle or its slot is in gone.         *)
KeepsLive(t, u, S, now, timeout, gone) ==
  \A s \in S \ gone : t[s].used => \/ IsIdle(t[s], now, timeout)
                                   \/ /\ SameFlow(t[s], u[s])
                                      /\ u[s].last_used_ms >= t[s].last_used_ms

(* The slot a table offers exists: First is the smallest of a set of       *)
(* naturals, and there is one.                                             *)
LEMMA FirstIsMember ==
    ASSUME NEW T, T \subseteq Nat, T # {}
    PROVE  First(T) \in T
<1> DEFINE R == OpToRel(<, Nat)
<1>1. IsWellFoundedOn(R, Nat)
  BY NatLessThanWellFounded
<1>2. \A x, y \in Nat : y < x => <<y, x>> \in R
  BY DEF OpToRel
<1> HIDE DEF R
<1>3. PICK x \in T : \A y \in T : ~(<<y, x>> \in R)
  BY <1>1, WFMin, Zenon
<1>4. \A y \in T : x <= y
  <2>1. TAKE y \in T
  <2>2. x \in Nat /\ y \in Nat
    OBVIOUS
  <2>3. ~(y < x)
    BY <1>2, <1>3, <2>2
  <2>4. QED
    BY <2>2, <2>3
<1>5. QED
  BY <1>4 DEF First

(* A flow in a slot was last used at some time, and by now.                *)
LEMMA EntryFacts ==
    ASSUME NEW e, NEW now \in Nat, Entry(e, now), e.used
    PROVE  e.last_used_ms \in Nat /\ e.last_used_ms <= now
<1>1. ~NoFlow.used
  BY DEF NoFlow
<1>2. QED
  BY <1>1 DEF Entry

(* A candidate slot is the flow's own, or the flow has no slot and it is   *)
(* free or idle.                                                           *)
LEMMA CandidateFacts ==
    ASSUME NEW t, NEW S, NEW now \in Nat, NEW timeout \in Nat, GoodTable(t, S, now),
           NEW c, NEW v, NEW slot \in Candidates(t, c, v, now, timeout)
    PROVE  /\ slot \in S
           /\ \/ t[slot].used /\ t[slot].client = c /\ t[slot].server = v
              \/ /\ \A s \in S : ~(t[s].used /\ t[s].client = c /\ t[s].server = v)
                 /\ ~t[slot].used \/ IsIdle(t[slot], now, timeout)
<1>1. DOMAIN t = S
  BY DEF GoodTable
<1>2. CASE Matching(t, c, v) # {}
  BY <1>1, <1>2 DEF Candidates, Matching, Occupied
<1>3. CASE Matching(t, c, v) = {}
  <2>1. \A s \in S : ~(t[s].used /\ t[s].client = c /\ t[s].server = v)
    BY <1>1, <1>3 DEF Matching, Occupied
  <2>2. slot \in S /\ (~t[slot].used \/ IsIdle(t[slot], now, timeout))
    BY <1>1, <1>3 DEF Candidates, Free, Oldest, Idle, Occupied
  <2>3. QED
    BY <2>1, <2>2
<1>4. QED
  BY <1>2, <1>3

(* slot_for keeps a table good, and takes no slot from a live flow.        *)
LEMMA AssignedGood ==
    ASSUME NEW t, NEW S, NEW now \in Nat, NEW timeout \in Nat, GoodTable(t, S, now),
           NEW c, NEW v, NEW slot \in Candidates(t, c, v, now, timeout)
    PROVE  LET u == Assigned(t, slot, c, v, now)
           IN  /\ GoodTable(u, S, now)
               /\ KeepsLive(t, u, S, now, timeout, {})
               /\ u[slot] = Flow(c, v, now)
<1> DEFINE u == Assigned(t, slot, c, v, now)
<1>1. slot \in S /\ DOMAIN t = S
  BY CandidateFacts DEF GoodTable
<1>2. /\ u = [s \in S |-> u[s]]
      /\ u[slot] = Flow(c, v, now)
      /\ \A s \in S \ {slot} : u[s] = t[s]
  BY <1>1 DEF Assigned
<1> HIDE DEF u
<1>3. ASSUME NEW s \in S PROVE Entry(u[s], now)
  BY <1>2, <1>3 DEF GoodTable, Entry, Flow
<1>4. \A s \in S \ {slot} : ~(t[s].used /\ t[s].client = c /\ t[s].server = v)
  BY CandidateFacts, <1>1 DEF GoodTable, SameFlow
<1>5. u[slot].used /\ u[slot].client = c /\ u[slot].server = v /\ u[slot].last_used_ms = now
  BY <1>2 DEF Flow
<1>6. ASSUME NEW s1 \in S, NEW s2 \in S, s1 # s2 PROVE ~SameFlow(u[s1], u[s2])
  BY <1>2, <1>4, <1>5, <1>6 DEF GoodTable, SameFlow
<1>7. GoodTable(u, S, now)
  BY <1>2, <1>3, <1>6 DEF GoodTable
<1>8. ASSUME NEW s \in S, t[s].used
      PROVE  \/ IsIdle(t[s], now, timeout)
             \/ SameFlow(t[s], u[s]) /\ u[s].last_used_ms >= t[s].last_used_ms
  <2>1. t[s].last_used_ms \in Nat /\ t[s].last_used_ms <= now
    BY <1>8, EntryFacts DEF GoodTable
  <2>2. CASE s = slot
    BY <1>5, <1>8, <2>1, <2>2, CandidateFacts DEF SameFlow
  <2>3. CASE s # slot
    BY <1>2, <1>8, <2>1, <2>3 DEF SameFlow
  <2>4. QED
    BY <2>2, <2>3
<1>9. KeepsLive(t, u, S, now, timeout, {})
  BY <1>8 DEF KeepsLive
<1>10. QED
  BY <1>2, <1>7, <1>9 DEF u

(* touch moves no flow, and no flow back in time.                          *)
LEMMA TouchedGood ==
    ASSUME NEW t, NEW S, NEW now \in Nat, NEW timeout \in Nat, GoodTable(t, S, now),
           NEW slot \in S
    PROVE  LET u == touch(t, slot, now)
           IN  GoodTable(u, S, now) /\ KeepsLive(t, u, S, now, timeout, {})
<1> DEFINE u == touch(t, slot, now)
           e == t[slot]
<1>1. /\ u = [s \in S |-> u[s]]
      /\ u[slot] = IF e.used THEN [e EXCEPT !.last_used_ms = now] ELSE e
      /\ \A s \in S \ {slot} : u[s] = t[s]
  BY DEF touch, GoodTable
<1>2. Entry(e, now)
  BY DEF GoodTable
<1> HIDE DEF u, e
<1>3. e.used => u[slot] = Flow(e.client, e.server, now)
  <2>1. SUFFICES ASSUME e.used PROVE u[slot] = Flow(e.client, e.server, now)
    OBVIOUS
  <2>2. e = Flow(e.client, e.server, e.last_used_ms)
    BY <1>2, <2>1 DEF Entry, NoFlow
  <2>3. QED
    BY <1>1, <2>1, <2>2 DEF Flow
<1>4. ~e.used => u[slot] = e
  BY <1>1
<1>5. Entry(u[slot], now)
  <2>1. Entry(Flow(e.client, e.server, now), now)
    BY DEF Entry, Flow
  <2>2. QED
    BY <1>2, <1>3, <1>4, <2>1
<1>6. \A x : SameFlow(u[slot], x) => SameFlow(e, x)
  BY <1>3, <1>4 DEF SameFlow, Flow
<1>7. \A x : SameFlow(x, u[slot]) => SameFlow(x, e)
  BY <1>3, <1>4 DEF SameFlow, Flow
<1>8. ASSUME NEW s1 \in S, NEW s2 \in S, s1 # s2 PROVE ~SameFlow(u[s1], u[s2])
  BY <1>1, <1>6, <1>7, <1>8 DEF GoodTable, e
<1>9. GoodTable(u, S, now)
  BY <1>1, <1>5, <1>8 DEF GoodTable
<1>10. ASSUME NEW s \in S, t[s].used
       PROVE  SameFlow(t[s], u[s]) /\ u[s].last_used_ms >= t[s].last_used_ms
  <2>1. t[s].last_used_ms \in Nat /\ t[s].last_used_ms <= now
    BY <1>10, EntryFacts DEF GoodTable
  <2>2. CASE s = slot
    BY <1>3, <1>10, <2>1, <2>2 DEF SameFlow, Flow, e
  <2>3. CASE s # slot
    BY <1>1, <1>10, <2>1, <2>3 DEF SameFlow
  <2>4. QED
    BY <2>2, <2>3
<1>11. QED
  BY <1>9, <1>10 DEF KeepsLive, u

(* release empties one slot of a table and touches no other.               *)
LEMMA ReleasedGood ==
    ASSUME NEW t, NEW S, NEW now \in Nat, NEW timeout \in Nat, NEW u, GoodTable(u, S, now),
           NEW slot \in S, KeepsLive(t, u, S, now, timeout, {})
    PROVE  LET w == release(u, slot)
           IN  /\ GoodTable(w, S, now)
               /\ KeepsLive(t, w, S, now, timeout, {slot})
               /\ ~w[slot].used
<1> DEFINE w == release(u, slot)
<1>1. /\ w = [s \in S |-> w[s]]
      /\ w[slot] = NoFlow
      /\ \A s \in S \ {slot} : w[s] = u[s]
  BY DEF release, GoodTable
<1> HIDE DEF w
<1>2. ~w[slot].used
  BY <1>1 DEF NoFlow
<1>3. \A s \in S : Entry(w[s], now)
  BY <1>1 DEF GoodTable, Entry
<1>4. ASSUME NEW s1 \in S, NEW s2 \in S, s1 # s2 PROVE ~SameFlow(w[s1], w[s2])
  BY <1>1, <1>2, <1>4 DEF GoodTable, SameFlow
<1>5. GoodTable(w, S, now)
  BY <1>1, <1>3, <1>4 DEF GoodTable
<1>6. KeepsLive(t, w, S, now, timeout, {slot})
  BY <1>1 DEF KeepsLive
<1>7. QED
  BY <1>2, <1>5, <1>6 DEF w

(* A good table stays good as time passes.                                 *)
LEMMA LaterGood ==
    ASSUME NEW t, NEW S, NEW now \in Nat, GoodTable(t, S, now)
    PROVE  GoodTable(t, S, now + 1)
<1>1. ASSUME NEW e, Entry(e, now) PROVE Entry(e, now + 1)
  BY <1>1 DEF Entry
<1>2. QED
  BY <1>1 DEF GoodTable

-----------------------------------------------------------------------------
(* The system.                                                             *)

AllFlows == UNION {Flows[p] : p \in Protocols}
Datagram == [from : Addresses, kind : {"initiation", "echo", "other", "stray"}]
            \cup [from : Addresses, kind : {"data"}, proto : Protocols, flow : AllFlows]
Requests == [proto : Protocols, slot : Nat, flow : AllFlows, asked : Nat, reset : BOOLEAN]

TablesGood == /\ table = [p \in Protocols |-> table[p]]
              /\ \A p \in Protocols : GoodTable(table[p], Slots[p], clock)

(* The flow that made request r holds its slot, used since it asked, until *)
(* the request is as old as the timeout or a reset went by.                *)
Owed(r) == \/ r.reset
           \/ clock >= r.asked + IDLE_TIMEOUT_MS[r.proto]
           \/ LET e == table[r.proto][r.slot]
              IN  /\ e.used /\ e.client = r.flow[1] /\ e.server = r.flow[2]
                  /\ e.last_used_ms >= r.asked

(* Strengthening of Inv and PromptRepliesReachTheirFlow.                   *)
TypesGood == /\ clock \in Nat /\ peer_at \in Addresses
             /\ wg_rx \in Seq(Datagram)
             /\ endpoint \in Addresses \cup {NowhereAddr}
RequestsGood == /\ uplink \subseteq Requests
                /\ \A r \in uplink : r.slot \in Slots[r.proto] /\ r.asked <= clock /\ Owed(r)
                /\ uplink # {} => endpoint \in Addresses
GatewayInv == TypesGood /\ TablesGood /\ RequestsGood /\ PromptRepliesReachTheirFlow

(* What LiveFlowsKept says of one step.                                    *)
LiveKeptStep ==
  \A p \in Protocols : \A s \in Slots[p] :
     table[p][s].used =>
       \/ IsIdle(table[p][s], clock, IDLE_TIMEOUT_MS[p])
       \/ /\ table'[p][s].used
          /\ table'[p][s].client = table[p][s].client
          /\ table'[p][s].server = table[p][s].server
       \/ p = "tcp" /\ ~table'[p][s].used

(* The gateway starts with empty tables and nothing asked.                 *)
LEMMA GatewayInitially == Init => GatewayInv
<1> SUFFICES ASSUME Init PROVE GatewayInv
  OBVIOUS
<1>1. TypesGood
  BY DEF Init, TypesGood
<1>2. ASSUME NEW p \in Protocols PROVE GoodTable(table[p], Slots[p], clock)
  <2>1. table[p] = [s \in Slots[p] |-> NoFlow]
    BY <1>2 DEF Init
  <2>2. ~NoFlow.used
    BY DEF NoFlow
  <2>3. QED
    BY <2>1, <2>2 DEF GoodTable, Entry, SameFlow
<1>3. TablesGood
  BY <1>2 DEF TablesGood, Init
<1>4. RequestsGood /\ PromptRepliesReachTheirFlow
  BY DEF Init, RequestsGood, PromptRepliesReachTheirFlow, Quiet
<1>5. QED
  BY <1>1, <1>3, <1>4 DEF GatewayInv

(* The table of one protocol changes, and gives up no live flow but those  *)
(* whose slots are in gone: the tables stay good, and a request whose slot *)
(* is not in gone stays owed.                                              *)
LEMMA TableStep ==
    ASSUME TypesGood, TablesGood, clock' = clock,
           NEW p \in Protocols, NEW u, NEW gone, GoodTable(u, Slots[p], clock),
           KeepsLive(table[p], u, Slots[p], clock, IDLE_TIMEOUT_MS[p], gone),
           \A s \in Slots[p] \cap gone : p = "tcp" /\ ~u[s].used,
           table' = [table EXCEPT ![p] = u]
    PROVE  /\ TablesGood'
           /\ LiveKeptStep
           /\ \A r \in Requests :
                /\ r.slot \in Slots[r.proto] /\ Owed(r)
                /\ ~(r.proto = p /\ r.slot \in gone)
                => Owed(r)'
<1>1. /\ table' = [q \in Protocols |-> table'[q]]
      /\ table'[p] = u
      /\ \A q \in Protocols \ {p} : table'[q] = table[q]
  BY DEF TablesGood
<1>2. TablesGood'
  <2>1. ASSUME NEW q \in Protocols PROVE GoodTable(table'[q], Slots[q], clock')
    BY <1>1, <2>1 DEF TablesGood
  <2>2. QED
    BY <1>1, <2>1 DEF TablesGood
<1>3. LiveKeptStep
  <2>1. ASSUME NEW q \in Protocols, NEW s \in Slots[q], table[q][s].used,
               ~IsIdle(table[q][s], clock, IDLE_TIMEOUT_MS[q]),
               ~(q = "tcp" /\ ~table'[q][s].used)
        PROVE  /\ table'[q][s].used
               /\ table'[q][s].client = table[q][s].client
               /\ table'[q][s].server = table[q][s].server
    BY <1>1, <2>1 DEF KeepsLive, SameFlow
  <2>2. QED
    BY <2>1 DEF LiveKeptStep
<1>4. ASSUME NEW r \in Requests, r.slot \in Slots[r.proto], Owed(r),
             ~(r.proto = p /\ r.slot \in gone)
      PROVE  Owed(r)'
  <2>1. CASE r.reset \/ clock >= r.asked + IDLE_TIMEOUT_MS[r.proto]
    BY <2>1 DEF Owed
  <2>2. CASE ~r.reset /\ ~(clock >= r.asked + IDLE_TIMEOUT_MS[r.proto]) /\ r.proto # p
    BY <1>1, <1>4, <2>2 DEF Owed, Requests
  <2>3. CASE ~r.reset /\ ~(clock >= r.asked + IDLE_TIMEOUT_MS[r.proto]) /\ r.proto = p
    <3> DEFINE e == table[p][r.slot]
    <3>1. e.used /\ e.client = r.flow[1] /\ e.server = r.flow[2] /\ e.last_used_ms >= r.asked
      BY <1>4, <2>3 DEF Owed
    <3>2. e.last_used_ms \in Nat /\ r.asked \in Nat /\ clock \in Nat /\ IDLE_TIMEOUT_MS[p] \in Nat
      BY <1>4, <2>3, <3>1, EntryFacts, TimeAssumption DEF TablesGood, GoodTable, TypesGood, Requests
    <3>3. ~IsIdle(e, clock, IDLE_TIMEOUT_MS[p])
      BY <2>3, <3>1, <3>2 DEF IsIdle
    <3>4. SameFlow(e, u[r.slot]) /\ u[r.slot].last_used_ms >= e.last_used_ms
      BY <1>4, <2>3, <3>1, <3>3 DEF KeepsLive
    <3>5. u[r.slot].last_used_ms \in Nat
      BY <1>4, <2>3, <3>4, EntryFacts DEF GoodTable, SameFlow, TypesGood
    <3>6. u[r.slot].last_used_ms >= r.asked
      BY <3>1, <3>2, <3>4, <3>5
    <3>7. QED
      BY <1>1, <2>3, <3>1, <3>4, <3>6 DEF Owed, SameFlow
  <2>4. QED
    BY <2>1, <2>2, <2>3
<1>5. QED
  BY <1>2, <1>3, <1>4

(* The same, when no live flow is given up.                                *)
LEMMA TableKept ==
    ASSUME TypesGood, TablesGood, clock' = clock,
           NEW p \in Protocols, NEW u, GoodTable(u, Slots[p], clock),
           KeepsLive(table[p], u, Slots[p], clock, IDLE_TIMEOUT_MS[p], {}),
           table' = [table EXCEPT ![p] = u]
    PROVE  /\ TablesGood' /\ LiveKeptStep
           /\ \A r \in Requests : r.slot \in Slots[r.proto] /\ Owed(r) => Owed(r)'
<1> DEFINE none == {}
<1>1. \A s \in Slots[p] \cap none : p = "tcp" /\ ~u[s].used
  OBVIOUS
<1>2. KeepsLive(table[p], u, Slots[p], clock, IDLE_TIMEOUT_MS[p], none) /\ \A x : x \notin none
  OBVIOUS
<1> HIDE DEF none
<1>3. /\ TablesGood' /\ LiveKeptStep
      /\ \A r \in Requests :
           r.slot \in Slots[r.proto] /\ Owed(r) /\ ~(r.proto = p /\ r.slot \in none) => Owed(r)'
  BY <1>1, <1>2, TableStep
<1>4. QED
  BY <1>2, <1>3

-----------------------------------------------------------------------------
(* The steps of the tunnel task, by what they do to the tables.            *)

(* A step that leaves the tables and the clock alone and sends no new      *)
(* request.                                                                *)
LEMMA TablesAlone ==
    ASSUME GatewayInv, clock' = clock, table' = table, uplink' \subseteq uplink,
           uplink' # {} => endpoint' \in Addresses
    PROVE  TablesGood' /\ RequestsGood' /\ LiveKeptStep
<1>1. TablesGood'
  BY DEF GatewayInv, TablesGood
<1>2. \A r : Owed(r) => Owed(r)'
  BY DEF Owed
<1>3. RequestsGood'
  BY <1>2 DEF GatewayInv, RequestsGood
<1>4. LiveKeptStep
  BY DEF LiveKeptStep
<1>5. QED
  BY <1>1, <1>3, <1>4

(* slot_for found a slot: it is one of the table's, and the flow has it.   *)
LEMMA SlotForGood ==
    ASSUME GatewayInv, NEW p \in Protocols, NEW f, SlotsFor(p, f) # {}
    PROVE  LET slot == slot_for(p, f)
               u == Assigned(table[p], slot, f[1], f[2], clock)
           IN  /\ slot \in Slots[p] /\ slot \in Nat
               /\ GoodTable(u, Slots[p], clock)
               /\ KeepsLive(table[p], u, Slots[p], clock, IDLE_TIMEOUT_MS[p], {})
               /\ u[slot] = Flow(f[1], f[2], clock)
<1> DEFINE slot == slot_for(p, f)
<1>1. /\ clock \in Nat /\ GoodTable(table[p], Slots[p], clock)
      /\ IDLE_TIMEOUT_MS[p] \in Nat /\ Slots[p] \subseteq Nat
  BY SlotsAssumption, TimeAssumption DEF GatewayInv, TypesGood, TablesGood
<1>2. SlotsFor(p, f) \subseteq Slots[p]
  BY <1>1, CandidateFacts DEF SlotsFor
<1>3. slot \in SlotsFor(p, f)
  BY <1>1, <1>2, FirstIsMember DEF slot_for
<1>4. slot \in Candidates(table[p], f[1], f[2], clock, IDLE_TIMEOUT_MS[p])
  BY <1>3 DEF SlotsFor
<1> HIDE DEF slot
<1>5. QED
  BY <1>1, <1>2, <1>3, <1>4, AssignedGood DEF slot

(* forward_out, and forward_tcp_out of a segment that is not a reset.      *)
LEMMA ForwardGood ==
    ASSUME GatewayInv, clock' = clock, endpoint' \in Addresses,
           NEW p \in Protocols, NEW f \in AllFlows, SlotsFor(p, f) # {},
           table' = [table EXCEPT ![p] = Assigned(table[p], slot_for(p, f), f[1], f[2], clock)],
           uplink' = uplink \cup {Send(p, slot_for(p, f), f)}
    PROVE  TablesGood' /\ RequestsGood' /\ LiveKeptStep
<1> DEFINE slot == slot_for(p, f)
           u == Assigned(table[p], slot, f[1], f[2], clock)
           sent == Send(p, slot, f)
<1>1. /\ slot \in Slots[p] /\ slot \in Nat
      /\ GoodTable(u, Slots[p], clock)
      /\ KeepsLive(table[p], u, Slots[p], clock, IDLE_TIMEOUT_MS[p], {})
      /\ u[slot] = Flow(f[1], f[2], clock)
  BY SlotForGood
<1>2. clock \in Nat /\ table = [q \in Protocols |-> table[q]]
  BY DEF GatewayInv, TypesGood, TablesGood
<1>3. table' = [table EXCEPT ![p] = u] /\ uplink' = uplink \cup {sent}
  OBVIOUS
<1>4. sent \in Requests /\ sent.proto = p /\ sent.slot = slot /\ sent.flow = f /\ sent.asked = clock
  BY <1>1, <1>2 DEF Send, Requests
<1> HIDE DEF u, slot, sent
<1>5. /\ TablesGood' /\ LiveKeptStep
      /\ \A r \in Requests : r.slot \in Slots[r.proto] /\ Owed(r) => Owed(r)'
  BY <1>1, <1>3, TableKept DEF GatewayInv
<1>6. \A r : r = sent => Owed(r)'
  <2>1. table'[p][slot] = Flow(f[1], f[2], clock)
    BY <1>1, <1>2, <1>3
  <2>2. TAKE r
  <2>3. HAVE r = sent
  <2>4. r.proto = p /\ r.slot = slot /\ r.flow = f /\ r.asked = clock
    BY <1>4, <2>3
  <2>5. LET e == table'[r.proto][r.slot]
        IN  e.used /\ e.client = r.flow[1] /\ e.server = r.flow[2] /\ e.last_used_ms >= r.asked
    BY <1>2, <2>1, <2>4 DEF Flow
  <2>6. QED
    BY <2>5 DEF Owed
<1>7. RequestsGood'
  <2>1. ASSUME NEW r \in uplink'
        PROVE  r \in Requests /\ r.slot \in Slots[r.proto] /\ r.asked <= clock' /\ Owed(r)'
    <3>1. CASE r \in uplink
      BY <1>5, <3>1 DEF GatewayInv, RequestsGood
    <3>2. CASE r = sent
      BY <1>1, <1>2, <1>4, <1>6, <3>2
    <3>3. QED
      BY <1>3, <2>1, <3>1, <3>2
  <2>2. QED
    BY <2>1 DEF RequestsGood
<1>8. QED
  BY <1>5, <1>7

(* A reset on a slot of the TCP table, whichever way it went.              *)
LEMMA ResetGood ==
    ASSUME GatewayInv, clock' = clock, endpoint' \in Addresses, "tcp" \in Protocols,
           NEW slot \in Slots["tcp"], NEW u, GoodTable(u, Slots["tcp"], clock),
           KeepsLive(table["tcp"], u, Slots["tcp"], clock, IDLE_TIMEOUT_MS["tcp"], {}),
           table' = [table EXCEPT !["tcp"] = release(u, slot)],
           uplink' = Abandoned("tcp", slot)
    PROVE  TablesGood' /\ RequestsGood' /\ LiveKeptStep
<1> DEFINE w == release(u, slot)
<1>1. /\ clock \in Nat /\ IDLE_TIMEOUT_MS["tcp"] \in Nat
  BY TimeAssumption DEF GatewayInv, TypesGood
<1>2. /\ GoodTable(w, Slots["tcp"], clock)
      /\ KeepsLive(table["tcp"], w, Slots["tcp"], clock, IDLE_TIMEOUT_MS["tcp"], {slot})
      /\ ~w[slot].used
  BY <1>1, ReleasedGood
<1>3. table' = [table EXCEPT !["tcp"] = w]
  OBVIOUS
<1> HIDE DEF w
<1>4. /\ TablesGood' /\ LiveKeptStep
      /\ \A r \in Requests :
           r.slot \in Slots[r.proto] /\ Owed(r) /\ ~(r.proto = "tcp" /\ r.slot \in {slot}) => Owed(r)'
  <2>1. TypesGood /\ TablesGood /\ \A s \in Slots["tcp"] \cap {slot} : "tcp" = "tcp" /\ ~w[s].used
    BY <1>2 DEF GatewayInv
  <2>2. QED
    BY <1>2, <1>3, <2>1, TableStep
<1>5. ASSUME NEW q \in uplink'
      PROVE  q \in Requests /\ q.slot \in Slots[q.proto] /\ q.asked <= clock' /\ Owed(q)'
  <2>1. PICK r \in uplink : q = [r EXCEPT !.reset = r.reset \/ (r.proto = "tcp" /\ r.slot = slot)]
    BY <1>5 DEF Abandoned
  <2>2. r \in Requests /\ r.slot \in Slots[r.proto] /\ r.asked <= clock /\ Owed(r)
    BY <2>1 DEF GatewayInv, RequestsGood
  <2>3. /\ q \in Requests /\ q.proto = r.proto /\ q.slot = r.slot /\ q.flow = r.flow /\ q.asked = r.asked
        /\ q.reset = (r.reset \/ (r.proto = "tcp" /\ r.slot = slot))
    BY <2>1, <2>2 DEF Requests
  <2>4. Owed(q)'
    <3>1. CASE r.proto = "tcp" /\ r.slot = slot
      BY <2>3, <3>1 DEF Owed
    <3>2. CASE ~(r.proto = "tcp" /\ r.slot = slot)
      BY <1>4, <2>2, <2>3, <3>2 DEF Owed
    <3>3. QED
      BY <3>1, <3>2
  <2>5. QED
    BY <2>2, <2>3, <2>4
<1>6. RequestsGood'
  BY <1>5 DEF RequestsGood
<1>7. QED
  BY <1>4, <1>6

(* A reply on a slot that is in use, which is no reset.                    *)
LEMMA ReplyGood ==
    ASSUME GatewayInv, clock' = clock, endpoint' = endpoint,
           NEW r \in uplink, uplink' \subseteq uplink,
           table' = [table EXCEPT ![r.proto] = touch(table[r.proto], r.slot, clock)]
    PROVE  TablesGood' /\ RequestsGood' /\ LiveKeptStep
<1> DEFINE u == touch(table[r.proto], r.slot, clock)
           p == r.proto
<1>1. p \in Protocols /\ r.slot \in Slots[p]
  BY DEF GatewayInv, RequestsGood, Requests
<1>2. clock \in Nat /\ IDLE_TIMEOUT_MS[p] \in Nat /\ GoodTable(table[p], Slots[p], clock)
  BY <1>1, TimeAssumption DEF GatewayInv, TypesGood, TablesGood
<1>3. GoodTable(u, Slots[p], clock) /\ KeepsLive(table[p], u, Slots[p], clock, IDLE_TIMEOUT_MS[p], {})
  BY <1>1, <1>2, TouchedGood
<1>4. table' = [table EXCEPT ![p] = u]
  OBVIOUS
<1> HIDE DEF u, p
<1>5. /\ TablesGood' /\ LiveKeptStep
      /\ \A q \in Requests : q.slot \in Slots[q.proto] /\ Owed(q) => Owed(q)'
  BY <1>1, <1>3, <1>4, TableKept DEF GatewayInv
<1>6. RequestsGood'
  BY <1>5 DEF GatewayInv, RequestsGood
<1>7. QED
  BY <1>5, <1>6

(* What the task sends for the reply to r meets the promise, for the flow  *)
(* in the slot is the one Owed says.                                       *)
LEMMA ReplyPrompt ==
    ASSUME GatewayInv, clock' = clock, NEW r \in uplink, NEW to, NEW p, NEW segments, NEW server,
           server = r.flow[2] \/ server = table[r.proto][r.slot].server,
           emitted' = ToClient(to, p, r, table[r.proto][r.slot].client, server, segments)
    PROVE  PromptRepliesReachTheirFlow'
<1>1. Owed(r)
  BY DEF GatewayInv, RequestsGood
<1>2. /\ emitted'.request = r /\ emitted'.server = server
      /\ emitted'.client = table[r.proto][r.slot].client
  BY DEF ToClient
<1>3. \/ r.reset
      \/ clock' >= r.asked + IDLE_TIMEOUT_MS[r.proto]
      \/ emitted'.client = r.flow[1] /\ emitted'.server = r.flow[2]
  BY <1>1, <1>2 DEF Owed
<1>4. QED
  BY <1>2, <1>3 DEF PromptRepliesReachTheirFlow

-----------------------------------------------------------------------------
(* The actions.                                                            *)

(* A step that sends no reply promises nothing.                            *)
LEMMA NothingSent ==
    ASSUME emitted'.kind # "reply"
    PROVE  PromptRepliesReachTheirFlow'
BY DEF PromptRepliesReachTheirFlow

(* The environment and the Wi-Fi task touch no table.                      *)
LEMMA EnvironmentGood ==
    ASSUME GatewayInv, WifiTask \/ Network
    PROVE  GatewayInv' /\ LiveKeptStep
<1>1. emitted' = Quiet /\ table' = table
  BY DEF WifiTask, Associated, AssociationFailed, Disconnected, RetryDelayOver, Wifi, Network,
         PeerInitiates, PeerPings, PeerSends, StrayArrives, Arrives, PeerMoves, SessionEnds,
         RequestForgotten, Tick
<1>2. PromptRepliesReachTheirFlow'
  BY <1>1, NothingSent DEF Quiet
<1>3. CASE Tick
  <2>1. clock \in Nat /\ clock' = clock + 1 /\ UNCHANGED <<peer_at, wg_rx, endpoint, table, uplink>>
    BY <1>3 DEF Tick, GatewayInv, TypesGood
  <2>2. TypesGood'
    BY <2>1 DEF GatewayInv, TypesGood
  <2>3. TablesGood'
    BY <2>1, LaterGood DEF GatewayInv, TablesGood
  <2>4. ASSUME NEW r \in Requests, Owed(r) PROVE Owed(r)'
    <3>1. r.asked \in Nat /\ r.proto \in Protocols
      BY <2>4 DEF Requests
    <3>2. IDLE_TIMEOUT_MS[r.proto] \in Nat
      BY <3>1, TimeAssumption
    <3>3. clock >= r.asked + IDLE_TIMEOUT_MS[r.proto] => clock' >= r.asked + IDLE_TIMEOUT_MS[r.proto]
      BY <2>1, <3>1, <3>2
    <3>4. QED
      BY <2>1, <2>4, <3>3 DEF Owed
  <2>5. RequestsGood'
    <3>1. ASSUME NEW r \in uplink'
          PROVE  r \in Requests /\ r.slot \in Slots[r.proto] /\ r.asked <= clock' /\ Owed(r)'
      <4>1. r \in Requests /\ r.slot \in Slots[r.proto] /\ r.asked <= clock /\ Owed(r)
        BY <2>1, <3>1 DEF GatewayInv, RequestsGood
      <4>2. r.asked \in Nat
        BY <4>1 DEF Requests
      <4>3. QED
        BY <2>1, <2>4, <4>1, <4>2
    <3>2. QED
      BY <2>1, <3>1 DEF GatewayInv, RequestsGood
  <2>6. LiveKeptStep
    BY <2>1 DEF LiveKeptStep
  <2>7. QED
    BY <1>2, <2>2, <2>3, <2>5, <2>6 DEF GatewayInv
<1>4. ASSUME ~Tick PROVE clock' = clock /\ endpoint' = endpoint /\ uplink' \subseteq uplink
  BY <1>4 DEF WifiTask, Associated, AssociationFailed, Disconnected, RetryDelayOver, Wifi, Network,
         PeerInitiates, PeerPings, PeerSends, StrayArrives, Arrives, PeerMoves, SessionEnds,
         RequestForgotten
<1>5. ASSUME NEW d, Arrives(d), d \in Datagram PROVE TypesGood'
  BY <1>5 DEF Arrives, GatewayInv, TypesGood
<1>6. ASSUME ~Tick PROVE TypesGood'
  <2>1. peer_at \in Addresses
    BY DEF GatewayInv, TypesGood
  <2>2. CASE PeerInitiates
    BY <1>5, <2>1, <2>2 DEF PeerInitiates, Datagram
  <2>3. CASE PeerPings
    BY <1>5, <2>1, <2>3 DEF PeerPings, Datagram
  <2>4. CASE PeerSends
    <3>1. PICK p \in Protocols \cap scenario : \E f \in Flows[p] :
             Arrives([from |-> peer_at, kind |-> "data", proto |-> p, flow |-> f])
      BY <2>4 DEF PeerSends
    <3>2. PICK f \in Flows[p] : Arrives([from |-> peer_at, kind |-> "data", proto |-> p, flow |-> f])
      BY <3>1
    <3>3. p \in Protocols /\ f \in AllFlows
      BY DEF AllFlows
    <3>4. [from |-> peer_at, kind |-> "data", proto |-> p, flow |-> f] \in Datagram
      BY <2>1, <3>3 DEF Datagram
    <3>5. QED
      BY <1>5, <3>2, <3>4
  <2>5. CASE StrayArrives
    BY <1>5, <2>5 DEF StrayArrives, Datagram
  <2>6. CASE PeerMoves
    BY <2>6 DEF PeerMoves, GatewayInv, TypesGood
  <2>7. CASE WifiTask \/ SessionEnds \/ RequestForgotten
    BY <2>7 DEF WifiTask, Associated, AssociationFailed, Disconnected, RetryDelayOver, Wifi,
                SessionEnds, RequestForgotten, GatewayInv, TypesGood
  <2>8. QED
    BY <1>6, <2>2, <2>3, <2>4, <2>5, <2>6, <2>7 DEF Network
<1>7. CASE ~Tick
  <2>1. TablesGood' /\ RequestsGood' /\ LiveKeptStep
    BY <1>1, <1>4, <1>7, TablesAlone DEF GatewayInv, RequestsGood
  <2>2. QED
    BY <1>2, <1>6, <1>7, <2>1 DEF GatewayInv
<1>8. QED
  BY <1>3, <1>7

(* A datagram from the tunnel: what it carries may take a slot.            *)
LEMMA TunnelGood ==
    ASSUME GatewayInv, TunnelReady
    PROVE  GatewayInv' /\ LiveKeptStep
<1> DEFINE d == Head(wg_rx)
<1>1. d \in Datagram /\ Tail(wg_rx) \in Seq(Datagram)
  BY DEF TunnelReady, GatewayInv, TypesGood
<1>2. /\ clock' = clock /\ peer_at' = peer_at /\ wg_rx' = Tail(wg_rx) /\ endpoint' = d.from
      /\ handle_tunnel_datagram(d)
  BY DEF TunnelReady, Heard
<1> HIDE DEF d
<1>3. endpoint' \in Addresses
  BY <1>1, <1>2 DEF Datagram
<1>4. d.kind = "data" => d.proto \in Protocols /\ d.flow \in AllFlows
  BY <1>1 DEF Datagram
<1>5. TypesGood'
  BY <1>1, <1>2, <1>3 DEF GatewayInv, TypesGood
<1>6. CASE table' = table /\ uplink' = uplink /\ emitted'.kind # "reply"
  <2>1. TablesGood' /\ RequestsGood' /\ LiveKeptStep
    BY <1>2, <1>3, <1>6, TablesAlone
  <2>2. QED
    BY <1>5, <1>6, <2>1, NothingSent DEF GatewayInv
<1>7. CASE d.kind = "data" /\ d.proto = "udp" /\ SlotsFor("udp", d.flow) # {} /\ forward_out(d.flow)
  <2> DEFINE f == d.flow
             slot == slot_for("udp", f)
  <2>1. /\ table' = [table EXCEPT !["udp"] = Assigned(table["udp"], slot, f[1], f[2], clock)]
        /\ uplink' = uplink \cup {Send("udp", slot, f)}
        /\ emitted' = ToServer("udp", {})
    BY <1>7 DEF forward_out
  <2>2. "udp" \in Protocols /\ f \in AllFlows
    BY <1>4, <1>7
  <2>3. TablesGood' /\ RequestsGood' /\ LiveKeptStep
    BY <1>2, <1>3, <1>7, <2>1, <2>2, ForwardGood
  <2>4. PromptRepliesReachTheirFlow'
    BY <2>1, NothingSent DEF ToServer
  <2>5. QED
    BY <1>5, <2>3, <2>4 DEF GatewayInv
<1>8. ASSUME d.kind = "data", d.proto = "tcp", SlotsFor("tcp", d.flow) # {},
             NEW is_rst \in BOOLEAN, forward_tcp_out(d.flow, is_rst)
      PROVE  GatewayInv' /\ LiveKeptStep
  <2> DEFINE f == d.flow
             slot == slot_for("tcp", f)
             taken == Assigned(table["tcp"], slot, f[1], f[2], clock)
  <2>1. /\ table' = [table EXCEPT !["tcp"] = IF is_rst THEN release(taken, slot) ELSE taken]
        /\ uplink' = IF is_rst THEN Abandoned("tcp", slot) ELSE uplink \cup {Send("tcp", slot, f)}
        /\ emitted'.kind # "reply"
    BY <1>8 DEF forward_tcp_out, ToServer
  <2>2. "tcp" \in Protocols /\ f \in AllFlows
    BY <1>4, <1>8
  <2>3. CASE is_rst
    <3>1. /\ slot \in Slots["tcp"] /\ GoodTable(taken, Slots["tcp"], clock)
          /\ KeepsLive(table["tcp"], taken, Slots["tcp"], clock, IDLE_TIMEOUT_MS["tcp"], {})
      BY <1>8, <2>2, SlotForGood
    <3>2. table' = [table EXCEPT !["tcp"] = release(taken, slot)] /\ uplink' = Abandoned("tcp", slot)
      BY <2>1, <2>3
    <3> HIDE DEF slot, taken
    <3>3. QED
      BY <1>2, <1>3, <2>2, <3>1, <3>2, <1>5, <2>1, ResetGood, NothingSent DEF GatewayInv
  <2>4. CASE ~is_rst
    <3>1. table' = [table EXCEPT !["tcp"] = taken] /\ uplink' = uplink \cup {Send("tcp", slot, f)}
      BY <2>1, <2>4
    <3>2. TablesGood' /\ RequestsGood' /\ LiveKeptStep
      BY <1>2, <1>3, <1>8, <2>2, <3>1, ForwardGood
    <3>3. QED
      BY <1>5, <2>1, <3>2, NothingSent DEF GatewayInv
  <2>5. QED
    BY <2>3, <2>4
<1>9. CASE d.kind = "data" /\ d.proto = "udp" /\ forward_out(d.flow)
  <2>1. CASE SlotsFor("udp", d.flow) = {}
    BY <1>6, <1>9, <2>1 DEF forward_out, Quiet
  <2>2. QED
    BY <1>7, <1>9, <2>1
<1>10. CASE d.kind = "data" /\ d.proto = "tcp" /\ \E is_rst \in BOOLEAN : forward_tcp_out(d.flow, is_rst)
  <2>1. PICK is_rst \in BOOLEAN : forward_tcp_out(d.flow, is_rst)
    BY <1>10
  <2>2. CASE SlotsFor("tcp", d.flow) = {}
    BY <1>6, <2>1, <2>2 DEF forward_tcp_out, Quiet
  <2>3. QED
    BY <1>8, <1>10, <2>1, <2>2
<1>11. CASE emitted' \in {Quiet, ToPeer(d.from)} /\ UNCHANGED <<table, uplink>>
  BY <1>6, <1>11 DEF Quiet, ToPeer
<1>12. QED
  BY <1>2, <1>9, <1>10, <1>11 DEF handle_tunnel_datagram

(* A datagram on the port of a UDP flow.                                   *)
LEMMA NatGood ==
    ASSUME GatewayInv, NatReady
    PROVE  GatewayInv' /\ LiveKeptStep
<1>1. UNCHANGED <<clock, peer_at, wg_rx, endpoint>>
  BY DEF NatReady
<1>2. PICK r \in uplink, fits \in BOOLEAN : r.proto = "udp" /\ Answered(r) /\ handle_nat_reply(r, fits)
  BY DEF NatReady
<1>3. TypesGood'
  BY <1>1 DEF GatewayInv, TypesGood
<1>4. uplink' \subseteq uplink
  BY <1>2 DEF Answered
<1> DEFINE flow == table["udp"][r.slot]
<1>5. CASE ~(flow.used /\ endpoint # NowhereAddr)
  <2>1. table' = table /\ emitted' = Quiet
    BY <1>2, <1>5 DEF handle_nat_reply
  <2>2. TablesGood' /\ RequestsGood' /\ LiveKeptStep
    BY <1>1, <1>4, <2>1, TablesAlone DEF GatewayInv, RequestsGood
  <2>3. QED
    BY <1>3, <2>1, <2>2, NothingSent DEF GatewayInv, Quiet
<1>6. CASE flow.used /\ endpoint # NowhereAddr
  <2> DEFINE datagrams == {build_udp4(flow.server, flow.client, c[3]) : c \in Contents}
  <2>1. /\ table' = [table EXCEPT ![r.proto] = touch(table[r.proto], r.slot, clock)]
        /\ emitted' = IF fits /\ session
                      THEN ToClient(endpoint, "udp", r, flow.client, flow.server, datagrams)
                      ELSE Quiet
    BY <1>2, <1>6 DEF handle_nat_reply
  <2> HIDE DEF datagrams
  <2>2. TablesGood' /\ RequestsGood' /\ LiveKeptStep
    BY <1>1, <1>4, <2>1, ReplyGood
  <2>3. PromptRepliesReachTheirFlow'
    <3>1. CASE fits /\ session
      BY <1>1, <1>2, <2>1, <3>1, ReplyPrompt
    <3>2. CASE ~(fits /\ session)
      BY <2>1, <3>2, NothingSent DEF Quiet
    <3>3. QED
      BY <3>1, <3>2
  <2>4. QED
    BY <1>3, <2>2, <2>3 DEF GatewayInv
<1>7. QED
  BY <1>5, <1>6

(* A segment on the port of a TCP flow, a reset or not.                    *)
LEMMA RawGood ==
    ASSUME GatewayInv, RawReady
    PROVE  GatewayInv' /\ LiveKeptStep
<1>1. UNCHANGED <<clock, peer_at, wg_rx, endpoint>>
  BY DEF RawReady
<1>2. PICK r \in uplink, is_rst \in BOOLEAN : r.proto = "tcp" /\ handle_raw_reply(r, is_rst)
  BY DEF RawReady
<1>3. TypesGood'
  BY <1>1 DEF GatewayInv, TypesGood
<1>4. endpoint \in Addresses /\ "tcp" \in Protocols /\ r.slot \in Slots["tcp"]
  BY <1>2 DEF GatewayInv, RequestsGood, Requests
<1> DEFINE flow == table["tcp"][r.slot]
<1>5. CASE ~(flow.used /\ endpoint # NowhereAddr)
  <2>1. table' = table /\ emitted' = Quiet /\ uplink' \subseteq uplink
    BY <1>2, <1>5 DEF handle_raw_reply, Answered
  <2>2. TablesGood' /\ RequestsGood' /\ LiveKeptStep
    BY <1>1, <1>4, <2>1, TablesAlone
  <2>3. QED
    BY <1>3, <2>1, <2>2, NothingSent DEF GatewayInv, Quiet
<1>6. CASE flow.used /\ endpoint # NowhereAddr
  <2> DEFINE touched == touch(table["tcp"], r.slot, clock)
             segments == Inbound(Wire(r.flow[2], <<our_ip, EXT_PORT[r.slot]>>), flow.client)
  <2>1. /\ table' = [table EXCEPT !["tcp"] = IF is_rst THEN release(touched, r.slot) ELSE touched]
        /\ emitted' = IF session THEN ToClient(endpoint, "tcp", r, flow.client, r.flow[2], segments)
                      ELSE Quiet
        /\ IF is_rst THEN uplink' = Abandoned("tcp", r.slot) ELSE Answered(r)
    BY <1>2, <1>6 DEF handle_raw_reply
  <2> HIDE DEF segments
  <2>2. PromptRepliesReachTheirFlow'
    <3>1. CASE session
      BY <1>1, <1>2, <2>1, <3>1, ReplyPrompt
    <3>2. CASE ~session
      BY <2>1, <3>2, NothingSent DEF Quiet
    <3>3. QED
      BY <3>1, <3>2
  <2>3. CASE ~is_rst
    <3>1. table' = [table EXCEPT ![r.proto] = touch(table[r.proto], r.slot, clock)]
      BY <1>2, <2>1, <2>3
    <3>2. uplink' \subseteq uplink
      BY <2>1, <2>3 DEF Answered
    <3>3. TablesGood' /\ RequestsGood' /\ LiveKeptStep
      BY <1>1, <3>1, <3>2, ReplyGood
    <3>4. QED
      BY <1>3, <2>2, <3>3 DEF GatewayInv
  <2>4. CASE is_rst
    <3>1. clock \in Nat /\ IDLE_TIMEOUT_MS["tcp"] \in Nat /\ GoodTable(table["tcp"], Slots["tcp"], clock)
      BY <1>4, TimeAssumption DEF GatewayInv, TypesGood, TablesGood
    <3>2. /\ GoodTable(touched, Slots["tcp"], clock)
          /\ KeepsLive(table["tcp"], touched, Slots["tcp"], clock, IDLE_TIMEOUT_MS["tcp"], {})
      BY <1>4, <3>1, TouchedGood
    <3>3. table' = [table EXCEPT !["tcp"] = release(touched, r.slot)] /\ uplink' = Abandoned("tcp", r.slot)
      BY <2>1, <2>4
    <3> HIDE DEF touched
    <3>4. TablesGood' /\ RequestsGood' /\ LiveKeptStep
      BY <1>1, <1>4, <3>2, <3>3, ResetGood
    <3>5. QED
      BY <1>3, <2>2, <3>4 DEF GatewayInv
  <2>5. QED
    BY <2>3, <2>4
<1>7. QED
  BY <1>5, <1>6

(* Every step keeps the invariant, and gives up no live flow.              *)
LEMMA GatewayStep == GatewayInv /\ [Next]_vars => GatewayInv' /\ LiveKeptStep
<1> SUFFICES ASSUME GatewayInv, [Next]_vars PROVE GatewayInv' /\ LiveKeptStep
  OBVIOUS
<1>1. CASE Next
  BY <1>1, EnvironmentGood, TunnelGood, NatGood, RawGood DEF Next, TunnelTask
<1>2. CASE UNCHANGED vars
  <2>1. TablesGood' /\ RequestsGood' /\ LiveKeptStep
    BY <1>2, TablesAlone DEF vars, GatewayInv, RequestsGood
  <2>2. TypesGood' /\ PromptRepliesReachTheirFlow'
    BY <1>2 DEF vars, GatewayInv, TypesGood, PromptRepliesReachTheirFlow
  <2>3. QED
    BY <2>1, <2>2 DEF GatewayInv
<1>3. QED
  BY <1>1, <1>2

-----------------------------------------------------------------------------
(* The tables never hold a flow twice nor one from the future, and the     *)
(* endpoint is known whenever a reply can come to the tunnel task.         *)
THEOREM TablesConsistent == Spec => []Inv
<1>1. GatewayInv => Inv
  <2> SUFFICES ASSUME GatewayInv PROVE Inv
    OBVIOUS
  <2>1. \A p \in Protocols : GoodTable(table[p], Slots[p], clock)
    BY DEF GatewayInv, TablesGood
  <2>2. ASSUME NEW p \in Protocols, NEW s \in Slots[p], NEW t \in Slots[p], s # t, NEW f \in Flows[p],
               FlowAt(p, s, f), FlowAt(p, t, f)
        PROVE  FALSE
    <3>1. SameFlow(table[p][s], table[p][t])
      BY <2>2 DEF SameFlow, FlowAt
    <3>2. ~SameFlow(table[p][s], table[p][t])
      BY <2>1, <2>2 DEF GoodTable
    <3>3. QED
      BY <3>1, <3>2
  <2>3. ASSUME NEW p \in Protocols, NEW s \in Slots[p], table[p][s].used
        PROVE  table[p][s].last_used_ms <= clock
    BY <2>1, <2>3, EntryFacts DEF GoodTable, GatewayInv, TypesGood
  <2>4. uplink # {} => endpoint # NowhereAddr
    BY NowhereAssumption DEF GatewayInv, RequestsGood
  <2>5. QED
    BY <2>2, <2>3, <2>4 DEF Inv
<1>2. QED
  BY <1>1, GatewayInitially, GatewayStep, PTL DEF Spec

(* slot_for, touch and release never take a slot from a live flow: only an *)
(* idle one loses it, or a TCP flow that a reset has ended.                *)
THEOREM LiveFlowsAreKept == Spec => LiveFlowsKept
<1>1. GatewayInv /\ [Next]_vars => [LiveKeptStep]_vars
  BY GatewayStep
<1>2. QED
  BY <1>1, GatewayInitially, GatewayStep, PTL DEF Spec, LiveFlowsKept, LiveKeptStep

(* What handle_nat_reply and handle_raw_reply send into the tunnel within  *)
(* the idle timeout of the request goes to the flow that asked.            *)
THEOREM PromptRepliesArrive == Spec => []PromptRepliesReachTheirFlow
<1>1. GatewayInv => PromptRepliesReachTheirFlow
  BY DEF GatewayInv
<1>2. QED
  BY <1>1, GatewayInitially, GatewayStep, PTL DEF Spec
================================================================================
