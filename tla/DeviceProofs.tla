---------------------------- MODULE DeviceProofs ----------------------------
(***************************************************************************)
(* What holds of devices in every reachable state, for any number of       *)
(* devices, indices, restarts and messages.                                *)
(***************************************************************************)
EXTENDS DeviceTransportProofs, DeviceHandshakeProofs

(* Device::new and add_peer: nothing is installed, so nothing can be wrong.*)
LEMMA InitInv == Init => Inv
<1> SUFFICES ASSUME Init PROVE Inv
  OBVIOUS
<1> USE DEF Init
<1>1. TypeOK
  BY InitiatorsAssumption DEF TypeOK, PerPeer, Setup
<1>2. \A d, q \in Devices : Sessions(d, q) = {} /\ pending[d][q] = {}
  BY DEF Sessions
<1> QED
  BY <1>1, <1>2
  DEF Inv, KeysDrawn, ResponsesInstalled, PendingUnused, EndsInPlace,
      SessionsInstalled, DatagramsInstalled, SlotsDiffer, NonceFresh,
      OpenedSeen, ConfirmedIsShared, SentIsReadable, Sessions

(* A step that only empties slots and abandons handshakes.                 *)
LEMMA ShrinkInv ==
    ASSUME Inv, TypeOK',
           \A d, q \in Devices :
              /\ current'[d][q] \subseteq current[d][q]
              /\ previous'[d][q] \subseteq previous[d][q]
              /\ pending'[d][q] \subseteq pending[d][q],
           UNCHANGED <<ephemerals, network, installed, opened>>
    PROVE  Inv'
<1> USE DEF Inv, network
<1>0. \A d, q \in Devices : Sessions(d, q)' \subseteq Sessions(d, q)
  BY DEF Sessions
<1>1. KeysDrawn'
  BY DEF KeysDrawn
<1>2. ResponsesInstalled' /\ EndsInPlace' /\ DatagramsInstalled' /\ SentIsReadable'
  BY DEF ResponsesInstalled, EndsInPlace, DatagramsInstalled, SentIsReadable
<1>3. PendingUnused'
  BY DEF PendingUnused
<1>4. SessionsInstalled' /\ ConfirmedIsShared'
  BY <1>0 DEF SessionsInstalled, ConfirmedIsShared
<1>5. SlotsDiffer'
  BY DEF SlotsDiffer
<1>6. NonceFresh' /\ OpenedSeen'
  BY <1>0 DEF NonceFresh, OpenedSeen
<1> QED BY <1>1, <1>2, <1>3, <1>4, <1>5, <1>6

(* expire_sessions, alone or in a failing call: slots only lose sessions.  *)
LEMMA ExpireInv ==
    ASSUME Inv, NEW d \in Devices, NEW visited \in SUBSET Devices,
           ExpireSessions(d, visited)
    PROVE  Inv'
<1> PICK q \in visited :
       /\ current' = Swept(current, d, visited, q, Usable(current[d][q]))
       /\ previous' = Swept(previous, d, visited, q, Usable(previous[d][q]))
  BY DEF ExpireSessions
<1>0. TypeOK /\ q \in Devices
  BY DEF Inv
<1>1. /\ current[d][q] \in SUBSET Session /\ previous[d][q] \in SUBSET Session
      /\ current \in PerPeer(SUBSET Session)
      /\ previous \in PerPeer(SUBSET Session)
  BY <1>0 DEF TypeOK, PerPeer
<1>2. /\ Usable(current[d][q]) \in SUBSET Session
      /\ Usable(previous[d][q]) \in SUBSET Session
      /\ Usable(current[d][q]) \subseteq current[d][q]
      /\ Usable(previous[d][q]) \subseteq previous[d][q]
  BY <1>1 DEF Usable
<1>3. /\ current' \in PerPeer(SUBSET Session)
      /\ \A e, p \in Devices : current'[e][p] \subseteq current[e][p]
  BY <1>0, <1>1 DEF Swept, PerPeer, Usable
<1>4. /\ previous' \in PerPeer(SUBSET Session)
      /\ \A e, p \in Devices : previous'[e][p] \subseteq previous[e][p]
  BY <1>0, <1>1 DEF Swept, PerPeer, Usable
<1>5. TypeOK'
  BY <1>0, <1>3, <1>4 DEF ExpireSessions, network, TypeOK
<1> QED BY <1>3, <1>4, <1>5, ShrinkInv DEF ExpireSessions

(* Time passing changes no session.                                        *)
LEMMA TickInv == ASSUME Inv, Tick PROVE Inv'
<1>1. TypeOK'
  BY DEF Inv, TypeOK, Tick, slots, network
<1> QED BY <1>1, ShrinkInv DEF Tick, slots

(* set_initiating forgets a handshake at most.                             *)
LEMMA SetInitiatingInv ==
    ASSUME Inv, NEW d \in Devices, NEW q \in Devices, NEW on \in BOOLEAN,
           SetInitiating(d, q, on)
    PROVE  Inv'
<1>0. pending \in PerPeer(SUBSET Handshake) /\ TypeOK
  BY DEF Inv, TypeOK
<1>1. /\ pending' \in PerPeer(SUBSET Handshake)
      /\ \A e, p \in Devices : pending'[e][p] \subseteq pending[e][p]
  <2>1. CASE on
    BY <1>0, <2>1 DEF SetInitiating
  <2>2. CASE ~on
    <3>1. pending' = [pending EXCEPT ![d][q] = {}]
      BY <2>2 DEF SetInitiating, ClearPending
    <3> QED BY <1>0, <3>1 DEF PerPeer
  <2> QED BY <2>1, <2>2
<1>2. initiating' \in [Devices -> SUBSET Devices]
  BY <1>0 DEF TypeOK, SetInitiating
<1>3. TypeOK'
  BY <1>0, <1>1, <1>2 DEF TypeOK, SetInitiating, network
<1> QED BY <1>1, <1>3, ShrinkInv DEF SetInitiating

(* A restart forgets all sessions and handshakes; keys stay spent.         *)
LEMMA RestartInv ==
    ASSUME Inv, NEW d \in Devices, Restart(d)
    PROVE  Inv'
<1>0. TypeOK
  BY DEF Inv
<1>1. TypeOK'
  BY <1>0, InitiatorsAssumption DEF TypeOK, PerPeer, Restart, Setup, network
<1>2. \A e, p \in Devices :
         /\ current'[e][p] \subseteq current[e][p]
         /\ previous'[e][p] \subseteq previous[e][p]
         /\ pending'[e][p] \subseteq pending[e][p]
  BY <1>0 DEF TypeOK, PerPeer, Restart
<1> QED BY <1>1, <1>2, ShrinkInv DEF Restart

(* Every step keeps the invariant.                                         *)
LEMMA NextInv ==
    ASSUME Inv, Next
    PROVE  Inv'
<1>1. CASE Tick
  BY <1>1, TickInv
<1>2. ASSUME NEW d \in Devices, Receive(d)
      PROVE  Inv'
  BY <1>2, RespondInv, CompleteInv, OpenInv DEF Receive
<1>3. ASSUME NEW d \in Devices, Operate(d)
      PROVE  Inv'
  <2>1. CASE PollHandshakes(d)
    BY <2>1, PollHandshakesInv
  <2>2. CASE PollTimers(d)
    BY <2>2, SendInv DEF PollTimers
  <2>3. ASSUME NEW q \in Devices, NEW body \in Payload,
               Encapsulate(d, q, body)
        PROVE  Inv'
    BY <2>3, SendInv DEF Encapsulate
  <2>4. ASSUME NEW q \in Devices,
               ExpireSessions(d, UpTo(q)) \/ ExpireSessions(d, {q})
        PROVE  Inv'
    BY <2>4, ExpireInv DEF UpTo
  <2>5. ASSUME NEW q \in Devices, NEW on \in BOOLEAN, SetInitiating(d, q, on)
        PROVE  Inv'
    BY <2>5, SetInitiatingInv
  <2>6. CASE Restart(d)
    BY <2>6, RestartInv
  <2> QED BY <1>3, <2>1, <2>2, <2>3, <2>4, <2>5, <2>6, Zenon DEF Operate
<1> QED BY <1>1, <1>2, <1>3 DEF Next

(* A step that changes nothing keeps the invariant.                        *)
LEMMA InvStutters == ASSUME Inv, UNCHANGED vars PROVE Inv'
BY DEF vars, Inv, TypeOK, KeysDrawn, ResponsesInstalled, PendingUnused,
    EndsInPlace, SessionsInstalled, DatagramsInstalled, SlotsDiffer,
    NonceFresh, OpenedSeen, ConfirmedIsShared, SentIsReadable, Sessions

(* However devices rekey, restart and lose, repeat or reorder messages, the*)
(* inductive invariant holds in every reachable state.                     *)
THEOREM DeviceInvariant == Spec => []Inv
<1>1. Inv /\ [Next]_vars => Inv'
  BY NextInv, InvStutters
<1> QED BY InitInv, <1>1, PTL DEF Spec

(* Session::seal never encrypts two packets of a key under one nonce.      *)
THEOREM NoncesFresh == Spec => []NonceFresh
<1>1. Inv => NonceFresh
  BY DEF Inv
<1> QED BY DeviceInvariant, <1>1, PTL

(* Session::open accepts a packet at most once, across promotions of the   *)
(* previous session and repeated handshakes.                               *)
THEOREM NothingOpensTwice == Spec => []OpenedOnce
<1>1. Inv => OpenedOnce
  BY DEF Inv, OpenedSeen, OpenedOnce, Opens, Fresh
<1> QED BY DeviceInvariant, <1>1, PTL

(* encapsulate and poll_timers send only what the peer can read.           *)
THEOREM SendsAreReadable == Spec => [](ConfirmedIsShared /\ SentIsReadable)
<1>1. Inv => ConfirmedIsShared /\ SentIsReadable
  BY DEF Inv
<1> QED BY DeviceInvariant, <1>1, PTL

-----------------------------------------------------------------------------
(* The slots.  What a step does to the slots and the handshake of one peer *)
(* is one of a few things.                                                 *)

(* Session t is what a step made of session s: it is s, or s was usable.   *)
Continues(s, t) ==
    /\ t.key = s.key /\ t.role = s.role
    /\ t.local_index = s.local_index /\ t.established = s.established
    /\ t # s => now - s.established < REJECT_AFTER_TIME

(* The sessions stay where they are, or are retired.                       *)
Stay(d, q) ==
    /\ \A t \in current'[d][q] : \E s \in current[d][q] : Continues(s, t)
    /\ \A s, t \in current'[d][q] : s = t
    /\ previous'[d][q] \subseteq previous[d][q]

(* open_data makes the previous session the current one.                   *)
Promoted(d, q) ==
    /\ \E s \in previous[d][q] : \A t \in current'[d][q] : Continues(s, t)
    /\ \A s, t \in current'[d][q] : s = t
    /\ previous'[d][q] = {}

(* respond_to_initiation and complete_handshake.                           *)
Installed(d, q) ==
    /\ \A t \in current'[d][q] :
          /\ t.established = now
          /\ \A s \in current[d][q] : s.local_index # t.local_index
          /\ [dev |-> d, key |-> t.key, role |-> t.role] \notin installed
    /\ \A s, t \in current'[d][q] : s = t
    /\ previous'[d][q] = current[d][q] /\ pending'[d][q] = {}

(* start_handshake, for the first time or again.                           *)
Begun(d, q) ==
    \A h \in pending'[d][q] :
        /\ h.last_sent = now
        /\ h.since = now \/ \E g \in pending[d][q] : h.since = g.since
        /\ \A s \in Sessions(d, q) : s.local_index # h.local_index

SlotStep(d, q) ==
    \/ Installed(d, q)
    \/ /\ Stay(d, q) \/ Promoted(d, q)
       /\ pending'[d][q] \subseteq pending[d][q] \/ Begun(d, q)

(* Strengthening of SlotsDistinct and StallCountsFromLastSession: no       *)
(* session has the index of the handshake that is to replace it.           *)
SlotsRight(d, q) ==
    /\ \A s, t \in current[d][q] : s = t
    /\ \A s, t \in previous[d][q] : s = t
    /\ \A s \in current[d][q], t \in previous[d][q] :
          s.local_index # t.local_index
    /\ \A s \in Sessions(d, q) : s.established <= now
    /\ \A h \in pending[d][q] :
          /\ h.since <= h.last_sent /\ h.last_sent <= now
          /\ \A s \in Sessions(d, q) :
                s.local_index # h.local_index /\ s.established <= h.since

SlotInv == \A d, q \in Devices : SlotsRight(d, q)

(* A slot that lost sessions at most.                                      *)
LEMMA StayFromSubset ==
    ASSUME SlotInv, NEW d \in Devices, NEW q \in Devices,
           current'[d][q] \subseteq current[d][q],
           previous'[d][q] \subseteq previous[d][q]
    PROVE  Stay(d, q)
BY DEF SlotInv, SlotsRight, Stay, Continues

(* The calls that seal: encapsulate and poll_timers.                       *)
LEMMA SendSlots ==
    ASSUME Inv, SlotInv, NEW d \in Devices, NEW q \in Devices, NEW visited, NEW body,
           Send(d, q, visited, body), NEW e \in Devices, NEW p \in Devices
    PROVE  SlotStep(e, p)
<1>0. current \in PerPeer(SUBSET Session) /\ previous \in PerPeer(SUBSET Session)
  BY DEF Inv, TypeOK
<1>1. PICK s \in Usable(current[d][q]) :
        /\ current' = Swept(current, d, visited, q, {Sealed(s)})
        /\ previous' = Swept(previous, d, visited, q, Usable(previous[d][q]))
  BY Zenon DEF Send
<1>p. pending' = pending
  BY Zenon DEF Send
<1>2. s \in current[d][q] /\ s \in Session /\ now - s.established < REJECT_AFTER_TIME
  BY <1>0, <1>1 DEF Usable, IsUsable, PerPeer
<1>3. Continues(s, Sealed(s))
  BY <1>2 DEF Continues, Sealed, Session
<1>4. CASE e = d /\ p = q
  <2>1. current'[d][q] = {Sealed(s)} /\ previous'[d][q] \subseteq previous[d][q]
    BY <1>0, <1>1, SMT DEF Swept, PerPeer, Usable
  <2> QED BY <1>p, <1>2, <1>3, <1>4, <2>1 DEF SlotStep, Stay
<1>5. CASE e # d \/ p # q
  <2>1. current'[e][p] \subseteq current[e][p] /\ previous'[e][p] \subseteq previous[e][p]
    BY <1>0, <1>1, <1>5, SMT DEF Swept, PerPeer, Usable
  <2> QED BY <1>p, <2>1, StayFromSubset DEF SlotStep
<1> QED BY <1>4, <1>5

(* open_data, under either session.                                        *)
LEMMA OpenSlots ==
    ASSUME Inv, SlotInv, NEW d \in Devices, NEW m, OpenData(d, m),
           NEW e \in Devices, NEW p \in Devices
    PROVE  SlotStep(e, p)
<1>0. current \in PerPeer(SUBSET Session) /\ previous \in PerPeer(SUBSET Session)
  BY DEF Inv, TypeOK
<1>1. PICK q \in Devices : OpenCurrent(d, q, m) \/ OpenPrevious(d, q, m)
  BY Zenon DEF OpenData
<1>2. pending' = pending
  BY DEF OpenData
<1>3. ASSUME NEW s \in Session, NEW slot, s \in Usable(slot)
      PROVE  s \in slot /\ Continues(s, Opened(s, m))
  BY <1>3 DEF Usable, IsUsable, Continues, Opened, Session
<1>4. CASE OpenCurrent(d, q, m)
  <2>1. PICK s \in Usable(current[d][q]) :
          /\ current' = Swept(current, d, UpTo(q), q, {Opened(s, m)})
          /\ previous' = Swept(previous, d, UpTo(q), q, Usable(previous[d][q]))
    BY <1>4, Zenon DEF OpenCurrent
  <2>2. s \in Session
    BY <1>0, <2>1 DEF Usable, PerPeer
  <2>3. s \in current[d][q] /\ Continues(s, Opened(s, m))
    BY <1>3, <2>1, <2>2
  <2>4. CASE e = d /\ p = q
    <3>1. current'[d][q] = {Opened(s, m)} /\ previous'[d][q] \subseteq previous[d][q]
      BY <1>0, <2>1, SMT DEF Swept, PerPeer, Usable
    <3> QED BY <1>2, <2>3, <2>4, <3>1 DEF SlotStep, Stay
  <2>5. CASE e # d \/ p # q
    <3>1. current'[e][p] \subseteq current[e][p] /\ previous'[e][p] \subseteq previous[e][p]
      BY <1>0, <2>1, <2>5, SMT DEF Swept, PerPeer, Usable
    <3> QED BY <1>2, <3>1, StayFromSubset DEF SlotStep
  <2> QED BY <2>4, <2>5
<1>5. CASE OpenPrevious(d, q, m)
  <2>1. PICK s \in Usable(previous[d][q]) :
          /\ current' = Swept(current, d, UpTo(q), q, {Opened(s, m)})
          /\ previous' = Swept(previous, d, UpTo(q), q, {})
    BY <1>5, Zenon DEF OpenPrevious
  <2>2. s \in Session
    BY <1>0, <2>1 DEF Usable, PerPeer
  <2>3. s \in previous[d][q] /\ Continues(s, Opened(s, m))
    BY <1>3, <2>1, <2>2
  <2>4. CASE e = d /\ p = q
    <3>1. current'[d][q] = {Opened(s, m)} /\ previous'[d][q] = {}
      BY <1>0, <2>1, SMT DEF Swept, PerPeer, Usable
    <3> QED BY <1>2, <2>3, <2>4, <3>1 DEF SlotStep, Promoted
  <2>5. CASE e # d \/ p # q
    <3>1. current'[e][p] \subseteq current[e][p] /\ previous'[e][p] \subseteq previous[e][p]
      BY <1>0, <2>1, <2>5, SMT DEF Swept, PerPeer, Usable
    <3> QED BY <1>2, <3>1, StayFromSubset DEF SlotStep
  <2> QED BY <2>4, <2>5
<1> QED BY <1>1, <1>4, <1>5

(* respond_to_initiation: the ephemeral it draws makes the key a new one.  *)
LEMMA RespondSlots ==
    ASSUME Inv, SlotInv, NEW d \in Devices, NEW m \in initiations,
           RespondToInitiation(d, m), NEW e \in Devices, NEW p \in Devices
    PROVE  SlotStep(e, p)
<1> DEFINE q == m.from
           k == [ini |-> q, n |-> m.n, res |-> d, m |-> ephemerals[d] + 1]
<1>0. /\ current \in PerPeer(SUBSET Session) /\ previous \in PerPeer(SUBSET Session)
      /\ pending \in PerPeer(SUBSET Handshake) /\ ephemerals[d] \in Nat
      /\ q \in Devices /\ installed \subseteq End
  BY DEF Inv, TypeOK, Initiation
<1>1. PICK i \in Free(d) :
        /\ previous' = [previous EXCEPT ![d][q] = current[d][q]]
        /\ current' = [current EXCEPT ![d][q] =
               {NewSession(k, "responder", i, m.sender, FALSE)}]
        /\ pending' = [pending EXCEPT ![d][q] = {}]
  BY Zenon DEF RespondToInitiation, ClearPending
<1>2. CASE e = d /\ p = q
  <2> DEFINE t == NewSession(k, "responder", i, m.sender, FALSE)
  <2>0. /\ current' = [current EXCEPT ![d][q] = {t}]
        /\ previous' = [previous EXCEPT ![d][q] = current[d][q]]
        /\ pending' = [pending EXCEPT ![d][q] = {}]
    BY <1>1, Zenon
  <2>1. current'[d][q] = {t} /\ previous'[d][q] = current[d][q] /\ pending'[d][q] = {}
    <3> HIDE DEF t
    <3> QED BY <1>0, <2>0 DEF PerPeer
  <2>2. /\ t.established = now /\ t.local_index = i
        /\ t.key = k /\ t.role = "responder"
    BY DEF NewSession
  <2>3. \A s \in current[d][q] : s.local_index # i
    BY <1>0 DEF Free
  <2>4. [dev |-> d, key |-> k, role |-> "responder"] \notin installed
    <3>1. k.m = ephemerals[d] + 1 /\ k.res = d
      OBVIOUS
    <3>2. ASSUME NEW end \in installed, end.key = k
          PROVE  FALSE
      BY <1>0, <3>1, <3>2 DEF Inv, KeysDrawn
    <3> QED BY <3>2
  <2> HIDE DEF t, k
  <2>5. Installed(d, q)
    BY <2>1, <2>2, <2>3, <2>4 DEF Installed
  <2> QED BY <1>2, <2>5 DEF SlotStep
<1>3. CASE e # d \/ p # q
  <2>1. /\ current'[e][p] = current[e][p] /\ previous'[e][p] = previous[e][p]
        /\ pending'[e][p] = pending[e][p]
    BY <1>0, <1>1, <1>3 DEF PerPeer
  <2> QED BY <2>1, StayFromSubset DEF SlotStep
<1> QED BY <1>2, <1>3

(* complete_handshake: the ephemeral of the handshake has made no session. *)
LEMMA CompleteSlots ==
    ASSUME Inv, SlotInv, NEW d \in Devices, NEW m \in responses,
           CompleteHandshake(d, m), NEW e \in Devices, NEW p \in Devices
    PROVE  SlotStep(e, p)
<1>0. /\ current \in PerPeer(SUBSET Session) /\ previous \in PerPeer(SUBSET Session)
      /\ pending \in PerPeer(SUBSET Handshake)
  BY DEF Inv, TypeOK
<1>q. PICK q \in Devices : \E h \in pending[d][q] :
        /\ h.n = m.key.n
        /\ previous' = [previous EXCEPT ![d][q] = current[d][q]]
        /\ current' = [current EXCEPT ![d][q] =
               {Sealed(NewSession(m.key, "initiator", h.local_index, m.sender, TRUE))}]
        /\ pending' = [pending EXCEPT ![d][q] = {}]
  BY Zenon DEF CompleteHandshake, ClearPending
<1>1. PICK h \in pending[d][q] :
        /\ h.n = m.key.n
        /\ previous' = [previous EXCEPT ![d][q] = current[d][q]]
        /\ current' = [current EXCEPT ![d][q] =
               {Sealed(NewSession(m.key, "initiator", h.local_index, m.sender, TRUE))}]
        /\ pending' = [pending EXCEPT ![d][q] = {}]
  BY <1>q, Zenon
<1>2. CASE e = d /\ p = q
  <2> DEFINE t == Sealed(NewSession(m.key, "initiator", h.local_index, m.sender, TRUE))
  <2>0. /\ current' = [current EXCEPT ![d][q] = {t}]
        /\ previous' = [previous EXCEPT ![d][q] = current[d][q]]
        /\ pending' = [pending EXCEPT ![d][q] = {}]
    BY <1>1, Zenon
  <2>1. current'[d][q] = {t} /\ previous'[d][q] = current[d][q] /\ pending'[d][q] = {}
    <3> HIDE DEF t
    <3> QED BY <1>0, <2>0 DEF PerPeer
  <2>2. /\ t.established = now /\ t.local_index = h.local_index
        /\ t.key = m.key /\ t.role = "initiator"
    BY DEF NewSession, Sealed
  <2>3. \A s \in current[d][q] : s.local_index # h.local_index
    BY <1>1 DEF SlotInv, SlotsRight, Sessions
  <2>4. [dev |-> d, key |-> m.key, role |-> "initiator"] \notin installed
    BY <1>1 DEF Inv, PendingUnused
  <2> HIDE DEF t
  <2>5. Installed(d, q)
    BY <2>1, <2>2, <2>3, <2>4 DEF Installed
  <2> QED BY <1>2, <2>5 DEF SlotStep
<1>3. CASE e # d \/ p # q
  <2>1. /\ current'[e][p] = current[e][p] /\ previous'[e][p] = previous[e][p]
        /\ pending'[e][p] = pending[e][p]
    BY <1>0, <1>1, <1>3 DEF PerPeer
  <2> QED BY <2>1, StayFromSubset DEF SlotStep
<1> QED BY <1>2, <1>3

(* poll_handshakes: an index no session has, and the time of the first try.*)
LEMMA PollSlots ==
    ASSUME Inv, SlotInv, NEW d \in Devices, PollHandshakes(d),
           NEW e \in Devices, NEW p \in Devices
    PROVE  SlotStep(e, p)
<1>0. /\ current \in PerPeer(SUBSET Session) /\ previous \in PerPeer(SUBSET Session)
      /\ pending \in PerPeer(SUBSET Handshake)
  BY DEF Inv, TypeOK
<1>1. PICK q \in Devices :
        /\ StartHandshake(d, q)
        /\ current' = Swept(current, d, UpTo(q), q, Usable(current[d][q]))
        /\ previous' = Swept(previous, d, UpTo(q), q, Usable(previous[d][q]))
  BY Zenon DEF PollHandshakes
<1> DEFINE begun == {h.since : h \in pending[d][q]}
           since == IF begun = {} THEN now ELSE CHOOSE t \in begun : TRUE
           begins(i) == [n |-> ephemerals[d] + 1, local_index |-> i,
                         since |-> since, last_sent |-> now]
<1>2. PICK i \in Free(d) : pending' = [pending EXCEPT ![d][q] = {begins(i)}]
  BY <1>1, Zenon DEF StartHandshake
<1>3. current'[e][p] \subseteq current[e][p] /\ previous'[e][p] \subseteq previous[e][p]
  BY <1>0, <1>1, SMT DEF Swept, PerPeer, Usable
<1>4. Stay(e, p)
  BY <1>3, StayFromSubset
<1>5. CASE e = d /\ p = q
  <2>1. since = now \/ \E g \in pending[d][q] : since = g.since
    <3>1. begun = {} => since = now
      OBVIOUS
    <3>2. begun # {} => since \in begun
      <4> HIDE DEF begun
      <4> QED OBVIOUS
    <3>3. \A t \in begun : \E g \in pending[d][q] : t = g.since
      OBVIOUS
    <3> HIDE DEF begun, since
    <3> QED BY <3>1, <3>2, <3>3
  <2>2. pending'[d][q] = {begins(i)}
    <3> HIDE DEF begins
    <3> QED BY <1>0, <1>2 DEF PerPeer
  <2>3. \A s \in Sessions(d, q) : s.local_index # i
    BY DEF Free, Sessions
  <2>4. Begun(d, q)
    <3>1. /\ begins(i).last_sent = now /\ begins(i).since = since
          /\ begins(i).local_index = i
      OBVIOUS
    <3> HIDE DEF begins, since
    <3> QED BY <2>1, <2>2, <2>3, <3>1 DEF Begun
  <2> QED BY <1>4, <1>5, <2>4 DEF SlotStep
<1>6. CASE e # d \/ p # q
  <2>1. pending'[e][p] = pending[e][p]
    BY <1>0, <1>2, <1>6 DEF PerPeer
  <2> QED BY <1>4, <2>1 DEF SlotStep
<1> QED BY <1>5, <1>6

(* What only retires sessions and abandons handshakes.                     *)
LEMMA ShrinkSlots ==
    ASSUME Inv, SlotInv, NEW e \in Devices, NEW p \in Devices,
           \/ Tick
           \/ UNCHANGED vars
           \/ \E d \in Devices :
                 \/ \E q \in Devices :
                       \/ ExpireSessions(d, UpTo(q)) \/ ExpireSessions(d, {q})
                       \/ \E on \in BOOLEAN : SetInitiating(d, q, on)
                 \/ Restart(d)
    PROVE  SlotStep(e, p)
<1>0. /\ current \in PerPeer(SUBSET Session) /\ previous \in PerPeer(SUBSET Session)
      /\ pending \in PerPeer(SUBSET Handshake)
  BY DEF Inv, TypeOK
<1> DEFINE shrinks == /\ current'[e][p] \subseteq current[e][p]
                      /\ previous'[e][p] \subseteq previous[e][p]
                      /\ pending'[e][p] \subseteq pending[e][p]
<1> SUFFICES shrinks
  BY StayFromSubset DEF SlotStep
<1>1. CASE Tick \/ UNCHANGED vars
  BY <1>1 DEF Tick, vars, slots
<1>2. ASSUME NEW d \in Devices, NEW visited \in SUBSET Devices, ExpireSessions(d, visited)
      PROVE  shrinks
  <2>1. PICK q \in visited :
          /\ current' = Swept(current, d, visited, q, Usable(current[d][q]))
          /\ previous' = Swept(previous, d, visited, q, Usable(previous[d][q]))
    BY <1>2, Zenon DEF ExpireSessions
  <2>2. pending' = pending
    BY <1>2 DEF ExpireSessions
  <2> QED BY <1>0, <2>1, <2>2, SMT DEF Swept, PerPeer, Usable
<1>3. ASSUME NEW d \in Devices, NEW q \in Devices, NEW on \in BOOLEAN, SetInitiating(d, q, on)
      PROVE  shrinks
  <2>1. pending' = pending \/ pending' = [pending EXCEPT ![d][q] = {}]
    BY <1>3, Zenon DEF SetInitiating, ClearPending
  <2>2. current' = current /\ previous' = previous
    BY <1>3, Zenon DEF SetInitiating
  <2> QED BY <1>0, <2>1, <2>2 DEF PerPeer
<1>4. ASSUME NEW d \in Devices, Restart(d)
      PROVE  shrinks
  BY <1>0, <1>4 DEF PerPeer, Restart
<1>5. \A q \in Devices : UpTo(q) \in SUBSET Devices /\ {q} \in SUBSET Devices
  BY DEF UpTo
<1>6. ASSUME NEW d \in Devices, NEW q \in Devices,
             ExpireSessions(d, UpTo(q)) \/ ExpireSessions(d, {q})
      PROVE  shrinks
  BY <1>2, <1>5, <1>6
<1> HIDE DEF shrinks
<1> QED BY <1>1, <1>3, <1>4, <1>6, Zenon

(* Every step does one of these things to the slots of every peer.         *)
LEMMA NextSlots ==
    ASSUME Inv, SlotInv, [Next]_vars, NEW e \in Devices, NEW p \in Devices
    PROVE  SlotStep(e, p)
<1>1. CASE Tick \/ UNCHANGED vars
  BY <1>1, ShrinkSlots
<1>2. ASSUME NEW d \in Devices, Receive(d)
      PROVE  SlotStep(e, p)
  BY <1>2, RespondSlots, CompleteSlots, OpenSlots DEF Receive
<1>3. ASSUME NEW d \in Devices, Operate(d)
      PROVE  SlotStep(e, p)
  <2>1. CASE PollHandshakes(d)
    BY <2>1, PollSlots
  <2>2. CASE PollTimers(d)
    <3> PICK q \in Devices : Send(d, q, UpTo(q), "keepalive")
      BY <2>2, Zenon DEF PollTimers
    <3> QED BY SendSlots
  <2>3. ASSUME NEW q \in Devices, NEW body \in Payload, Encapsulate(d, q, body)
        PROVE  SlotStep(e, p)
    <3> Send(d, q, {q}, body)
      BY <2>3 DEF Encapsulate
    <3> QED BY SendSlots
  <2>4. ASSUME NEW q \in Devices,
               \/ ExpireSessions(d, UpTo(q)) \/ ExpireSessions(d, {q})
               \/ \E on \in BOOLEAN : SetInitiating(d, q, on)
        PROVE  SlotStep(e, p)
    BY <2>4, ShrinkSlots, Zenon
  <2>5. CASE Restart(d)
    BY <2>5, ShrinkSlots, Zenon
  <2> QED BY <1>3, <2>1, <2>2, <2>3, <2>4, <2>5, Zenon DEF Operate
<1> QED BY <1>1, <1>2, <1>3 DEF Next

(* The slots stay right: what replaces a session is newer, and has an      *)
(* index of its own.                                                       *)
LEMMA SlotsStayRight ==
    ASSUME TypeOK, TypeOK', NEW d \in Devices, NEW q \in Devices,
           now <= now', SlotsRight(d, q), SlotStep(d, q)
    PROVE  SlotsRight(d, q)'
<1>0. /\ now \in Nat /\ now' \in Nat
      /\ \A s \in Sessions(d, q) : s.established \in Nat
      /\ \A h \in pending[d][q] : h.since \in Nat /\ h.last_sent \in Nat
  BY DEF TypeOK, PerPeer, Sessions, Session, Handshake
<1>1. CASE Installed(d, q)
  <2>1. Sessions(d, q)' = current'[d][q] \union current[d][q]
    BY <1>1 DEF Installed, Sessions
  <2>2. \A s \in current'[d][q] : s.established <= now'
    <3>1. \A s \in current'[d][q] : s.established = now
      BY <1>1, Zenon DEF Installed
    <3> QED BY <3>1
  <2>3. \A s \in current[d][q] : s.established <= now'
    <3>1. \A s \in current[d][q] : s.established \in Nat /\ s.established <= now
      BY <1>0 DEF SlotsRight, Sessions
    <3> QED BY <1>0, <3>1
  <2>4. /\ \A s, t \in current'[d][q] : s = t
        /\ \A s, t \in previous'[d][q] : s = t
        /\ \A s \in current'[d][q], t \in previous'[d][q] :
              s.local_index # t.local_index
    <3>1. /\ \A s, t \in current'[d][q] : s = t
          /\ \A t \in current'[d][q], s \in current[d][q] :
                s.local_index # t.local_index
          /\ previous'[d][q] = current[d][q]
      BY <1>1, Zenon DEF Installed
    <3>2. \A s, t \in current[d][q] : s = t
      BY Zenon DEF SlotsRight
    <3> QED BY <3>1, <3>2
  <2>5. pending'[d][q] = {}
    BY <1>1, Zenon DEF Installed
  <2>6. \A s \in Sessions(d, q)' : s.established <= now'
    BY <2>1, <2>2, <2>3
  <2> QED BY <2>4, <2>5, <2>6, Zenon DEF SlotsRight
<1>2. CASE /\ Stay(d, q) \/ Promoted(d, q)
           /\ pending'[d][q] \subseteq pending[d][q] \/ Begun(d, q)
  <2>1. \A t \in Sessions(d, q)' : \E s \in Sessions(d, q) :
           t.local_index = s.local_index /\ t.established = s.established
    BY <1>2 DEF Stay, Promoted, Continues, Sessions
  <2>2. /\ \A s, t \in current'[d][q] : s = t
        /\ \A s, t \in previous'[d][q] : s = t
        /\ \A s \in current'[d][q], t \in previous'[d][q] :
              s.local_index # t.local_index
    <3>0. /\ \A s, t \in previous[d][q] : s = t
          /\ \A s \in current[d][q], t \in previous[d][q] :
                s.local_index # t.local_index
      BY Zenon DEF SlotsRight
    <3>1. CASE Stay(d, q)
      BY <3>0, <3>1 DEF Stay, Continues
    <3>2. CASE Promoted(d, q)
      BY <3>2 DEF Promoted
    <3> QED BY <1>2, <3>1, <3>2
  <2>3. \A s \in Sessions(d, q) : s.established <= now'
    BY <1>0 DEF SlotsRight
  <2>4. \A h \in pending'[d][q] :
          /\ h.since <= h.last_sent /\ h.last_sent <= now'
          /\ \A s \in Sessions(d, q) :
                s.local_index # h.local_index /\ s.established <= h.since
    <3>1. CASE pending'[d][q] \subseteq pending[d][q]
      BY <1>0, <3>1 DEF SlotsRight
    <3>2. CASE Begun(d, q)
      BY <1>0, <3>2 DEF SlotsRight, Begun
    <3> QED BY <1>2, <3>1, <3>2
  <2>5. /\ \A t \in Sessions(d, q)' : t.established <= now'
        /\ \A h \in pending'[d][q], t \in Sessions(d, q)' :
              t.local_index # h.local_index /\ t.established <= h.since
    BY <2>1, <2>3, <2>4
  <2> QED BY <2>2, <2>4, <2>5 DEF SlotsRight
<1> QED BY <1>1, <1>2 DEF SlotStep

(* The clock never runs back.                                              *)
LEMMA ClockRises == ASSUME TypeOK, [Next]_vars PROVE now <= now'
<1>1. now \in Nat
  BY DEF TypeOK
<1>2. now' = now \/ now' = now + 1
  <2>1. CASE Tick \/ UNCHANGED vars
    BY <2>1, Zenon DEF Tick, vars
  <2>2. ASSUME NEW d \in Devices, Receive(d) \/ Operate(d)
        PROVE  now' = now
    BY <2>2, Zenon
    DEF Receive, Operate, RespondToInitiation, CompleteHandshake, OpenData,
        PollHandshakes, PollTimers, Encapsulate, Send, ExpireSessions,
        SetInitiating, Restart
  <2> QED BY <2>1, <2>2 DEF Next
<1> QED BY <1>1, <1>2

(* The slots are right to begin with, and every step keeps them so.        *)
LEMMA SlotInvHolds == Spec => [](Inv /\ SlotInv)
<1>1. Init => Inv /\ SlotInv
  BY InitInv DEF Init, SlotInv, SlotsRight, Sessions
<1>2. ASSUME Inv, SlotInv, [Next]_vars
      PROVE  Inv' /\ SlotInv'
  <2>1. Inv'
    BY <1>2, NextInv, InvStutters
  <2>2. TypeOK /\ TypeOK'
    BY <1>2, <2>1 DEF Inv
  <2>3. now <= now'
    BY <1>2, <2>2, ClockRises
  <2>4. ASSUME NEW d \in Devices, NEW q \in Devices
        PROVE  SlotsRight(d, q)'
    <3>1. SlotStep(d, q)
      BY <1>2, NextSlots
    <3>2. SlotsRight(d, q)
      BY <1>2 DEF SlotInv
    <3> QED BY <2>2, <2>3, <3>1, <3>2, SlotsStayRight
  <2> QED BY <2>1, <2>4 DEF SlotInv
<1> QED BY <1>1, <1>2, PTL DEF Spec

(* An Option that was filled, swapped and emptied in any order holds one   *)
(* session at most, and open_data finds one session for an index: current  *)
(* and previous never share theirs.                                        *)
THEOREM SlotsStayDistinct == Spec => []SlotsDistinct
<1>1. ASSUME NEW S, \A s, t \in S : s = t
      PROVE  Cardinality(S) <= 1
  <2>1. CASE S = {}
    BY <2>1, FS_EmptySet
  <2>2. CASE S # {}
    <3>1. PICK s \in S : TRUE
      BY <2>2
    <3>2. S = {s}
      BY <1>1, <3>1
    <3>3. Cardinality({s}) = 1
      BY FS_Singleton
    <3> QED BY <3>2, <3>3
  <2> QED BY <2>1, <2>2
<1>2. SlotInv => SlotsDistinct
  BY <1>1 DEF SlotInv, SlotsRight, SlotsDistinct
<1> QED BY <1>2, SlotInvHolds, PTL

(* handshake_is_stalled measures from the first attempt since the newest   *)
(* session, however start_handshake, complete_handshake,                   *)
(* respond_to_initiation and set_initiating interleave.                    *)
THEOREM StallsAreMeasured == Spec => []StallCountsFromLastSession
<1>1. SlotInv => StallCountsFromLastSession
  BY DEF SlotInv, SlotsRight, StallCountsFromLastSession
<1> QED BY <1>1, SlotInvHolds, PTL

(* A session of a peer is known by its key and role.                       *)
LEMMA SessionOfKey ==
    ASSUME Inv, SlotInv, NEW d \in Devices, NEW q \in Devices,
           NEW s \in Sessions(d, q), NEW t \in Sessions(d, q),
           s.key = t.key, s.role = t.role
    PROVE  s = t
<1>1. /\ \A r, u \in current[d][q] : r = u
      /\ \A r, u \in previous[d][q] : r = u
  BY Zenon DEF SlotInv, SlotsRight
<1>2. \A r \in current[d][q], u \in previous[d][q] : r.key # u.key \/ r.role # u.role
  BY Zenon DEF Inv, SlotsDiffer
<1> QED BY <1>1, <1>2 DEF Sessions

(* A session after a step is the continuation of one before it, or was     *)
(* installed by the step.                                                  *)
LEMMA SessionOrigin ==
    ASSUME NEW d, NEW q, SlotStep(d, q), NEW t \in Sessions(d, q)'
    PROVE  \/ \E s \in Sessions(d, q) : Continues(s, t)
           \/ [dev |-> d, key |-> t.key, role |-> t.role] \notin installed
<1>0. \A s : Continues(s, s)
  BY DEF Continues
<1>1. CASE Installed(d, q)
  BY <1>0, <1>1 DEF Installed, Sessions
<1>2. CASE Stay(d, q)
  BY <1>0, <1>2 DEF Stay, Sessions
<1>3. CASE Promoted(d, q)
  BY <1>3 DEF Promoted, Sessions
<1> QED BY <1>1, <1>2, <1>3 DEF SlotStep

(* seal and open never work under a session that has outlived              *)
(* REJECT_AFTER_TIME: expire_sessions comes first in every call that could.*)
THEOREM ExpiredStaysDead == Spec => ExpiredIsDead
<1>1. ASSUME Inv, SlotInv, [Next]_vars, NEW d \in Devices, NEW q \in Devices,
             NEW s \in Sessions(d, q), NEW t \in Sessions(d, q)',
             s.key = t.key, s.role = t.role,
             s.send_counter # t.send_counter \/ s.seen # t.seen
      PROVE  now - s.established < REJECT_AFTER_TIME
  <2>1. SlotStep(d, q)
    BY <1>1, NextSlots
  <2>2. [dev |-> d, key |-> s.key, role |-> s.role] \in installed
    BY <1>1 DEF Inv, SessionsInstalled
  <2>3. PICK r \in Sessions(d, q) : Continues(r, t)
    BY <1>1, <2>1, <2>2, SessionOrigin
  <2>4. r = s
    BY <1>1, <2>3, SessionOfKey DEF Continues
  <2>5. t # s
    BY <1>1
  <2> QED BY <2>3, <2>4, <2>5 DEF Continues
<1>2. Inv /\ SlotInv /\ [Next]_vars
        => [\A d, q \in Devices : \A s \in Sessions(d, q), t \in Sessions(d, q)' :
              /\ s.key = t.key /\ s.role = t.role
              /\ s.send_counter # t.send_counter \/ s.seen # t.seen
              => now - s.established < REJECT_AFTER_TIME]_vars
  BY <1>1
<1> QED BY <1>2, SlotInvHolds, PTL DEF Spec, ExpiredIsDead

(* complete_handshake and respond_to_initiation never install a key a      *)
(* second time at one end: a retired session stays retired, although       *)
(* initiations and responses are delivered again.                          *)
THEOREM RetiredStaysRetired == Spec => NeverResurrected
<1>1. ASSUME Inv, SlotInv, [Next]_vars, NEW d \in Devices, NEW q \in Devices,
             NEW t \in Sessions(d, q)'
      PROVE  \/ \E s \in Sessions(d, q) : s.key = t.key /\ s.role = t.role
             \/ [dev |-> d, key |-> t.key, role |-> t.role] \notin installed
  <2>1. SlotStep(d, q)
    BY <1>1, NextSlots
  <2> QED BY <1>1, <2>1, SessionOrigin DEF Continues
<1>2. Inv /\ SlotInv /\ [Next]_vars
        => [\A d, q \in Devices : \A t \in Sessions(d, q)' :
              \/ \E s \in Sessions(d, q) : s.key = t.key /\ s.role = t.role
              \/ [dev |-> d, key |-> t.key, role |-> t.role] \notin installed]_vars
  BY <1>1
<1> QED BY <1>2, SlotInvHolds, PTL DEF Spec, NeverResurrected

-----------------------------------------------------------------------------
(* What is counted.                                                        *)

(* respond_to_initiation answers an initiation once in a life of the       *)
(* device, however often and in whatever order the network delivers it:    *)
(* the timestamp check is exact.                                           *)
THEOREM AnswersOnce == Spec => []AnsweredOnce
<1>1. Init => AnswerInv
  BY FS_EmptySet DEF Init, AnswerInv
<1>2. ASSUME Inv, AnswerInv, [Next]_vars
      PROVE  AnswerInv'
  <2>1. CASE Tick \/ UNCHANGED vars
    BY <1>2, <2>1, OtherAnswers DEF Tick, vars, network
  <2>2. ASSUME NEW d \in Devices, Receive(d)
        PROVE  AnswerInv'
    <3>1. CASE \E m \in initiations : RespondToInitiation(d, m)
      BY <1>2, <3>1, RespondAnswers
    <3>2. CASE \E m : CompleteHandshake(d, m) \/ OpenData(d, m)
      <4>1. UNCHANGED <<responses, initiations, restarts, last_timestamp>>
        BY <3>2, Zenon DEF CompleteHandshake, OpenData, network
      <4> QED BY <1>2, <4>1, OtherAnswers
    <3> QED BY <2>2, <3>1, <3>2, Zenon DEF Receive
  <2>3. ASSUME NEW d \in Devices, Operate(d)
        PROVE  AnswerInv'
    <3>1. CASE PollHandshakes(d)
      BY <1>2, <3>1, PollAnswers
    <3>2. CASE Restart(d)
      BY <1>2, <3>2, RestartAnswers
    <3>3. ASSUME \/ PollTimers(d)
                 \/ \E q \in Devices :
                       \/ \E body \in Payload : Encapsulate(d, q, body)
                       \/ ExpireSessions(d, UpTo(q)) \/ ExpireSessions(d, {q})
                       \/ \E on \in BOOLEAN : SetInitiating(d, q, on)
          PROVE  AnswerInv'
      <4>1. UNCHANGED <<responses, initiations, restarts, last_timestamp>>
        BY <3>3, Zenon
        DEF PollTimers, Encapsulate, Send, ExpireSessions, SetInitiating, network
      <4> QED BY <1>2, <4>1, OtherAnswers
    <3> QED BY <2>3, <3>1, <3>2, <3>3, Zenon DEF Operate
  <2> QED BY <1>2, <2>1, <2>2, <2>3 DEF Next
<1>3. AnswerInv => AnsweredOnce
  BY DEF AnswerInv, AnswersBounded, Answers, AnsweredOnce
<1> QED BY <1>1, <1>2, <1>3, DeviceInvariant, PTL DEF Spec

(* Two idle peers do not ping forever: over any run a device sends no more *)
(* keepalives than handshakes it completed (handle_udp) and packets it     *)
(* received (open_data, poll_timers).                                      *)
THEOREM KeepalivesArePaid == Spec => []KeepalivesAnswerData
<1>1. Init => KeepaliveInv
  <2> SUFFICES ASSUME Init, NEW d \in Devices
               PROVE  Paid(SentKeepalives(d), Armed(d), Completed(d), Received(d))
    BY DEF KeepaliveInv
  <2>1. /\ SentKeepalives(d) = {} /\ Armed(d) = {}
        /\ Completed(d) = {} /\ Received(d) = {}
    BY DEF Init, SentKeepalives, Armed, Completed, Received
  <2> QED BY <2>1, FS_EmptySet DEF Paid
<1>2. ASSUME Inv, KeepaliveInv, [Next]_vars
      PROVE  KeepaliveInv'
  <2> SUFFICES ASSUME NEW d \in Devices
               PROVE  Paid(SentKeepalives(d)', Armed(d)', Completed(d)', Received(d)')
    BY DEF KeepaliveInv, Paid
  <2>1. Paid(SentKeepalives(d), Armed(d), Completed(d), Received(d))
    BY <1>2 DEF KeepaliveInv
  <2>2. AccountStep(d)
    BY <1>2, NextAccount
  <2> QED BY <2>1, <2>2, AccountsKeepPaid DEF AccountStep
<1>3. KeepaliveInv => KeepalivesAnswerData
  <2> SUFFICES ASSUME KeepaliveInv, NEW d \in Devices
               PROVE  Cardinality(SentKeepalives(d))
                         <= Cardinality(Completed(d)) + Cardinality(Received(d))
    BY DEF KeepalivesAnswerData, SentKeepalives, Completed, Received
  <2>1. /\ IsFiniteSet(SentKeepalives(d)) /\ IsFiniteSet(Armed(d))
        /\ IsFiniteSet(Completed(d)) /\ IsFiniteSet(Received(d))
        /\ Cardinality(SentKeepalives(d)) + Cardinality(Armed(d))
              <= Cardinality(Completed(d)) + Cardinality(Received(d))
    BY DEF KeepaliveInv, Paid
  <2>2. /\ Cardinality(SentKeepalives(d)) \in Nat /\ Cardinality(Armed(d)) \in Nat
        /\ Cardinality(Completed(d)) \in Nat /\ Cardinality(Received(d)) \in Nat
    BY <2>1, FS_CardinalityType
  <2> QED BY <2>1, <2>2
<1> QED BY <1>1, <1>2, <1>3, DeviceInvariant, PTL DEF Spec

=============================================================================
