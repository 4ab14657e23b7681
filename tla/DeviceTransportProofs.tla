----------------------- MODULE DeviceTransportProofs ------------------------
(***************************************************************************)
(* Sending and opening datagrams keep the invariant of Device; and every   *)
(* step keeps the account of a device's keepalives.                        *)
(***************************************************************************)
EXTENDS Device, FiniteSetTheorems, TLAPS

(* A key in a role lives at one peer of one device only.                   *)
LEMMA OnePlace ==
    ASSUME Inv,
           NEW d \in Devices, NEW q \in Devices, NEW s \in Sessions(d, q),
           NEW e \in Devices, NEW p \in Devices, NEW u \in Sessions(e, p),
           u.key = s.key, u.role = s.role
    PROVE  e = d /\ p = q
<1> USE DEF Inv
<1> DEFINE x == [dev |-> e, key |-> u.key, role |-> u.role]
<1> DEFINE y == [dev |-> d, key |-> s.key, role |-> s.role]
<1>1. x \in installed /\ y \in installed
  BY DEF SessionsInstalled
<1>2. x.dev = Holder(x.key, x.role) /\ y.dev = Holder(y.key, y.role)
  BY <1>1 DEF EndsInPlace
<1>3. p = PeerOf(u.key, u.role) /\ q = PeerOf(s.key, s.role)
  BY Zenon DEF SessionsInstalled
<1> QED BY <1>2, <1>3

(* encapsulate and poll_timers: the counter of the datagram is new, and    *)
(* the peer it goes to can read it.                                        *)
LEMMA SendInv ==
    ASSUME Inv, NEW d \in Devices, NEW q \in Devices, NEW visited,
           NEW body \in Payload \union {"keepalive"},
           Send(d, q, visited, body)
    PROVE  Inv'
<1> USE DEF Inv
<1>0. TypeOK
  OBVIOUS
<1>s. PICK s \in Usable(current[d][q]) :
       /\ MaySend(s)
       /\ current' = Swept(current, d, visited, q, {Sealed(s)})
       /\ previous' = Swept(previous, d, visited, q, Usable(previous[d][q]))
       /\ datagrams' = datagrams \union {Datum(q, s, body)}
       /\ keepalive_armed_since' = [keepalive_armed_since EXCEPT ![d][q] = {}]
       /\ UNCHANGED <<pending, last_timestamp, initiating, ephemerals,
                      restarts, now, initiations, responses, installed,
                      opened>>
  BY Zenon DEF Send
<1> DEFINE t == Sealed(s)
<1> DEFINE x == Datum(q, s, body)
<1>1. /\ s \in Session /\ s \in current[d][q] /\ s \in Sessions(d, q)
      /\ s.confirmed
  BY <1>0, <1>s DEF Usable, TypeOK, PerPeer, Sessions, MaySend
<1>2. /\ t \in Session /\ t.key = s.key /\ t.role = s.role
      /\ t.send_counter = s.send_counter + 1
      /\ t.seen = s.seen
  BY <1>1 DEF Sealed, Session
<1>3. /\ x \in Datagram /\ x.key = s.key /\ x.role = s.role
      /\ x.counter = s.send_counter /\ x.to = q
  BY <1>1 DEF Datum, Datagram, Session
<1> HIDE DEF t, x
<1>4. /\ current' \in PerPeer(SUBSET Session)
      /\ current'[d][q] = {t}
      /\ \A e, p \in Devices :
            e # d \/ p # q => current'[e][p] \subseteq current[e][p]
  BY <1>0, <1>s, <1>2 DEF TypeOK, Swept, PerPeer, Usable, t
<1>5. /\ previous' \in PerPeer(SUBSET Session)
      /\ \A e, p \in Devices : previous'[e][p] \subseteq previous[e][p]
  BY <1>0, <1>s DEF TypeOK, Swept, PerPeer, Usable
<1>6. TypeOK'
  <2>1. keepalive_armed_since' \in PerPeer(SUBSET Nat)
    BY <1>0, <1>s DEF TypeOK, PerPeer
  <2> QED BY <1>0, <1>s, <1>3, <1>4, <1>5, <2>1 DEF TypeOK, x
<1>7. ASSUME NEW e \in Devices, NEW p \in Devices, NEW u \in Sessions(e, p)'
      PROVE  \/ e = d /\ p = q /\ u = t
             \/ /\ u \in Sessions(e, p)
                /\ u.key # s.key \/ u.role # s.role
  <2>1. CASE e = d /\ p = q
    <3>1. u = t \/ u \in previous[d][q]
      BY <1>4, <1>5, <2>1 DEF Sessions
    <3> QED BY <1>1, <2>1, <3>1 DEF Sessions, SlotsDiffer
  <2>2. CASE e # d \/ p # q
    <3>1. u \in Sessions(e, p)
      BY <1>4, <1>5, <2>2 DEF Sessions
    <3>2. ~(u.key = s.key /\ u.role = s.role)
      BY <1>1, <2>2, <3>1, OnePlace
    <3> QED BY <3>1, <3>2
  <2> QED BY <2>1, <2>2
<1>7a. SlotsDiffer'
  <2> SUFFICES ASSUME NEW e \in Devices, NEW p \in Devices,
                      NEW u \in current'[e][p], NEW w \in previous'[e][p]
               PROVE  u.key # w.key \/ u.role # w.role
    BY DEF SlotsDiffer
  <2>1. w \in previous[e][p]
    BY <1>5
  <2>2. CASE e = d /\ p = q
    <3>1. u = t /\ w \in previous[d][q]
      BY <1>4, <2>1, <2>2
    <3>2. s.key # w.key \/ s.role # w.role
      BY <1>1, <3>1 DEF SlotsDiffer
    <3> QED BY <1>2, <3>1, <3>2
  <2>3. CASE e # d \/ p # q
    <3>1. u \in current[e][p]
      BY <1>4, <2>3
    <3> QED BY <2>1, <3>1 DEF SlotsDiffer
  <2> QED BY <2>2, <2>3
<1>8. KeysDrawn' /\ ResponsesInstalled' /\ EndsInPlace' /\ PendingUnused'
  BY <1>s DEF KeysDrawn, ResponsesInstalled, EndsInPlace, PendingUnused
<1>9. SessionsInstalled'
  <2>1. /\ [dev |-> d, key |-> t.key, role |-> t.role] \in installed
        /\ q = PeerOf(t.key, t.role)
    BY <1>1, <1>2 DEF SessionsInstalled
  <2> QED BY <1>s, <1>7, <2>1, ZenonT(30) DEF SessionsInstalled
<1>9a. ConfirmedIsShared'
  BY <1>s, <1>1, <1>2, <1>7 DEF ConfirmedIsShared
<1>10. DatagramsInstalled'
  <2>1. /\ [dev |-> d, key |-> s.key, role |-> s.role] \in installed
        /\ q = PeerOf(s.key, s.role)
    BY <1>1 DEF SessionsInstalled
  <2>2. d = Holder(s.key, s.role)
    BY <2>1 DEF EndsInPlace
  <2>3. /\ [dev |-> Holder(x.key, x.role), key |-> x.key,
             role |-> x.role] \in installed
        /\ x.to = PeerOf(x.key, x.role)
    BY <1>3, <2>1, <2>2
  <2> QED BY <1>s, <2>3 DEF DatagramsInstalled, x
<1>11. NonceFresh'
  <2> SUFFICES ASSUME NEW e \in Devices, NEW p \in Devices,
                      NEW u \in Sessions(e, p)', NEW m \in datagrams',
                      m.key = u.key, m.role = u.role
               PROVE  m.counter < u.send_counter
    BY DEF NonceFresh
  <2>1. CASE u = t
    <3>1. CASE m = x
      BY <1>1, <1>2, <1>3, <2>1, <3>1 DEF Session
    <3>2. CASE m \in datagrams
      <4>1. m.counter < s.send_counter
        BY <1>1, <1>2, <2>1, <3>2 DEF NonceFresh
      <4>2. m.counter \in Nat /\ s.send_counter \in Nat
        BY <1>0, <1>1, <3>2 DEF TypeOK, Datagram, Session
      <4> QED BY <1>2, <2>1, <4>1, <4>2
    <3> QED BY <1>s, <3>1, <3>2 DEF x
  <2>2. CASE /\ u \in Sessions(e, p)
             /\ u.key # s.key \/ u.role # s.role
    <3>1. m # x
      BY <1>3, <2>2
    <3>2. m \in datagrams
      BY <1>s, <3>1 DEF x
    <3> QED BY <2>2, <3>2 DEF NonceFresh
  <2> QED BY <1>7, <2>1, <2>2
<1>12. OpenedSeen'
  BY <1>s, <1>1, <1>2, <1>7 DEF OpenedSeen
<1>13. SentIsReadable'
  <2>1. [dev |-> q, key |-> s.key, role |-> OtherRole(s.role)] \in installed
    BY <1>1 DEF ConfirmedIsShared
  <2> QED BY <1>s, <1>3, <2>1 DEF SentIsReadable, x
<1> QED BY <1>6, <1>7a, <1>8, <1>9, <1>9a, <1>10, <1>11, <1>12,
           <1>13

(* open_data: a datagram opens once, and only under the session whose      *)
(* peer sealed it, which is then known to hold the key.                    *)
LEMMA OpenInv ==
    ASSUME Inv, NEW d \in Devices, NEW m \in datagrams, OpenData(d, m)
    PROVE  Inv'
<1> USE DEF Inv
<1>0. TypeOK
  OBVIOUS
<1>u. /\ opened' = opened \union {m}
      /\ UNCHANGED <<pending, last_timestamp, initiating, ephemerals,
                     restarts, now, initiations, responses, datagrams,
                     installed>>
  BY DEF OpenData, network
<1>q. PICK q \in Devices :
       /\ OpenCurrent(d, q, m) \/ OpenPrevious(d, q, m)
       /\ keepalive_armed_since' =
             IF ArmsKeepalive(m) /\ keepalive_armed_since[d][q] = {}
             THEN [keepalive_armed_since EXCEPT ![d][q] = {now}]
             ELSE keepalive_armed_since
  BY Zenon DEF OpenData
<1>s. PICK s \in Session :
       /\ s \in Sessions(d, q)
       /\ Opens(s, m)
       /\ current' = Swept(current, d, UpTo(q), q, {Opened(s, m)})
       /\ previous' \in PerPeer(SUBSET Session)
       /\ \A e, p \in Devices : previous'[e][p] \subseteq previous[e][p]
       /\ \A w \in previous'[d][q] : w.key # s.key \/ w.role # s.role
  <2>1. CASE OpenCurrent(d, q, m)
    <3>1. PICK s \in Usable(current[d][q]) :
             /\ Opens(s, m)
             /\ current' = Swept(current, d, UpTo(q), q, {Opened(s, m)})
             /\ previous' = Swept(previous, d, UpTo(q), q,
                                  Usable(previous[d][q]))
      BY <2>1, Zenon DEF OpenCurrent
    <3>2. s \in Session /\ s \in current[d][q]
      BY <1>0, <3>1 DEF TypeOK, PerPeer, Usable
    <3>3. /\ previous' \in PerPeer(SUBSET Session)
          /\ \A e, p \in Devices : previous'[e][p] \subseteq previous[e][p]
      BY <1>0, <3>1 DEF TypeOK, Swept, PerPeer, Usable
    <3>4. \A w \in previous'[d][q] : w.key # s.key \/ w.role # s.role
      BY <3>2, <3>3, SMTT(30) DEF SlotsDiffer
    <3> QED BY <3>1, <3>2, <3>3, <3>4, Zenon DEF Sessions
  <2>2. CASE OpenPrevious(d, q, m)
    <3>1. PICK s \in Usable(previous[d][q]) :
             /\ Opens(s, m)
             /\ current' = Swept(current, d, UpTo(q), q, {Opened(s, m)})
             /\ previous' = Swept(previous, d, UpTo(q), q, {})
      BY <2>2, Zenon DEF OpenPrevious
    <3>2. s \in Session /\ s \in previous[d][q]
      BY <1>0, <3>1 DEF TypeOK, PerPeer, Usable
    <3>3. /\ previous' \in PerPeer(SUBSET Session)
          /\ \A e, p \in Devices : previous'[e][p] \subseteq previous[e][p]
          /\ previous'[d][q] = {}
      BY <1>0, <3>1 DEF TypeOK, Swept, PerPeer, Usable
    <3> QED BY <3>1, <3>2, <3>3, Zenon DEF Sessions
  <2> QED BY <1>q, <2>1, <2>2, Zenon
<1> DEFINE t == Opened(s, m)
<1>1. m.key = s.key /\ m.role # s.role /\ m.counter \in Counter
  BY <1>s DEF Opens, Fresh
<1>2. /\ t \in Session /\ t.key = s.key /\ t.role = s.role
      /\ t.send_counter = s.send_counter
      /\ t.seen = s.seen \union {m.counter}
  BY <1>s, <1>1, Zenon DEF Opened, Session
<1> HIDE DEF t
<1>4. /\ current' \in PerPeer(SUBSET Session)
      /\ current'[d][q] = {t}
      /\ \A e, p \in Devices :
            e # d \/ p # q => current'[e][p] \subseteq current[e][p]
  BY <1>0, <1>s, <1>2 DEF TypeOK, Swept, PerPeer, Usable, t
<1>6. TypeOK'
  <2>1. keepalive_armed_since' \in PerPeer(SUBSET Nat)
    BY <1>0, <1>q DEF TypeOK, PerPeer
  <2> QED BY <1>0, <1>s, <1>u, <1>4, <2>1 DEF TypeOK
<1>7. ASSUME NEW e \in Devices, NEW p \in Devices, NEW u \in Sessions(e, p)'
      PROVE  \/ e = d /\ p = q /\ u = t
             \/ /\ u \in Sessions(e, p)
                /\ u.key # s.key \/ u.role # s.role
  <2>1. CASE e = d /\ p = q
    BY <1>s, <1>4, <2>1, Zenon DEF Sessions
  <2>2. CASE e # d \/ p # q
    <3>1. u \in Sessions(e, p)
      BY <1>s, <1>4, <2>2, Zenon DEF Sessions
    <3>2. ~(u.key = s.key /\ u.role = s.role)
      BY <1>s, <2>2, <3>1, OnePlace
    <3> QED BY <3>1, <3>2
  <2> QED BY <2>1, <2>2
<1>8. SlotsDiffer'
  <2> SUFFICES ASSUME NEW e \in Devices, NEW p \in Devices,
                      NEW u \in current'[e][p], NEW w \in previous'[e][p]
               PROVE  u.key # w.key \/ u.role # w.role
    BY DEF SlotsDiffer
  <2>2. CASE e = d /\ p = q
    <3>1. u = t /\ w \in previous'[d][q]
      BY <1>4, <2>2
    <3>2. w.key # s.key \/ w.role # s.role
      BY <1>s, <3>1, Zenon
    <3> QED BY <1>2, <3>1, <3>2
  <2>3. CASE e # d \/ p # q
    <3>1. u \in current[e][p] /\ w \in previous[e][p]
      BY <1>s, <1>4, <2>3, Zenon
    <3> QED BY <3>1 DEF SlotsDiffer
  <2> QED BY <2>2, <2>3
<1>9. KeysDrawn' /\ ResponsesInstalled' /\ EndsInPlace' /\ PendingUnused'
  BY <1>u DEF KeysDrawn, ResponsesInstalled, EndsInPlace, PendingUnused
<1>10. DatagramsInstalled' /\ SentIsReadable'
  BY <1>u DEF DatagramsInstalled, SentIsReadable
<1>11. SessionsInstalled'
  <2>1. /\ [dev |-> d, key |-> t.key, role |-> t.role] \in installed
        /\ q = PeerOf(t.key, t.role)
    BY <1>s, <1>2 DEF SessionsInstalled
  <2> QED BY <1>u, <1>7, <2>1, ZenonT(30) DEF SessionsInstalled
<1>12. NonceFresh'
  BY <1>s, <1>u, <1>2, <1>7, SMTT(30) DEF NonceFresh
<1>13. m \in Datagram /\ s \in Session
  BY <1>0, <1>s DEF TypeOK
<1>14. ConfirmedIsShared'
  <2>1. q = PeerOf(s.key, s.role)
    BY <1>s, Zenon DEF SessionsInstalled
  <2>2. m.role = OtherRole(s.role) /\ Holder(m.key, m.role) = q
    BY <1>1, <1>13, <2>1 DEF Datagram, Session, Role, OtherRole, Holder, PeerOf
  <2>3. [dev |-> q, key |-> t.key, role |-> OtherRole(t.role)] \in installed
    BY <1>1, <1>2, <2>2 DEF DatagramsInstalled
  <2> QED BY <1>u, <1>7, <2>3, Zenon DEF ConfirmedIsShared
<1>15. OpenedSeen'
  <2> SUFFICES ASSUME NEW e \in Devices, NEW p \in Devices,
                      NEW u \in Sessions(e, p)', NEW x \in opened',
                      x.key = u.key, x.role # u.role
               PROVE  x.counter \in u.seen
    BY SMTT(30) DEF OpenedSeen
  <2>1. CASE u = t
    BY <1>s, <1>u, <1>1, <1>2, <2>1 DEF OpenedSeen
  <2>2. CASE /\ u \in Sessions(e, p)
             /\ u.key # s.key \/ u.role # s.role
    <3>1. u \in Session
      BY <1>0, <2>2 DEF TypeOK, PerPeer, Sessions
    <3>2. x # m
      BY <1>1, <1>13, <2>2, <3>1 DEF Session, Datagram, Role
    <3> QED BY <1>u, <2>2, <3>2 DEF OpenedSeen
  <2> QED BY <1>7, <2>1, <2>2
<1> QED BY <1>6, <1>8, <1>9, <1>10, <1>11, <1>12, <1>14, <1>15

-----------------------------------------------------------------------------
(* Keepalives.  Every keepalive is paid for by a handshake its sender      *)
(* completed or by a packet it received, and so is every timer that runs.  *)

SentKeepalives(d) ==
    {m \in datagrams : Holder(m.key, m.role) = d /\ m.body = "keepalive"}
Armed(d) == {q \in Devices : keepalive_armed_since[d][q] # {}}
Completed(d) == {e \in installed : e.dev = d /\ e.role = "initiator"}
Received(d) == {m \in opened : m.to = d /\ m.body = "ip"}

Paid(S, A, C, R) ==
    /\ IsFiniteSet(S) /\ IsFiniteSet(A) /\ IsFiniteSet(C) /\ IsFiniteSet(R)
    /\ Cardinality(S) + Cardinality(A) <= Cardinality(C) + Cardinality(R)

(* Strengthening of KeepalivesAnswerData: the timers that are armed count. *)
KeepaliveInv ==
    \A d \in Devices :
        Paid(SentKeepalives(d), Armed(d), Completed(d), Received(d))

(* What a step does to the four sets of a device: it disarms timers, fires *)
(* one, completes a handshake, or receives a packet.                       *)
Accounts(S, A, C, R, S2, A2, C2, R2) ==
    \/ S2 = S /\ A2 \subseteq A /\ C2 = C /\ R2 = R
    \/ \E x : \E q \in A :
          S2 = S \union {x} /\ A2 \subseteq A \ {q} /\ C2 = C /\ R2 = R
    \/ \E x, y :
          /\ S2 = S \union {x} /\ A2 \subseteq A
          /\ y \notin C /\ C2 = C \union {y} /\ R2 = R
    \/ \E q, m :
          /\ S2 = S /\ A2 \subseteq A \union {q} /\ C2 = C
          /\ m \notin R /\ R2 = R \union {m}

(* A set grows by one element at most when one is added.                   *)
LEMMA AddedCount ==
    ASSUME NEW S, IsFiniteSet(S), NEW x
    PROVE  /\ IsFiniteSet(S \union {x})
           /\ Cardinality(S) \in Nat /\ Cardinality(S \union {x}) \in Nat
           /\ Cardinality(S \union {x}) <= Cardinality(S) + 1
           /\ Cardinality(S) <= Cardinality(S \union {x})
           /\ x \notin S => Cardinality(S \union {x}) = Cardinality(S) + 1
<1>1. Cardinality(S) \in Nat
  BY FS_CardinalityType
<1>2. /\ IsFiniteSet(S \union {x})
      /\ Cardinality(S \union {x}) =
            IF x \in S THEN Cardinality(S) ELSE Cardinality(S) + 1
  BY FS_AddElement
<1> QED BY <1>1, <1>2

(* A part of a finite set is finite and no larger.                         *)
LEMMA SubsetCount ==
    ASSUME NEW S, IsFiniteSet(S), NEW T, T \subseteq S
    PROVE  /\ IsFiniteSet(T)
           /\ Cardinality(T) \in Nat /\ Cardinality(S) \in Nat
           /\ Cardinality(T) <= Cardinality(S)
<1>1. T \in SUBSET S
  OBVIOUS
<1>2. IsFiniteSet(T) /\ Cardinality(T) <= Cardinality(S)
  BY <1>1, FS_Subset
<1> QED BY <1>2, FS_CardinalityType

(* Each kind of step leaves the keepalives paid for.                       *)
LEMMA AccountsKeepPaid ==
    ASSUME NEW S, NEW A, NEW C, NEW R, NEW S2, NEW A2, NEW C2, NEW R2,
           Paid(S, A, C, R), Accounts(S, A, C, R, S2, A2, C2, R2)
    PROVE  Paid(S2, A2, C2, R2)
<1>0. /\ IsFiniteSet(S) /\ IsFiniteSet(A) /\ IsFiniteSet(C) /\ IsFiniteSet(R)
      /\ Cardinality(S) + Cardinality(A) <= Cardinality(C) + Cardinality(R)
  BY DEF Paid
<1>1. /\ Cardinality(S) \in Nat /\ Cardinality(A) \in Nat
      /\ Cardinality(C) \in Nat /\ Cardinality(R) \in Nat
  BY <1>0, FS_CardinalityType
<1>2. CASE S2 = S /\ A2 \subseteq A /\ C2 = C /\ R2 = R
  <2>1. IsFiniteSet(A2) /\ Cardinality(A2) \in Nat /\ Cardinality(A2) <= Cardinality(A)
    BY <1>0, <1>2, SubsetCount
  <2> QED BY <1>0, <1>1, <1>2, <2>1 DEF Paid
<1>3. ASSUME NEW x, NEW q \in A,
             S2 = S \union {x}, A2 \subseteq A \ {q}, C2 = C, R2 = R
      PROVE  Paid(S2, A2, C2, R2)
  <2>1. /\ IsFiniteSet(S2) /\ Cardinality(S2) \in Nat
        /\ Cardinality(S2) <= Cardinality(S) + 1
    BY <1>0, <1>3, AddedCount, Zenon
  <2>2. IsFiniteSet(A \ {q}) /\ Cardinality(A \ {q}) = Cardinality(A) - 1
    BY <1>0, FS_RemoveElement
  <2>3. /\ IsFiniteSet(A2) /\ Cardinality(A2) \in Nat
        /\ Cardinality(A2) <= Cardinality(A \ {q})
    BY <1>3, <2>2, SubsetCount
  <2> QED BY <1>0, <1>1, <1>3, <2>1, <2>2, <2>3 DEF Paid
<1>4. ASSUME NEW x, NEW y, S2 = S \union {x}, A2 \subseteq A,
             y \notin C, C2 = C \union {y}, R2 = R
      PROVE  Paid(S2, A2, C2, R2)
  <2>1. /\ IsFiniteSet(S2) /\ Cardinality(S2) \in Nat
        /\ Cardinality(S2) <= Cardinality(S) + 1
    BY <1>0, <1>4, AddedCount, Zenon
  <2>2. IsFiniteSet(A2) /\ Cardinality(A2) \in Nat /\ Cardinality(A2) <= Cardinality(A)
    BY <1>0, <1>4, SubsetCount
  <2>3. IsFiniteSet(C2) /\ Cardinality(C2) = Cardinality(C) + 1
    BY <1>0, <1>4, AddedCount
  <2> QED BY <1>0, <1>1, <1>4, <2>1, <2>2, <2>3 DEF Paid
<1>5. ASSUME NEW q, NEW m, S2 = S, A2 \subseteq A \union {q}, C2 = C,
             m \notin R, R2 = R \union {m}
      PROVE  Paid(S2, A2, C2, R2)
  <2>1. /\ IsFiniteSet(A \union {q}) /\ Cardinality(A \union {q}) \in Nat
        /\ Cardinality(A \union {q}) <= Cardinality(A) + 1
    BY <1>0, AddedCount, Zenon
  <2>2. /\ IsFiniteSet(A2) /\ Cardinality(A2) \in Nat
        /\ Cardinality(A2) <= Cardinality(A \union {q})
    BY <1>5, <2>1, SubsetCount
  <2>3. IsFiniteSet(R2) /\ Cardinality(R2) = Cardinality(R) + 1
    BY <1>0, <1>5, AddedCount
  <2> QED BY <1>0, <1>1, <1>5, <2>1, <2>2, <2>3 DEF Paid
<1> QED BY <1>2, <1>3, <1>4, <1>5, Zenon DEF Accounts

(* What a step does to the account of device e.                            *)
AccountStep(e) ==
    Accounts(SentKeepalives(e), Armed(e), Completed(e), Received(e),
             SentKeepalives(e)', Armed(e)', Completed(e)', Received(e)')

(* A step that sends no keepalive, opens no packet and arms no timer.      *)
LEMMA QuietAccount ==
    ASSUME NEW e \in Devices, SentKeepalives(e)' = SentKeepalives(e),
           \A q \in Devices :
              keepalive_armed_since'[e][q] \subseteq keepalive_armed_since[e][q],
           Completed(e)' = Completed(e), opened' = opened
    PROVE  AccountStep(e)
<1>1. Armed(e)' \subseteq Armed(e)
  BY DEF Armed
<1>2. Received(e)' = Received(e)
  BY DEF Received
<1> QED BY <1>1, <1>2 DEF AccountStep, Accounts

(* encapsulate, whose packet is no keepalive, and poll_timers, which       *)
(* disarms the timer that was due.                                         *)
LEMMA SendAccount ==
    ASSUME Inv, NEW d \in Devices, NEW q \in Devices, NEW visited, NEW body,
           Send(d, q, visited, body), NEW e \in Devices,
           body # "keepalive" \/ keepalive_armed_since[d][q] # {}
    PROVE  AccountStep(e)
<1>0. keepalive_armed_since \in PerPeer(SUBSET Nat)
  BY DEF Inv, TypeOK
<1>1. PICK s \in Usable(current[d][q]) : datagrams' = datagrams \union {Datum(q, s, body)}
  BY Zenon DEF Send
<1>2. /\ keepalive_armed_since' = [keepalive_armed_since EXCEPT ![d][q] = {}]
      /\ installed' = installed /\ opened' = opened
  BY Zenon DEF Send
<1>3. Holder(s.key, s.role) = d
  <2>1. s \in Sessions(d, q)
    BY <1>1 DEF Usable, Sessions
  <2>2. [dev |-> d, key |-> s.key, role |-> s.role] \in installed
    BY <2>1 DEF Inv, SessionsInstalled
  <2> QED BY <2>2 DEF Inv, EndsInPlace
<1> DEFINE m == Datum(q, s, body)
<1>4. Holder(m.key, m.role) = d /\ m.body = body
  BY <1>3 DEF Datum
<1>5. Completed(e)' = Completed(e) /\ Received(e)' = Received(e)
  BY <1>2 DEF Completed, Received
<1>6. \A p \in Devices :
         /\ keepalive_armed_since'[e][p] \subseteq keepalive_armed_since[e][p]
         /\ e = d /\ p = q => keepalive_armed_since'[e][p] = {}
  BY <1>0, <1>2 DEF PerPeer
<1>7. datagrams' = datagrams \union {m}
  BY <1>1
<1> HIDE DEF m
<1>8. CASE e # d \/ body # "keepalive"
  <2>1. SentKeepalives(e)' = SentKeepalives(e)
    BY <1>4, <1>7, <1>8 DEF SentKeepalives
  <2> QED BY <1>2, <1>5, <1>6, <2>1, QuietAccount
<1>9. CASE e = d /\ body = "keepalive"
  <2>1. SentKeepalives(e)' = SentKeepalives(e) \union {m}
    BY <1>4, <1>7, <1>9 DEF SentKeepalives
  <2>2. q \in Armed(e) /\ Armed(e)' \subseteq Armed(e) \ {q}
    BY <1>6, <1>9 DEF Armed
  <2> QED BY <1>5, <2>1, <2>2, Zenon DEF AccountStep, Accounts
<1> QED BY <1>8, <1>9

(* complete_handshake and the keepalive that confirms the session.         *)
LEMMA CompleteAccount ==
    ASSUME Inv, NEW d \in Devices, NEW m \in responses,
           CompleteHandshake(d, m), NEW e \in Devices
    PROVE  AccountStep(e)
<1>0. keepalive_armed_since \in PerPeer(SUBSET Nat)
  BY DEF Inv, TypeOK
<1>1. PICK q \in Devices : \E h \in pending[d][q] :
        /\ d = m.key.ini /\ h.n = m.key.n
        /\ datagrams' = datagrams \union Confirmation(q,
               NewSession(m.key, "initiator", h.local_index, m.sender, TRUE))
        /\ keepalive_armed_since' = [keepalive_armed_since EXCEPT ![d][q] = {}]
  BY Zenon DEF CompleteHandshake
<1>2. PICK h \in pending[d][q] :
        /\ d = m.key.ini /\ h.n = m.key.n
        /\ datagrams' = datagrams \union Confirmation(q,
               NewSession(m.key, "initiator", h.local_index, m.sender, TRUE))
        /\ keepalive_armed_since' = [keepalive_armed_since EXCEPT ![d][q] = {}]
  BY <1>1, Zenon
<1> DEFINE x == Datum(q, NewSession(m.key, "initiator", h.local_index,
                                    m.sender, TRUE), "keepalive")
           y == [dev |-> d, key |-> m.key, role |-> "initiator"]
<1>3. datagrams' = datagrams \union {x} /\ installed' = installed \union {y}
      /\ opened' = opened
  BY <1>2, Zenon DEF CompleteHandshake, Confirmation
<1>4. Holder(x.key, x.role) = d /\ x.body = "keepalive"
  BY <1>2 DEF Datum, NewSession, Holder
<1>5. y.dev = d /\ y.role = "initiator" /\ y \notin installed
  BY <1>2 DEF Inv, PendingUnused
<1>6. \A p \in Devices :
         keepalive_armed_since'[e][p] \subseteq keepalive_armed_since[e][p]
  <2>1. keepalive_armed_since' = [keepalive_armed_since EXCEPT ![d][q] = {}]
    BY <1>2, Zenon
  <2> QED BY <1>0, <2>1 DEF PerPeer
<1> HIDE DEF x, y
<1>7. CASE e = d
  <2>1. SentKeepalives(e)' = SentKeepalives(e) \union {x}
    BY <1>3, <1>4, <1>7 DEF SentKeepalives
  <2>2. Completed(e)' = Completed(e) \union {y} /\ y \notin Completed(e)
    BY <1>3, <1>5, <1>7 DEF Completed
  <2>3. Armed(e)' \subseteq Armed(e) /\ Received(e)' = Received(e)
    BY <1>3, <1>6 DEF Armed, Received
  <2> QED BY <2>1, <2>2, <2>3 DEF AccountStep, Accounts
<1>8. CASE e # d
  <2>1. SentKeepalives(e)' = SentKeepalives(e) /\ Completed(e)' = Completed(e)
    BY <1>3, <1>4, <1>5, <1>8 DEF SentKeepalives, Completed
  <2> QED BY <1>3, <1>6, <2>1, QuietAccount
<1> QED BY <1>7, <1>8

(* open_data: a packet arms the timer, and is opened for the first time.   *)
LEMMA OpenAccount ==
    ASSUME Inv, NEW d \in Devices, NEW m, OpenData(d, m), NEW e \in Devices
    PROVE  AccountStep(e)
<1>0. keepalive_armed_since \in PerPeer(SUBSET Nat)
  BY DEF Inv, TypeOK
<1>1. PICK q \in Devices :
        /\ OpenCurrent(d, q, m) \/ OpenPrevious(d, q, m)
        /\ keepalive_armed_since' =
              IF ArmsKeepalive(m) /\ keepalive_armed_since[d][q] = {}
              THEN [keepalive_armed_since EXCEPT ![d][q] = {now}]
              ELSE keepalive_armed_since
  BY Zenon DEF OpenData
<1>2. /\ m.to = d /\ opened' = opened \union {m}
      /\ datagrams' = datagrams /\ installed' = installed
  BY Zenon DEF OpenData, network
<1>3. SentKeepalives(e)' = SentKeepalives(e) /\ Completed(e)' = Completed(e)
  BY <1>2 DEF SentKeepalives, Completed
<1>4. m \notin opened
  <2>1. PICK s \in Usable(current[d][q]) \union Usable(previous[d][q]) : Opens(s, m)
    BY <1>1, Zenon DEF OpenCurrent, OpenPrevious
  <2>2. s \in Sessions(d, q)
    BY <2>1 DEF Usable, Sessions
  <2> QED BY <2>1, <2>2 DEF Inv, OpenedSeen, Opens, Fresh
<1>5. CASE e = d /\ m.body = "ip"
  <2>1. Received(e)' = Received(e) \union {m} /\ m \notin Received(e)
    BY <1>2, <1>4, <1>5 DEF Received
  <2>2. \A p \in Devices :
           p # q => keepalive_armed_since'[e][p] = keepalive_armed_since[e][p]
    BY <1>0, <1>1 DEF PerPeer
  <2>3. Armed(e)' \subseteq Armed(e) \union {q}
    BY <2>2 DEF Armed
  <2> QED BY <1>3, <2>1, <2>3, Zenon DEF AccountStep, Accounts
<1>6. CASE e # d \/ m.body # "ip"
  <2>1. Received(e)' = Received(e)
    BY <1>2, <1>6 DEF Received
  <2>2. \A p \in Devices : keepalive_armed_since'[e][p] = keepalive_armed_since[e][p]
    BY <1>0, <1>1, <1>6 DEF PerPeer, ArmsKeepalive
  <2>3. Armed(e)' \subseteq Armed(e)
    BY <2>2 DEF Armed
  <2> QED BY <1>3, <2>1, <2>3 DEF AccountStep, Accounts
<1> QED BY <1>5, <1>6

(* respond_to_initiation disarms the timer and completes nothing.          *)
LEMMA RespondAccount ==
    ASSUME Inv, NEW d \in Devices, NEW m \in initiations,
           RespondToInitiation(d, m), NEW e \in Devices
    PROVE  AccountStep(e)
<1>0. keepalive_armed_since \in PerPeer(SUBSET Nat)
  BY DEF Inv, TypeOK
<1>1. PICK k : installed' = installed \union {[dev |-> d, key |-> k, role |-> "responder"]}
  BY Zenon DEF RespondToInitiation
<1>2. /\ keepalive_armed_since' = [keepalive_armed_since EXCEPT ![d][m.from] = {}]
      /\ datagrams' = datagrams /\ opened' = opened
  BY Zenon DEF RespondToInitiation
<1>3. \A p \in Devices :
         keepalive_armed_since'[e][p] \subseteq keepalive_armed_since[e][p]
  BY <1>0, <1>2 DEF PerPeer
<1>4. SentKeepalives(e)' = SentKeepalives(e)
  BY <1>2 DEF SentKeepalives
<1>5. Completed(e)' = Completed(e)
  BY <1>1 DEF Completed
<1> QED BY <1>2, <1>3, <1>4, <1>5, QuietAccount

(* The steps that touch no packet, a restart included.                     *)
LEMMA IdleAccount ==
    ASSUME Inv, NEW e \in Devices, UNCHANGED <<datagrams, installed, opened>>,
           \/ keepalive_armed_since' = keepalive_armed_since
           \/ \E d \in Devices : keepalive_armed_since' =
                 [keepalive_armed_since EXCEPT ![d] = [p \in Devices |-> {}]]
    PROVE  AccountStep(e)
<1>1. \A p \in Devices :
         keepalive_armed_since'[e][p] \subseteq keepalive_armed_since[e][p]
  <2>0. keepalive_armed_since \in PerPeer(SUBSET Nat)
    BY DEF Inv, TypeOK
  <2>1. CASE keepalive_armed_since' = keepalive_armed_since
    BY <2>1
  <2>2. ASSUME NEW d \in Devices, keepalive_armed_since' =
                 [keepalive_armed_since EXCEPT ![d] = [p \in Devices |-> {}]]
        PROVE  \A p \in Devices :
                  keepalive_armed_since'[e][p] \subseteq keepalive_armed_since[e][p]
    BY <2>0, <2>2 DEF PerPeer
  <2> QED BY <2>1, <2>2
<1>2. SentKeepalives(e)' = SentKeepalives(e) /\ Completed(e)' = Completed(e)
  BY DEF SentKeepalives, Completed
<1> QED BY <1>1, <1>2, QuietAccount

(* Every step keeps the account of every device.                           *)
LEMMA NextAccount ==
    ASSUME Inv, [Next]_vars, NEW e \in Devices
    PROVE  AccountStep(e)
<1>1. CASE Tick \/ UNCHANGED vars
  BY <1>1, IdleAccount DEF Tick, vars, network
<1>2. ASSUME NEW d \in Devices, Receive(d)
      PROVE  AccountStep(e)
  BY <1>2, RespondAccount, CompleteAccount, OpenAccount DEF Receive
<1>3. ASSUME NEW d \in Devices, Operate(d)
      PROVE  AccountStep(e)
  <2>1. CASE PollTimers(d)
    <3> PICK q \in Devices :
          /\ KeepaliveDue(d, q) /\ Send(d, q, UpTo(q), "keepalive")
      BY <2>1 DEF PollTimers, IsFirst
    <3>1. keepalive_armed_since[d][q] # {}
      BY DEF KeepaliveDue
    <3> QED BY <3>1, SendAccount
  <2>2. ASSUME NEW q \in Devices, NEW body \in Payload, Encapsulate(d, q, body)
        PROVE  AccountStep(e)
    <3>1. body # "keepalive" /\ Send(d, q, {q}, body)
      BY <2>2, PayloadAssumption DEF Encapsulate
    <3> QED BY <3>1, SendAccount
  <2>3. ASSUME \/ PollHandshakes(d)
               \/ \E q \in Devices :
                     \/ ExpireSessions(d, UpTo(q)) \/ ExpireSessions(d, {q})
                     \/ \E on \in BOOLEAN : SetInitiating(d, q, on)
        PROVE  AccountStep(e)
    <3>1. UNCHANGED <<datagrams, installed, opened, keepalive_armed_since>>
      BY <2>3, Zenon DEF PollHandshakes, ExpireSessions, SetInitiating, network
    <3> QED BY <3>1, IdleAccount
  <2>4. CASE Restart(d)
    <3>1. /\ UNCHANGED <<datagrams, installed, opened>>
          /\ keepalive_armed_since' =
                [keepalive_armed_since EXCEPT ![d] = [p \in Devices |-> {}]]
      BY <2>4, Zenon DEF Restart, network
    <3> QED BY <3>1, IdleAccount, Zenon
  <2> QED BY <1>3, <2>1, <2>2, <2>3, <2>4, Zenon DEF Operate
<1> QED BY <1>1, <1>2, <1>3 DEF Next

=============================================================================
