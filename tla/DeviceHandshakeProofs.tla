----------------------- MODULE DeviceHandshakeProofs ------------------------
(***************************************************************************)
(* Starting, answering and completing a handshake keep the invariant of    *)
(* Device; and how many answers an initiation gets.                        *)
(***************************************************************************)
EXTENDS Device, FiniteSetTheorems, TLAPS

(* poll_handshakes: the new handshake's ephemeral has made no session.     *)
LEMMA PollHandshakesInv ==
    ASSUME Inv, NEW d \in Devices, PollHandshakes(d)
    PROVE  Inv'
<1>0. TypeOK
  BY DEF Inv
<1> PICK q \in Devices \ {d} :
       /\ StartHandshake(d, q)
       /\ current' = Swept(current, d, UpTo(q), q, Usable(current[d][q]))
       /\ previous' = Swept(previous, d, UpTo(q), q, Usable(previous[d][q]))
  BY DEF PollHandshakes
<1> DEFINE n == ephemerals[d] + 1
<1> PICK i \in Index, h \in Handshake :
       /\ h.n = n
       /\ pending' = [pending EXCEPT ![d][q] = {h}]
       /\ initiations' = initiations \union
             {[from |-> d, to |-> q, n |-> n, sender |-> i]}
       /\ ephemerals' = [ephemerals EXCEPT ![d] = n]
  <2> DEFINE begun == {g.since : g \in pending[d][q]}
  <2> DEFINE since == IF begun = {} THEN now ELSE CHOOSE t \in begun : TRUE
  <2>1. since \in Nat
    <3>1. begun \subseteq Nat
      BY <1>0 DEF TypeOK, PerPeer, Handshake
    <3>2. CASE begun = {}
      BY <1>0, <3>2 DEF TypeOK
    <3>3. CASE begun # {}
      <4> HIDE DEF begun
      <4>1. (CHOOSE t \in begun : TRUE) \in begun
        BY <3>3
      <4> QED BY <3>1, <3>3, <4>1
    <3> QED BY <3>2, <3>3, Zenon
  <2>2. PICK i \in Free(d) :
           /\ pending' = [pending EXCEPT ![d][q] =
                 {[n |-> n, local_index |-> i, since |-> since,
                   last_sent |-> now]}]
           /\ initiations' = initiations \union
                 {[from |-> d, to |-> q, n |-> n, sender |-> i]}
           /\ ephemerals' = [ephemerals EXCEPT ![d] = n]
    BY Zenon DEF StartHandshake
  <2>3. i \in Index /\ n \in Nat /\ now \in Nat
    BY <1>0 DEF Free, TypeOK
  <2> DEFINE h == [n |-> n, local_index |-> i, since |-> since,
                   last_sent |-> now]
  <2> HIDE DEF since, n
  <2>4. h \in Handshake /\ h.n = n
    BY <2>1, <2>3 DEF Handshake
  <2> QED BY <2>2, <2>3, <2>4, Zenon
<1>1. n \in Nat /\ ephemerals[d] \in Nat
  BY <1>0 DEF TypeOK
<1>2. /\ current' \in PerPeer(SUBSET Session)
      /\ \A e, p \in Devices : current'[e][p] \subseteq current[e][p]
  BY <1>0 DEF TypeOK, Swept, PerPeer, Usable
<1>3. /\ previous' \in PerPeer(SUBSET Session)
      /\ \A e, p \in Devices : previous'[e][p] \subseteq previous[e][p]
  BY <1>0 DEF TypeOK, Swept, PerPeer, Usable
<1>4. /\ pending' \in PerPeer(SUBSET Handshake)
      /\ \A e, p \in Devices : \A g \in pending'[e][p] :
            g \in pending[e][p] \/ (e = d /\ p = q /\ g.n = n)
  BY <1>0, SMTT(30) DEF TypeOK, PerPeer
<1>5. /\ ephemerals' \in [Devices -> Nat]
      /\ \A e \in Devices : ephemerals'[e] >= ephemerals[e]
      /\ ephemerals'[d] = n
  BY <1>0, <1>1 DEF TypeOK
<1> USE DEF PollHandshakes, Inv
<1>6. TypeOK'
  <2>1. initiations' \subseteq Initiation
    BY <1>0, <1>1 DEF TypeOK, Initiation
  <2> QED BY <1>0, <1>2, <1>3, <1>4, <1>5, <2>1 DEF TypeOK
<1>7. \A e, p \in Devices : Sessions(e, p)' \subseteq Sessions(e, p)
  BY <1>2, <1>3 DEF Sessions
<1>8. KeysDrawn'
  <2>1. \A j \in initiations' : j.n <= ephemerals'[j.from]
    BY <1>0, <1>1, <1>5 DEF KeysDrawn, TypeOK, Initiation
  <2>2. \A e, p \in Devices : \A g \in pending'[e][p] : g.n <= ephemerals'[e]
    BY <1>0, <1>1, <1>4, <1>5 DEF KeysDrawn, TypeOK, PerPeer, Handshake
  <2>3. \A e \in installed :
           /\ e.key.n <= ephemerals'[e.key.ini]
           /\ e.key.m <= ephemerals'[e.key.res]
    BY <1>0, <1>5 DEF KeysDrawn, TypeOK, End, Key
  <2> QED BY <2>1, <2>2, <2>3 DEF KeysDrawn
<1>9. PendingUnused'
  <2>1. ASSUME NEW e \in Devices, NEW p \in Devices,
               NEW g \in pending'[e][p], NEW x \in installed,
               x.dev = e, x.role = "initiator"
        PROVE  x.key.n # g.n
    <3>1. CASE g \in pending[e][p]
      BY <2>1, <3>1 DEF PendingUnused
    <3>2. CASE e = d /\ g.n = n
      <4>1. x.key.ini = d /\ x.key.n \in Nat
        BY <1>0, <2>1, <3>2 DEF EndsInPlace, Holder, TypeOK, End, Key
      <4>2. x.key.n <= ephemerals[d]
        BY <4>1 DEF KeysDrawn
      <4> QED BY <1>1, <3>2, <4>1, <4>2
    <3> QED BY <1>4, <3>1, <3>2
  <2>2. ASSUME NEW e \in Devices, NEW p \in Devices, NEW r \in Devices,
               NEW g \in pending'[e][p], NEW f \in pending'[e][r], g.n = f.n
        PROVE  r = p
    <3>1. CASE g \in pending[e][p] /\ f \in pending[e][r]
      BY <2>2, <3>1 DEF PendingUnused
    <3>2. \A c \in Devices : \A a \in pending[d][c] : a.n \in Nat /\ a.n < n
      BY <1>0, <1>1 DEF KeysDrawn, TypeOK, PerPeer, Handshake
    <3>3. CASE g \in pending[e][p] /\ e = d /\ r = q /\ f.n = n
      BY <1>1, <2>2, <3>2, <3>3
    <3>4. CASE f \in pending[e][r] /\ e = d /\ p = q /\ g.n = n
      <4>1. f.n \in Nat /\ f.n < n
        BY <3>2, <3>4
      <4>2. f.n = n
        BY <2>2, <3>4
      <4> HIDE DEF n
      <4> QED BY <1>1, <4>1, <4>2
    <3> QED BY <1>4, <3>1, <3>3, <3>4
  <2> QED BY <2>1, <2>2, SMTT(30) DEF PendingUnused
<1>10. ResponsesInstalled' /\ EndsInPlace' /\ DatagramsInstalled'
       /\ SentIsReadable'
  BY DEF ResponsesInstalled, EndsInPlace, DatagramsInstalled,
         SentIsReadable
<1>11. SessionsInstalled' /\ ConfirmedIsShared' /\ NonceFresh' /\ OpenedSeen'
  BY <1>7 DEF SessionsInstalled, ConfirmedIsShared, NonceFresh, OpenedSeen
<1>12. SlotsDiffer'
  BY <1>2, <1>3 DEF SlotsDiffer
<1> QED BY <1>6, <1>8, <1>9, <1>10, <1>11, <1>12

(* respond_to_initiation: the key is new, since the responder's ephemeral  *)
(* is.                                                                     *)
LEMMA RespondInv ==
    ASSUME Inv, NEW d \in Devices, NEW m \in initiations,
           RespondToInitiation(d, m)
    PROVE  Inv'
<1> USE DEF Inv
<1>0. TypeOK
  OBVIOUS
<1> DEFINE q == m.from
<1> DEFINE k == [ini |-> q, n |-> m.n, res |-> d, m |-> ephemerals[d] + 1]
<1> DEFINE x == [dev |-> d, key |-> k, role |-> "responder"]
<1>i. PICK i \in Free(d) :
       /\ previous' = [previous EXCEPT ![d][q] = current[d][q]]
       /\ current' = [current EXCEPT ![d][q] =
             {NewSession(k, "responder", i, m.sender, FALSE)}]
       /\ last_timestamp' = [last_timestamp EXCEPT ![d][q] = m.n]
       /\ keepalive_armed_since' = [keepalive_armed_since EXCEPT ![d][q] = {}]
       /\ pending' = [pending EXCEPT ![d][q] = {}]
       /\ responses' = responses \union
             {[from |-> d, to |-> q, key |-> k, sender |-> i,
               receiver |-> m.sender]}
       /\ installed' = installed \union {x}
  BY Zenon DEF RespondToInitiation, ClearPending
<1>u. /\ ephemerals' = [ephemerals EXCEPT ![d] = @ + 1]
      /\ UNCHANGED <<initiating, restarts, now, initiations, datagrams,
                     opened>>
  BY DEF RespondToInitiation
<1>1. /\ m \in Initiation /\ q \in Devices /\ i \in Index
      /\ m.n \in Nat /\ m.sender \in Index /\ now \in Nat
      /\ ephemerals[d] \in Nat
  BY <1>0 DEF TypeOK, Initiation, Free
<1> DEFINE t == NewSession(k, "responder", i, m.sender, FALSE)
<1> DEFINE r == [from |-> d, to |-> q, key |-> k, sender |-> i,
                 receiver |-> m.sender]
<1>2. /\ k \in Key /\ k.ini = q /\ k.res = d /\ k.n = m.n
      /\ k.m = ephemerals[d] + 1
  BY <1>1 DEF Key
<1> HIDE DEF k, q
<1>3. /\ t \in Session /\ t.key = k /\ t.role = "responder"
      /\ t.send_counter = 0 /\ ~t.confirmed
  BY <1>1, <1>2 DEF NewSession, Session, Role
<1>4. /\ x \in End /\ x.dev = d /\ x.key = k /\ x.role = "responder"
  BY <1>2 DEF End, Role
<1>5. /\ r \in Response /\ r.from = d /\ r.to = q /\ r.key = k
  BY <1>1, <1>2 DEF Response
<1> HIDE DEF t, x, r
<1>6. /\ current' \in PerPeer(SUBSET Session)
      /\ current'[d][q] = {t}
      /\ \A e, p \in Devices :
            e # d \/ p # q => current'[e][p] = current[e][p]
  BY <1>0, <1>i, <1>1, <1>3, Zenon DEF TypeOK, PerPeer, t
<1>7. /\ previous' \in PerPeer(SUBSET Session)
      /\ previous'[d][q] = current[d][q]
      /\ \A e, p \in Devices :
            e # d \/ p # q => previous'[e][p] = previous[e][p]
  BY <1>0, <1>i, <1>1 DEF TypeOK, PerPeer
<1>8. /\ pending' \in PerPeer(SUBSET Handshake)
      /\ \A e, p \in Devices : pending'[e][p] \subseteq pending[e][p]
  BY <1>0, <1>i, <1>1 DEF TypeOK, PerPeer
<1>9. /\ ephemerals' \in [Devices -> Nat]
      /\ \A e \in Devices : ephemerals'[e] >= ephemerals[e]
      /\ ephemerals'[d] = ephemerals[d] + 1
  BY <1>0, <1>u, <1>1 DEF TypeOK
<1>10. TypeOK'
  <2>1. /\ keepalive_armed_since' \in PerPeer(SUBSET Nat)
        /\ last_timestamp' \in PerPeer(Nat)
    BY <1>0, <1>i, <1>1 DEF TypeOK, PerPeer
  <2>2. responses' \subseteq Response /\ installed' \subseteq End
    BY <1>0, <1>i, <1>4, <1>5 DEF TypeOK, x, r
  <2> QED BY <1>0, <1>u, <1>6, <1>7, <1>8, <1>9, <2>1, <2>2 DEF TypeOK
<1>11. \A y \in installed : y.key # k
  <2>1. \A y \in installed : y.key.res = d => y.key.m <= ephemerals[d]
    BY DEF KeysDrawn
  <2> QED BY <1>1, <1>2, <2>1
<1>12. \A y \in datagrams : y.key # k
  BY <1>11, Zenon DEF DatagramsInstalled
<1>13. ASSUME NEW e \in Devices, NEW p \in Devices, NEW u \in Sessions(e, p)'
       PROVE  \/ e = d /\ p = q /\ u = t
              \/ u \in Sessions(e, p) /\ u.key # k
  <2>1. \/ e = d /\ p = q /\ u = t
        \/ u \in Sessions(e, p)
    BY <1>6, <1>7, <1>13 DEF Sessions
  <2>2. u \in Sessions(e, p) =>
           [dev |-> e, key |-> u.key, role |-> u.role] \in installed
    BY DEF SessionsInstalled
  <2> QED BY <1>11, <2>1, <2>2
<1>14. SlotsDiffer'
  <2> SUFFICES ASSUME NEW e \in Devices, NEW p \in Devices,
                      NEW u \in current'[e][p], NEW w \in previous'[e][p]
               PROVE  u.key # w.key \/ u.role # w.role
    BY DEF SlotsDiffer
  <2>1. CASE e = d /\ p = q
    <3>1. u = t /\ w \in current[d][q]
      BY <1>6, <1>7, <2>1
    <3>2. [dev |-> d, key |-> w.key, role |-> w.role] \in installed
      BY <1>1, <3>1 DEF SessionsInstalled, Sessions
    <3> QED BY <1>3, <1>11, <3>1, <3>2
  <2>2. CASE e # d \/ p # q
    <3>1. u \in current[e][p] /\ w \in previous[e][p]
      BY <1>6, <1>7, <2>2
    <3> QED BY <3>1 DEF SlotsDiffer
  <2> QED BY <2>1, <2>2
<1>15. KeysDrawn'
  <2>1. \A j \in initiations' : j.n <= ephemerals'[j.from]
    BY <1>0, <1>u, <1>9 DEF KeysDrawn, TypeOK, Initiation
  <2>2. \A e, p \in Devices : \A g \in pending'[e][p] : g.n <= ephemerals'[e]
    BY <1>0, <1>8, <1>9 DEF KeysDrawn, TypeOK, PerPeer, Handshake
  <2>3. ASSUME NEW y \in installed
        PROVE  /\ y.key.n <= ephemerals'[y.key.ini]
               /\ y.key.m <= ephemerals'[y.key.res]
    BY <1>0, <1>9 DEF KeysDrawn, TypeOK, End, Key
  <2>4. k.n <= ephemerals'[k.ini] /\ k.m <= ephemerals'[k.res]
    <3>1. m.n <= ephemerals[q]
      BY DEF KeysDrawn, q
    <3>2. ephemerals[q] \in Nat /\ ephemerals'[q] \in Nat
      BY <1>0, <1>1, <1>9 DEF TypeOK
    <3> QED BY <1>1, <1>2, <1>9, <3>1, <3>2
  <2> QED BY <1>i, <1>4, <2>1, <2>2, <2>3, <2>4 DEF KeysDrawn
<1>16. ResponsesInstalled'
  <2>1. r.from = r.key.res /\ r.to = r.key.ini
    BY <1>2, <1>5
  <2>2. [dev |-> r.from, key |-> r.key, role |-> "responder"] \in installed'
    BY <1>i, <1>5 DEF x
  <2>3. responses' = responses \union {r}
    BY <1>i, SMTT(30) DEF r
  <2> QED BY <1>i, <2>1, <2>2, <2>3 DEF ResponsesInstalled
<1>17. PendingUnused'
  <2>1. \A y \in installed' : y \in installed \/ y.role # "initiator"
    BY <1>i, <1>4
  <2> QED BY <1>8, <2>1 DEF PendingUnused
<1>18. EndsInPlace'
  <2>1. x.dev = Holder(x.key, x.role)
    BY <1>2, <1>4 DEF Holder
  <2> QED BY <1>i, <2>1 DEF EndsInPlace
<1>19. SessionsInstalled'
  <2>1. q = PeerOf(t.key, t.role)
    BY <1>2, <1>3 DEF PeerOf
  <2>2. [dev |-> d, key |-> t.key, role |-> t.role] \in installed'
    BY <1>i, <1>3 DEF x
  <2> QED BY <1>i, <1>13, <2>1, <2>2, Zenon DEF SessionsInstalled
<1>20. DatagramsInstalled' /\ SentIsReadable'
  BY <1>i, <1>u DEF DatagramsInstalled, SentIsReadable
<1>21. NonceFresh'
  BY <1>u, <1>3, <1>12, <1>13 DEF NonceFresh
<1>22. OpenedSeen'
  <2>1. \A y \in opened : y.key # k
    BY <1>12 DEF DatagramsInstalled
  <2> QED BY <1>u, <1>3, <1>13, <2>1 DEF OpenedSeen
<1>23. ConfirmedIsShared'
  BY <1>i, <1>3, <1>13 DEF ConfirmedIsShared
<1> QED BY <1>10, <1>14, <1>15, <1>16, <1>17, <1>18, <1>19, <1>20, <1>21,
           <1>22, <1>23

(* handle_udp on a response: the key is new to the initiator, since its    *)
(* ephemeral was still pending, and the responder already holds it.        *)
LEMMA CompleteInv ==
    ASSUME Inv, NEW d \in Devices, NEW m \in responses,
           CompleteHandshake(d, m)
    PROVE  Inv'
<1> USE DEF Inv
<1>0. TypeOK
  OBVIOUS
<1> DEFINE k == m.key
<1> DEFINE x == [dev |-> d, key |-> k, role |-> "initiator"]
<1>p. PICK q \in Devices : \E h \in pending[d][q] :
       LET s == NewSession(m.key, "initiator", h.local_index, m.sender, TRUE)
       IN  /\ q = m.from /\ d = k.ini /\ h.n = k.n
           /\ previous' = [previous EXCEPT ![d][q] = current[d][q]]
           /\ current' = [current EXCEPT ![d][q] = {Sealed(s)}]
           /\ datagrams' = datagrams \union {Datum(q, s, "keepalive")}
           /\ pending' = [pending EXCEPT ![d][q] = {}]
           /\ keepalive_armed_since' =
                 [keepalive_armed_since EXCEPT ![d][q] = {}]
  BY Zenon DEF CompleteHandshake, ClearPending, Confirmation
<1>q. PICK h \in pending[d][q] :
       LET s == NewSession(m.key, "initiator", h.local_index, m.sender, TRUE)
       IN  /\ q = m.from /\ d = k.ini /\ h.n = k.n
           /\ previous' = [previous EXCEPT ![d][q] = current[d][q]]
           /\ current' = [current EXCEPT ![d][q] = {Sealed(s)}]
           /\ datagrams' = datagrams \union {Datum(q, s, "keepalive")}
           /\ pending' = [pending EXCEPT ![d][q] = {}]
           /\ keepalive_armed_since' =
                 [keepalive_armed_since EXCEPT ![d][q] = {}]
  BY <1>p, Zenon
<1>u. /\ installed' = installed \union {x}
      /\ UNCHANGED <<last_timestamp, initiating, ephemerals, restarts, now,
                     initiations, responses, opened>>
  BY DEF CompleteHandshake
<1> DEFINE s == NewSession(m.key, "initiator", h.local_index, m.sender, TRUE)
<1> DEFINE t == Sealed(s)
<1> DEFINE y == Datum(q, s, "keepalive")
<1>1. /\ m \in Response /\ k \in Key /\ m.sender \in Index /\ now \in Nat
      /\ h \in Handshake /\ h.local_index \in Index
  BY <1>0 DEF TypeOK, Response, PerPeer, Handshake
<1>2. /\ k.res = q /\ k.ini = d /\ k.n = h.n
      /\ [dev |-> q, key |-> k, role |-> "responder"] \in installed
  BY <1>q DEF ResponsesInstalled
<1>3. /\ t \in Session /\ t.key = k /\ t.role = "initiator"
      /\ t.send_counter = 1 /\ t.seen = {}
  <2>1. /\ s \in Session /\ s.key = k /\ s.role = "initiator"
        /\ s.send_counter = 0 /\ s.seen = {}
    BY <1>1 DEF NewSession, Session, Role
  <2> HIDE DEF s
  <2> QED BY <2>1 DEF Sealed, Session
<1>4. /\ y \in Datagram /\ y.key = k /\ y.role = "initiator"
      /\ y.counter = 0 /\ y.to = q
  BY <1>1, Zenon DEF NewSession, Datum, Datagram, Role
<1>5. x \in End /\ x.dev = d /\ x.key = k /\ x.role = "initiator"
  BY <1>1 DEF End, Role
<1>c. /\ current' = [current EXCEPT ![d][q] = {t}]
      /\ datagrams' = datagrams \union {y}
  BY <1>q
<1> HIDE DEF t, x, y, k, s
<1>6. /\ current' \in PerPeer(SUBSET Session)
      /\ current'[d][q] = {t}
      /\ \A e, p \in Devices :
            e # d \/ p # q => current'[e][p] = current[e][p]
  BY <1>0, <1>c, <1>3, SMTT(30) DEF TypeOK, PerPeer
<1>7. /\ previous' \in PerPeer(SUBSET Session)
      /\ previous'[d][q] = current[d][q]
      /\ \A e, p \in Devices :
            e # d \/ p # q => previous'[e][p] = previous[e][p]
  BY <1>0, <1>q, SMTT(30) DEF TypeOK, PerPeer
<1>8. /\ pending' \in PerPeer(SUBSET Handshake)
      /\ pending'[d][q] = {}
      /\ \A e, p \in Devices : pending'[e][p] \subseteq pending[e][p]
  BY <1>0, <1>q DEF TypeOK, PerPeer
<1>9. TypeOK'
  <2>1. keepalive_armed_since' \in PerPeer(SUBSET Nat)
    BY <1>0, <1>q DEF TypeOK, PerPeer
  <2>2. datagrams' \subseteq Datagram /\ installed' \subseteq End
    BY <1>0, <1>c, <1>u, <1>4, <1>5 DEF TypeOK
  <2> QED BY <1>0, <1>u, <1>6, <1>7, <1>8, <2>1, <2>2, ZenonT(30) DEF TypeOK
<1>10. \A e \in installed : e.key = k => e.role # "initiator"
  <2> SUFFICES ASSUME NEW e \in installed, e.key = k, e.role = "initiator"
               PROVE  FALSE
    OBVIOUS
  <2>1. e.dev = d
    BY <1>2 DEF EndsInPlace, Holder
  <2> QED BY <1>2, <2>1 DEF PendingUnused
<1>11. \A w \in datagrams : w.key = k => w.role # "initiator"
  BY <1>10, Zenon DEF DatagramsInstalled
<1>12. \A w \in datagrams : w.key # k
  <2> SUFFICES ASSUME NEW w \in datagrams, w.key = k PROVE FALSE
    OBVIOUS
  <2>1. w.role \in Role /\ w.role # "initiator"
    BY <1>0, <1>11 DEF TypeOK, Datagram
  <2>2. OtherRole(w.role) = "initiator"
    BY <2>1 DEF OtherRole, Role
  <2>3. [dev |-> w.to, key |-> k, role |-> "initiator"] \in installed
    BY <2>2 DEF SentIsReadable
  <2> QED BY <1>10, <2>3
<1>13. ASSUME NEW e \in Devices, NEW p \in Devices, NEW u \in Sessions(e, p)'
       PROVE  \/ e = d /\ p = q /\ u = t
              \/ /\ u \in Sessions(e, p)
                 /\ u.key # k \/ u.role # "initiator"
  <2>1. \/ e = d /\ p = q /\ u = t
        \/ u \in Sessions(e, p)
    BY <1>6, <1>7 DEF Sessions
  <2>2. u \in Sessions(e, p) =>
           [dev |-> e, key |-> u.key, role |-> u.role] \in installed
    BY DEF SessionsInstalled
  <2> QED BY <1>10, <2>1, <2>2
<1>14. SlotsDiffer'
  <2> SUFFICES ASSUME NEW e \in Devices, NEW p \in Devices,
                      NEW u \in current'[e][p], NEW w \in previous'[e][p]
               PROVE  u.key # w.key \/ u.role # w.role
    BY DEF SlotsDiffer
  <2>1. CASE e = d /\ p = q
    <3>1. u = t /\ w \in current[d][q]
      BY <1>6, <1>7, <2>1
    <3>2. [dev |-> d, key |-> w.key, role |-> w.role] \in installed
      BY <3>1 DEF SessionsInstalled, Sessions
    <3> QED BY <1>3, <1>10, <3>1, <3>2
  <2>2. CASE e # d \/ p # q
    <3>1. u \in current[e][p] /\ w \in previous[e][p]
      BY <1>6, <1>7, <2>2
    <3> QED BY <3>1 DEF SlotsDiffer
  <2> QED BY <2>1, <2>2
<1>15. KeysDrawn'
  <2>1. k.n <= ephemerals[k.ini] /\ k.m <= ephemerals[k.res]
    BY <1>2, SMTT(30) DEF KeysDrawn
  <2>2. \A e, p \in Devices : \A g \in pending'[e][p] : g.n <= ephemerals[e]
    BY <1>8 DEF KeysDrawn
  <2> QED BY <1>u, <1>5, <2>1, <2>2 DEF KeysDrawn
<1>16. ResponsesInstalled'
  BY <1>u, ZenonT(30) DEF ResponsesInstalled
<1>17. PendingUnused'
  <2>1. ASSUME NEW e \in Devices, NEW p \in Devices,
               NEW g \in pending'[e][p], NEW z \in installed',
               z.dev = e, z.role = "initiator"
        PROVE  z.key.n # g.n
    <3>1. g \in pending[e][p]
      BY <1>8
    <3>2. CASE z \in installed
      BY <2>1, <3>1, <3>2 DEF PendingUnused
    <3>3. CASE z = x
      <4>1. e = d /\ p # q
        BY <1>5, <1>8, <2>1, <3>3, SMTT(30)
      <4>2. g.n # h.n
        BY <3>1, <4>1 DEF PendingUnused
      <4> QED BY <1>2, <1>5, <3>3, <4>2, SMTT(30)
    <3> QED BY <1>u, <3>2, <3>3
  <2>2. \A e, p, r \in Devices : \A g \in pending'[e][p], f \in pending'[e][r] :
           g.n = f.n => r = p
    BY <1>8 DEF PendingUnused
  <2> QED BY <2>1, <2>2, SMTT(30) DEF PendingUnused
<1>18. EndsInPlace'
  <2>1. x.dev = Holder(x.key, x.role)
    BY <1>2, <1>5 DEF Holder
  <2> QED BY <1>u, <2>1, SMTT(30) DEF EndsInPlace
<1>19. SessionsInstalled'
  <2>1. q = PeerOf(t.key, t.role)
    BY <1>2, <1>3 DEF PeerOf
  <2>2. [dev |-> d, key |-> t.key, role |-> t.role] \in installed'
    BY <1>u, <1>3 DEF x
  <2> QED BY <1>u, <1>13, <2>1, <2>2, Zenon DEF SessionsInstalled
<1>20. DatagramsInstalled'
  <2>1. Holder(y.key, y.role) = d /\ PeerOf(y.key, y.role) = q
    BY <1>2, <1>4 DEF Holder, PeerOf
  <2>2. [dev |-> d, key |-> y.key, role |-> y.role] \in installed'
    BY <1>u, <1>4 DEF x
  <2> QED BY <1>c, <1>u, <1>4, <2>1, <2>2 DEF DatagramsInstalled
<1>21. SentIsReadable'
  <2>1. OtherRole(y.role) = "responder"
    BY <1>4 DEF OtherRole
  <2> QED BY <1>c, <1>u, <1>2, <1>4, <2>1 DEF SentIsReadable
<1>22. NonceFresh'
  <2> SUFFICES ASSUME NEW e \in Devices, NEW p \in Devices,
                      NEW u \in Sessions(e, p)', NEW w \in datagrams',
                      w.key = u.key, w.role = u.role
               PROVE  w.counter < u.send_counter
    BY DEF NonceFresh
  <2>1. CASE u = t
    <3>1. w = y
      BY <1>c, <1>3, <1>12, <2>1
    <3> QED BY <1>3, <1>4, <2>1, <3>1
  <2>2. CASE u \in Sessions(e, p) /\ (u.key # k \/ u.role # "initiator")
    <3>1. w \in datagrams
      BY <1>c, <1>4, <2>2, SMTT(30)
    <3> QED BY <2>2, <3>1 DEF NonceFresh
  <2> QED BY <1>13, <2>1, <2>2
<1>23. OpenedSeen'
  <2>1. \A w \in opened : w.key # k
    BY <1>12, SMTT(30) DEF DatagramsInstalled
  <2> QED BY <1>u, <1>3, <1>13, <2>1, ZenonT(30) DEF OpenedSeen
<1>24. ConfirmedIsShared'
  <2>1. OtherRole(t.role) = "responder"
    BY <1>3 DEF OtherRole
  <2> QED BY <1>u, <1>2, <1>3, <1>13, <2>1, SMTT(30) DEF ConfirmedIsShared
<1> QED BY <1>9, <1>14, <1>15, <1>16, <1>17, <1>18, <1>19, <1>20, <1>21,
           <1>22, <1>23, <1>24

-----------------------------------------------------------------------------
(* Answers.  A response is counted against the initiation it answers.      *)

Answers(i) == {r \in responses : r.key.ini = i.from /\ r.key.n = i.n}

(* Strengthening of AnsweredOnce: an initiation the device has not heard   *)
(* since its last restart has been answered by its earlier lives only.     *)
AnswersBounded(i) ==
    /\ Cardinality(Answers(i)) <= 1 + restarts[i.to]
    /\ last_timestamp[i.to][i.from] < i.n
          => Cardinality(Answers(i)) <= restarts[i.to]

AnswerInv ==
    /\ IsFiniteSet(responses)
    /\ \A i, j \in initiations : i.from = j.from /\ i.n = j.n => i = j
    /\ \A i \in initiations : AnswersBounded(i)

(* respond_to_initiation: one answer more, and the timestamp remembers it. *)
LEMMA RespondAnswers ==
    ASSUME Inv, AnswerInv, NEW d \in Devices, NEW m \in initiations,
           RespondToInitiation(d, m)
    PROVE  AnswerInv'
<1>0. /\ last_timestamp \in PerPeer(Nat) /\ restarts \in [Devices -> Nat]
      /\ initiations \subseteq Initiation /\ m.from \in Devices /\ m.n \in Nat
  BY DEF Inv, TypeOK, Initiation
<1>1. PICK r :
        /\ r.key.ini = m.from /\ r.key.n = m.n
        /\ responses' = responses \union {r}
  <2> DEFINE answer(i) ==
        [from |-> d, to |-> m.from,
         key |-> [ini |-> m.from, n |-> m.n, res |-> d, m |-> ephemerals[d] + 1],
         sender |-> i, receiver |-> m.sender]
  <2>1. PICK i \in Free(d) : responses' = responses \union {answer(i)}
    BY Zenon DEF RespondToInitiation
  <2>2. answer(i).key.ini = m.from /\ answer(i).key.n = m.n
    OBVIOUS
  <2> HIDE DEF answer
  <2> QED BY <2>1, <2>2
<1>2. /\ m.to = d /\ last_timestamp[d][m.from] < m.n
      /\ last_timestamp' = [last_timestamp EXCEPT ![d][m.from] = m.n]
      /\ restarts' = restarts /\ initiations' = initiations
  <2>1. /\ m.to = d /\ m.n > last_timestamp[d][m.from]
        /\ last_timestamp' = [last_timestamp EXCEPT ![d][m.from] = m.n]
        /\ restarts' = restarts /\ initiations' = initiations
    BY Zenon DEF RespondToInitiation, TimestampIsNewer
  <2> QED BY <1>0, <2>1 DEF PerPeer
<1>3. IsFiniteSet(responses')
  BY <1>1, FS_AddElement DEF AnswerInv
<1>4. ASSUME NEW i \in initiations
      PROVE  AnswersBounded(i)'
  <2>0. /\ i.from \in Devices /\ i.to \in Devices /\ i.n \in Nat
        /\ restarts[i.to] \in Nat /\ last_timestamp[i.to][i.from] \in Nat
        /\ AnswersBounded(i)
    BY <1>0 DEF Initiation, PerPeer, AnswerInv
  <2>1. IsFiniteSet(Answers(i)) /\ Cardinality(Answers(i)) \in Nat
    <3>1. Answers(i) \in SUBSET responses
      BY DEF Answers
    <3> QED BY <3>1, FS_Subset, FS_CardinalityType DEF AnswerInv
  <2>2. CASE i = m
    <3>1. Answers(i)' = Answers(i) \union {r}
      BY <1>1, <2>2 DEF Answers
    <3>2. Cardinality(Answers(i)') <= Cardinality(Answers(i)) + 1
      <4>1. Cardinality(Answers(i) \union {r}) <= Cardinality(Answers(i)) + 1
        <5>1. Cardinality(Answers(i) \union {r}) =
                IF r \in Answers(i) THEN Cardinality(Answers(i))
                ELSE Cardinality(Answers(i)) + 1
          BY <2>1, FS_AddElement, Zenon
        <5> QED BY <2>1, <5>1
      <4> QED BY <3>1, <4>1
    <3>3. last_timestamp'[i.to][i.from] = i.n
      BY <1>0, <1>2, <2>2 DEF PerPeer
    <3>4. Cardinality(Answers(i)) <= restarts[i.to]
      BY <1>2, <2>0, <2>2 DEF AnswersBounded
    <3>5. Cardinality(Answers(i)') \in Nat
      BY <2>1, <3>1, FS_AddElement, FS_CardinalityType
    <3>6. Cardinality(Answers(i)') <= 1 + restarts[i.to]
      BY <2>0, <2>1, <3>2, <3>4, <3>5
    <3> QED BY <1>2, <2>0, <3>3, <3>6 DEF AnswersBounded
  <2>3. CASE i # m
    <3>1. ~(i.from = m.from /\ i.n = m.n)
      BY <2>3 DEF AnswerInv
    <3>2. Answers(i)' = Answers(i)
      BY <1>1, <3>1 DEF Answers
    <3>3. last_timestamp'[i.to][i.from] \in Nat
          /\ last_timestamp[i.to][i.from] <= last_timestamp'[i.to][i.from]
      BY <1>0, <1>2, <2>0 DEF PerPeer
    <3> QED BY <1>2, <2>0, <2>1, <3>2, <3>3 DEF AnswersBounded
  <2> QED BY <2>2, <2>3
<1> QED BY <1>2, <1>3, <1>4 DEF AnswerInv

(* start_handshake: nobody has answered an ephemeral that was just drawn.  *)
LEMMA PollAnswers ==
    ASSUME Inv, AnswerInv, NEW d \in Devices, PollHandshakes(d)
    PROVE  AnswerInv'
<1>0. /\ ephemerals \in [Devices -> Nat] /\ restarts \in [Devices -> Nat]
      /\ initiations \subseteq Initiation /\ responses \subseteq Response
  BY DEF Inv, TypeOK
<1>1. PICK m \in Initiation :
        /\ m.from = d /\ m.n = ephemerals[d] + 1
        /\ initiations' = initiations \union {m}
  <2>1. PICK q \in Devices : StartHandshake(d, q)
    BY Zenon DEF PollHandshakes
  <2>2. PICK i \in Free(d) : initiations' = initiations \union
          {[from |-> d, to |-> q, n |-> ephemerals[d] + 1, sender |-> i]}
    BY <2>1, Zenon DEF StartHandshake
  <2>3. [from |-> d, to |-> q, n |-> ephemerals[d] + 1, sender |-> i] \in Initiation
    BY <1>0 DEF Initiation, Free
  <2> QED BY <2>2, <2>3
<1>2. /\ responses' = responses /\ restarts' = restarts
      /\ last_timestamp' = last_timestamp
  BY Zenon DEF PollHandshakes
<1>3. \A i \in initiations : ~(i.from = d /\ i.n = ephemerals[d] + 1)
  BY <1>0 DEF Inv, KeysDrawn, Initiation
<1>4. \A r \in responses : ~(r.key.ini = d /\ r.key.n = ephemerals[d] + 1)
  <2> SUFFICES ASSUME NEW r \in responses, r.key.ini = d PROVE r.key.n # ephemerals[d] + 1
    OBVIOUS
  <2>1. [dev |-> r.from, key |-> r.key, role |-> "responder"] \in installed
    BY DEF Inv, ResponsesInstalled
  <2>2. r.key.n <= ephemerals[d]
    BY <2>1 DEF Inv, KeysDrawn
  <2>3. r.key.n \in Nat /\ ephemerals[d] \in Nat
    BY <1>0 DEF Response, Key
  <2> QED BY <2>2, <2>3
<1>5. \A i : Answers(i)' = Answers(i)
  BY <1>2 DEF Answers
<1>6. Answers(m) = {} /\ restarts[m.to] \in Nat
  BY <1>0, <1>1, <1>4 DEF Answers, Initiation
<1>7. AnswersBounded(m)'
  <2>1. Cardinality(Answers(m)') = 0
    BY <1>5, <1>6, FS_EmptySet
  <2> QED BY <1>2, <1>6, <2>1 DEF AnswersBounded
<1>8. \A i \in initiations : AnswersBounded(i)'
  BY <1>2, <1>5 DEF AnswerInv, AnswersBounded
<1>9. \A i, j \in initiations' : i.from = j.from /\ i.n = j.n => i = j
  BY <1>1, <1>3 DEF AnswerInv
<1> QED BY <1>1, <1>2, <1>7, <1>8, <1>9 DEF AnswerInv

(* A restart forgets the timestamps, and is counted.                       *)
LEMMA RestartAnswers ==
    ASSUME Inv, AnswerInv, NEW d \in Devices, Restart(d)
    PROVE  AnswerInv'
<1>0. restarts \in [Devices -> Nat] /\ initiations \subseteq Initiation
  BY DEF Inv, TypeOK
<1>1. /\ responses' = responses /\ initiations' = initiations
      /\ restarts' = [restarts EXCEPT ![d] = @ + 1]
      /\ last_timestamp' = [last_timestamp EXCEPT ![d] = [p \in Devices |-> 0]]
  BY DEF Restart, network
<1>2. \A i : Answers(i)' = Answers(i)
  BY <1>1 DEF Answers
<1>3. ASSUME NEW i \in initiations
      PROVE  AnswersBounded(i)'
  <2>0. /\ i.to \in Devices /\ restarts[i.to] \in Nat /\ AnswersBounded(i)
    BY <1>0 DEF Initiation, AnswerInv
  <2>1. Cardinality(Answers(i)) \in Nat
    <3>1. Answers(i) \in SUBSET responses
      BY DEF Answers
    <3> QED BY <3>1, FS_Subset, FS_CardinalityType DEF AnswerInv
  <2>2. CASE i.to = d
    <3>1. restarts'[i.to] = restarts[i.to] + 1
      BY <1>0, <1>1, <2>2
    <3> QED BY <1>2, <2>0, <2>1, <3>1 DEF AnswersBounded
  <2>3. CASE i.to # d
    <3>1. /\ restarts'[i.to] = restarts[i.to]
          /\ last_timestamp'[i.to] = last_timestamp[i.to]
      BY <1>0, <1>1, <2>0, <2>3 DEF Inv, TypeOK, PerPeer
    <3> QED BY <1>2, <2>0, <3>1 DEF AnswersBounded
  <2> QED BY <2>2, <2>3
<1> QED BY <1>1, <1>3 DEF AnswerInv

(* The other steps answer nothing and forget nothing.                      *)
LEMMA OtherAnswers ==
    ASSUME AnswerInv, UNCHANGED <<responses, initiations, restarts, last_timestamp>>
    PROVE  AnswerInv'
<1>1. \A i : Answers(i)' = Answers(i)
  BY DEF Answers
<1> QED BY <1>1 DEF AnswerInv, AnswersBounded

=============================================================================
