------------------------------- MODULE Device -------------------------------
(***************************************************************************)
(* wg-core devices exchanging datagrams (crates/wg-core/src/lib.rs: Device *)
(* and Peer; transport.rs: Session; noise.rs: the handshake; timers.rs).   *)
(*                                                                         *)
(* Every device has every other one in its peer table, in the order of     *)
(* their numbers.  An Option<T> of the code is a set of at most one T.     *)
(* Keys are the pair of ephemerals that made them: two sessions can read   *)
(* each other's datagrams if and only if they hold the same key in         *)
(* opposite roles.  Ephemerals are numbered in the order a device draws    *)
(* them; an initiation's number is its TAI64N timestamp as well, since a   *)
(* device's real-time clock rises with every initiation.                   *)
(*                                                                         *)
(* The network never forgets a datagram, and may deliver any of them at    *)
(* any time: that is loss, duplication, delay and reordering in one.  A    *)
(* datagram the handshake budget turns away (RateLimited) is a datagram    *)
(* lost, and leaves the device as it was.                                  *)
(***************************************************************************)
EXTENDS Counters, FiniteSets

CONSTANTS
    Devices,              \* a set of numbers
    Index,                \* session indices (u32)
    Payload,              \* what an application sends: "ip", "junk"
    Initiators,           \* devices whose caller turns initiating on at setup
    Togglers,             \* devices whose caller changes its mind later
    REKEY_TIMEOUT, KEEPALIVE_TIMEOUT, REKEY_AFTER_TIME, REJECT_AFTER_TIME,
    MaxTime,              \* bound: the last instant explored
    MaxEphemerals,        \* bound: ephemerals drawn by one device
    MaxRestarts           \* bound: restarts of one device

ASSUME DevicesAssumption == Devices \subseteq Nat
ASSUME InitiatorsAssumption ==
    Initiators \subseteq Devices /\ Togglers \subseteq Devices
ASSUME PayloadAssumption == Payload \subseteq {"ip", "junk"}
ASSUME TimersAssumption ==
    /\ REKEY_TIMEOUT \in Nat \ {0}
    /\ KEEPALIVE_TIMEOUT \in Nat \ {0}
    /\ REKEY_AFTER_TIME \in Nat \ {0}
    /\ REJECT_AFTER_TIME \in Nat \ {0}
    /\ REKEY_AFTER_TIME < REJECT_AFTER_TIME
ASSUME BoundsAssumption ==
    MaxTime \in Nat /\ MaxEphemerals \in Nat /\ MaxRestarts \in Nat

VARIABLES
    current, previous,      \* [Devices -> [Devices -> Option Session]]
    pending,                \* the handshake in flight, if any
    last_timestamp,         \* newest initiation accepted from a peer, 0 if none
    keepalive_armed_since,  \* data arrived, nothing sent back since
    initiating,             \* the peers a device starts handshakes with
    ephemerals,             \* ephemerals drawn so far
    restarts,               \* restarts so far
    now,                    \* the monotonic clock
    initiations, responses, datagrams,  \* every message ever sent, by type
    installed,              \* history: every session end ever installed
    opened                  \* history: every datagram a device opened

slots == <<current, previous>>
network == <<initiations, responses, datagrams>>
vars == <<current, previous, pending, last_timestamp, keepalive_armed_since,
          initiating, ephemerals, restarts, now, initiations, responses,
          datagrams, installed, opened>>

Role == {"initiator", "responder"}

Key == [ini : Devices, n : Nat, res : Devices, m : Nat]

Session ==
    [key : Key, role : Role, local_index : Index, peer_index : Index,
     send_counter : Nat, seen : SUBSET Counter, established : Nat,
     confirmed : BOOLEAN]

Handshake == [n : Nat, local_index : Index, since : Nat, last_sent : Nat]

Initiation == [from : Devices, to : Devices, n : Nat, sender : Index]
Response ==
    [from : Devices, to : Devices, key : Key, sender : Index, receiver : Index]
Datagram ==
    [to : Devices, receiver : Index, key : Key, role : Role, counter : Nat,
     body : Payload \union {"keepalive"}]

End == [dev : Devices, key : Key, role : Role]

PerPeer(S) == [Devices -> [Devices -> S]]

TypeOK ==
    /\ current \in PerPeer(SUBSET Session)
    /\ previous \in PerPeer(SUBSET Session)
    /\ pending \in PerPeer(SUBSET Handshake)
    /\ last_timestamp \in PerPeer(Nat)
    /\ keepalive_armed_since \in PerPeer(SUBSET Nat)
    /\ initiating \in [Devices -> SUBSET Devices]
    /\ ephemerals \in [Devices -> Nat]
    /\ restarts \in [Devices -> Nat]
    /\ now \in Nat
    /\ initiations \subseteq Initiation
    /\ responses \subseteq Response
    /\ datagrams \subseteq Datagram
    /\ installed \subseteq End
    /\ opened \subseteq Datagram

(* set_initiating as the callers set a device up, right after add_peer.    *)
Setup(d) == IF d \in Initiators THEN Devices \ {d} ELSE {}

Init ==
    /\ current = [d \in Devices |-> [p \in Devices |-> {}]]
    /\ previous = current
    /\ pending = current
    /\ last_timestamp = [d \in Devices |-> [p \in Devices |-> 0]]
    /\ keepalive_armed_since = current
    /\ initiating = [d \in Devices |-> Setup(d)]
    /\ ephemerals = [d \in Devices |-> 0]
    /\ restarts = [d \in Devices |-> 0]
    /\ now = 0
    /\ initiations = {} /\ responses = {} /\ datagrams = {}
    /\ installed = {} /\ opened = {}

-----------------------------------------------------------------------------
(* Sessions.                                                               *)

(* Session::is_usable.                                                     *)
IsUsable(s) ==
    /\ now - s.established < REJECT_AFTER_TIME
    /\ s.send_counter < REJECT_AFTER_MESSAGES

(* What expire_sessions leaves of a slot (and a form that expires nothing).*)
KeepsExpired(slot) == slot
Usable(slot) == {s \in slot : IsUsable(s)}

(* A slot table after expire_sessions for the peers visited, with the slot *)
(* of peer q then set to v.                                                *)
Swept(table, d, visited, q, v) ==
    [table EXCEPT ![d] = [p \in Devices |->
        IF p = q THEN v
        ELSE IF p \in visited THEN Usable(table[d][p]) ELSE table[d][p]]]

(* The peers a loop over the table has visited when it stops at q.         *)
UpTo(q) == {p \in Devices : p <= q}
IsFirst(q, P) == q \in P /\ \A p \in P : q <= p

(* Session::new.                                                           *)
NewSession(k, role, local, remote, confirmed) ==
    [key |-> k, role |-> role, local_index |-> local, peer_index |-> remote,
     send_counter |-> 0, seen |-> {}, established |-> now,
     confirmed |-> confirmed]

(* Session::seal: the datagram it writes, and the session it leaves (and a *)
(* form that does not advance the counter).                                *)
Datum(q, s, body) ==
    [to |-> q, receiver |-> s.peer_index, key |-> s.key, role |-> s.role,
     counter |-> s.send_counter, body |-> body]
SealedUncounted(s) == s
Sealed(s) == [s EXCEPT !.send_counter = @ + 1]

(* Session::open succeeds: the tag verifies and the counter is fresh.      *)
Opens(s, m) ==
    /\ m.key = s.key
    /\ m.role # s.role
    /\ Fresh(s.seen, m.counter)

(* ... and the session it leaves, `confirm` included (and a form that      *)
(* forgets to mark the counter).                                           *)
OpenedUnmarked(s, m) == [s EXCEPT !.confirmed = TRUE]
Opened(s, m) ==
    [s EXCEPT !.seen = @ \union {m.counter}, !.confirmed = TRUE]

(* allocate_index: any index no installed session of d uses (and a form    *)
(* that does not look).                                                    *)
AnyIndex(d) == Index
Free(d) ==
    {i \in Index : \A p \in Devices :
        \A s \in current[d][p] \union previous[d][p] : s.local_index # i}

-----------------------------------------------------------------------------
(* The operations of a device.                                             *)

(* Peer::clear_pending (and a form that leaves the handshake in place).    *)
LeavePending(d, q) == pending' = pending
ClearPending(d, q) == pending' = [pending EXCEPT ![d][q] = {}]

(* encapsulate and poll_timers send only under a confirmed session (and a  *)
(* form that does not look).                                               *)
SendsAnyway(s) == TRUE
MaySend(s) == s.confirmed

(* Peer::wants_handshake, after expire_sessions.                           *)
WantsHandshake(d, q) ==
    /\ q \in initiating[d]
    /\ \A s \in Usable(current[d][q]) :
          now - s.established >= REKEY_AFTER_TIME
    /\ \A h \in pending[d][q] : now - h.last_sent >= REKEY_TIMEOUT

(* start_handshake, with a token of the budget.                            *)
StartHandshake(d, q) ==
    /\ ephemerals[d] < MaxEphemerals
    /\ \E i \in Free(d) :
         LET n == ephemerals[d] + 1
             begun == {h.since : h \in pending[d][q]}
             since == IF begun = {} THEN now ELSE CHOOSE t \in begun : TRUE
         IN  /\ pending' = [pending EXCEPT ![d][q] =
                   {[n |-> n, local_index |-> i, since |-> since,
                     last_sent |-> now]}]
             /\ initiations' = initiations \union
                   {[from |-> d, to |-> q, n |-> n, sender |-> i]}
             /\ ephemerals' = [ephemerals EXCEPT ![d] = n]

(* poll_handshakes that sends: the first peer of the table that wants one. *)
PollHandshakes(d) ==
    /\ \E q \in Devices \ {d} :
         /\ IsFirst(q, {p \in Devices : WantsHandshake(d, p)})
         /\ StartHandshake(d, q)
         /\ current' = Swept(current, d, UpTo(q), q, Usable(current[d][q]))
         /\ previous' = Swept(previous, d, UpTo(q), q, Usable(previous[d][q]))
    /\ UNCHANGED <<last_timestamp, keepalive_armed_since, initiating, restarts,
                   now, responses, datagrams, installed, opened>>

(* The timestamp check of an initiation (and a form without it).           *)
AcceptsAnyTimestamp(d, m) == TRUE
TimestampIsNewer(d, m) == m.n > last_timestamp[d][m.from]

(* respond_to_initiation: the session it installs may not send until a     *)
(* datagram has opened under it.                                           *)
RespondToInitiation(d, m) ==
    /\ m.to = d
    /\ TimestampIsNewer(d, m)
    /\ ephemerals[d] < MaxEphemerals
    /\ \E i \in Free(d) :
         LET q == m.from
             k == [ini |-> q, n |-> m.n, res |-> d, m |-> ephemerals[d] + 1]
         IN  /\ previous' = [previous EXCEPT ![d][q] = current[d][q]]
             /\ current' = [current EXCEPT ![d][q] =
                   {NewSession(k, "responder", i, m.sender, FALSE)}]
             /\ last_timestamp' = [last_timestamp EXCEPT ![d][q] = m.n]
             /\ keepalive_armed_since' =
                   [keepalive_armed_since EXCEPT ![d][q] = {}]
             /\ ClearPending(d, q)
             /\ responses' = responses \union
                   {[from |-> d, to |-> q, key |-> k, sender |-> i,
                     receiver |-> m.sender]}
             /\ installed' = installed \union
                   {[dev |-> d, key |-> k, role |-> "responder"]}
    /\ ephemerals' = [ephemerals EXCEPT ![d] = @ + 1]
    /\ UNCHANGED <<initiating, restarts, now, initiations, datagrams, opened>>

(* What handle_udp sends once a handshake is complete (and a form that     *)
(* leaves the responder waiting).                                          *)
NoConfirmation(q, s) == {}
Confirmation(q, s) == {Datum(q, s, "keepalive")}

(* handle_udp on a response: complete_handshake, then the keepalive that   *)
(* confirms the session to the responder, counter 0.                       *)
CompleteHandshake(d, m) ==
    /\ m.to = d
    /\ \E q \in Devices : \E h \in pending[d][q] :
         /\ h.local_index = m.receiver
         /\ IsFirst(q, {p \in Devices : \E g \in pending[d][p] :
                            g.local_index = m.receiver})
         /\ q = m.from /\ d = m.key.ini /\ h.n = m.key.n   \* consume_response
         /\ LET s == NewSession(m.key, "initiator", h.local_index, m.sender,
                                TRUE)
            IN  /\ previous' = [previous EXCEPT ![d][q] = current[d][q]]
                /\ current' = [current EXCEPT ![d][q] = {Sealed(s)}]
                /\ datagrams' = datagrams \union Confirmation(q, s)
         /\ ClearPending(d, q)
         /\ keepalive_armed_since' =
               [keepalive_armed_since EXCEPT ![d][q] = {}]
    /\ installed' = installed \union
          {[dev |-> d, key |-> m.key, role |-> "initiator"]}
    /\ UNCHANGED <<last_timestamp, initiating, ephemerals, restarts, now,
                   initiations, responses, opened>>

(* The peers whose sessions answer to a receiver index.                    *)
Holders(d, receiver) ==
    {p \in Devices : \E s \in Usable(current[d][p] \union previous[d][p]) :
        s.local_index = receiver}

(* The session a datagram opens under: the current one if its index is the *)
(* receiver's, else the previous one.                                      *)
OpenCurrent(d, q, m) ==
    \E s \in Usable(current[d][q]) :
        /\ s.local_index = m.receiver
        /\ Opens(s, m)
        /\ current' = Swept(current, d, UpTo(q), q, {Opened(s, m)})
        /\ previous' = Swept(previous, d, UpTo(q), q, Usable(previous[d][q]))

OpenPrevious(d, q, m) ==
    \E s \in Usable(previous[d][q]) :
        /\ s.local_index = m.receiver
        /\ \A t \in Usable(current[d][q]) : t.local_index # m.receiver
        /\ Opens(s, m)
        /\ current' = Swept(current, d, UpTo(q), q, {Opened(s, m)})
        /\ previous' = Swept(previous, d, UpTo(q), q, {})

(* Only an IP packet arms the keepalive timer (and a form where everything *)
(* does).                                                                  *)
ArmedByAnything(m) == TRUE
ArmsKeepalive(m) == m.body = "ip"

(* open_data that succeeds.  A keepalive, and a plaintext that is no IP    *)
(* packet, prove the peer alive but do not arm the keepalive timer.        *)
OpenData(d, m) ==
    /\ m.to = d
    /\ \E q \in Devices :
         /\ IsFirst(q, Holders(d, m.receiver))
         /\ OpenCurrent(d, q, m) \/ OpenPrevious(d, q, m)
         /\ keepalive_armed_since' =
               IF ArmsKeepalive(m) /\ keepalive_armed_since[d][q] = {}
               THEN [keepalive_armed_since EXCEPT ![d][q] = {now}]
               ELSE keepalive_armed_since
    /\ opened' = opened \union {m}
    /\ UNCHANGED <<pending, last_timestamp, initiating, ephemerals, restarts,
                   now, network, installed>>

(* The seal of encapsulate and poll_timers, under a confirmed session.     *)
Send(d, q, visited, body) ==
    \E s \in Usable(current[d][q]) :
        /\ MaySend(s)
        /\ current' = Swept(current, d, visited, q, {Sealed(s)})
        /\ previous' = Swept(previous, d, visited, q, Usable(previous[d][q]))
        /\ datagrams' = datagrams \union {Datum(q, s, body)}
        /\ keepalive_armed_since' = [keepalive_armed_since EXCEPT ![d][q] = {}]
        /\ UNCHANGED <<pending, last_timestamp, initiating, ephemerals,
                       restarts, now, initiations, responses, installed,
                       opened>>

Encapsulate(d, q, body) == Send(d, q, {q}, body)

(* poll_timers that sends: the first peer that is owed a keepalive and has *)
(* a session that may carry it (and a form with the wrong timeout).        *)
DueAtRekey(d, q) ==
    /\ \E t \in keepalive_armed_since[d][q] : now - t >= REKEY_AFTER_TIME
    /\ \E s \in Usable(current[d][q]) : MaySend(s)
KeepaliveDue(d, q) ==
    /\ \E t \in keepalive_armed_since[d][q] : now - t >= KEEPALIVE_TIMEOUT
    /\ \E s \in Usable(current[d][q]) : MaySend(s)

PollTimers(d) ==
    \E q \in Devices :
        /\ IsFirst(q, {p \in Devices : KeepaliveDue(d, p)})
        /\ Send(d, q, UpTo(q), "keepalive")

(* The outcomes that only retire sessions: poll_handshakes and poll_timers *)
(* with nothing to send (or no budget), open_data and encapsulate that     *)
(* fail.  The loops visit the table up to a peer, encapsulate one peer.    *)
ExpireSessions(d, visited) ==
    /\ \E q \in visited :
         /\ current' = Swept(current, d, visited, q, Usable(current[d][q]))
         /\ previous' = Swept(previous, d, visited, q, Usable(previous[d][q]))
    /\ UNCHANGED <<pending, last_timestamp, keepalive_armed_since, initiating,
                   ephemerals, restarts, now, network, installed, opened>>

(* set_initiating.                                                         *)
SetInitiating(d, q, on) ==
    /\ d \in Togglers
    /\ on # (q \in initiating[d])
    /\ initiating' = [initiating EXCEPT ![d] =
           IF on THEN @ \union {q} ELSE @ \ {q}]
    /\ IF on THEN pending' = pending ELSE ClearPending(d, q)
    /\ UNCHANGED <<current, previous, last_timestamp, keepalive_armed_since,
                   ephemerals, restarts, now, network, installed, opened>>

(* The process ends and starts again: Device::new, add_peer and the        *)
(* caller's setup.  Everything but the identity is lost.                   *)
Restart(d) ==
    /\ restarts[d] < MaxRestarts
    /\ restarts' = [restarts EXCEPT ![d] = @ + 1]
    /\ LET fresh == [p \in Devices |-> {}]
       IN  /\ current' = [current EXCEPT ![d] = fresh]
           /\ previous' = [previous EXCEPT ![d] = fresh]
           /\ pending' = [pending EXCEPT ![d] = fresh]
           /\ keepalive_armed_since' =
                 [keepalive_armed_since EXCEPT ![d] = fresh]
    /\ last_timestamp' = [last_timestamp EXCEPT ![d] = [p \in Devices |-> 0]]
    /\ initiating' = [initiating EXCEPT ![d] = Setup(d)]
    /\ UNCHANGED <<ephemerals, now, network, installed, opened>>

Tick ==
    /\ now < MaxTime
    /\ now' = now + 1
    /\ UNCHANGED <<slots, pending, last_timestamp, keepalive_armed_since,
                   initiating, ephemerals, restarts, network, installed,
                   opened>>

Receive(d) ==
    \/ \E m \in initiations : RespondToInitiation(d, m)
    \/ \E m \in responses : CompleteHandshake(d, m)
    \/ \E m \in datagrams : OpenData(d, m)

Operate(d) ==
    \/ PollHandshakes(d)
    \/ PollTimers(d)
    \/ \E q \in Devices \ {d} :
          \/ \E body \in Payload : Encapsulate(d, q, body)
          \/ ExpireSessions(d, UpTo(q)) \/ ExpireSessions(d, {q})
          \/ \E on \in BOOLEAN : SetInitiating(d, q, on)
    \/ Restart(d)

Next == Tick \/ \E d \in Devices : Receive(d) \/ Operate(d)

Spec == Init /\ [][Next]_vars

-----------------------------------------------------------------------------
(* Safety.                                                                 *)

Sessions(d, q) == current[d][q] \union previous[d][q]

(* The device that holds a key in a role, and the one at the other end.    *)
Holder(k, role) == IF role = "initiator" THEN k.ini ELSE k.res
PeerOf(k, role) == IF role = "initiator" THEN k.res ELSE k.ini

OtherRole(role) == IF role = "initiator" THEN "responder" ELSE "initiator"

(* No nonce is ever used twice.  A session's next counter has not been     *)
(* sent under its key and direction by anyone, in spite of retries,        *)
(* duplicated responses, promoted sessions and restarts: Session::seal     *)
(* would otherwise encrypt two packets under one nonce.                    *)
NonceFresh ==
    \A d, q \in Devices : \A s \in Sessions(d, q) : \A m \in datagrams :
        m.key = s.key /\ m.role = s.role => m.counter < s.send_counter

(* No datagram is opened twice: what a session would still open has not    *)
(* been opened before, by this session or by another that held the key     *)
(* earlier (Session::open, "each is accepted exactly once").               *)
OpenedOnce ==
    \A d, q \in Devices : \A s \in Sessions(d, q) : \A m \in opened :
        ~Opens(s, m)

(* A session that may send is shared: the other end derived the same key   *)
(* and installed it.  For the initiator this is what the response's tag    *)
(* proves, for the responder what the first datagram under the key does.   *)
ConfirmedIsShared ==
    \A d, q \in Devices : \A s \in Sessions(d, q) :
        s.confirmed =>
            [dev |-> q, key |-> s.key, role |-> OtherRole(s.role)] \in installed

(* "WireGuard forbids the responder from sending data under keys the peer  *)
(* has not yet demonstrated it derived identically" (encapsulate): every   *)
(* datagram ever sent could be read by the device it was sent to.          *)
SentIsReadable ==
    \A m \in datagrams :
        [dev |-> m.to, key |-> m.key, role |-> OtherRole(m.role)] \in installed

(* A device answers an initiation once: however often the network delivers *)
(* it, and however late, only a restart (which forgets last_timestamp)     *)
(* lets it make another session.                                           *)
AnsweredOnce ==
    \A i \in initiations :
        Cardinality({r \in responses : r.key.ini = i.from /\ r.key.n = i.n})
            <= 1 + restarts[i.to]

(* The slots are Options, and the two sessions of a peer never share an    *)
(* index: open_data cannot take one for the other.                         *)
SlotsDistinct ==
    \A d, q \in Devices :
        /\ Cardinality(current[d][q]) <= 1
        /\ Cardinality(previous[d][q]) <= 1
        /\ \A s \in current[d][q], t \in previous[d][q] :
              s.local_index # t.local_index

(* handshake_is_stalled "measures how long the peer has been unreachable   *)
(* rather than how long since the last packet": the attempt in flight      *)
(* began no earlier than the newest session, and survives its retries.     *)
StallCountsFromLastSession ==
    \A d, q \in Devices : \A h \in pending[d][q] :
        /\ h.since <= h.last_sent
        /\ \A s \in Sessions(d, q) : s.established <= h.since

(* Keys past their lifetime are dead in both directions: no step seals or  *)
(* opens under a session older than REJECT_AFTER_TIME.                     *)
ExpiredIsDead ==
    [][\A d, q \in Devices : \A s \in Sessions(d, q), t \in Sessions(d, q)' :
          /\ s.key = t.key /\ s.role = t.role
          /\ s.send_counter # t.send_counter \/ s.seen # t.seen
          => now - s.established < REJECT_AFTER_TIME]_vars

(* A session once retired never comes back: no key is installed a second   *)
(* time at the same end.                                                   *)
NeverResurrected ==
    [][\A d, q \in Devices : \A t \in Sessions(d, q)' :
          \/ \E s \in Sessions(d, q) : s.key = t.key /\ s.role = t.role
          \/ [dev |-> d, key |-> t.key, role |-> t.role] \notin installed
      ]_vars

(* "A keepalive must not itself schedule another keepalive, or two idle    *)
(* peers would ping forever" (open_data): the keepalives a device has sent *)
(* number no more than the handshakes it completed and the packets it      *)
(* received.                                                               *)
KeepalivesAnswerData ==
    \A d \in Devices :
        Cardinality({m \in datagrams :
                         Holder(m.key, m.role) = d /\ m.body = "keepalive"})
            <= Cardinality({e \in installed :
                                e.dev = d /\ e.role = "initiator"})
               + Cardinality({m \in opened : m.to = d /\ m.body = "ip"})

-----------------------------------------------------------------------------
(* The inductive invariant behind NonceFresh, OpenedOnce,                  *)
(* ConfirmedIsShared and SentIsReadable (proved in DeviceProofs).          *)

(* The ephemerals in any key have been drawn.                              *)
KeysDrawn ==
    /\ \A i \in initiations : i.n <= ephemerals[i.from]
    /\ \A d, q \in Devices : \A h \in pending[d][q] : h.n <= ephemerals[d]
    /\ \A e \in installed :
          e.key.n <= ephemerals[e.key.ini] /\ e.key.m <= ephemerals[e.key.res]

(* A response was sent by a device that had installed its key.             *)
ResponsesInstalled ==
    \A r \in responses :
        /\ r.from = r.key.res /\ r.to = r.key.ini
        /\ [dev |-> r.from, key |-> r.key, role |-> "responder"] \in installed

(* The ephemeral of a handshake in flight has made no session yet, and is  *)
(* not that of a handshake with another peer.                              *)
PendingUnused ==
    /\ \A d, q \in Devices : \A h \in pending[d][q] : \A e \in installed :
          e.dev = d /\ e.role = "initiator" => e.key.n # h.n
    /\ \A d, p, q \in Devices : \A h \in pending[d][q], g \in pending[d][p] :
          h.n = g.n => p = q

(* An end is at the device its role says.                                  *)
EndsInPlace ==
    \A e \in installed : e.dev = Holder(e.key, e.role)

(* A session belongs to the peer its key names, and was installed there.   *)
SessionsInstalled ==
    \A d, q \in Devices : \A s \in Sessions(d, q) :
        /\ [dev |-> d, key |-> s.key, role |-> s.role] \in installed
        /\ q = PeerOf(s.key, s.role)

(* A datagram was sealed by an installed end, for the other end.           *)
DatagramsInstalled ==
    /\ \A m \in datagrams :
          /\ [dev |-> Holder(m.key, m.role), key |-> m.key,
               role |-> m.role] \in installed
          /\ m.to = PeerOf(m.key, m.role)
    /\ opened \subseteq datagrams

(* The two slots of a peer never hold the same key in the same role.       *)
SlotsDiffer ==
    \A d, q \in Devices : \A s \in current[d][q], t \in previous[d][q] :
        s.key # t.key \/ s.role # t.role

(* A session remembers every datagram it, or its earlier self, opened.     *)
OpenedSeen ==
    \A d, q \in Devices : \A s \in Sessions(d, q) : \A m \in opened :
        m.key = s.key /\ m.role # s.role => m.counter \in s.seen

Inv ==
    /\ TypeOK
    /\ KeysDrawn /\ ResponsesInstalled /\ PendingUnused /\ EndsInPlace
    /\ SessionsInstalled /\ DatagramsInstalled /\ SlotsDiffer
    /\ NonceFresh /\ OpenedSeen /\ ConfirmedIsShared /\ SentIsReadable

=============================================================================
