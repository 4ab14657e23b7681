-------------------------------- MODULE Gateway --------------------------------
(***************************************************************************)
(* The firmware of the gateway: the Wi-Fi task (firmware/src/wifi.rs) and  *)
(* the tunnel task (firmware/src/tunnel.rs) with its two flow tables.  A   *)
(* WireGuard peer sends datagrams to the gateway; what they carry is put   *)
(* on the uplink from a port of the gateway's own, and what comes back on  *)
(* that port is put into the tunnel again.                                 *)
(*                                                                         *)
(* The tunnel task is the loop of tunnel.rs: one action per arm of its     *)
(* match.  Its select4 is biased, so a reply from the uplink is looked at  *)
(* only when no datagram waits on the WireGuard socket.  The peer, the     *)
(* servers, the radio and the clock are the environment: datagrams and     *)
(* replies are lost, repeated, delayed and reordered, a third party's      *)
(* datagrams reach the WireGuard port, and the peer moves.                 *)
(***************************************************************************)
EXTENDS Integers, Sequences, FiniteSets, NatTable, Checksum

CONSTANTS
  Addresses,        \* where datagrams for the WireGuard port come from
  NowhereAddr,      \* "no endpoint learned yet"
  Protocols,        \* the tables in use, of {"udp", "tcp"}
  Scenarios,        \* bound: what may happen together in a behaviour
  Slots,            \* by protocol, the slots of its table
  IDLE_TIMEOUT_MS,  \* by protocol
  Flows,            \* by protocol, pairs <<client, server>>, each an address and a port
  our_ip, EXT_PORT, \* the gateway's address, the external port of a slot
  Contents,         \* the segments that occur: whether a SYN, options, rest
  WG_PACKETS,       \* how many datagrams the WireGuard socket holds
  MaxInFlight,      \* bound: requests a server has yet to answer
  MaxTime           \* bound: the clock

ASSUME SlotsAssumption == Slots \in [Protocols -> SUBSET Nat]
ASSUME TimeAssumption == IDLE_TIMEOUT_MS \in [Protocols -> Nat \ {0}]
ASSUME NowhereAssumption == NowhereAddr \notin Addresses

VARIABLES
  clock,
  scenario,  \* the protocols in use, and "roam" if the link and the peer move
  wifi,      \* wifi.rs: "connecting", "associated" or "waiting" to retry
  peer_at,   \* where the peer is
  wg_rx,     \* the WireGuard socket's receive buffer
  endpoint,  \* where the task last heard from
  session,   \* whether the WireGuard device has a session
  table,     \* by protocol, the flow table
  uplink,    \* requests on the uplink that may still be answered
  emitted    \* what the last step sent, if it sent anything
vars == <<clock, scenario, wifi, peer_at, wg_rx, endpoint, session, table, uplink, emitted>>

Quiet == [kind |-> "nothing"]
ToServer(proto, segments) == [kind |-> "uplink", proto |-> proto, segments |-> segments]
ToPeer(to) == [kind |-> "answer", to |-> to]
ToClient(to, proto, request, client, server, segments) ==
  [kind |-> "reply", to |-> to, proto |-> proto, request |-> request,
   client |-> client, server |-> server, segments |-> segments]

Init == /\ clock = 0
        /\ scenario \in Scenarios
        /\ wifi = "connecting"
        /\ peer_at \in Addresses
        /\ wg_rx = <<>>
        /\ endpoint = NowhereAddr
        /\ session = FALSE
        /\ table = [p \in Protocols |-> [s \in Slots[p] |-> NoFlow]]
        /\ uplink = {}
        /\ emitted = Quiet

-----------------------------------------------------------------------------
\* The environment, and the Wi-Fi task.

Tick == /\ clock < MaxTime
        /\ clock' = clock + 1
        /\ emitted' = Quiet
        /\ UNCHANGED <<scenario, wifi, peer_at, wg_rx, endpoint, session, table, uplink>>

Wifi(from, to) == /\ wifi = from
                  /\ wifi' = to
                  /\ emitted' = Quiet
                  /\ UNCHANGED <<clock, scenario, peer_at, wg_rx, endpoint, session, table, uplink>>
Associated == Wifi("connecting", "associated")
AssociationFailed == "roam" \in scenario /\ Wifi("connecting", "waiting")
Disconnected == "roam" \in scenario /\ Wifi("associated", "waiting")
RetryDelayOver == Wifi("waiting", "connecting")

Arrives(datagram) == /\ wifi = "associated"
                     /\ Len(wg_rx) < WG_PACKETS
                     /\ wg_rx' = Append(wg_rx, datagram)
                     /\ emitted' = Quiet
                     /\ UNCHANGED <<clock, scenario, wifi, peer_at, endpoint, session, table, uplink>>

PeerInitiates == Arrives([from |-> peer_at, kind |-> "initiation"])
PeerPings == \E kind \in {"echo", "other"} : session /\ Arrives([from |-> peer_at, kind |-> kind])
PeerSends == /\ session /\ Cardinality(uplink) + Len(wg_rx) < MaxInFlight
             /\ \E p \in Protocols \cap scenario : \E f \in Flows[p] :
                  Arrives([from |-> peer_at, kind |-> "data", proto |-> p, flow |-> f])
StrayArrives == /\ "roam" \in scenario
                /\ \E a \in Addresses : Arrives([from |-> a, kind |-> "stray"])

PeerMoves == /\ "roam" \in scenario
             /\ peer_at' \in Addresses \ {peer_at}
             /\ emitted' = Quiet
             /\ UNCHANGED <<clock, scenario, wifi, wg_rx, endpoint, session, table, uplink>>

SessionEnds == /\ session
               /\ session' = FALSE
               /\ emitted' = Quiet
               /\ UNCHANGED <<clock, scenario, wifi, peer_at, wg_rx, endpoint, table, uplink>>

RequestForgotten == /\ \E r \in uplink : uplink' = uplink \ {r}
                    /\ emitted' = Quiet
                    /\ UNCHANGED <<clock, scenario, wifi, peer_at, wg_rx, endpoint, session, table>>

-----------------------------------------------------------------------------
\* The tunnel task.

Send(p, slot, f) == [proto |-> p, slot |-> slot, flow |-> f, asked |-> clock, reset |-> FALSE]

\* A reset gives the slot back: what is still on its way belongs to nobody.
Abandoned(p, slot) ==
  {[r EXCEPT !.reset = r.reset \/ (r.proto = p /\ r.slot = slot)] : r \in uplink}

SlotsFor(p, f) == Candidates(table[p], f[1], f[2], clock, IDLE_TIMEOUT_MS[p])
slot_for(p, f) == First(SlotsFor(p, f))

\* A payload over MAX_PAYLOAD is dropped before slot_for: such a datagram is one
\* of the "other" kind.
forward_out(f) ==
  IF SlotsFor("udp", f) = {} THEN UNCHANGED <<table, uplink>> /\ emitted' = Quiet
  ELSE LET slot == slot_for("udp", f)
       IN  /\ table' = [table EXCEPT !["udp"] = Assigned(@, slot, f[1], f[2], clock)]
           /\ uplink' = uplink \cup {Send("udp", slot, f)}
           /\ emitted' = ToServer("udp", {})

\* The segments from one socket to another, of every content, and what the
\* gateway makes of them on the way out and on the way in: a step below stands
\* for the step with each of them.
Wire(from, to) == {WithChecksum(Segment(from, to, c[1], c[2], c[3])) : c \in Contents}
Outbound(segments, slot) ==
  {rewrite_tcp_outbound(clamp_mss(seg), our_ip, EXT_PORT[slot]) : seg \in segments}
Inbound(segments, client) ==
  {rewrite_tcp_inbound(clamp_mss(seg), client[1], client[2]) : seg \in segments}

forward_tcp_out(f, is_rst) ==
  IF SlotsFor("tcp", f) = {} THEN UNCHANGED <<table, uplink>> /\ emitted' = Quiet
  ELSE LET slot == slot_for("tcp", f)
           taken == Assigned(table["tcp"], slot, f[1], f[2], clock)
       IN  /\ table' = [table EXCEPT !["tcp"] = IF is_rst THEN release(taken, slot) ELSE taken]
           /\ uplink' = IF is_rst THEN Abandoned("tcp", slot)
                        ELSE uplink \cup {Send("tcp", slot, f)}
           /\ emitted' = ToServer("tcp", Outbound(Wire(f[1], f[2]), slot))

\* handle_tunnel_datagram, by what the device makes of the datagram.
handle_tunnel_datagram(d) ==
  \/ /\ d.kind = "initiation"
     /\ session' = TRUE
     /\ emitted' = ToPeer(d.from)
     /\ UNCHANGED <<table, uplink>>
  \/ /\ d.kind \in {"stray", "other"} \/ (d.kind \in {"echo", "data"} /\ ~session)
     /\ emitted' = Quiet
     /\ UNCHANGED <<session, table, uplink>>
  \/ /\ d.kind = "echo" /\ session
     /\ emitted' = ToPeer(d.from)
     /\ UNCHANGED <<session, table, uplink>>
  \/ /\ d.kind = "data" /\ session /\ d.proto = "udp"
     /\ forward_out(d.flow)
     /\ UNCHANGED session
  \/ /\ d.kind = "data" /\ session /\ d.proto = "tcp"
     /\ \E is_rst \in BOOLEAN : forward_tcp_out(d.flow, is_rst)
     /\ UNCHANGED session

\* Mutant: keep the first endpoint.
HeardFirst(from) == IF endpoint = NowhereAddr THEN from ELSE endpoint

\* endpoint = Some(from), before anything is known of the datagram.
Heard(from) == from

TunnelReady == /\ wg_rx # <<>>
               /\ wg_rx' = Tail(wg_rx)
               /\ endpoint' = Heard(Head(wg_rx).from)
               /\ handle_tunnel_datagram(Head(wg_rx))
               /\ UNCHANGED <<clock, scenario, wifi, peer_at>>

\* The reply to r arrives on its slot's port.  Later ones may still follow.
Answered(r) == uplink' \in {uplink, uplink \ {r}}

\* recv_from tells who sent the reply; handle_nat_reply does not look.  The
\* reply may be larger than the tunnel carries, which build_udp4 finds out.
handle_nat_reply(r, fits) ==
  LET flow == table["udp"][r.slot]
  IN  IF flow.used /\ endpoint # NowhereAddr
      THEN /\ table' = [table EXCEPT !["udp"] = touch(@, r.slot, clock)]
           /\ emitted' = IF fits /\ session
                         THEN ToClient(endpoint, "udp", r, flow.client, flow.server,
                                       {build_udp4(flow.server, flow.client, c[3]) : c \in Contents})
                         ELSE Quiet
      ELSE UNCHANGED table /\ emitted' = Quiet

NatReady == /\ wg_rx = <<>> /\ wifi = "associated"
            /\ \E r \in uplink, fits \in BOOLEAN : r.proto = "udp" /\ Answered(r) /\ handle_nat_reply(r, fits)
            /\ UNCHANGED <<clock, scenario, wifi, peer_at, wg_rx, endpoint, session>>

\* A segment of r's server arrives, on the port the gateway gave the flow.
handle_raw_reply(r, is_rst) ==
  LET flow == table["tcp"][r.slot]
      segments == Wire(r.flow[2], <<our_ip, EXT_PORT[r.slot]>>)
      touched == touch(table["tcp"], r.slot, clock)
  IN  IF flow.used /\ endpoint # NowhereAddr
      THEN /\ table' = [table EXCEPT !["tcp"] = IF is_rst THEN release(touched, r.slot) ELSE touched]
           /\ emitted' = IF session
                         THEN ToClient(endpoint, "tcp", r, flow.client, r.flow[2], Inbound(segments, flow.client))
                         ELSE Quiet
           /\ IF is_rst THEN uplink' = Abandoned("tcp", r.slot) ELSE Answered(r)
      ELSE UNCHANGED table /\ emitted' = Quiet /\ Answered(r)

RawReady == /\ wg_rx = <<>> /\ wifi = "associated"
            /\ \E r \in uplink, is_rst \in BOOLEAN : r.proto = "tcp" /\ handle_raw_reply(r, is_rst)
            /\ UNCHANGED <<clock, scenario, wifi, peer_at, wg_rx, endpoint, session>>

-----------------------------------------------------------------------------
WifiTask == Associated \/ AssociationFailed \/ Disconnected \/ RetryDelayOver
Network == PeerInitiates \/ PeerPings \/ PeerSends \/ StrayArrives \/ PeerMoves
           \/ SessionEnds \/ RequestForgotten \/ Tick
TunnelTask == TunnelReady \/ NatReady \/ RawReady
Next == WifiTask \/ Network \/ TunnelTask

\* Only TunnelReady takes a datagram off the queue, and it can whenever there is
\* one, so this is its weak fairness.
TunnelRuns == WF_wg_rx(wg_rx # <<>> /\ wg_rx' = Tail(wg_rx))

\* The task runs, the radio finds the network again, and a peer that stays
\* where it is gets a datagram through now and then.
Fairness == /\ TunnelRuns
            /\ WF_vars(RetryDelayOver) /\ SF_vars(Associated)
            /\ SF_vars(PeerInitiates)

Spec == Init /\ [][Next]_vars /\ Fairness

-----------------------------------------------------------------------------
\* Properties.

FlowAt(p, s, f) == /\ table[p][s].used
                   /\ table[p][s].client = f[1] /\ table[p][s].server = f[2]

\* A table never holds a flow twice, nor one from the future, and the endpoint
\* is known whenever a reply can come: the "in practice it is always known by
\* now" above handle_nat_reply.
Inv == /\ \A p \in Protocols, s, t \in UNION {Slots[q] : q \in Protocols} : s \in Slots[p] /\ t \in Slots[p] /\ s # t =>
            \A f \in Flows[p] : ~(FlowAt(p, s, f) /\ FlowAt(p, t, f))
       /\ \A p \in Protocols : \A s \in Slots[p] : table[p][s].used => table[p][s].last_used_ms <= clock
       /\ uplink # {} => endpoint # NowhereAddr

\* "A busy table never evicts a live flow, it just refuses": a slot changes
\* hands only when its flow has been idle for the timeout, and is given back
\* only in the TCP table, by a reset.
LiveFlowsKept ==
  [][\A p \in Protocols : \A s \in Slots[p] :
       table[p][s].used =>
         \/ IsIdle(table[p][s], clock, IDLE_TIMEOUT_MS[p])
         \/ /\ table'[p][s].used
            /\ table'[p][s].client = table[p][s].client
            /\ table'[p][s].server = table[p][s].server
         \/ p = "tcp" /\ ~table'[p][s].used]_vars

\* A reply is matched by the port it arrives on alone, and the slot may have
\* another owner by then.  It reaches the flow that asked, as coming from the
\* server that flow asked, if it comes within the idle timeout of the request
\* and no reset went by; nothing is promised of a later one.
PromptRepliesReachTheirFlow ==
  LET r == emitted.request
  IN  emitted.kind = "reply" =>
        \/ r.reset
        \/ clock >= r.asked + IDLE_TIMEOUT_MS[r.proto]
        \/ emitted.client = r.flow[1] /\ emitted.server = r.flow[2]

\* The segments clamp_mss and rewrite_tcp_* have changed, and the datagrams
\* build_udp4 builds, carry the checksum their receiver computes.  The exception
\* is a size option at an odd offset: clamp_mss adjusts for its two bytes as if
\* they were one word.
TranslatedVerify ==
  emitted.kind \in {"uplink", "reply"} =>
    \A seg \in emitted.segments :
      /\ Verifies(seg) \/ (seg.syn /\ Straddles(seg.options))
      /\ emitted.proto = "udp" => seg.check # 0

\* The endpoint follows whoever sent last, authentic or not.  A third party's
\* datagram diverts what the gateway sends, but never for good: the endpoint
\* returns to a peer that stays where it is, and follows one that moved.
PeerFound == \A a \in Addresses : <>[](peer_at = a) => []<>(endpoint = a)
================================================================================
