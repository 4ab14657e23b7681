----------------------------- MODULE NetmapParser -----------------------------
(***************************************************************************)
(* crates/ts-netmap/src/parser.rs: what the tokens of one MapResponse do   *)
(* to the network map.  The map is changed as the tokens arrive, so a      *)
(* response that fails half way has already changed it.                    *)
(* An Option is a sequence of at most one value.                           *)
(***************************************************************************)
EXTENDS JsonScanner, PeerTable

CONSTANTS MAX_PEERS, MAX_ADDRESSES, MAX_ALLOWED_IPS, MAX_ENDPOINTS,
          MAX_DERP_REGIONS, MAX_DERP_NODES,
          NodeKeys, DiscoKeys,         \* the texts that parse as keys,
          Cidrs4, Cidrs6,              \* as prefixes of either family,
          Endpoints4, Endpoints6       \* and as socket addresses

\* The field names the parser knows, as the one-word texts they are.
Names == <<"Node", "Peers", "PeersChanged", "PeersChangedPatch", "PeersRemoved", "DERPMap",
           "Addresses", "AllowedIPs", "Endpoints", "Regions", "Nodes", "Key", "DiscoKey", "ID",
           "NodeID", "HomeDERP", "DERPRegion", "Online", "RegionID", "RegionCode", "HostName",
           "DERPPort", "STUNPort">>
Text == [name \in Range(Names) |-> <<1000 + (CHOOSE i \in DOMAIN Names : Names[i] = name)>>]

None == <<>>
Some(value) == <<value>>
U16(value) == value % 65536
DEFAULT_DERP_PORT == 443


\* heapless::Vec::push with its error ignored.
PushOrDrop(list, value, capacity) == IF Len(list) < capacity THEN Append(list, value) ELSE list

NewNetmap == [peers |-> <<>>, derp |-> <<>>, node_key |-> None, disco_key |-> None,
              addresses |-> <<>>, responses |-> 0]

NewPending == [id |-> 0, node_key |-> None, disco_key |-> None, online |-> None,
               home_derp |-> None, addresses |-> <<>>, allowed_ips |-> <<>>,
               endpoints |-> <<>>, endpoints_present |-> FALSE]

NewRegion == [id |-> 0, code |-> <<>>, nodes |-> <<>>, host |-> <<>>, port |-> 0, stun |-> 0]

NewState == [stack |-> <<>>, key |-> <<>>, pending |-> NewPending, region |-> NewRegion,
             failed |-> "none"]

NewParser == [scanner |-> NewScanner, state |-> NewState]

context(st) == IF st.stack = <<>> THEN "Ignored" ELSE Last(st.stack)

fail(st, error) == [st EXCEPT !.failed = IF @ = "none" THEN error ELSE @]

\* What a container opened here is read as.
child_context(st) ==
  LET in  == context(st)
      key == st.key
  IN  CASE st.stack = <<>> -> "Root"
        [] in = "Root" /\ key = Text["Node"] -> "SelfNode"
        [] in = "Root" /\ key \in {Text["Peers"], Text["PeersChanged"]} -> "PeerArray"
        [] in = "Root" /\ key = Text["PeersChangedPatch"] -> "PatchArray"
        [] in = "Root" /\ key = Text["PeersRemoved"] -> "RemovedArray"
        [] in = "Root" /\ key = Text["DERPMap"] -> "DerpMapObject"
        [] in = "SelfNode" /\ key = Text["Addresses"] -> "SelfAddresses"
        [] in = "PeerArray" -> "PeerObject"
        [] in = "PeerObject" /\ key = Text["Addresses"] -> "PeerAddresses"
        [] in = "PeerObject" /\ key = Text["AllowedIPs"] -> "PeerAllowedIps"
        [] in = "PeerObject" /\ key = Text["Endpoints"] -> "PeerEndpoints"
        [] in = "PatchArray" -> "PatchObject"
        [] in = "PatchObject" /\ key = Text["Endpoints"] -> "PatchEndpoints"
        [] in = "DerpMapObject" /\ key = Text["Regions"] -> "DerpRegions"
        [] in = "DerpRegions" -> "DerpRegion"
        [] in = "DerpRegion" /\ key = Text["Nodes"] -> "DerpNodes"
        [] in = "DerpNodes" -> "DerpNode"
        [] OTHER -> "Ignored"

\* key.parse().unwrap_or(0)
RegionId(key) ==
  IF key # <<>> /\ ParsedInt(key) \in 0..65535 THEN ParsedInt(key) ELSE 0

\* The parser and the map it is filling, which every handler returns.
With(st, map) == [state |-> st, netmap |-> map]

on_start(st, map) ==
  LET child == child_context(st)
      begun == CASE child \in {"PeerObject", "PatchObject"} -> [st EXCEPT !.pending = NewPending]
                 [] child = "DerpRegion" ->
                      [st EXCEPT !.region = [NewRegion EXCEPT !.id = RegionId(st.key)]]
                 [] child = "DerpNode" ->
                      [st EXCEPT !.region.host = <<>>, !.region.port = DEFAULT_DERP_PORT,
                                 !.region.stun = 0]
                 [] OTHER -> st
  IN  With(IF Len(st.stack) < 16 THEN [begun EXCEPT !.stack = Append(@, child), !.key = <<>>]
                                 ELSE [fail(begun, "Full") EXCEPT !.key = <<>>], map)

PeerOf(p) == [id |-> p.id, node_key |-> p.node_key[1], disco_key |-> p.disco_key,
              online |-> p.online = Some(TRUE),
              home_derp |-> IF p.home_derp = None THEN 0 ELSE p.home_derp[1],
              addresses |-> p.addresses, allowed_ips |-> p.allowed_ips,
              endpoints |-> p.endpoints]

\* Mutant: the node's own record is taken for a peer.
CommitAny(st, map) ==
  LET p == st.pending
  IN  IF p.node_key = None THEN With(st, map)
      ELSE With(IF Fits(map.peers, p.id, MAX_PEERS) THEN st ELSE fail(st, "Full"),
                [map EXCEPT !.peers = Upserted(@, PeerOf(p), MAX_PEERS)])

\* No key: the record names nothing.  Our own key: we are no peer of ours.
commit_peer(st, map) ==
  LET p == st.pending
  IN  IF p.node_key = None \/ p.node_key = map.node_key THEN With(st, map)
      ELSE With(IF Fits(map.peers, p.id, MAX_PEERS) THEN st ELSE fail(st, "Full"),
                [map EXCEPT !.peers = Upserted(@, PeerOf(p), MAX_PEERS)])

\* Only the fields the patch mentioned, and only of a peer that is there.
apply_patch(st, map) ==
  LET p   == st.pending
      old == Get(map.peers, p.id)
      new == [old EXCEPT !.online    = IF p.online = None THEN @ ELSE p.online[1],
                         !.home_derp = IF p.home_derp = None THEN @ ELSE p.home_derp[1],
                         !.disco_key = IF p.disco_key = None THEN @ ELSE p.disco_key,
                         !.endpoints = IF p.endpoints_present THEN p.endpoints ELSE @]
  IN  IF ~Has(map.peers, p.id) THEN With(st, map)
      ELSE With(st, [map EXCEPT !.peers = Upserted(@, new, MAX_PEERS)])

end_node(st, map) ==
  LET r == st.region
  IN  With([st EXCEPT !.region.nodes =
              PushOrDrop(@, [host |-> r.host, port |-> r.port, stun |-> r.stun], MAX_DERP_NODES)], map)

DerpInserted(derp, r) == Upserted(derp, [id |-> r.id, code |-> r.code, nodes |-> r.nodes], MAX_DERP_REGIONS)
end_region(st, map) ==
  LET cleared == [st EXCEPT !.region.nodes = <<>>]
  IN  With(IF Fits(map.derp, st.region.id, MAX_DERP_REGIONS) THEN cleared ELSE fail(cleared, "Full"),
           [map EXCEPT !.derp = DerpInserted(@, st.region)])

on_end(st, map) ==
  LET popped == [st EXCEPT !.stack = IF @ = <<>> THEN @ ELSE Front(@), !.key = <<>>]
  IN  CASE context(st) = "PeerObject"  -> commit_peer(popped, map)
        [] context(st) = "PatchObject" -> apply_patch(popped, map)
        [] context(st) = "DerpNode"    -> end_node(popped, map)
        [] context(st) = "DerpRegion"  -> end_region(popped, map)
        [] context(st) = "Root"        -> With(popped, [map EXCEPT !.responses = @ + 1])
        [] OTHER                       -> With(popped, map)

\* Records of ourselves that were listed before `Node` named our key.
WithoutOwn(peers, own) ==
  LET ours == SelectSeq(peers, LAMBDA p : Some(p.node_key) = own)
      drop[i \in 0..Len(ours)] == IF i = 0 THEN peers ELSE Removed(drop[i - 1], ours[i].id)
  IN  drop[Len(ours)]

self_key(st, map, value) ==
  LET own == IF value \in NodeKeys THEN Some(value) ELSE None
  IN  With(st, [map EXCEPT !.node_key = own, !.peers = WithoutOwn(@, own)])

\* A prefix that does not parse fails the response.
push_cidr(st, value, list, capacity) ==
  IF value \in Cidrs4 \cup Cidrs6
  THEN [st EXCEPT !.pending[list] = PushOrDrop(@, value, capacity)]
  ELSE fail(st, "Malformed")

\* An endpoint that does not parse is one path lost.
push_endpoint(st, value) ==
  [st EXCEPT !.pending.endpoints_present = TRUE,
             !.pending.endpoints = IF value \in Endpoints4 \cup Endpoints6
                                   THEN PushOrDrop(@, value, MAX_ENDPOINTS) ELSE @]

peer_key(st, field, value, keys) ==
  IF value \in keys THEN [st EXCEPT !.pending[field] = Some(value)] ELSE fail(st, "Malformed")

on_string(st, map, value) ==
  LET in  == context(st)
      key == st.key
      after ==
        CASE in = "SelfNode" /\ key = Text["Key"] -> self_key(st, map, value)
          [] in = "SelfNode" /\ key = Text["DiscoKey"] ->
               With(st, [map EXCEPT !.disco_key = IF value \in DiscoKeys THEN Some(value) ELSE None])
          [] in = "SelfAddresses" ->
               IF value \in Cidrs4 \cup Cidrs6
               THEN With(st, [map EXCEPT !.addresses = PushOrDrop(@, value, MAX_ADDRESSES)])
               ELSE With(fail(st, "Malformed"), map)
          [] in \in {"PeerObject", "PatchObject"} /\ key = Text["Key"] ->
               With(peer_key(st, "node_key", value, NodeKeys), map)
          [] in \in {"PeerObject", "PatchObject"} /\ key = Text["DiscoKey"] ->
               With(peer_key(st, "disco_key", value, DiscoKeys), map)
          [] in = "PeerAddresses"  -> With(push_cidr(st, value, "addresses", MAX_ADDRESSES), map)
          [] in = "PeerAllowedIps" -> With(push_cidr(st, value, "allowed_ips", MAX_ALLOWED_IPS), map)
          [] in \in {"PeerEndpoints", "PatchEndpoints"} -> With(push_endpoint(st, value), map)
          [] in = "DerpRegion" /\ key = Text["RegionCode"] -> With([st EXCEPT !.region.code = value], map)
          [] in = "DerpNode" /\ key = Text["HostName"] -> With([st EXCEPT !.region.host = value], map)
          [] OTHER -> With(st, map)
  IN  [after EXCEPT !.state.key = <<>>]

on_number(st, map, value) ==
  LET in  == context(st)
      key == st.key
      entry == in \in {"PeerObject", "PatchObject"}
      read ==
        CASE entry /\ key \in {Text["ID"], Text["NodeID"]} -> [st EXCEPT !.pending.id = value]
          [] entry /\ key \in {Text["HomeDERP"], Text["DERPRegion"]} ->
               [st EXCEPT !.pending.home_derp = Some(U16(value))]
          [] in = "DerpRegion" /\ key = Text["RegionID"] -> [st EXCEPT !.region.id = U16(value)]
          [] in = "DerpNode" /\ key = Text["DERPPort"] -> [st EXCEPT !.region.port = U16(value)]
          [] in = "DerpNode" /\ key = Text["STUNPort"] -> [st EXCEPT !.region.stun = U16(value)]
          [] OTHER -> st
  IN  With([read EXCEPT !.key = <<>>],
           IF in = "RemovedArray" THEN [map EXCEPT !.peers = Removed(@, value)] ELSE map)

on_bool(st, map, value) ==
  LET mine == context(st) \in {"PeerObject", "PatchObject"} /\ st.key = Text["Online"]
  IN  With([st EXCEPT !.pending.online = IF mine THEN Some(value) ELSE @, !.key = <<>>], map)

on_token(st, map, token) ==
  CASE token.kind \in {"StartObject", "StartArray"} -> on_start(st, map)
    [] token.kind \in {"EndObject", "EndArray"}     -> on_end(st, map)
    [] token.kind = "Key"  -> With([st EXCEPT !.key = token.value], map)
    [] token.kind = "Str"  -> on_string(st, map, token.value)
    [] token.kind = "Int"  -> on_number(st, map, token.value)
    [] token.kind = "Bool" -> on_bool(st, map, token.value)
    [] token.kind = "Null" -> With([st EXCEPT !.key = <<>>], map)

\* A parser, its map and the scanner's error, which stops the parse at once.
Feed(run, result) ==
  LET tokens == result.tokens
      read[i \in 0..Len(tokens)] ==
        IF i = 0 THEN With(run.parser.state, run.netmap)
        ELSE on_token(read[i - 1].state, read[i - 1].netmap, tokens[i])
      done == read[Len(tokens)]
  IN  [parser |-> [scanner |-> result.s, state |-> done.state], netmap |-> done.netmap,
       error |-> result.error]

\* One byte of push: its tokens take effect before the next byte is looked at.
push(parser, map, byte) ==
  Feed([parser |-> parser, netmap |-> map], Scan(parser.scanner, byte))

\* The scanner's error first, then the first one a handler noted.
finish(parser, map) ==
  LET run == Feed([parser |-> parser, netmap |-> map], ScannerFinish(parser.scanner))
  IN  [netmap |-> run.netmap,
       error  |-> IF run.error # "none" THEN run.error ELSE run.parser.state.failed]
================================================================================
