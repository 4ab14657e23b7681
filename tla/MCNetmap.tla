------------------------------- MODULE MCNetmap -------------------------------
(***************************************************************************)
(* MapStream for TLC: a handful of responses, the text a Go server writes  *)
(* for them, and how the network may cut it.                               *)
(***************************************************************************)
EXTENDS MapStream

Word(n) == <<2000 + n>>
MCNodeKeys   == {Word(1), Word(2), Word(3), Word(4), Word(5)}
MCDiscoKeys  == {Word(11), Word(12)}
MCCidrs4     == {Word(21), Word(22)}
MCCidrs6     == {Word(23)}
MCEndpoints4 == {Word(31), Word(32)}
MCEndpoints6 == {Word(33)}
Junk         == Word(99)

Own == Word(1)
P(id, key, endpoints) ==
  [id |-> id, node_key |-> Word(key), disco_key |-> None, online |-> FALSE, home_derp |-> 0,
   addresses |-> <<>>, allowed_ips |-> <<>>, endpoints |-> endpoints]

\* JSON text, without the members that have their default value.
Join(items) ==
  LET upto[i \in 0..Len(items)] ==
        IF i = 0 THEN <<>> ELSE IF i = 1 THEN items[1] ELSE upto[i - 1] \o <<Comma>> \o items[i]
  IN  upto[Len(items)]
Str(text)           == <<Quote>> \o text \o <<Quote>>
Obj(members)        == <<LBrace>> \o Join(members) \o <<RBrace>>
Arr(items)          == <<LBracket>> \o Join(items) \o <<RBracket>>
Member(name, value) == Str(Text[name]) \o <<Colon>> \o value
Strs(texts)         == Arr([i \in DOMAIN texts |-> Str(texts[i])])
Num(n)              == IF n < 10 THEN <<48 + n>> ELSE <<48 + (n \div 10), 48 + (n % 10)>>

If(present, members) == IF present THEN members ELSE <<>>
PeerText(p) ==
  Obj(<<Member("ID", Num(p.id)), Member("Key", Str(p.node_key))>>
      \o If(p.disco_key # None, <<Member("DiscoKey", Str(Join(p.disco_key)))>>)
      \o If(p.addresses # <<>>, <<Member("Addresses", Strs(p.addresses))>>)
      \o If(p.allowed_ips # <<>>, <<Member("AllowedIPs", Strs(p.allowed_ips))>>)
      \o If(p.endpoints # <<>>, <<Member("Endpoints", Strs(p.endpoints))>>)
      \o If(p.online, <<Member("Online", TRUE_TEXT)>>))

\* 😀, written as an escape and as the character it stands for.
Escaped   == <<Backslash, 117, 100, 56, 51, 100, Backslash, 117, 100, 101, 48, 48>>
Character == <<128512>>

RegionText(r) ==
  Str(Num(r.id)) \o <<Colon>> \o
  Obj(<<Member("RegionCode", Str(Escaped)),
        Member("Nodes", Arr(<<Obj(<<Member("HostName", Str(r.nodes[1].host))>>)>>))>>)

\* What the server means, its text, and whether that text is broken.
Response(changes, text) == [changes |-> changes, text |-> text, broken |-> FALSE]
Broken(text)            == [changes |-> <<>>, text |-> text, broken |-> TRUE]

Self       == [kind |-> "self", key |-> Own]
IsPeer(p)  == [kind |-> "peer", peer |-> p]
Region(id) == [id |-> id, code |-> Character,
               nodes |-> <<[host |-> Word(40), port |-> 443, stun |-> 0]>>]
IsRegion(id)      == [kind |-> "region", region |-> Region(id)]
Patch(id, fields) == [kind |-> "patch", id |-> id, fields |-> fields]
Gone(id)        == [kind |-> "remove", id |-> id]

NodeText == Member("Node", Obj(<<Member("Key", Str(Own)), Member("Addresses", Strs(<<Word(21)>>))>>))
PeersText(name, peers) == Member(name, Arr([i \in DOMAIN peers |-> PeerText(peers[i])]))
DerpText(id) == Member("DERPMap", Obj(<<Member("Regions", Obj(<<RegionText(Region(id))>>))>>))

p1 == [P(1, 2, <<Word(31)>>) EXCEPT !.disco_key = Some(Word(11)), !.addresses = <<Word(21)>>,
                                    !.allowed_ips = <<Word(21), Word(23)>>]
p2 == P(2, 3, <<Word(33), Word(32)>>)
p3 == P(3, 4, <<>>)
rotated == [P(1, 5, <<Word(32)>>) EXCEPT !.online = TRUE]
mine == P(4, 1, <<>>)

MCFullMaps ==
  {Response(<<Self, IsRegion(1), IsPeer(p1)>>,
            Obj(<<NodeText, DerpText(1), PeersText("Peers", <<p1>>)>>)),
   \* The peers before the node, and the node among them.
   Response(<<IsPeer(mine), IsPeer(p2), Self>>,
            Obj(<<PeersText("Peers", <<mine, p2>>), NodeText>>))}

MCDeltas ==
  {Response(<<>>, <<>>),
   \* A peer with a new key, and the node itself.
   Response(<<IsPeer(rotated), IsPeer(mine)>>, Obj(<<PeersText("PeersChanged", <<rotated, mine>>)>>)),
   \* Fills the table, and overflows it when another peer is there.
   Response(<<IsPeer(p2), IsPeer(p3)>>, Obj(<<PeersText("PeersChanged", <<p2, p3>>)>>)),
   \* An address family this node cannot read is one path lost.
   Response(<<Patch(1, [online |-> TRUE, endpoints |-> <<Word(33)>>]), Patch(2, [home_derp |-> 12])>>,
            Obj(<<Member("PeersChangedPatch",
              Arr(<<Obj(<<Member("NodeID", Num(1)), Member("Online", TRUE_TEXT),
                          Member("Endpoints", Strs(<<Junk, Word(33)>>))>>),
                    Obj(<<Member("NodeID", Num(2)), Member("DERPRegion", Num(12))>>)>>))>>)),
   Response(<<Gone(1), Gone(3)>>, Obj(<<Member("PeersRemoved", Arr(<<Num(1), Num(3)>>))>>)),
   Response(<<IsRegion(2)>>, Obj(<<DerpText(2)>>)),
   \* Fields the parser does not read, one of which holds names that it does.
   Response(<<>>,
     <<10>> \o Obj(<<Str(Word(50)) \o <<32, Colon, 32>> \o Obj(<<PeersText("Peers", <<p3>>)>>),
                     Member("Node", NULL_TEXT), Str(Word(51)) \o <<Colon>> \o FALSE_TEXT \o <<32>>>>) \o <<10>>),
   Broken(Obj(<<Member("PeersRemoved", Arr(<<Num(1)>>))>>) \o <<Comma>> \o <<LBrace>>),
   Broken(Obj(<<Member("PeersChanged", Arr(<<Obj(<<Member("ID", Num(1)), Member("Key", Str(Junk))>>)>>))>>)),
   Broken(<<LBrace>> \o Member("PeersRemoved", Arr(<<Num(2)>>)))}

MCEncode(response) == response.text
================================================================================
