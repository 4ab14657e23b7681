------------------------------ MODULE MCGateway ------------------------------
(***************************************************************************)
(* The gateway with two UDP slots and one TCP slot, three UDP flows and      *)
(* two TCP flows that contend for them.  Bytes have three bits.            *)
(***************************************************************************)
EXTENDS Gateway, TLC

MCSlots == [udp |-> {0, 1}, tcp |-> {0}]
MCScenarios == {{"udp"}, {"tcp", "roam"}}
MCTimeouts == [udp |-> 2, tcp |-> 2]
MCFlows == [udp |-> {<<<<9, 1>>, <<50, 3>>>>, <<<<9, 2>>, <<50, 3>>>>, <<<<9, 1>>, <<63, 7>>>>},
            tcp |-> {<<<<9, 1>>, <<50, 3>>>>, <<<<9, 2>>, <<63, 7>>>>}]
MCPorts == (0 :> 40) @@ (1 :> 41)

\* No options; a size option first, after two fillers and after one; one that
\* is small enough; one behind an unknown option; a length that cannot be.
MCOptions == {<<>>, <<2, 4, 7, 3>>, <<1, 1, 2, 4, 5, 6, 0, 0>>, <<1, 2, 4, 5, 6, 0, 0, 0>>,
              <<2, 4, 0, 3>>, <<3, 2, 2, 4, 6, 6, 0, 0>>, <<3, 1, 2, 4, 6, 6, 0, 0>>}
MCContents == {<<FALSE, <<>>, 37>>, <<FALSE, <<2, 4, 7, 3>>, 0>>, <<FALSE, <<>>, 0>>}
              \cup {TRUE} \X MCOptions \X {63}
=============================================================================
