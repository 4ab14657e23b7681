------------------------------- MODULE NatTable -------------------------------
(***************************************************************************)
(* The flow tables of firmware/src/nat.rs: Table (UDP) and TcpTable, which *)
(* differ in their size, their idle timeout and in that a reset TCP        *)
(* connection gives its slot back.  A table is a function on its slots; a  *)
(* slot is empty (NoFlow) or holds a flow and when it was last used.  The  *)
(* external port of a flow is its slot.                                    *)
(***************************************************************************)
EXTENDS Naturals

NoFlow == [used |-> FALSE]
Flow(client, server, now) ==
  [used |-> TRUE, client |-> client, server |-> server, last_used_ms |-> now]

Occupied(table) == {s \in DOMAIN table : table[s].used}
Matching(table, client, server) ==
  {s \in Occupied(table) : table[s].client = client /\ table[s].server = server}
Free(table) == DOMAIN table \ Occupied(table)

\* now_ms.saturating_sub(last_used_ms) >= timeout
IsIdle(flow, now, timeout) == now >= flow.last_used_ms + timeout
Idle(table, now, timeout) == {s \in Occupied(table) : IsIdle(table[s], now, timeout)}

\* Mutant: the least recently used flow, idle or not.
OldestOfAll(table, now, timeout) ==
  {s \in Occupied(table) : \A t \in Occupied(table) : table[s].last_used_ms <= table[t].last_used_ms}

\* The least recently used of the idle flows.
Oldest(table, now, timeout) ==
  {s \in Idle(table, now, timeout) :
     \A t \in Idle(table, now, timeout) : table[s].last_used_ms <= table[t].last_used_ms}

First(slots) == CHOOSE s \in slots : \A t \in slots : s <= t

\* Mutant: a free slot before the flow's own.
FreeFirst(table, client, server, now, timeout) ==
  IF Free(table) # {} THEN Free(table)
  ELSE IF Matching(table, client, server) # {} THEN Matching(table, client, server)
  ELSE Oldest(table, now, timeout)

\* The slots slot_for may use: the flow's own, else a free one, else the
\* oldest idle one.  There may be none.
Candidates(table, client, server, now, timeout) ==
  IF Matching(table, client, server) # {} THEN Matching(table, client, server)
  ELSE IF Free(table) # {} THEN Free(table)
  ELSE Oldest(table, now, timeout)

touch(table, slot, now) ==
  [table EXCEPT ![slot] = IF @.used THEN [@ EXCEPT !.last_used_ms = now] ELSE @]

release(table, slot) == [table EXCEPT ![slot] = NoFlow]

\* Mutant: a flow's own packets do not keep it alive.
AssignedOnce(table, slot, client, server, now) ==
  IF slot \in Matching(table, client, server) THEN table
  ELSE [table EXCEPT ![slot] = Flow(client, server, now)]

\* The table once slot_for has given the flow this slot.
Assigned(table, slot, client, server, now) == [table EXCEPT ![slot] = Flow(client, server, now)]
================================================================================
