------------------------------- MODULE PeerTable -------------------------------
(***************************************************************************)
(* The bounded tables a network map is kept in: the peers of               *)
(* crates/ts-netmap/src/peer.rs and the relay regions of derp.rs.  A table *)
(* is the sequence the code keeps, in its order; entries are found by id.  *)
(***************************************************************************)
EXTENDS Naturals, Sequences

At(table, id)  == {i \in DOMAIN table : table[i].id = id}
Has(table, id) == At(table, id) # {}

\* get, get_mut and region: the first entry with this id.
Position(table, id) == CHOOSE i \in At(table, id) : \A j \in At(table, id) : i <= j
Get(table, id) == table[Position(table, id)]

Fits(table, id, capacity) == Has(table, id) \/ Len(table) < capacity

\* upsert and insert: replace the entry with this id, or add it at the end.
\* A table that is full and does not have the id is left alone.
Upserted(table, entry, capacity) ==
  IF Has(table, entry.id) THEN [table EXCEPT ![Position(table, entry.id)] = entry]
  ELSE IF Len(table) < capacity THEN Append(table, entry)
  ELSE table

\* remove: the last entry takes the place of the removed one (swap_remove).
Removed(table, id) ==
  IF ~Has(table, id) THEN table
  ELSE [i \in 1..Len(table) - 1 |->
          IF i = Position(table, id) THEN table[Len(table)] ELSE table[i]]

Ids(table) == {table[i].id : i \in DOMAIN table}

OneEntryPerId(table) == \A i, j \in DOMAIN table : table[i].id = table[j].id => i = j
================================================================================
