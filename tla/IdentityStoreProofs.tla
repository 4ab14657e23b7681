-------------------------- MODULE IdentityStoreProofs --------------------------
(***************************************************************************)
(* Proofs about IdentityStore: whatever is killed and whenever the power   *)
(* goes, for any number of runs and keys.                                  *)
(***************************************************************************)
EXTENDS IdentityStore, TLAPS

StoreSpec == StoreInit /\ [][StoreNext]_store

(* What may be found under the name identity.bin.  A blob is renamed into  *)
(* place only once it is synced, so a power cut cannot tear one.           *)
Kept(blob) == \/ blob = Nothing
              \/ /\ blob = Blob(blob, TRUE)
                 /\ blob.node \in created \cup accepted

(* The steps of save.                                                      *)
Saves == boot \in {"open", "write", "sync", "rename"}

(* Strengthening of StoredWhole and RegisteredIsStored: what a power cut   *)
(* may bring back is as good as the file, what is about to be renamed into *)
(* place is synced, and save is entered only with a key that was just made *)
(* or that the server has taken.                                           *)
StoreInv ==
  /\ Kept(file) /\ \A blob \in past : Kept(blob)
  /\ identity = [machine |-> identity.machine, node |-> identity.node]
  /\ boot = "rename" => temporary = Blob(identity, TRUE)
  /\ Saves => /\ identity.node \in created \cup accepted
              /\ saved_then \in {"rotate", "done"}
              /\ saved_then = "done" => identity.node \in accepted
  /\ boot \in {"rotate", "connect", "waiting"} /\ (boot = "rotate" \/ ~rotate)
       => file = Blob(identity, TRUE)
  /\ boot = "done" => file = Blob(identity, TRUE) /\ identity.node \in accepted

-----------------------------------------------------------------------------
(* Before the first run there is no file, and nobody has heard of a key.   *)
LEMMA StoreInitially == StoreInit => StoreInv
BY DEF StoreInit, StoreInv, Kept, Saves, Nothing, NoIdentity

(* A blob stays good as keys are made and accepted, and a power cut leaves *)
(* a good blob as it is.                                                   *)
LEMMA KeptStays ==
    ASSUME created \subseteq created', accepted \subseteq accepted', NEW blob, Kept(blob)
    PROVE  /\ blob = Nothing \/ (blob = Blob(blob, TRUE) /\ blob.node \in created' \cup accepted')
           /\ AfterPowerCut(blob) = {blob}
BY DEF Kept, AfterPowerCut, Blob, Nothing

(* No step of the store unmakes the invariant.                             *)
LEMMA StoreStep == StoreInv /\ [StoreNext]_store => StoreInv'
<1> SUFFICES ASSUME StoreInv, [StoreNext]_store PROVE StoreInv'
  OBVIOUS
<1>1. CASE StoreSteps
  <2>1. CASE Generate
    BY <2>1 DEF Generate, StoreInv, Kept, Saves, disk, registry, Nothing
  <2>2. CASE Load
    <3>1. CASE file.whole
      <4>1. file = Blob(file, TRUE) /\ file # Nothing
        BY <2>2 DEF Load, StoreInv, Kept
      <4>2. file = Blob(identity', TRUE)
        BY <2>2, <3>1, <4>1 DEF Load, Blob
      <4>3. QED
        BY <2>2, <3>1, <4>2 DEF Load, StoreInv, Kept, Saves, disk, registry, Blob
    <3>2. CASE ~file.whole
      BY <2>2, <3>2 DEF Load, StoreInv, Kept, Saves, disk, registry
    <3>3. QED
      BY <3>1, <3>2
  <2>3. CASE Open
    BY <2>3 DEF Open, StoreInv, Kept, Saves, Saving, registry
  <2>4. CASE Write
    BY <2>4 DEF Write, StoreInv, Kept, Saves, Saving, registry
  <2>5. CASE Sync
    BY <2>5 DEF Sync, StoreInv, Kept, Saves, Saving, registry, Blob
  <2>6. CASE WriteFails
    BY <2>6 DEF WriteFails, StoreInv, Kept, Saves, Saving, registry
  <2>7. CASE Rename
    <3>1. file' = Blob(identity', TRUE) /\ identity'.node = identity.node
      BY <2>7 DEF Rename, StoreInv, Saving, Blob
    <3>2. Kept(file)' /\ \A blob \in past' : Kept(blob)'
      BY <2>7, <3>1 DEF Rename, StoreInv, Kept, Saves, Saving, registry, Blob
    <3>3. boot' \in {"rotate", "done"} /\ (boot' = "done" => identity'.node \in accepted')
      BY <2>7, <3>1 DEF Rename, StoreInv, Saves, Saving, registry
    <3>4. QED
      BY <2>7, <3>1, <3>2, <3>3 DEF Rename, StoreInv, Saves, Saving
  <2>8. CASE RenameFails
    BY <2>8 DEF RenameFails, StoreInv, Kept, Saves, Saving, disk, registry
  <2>9. CASE Rotate
    BY <2>9 DEF Rotate, StoreInv, Kept, Saves, disk, registry
  <2>10. CASE Request
    BY <2>10 DEF Request, StoreInv, Kept, Saves, disk
  <2>11. CASE Answered
    BY <2>11 DEF Answered, StoreInv, Kept, Saves, disk, registry
  <2>12. CASE Refused
    BY <2>12 DEF Refused, StoreInv, Kept, Saves, disk
  <2>13. QED
    BY <1>1, <2>1, <2>2, <2>3, <2>4, <2>5, <2>6, <2>7, <2>8, <2>9, <2>10, <2>11, <2>12
    DEF StoreSteps
<1>2. CASE Start
  BY <1>2 DEF Start, StoreInv, Kept, Saves, disk, registry, NoIdentity
<1>3. CASE Accept
  <2>1. created' = created /\ accepted \subseteq accepted' /\ UNCHANGED <<boot, rotate, identity, saved_then>>
    BY <1>3 DEF Accept
  <2>2. file' = file /\ temporary' = temporary /\ past' = past
    BY <1>3 DEF Accept, disk
  <2>3. \A blob : Kept(blob) => Kept(blob)'
    BY <2>1, KeptStays DEF Kept
  <2>4. Kept(file)' /\ \A blob \in past' : Kept(blob)'
    BY <2>2, <2>3 DEF StoreInv
  <2>5. QED
    BY <2>1, <2>2, <2>4 DEF StoreInv, Saves
<1>4. CASE Kill
  BY <1>4 DEF Kill, StoreInv, Kept, Saves, disk, registry, NoIdentity
<1>5. CASE Settle
  BY <1>5 DEF Settle, StoreInv, Kept, Saves, registry
<1>6. CASE PowerCut
  <2>1. PICK blob \in {file} \cup past : file' \in AfterPowerCut(blob)
    BY <1>6 DEF PowerCut
  <2>2. Kept(blob)
    BY <2>1 DEF StoreInv
  <2>3. file' = blob
    BY <1>6, <2>1, <2>2, KeptStays DEF PowerCut, registry
  <2>4. Kept(file)'
    BY <1>6, <2>2, <2>3 DEF PowerCut, registry, Kept
  <2>5. QED
    BY <1>6, <2>4 DEF PowerCut, StoreInv, Saves, NoIdentity
<1>7. CASE UNCHANGED store
  BY <1>7 DEF store, StoreInv, Kept, Saves
<1>8. QED
  BY <1>1, <1>2, <1>3, <1>4, <1>5, <1>6, <1>7 DEF StoreNext

(* identity.bin is absent or a whole blob under a key the first boot made  *)
(* or the server took, and a run of register that reports success has its  *)
(* identity on disk under a key the server took.                           *)
THEOREM IdentitySurvives == StoreSpec => [](StoredWhole /\ RegisteredIsStored)
<1>1. StoreInv => StoredWhole /\ RegisteredIsStored
  BY DEF StoreInv, Kept, StoredWhole, RegisteredIsStored, Blob
<1>2. QED
  BY <1>1, StoreInitially, StoreStep, PTL DEF StoreSpec
================================================================================
