----------------------------- MODULE IdentityStore -----------------------------
(***************************************************************************)
(* The node's identity across restarts: FileStore of harness/src/store.rs, *)
(* load_or_create of ts-keys, and the order in which register of           *)
(* harness/src/control.rs rotates the node key, asks the server and saves. *)
(*                                                                         *)
(* The process can be killed between any two system calls, and the power   *)
(* can go.  The disk keeps a file's contents once fsync returned; before   *)
(* that a power cut may leave anything.  A rename is atomic, but save does *)
(* not fsync the directory, so until the file system gets round to it a    *)
(* power cut may bring back what the name meant before.                    *)
(***************************************************************************)
EXTENDS Naturals

CONSTANTS
  MaxRuns,   \* bound: times the program is started
  MaxKeys    \* bound: keys generated

VARIABLES
  boot,       \* where the run is: "down", "load", "open", "write", "sync", "rename",
              \* "rotate", "connect", "waiting", "done" or "failed"
  rotate,     \* whether this run was asked to rotate the node key
  identity,   \* the identity in memory
  saved_then, \* where the run continues after save
  file,       \* identity.bin
  temporary,  \* identity.bin.tmp
  past,       \* what a power cut may bring back as identity.bin
  keys,       \* how many keys were ever generated
  created,    \* node keys generated by load_or_create
  asked,      \* node keys in requests on their way to the server
  accepted,   \* node keys the server has registered
  runs
store == <<boot, rotate, identity, saved_then, file, temporary, past, keys, created, asked, accepted, runs>>
disk == <<file, temporary, past>>
registry == <<asked, accepted>>

Nothing == [whole |-> FALSE, synced |-> FALSE, machine |-> 0, node |-> 0]
Torn == [Nothing EXCEPT !.synced = TRUE, !.machine = 1]
Blob(id, synced) == [whole |-> TRUE, synced |-> synced, machine |-> id.machine, node |-> id.node]
NoIdentity == [machine |-> 0, node |-> 0]

StoreInit == /\ boot = "down" /\ rotate = FALSE /\ identity = NoIdentity /\ saved_then = "done"
             /\ file = Nothing /\ temporary = Nothing /\ past = {}
             /\ keys = 0 /\ created = {} /\ asked = {} /\ accepted = {} /\ runs = 0

Start == /\ boot \in {"down", "done", "failed"} /\ runs < MaxRuns
         /\ runs' = runs + 1
         /\ rotate' \in BOOLEAN
         /\ boot' = "load" /\ identity' = NoIdentity
         /\ UNCHANGED <<saved_then, keys, created, disk, registry>>

\* load_or_create: no file is a first boot, a file that does not verify an error.
Generate == /\ boot = "load" /\ file = Nothing /\ keys + 2 <= MaxKeys
            /\ identity' = [machine |-> keys + 1, node |-> keys + 2]
            /\ keys' = keys + 2 /\ created' = created \cup {keys + 2}
            /\ boot' = "open" /\ saved_then' = "rotate"
            /\ UNCHANGED <<rotate, runs, disk, registry>>
Load == /\ boot = "load" /\ file # Nothing
        /\ IF file.whole
           THEN boot' = "rotate" /\ identity' = [machine |-> file.machine, node |-> file.node]
           ELSE boot' = "failed" /\ UNCHANGED identity
        /\ UNCHANGED <<rotate, saved_then, keys, created, runs, disk, registry>>

-----------------------------------------------------------------------------
\* save: write_temporary, then the rename.

Saving == <<rotate, identity, saved_then, keys, created, runs, registry>>
Open == /\ boot = "open"
        /\ temporary' = Torn /\ boot' = "write"
        /\ UNCHANGED <<file, past, Saving>>
Write == /\ boot = "write"
         /\ temporary' = Blob(identity, FALSE) /\ boot' = "sync"
         /\ UNCHANGED <<file, past, Saving>>

\* Mutant: no fsync.
SyncSkipped == /\ boot = "sync"
               /\ boot' = "rename"
               /\ UNCHANGED <<file, past, temporary, Saving>>
Sync == /\ boot = "sync"
        /\ temporary' = Blob(identity, TRUE) /\ boot' = "rename"
        /\ UNCHANGED <<file, past, Saving>>

\* A system call of write_temporary fails, and the temporary file is removed.
WriteFails == /\ boot \in {"open", "write", "sync"}
              /\ temporary' = Nothing /\ boot' = "failed"
              /\ UNCHANGED <<file, past, Saving>>
Rename == /\ boot = "rename"
          /\ file' = temporary /\ temporary' = Nothing
          /\ past' = past \cup {file}
          /\ boot' = saved_then
          /\ UNCHANGED Saving
RenameFails == /\ boot = "rename" /\ boot' = "failed"
               /\ UNCHANGED <<disk, Saving>>

-----------------------------------------------------------------------------
\* register.

Rotate == /\ boot = "rotate" /\ (rotate => keys < MaxKeys)
          /\ IF rotate THEN identity' = [identity EXCEPT !.node = keys + 1] /\ keys' = keys + 1
             ELSE UNCHANGED <<identity, keys>>
          /\ boot' = "connect"
          /\ UNCHANGED <<rotate, saved_then, created, runs, disk, registry>>

\* connect loads the identity once more, for its machine key, and the request
\* goes out; or something on the way fails.
Request == /\ boot = "connect"
           /\ \/ file.whole /\ boot' = "waiting" /\ asked' = asked \cup {identity.node}
              \/ boot' = "failed" /\ UNCHANGED asked
           /\ UNCHANGED <<rotate, identity, saved_then, keys, created, accepted, runs, disk>>

\* The server registers a key, perhaps after the run that asked has died.
Accept == \E key \in asked : /\ accepted' = accepted \cup {key}
                             /\ asked' = asked \ {key}
                             /\ UNCHANGED <<boot, rotate, identity, saved_then, keys, created, runs, disk>>

\* Mutant: the rotated key is not saved.
AnsweredUnsaved == /\ boot = "waiting" /\ identity.node \in accepted
                   /\ boot' = "done" /\ saved_then' = "done"
                   /\ UNCHANGED <<rotate, identity, keys, created, runs, disk, registry>>

\* The answer arrives: only now is a rotated key saved.
Answered == /\ boot = "waiting" /\ identity.node \in accepted
            /\ boot' = IF rotate THEN "open" ELSE "done"
            /\ saved_then' = "done"
            /\ UNCHANGED <<rotate, identity, keys, created, runs, disk, registry>>

\* A status other than 200, a response that is no success, or the connection lost.
Refused == /\ boot = "waiting" /\ boot' = "failed"
           /\ \/ asked' = asked \ {identity.node}
              \/ UNCHANGED asked
           /\ UNCHANGED <<rotate, identity, saved_then, keys, created, accepted, runs, disk>>

-----------------------------------------------------------------------------
\* What the code does not decide.

Kill == /\ boot \notin {"down", "done", "failed"}
        /\ boot' = "down" /\ identity' = NoIdentity
        /\ UNCHANGED <<rotate, saved_then, keys, created, runs, disk, registry>>
Settle == /\ past # {} /\ past' = {}
          /\ UNCHANGED <<boot, rotate, identity, saved_then, keys, created, runs, file, temporary, registry>>
AfterPowerCut(blob) == IF blob.synced \/ blob = Nothing THEN {blob} ELSE {blob, Torn}
PowerCut == /\ boot # "down"
            /\ boot' = "down" /\ identity' = NoIdentity
            /\ \E blob \in {file} \cup past : file' \in AfterPowerCut(blob)
            /\ past' = {} /\ temporary' \in {Nothing, Torn}
            /\ UNCHANGED <<rotate, saved_then, keys, created, runs, registry>>

StoreSteps == Generate \/ Load \/ Open \/ Write \/ Sync \/ WriteFails \/ Rename \/ RenameFails
              \/ Rotate \/ Request \/ Answered \/ Refused
StoreNext == StoreSteps \/ Start \/ Accept \/ Kill \/ Settle \/ PowerCut

-----------------------------------------------------------------------------
\* Whatever is killed or loses power, and whenever, identity.bin is absent or a
\* whole blob, and its node key is one the first boot made or the server took:
\* a half-written key, or one nobody has heard of, is never what a run starts with.
StoredWhole == file # Nothing => file.whole /\ file.node \in created \cup accepted

\* A run that reports success has its identity on disk under a key the server
\* has accepted, rotated or not, and its machine key is the one it started with.
RegisteredIsStored ==
  boot = "done" => /\ file = Blob(identity, TRUE)
                   /\ file.node \in accepted
================================================================================
