------------------------------- MODULE Executor -------------------------------
(***************************************************************************)
(* The reactor and executor of harness/src/exec.rs, with the sockets of    *)
(* harness/src/net.rs that wait on it.  The program is one future.  It is  *)
(* polled; when it is pending, the reactor sleeps in poll(2) on the        *)
(* descriptors and the deadline the future left behind, and then the       *)
(* future is polled again.                                                 *)
(*                                                                         *)
(* The future here is the one the harness is made of: select of a socket   *)
(* read and a sleep.  A read tries the system call first and registers its *)
(* descriptor only when it would block; once registered, it looks at the   *)
(* readiness the last wait recorded and nowhere else, so what arrives      *)
(* after that wait is not seen until the next one.                         *)
(***************************************************************************)
EXTENDS Naturals, Sequences, FiniteSets

CONSTANTS MAX_SOURCES, MaxNow

VARIABLES
  now,       \* the clock
  sources,   \* the reactor's sources: a descriptor, and whether it was found ready
  deadline,  \* the reactor's deadline, or None
  blocked    \* whether the program is inside poll(2)
reactor == <<now, sources, deadline, blocked>>

None == MaxNow + 100

ExecutorInit == now = 0 /\ sources = {} /\ deadline = None /\ blocked = FALSE

Source(fd, revents) == [fd |-> fd, revents |-> revents]
Registered(fd) == \E s \in sources : s.fd = fd
Ready(fd) == Source(fd, TRUE) \in sources

\* Dropping a Ready, or consuming its readiness, removes its source.
forget_source(fd) == {s \in sources : s.fd # fd}

\* Mutant: an abandoned branch of a select stays registered.
LeaveSource(fd) == sources

\* The future that lost the select is dropped.
Dropped(fd) == forget_source(fd)

\* Mutant: a sleep that does not tell the reactor.
NoteNothing(at) == deadline

note_deadline(at) == IF deadline = None \/ at < deadline THEN at ELSE deadline

\* A poll of select(read of fd, sleep until at), where data tells whether the
\* socket has any.  It ends with the first branch, the second, or pending.
TriesRead(fd) == ~Registered(fd) \/ Ready(fd)
Reads(fd, data) == TriesRead(fd) /\ data
Expires(fd, data, at) == ~Reads(fd, data) /\ now >= at
Pends(fd, data, at) == ~Reads(fd, data) /\ now < at

\* The first branch has data; its read may be one of several of that branch.
SelectReads(fd, data) == /\ ~blocked /\ Reads(fd, data)
                         /\ sources' = forget_source(fd)
                         /\ UNCHANGED <<now, deadline, blocked>>
SelectExpires(fd, data, at) == /\ ~blocked /\ Expires(fd, data, at)
                               /\ sources' = Dropped(fd)
                               /\ UNCHANGED <<now, deadline, blocked>>
SelectPends(fd, data, at) == /\ ~blocked /\ Pends(fd, data, at)
                             /\ sources' = IF TriesRead(fd) THEN forget_source(fd) \cup {Source(fd, FALSE)}
                                           ELSE sources
                             /\ deadline' = note_deadline(at)
                             /\ blocked' = TRUE
                             /\ UNCHANGED now

\* poll(2) returns because something is readable: wait records what is.
WaitWakes(readable) == /\ blocked
                       /\ \E s \in sources : s.fd \in readable
                       /\ sources' = {[s EXCEPT !.revents = s.fd \in readable] : s \in sources}
                       /\ deadline' = None
                       /\ blocked' = FALSE
                       /\ UNCHANGED now

\* The deadline has passed.
WaitTimesOut == /\ blocked
                /\ deadline # None /\ now >= deadline
                /\ deadline' = None
                /\ blocked' = FALSE
                /\ UNCHANGED <<now, sources>>

\* A signal interrupts poll(2).
WaitInterrupted == /\ blocked
                   /\ deadline' = None
                   /\ blocked' = FALSE
                   /\ UNCHANGED <<now, sources>>

Tick == now < MaxNow /\ now' = now + 1 /\ UNCHANGED <<sources, deadline, blocked>>

\* The two panics of exec.rs: too many sources, and a wait for nothing.
NeverPanics == /\ Cardinality(sources) <= MAX_SOURCES
               /\ blocked => sources # {} \/ deadline # None
================================================================================
