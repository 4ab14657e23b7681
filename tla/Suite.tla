--------------------------------- MODULE Suite ---------------------------------
(***************************************************************************)
(* The compatibility suite's runs against one lab server: RunScope of      *)
(* ts-conformance/src/runscope.rs, Env::discover of lib.rs, and the        *)
(* sessions (register.rs, derp.rs, netmap.rs, exit.rs, disco.rs) that are  *)
(* memoized in a OnceLock and shared by every check of a process.          *)
(*                                                                         *)
(* Several processes run at once, each with several threads (the tests of  *)
(* matrix.rs).  A thread makes an Env, which takes a handle on the         *)
(* process's scope, runs its checks, and drops the handle.  Whoever drops  *)
(* the last one deletes the nodes registered under the scope's hostname.   *)
(***************************************************************************)
EXTENDS Naturals, Sequences, FiniteSets

CONSTANTS
  Processes, Workers, \* the processes; by process, its threads
  Checks,             \* by thread, its checks in order
  MaxFaults           \* bound: calls to the server that fail, and processes killed

Threads == UNION {Workers[p] : p \in Processes}
ProcessOf(t) == CHOOSE p \in Processes : t \in Workers[p]
NoScope == 0

\* The session whose result a check judges, and how many nodes it registers.
SessionOf(check) == CASE check \in {"register", "hostinfo", "reauth"} -> "register"
                      [] check = "relay" -> "derp"
                      [] check = "stream" -> "netmap"
                      [] check = "advertise" -> "exit"
Sessions == {SessionOf(c) : c \in UNION {{Checks[t][i] : i \in DOMAIN Checks[t]} : t \in Threads}}
NodesOf(session) == IF session = "derp" THEN 2 ELSE 1

VARIABLES
  target,   \* by process, "lab" or "hosted"
  stage,    \* by thread: "start", "probe", "check"; in a session "register", "conclude", "rotate", "rotated";
            \* at the end "list", "delete", "done" or "killed"
  todo,     \* by thread, which of its checks is next
  holding,  \* by thread, the scope it has a handle on
  address,  \* by thread, whether its Env is one a session can start in
  shared,   \* by process, the scope its Weak refers to
  scopes,   \* every scope ever made
  memo,     \* by process and session, the OnceLock
  lab,      \* the nodes on the server
  cleaning, \* by thread, the scope it is dropping
  doomed,   \* by thread, the nodes its cleanup has yet to delete
  verdicts,
  failed,   \* by process, whether a call of it failed or it was killed
  faults
suite == <<target, stage, todo, holding, address, shared, scopes, memo, lab, cleaning, doomed, verdicts, failed, faults>>

\* A session: the run it registered under, how many nodes it made, what it found.
Unset == [state |-> "empty", run |-> NoScope, made |-> 0, found |-> FALSE, rekeyed |-> FALSE]

SuiteInit == /\ target \in [Processes -> {"lab", "hosted"}]
             /\ stage = [t \in Threads |-> "start"] /\ todo = [t \in Threads |-> 1]
             /\ holding = [t \in Threads |-> NoScope] /\ address = [t \in Threads |-> FALSE]
             /\ shared = [p \in Processes |-> NoScope] /\ scopes = <<>>
             /\ memo = [p \in Processes |-> [k \in Sessions |-> Unset]]
             /\ lab = {} /\ cleaning = [t \in Threads |-> NoScope]
             /\ doomed = [t \in Threads |-> {}] /\ verdicts = {}
             /\ failed = [p \in Processes |-> FALSE] /\ faults = 0

Goes(t, from, to) == stage[t] = from /\ stage' = [stage EXCEPT ![t] = to]
Works == UNCHANGED <<failed, faults>>
Fails(t) == /\ faults < MaxFaults /\ faults' = faults + 1
            /\ failed' = [failed EXCEPT ![ProcessOf(t)] = TRUE]

-----------------------------------------------------------------------------
\* RunScope::new.  The Weak can be upgraded while some thread has a handle.

Upgrades(p) == \E t \in Threads : holding[t] = shared[p] /\ shared[p] # NoScope

\* Mutant: the last caller decides whether there is a lab to clean up.
EnabledByLast(was, enabled) == enabled

\* Sticky: nothing turns cleanup off again.
Enabled(was, enabled) == was \/ enabled

RunScope(t, enabled) ==
  LET p == ProcessOf(t)
      id == Len(scopes) + 1
  IN  IF Upgrades(p)
      THEN /\ holding' = [holding EXCEPT ![t] = shared[p]]
           /\ scopes' = [scopes EXCEPT ![shared[p]].enabled = Enabled(@, enabled)]
           /\ UNCHANGED shared
      ELSE /\ holding' = [holding EXCEPT ![t] = id]
           /\ scopes' = Append(scopes, [process |-> p, enabled |-> enabled, reported |-> FALSE])
           /\ shared' = [shared EXCEPT ![p] = id]

\* Env::discover: a handle before anything is known, then the probe of /health,
\* then the handle again with what it found.
Discover(t) == /\ Goes(t, "start", "probe") /\ RunScope(t, FALSE)
               /\ Works /\ UNCHANGED <<target, todo, address, memo, lab, cleaning, doomed, verdicts>>
Probe(t) == /\ Goes(t, "probe", "check")
            /\ \E answers \in BOOLEAN :
                 LET reachable == answers /\ target[ProcessOf(t)] = "lab"
                 IN  RunScope(t, reachable) /\ address' = [address EXCEPT ![t] = reachable]
            /\ Works /\ UNCHANGED <<target, todo, memo, lab, cleaning, doomed, verdicts>>

-----------------------------------------------------------------------------
\* The sessions.  One thread runs get_or_init's closure; the others wait for it.

Check(t) == Checks[t][todo[t]]
Session(t) == SessionOf(Check(t))
Memo(t) == memo[ProcessOf(t)][Session(t)]
Memoize(t, result) == memo' = [memo EXCEPT ![ProcessOf(t)][Session(t)] = result]
Skipped(t) == [Memo(t) EXCEPT !.state = "skipped"]
HasCheck(t) == stage[t] = "check" /\ todo[t] <= Len(Checks[t])
InSession == UNCHANGED <<target, todo, holding, address, shared, scopes, cleaning, doomed, verdicts>>

\* start's conditions.  That there is no lab is memoized like a result.
StartSession(t) == /\ HasCheck(t) /\ Memo(t).state = "empty"
                   /\ IF address[t]
                      THEN /\ Memoize(t, [Unset EXCEPT !.state = "running", !.run = holding[t]])
                           /\ Goes(t, "check", "register")
                      ELSE Memoize(t, Skipped(t)) /\ UNCHANGED stage
                   /\ Works /\ InSession /\ UNCHANGED lab

NodeOf(t, nth) == [run |-> holding[t], session |-> Session(t), nth |-> nth, key |-> "first", approved |-> FALSE]
Known(t) == {n \in lab : n.run = Memo(t).run /\ n.session = Session(t)}
AllThere(t) == Cardinality(Known(t)) = NodesOf(Session(t))

\* The harness registers one more node under the run's hostname.  It may fail and
\* the server have the node all the same.  Only register.rs goes on after that.
RegisterNode(t) ==
  LET made == Memo(t).made + 1
      last == made = NodesOf(Session(t))
  IN  /\ stage[t] = "register" /\ InSession
      /\ \/ /\ Goes(t, "register", IF last THEN "conclude" ELSE "register")
            /\ Memoize(t, [Memo(t) EXCEPT !.made = made, !.found = last])
            /\ lab' = lab \cup {NodeOf(t, made)} /\ Works
         \/ /\ lab' \in {lab, lab \cup {NodeOf(t, made)}} /\ Fails(t)
            /\ \/ Goes(t, "register", "check") /\ Memoize(t, Skipped(t))
               \/ /\ Session(t) = "register" /\ Goes(t, "register", "conclude")
                  /\ Memoize(t, [Memo(t) EXCEPT !.made = made])

\* derp.rs and netmap.rs: the harness runs again, as the nodes registered, and the
\* server refuses one it does not know.
RunHarness(t) == /\ Goes(t, "conclude", "check") /\ Session(t) \in {"derp", "netmap"}
                 /\ \/ Memoize(t, [Memo(t) EXCEPT !.state = "ran", !.found = AllThere(t)]) /\ Works
                    \/ Memoize(t, [Memo(t) EXCEPT !.state = "ran", !.found = FALSE]) /\ Fails(t)
                    \/ Memoize(t, Skipped(t)) /\ Fails(t)
                 /\ InSession /\ UNCHANGED lab

\* exit.rs: the node is looked up and its routes are approved, between two looks at
\* them.  A node that is absent skips the checks.
ApproveRoutes(t) == /\ Goes(t, "conclude", "check") /\ Session(t) = "exit"
                    /\ \/ /\ AllThere(t) /\ Works
                          /\ Memoize(t, [Memo(t) EXCEPT !.state = "ran", !.found = \A n \in Known(t) : ~n.approved])
                          /\ lab' = (lab \ Known(t)) \cup {[n EXCEPT !.approved = TRUE] : n \in Known(t)}
                       \/ ~AllThere(t) /\ Works /\ Memoize(t, Skipped(t)) /\ UNCHANGED lab
                       \/ Fails(t) /\ Memoize(t, Skipped(t)) /\ UNCHANGED lab
                    /\ InSession

\* register.rs: the list after the registration, then the same node again with a new
\* key, then the list after the rotation.
ListFirst(t) == /\ stage[t] = "conclude" /\ Session(t) = "register"
                /\ \/ /\ Goes(t, "conclude", "rotate") /\ Works
                      /\ Memoize(t, [Memo(t) EXCEPT !.found = @ /\ AllThere(t)])
                   \/ Goes(t, "conclude", "check") /\ Memoize(t, Skipped(t)) /\ Fails(t)
                /\ InSession /\ UNCHANGED lab

\* The server replaces the key of the machine it knows, and registers another.
Rekeyed(t) == IF AllThere(t) THEN (lab \ Known(t)) \cup {[n EXCEPT !.key = "second"] : n \in Known(t)}
              ELSE lab \cup {[NodeOf(t, 2) EXCEPT !.key = "second"]}
RotateKey(t) == /\ stage[t] = "rotate"
                /\ \/ /\ Goes(t, "rotate", "rotated") /\ Works /\ lab' = Rekeyed(t)
                      /\ Memoize(t, [Memo(t) EXCEPT !.rekeyed = TRUE])
                   \/ /\ lab' \in {lab, Rekeyed(t)} /\ Fails(t)
                      /\ \/ Goes(t, "rotate", "rotated") /\ UNCHANGED memo
                         \/ Goes(t, "rotate", "check") /\ Memoize(t, Skipped(t))
                /\ InSession

ListRotated(t) == /\ Goes(t, "rotated", "check")
                  /\ \/ Works /\ Memoize(t, [Memo(t) EXCEPT !.state = "ran",
                                              !.rekeyed = @ /\ {n.nth : n \in Known(t)} = {1}])
                     \/ Fails(t) /\ Memoize(t, Skipped(t))
                  /\ InSession /\ UNCHANGED lab

\* A check of the memoized session.  hostinfo compares the name of its node with
\* the hostname of the thread's own scope.
Status(t) == LET s == Memo(t)
                 holds == CASE Check(t) = "hostinfo" -> s.found /\ s.run = holding[t]
                            [] Check(t) = "reauth" -> s.found /\ s.rekeyed
                            [] OTHER -> s.found
             IN  IF s.state = "skipped" THEN "skip" ELSE IF holds THEN "pass" ELSE "fail"
Judge(t) == /\ HasCheck(t) /\ Memo(t).state \in {"ran", "skipped"}
            /\ verdicts' = verdicts \cup {[thread |-> t, check |-> Check(t), run |-> holding[t], status |-> Status(t)]}
            /\ todo' = [todo EXCEPT ![t] = @ + 1] /\ Works
            /\ UNCHANGED <<target, stage, holding, address, shared, scopes, memo, lab, cleaning, doomed>>

-----------------------------------------------------------------------------
\* The end of a run.

\* Mutant: by the suite's prefix.
OwnsPrefix(id, node) == TRUE

\* Inner::owns: by the hostname of the run.
Owns(id, node) == node.run = id

IsLast(t) == \A u \in Threads \ {t} : holding[u] # holding[t]

\* The handle is dropped.  The last one drops Inner, which cleans up, once.
DropEnv(t) == LET id == holding[t]
                  cleans == IsLast(t) /\ scopes[id].enabled /\ ~scopes[id].reported
              IN  /\ todo[t] > Len(Checks[t])
                  /\ Goes(t, "check", IF cleans THEN "list" ELSE "done")
                  /\ scopes' = [scopes EXCEPT ![id].reported = @ \/ cleans]
                  /\ holding' = [holding EXCEPT ![t] = NoScope]
                  /\ cleaning' = [cleaning EXCEPT ![t] = id]
                  /\ Works /\ UNCHANGED <<target, todo, address, shared, memo, lab, doomed, verdicts>>

ListNodes(t) == /\ \/ /\ doomed' = [doomed EXCEPT ![t] = {n \in lab : Owns(cleaning[t], n)}]
                      /\ Goes(t, "list", "delete") /\ Works
                   \/ Goes(t, "list", "done") /\ Fails(t) /\ UNCHANGED doomed
                /\ UNCHANGED <<target, todo, holding, address, shared, scopes, memo, lab, cleaning, verdicts>>

\* Another cleanup never has the same node, so its deletion fails only with the call.
DeleteNode(t) == /\ IF doomed[t] = {}
                    THEN Goes(t, "delete", "done") /\ Works /\ UNCHANGED <<lab, doomed>>
                    ELSE \E n \in doomed[t] :
                           /\ Goes(t, "delete", "delete")
                           /\ doomed' = [doomed EXCEPT ![t] = @ \ {n}]
                           /\ \/ lab' = lab \ {n} /\ Works
                              \/ Fails(t) /\ UNCHANGED lab
                 /\ UNCHANGED <<target, todo, holding, address, shared, scopes, memo, cleaning, verdicts>>

KillSuite(p) == /\ \E t \in Workers[p] : stage[t] # "done" /\ Fails(t)
                /\ stage' = [t \in Threads |-> IF t \in Workers[p] THEN "killed" ELSE stage[t]]
                /\ holding' = [t \in Threads |-> IF t \in Workers[p] THEN NoScope ELSE holding[t]]
                /\ UNCHANGED <<target, todo, address, shared, scopes, memo, lab, cleaning, doomed, verdicts>>

SuiteNext == \/ \E t \in Threads : \/ Discover(t) \/ Probe(t) \/ StartSession(t) \/ RegisterNode(t)
                                   \/ RunHarness(t) \/ ApproveRoutes(t) \/ ListFirst(t) \/ RotateKey(t) \/ ListRotated(t)
                                   \/ Judge(t) \/ DropEnv(t) \/ ListNodes(t) \/ DeleteNode(t)
             \/ \E p \in Processes : KillSuite(p)

-----------------------------------------------------------------------------
\* A process that ends, with none of its calls failed, has removed every node it
\* registered, whichever of its threads made the node and whatever the probes of the
\* others found (RunScope::new, Drop for Inner).
NothingLeftBehind ==
  \A p \in Processes :
    (\A t \in Workers[p] : stage[t] = "done") /\ ~failed[p] =>
      \A n \in lab : scopes[n.run].process # p

\* No run disturbs another's checks (Inner::owns, Inner::cleanup): in a process none
\* of whose calls failed a check is skipped only if some thread of the process found
\* no server, and fails only if it is hostinfo and the memoized session belongs to a
\* run whose last handle was dropped before the thread's own began.
NoFalseFailures ==
  \A v \in verdicts :
    LET p == ProcessOf(v.thread)
    IN  ~failed[p] =>
          /\ v.status = "skip" => \E t \in Workers[p] : ~address[t]
          /\ v.status = "fail" => v.check = "hostinfo" /\ memo[p]["register"].run < v.run
================================================================================
