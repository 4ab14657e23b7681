-------------------------------- MODULE Harness --------------------------------
(***************************************************************************)
(* The harness: one program, one command to a run (harness/src/main.rs).   *)
(* "disco" and "derp" wait on a socket and the clock through the executor, *)
(* "control" reads a control connection up to the end of a response, and   *)
(* "register" keeps the node's identity across runs.  "suite" is the       *)
(* program that runs the harness against a lab (ts-conformance); it is not *)
(* a command of the harness, and shares no state with one.                 *)
(***************************************************************************)
EXTENDS Disco, Relay, ControlSession, IdentityStore, Suite

CONSTANT Commands

VARIABLE command
vars == <<command, reactor, exchange, client, connection, control, store, suite>>

Init == /\ command \in Commands
        /\ ExecutorInit /\ DiscoInit /\ RelayInit /\ ControlInit /\ StoreInit /\ SuiteInit
        /\ command # "control" => /\ peer = "good"
                                  /\ script = CHOOSE s \in Scripts : TRUE
        /\ command # "suite" => target = [p \in Processes |-> "lab"]
        /\ coming = (IF command = "derp" THEN Greeting ELSE <<>>)
        /\ stream = <<>> /\ dropped = 0

RunDisco(step) == command = "disco" /\ step /\ UNCHANGED <<command, client, connection, control, store, suite>>
RunDerp(step) == command = "derp" /\ step /\ UNCHANGED <<command, exchange, control, store, suite>>
RunControl == /\ command = "control" /\ ControlNext
              /\ UNCHANGED <<command, reactor, exchange, client, store, suite>>
RunRegister == /\ command = "register" /\ StoreNext
               /\ UNCHANGED <<command, reactor, exchange, client, connection, control, suite>>
RunSuite == /\ command = "suite" /\ SuiteNext
            /\ UNCHANGED <<command, reactor, exchange, client, connection, control, store>>

Next == RunDisco(DiscoNext) \/ RunDerp(RelayNext) \/ RunControl \/ RunRegister \/ RunSuite

\* The executor polls its future again after every wait, and time passes.
Fairness == /\ WF_vars(RunDisco(DiscoSteps)) /\ WF_vars(RunDisco(Pass))
            /\ WF_vars(RunDerp(RelaySteps)) /\ WF_vars(RunDerp(RelayPass))
Spec == Init /\ [][Next]_vars /\ Fairness

-----------------------------------------------------------------------------
Awaiting == CASE command = "disco" /\ disco = "select" -> {UDP}
              [] command = "derp" /\ relay = "read" -> {TCP}
              [] OTHER -> {}
SleepsUntil == IF command = "disco" THEN sleep_until ELSE reading_until

\* The reactor and the future agree: what is registered is what the future is
\* waiting for, so an abandoned branch leaves nothing behind to spin on; the wait
\* is for that socket and ends no later than the sleep beside it; and neither
\* panic of the reactor is reached.
Inv == /\ NeverPanics
       /\ {s.fd : s \in sources} \subseteq Awaiting
       /\ IF blocked THEN {s.fd : s \in sources} = Awaiting /\ deadline = SleepsUntil
          ELSE deadline = None

\* A run against a server that keeps to the protocol fails, or waits for what will
\* never come, only because bytes read past what a layer wanted were dropped or the
\* buffer for them was full; a relayed packet also if it does not come in time.
Bearable == /\ peer = "good" /\ body <= BODY
            /\ \A i \in DOMAIN script :
                 /\ script[i].unit = "length" => script[i].length <= MAX_PAYLOAD
                 /\ script[i].unit = "frame" => script[i].event \notin {"reset", "goaway"}
Lossy == dropped > 0 \/ overflowed \/ Len(answer) = HTTP_BUFFER
AllSent == sent = Len(script) /\ coming = <<>> /\ stream = <<>>

\* Disco ends when its time is over and the relay client when the packet came or
\* its time is over, whatever arrives and whatever the waits are interrupted by.
ExchangeEnds == /\ command = "disco" ~> disco = "done"
                /\ relay = "top" ~> Ended
================================================================================
