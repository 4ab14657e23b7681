------------------------------- MODULE MCHarness -------------------------------
(***************************************************************************)
(* Small instances of the harness.  Time is long enough for every wait to  *)
(* end; a record carries less than the probe and a frame together, so both *)
(* are split and both are read past; three starts of the program see two   *)
(* keys rotated.  The suite runs as two tests of one process and, beside   *)
(* them, as another process.                                               *)
(***************************************************************************)
EXTENDS Harness

Frame(event, n, end) == <<[unit |-> "frame", event |-> event, length |-> n, end |-> end],
                          [unit |-> "rest"]>> \o [i \in 1..n |-> [unit |-> "data"]]
Early(n) == <<[unit |-> "magic"], [unit |-> "length", length |-> n]>>
            \o [i \in 1..n |-> [unit |-> "payload"]]
Answer == Frame("other", 0, FALSE) \o Frame("headers", 1, FALSE) \o Frame("data", 2, TRUE)

\* With and without an early payload, with one too long, a reset, and a body too long.
MCScripts == {Answer, Early(1) \o Answer, Early(3) \o Answer,
              Frame("headers", 1, FALSE) \o Frame("reset", 1, FALSE),
              Frame("headers", 1, FALSE) \o Frame("data", 2, FALSE) \o Frame("data", 2, TRUE)}

MCProcesses == {"matrix", "binary"}
MCWorkers == [matrix |-> {"a", "b"}, binary |-> {"c"}]
MCChecks == [a |-> <<"reauth", "relay">>, b |-> <<"hostinfo">>, c |-> <<"advertise">>]
================================================================================
