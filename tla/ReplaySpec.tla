----------------------------- MODULE ReplaySpec -----------------------------
(***************************************************************************)
(* What the replay protection of a session promises (the comments of       *)
(* ReplayWindow and ReplayWindow::accept in replay.rs): counters arrive in *)
(* any order and any number of times; each is accepted at most once, and a *)
(* counter is refused only if it was accepted before, has fallen out of    *)
(* the window, or lies past the point where the session must be rekeyed.   *)
(***************************************************************************)
EXTENDS Counters

CONSTANT Arrivals   \* the counters datagrams may carry, a set of naturals

VARIABLES
    accepted,   \* every counter accepted so far
    verdict     \* the last call of accept: its argument and its answer

specVars == <<accepted, verdict>>

NoVerdict == [counter |-> -1, ok |-> FALSE]

SpecInit ==
    /\ accepted = {}
    /\ verdict = NoVerdict

SpecAccept(c) ==
    /\ Fresh(accepted, c)
    /\ accepted' = accepted \union {c}
    /\ verdict' = [counter |-> c, ok |-> TRUE]

SpecRefuse(c) ==
    /\ ~Fresh(accepted, c)
    /\ accepted' = accepted
    /\ verdict' = [counter |-> c, ok |-> FALSE]

SpecNext == \E c \in Arrivals : SpecAccept(c) \/ SpecRefuse(c)

ExactlyOnce == SpecInit /\ [][SpecNext]_specVars

=============================================================================
