---------------------------- MODULE ReplayWindow ----------------------------
(***************************************************************************)
(* The sliding bitmap of crates/wg-core/src/replay.rs: WINDOW bits indexed *)
(* by counter modulo WINDOW, and the highest counter accepted.             *)
(***************************************************************************)
EXTENDS Counters

CONSTANT Arrivals

ASSUME ArrivalsAssumption == Arrivals \subseteq Nat

VARIABLES
    highest,    \* Option<u64>: -1 stands for None
    seen,       \* the bitmap, one Boolean per residue modulo WINDOW
    accepted,   \* history: every counter accept answered TRUE to
    verdict     \* the last call and its answer

vars == <<highest, seen, accepted, verdict>>

None == -1
Bits == 0 .. WINDOW - 1

(* `index`, and `set`/`clear`/`is_set` through it: the bit of a counter.   *)
Bit(c) == c % WINDOW

TypeOK ==
    /\ highest \in Counter \union {None}
    /\ seen \in [Bits -> BOOLEAN]
    /\ accepted \subseteq Counter
    /\ verdict \in [counter : Nat \union {-1}, ok : BOOLEAN]

Init ==
    /\ highest = None
    /\ seen = [b \in Bits |-> FALSE]
    /\ accepted = {}
    /\ verdict = [counter |-> -1, ok |-> FALSE]

Answer(c, ok) == verdict' = [counter |-> c, ok |-> ok]

Refuse(c) ==
    /\ UNCHANGED <<highest, seen, accepted>>
    /\ Answer(c, FALSE)

AcceptFirst(c) ==
    /\ highest' = c
    /\ seen' = [seen EXCEPT ![Bit(c)] = TRUE]
    /\ accepted' = accepted \union {c}
    /\ Answer(c, TRUE)

(* The bitmap once the high water mark moves from h to c: the bits of the  *)
(* counters strictly between are cleared (all of them if the jump is a     *)
(* window or more), then the bit of c is set (and a form that forgets to   *)
(* clear them).                                                            *)
AdvancedUnswept(h, c) == [seen EXCEPT ![Bit(c)] = TRUE]
Advanced(h, c) ==
    [b \in Bits |->
        \/ b = Bit(c)
        \/ /\ c - h < WINDOW
           /\ seen[b]
           /\ \A k \in h + 1 .. c - 1 : Bit(k) # b]

AcceptAhead(c) ==
    /\ highest' = c
    /\ seen' = Advanced(highest, c)
    /\ accepted' = accepted \union {c}
    /\ Answer(c, TRUE)

AcceptBehind(c) ==
    /\ highest' = highest
    /\ seen' = [seen EXCEPT ![Bit(c)] = TRUE]
    /\ accepted' = accepted \union {c}
    /\ Answer(c, TRUE)

(* The test behind the high water mark: out of the window, or bit set (and *)
(* a form that trusts the bit at any age).                                 *)
ReplayedAnyAge(c) == seen[Bit(c)]
Replayed(c) == highest - c >= WINDOW \/ seen[Bit(c)]

(* ReplayWindow::accept, one call.                                         *)
Accept(c) ==
    \/ c >= REJECT_AFTER_MESSAGES /\ Refuse(c)
    \/ /\ c < REJECT_AFTER_MESSAGES
       /\ \/ highest = None /\ AcceptFirst(c)
          \/ highest # None /\ c > highest /\ AcceptAhead(c)
          \/ /\ highest # None /\ c <= highest
             /\ \/ Replayed(c) /\ Refuse(c)
                \/ ~Replayed(c) /\ AcceptBehind(c)

Next == \E c \in Arrivals : Accept(c)

Spec == Init /\ [][Next]_vars

-----------------------------------------------------------------------------
(* The high water mark is the largest counter ever accepted, so a counter  *)
(* above it needs no bit to be known as new.                               *)
HighestIsMax ==
    /\ highest = None <=> accepted = {}
    /\ highest # None => highest \in accepted
    /\ \A c \in accepted : c <= highest

(* Inside the window the bitmap is exact: although a bit is shared by all  *)
(* counters of its residue class, it is set just for those that were       *)
(* accepted.  `accept` may therefore trust a bit it did not write for the  *)
(* counter it asks about.  Before the first counter no bit is set.         *)
WindowExact ==
    /\ \A c \in Counter :
          c <= highest /\ highest - c < WINDOW
              => (seen[Bit(c)] <=> c \in accepted)
    /\ highest = None => \A b \in Bits : ~seen[b]

(* The inductive invariant of the refinement proof.                        *)
Inv == TypeOK /\ HighestIsMax /\ WindowExact

(* The bitmap implements the specification of ReplaySpec: at most once for *)
(* every counter, and no fresh counter inside the window is ever refused.  *)
Promise == INSTANCE ReplaySpec
           WITH WINDOW <- WINDOW, REJECT_AFTER_MESSAGES <- REJECT_AFTER_MESSAGES,
                Arrivals <- Arrivals, accepted <- accepted, verdict <- verdict
ExactlyOnce == Promise!ExactlyOnce

=============================================================================
