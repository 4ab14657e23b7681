-------------------------- MODULE HandshakeBudget ---------------------------
(***************************************************************************)
(* The device-wide token bucket over handshake work                        *)
(* (crates/wg-core/src/timers.rs, HandshakeBudget).  A token is taken      *)
(* before every Diffie-Hellman computation; tokens come back one per RATE  *)
(* milliseconds, and the fraction of a token earned so far is kept by      *)
(* moving the refill mark in whole multiples of RATE.                      *)
(*                                                                         *)
(* The caller's clock may step back a little between two calls             *)
(* (Instant::saturating_since allows for it): a call reads an instant at   *)
(* most SLACK behind the latest one.                                       *)
(***************************************************************************)
EXTENDS Integers

CONSTANTS
    BURST,    \* HANDSHAKE_BURST (8)
    RATE,     \* HANDSHAKE_RATE_LIMIT_MS (50)
    SLACK,    \* how far a reading of the clock may lag behind the latest
    MaxTime   \* bound: the last instant explored

ASSUME BurstAssumption == BURST \in Nat \ {0}
ASSUME RateAssumption == RATE \in Nat \ {0}
ASSUME ClockAssumption == SLACK \in Nat /\ MaxTime \in Nat

VARIABLES
    tokens,
    last_refill,   \* Option<Instant>: -1 stands for None
    now,           \* the latest reading of the caller's clock
    mark,          \* history: an instant from which grants are counted
    granted,       \* history: tokens granted since mark
    lastGrant      \* history: the clock at the last grant

bucket == <<tokens, last_refill, now, mark, granted, lastGrant>>

NoRefill == -1

BudgetTypeOK ==
    /\ tokens \in 0 .. BURST
    /\ last_refill \in Nat \union {NoRefill}
    /\ now \in Nat
    /\ mark \in Nat
    /\ granted \in Nat
    /\ lastGrant \in Nat

BudgetInit ==
    /\ tokens = BURST
    /\ last_refill = NoRefill
    /\ now \in 0 .. SLACK
    /\ mark = now
    /\ granted = 0
    /\ lastGrant = now

(* Instant::saturating_since.                                              *)
Since(t, earlier) == IF t >= earlier THEN t - earlier ELSE 0

(* Whole tokens earned between the last refill and the reading t.          *)
Earned(t) ==
    IF last_refill = NoRefill THEN 0 ELSE Since(t, last_refill) \div RATE

(* The bucket after the refill that starts every call (and a form that     *)
(* lets it overflow).                                                      *)
RefilledUncapped(t) == tokens + Earned(t)
Refilled(t) == IF tokens + Earned(t) > BURST THEN BURST ELSE tokens + Earned(t)

(* The refill mark, moved by whole periods (and a form that restarts the   *)
(* period at every call, one that never moves it).                         *)
RefillMarkAtCall(t) == t
RefillMarkKept(t) == IF last_refill = NoRefill THEN t ELSE last_refill
RefillMark(t) ==
    IF last_refill = NoRefill THEN t ELSE last_refill + Earned(t) * RATE

(* HandshakeBudget::take at reading t: refill, then take a token or refuse.*)
Take(t) ==
    /\ last_refill' = RefillMark(t)
    /\ \/ /\ Refilled(t) = 0
          /\ tokens' = 0
          /\ UNCHANGED <<granted, lastGrant>>
       \/ /\ Refilled(t) > 0
          /\ tokens' = Refilled(t) - 1
          /\ granted' = granted + 1
          /\ lastGrant' = now
    /\ UNCHANGED <<now, mark>>

(* The clock moves on.                                                     *)
Tick ==
    /\ now < MaxTime
    /\ now' = now + 1
    /\ UNCHANGED <<tokens, last_refill, mark, granted, lastGrant>>

(* History only: begin to count grants afresh at this instant.             *)
Observe ==
    /\ mark' = now
    /\ granted' = 0
    /\ UNCHANGED <<tokens, last_refill, now, lastGrant>>

Readings == {t \in now - SLACK .. now : t >= 0}

BudgetNext == Tick \/ Observe \/ \E t \in Readings : Take(t)

BudgetSpec == BudgetInit /\ [][BudgetNext]_bucket

-----------------------------------------------------------------------------
(* The promise of the bucket, for any stretch of time and not only from    *)
(* the start: between `mark` and now no more than a burst plus one token   *)
(* for every RATE milliseconds begun (the clock's slack included) is       *)
(* granted, whatever the calls before it were.                             *)
RateBound == (granted - BURST - 1) * RATE < now - mark + SLACK

(* The comment of `take`: "a caller polling faster than the refill         *)
(* interval still accrues tokens at the intended rate".  However often the *)
(* bucket is asked and refuses, the first call RATE milliseconds after the *)
(* last grant is granted.                                                  *)
AccruesWhilePolled ==
    \A t \in Readings : t >= lastGrant + RATE => Refilled(t) > 0

(* The refill mark trails the clock by less than one period after a grant, *)
(* and never runs ahead of it: only a fraction of a token is carried over. *)
RefillMarkInPlace ==
    /\ last_refill <= lastGrant
    /\ lastGrant <= now
    /\ mark <= now
    /\ last_refill = NoRefill => tokens = BURST /\ granted = 0
    /\ granted > 0 => last_refill > mark - SLACK - RATE

(* What has been granted since `mark` and what is left exceed a full       *)
(* bucket by no more than the refill mark has moved.                       *)
CreditBound ==
    \/ granted + tokens <= BURST
    \/ (granted + tokens - BURST) * RATE < last_refill - mark + SLACK + RATE

(* The inductive invariant of the proofs.                                  *)
BudgetInv == BudgetTypeOK /\ RefillMarkInPlace /\ CreditBound

=============================================================================
