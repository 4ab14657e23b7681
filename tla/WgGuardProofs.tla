--------------------------- MODULE WgGuardProofs ----------------------------
(***************************************************************************)
(* Proofs about the two guards of wg-core that a device consults and that  *)
(* know nothing of it: the replay window (replay.rs) and the handshake     *)
(* budget (timers.rs).                                                     *)
(***************************************************************************)
EXTENDS ReplayWindow, HandshakeBudget, TLAPS

-----------------------------------------------------------------------------
(* The replay window, for every window size, message limit and sequence of *)
(* counters: the bitmap is exact inside its window, and accepts every      *)
(* fresh counter once.                                                     *)

(* A counter has a bit of the bitmap.                                      *)
LEMMA BitInRange ==
    ASSUME NEW c \in Int
    PROVE  Bit(c) \in Bits
  BY WindowAssumption DEF Bit, Bits

(* No two counters less than a window apart share a bit of the bitmap.     *)
LEMMA BitsDistinct ==
    ASSUME NEW a \in Int, NEW b \in Int, a < b, b - a < WINDOW
    PROVE  Bit(a) # Bit(b)
<1> DEFINE p == a \div WINDOW
<1> DEFINE q == b \div WINDOW
<1>1. /\ p \in Int /\ q \in Int
      /\ a = WINDOW * p + Bit(a)
      /\ b = WINDOW * q + Bit(b)
  BY WindowAssumption DEF Bit
<1>2. SUFFICES ASSUME Bit(a) = Bit(b) PROVE FALSE
  OBVIOUS
<1>3. Bit(a) \in Int
  BY BitInRange, WindowAssumption DEF Bits
<1>4. b - a = WINDOW * (q - p)
  <2> HIDE DEF p, q
  <2>1. WINDOW * (q - p) = WINDOW * q - WINDOW * p
    BY <1>1, WindowAssumption
  <2> QED BY <1>1, <1>2, <1>3, <2>1, WindowAssumption
<1>5. CASE q - p >= 1
  <2> HIDE DEF p, q
  <2>1. WINDOW * (q - p) >= WINDOW
    BY <1>1, <1>5, WindowAssumption
  <2> QED BY <1>1, <1>4, <2>1, WindowAssumption
<1>6. CASE q - p <= 0
  <2> HIDE DEF p, q
  <2>1. WINDOW * (q - p) <= 0
    BY <1>1, <1>6, WindowAssumption
  <2> QED BY <1>1, <1>4, <2>1, WindowAssumption
<1> HIDE DEF p, q
<1> QED BY <1>1, <1>5, <1>6

(* One call of accept keeps the inductive invariant, and is a step of      *)
(* ReplaySpec: the accepting calls accept a fresh counter, the refusing    *)
(* ones refuse a counter that is not fresh.                                *)
LEMMA AcceptCorrect ==
    ASSUME Inv, NEW c \in Arrivals, Accept(c)
    PROVE  Inv' /\ (Promise!SpecAccept(c) \/ Promise!SpecRefuse(c))
<1> USE DEF Counter, None
<1>0. c \in Nat /\ Bit(c) \in Bits /\ WINDOW \in Nat \ {0}
  BY ArrivalsAssumption, BitInRange, WindowAssumption
<1>1. ASSUME c >= REJECT_AFTER_MESSAGES, Refuse(c)
      PROVE  Inv' /\ Promise!SpecRefuse(c)
  <2>1. ~Promise!Fresh(accepted, c)
    BY <1>0, <1>1, RejectAssumption DEF Promise!Fresh, Promise!Counter
  <2>2. Inv'
    BY <1>0, <1>1 DEF Refuse, Answer, Inv, TypeOK, HighestIsMax, WindowExact
  <2> QED BY <1>1, <2>1, <2>2 DEF Refuse, Answer, Promise!SpecRefuse
<1>2. ASSUME c < REJECT_AFTER_MESSAGES, highest = None, AcceptFirst(c)
      PROVE  Inv' /\ Promise!SpecAccept(c)
  <2>1. accepted = {}
    BY <1>2 DEF Inv, HighestIsMax
  <2>2. Promise!Fresh(accepted, c)
    BY <1>0, <1>2, <2>1, RejectAssumption
    DEF Promise!Fresh, Promise!Counter, Promise!TooOld
  <2>3. TypeOK' /\ HighestIsMax'
    BY <1>0, <1>2, <2>1, RejectAssumption
    DEF AcceptFirst, Answer, Inv, TypeOK, HighestIsMax
  <2>4. WindowExact'
    <3> SUFFICES ASSUME NEW k \in Counter, k <= c, c - k < WINDOW
                 PROVE  seen'[Bit(k)] <=> k \in accepted'
      BY <1>0, <1>2 DEF AcceptFirst, WindowExact
    <3>1. CASE k = c
      BY <1>0, <1>2, <3>1 DEF AcceptFirst, Inv, TypeOK
    <3>2. CASE k < c
      BY <1>0, <1>2, <2>1, <3>2, BitsDistinct, BitInRange
      DEF AcceptFirst, Inv, TypeOK, WindowExact
    <3> QED BY <1>0, <3>1, <3>2
  <2> QED BY <1>2, <2>2, <2>3, <2>4
          DEF AcceptFirst, Answer, Inv, Promise!SpecAccept
<1>3. ASSUME c < REJECT_AFTER_MESSAGES, highest # None, c > highest,
             AcceptAhead(c)
      PROVE  Inv' /\ Promise!SpecAccept(c)
  <2>0. highest \in Nat /\ \A k \in accepted : k \in Nat /\ k <= highest
    BY <1>3 DEF Inv, TypeOK, HighestIsMax
  <2>1. Promise!Fresh(accepted, c)
    BY <1>0, <1>3, <2>0, RejectAssumption
    DEF Promise!Fresh, Promise!Counter, Promise!TooOld
  <2>2. TypeOK' /\ HighestIsMax'
    BY <1>0, <1>3, <2>0, RejectAssumption
    DEF AcceptAhead, Advanced, Answer, Inv, TypeOK, HighestIsMax
  <2>3. WindowExact'
    <3> SUFFICES ASSUME NEW k \in Counter, k <= c, c - k < WINDOW
                 PROVE  seen'[Bit(k)] <=> k \in accepted'
      BY <1>0, <1>3 DEF AcceptAhead, WindowExact
    <3>0. /\ k \in Int /\ Bit(k) \in Bits
          /\ seen' = Advanced(highest, c)
          /\ accepted' = accepted \union {c}
      BY <1>3, BitInRange, RejectAssumption DEF AcceptAhead
    <3>1. CASE k = c
      BY <3>0, <3>1 DEF Advanced
    <3>2. CASE highest < k /\ k < c
      <4>1. Bit(k) # Bit(c)
        BY <1>0, <3>0, <3>2, BitsDistinct
      <4>2. k \in highest + 1 .. c - 1
        BY <1>0, <2>0, <3>0, <3>2
      <4> QED BY <2>0, <3>0, <3>2, <4>1, <4>2 DEF Advanced
    <3>3. CASE k <= highest
      <4>1. k < c /\ c - highest < WINDOW /\ highest - k < WINDOW
        BY <1>0, <1>3, <2>0, <3>0, <3>3
      <4>2. Bit(k) # Bit(c)
        BY <1>0, <3>0, <4>1, BitsDistinct
      <4>3. ASSUME NEW j \in highest + 1 .. c - 1
            PROVE  Bit(j) # Bit(k)
        BY <1>0, <2>0, <3>0, <3>3, BitsDistinct
      <4>4. seen[Bit(k)] <=> k \in accepted
        BY <3>3, <4>1 DEF Inv, WindowExact
      <4>5. seen'[Bit(k)] <=> seen[Bit(k)]
        BY <3>0, <4>1, <4>2, <4>3 DEF Advanced
      <4> QED BY <1>0, <3>0, <4>1, <4>4, <4>5
    <3> QED BY <1>0, <2>0, <3>0, <3>1, <3>2, <3>3
  <2> QED BY <1>3, <2>1, <2>2, <2>3
          DEF AcceptAhead, Answer, Inv, Promise!SpecAccept
<1>4. ASSUME c < REJECT_AFTER_MESSAGES, highest # None, c <= highest,
             Replayed(c), Refuse(c)
      PROVE  Inv' /\ Promise!SpecRefuse(c)
  <2>1. ~Promise!Fresh(accepted, c)
    <3>1. CASE highest - c >= WINDOW
      BY <1>0, <1>4, <3>1
      DEF Promise!Fresh, Promise!TooOld, Inv, TypeOK, HighestIsMax
    <3>2. CASE highest - c < WINDOW /\ seen[Bit(c)]
      BY <1>0, <1>4, <3>2, RejectAssumption
      DEF Promise!Fresh, Inv, WindowExact
    <3> QED BY <1>0, <1>4, <3>1, <3>2 DEF Replayed, Inv, TypeOK
  <2>2. Inv'
    BY <1>0, <1>4 DEF Refuse, Answer, Inv, TypeOK, HighestIsMax, WindowExact
  <2> QED BY <1>4, <2>1, <2>2 DEF Refuse, Answer, Promise!SpecRefuse
<1>5. ASSUME c < REJECT_AFTER_MESSAGES, highest # None, c <= highest,
             ~Replayed(c), AcceptBehind(c)
      PROVE  Inv' /\ Promise!SpecAccept(c)
  <2>0. highest \in Nat /\ \A k \in accepted : k \in Nat /\ k <= highest
    BY <1>5 DEF Inv, TypeOK, HighestIsMax
  <2>1. highest - c < WINDOW /\ ~seen[Bit(c)]
    BY <1>0, <1>5, <2>0 DEF Replayed
  <2>2. c \in Counter /\ c \notin accepted
    BY <1>0, <1>5, <2>1, RejectAssumption DEF Inv, WindowExact
  <2>3. Promise!Fresh(accepted, c)
    BY <1>0, <2>0, <2>1, <2>2
    DEF Promise!Fresh, Promise!Counter, Promise!TooOld
  <2>4. TypeOK' /\ HighestIsMax'
    BY <1>0, <1>5, <2>0, <2>2
    DEF AcceptBehind, Answer, Inv, TypeOK, HighestIsMax
  <2>5. WindowExact'
    <3> SUFFICES ASSUME NEW k \in Counter, k <= highest, highest - k < WINDOW
                 PROVE  seen'[Bit(k)] <=> k \in accepted'
      BY <1>5 DEF AcceptBehind, WindowExact
    <3>0. k \in Int /\ Bit(k) \in Bits
      BY BitInRange, RejectAssumption
    <3>1. CASE k = c
      BY <1>0, <1>5, <3>1 DEF AcceptBehind, Inv, TypeOK
    <3>2. CASE k # c
      <4>1. Bit(k) # Bit(c)
        <5>1. CASE k < c
          BY <1>0, <1>5, <2>0, <3>0, <5>1, BitsDistinct
        <5>2. CASE c < k
          BY <1>0, <2>0, <2>1, <3>0, <5>2, BitsDistinct
        <5> QED BY <1>0, <3>0, <3>2, <5>1, <5>2
      <4>2. seen[Bit(k)] <=> k \in accepted
        BY DEF Inv, WindowExact
      <4> QED BY <1>0, <1>5, <3>0, <3>2, <4>1, <4>2
              DEF AcceptBehind, Inv, TypeOK
    <3> QED BY <3>1, <3>2
  <2> QED BY <1>5, <2>3, <2>4, <2>5
          DEF AcceptBehind, Answer, Inv, Promise!SpecAccept
<1> QED BY <1>1, <1>2, <1>3, <1>4, <1>5 DEF Accept

(* ReplayWindow::new is a correct window over no counters.                 *)
LEMMA InitCorrect == Init => Inv /\ Promise!SpecInit
  BY RejectAssumption
  DEF Init, Inv, TypeOK, HighestIsMax, WindowExact, None, Counter,
      Promise!SpecInit, Promise!NoVerdict

(* The bitmap stays exact in the window and the high water mark maximal    *)
(* whatever counters arrive at ReplayWindow::accept.                       *)
THEOREM WindowInvariant == Spec => []Inv
<1>1. Inv /\ [Next]_vars => Inv'
  <2> SUFFICES ASSUME Inv, [Next]_vars PROVE Inv'
    OBVIOUS
  <2>1. CASE Next
    BY <2>1, AcceptCorrect DEF Next
  <2>2. CASE UNCHANGED vars
    BY <2>2 DEF vars, Inv, TypeOK, HighestIsMax, WindowExact
  <2> QED BY <2>1, <2>2
<1> QED BY <1>1, InitCorrect, PTL DEF Spec

(* ReplayWindow::accept accepts every counter at most once and refuses no  *)
(* fresh counter inside the window: the bitmap implements ReplaySpec.      *)
THEOREM AcceptsExactlyOnce == Spec => ExactlyOnce
<1>1. Inv /\ [Next]_vars => [Promise!SpecNext]_(Promise!specVars)
  <2> SUFFICES ASSUME Inv, [Next]_vars
               PROVE  [Promise!SpecNext]_(Promise!specVars)
    OBVIOUS
  <2>1. CASE Next
    BY <2>1, AcceptCorrect DEF Next, Promise!SpecNext
  <2>2. CASE UNCHANGED vars
    BY <2>2 DEF vars, Promise!specVars
  <2> QED BY <2>1, <2>2
<1> QED
  BY <1>1, InitCorrect, WindowInvariant, PTL
  DEF Spec, ExactlyOnce, Promise!ExactlyOnce

-----------------------------------------------------------------------------
(* The handshake budget, for every burst, rate and clock slack: the token  *)
(* bucket keeps its rate over any stretch of time, and never starves a     *)
(* caller that polls it.                                                   *)

(* Whole periods in a stretch of time: the quotient and the bounds on the  *)
(* remainder that `take` carries forward.                                  *)
LEMMA WholePeriods ==
    ASSUME NEW e \in Nat
    PROVE  /\ e \div RATE \in Nat
           /\ (e \div RATE) * RATE <= e
           /\ e < (e \div RATE) * RATE + RATE
           /\ e >= RATE => e \div RATE >= 1
  BY RateAssumption

(* The refill of one call: how far the mark moves, and that it ends less   *)
(* than one period behind the reading.                                     *)
LEMMA RefillStep ==
    ASSUME BudgetTypeOK, NEW t \in Nat
    PROVE  /\ Earned(t) \in Nat
           /\ Refilled(t) \in 0 .. BURST
           /\ Refilled(t) >= tokens
           /\ Refilled(t) <= tokens + Earned(t)
           /\ RefillMark(t) \in Nat
           /\ RefillMark(t) > t - RATE
           /\ last_refill # NoRefill =>
                 /\ RefillMark(t) = last_refill + Earned(t) * RATE
                 /\ RefillMark(t) <= t \/ RefillMark(t) = last_refill
           /\ last_refill = NoRefill => Earned(t) = 0 /\ RefillMark(t) = t
<1> USE BurstAssumption, RateAssumption DEF BudgetTypeOK, NoRefill
<1>1. CASE last_refill = NoRefill
  BY <1>1 DEF Earned, Refilled, RefillMark
<1>2. CASE last_refill # NoRefill
  <2> DEFINE e == Since(t, last_refill)
  <2>1. e \in Nat /\ last_refill \in Nat
    BY <1>2 DEF Since
  <2>2. /\ Earned(t) = e \div RATE
        /\ RefillMark(t) = last_refill + Earned(t) * RATE
    BY <1>2 DEF Earned, RefillMark
  <2>3. /\ Earned(t) \in Nat
        /\ Earned(t) * RATE <= e
        /\ e < Earned(t) * RATE + RATE
    BY <2>1, <2>2, WholePeriods
  <2>4. Earned(t) * RATE \in Nat
    BY <2>3
  <2>5. /\ Refilled(t) \in 0 .. BURST
        /\ Refilled(t) >= tokens
        /\ Refilled(t) <= tokens + Earned(t)
    BY <2>3 DEF Refilled
  <2>6. RefillMark(t) \in Nat /\ RefillMark(t) > t - RATE
    BY <2>1, <2>2, <2>3, <2>4 DEF Since
  <2>7. RefillMark(t) <= t \/ RefillMark(t) = last_refill
    BY <2>1, <2>2, <2>3, <2>4 DEF Since
  <2> QED BY <1>2, <2>2, <2>3, <2>5, <2>6, <2>7
<1> QED BY <1>1, <1>2

(* A new bucket is full, and nothing was granted yet.                      *)
LEMMA BudgetInitially == BudgetInit => BudgetInv
  BY BurstAssumption, RateAssumption, ClockAssumption
  DEF BudgetInit, BudgetInv, BudgetTypeOK, RefillMarkInPlace, CreditBound, NoRefill

(* A call of `take` keeps the inductive invariant.                         *)
LEMMA TakeInv ==
    ASSUME BudgetInv, NEW t \in Readings, Take(t)
    PROVE  BudgetInv'
<1> USE BurstAssumption, RateAssumption, ClockAssumption
<1>0. /\ BudgetTypeOK
      /\ t \in Nat /\ t <= now /\ t >= now - SLACK
      /\ tokens \in Nat /\ granted \in Nat /\ mark \in Nat /\ now \in Nat
      /\ lastGrant \in Nat /\ mark <= now /\ lastGrant <= now
      /\ last_refill \in Nat \union {NoRefill}
      /\ last_refill <= lastGrant
  BY DEF BudgetInv, BudgetTypeOK, Readings, RefillMarkInPlace
<1>1. /\ last_refill' = RefillMark(t)
      /\ now' = now /\ mark' = mark
  BY DEF Take
<1>2. /\ Earned(t) \in Nat
      /\ Refilled(t) \in 0 .. BURST
      /\ Refilled(t) >= tokens
      /\ Refilled(t) <= tokens + Earned(t)
      /\ RefillMark(t) \in Nat
      /\ RefillMark(t) > t - RATE
      /\ last_refill # NoRefill =>
            /\ RefillMark(t) = last_refill + Earned(t) * RATE
            /\ RefillMark(t) <= t \/ RefillMark(t) = last_refill
      /\ last_refill = NoRefill => Earned(t) = 0 /\ RefillMark(t) = t
  BY <1>0, RefillStep
<1>3. CASE Refilled(t) = 0 /\ tokens' = 0 /\ UNCHANGED <<granted, lastGrant>>
  <2>1. tokens = 0 /\ last_refill # NoRefill
    BY <1>0, <1>2, <1>3 DEF BudgetInv, RefillMarkInPlace
  <2>2. Earned(t) = 0
    BY <1>0, <1>2, <1>3, <2>1 DEF Refilled
  <2>3. last_refill' = last_refill
    BY <1>0, <1>1, <1>2, <2>1, <2>2 DEF NoRefill
  <2> QED BY <1>0, <1>1, <1>3, <2>1, <2>3
          DEF BudgetInv, BudgetTypeOK, RefillMarkInPlace, CreditBound
<1>4. CASE /\ Refilled(t) > 0
           /\ tokens' = Refilled(t) - 1
           /\ granted' = granted + 1
           /\ lastGrant' = now
  <2>1. BudgetTypeOK'
    BY <1>0, <1>1, <1>2, <1>4 DEF BudgetTypeOK
  <2>2. RefillMarkInPlace'
    BY <1>0, <1>1, <1>2, <1>4 DEF RefillMarkInPlace, NoRefill
  <2>3. CreditBound'
    <3>1. granted' + tokens' = granted + Refilled(t)
      BY <1>0, <1>2, <1>4
    <3>2. CASE granted = 0
      BY <1>2, <1>4, <3>1, <3>2 DEF CreditBound
    <3>3. CASE granted > 0
      <4> DEFINE x == granted + tokens - BURST
      <4> DEFINE y == granted + Refilled(t) - BURST
      <4> DEFINE e == Earned(t)
      <4>1. last_refill # NoRefill /\ last_refill > mark - SLACK - RATE
        BY <1>0, <3>3 DEF BudgetInv, RefillMarkInPlace
      <4>2. x \in Int /\ y \in Int /\ e \in Nat /\ y <= x + e
        BY <1>0, <1>2
      <4>3. last_refill' = last_refill + e * RATE /\ e * RATE \in Nat
        BY <1>1, <1>2, <4>1
      <4>4. x * RATE < last_refill - mark + SLACK + RATE
        <5>1. CASE x <= 0
          <6>1. x * RATE <= 0
            <7> HIDE DEF x
            <7> QED BY <4>2, <5>1
          <6> QED BY <1>0, <4>1, <4>2, <6>1 DEF NoRefill
        <5>2. CASE x > 0
          BY <1>0, <5>2 DEF BudgetInv, CreditBound
        <5> QED BY <4>2, <5>1, <5>2
      <4>5. y * RATE <= x * RATE + e * RATE
        <5> HIDE DEF x, y, e
        <5>1. y * RATE <= (x + e) * RATE
          BY <4>2
        <5> QED BY <4>2, <5>1
      <4>6. y * RATE < last_refill' - mark' + SLACK + RATE
        <5>1. x * RATE \in Int /\ y * RATE \in Int
          BY <4>2
        <5> HIDE DEF x, y, e
        <5> QED BY <1>0, <1>1, <4>1, <4>3, <4>4, <4>5, <5>1 DEF NoRefill
      <4>7. granted' + tokens' - BURST = y
        BY <1>0, <1>2, <1>4
      <4>8. (granted' + tokens' - BURST) * RATE
              < last_refill' - mark' + SLACK + RATE
        <5> HIDE DEF y
        <5> QED BY <4>6, <4>7
      <4> QED BY <4>8 DEF CreditBound
    <3> QED BY <1>0, <3>2, <3>3
  <2> QED BY <2>1, <2>2, <2>3 DEF BudgetInv
<1> QED BY <1>3, <1>4 DEF Take

(* The credit of the bucket is accounted for in every reachable state of   *)
(* HandshakeBudget.                                                        *)
THEOREM BudgetInvariant == BudgetSpec => []BudgetInv
<1>1. BudgetInv /\ [BudgetNext]_bucket => BudgetInv'
  <2> SUFFICES ASSUME BudgetInv, [BudgetNext]_bucket PROVE BudgetInv'
    OBVIOUS
  <2> USE DEF BudgetInv, BudgetTypeOK, RefillMarkInPlace, CreditBound
  <2>1. CASE Tick
    BY <2>1, ClockAssumption DEF Tick
  <2>2. CASE Observe
    BY <2>2, BurstAssumption, RateAssumption, ClockAssumption DEF Observe
  <2>3. ASSUME NEW t \in Readings, Take(t) PROVE BudgetInv'
    BY <2>3, TakeInv
  <2>4. CASE UNCHANGED bucket
    BY <2>4 DEF bucket
  <2> QED BY <2>1, <2>2, <2>3, <2>4 DEF BudgetNext
<1> QED BY <1>1, BudgetInitially, PTL DEF BudgetSpec

(* HandshakeBudget::take keeps the rate over any stretch of time.          *)
THEOREM RateHolds == BudgetSpec => []RateBound
<1>1. BudgetInv => RateBound
  <2> SUFFICES ASSUME BudgetInv PROVE RateBound
    OBVIOUS
  <2> USE BurstAssumption, RateAssumption, ClockAssumption
  <2>0. /\ tokens \in Nat /\ granted \in Nat /\ mark \in Nat /\ now \in Nat
        /\ mark <= now /\ last_refill \in Int /\ last_refill <= now
    BY DEF BudgetInv, BudgetTypeOK, RefillMarkInPlace, NoRefill
  <2> DEFINE x == granted + tokens - BURST
  <2> DEFINE g == granted - BURST - 1
  <2>1. x \in Int /\ g \in Int /\ g <= x - 1
    BY <2>0
  <2>2. g * RATE <= x * RATE - RATE
    <3> HIDE DEF x, g
    <3>1. g * RATE <= (x - 1) * RATE
      BY <2>1
    <3> QED BY <2>1, <3>1
  <2>3. x * RATE \in Int /\ g * RATE \in Int
    BY <2>1
  <2>4. CASE x <= 0
    <3>1. x * RATE <= 0
      <4> HIDE DEF x
      <4> QED BY <2>1, <2>4
    <3>2. g * RATE < now - mark + SLACK
      <4> HIDE DEF x, g
      <4> QED BY <2>0, <2>2, <2>3, <3>1
    <3> QED BY <3>2 DEF RateBound
  <2>5. CASE x > 0
    <3>1. x * RATE < last_refill - mark + SLACK + RATE
      BY <2>0, <2>5 DEF BudgetInv, CreditBound
    <3>2. g * RATE < now - mark + SLACK
      <4> HIDE DEF x, g
      <4> QED BY <2>0, <2>2, <2>3, <3>1
    <3> QED BY <3>2 DEF RateBound
  <2> QED BY <2>1, <2>4, <2>5
<1> QED BY <1>1, BudgetInvariant, PTL

(* A caller polling HandshakeBudget::take is granted a token at the latest *)
(* RATE milliseconds after the last grant.                                 *)
THEOREM PollingAccrues == BudgetSpec => []AccruesWhilePolled
<1>1. BudgetInv => AccruesWhilePolled
  <2> SUFFICES ASSUME BudgetInv, NEW t \in Readings, t >= lastGrant + RATE
               PROVE  Refilled(t) > 0
    BY DEF AccruesWhilePolled
  <2> USE BurstAssumption, RateAssumption, ClockAssumption
  <2>0. t \in Nat /\ tokens \in Nat /\ lastGrant \in Nat
        /\ last_refill \in Nat \union {NoRefill} /\ last_refill <= lastGrant
    BY DEF BudgetInv, BudgetTypeOK, Readings, RefillMarkInPlace
  <2>1. CASE last_refill = NoRefill
    BY <2>0, <2>1 DEF BudgetInv, RefillMarkInPlace, Refilled, Earned
  <2>2. CASE last_refill # NoRefill
    <3>1. /\ Since(t, last_refill) \in Nat
          /\ Since(t, last_refill) >= RATE
      BY <2>0, <2>2 DEF Since
    <3>2. Earned(t) \in Nat /\ Earned(t) >= 1
      BY <2>2, <3>1, WholePeriods DEF Earned
    <3> QED BY <2>0, <3>2 DEF Refilled
  <2> QED BY <2>1, <2>2
<1> QED BY <1>1, BudgetInvariant, PTL

=============================================================================
