---------------------------- MODULE ScoringProofs ----------------------------
(***************************************************************************)
(* What rounding can and cannot do to a result: facts about the helpers of *)
(* Scoring for every score and every total, and Marking for every length   *)
(* of quiz.                                                                *)
(***************************************************************************)
EXTENDS Marking, TLAPS

\* RoundedQuotient is within half a unit of the exact quotient: the only fact
\* about it that the theorems below need.
LEMMA RoundedQuotientIsNearest ==
  ASSUME NEW n \in Nat, NEW d \in Nat \ {0}
  PROVE  /\ RoundedQuotient(n, d) \in Nat
         /\ 2 * n - d <= 2 * (RoundedQuotient(n, d) * d)
         /\ 2 * (RoundedQuotient(n, d) * d) <= 2 * n + d
<1> DEFINE q == n \div d
           r == n % d
<1>1. /\ q \in Nat
      /\ r \in Nat
      /\ r < d
      /\ n = q * d + r
  BY Z3
<1> HIDE DEF q, r
<1>2. (q + 1) * d = q * d + d
  BY <1>1
<1>3. q * d \in Nat
  BY <1>1
<1>4. RoundedQuotient(n, d) =
        IF 2 * r > d \/ (2 * r = d /\ q % 2 = 1) THEN q + 1 ELSE q
  BY DEF RoundedQuotient, q, r
<1>5. CASE 2 * r > d \/ (2 * r = d /\ q % 2 = 1)
  <2>1. RoundedQuotient(n, d) = q + 1
    BY <1>4, <1>5
  <2>2. 2 * r >= d
    BY <1>1, <1>5
  <2> QED
    BY <1>1, <1>2, <1>3, <2>1, <2>2
<1>6. CASE ~(2 * r > d \/ (2 * r = d /\ q % 2 = 1))
  <2>1. RoundedQuotient(n, d) = q
    BY <1>4, <1>6
  <2>2. 2 * r <= d
    BY <1>1, <1>6
  <2> QED
    BY <1>1, <1>3, <2>1, <2>2
<1> QED
  BY <1>5, <1>6

\* A percentage of hundredths p reaches the bar b exactly when the ratio s / t
\* does, if the ratio is a multiple of 1 / (5 * t) and t is below 4000.
LEMMA BarIsExact ==
  ASSUME NEW s \in Nat, NEW t \in Nat \ {0}, NEW k \in 1..5, NEW p \in Nat,
         t < 4000,
         2 * (10000 * s) - t <= 2 * (p * t),
         2 * (p * t) <= 2 * (10000 * s) + t
  PROVE  p >= 2000 * k <=> 5 * s >= k * t
<1>1. CASE 5 * s >= k * t
  <2>1. 2 * (p * t) >= 4000 * (k * t) - t
    BY <1>1
  <2>2. SUFFICES ASSUME p <= 2000 * k - 1 PROVE FALSE
    BY <1>1
  <2>3. p * t <= (2000 * k - 1) * t
    BY <2>2, Z3
  <2>4. (2000 * k - 1) * t = 2000 * (k * t) - t
    BY Z3
  <2> QED
    BY <2>1, <2>3, <2>4
<1>2. CASE 5 * s < k * t
  <2>1. 2 * (p * t) <= 4000 * (k * t) - 4000 + t
    BY <1>2
  <2>2. SUFFICES ASSUME p >= 2000 * k PROVE FALSE
    BY <1>2
  <2>3. p * t >= (2000 * k) * t
    BY <2>2, Z3
  <2>4. (2000 * k) * t = 2000 * (k * t)
    BY Z3
  <2> QED
    BY <2>1, <2>3, <2>4
<1> QED
  BY <1>1, <1>2

\* The feedback of a rounded percentage is the one the exact ratio earns.
LEMMA FeedbackOfRatio ==
  ASSUME NEW s \in Nat, NEW t \in Nat \ {0}, t < 4000
  PROVE  feedback_for_percentage(compute_percentage(s, t)) =
           IF 5 * s >= 4 * t THEN "Great"
           ELSE IF 5 * s >= 3 * t THEN "Good"
           ELSE "Keep"
<1> DEFINE p == RoundedQuotient(10000 * s, t)
<1>1. compute_percentage(s, t) = p
  BY DEF compute_percentage
<1>2. /\ p \in Nat
      /\ 2 * (10000 * s) - t <= 2 * (p * t)
      /\ 2 * (p * t) <= 2 * (10000 * s) + t
  <2>1. 10000 * s \in Nat
    OBVIOUS
  <2> QED
    BY <2>1, RoundedQuotientIsNearest
<1> HIDE DEF p
<1>3. p >= 2000 * 4 <=> 5 * s >= 4 * t
  BY <1>2, BarIsExact
<1>4. p >= 2000 * 3 <=> 5 * s >= 3 * t
  BY <1>2, BarIsExact
<1> QED
  BY <1>1, <1>2, <1>3, <1>4 DEF feedback_for_percentage

\* A rounded percentage is 100.0 or 0.0 only when the ratio is 1 or 0.
LEMMA ExtremesOfRatio ==
  ASSUME NEW s \in Nat, NEW t \in Nat \ {0}, t < 20000, s <= t
  PROVE  /\ compute_percentage(s, t) = 10000 <=> s = t
         /\ compute_percentage(s, t) = 0 <=> s = 0
<1> DEFINE p == RoundedQuotient(10000 * s, t)
<1>1. compute_percentage(s, t) = p
  BY DEF compute_percentage
<1>2. /\ p \in Nat
      /\ 2 * (10000 * s) - t <= 2 * (p * t)
      /\ 2 * (p * t) <= 2 * (10000 * s) + t
  <2>1. 10000 * s \in Nat
    OBVIOUS
  <2> QED
    BY <2>1, RoundedQuotientIsNearest
<1> HIDE DEF p
<1>3. p = 10000 <=> s = t
  <2>1. ASSUME p = 10000, s # t PROVE FALSE
    BY <1>2, <2>1
  <2>2. ASSUME s = t PROVE p = 10000
    <3>1. p <= 9999 => p * t <= 9999 * t
      BY <1>2, Z3
    <3>2. p >= 10001 => p * t >= 10001 * t
      BY <1>2, Z3
    <3> QED
      BY <1>2, <2>2, <3>1, <3>2
  <2> QED
    BY <2>1, <2>2
<1>4. p = 0 <=> s = 0
  <2>1. ASSUME p = 0, s # 0 PROVE FALSE
    BY <1>2, <2>1
  <2>2. ASSUME s = 0 PROVE p = 0
    <3>1. p >= 1 => p * t >= t
      BY <1>2, Z3
    <3> QED
      BY <1>2, <2>2, <3>1
  <2> QED
    BY <2>1, <2>2
<1> QED
  BY <1>1, <1>3, <1>4

-----------------------------------------------------------------------------
(* The scoring loop.                                                        *)

\* The counters of the loop stay in their ranges.
THEOREM MarkingTypeCorrect == MarkingSpec => []MarkingTypeOK
<1>1. MarkingInit => MarkingTypeOK
  BY MaxTotalAssumption DEF MarkingInit, MarkingTypeOK
<1>2. MarkingTypeOK /\ [Mark]_markingVars => MarkingTypeOK'
  BY MaxTotalAssumption DEF MarkingTypeOK, Mark, markingVars
<1> QED
  BY <1>1, <1>2, PTL DEF MarkingSpec

\* In a quiz of fewer than 4000 questions the rounded percentage earns the
\* feedback that the exact ratio earns.
THEOREM FeedbackIsExact ==
  ASSUME MaxTotal < 4000
  PROVE  MarkingSpec => []FeedbackFitsExactRatio
<1>1. MarkingTypeOK => FeedbackFitsExactRatio
  <2> SUFFICES ASSUME MarkingTypeOK PROVE FeedbackFitsExactRatio
    OBVIOUS
  <2>1. total \in Nat \ {0} /\ score \in Nat /\ total < 4000
    BY MaxTotalAssumption DEF MarkingTypeOK
  <2> QED
    BY <2>1, FeedbackOfRatio DEF FeedbackFitsExactRatio
<1> QED
  BY <1>1, MarkingTypeCorrect, PTL

\* In a quiz of fewer than 20000 questions rounding makes no result read 100.0
\* or 0.0 that is not.
THEOREM ExtremesStayExact ==
  ASSUME MaxTotal < 20000
  PROVE  MarkingSpec => []ExtremesAreExact
<1>1. MarkingTypeOK => ExtremesAreExact
  <2> SUFFICES ASSUME MarkingTypeOK PROVE ExtremesAreExact
    OBVIOUS
  <2>1. /\ total \in Nat \ {0} /\ score \in Nat
        /\ total < 20000 /\ score <= total
    BY MaxTotalAssumption DEF MarkingTypeOK
  <2> QED
    BY <2>1, ExtremesOfRatio DEF ExtremesAreExact
<1> QED
  BY <1>1, MarkingTypeCorrect, PTL

=============================================================================
