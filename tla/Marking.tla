------------------------------- MODULE Marking -------------------------------
(***************************************************************************)
(* The loop of submit_attempt that counts right answers, for quizzes of    *)
(* every length up to a bound, with the percentage and the feedback that   *)
(* app/attempts/scoring.py makes of the count.  The loop is what brings    *)
(* the helpers every pair of arguments they are called with.               *)
(***************************************************************************)
EXTENDS Scoring

CONSTANT MaxTotal   \* the longest quiz

ASSUME MaxTotalAssumption == MaxTotal \in Nat \ {0}

VARIABLES
  total,    \* the questions of the quiz
  marked,   \* the answers marked so far
  score     \* the right ones among them

markingVars == <<total, marked, score>>

MarkingTypeOK ==
  /\ total \in 1..MaxTotal
  /\ marked \in 0..total
  /\ score \in 0..marked

MarkingInit == total \in 1..MaxTotal /\ marked = 0 /\ score = 0

Mark ==
  /\ marked < total
  /\ marked' = marked + 1
  /\ score' \in {score, score + 1}
  /\ UNCHANGED total

MarkingSpec == MarkingInit /\ [][Mark]_markingVars

-----------------------------------------------------------------------------
\* The feedback is chosen from the percentage after it was rounded to two
\* decimals; still it is the one that the exact ratio of right answers earns:
\* rounding never lifts a result over 60% or 80%.
FeedbackFitsExactRatio ==
  feedback_for_percentage(compute_percentage(score, total)) =
    IF 5 * score >= 4 * total THEN "Great"
    ELSE IF 5 * score >= 3 * total THEN "Good"
    ELSE "Keep"

\* A result reads 100.0 only when every answer is right, and 0.0 only when
\* every answer is wrong, although it is rounded.
ExtremesAreExact ==
  /\ compute_percentage(score, total) = 10000 <=> score = total
  /\ compute_percentage(score, total) = 0 <=> score = 0

=============================================================================
