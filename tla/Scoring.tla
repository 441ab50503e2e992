------------------------------- MODULE Scoring -------------------------------
(***************************************************************************)
(* The pure helpers of app/attempts/scoring.py.                            *)
(*                                                                         *)
(* A percentage is an integer number of hundredths of a percent: 8000 is   *)
(* 80.0 and 4286 is 42.86.  Python computes round(score / total * 100, 2)  *)
(* on floats; the model computes the exact quotient and rounds it to the   *)
(* nearest hundredth, an exact half to the even neighbour as round() does. *)
(* The two agree for every total below 160.  An exact half needs a total   *)
(* that is a multiple of 32; for one that is a multiple of 160 the floats  *)
(* may land on either side of it and Python give the other neighbour.      *)
(*                                                                         *)
(* Here and in the other modules a definition whose comment begins with    *)
(* "Mistaken" is what the next one could have been by a slip of the code;  *)
(* nothing uses it.  The properties are tried against these variants.      *)
(***************************************************************************)
EXTENDS Integers

\* n / d rounded to the nearest integer, an exact half to the even one.
RoundedQuotient(n, d) ==
  LET q == n \div d
      r == n % d
  IN  IF 2 * r > d \/ (2 * r = d /\ q % 2 = 1) THEN q + 1 ELSE q

\* Mistaken: rounded to whole percents.
whole_percentage(score, total) ==
  IF total <= 0 THEN 0 ELSE 100 * RoundedQuotient(100 * score, total)

compute_percentage(score, total) ==
  IF total <= 0 THEN 0 ELSE RoundedQuotient(10000 * score, total)

\* The three feedback messages, named by their first word.
Feedback == {"Great", "Good", "Keep"}

\* Mistaken: a result right at a bar does not reach it.
feedback_above_percentage(percentage) ==
  IF percentage > 8000 THEN "Great"
  ELSE IF percentage > 6000 THEN "Good"
  ELSE "Keep"

feedback_for_percentage(percentage) ==
  IF percentage >= 8000 THEN "Great"
  ELSE IF percentage >= 6000 THEN "Good"
  ELSE "Keep"

=============================================================================
