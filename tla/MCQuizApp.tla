------------------------------ MODULE MCQuizApp ------------------------------
(***************************************************************************)
(* Instances of QuizApp for TLC: one attempt of a quiz with one question   *)
(* of two options, so that all the requests are after the same attempt.    *)
(***************************************************************************)
EXTENDS QuizApp, TLC

CONSTANTS a1, q1, right, wrong

MCAttempts == {a1}
MCQuestionIds == {q1}
MCOptionIds == {right, wrong}
MCQuestionsOf == a1 :> MCQuestionIds
MCOptionsOf == q1 :> MCOptionIds
MCCorrectOf == q1 :> right

\* A right and a wrong answer: two results, and two mails that tell them apart.
MCPayloads ==
  {<<[question |-> q1, option |-> right]>>, <<[question |-> q1, option |-> wrong]>>}

RequestSymmetry == Permutations(Requests)

=============================================================================
