------------------------- MODULE MCAttemptSubmission -------------------------
(***************************************************************************)
(* Instances of AttemptSubmission for TLC.  Both attempts are of one quiz  *)
(* with two questions of two options each; one id in AttemptIds belongs to *)
(* no attempt.                                                             *)
(***************************************************************************)
EXTENDS AttemptSubmission, TLC

CONSTANTS a1, a2, noAttempt, q1, q2, right1, wrong1, right2, wrong2

MCAttempts == {a1, a2}
MCAttemptIds == {a1, a2, noAttempt}
MCQuestionIds == {q1, q2}
MCOptionIds == {right1, wrong1, right2, wrong2}
MCQuestionsOf == [a \in MCAttempts |-> MCQuestionIds]
MCOptionsOf == q1 :> {right1, wrong1} @@ q2 :> {right2, wrong2}
MCCorrectOf == q1 :> right1 @@ q2 :> right2

Answering(q, o) == [question |-> q, option |-> o]

\* All right; half right, given in the other order; a question twice; a
\* question missing; an option of another question.
MCPayloads ==
  {<<Answering(q1, right1), Answering(q2, right2)>>,
   <<Answering(q2, right2), Answering(q1, wrong1)>>,
   <<Answering(q1, right1), Answering(q1, wrong1), Answering(q2, right2)>>,
   <<Answering(q1, right1)>>,
   <<Answering(q1, right2), Answering(q2, right2)>>}

RequestSymmetry == Permutations(Requests)

=============================================================================
