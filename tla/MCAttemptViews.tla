--------------------------- MODULE MCAttemptViews ---------------------------
(***************************************************************************)
(* Instances of AttemptViews for TLC: two starts of a quiz of three        *)
(* questions, two of them in one position, with an id that belongs to no   *)
(* quiz and one of no user.  An attempt whose start has not committed is   *)
(* the one that is not found.                                              *)
(***************************************************************************)
EXTENDS AttemptViews, TLC

CONSTANTS a1, a2, nobody, quiz, noQuiz, q1, q2, q3,
          right1, wrong1, right2, wrong2, right3, wrong3

MCStarts == {a1, a2}
MCAttemptIds == {a1, a2}
MCUserIds == {a1, a2, nobody}
MCQuizIds == {quiz, noQuiz}
MCQuizzes == {quiz}
MCQuestionIds == {q1, q2, q3}
MCOptionIds == {right1, wrong1, right2, wrong2, right3, wrong3}
MCQuestionsOf == [a \in MCStarts |-> MCQuestionIds]
MCOptionsOf == q1 :> {right1, wrong1} @@ q2 :> {right2, wrong2}
                 @@ q3 :> {right3, wrong3}
MCCorrectOf == q1 :> right1 @@ q2 :> right2 @@ q3 :> right3
MCPositionOf == q1 :> 1 @@ q2 :> 2 @@ q3 :> 1

Answering(q, o) == [question |-> q, option |-> o]

\* Two of three right, and not in the order of the positions.
MCPayloads ==
  {<<Answering(q2, right2), Answering(q3, right3), Answering(q1, wrong1)>>}

ViewSymmetry ==
  Permutations(Requests) \cup Permutations(MCStarts)
    \cup Permutations(Emails) \cup Permutations(Names)

=============================================================================
