---------------------------- MODULE AttemptViews ----------------------------
(***************************************************************************)
(* The API process as a whole: POST /attempts, POST /attempts/{id}/submit  *)
(* and, racing with both, GET /attempts/{id} (get_attempt_detail),         *)
(* GET /users/{id}/attempts (list_attempts) and GET /users/{id}/stats      *)
(* (get_stats).  An attempt has the id of the start that inserts it, and   *)
(* is there for the other requests once that has committed.                *)
(*                                                                         *)
(* A read that needs several SELECTs makes them in one transaction at READ *)
(* COMMITTED, where each sees what is committed when it runs: a submission *)
(* may commit between two of them.  Users and quizzes are never deleted,   *)
(* so the SELECTs that find them are made one with the SELECT after them.  *)
(***************************************************************************)
EXTENDS AttemptSubmission, AttemptStart, SequencesExt, FiniteSetsExt

CONSTANTS
  Viewers,      \* the GET requests
  UserIds,      \* the ids a client may put in the URL
  PositionOf    \* the position of each question

\* All starts are of one quiz, the one QuestionsOf is about.
ASSUME ViewAssumption ==
  /\ Attempts = Starts
  /\ \E quiz \in QuizIds : Quizzes = {quiz}
  /\ Starts \subseteq UserIds
  /\ PositionOf \in [QuestionIds -> Nat]

VARIABLES
  view,    \* what each GET has read and answered
  known    \* history: the starts and the submissions answered when it began

viewVars == <<view, known>>

apiProcessVars == <<submissionVars, startVars, viewVars>>

ViewInit ==
  /\ view = [v \in Viewers |-> [kind |-> "idle"]]
  /\ known = [v \in Viewers |-> [starts |-> {}, submits |-> {}]]

Committed == {t.id : t \in started}

AttemptsOf(u) == {t \in started : t.user = u}

-----------------------------------------------------------------------------
\* One question of a result: QuestionResult, AttemptQuestionDetail.
Marked(question, option) ==
  [question |-> question, selected |-> option, correct |-> CorrectOf[question],
   is_correct |-> option = CorrectOf[question]]

InPosition(results) ==
  \A i, j \in DOMAIN results :
    i < j => PositionOf[results[i].question] <= PositionOf[results[j].question]

\* AttemptResult, what the submission is answered with; the sort is stable.
SubmitResponse(r) ==
  LET given == req[r].answers
      position(i) == PositionOf[given[i].question]
      order == CHOOSE order \in SetToSeqs(DOMAIN given) :
                 \A i, j \in DOMAIN order : i < j =>
                   \/ position(order[i]) < position(order[j])
                   \/ position(order[i]) = position(order[j]) /\ order[i] < order[j]
  IN  [row |-> Result(r),
       total |-> Cardinality(QuestionsOf[Target(r)]),
       feedback |-> {feedback_for_percentage(Result(r).percentage)},
       questions |-> [k \in DOMAIN order |->
                        Marked(given[order[k]].question, given[order[k]].option)]]

\* The breakdowns a detail may show for answer rows, which come in any order:
\* sorted by position, they differ only where positions collide.
Breakdowns(rows) ==
  {results \in SetToSeqs({Marked(row.question, row.option) : row \in rows}) :
     InPosition(results)}

-----------------------------------------------------------------------------
Begin(v, state) ==
  /\ view[v].kind = "idle"
  /\ view' = [view EXCEPT ![v] = state]
  /\ known' = [known EXCEPT ![v] =
       [starts |-> Answered, submits |-> {r \in Requests : stage[r] = "ok"}]]

Continue(v, state) ==
  /\ view' = [view EXCEPT ![v] = state]
  /\ UNCHANGED known

DetailNotFound(v, id) ==
  /\ id \notin Committed
  /\ Begin(v, [kind |-> "attempt_not_found", id |-> id])

\* get_detail: the SELECT of the attempt ...
ReadAttempt(v, t) ==
  Begin(v, [kind |-> "attempt read", attempt |-> t, row |-> attempts[t.id]])

Detail(v, row, questions) ==
  [kind |-> "detail", attempt |-> view[v].attempt, row |-> row,
   total |-> Cardinality(QuestionsOf[view[v].attempt.id]),
   feedback |-> IF row.submitted_at THEN {feedback_for_percentage(row.percentage)}
                                    ELSE {},
   questions |-> questions]

\* The breakdown is built from the answer rows only when the attempt was
\* submitted as it was read.
ReadBreakdowns(v) ==
  IF view[v].row.submitted_at THEN Breakdowns(AnswersOf(view[v].attempt.id))
                              ELSE {<<>>}

\* Mistaken: the attempt is refreshed after the breakdown was decided.
ReadAnswersRefreshed(v) ==
  /\ view[v].kind = "attempt read"
  /\ \E questions \in ReadBreakdowns(v) :
       Continue(v, Detail(v, attempts[view[v].attempt.id], questions))

\* ... and, after those of the quiz, the SELECT of its answers.
ReadAnswers(v) ==
  /\ view[v].kind = "attempt read"
  /\ \E questions \in ReadBreakdowns(v) :
       Continue(v, Detail(v, view[v].row, questions))

UserNotFound(v, u) ==
  /\ \A user \in users : user.id # u
  /\ Begin(v, [kind |-> "user_not_found", id |-> u])

\* Mistaken: order_by(started_at).
OldestFirst(s, t) == s.started_at <= t.started_at

\* order_by(started_at.desc()).
NewestFirst(s, t) == s.started_at >= t.started_at

\* list_by_user: the rows come with one SELECT.
ListAttempts(v, user) ==
  \E rows \in SetToSeqs(AttemptsOf(user.id)) :
    /\ \A i, j \in DOMAIN rows : i < j => NewestFirst(rows[i], rows[j])
    /\ Begin(v, [kind |-> "list", user |-> user.id,
                 items |-> [k \in DOMAIN rows |->
                              [id |-> rows[k].id, row |-> attempts[rows[k].id]]]])

\* Mistaken: the attempts that are open are not counted.
CountSubmitted(v, user) ==
  Begin(v, [kind |-> "counted", user |-> user.id,
            total |-> Cardinality({t \in AttemptsOf(user.id) : attempts[t.id].submitted_at})])

\* stats_for_user: the count of the user's attempts ...
CountAttempts(v, user) ==
  Begin(v, [kind |-> "counted", user |-> user.id,
            total |-> Cardinality(AttemptsOf(user.id))])

\* ... and the mean over those submitted, none when there is none.
AverageSubmitted(v) ==
  /\ view[v].kind = "counted"
  /\ LET submitted == {t.id : t \in {t \in AttemptsOf(view[v].user) :
                                       attempts[t.id].submitted_at}}
     IN  Continue(v,
           [kind |-> "stats", user |-> view[v].user, total |-> view[v].total,
            average |-> IF submitted = {} THEN {}
                        ELSE {RoundedQuotient(
                                MapThenSumSet(LAMBDA a : attempts[a].percentage, submitted),
                                Cardinality(submitted))}])

ViewStep(v) ==
  \/ \E id \in AttemptIds : DetailNotFound(v, id)
  \/ \E t \in started : ReadAttempt(v, t)
  \/ ReadAnswers(v)
  \/ \E u \in UserIds : UserNotFound(v, u)
  \/ \E user \in users : ListAttempts(v, user) \/ CountAttempts(v, user)
  \/ AverageSubmitted(v)

-----------------------------------------------------------------------------
\* get_with_quiz comes before the COMMIT of the start.
SubmitTooEarly(r) ==
  /\ stage[r] = "idle"
  /\ Target(r) \in Attempts \ Committed
  /\ Answer(r, "attempt_not_found")
  /\ StorageUnchanged /\ UNCHANGED <<req, arqPool>>

SubmitStep(r) ==
  \/ AttemptNotFound(r) \/ SubmitTooEarly(r)
  \/ /\ Target(r) \in Committed
     /\ AlreadySubmitted(r) \/ InvalidSubmission(r) \/ Validate(r) \/ Proceed(r)
  \/ Faults /\ (CommitUnacknowledged(r) \/ TransactionFails(r))

\* The one process that serves all these requests dies and starts again.
Restart ==
  /\ Faults /\ RestartApi /\ CutStarts
  /\ view' = [v \in Viewers |-> IF view[v].kind \in {"attempt read", "counted"}
                                THEN [kind |-> "lost"] ELSE view[v]]
  /\ UNCHANGED known

ViewsInit == SubmissionInit /\ StartInit /\ ViewInit

ViewsNext ==
  \/ \E r \in Starts : StartStep(r) /\ UNCHANGED <<submissionVars, viewVars>>
  \/ \E r \in Requests : SubmitStep(r) /\ UNCHANGED <<startVars, viewVars>>
  \/ \E v \in Viewers : ViewStep(v) /\ UNCHANGED <<submissionVars, startVars>>
  \/ Restart

ViewsSpec == ViewsInit /\ [][ViewsNext]_apiProcessVars

-----------------------------------------------------------------------------
\* A detail is of one moment although it is read in several: it shows no
\* result and no breakdown, or the result with one entry for each question of
\* the quiz, in the order of their positions, as many of them correct as the
\* score says.
DetailIsWhole ==
  \A v \in Viewers : view[v].kind = "detail" =>
    LET shown == view[v]
        results == shown.questions
    IN  IF shown.row.submitted_at
        THEN /\ {results[k].question : k \in DOMAIN results} =
                  QuestionsOf[shown.attempt.id]
             /\ Len(results) = shown.total
             /\ InPosition(results)
             /\ Cardinality({k \in DOMAIN results : results[k].is_correct}) =
                  shown.row.score
        ELSE results = <<>> /\ shown.feedback = {}

\* The same result, with the same entries; at each place the questions have one
\* position, and are one question where positions do not collide.
SameAnswer(shown, told) ==
  /\ shown.row = told.row
  /\ shown.total = told.total
  /\ shown.feedback = told.feedback
  /\ DOMAIN shown.questions = DOMAIN told.questions
  /\ Range(shown.questions) = Range(told.questions)
  /\ \A k \in DOMAIN told.questions :
       PositionOf[shown.questions[k].question] = PositionOf[told.questions[k].question]

\* A client whose submission was answered ok finds that answer, to the order of
\* its questions as far as their positions give one, in every detail it asks
\* for afterwards, the same score and percentage in its history, and an average
\* in its stats.
ReadsFollowAnswers ==
  \A v \in Viewers : \A r \in known[v].submits :
    LET shown == view[v] IN
    /\ shown.kind = "detail" /\ shown.attempt.id = Target(r) =>
         SameAnswer(shown, SubmitResponse(r))
    /\ shown.kind = "list" =>
         \A k \in DOMAIN shown.items :
           shown.items[k].id = Target(r) => shown.items[k].row = Result(r)
    /\ shown.kind = "stats" /\ shown.user = UserOf(Target(r)) =>
         shown.average # {}

\* The attempts of the user that the client had been answered with.
KnownOf(v, u) == {r \in known[v].starts : UserOf(r) = u}

\* A client whose start was answered with an attempt and a user finds both by
\* those ids ever after: the attempt in its detail, in the history of the user
\* and in the count of the stats; and the history lists each attempt once, those
\* started after the answer to an earlier one before that.
HistoryIsComplete ==
  \A v \in Viewers :
    LET shown == view[v] IN
    /\ \A r \in known[v].starts :
         /\ shown.kind = "attempt_not_found" => shown.id # r
         /\ shown.kind = "user_not_found" => shown.id # UserOf(r)
         /\ shown.kind = "detail" /\ shown.attempt.id = r =>
              shown.attempt.user = UserOf(r)
         /\ shown.kind = "list" /\ shown.user = UserOf(r) =>
              \E k \in DOMAIN shown.items : shown.items[k].id = r
    /\ shown.kind = "stats" =>
         shown.total >= Cardinality(KnownOf(v, shown.user))
    /\ shown.kind = "list" =>
         \A i, j \in DOMAIN shown.items : i < j =>
           /\ shown.items[i].id # shown.items[j].id
           /\ shown.items[i].id \notin behind[shown.items[j].id]

-----------------------------------------------------------------------------
(* The parts of the inductive invariant behind the properties above.       *)

\* A submission gets past its checks only for an attempt that is there.
SubmitsFollowStarts ==
  \A r \in Requests : stage[r] \in {"validated", "ok"} \cup InTransaction =>
    Target(r) \in Committed

\* What a client has been answered stays so.
KnownIsAnswered ==
  \A v \in Viewers :
    /\ known[v].starts \subseteq Answered
    /\ known[v].submits \subseteq {r \in Requests : stage[r] = "ok"}

\* Between the SELECTs of a detail: the attempt as it was read is final, or it
\* was open and nobody had been told of a result.
ReadIsFinalOrOpen ==
  \A v \in Viewers : view[v].kind = "attempt read" =>
    LET read == view[v] IN
    /\ read.attempt \in started
    /\ read.row \in AttemptRow
    /\ read.row.submitted_at => read.row = attempts[read.attempt.id]
    /\ \A r \in known[v].submits :
         Target(r) = read.attempt.id => read.row = Result(r)

\* Between the SELECTs of the stats: the count has all of them.
CountIsComplete ==
  \A v \in Viewers : view[v].kind = "counted" =>
    view[v].total >= Cardinality(KnownOf(v, view[v].user))

\* A history lists attempts that are stored.
ListedIsStored ==
  \A v \in Viewers : view[v].kind = "list" =>
    \A k \in DOMAIN view[v].items : view[v].items[k].id \in Committed

\* Whatever a read has seen before the last of its SELECTs, no step of a start
\* or a submission makes it wrong for what it goes on to answer.
ViewInv ==
  /\ StartOrderInv
  /\ SubmitsFollowStarts
  /\ KnownIsAnswered
  /\ ReadIsFinalOrOpen
  /\ CountIsComplete
  /\ ListedIsStored

=============================================================================
