-------------------------- MODULE AttemptSubmission --------------------------
(***************************************************************************)
(* POST /attempts/{id}/submit: AttemptService.submit_attempt with the      *)
(* repository and notification calls it makes (app/attempts/service.py,    *)
(* app/notifications/service.py), run concurrently by the API process for  *)
(* several requests.                                                       *)
(*                                                                         *)
(* One request is one SQLAlchemy session and one transaction.  It gives    *)
(* the event loop away at each await, so a request is a sequence of        *)
(* actions cut at the awaits another process can see or disturb:           *)
(*   idle -> validated      SELECT of the attempt, checks, scoring         *)
(*   validated -> flushed   UPDATE attempts, INSERT answers, notification  *)
(*   flushed -> enqueued or not_enqueued    the call to the arq pool       *)
(*   -> ok                  COMMIT                                         *)
(* and every other value of stage is the error the client is answered.     *)
(***************************************************************************)
EXTENDS Storage

CONSTANTS
  Payloads,   \* the answers arrays clients may post
  Faults      \* whether database errors and API restarts happen

\* AttemptSubmitRequest.answers has min_length=1.
ASSUME PayloadAssumption ==
  /\ Payloads \subseteq Seq([question : QuestionIds, option : OptionIds]) \ {<<>>}
  /\ Faults \in BOOLEAN

VARIABLES
  req,      \* what each client posts: an attempt id and an answers array
  stage,    \* how far each request is, or the answer it was given
  arqPool   \* app.state.arq_pool is a pool, not None

apiVars == <<req, stage, arqPool>>

\* Mistaken: a transaction that failed is left open, with its locks.
InTransactionLeaked == {"flushed", "enqueued", "not_enqueued", "server_error"}

InTransaction == {"flushed", "enqueued", "not_enqueued"}

\* The code of a DomainError; "server_error" is the answer of an unhandled
\* exception, "lost" the fate of a request whose API process died.
DomainErrors ==
  {"attempt_not_found", "attempt_already_submitted", "invalid_answer_submission"}

Replies == DomainErrors \cup {"ok", "server_error", "lost"}

Stages == {"idle", "validated"} \cup InTransaction \cup Replies

ApiTypeOK ==
  /\ req \in [Requests -> [attempt : AttemptIds, answers : Payloads]]
  /\ stage \in [Requests -> Stages]
  /\ arqPool \in BOOLEAN

\* The clients' choices are made at the start; lifespan() got a pool or not.
ApiInit ==
  /\ req \in [Requests -> [attempt : AttemptIds, answers : Payloads]]
  /\ stage = [r \in Requests |-> "idle"]
  /\ arqPool \in BOOLEAN

Target(r) == req[r].attempt

-----------------------------------------------------------------------------
\* Mistaken: a question may be answered twice.
ValidUpToRepeats(questions, submitted) ==
  /\ {submitted[i].question : i \in DOMAIN submitted} = questions
  /\ \A i \in DOMAIN submitted :
       submitted[i].option \in OptionsOf[submitted[i].question]

\* _validate_submission: no question twice, exactly the quiz's questions, and
\* every option one of its question's options.
ValidSubmission(questions, submitted) ==
  /\ \A i, j \in DOMAIN submitted :
       submitted[i].question = submitted[j].question => i = j
  /\ {submitted[i].question : i \in DOMAIN submitted} = questions
  /\ \A i \in DOMAIN submitted :
       submitted[i].option \in OptionsOf[submitted[i].question]

\* Mistaken: every answer counts.
AnswersGiven(submitted) == Len(submitted)

\* The number of submissions whose option is the correct one.
Score(submitted) ==
  Cardinality({i \in DOMAIN submitted :
                 submitted[i].option = CorrectOf[submitted[i].question]})

\* What the UPDATE sets: submitted_at, score and percentage.
Result(r) ==
  LET score == Score(req[r].answers)
      total == Cardinality(QuestionsOf[Target(r)])
  IN  [submitted_at |-> TRUE, score |-> score,
       percentage |-> compute_percentage(score, total)]

\* The Answer rows of the request, one for each submission.
AnswerRows(r) ==
  {[by |-> r, attempt |-> Target(r),
    question |-> req[r].answers[i].question,
    option |-> req[r].answers[i].option] : i \in DOMAIN req[r].answers}

\* Mistaken: the status is a name that the Enum does not have.
NotificationInStage(r) ==
  [attempt |-> Target(r), status |-> stage[r], retry_count |-> 0,
   last_error |-> stage[r] = "not_enqueued", sent_at |-> FALSE]

\* create_queued, and the status queue_for_attempt leaves on the row.
NewNotification(r) ==
  [attempt |-> Target(r),
   status |-> IF stage[r] = "enqueued" THEN "queued" ELSE "failed_to_enqueue",
   retry_count |-> 0,
   last_error |-> stage[r] = "not_enqueued",
   sent_at |-> FALSE]

\* Another transaction has updated the attempt's row and not ended: Postgres
\* makes a second UPDATE of the row wait for it.
RowLocked(a) == \E s \in Requests : stage[s] \in InTransaction /\ Target(s) = a

\* Mistaken: notifications.attempt_id is not unique.
NoUniqueIndex(a) == FALSE

\* The unique index on notifications.attempt_id has an entry for the attempt.
UniqueViolation(a) == NotificationsOf(a) # {}

-----------------------------------------------------------------------------
Answer(r, reply) == stage' = [stage EXCEPT ![r] = reply]

StorageUnchanged == UNCHANGED <<attempts, answers, notifications, jobs>>

\* get_with_quiz finds no attempt.
AttemptNotFound(r) ==
  /\ stage[r] = "idle"
  /\ Target(r) \notin Attempts
  /\ Answer(r, "attempt_not_found")
  /\ StorageUnchanged /\ UNCHANGED <<req, arqPool>>

AlreadySubmitted(r) ==
  /\ stage[r] = "idle"
  /\ Target(r) \in Attempts
  /\ attempts[Target(r)].submitted_at
  /\ Answer(r, "attempt_already_submitted")
  /\ StorageUnchanged /\ UNCHANGED <<req, arqPool>>

InvalidSubmission(r) ==
  /\ stage[r] = "idle"
  /\ Target(r) \in Attempts
  /\ ~attempts[Target(r)].submitted_at
  /\ ~ValidSubmission(QuestionsOf[Target(r)], req[r].answers)
  /\ Answer(r, "invalid_answer_submission")
  /\ StorageUnchanged /\ UNCHANGED <<req, arqPool>>

\* The SELECT saw the attempt open and the answers are valid.
Validate(r) ==
  /\ stage[r] = "idle"
  /\ Target(r) \in Attempts
  /\ ~attempts[Target(r)].submitted_at
  /\ ValidSubmission(QuestionsOf[Target(r)], req[r].answers)
  /\ Answer(r, "validated")
  /\ StorageUnchanged /\ UNCHANGED <<req, arqPool>>

\* The flush of create_queued: UPDATE attempts, then the INSERTs.
Flush(r) ==
  /\ stage[r] = "validated"
  /\ ~RowLocked(Target(r))
  /\ ~UniqueViolation(Target(r))
  /\ Answer(r, "flushed")
  /\ StorageUnchanged /\ UNCHANGED <<req, arqPool>>

\* The same flush after another submission of the attempt has committed: the
\* UPDATE goes through, the INSERT of the notification raises IntegrityError,
\* which nothing handles; the session rolls back as it closes.
FlushConflict(r) ==
  /\ stage[r] = "validated"
  /\ ~RowLocked(Target(r))
  /\ UniqueViolation(Target(r))
  /\ Answer(r, "server_error")
  /\ StorageUnchanged /\ UNCHANGED <<req, arqPool>>

\* arq_pool is None: the row is marked failed_to_enqueue.
SkipEnqueue(r) ==
  /\ stage[r] = "flushed"
  /\ ~arqPool
  /\ Answer(r, "not_enqueued")
  /\ StorageUnchanged /\ UNCHANGED <<req, arqPool>>

\* enqueue_job stores the job under notification:{id}, before the COMMIT.
EnqueueJob(r) ==
  /\ stage[r] = "flushed"
  /\ arqPool
  /\ jobs' = jobs \cup {r}
  /\ Answer(r, "enqueued")
  /\ UNCHANGED <<attempts, answers, notifications, req, arqPool>>

\* Mistaken: the exception of enqueue_job is not caught.
EnqueueFailureRaises(r) ==
  /\ stage[r] = "flushed"
  /\ arqPool
  /\ jobs' \in {jobs, jobs \cup {r}}
  /\ Answer(r, "server_error")
  /\ UNCHANGED <<attempts, answers, notifications, req, arqPool>>

\* enqueue_job raises.  Redis may have stored the job before the connection
\* broke.
EnqueueFails(r) ==
  /\ stage[r] = "flushed"
  /\ arqPool
  /\ jobs' \in {jobs, jobs \cup {r}}
  /\ Answer(r, "not_enqueued")
  /\ UNCHANGED <<attempts, answers, notifications, req, arqPool>>

\* Mistaken: add_answers is left out.
ApplyWithoutAnswers(r) ==
  /\ attempts' = [attempts EXCEPT ![Target(r)] = Result(r)]
  /\ notifications' = [n \in DOMAIN notifications \cup {r} |->
                         IF n = r THEN NewNotification(r) ELSE notifications[n]]
  /\ UNCHANGED answers

\* What COMMIT makes visible.
Apply(r) ==
  /\ attempts' = [attempts EXCEPT ![Target(r)] = Result(r)]
  /\ answers' = answers \cup AnswerRows(r)
  /\ notifications' = [n \in DOMAIN notifications \cup {r} |->
                         IF n = r THEN NewNotification(r) ELSE notifications[n]]

\* Mistaken: the session is closed without a COMMIT.
CommitForgotten(r) ==
  /\ stage[r] \in {"enqueued", "not_enqueued"}
  /\ Answer(r, "ok")
  /\ StorageUnchanged /\ UNCHANGED <<req, arqPool>>

Commit(r) ==
  /\ stage[r] \in {"enqueued", "not_enqueued"}
  /\ Apply(r)
  /\ Answer(r, "ok")
  /\ UNCHANGED <<jobs, req, arqPool>>

-----------------------------------------------------------------------------
\* COMMIT takes effect and the client never hears of it: the connection to
\* Postgres breaks and the driver raises, or the API process dies.
CommitUnacknowledged(r) ==
  /\ stage[r] \in {"enqueued", "not_enqueued"}
  /\ Apply(r)
  /\ \E reply \in {"server_error", "lost"} : Answer(r, reply)
  /\ UNCHANGED <<jobs, req, arqPool>>

\* A statement or the COMMIT fails: the transaction rolls back.  A job already
\* in Redis stays there.
TransactionFails(r) ==
  /\ stage[r] \in {"idle", "validated"} \cup InTransaction
  /\ Answer(r, "server_error")
  /\ StorageUnchanged /\ UNCHANGED <<req, arqPool>>

\* The API process dies and starts again: open transactions roll back, and
\* lifespan() connects to Redis, or does not, anew.
RestartApi ==
  /\ stage' = [r \in Requests |->
                 IF stage[r] \in {"validated"} \cup InTransaction
                   THEN "lost" ELSE stage[r]]
  /\ arqPool' \in BOOLEAN
  /\ StorageUnchanged /\ UNCHANGED req

ApiFault ==
  /\ Faults
  /\ \/ RestartApi
     \/ \E r \in Requests : CommitUnacknowledged(r) \/ TransactionFails(r)

\* The steps of a request once it is accepted, as the event loop runs them.
Proceed(r) ==
  \/ Flush(r) \/ FlushConflict(r)
  \/ SkipEnqueue(r) \/ EnqueueJob(r) \/ EnqueueFails(r)
  \/ Commit(r)

ApiStep(r) ==
  \/ AttemptNotFound(r) \/ AlreadySubmitted(r) \/ InvalidSubmission(r)
  \/ Validate(r)
  \/ Proceed(r)

ApiNext == (\E r \in Requests : ApiStep(r)) \/ ApiFault

submissionVars == <<attempts, answers, notifications, jobs, apiVars>>

SubmissionInit == StorageInit /\ ApiInit

SubmissionSpec == SubmissionInit /\ [][ApiNext]_submissionVars

-----------------------------------------------------------------------------
SubmissionTypeOK == StorageTypeOK /\ ApiTypeOK

\* Two clients never both hear that their submission of an attempt was scored,
\* and the score, percentage and answers stored for the attempt are those of
\* the request that heard it: the check of submitted_at in submit_attempt is
\* made before an await, so only the unique index stands against a second
\* submission that read the attempt while it was open.
OkMeansStored ==
  \A r \in Requests : stage[r] = "ok" =>
    /\ attempts[Target(r)] = Result(r)
    /\ AnswersOf(Target(r)) = AnswerRows(r)
    /\ NotificationsOf(Target(r)) = {r}

\* Attempt, answers and notification of a submission exist together or not at
\* all, whatever fails between the flush, the broker call and the COMMIT: an
\* open attempt has no answers and no notification, a submitted one has one
\* notification and exactly one answer to each question of its quiz.
SubmissionIsWhole ==
  \A a \in Attempts :
    IF attempts[a].submitted_at
    THEN /\ Cardinality(NotificationsOf(a)) = 1
         /\ Cardinality(AnswersOf(a)) = Cardinality(QuestionsOf[a])
         /\ {row.question : row \in AnswersOf(a)} = QuestionsOf[a]
    ELSE NotificationsOf(a) = {} /\ AnswersOf(a) = {}

\* Once an attempt is submitted no step changes its score or its answers: a
\* late submission that waited for the row lock must not overwrite the result
\* a client has been shown.
ResultsNeverChange ==
  [][\A a \in Attempts : attempts[a].submitted_at =>
       attempts'[a] = attempts[a] /\ AnswersOf(a)' = AnswersOf(a)]_submissionVars

-----------------------------------------------------------------------------
\* The parts of the inductive invariant behind the properties above.

\* A request past its checks is for an attempt there is, with valid answers.
AcceptedIsValid ==
  \A r \in Requests : stage[r] \in {"validated"} \cup InTransaction =>
    Target(r) \in Attempts /\ ValidSubmission(QuestionsOf[Target(r)], req[r].answers)

\* The row lock: one transaction at a time has written to an attempt, and the
\* attempt has no notification yet.
TransactionsExclude ==
  \A r \in Requests : stage[r] \in InTransaction =>
    /\ NotificationsOf(Target(r)) = {}
    /\ \A s \in Requests :
         stage[s] \in InTransaction /\ Target(s) = Target(r) => s = r

\* A committed notification comes with the result and the answers of the
\* request that inserted it, and is the attempt's only one.
RowsOfSubmission ==
  \A n \in DOMAIN notifications :
    /\ stage[n] \in {"ok", "server_error", "lost"}
    /\ notifications[n].attempt = Target(n)
    /\ Target(n) \in Attempts
    /\ ValidSubmission(QuestionsOf[Target(n)], req[n].answers)
    /\ attempts[Target(n)] = Result(n)
    /\ AnswersOf(Target(n)) = AnswerRows(n)
    /\ \A m \in DOMAIN notifications : Target(m) = Target(n) => m = n

NoRowsWithoutSubmission ==
  \A a \in Attempts : NotificationsOf(a) = {} =>
    attempts[a] = Unsubmitted /\ AnswersOf(a) = {}

OkIsCommitted == \A r \in Requests : stage[r] = "ok" => r \in DOMAIN notifications

\* Whichever requests overlap and whatever fails, one transaction at a time
\* writes to an attempt, and only while it has no notification; from its COMMIT
\* on the rows of the attempt are those of one request.
SubmissionInv ==
  /\ AcceptedIsValid
  /\ TransactionsExclude
  /\ RowsOfSubmission
  /\ NoRowsWithoutSubmission
  /\ OkIsCommitted

=============================================================================
