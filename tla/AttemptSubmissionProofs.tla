----------------------- MODULE AttemptSubmissionProofs -----------------------
(***************************************************************************)
(* AttemptSubmission, for any number of requests, attempts and questions   *)
(* and any payloads: its types, the invariant SubmissionInv, and what      *)
(* follows from them.                                                      *)
(***************************************************************************)
EXTENDS AttemptSubmission, FiniteSetTheorems, TLAPS

-----------------------------------------------------------------------------
(* What a submission stores is of the right type.                          *)

LEMMA PayloadElement ==
  ASSUME NEW S, NEW s \in Seq(S), NEW i \in DOMAIN s
  PROVE  s[i] \in S
  OBVIOUS

LEMMA PayloadType ==
  ASSUME ApiTypeOK, NEW r \in Requests
  PROVE  /\ DOMAIN req[r].answers # {}
         /\ IsFiniteSet(DOMAIN req[r].answers)
         /\ \A i \in DOMAIN req[r].answers :
              req[r].answers[i] \in [question : QuestionIds, option : OptionIds]
<1> DEFINE submission == [question : QuestionIds, option : OptionIds]
           given == req[r].answers
<1>1. given \in Seq(submission) /\ given # <<>>
  BY PayloadAssumption DEF ApiTypeOK
<1> HIDE DEF submission, given
<1>2. /\ Len(given) \in Nat /\ DOMAIN given = 1..Len(given)
      /\ DOMAIN given # {}
  BY <1>1
<1>3. IsFiniteSet(DOMAIN given)
  BY <1>2, FS_Interval
<1>4. \A i \in DOMAIN given : given[i] \in submission
  BY <1>1, PayloadElement
<1> QED
  BY <1>2, <1>3, <1>4 DEF submission, given

LEMMA ScoreType ==
  ASSUME NEW submitted \in Payloads
  PROVE  Score(submitted) \in Nat
<1> DEFINE right == {i \in DOMAIN submitted :
                       submitted[i].option = CorrectOf[submitted[i].question]}
<1>1. DOMAIN submitted = 1..Len(submitted) /\ Len(submitted) \in Nat
  BY PayloadAssumption
<1>2. IsFiniteSet(1..Len(submitted))
  BY <1>1, FS_Interval
<1>3. right \subseteq 1..Len(submitted)
  BY <1>1
<1>4. IsFiniteSet(right)
  BY <1>2, <1>3, FS_Subset
<1>5. Cardinality(right) \in Nat
  BY <1>4, FS_CardinalityType
<1> QED
  BY <1>5 DEF Score

LEMMA TotalType ==
  ASSUME NEW a \in Attempts
  PROVE  Cardinality(QuestionsOf[a]) \in Nat
  BY QuizAssumption, FS_CardinalityType

\* The percentage of a count of right answers is an integer of hundredths.
LEMMA PercentageType ==
  ASSUME NEW s \in Nat, NEW t \in Nat
  PROVE  compute_percentage(s, t) \in Int
<1>1. CASE t = 0
  BY <1>1 DEF compute_percentage
<1>2. CASE t # 0
  <2>1. ((10000 * s) \div t) \in Int
    BY <1>2, Z3
  <2>2. RoundedQuotient(10000 * s, t) \in Int
    BY <2>1 DEF RoundedQuotient
  <2> QED
    BY <2>2 DEF compute_percentage
<1> QED
  BY <1>1, <1>2

LEMMA ResultType ==
  ASSUME ApiTypeOK, NEW r \in Requests, Target(r) \in Attempts
  PROVE  Result(r) \in AttemptRow
<1>1. req[r].answers \in Payloads
  BY DEF ApiTypeOK
<1> DEFINE score == Score(req[r].answers)
           total == Cardinality(QuestionsOf[Target(r)])
<1>2. score \in Nat
  BY <1>1, ScoreType
<1>3. total \in Nat
  BY TotalType
<1>4. compute_percentage(score, total) \in Int
  <2> HIDE DEF score, total
  <2> QED
    BY <1>2, <1>3, PercentageType
<1>5. Result(r) = [submitted_at |-> TRUE, score |-> score,
                   percentage |-> compute_percentage(score, total)]
  BY DEF Result
<1> HIDE DEF score, total
<1> QED
  BY <1>2, <1>4, <1>5 DEF AttemptRow

LEMMA AnswerRowsType ==
  ASSUME ApiTypeOK, NEW r \in Requests, Target(r) \in Attempts
  PROVE  AnswerRows(r) \subseteq AnswerRow
<1>1. req[r].answers \in Seq([question : QuestionIds, option : OptionIds])
  BY PayloadAssumption DEF ApiTypeOK
<1>2. \A i \in DOMAIN req[r].answers :
        req[r].answers[i] \in [question : QuestionIds, option : OptionIds]
  <2> DEFINE submission == [question : QuestionIds, option : OptionIds]
  <2>1. req[r].answers \in Seq(submission)
    BY <1>1
  <2> HIDE DEF submission
  <2>2. \A i \in DOMAIN req[r].answers : req[r].answers[i] \in submission
    BY <2>1, PayloadElement
  <2> QED
    BY <2>2 DEF submission
<1> QED
  BY <1>2 DEF AnswerRows, AnswerRow

LEMMA NewNotificationType ==
  ASSUME NEW r \in Requests, Target(r) \in Attempts
  PROVE  NewNotification(r) \in NotificationRow
  BY DEF NewNotification, NotificationRow, NotificationStatus

-----------------------------------------------------------------------------
(* Every step either leaves the three tables alone or is the COMMIT of one *)
(* request.                                                                *)

TablesKept == UNCHANGED <<attempts, answers, notifications>>

\* How the stage of one request may move while the tables stay as they are.
QuietMove(r) ==
  \/ stage'[r] = stage[r]
  \/ stage[r] \notin Replies /\ stage'[r] \in Replies \ {"ok"}
  \/ /\ stage[r] = "idle" /\ stage'[r] = "validated"
     /\ Target(r) \in Attempts
     /\ ValidSubmission(QuestionsOf[Target(r)], req[r].answers)
  \/ stage[r] \in InTransaction /\ stage'[r] \in InTransaction
  \/ /\ stage[r] = "validated" /\ stage'[r] = "flushed"
     /\ ~RowLocked(Target(r))
     /\ ~UniqueViolation(Target(r))
     /\ \A s \in Requests \ {r} : stage'[s] = stage[s]

QuietStep ==
  /\ TablesKept
  /\ req' = req
  /\ \A r \in Requests : QuietMove(r)

CommitStep(r) ==
  /\ stage[r] \in {"enqueued", "not_enqueued"}
  /\ Apply(r)
  /\ req' = req
  /\ \E reply \in {"ok", "server_error", "lost"} : Answer(r, reply)

LEMMA StepIsQuietOrCommit ==
  ASSUME ApiTypeOK, [ApiNext]_submissionVars
  PROVE  QuietStep \/ \E r \in Requests : CommitStep(r)
<1> USE DEF ApiTypeOK, QuietStep, QuietMove, TablesKept, StorageUnchanged,
            Answer, InTransaction, Replies, DomainErrors
<1>1. ASSUME NEW r \in Requests, ApiStep(r)
      PROVE  QuietStep \/ CommitStep(r)
  <2>1. CASE AttemptNotFound(r)
    BY <2>1 DEF AttemptNotFound
  <2>2. CASE AlreadySubmitted(r)
    BY <2>2 DEF AlreadySubmitted
  <2>3. CASE InvalidSubmission(r)
    BY <2>3 DEF InvalidSubmission
  <2>4. CASE Validate(r)
    BY <2>4 DEF Validate
  <2>5. CASE Flush(r)
    BY <2>5 DEF Flush
  <2>6. CASE FlushConflict(r)
    BY <2>6 DEF FlushConflict
  <2>7. CASE SkipEnqueue(r)
    BY <2>7 DEF SkipEnqueue
  <2>8. CASE EnqueueJob(r)
    BY <2>8 DEF EnqueueJob
  <2>9. CASE EnqueueFails(r)
    BY <2>9 DEF EnqueueFails
  <2>10. CASE Commit(r)
    BY <2>10 DEF Commit, CommitStep
  <2> QED
    BY <1>1, <2>1, <2>2, <2>3, <2>4, <2>5, <2>6, <2>7, <2>8, <2>9, <2>10
      DEF ApiStep, Proceed
<1>2. ASSUME NEW r \in Requests, CommitUnacknowledged(r)
      PROVE  CommitStep(r)
  BY <1>2 DEF CommitUnacknowledged, CommitStep
<1>3. ASSUME NEW r \in Requests, TransactionFails(r)
      PROVE  QuietStep
  BY <1>3 DEF TransactionFails
<1>4. CASE RestartApi
  BY <1>4 DEF RestartApi
<1>5. CASE UNCHANGED submissionVars
  BY <1>5 DEF submissionVars, apiVars
<1> QED
  BY <1>1, <1>2, <1>3, <1>4, <1>5 DEF ApiNext, ApiFault

\* The operators on a request's own data are fixed with req.
LEMMA RequestsAreFixed ==
  ASSUME req' = req, NEW r \in Requests
  PROVE  /\ Target(r)' = Target(r)
         /\ Result(r)' = Result(r)
         /\ AnswerRows(r)' = AnswerRows(r)
  BY DEF Target, Result, AnswerRows

-----------------------------------------------------------------------------
(* Types.                                                                  *)

LEMMA SubmissionTypeInit == SubmissionInit => SubmissionTypeOK
<1> SUFFICES ASSUME SubmissionInit PROVE SubmissionTypeOK
  OBVIOUS
<1>1. attempts \in [Attempts -> AttemptRow]
  BY DEF SubmissionInit, StorageInit, Unsubmitted, AttemptRow
<1>2. DOMAIN notifications = {}
  BY DEF SubmissionInit, StorageInit
<1>3. notifications \in [DOMAIN notifications -> NotificationRow]
  BY <1>2 DEF SubmissionInit, StorageInit
<1>4. ApiTypeOK
  BY DEF SubmissionInit, ApiInit, ApiTypeOK, Stages
<1> QED
  BY <1>1, <1>2, <1>3, <1>4
    DEF SubmissionInit, StorageInit, SubmissionTypeOK, StorageTypeOK

\* What a COMMIT makes of the tables, in the forms the proofs use.
LEMMA CommitTables ==
  ASSUME SubmissionTypeOK, NEW r \in Requests, Target(r) \in Attempts, Apply(r)
  PROVE  /\ attempts' = [attempts EXCEPT ![Target(r)] = Result(r)]
         /\ answers' = answers \cup AnswerRows(r)
         /\ DOMAIN notifications' = DOMAIN notifications \cup {r}
         /\ notifications'[r] = NewNotification(r)
         /\ \A n \in DOMAIN notifications \ {r} : notifications'[n] = notifications[n]
  BY DEF Apply

LEMMA SubmissionTypeStep ==
  ASSUME SubmissionTypeOK, AcceptedIsValid, [ApiNext]_submissionVars
  PROVE  SubmissionTypeOK'
<1>1. ApiTypeOK'
  <2> USE DEF SubmissionTypeOK, ApiTypeOK, Stages, InTransaction, Replies,
              DomainErrors, Answer, StorageUnchanged
  <2>1. ASSUME NEW r \in Requests, ApiStep(r) PROVE ApiTypeOK'
    BY <2>1 DEF ApiStep, Proceed, AttemptNotFound, AlreadySubmitted,
      InvalidSubmission, Validate, Flush, FlushConflict, SkipEnqueue, EnqueueJob,
      EnqueueFails, Commit
  <2>2. ASSUME ApiFault PROVE ApiTypeOK'
    BY <2>2 DEF ApiFault, RestartApi, CommitUnacknowledged, TransactionFails
  <2>3. CASE UNCHANGED submissionVars
    BY <2>3 DEF submissionVars, apiVars
  <2> QED
    BY <2>1, <2>2, <2>3 DEF ApiNext
<1>2. jobs' \subseteq Requests
  <2> USE DEF SubmissionTypeOK, StorageTypeOK, StorageUnchanged
  <2>1. ASSUME NEW r \in Requests, ApiStep(r) PROVE jobs' \subseteq Requests
    BY <2>1 DEF ApiStep, Proceed, AttemptNotFound, AlreadySubmitted,
      InvalidSubmission, Validate, Flush, FlushConflict, SkipEnqueue, EnqueueJob,
      EnqueueFails, Commit
  <2>2. ASSUME ApiFault PROVE jobs' \subseteq Requests
    BY <2>2 DEF ApiFault, RestartApi, CommitUnacknowledged, TransactionFails
  <2>3. CASE UNCHANGED submissionVars
    BY <2>3 DEF submissionVars, apiVars
  <2> QED
    BY <2>1, <2>2, <2>3 DEF ApiNext
<1>3. CASE QuietStep
  BY <1>1, <1>2, <1>3
    DEF QuietStep, TablesKept, SubmissionTypeOK, StorageTypeOK
<1>4. ASSUME NEW r \in Requests, CommitStep(r) PROVE SubmissionTypeOK'
  <2>1. Target(r) \in Attempts
    BY <1>4 DEF CommitStep, AcceptedIsValid, InTransaction
  <2>2. Apply(r)
    BY <1>4 DEF CommitStep
  <2>3. Result(r) \in AttemptRow
    BY <2>1, ResultType DEF SubmissionTypeOK
  <2>4. attempts' \in [Attempts -> AttemptRow]
    BY <2>1, <2>2, <2>3, CommitTables DEF SubmissionTypeOK, StorageTypeOK
  <2>5. answers' \subseteq AnswerRow
    <3>1. AnswerRows(r) \subseteq AnswerRow
      BY <2>1, AnswerRowsType DEF SubmissionTypeOK
    <3>2. answers' = answers \cup AnswerRows(r)
      BY <2>2 DEF Apply
    <3> QED
      BY <3>1, <3>2 DEF SubmissionTypeOK, StorageTypeOK
  <2>6. /\ DOMAIN notifications' \subseteq Requests
        /\ notifications' \in [DOMAIN notifications' -> NotificationRow]
    <3>1. NewNotification(r) \in NotificationRow
      BY <2>1, NewNotificationType
    <3>2. DOMAIN notifications' = DOMAIN notifications \cup {r}
      BY <2>1, <2>2, CommitTables
    <3> QED
      BY <2>2, <3>1, <3>2 DEF Apply, SubmissionTypeOK, StorageTypeOK
  <2> QED
    BY <1>1, <1>2, <2>4, <2>5, <2>6 DEF SubmissionTypeOK, StorageTypeOK
<1> QED
  BY <1>3, <1>4, StepIsQuietOrCommit DEF SubmissionTypeOK

-----------------------------------------------------------------------------
(* The inductive invariant.                                                *)

LEMMA SubmissionInvInit == SubmissionInit => SubmissionInv
  BY DEF SubmissionInit, StorageInit, ApiInit, SubmissionInv, AcceptedIsValid,
    TransactionsExclude, RowsOfSubmission, NoRowsWithoutSubmission, OkIsCommitted,
    InTransaction, NotificationsOf, AnswersOf

\* A step that leaves the tables alone keeps every part: only a flush brings a
\* request into its transaction, and it waited for the row lock.
LEMMA QuietStepKeepsInv ==
  ASSUME SubmissionTypeOK, SubmissionInv, QuietStep
  PROVE  SubmissionInv'
<1> USE DEF SubmissionInv
<1>1. /\ TablesKept /\ req' = req
      /\ \A r \in Requests : QuietMove(r)
  BY DEF QuietStep
<1>2. \A r \in Requests : /\ Target(r)' = Target(r)
                          /\ Result(r)' = Result(r)
                          /\ AnswerRows(r)' = AnswerRows(r)
  BY <1>1, RequestsAreFixed
<1>3. \A a : NotificationsOf(a)' = NotificationsOf(a) /\ AnswersOf(a)' = AnswersOf(a)
  BY <1>1 DEF TablesKept, NotificationsOf, AnswersOf
<1>4. AcceptedIsValid'
  BY <1>1, <1>2 DEF AcceptedIsValid, QuietMove, InTransaction, Replies, DomainErrors,
    ValidSubmission
<1>5. TransactionsExclude'
  <2> SUFFICES ASSUME NEW r \in Requests, stage'[r] \in InTransaction
               PROVE  /\ NotificationsOf(Target(r)) = {}
                      /\ \A s \in Requests :
                           stage'[s] \in InTransaction /\ Target(s) = Target(r)
                             => s = r
    BY <1>2, <1>3 DEF TransactionsExclude, InTransaction
  <2>1. \A s \in Requests : stage'[s] \in InTransaction =>
          \/ stage[s] \in InTransaction
          \/ /\ stage[s] = "validated"
             /\ ~RowLocked(Target(s)) /\ ~UniqueViolation(Target(s))
             /\ \A u \in Requests \ {s} : stage'[u] = stage[u]
    BY <1>1 DEF QuietMove, InTransaction, Replies, DomainErrors
  <2>2. CASE stage[r] \in InTransaction
    <3>1. ASSUME NEW s \in Requests, s # r, stage'[s] \in InTransaction,
                 Target(s) = Target(r)
          PROVE  FALSE
      BY <2>1, <2>2, <3>1 DEF TransactionsExclude, RowLocked
    <3> QED
      BY <2>2, <3>1 DEF TransactionsExclude
  <2>3. CASE stage[r] \notin InTransaction
    <3>1. /\ ~RowLocked(Target(r)) /\ ~UniqueViolation(Target(r))
          /\ \A u \in Requests \ {r} : stage'[u] = stage[u]
      BY <2>1, <2>3
    <3> QED
      BY <3>1 DEF RowLocked, UniqueViolation
  <2> QED
    BY <2>2, <2>3
<1>6. RowsOfSubmission'
  <2>1. \A n \in DOMAIN notifications : n \in Requests
    BY DEF SubmissionTypeOK, StorageTypeOK
  <2>2. \A n \in DOMAIN notifications : stage'[n] = stage[n]
    BY <1>1, <2>1 DEF RowsOfSubmission, QuietMove, InTransaction, Replies
  <2>3. notifications' = notifications /\ attempts' = attempts
    BY <1>1 DEF TablesKept
  <2> QED
    BY <1>1, <1>2, <1>3, <2>1, <2>2, <2>3 DEF RowsOfSubmission, ValidSubmission
<1>7. NoRowsWithoutSubmission'
  BY <1>1, <1>3 DEF NoRowsWithoutSubmission, TablesKept
<1>8. OkIsCommitted'
  BY <1>1 DEF OkIsCommitted, QuietMove, TablesKept, InTransaction, Replies
<1> QED
  BY <1>4, <1>5, <1>6, <1>7, <1>8

\* A COMMIT writes to an attempt that has no notification, and to no other; its
\* request was the only one in a transaction on the attempt.
LEMMA CommitStepKeepsInv ==
  ASSUME SubmissionTypeOK, SubmissionInv, NEW r \in Requests, CommitStep(r)
  PROVE  SubmissionInv'
<1> USE DEF SubmissionInv
<1>0. PICK a \in Attempts : a = Target(r)
  BY DEF CommitStep, InTransaction, AcceptedIsValid
<1>1. /\ stage[r] \in InTransaction
      /\ a \in Attempts
      /\ ValidSubmission(QuestionsOf[a], req[r].answers)
      /\ NotificationsOf(a) = {}
      /\ Apply(r)
      /\ req' = req
  BY <1>0 DEF CommitStep, InTransaction, AcceptedIsValid, TransactionsExclude
<1>2. \A s \in Requests : /\ Target(s)' = Target(s)
                          /\ Result(s)' = Result(s)
                          /\ AnswerRows(s)' = AnswerRows(s)
  BY <1>1, RequestsAreFixed
<1>3. /\ stage'[r] \in {"ok", "server_error", "lost"}
      /\ \A s \in Requests \ {r} : stage'[s] = stage[s]
  BY DEF CommitStep, Answer, SubmissionTypeOK, ApiTypeOK
<1>4. /\ attempts' = [attempts EXCEPT ![a] = Result(r)]
      /\ DOMAIN notifications' = DOMAIN notifications \cup {r}
      /\ notifications'[r].attempt = a
      /\ \A n \in DOMAIN notifications \ {r} : notifications'[n] = notifications[n]
  <2>1. /\ attempts' = [attempts EXCEPT ![Target(r)] = Result(r)]
        /\ DOMAIN notifications' = DOMAIN notifications \cup {r}
        /\ notifications'[r] = NewNotification(r)
        /\ \A n \in DOMAIN notifications \ {r} : notifications'[n] = notifications[n]
    BY <1>0, <1>1, CommitTables
  <2> QED
    BY <1>0, <2>1 DEF NewNotification
<1>5. r \notin DOMAIN notifications
  BY <1>1 DEF RowsOfSubmission, InTransaction
<1>6. /\ NotificationsOf(a)' = {r}
      /\ \A b \in Attempts \ {a} : NotificationsOf(b)' = NotificationsOf(b)
  BY <1>1, <1>4, <1>5 DEF NotificationsOf
<1>7. /\ AnswersOf(a)' = AnswerRows(r)
      /\ \A b \in Attempts \ {a} : AnswersOf(b)' = AnswersOf(b)
  <2>1. answers' = answers \cup AnswerRows(r)
    BY <1>1 DEF Apply
  <2>2. AnswersOf(a) = {}
    BY <1>1 DEF NoRowsWithoutSubmission
  <2>3. \A row \in AnswerRows(r) : row.attempt = a
    BY <1>0 DEF AnswerRows
  <2> QED
    BY <2>1, <2>2, <2>3 DEF AnswersOf
<1>8. \A n \in DOMAIN notifications : n \in Requests /\ n # r /\ Target(n) # a
  BY <1>1, <1>5 DEF RowsOfSubmission, NotificationsOf, SubmissionTypeOK, StorageTypeOK
<1>9. AcceptedIsValid'
  BY <1>1, <1>2, <1>3
    DEF AcceptedIsValid, InTransaction, ValidSubmission
<1>10. TransactionsExclude'
  <2> SUFFICES ASSUME NEW s \in Requests, stage'[s] \in InTransaction
               PROVE  /\ NotificationsOf(Target(s))' = {}
                      /\ \A u \in Requests :
                           stage'[u] \in InTransaction /\ Target(u) = Target(s)
                             => u = s
    BY <1>2 DEF TransactionsExclude, InTransaction
  <2>1. s # r /\ stage[s] \in InTransaction
    BY <1>3 DEF InTransaction
  <2>2. Target(s) # a
    BY <1>0, <1>1, <2>1 DEF TransactionsExclude
  <2>3. Target(s) \in Attempts /\ NotificationsOf(Target(s)) = {}
    BY <2>1 DEF TransactionsExclude, AcceptedIsValid
  <2>4. NotificationsOf(Target(s))' = {}
    BY <1>2, <1>4, <2>2, <2>3 DEF NotificationsOf
  <2>5. ASSUME NEW u \in Requests, stage'[u] \in InTransaction, Target(u) = Target(s)
        PROVE  u = s
    BY <1>3, <2>1, <2>5 DEF TransactionsExclude, InTransaction
  <2> QED
    BY <2>4, <2>5
<1>11. RowsOfSubmission'
  <2> SUFFICES ASSUME NEW n \in DOMAIN notifications'
               PROVE  /\ stage'[n] \in {"ok", "server_error", "lost"}
                      /\ notifications'[n].attempt = Target(n)
                      /\ Target(n) \in Attempts
                      /\ ValidSubmission(QuestionsOf[Target(n)], req[n].answers)
                      /\ attempts'[Target(n)] = Result(n)
                      /\ AnswersOf(Target(n))' = AnswerRows(n)
                      /\ \A m \in DOMAIN notifications' : Target(m) = Target(n) => m = n
    <3>1. DOMAIN notifications' \subseteq Requests
      BY <1>4, <1>8
    <3> QED
      BY <1>1, <1>2, <3>1 DEF RowsOfSubmission, ValidSubmission
  <2>1. CASE n = r
    <3>1. attempts'[a] = Result(r)
      BY <1>1, <1>4 DEF SubmissionTypeOK, StorageTypeOK
    <3>2. AnswersOf(Target(n))' = AnswerRows(n)
      BY <1>0, <1>2, <1>7, <2>1 DEF AnswersOf
    <3>3. \A m \in DOMAIN notifications' : Target(m) = Target(n) => m = n
      BY <1>0, <1>4, <1>8, <2>1
    <3> QED
      BY <1>0, <1>1, <1>3, <1>4, <2>1, <3>1, <3>2, <3>3
  <2>2. CASE n # r
    <3>1. n \in DOMAIN notifications /\ n \in Requests /\ Target(n) # a
      BY <1>4, <1>8, <2>2
    <3>2. Target(n) \in Attempts
      BY <3>1 DEF RowsOfSubmission
    <3>3. attempts'[Target(n)] = attempts[Target(n)]
      BY <1>4, <3>1, <3>2 DEF SubmissionTypeOK, StorageTypeOK
    <3>4. AnswersOf(Target(n))' = AnswersOf(Target(n))
      BY <1>2, <1>7, <3>1, <3>2 DEF AnswersOf
    <3>5. \A m \in DOMAIN notifications' : Target(m) = Target(n) => m = n
      BY <1>0, <1>4, <3>1 DEF RowsOfSubmission
    <3> QED
      BY <1>3, <1>4, <2>2, <3>1, <3>2, <3>3, <3>4, <3>5 DEF RowsOfSubmission
  <2> QED
    BY <2>1, <2>2
<1>12. NoRowsWithoutSubmission'
  <2> SUFFICES ASSUME NEW b \in Attempts, NotificationsOf(b)' = {}
               PROVE  attempts'[b] = Unsubmitted /\ AnswersOf(b)' = {}
    BY DEF NoRowsWithoutSubmission
  <2>1. b # a
    BY <1>6
  <2>2. attempts'[b] = attempts[b]
    BY <1>4, <2>1 DEF SubmissionTypeOK, StorageTypeOK
  <2> QED
    BY <1>6, <1>7, <2>1, <2>2 DEF NoRowsWithoutSubmission
<1>13. OkIsCommitted'
  BY <1>3, <1>4 DEF OkIsCommitted
<1> QED
  BY <1>9, <1>10, <1>11, <1>12, <1>13

-----------------------------------------------------------------------------
(* What follows from the invariant.                                        *)

LEMMA OkIsStored ==
  ASSUME SubmissionTypeOK, SubmissionInv
  PROVE  OkMeansStored
<1> SUFFICES ASSUME NEW r \in Requests, stage[r] = "ok"
             PROVE  /\ attempts[Target(r)] = Result(r)
                    /\ AnswersOf(Target(r)) = AnswerRows(r)
                    /\ NotificationsOf(Target(r)) = {r}
  BY DEF OkMeansStored
<1>1. r \in DOMAIN notifications
  BY DEF SubmissionInv, OkIsCommitted
<1> QED
  BY <1>1 DEF SubmissionInv, RowsOfSubmission, NotificationsOf

LEMMA ResultsKept ==
  ASSUME SubmissionTypeOK, SubmissionInv,
         QuietStep \/ \E r \in Requests : CommitStep(r),
         NEW a \in Attempts, attempts[a].submitted_at
  PROVE  attempts'[a] = attempts[a] /\ AnswersOf(a)' = AnswersOf(a)
<1>1. CASE QuietStep
  BY <1>1 DEF QuietStep, TablesKept, AnswersOf
<1>2. ASSUME NEW r \in Requests, CommitStep(r)
      PROVE  attempts'[a] = attempts[a] /\ AnswersOf(a)' = AnswersOf(a)
  <2>1. /\ Target(r) \in Attempts
        /\ NotificationsOf(Target(r)) = {}
    BY <1>2
      DEF CommitStep, SubmissionInv, AcceptedIsValid, TransactionsExclude, InTransaction
  <2>2. a # Target(r)
    BY <2>1 DEF SubmissionInv, NoRowsWithoutSubmission, Unsubmitted
  <2>3. /\ attempts' = [attempts EXCEPT ![Target(r)] = Result(r)]
        /\ answers' = answers \cup AnswerRows(r)
    BY <1>2 DEF CommitStep, Apply
  <2>4. \A row \in AnswerRows(r) : row.attempt # a
    BY <2>2 DEF AnswerRows
  <2> QED
    BY <2>2, <2>3, <2>4 DEF AnswersOf, SubmissionTypeOK, StorageTypeOK
<1> QED
  BY <1>1, <1>2

\* Valid answers make one row for each question: the question is a bijection
\* from the rows to the questions of the quiz.
LEMMA RowsMatchQuestions ==
  ASSUME ApiTypeOK, NEW r \in Requests, Target(r) \in Attempts,
         ValidSubmission(QuestionsOf[Target(r)], req[r].answers)
  PROVE  /\ {row.question : row \in AnswerRows(r)} = QuestionsOf[Target(r)]
         /\ Cardinality(AnswerRows(r)) = Cardinality(QuestionsOf[Target(r)])
<1> DEFINE rows == AnswerRows(r)
           questions == QuestionsOf[Target(r)]
           questionOf == [row \in rows |-> row.question]
<1>1. {row.question : row \in rows} = questions
  <2>1. {row.question : row \in rows}
          = {req[r].answers[i].question : i \in DOMAIN req[r].answers}
    <3>1. ASSUME NEW row \in rows
          PROVE  \E i \in DOMAIN req[r].answers : row.question = req[r].answers[i].question
      BY DEF AnswerRows
    <3>2. ASSUME NEW i \in DOMAIN req[r].answers
          PROVE  \E row \in rows : row.question = req[r].answers[i].question
      <4> DEFINE mine == [by |-> r, attempt |-> Target(r),
                          question |-> req[r].answers[i].question,
                          option |-> req[r].answers[i].option]
      <4>1. mine \in rows /\ mine.question = req[r].answers[i].question
        BY DEF AnswerRows
      <4> QED
        BY <4>1
    <3> QED
      BY <3>1, <3>2
  <2> QED
    BY <2>1 DEF ValidSubmission
<1>2. \A row1, row2 \in rows : row1.question = row2.question => row1 = row2
  BY DEF ValidSubmission, AnswerRows
<1>3. IsFiniteSet(questions)
  BY QuizAssumption
<1> HIDE DEF rows, questions
<1>4. questionOf \in Injection(rows, questions)
  BY <1>1, <1>2 DEF Injection, IsInjective
<1>5. questionOf \in Surjection(rows, questions)
  BY <1>1 DEF Surjection
<1>6. Cardinality(rows) = Cardinality(questions)
  <2> HIDE DEF questionOf
  <2> QED
    BY <1>3, <1>4, <1>5, FS_Injection
<1> QED
  BY <1>1, <1>6 DEF rows, questions

\* The rows of an attempt are those of the one request that inserted its
\* notification.
LEMMA SubmittedBy ==
  ASSUME SubmissionTypeOK, SubmissionInv, NEW a \in Attempts, NotificationsOf(a) # {}
  PROVE  \E n \in Requests :
           /\ Target(n) = a
           /\ ValidSubmission(QuestionsOf[a], req[n].answers)
           /\ attempts[a] = Result(n)
           /\ AnswersOf(a) = AnswerRows(n)
           /\ NotificationsOf(a) = {n}
<1>1. PICK n \in DOMAIN notifications : notifications[n].attempt = a
  BY DEF NotificationsOf
<1>2. /\ n \in Requests
      /\ Target(n) = a
      /\ ValidSubmission(QuestionsOf[a], req[n].answers)
      /\ attempts[a] = Result(n)
      /\ AnswersOf(a) = AnswerRows(n)
  BY <1>1 DEF SubmissionInv, RowsOfSubmission, SubmissionTypeOK, StorageTypeOK
<1>3. NotificationsOf(a) = {n}
  BY <1>1, <1>2 DEF NotificationsOf, SubmissionInv, RowsOfSubmission
<1> QED
  BY <1>2, <1>3

LEMMA StoredWhole ==
  ASSUME SubmissionTypeOK, SubmissionInv
  PROVE  SubmissionIsWhole
<1> SUFFICES ASSUME NEW a \in Attempts
             PROVE  IF attempts[a].submitted_at
                    THEN /\ Cardinality(NotificationsOf(a)) = 1
                         /\ Cardinality(AnswersOf(a)) = Cardinality(QuestionsOf[a])
                         /\ {row.question : row \in AnswersOf(a)} = QuestionsOf[a]
                    ELSE NotificationsOf(a) = {} /\ AnswersOf(a) = {}
  BY DEF SubmissionIsWhole
<1>1. CASE NotificationsOf(a) = {}
  BY <1>1 DEF SubmissionInv, NoRowsWithoutSubmission, Unsubmitted
<1>2. CASE NotificationsOf(a) # {}
  <2>1. PICK n \in Requests :
          /\ Target(n) = a
          /\ ValidSubmission(QuestionsOf[a], req[n].answers)
          /\ attempts[a] = Result(n)
          /\ AnswersOf(a) = AnswerRows(n)
          /\ NotificationsOf(a) = {n}
    BY <1>2, SubmittedBy
  <2>2. attempts[a].submitted_at
    BY <2>1 DEF Result
  <2>3. Cardinality(NotificationsOf(a)) = 1
    BY <2>1, FS_Singleton
  <2>4. /\ {row.question : row \in AnswersOf(a)} = QuestionsOf[a]
        /\ Cardinality(AnswersOf(a)) = Cardinality(QuestionsOf[a])
    BY <2>1, RowsMatchQuestions DEF SubmissionTypeOK
  <2> QED
    BY <2>2, <2>3, <2>4
<1> QED
  BY <1>1, <1>2

-----------------------------------------------------------------------------
(* The theorems.                                                           *)

LEMMA SubmissionInductive ==
  ASSUME SubmissionTypeOK, SubmissionInv, [ApiNext]_submissionVars
  PROVE  SubmissionTypeOK' /\ SubmissionInv'
<1>1. SubmissionTypeOK'
  BY SubmissionTypeStep DEF SubmissionInv
<1>2. SubmissionInv'
  BY StepIsQuietOrCommit, QuietStepKeepsInv, CommitStepKeepsInv DEF SubmissionTypeOK
<1> QED
  BY <1>1, <1>2

\* The invariant that the other theorems rest on, together with the types,
\* which it needs to be inductive.
THEOREM SubmissionInvariance ==
  SubmissionSpec => [](SubmissionTypeOK /\ SubmissionInv)
<1>1. SubmissionInit => SubmissionTypeOK /\ SubmissionInv
  BY SubmissionTypeInit, SubmissionInvInit
<1>2. (SubmissionTypeOK /\ SubmissionInv) /\ [ApiNext]_submissionVars
        => (SubmissionTypeOK /\ SubmissionInv)'
  BY SubmissionInductive
<1> QED
  BY <1>1, <1>2, PTL DEF SubmissionSpec

\* Types of the tables and of the requests.
THEOREM SubmissionTypeCorrect == SubmissionSpec => []SubmissionTypeOK
  BY SubmissionInvariance, PTL

\* A client that is answered ok is the one whose score and answers are stored,
\* for any number of concurrent submissions of the attempt.
THEOREM OkMeansStoredAlways == SubmissionSpec => []OkMeansStored
<1>1. SubmissionTypeOK /\ SubmissionInv => OkMeansStored
  BY OkIsStored
<1> QED
  BY <1>1, SubmissionInvariance, PTL

\* No step changes the result or the answers of a submitted attempt.
THEOREM ResultsNeverChangeAlways == SubmissionSpec => ResultsNeverChange
<1> DEFINE Kept ==
      \A a \in Attempts : attempts[a].submitted_at =>
        attempts'[a] = attempts[a] /\ AnswersOf(a)' = AnswersOf(a)
<1>1. SubmissionTypeOK /\ SubmissionInv /\ [ApiNext]_submissionVars
        => [Kept]_submissionVars
  BY ResultsKept, StepIsQuietOrCommit DEF SubmissionTypeOK
<1> QED
  BY <1>1, SubmissionInvariance, PTL DEF SubmissionSpec, ResultsNeverChange

\* A submission is stored whole, with an answer to each question and one
\* notification, or not at all.
THEOREM SubmissionIsWholeAlways == SubmissionSpec => []SubmissionIsWhole
<1>1. SubmissionTypeOK /\ SubmissionInv => SubmissionIsWhole
  BY StoredWhole
<1> QED
  BY <1>1, SubmissionInvariance, PTL

=============================================================================
