---------------------------- MODULE ContractProofs ----------------------------
(***************************************************************************)
(* QuizApp implements AttemptContract, for any number of requests and      *)
(* attempts, any payloads and any max_tries: every step of the API and of  *)
(* the worker is a step of the contract or leaves what it shows alone.     *)
(***************************************************************************)
EXTENDS QuizAppProofs

-----------------------------------------------------------------------------
(* Answers arrays and sheets.                                              *)

\* The checks of submit_attempt accept what the contract calls complete.
LEMMA ValidIsComplete ==
  ASSUME ApiTypeOK, NEW r \in Requests
  PROVE  ValidSubmission(QuestionsOf[Target(r)], req[r].answers)
           <=> Contract!CompleteSheet(r)
<1> DEFINE given == req[r].answers
           questions == QuestionsOf[Target(r)]
<1>1. ASSUME ValidSubmission(questions, given) PROVE Contract!CompleteSheet(r)
  <2>1. /\ \A i \in DOMAIN given : given[i].question \in questions
        /\ \A q \in questions : \E i \in DOMAIN given : given[i].question = q
    BY <1>1 DEF ValidSubmission
  <2> QED
    BY <1>1, <2>1 DEF ValidSubmission, Contract!CompleteSheet, Target
<1>2. ASSUME Contract!CompleteSheet(r) PROVE ValidSubmission(questions, given)
  <2>1. /\ \A q \in questions : \E i \in DOMAIN given :
             /\ given[i].question = q /\ given[i].option \in OptionsOf[q]
             /\ \A j \in DOMAIN given : given[j].question = q => j = i
        /\ \A i \in DOMAIN given : given[i].question \in questions
    BY <1>2 DEF Contract!CompleteSheet, Target
  <2>2. \A i, j \in DOMAIN given : given[i].question = given[j].question => i = j
    BY <2>1
  <2>3. {given[i].question : i \in DOMAIN given} = questions
    BY <2>1
  <2>4. \A i \in DOMAIN given : given[i].option \in OptionsOf[given[i].question]
    BY <2>1
  <2> QED
    BY <2>2, <2>3, <2>4 DEF ValidSubmission
<1> QED
  BY <1>1, <1>2

LEMMA RowsMakeSheet ==
  ASSUME ApiTypeOK, NEW r \in Requests
  PROVE  /\ {[question |-> row.question, option |-> row.option] : row \in AnswerRows(r)}
              = Contract!Answers(r)
         /\ Contract!Answers(r) # {}
<1> DEFINE given == req[r].answers
           rowAt(i) == [by |-> r, attempt |-> Target(r),
                        question |-> given[i].question, option |-> given[i].option]
           sheet == {[question |-> row.question, option |-> row.option] :
                       row \in AnswerRows(r)}
<1>1. AnswerRows(r) = {rowAt(i) : i \in DOMAIN given}
  BY DEF AnswerRows
<1>2. \A i \in DOMAIN given :
        given[i] = [question |-> rowAt(i).question, option |-> rowAt(i).option]
  BY PayloadType
<1>3. ASSUME NEW s \in sheet PROVE s \in Contract!Answers(r)
  <2>1. PICK i \in DOMAIN given :
          s = [question |-> rowAt(i).question, option |-> rowAt(i).option]
    BY <1>1
  <2> QED
    BY <1>2, <2>1 DEF Contract!Answers
<1>4. ASSUME NEW i \in DOMAIN given PROVE given[i] \in sheet
  <2>1. rowAt(i) \in AnswerRows(r)
    BY <1>1
  <2> HIDE DEF rowAt
  <2> QED
    BY <1>2, <2>1
<1>5. sheet = Contract!Answers(r)
  BY <1>3, <1>4 DEF Contract!Answers
<1> QED
  BY <1>4, <1>5, PayloadType

LEMMA SheetOfRows ==
  ASSUME ApiTypeOK, NEW r \in Requests, NEW a, AnswersOf(a) = AnswerRows(r)
  PROVE  SheetOf(a) = Contract!Answers(r) /\ SheetOf(a) # {}
  BY RowsMakeSheet DEF SheetOf

\* The score of a submission is the number of right answers on its sheet.
LEMMA ScoreCountsRightAnswers ==
  ASSUME ApiTypeOK, NEW r \in Requests, Target(r) \in Attempts,
         ValidSubmission(QuestionsOf[Target(r)], req[r].answers),
         SheetOf(Target(r)) = Contract!Answers(r)
  PROVE  Cardinality(Contract!RightAnswers(Target(r))) = Score(req[r].answers)
<1> DEFINE given == req[r].answers
           right == {i \in DOMAIN given : given[i].option = CorrectOf[given[i].question]}
           rightOnes == {s \in {given[i] : i \in DOMAIN given} :
                           s.option = CorrectOf[s.question]}
           answerAt == [i \in right |-> given[i]]
<1>1. Contract!RightAnswers(Target(r)) = rightOnes
  BY DEF Contract!RightAnswers, Sheets, Contract!Answers
<1>2. Score(given) = Cardinality(right)
  BY DEF Score
<1>3. IsFiniteSet(right)
  BY PayloadType, FS_Subset
<1>4. \A i, j \in right : given[i] = given[j] => i = j
  BY DEF ValidSubmission
<1>5. answerAt \in Bijection(right, rightOnes)
  BY <1>4 DEF Bijection, Injection, Surjection, IsInjective
<1> HIDE DEF right, rightOnes, answerAt
<1>6. Cardinality(rightOnes) = Cardinality(right)
  BY <1>3, <1>5, FS_Bijection DEF ExistsBijection
<1> QED
  BY <1>1, <1>2, <1>6

-----------------------------------------------------------------------------
(* What the contract sees of a step.                                       *)

LEMMA RepliedByAnswer ==
  ASSUME ApiTypeOK, NEW r \in Requests, NEW reply, Answer(r, reply),
         stage[r] \notin Replies
  PROVE  /\ Replied[r] = "none"
         /\ reply \notin Replies => Replied' = Replied
         /\ reply \in Replies => Replied' = [Replied EXCEPT ![r] = reply]
  BY DEF ApiTypeOK, Answer, Replied, Replies, DomainErrors

LEMMA RepliedIsKept == ASSUME stage' = stage PROVE Replied' = Replied
  BY DEF Replied

LEMMA SheetsAreKept == ASSUME answers' = answers PROVE Sheets' = Sheets
  BY DEF Sheets, SheetOf, AnswersOf

LEMMA ToldIsKept == ASSUME mails' = mails PROVE Told' = Told
  BY DEF Told

\* An attempt has a sheet once it has a notification, and none before.
LEMMA SheetWithNotification ==
  ASSUME Inv, NEW a \in Attempts
  PROVE  Sheets[a] = {} <=> NotificationsOf(a) = {}
<1>1. ApiTypeOK /\ SubmissionInv /\ DOMAIN notifications \subseteq Requests
  BY DEF Inv, TypeOK, StorageTypeOK
<1>2. CASE NotificationsOf(a) = {}
  <2>1. AnswersOf(a) = {}
    BY <1>1, <1>2 DEF SubmissionInv, NoRowsWithoutSubmission
  <2> QED
    BY <1>2, <2>1 DEF Sheets, SheetOf
<1>3. CASE NotificationsOf(a) # {}
  <2>1. PICK n \in DOMAIN notifications : notifications[n].attempt = a
    BY <1>3 DEF NotificationsOf
  <2>2. AnswersOf(a) = AnswerRows(n)
    BY <1>1, <2>1 DEF SubmissionInv, RowsOfSubmission
  <2> QED
    BY <1>1, <1>3, <2>2, SheetOfRows DEF Sheets
<1> QED
  BY <1>2, <1>3

-----------------------------------------------------------------------------
(* The API's steps.                                                        *)

LEMMA RefusalIsRefuse ==
  ASSUME Inv, NEW r \in Requests, UNCHANGED workerVars,
         AttemptNotFound(r) \/ AlreadySubmitted(r) \/ InvalidSubmission(r)
  PROVE  Contract!Refuse(r)
<1>1. ApiTypeOK /\ SubmissionInv
  BY DEF Inv, TypeOK
<1>2. PICK code \in DomainErrors : Answer(r, code) /\ Contract!Reason(r, code)
  <2>1. CASE AttemptNotFound(r)
    BY <2>1 DEF AttemptNotFound, DomainErrors, Contract!Reason, Target
  <2>2. CASE AlreadySubmitted(r)
    <3>1. /\ Target(r) \in Attempts /\ attempts[Target(r)].submitted_at
          /\ Answer(r, "attempt_already_submitted")
      BY <2>2 DEF AlreadySubmitted
    <3>2. NotificationsOf(Target(r)) # {}
      BY <1>1, <3>1 DEF SubmissionInv, NoRowsWithoutSubmission, Unsubmitted
    <3>3. Sheets[Target(r)] # {}
      BY <3>1, <3>2, SheetWithNotification
    <3> QED
      BY <3>1, <3>3 DEF DomainErrors, Contract!Reason, Target
  <2>3. CASE InvalidSubmission(r)
    BY <1>1, <2>3, ValidIsComplete DEF InvalidSubmission, DomainErrors, Contract!Reason, Target
  <2> QED
    BY <2>1, <2>2, <2>3
<1>3. stage[r] = "idle" /\ StorageUnchanged /\ req' = req
  BY DEF AttemptNotFound, AlreadySubmitted, InvalidSubmission
<1>4. Replied[r] = "none" /\ Replied' = [Replied EXCEPT ![r] = code]
  BY <1>1, <1>2, <1>3, RepliedByAnswer DEF Replies, DomainErrors
<1>5. Sheets' = Sheets /\ Told' = Told
  BY <1>3, SheetsAreKept, ToldIsKept DEF StorageUnchanged, workerVars
<1> QED
  BY <1>2, <1>3, <1>4, <1>5 DEF Contract!Refuse, DomainErrors

LEMMA FailureIsFail ==
  ASSUME Inv, NEW r \in Requests, UNCHANGED workerVars,
         FlushConflict(r) \/ TransactionFails(r)
  PROVE  Contract!Fail({r})
<1>1. /\ Answer(r, "server_error") /\ stage[r] \notin Replies
      /\ StorageUnchanged /\ req' = req
  BY DEF FlushConflict, TransactionFails, InTransaction, Replies, DomainErrors
<1>2. /\ Replied[r] = "none"
      /\ Replied' = [Replied EXCEPT ![r] = "server_error"]
  BY <1>1, RepliedByAnswer DEF Inv, TypeOK, Replies
<1>3. Sheets' = Sheets /\ Told' = Told
  BY <1>1, SheetsAreKept, ToldIsKept DEF StorageUnchanged, workerVars
<1>4. Replied' = [s \in DOMAIN Replied |->
                    IF s \in {r} THEN "server_error" ELSE Replied[s]]
  BY <1>2
<1> QED
  BY <1>1, <1>2, <1>3, <1>4 DEF Contract!Fail

LEMMA RestartIsFail ==
  ASSUME RestartApi, UNCHANGED workerVars
  PROVE  \E rs \in SUBSET Requests : Contract!Fail(rs)
<1> DEFINE rs == {r \in Requests : stage[r] \in {"validated"} \cup InTransaction}
<1>1. \A r \in rs : Replied[r] = "none"
  BY DEF Replied, Replies, DomainErrors, InTransaction
<1>2. Replied' = [r \in DOMAIN Replied |-> IF r \in rs THEN "lost" ELSE Replied[r]]
  BY DEF RestartApi, Replied, Replies, DomainErrors, InTransaction
<1>3. Sheets' = Sheets /\ Told' = Told /\ req' = req
  BY SheetsAreKept, ToldIsKept DEF RestartApi, StorageUnchanged, workerVars
<1>4. Contract!Fail(rs)
  BY <1>1, <1>2, <1>3 DEF Contract!Fail
<1> QED
  BY <1>4

\* From the SELECT to the call of the broker the contract sees nothing.
LEMMA ProgressIsStutter ==
  ASSUME Inv, NEW r \in Requests, UNCHANGED workerVars,
         Validate(r) \/ Flush(r) \/ SkipEnqueue(r) \/ EnqueueJob(r) \/ EnqueueFails(r)
  PROVE  UNCHANGED Contract!vars
<1>1. PICK next \in Stages \ Replies : Answer(r, next)
  BY DEF Validate, Flush, SkipEnqueue, EnqueueJob, EnqueueFails, Stages,
    InTransaction, Replies, DomainErrors
<1>2. stage[r] \notin Replies /\ answers' = answers /\ req' = req
  BY DEF Validate, Flush, SkipEnqueue, EnqueueJob, EnqueueFails, StorageUnchanged,
    Replies, DomainErrors
<1>3. Replied' = Replied
  BY <1>1, <1>2, RepliedByAnswer DEF Inv, TypeOK
<1>4. Sheets' = Sheets /\ Told' = Told
  BY <1>2, SheetsAreKept, ToldIsKept DEF workerVars
<1> QED
  BY <1>2, <1>3, <1>4 DEF Contract!vars

\* COMMIT is the moment the sheet is taken.
LEMMA CommitIsTake ==
  ASSUME Inv, NEW r \in Requests, CommitStep(r), UNCHANGED workerVars
  PROVE  Contract!Take(r)
<1>1. ApiTypeOK /\ SubmissionInv
  BY DEF Inv, TypeOK
<1> PICK a \in Attempts : a = Target(r)
  BY <1>1 DEF CommitStep, InTransaction, SubmissionInv, AcceptedIsValid
<1>2. /\ stage[r] \in InTransaction /\ stage[r] \notin Replies
      /\ ValidSubmission(QuestionsOf[a], req[r].answers)
      /\ NotificationsOf(a) = {}
      /\ Apply(r) /\ req' = req
  BY <1>1 DEF CommitStep, InTransaction, SubmissionInv, AcceptedIsValid,
    TransactionsExclude, Replies, DomainErrors
<1>3. PICK reply \in {"ok", "server_error", "lost"} : Answer(r, reply)
  BY DEF CommitStep
<1>4. Replied[r] = "none" /\ Replied' = [Replied EXCEPT ![r] = reply]
  BY <1>1, <1>2, <1>3, RepliedByAnswer DEF Replies
<1>5. Sheets[a] = {}
  BY <1>2, SheetWithNotification
<1>6. Contract!CompleteSheet(r)
  BY <1>1, <1>2, ValidIsComplete
<1>7. Sheets' = [Sheets EXCEPT ![a] = Contract!Answers(r)]
  <2>1. AnswersOf(a) = {} /\ answers' = answers \cup AnswerRows(r)
    BY <1>1, <1>2 DEF SubmissionInv, NoRowsWithoutSubmission, Apply
  <2>2. ASSUME NEW row \in AnswerRows(r) PROVE row.attempt = a
    BY DEF AnswerRows
  <2>3. AnswersOf(a)' = AnswerRows(r)
    BY <2>1, <2>2 DEF AnswersOf
  <2>4. \A b \in Attempts \ {a} : AnswersOf(b)' = AnswersOf(b)
    BY <2>1, <2>2 DEF AnswersOf
  <2>5. SheetOf(a)' = Contract!Answers(r)
    BY <1>1, <2>3, RowsMakeSheet DEF SheetOf
  <2>6. \A b \in Attempts \ {a} : SheetOf(b)' = SheetOf(b)
    BY <2>4 DEF SheetOf
  <2> QED
    BY <1>2, <2>5, <2>6 DEF Sheets
<1>8. Told' = Told
  BY ToldIsKept DEF workerVars
<1> QED
  BY <1>2, <1>3, <1>4, <1>5, <1>6, <1>7, <1>8 DEF Contract!Take, Target

LEMMA ApiImplements ==
  ASSUME Inv, ApiNext, UNCHANGED workerVars
  PROVE  Contract!Next \/ UNCHANGED Contract!vars
<1>1. ASSUME NEW r \in Requests, CommitStep(r) PROVE Contract!Next
  BY <1>1, CommitIsTake DEF Contract!Next
<1>2. ASSUME NEW r \in Requests, FlushConflict(r) \/ TransactionFails(r)
      PROVE  Contract!Next
  BY <1>2, FailureIsFail DEF Contract!Next
<1>3. ASSUME NEW r \in Requests, ApiStep(r)
      PROVE  Contract!Next \/ UNCHANGED Contract!vars
  <2>1. CASE AttemptNotFound(r) \/ AlreadySubmitted(r) \/ InvalidSubmission(r)
    BY <2>1, RefusalIsRefuse DEF Contract!Next
  <2>2. CASE Validate(r) \/ Flush(r) \/ SkipEnqueue(r) \/ EnqueueJob(r) \/ EnqueueFails(r)
    BY <2>2, ProgressIsStutter
  <2>3. CASE FlushConflict(r)
    BY <2>3, <1>2
  <2>4. CASE Commit(r)
    BY <2>4, <1>1 DEF Commit, CommitStep
  <2> QED
    BY <1>3, <2>1, <2>2, <2>3, <2>4 DEF ApiStep, Proceed
<1>4. ASSUME ApiFault PROVE Contract!Next
  <2>1. ASSUME NEW r \in Requests, CommitUnacknowledged(r) PROVE Contract!Next
    BY <2>1, <1>1 DEF CommitUnacknowledged, CommitStep
  <2> QED
    BY <1>2, <1>4, <2>1, RestartIsFail DEF ApiFault, Contract!Next
<1> QED
  BY <1>3, <1>4 DEF ApiNext

-----------------------------------------------------------------------------
(* The worker's steps.                                                     *)

\* The mail of a run tells the score of the sheet its attempt has taken.
LEMMA SendIsTell ==
  ASSUME Inv, NEW n \in Requests, SendSucceeds(n), UNCHANGED apiVars
  PROVE  \E a \in Attempts : Contract!Tell(a)
<1>1. /\ ApiTypeOK /\ SubmissionInv /\ LoadedIsCurrent(n)
      /\ DOMAIN notifications \subseteq Requests
  BY DEF Inv, TypeOK, StorageTypeOK, WorkerInv
<1>2. /\ n \in DOMAIN notifications
      /\ loaded[n] = SnapshotOf(n)
      /\ mails' = mails \cup {MailOf(n)}
      /\ answers' = answers /\ stage' = stage /\ req' = req
  BY <1>1 DEF SendSucceeds, RunAt, LoadedIsCurrent, TablesUnchanged, apiVars
<1> PICK a \in Attempts : a = Target(n)
  BY <1>1, <1>2 DEF SubmissionInv, RowsOfSubmission
<1>3. /\ notifications[n].attempt = a
      /\ attempts[a] = Result(n)
      /\ ValidSubmission(QuestionsOf[a], req[n].answers)
      /\ AnswersOf(a) = AnswerRows(n)
  BY <1>1, <1>2 DEF SubmissionInv, RowsOfSubmission
<1>4. SheetOf(a) = Contract!Answers(n) /\ Sheets[a] # {}
  BY <1>1, <1>3, SheetOfRows DEF Sheets
<1>5. Cardinality(Contract!RightAnswers(a)) = Score(req[n].answers)
  BY <1>1, <1>3, <1>4, ScoreCountsRightAnswers
<1>6. MailOf(n).attempt = a /\ MailOf(n).score = Score(req[n].answers)
  <2>1. attempts[a].submitted_at /\ attempts[a].score = Score(req[n].answers)
    BY <1>3 DEF Result
  <2> QED
    BY <1>2, <1>3, <2>1 DEF MailOf, SnapshotOf
<1>7. Told' = Told \cup {[attempt |-> a, score |-> Score(req[n].answers)]}
  <2>1. Told' = Told \cup {[attempt |-> MailOf(n).attempt, score |-> MailOf(n).score]}
    <3>1. PICK mail : mail = MailOf(n)
      OBVIOUS
    <3>2. mails' = mails \cup {mail}
      BY <1>2, <3>1
    <3> DEFINE tells(m) == [attempt |-> m.attempt, score |-> m.score]
    <3>3. Told = {tells(m) : m \in mails} /\ Told' = {tells(m) : m \in mails'}
      BY DEF Told
    <3> HIDE DEF tells
    <3>4. Told' = Told \cup {tells(mail)}
      BY <3>2, <3>3
    <3> QED
      BY <3>1, <3>4 DEF tells
  <2> QED
    BY <1>6, <2>1
<1>8. Replied' = Replied /\ Sheets' = Sheets
  BY <1>2, RepliedIsKept, SheetsAreKept
<1>9. Contract!Tell(a)
  <2>1. Told' = Told \cup {[attempt |-> a,
                            score |-> Cardinality(Contract!RightAnswers(a))]}
    BY <1>5, <1>7
  <2> QED
    BY <1>2, <1>4, <1>8, <2>1 DEF Contract!Tell, Contract!Cardinality, Cardinality
<1> QED
  BY <1>9

LEMMA WorkerImplements ==
  ASSUME Inv, WorkerNext, UNCHANGED apiVars
  PROVE  Contract!Next \/ UNCHANGED Contract!vars
<1> PICK n \in Requests : RunStep(n)
  BY WorkerStepIsRunStep
<1>1. CASE SendSucceeds(n)
  BY <1>1, SendIsTell DEF Contract!Next
<1>2. CASE mails' = mails
  <2>1. answers' = answers
    BY RunStepRewritesRows DEF Inv, TypeOK, RowsRewritten
  <2>2. Replied' = Replied /\ Sheets' = Sheets /\ Told' = Told /\ req' = req
    BY <1>2, <2>1, RepliedIsKept, SheetsAreKept, ToldIsKept DEF apiVars
  <2> QED
    BY <2>2 DEF Contract!vars
<1> QED
  BY <1>1, <1>2 DEF RunStep, JobStep, StartJob, DropJob, NotificationNotFound,
    LoadNotification, SendFails, MarkSent, MarkFailure, FinishReturned, FinishRaised,
    RunBreaks, CutRun

-----------------------------------------------------------------------------
LEMMA InitImplements == Init => Contract!Init
<1> SUFFICES ASSUME Init PROVE Contract!Init
  OBVIOUS
<1>1. DOMAIN req = Requests
  BY DEF Init, ApiInit
<1>2. Replied = [r \in DOMAIN req |-> "none"]
  BY <1>1 DEF Init, ApiInit, Replied, Replies, DomainErrors
<1>3. Sheets = [a \in Attempts |-> {}] /\ Told = {}
  BY DEF Init, StorageInit, WorkerInit, Sheets, SheetOf, AnswersOf, Told
<1> QED
  BY <1>2, <1>3 DEF Contract!Init

\* The deployment implements the contract: of any number of concurrent, failing
\* or repeated submissions an attempt takes one sheet, ok is answered to the
\* request it came from, and mails tell its score.
THEOREM ContractIsKept == Spec => ContractKept
<1>1. Inv /\ [Next]_vars => [Contract!Next]_(Contract!vars)
  <2> SUFFICES ASSUME Inv, [Next]_vars
               PROVE  Contract!Next \/ UNCHANGED Contract!vars
    OBVIOUS
  <2>1. CASE UNCHANGED vars
    <3>1. Replied' = Replied /\ Sheets' = Sheets /\ Told' = Told /\ req' = req
      BY <2>1, RepliedIsKept, SheetsAreKept, ToldIsKept
        DEF vars, storage, apiVars, workerVars
    <3> QED
      BY <3>1 DEF Contract!vars
  <2> QED
    BY <2>1, ApiImplements, WorkerImplements DEF Next
<1> QED
  BY <1>1, InitImplements, QuizAppInvariance, PTL DEF Spec, ContractKept, Contract!Spec

=============================================================================
