---------------------------- MODULE QuizAppProofs ----------------------------
(***************************************************************************)
(* QuizApp, for any number of requests, any payloads and any max_tries: the *)
(* submission's invariant survives the worker, and with WorkerInv it gives *)
(* what the properties say of mails and of notification rows.              *)
(***************************************************************************)
EXTENDS QuizApp, AttemptSubmissionProofs

-----------------------------------------------------------------------------
(* What the worker does to the rows.                                       *)

\* The loaded row and the mail made of it are of the right type.
LEMMA SnapshotType ==
  ASSUME StorageTypeOK, NEW n \in DOMAIN notifications
  PROVE  SnapshotOf(n) \in Snapshot
<1>1. /\ notifications[n] \in NotificationRow
      /\ attempts \in [Attempts -> AttemptRow]
  BY DEF StorageTypeOK
<1> QED
  BY <1>1 DEF SnapshotOf, Snapshot, NotificationRow, AttemptRow

LEMMA MailType ==
  ASSUME NEW n \in Requests, loaded[n] \in Snapshot, tries[n] \in 1..MaxTries
  PROVE  MailOf(n) \in Mail
<1>1. feedback_for_percentage(loaded[n].percentage) \in Feedback
  BY DEF feedback_for_percentage, Feedback
<1> QED
  BY <1>1 DEF MailOf, Mail, Snapshot

\* A step of the job n.
RunStep(n) == JobStep(n) \/ RunBreaks(n) \/ CutRun(n)

LEMMA WorkerStepIsRunStep ==
  ASSUME WorkerNext
  PROVE  \E n \in Requests : RunStep(n)
  BY DEF WorkerNext, WorkerFault, RunStep

\* It leaves attempts and answers alone, inserts and deletes no notification,
\* points none to another attempt, and adds no job.
RowsRewritten(n) ==
  /\ attempts' = attempts
  /\ answers' = answers
  /\ jobs' \in {jobs, jobs \ {n}}
  /\ DOMAIN notifications' = DOMAIN notifications
  /\ \A k \in DOMAIN notifications :
       /\ notifications'[k].attempt = notifications[k].attempt
       /\ k # n => notifications'[k] = notifications[k]

LEMMA RunStepRewritesRows ==
  ASSUME StorageTypeOK, NEW n \in Requests, RunStep(n)
  PROVE  RowsRewritten(n)
<1> USE DEF RowsRewritten, TablesUnchanged, StorageTypeOK
<1>1. CASE MarkSent(n)
  BY <1>1 DEF MarkSent, NotificationRow
<1>2. CASE MarkFailure(n)
  BY <1>2 DEF MarkFailure, NotificationRow
<1>3. CASE UNCHANGED <<attempts, answers, notifications>> /\ jobs' \in {jobs, jobs \ {n}}
  BY <1>3
<1>4. \/ MarkSent(n) \/ MarkFailure(n)
      \/ UNCHANGED <<attempts, answers, notifications>> /\ jobs' \in {jobs, jobs \ {n}}
  BY DEF RunStep, JobStep, StartJob, DropJob, NotificationNotFound, LoadNotification,
    SendSucceeds, SendFails, FinishReturned, FinishRaised, RunBreaks, CutRun, Forget
<1> QED
  BY <1>1, <1>2, <1>3, <1>4

\* The submission's invariant says nothing that the worker writes.
LEMMA RunStepKeepsSubmissionInv ==
  ASSUME SubmissionInv, StorageTypeOK, UNCHANGED apiVars,
         NEW n \in Requests, RowsRewritten(n)
  PROVE  SubmissionInv'
<1>1. /\ req' = req /\ stage' = stage
      /\ attempts' = attempts /\ answers' = answers
      /\ DOMAIN notifications' = DOMAIN notifications
      /\ \A k \in DOMAIN notifications :
           notifications'[k].attempt = notifications[k].attempt
  BY DEF RowsRewritten, apiVars
<1>2. \A r \in Requests : /\ Target(r)' = Target(r)
                          /\ Result(r)' = Result(r)
                          /\ AnswerRows(r)' = AnswerRows(r)
  BY <1>1, RequestsAreFixed
<1>3. \A a : NotificationsOf(a)' = NotificationsOf(a) /\ AnswersOf(a)' = AnswersOf(a)
  BY <1>1 DEF NotificationsOf, AnswersOf
<1>4. AcceptedIsValid'
  BY <1>1, <1>2 DEF SubmissionInv, AcceptedIsValid, ValidSubmission
<1>5. TransactionsExclude'
  BY <1>1, <1>2, <1>3 DEF SubmissionInv, TransactionsExclude
<1>6. RowsOfSubmission'
  <2>1. \A k \in DOMAIN notifications : k \in Requests
    BY DEF StorageTypeOK
  <2> QED
    BY <1>1, <1>2, <1>3, <2>1 DEF SubmissionInv, RowsOfSubmission, ValidSubmission
<1>7. NoRowsWithoutSubmission'
  BY <1>1, <1>3 DEF SubmissionInv, NoRowsWithoutSubmission
<1>8. OkIsCommitted'
  BY <1>1 DEF SubmissionInv, OkIsCommitted
<1> QED
  BY <1>4, <1>5, <1>6, <1>7, <1>8 DEF SubmissionInv


-----------------------------------------------------------------------------
(* The worker's part of the invariant, job by job.                         *)

RowInv(n) ==
  /\ notifications[n].status = "sent" \/ notifications[n].sent_at
       => notifications[n].sent_at /\ MailsOf(n) # {}
  /\ notifications[n].status = "failed" =>
       /\ notifications[n].retry_count > 0
       /\ n \in jobs => tries[n] = MaxTries /\ run[n] \in {"raised", "idle"}
  /\ run[n] = "raised" /\ tries[n] = MaxTries => notifications[n].status = "failed"

JobInv(n) ==
  /\ RunHasJob(n) /\ LoadedIsCurrent(n) /\ DeliveredIsMailed(n)
  /\ RaisedIsRecorded(n) /\ SentIsRunAgain(n) /\ TriesPay(n)
  /\ n \in DOMAIN notifications => RowInv(n)

LEMMA WorkerInvByJob ==
  ASSUME DOMAIN notifications \subseteq Requests
  PROVE  WorkerInv <=> /\ IsFiniteSet(mails)
                       /\ MailsMatchResult
                       /\ \A n \in Requests : JobInv(n)
  BY DEF WorkerInv, JobInv, RowInv, SentMeansMailed, FailedIsFinal

\* A job stays as it is when nobody touches it, its row or its attempt.
LEMMA JobUntouched ==
  ASSUME NEW k, JobInv(k),
         run'[k] = run[k], tries'[k] = tries[k], loaded'[k] = loaded[k],
         MailsOf(k)' = MailsOf(k), k \in jobs' <=> k \in jobs,
         k \in DOMAIN notifications' <=> k \in DOMAIN notifications,
         k \in DOMAIN notifications => notifications'[k] = notifications[k]
                                       /\ SnapshotOf(k)' = SnapshotOf(k)
  PROVE  JobInv(k)'
  BY DEF JobInv, RowInv, RunHasJob, LoadedIsCurrent, DeliveredIsMailed,
    RaisedIsRecorded, SentIsRunAgain, TriesPay

\* What a step of the job n leaves alone of the worker's state.
OthersKept(n) ==
  \A k \in Requests \ {n} :
    /\ run'[k] = run[k] /\ tries'[k] = tries[k] /\ loaded'[k] = loaded[k]
    /\ MailsOf(k)' = MailsOf(k)

LEMMA RunStepKeepsOthers ==
  ASSUME WorkerTypeOK, NEW n \in Requests, RunStep(n)
  PROVE  OthersKept(n)
<1> SUFFICES ASSUME NEW k \in Requests \ {n}
             PROVE  /\ run'[k] = run[k] /\ tries'[k] = tries[k]
                    /\ loaded'[k] = loaded[k]
                    /\ MailsOf(k)' = MailsOf(k)
  BY DEF OthersKept
<1> USE DEF WorkerTypeOK, RunAt
<1>1. CASE SendSucceeds(n)
  <2>1. MailOf(n).notification = n
    BY DEF MailOf
  <2> QED
    BY <1>1, <2>1 DEF SendSucceeds, MailsOf
<1>2. CASE mails' = mails
  <2>1. MailsOf(k)' = MailsOf(k)
    BY <1>2 DEF MailsOf
  <2> QED
    BY <2>1 DEF RunStep, JobStep, StartJob, DropJob, NotificationNotFound,
      LoadNotification, SendSucceeds, SendFails, MarkSent, MarkFailure,
      FinishReturned, FinishRaised, RunBreaks, CutRun, Forget
<1>3. SendSucceeds(n) \/ mails' = mails
  BY DEF RunStep, JobStep, StartJob, DropJob, NotificationNotFound,
    LoadNotification, SendFails, MarkSent, MarkFailure, FinishReturned,
    FinishRaised, RunBreaks, CutRun
<1> QED
  BY <1>1, <1>2, <1>3

-----------------------------------------------------------------------------
(* The job's own steps.                                                    *)

LEMMA MailCount ==
  ASSUME IsFiniteSet(mails), NEW n
  PROVE  IsFiniteSet(MailsOf(n)) /\ Cardinality(MailsOf(n)) \in Nat
<1>1. IsFiniteSet(MailsOf(n))
  BY FS_Subset DEF MailsOf
<1> QED
  BY <1>1, FS_CardinalityType

\* One run adds at most one mail.
LEMMA OneMailMore ==
  ASSUME IsFiniteSet(mails), NEW n, mails' = mails \cup {MailOf(n)}
  PROVE  /\ MailsOf(n)' # {}
         /\ Cardinality(MailsOf(n)') \in Nat
         /\ Cardinality(MailsOf(n)') <= Cardinality(MailsOf(n)) + 1
<1>1. MailsOf(n)' = MailsOf(n) \cup {MailOf(n)}
  <2>1. MailOf(n).notification = n
    BY DEF MailOf
  <2> QED
    BY <2>1 DEF MailsOf
<1>2. IsFiniteSet(MailsOf(n)) /\ Cardinality(MailsOf(n)) \in Nat
  BY MailCount
<1>3. Cardinality(MailsOf(n) \cup {MailOf(n)})
        \in {Cardinality(MailsOf(n)), Cardinality(MailsOf(n)) + 1}
  BY <1>2, FS_AddElement
<1> QED
  BY <1>1, <1>2, <1>3

\* What a step of the job n does to it, its row and its mails.
JobKept(n) == (n \in jobs' <=> n \in jobs) /\ tries'[n] = tries[n]
JobGone(n) == n \notin jobs' /\ tries'[n] = 0
MailsKept(n) == MailsOf(n)' = MailsOf(n)
RowKept(n) ==
  /\ n \in DOMAIN notifications' <=> n \in DOMAIN notifications
  /\ n \in DOMAIN notifications => notifications'[n] = notifications[n]
                                   /\ SnapshotOf(n)' = SnapshotOf(n)

Begins(n) ==
  /\ RowKept(n) /\ MailsKept(n)
  /\ run[n] = "idle" /\ run'[n] = "started"
  /\ n \in jobs /\ n \in jobs'
  /\ tries[n] < MaxTries /\ tries'[n] = tries[n] + 1
Ends(n) ==
  /\ RowKept(n) /\ MailsKept(n)
  /\ run'[n] = "idle"
  /\ \/ run[n] = "idle" /\ n \in jobs /\ JobGone(n)
     \/ run[n] # "idle" /\ (JobKept(n) \/ JobGone(n))
Breaks(n) ==
  /\ RowKept(n) /\ MailsKept(n) /\ JobKept(n)
  /\ run[n] \in {"started", "loaded", "delivered", "undelivered"} /\ run'[n] = "broken"
Loads(n) ==
  /\ RowKept(n) /\ MailsKept(n) /\ JobKept(n)
  /\ run[n] = "started"
  /\ IF n \in DOMAIN notifications
     THEN run'[n] = "loaded" /\ loaded'[n] = SnapshotOf(n)
     ELSE run'[n] = "returned"
Sends(n) ==
  /\ RowKept(n) /\ JobKept(n)
  /\ run[n] = "loaded" /\ loaded'[n] = loaded[n]
  /\ \/ run'[n] = "undelivered" /\ MailsKept(n)
     \/ run'[n] = "delivered" /\ mails' = mails \cup {MailOf(n)}
Records(n) ==
  /\ JobKept(n) /\ MailsKept(n)
  /\ n \in DOMAIN notifications /\ n \in DOMAIN notifications'
  /\ \/ /\ run[n] = "delivered" /\ run'[n] = "returned"
        /\ notifications'[n].status = "sent"
        /\ notifications'[n].sent_at
        /\ notifications'[n].retry_count = notifications[n].retry_count
        /\ notifications'[n].last_error = notifications[n].last_error
     \/ /\ run[n] = "undelivered" /\ run'[n] = "raised"
        /\ notifications'[n].status =
             IF LastTry(n) THEN "failed" ELSE notifications[n].status
        /\ notifications'[n].sent_at = notifications[n].sent_at
        /\ notifications'[n].retry_count = notifications[n].retry_count + 1
        /\ notifications'[n].last_error

LEMMA RunStepMoves ==
  ASSUME TypeOK, NEW n \in Requests, LoadedIsCurrent(n), RunStep(n)
  PROVE  Begins(n) \/ Ends(n) \/ Breaks(n) \/ Loads(n) \/ Sends(n) \/ Records(n)
<1>1. DOMAIN run = Requests /\ DOMAIN tries = Requests /\ DOMAIN loaded = Requests
  BY DEF TypeOK, WorkerTypeOK
<1>2. ASSUME TablesUnchanged PROVE RowKept(n)
  BY <1>2 DEF TablesUnchanged, RowKept, SnapshotOf
<1>3. ASSUME mails' = mails PROVE MailsKept(n)
  BY <1>3 DEF MailsKept, MailsOf
<1> USE <1>1, <1>2, <1>3 DEF RunAt, JobKept, JobGone
<1>4. ASSUME StartJob(n) PROVE Begins(n)
  BY <1>4 DEF StartJob, Begins
<1>5. ASSUME DropJob(n) \/ FinishReturned(n) \/ FinishRaised(n) \/ CutRun(n)
      PROVE  Ends(n)
  BY <1>5 DEF DropJob, FinishReturned, FinishRaised, CutRun, Forget, Ends
<1>6. ASSUME RunBreaks(n) PROVE Breaks(n)
  BY <1>6 DEF RunBreaks, Breaks
<1>7. ASSUME NotificationNotFound(n) \/ LoadNotification(n) PROVE Loads(n)
  BY <1>7 DEF NotificationNotFound, LoadNotification, Loads
<1>8. ASSUME SendSucceeds(n) \/ SendFails(n) PROVE Sends(n)
  BY <1>8 DEF SendSucceeds, SendFails, Sends
<1>9. ASSUME MarkSent(n) PROVE Records(n)
  <2>1. n \in DOMAIN notifications /\ notifications[n] \in NotificationRow
    BY <1>9 DEF MarkSent, LoadedIsCurrent, TypeOK, StorageTypeOK
  <2> QED
    BY <1>9, <2>1 DEF MarkSent, Records, NotificationRow
<1>10. ASSUME MarkFailure(n) PROVE Records(n)
  <2>1. n \in DOMAIN notifications /\ notifications[n] \in NotificationRow
    BY <1>10 DEF MarkFailure, LoadedIsCurrent, TypeOK, StorageTypeOK
  <2>2. loaded[n].retry_count = notifications[n].retry_count
    BY <1>10 DEF MarkFailure, LoadedIsCurrent, SnapshotOf
  <2> QED
    BY <1>10, <2>1, <2>2 DEF MarkFailure, Records, NotificationRow
<1> QED
  BY <1>4, <1>5, <1>6, <1>7, <1>8, <1>9, <1>10 DEF RunStep, JobStep

\* Each of these moves keeps each part of the invariant.
LEMMA RunStepKeepsJob ==
  ASSUME TypeOK, IsFiniteSet(mails), NEW n \in Requests, JobInv(n), RunStep(n)
  PROVE  JobInv(n)'
<1>1. /\ tries[n] \in Nat /\ tries[n] <= MaxTries /\ MaxTries \in Nat
      /\ n \in DOMAIN notifications => notifications[n].retry_count \in Nat
  BY WorkerAssumption DEF TypeOK, WorkerTypeOK, StorageTypeOK, NotificationRow
<1>2. /\ RunHasJob(n) /\ LoadedIsCurrent(n) /\ DeliveredIsMailed(n)
      /\ RaisedIsRecorded(n) /\ SentIsRunAgain(n) /\ TriesPay(n)
      /\ n \in DOMAIN notifications => RowInv(n)
  BY DEF JobInv
<1>3. Begins(n) \/ Ends(n) \/ Breaks(n) \/ Loads(n) \/ Sends(n) \/ Records(n)
  BY <1>2, RunStepMoves
<1>4. /\ Cardinality(MailsOf(n)) \in Nat
      /\ mails' = mails \cup {MailOf(n)} =>
           /\ MailsOf(n)' # {}
           /\ Cardinality(MailsOf(n)') \in Nat
           /\ Cardinality(MailsOf(n)') <= Cardinality(MailsOf(n)) + 1
  BY MailCount, OneMailMore
<1> USE DEF Begins, Ends, Breaks, Loads, Sends, Records, RowKept, MailsKept,
            JobKept, JobGone
<1>5. RunHasJob(n)'
  BY <1>1, <1>2, <1>3 DEF RunHasJob
<1>6. LoadedIsCurrent(n)'
  <2>1. \/ run'[n] \notin {"loaded", "delivered", "undelivered"}
        \/ Loads(n) /\ n \in DOMAIN notifications
        \/ Sends(n)
    BY <1>3
  <2> QED
    BY <1>2, <2>1 DEF LoadedIsCurrent
<1>7. DeliveredIsMailed(n)'
  BY <1>3, <1>4 DEF DeliveredIsMailed
<1>8. SentIsRunAgain(n)'
  BY <1>1, <1>2, <1>3 DEF SentIsRunAgain, RunHasJob
<1>9. TriesPay(n)'
  BY <1>1, <1>2, <1>3, <1>4 DEF TriesPay, RunHasJob
<1>10. n \in DOMAIN notifications' => RowInv(n)'
  <2>1. CASE Records(n)
    BY <1>1, <1>2, <1>4, <2>1 DEF RowInv, RunHasJob, DeliveredIsMailed, LastTry
  <2>2. CASE Begins(n) \/ Ends(n) \/ Breaks(n) \/ Loads(n) \/ Sends(n)
    BY <1>1, <1>2, <1>4, <2>2 DEF RowInv, RunHasJob
  <2> QED
    BY <1>3, <2>1, <2>2
<1>11. RaisedIsRecorded(n)'
  BY <1>1, <1>2, <1>3 DEF RaisedIsRecorded
<1> QED
  BY <1>5, <1>6, <1>7, <1>8, <1>9, <1>10, <1>11 DEF JobInv

-----------------------------------------------------------------------------
(* The worker's steps keep the whole invariant.                            *)

Inv == TypeOK /\ SubmissionInv /\ WorkerInv

LEMMA RunStepType ==
  ASSUME TypeOK, NEW n \in Requests, JobInv(n), RunStep(n), UNCHANGED apiVars
  PROVE  TypeOK'
<1> USE DEF TypeOK, StorageTypeOK, WorkerTypeOK
<1>1. ApiTypeOK'
  BY DEF apiVars, ApiTypeOK
<1>2. /\ attempts' = attempts /\ answers' = answers
      /\ DOMAIN notifications' = DOMAIN notifications
      /\ jobs' \subseteq jobs
      /\ \A k \in DOMAIN notifications : k # n => notifications'[k] = notifications[k]
  BY RunStepRewritesRows DEF RowsRewritten
<1>3. notifications' \in [DOMAIN notifications -> NotificationRow]
  <2>1. CASE MarkSent(n)
    <3>1. /\ DOMAIN notifications' = DOMAIN notifications
          /\ \A k \in DOMAIN notifications \ {n} : notifications'[k] = notifications[k]
          /\ n \in DOMAIN notifications =>
               notifications'[n] = [notifications[n] EXCEPT !.status = "sent", !.sent_at = TRUE]
      BY <2>1 DEF MarkSent
    <3>2. \A row \in NotificationRow :
            [row EXCEPT !.status = "sent", !.sent_at = TRUE] \in NotificationRow
      BY DEF NotificationRow, NotificationStatus
    <3>3. \A k \in DOMAIN notifications : notifications'[k] \in NotificationRow
      <4>1. \A k \in DOMAIN notifications : notifications[k] \in NotificationRow
        OBVIOUS
      <4>2. n \in DOMAIN notifications => notifications'[n] \in NotificationRow
        BY <3>1, <3>2, <4>1
      <4> QED
        BY <3>1, <4>1, <4>2
    <3>4. notifications' = [k \in DOMAIN notifications |-> notifications'[k]]
      BY <2>1 DEF MarkSent
    <3> QED
      BY <3>3, <3>4
  <2>2. CASE MarkFailure(n)
    <3>1. run[n] = "undelivered"
      BY <2>2 DEF MarkFailure, RunAt
    <3>2. n \in DOMAIN notifications /\ loaded[n].retry_count \in Nat
      BY <3>1 DEF JobInv, LoadedIsCurrent, SnapshotOf, NotificationRow
    <3> QED
      BY <2>2, <3>2 DEF MarkFailure, NotificationRow, NotificationStatus
  <2>3. CASE notifications' = notifications
    BY <2>3
  <2>4. MarkSent(n) \/ MarkFailure(n) \/ notifications' = notifications
    BY DEF RunStep, JobStep, StartJob, DropJob, NotificationNotFound,
      LoadNotification, SendSucceeds, SendFails, FinishReturned, FinishRaised,
      RunBreaks, CutRun, TablesUnchanged
  <2> QED
    BY <2>1, <2>2, <2>3, <2>4
<1>4. tries' \in [Requests -> 0..MaxTries] /\ run' \in [Requests -> RunStages]
  BY WorkerAssumption DEF RunStep, JobStep, StartJob, DropJob, NotificationNotFound,
    LoadNotification, SendSucceeds, SendFails, MarkSent, MarkFailure, FinishReturned,
    FinishRaised, RunBreaks, CutRun, Forget, RunAt, RunStages
<1>5. loaded' \in [Requests -> Snapshot \cup {NoSnapshot}]
  <2>1. CASE LoadNotification(n)
    BY <2>1, SnapshotType DEF LoadNotification
  <2>2. CASE loaded' \in {loaded, [loaded EXCEPT ![n] = NoSnapshot]}
    BY <2>2
  <2> QED
    BY <2>1, <2>2 DEF RunStep, JobStep, StartJob, DropJob, NotificationNotFound,
      SendSucceeds, SendFails, MarkSent, MarkFailure, FinishReturned, FinishRaised,
      RunBreaks, CutRun
<1>6. mails' \subseteq Mail
  <2>1. CASE SendSucceeds(n)
    <3>1. run[n] = "loaded"
      BY <2>1 DEF SendSucceeds, RunAt
    <3>2. loaded[n] \in Snapshot
      BY <3>1, SnapshotType DEF JobInv, LoadedIsCurrent
    <3>3. tries[n] \in 1..MaxTries
      BY <3>1, WorkerAssumption DEF JobInv, RunHasJob
    <3> QED
      BY <2>1, <3>2, <3>3, MailType DEF SendSucceeds
  <2>2. CASE mails' = mails
    BY <2>2
  <2> QED
    BY <2>1, <2>2 DEF RunStep, JobStep, StartJob, DropJob, NotificationNotFound,
      LoadNotification, SendFails, MarkSent, MarkFailure, FinishReturned,
      FinishRaised, RunBreaks, CutRun
<1> QED
  BY <1>1, <1>2, <1>3, <1>4, <1>5, <1>6

\* A mail is made of the row and the attempt as they are.
LEMMA RunStepKeepsMails ==
  ASSUME TypeOK, SubmissionInv, IsFiniteSet(mails), MailsMatchResult,
         NEW n \in Requests, JobInv(n), RunStep(n)
  PROVE  IsFiniteSet(mails') /\ MailsMatchResult'
<1>1. RowsRewritten(n)
  BY RunStepRewritesRows DEF TypeOK
<1>2. CASE mails' = mails
  BY <1>1, <1>2 DEF RowsRewritten, MailsMatchResult
<1>3. CASE SendSucceeds(n)
  <2>1. mails' = mails \cup {MailOf(n)} /\ run[n] = "loaded"
    BY <1>3 DEF SendSucceeds, RunAt
  <2>2. n \in DOMAIN notifications /\ loaded[n] = SnapshotOf(n)
    BY <2>1 DEF JobInv, LoadedIsCurrent
  <2>3. attempts[notifications[n].attempt].submitted_at
    <3>1. attempts[notifications[n].attempt] = Result(n)
      BY <2>2 DEF SubmissionInv, RowsOfSubmission
    <3> QED
      BY <3>1 DEF Result
  <2>4. LET m == MailOf(n)
        IN  /\ m.notification = n
            /\ m.attempt = notifications[n].attempt
            /\ m.score = attempts[m.attempt].score
            /\ m.percentage = attempts[m.attempt].percentage
            /\ m.feedback = feedback_for_percentage(attempts[m.attempt].percentage)
    BY <2>2, <2>3 DEF MailOf, SnapshotOf
  <2>5. MailsMatchResult'
    BY <1>1, <2>1, <2>2, <2>3, <2>4 DEF RowsRewritten, MailsMatchResult
  <2> QED
    BY <2>1, <2>5, FS_AddElement
<1> QED
  BY <1>2, <1>3 DEF RunStep, JobStep, StartJob, DropJob, NotificationNotFound,
    LoadNotification, SendFails, MarkSent, MarkFailure, FinishReturned,
    FinishRaised, RunBreaks, CutRun

LEMMA WorkerKeepsInv ==
  ASSUME Inv, WorkerNext, UNCHANGED apiVars
  PROVE  Inv'
<1> PICK n \in Requests : RunStep(n)
  BY WorkerStepIsRunStep
<1>1. /\ TypeOK /\ StorageTypeOK /\ WorkerTypeOK /\ SubmissionInv
      /\ IsFiniteSet(mails) /\ MailsMatchResult
      /\ \A k \in Requests : JobInv(k)
  BY WorkerInvByJob DEF Inv, TypeOK, StorageTypeOK
<1>2. RowsRewritten(n) /\ OthersKept(n)
  BY <1>1, RunStepRewritesRows, RunStepKeepsOthers
<1>3. TypeOK'
  BY <1>1, RunStepType
<1>4. SubmissionInv'
  BY <1>1, <1>2, RunStepKeepsSubmissionInv
<1>5. IsFiniteSet(mails') /\ MailsMatchResult'
  BY <1>1, RunStepKeepsMails
<1>6. ASSUME NEW k \in Requests PROVE JobInv(k)'
  <2>1. CASE k = n
    BY <1>1, <2>1, RunStepKeepsJob
  <2>2. CASE k # n
    <3>1. /\ k \in DOMAIN notifications' <=> k \in DOMAIN notifications
          /\ k \in DOMAIN notifications => notifications'[k] = notifications[k]
                                           /\ SnapshotOf(k)' = SnapshotOf(k)
      BY <1>2, <2>2 DEF RowsRewritten, SnapshotOf
    <3>2. k \in jobs' <=> k \in jobs
      BY <1>2, <2>2 DEF RowsRewritten
    <3> QED
      BY <1>1, <1>2, <2>2, <3>1, <3>2, JobUntouched DEF OthersKept
  <2> QED
    BY <2>1, <2>2
<1>7. WorkerInv'
  <2>1. DOMAIN notifications' \subseteq Requests
    BY <1>3 DEF TypeOK, StorageTypeOK
  <2> QED
    BY <1>5, <1>6, <2>1 DEF WorkerInv, JobInv, RowInv, SentMeansMailed, FailedIsFinal
<1> QED
  BY <1>3, <1>4, <1>7 DEF Inv

-----------------------------------------------------------------------------
(* The API's steps keep it too: a job is enqueued before its row, and the  *)
(* COMMIT of a row touches no attempt that has one.                        *)

LEMMA ApiEnqueuesFlushed ==
  ASSUME ApiNext
  PROVE  /\ jobs \subseteq jobs'
         /\ \A r \in jobs' \ jobs : stage[r] = "flushed"
<1> USE DEF StorageUnchanged
<1>1. ASSUME NEW r \in Requests, EnqueueJob(r) \/ EnqueueFails(r)
      PROVE  jobs' \in {jobs, jobs \cup {r}} /\ stage[r] = "flushed"
  BY <1>1 DEF EnqueueJob, EnqueueFails
<1>2. ASSUME NEW r \in Requests, ApiStep(r)
      PROVE  jobs' = jobs \/ EnqueueJob(r) \/ EnqueueFails(r)
  BY <1>2 DEF ApiStep, Proceed, AttemptNotFound, AlreadySubmitted, InvalidSubmission,
    Validate, Flush, FlushConflict, SkipEnqueue, Commit
<1>3. ASSUME ApiFault PROVE jobs' = jobs
  BY <1>3 DEF ApiFault, RestartApi, CommitUnacknowledged, TransactionFails
<1> QED
  BY <1>1, <1>2, <1>3 DEF ApiNext

\* A job whose row is not committed has had no mail and no failure.
LEMMA NoRowNoMail ==
  ASSUME MailsMatchResult, NEW k \in Requests, k \notin DOMAIN notifications
  PROVE  MailsOf(k) = {}
  BY DEF MailsMatchResult, MailsOf

LEMMA QuietStepKeepsJob ==
  ASSUME Inv, QuietStep, ApiNext, UNCHANGED workerVars,
         NEW k \in Requests, JobInv(k)
  PROVE  JobInv(k)'
<1>1. /\ notifications' = notifications /\ attempts' = attempts
      /\ run' = run /\ tries' = tries /\ loaded' = loaded /\ mails' = mails
  BY DEF QuietStep, TablesKept, workerVars
<1>2. /\ MailsOf(k)' = MailsOf(k)
      /\ k \in DOMAIN notifications => SnapshotOf(k)' = SnapshotOf(k)
  BY <1>1 DEF MailsOf, SnapshotOf
<1>3. CASE k \in jobs' <=> k \in jobs
  BY <1>1, <1>2, <1>3, JobUntouched
<1>4. CASE k \in jobs' /\ k \notin jobs
  <2>1. k \notin DOMAIN notifications
    BY <1>4, ApiEnqueuesFlushed DEF Inv, SubmissionInv, RowsOfSubmission
  <2>2. run[k] = "idle"
    BY <1>4 DEF JobInv, RunHasJob
  <2> QED
    BY <1>1, <2>1, <2>2 DEF JobInv, RunHasJob, LoadedIsCurrent, DeliveredIsMailed,
      RaisedIsRecorded, SentIsRunAgain, TriesPay
<1> QED
  BY <1>3, <1>4, ApiEnqueuesFlushed

\* The COMMIT of r touches no row but its own, and no attempt that has a row.
LEMMA CommitRows ==
  ASSUME Inv, NEW r \in Requests, CommitStep(r)
  PROVE  /\ r \notin DOMAIN notifications
         /\ DOMAIN notifications' = DOMAIN notifications \cup {r}
         /\ notifications'[r] = NewNotification(r)
         /\ \A k \in DOMAIN notifications :
              /\ notifications'[k] = notifications[k]
              /\ attempts'[notifications[k].attempt] = attempts[notifications[k].attempt]
<1>1. /\ Target(r) \in Attempts
      /\ NotificationsOf(Target(r)) = {}
  BY DEF CommitStep, InTransaction, Inv, SubmissionInv, AcceptedIsValid,
    TransactionsExclude
<1>2. \A k \in DOMAIN notifications :
        notifications[k].attempt \in Attempts \ {Target(r)}
  BY <1>1 DEF NotificationsOf, Inv, TypeOK, StorageTypeOK, NotificationRow
<1>3. r \notin DOMAIN notifications
  BY <1>2 DEF Inv, SubmissionInv, RowsOfSubmission
<1>4. /\ attempts' = [attempts EXCEPT ![Target(r)] = Result(r)]
      /\ DOMAIN notifications' = DOMAIN notifications \cup {r}
      /\ notifications'[r] = NewNotification(r)
      /\ \A n \in DOMAIN notifications \ {r} : notifications'[n] = notifications[n]
  <2>1. SubmissionTypeOK /\ Apply(r)
    BY DEF Inv, TypeOK, SubmissionTypeOK, CommitStep
  <2> QED
    BY <1>1, <2>1, CommitTables
<1>5. DOMAIN attempts = Attempts
  BY DEF Inv, TypeOK, StorageTypeOK
<1> QED
  BY <1>2, <1>3, <1>4, <1>5

LEMMA CommitStepKeepsJob ==
  ASSUME Inv, NEW r \in Requests, CommitStep(r), ApiNext, UNCHANGED workerVars,
         NEW k \in Requests, JobInv(k)
  PROVE  JobInv(k)'
<1>1. /\ run' = run /\ tries' = tries /\ loaded' = loaded /\ mails' = mails
      /\ MailsOf(k)' = MailsOf(k)
  BY DEF workerVars, MailsOf
<1>2. CASE k \in DOMAIN notifications
  <2>1. k \in jobs' <=> k \in jobs
    BY <1>2, ApiEnqueuesFlushed DEF Inv, SubmissionInv, RowsOfSubmission
  <2>2. /\ k \in DOMAIN notifications' /\ notifications'[k] = notifications[k]
        /\ SnapshotOf(k)' = SnapshotOf(k)
    BY <1>2, CommitRows DEF SnapshotOf
  <2> QED
    BY <1>1, <1>2, <2>1, <2>2, JobUntouched
<1>3. CASE k \notin DOMAIN notifications
  <2>1. MailsOf(k) = {} /\ Cardinality(MailsOf(k)) = 0
    BY <1>3, NoRowNoMail, FS_EmptySet DEF Inv, WorkerInv
  <2>2. /\ run[k] \notin {"loaded", "delivered", "undelivered", "raised"}
        /\ run[k] # "idle" => k \in jobs /\ k \in jobs' /\ tries[k] > 0
        /\ tries[k] \in 0..MaxTries /\ MaxTries \in Nat
    BY <1>3, ApiEnqueuesFlushed, WorkerAssumption
      DEF JobInv, RunHasJob, LoadedIsCurrent, RaisedIsRecorded, Inv, TypeOK, WorkerTypeOK
  <2>3. k \in DOMAIN notifications' =>
          /\ notifications'[k].status \in {"queued", "failed_to_enqueue"}
          /\ notifications'[k].sent_at = FALSE
          /\ notifications'[k].retry_count = 0
    <3>1. k \in DOMAIN notifications' => k = r /\ notifications'[k] = NewNotification(r)
      BY <1>3, CommitRows
    <3>2. /\ NewNotification(r).status \in {"queued", "failed_to_enqueue"}
          /\ NewNotification(r).sent_at = FALSE
          /\ NewNotification(r).retry_count = 0
      BY DEF NewNotification
    <3> QED
      BY <3>1, <3>2
  <2>4. RunHasJob(k)' /\ LoadedIsCurrent(k)' /\ DeliveredIsMailed(k)' /\ RaisedIsRecorded(k)'
    BY <1>1, <2>2 DEF RunHasJob, LoadedIsCurrent, DeliveredIsMailed, RaisedIsRecorded
  <2>5. SentIsRunAgain(k)' /\ (k \in DOMAIN notifications' => RowInv(k)')
    BY <1>1, <2>2, <2>3 DEF SentIsRunAgain, RowInv
  <2>6. TriesPay(k)'
    <3>1. Cardinality(MailsOf(k)') = 0
      BY <1>1, <2>1
    <3>2. /\ tries'[k] >= IF run'[k] = "idle" THEN 0 ELSE 1
          /\ tries'[k] \in Nat
      BY <1>1, <2>2
    <3>3. k \in DOMAIN notifications' => notifications'[k].retry_count = 0
      BY <2>3
    <3> QED
      BY <2>2, <3>1, <3>2, <3>3 DEF TriesPay
  <2> QED
    BY <2>4, <2>5, <2>6 DEF JobInv
<1> QED
  BY <1>2, <1>3

LEMMA ApiKeepsInv ==
  ASSUME Inv, ApiNext, UNCHANGED workerVars
  PROVE  Inv'
<1>1. /\ SubmissionTypeOK /\ SubmissionInv /\ ApiTypeOK
      /\ IsFiniteSet(mails) /\ MailsMatchResult
      /\ \A k \in Requests : JobInv(k)
  BY WorkerInvByJob DEF Inv, TypeOK, SubmissionTypeOK, StorageTypeOK
<1>2. SubmissionTypeOK' /\ SubmissionInv'
  BY <1>1, SubmissionInductive
<1>3. TypeOK'
  BY <1>2 DEF Inv, TypeOK, SubmissionTypeOK, WorkerTypeOK, workerVars
<1>4. QuietStep \/ \E r \in Requests : CommitStep(r)
  BY <1>1, StepIsQuietOrCommit
<1>5. \A k \in Requests : JobInv(k)'
  BY <1>1, <1>4, QuietStepKeepsJob, CommitStepKeepsJob
<1>6. IsFiniteSet(mails')
  BY <1>1 DEF workerVars
<1>7. MailsMatchResult'
  <2>1. CASE QuietStep
    BY <1>1, <2>1 DEF QuietStep, TablesKept, workerVars, MailsMatchResult
  <2>2. ASSUME NEW r \in Requests, CommitStep(r)
        PROVE  MailsMatchResult'
    <3>1. /\ DOMAIN notifications \subseteq DOMAIN notifications'
          /\ \A k \in DOMAIN notifications :
               /\ notifications'[k] = notifications[k]
               /\ attempts'[notifications[k].attempt]
                    = attempts[notifications[k].attempt]
      BY <2>2, CommitRows
    <3>2. mails' = mails
      BY DEF workerVars
    <3> QED
      BY <1>1, <3>1, <3>2 DEF MailsMatchResult
  <2> QED
    BY <1>4, <2>1, <2>2
<1>8. WorkerInv'
  <2>1. DOMAIN notifications' \subseteq Requests
    BY <1>3 DEF TypeOK, StorageTypeOK
  <2> QED
    BY <1>5, <1>6, <1>7, <2>1
      DEF WorkerInv, JobInv, RowInv, SentMeansMailed, FailedIsFinal
<1> QED
  BY <1>2, <1>3, <1>8 DEF Inv

LEMMA InitInv == Init => Inv
<1> SUFFICES ASSUME Init PROVE Inv
  OBVIOUS
<1>1. SubmissionTypeOK /\ SubmissionInv
  BY SubmissionTypeInit, SubmissionInvInit DEF Init, SubmissionInit
<1>2. WorkerTypeOK
  BY WorkerAssumption DEF Init, WorkerInit, WorkerTypeOK, RunStages
<1>3. mails = {} /\ DOMAIN notifications = {} /\ \A n \in Requests : run[n] = "idle"
  BY DEF Init, WorkerInit, StorageInit
<1>4. WorkerInv
  BY <1>3, FS_EmptySet DEF WorkerInv, MailsMatchResult, SentMeansMailed, FailedIsFinal,
    RunHasJob, LoadedIsCurrent, DeliveredIsMailed, RaisedIsRecorded, SentIsRunAgain, TriesPay
<1> QED
  BY <1>1, <1>2, <1>4 DEF Inv, TypeOK, SubmissionTypeOK

LEMMA NextInv == Inv /\ [Next]_vars => Inv'
<1> SUFFICES ASSUME Inv, [Next]_vars PROVE Inv'
  OBVIOUS
<1>1. CASE ApiNext /\ UNCHANGED workerVars
  BY <1>1, ApiKeepsInv
<1>2. CASE WorkerNext /\ UNCHANGED apiVars
  BY <1>2, WorkerKeepsInv
<1>3. CASE UNCHANGED vars
  <2> USE <1>3 DEF vars, storage, apiVars, workerVars
  <2>1. SubmissionTypeOK' /\ SubmissionInv'
    <3>1. UNCHANGED submissionVars
      BY DEF submissionVars
    <3> QED
      BY <3>1, SubmissionInductive DEF Inv, TypeOK, SubmissionTypeOK
  <2>2. WorkerTypeOK'
    BY DEF Inv, TypeOK, WorkerTypeOK
  <2>3. WorkerInv'
    BY DEF Inv, WorkerInv, MailsMatchResult, SentMeansMailed, FailedIsFinal, MailsOf,
      RunHasJob, LoadedIsCurrent, DeliveredIsMailed, RaisedIsRecorded, SentIsRunAgain,
      TriesPay, SnapshotOf
  <2> QED
    BY <2>1, <2>2, <2>3 DEF Inv, TypeOK, SubmissionTypeOK
<1> QED
  BY <1>1, <1>2, <1>3 DEF Next

-----------------------------------------------------------------------------
\* The invariant of the deployment that the theorems below rest on.
THEOREM QuizAppInvariance == Spec => []Inv
  BY InitInv, NextInv, PTL DEF Spec

\* Types of the tables, of the jobs, the requests and the runs; tries never
\* passes max_tries.
THEOREM TypeCorrect == Spec => []TypeOK
<1>1. Inv => TypeOK
  BY DEF Inv
<1> QED
  BY <1>1, QuizAppInvariance, PTL

\* The submission's guarantees hold with the worker running beside it.
THEOREM DeployedSubmissionIsSafe == Spec => []SubmissionInv
<1>1. Inv => SubmissionInv
  BY DEF Inv
<1> QED
  BY <1>1, QuizAppInvariance, PTL

\* The invariant behind the worker's properties.
THEOREM WorkerIsSafe == Spec => []WorkerInv
<1>1. Inv => WorkerInv
  BY DEF Inv
<1> QED
  BY <1>1, QuizAppInvariance, PTL

\* Every mail ever handed to the sender tells the stored result of its attempt.
THEOREM MailsAlwaysMatchResult == Spec => []MailsMatchResult
<1>1. Inv => MailsMatchResult
  BY DEF Inv, WorkerInv
<1> QED
  BY <1>1, QuizAppInvariance, PTL

\* A row says sent only after a mail was.
THEOREM SentAlwaysMeansMailed == Spec => []SentMeansMailed
<1>1. Inv => SentMeansMailed
  BY DEF Inv, WorkerInv
<1> QED
  BY <1>1, QuizAppInvariance, PTL

\* A row marked failed has no try left, and a send that fails at the last try is
\* always recorded as such.
THEOREM FailedIsAlwaysFinal == Spec => []FailedIsFinal
<1>1. Inv => FailedIsFinal
  BY DEF Inv, WorkerInv
<1> QED
  BY <1>1, QuizAppInvariance, PTL

\* For any max_tries, the mails and the recorded failures of a notification
\* together never exceed it.
THEOREM TriesAlwaysBound == Spec => []TriesBoundMailsAndFailures
<1>1. Inv => TriesBoundMailsAndFailures
  <2> SUFFICES ASSUME Inv, NEW n \in DOMAIN notifications
               PROVE  Cardinality(MailsOf(n)) + notifications[n].retry_count <= MaxTries
    BY DEF TriesBoundMailsAndFailures
  <2>1. /\ n \in Requests /\ TriesPay(n)
        /\ tries[n] \in 0..MaxTries /\ MaxTries \in Nat
        /\ notifications[n].retry_count \in Nat
        /\ Cardinality(MailsOf(n)) \in Nat
    BY MailCount, WorkerAssumption
      DEF Inv, WorkerInv, TypeOK, StorageTypeOK, WorkerTypeOK, NotificationRow
  <2> QED
    BY <2>1 DEF TriesPay
<1> QED
  BY <1>1, QuizAppInvariance, PTL

\* The status of a row moves only as StatusMoves says: sent is taken back at
\* the last try alone, and failed never.
THEOREM StatusAlwaysMoves == Spec => StatusMoves
<1> DEFINE Move(n) ==
      LET old == notifications[n].status
          new == notifications'[n].status
      IN  old # new =>
            \/ old \in {"queued", "failed_to_enqueue"} /\ new \in {"sent", "failed"}
            \/ old = "sent" /\ new = "failed" /\ tries[n] = MaxTries /\ MaxTries > 1
<1>1. Inv /\ [Next]_vars => [\A n \in DOMAIN notifications : Move(n)]_vars
  <2> SUFFICES ASSUME Inv, Next, NEW n \in DOMAIN notifications PROVE Move(n)
    OBVIOUS
  <2>1. /\ TypeOK /\ StorageTypeOK /\ ApiTypeOK
        /\ n \in Requests /\ JobInv(n)
        /\ notifications[n].status \in NotificationStatus
        /\ tries[n] \in 0..MaxTries /\ MaxTries \in Nat
    BY WorkerInvByJob, WorkerAssumption
      DEF Inv, TypeOK, StorageTypeOK, WorkerTypeOK, NotificationRow
  <2>2. ASSUME ApiNext PROVE notifications'[n] = notifications[n]
    <3>1. QuietStep \/ \E r \in Requests : CommitStep(r)
      BY <2>1, <2>2, StepIsQuietOrCommit
    <3> QED
      BY <3>1, CommitRows DEF QuietStep, TablesKept
  <2>3. ASSUME NEW k \in Requests, RunStep(k), k # n
        PROVE  notifications'[n] = notifications[n]
    BY <2>1, <2>3, RunStepRewritesRows DEF RowsRewritten
  <2>4. ASSUME RunStep(n) PROVE Move(n)
    <3>1. /\ RunHasJob(n) /\ LoadedIsCurrent(n) /\ SentIsRunAgain(n)
          /\ RowInv(n)
      BY <2>1 DEF JobInv
    <3>2. Begins(n) \/ Ends(n) \/ Breaks(n) \/ Loads(n) \/ Sends(n) \/ Records(n)
      BY <2>1, <2>4, <3>1, RunStepMoves
    <3>3. notifications'[n].status = notifications[n].status \/ Records(n)
      BY <3>2 DEF Begins, Ends, Breaks, Loads, Sends, RowKept
    <3>4. CASE Records(n)
      BY <2>1, <3>1, <3>4 DEF Records, RunHasJob, RowInv, SentIsRunAgain, LastTry,
        NotificationStatus
    <3> QED
      BY <3>3, <3>4
  <2> QED
    BY <2>2, <2>3, <2>4, WorkerStepIsRunStep DEF Next
<1> QED
  BY <1>1, QuizAppInvariance, PTL DEF Spec, StatusMoves

\* A row is committed with an error exactly when its job was not known to be
\* enqueued; later one comes only with a failed send, counted one by one, and no
\* step takes it away.
THEOREM LastErrorAlwaysTells == Spec => LastErrorTellsOfAFailure
<1> DEFINE Move(n) ==
      LET row == notifications[n]
          after == notifications'[n]
      IN  IF n \notin DOMAIN notifications
          THEN after.retry_count = 0 /\ (after.last_error <=> stage[n] = "not_enqueued")
          ELSE \/ /\ after.last_error = row.last_error
                  /\ after.retry_count = row.retry_count
               \/ /\ run[n] = "undelivered" /\ run'[n] = "raised"
                  /\ after.last_error /\ after.retry_count = row.retry_count + 1
<1>1. Inv /\ [Next]_vars => [\A n \in DOMAIN notifications' : Move(n)]_vars
  <2> SUFFICES ASSUME Inv, Next, NEW n \in DOMAIN notifications' PROVE Move(n)
    OBVIOUS
  <2>1. /\ TypeOK /\ StorageTypeOK /\ ApiTypeOK
        /\ DOMAIN notifications \subseteq Requests
        /\ \A k \in Requests : JobInv(k)
    BY WorkerInvByJob DEF Inv, TypeOK, StorageTypeOK
  <2>2. ASSUME n \in DOMAIN notifications, notifications'[n] = notifications[n]
        PROVE  Move(n)
    BY <2>2
  <2>3. ASSUME NEW r \in Requests, CommitStep(r) PROVE Move(n)
    <3>1. CASE n = r
      <4>1. n \notin DOMAIN notifications /\ notifications'[n] = NewNotification(n)
        BY <2>3, <3>1, CommitRows
      <4>2. NewNotification(n).last_error = (stage[n] = "not_enqueued")
        BY Zenon DEF NewNotification
      <4>3. NewNotification(n).retry_count = 0
        BY DEF NewNotification
      <4>4. notifications'[n].last_error <=> stage[n] = "not_enqueued"
        BY <4>1, <4>2, Zenon
      <4> QED
        BY <4>1, <4>3, <4>4
    <3>2. CASE n # r
      BY <2>2, <2>3, <3>2, CommitRows
    <3> QED
      BY <3>1, <3>2
  <2>4. CASE ApiNext
    <3>1. QuietStep \/ \E r \in Requests : CommitStep(r)
      BY <2>1, <2>4, StepIsQuietOrCommit
    <3> QED
      BY <2>2, <2>3, <3>1 DEF QuietStep, TablesKept
  <2>5. ASSUME NEW k \in Requests, RunStep(k) PROVE Move(n)
    <3>1. RowsRewritten(k)
      BY <2>1, <2>5, RunStepRewritesRows
    <3>2. CASE k # n
      BY <2>2, <3>1, <3>2 DEF RowsRewritten
    <3>3. CASE k = n
      <4>1. n \in DOMAIN notifications /\ LoadedIsCurrent(n)
        BY <2>1, <3>1, <3>3 DEF RowsRewritten, JobInv
      <4>2. Begins(n) \/ Ends(n) \/ Breaks(n) \/ Loads(n) \/ Sends(n) \/ Records(n)
        BY <2>1, <2>5, <3>3, <4>1, RunStepMoves
      <4>3. notifications'[n] = notifications[n] \/ Records(n)
        BY <4>1, <4>2 DEF Begins, Ends, Breaks, Loads, Sends, RowKept
      <4> QED
        BY <2>2, <4>1, <4>3 DEF Records
    <3> QED
      BY <3>2, <3>3
  <2> QED
    BY <2>4, <2>5, WorkerStepIsRunStep DEF Next
<1> QED
  BY <1>1, QuizAppInvariance, PTL DEF Spec, LastErrorTellsOfAFailure

-----------------------------------------------------------------------------
(* What a run leaves on its row, and what it leaves Redis for.             *)

\* A run holds what it loaded until it ends, and returns over a row it marked
\* sent, or that it did not find.
RunLeavesTrace(n) ==
  /\ run[n] \in {"idle", "started"} => loaded[n] = NoSnapshot
  /\ run[n] = "returned" =>
       \/ loaded[n] = NoSnapshot
       \/ n \in DOMAIN notifications /\ notifications[n].status = "sent"

TraceInv == Inv /\ \A n \in Requests : RunLeavesTrace(n)

LEMMA TraceStarts == Init => TraceInv
<1> SUFFICES ASSUME Init PROVE TraceInv
  OBVIOUS
<1>1. \A n \in Requests : run[n] = "idle" /\ loaded[n] = NoSnapshot
  BY DEF Init, WorkerInit
<1> QED
  BY <1>1, InitInv DEF TraceInv, RunLeavesTrace

\* The API rewrites no committed row.
LEMMA ApiKeepsTrace ==
  ASSUME TraceInv, ApiNext, UNCHANGED workerVars
  PROVE  \A n \in Requests : RunLeavesTrace(n)'
<1>1. Inv /\ ApiTypeOK /\ run' = run /\ loaded' = loaded
  BY DEF TraceInv, Inv, TypeOK, workerVars
<1>2. QuietStep \/ \E r \in Requests : CommitStep(r)
  BY <1>1, StepIsQuietOrCommit
<1>3. \A n \in DOMAIN notifications :
        n \in DOMAIN notifications' /\ notifications'[n] = notifications[n]
  BY <1>1, <1>2, CommitRows DEF QuietStep, TablesKept
<1> QED
  BY <1>1, <1>3 DEF TraceInv, RunLeavesTrace

LEMMA RunStepKeepsTrace ==
  ASSUME TraceInv, NEW n \in Requests, RunStep(n)
  PROVE  \A k \in Requests : RunLeavesTrace(k)'
<1>1. /\ TypeOK /\ StorageTypeOK /\ WorkerTypeOK /\ RunLeavesTrace(n) /\ JobInv(n)
      /\ DOMAIN run = Requests /\ DOMAIN loaded = Requests
  BY WorkerInvByJob
    DEF TraceInv, Inv, TypeOK, StorageTypeOK, WorkerTypeOK
<1>2. /\ DOMAIN notifications' = DOMAIN notifications
      /\ \A k \in DOMAIN notifications \ {n} : notifications'[k] = notifications[k]
  BY <1>1, RunStepRewritesRows DEF RowsRewritten
<1>3. \A k \in Requests \ {n} : run'[k] = run[k] /\ loaded'[k] = loaded[k]
  BY <1>1, RunStepKeepsOthers DEF OthersKept
<1>4. RunLeavesTrace(n)'
  <2> USE <1>1 DEF RunLeavesTrace, RunAt, TablesUnchanged
  <2>1. CASE MarkSent(n)
    <3>1. n \in DOMAIN notifications
      BY <2>1 DEF MarkSent, JobInv, LoadedIsCurrent
    <3> QED
      BY <2>1, <3>1 DEF MarkSent, StorageTypeOK, NotificationRow
  <2>2. CASE MarkFailure(n) \/ RunBreaks(n)
    BY <2>2 DEF MarkFailure, RunBreaks
  <2>3. CASE StartJob(n) \/ DropJob(n)
    BY <2>3 DEF StartJob, DropJob
  <2>4. CASE NotificationNotFound(n) \/ LoadNotification(n)
    BY <2>4 DEF NotificationNotFound, LoadNotification
  <2>5. CASE SendSucceeds(n) \/ SendFails(n)
    BY <2>5 DEF SendSucceeds, SendFails
  <2>6. CASE FinishReturned(n) \/ FinishRaised(n) \/ CutRun(n)
    BY <2>6 DEF FinishReturned, FinishRaised, CutRun
  <2> QED
    BY <2>1, <2>2, <2>3, <2>4, <2>5, <2>6 DEF RunStep, JobStep
<1>5. ASSUME NEW k \in Requests \ {n} PROVE RunLeavesTrace(k)'
  BY <1>2, <1>3, <1>5 DEF TraceInv, RunLeavesTrace
<1> QED
  BY <1>4, <1>5

LEMMA TraceInvariance == Spec => []TraceInv
<1>1. TraceInv /\ [Next]_vars => TraceInv'
  <2> SUFFICES ASSUME TraceInv, [Next]_vars PROVE TraceInv'
    OBVIOUS
  <2>1. Inv'
    BY NextInv DEF TraceInv
  <2>2. CASE ApiNext /\ UNCHANGED workerVars
    BY <2>1, <2>2, ApiKeepsTrace DEF TraceInv
  <2>3. CASE WorkerNext /\ UNCHANGED apiVars
    BY <2>1, <2>3, WorkerStepIsRunStep, RunStepKeepsTrace DEF TraceInv
  <2>4. CASE UNCHANGED vars
    BY <2>1, <2>4 DEF TraceInv, RunLeavesTrace, vars, storage, workerVars
  <2> QED
    BY <2>2, <2>3, <2>4 DEF Next
<1> QED
  BY <1>1, TraceStarts, PTL DEF Spec

\* A job leaves Redis over a row without a trace only for the three reasons
\* that JobsLeaveForAReason names.
THEOREM JobsAlwaysLeaveForAReason == Spec => JobsLeaveForAReason
<1> DEFINE Reason(n) ==
      \/ run[n] = "returned" /\ loaded[n] = NoSnapshot
      \/ run[n] = "broken"
      \/ run[n] = "idle" /\ tries[n] = MaxTries
<1>1. TraceInv /\ [Next]_vars =>
        [\A n \in Requests : n \in jobs /\ n \notin jobs' /\ NoTrace(n) => Reason(n)]_vars
  <2> SUFFICES ASSUME TraceInv, Next, NEW n \in Requests,
                      n \in jobs, n \notin jobs', NoTrace(n)
               PROVE  Reason(n)
    OBVIOUS
  <2>1. /\ StorageTypeOK /\ RunLeavesTrace(n) /\ RaisedIsRecorded(n)
        /\ tries[n] \in 0..MaxTries /\ MaxTries \in Nat
    BY WorkerAssumption DEF TraceInv, Inv, TypeOK, WorkerTypeOK, WorkerInv
  <2>2. PICK k \in Requests : RunStep(k)
    BY ApiEnqueuesFlushed, WorkerStepIsRunStep DEF Next
  <2>3. k = n
    BY <2>1, <2>2, RunStepRewritesRows DEF RowsRewritten
  <2>4. DropJob(n) \/ FinishReturned(n) \/ FinishRaised(n)
    BY <2>2, <2>3 DEF RunStep, JobStep, StartJob, NotificationNotFound, LoadNotification,
      SendSucceeds, SendFails, MarkSent, MarkFailure, RunBreaks, CutRun
  <2> QED
    BY <2>1, <2>4 DEF DropJob, FinishReturned, FinishRaised, RunAt, RunLeavesTrace,
      RaisedIsRecorded, NoTrace
<1> QED
  BY <1>1, TraceInvariance, PTL DEF Spec, JobsLeaveForAReason

=============================================================================
