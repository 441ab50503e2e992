------------------------------- MODULE QuizApp -------------------------------
(***************************************************************************)
(* The two processes of the deployment side by side: the API serving       *)
(* submissions and the arq worker sending the mails they queue.  They meet *)
(* only in Postgres and in Redis.                                          *)
(***************************************************************************)
EXTENDS AttemptSubmission, NotificationWorker

storage == <<attempts, answers, notifications, jobs>>

vars == <<storage, apiVars, workerVars>>

Init == StorageInit /\ ApiInit /\ WorkerInit

Next ==
  \/ ApiNext /\ UNCHANGED workerVars
  \/ WorkerNext /\ UNCHANGED apiVars

Spec == Init /\ [][Next]_vars

\* The event loop runs every request it has accepted, and the worker polls the
\* queue for as long as it lives; neither promises that a fault ever happens
\* or that a client ever sends its request.
Fairness ==
  /\ \A r \in Requests : WF_vars(Proceed(r) /\ UNCHANGED workerVars)
  /\ \A n \in Requests : WF_vars(JobStep(n) /\ UNCHANGED apiVars)

FairSpec == Spec /\ Fairness

-----------------------------------------------------------------------------
TypeOK == StorageTypeOK /\ ApiTypeOK /\ WorkerTypeOK

\* Every mail is about a submission that is committed, and tells the score,
\* percentage and feedback stored for its attempt: the job is in Redis before
\* its rows are committed, and a request that loses the race for an attempt
\* has queued nothing.
MailsMatchResult ==
  \A m \in mails :
    /\ m.notification \in DOMAIN notifications
    /\ notifications[m.notification].attempt = m.attempt
    /\ attempts[m.attempt].submitted_at
    /\ m.score = attempts[m.attempt].score
    /\ m.percentage = attempts[m.attempt].percentage
    /\ m.feedback = feedback_for_percentage(attempts[m.attempt].percentage)

MailsOf(n) == {m \in mails : m.notification = n}

\* The row claims a mail only after the mail: status sent and sent_at are
\* written by a run that had delivered, whatever run is cut where.
SentMeansMailed ==
  \A n \in DOMAIN notifications :
    notifications[n].status = "sent" \/ notifications[n].sent_at
      => notifications[n].sent_at /\ MailsOf(n) # {}

\* Runs cut between the mail and the record of it repeat the mail, but each
\* run sends at most one, and a run that ended in a recorded failure none: the
\* mails and the recorded failures of a notification together never exceed
\* max_tries.
TriesBoundMailsAndFailures ==
  \A n \in DOMAIN notifications :
    Cardinality(MailsOf(n)) + notifications[n].retry_count <= MaxTries

\* A failure is final at the last try and no earlier, though arq counts cut runs
\* as tries too: a row marked failed has no try left, and a run that failed to
\* send at the last try leaves no row as it was.
FailedIsFinal ==
  \A n \in DOMAIN notifications :
    /\ notifications[n].status = "failed" =>
         /\ notifications[n].retry_count > 0
         /\ n \in jobs => tries[n] = MaxTries /\ run[n] \in {"raised", "idle"}
    /\ run[n] = "raised" /\ tries[n] = MaxTries => notifications[n].status = "failed"

\* The moves of a notification's status.  A row that says sent can only be
\* taken back by a run at the last try, after an earlier run was cut between
\* the commit of sent and arq's record of its end.
StatusMoves ==
  [][\A n \in DOMAIN notifications :
       LET old == notifications[n].status
           new == notifications'[n].status
       IN  old # new =>
             \/ old \in {"queued", "failed_to_enqueue"} /\ new \in {"sent", "failed"}
             \/ old = "sent" /\ new = "failed" /\ tries[n] = MaxTries /\ MaxTries > 1
    ]_vars

\* What last_error and retry_count tell of a notification.  A row is committed
\* with an error exactly when its job was not known to be enqueued.  After that
\* an error comes only from a run whose send failed, which counts one failure
\* more than the row had when it writes, however long before it had read the
\* row; and none is ever taken away, by a later mail least of all.  A run that
\* ends in a failed statement or a timeout adds nothing.
LastErrorTellsOfAFailure ==
  [][\A n \in DOMAIN notifications' :
       LET row == notifications[n]
           after == notifications'[n]
       IN  IF n \notin DOMAIN notifications
           THEN after.retry_count = 0 /\ (after.last_error <=> stage[n] = "not_enqueued")
           ELSE \/ /\ after.last_error = row.last_error
                   /\ after.retry_count = row.retry_count
                \/ /\ run[n] = "undelivered" /\ run'[n] = "raised"
                   /\ after.last_error /\ after.retry_count = row.retry_count + 1
    ]_vars

\* The row says neither that a mail was sent nor that one could not be.
NoTrace(n) ==
  /\ n \in DOMAIN notifications
  /\ notifications[n].status \in {"queued", "failed_to_enqueue"}
  /\ notifications[n].retry_count = 0

\* A job whose row is committed and shows no trace of a try leaves Redis in
\* three ways only: its run came before the row, a statement of its run failed,
\* or max_tries runs were cut.  A run that mailed, or failed to, and went on to
\* record it has left a trace.
JobsLeaveForAReason ==
  [][\A n \in Requests : n \in jobs /\ n \notin jobs' /\ NoTrace(n) =>
       \/ run[n] = "returned" /\ loaded[n] = NoSnapshot
       \/ run[n] = "broken"
       \/ run[n] = "idle" /\ tries[n] = MaxTries
    ]_vars

-----------------------------------------------------------------------------
\* The parts of the invariant behind the properties of the worker, each about
\* one job and its row.

\* arq works only on jobs in Redis, and counted the run before it began.
RunHasJob(n) == run[n] # "idle" => n \in jobs /\ tries[n] > 0

\* What a run has loaded is still what the tables hold: the row was committed,
\* its attempt does not change any more, and no one else writes to the row.
LoadedIsCurrent(n) ==
  run[n] \in {"loaded", "delivered", "undelivered"} =>
    n \in DOMAIN notifications /\ loaded[n] = SnapshotOf(n)

DeliveredIsMailed(n) == run[n] = "delivered" => MailsOf(n) # {}

\* A run raises only over a row that counts its failure.
RaisedIsRecorded(n) ==
  run[n] = "raised" => n \in DOMAIN notifications /\ notifications[n].retry_count > 0

\* The job of a row that says sent has been run, and a run of it that is still
\* under way is not the first.
SentIsRunAgain(n) ==
  n \in DOMAIN notifications /\ notifications[n].status = "sent" /\ n \in jobs =>
    tries[n] > IF run[n] \in {"started", "loaded", "delivered", "undelivered"}
               THEN 1 ELSE 0

\* The runs counted pay for the mails and the recorded failures; a run that has
\* had neither yet is counted too.
TriesPay(n) ==
  n \in DOMAIN notifications =>
    LET paid == Cardinality(MailsOf(n)) + notifications[n].retry_count
    IN  IF n \in jobs
        THEN paid + (IF run[n] \in {"started", "loaded", "undelivered"} THEN 1 ELSE 0)
               <= tries[n]
        ELSE paid <= MaxTries

\* Each run works on a committed row that nobody else changes, was counted
\* before it began, and pays with its count for at most one mail or failure,
\* wherever it or the API process is cut.
WorkerInv ==
  /\ IsFiniteSet(mails)
  /\ MailsMatchResult
  /\ SentMeansMailed
  /\ FailedIsFinal
  /\ \A n \in Requests :
       /\ RunHasJob(n) /\ LoadedIsCurrent(n) /\ DeliveredIsMailed(n)
       /\ RaisedIsRecorded(n) /\ SentIsRunAgain(n) /\ TriesPay(n)

-----------------------------------------------------------------------------
\* The contract seen in this state: a request has its answer when its stage is
\* one, the sheet an attempt has taken is its rows of answers.
Replied == [r \in Requests |-> IF stage[r] \in Replies THEN stage[r] ELSE "none"]

SheetOf(a) ==
  {[question |-> row.question, option |-> row.option] : row \in AnswersOf(a)}

Sheets == [a \in Attempts |-> SheetOf(a)]

Told == {[attempt |-> m.attempt, score |-> m.score] : m \in mails}

Contract == INSTANCE AttemptContract WITH
  asked <- req, reply <- Replied, sheet <- Sheets, told <- Told

\* The deployment keeps the contract of AttemptContract: of any number of
\* concurrent, failing or repeated submissions an attempt takes one sheet, the
\* request that is answered ok is the one it came from, a submission is refused
\* as already submitted only when a sheet is taken, and mails tell the score of
\* that sheet.
ContractKept == Contract!Spec

-----------------------------------------------------------------------------
\* Every accepted submission is answered: the requests that wait for a row
\* lock, and the ones whose broker call fails, come to an end.
RequestsAnswered ==
  \A r \in Requests : stage[r] = "validated" ~> stage[r] \in Replies

\* Submission does not need the broker: without database faults, one of the
\* submissions that found the attempt open is stored, with or without a pool.
OpenAttemptGetsSubmitted ==
  \A r \in Requests :
    stage[r] = "validated" ~> attempts[Target(r)].submitted_at

\* A job waits for its run and its row is committed.
VisibleJob(n) == n \in jobs /\ run[n] = "idle" /\ n \in DOMAIN notifications

\* Unless a run is cut, or a statement of it fails, no visible job is passed over
\* in silence: its row ends up sent, or counts a failed send.
VisibleJobsLeaveATrace ==
  \A n \in Requests : VisibleJob(n) ~>
    (n \in DOMAIN notifications
       /\ (notifications[n].status = "sent" \/ notifications[n].retry_count > 0))

-----------------------------------------------------------------------------
\* What tests/integration/notifications/test_notification_enqueue.py asserts
\* after a submission: the row says queued and its job is in Redis.  The job
\* is enqueued before the COMMIT, so the worker may run it and find no row.
QueuedHasJob ==
  \A n \in DOMAIN notifications :
    notifications[n].status = "queued" => n \in jobs

\* app/main.py: errors follow a consistent envelope.  With no fault at all, two
\* submissions that both read the attempt open end in an IntegrityError.
ErrorsFollowEnvelope ==
  \A r \in Requests : stage[r] # "server_error"

\* test_worker_intermediate_retry_keeps_queued_status: a failed try that is
\* not the last leaves the row queued, for a next try to send.
FailedTryIsRetried ==
  \A n \in DOMAIN notifications :
    notifications[n].status = "queued" /\ notifications[n].retry_count > 0
      => n \in jobs

=============================================================================
