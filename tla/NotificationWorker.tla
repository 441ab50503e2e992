------------------------- MODULE NotificationWorker -------------------------
(***************************************************************************)
(* The arq worker process and its job send_email_notification              *)
(* (app/notifications/worker.py).                                          *)
(*                                                                         *)
(* arq is external.  What the code relies on: a job stays in Redis until   *)
(* arq finishes it, so a run that is cut by the end of the worker is run   *)
(* again; job_try, kept in Redis, counts the runs; a job that was run      *)
(* max_tries times is dropped without calling the coroutine; one job is    *)
(* never run twice at the same time.  When the coroutine raises an ordinary *)
(* exception, as the job does after a failed send, arq 0.28, the version in *)
(* uv.lock, finishes the job: it runs a job again only for arq.Retry and   *)
(* cancellation.                                                           *)
(***************************************************************************)
EXTENDS Storage

CONSTANTS
  MaxTries,      \* WorkerSettings.max_tries, and the 3 the job counts to itself
  WorkerFaults   \* whether runs are cut and database errors happen

ASSUME WorkerAssumption ==
  /\ MaxTries \in Nat \ {0}
  /\ WorkerFaults \in BOOLEAN

VARIABLES
  tries,    \* the runs of each job arq has counted
  run,      \* how far the current run of each job is
  loaded,   \* what the run read from the database
  mails     \* the mails handed to the sender

workerVars == <<tries, run, loaded, mails>>

RunStages == {"idle", "started", "loaded", "delivered", "undelivered",
              "returned", "raised", "broken"}

Snapshot == [attempt : Attempts, retry_count : Nat, score : Int, percentage : Int]

NoSnapshot == [retry_count |-> 0]

Mail == [notification : Requests, job_try : 1..MaxTries, attempt : Attempts,
         score : Int, percentage : Int, feedback : Feedback]

WorkerTypeOK ==
  /\ tries \in [Requests -> 0..MaxTries]
  /\ run \in [Requests -> RunStages]
  /\ loaded \in [Requests -> Snapshot \cup {NoSnapshot}]
  /\ mails \subseteq Mail

WorkerInit ==
  /\ tries = [n \in Requests |-> 0]
  /\ run = [n \in Requests |-> "idle"]
  /\ loaded = [n \in Requests |-> NoSnapshot]
  /\ mails = {}

-----------------------------------------------------------------------------
\* The SELECT of the notification with its attempt: score and percentage are
\* 0 when the attempt has none.
SnapshotOf(n) ==
  LET a == notifications[n].attempt
      row == attempts[a]
  IN  [attempt |-> a,
       retry_count |-> notifications[n].retry_count,
       score |-> IF row.submitted_at THEN row.score ELSE 0,
       percentage |-> IF row.submitted_at THEN row.percentage ELSE 0]

\* build_payload.
MailOf(n) ==
  [notification |-> n,
   job_try |-> tries[n],
   attempt |-> loaded[n].attempt,
   score |-> loaded[n].score,
   percentage |-> loaded[n].percentage,
   feedback |-> feedback_for_percentage(loaded[n].percentage)]

LastTryLate(n) == tries[n] > MaxTries

LastTry(n) == tries[n] >= MaxTries

RunAt(n, from, to) == run[n] = from /\ run' = [run EXCEPT ![n] = to]

TablesUnchanged == UNCHANGED <<attempts, answers, notifications>>

\* arq takes a job off the queue and counts the run.
StartJob(n) ==
  /\ n \in jobs
  /\ tries[n] < MaxTries
  /\ RunAt(n, "idle", "started")
  /\ tries' = [tries EXCEPT ![n] = @ + 1]
  /\ TablesUnchanged /\ UNCHANGED <<jobs, loaded, mails>>

\* arq forgets a job and its count.
Forget(n) ==
  /\ jobs' = jobs \ {n}
  /\ tries' = [tries EXCEPT ![n] = 0]

\* "max retries exceeded": the job ends without a run.
DropJob(n) ==
  /\ n \in jobs
  /\ run[n] = "idle"
  /\ tries[n] >= MaxTries
  /\ Forget(n)
  /\ TablesUnchanged /\ UNCHANGED <<run, loaded, mails>>

\* The SELECT returns no row: the job logs and returns.
NotificationNotFound(n) ==
  /\ n \notin DOMAIN notifications
  /\ RunAt(n, "started", "returned")
  /\ TablesUnchanged /\ UNCHANGED <<jobs, tries, loaded, mails>>

LoadNotification(n) ==
  /\ n \in DOMAIN notifications
  /\ RunAt(n, "started", "loaded")
  /\ loaded' = [loaded EXCEPT ![n] = SnapshotOf(n)]
  /\ TablesUnchanged /\ UNCHANGED <<jobs, tries, mails>>

SendSucceeds(n) ==
  /\ RunAt(n, "loaded", "delivered")
  /\ mails' = mails \cup {MailOf(n)}
  /\ TablesUnchanged /\ UNCHANGED <<jobs, tries, loaded>>

\* Mistaken: the exception of send is swallowed.
SendFailsSilently(n) ==
  /\ RunAt(n, "loaded", "delivered")
  /\ TablesUnchanged /\ UNCHANGED <<jobs, tries, loaded, mails>>

SendFails(n) ==
  /\ RunAt(n, "loaded", "undelivered")
  /\ TablesUnchanged /\ UNCHANGED <<jobs, tries, loaded, mails>>

\* Mistaken: the session is closed without a commit of sent.
MarkSentUncommitted(n) ==
  /\ RunAt(n, "delivered", "returned")
  /\ TablesUnchanged /\ UNCHANGED <<jobs, tries, loaded, mails>>

\* Mistaken: a mail that gets through takes the error of the row away.
MarkSentForgetsError(n) ==
  /\ RunAt(n, "delivered", "returned")
  /\ notifications' = [notifications EXCEPT ![n].status = "sent",
                                            ![n].sent_at = TRUE,
                                            ![n].last_error = FALSE]
  /\ UNCHANGED <<attempts, answers, jobs, tries, loaded, mails>>

\* last_error stays as it is.
MarkSent(n) ==
  /\ RunAt(n, "delivered", "returned")
  /\ notifications' = [notifications EXCEPT ![n].status = "sent",
                                            ![n].sent_at = TRUE]
  /\ UNCHANGED <<attempts, answers, jobs, tries, loaded, mails>>

\* Mistaken: every earlier try is counted again; a failure queues the row
\* again; the exception is raised before the commit.
MarkFailureCountsTries(n) ==
  /\ RunAt(n, "undelivered", "raised")
  /\ notifications' = [notifications EXCEPT
        ![n].retry_count = loaded[n].retry_count + tries[n],
        ![n].last_error = TRUE,
        ![n].status = IF LastTry(n) THEN "failed" ELSE @]
  /\ UNCHANGED <<attempts, answers, jobs, tries, loaded, mails>>

MarkFailureRequeues(n) ==
  /\ RunAt(n, "undelivered", "raised")
  /\ notifications' = [notifications EXCEPT
        ![n].retry_count = loaded[n].retry_count + 1,
        ![n].last_error = TRUE,
        ![n].status = IF LastTry(n) THEN "failed" ELSE "queued"]
  /\ UNCHANGED <<attempts, answers, jobs, tries, loaded, mails>>

MarkFailureUncommitted(n) ==
  /\ RunAt(n, "undelivered", "raised")
  /\ TablesUnchanged /\ UNCHANGED <<jobs, tries, loaded, mails>>

\* The exception is raised again after this commit.
MarkFailure(n) ==
  /\ RunAt(n, "undelivered", "raised")
  /\ notifications' = [notifications EXCEPT
        ![n].retry_count = loaded[n].retry_count + 1,
        ![n].last_error = TRUE,
        ![n].status = IF LastTry(n) THEN "failed" ELSE @]
  /\ UNCHANGED <<attempts, answers, jobs, tries, loaded, mails>>

\* arq records the end of the run.  A COMMIT that took effect and was not
\* acknowledged ends it with another exception, and arq forgets the job alike.
FinishReturned(n) ==
  /\ RunAt(n, "returned", "idle")
  /\ Forget(n)
  /\ loaded' = [loaded EXCEPT ![n] = NoSnapshot]
  /\ TablesUnchanged /\ UNCHANGED mails

FinishRaised(n) ==
  /\ RunAt(n, "raised", "idle") \/ RunAt(n, "broken", "idle")
  /\ Forget(n)
  /\ loaded' = [loaded EXCEPT ![n] = NoSnapshot]
  /\ TablesUnchanged /\ UNCHANGED mails

\* A statement or a commit of the job fails, or arq's job timeout ends it:
\* nothing is recorded on the row.
RunBreaks(n) ==
  /\ run[n] \in {"started", "loaded", "delivered", "undelivered"}
  /\ run' = [run EXCEPT ![n] = "broken"]
  /\ TablesUnchanged /\ UNCHANGED <<jobs, tries, loaded, mails>>

\* The worker dies or is shut down during the run, or before arq records its
\* end: the job is still in Redis.
CutRun(n) ==
  /\ run[n] # "idle"
  /\ run' = [run EXCEPT ![n] = "idle"]
  /\ loaded' = [loaded EXCEPT ![n] = NoSnapshot]
  /\ TablesUnchanged /\ UNCHANGED <<jobs, tries, mails>>

JobStep(n) ==
  \/ StartJob(n) \/ DropJob(n)
  \/ NotificationNotFound(n) \/ LoadNotification(n)
  \/ SendSucceeds(n) \/ SendFails(n)
  \/ MarkSent(n) \/ MarkFailure(n)
  \/ FinishReturned(n) \/ FinishRaised(n)

WorkerFault == WorkerFaults /\ \E n \in Requests : RunBreaks(n) \/ CutRun(n)

WorkerNext == (\E n \in Requests : JobStep(n)) \/ WorkerFault

=============================================================================
