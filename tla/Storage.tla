------------------------------- MODULE Storage -------------------------------
(***************************************************************************)
(* What the API process and the worker process share: the committed rows   *)
(* of the Postgres tables attempts, answers and notifications, and the     *)
(* arq jobs held by Redis.                                                 *)
(*                                                                         *)
(* Both processes use SQLAlchemy sessions at Postgres' default isolation   *)
(* level, READ COMMITTED: a SELECT sees what is committed when it runs,    *)
(* and the writes of a transaction appear all at once when it commits.     *)
(* The variables hold committed rows only; what a transaction has flushed  *)
(* and not committed is known from the stage its request has reached.      *)
(*                                                                         *)
(* Serial ids are drawn from sequences, which a rollback does not rewind,  *)
(* so an id is never drawn twice.  Each submit request inserts at most one *)
(* notification: the model names the notification, and the answers, by the *)
(* request that inserts them.                                              *)
(***************************************************************************)
EXTENDS Integers, FiniteSets, Sequences, Scoring

CONSTANTS
  Requests,      \* the POST /attempts/{id}/submit requests clients make
  AttemptIds,    \* the ids a client may put in the URL
  Attempts,      \* the attempts start_attempt has committed
  QuestionIds,
  OptionIds,
  QuestionsOf,   \* the questions of the quiz of each attempt
  OptionsOf,     \* the options of each question
  CorrectOf      \* the option of each question that is marked is_correct

\* create_quiz and the seed script commit a quiz only when every question has
\* exactly one correct option; no operation changes a quiz afterwards.
ASSUME QuizAssumption ==
  /\ Attempts \subseteq AttemptIds
  /\ QuestionsOf \in [Attempts -> SUBSET QuestionIds]
  /\ \A a \in Attempts : IsFiniteSet(QuestionsOf[a])
  /\ OptionsOf \in [QuestionIds -> SUBSET OptionIds]
  /\ CorrectOf \in [QuestionIds -> OptionIds]
  /\ \A q \in QuestionIds : CorrectOf[q] \in OptionsOf[q]

VARIABLES
  attempts,       \* table attempts: the columns a submission writes
  answers,        \* table answers: a set of rows
  notifications,  \* table notifications: a function from the ids present
  jobs            \* the notification ids with a job in the arq queue

NotificationStatus == {"queued", "sent", "failed", "failed_to_enqueue"}

\* submitted_at is kept as whether it is set; score and percentage mean
\* something only when it is (they are NULL before).
AttemptRow == [submitted_at : BOOLEAN, score : Int, percentage : Int]

Unsubmitted == [submitted_at |-> FALSE, score |-> 0, percentage |-> 0]

AnswerRow == [by : Requests, attempt : Attempts,
              question : QuestionIds, option : OptionIds]

\* last_error and sent_at are kept as whether they are set.
NotificationRow == [attempt : Attempts, status : NotificationStatus,
                    retry_count : Nat, last_error : BOOLEAN, sent_at : BOOLEAN]

StorageInit ==
  /\ attempts = [a \in Attempts |-> Unsubmitted]
  /\ answers = {}
  /\ notifications = [n \in {} |-> {}]
  /\ jobs = {}

StorageTypeOK ==
  /\ attempts \in [Attempts -> AttemptRow]
  /\ answers \subseteq AnswerRow
  /\ DOMAIN notifications \subseteq Requests
  /\ notifications \in [DOMAIN notifications -> NotificationRow]
  /\ jobs \subseteq Requests

AnswersOf(a) == {row \in answers : row.attempt = a}

NotificationsOf(a) == {n \in DOMAIN notifications : notifications[n].attempt = a}

=============================================================================
