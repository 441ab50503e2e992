# QuizApp in TLA+

Specifications, model-checking instances and machine-checked proofs for QuizApp
(`src/`): a FastAPI service over Postgres for quizzes and attempts, with an arq
worker on Redis that mails results.

Run a model: `tlc -config MCQuizAppDeployed.cfg MCQuizApp`.
Check a proof: `tlapm AttemptSubmissionProofs.tla`.

## 1. The system

| Component | Code | State | Operations |
|---|---|---|---|
| Attempt submission | `app/attempts/service.py` `submit_attempt` | rows of `attempts`, `answers` | `POST /attempts/{id}/submit` |
| Notification queueing | `app/notifications/service.py`, `repository.py` | rows of `notifications`, jobs in Redis, `app.state.arq_pool` | `queue_for_attempt`, inside the submission's transaction |
| Notification worker | `app/notifications/worker.py` | `notifications` rows, arq's jobs and run counts | `send_email_notification` |
| Mail | `app/notifications/email.py` | none (a mock sender) | `build_payload`, `send` |
| Scoring | `app/attempts/scoring.py` | none | `compute_percentage`, `feedback_for_percentage` |
| Attempt start | `start_attempt`, `app/users/repository.py` `upsert_by_email` | rows of `users`, `attempts` | `POST /attempts` |
| Quizzes | `app/quizzes/` | rows of `quizzes`, `questions`, `options` | `POST /quizzes`, two GETs |
| Seed | `scripts/seed.py` | the same rows | `seed_quizzes` |
| Reads | `get_attempt_detail`, `app/users/service.py` | none | `GET /attempts/{id}`, `/users/{id}/attempts`, `/users/{id}/stats` |
| Start and stop | `app/main.py` `lifespan`, `docker-compose.yml` | `arq_pool`, a pool or `None` | `alembic upgrade head && uvicorn` |
| Sessions, errors | `app/db/session.py`, `app/core/errors.py` | one session per request | rollback at close, `DomainError` to JSON |
| Schema | `alembic/versions/`, `alembic/env.py` | seven tables with their indexes, one enum type, `alembic_version` | `upgrade`, `downgrade` |
| Config, logging, packaging, tests | `app/core/config.py`, `logging.py`, ... | none that an operation changes | |

How they interact. The API process runs many requests on one event loop; each
has one session and one transaction, and gives the loop away at every `await`.
The worker is another process. The two share Postgres, at READ COMMITTED, and
Redis; there is no lock in the code. `submit_attempt` writes to both stores:
it flushes its rows, enqueues the job, and only then commits. Every API process
upgrades the schema before it serves; the seed is started by hand and waits for
nobody.

What makes it hard: checks made before an `await` and relied on after it
(`submitted_at`, the user of an email, the title of a quiz); two stores without
a common transaction; jobs that overtake their rows; a worker that dies between
a mail and the record of it; failures after a commit; reads made of several
SELECTs; a history ordered by the time at which transactions began; servers
that upgrade one schema at the same time. `PROJECT.json` lists each such hazard at its line, with the properties
that would catch it.

What makes each component correct, in short: an attempt takes one result, whole
and final, and whoever is told "ok" finds it (submission); a mail tells the
stored result, a row claims a mail only after the mail, failures are final and
retries bounded (worker); one user per email (start); every stored question has
one correct option and a place in its quiz, a seed run is all or nothing
(quizzes); reads are not torn and follow what was answered (reads); rounding
changes no verdict (scoring); the schema is whole or absent (schema).

## 2. The modules

| Module | What it is |
|---|---|
| `Scoring` | the two pure helpers, in hundredths of a percent |
| `Storage` | the committed rows and the jobs that both processes share |
| `AttemptSubmission` | the submission, one action per stretch between awaits, and the queueing inside it |
| `NotificationWorker` | the job, cut at its awaits, and what it relies on of arq |
| `QuizApp` | both processes side by side: `AttemptSubmission` and `NotificationWorker` over one `Storage` |
| `AttemptContract` | the abstract specification: an attempt takes one answer sheet, a request is answered once, a mail tells the score of the sheet |
| `AttemptStart` | `POST /attempts`: the upsert by email and the attempt row |
| `UserDirectory` | the abstract specification of starts: an email gets one user, once and for good, and each request enters in a single step |
| `AttemptViews` | the API process as a whole: `AttemptStart` and `AttemptSubmission` over one set of attempts, and the three reads beside them |
| `QuizCatalog` | quiz creation, positions and listings, seed runs |
| `Migration` | upgrade and downgrade, statement by statement, by several servers |
| `Deployment` | the life of a database from the first boot: `Migration` and `QuizCatalog` |
| `Marking` | the scoring loop, for quizzes of every length up to a bound |
| `OrderProofs` | lemmas on the orders of a finite set that follow a key: they exist, and any two show the same keys in the same places |
| `ScoringProofs`, `AttemptSubmissionProofs`, `QuizAppProofs`, `ContractProofs`, `AttemptStartProofs`, `AttemptViewsProofs`, `DeploymentProofs` | lemmas, theorems, proofs |
| `MC*` | instances for TLC |

State and code correspond as follows.

- `attempts`, `answers`, `notifications` hold **committed** rows. What a
  transaction has flushed is known from `stage[r]`: `validated` (the SELECT and
  the checks are behind it), `flushed` (UPDATE and INSERTs sent, locks held),
  `enqueued` / `not_enqueued` (the broker was called, or skipped), and then the
  answer: `ok`, the code of a `DomainError`, `server_error` for an exception
  nothing handles, `lost` when the API process died.
- A serial id is never drawn twice, so a notification and its answers are named
  by the request that inserts them.
- A second UPDATE of a row waits while the first transaction is open
  (`RowLocked`); a second INSERT of a unique key fails once the first has
  committed (`UniqueViolation`).
- `tries[n]` is arq's `job_try`, kept in Redis; `run[n]` is how far the current
  run is; `loaded[n]` what it read; `mails` the mails handed to the sender.
- A user and an attempt are named by the request that inserts them; `seen[r]`
  is what `get_by_email` returned. `started_at` is `now()`, the time a
  transaction began, and is modelled as the place of that beginning (`began[r]`).
- In `AttemptViews` an attempt has the id of its start; `view[v]` is what a read
  has fetched so far, then its answer, with the per-question breakdown.
- A quiz is a title and, per question, its position and the sequence of
  `is_correct` marks. A listing is one of the orders `ORDER BY position` allows;
  where positions collide there are several. The answer to the POST keeps the
  order of the request instead.
- `schema` and `version` are committed; what a server's open transaction has
  created is the first `done[p]` statements of `upgrade`.
- `behind`, `known` and `before` are history variables: what had been answered,
  or stored, when a start, a read, a run of the seed began. No guard reads them.

A definition whose comment begins with "Mistaken" is a slip the next definition
could have had (a forgotten commit, a missing index, an off-by-one). Nothing
uses these; they are there to be put in place of the right one, to see that the
properties notice.

External and therefore assumed: Postgres' READ COMMITTED, row locks and unique
indexes, its DDL that rolls back with its transaction, and a CREATE of a name
that waits for the open transaction which created it; SQLAlchemy's flush and
rollback, and the identity map that keeps what a session has loaded; arq's at-least-once runs, its count of
runs, its dropping of a job that was run `max_tries` times, and that one job is
never run twice at the same time. A job whose coroutine raises an ordinary
exception is finished: so it is in arq 0.28, the version in `uv.lock`, while the
worker's tests suppose another run (`no_retry` below). A run is cut, and made
again, when the worker dies or is stopped.

## 3. The runs

| Run | Question | Bounds | Distinct states |
|---|---|---|---|
| `submission` | Is a result whole and final, whatever overlaps or fails? | 3 requests, 2 attempts, 2 questions, 5 payloads (2 valid), every fault | 316,058 |
| `deployed` | Do both processes together tell, claim and promise only what is true? | 2 requests for one attempt, 3 tries, every fault | 336,060 |
| `progress` | Are requests answered and visible jobs not passed over? | 2 requests, 3 tries, every fault of the API | 12,792 |
| `broker_outage` | Does an outage of the broker, or a start without a pool, ever keep an attempt from being submitted? | 2 requests, 3 tries, no faults but failing sends and broker calls | 944 |
| `catalog` | Is the schema whole wherever servers race and die, are stored quizzes answerable and listed in order, seed runs all or nothing? | 2 servers, 2 requests, 2 seed runs, 4 drafts, every fault | 172,205 |
| `history` | One user per email, upserts that look like one step, reads whole and up to date, a complete history? | 2 starts, 2 submissions, 1 read of any kind, 3 questions (two in one position), every fault | 1,338,164 |
| `marking` | Does rounding change a verdict? | quizzes of up to 210 questions | 1,587,985 |
| `queued_row`, `envelope`, `no_retry`, `seed_rerun`, `reboot` | five statements of docs and tests that the code does not keep | 2 requests, or 1 server (`reboot`); no faults but the failing send | violated |

Why the bounds are enough. The races of a submission are between two requests
for one attempt; a third adds one that comes while the second waits, and a
second attempt shows that they do not disturb each other. Two valid payloads with
different scores tell whose result is stored, the invalid ones are the three
ways `_validate_submission` refuses. In `QuizApp` one attempt of one question
suffices, since everything per attempt was covered, and 3 is the deployment's
`max_tries`. The reads of two viewers do not touch each other, so one viewer is
enough. In `history` two starts are two upserts of one email, or the two
attempts of one user's list; `StartInv` and `ViewInv`, the invariants behind the
properties of starts and of reads, are proved for any number of each. Its one
payload has two of three right and is not in the order of the positions, and two
questions share a position, so that a detail may list them in either order: which
payloads are accepted is the question of `submission`. In
`catalog` the drafts are one with a title of the seed, one whose given position
collides with an index, and two the structure check must refuse; two quizzes
with one title, from overlapping runs or from the API, are what makes the seed
raise. Two servers suffice for a race to create an object, and a third would wait
as the second does (`SchemaMatchesVersion` is proved for any number). The
downgrade is modelled of a database nobody has written to, while nothing is
started (`Unused`): what it does to data is to drop it. From 200 questions on, rounding to whole percents
would show one wrong answer as 100; 210 is past that.

A run that ends in a failed statement, a failed commit or a timeout is `broken`,
which tells it from one that `raised` because it had recorded a failed send:
`JobsLeaveForAReason` admits a job that left no trace only for the first kind.

Bounds inside the models: each request is made once, each read is made once,
`tries` never passes `MaxTries`; nothing else needs one. Runs that switch
deadlock checking off are those where every request and job comes to an end.

### Refinement

`QuizApp` maps to `AttemptContract` by: the sheet of an attempt is its answer
rows, the reply of a request its `stage` once it is an answer, what was told is
the score of the mails. `ContractKept` (`deployed`) says every step of the
deployment is a step of the contract or a stutter: in particular no submission
is refused as already submitted before a sheet is taken, none is answered `ok`
unless its own sheet is the one, and no sheet is ever replaced.

`AttemptStart` maps to `UserDirectory` by: the entry of an email is the user that
has it, the owner of an attempt the user of its row, the reply of a request its
`step` once it is over. `DirectoryKept` (`history`) says that a commit is one
`Enter`, with a second outcome where the name stored is one that was written
since the upsert read (`KeepUser` writes nothing), and that nothing else shows.

`AttemptViews` runs the steps of `AttemptStart` unchanged, so it implements it with
no mapping at all (`ProcessImplementsStart`). It does not implement
`AttemptSubmission`, where every attempt is there from the start: a submission may
come before the commit of its attempt and is refused (`SubmitTooEarly`). That step
changes no row, and all others are steps of `AttemptSubmission`
(`ProcessStepsSubmissions`).

### Fairness

`FairSpec` assumes weak fairness of `Proceed(r)`, the steps of a request once it
is accepted (the event loop runs every ready task), and of `JobStep(n)` (arq
polls its queue while the worker lives). It assumes nothing of clients, of
faults, of which of several waiting requests gets a lock, and nothing of the
first step of a request. Symmetry is used only in runs without liveness.

### What the violations show

1. `queued_row`: the job is in Redis before its row is committed
   (`service.py:113`, `:115`). A quick worker finds no row and returns; the row
   then commits as `queued` with no job. The mail is never sent.
2. `envelope`: two submissions that both read the attempt open both pass the
   check; the second is answered with a bare 500 (IntegrityError), not with
   `409 attempt_already_submitted`. The data stay right. `POST /attempts` has
   the same race on a new email (`InsertConflict`).
3. `no_retry`: a failed send raises, and arq 0.28 finishes the job: the first
   failed try is the last, and the row stays `queued` with `retry_count` 1.
4. `seed_rerun`: two quizzes with a seed title, which the API accepts, make
   `scalar_one_or_none` raise: the seed is not safe to re-run then.
5. `reboot`: `downgrade()` drops the tables and leaves the enum type
   `notification_status`. The next `alembic upgrade head` fails at CREATE TYPE and
   rolls back, so no server starts, at this boot or a later one.

Things to know that contradict no document: a notification marked
`failed_to_enqueue` may still be mailed (Redis took the job before the
connection broke), a row that says `sent` may become `failed` (`StatusMoves`
says exactly when), a job whose runs are all cut is dropped by arq with its row
still `queued`, and a request may be answered with a name stored that is not its
own when another renamed the user in between (`NameStoredUnlessStale`), so
"the most recent value" of `app/attempts/controller.py:57` is that of the last
commit that wrote a name. A row that says `sent` may still show an error, of the
broker or of an earlier run: an error comes only from there, with a failure
counted in the second case, and no later step takes it away
(`LastErrorTellsOfAFailure`); a run that ends in a failed statement or a timeout
adds none. A run of the seed whose COMMIT took effect without an acknowledgement,
or that dies right after it, has failed and has left all its quizzes
(`SeedIsAllOrNothing`). Two servers that boot an empty database at once: one upgrades, the other exits and
is up only when it is started again. Positions may collide, and then the order
of those questions may differ from one listing to the next; and the answer to
the POST is at odds with every listing exactly when a given position is out of
order (`ListingsKeepTheOrder`).

## 4. What is proved

For any requests, attempts, quizzes, payloads and `max_tries`, from the
assumptions `QuizAssumption`, `PayloadAssumption` and `WorkerAssumption`; for
any starts, emails, names and quizzes, from `StartAssumption`; for any reads
beside starts and submissions, from these and `ViewAssumption`; for any servers,
requests, seed runs and drafts, from `CatalogAssumption` and
`MigrationAssumption`:

- the submission by itself (`AttemptSubmissionProofs`): `SubmissionTypeCorrect`,
  `SubmissionInvariance`, `OkMeansStoredAlways`, `SubmissionIsWholeAlways`,
  `ResultsNeverChangeAlways`;
- the deployment (`QuizAppProofs`): `TypeCorrect`, `QuizAppInvariance`,
  `DeployedSubmissionIsSafe`, `WorkerIsSafe`, `MailsAlwaysMatchResult`,
  `SentAlwaysMeansMailed`, `FailedIsAlwaysFinal`, `TriesAlwaysBound`,
  `StatusAlwaysMoves`, `LastErrorAlwaysTells`, `JobsAlwaysLeaveForAReason`;
- the refinement (`ContractProofs`): `ContractIsKept`;
- the starts by themselves (`AttemptStartProofs`): `StartTypeCorrect`,
  `StartInvariance`, `UsersAreAlwaysSound`, `AttemptsAlwaysBelong`,
  `NameAlwaysStoredUnlessStale`, `StartOrderInvariance`, and the refinement of
  `UserDirectory`, `DirectoryIsKept`;
- the API process as a whole (`AttemptViewsProofs`): `ProcessImplementsStart` and,
  with it, `StartsStaySound`; `SubmissionsStaySound`, `ProcessKeepsResults`; the
  reads, `ReadsStayValid`, `DetailIsAlwaysWhole`, `ReadsAlwaysFollowAnswers`,
  `HistoryIsAlwaysComplete`;
- the schema and the quizzes, together (`DeploymentProofs`):
  `MigrationTypeCorrect`, `SchemaAlwaysMatchesVersion`, `ServingAlwaysHasSchema`,
  `CatalogTypeCorrect`, `StoredAlwaysAnswerable`, `SeedAlwaysAllOrNothing`,
  `SeedAlwaysAddsOnlyMissing`, `ListingsAlwaysKeepTheOrder`;
- scoring (`ScoringProofs`), see the end of this section.

**The submission.** The safety properties are not inductive: nothing in `OkMeansStored` says why a
second transaction cannot commit over the first. `SubmissionInv` adds the
argument in five parts. `AcceptedIsValid`: a request past its checks has valid
answers for an attempt there is. `TransactionsExclude`: a transaction that has
written to an attempt is the only one, and the attempt has no notification; this
is where the row lock and the unique index do their work. `RowsOfSubmission`: the
rows of a submitted attempt are those of one request, that of its notification.
`NoRowsWithoutSubmission`: without a notification there is neither result nor
answer. `OkIsCommitted`: `ok` comes with a notification. The proof divides the
steps (`StepIsQuietOrCommit`) into those that leave the tables alone and the two
that apply a transaction (`Apply`); `QuietStepKeepsInv` and `CommitStepKeepsInv`
take a case each. That a whole submission has as many answers as questions
(`RowsMatchQuestions`) needs a bijection between rows and questions.

**The deployment.** The invariant is `TypeOK`, `SubmissionInv` and `WorkerInv`.
What a run has loaded must still be what the tables hold when the run mails or
records (`LoadedIsCurrent`): that is so because a submitted attempt does not change
(`SubmissionInv`) and a commit inserts only a row whose attempt had none
(`CommitRows`). `SentMeansMailed` needs `DeliveredIsMailed` of the run in between,
`StatusMoves` needs to know that a job whose row says `sent` is not in its first
run (`SentIsRunAgain`), and the bound on mails and failures needs an account
(`TriesPay`): every run counted pays for at most one of them, and a run under way
that has had neither is counted too. The proof of a worker step has three parts:
it leaves the other jobs alone (`RunStepKeepsOthers`), it rewrites one row and no
attempt (`RunStepRewritesRows`), and its own job keeps each part of the invariant,
by the six kinds of move of `RunStepMoves`. An API step changes a job only by
enqueueing it while its row is not committed (`ApiEnqueuesFlushed`).
What `last_error` tells (`LastErrorAlwaysTells`) follows step by step: a commit
inserts one row with the error its enqueueing left (`CommitRows`), a worker's run
rewrites the row it loaded, whose error and count are still those of the table
(`LoadedIsCurrent`). That a job leaves a row without a trace only for the reasons
given takes `RaisedIsRecorded`, the part of `WorkerInv` on runs that raised, and
a second invariant on top for those that returned (`TraceInv`), which says of a
run under way what its row shows already (`RunLeavesTrace`).

**The refinement of the contract.** Each action is matched with a step of the contract: refusals
with `Refuse` (`ValidIsComplete` shows the two notions of a valid submission
equal), failures and restarts with `Fail`, both ways of committing with `Take`,
a delivered mail with `Tell`, everything else with a stutter. That a mail's score
is that of the sheet is `ScoreCountsRightAnswers`, a bijection between the right
places of the array and the right answers of the sheet.

**The starts.** What a request has loaded may be stale when it writes. `StartInv`
says how stale: the user it saw still exists, with its email, if perhaps not its
name (`LoadedIsStored`); it writes what its SELECT called for, and one that inserts is
still the first with the email (`WritesFollowLoads`); and only one transaction at
a time has written the user with an email (`WritersExclude`), which is where the
unique index and the row lock do their work. Uniqueness of emails and ownership
of attempts follow across every commit. `StartOrderInv`, on top, says what the
history of a user rests on: an attempt bears the time at which its request began,
and whoever began after a request was answered bears a later one.

That the starts implement the directory takes `StartInv` once more: at the commit
of an upsert that wrote nothing the email has the user it read, if perhaps not its
name; of one that updates, that user; of one that inserts, none (`EntriesAfter`).
So a commit is one `Enter` (`StoreEnters`), and every other step changes at most a
reply.

**The process and its reads.** `AttemptViews` keeps the two invariants, that of
starts because it implements them, that of submissions because a step of a
submission there is quiet or a commit as it was (`ProcessInv`). A read of several
SELECTs sees a state that changes between them, and `ViewInv` says which of what
it has seen still counts at the last of them: a submission gets past its checks
only for a committed attempt (`SubmitsFollowStarts`); what was known when the read
began is still so (`KnownIsAnswered`); the row of the attempt is final, or it was
open and then nobody had been told of a result (`ReadIsFinalOrOpen`); the count has
all the attempts the client knows (`CountIsComplete`). A detail whose row was
open is answered without a breakdown, one whose row was final with answers that no
longer change. That the breakdown is the one the submission answered with, or
differs from it only among questions of one position, is a fact about sorting:
both are orders of the same marks that follow the positions (`BreakdownIsOrder`,
`ResponseIsOrder`). A history is never missing an attempt that is known, since it is
one SELECT; that none comes before one that began after it was answered is
`StartOrderInv`.

**Orders.** `OrderProofs` treats listings as the bijections from `1..n` to a set
along which a key never falls. At each place two such orders show the same key
(`SamePlacesSameKeys`): if one showed a smaller key at place `k`, the `k` first
elements of that one would fit in fewer than `k` places of the other
(`NoSmallerKey`). That there is an order at all (`OrderExists`), which the `CHOOSE`
of the response needs, follows by giving each element its rank, the number of
those not after it, and `StableOrderExists` makes it the stable one. `Exchanged`
swaps two elements of one key, which is how two listings come to differ.
`ListingsKeepTheOrder` applies these to the questions of a quiz, the reads to the
marks of an attempt.

**The schema and the quizzes.** `MigrationInv` adds to the two properties that a
server which serves does so at head (`ServingIsAtHead`): a transaction is all of
`upgrade` or none of it, and nobody downgrades while a server runs. `CatalogInv`
adds that what a run of the seed holds back is its own (`PendingIsOwn`), and that a
run which has got past a title has found it or added it (`SeedProgress`), so the
commit of a run stores all it missed, whether it is acknowledged or not: what a
run has left, it has left at a commit, and then every title has a quiz.

**Scoring**, in exact arithmetic: `RoundedQuotientIsNearest` and, from it,
`FeedbackIsExact` (fewer than 4000 questions) and `ExtremesStayExact` (fewer than
20000). The bounds are real: 3203 right of 4004 is below 80% and rounds to it.
`MarkingTypeCorrect` brings the ranges of the counters.

Only model-checked: liveness (`RequestsAnswered`, `OpenAttemptGetsSubmitted`,
`VisibleJobsLeaveATrace`), which is beyond the proof system; and that the five violated statements fail, which is
what a counterexample shows. Every other property of a passing run is a theorem
of this section. Floats are not modelled: `Scoring` says where they may differ
from exact arithmetic.

## 5. What is not modelled

Titles, Markdown bodies and explanations as they are read; the list of quizzes
(`GET /quizzes`, a read of rows that never change); the wording of mails and
errors; logging and configuration; offline SQL generation of the migration;
ids of more than 32 bits; connection pools and their limits, which belong to
SQLAlchemy and arq; and authentication, which the code does not have. Deletion:
no operation of the program deletes, except `downgrade`.

## 6. The plan

Done: the modules of section 2; `AttemptStart`, `AttemptSubmission` and the reads
composed into one API process; the schema from the first boot; positions and the
order of questions in answers, details and listings; the starts as an
implementation of `UserDirectory`; the proofs of section 4.

Next, the model:
- the lifetime of `arq_pool` beside that of Redis: a pool that was made at start
  and a Redis that is restarted under it;
- an abstract specification of the notification row (queued, sent, failed) for
  `NotificationWorker` to implement.

Next, the proofs:
- that `AttemptViews` implements the part of `AttemptContract` that is about
  submissions, with refusals that come before the start;
- that the quizzes implement a catalog in which a quiz or a run of the seed enters
  in a single step.
