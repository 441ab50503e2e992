---------------------------- MODULE QuizCatalog ----------------------------
(***************************************************************************)
(* How quizzes come to exist: POST /quizzes (QuizService.create_quiz) and  *)
(* runs of the seed script (scripts/seed.py), which fill the same tables   *)
(* and may overlap.  No operation changes or deletes a quiz.               *)
(*                                                                         *)
(* A question is its position and its options' is_correct marks; options   *)
(* are given positions and ordered by them as the questions are, and are   *)
(* kept in order here.  Bodies and explanations are left out.  The schema  *)
(* has no unique constraint, neither on titles nor on positions.           *)
(***************************************************************************)
EXTENDS Integers, Sequences, FiniteSets

CONSTANTS
  Creates,        \* the POST /quizzes requests clients make
  SeedRuns,       \* the runs of the seed script
  Drafts,         \* the quizzes clients may post
  CatalogFaults   \* whether database errors, and deaths of a run, happen

\* A question as it is posted; position 0 is one that is not given.
QuestionPosted == [position : Nat, options : Seq(BOOLEAN)]

\* QuizCreate: a quiz has a question, a question has two options.
ASSUME CatalogAssumption ==
  /\ Creates \cap SeedRuns = {}
  /\ Drafts \subseteq [title : STRING, questions : Seq(QuestionPosted)]
  /\ \A d \in Drafts : /\ d.questions # <<>>
                       /\ \A i \in DOMAIN d.questions :
                            Len(d.questions[i].options) >= 2
  /\ CatalogFaults \in BOOLEAN

VARIABLES
  quizzes,   \* the committed quizzes, named by the request or run they are of
  post,      \* what each request posts
  reply,     \* the answer each request was given, or "none"
  seed,      \* how far each run of the seed is, or how it ended
  at,        \* the index in SeedQuizzes a run is at
  pending,   \* the quizzes a run has added to its session
  before     \* history: the quizzes that were committed when a run began

catalogVars == <<quizzes, post, reply, seed, at, pending, before>>

-----------------------------------------------------------------------------
\* The question of the seed at place i: three options, the k-th is correct.
Seeded(right) ==
  [i \in DOMAIN right |->
     [position |-> i, options |-> [o \in 1..3 |-> o = right[i]]]]

\* QUIZZES, in the order of the list, as seed_quizzes builds them.
SeedQuizzes ==
  <<[title |-> "Agent Fundamentals", questions |-> Seeded(<<1, 2, 1, 2, 2>>)],
    [title |-> "Prompt Engineering Basics", questions |-> Seeded(<<2, 1, 1, 2, 2>>)]>>

SeedTitles == {SeedQuizzes[i].title : i \in DOMAIN SeedQuizzes}

CorrectCount(question) ==
  Cardinality({o \in DOMAIN question.options : question.options[o]})

\* Mistaken: at least one option is correct.
ValidIfAnyCorrect(d) == \A i \in DOMAIN d.questions : CorrectCount(d.questions[i]) >= 1

\* _validate_structure.
ValidStructure(d) == \A i \in DOMAIN d.questions : CorrectCount(d.questions[i]) = 1

\* Mistaken: a position that is not given is the first.
PositionOrFirst(questions, i) ==
  IF questions[i].position = 0 THEN 1 ELSE questions[i].position

\* The position the i-th question is stored with: the one given, or its index.
PositionAt(questions, i) ==
  IF questions[i].position = 0 THEN i ELSE questions[i].position

Stored(owner, d) ==
  [by |-> owner, title |-> d.title,
   questions |-> [i \in DOMAIN d.questions |->
                    [d.questions[i] EXCEPT !.position = PositionAt(d.questions, i)]]]

Quizzes ==
  {Stored(c, post[c]) : c \in Creates}
    \cup {Stored(s, SeedQuizzes[i]) : s \in SeedRuns, i \in DOMAIN SeedQuizzes}

CatalogTypeOK ==
  /\ quizzes \subseteq Quizzes
  /\ post \in [Creates -> Drafts]
  /\ reply \in [Creates -> {"none", "created", "invalid_quiz_structure", "server_error"}]
  /\ seed \in [SeedRuns -> {"idle", "running", "done", "raised", "failed"}]
  /\ at \in [SeedRuns -> 1..Len(SeedQuizzes) + 1]
  /\ pending \in [SeedRuns -> SUBSET Quizzes]
  /\ before \in [SeedRuns -> SUBSET Quizzes]

CatalogInit ==
  /\ quizzes = {}
  /\ post \in [Creates -> Drafts]
  /\ reply = [c \in Creates |-> "none"]
  /\ seed = [s \in SeedRuns |-> "idle"]
  /\ at = [s \in SeedRuns |-> 1]
  /\ pending = [s \in SeedRuns |-> {}]
  /\ before = [s \in SeedRuns |-> {}]

SeedUnchanged == UNCHANGED <<seed, at, pending, before>>

Reply(c, answer) == reply[c] = "none" /\ reply' = [reply EXCEPT ![c] = answer]

RejectQuiz(c) ==
  /\ ~ValidStructure(post[c])
  /\ Reply(c, "invalid_quiz_structure")
  /\ UNCHANGED <<quizzes, post>> /\ SeedUnchanged

\* The flush and the COMMIT; the quiz is then read back for the response,
\* which may fail with the quiz already stored.
CreateQuiz(c) ==
  /\ ValidStructure(post[c])
  /\ \/ Reply(c, "created")
     \/ CatalogFaults /\ Reply(c, "server_error")
  /\ quizzes' = quizzes \cup {Stored(c, post[c])}
  /\ UNCHANGED post /\ SeedUnchanged

CreateFails(c) ==
  /\ CatalogFaults
  /\ Reply(c, "server_error")
  /\ UNCHANGED <<quizzes, post>> /\ SeedUnchanged

-----------------------------------------------------------------------------
RequestsUnchanged == UNCHANGED <<post, reply>>

SeedStart(s) ==
  /\ seed[s] = "idle"
  /\ seed' = [seed EXCEPT ![s] = "running"]
  /\ before' = [before EXCEPT ![s] = quizzes]
  /\ UNCHANGED <<quizzes, at, pending>> /\ RequestsUnchanged

\* Mistaken: only what the run itself has added is looked at.
ExistingInSession(s) == {z \in pending[s] : z.title = SeedQuizzes[at[s]].title}

\* The SELECT by title, which sees what the run itself has flushed.
Existing(s) ==
  {z \in quizzes \cup pending[s] : z.title = SeedQuizzes[at[s]].title}

Selecting(s) == seed[s] = "running" /\ at[s] \in DOMAIN SeedQuizzes

\* Mistaken: a skipped title takes the next one with it.
SeedSkipTwo(s) ==
  /\ Selecting(s)
  /\ Cardinality(Existing(s)) = 1
  /\ at' = [at EXCEPT ![s] = @ + 2]
  /\ UNCHANGED <<quizzes, seed, pending, before>> /\ RequestsUnchanged

SeedSkip(s) ==
  /\ Selecting(s)
  /\ Cardinality(Existing(s)) = 1
  /\ at' = [at EXCEPT ![s] = @ + 1]
  /\ UNCHANGED <<quizzes, seed, pending, before>> /\ RequestsUnchanged

\* Mistaken: each quiz is committed as it is added.
SeedAddCommits(s) ==
  /\ Selecting(s)
  /\ Existing(s) = {}
  /\ quizzes' = quizzes \cup {Stored(s, SeedQuizzes[at[s]])}
  /\ at' = [at EXCEPT ![s] = @ + 1]
  /\ UNCHANGED <<seed, pending, before>> /\ RequestsUnchanged

SeedAdd(s) ==
  /\ Selecting(s)
  /\ Existing(s) = {}
  /\ pending' = [pending EXCEPT ![s] = @ \cup {Stored(s, SeedQuizzes[at[s]])}]
  /\ at' = [at EXCEPT ![s] = @ + 1]
  /\ UNCHANGED <<quizzes, seed, before>> /\ RequestsUnchanged

\* scalar_one_or_none raises MultipleResultsFound; the session rolls back.
SeedRaises(s) ==
  /\ Selecting(s)
  /\ Cardinality(Existing(s)) > 1
  /\ seed' = [seed EXCEPT ![s] = "raised"]
  /\ pending' = [pending EXCEPT ![s] = {}]
  /\ UNCHANGED <<quizzes, at, before>> /\ RequestsUnchanged

\* The COMMIT that takes effect.  Where it is not acknowledged, or the process
\* dies right after it, the run has failed with its quizzes stored.
SeedCommit(s) ==
  /\ seed[s] = "running"
  /\ at[s] \notin DOMAIN SeedQuizzes
  /\ quizzes' = quizzes \cup pending[s]
  /\ pending' = [pending EXCEPT ![s] = {}]
  /\ \/ seed' = [seed EXCEPT ![s] = "done"]
     \/ CatalogFaults /\ seed' = [seed EXCEPT ![s] = "failed"]
  /\ UNCHANGED <<at, before>> /\ RequestsUnchanged

\* An error, or the end of the process, before the COMMIT takes effect.
SeedFails(s) ==
  /\ CatalogFaults
  /\ seed[s] = "running"
  /\ seed' = [seed EXCEPT ![s] = "failed"]
  /\ pending' = [pending EXCEPT ![s] = {}]
  /\ UNCHANGED <<quizzes, at, before>> /\ RequestsUnchanged

PostNext == \E c \in Creates : RejectQuiz(c) \/ CreateQuiz(c) \/ CreateFails(c)

SeedNext ==
  \E s \in SeedRuns :
    \/ SeedStart(s)
    \/ SeedSkip(s) \/ SeedAdd(s) \/ SeedRaises(s)
    \/ SeedCommit(s) \/ SeedFails(s)

CatalogNext == PostNext \/ SeedNext

CatalogSpec == CatalogInit /\ [][CatalogNext]_catalogVars

-----------------------------------------------------------------------------
\* The orders in which a session lists a quiz it has loaded: by position, and
\* as Postgres pleases where positions are equal.  GET /quizzes/{id} and POST
\* /attempts answer with one of them.
Listings(z) ==
  {order \in [DOMAIN z.questions -> DOMAIN z.questions] :
     /\ \A i, j \in DOMAIN order : order[i] = order[j] => i = j
     /\ \A i, j \in DOMAIN order :
          i < j => z.questions[order[i]].position <= z.questions[order[j]].position}

\* What POST /quizzes answers with: the session keeps the questions it has just
\* written, which the SELECT after the COMMIT does not order again.
PostListing(z) == [i \in DOMAIN z.questions |-> i]

\* Every stored question has exactly one correct option, which submit_attempt
\* takes for granted: the API checks it, the seed goes round the check.
StoredQuizzesAreAnswerable ==
  \A z \in quizzes : \A i \in DOMAIN z.questions :
    CorrectCount(z.questions[i]) = 1

\* Without given positions every listing is in the order of the request, and so
\* is the answer to the POST.  Positions that are given reorder the listings,
\* never that answer: it is at odds with all of them exactly when a given
\* position is out of order.  Two listings of one quiz differ only where
\* positions collide, and only given ones do, with each other or with an index.
ListingsKeepTheOrder ==
  \A c \in Creates : reply[c] = "created" =>
    LET z == Stored(c, post[c])
        questions == post[c].questions
        given == {i \in DOMAIN questions : questions[i].position # 0}
        position == [i \in DOMAIN questions |-> z.questions[i].position]
        collide == \E i \in given : \E j \in DOMAIN questions \ {i} :
                     position[i] = position[j]
        misplaced == {i \in given : \E j \in DOMAIN questions :
                        \/ i < j /\ position[i] > position[j]
                        \/ j < i /\ position[j] > position[i]}
    IN  /\ z \in quizzes
        /\ given = {} => Listings(z) = {PostListing(z)}
        /\ PostListing(z) \in Listings(z) <=> misplaced = {}
        /\ (\E one, other \in Listings(z) : one # other) <=> collide

\* The quizzes a run has left in the tables.
LeftBy(s) == {z \in quizzes : z.by = s}

\* A run of the seed stores all it misses at once or nothing, however runs and
\* requests overlap: once a run has ended well, or has left a quiz, every seed
\* title has one, and a run that raised or is still at work has left none.  A
\* run that failed may have left all of its own, so it has to be safe to re-run.
SeedIsAllOrNothing ==
  \A s \in SeedRuns :
    /\ LeftBy(s) # {} => seed[s] \in {"done", "failed"}
    /\ LeftBy(s) # {} \/ seed[s] = "done" =>
         \A t \in SeedTitles : \E z \in quizzes : z.title = t

\* A run adds no title that was there when it began: two quizzes of one seed
\* title come only from runs, or requests, that overlapped, or from requests.
SeedAddsOnlyMissingTitles ==
  \A s \in SeedRuns : \A z \in quizzes : z.by = s =>
    \A y \in before[s] : y.title # z.title

-----------------------------------------------------------------------------
\* scripts/seed.py: safe to re-run, quizzes are skipped when a row with the
\* same title already exists.  With two such rows, which the API lets clients
\* create, a run of the seed raises and adds nothing.
SeedSkipsExistingTitles ==
  \A s \in SeedRuns : seed[s] # "raised"

=============================================================================
