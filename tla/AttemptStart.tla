---------------------------- MODULE AttemptStart ----------------------------
(***************************************************************************)
(* POST /attempts: AttemptService.start_attempt with the upsert of the     *)
(* user by email (app/users/repository.py), run concurrently for several   *)
(* requests.                                                               *)
(*                                                                         *)
(* The upsert is a SELECT followed, awaits later, by an INSERT or UPDATE   *)
(* built from what the SELECT saw.  SQLAlchemy writes an UPDATE only when  *)
(* the assigned name differs from the loaded one.  A user and an attempt   *)
(* are named by the request that inserts them.  started_at is now(), the   *)
(* time the transaction began: here its place among those that have begun. *)
(***************************************************************************)
EXTENDS Naturals, FiniteSets

CONSTANTS
  Starts,       \* the POST /attempts requests clients make
  Emails,
  Names,
  QuizIds,      \* the ids a client may name
  Quizzes,      \* the quizzes create_quiz or the seed has committed
  StartFaults   \* whether database errors happen

ASSUME StartAssumption ==
  /\ Quizzes \subseteq QuizIds
  /\ StartFaults \in BOOLEAN

VARIABLES
  users,     \* table users
  started,   \* table attempts, as start_attempt inserts its rows
  ask,       \* what each client posts
  step,      \* how far each request is, or the answer it was given
  seen,      \* what get_by_email returned: the set of the row, or no row
  began,     \* now() in the transaction of each request, 0 before it begins
  behind     \* history: the requests answered with an attempt by then

startVars == <<users, started, ask, step, seen, began, behind>>

UserRow == [id : Starts, email : Emails, name : Names]

AttemptInsert == [id : Starts, user : Starts, quiz : Quizzes, started_at : Nat]

\* A flush that wrote the users table holds a lock until its transaction ends.
Writing == {"inserted", "updated"}

\* The requests that have begun and are not answered.
InFlight == {"loaded", "kept"} \cup Writing

\* "server_error" is also the fate of a request whose API process died.
Steps == {"idle", "created", "quiz_not_found", "server_error"} \cup InFlight

StartTypeOK ==
  /\ users \subseteq UserRow
  /\ started \subseteq AttemptInsert
  /\ ask \in [Starts -> [name : Names, email : Emails, quiz : QuizIds]]
  /\ step \in [Starts -> Steps]
  /\ seen \in [Starts -> SUBSET UserRow]
  /\ began \in [Starts -> Nat]
  /\ behind \in [Starts -> SUBSET Starts]

StartInit ==
  /\ users = {}
  /\ started = {}
  /\ ask \in [Starts -> [name : Names, email : Emails, quiz : QuizIds]]
  /\ step = [r \in Starts |-> "idle"]
  /\ seen = [r \in Starts |-> {}]
  /\ began = [r \in Starts |-> 0]
  /\ behind = [r \in Starts |-> {}]

-----------------------------------------------------------------------------
UsersWith(email) == {u \in users : u.email = email}

\* Another transaction has inserted or updated the user with this email and
\* not ended: the unique index, or the row lock, makes a second one wait.
EmailLocked(email) ==
  \E s \in Starts : step[s] \in Writing /\ ask[s].email = email

Begun == {r \in Starts : began[r] # 0}

Answered == {r \in Starts : step[r] = "created"}

Move(r, from, to) == step[r] = from /\ step' = [step EXCEPT ![r] = to]

TablesUnchanged == UNCHANGED <<users, started>>

QuizNotFound(r) ==
  /\ ask[r].quiz \notin Quizzes
  /\ Move(r, "idle", "quiz_not_found")
  /\ TablesUnchanged /\ UNCHANGED <<ask, seen, began, behind>>

\* The SELECT of the quiz, which never changes, and get_by_email.
LoadUser(r) ==
  /\ ask[r].quiz \in Quizzes
  /\ Move(r, "idle", "loaded")
  /\ seen' = [seen EXCEPT ![r] = UsersWith(ask[r].email)]
  /\ began' = [began EXCEPT ![r] = Cardinality(Begun) + 1]
  /\ behind' = [behind EXCEPT ![r] = Answered]
  /\ TablesUnchanged /\ UNCHANGED ask

\* Mistaken: the name of an existing user is never assigned.
SameNameAlways(r) == seen[r] # {}

SameName(r) == \E u \in seen[r] : u.name = ask[r].name

\* existing.name = name is no change: the flush writes nothing.
KeepUser(r) ==
  /\ SameName(r)
  /\ Move(r, "loaded", "kept")
  /\ TablesUnchanged /\ UNCHANGED <<ask, seen, began, behind>>

UpdateUser(r) ==
  /\ seen[r] # {} /\ ~SameName(r)
  /\ ~EmailLocked(ask[r].email)
  /\ Move(r, "loaded", "updated")
  /\ TablesUnchanged /\ UNCHANGED <<ask, seen, began, behind>>

\* Mistaken: the upsert commits the user it inserts, apart from the attempt.
InsertUserCommits(r) ==
  /\ seen[r] = {}
  /\ ~EmailLocked(ask[r].email)
  /\ UsersWith(ask[r].email) = {}
  /\ Move(r, "loaded", "inserted")
  /\ users' = users \cup {[id |-> r, email |-> ask[r].email, name |-> ask[r].name]}
  /\ UNCHANGED <<started, ask, seen, began, behind>>

InsertUser(r) ==
  /\ seen[r] = {}
  /\ ~EmailLocked(ask[r].email)
  /\ UsersWith(ask[r].email) = {}
  /\ Move(r, "loaded", "inserted")
  /\ TablesUnchanged /\ UNCHANGED <<ask, seen, began, behind>>

\* Another request has inserted the user since get_by_email: IntegrityError.
InsertConflict(r) ==
  /\ seen[r] = {}
  /\ ~EmailLocked(ask[r].email)
  /\ UsersWith(ask[r].email) # {}
  /\ Move(r, "loaded", "server_error")
  /\ TablesUnchanged /\ UNCHANGED <<ask, seen, began, behind>>

-----------------------------------------------------------------------------
\* The table users once the transaction of r has committed.
UsersAfter(r) ==
  LET email == ask[r].email
      name  == ask[r].name
  IN  CASE step[r] = "inserted" -> users \cup {[id |-> r, email |-> email, name |-> name]}
        [] step[r] = "updated"  -> {IF u.email = email THEN [u EXCEPT !.name = name]
                                                       ELSE u : u \in users}
        [] OTHER                -> users

\* Mistaken: the row in place of its id; a new id for an existing user.
UserRowOf(r) == IF seen[r] = {} THEN r ELSE CHOOSE u \in seen[r] : TRUE
UserAlwaysNew(r) == r

\* The user the attempt refers to, and the response carries.
UserOf(r) == IF seen[r] = {} THEN r ELSE (CHOOSE u \in seen[r] : TRUE).id

\* The INSERT of the attempt, the COMMIT, and the answer.  The COMMIT may go
\* through and the client be told of an error: its acknowledgement is lost, or
\* the refresh of the attempt fails.
Store(r, answer) ==
  /\ step[r] \in Writing \cup {"kept"}
  /\ users' = UsersAfter(r)
  /\ started' = started \cup {[id |-> r, user |-> UserOf(r), quiz |-> ask[r].quiz,
                               started_at |-> began[r]]}
  /\ step' = [step EXCEPT ![r] = answer]
  /\ UNCHANGED <<ask, seen, began, behind>>

CommitStart(r) == Store(r, "created")

\* A statement or the COMMIT fails and the transaction rolls back, or it is
\* the acknowledgement that is lost.
StartFails(r) ==
  /\ StartFaults
  /\ \/ /\ step[r] \in {"idle"} \cup InFlight
        /\ step' = [step EXCEPT ![r] = "server_error"]
        /\ TablesUnchanged /\ UNCHANGED <<ask, seen, began, behind>>
     \/ Store(r, "server_error")

\* The API process dies: what is under way rolls back, its clients hear nothing.
CutStarts ==
  /\ StartFaults
  /\ step' = [r \in Starts |-> IF step[r] \in InFlight
                               THEN "server_error" ELSE step[r]]
  /\ TablesUnchanged /\ UNCHANGED <<ask, seen, began, behind>>

StartStep(r) ==
  \/ QuizNotFound(r) \/ LoadUser(r)
  \/ KeepUser(r) \/ UpdateUser(r) \/ InsertUser(r) \/ InsertConflict(r)
  \/ CommitStart(r) \/ StartFails(r)

StartNext == (\E r \in Starts : StartStep(r)) \/ CutStarts

StartSpec == StartInit /\ [][StartNext]_startVars

-----------------------------------------------------------------------------
\* Concurrent upserts never leave two users with one email, and a user exists
\* only with an attempt of its own: the insert of the user is flushed apart
\* from that of the attempt, but they commit together.
UsersAreSound ==
  /\ \A u, v \in users : u.email = v.email => u = v
  /\ \A u \in users : \E t \in started : t.user = u.id

\* A request answered with an attempt has it stored, for the user that holds
\* the email it gave, however its transaction overlapped with others.
AttemptsBelongToTheAsker ==
  /\ \A r \in Starts : step[r] = "created" => \E t \in started : t.id = r
  /\ \A t \in started : \E u \in users :
       u.id = t.user /\ u.email = ask[t.id].email

\* When a request is answered its name is the one stored, unless another
\* request has renamed the user since it was loaded.
NameStoredUnlessStale ==
  [][\A r \in Starts : step[r] # "created" /\ step'[r] = "created" =>
       \/ \E u \in users' : u.email = ask[r].email /\ u.name = ask[r].name
       \/ seen[r] # UsersWith(ask[r].email)]_startVars

-----------------------------------------------------------------------------
\* The directory seen in this state: a request has its answer when it is over.
StartReplies ==
  [r \in Starts |-> IF step[r] \in {"idle"} \cup InFlight THEN "none" ELSE step[r]]

Listed(user) == [id |-> user.id, name |-> user.name]

UserEntries == [email \in Emails |-> {Listed(user) : user \in UsersWith(email)}]

AttemptOwners == {[attempt |-> t.id, user |-> t.user] : t \in started}

Directory == INSTANCE UserDirectory WITH
  posted <- ask, reply <- StartReplies,
  directory <- UserEntries, owners <- AttemptOwners

\* However upserts by email overlap, read what is stale and fail, each looks like
\* one step: an email keeps the user it was first given, every later request
\* with it gets an attempt of that user, and one that fails leaves nothing or
\* all it was to do.
DirectoryKept == Directory!Spec

-----------------------------------------------------------------------------
\* The parts of the inductive invariant behind the properties above.

\* What a request has loaded is there as it goes on, but for the name.
LoadedIsStored ==
  \A r \in Starts : step[r] \in InFlight =>
    /\ ask[r].quiz \in Quizzes
    /\ \A u \in seen[r] :
         /\ u.email = ask[r].email
         /\ \E v \in users : v.id = u.id /\ v.email = u.email

\* What a request writes is what its SELECT called for, and a request that
\* inserts a user is still the first with the email.
WritesFollowLoads ==
  \A r \in Starts :
    /\ step[r] = "kept" => SameName(r)
    /\ step[r] = "updated" => seen[r] # {}
    /\ step[r] = "inserted" => seen[r] = {} /\ UsersWith(ask[r].email) = {}

\* One transaction at a time has written the user with an email.
WritersExclude ==
  \A r, s \in Starts :
    step[r] \in Writing /\ step[s] \in Writing /\ ask[r].email = ask[s].email => r = s

\* However upserts overlap and fail, no two write the user with an email at a
\* time, and each writes what it loaded calls for; so users stay unique and
\* every attempt is of the user its request asked for.
StartInv ==
  /\ LoadedIsStored
  /\ WritesFollowLoads
  /\ WritersExclude
  /\ UsersAreSound
  /\ AttemptsBelongToTheAsker

\* An attempt is what its request asked for, and the request is over.
StartedAsAsked ==
  \A t \in started :
    /\ step[t.id] \in {"created", "server_error"}
    /\ t.user = UserOf(t.id) /\ t.quiz = ask[t.id].quiz
    /\ t.started_at = began[t.id]

\* A transaction that began after a request was answered began after that of
\* the request did.
BeginningsInOrder ==
  \A r \in Starts :
    /\ step[r] = "idle" => began[r] = 0
    /\ step[r] \in InFlight \cup {"created"} => began[r] # 0
    /\ began[r] <= Cardinality(Begun)
    /\ \A q \in behind[r] : step[q] = "created" /\ began[q] < began[r]

\* Ordering attempts by the time their transactions began puts them in the
\* order in which clients learned of them.
StartOrderInv == StartedAsAsked /\ BeginningsInOrder

=============================================================================
