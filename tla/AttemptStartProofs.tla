-------------------------- MODULE AttemptStartProofs --------------------------
(***************************************************************************)
(* AttemptStart, for any number of requests, emails, names and quizzes:    *)
(* its types, the invariant StartInv, and what follows from them.          *)
(***************************************************************************)
EXTENDS AttemptStart, FiniteSetTheorems, TLAPS

\* Needed for began: the numbers of the requests that have begun are numbers.
FinitelyBegun == IsFiniteSet(Begun)

FullInv == StartTypeOK /\ StartInv /\ FinitelyBegun

-----------------------------------------------------------------------------
(* The shapes of a step.                                                   *)

LEMMA StepMoved ==
  ASSUME StartTypeOK, NEW r \in Starts, NEW to, step' = [step EXCEPT ![r] = to]
  PROVE  step'[r] = to /\ \A s \in Starts \ {r} : step'[s] = step[s]
  BY DEF StartTypeOK

\* The row of the user the request found or inserts.
LEMMA UserOfFound ==
  ASSUME NEW r \in Starts, seen[r] # {}
  PROVE  \E u \in seen[r] : UserOf(r) = u.id
<1>1. PICK u \in seen[r] : u = CHOOSE w \in seen[r] : TRUE
  OBVIOUS
<1> QED
  BY <1>1 DEF UserOf

LEMMA UserOfType ==
  ASSUME StartTypeOK, NEW r \in Starts
  PROVE  UserOf(r) \in Starts
<1>1. CASE seen[r] = {}
  BY <1>1 DEF UserOf
<1>2. CASE seen[r] # {}
  <2>1. PICK u \in seen[r] : UserOf(r) = u.id
    BY <1>2, UserOfFound
  <2>2. u \in UserRow
    BY DEF StartTypeOK
  <2> QED
    BY <2>1, <2>2 DEF UserRow
<1> QED
  BY <1>1, <1>2

\* What becomes of a row when the transaction of r commits.
Renamed(r, u) ==
  IF step[r] = "updated" /\ u.email = ask[r].email
  THEN [u EXCEPT !.name = ask[r].name] ELSE u

NewUser(r) == [id |-> r, email |-> ask[r].email, name |-> ask[r].name]

LEMMA UsersAfterShape ==
  ASSUME NEW r \in Starts
  PROVE  UsersAfter(r) = {Renamed(r, u) : u \in users}
                           \cup (IF step[r] = "inserted" THEN {NewUser(r)} ELSE {})
<1>1. CASE step[r] = "inserted"
  BY <1>1 DEF UsersAfter, Renamed, NewUser
<1>2. CASE step[r] = "updated"
  BY <1>2 DEF UsersAfter, Renamed
<1>3. CASE step[r] # "inserted" /\ step[r] # "updated"
  BY <1>3 DEF UsersAfter, Renamed
<1> QED
  BY <1>1, <1>2, <1>3

LEMMA RenamedRow ==
  ASSUME StartTypeOK, NEW r \in Starts, NEW u \in UserRow
  PROVE  /\ Renamed(r, u) \in UserRow
         /\ Renamed(r, u).id = u.id
         /\ Renamed(r, u).email = u.email
<1>1. ask[r].name \in Names
  BY DEF StartTypeOK
<1> QED
  BY <1>1 DEF Renamed, UserRow

LEMMA NewUserRow ==
  ASSUME StartTypeOK, NEW r \in Starts
  PROVE  NewUser(r) \in UserRow /\ NewUser(r).id = r /\ NewUser(r).email = ask[r].email
<1>1. ask[r] \in [name : Names, email : Emails, quiz : QuizIds]
  BY DEF StartTypeOK
<1> QED
  BY <1>1 DEF NewUser, UserRow

\* Ids and emails survive a commit, and only a new user adds any.
LEMMA UsersAfterRows ==
  ASSUME StartTypeOK, NEW r \in Starts
  PROVE  /\ UsersAfter(r) \subseteq UserRow
         /\ \A u \in users : \E v \in UsersAfter(r) : v.id = u.id /\ v.email = u.email
         /\ \A v \in UsersAfter(r) :
              \/ \E u \in users : v = Renamed(r, u) /\ v.id = u.id /\ v.email = u.email
              \/ step[r] = "inserted" /\ v = NewUser(r)
<1>1. users \subseteq UserRow
  BY DEF StartTypeOK
<1>2. \A u \in users : /\ Renamed(r, u) \in UserRow
                       /\ Renamed(r, u).id = u.id
                       /\ Renamed(r, u).email = u.email
  BY <1>1, RenamedRow
<1> QED
  BY <1>2, UsersAfterShape, NewUserRow

-----------------------------------------------------------------------------
(* The types.                                                              *)

LEMMA InitFull == StartInit => FullInv
<1> SUFFICES ASSUME StartInit PROVE FullInv
  OBVIOUS
<1>1. StartTypeOK
  BY DEF StartInit, StartTypeOK, Steps, InFlight
<1>2. StartInv
  BY DEF StartInit, StartInv, LoadedIsStored, WritesFollowLoads, WritersExclude,
         UsersAreSound, AttemptsBelongToTheAsker, InFlight, Writing
<1>3. Begun = {}
  BY DEF StartInit, Begun
<1> QED
  BY <1>1, <1>2, <1>3, FS_EmptySet DEF FullInv, FinitelyBegun

LEMMA StoreType ==
  ASSUME StartTypeOK, LoadedIsStored, NEW r \in Starts,
         NEW answer \in {"created", "server_error"}, Store(r, answer)
  PROVE  StartTypeOK'
<1>1. users' \subseteq UserRow
  BY UsersAfterRows DEF Store
<1>2. ask[r].quiz \in Quizzes
  BY DEF LoadedIsStored, Store, InFlight
<1>3. began[r] \in Nat /\ UserOf(r) \in Starts
  BY UserOfType DEF StartTypeOK
<1>4. started' \subseteq AttemptInsert
  BY <1>2, <1>3 DEF StartTypeOK, Store, AttemptInsert
<1> QED
  BY <1>1, <1>4 DEF StartTypeOK, Store, Steps

LEMMA StepType ==
  ASSUME FullInv, NEW r \in Starts, StartStep(r)
  PROVE  StartTypeOK' /\ FinitelyBegun'
<1> USE DEF FullInv, StartInv
<1>1. CASE QuizNotFound(r)
  BY <1>1 DEF QuizNotFound, Move, TablesUnchanged, StartTypeOK, Steps, FinitelyBegun, Begun
<1>2. CASE LoadUser(r)
  <2>1. Cardinality(Begun) + 1 \in Nat
    BY FS_CardinalityType DEF FinitelyBegun
  <2>2. UsersWith(ask[r].email) \subseteq UserRow
    BY DEF UsersWith, StartTypeOK
  <2>3. began' \in [Starts -> Nat] /\ seen' \in [Starts -> SUBSET UserRow]
    BY <1>2, <2>1, <2>2 DEF LoadUser, StartTypeOK
  <2>4. behind' \in [Starts -> SUBSET Starts]
    BY <1>2 DEF LoadUser, StartTypeOK, Answered
  <2>5. Begun' \subseteq Begun \cup {r}
    BY <1>2 DEF LoadUser, StartTypeOK, Begun
  <2>6. IsFiniteSet(Begun \cup {r})
    BY FS_AddElement DEF FinitelyBegun
  <2>7. FinitelyBegun'
    BY <2>5, <2>6, FS_Subset DEF FinitelyBegun
  <2> QED
    BY <1>2, <2>3, <2>4, <2>7
       DEF LoadUser, Move, TablesUnchanged, StartTypeOK, Steps, InFlight
<1>3. CASE KeepUser(r)
  BY <1>3 DEF KeepUser, Move, TablesUnchanged, StartTypeOK, Steps, InFlight,
              FinitelyBegun, Begun
<1>4. CASE UpdateUser(r)
  BY <1>4 DEF UpdateUser, Move, TablesUnchanged, StartTypeOK, Steps, InFlight, Writing,
              FinitelyBegun, Begun
<1>5. CASE InsertUser(r)
  BY <1>5 DEF InsertUser, Move, TablesUnchanged, StartTypeOK, Steps, InFlight, Writing,
              FinitelyBegun, Begun
<1>6. CASE InsertConflict(r)
  BY <1>6 DEF InsertConflict, Move, TablesUnchanged, StartTypeOK, Steps,
              FinitelyBegun, Begun
<1>7. ASSUME NEW answer \in {"created", "server_error"}, Store(r, answer)
      PROVE  StartTypeOK' /\ FinitelyBegun'
  <2>1. StartTypeOK'
    BY <1>7, StoreType
  <2> QED
    BY <1>7, <2>1 DEF Store, FinitelyBegun, Begun
<1>8. CASE CommitStart(r)
  BY <1>7, <1>8 DEF CommitStart
<1>9. CASE StartFails(r)
  <2>1. CASE Store(r, "server_error")
    BY <1>7, <2>1
  <2>2. CASE ~Store(r, "server_error")
    BY <1>9, <2>2 DEF StartFails, TablesUnchanged, StartTypeOK, Steps, FinitelyBegun, Begun
  <2> QED
    BY <2>1, <2>2
<1> QED
  BY <1>1, <1>2, <1>3, <1>4, <1>5, <1>6, <1>8, <1>9 DEF StartStep

LEMMA CutType ==
  ASSUME FullInv, CutStarts
  PROVE  StartTypeOK' /\ FinitelyBegun'
<1> USE DEF FullInv
<1>1. step' \in [Starts -> Steps]
  BY DEF CutStarts, StartTypeOK, Steps
<1> QED
  BY <1>1 DEF CutStarts, TablesUnchanged, StartTypeOK, FinitelyBegun, Begun

-----------------------------------------------------------------------------
(* The invariant: the steps that write no row.                             *)

\* A step of r that commits nothing, to a stage that what r has loaded and the
\* locks of the others allow.
AllowedMove(r, to) ==
  /\ step' = [step EXCEPT ![r] = to]
  /\ UNCHANGED <<users, started, ask, seen>>
  /\ to # "created"
  /\ to \in InFlight => step[r] \in InFlight
  /\ to = "kept" => SameName(r)
  /\ to = "updated" => seen[r] # {}
  /\ to = "inserted" => seen[r] = {} /\ UsersWith(ask[r].email) = {}
  /\ to \in Writing => ~EmailLocked(ask[r].email)

LEMMA AllowedMoveKeeps ==
  ASSUME FullInv, NEW r \in Starts, NEW to, AllowedMove(r, to)
  PROVE  StartInv'
<1> USE DEF FullInv, StartInv
<1>1. step'[r] = to /\ \A s \in Starts \ {r} : step'[s] = step[s]
  BY StepMoved DEF AllowedMove
<1>2. UNCHANGED <<users, started, ask, seen>>
  BY DEF AllowedMove
<1>3. LoadedIsStored'
  BY <1>1, <1>2 DEF AllowedMove, LoadedIsStored
<1>4. WritesFollowLoads'
  BY <1>1, <1>2 DEF AllowedMove, WritesFollowLoads, SameName, UsersWith
<1>5. WritersExclude'
  BY <1>1, <1>2 DEF AllowedMove, WritersExclude, EmailLocked
<1>6. UsersAreSound'
  BY <1>2 DEF UsersAreSound
<1>7. AttemptsBelongToTheAsker'
  BY <1>1, <1>2 DEF AllowedMove, AttemptsBelongToTheAsker
<1> QED
  BY <1>3, <1>4, <1>5, <1>6, <1>7

LEMMA LoadKeeps ==
  ASSUME FullInv, NEW r \in Starts, LoadUser(r)
  PROVE  StartInv'
<1> USE DEF FullInv, StartInv
<1>1. step'[r] = "loaded" /\ \A s \in Starts \ {r} : step'[s] = step[s]
  BY StepMoved DEF LoadUser, Move
<1>2. /\ seen'[r] = UsersWith(ask[r].email)
      /\ \A s \in Starts \ {r} : seen'[s] = seen[s]
  BY DEF LoadUser, StartTypeOK
<1>3. UNCHANGED <<users, started, ask>> /\ ask[r].quiz \in Quizzes
  BY DEF LoadUser, TablesUnchanged
<1>4. LoadedIsStored'
  BY <1>1, <1>2, <1>3 DEF LoadedIsStored, UsersWith
<1>5. WritesFollowLoads'
  BY <1>1, <1>2, <1>3 DEF WritesFollowLoads, SameName, UsersWith
<1>6. WritersExclude'
  BY <1>1, <1>3 DEF WritersExclude, Writing
<1>7. UsersAreSound'
  BY <1>3 DEF UsersAreSound
<1>8. AttemptsBelongToTheAsker'
  BY <1>1, <1>3 DEF AttemptsBelongToTheAsker
<1> QED
  BY <1>4, <1>5, <1>6, <1>7, <1>8

LEMMA CutKeeps ==
  ASSUME FullInv, CutStarts
  PROVE  StartInv'
<1> USE DEF FullInv, StartInv
<1>1. \A r \in Starts : step'[r] = IF step[r] \in InFlight THEN "server_error" ELSE step[r]
  BY DEF CutStarts
<1>2. UNCHANGED <<users, started, ask, seen>>
  BY DEF CutStarts, TablesUnchanged
<1>3. \A r \in Starts : step'[r] \notin InFlight
  BY <1>1 DEF InFlight, Writing
<1>4. LoadedIsStored' /\ WritesFollowLoads' /\ WritersExclude'
  BY <1>3 DEF LoadedIsStored, WritesFollowLoads, WritersExclude, InFlight, Writing
<1>5. UsersAreSound'
  BY <1>2 DEF UsersAreSound
<1>6. AttemptsBelongToTheAsker'
  BY <1>1, <1>2 DEF AttemptsBelongToTheAsker
<1> QED
  BY <1>4, <1>5, <1>6

-----------------------------------------------------------------------------
(* The invariant: the commit.                                              *)

\* The user of the attempt is there once the transaction has committed.
LEMMA UserIsThere ==
  ASSUME FullInv, NEW r \in Starts, step[r] \in Writing \cup {"kept"}
  PROVE  \E u \in UsersAfter(r) : u.id = UserOf(r) /\ u.email = ask[r].email
<1> USE DEF FullInv, StartInv
<1>1. CASE seen[r] = {}
  <2>1. step[r] = "inserted"
    BY <1>1 DEF WritesFollowLoads, SameName, Writing
  <2>2. NewUser(r) \in UsersAfter(r)
    BY <2>1, UsersAfterShape
  <2> QED
    BY <1>1, <2>2, NewUserRow DEF UserOf
<1>2. CASE seen[r] # {}
  <2>1. PICK u \in seen[r] : UserOf(r) = u.id
    BY <1>2, UserOfFound
  <2>2. u.email = ask[r].email /\ \E v \in users : v.id = u.id /\ v.email = u.email
    BY DEF LoadedIsStored, InFlight
  <2> QED
    BY <2>1, <2>2, UsersAfterRows
<1> QED
  BY <1>1, <1>2

\* A user is inserted under an email that no other has.
LEMMA InsertIsFirst ==
  ASSUME FullInv, NEW r \in Starts, step[r] = "inserted"
  PROVE  \A u \in users : u.email # ask[r].email
  BY DEF FullInv, StartInv, WritesFollowLoads, UsersWith

LEMMA StoreKeepsUsersSound ==
  ASSUME FullInv, NEW r \in Starts, NEW answer, Store(r, answer)
  PROVE  UsersAreSound'
<1> USE DEF FullInv, StartInv
<1> DEFINE attempt == [id |-> r, user |-> UserOf(r), quiz |-> ask[r].quiz,
                       started_at |-> began[r]]
<1>1. users' = UsersAfter(r) /\ started' = started \cup {attempt}
  BY DEF Store
<1>2. ASSUME NEW v \in users', NEW w \in users', v.email = w.email
      PROVE  v = w
  <2>1. CASE \E u, x \in users : /\ v = Renamed(r, u) /\ v.email = u.email
                                /\ w = Renamed(r, x) /\ w.email = x.email
    BY <1>2, <2>1 DEF UsersAreSound
  <2>2. CASE step[r] = "inserted" /\ (v = NewUser(r) \/ w = NewUser(r))
    BY <1>1, <1>2, <2>2, InsertIsFirst, NewUserRow, UsersAfterRows
  <2> QED
    BY <1>1, <2>1, <2>2, UsersAfterRows
<1>3. ASSUME NEW v \in users'
      PROVE  \E t \in started' : t.user = v.id
  <2>1. CASE \E u \in users : v.id = u.id
    BY <1>1, <2>1 DEF UsersAreSound
  <2>2. CASE step[r] = "inserted" /\ v = NewUser(r)
    <3>1. UserOf(r) = r
      BY <2>2 DEF WritesFollowLoads, UserOf
    <3>2. attempt \in started' /\ attempt.user = r
      BY <1>1, <3>1
    <3>3. v.id = r
      BY <2>2, NewUserRow
    <3> QED
      BY <3>2, <3>3
  <2> QED
    BY <1>1, <2>1, <2>2, UsersAfterRows
<1> QED
  BY <1>2, <1>3 DEF UsersAreSound

LEMMA StoreKeepsAttempts ==
  ASSUME FullInv, NEW r \in Starts, NEW answer, Store(r, answer)
  PROVE  AttemptsBelongToTheAsker'
<1> USE DEF FullInv, StartInv
<1> DEFINE attempt == [id |-> r, user |-> UserOf(r), quiz |-> ask[r].quiz,
                       started_at |-> began[r]]
<1>1. users' = UsersAfter(r) /\ started' = started \cup {attempt} /\ ask' = ask
  BY DEF Store
<1>2. step'[r] = answer /\ \A s \in Starts \ {r} : step'[s] = step[s]
  BY StepMoved DEF Store
<1>3. \A s \in Starts : step'[s] = "created" => \E t \in started' : t.id = s
  <2>1. attempt \in started' /\ attempt.id = r
    BY <1>1
  <2> QED
    BY <1>1, <1>2, <2>1 DEF AttemptsBelongToTheAsker
<1>4. ASSUME NEW t \in started'
      PROVE  \E u \in users' : u.id = t.user /\ u.email = ask[t.id].email
  <2>1. CASE t \in started
    BY <1>1, <2>1, UsersAfterRows DEF AttemptsBelongToTheAsker
  <2>2. CASE t = attempt
    BY <1>1, <2>2, UserIsThere DEF Store
  <2> QED
    BY <1>1, <2>1, <2>2
<1> QED
  BY <1>1, <1>3, <1>4 DEF AttemptsBelongToTheAsker

LEMMA StoreKeeps ==
  ASSUME FullInv, NEW r \in Starts, NEW answer \in {"created", "server_error"},
         Store(r, answer)
  PROVE  StartInv'
<1> USE DEF FullInv, StartInv
<1>1. step'[r] = answer /\ \A s \in Starts \ {r} : step'[s] = step[s]
  BY StepMoved DEF Store
<1>2. users' = UsersAfter(r) /\ UNCHANGED <<ask, seen>> /\ step[r] \in Writing \cup {"kept"}
  BY DEF Store
<1>3. step'[r] \notin InFlight
  BY <1>1 DEF InFlight, Writing
<1>4. LoadedIsStored'
  <2> SUFFICES ASSUME NEW s \in Starts, step'[s] \in InFlight
               PROVE  /\ ask[s].quiz \in Quizzes
                      /\ \A u \in seen[s] :
                           /\ u.email = ask[s].email
                           /\ \E v \in users' : v.id = u.id /\ v.email = u.email
    BY <1>2 DEF LoadedIsStored
  <2>1. step[s] \in InFlight
    BY <1>1, <1>3
  <2> QED
    BY <1>2, <2>1, UsersAfterRows DEF LoadedIsStored
<1>5. WritesFollowLoads'
  <2> SUFFICES ASSUME NEW s \in Starts
               PROVE  /\ step'[s] = "kept" => SameName(s)'
                      /\ step'[s] = "updated" => seen'[s] # {}
                      /\ step'[s] = "inserted" =>
                           seen'[s] = {} /\ UsersWith(ask[s].email)' = {}
    BY <1>2 DEF WritesFollowLoads, UsersWith
  <2>1. CASE s = r
    BY <1>3, <2>1 DEF InFlight, Writing
  <2>2. CASE s # r /\ step[s] # "inserted"
    BY <1>1, <1>2, <2>2 DEF WritesFollowLoads, SameName
  <2>3. CASE s # r /\ step[s] = "inserted"
    <3>1. step[r] = "inserted" => ask[r].email # ask[s].email
      BY <2>3 DEF WritersExclude, Writing
    <3>2. \A v \in UsersAfter(r) : v.email # ask[s].email
      BY <2>3, <3>1, InsertIsFirst, NewUserRow, UsersAfterRows
    <3>3. UsersWith(ask[s].email)' = {}
      BY <1>2, <3>2 DEF UsersWith
    <3> QED
      BY <1>1, <1>2, <2>3, <3>3 DEF WritesFollowLoads
  <2> QED
    BY <2>1, <2>2, <2>3
<1>6. WritersExclude'
  BY <1>1, <1>2, <1>3 DEF WritersExclude, InFlight
<1> QED
  BY <1>4, <1>5, <1>6, StoreKeepsUsersSound, StoreKeepsAttempts

-----------------------------------------------------------------------------
LEMMA StepKeeps ==
  ASSUME FullInv, NEW r \in Starts, StartStep(r)
  PROVE  StartInv'
<1>1. CASE QuizNotFound(r)
  <2>1. AllowedMove(r, "quiz_not_found")
    BY <1>1 DEF QuizNotFound, Move, TablesUnchanged, AllowedMove, InFlight, Writing
  <2> QED
    BY <2>1, AllowedMoveKeeps
<1>2. CASE LoadUser(r)
  BY <1>2, LoadKeeps
<1>3. CASE KeepUser(r)
  <2>1. AllowedMove(r, "kept")
    BY <1>3 DEF KeepUser, Move, TablesUnchanged, AllowedMove, InFlight, Writing
  <2> QED
    BY <2>1, AllowedMoveKeeps
<1>4. CASE UpdateUser(r)
  <2>1. AllowedMove(r, "updated")
    BY <1>4 DEF UpdateUser, Move, TablesUnchanged, AllowedMove, InFlight, Writing
  <2> QED
    BY <2>1, AllowedMoveKeeps
<1>5. CASE InsertUser(r)
  <2>1. AllowedMove(r, "inserted")
    BY <1>5 DEF InsertUser, Move, TablesUnchanged, AllowedMove, InFlight, Writing
  <2> QED
    BY <2>1, AllowedMoveKeeps
<1>6. CASE InsertConflict(r)
  <2>1. AllowedMove(r, "server_error")
    BY <1>6 DEF InsertConflict, Move, TablesUnchanged, AllowedMove, InFlight, Writing
  <2> QED
    BY <2>1, AllowedMoveKeeps
<1>7. CASE CommitStart(r)
  BY <1>7, StoreKeeps DEF CommitStart
<1>8. CASE StartFails(r)
  <2>1. CASE Store(r, "server_error")
    BY <2>1, StoreKeeps
  <2>2. CASE ~Store(r, "server_error")
    <3>1. AllowedMove(r, "server_error")
      BY <1>8, <2>2 DEF StartFails, TablesUnchanged, AllowedMove, InFlight, Writing
    <3> QED
      BY <3>1, AllowedMoveKeeps
  <2> QED
    BY <2>1, <2>2
<1> QED
  BY <1>1, <1>2, <1>3, <1>4, <1>5, <1>6, <1>7, <1>8 DEF StartStep

LEMMA FullInductive == FullInv /\ [StartNext]_startVars => FullInv'
<1> SUFFICES ASSUME FullInv, [StartNext]_startVars
             PROVE  FullInv'
  OBVIOUS
<1>1. ASSUME NEW r \in Starts, StartStep(r)
      PROVE  FullInv'
  BY <1>1, StepType, StepKeeps DEF FullInv
<1>2. CASE CutStarts
  BY <1>2, CutType, CutKeeps DEF FullInv
<1>3. CASE UNCHANGED startVars
  <2> USE <1>3 DEF startVars, FullInv
  <2>1. StartTypeOK' /\ FinitelyBegun'
    BY DEF StartTypeOK, FinitelyBegun, Begun
  <2>2. StartInv'
    BY DEF StartInv, LoadedIsStored, WritesFollowLoads, WritersExclude, UsersAreSound,
           AttemptsBelongToTheAsker, UsersWith, SameName
  <2> QED
    BY <2>1, <2>2
<1> QED
  BY <1>1, <1>2, <1>3 DEF StartNext

LEMMA FullInvariance == StartSpec => []FullInv
<1>1. StartInit => FullInv
  BY InitFull
<1>2. FullInv /\ [StartNext]_startVars => FullInv'
  BY FullInductive
<1> QED
  BY <1>1, <1>2, PTL DEF StartSpec

\* The tables and requests of POST /attempts keep their types: every attempt is
\* of a start, a user and a quiz that exist.
THEOREM StartTypeCorrect == StartSpec => []StartTypeOK
<1>1. FullInv => StartTypeOK
  BY DEF FullInv
<1> QED
  BY <1>1, FullInvariance, PTL

\* However upserts overlap and fail, no two write the user with an email at a
\* time, and each writes what it loaded calls for.
THEOREM StartInvariance == StartSpec => []StartInv
<1>1. FullInv => StartInv
  BY DEF FullInv
<1> QED
  BY <1>1, FullInvariance, PTL

\* No two users ever share an email, and each has an attempt.
THEOREM UsersAreAlwaysSound == StartSpec => []UsersAreSound
<1>1. FullInv => UsersAreSound
  BY DEF FullInv, StartInv
<1> QED
  BY <1>1, FullInvariance, PTL

\* Whoever is answered with an attempt has it stored, for the user with the
\* email it gave.
THEOREM AttemptsAlwaysBelong == StartSpec => []AttemptsBelongToTheAsker
<1>1. FullInv => AttemptsBelongToTheAsker
  BY DEF FullInv, StartInv
<1> QED
  BY <1>1, FullInvariance, PTL

-----------------------------------------------------------------------------
(* The name.                                                               *)

NameIsStored(r) ==
  step[r] # "created" /\ step'[r] = "created" =>
    \/ \E u \in users' : u.email = ask[r].email /\ u.name = ask[r].name
    \/ seen[r] # UsersWith(ask[r].email)

LEMMA CommitStoresName ==
  ASSUME FullInv, NEW r \in Starts, CommitStart(r)
  PROVE  NameIsStored(r)
<1> USE DEF FullInv, StartInv
<1> SUFFICES ASSUME seen[r] = UsersWith(ask[r].email)
             PROVE  \E u \in users' : u.email = ask[r].email /\ u.name = ask[r].name
  BY DEF NameIsStored
<1>1. users' = UsersAfter(r) /\ step[r] \in {"inserted", "updated", "kept"}
  BY DEF CommitStart, Store, Writing
<1>2. CASE step[r] = "inserted"
  <2>1. NewUser(r) \in users'
    BY <1>1, <1>2, UsersAfterShape
  <2>2. NewUser(r).email = ask[r].email /\ NewUser(r).name = ask[r].name
    BY DEF NewUser
  <2> QED
    BY <2>1, <2>2
<1>3. CASE step[r] = "updated"
  <2>1. PICK u \in users : u.email = ask[r].email
    BY <1>3 DEF WritesFollowLoads, UsersWith
  <2>2. u \in UserRow
    BY DEF StartTypeOK
  <2>3. Renamed(r, u).email = ask[r].email /\ Renamed(r, u).name = ask[r].name
    BY <1>3, <2>1, <2>2 DEF Renamed, UserRow
  <2> QED
    BY <1>1, <2>3, UsersAfterShape
<1>4. CASE step[r] = "kept"
  <2>1. PICK u \in users : u.email = ask[r].email /\ u.name = ask[r].name
    BY <1>4 DEF WritesFollowLoads, SameName, UsersWith
  <2>2. Renamed(r, u) = u
    BY <1>4 DEF Renamed
  <2> QED
    BY <1>1, <2>1, <2>2, UsersAfterShape
<1> QED
  BY <1>1, <1>2, <1>3, <1>4

LEMMA OnlyCommitCreates ==
  ASSUME FullInv, NEW r \in Starts, [StartNext]_startVars,
         step[r] # "created", step'[r] = "created"
  PROVE  CommitStart(r)
<1> USE DEF FullInv
<1>1. ASSUME NEW s \in Starts, StartStep(s), s # r
      PROVE  step'[r] = step[r]
  BY <1>1 DEF StartTypeOK, StartStep, QuizNotFound, LoadUser, KeepUser, UpdateUser,
              InsertUser, InsertConflict, CommitStart, StartFails, Store, Move
<1>2. CASE StartStep(r)
  BY <1>2 DEF StartTypeOK, StartStep, QuizNotFound, LoadUser, KeepUser, UpdateUser,
              InsertUser, InsertConflict, StartFails, Store, Move
<1>3. CASE CutStarts
  BY <1>3 DEF CutStarts
<1>4. CASE UNCHANGED startVars
  BY <1>4 DEF startVars
<1> QED
  BY <1>1, <1>2, <1>3, <1>4 DEF StartNext

\* When a request is answered its name is the one stored, unless another request
\* has written the user since it was loaded.
THEOREM NameAlwaysStoredUnlessStale == StartSpec => NameStoredUnlessStale
<1>1. FullInv /\ [StartNext]_startVars => [\A r \in Starts : NameIsStored(r)]_startVars
  <2> SUFFICES ASSUME FullInv, [StartNext]_startVars, NEW r \in Starts
               PROVE  NameIsStored(r)
    OBVIOUS
  <2>1. CASE step[r] # "created" /\ step'[r] = "created"
    BY <2>1, OnlyCommitCreates, CommitStoresName
  <2>2. CASE ~(step[r] # "created" /\ step'[r] = "created")
    BY <2>2 DEF NameIsStored
  <2> QED
    BY <2>1, <2>2
<1>2. [\A r \in Starts : NameIsStored(r)]_startVars =>
        [\A r \in Starts : step[r] # "created" /\ step'[r] = "created" =>
           \/ \E u \in users' : u.email = ask[r].email /\ u.name = ask[r].name
           \/ seen[r] # UsersWith(ask[r].email)]_startVars
  BY DEF NameIsStored
<1> QED
  BY <1>1, <1>2, FullInvariance, PTL DEF StartSpec, NameStoredUnlessStale

-----------------------------------------------------------------------------
(* The order in which attempts began.                                      *)

Over == {"created", "server_error"}

\* A request moves on, or fails, and nothing is written or begun.
QuietStart ==
  /\ UNCHANGED <<started, ask, seen, began, behind>>
  /\ \A s \in Starts :
       \/ step'[s] = step[s]
       \/ /\ step[s] \in {"idle"} \cup InFlight
          /\ step'[s] \notin {"idle", "created"}
          /\ step'[s] \in InFlight => step[s] \in InFlight

LEMMA StartStepShape ==
  ASSUME FullInv, [StartNext]_startVars
  PROVE  \/ QuietStart
         \/ \E r \in Starts : LoadUser(r)
         \/ \E r \in Starts, answer \in Over : Store(r, answer)
<1> USE DEF FullInv, StartTypeOK, QuietStart, TablesUnchanged, InFlight, Writing, Over
<1>1. ASSUME NEW r \in Starts, QuizNotFound(r) PROVE QuietStart
  BY <1>1 DEF QuizNotFound, Move
<1>2. ASSUME NEW r \in Starts, KeepUser(r) PROVE QuietStart
  BY <1>2 DEF KeepUser, Move
<1>3. ASSUME NEW r \in Starts, UpdateUser(r) PROVE QuietStart
  BY <1>3 DEF UpdateUser, Move
<1>4. ASSUME NEW r \in Starts, InsertUser(r) PROVE QuietStart
  BY <1>4 DEF InsertUser, Move
<1>5. ASSUME NEW r \in Starts, InsertConflict(r) PROVE QuietStart
  BY <1>5 DEF InsertConflict, Move
<1>6. ASSUME NEW r \in Starts, StartFails(r), ~Store(r, "server_error") PROVE QuietStart
  BY <1>6 DEF StartFails
<1>7. CASE CutStarts
  BY <1>7 DEF CutStarts
<1>8. CASE UNCHANGED startVars
  BY <1>8 DEF startVars
<1> HIDE DEF QuietStart
<1> QED
  BY <1>1, <1>2, <1>3, <1>4, <1>5, <1>6, <1>7, <1>8 DEF StartNext, StartStep, CommitStart

LEMMA QuietStartKeepsOrder ==
  ASSUME FullInv, StartOrderInv, QuietStart
  PROVE  StartOrderInv'
<1> USE DEF StartOrderInv, QuietStart
<1>1. StartedAsAsked'
  <2>1. \A t \in started : t.id \in Starts
    BY DEF FullInv, StartTypeOK, AttemptInsert
  <2> QED
    BY <2>1 DEF StartedAsAsked, UserOf, InFlight, Writing
<1>2. BeginningsInOrder'
  <2>1. \A r \in Starts : behind[r] \subseteq Starts
    BY DEF FullInv, StartTypeOK
  <2>2. Begun' = Begun
    BY DEF Begun
  <2> QED
    BY <2>1, <2>2 DEF BeginningsInOrder, InFlight, Writing
<1> QED
  BY <1>1, <1>2

LEMMA LoadKeepsOrder ==
  ASSUME FullInv, StartOrderInv, NEW r \in Starts, LoadUser(r)
  PROVE  StartOrderInv'
<1> USE DEF StartOrderInv
<1>1. /\ step[r] = "idle" /\ step'[r] = "loaded"
      /\ \A s \in Starts \ {r} : step'[s] = step[s]
  BY StepMoved DEF LoadUser, Move, FullInv
<1>2. /\ UNCHANGED <<started, ask>>
      /\ \A s \in Starts \ {r} : seen'[s] = seen[s]
  BY DEF LoadUser, TablesUnchanged, FullInv, StartTypeOK
<1>3. /\ began'[r] = Cardinality(Begun) + 1
      /\ \A s \in Starts \ {r} : began'[s] = began[s]
      /\ \A s \in Starts : began[s] \in Nat
  BY DEF LoadUser, FullInv, StartTypeOK
<1>4. /\ behind'[r] = Answered
      /\ \A s \in Starts \ {r} : behind'[s] = behind[s]
      /\ \A s \in Starts : behind[s] \subseteq Starts
  BY DEF LoadUser, FullInv, StartTypeOK
<1>5. StartedAsAsked'
  <2> SUFFICES ASSUME NEW t \in started
               PROVE  /\ step'[t.id] \in {"created", "server_error"}
                      /\ t.user = UserOf(t.id)' /\ t.quiz = ask'[t.id].quiz
                      /\ t.started_at = began'[t.id]
    BY <1>2 DEF StartedAsAsked
  <2>1. t.id \in Starts \ {r}
    BY <1>1 DEF StartedAsAsked, FullInv, StartTypeOK, AttemptInsert
  <2>2. UserOf(t.id)' = UserOf(t.id)
    <3> DEFINE pick(rows) == CHOOSE u \in rows : TRUE
    <3>1. seen'[t.id] = seen[t.id]
      BY <1>2, <2>1
    <3>2. UserOf(t.id) = IF seen[t.id] = {} THEN t.id ELSE pick(seen[t.id]).id
      BY DEF UserOf
    <3>3. UserOf(t.id)' = IF seen'[t.id] = {} THEN t.id ELSE pick(seen'[t.id]).id
      BY DEF UserOf
    <3> HIDE DEF pick
    <3> QED
      BY <3>1, <3>2, <3>3
  <2> QED
    BY <1>1, <1>2, <1>3, <2>1, <2>2 DEF StartedAsAsked
<1>6. Cardinality(Begun) \in Nat /\ Cardinality(Begun)' = Cardinality(Begun) + 1
  <2>1. IsFiniteSet(Begun) /\ Cardinality(Begun) \in Nat
    BY FS_CardinalityType DEF FullInv, FinitelyBegun
  <2>2. r \notin Begun
    BY <1>1 DEF BeginningsInOrder, Begun
  <2>3. Begun' = Begun \cup {r}
    BY <1>3, <2>1 DEF Begun
  <2>4. Cardinality(Begun \cup {r}) = Cardinality(Begun) + 1
    BY <2>1, <2>2, FS_AddElement
  <2> QED
    BY <2>1, <2>3, <2>4
<1>7. BeginningsInOrder'
  <2> DEFINE count == Cardinality(Begun)
  <2> SUFFICES ASSUME NEW s \in Starts
               PROVE  /\ step'[s] = "idle" => began'[s] = 0
                      /\ step'[s] \in InFlight \cup {"created"} => began'[s] # 0
                      /\ began'[s] <= Cardinality(Begun)'
                      /\ \A q \in behind'[s] : step'[q] = "created" /\ began'[q] < began'[s]
    BY DEF BeginningsInOrder, InFlight, Writing
  <2>1. count \in Nat /\ Cardinality(Begun)' = count + 1 /\ began'[r] = count + 1
    BY <1>3, <1>6
  <2>2. \A q \in Starts : began[q] <= count
    BY DEF BeginningsInOrder
  <2> HIDE DEF count
  <2>3. CASE s = r
    <3>1. \A q \in Answered : q \in Starts \ {r} /\ step[q] = "created"
      BY <1>1 DEF Answered
    <3> QED
      BY <1>1, <1>3, <1>4, <2>1, <2>2, <2>3, <3>1
  <2>4. CASE s # r
    <3>1. \A q \in behind[s] : q \in Starts \ {r}
      BY <1>1, <1>4 DEF BeginningsInOrder
    <3>2. began[s] <= count + 1
      BY <1>3, <2>1, <2>2
    <3> QED
      BY <1>1, <1>3, <1>4, <2>1, <2>4, <3>1, <3>2 DEF BeginningsInOrder
  <2> QED
    BY <2>3, <2>4
<1> QED
  BY <1>5, <1>7

LEMMA StoreKeepsOrder ==
  ASSUME FullInv, StartOrderInv, NEW r \in Starts, NEW answer \in Over, Store(r, answer)
  PROVE  StartOrderInv'
<1> USE DEF StartOrderInv
<1> DEFINE attempt == [id |-> r, user |-> UserOf(r), quiz |-> ask[r].quiz,
                       started_at |-> began[r]]
<1>1. /\ step[r] \in InFlight /\ step'[r] = answer
      /\ \A s \in Starts \ {r} : step'[s] = step[s]
  BY StepMoved DEF Store, FullInv, InFlight
<1>2. started' = started \cup {attempt} /\ UNCHANGED <<ask, seen, began, behind>>
  BY DEF Store
<1>3. StartedAsAsked'
  <2> SUFFICES ASSUME NEW t \in started'
               PROVE  /\ step'[t.id] \in {"created", "server_error"}
                      /\ t.user = UserOf(t.id) /\ t.quiz = ask[t.id].quiz
                      /\ t.started_at = began[t.id]
    BY <1>2 DEF StartedAsAsked, UserOf
  <2>1. CASE t = attempt
    BY <1>1, <2>1 DEF Over
  <2>2. CASE t \in started
    <3>1. t.id \in Starts
      BY <2>2 DEF FullInv, StartTypeOK, AttemptInsert
    <3>2. t.id # r
      BY <1>1, <2>2 DEF StartedAsAsked, InFlight, Writing
    <3> QED
      BY <1>1, <2>2, <3>1, <3>2 DEF StartedAsAsked
  <2> QED
    BY <1>2, <2>1, <2>2
<1>4. BeginningsInOrder'
  <2>1. \A s \in Starts : behind[s] \subseteq Starts
    BY DEF FullInv, StartTypeOK
  <2>2. Begun' = Begun
    BY <1>2 DEF Begun
  <2>3. answer \notin InFlight \cup {"idle"}
    BY DEF Over, InFlight, Writing
  <2>4. \A s \in Starts : step[s] = "created" => s # r
    BY <1>1 DEF InFlight, Writing
  <2> QED
    BY <1>1, <1>2, <2>1, <2>2, <2>3, <2>4 DEF BeginningsInOrder
<1> QED
  BY <1>3, <1>4

LEMMA StartOrderInductive ==
  ASSUME FullInv, StartOrderInv, [StartNext]_startVars
  PROVE  StartOrderInv'
  BY StartStepShape, QuietStartKeepsOrder, LoadKeepsOrder, StoreKeepsOrder

LEMMA StartOrderInit == StartInit => StartOrderInv
<1> SUFFICES ASSUME StartInit PROVE StartOrderInv
  OBVIOUS
<1>1. Begun = {}
  BY DEF StartInit, Begun
<1>2. Cardinality(Begun) = 0
  BY <1>1, FS_EmptySet
<1> QED
  BY <1>2 DEF StartInit, StartOrderInv, StartedAsAsked, BeginningsInOrder, InFlight, Writing

\* What is stored stays: no step changes whose it is or what preceded it.
LEMMA StartedRemain ==
  ASSUME FullInv, StartOrderInv, [StartNext]_startVars
  PROVE  /\ started \subseteq started'
         /\ Answered \subseteq Answered'
         /\ \A t \in started : /\ UserOf(t.id)' = UserOf(t.id)
                              /\ behind'[t.id] = behind[t.id]
<1>1. StartOrderInv'
  BY StartOrderInductive
<1>2. \A t \in started : t.id \in Starts
  BY DEF FullInv, StartTypeOK, AttemptInsert
<1>3. \A t \in started : step[t.id] \in Over
  BY DEF StartOrderInv, StartedAsAsked, Over
<1>4. /\ started \subseteq started'
      /\ Answered \subseteq Answered'
      /\ \A t \in started : behind'[t.id] = behind[t.id]
  <2>1. CASE QuietStart
    BY <2>1 DEF QuietStart, Answered, InFlight, Writing
  <2>2. ASSUME NEW r \in Starts, LoadUser(r)
        PROVE  <1>4!:
    <3>1. /\ step[r] = "idle"
          /\ \A s \in Starts \ {r} : step'[s] = step[s]
      BY <2>2, StepMoved DEF LoadUser, Move, FullInv
    <3>2. \A s \in Starts \ {r} : behind'[s] = behind[s]
      BY <2>2 DEF LoadUser, FullInv, StartTypeOK
    <3>3. \A t \in started : t.id # r
      BY <1>3, <3>1 DEF Over
    <3>4. started' = started
      BY <2>2 DEF LoadUser, TablesUnchanged
    <3> QED
      BY <1>2, <3>1, <3>2, <3>3, <3>4 DEF Answered
  <2>3. ASSUME NEW r \in Starts, NEW answer \in Over, Store(r, answer)
        PROVE  <1>4!:
    <3>1. /\ step[r] \in InFlight
          /\ \A s \in Starts \ {r} : step'[s] = step[s]
      BY <2>3, StepMoved DEF Store, FullInv, InFlight
    <3>2. started \subseteq started' /\ behind' = behind
      BY <2>3 DEF Store
    <3> QED
      BY <3>1, <3>2 DEF Answered, InFlight, Writing
  <2> QED
    BY <2>1, <2>2, <2>3, StartStepShape
<1>5. \A t \in started : UserOf(t.id)' = UserOf(t.id)
  <2>1. \A t \in started : t.user = UserOf(t.id)
    BY DEF StartOrderInv, StartedAsAsked
  <2>2. \A t \in started' : t.user = UserOf(t.id)'
    BY <1>1 DEF StartOrderInv, StartedAsAsked
  <2> QED
    BY <1>4, <2>1, <2>2
<1> QED
  BY <1>4, <1>5

LEMMA FinitelyStarted ==
  ASSUME FullInv, [StartNext]_startVars, IsFiniteSet(started)
  PROVE  IsFiniteSet(started')
<1>1. CASE started' = started
  BY <1>1
<1>2. ASSUME NEW r \in Starts, NEW answer \in Over, Store(r, answer)
      PROVE  IsFiniteSet(started')
  BY <1>2, FS_AddElement DEF Store
<1> QED
  BY <1>1, <1>2, StartStepShape DEF QuietStart, LoadUser, TablesUnchanged

\* However starts overlap, each attempt stored is the one its request asked for,
\* and ordering attempts by started_at never puts one that a client had been
\* answered with after one whose transaction began later.
THEOREM StartOrderInvariance == StartSpec => [](FullInv /\ StartOrderInv)
<1>1. StartInit => FullInv /\ StartOrderInv
  BY InitFull, StartOrderInit
<1>2. FullInv /\ StartOrderInv /\ [StartNext]_startVars => (FullInv /\ StartOrderInv)'
  BY FullInductive, StartOrderInductive
<1> QED
  BY <1>1, <1>2, PTL DEF StartSpec

-----------------------------------------------------------------------------
(* The starts implement UserDirectory.                                     *)

\* The one with the email that the request found or inserts.
LEMMA EntryOfStart ==
  ASSUME FullInv, NEW r \in Starts, step[r] \in Writing \cup {"kept"}
  PROVE  \/ /\ step[r] = "inserted" /\ UsersWith(ask[r].email) = {} /\ UserOf(r) = r
         \/ /\ step[r] # "inserted"
            /\ \E u \in users : UsersWith(ask[r].email) = {u} /\ u.id = UserOf(r)
<1> USE DEF FullInv, StartInv
<1>1. CASE seen[r] = {}
  <2>1. step[r] = "inserted"
    BY <1>1 DEF WritesFollowLoads, SameName, Writing
  <2> QED
    BY <1>1, <2>1 DEF WritesFollowLoads, UserOf
<1>2. CASE seen[r] # {}
  <2>1. step[r] # "inserted"
    BY <1>2 DEF WritesFollowLoads
  <2>2. PICK loaded \in seen[r] : UserOf(r) = loaded.id
    BY <1>2, UserOfFound
  <2>3. PICK u \in users : u.id = loaded.id /\ u.email = loaded.email
    BY <2>2 DEF LoadedIsStored, InFlight
  <2>4. u.email = ask[r].email
    BY <2>2, <2>3 DEF LoadedIsStored, InFlight
  <2>5. UsersWith(ask[r].email) = {u}
    BY <2>4 DEF UsersAreSound, UsersWith
  <2> QED
    BY <2>1, <2>2, <2>3, <2>5
<1> QED
  BY <1>1, <1>2

\* A commit leaves the users of the other emails as they are ...
LEMMA OtherEntriesStay ==
  ASSUME FullInv, NEW r \in Starts, users' = UsersAfter(r),
         NEW email, email # ask[r].email
  PROVE  UsersWith(email)' = UsersWith(email)
<1>1. StartTypeOK
  BY DEF FullInv
<1>2. \A u \in users : u.email = email => Renamed(r, u) = u
  BY DEF Renamed
<1>3. ASSUME NEW u \in UsersWith(email) PROVE u \in users' /\ u.email = email
  BY <1>2, <1>3, UsersAfterShape DEF UsersWith
<1>4. ASSUME NEW w \in users', w.email = email PROVE w \in UsersWith(email)
  <2>1. \/ \E u \in users : w = Renamed(r, u) /\ w.email = u.email
        \/ w = NewUser(r)
    BY <1>1, UsersAfterRows
  <2> QED
    BY <1>1, <1>2, <1>4, <2>1, NewUserRow DEF UsersWith
<1> QED
  BY <1>3, <1>4 DEF UsersWith

\* ... and one with the email of its request: the user of its attempt.
LEMMA EntryAfter ==
  ASSUME FullInv, NEW r \in Starts, step[r] \in Writing \cup {"kept"},
         users' = UsersAfter(r), NEW email, email = ask[r].email
  PROVE  \/ /\ step[r] = "inserted" /\ UsersWith(email) = {} /\ UserOf(r) = r
            /\ UsersWith(email)' = {NewUser(r)}
         \/ \E u \in users : /\ UsersWith(email) = {u} /\ u.id = UserOf(r)
                             /\ UsersWith(email)' = {Renamed(r, u)}
<1>1. StartTypeOK
  BY DEF FullInv
<1>2. users' = {Renamed(r, u) : u \in users}
                 \cup (IF step[r] = "inserted" THEN {NewUser(r)} ELSE {})
  BY UsersAfterShape
<1>3. \A u \in users : Renamed(r, u).email = u.email
  BY <1>1, RenamedRow DEF StartTypeOK
<1>4. NewUser(r).email = email
  BY <1>1, NewUserRow
<1>5. CASE step[r] = "inserted" /\ UsersWith(email) = {} /\ UserOf(r) = r
  <2>1. UsersWith(email)' = {NewUser(r)}
    BY <1>2, <1>3, <1>4, <1>5 DEF UsersWith
  <2> QED
    BY <1>5, <2>1
<1>6. ASSUME step[r] # "inserted",
             NEW u \in users, UsersWith(email) = {u}, u.id = UserOf(r)
      PROVE  UsersWith(email)' = {Renamed(r, u)}
  <2>1. users' = {Renamed(r, w) : w \in users}
    BY <1>2, <1>6
  <2> QED
    BY <1>3, <1>6, <2>1 DEF UsersWith
<1> QED
  BY <1>5, <1>6, EntryOfStart
LEMMA EntriesAfter ==
  ASSUME FullInv, NEW r \in Starts, step[r] \in Writing \cup {"kept"},
         users' = UsersAfter(r), NEW mail, mail = ask[r].email
  PROVE  \E user \in Directory!Upserts(r) :
           /\ user.id = UserOf(r)
           /\ UserEntries' = [UserEntries EXCEPT ![mail] = {user}]
<1> DEFINE name == ask[r].name
           found == UserEntries[mail]
           entries == [email \in Emails |-> {Listed(u) : u \in UsersWith(email)'}]
<1>1. mail \in Emails /\ StartTypeOK
  BY DEF FullInv, StartTypeOK
<1>2. UserEntries' = entries
  BY DEF UserEntries, Listed
<1>3. \A email \in Emails : UserEntries[email] = {Listed(u) : u \in UsersWith(email)}
  BY DEF UserEntries
<1>4. \A email \in Emails \ {mail} : entries[email] = UserEntries[email]
  BY <1>3, OtherEntriesStay
<1>5. ASSUME NEW user, entries[mail] = {user}
      PROVE  UserEntries' = [UserEntries EXCEPT ![mail] = {user}]
  <2>1. UserEntries = [email \in Emails |-> UserEntries[email]]
    BY DEF UserEntries
  <2>2. entries = [email \in Emails |-> entries[email]]
    OBVIOUS
  <2> HIDE DEF entries
  <2> QED
    BY <1>1, <1>2, <1>4, <1>5, <2>1, <2>2
<1>6. Directory!Upserts(r) =
        IF found = {} THEN {[id |-> r, name |-> name]}
        ELSE found \cup {[id |-> user.id, name |-> name] : user \in found}
  BY DEF Directory!Upserts
<1>7. CASE /\ UsersWith(mail) = {} /\ UserOf(r) = r
           /\ UsersWith(mail)' = {NewUser(r)}
  <2> DEFINE user == [id |-> r, name |-> name]
  <2>1. found = {}
    BY <1>1, <1>3, <1>7
  <2>2. Listed(NewUser(r)) = user
    BY DEF Listed, NewUser
  <2>3. entries[mail] = {user}
    BY <1>1, <1>7, <2>2
  <2>4. user \in Directory!Upserts(r) /\ user.id = UserOf(r)
    BY <1>6, <1>7, <2>1
  <2> QED
    BY <1>5, <2>3, <2>4
<1>8. ASSUME NEW u \in users, UsersWith(mail) = {u}, u.id = UserOf(r),
             UsersWith(mail)' = {Renamed(r, u)}
      PROVE  \E user \in Directory!Upserts(r) :
               /\ user.id = UserOf(r)
               /\ UserEntries' = [UserEntries EXCEPT ![mail] = {user}]
  <2> DEFINE user == Listed(Renamed(r, u))
  <2>1. found = {Listed(u)}
    BY <1>1, <1>3, <1>8
  <2>2. entries[mail] = {user}
    BY <1>1, <1>8
  <2>3. user.id = u.id /\ (user = Listed(u) \/ user = [id |-> Listed(u).id, name |-> name])
    <3>1. CASE Renamed(r, u) = u
      BY <3>1 DEF Listed
    <3>2. CASE Renamed(r, u) = [u EXCEPT !.name = name]
      <4>1. u \in UserRow
        BY <1>1 DEF StartTypeOK
      <4> QED
        BY <3>2, <4>1 DEF Listed, UserRow
    <3> QED
      BY <3>1, <3>2 DEF Renamed
  <2>4. user \in Directory!Upserts(r)
    BY <1>6, <2>1, <2>3
  <2> HIDE DEF user
  <2> QED
    BY <1>5, <1>8, <2>2, <2>3, <2>4
<1> QED
  BY <1>7, <1>8, EntryAfter

LEMMA RepliesAfter ==
  ASSUME StartTypeOK, NEW r \in Starts, step[r] \in {"idle"} \cup InFlight,
         NEW answer \in {"created", "quiz_not_found", "server_error"},
         step' = [step EXCEPT ![r] = answer]
  PROVE  /\ StartReplies[r] = "none"
         /\ StartReplies' = [StartReplies EXCEPT ![r] = answer]
  BY DEF StartReplies, StartTypeOK, InFlight, Writing

LEMMA StoreEnters ==
  ASSUME FullInv, NEW r \in Starts, NEW answer \in Over, Store(r, answer)
  PROVE  Directory!Enter(r)
<1>1. /\ step[r] \in Writing \cup {"kept"}
      /\ users' = UsersAfter(r)
      /\ started' = started \cup {[id |-> r, user |-> UserOf(r), quiz |-> ask[r].quiz,
                                   started_at |-> began[r]]}
      /\ step' = [step EXCEPT ![r] = answer]
      /\ ask' = ask
  BY DEF Store
<1>2. PICK user \in Directory!Upserts(r) :
        /\ user.id = UserOf(r)
        /\ UserEntries' = [UserEntries EXCEPT ![ask[r].email] = {user}]
  <2>1. PICK mail : mail = ask[r].email
    OBVIOUS
  <2> QED
    BY <1>1, <2>1, EntriesAfter
<1>3. AttemptOwners' = AttemptOwners \cup {[attempt |-> r, user |-> user.id]}
  <2> DEFINE attempt == [id |-> r, user |-> UserOf(r), quiz |-> ask[r].quiz,
                         started_at |-> began[r]]
  <2>1. started' = started \cup {attempt} /\ attempt.id = r /\ attempt.user = user.id
    BY <1>1, <1>2
  <2> HIDE DEF attempt
  <2> QED
    BY <2>1 DEF AttemptOwners
<1>4. StartReplies[r] = "none" /\ StartReplies' = [StartReplies EXCEPT ![r] = answer]
  BY <1>1, RepliesAfter DEF FullInv, InFlight, Over
<1>5. ask[r].quiz \in Quizzes
  BY <1>1 DEF FullInv, StartInv, LoadedIsStored, InFlight
<1> QED
  BY <1>1, <1>2, <1>3, <1>4, <1>5 DEF Directory!Enter, Over

LEMMA EntriesStay ==
  ASSUME TablesUnchanged
  PROVE  UserEntries' = UserEntries /\ AttemptOwners' = AttemptOwners
  BY DEF TablesUnchanged, UserEntries, UsersWith, Listed, AttemptOwners

\* The requests that fail leave nothing, whether one or all.
LEMMA FailuresFail ==
  ASSUME StartTypeOK, TablesUnchanged, ask' = ask, NEW rs \in SUBSET Starts,
         \A r \in rs : step[r] \in {"idle"} \cup InFlight,
         step' = [r \in Starts |-> IF r \in rs THEN "server_error" ELSE step[r]]
  PROVE  Directory!Fail(rs)
<1>1. \A r \in rs : StartReplies[r] = "none"
  BY DEF StartReplies
<1>2. StartReplies' = [r \in Starts |-> IF r \in rs THEN "server_error"
                                                  ELSE StartReplies[r]]
  BY DEF StartReplies, InFlight, Writing
<1> QED
  BY <1>1, <1>2, EntriesStay DEF Directory!Fail

LEMMA StepImplementsDirectory ==
  ASSUME FullInv, NEW r \in Starts, StartStep(r)
  PROVE  Directory!Next \/ UNCHANGED Directory!vars
<1>1. StartTypeOK
  BY DEF FullInv
<1>2. CASE QuizNotFound(r)
  <2>1. StartReplies[r] = "none"
        /\ StartReplies' = [StartReplies EXCEPT ![r] = "quiz_not_found"]
    BY <1>1, <1>2, RepliesAfter DEF QuizNotFound, Move
  <2>2. Directory!Refuse(r)
    BY <1>2, <2>1, EntriesStay DEF QuizNotFound, Directory!Refuse
  <2> QED
    BY <2>2 DEF Directory!Next
<1>3. CASE LoadUser(r) \/ KeepUser(r) \/ UpdateUser(r) \/ InsertUser(r)
  <2>1. /\ TablesUnchanged /\ ask' = ask
        /\ step[r] \in {"idle"} \cup InFlight
        /\ \E to \in InFlight : step' = [step EXCEPT ![r] = to]
    BY <1>3 DEF LoadUser, KeepUser, UpdateUser, InsertUser, Move, InFlight, Writing
  <2>2. StartReplies' = StartReplies
    BY <1>1, <2>1 DEF StartReplies, StartTypeOK
  <2> QED
    BY <2>1, <2>2, EntriesStay DEF Directory!vars
<1>4. CASE /\ step[r] \in {"idle"} \cup InFlight
           /\ step' = [step EXCEPT ![r] = "server_error"]
           /\ TablesUnchanged /\ ask' = ask
  <2>1. step' = [s \in Starts |-> IF s \in {r} THEN "server_error" ELSE step[s]]
    BY <1>1, <1>4 DEF StartTypeOK
  <2>2. Directory!Fail({r})
    BY <1>1, <1>4, <2>1, FailuresFail
  <2> QED
    BY <2>2 DEF Directory!Next
<1>5. ASSUME NEW answer \in Over, Store(r, answer)
      PROVE  Directory!Next
  BY <1>5, StoreEnters DEF Directory!Next
<1> QED
  BY <1>2, <1>3, <1>4, <1>5 DEF StartStep, InsertConflict, Move, InFlight, StartFails,
    CommitStart, Over

LEMMA NextImplementsDirectory ==
  ASSUME FullInv, [StartNext]_startVars
  PROVE  Directory!Next \/ UNCHANGED Directory!vars
<1>1. CASE CutStarts
  <2> DEFINE rs == {r \in Starts : step[r] \in InFlight}
  <2>1. step' = [r \in Starts |-> IF r \in rs THEN "server_error" ELSE step[r]]
    BY <1>1 DEF CutStarts
  <2>2. Directory!Fail(rs)
    BY <1>1, <2>1, FailuresFail DEF CutStarts, FullInv
  <2> QED
    BY <2>2 DEF Directory!Next
<1>2. CASE UNCHANGED startVars
  <2>1. StartReplies' = StartReplies
    BY <1>2 DEF startVars, StartReplies
  <2> QED
    BY <1>2, <2>1, EntriesStay DEF startVars, TablesUnchanged, Directory!vars
<1> QED
  BY <1>1, <1>2, StepImplementsDirectory DEF StartNext

\* The starts implement the directory: whatever overlaps, is stale or fails, an
\* email keeps the user it was first given and every request with it gets an
\* attempt of that user.
THEOREM DirectoryIsKept == StartSpec => DirectoryKept
<1>1. StartInit => Directory!Init
  <2> SUFFICES ASSUME StartInit PROVE Directory!Init
    OBVIOUS
  <2>1. StartReplies = [r \in Starts |-> "none"]
    BY DEF StartInit, StartReplies
  <2>2. UserEntries = [email \in Emails |-> {}] /\ AttemptOwners = {}
    BY DEF StartInit, UserEntries, UsersWith, AttemptOwners
  <2> QED
    BY <2>1, <2>2 DEF Directory!Init
<1>2. FullInv /\ [StartNext]_startVars => [Directory!Next]_(Directory!vars)
  BY NextImplementsDirectory
<1> QED
  BY <1>1, <1>2, FullInvariance, PTL DEF StartSpec, DirectoryKept, Directory!Spec

=============================================================================
