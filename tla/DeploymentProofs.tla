--------------------------- MODULE DeploymentProofs ---------------------------
(***************************************************************************)
(* Deployment, for any number of servers, of requests and of runs of the   *)
(* seed, and any drafts: the schema is whole wherever the API serves, and  *)
(* the seed adds all it misses or nothing.                                 *)
(***************************************************************************)
EXTENDS Deployment, OrderProofs

-----------------------------------------------------------------------------
(* The schema.                                                             *)

ServingIsAtHead == \A p \in Servers : boot[p] = "serving" => version = "head"

MigrationInv ==
  /\ MigrationTypeOK
  /\ SchemaMatchesVersion
  /\ ServingIsAtHead

LEMMA WholeUpgrade == Len(Upgrade) = 8 /\ Upto(Upgrade, 8) = Whole
  BY DEF Upgrade, Whole

LEMMA MigrationStarts == MigrationInit => MigrationInv
  BY WholeUpgrade
     DEF MigrationInit, MigrationInv, MigrationTypeOK, NothingLeftOpen,
         SchemaMatchesVersion, ServingIsAtHead

LEMMA BootMoved ==
  ASSUME MigrationTypeOK, NEW p \in Servers, NEW from, NEW to, Boot(p, from, to)
  PROVE  boot'[p] = to /\ \A q \in Servers \ {p} : boot'[q] = boot[q]
  BY DEF Boot, MigrationTypeOK

LEMMA RolledBack ==
  ASSUME MigrationTypeOK, NEW p \in Servers, RollBack(p)
  PROVE  /\ done' \in [Servers -> 0..Len(Upgrade)]
         /\ done'[p] = 0 /\ \A q \in Servers \ {p} : done'[q] = done[q]
  BY WholeUpgrade DEF RollBack, MigrationTypeOK

LEMMA BootKeeps ==
  ASSUME MigrationInv, BootNext
  PROVE  MigrationInv'
<1> USE DEF MigrationInv
<1> DEFINE stages == {"down", "upgrading", "serving", "exited"}
<1>0. PICK p \in Servers :
        StartUp(p) \/ CreateObject(p) \/ UpgradeFails(p) \/ CommitUpgrade(p) \/ ServerStops(p)
  BY DEF BootNext
<1>1. CASE StartUp(p)
  <2>1. PICK from \in {"down", "exited"} :
          Boot(p, from, IF version = "head" THEN "serving" ELSE "upgrading")
    BY <1>1 DEF StartUp
  <2>2. boot' \in [Servers -> stages]
    BY <2>1 DEF Boot, MigrationTypeOK
  <2>3. UNCHANGED <<schema, version, done>> /\ boot[p] = from
    BY <1>1, <2>1 DEF StartUp, Boot
  <2>4. NothingLeftOpen'
    BY <2>1, <2>3, BootMoved DEF MigrationTypeOK, NothingLeftOpen
  <2> QED
    BY <2>1, <2>2, <2>3, <2>4, BootMoved DEF MigrationTypeOK, SchemaMatchesVersion, ServingIsAtHead
<1>2. CASE CreateObject(p)
  <2>1. UNCHANGED <<schema, version, boot>> /\ done' \in [Servers -> 0..Len(Upgrade)]
    BY <1>2, WholeUpgrade DEF CreateObject, Sending, MigrationTypeOK
  <2>2. boot[p] = "upgrading" /\ \A q \in Servers \ {p} : done'[q] = done[q]
    BY <1>2 DEF CreateObject, Sending, MigrationTypeOK
  <2>3. NothingLeftOpen'
    BY <2>1, <2>2 DEF MigrationTypeOK, NothingLeftOpen
  <2> QED
    BY <2>1, <2>3 DEF MigrationTypeOK, SchemaMatchesVersion, ServingIsAtHead
<1>3. CASE UpgradeFails(p)
  <2>1. boot' \in [Servers -> stages]
    BY <1>3 DEF UpgradeFails, Boot, MigrationTypeOK
  <2>2. UNCHANGED <<schema, version>> /\ Boot(p, "upgrading", "exited") /\ RollBack(p)
    BY <1>3 DEF UpgradeFails
  <2>3. NothingLeftOpen'
    BY <2>2, BootMoved, RolledBack DEF MigrationTypeOK, NothingLeftOpen
  <2> QED
    BY <2>1, <2>2, <2>3, BootMoved, RolledBack DEF MigrationTypeOK, SchemaMatchesVersion, ServingIsAtHead
<1>4. CASE CommitUpgrade(p)
  <2>1. boot' \in [Servers -> stages]
    BY <1>4 DEF CommitUpgrade, Boot, MigrationTypeOK
  <2>2. schema' = Whole
    BY <1>4, WholeUpgrade DEF CommitUpgrade, MigrationTypeOK
  <2>3. version' = "head" /\ Boot(p, "upgrading", "serving") /\ RollBack(p)
    BY <1>4 DEF CommitUpgrade
  <2>4. NothingLeftOpen'
    BY <2>3, BootMoved, RolledBack DEF MigrationTypeOK, NothingLeftOpen
  <2> QED
    BY <2>1, <2>2, <2>3, <2>4, RolledBack DEF MigrationTypeOK, SchemaMatchesVersion, ServingIsAtHead
<1>5. CASE ServerStops(p)
  <2>1. PICK from \in {"serving", "upgrading"} : Boot(p, from, "down")
    BY <1>5 DEF ServerStops
  <2>2. boot' \in [Servers -> stages]
    BY <2>1 DEF Boot, MigrationTypeOK
  <2>3. UNCHANGED <<schema, version>> /\ RollBack(p)
    BY <1>5 DEF ServerStops
  <2>4. NothingLeftOpen'
    BY <2>1, <2>3, BootMoved, RolledBack DEF MigrationTypeOK, NothingLeftOpen
  <2> QED
    BY <2>1, <2>2, <2>3, <2>4, BootMoved, RolledBack DEF MigrationTypeOK, SchemaMatchesVersion, ServingIsAtHead
<1> QED
  BY <1>0, <1>1, <1>2, <1>3, <1>4, <1>5

LEMMA DowngradeKeeps ==
  ASSUME MigrationInv, DowngradeSchema
  PROVE  MigrationInv'
  BY DEF MigrationInv, DowngradeSchema, MigrationTypeOK, NothingLeftOpen,
         SchemaMatchesVersion, ServingIsAtHead

LEMMA MigrationUnchanged ==
  ASSUME MigrationInv, UNCHANGED migrationVars
  PROVE  MigrationInv'
  BY DEF MigrationInv, migrationVars, MigrationTypeOK, NothingLeftOpen,
         SchemaMatchesVersion, ServingIsAtHead

LEMMA DeploymentKeepsMigration ==
  MigrationInv /\ [DeploymentNext]_deploymentVars => MigrationInv'
  BY BootKeeps, DowngradeKeeps, MigrationUnchanged DEF DeploymentNext, deploymentVars

LEMMA MigrationInvariance == DeploymentSpec => []MigrationInv
<1>1. DeploymentInit => MigrationInv
  BY MigrationStarts DEF DeploymentInit
<1> QED
  BY <1>1, DeploymentKeepsMigration, PTL DEF DeploymentSpec

\* Whatever becomes of an upgrade, none of its statements is left open.
THEOREM MigrationTypeCorrect == DeploymentSpec => []MigrationTypeOK
<1>1. MigrationInv => MigrationTypeOK
  BY DEF MigrationInv
<1> QED
  BY <1>1, MigrationInvariance, PTL

\* However many servers upgrade at once, and wherever they die: the tables are
\* all there or none is, and alembic_version says which.
THEOREM SchemaAlwaysMatchesVersion == DeploymentSpec => []SchemaMatchesVersion
<1>1. MigrationInv => SchemaMatchesVersion
  BY DEF MigrationInv
<1> QED
  BY <1>1, MigrationInvariance, PTL

\* A server serves over the whole schema, however it came up.
THEOREM ServingAlwaysHasSchema == DeploymentSpec => []ServingHasSchema
<1>1. MigrationInv => ServingHasSchema
  BY DEF MigrationInv, SchemaMatchesVersion, ServingIsAtHead, ServingHasSchema
<1> QED
  BY <1>1, MigrationInvariance, PTL

-----------------------------------------------------------------------------
(* The quizzes the seed brings and the ones the check lets in.             *)

Answerable(z) == \A i \in DOMAIN z.questions : CorrectCount(z.questions[i]) = 1

LEMMA TwoSeedQuizzes == DOMAIN SeedQuizzes = 1..2 /\ Len(SeedQuizzes) = 2
  BY DEF SeedQuizzes

LEMMA SeededAnswerable ==
  ASSUME NEW right, \A i \in DOMAIN right : right[i] \in 1..3
  PROVE  \A i \in DOMAIN right : /\ i \in DOMAIN Seeded(right)
                                /\ CorrectCount(Seeded(right)[i]) = 1
<1> SUFFICES ASSUME NEW i \in DOMAIN right
             PROVE  i \in DOMAIN Seeded(right) /\ CorrectCount(Seeded(right)[i]) = 1
  OBVIOUS
<1> DEFINE options == [o \in 1..3 |-> o = right[i]]
<1>1. i \in DOMAIN Seeded(right) /\ Seeded(right)[i].options = options
  BY DEF Seeded
<1>2. {o \in DOMAIN options : options[o]} = {right[i]}
  <2>1. DOMAIN options = 1..3 /\ \A o \in 1..3 : options[o] <=> o = right[i]
    BY Zenon
  <2>2. right[i] \in 1..3
    OBVIOUS
  <2> HIDE DEF options
  <2> QED
    BY <2>1, <2>2
<1>3. Cardinality({right[i]}) = 1
  BY FS_Singleton
<1> HIDE DEF options
<1> QED
  BY <1>1, <1>2, <1>3 DEF CorrectCount

\* Storing a quiz fills in positions and leaves the options alone.
LEMMA StoredOptions ==
  ASSUME NEW owner, NEW d,
         \A i \in DOMAIN d.questions :
           [d.questions[i] EXCEPT !.position = PositionAt(d.questions, i)].options
             = d.questions[i].options,
         \A i \in DOMAIN d.questions : CorrectCount(d.questions[i]) = 1
  PROVE  Answerable(Stored(owner, d))
<1> DEFINE z == Stored(owner, d)
<1>1. /\ DOMAIN z.questions = DOMAIN d.questions
      /\ \A i \in DOMAIN d.questions : z.questions[i].options = d.questions[i].options
  BY DEF Stored
<1> HIDE DEF z
<1>2. \A i \in DOMAIN z.questions : CorrectCount(z.questions[i]) = 1
  BY <1>1 DEF CorrectCount
<1> QED
  BY <1>2 DEF Answerable, z

LEMMA SeedAnswerable ==
  ASSUME NEW s, NEW k \in DOMAIN SeedQuizzes
  PROVE  Answerable(Stored(s, SeedQuizzes[k]))
<1>1. PICK right \in {<<1, 2, 1, 2, 2>>, <<2, 1, 1, 2, 2>>} :
        SeedQuizzes[k].questions = Seeded(right)
  <2>1. CASE k = 1
    BY <2>1 DEF SeedQuizzes
  <2>2. CASE k = 2
    BY <2>2 DEF SeedQuizzes
  <2> QED
    BY <2>1, <2>2, TwoSeedQuizzes
<1>2. DOMAIN right = 1..5 /\ \A i \in DOMAIN right : right[i] \in 1..3
  OBVIOUS
<1>3. \A i \in DOMAIN right : CorrectCount(Seeded(right)[i]) = 1
  BY <1>2, SeededAnswerable
<1>4. \A i \in DOMAIN right :
        [Seeded(right)[i] EXCEPT !.position = PositionAt(Seeded(right), i)].options
          = Seeded(right)[i].options
  BY DEF Seeded
<1>5. DOMAIN Seeded(right) = DOMAIN right
  BY DEF Seeded
<1> QED
  BY <1>1, <1>3, <1>4, <1>5, StoredOptions

LEMMA PostAnswerable ==
  ASSUME NEW c, NEW d \in Drafts, ValidStructure(d)
  PROVE  Answerable(Stored(c, d))
<1>1. d.questions \in Seq(QuestionPosted)
  BY CatalogAssumption
<1>2. \A i \in DOMAIN d.questions : d.questions[i] \in QuestionPosted
  BY <1>1
<1>3. \A i \in DOMAIN d.questions :
        [d.questions[i] EXCEPT !.position = PositionAt(d.questions, i)].options
          = d.questions[i].options
  BY <1>2 DEF QuestionPosted
<1> QED
  BY <1>3, StoredOptions DEF ValidStructure

-----------------------------------------------------------------------------
(* The invariant of the catalog.                                           *)

\* What a run has in its session is its own, new and answerable.
PendingIsOwn ==
  \A s \in SeedRuns : \A z \in pending[s] :
    /\ z.by = s
    /\ Answerable(z)
    /\ \A y \in before[s] : y.title # z.title

\* A run at work has seen to every title it is past, and no quiz has been
\* deleted since it began.
SeedProgress ==
  \A s \in SeedRuns :
    /\ seed[s] = "idle" => at[s] = 1 /\ pending[s] = {}
    /\ seed[s] = "running" =>
         /\ before[s] \subseteq quizzes
         /\ \A k \in DOMAIN SeedQuizzes : k < at[s] =>
              \E z \in quizzes \cup pending[s] : z.title = SeedQuizzes[k].title

CatalogInv ==
  /\ CatalogTypeOK
  /\ PendingIsOwn
  /\ SeedProgress
  /\ StoredQuizzesAreAnswerable
  /\ SeedIsAllOrNothing
  /\ SeedAddsOnlyMissingTitles

LEMMA CatalogStarts == CatalogInit => CatalogInv
  BY TwoSeedQuizzes
     DEF CatalogInit, CatalogInv, CatalogTypeOK, PendingIsOwn, SeedProgress,
         StoredQuizzesAreAnswerable, SeedIsAllOrNothing, LeftBy, SeedAddsOnlyMissingTitles

LEMMA StoredFields ==
  ASSUME NEW owner, NEW d
  PROVE  Stored(owner, d).by = owner /\ Stored(owner, d).title = d.title
  BY DEF Stored

LEMMA QuizzesFixed ==
  ASSUME UNCHANGED post
  PROVE  Quizzes' = Quizzes
  BY DEF Quizzes

Replies == {"none", "created", "invalid_quiz_structure", "server_error"}

RunStages == {"idle", "running", "done", "raised", "failed"}

\* The types of what a step changes make the whole type invariant.
LEMMA StepKeepsTypes ==
  ASSUME CatalogTypeOK, UNCHANGED post,
         quizzes' \subseteq Quizzes,
         reply' \in [Creates -> Replies],
         seed' \in [SeedRuns -> RunStages],
         at' \in [SeedRuns -> 1..Len(SeedQuizzes) + 1],
         pending' \in [SeedRuns -> SUBSET Quizzes],
         before' \in [SeedRuns -> SUBSET Quizzes]
  PROVE  CatalogTypeOK'
<1>1. Quizzes' = Quizzes
  BY QuizzesFixed
<1>2. SeedQuizzes' = SeedQuizzes
  BY DEF SeedQuizzes, Seeded
<1> QED
  BY <1>1, <1>2 DEF CatalogTypeOK, Replies, RunStages

LEMMA RunKeepsTypes ==
  ASSUME CatalogTypeOK, UNCHANGED <<post, reply>>,
         quizzes' \subseteq Quizzes,
         seed' \in [SeedRuns -> RunStages],
         at' \in [SeedRuns -> 1..Len(SeedQuizzes) + 1],
         pending' \in [SeedRuns -> SUBSET Quizzes],
         before' \in [SeedRuns -> SUBSET Quizzes]
  PROVE  CatalogTypeOK'
<1>1. reply' \in [Creates -> Replies]
  BY DEF CatalogTypeOK, Replies
<1> QED
  BY <1>1, StepKeepsTypes

\* A request stores an answerable quiz of its own, or only answers.
LEMMA PostKeeps ==
  ASSUME CatalogInv, PostNext
  PROVE  CatalogInv'
<1> USE DEF CatalogInv
<1>0. PICK c \in Creates : RejectQuiz(c) \/ CreateQuiz(c) \/ CreateFails(c)
  BY DEF PostNext
<1>1. UNCHANGED <<post, seed, at, pending, before>>
  BY <1>0 DEF RejectQuiz, CreateQuiz, CreateFails, SeedUnchanged
<1>2. reply' \in [Creates -> Replies]
  BY <1>0 DEF RejectQuiz, CreateQuiz, CreateFails, Reply, CatalogTypeOK, Replies
<1>3. \/ quizzes' = quizzes
      \/ ValidStructure(post[c]) /\ quizzes' = quizzes \cup {Stored(c, post[c])}
  BY <1>0 DEF RejectQuiz, CreateQuiz, CreateFails
<1> DEFINE new == Stored(c, post[c])
<1>4. post[c] \in Drafts
  BY DEF CatalogTypeOK
<1>5. new \in Quizzes /\ new.by = c /\ (ValidStructure(post[c]) => Answerable(new))
  BY <1>4, StoredFields, PostAnswerable DEF Quizzes
<1>6. \A s \in SeedRuns : c # s
  BY CatalogAssumption
<1> HIDE DEF new
<1>7. quizzes \subseteq quizzes' /\ quizzes' \subseteq quizzes \cup {new}
  BY <1>3 DEF new
<1>8. CatalogTypeOK'
  <2>1. quizzes' \subseteq Quizzes
    BY <1>5, <1>7 DEF CatalogTypeOK
  <2>2. /\ seed' \in [SeedRuns -> RunStages]
        /\ at' \in [SeedRuns -> 1..Len(SeedQuizzes) + 1]
        /\ pending' \in [SeedRuns -> SUBSET Quizzes]
        /\ before' \in [SeedRuns -> SUBSET Quizzes]
    BY <1>1 DEF CatalogTypeOK, RunStages
  <2> QED
    BY <1>1, <1>2, <2>1, <2>2, StepKeepsTypes
<1>9. PendingIsOwn'
  BY <1>1 DEF PendingIsOwn
<1>10. SeedProgress'
  BY <1>1, <1>7 DEF SeedProgress
<1>11. StoredQuizzesAreAnswerable'
  BY <1>3, <1>5 DEF StoredQuizzesAreAnswerable, Answerable, new
<1>12. SeedIsAllOrNothing'
  BY <1>1, <1>5, <1>6, <1>7 DEF SeedIsAllOrNothing, LeftBy
<1>13. SeedAddsOnlyMissingTitles'
  BY <1>1, <1>5, <1>6, <1>7 DEF SeedAddsOnlyMissingTitles
<1> QED
  BY <1>8, <1>9, <1>10, <1>11, <1>12, <1>13

-----------------------------------------------------------------------------
(* A run of the seed, step by step.                                        *)

OthersUnchanged(s) ==
  \A t \in SeedRuns \ {s} :
    /\ seed'[t] = seed[t] /\ at'[t] = at[t]
    /\ pending'[t] = pending[t] /\ before'[t] = before[t]

\* What the invariant asks of run s after the step.
RunIsSound(s) ==
  /\ \A z \in pending'[s] : /\ z.by = s /\ Answerable(z)
                            /\ \A y \in before'[s] : y.title # z.title
  /\ seed'[s] = "idle" => at'[s] = 1 /\ pending'[s] = {}
  /\ seed'[s] = "running" =>
       /\ before'[s] \subseteq quizzes'
       /\ \A k \in DOMAIN SeedQuizzes : k < at'[s] =>
            \E z \in quizzes' \cup pending'[s] : z.title = SeedQuizzes[k].title
  /\ \/ seed'[s] # "done" /\ \A z \in quizzes' : z.by # s
     \/ /\ seed'[s] \in {"done", "failed"}
        /\ \A t \in SeedTitles : \E z \in quizzes' : z.title = t
  /\ \A z \in quizzes' : z.by = s => \A y \in before'[s] : y.title # z.title

LEMMA OneRunMoves ==
  ASSUME CatalogInv, CatalogTypeOK', NEW s \in SeedRuns, OthersUnchanged(s),
         quizzes \subseteq quizzes', quizzes' \subseteq quizzes \cup pending[s],
         RunIsSound(s)
  PROVE  CatalogInv'
<1> USE DEF CatalogInv
<1>1. \A z \in quizzes' : z \in quizzes \/ (z.by = s /\ Answerable(z))
  BY DEF PendingIsOwn
<1>2. PendingIsOwn'
  BY DEF PendingIsOwn, OthersUnchanged, RunIsSound, Answerable
<1>3. SeedProgress'
  <2> SUFFICES ASSUME NEW t \in SeedRuns
               PROVE  /\ seed'[t] = "idle" => at'[t] = 1 /\ pending'[t] = {}
                      /\ seed'[t] = "running" =>
                           /\ before'[t] \subseteq quizzes'
                           /\ \A k \in DOMAIN SeedQuizzes : k < at'[t] =>
                                \E z \in quizzes' \cup pending'[t] :
                                  z.title = SeedQuizzes[k].title
    BY DEF SeedProgress
  <2>1. CASE t = s
    BY <2>1 DEF RunIsSound
  <2>2. CASE t # s
    BY <2>2 DEF SeedProgress, OthersUnchanged
  <2> QED
    BY <2>1, <2>2
<1>4. StoredQuizzesAreAnswerable'
  BY <1>1 DEF StoredQuizzesAreAnswerable, Answerable
<1>5. SeedIsAllOrNothing'
  <2> SUFFICES ASSUME NEW t \in SeedRuns
               PROVE  /\ LeftBy(t)' # {} => seed'[t] \in {"done", "failed"}
                      /\ LeftBy(t)' # {} \/ seed'[t] = "done" =>
                           \A title \in SeedTitles : \E z \in quizzes' : z.title = title
    BY DEF SeedIsAllOrNothing
  <2>1. CASE t = s
    BY <2>1 DEF RunIsSound, LeftBy
  <2>2. CASE t # s
    <3>1. LeftBy(t)' = LeftBy(t) /\ seed'[t] = seed[t]
      BY <1>1, <2>2 DEF LeftBy, OthersUnchanged
    <3> QED
      BY <3>1 DEF SeedIsAllOrNothing
  <2> QED
    BY <2>1, <2>2
<1>6. SeedAddsOnlyMissingTitles'
  BY <1>1 DEF SeedAddsOnlyMissingTitles, OthersUnchanged, RunIsSound
<1> QED
  BY <1>2, <1>3, <1>4, <1>5, <1>6

\* A run that has not ended has left nothing.
LEMMA AtWorkLeftNothing ==
  ASSUME SeedIsAllOrNothing, NEW s \in SeedRuns, seed[s] \in {"idle", "running"}
  PROVE  \A z \in quizzes : z.by # s
  BY DEF SeedIsAllOrNothing, LeftBy

\* Quizzes is of the posts, which no step changes.
LEMMA SeedStartKeeps ==
  ASSUME CatalogInv, NEW s \in SeedRuns, SeedStart(s)
  PROVE  CatalogInv'
<1> USE DEF CatalogInv
<1>1. UNCHANGED <<quizzes, post, reply, at, pending>> /\ seed[s] = "idle"
  BY DEF SeedStart, RequestsUnchanged
<1>2. seed'[s] = "running" /\ before'[s] = quizzes
  BY DEF SeedStart, CatalogTypeOK
<1>3. OthersUnchanged(s)
  BY DEF SeedStart, CatalogTypeOK, OthersUnchanged
<1>4. CatalogTypeOK'
  <2>1. before' \in [SeedRuns -> SUBSET Quizzes]
    BY DEF SeedStart, CatalogTypeOK
  <2>2. seed' \in [SeedRuns -> RunStages]
    BY DEF SeedStart, CatalogTypeOK, RunStages
  <2>3. /\ quizzes' \subseteq Quizzes
        /\ at' \in [SeedRuns -> 1..Len(SeedQuizzes) + 1]
        /\ pending' \in [SeedRuns -> SUBSET Quizzes]
    BY <1>1 DEF CatalogTypeOK
  <2> QED
    BY <1>1, <2>1, <2>2, <2>3, RunKeepsTypes
<1>5. RunIsSound(s)
  BY <1>1, <1>2, TwoSeedQuizzes, AtWorkLeftNothing DEF RunIsSound, SeedProgress
<1> QED
  BY <1>1, <1>3, <1>4, <1>5, OneRunMoves

LEMMA SeedSkipKeeps ==
  ASSUME CatalogInv, NEW s \in SeedRuns, SeedSkip(s)
  PROVE  CatalogInv'
<1> USE DEF CatalogInv
<1>1. /\ UNCHANGED <<quizzes, post, reply, seed, pending, before>>
      /\ seed[s] = "running" /\ at[s] \in 1..2
  BY TwoSeedQuizzes DEF SeedSkip, RequestsUnchanged, Selecting
<1>2. at'[s] = at[s] + 1
  BY DEF SeedSkip, CatalogTypeOK
<1>3. OthersUnchanged(s)
  BY <1>1 DEF SeedSkip, CatalogTypeOK, OthersUnchanged
<1>4. CatalogTypeOK'
  <2>1. at' \in [SeedRuns -> 1..Len(SeedQuizzes) + 1]
    BY <1>1, TwoSeedQuizzes DEF SeedSkip, CatalogTypeOK
  <2>2. /\ quizzes' \subseteq Quizzes
        /\ seed' \in [SeedRuns -> RunStages]
        /\ pending' \in [SeedRuns -> SUBSET Quizzes]
        /\ before' \in [SeedRuns -> SUBSET Quizzes]
    BY <1>1 DEF CatalogTypeOK, RunStages
  <2> QED
    BY <1>1, <2>1, <2>2, RunKeepsTypes
<1>5. \E z \in quizzes \cup pending[s] : z.title = SeedQuizzes[at[s]].title
  <2>1. Existing(s) # {}
    BY FS_EmptySet DEF SeedSkip
  <2> QED
    BY <2>1 DEF Existing
<1>6. \A k \in DOMAIN SeedQuizzes : k < at'[s] =>
        \E z \in quizzes \cup pending[s] : z.title = SeedQuizzes[k].title
  <2> SUFFICES ASSUME NEW k \in 1..2, k < at[s] + 1
               PROVE  \E z \in quizzes \cup pending[s] : z.title = SeedQuizzes[k].title
    BY <1>2, TwoSeedQuizzes
  <2>1. k = at[s] \/ k < at[s]
    BY <1>1
  <2> QED
    BY <1>1, <1>5, <2>1, TwoSeedQuizzes DEF SeedProgress
<1>7. RunIsSound(s)
  BY <1>1, <1>6, AtWorkLeftNothing
     DEF RunIsSound, SeedProgress, PendingIsOwn, SeedAddsOnlyMissingTitles
<1> QED
  BY <1>1, <1>3, <1>4, <1>7, OneRunMoves

LEMMA SeedAddKeeps ==
  ASSUME CatalogInv, NEW s \in SeedRuns, SeedAdd(s)
  PROVE  CatalogInv'
<1> USE DEF CatalogInv
<1> DEFINE new == Stored(s, SeedQuizzes[at[s]])
<1>1. /\ UNCHANGED <<quizzes, post, reply, seed, before>>
      /\ seed[s] = "running" /\ at[s] \in 1..2
  BY TwoSeedQuizzes DEF SeedAdd, RequestsUnchanged, Selecting
<1>2. at'[s] = at[s] + 1 /\ pending'[s] = pending[s] \cup {new}
  BY DEF SeedAdd, CatalogTypeOK
<1>3. OthersUnchanged(s)
  BY <1>1 DEF SeedAdd, CatalogTypeOK, OthersUnchanged
<1>4. /\ new \in Quizzes /\ new.by = s /\ new.title = SeedQuizzes[at[s]].title
      /\ Answerable(new)
  BY <1>1, StoredFields, SeedAnswerable, TwoSeedQuizzes DEF Quizzes
<1>5. \A y \in quizzes : y.title # new.title
  BY <1>4 DEF SeedAdd, Existing
<1>6. at' \in [SeedRuns -> 1..Len(SeedQuizzes) + 1]
  BY <1>1, TwoSeedQuizzes DEF SeedAdd, CatalogTypeOK
<1>7. pending' \in [SeedRuns -> SUBSET Quizzes]
  BY <1>4 DEF SeedAdd, CatalogTypeOK
<1> HIDE DEF new
<1>8. CatalogTypeOK'
  <2>1. /\ quizzes' \subseteq Quizzes
        /\ seed' \in [SeedRuns -> RunStages]
        /\ before' \in [SeedRuns -> SUBSET Quizzes]
    BY <1>1 DEF CatalogTypeOK, RunStages
  <2> QED
    BY <1>1, <1>6, <1>7, <2>1, RunKeepsTypes
<1>9. \A z \in pending'[s] : /\ z.by = s /\ Answerable(z)
                            /\ \A y \in before'[s] : y.title # z.title
  BY <1>1, <1>2, <1>4, <1>5 DEF PendingIsOwn, SeedProgress
<1>10. \A k \in DOMAIN SeedQuizzes : k < at'[s] =>
         \E z \in quizzes \cup pending'[s] : z.title = SeedQuizzes[k].title
  <2> SUFFICES ASSUME NEW k \in 1..2, k < at[s] + 1
               PROVE  \E z \in quizzes \cup pending'[s] : z.title = SeedQuizzes[k].title
    BY <1>2, TwoSeedQuizzes
  <2>1. k = at[s] \/ k < at[s]
    BY <1>1
  <2> QED
    BY <1>1, <1>2, <1>4, <2>1, TwoSeedQuizzes DEF SeedProgress
<1>11. RunIsSound(s)
  BY <1>1, <1>9, <1>10, AtWorkLeftNothing
     DEF RunIsSound, SeedProgress, SeedAddsOnlyMissingTitles
<1> QED
  BY <1>1, <1>3, <1>8, <1>11, OneRunMoves

\* SeedRaises, SeedFails and SeedTooEarly: the run ends and nothing of it stays.
LEMMA EndKeeps ==
  ASSUME CatalogInv, NEW s \in SeedRuns, seed[s] \in {"idle", "running"},
         NEW end \in {"raised", "failed"}, seed' = [seed EXCEPT ![s] = end],
         pending' = [pending EXCEPT ![s] = {}],
         UNCHANGED <<quizzes, post, reply, at, before>>
  PROVE  CatalogInv'
<1> USE DEF CatalogInv
<1>1. seed'[s] = end /\ pending'[s] = {} /\ OthersUnchanged(s)
  BY DEF CatalogTypeOK, OthersUnchanged
<1>2. CatalogTypeOK'
  <2>1. /\ quizzes' \subseteq Quizzes
        /\ at' \in [SeedRuns -> 1..Len(SeedQuizzes) + 1]
        /\ before' \in [SeedRuns -> SUBSET Quizzes]
    BY DEF CatalogTypeOK
  <2>2. seed' \in [SeedRuns -> RunStages]
    BY DEF CatalogTypeOK, RunStages
  <2>3. pending' \in [SeedRuns -> SUBSET Quizzes]
    BY DEF CatalogTypeOK
  <2> QED
    BY <2>1, <2>2, <2>3, RunKeepsTypes
<1>3. RunIsSound(s)
  BY <1>1, AtWorkLeftNothing DEF RunIsSound, SeedAddsOnlyMissingTitles
<1> QED
  BY <1>1, <1>2, <1>3, OneRunMoves

LEMMA SeedCommitKeeps ==
  ASSUME CatalogInv, NEW s \in SeedRuns, SeedCommit(s)
  PROVE  CatalogInv'
<1> USE DEF CatalogInv
<1>1. /\ UNCHANGED <<post, reply, at, before>> /\ seed[s] = "running"
      /\ quizzes' = quizzes \cup pending[s] /\ at[s] \notin 1..2
  BY TwoSeedQuizzes DEF SeedCommit, RequestsUnchanged
<1>2. /\ seed'[s] \in {"done", "failed"} /\ pending'[s] = {}
      /\ OthersUnchanged(s)
  BY <1>1 DEF SeedCommit, CatalogTypeOK, OthersUnchanged
<1>3. quizzes' \subseteq Quizzes
  BY <1>1 DEF CatalogTypeOK
<1>4. CatalogTypeOK'
  <2>1. /\ seed' \in [SeedRuns -> RunStages]
        /\ pending' \in [SeedRuns -> SUBSET Quizzes]
    BY DEF SeedCommit, CatalogTypeOK, RunStages
  <2>2. /\ at' \in [SeedRuns -> 1..Len(SeedQuizzes) + 1]
        /\ before' \in [SeedRuns -> SUBSET Quizzes]
    BY <1>1 DEF CatalogTypeOK
  <2> QED
    BY <1>1, <1>3, <2>1, <2>2, RunKeepsTypes
<1>5. at[s] = 3
  BY <1>1, TwoSeedQuizzes DEF CatalogTypeOK
<1>6. \A t \in SeedTitles : \E z \in quizzes' : z.title = t
  BY <1>1, <1>5, TwoSeedQuizzes DEF SeedTitles, SeedProgress
<1>7. \A z \in quizzes' : z.by = s => \A y \in before'[s] : y.title # z.title
  BY <1>1 DEF PendingIsOwn, SeedAddsOnlyMissingTitles
<1>8. RunIsSound(s)
  BY <1>2, <1>6, <1>7 DEF RunIsSound
<1> QED
  BY <1>1, <1>2, <1>4, <1>8, OneRunMoves

LEMMA SeedKeeps ==
  ASSUME CatalogInv, SeedNext
  PROVE  CatalogInv'
<1>1. PICK s \in SeedRuns :
        \/ SeedStart(s) \/ SeedSkip(s) \/ SeedAdd(s) \/ SeedRaises(s)
        \/ SeedCommit(s) \/ SeedFails(s)
  BY DEF SeedNext
<1>2. CASE SeedRaises(s)
  BY <1>2, EndKeeps DEF SeedRaises, Selecting, RequestsUnchanged
<1>3. CASE SeedFails(s)
  BY <1>3, EndKeeps DEF SeedFails, RequestsUnchanged
<1> QED
  BY <1>1, <1>2, <1>3, SeedStartKeeps, SeedSkipKeeps, SeedAddKeeps, SeedCommitKeeps

LEMMA TooEarlyKeeps ==
  ASSUME CatalogInv, NEW s \in SeedRuns, SeedTooEarly(s)
  PROVE  CatalogInv'
<1>1. pending' = [pending EXCEPT ![s] = {}]
  BY DEF SeedTooEarly, CatalogInv, SeedProgress, CatalogTypeOK
<1> QED
  BY <1>1, EndKeeps DEF SeedTooEarly, RequestsUnchanged

LEMMA CatalogUnchanged ==
  ASSUME CatalogInv, UNCHANGED catalogVars
  PROVE  CatalogInv'
<1> USE DEF catalogVars, CatalogInv
<1>1. CatalogTypeOK'
  <2>1. /\ quizzes' \subseteq Quizzes
        /\ seed' \in [SeedRuns -> RunStages]
        /\ at' \in [SeedRuns -> 1..Len(SeedQuizzes) + 1]
        /\ pending' \in [SeedRuns -> SUBSET Quizzes]
        /\ before' \in [SeedRuns -> SUBSET Quizzes]
    BY DEF CatalogTypeOK, RunStages
  <2> QED
    BY <2>1, RunKeepsTypes
<1> QED
  BY <1>1 DEF PendingIsOwn, SeedProgress, StoredQuizzesAreAnswerable,
              SeedIsAllOrNothing, LeftBy, SeedAddsOnlyMissingTitles

LEMMA DeploymentKeepsCatalog ==
  CatalogInv /\ [DeploymentNext]_deploymentVars => CatalogInv'
<1> SUFFICES ASSUME CatalogInv, [DeploymentNext]_deploymentVars
             PROVE  CatalogInv'
  OBVIOUS
<1>1. CASE UNCHANGED catalogVars
  BY <1>1, CatalogUnchanged
<1>2. CASE CatalogStep
  BY <1>2, PostKeeps, SeedKeeps, TooEarlyKeeps DEF CatalogStep
<1> QED
  BY <1>1, <1>2 DEF DeploymentNext, deploymentVars

LEMMA CatalogInvariance == DeploymentSpec => []CatalogInv
<1>1. DeploymentInit => CatalogInv
  BY CatalogStarts DEF DeploymentInit
<1> QED
  BY <1>1, DeploymentKeepsCatalog, PTL DEF DeploymentSpec

\* The tables and runs keep their types for any drafts, requests and runs.
THEOREM CatalogTypeCorrect == DeploymentSpec => []CatalogTypeOK
<1>1. CatalogInv => CatalogTypeOK
  BY DEF CatalogInv
<1> QED
  BY <1>1, CatalogInvariance, PTL

\* Every question that is ever stored, over the API or by the seed, has exactly
\* one correct option.
THEOREM StoredAlwaysAnswerable == DeploymentSpec => []StoredQuizzesAreAnswerable
<1>1. CatalogInv => StoredQuizzesAreAnswerable
  BY DEF CatalogInv
<1> QED
  BY <1>1, CatalogInvariance, PTL

\* However many runs of the seed overlap and fail, and whether or not their
\* COMMITs are acknowledged: each stores all it misses or nothing.
THEOREM SeedAlwaysAllOrNothing == DeploymentSpec => []SeedIsAllOrNothing
<1>1. CatalogInv => SeedIsAllOrNothing
  BY DEF CatalogInv
<1> QED
  BY <1>1, CatalogInvariance, PTL

\* No run of the seed stores a title that was stored when it began.
THEOREM SeedAlwaysAddsOnlyMissing == DeploymentSpec => []SeedAddsOnlyMissingTitles
<1>1. CatalogInv => SeedAddsOnlyMissingTitles
  BY DEF CatalogInv
<1> QED
  BY <1>1, CatalogInvariance, PTL

-----------------------------------------------------------------------------
(* The order of questions.                                                 *)

Positions(questions) == [i \in DOMAIN questions |-> PositionAt(questions, i)]

LEMMA PlacesOfSequence ==
  ASSUME NEW S, NEW s \in Seq(S)
  PROVE  Len(s) \in Nat /\ DOMAIN s = 1..Len(s)
  OBVIOUS

LEMMA DraftShape ==
  ASSUME NEW d \in Drafts
  PROVE  /\ Len(d.questions) \in Nat
         /\ DOMAIN d.questions = 1..Len(d.questions)
         /\ \A i \in DOMAIN d.questions : d.questions[i] \in QuestionPosted
<1>1. d.questions \in Seq(QuestionPosted)
  BY CatalogAssumption
<1>2. \A i \in DOMAIN d.questions : d.questions[i] \in QuestionPosted
  BY <1>1
<1>3. Len(d.questions) \in Nat /\ DOMAIN d.questions = 1..Len(d.questions)
  BY <1>1, PlacesOfSequence
<1> QED
  BY <1>2, <1>3

LEMMA PlacesOfDraft ==
  ASSUME NEW d \in Drafts
  PROVE  /\ DOMAIN d.questions \in SUBSET Int
         /\ IsFiniteSet(DOMAIN d.questions)
         /\ 1..Cardinality(DOMAIN d.questions) = DOMAIN d.questions
<1>1. Len(d.questions) \in Nat /\ DOMAIN d.questions = 1..Len(d.questions)
  BY DraftShape
<1>2. /\ IsFiniteSet(1..Len(d.questions))
      /\ Cardinality(1..Len(d.questions)) = Len(d.questions)
  BY <1>1, CountUpTo
<1> QED
  BY <1>1, <1>2

LEMMA StoredPositions ==
  ASSUME NEW d \in Drafts, NEW owner
  PROVE  /\ DOMAIN Stored(owner, d).questions = DOMAIN d.questions
         /\ Positions(d.questions) \in [DOMAIN d.questions -> Int]
         /\ \A i \in DOMAIN d.questions :
              Stored(owner, d).questions[i].position = Positions(d.questions)[i]
<1>1. \A i \in DOMAIN d.questions : d.questions[i] \in QuestionPosted
  BY DraftShape
<1>2. \A i \in DOMAIN d.questions :
        /\ PositionAt(d.questions, i) \in Int
        /\ [d.questions[i] EXCEPT !.position = PositionAt(d.questions, i)].position =
             PositionAt(d.questions, i)
  BY <1>1, PlacesOfDraft DEF QuestionPosted, PositionAt
<1> QED
  BY <1>2 DEF Stored, Positions

\* A listing of a stored quiz is an order of its questions that follows their
\* positions.
LEMMA ListingsAreOrders ==
  ASSUME NEW d \in Drafts, NEW owner
  PROVE  \A order : order \in Listings(Stored(owner, d)) <=>
           order \in Orders(DOMAIN d.questions) /\ Follows(order, Positions(d.questions))
<1> DEFINE places == DOMAIN d.questions
           z == Stored(owner, d)
           position == Positions(d.questions)
<1>1. IsFiniteSet(places) /\ 1..Cardinality(places) = places
  BY PlacesOfDraft
<1>2. /\ DOMAIN z.questions = places
      /\ \A i \in places : z.questions[i].position = position[i]
  BY StoredPositions
<1>3. \A order : order \in Listings(z) <=>
        /\ order \in [places -> places]
        /\ \A i, j \in places : order[i] = order[j] => i = j
        /\ \A i, j \in places : i < j =>
             z.questions[order[i]].position <= z.questions[order[j]].position
  BY <1>2 DEF Listings
<1> HIDE DEF places, z, position
<1>4. ASSUME NEW order, order \in Listings(z)
      PROVE  order \in Orders(places) /\ Follows(order, position)
  <2>1. order \in Orders(places)
    BY <1>1, <1>3, <1>4, NoneLeftOut
  <2>2. Follows(order, position)
    BY <1>2, <1>3, <1>4 DEF Follows
  <2> QED
    BY <2>1, <2>2
<1>5. ASSUME NEW order \in Orders(places), Follows(order, position)
      PROVE  order \in Listings(z)
  <2>1. /\ order \in [places -> places]
        /\ \A i, j \in places : order[i] = order[j] => i = j
    BY <1>1, OrderShape
  <2>2. \A i, j \in places : i < j => position[order[i]] <= position[order[j]]
    BY <1>1, <1>5, FollowsShape
  <2> QED
    BY <1>2, <1>3, <2>1, <2>2
<1> QED
  BY <1>4, <1>5 DEF places, z, position

LEMMA ListingExists ==
  ASSUME NEW d \in Drafts
  PROVE  \E order \in Orders(DOMAIN d.questions) : Follows(order, Positions(d.questions))
<1> DEFINE places == DOMAIN d.questions
           position == Positions(d.questions)
<1>1. /\ places \in SUBSET Int /\ IsFiniteSet(places)
      /\ position \in [places -> Int]
  BY PlacesOfDraft, StoredPositions
<1> HIDE DEF places, position
<1>2. PICK order \in Orders(places) :
        \A i, j \in 1..Cardinality(places) : i < j =>
          \/ position[order[i]] < position[order[j]]
          \/ position[order[i]] = position[order[j]] /\ order[i] < order[j]
  BY <1>1, StableOrderExists
<1>3. order \in [1..Cardinality(places) -> places] /\ DOMAIN order = 1..Cardinality(places)
  BY OrderShape
<1>4. \A i \in DOMAIN order : position[order[i]] \in Int
  BY <1>1, <1>3
<1>5. Follows(order, position)
  BY <1>2, <1>3, <1>4 DEF Follows
<1> QED
  BY <1>5 DEF places, position

\* Listings differ exactly where two questions have one position: what shares a
\* position may change places, and nothing else may.
LEMMA ListingsDiffer ==
  ASSUME NEW d \in Drafts, NEW owner
  PROVE  (\E one, other \in Listings(Stored(owner, d)) : one # other) <=>
           (\E i, j \in DOMAIN d.questions :
              i # j /\ Positions(d.questions)[i] = Positions(d.questions)[j])
<1> DEFINE places == DOMAIN d.questions
           position == Positions(d.questions)
           z == Stored(owner, d)
<1>1. IsFiniteSet(places) /\ position \in [places -> Int]
  BY PlacesOfDraft, StoredPositions
<1>2. \A order : order \in Listings(z) <=>
        order \in Orders(places) /\ Follows(order, position)
  BY ListingsAreOrders
<1>3. PICK f \in Orders(places) : Follows(f, position)
  BY ListingExists
<1> HIDE DEF places, position, z
<1>4. ASSUME \A i, j \in places : position[i] = position[j] => i = j
      PROVE  \A one, other \in Listings(z) : one = other
  BY <1>1, <1>2, <1>4, OneOrderOfDistinctKeys
<1>5. ASSUME NEW i \in places, NEW j \in places, i # j, position[i] = position[j]
      PROVE  \E one, other \in Listings(z) : one # other
  <2>1. /\ f \in [1..Cardinality(places) -> places]
        /\ DOMAIN f = 1..Cardinality(places)
        /\ \A x \in places : \E k \in 1..Cardinality(places) : f[k] = x
    BY OrderShape
  <2>2. PICK k \in DOMAIN f, l \in DOMAIN f : f[k] = i /\ f[l] = j
    BY <2>1
  <2> DEFINE g == [f EXCEPT ![k] = f[l], ![l] = f[k]]
  <2>3. g \in Orders(places) /\ g # f
    BY <1>1, <1>5, <2>2, Exchanged
  <2>4. DOMAIN g = DOMAIN f /\ \A m \in DOMAIN f : position[g[m]] = position[f[m]]
    BY <1>5, <2>1, <2>2
  <2> HIDE DEF g
  <2>5. Follows(g, position)
    BY <1>3, <2>4 DEF Follows
  <2> QED
    BY <1>2, <1>3, <2>3, <2>5
<1>6. (\E one, other \in Listings(z) : one # other) <=>
        (\E i, j \in places : i # j /\ position[i] = position[j])
  BY <1>4, <1>5
<1> QED
  BY <1>6 DEF places, position, z

\* Without given positions the one listing is the order of the request.
LEMMA UngivenKeepOrder ==
  ASSUME NEW d \in Drafts, NEW owner,
         \A i \in DOMAIN d.questions : d.questions[i].position = 0
  PROVE  Listings(Stored(owner, d)) = {PostListing(Stored(owner, d))}
<1> DEFINE places == DOMAIN d.questions
           position == Positions(d.questions)
           z == Stored(owner, d)
           first == PostListing(z)
<1>1. /\ places \in SUBSET Int /\ IsFiniteSet(places)
      /\ 1..Cardinality(places) = places
      /\ position \in [places -> Int]
  BY PlacesOfDraft, StoredPositions
<1>2. \A order : order \in Listings(z) <=>
        order \in Orders(places) /\ Follows(order, position)
  BY ListingsAreOrders
<1>3. \A i \in places : position[i] = i
  BY DEF Positions, PositionAt
<1>4. first = [i \in places |-> i]
  BY StoredPositions DEF PostListing
<1> HIDE DEF places, position, z, first
<1>5. first \in [places -> places] /\ \A i, j \in places : first[i] = first[j] => i = j
  BY <1>4
<1>6. first \in Orders(places)
  BY <1>1, <1>5, NoneLeftOut
<1>7. Follows(first, position)
  BY <1>1, <1>3, <1>4 DEF Follows
<1>8. first \in Listings(z)
  BY <1>2, <1>6, <1>7
<1>9. \A order \in Listings(z) : order = first
  <2>1. ~ \E one, other \in Listings(z) : one # other
    BY <1>3, ListingsDiffer DEF places, position, z
  <2> QED
    BY <1>8, <2>1
<1> QED
  BY <1>8, <1>9 DEF z, first

\* The answer to the POST is a listing where the positions follow the request.
LEMMA PostListingFollows ==
  ASSUME NEW d \in Drafts, NEW owner
  PROVE  LET z == Stored(owner, d)
             position == [i \in DOMAIN d.questions |-> z.questions[i].position]
         IN  PostListing(z) \in Listings(z) <=>
               \A i, j \in DOMAIN d.questions : i < j => position[i] <= position[j]
<1> DEFINE z == Stored(owner, d)
           places == DOMAIN d.questions
           first == PostListing(z)
<1>1. DOMAIN z.questions = places
  BY StoredPositions
<1>2. first = [i \in places |-> i]
  BY <1>1 DEF PostListing
<1>3. first \in Listings(z) <=>
        /\ first \in [places -> places]
        /\ \A i, j \in DOMAIN first : first[i] = first[j] => i = j
        /\ \A i, j \in DOMAIN first :
             i < j => z.questions[first[i]].position <= z.questions[first[j]].position
  BY <1>1 DEF Listings
<1> HIDE DEF first, z, places
<1>4. first \in Listings(z) <=>
        \A i, j \in places : i < j => z.questions[i].position <= z.questions[j].position
  BY <1>2, <1>3
<1> QED
  BY <1>4 DEF first, z, places

CreatedIsStored == \A c \in Creates : reply[c] = "created" => Stored(c, post[c]) \in quizzes

LEMMA DeploymentKeepsCreated ==
  ASSUME CatalogInv, CreatedIsStored, [DeploymentNext]_deploymentVars
  PROVE  CreatedIsStored'
<1>1. ASSUME NEW c \in Creates, RejectQuiz(c) \/ CreateQuiz(c) \/ CreateFails(c)
      PROVE  CreatedIsStored'
  BY <1>1 DEF RejectQuiz, CreateQuiz, CreateFails, Reply, CreatedIsStored, CatalogInv,
              CatalogTypeOK, Stored
<1>2. ASSUME UNCHANGED <<post, reply>>, quizzes \subseteq quizzes'
      PROVE  CreatedIsStored'
  BY <1>2 DEF CreatedIsStored, Stored
<1>3. CASE SeedNext \/ \E s \in SeedRuns : SeedTooEarly(s)
  <2>1. UNCHANGED <<post, reply>> /\ quizzes \subseteq quizzes'
    BY <1>3 DEF SeedNext, SeedTooEarly, SeedStart, SeedSkip, SeedAdd, SeedRaises,
                SeedCommit, SeedFails, RequestsUnchanged
  <2> QED
    BY <1>2, <2>1
<1>4. CASE UNCHANGED catalogVars
  BY <1>2, <1>4 DEF catalogVars
<1> QED
  BY <1>1, <1>3, <1>4 DEF DeploymentNext, deploymentVars, CatalogStep, PostNext

LEMMA CreatedInvariance == DeploymentSpec => [](CatalogInv /\ CreatedIsStored)
<1>1. DeploymentInit => CreatedIsStored
  BY DEF DeploymentInit, CatalogInit, CreatedIsStored
<1>2. CatalogInv /\ CreatedIsStored /\ [DeploymentNext]_deploymentVars => CreatedIsStored'
  BY DeploymentKeepsCreated
<1> QED
  BY <1>1, <1>2, CatalogInvariance, PTL DEF DeploymentSpec

\* Whatever positions a client gives, the listings of the quiz it is told of are
\* in the order of the request where it gave none, two of them differ only where
\* a given position collides, and none is as the answer to the POST exactly
\* where a given position is out of order.
THEOREM ListingsAlwaysKeepTheOrder == DeploymentSpec => []ListingsKeepTheOrder
<1>1. CatalogInv /\ CreatedIsStored => ListingsKeepTheOrder
  <2> SUFFICES ASSUME CatalogInv, CreatedIsStored, NEW c \in Creates, reply[c] = "created"
               PROVE  LET z == Stored(c, post[c])
                          questions == post[c].questions
                          given == {i \in DOMAIN questions : questions[i].position # 0}
                          position == [i \in DOMAIN questions |-> z.questions[i].position]
                          collide == \E i \in given : \E j \in DOMAIN questions \ {i} :
                                       position[i] = position[j]
                          misplaced == {i \in given : \E j \in DOMAIN questions :
                                          \/ i < j /\ position[i] > position[j]
                                          \/ j < i /\ position[j] > position[i]}
                      IN  /\ z \in quizzes
                          /\ given = {} => Listings(z) = {PostListing(z)}
                          /\ PostListing(z) \in Listings(z) <=> misplaced = {}
                          /\ (\E one, other \in Listings(z) : one # other) <=> collide
    BY DEF ListingsKeepTheOrder
  <2> DEFINE z == Stored(c, post[c])
             questions == post[c].questions
             given == {i \in DOMAIN questions : questions[i].position # 0}
             position == [i \in DOMAIN questions |-> z.questions[i].position]
             collide == \E i \in given : \E j \in DOMAIN questions \ {i} :
                          position[i] = position[j]
             misplaced == {i \in given : \E j \in DOMAIN questions :
                             \/ i < j /\ position[i] > position[j]
                             \/ j < i /\ position[j] > position[i]}
  <2>1. post[c] \in Drafts
    BY DEF CatalogInv, CatalogTypeOK
  <2>2. z \in quizzes
    BY DEF CreatedIsStored
  <2>3. given = {} => Listings(z) = {PostListing(z)}
    BY <2>1, UngivenKeepOrder
  <2>4. position = Positions(questions)
    BY <2>1, StoredPositions
  <2>5. \A i \in DOMAIN questions : i \notin given => position[i] = i
    BY <2>4 DEF Positions, PositionAt
  <2>6. given \subseteq DOMAIN questions
    OBVIOUS
  <2>7. /\ DOMAIN questions \in SUBSET Int
        /\ position \in [DOMAIN questions -> Int]
    BY <2>1, <2>4, PlacesOfDraft, StoredPositions
  <2>8. PostListing(z) \in Listings(z) <=>
          \A i, j \in DOMAIN questions : i < j => position[i] <= position[j]
    BY <2>1, PostListingFollows
  <2>9. (\E one, other \in Listings(z) : one # other) <=>
          \E i, j \in DOMAIN questions : i # j /\ position[i] = position[j]
    <3>1. (\E one, other \in Listings(z) : one # other) <=>
            \E i, j \in DOMAIN questions :
              i # j /\ Positions(questions)[i] = Positions(questions)[j]
      BY <2>1, ListingsDiffer
    <3> HIDE DEF position
    <3> QED
      BY <2>4, <3>1
  <2> HIDE DEF z, position, given, questions
  <2>10. collide <=> \E i, j \in DOMAIN questions : i # j /\ position[i] = position[j]
    BY <2>5, <2>6
  <2>11. misplaced = {} <=>
           \A i, j \in DOMAIN questions : i < j => position[i] <= position[j]
    <3>1. ASSUME misplaced = {}, NEW i \in DOMAIN questions, NEW j \in DOMAIN questions, i < j
          PROVE  position[i] <= position[j]
      <4>1. CASE i \in given
        BY <2>7, <3>1, <4>1
      <4>2. CASE j \in given
        BY <2>7, <3>1, <4>2
      <4>3. CASE i \notin given /\ j \notin given
        BY <2>5, <2>7, <3>1, <4>3
      <4> QED
        BY <4>1, <4>2, <4>3
    <3>2. ASSUME \A i, j \in DOMAIN questions : i < j => position[i] <= position[j],
                 NEW i \in misplaced
          PROVE  FALSE
      BY <2>6, <2>7, <3>2
    <3> QED
      BY <3>1, <3>2
  <2> QED
    BY <2>2, <2>3, <2>8, <2>9, <2>10, <2>11 DEF z, position, given, questions
<1> QED
  BY <1>1, CreatedInvariance, PTL

=============================================================================
