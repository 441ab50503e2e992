-------------------------- MODULE AttemptViewsProofs --------------------------
(***************************************************************************)
(* AttemptViews, for any number of starts, submissions and reads: what is  *)
(* proved of starts and of submissions by themselves holds of the process  *)
(* that serves both, and the reads are right about it.                     *)
(***************************************************************************)
EXTENDS AttemptViews, AttemptSubmissionProofs, AttemptStartProofs, OrderProofs

-----------------------------------------------------------------------------
(* The breakdowns of a submission.                                         *)

LEMMA ListingsOfSet ==
  ASSUME NEW D, IsFiniteSet(D)
  PROVE  \A order : order \in SetToSeqs(D) <=> order \in Orders(D)
<1> DEFINE places == 1..Cardinality(D)
<1>1. \A order : order \in SetToSeqs(D) <=>
        order \in [places -> D] /\ \A i, j \in places : i # j => order[i] # order[j]
  BY DEF SetToSeqs
<1>2. ASSUME NEW order \in SetToSeqs(D)
      PROVE  order \in Orders(D)
  <2>1. /\ order \in [places -> D]
        /\ \A i, j \in places : order[i] = order[j] => i = j
    BY <1>1
  <2> QED
    BY <2>1, NoneLeftOut
<1>3. ASSUME NEW order \in Orders(D)
      PROVE  order \in SetToSeqs(D)
  BY <1>1, OrderShape
<1> QED
  BY <1>2, <1>3

LEMMA LengthOfList ==
  ASSUME NEW S, NEW n \in Nat, NEW s \in [1..n -> S]
  PROVE  Len(s) = n
  OBVIOUS

\* The entry of a breakdown for each place of the answers array, and all of them.
MarkOf(n) == [i \in DOMAIN req[n].answers |->
                Marked(req[n].answers[i].question, req[n].answers[i].option)]

Marks(n) == {Marked(row.question, row.option) : row \in AnswerRows(n)}

MarkPosition(n) == [mark \in Marks(n) |-> PositionOf[mark.question]]

\* A submission that passed the checks.
Accepted(n) ==
  /\ Target(n) \in Attempts
  /\ ValidSubmission(QuestionsOf[Target(n)], req[n].answers)

LEMMA MarksByPlace ==
  ASSUME NEW n
  PROVE  /\ \A i \in DOMAIN req[n].answers : MarkOf(n)[i] \in Marks(n)
         /\ \A mark \in Marks(n) : \E i \in DOMAIN req[n].answers : MarkOf(n)[i] = mark
<1> DEFINE rowAt(i) == [by |-> n, attempt |-> Target(n),
                        question |-> req[n].answers[i].question,
                        option |-> req[n].answers[i].option]
<1>1. ASSUME NEW i \in DOMAIN req[n].answers
      PROVE  MarkOf(n)[i] \in Marks(n)
  <2>1. rowAt(i) \in AnswerRows(n)
    BY DEF AnswerRows
  <2>2. MarkOf(n)[i] = Marked(rowAt(i).question, rowAt(i).option)
    BY DEF MarkOf
  <2> HIDE DEF rowAt
  <2> QED
    BY <2>1, <2>2 DEF Marks
<1>2. ASSUME NEW mark \in Marks(n)
      PROVE  \E i \in DOMAIN req[n].answers : MarkOf(n)[i] = mark
  <2>1. PICK row \in AnswerRows(n) : mark = Marked(row.question, row.option)
    BY DEF Marks
  <2>2. PICK i \in DOMAIN req[n].answers : row = rowAt(i)
    BY <2>1 DEF AnswerRows
  <2>3. MarkOf(n)[i] = Marked(rowAt(i).question, rowAt(i).option)
    BY DEF MarkOf
  <2> QED
    BY <2>1, <2>2, <2>3
<1> QED
  BY <1>1, <1>2

\* Valid answers and the entries of their breakdown match one to one.
LEMMA MarksMatchPlaces ==
  ASSUME ApiTypeOK, NEW n \in Requests, Accepted(n)
  PROVE  /\ DOMAIN req[n].answers \in SUBSET Int
         /\ IsFiniteSet(DOMAIN req[n].answers)
         /\ MarkOf(n) \in Bijection(DOMAIN req[n].answers, Marks(n))
<1> DEFINE given == req[n].answers
           places == DOMAIN given
<1>1. IsFiniteSet(places)
  BY PayloadType
<1>2. places \in SUBSET Int
  <2>1. given \in Seq([question : QuestionIds, option : OptionIds])
    BY PayloadAssumption DEF ApiTypeOK
  <2> DEFINE submission == [question : QuestionIds, option : OptionIds]
  <2>2. given \in Seq(submission)
    BY <2>1
  <2> HIDE DEF submission, given
  <2> QED
    BY <2>2
<1>3. \A i, j \in places : MarkOf(n)[i] = MarkOf(n)[j] => i = j
  <2>1. \A i \in places : MarkOf(n)[i].question = given[i].question
    BY DEF MarkOf, Marked
  <2> QED
    BY <2>1 DEF Accepted, ValidSubmission
<1>4. MarkOf(n) \in [places -> Marks(n)]
  BY MarksByPlace DEF MarkOf
<1>5. \A mark \in Marks(n) : \E i \in places : MarkOf(n)[i] = mark
  BY MarksByPlace
<1> HIDE DEF places, given
<1>6. MarkOf(n) \in Bijection(places, Marks(n))
  BY <1>3, <1>4, <1>5 DEF Bijection, Injection, Surjection, IsInjective
<1> QED
  BY <1>1, <1>2, <1>6 DEF places, given

LEMMA MarkShape ==
  ASSUME ApiTypeOK, NEW n \in Requests
  PROVE  \A mark \in Marks(n) : mark.question \in QuestionIds
<1> SUFFICES ASSUME NEW mark \in Marks(n) PROVE mark.question \in QuestionIds
  OBVIOUS
<1>1. PICK i \in DOMAIN req[n].answers : MarkOf(n)[i] = mark
  BY MarksByPlace
<1>2. req[n].answers[i] \in [question : QuestionIds, option : OptionIds]
  BY PayloadType
<1> QED
  BY <1>1, <1>2 DEF MarkOf, Marked

LEMMA MarksAreFinite ==
  ASSUME ApiTypeOK, NEW n \in Requests, Accepted(n)
  PROVE  /\ IsFiniteSet(Marks(n))
         /\ MarkPosition(n) \in [Marks(n) -> Int]
         /\ {mark.question : mark \in Marks(n)} = QuestionsOf[Target(n)]
         /\ Cardinality(Marks(n)) = Cardinality(QuestionsOf[Target(n)])
<1>1. IsFiniteSet(Marks(n))
  <2>1. ExistsBijection(DOMAIN req[n].answers, Marks(n))
    BY MarksMatchPlaces DEF ExistsBijection
  <2> QED
    BY <2>1, MarksMatchPlaces, FS_Bijection
<1>2. \A mark \in Marks(n) : PositionOf[mark.question] \in Int
  BY MarkShape, ViewAssumption
<1>3. MarkPosition(n) \in [Marks(n) -> Int]
  BY <1>2 DEF MarkPosition
<1> DEFINE questionOf == [mark \in Marks(n) |-> mark.question]
           questions == QuestionsOf[Target(n)]
<1>4. \A mark \in Marks(n) : mark.question \in questions
  <2> SUFFICES ASSUME NEW mark \in Marks(n) PROVE mark.question \in questions
    OBVIOUS
  <2>1. PICK i \in DOMAIN req[n].answers : MarkOf(n)[i] = mark
    BY MarksByPlace
  <2> QED
    BY <2>1 DEF MarkOf, Marked, Accepted, ValidSubmission
<1>5. \A q \in questions : \E mark \in Marks(n) : mark.question = q
  <2> SUFFICES ASSUME NEW q \in questions
               PROVE  \E mark \in Marks(n) : mark.question = q
    OBVIOUS
  <2>1. PICK i \in DOMAIN req[n].answers : req[n].answers[i].question = q
    BY DEF Accepted, ValidSubmission
  <2>2. MarkOf(n)[i] \in Marks(n) /\ MarkOf(n)[i].question = q
    BY <2>1, MarksByPlace DEF MarkOf, Marked
  <2> QED
    BY <2>2
<1>6. \A mark, other \in Marks(n) : mark.question = other.question => mark = other
  <2> SUFFICES ASSUME NEW mark \in Marks(n), NEW other \in Marks(n),
                      mark.question = other.question
               PROVE  mark = other
    OBVIOUS
  <2>1. PICK i \in DOMAIN req[n].answers : MarkOf(n)[i] = mark
    BY MarksByPlace
  <2>2. PICK j \in DOMAIN req[n].answers : MarkOf(n)[j] = other
    BY MarksByPlace
  <2>3. req[n].answers[i].question = req[n].answers[j].question
    BY <2>1, <2>2 DEF MarkOf, Marked
  <2> QED
    BY <2>1, <2>2, <2>3 DEF Accepted, ValidSubmission
<1>7. Cardinality(Marks(n)) = Cardinality(questions)
  <2>1. questionOf \in [Marks(n) -> questions]
    BY <1>4
  <2>2. \A mark, other \in Marks(n) : questionOf[mark] = questionOf[other] => mark = other
    BY <1>6
  <2>3. \A q \in questions : \E mark \in Marks(n) : questionOf[mark] = q
    BY <1>5
  <2> HIDE DEF questionOf, questions
  <2>4. questionOf \in Bijection(Marks(n), questions)
    BY <2>1, <2>2, <2>3 DEF Bijection, Injection, Surjection, IsInjective
  <2>5. ExistsBijection(Marks(n), questions)
    BY <2>4 DEF ExistsBijection
  <2> QED
    BY <1>1, <2>5, FS_Bijection
<1>8. {mark.question : mark \in Marks(n)} = questions
  BY <1>4, <1>5
<1> QED
  BY <1>1, <1>3, <1>7, <1>8

\* Any order of the entries has one for each question, and as many right ones as
\* the score counts.
LEMMA OrderOfMarksIsWhole ==
  ASSUME ApiTypeOK, NEW n \in Requests, Accepted(n), NEW results \in Orders(Marks(n))
  PROVE  /\ {results[k].question : k \in DOMAIN results} = QuestionsOf[Target(n)]
         /\ Len(results) = Cardinality(QuestionsOf[Target(n)])
         /\ Cardinality({k \in DOMAIN results : results[k].is_correct}) = Result(n).score
<1> DEFINE marks == Marks(n)
           total == Cardinality(marks)
           right == {mark \in marks : mark.is_correct}
           given == req[n].answers
<1>1. IsFiniteSet(marks) /\ total \in Nat
  BY MarksAreFinite, FS_CardinalityType
<1>2. /\ results \in [1..total -> marks] /\ DOMAIN results = 1..total
      /\ \A mark \in marks : \E k \in 1..total : results[k] = mark
  BY OrderShape
<1>3. {results[k].question : k \in DOMAIN results} = {mark.question : mark \in marks}
  BY <1>2
<1>4. Len(results) = total
  <2> HIDE DEF marks, total
  <2> QED
    BY <1>1, <1>2, LengthOfList
<1>5. right \in SUBSET marks
  OBVIOUS
<1>6. Cardinality({k \in 1..total : results[k] \in right}) = Cardinality(right)
  <2>1. IsFiniteSet(1..total)
    BY <1>1, CountUpTo
  <2>2. results \in Bijection(1..total, marks)
    BY DEF Orders
  <2> DEFINE places == 1..total
  <2>3. /\ IsFiniteSet(places) /\ results \in Bijection(places, marks)
    BY <2>1, <2>2
  <2> HIDE DEF marks, places, right
  <2>4. Cardinality({k \in places : results[k] \in right}) = Cardinality(right)
    BY <1>5, <2>3, CountThrough
  <2> QED
    BY <2>4 DEF places
<1>7. {k \in DOMAIN results : results[k].is_correct} = {k \in 1..total : results[k] \in right}
  BY <1>2
<1>8. Cardinality({i \in DOMAIN given : MarkOf(n)[i] \in right}) = Cardinality(right)
  <2>1. /\ IsFiniteSet(DOMAIN given)
        /\ MarkOf(n) \in Bijection(DOMAIN given, marks)
    BY MarksMatchPlaces
  <2> HIDE DEF marks, right, given
  <2> QED
    BY <1>5, <2>1, CountThrough
<1>9. {i \in DOMAIN given : MarkOf(n)[i] \in right} =
        {i \in DOMAIN given : given[i].option = CorrectOf[given[i].question]}
  <2>1. \A i \in DOMAIN given : MarkOf(n)[i] \in marks
    BY MarksByPlace
  <2>2. \A i \in DOMAIN given :
          MarkOf(n)[i].is_correct = (given[i].option = CorrectOf[given[i].question])
    BY DEF MarkOf, Marked
  <2> HIDE DEF marks, given
  <2> QED
    BY <2>1, <2>2
<1>10. Result(n).score = Cardinality(right)
  <2>1. Result(n).score =
          Cardinality({i \in DOMAIN given : given[i].option = CorrectOf[given[i].question]})
    BY DEF Result, Score
  <2> HIDE DEF right, given
  <2> QED
    BY <1>8, <1>9, <2>1
<1>11. /\ {mark.question : mark \in marks} = QuestionsOf[Target(n)]
       /\ total = Cardinality(QuestionsOf[Target(n)])
  BY MarksAreFinite
<1> HIDE DEF marks, total, right, given
<1> QED
  BY <1>3, <1>4, <1>6, <1>7, <1>10, <1>11

\* A breakdown in a detail is an order of the entries that follows positions ...
LEMMA BreakdownIsOrder ==
  ASSUME ApiTypeOK, NEW n \in Requests, Accepted(n),
         NEW results \in Breakdowns(AnswerRows(n))
  PROVE  /\ results \in Orders(Marks(n))
         /\ Follows(results, MarkPosition(n))
         /\ InPosition(results)
<1>1. results \in SetToSeqs(Marks(n)) /\ InPosition(results)
  BY DEF Breakdowns, Marks
<1>2. results \in Orders(Marks(n))
  BY <1>1, MarksAreFinite, ListingsOfSet
<1>3. \A k \in DOMAIN results : results[k] \in Marks(n)
  <2>1. /\ DOMAIN results = 1..Cardinality(Marks(n))
        /\ results \in [1..Cardinality(Marks(n)) -> Marks(n)]
    BY <1>2, OrderShape
  <2> QED
    BY <2>1
<1>4. Follows(results, MarkPosition(n))
  BY <1>1, <1>3 DEF Follows, InPosition, MarkPosition
<1> QED
  BY <1>1, <1>2, <1>4

\* The order in which the response puts the places of the answers array.
StableOrder(n, order) ==
  LET position(i) == PositionOf[req[n].answers[i].question]
  IN  \A i, j \in DOMAIN order : i < j =>
        \/ position(order[i]) < position(order[j])
        \/ position(order[i]) = position(order[j]) /\ order[i] < order[j]

LEMMA StableOrderIsThere ==
  ASSUME ApiTypeOK, NEW n \in Requests, Accepted(n)
  PROVE  \E order \in Orders(DOMAIN req[n].answers) : StableOrder(n, order)
<1> DEFINE places == DOMAIN req[n].answers
           key == [i \in places |-> PositionOf[req[n].answers[i].question]]
<1>1. places \in SUBSET Int /\ IsFiniteSet(places)
  BY MarksMatchPlaces
<1>2. key \in [places -> Int]
  <2>1. \A i \in places : req[n].answers[i].question \in QuestionIds
    BY PayloadType
  <2> QED
    BY <2>1, ViewAssumption
<1>3. \A i \in places : key[i] = PositionOf[req[n].answers[i].question]
  OBVIOUS
<1> HIDE DEF places, key
<1>4. PICK order \in Orders(places) :
        \A i, j \in 1..Cardinality(places) : i < j =>
          \/ key[order[i]] < key[order[j]]
          \/ key[order[i]] = key[order[j]] /\ order[i] < order[j]
  BY <1>1, <1>2, StableOrderExists
<1>5. order \in [1..Cardinality(places) -> places] /\ DOMAIN order = 1..Cardinality(places)
  BY OrderShape
<1>6. StableOrder(n, order)
  BY <1>3, <1>4, <1>5 DEF StableOrder
<1> QED
  BY <1>6 DEF places

\* ... and so is the one in the response to the submission.
LEMMA ResponseIsOrder ==
  ASSUME ApiTypeOK, NEW n \in Requests, Accepted(n)
  PROVE  /\ SubmitResponse(n).questions \in Orders(Marks(n))
         /\ Follows(SubmitResponse(n).questions, MarkPosition(n))
<1> DEFINE places == DOMAIN req[n].answers
           order == CHOOSE order \in SetToSeqs(places) : StableOrder(n, order)
           results == [k \in DOMAIN order |-> MarkOf(n)[order[k]]]
<1>1. /\ IsFiniteSet(places) /\ places \in SUBSET Int
      /\ MarkOf(n) \in Bijection(places, Marks(n))
  BY MarksMatchPlaces
<1>2. \E some \in SetToSeqs(places) : StableOrder(n, some)
  BY <1>1, StableOrderIsThere, ListingsOfSet
<1>3. order \in SetToSeqs(places) /\ StableOrder(n, order)
  BY <1>2
<1>4. order \in Orders(places)
  BY <1>1, <1>3, ListingsOfSet
<1>5. SubmitResponse(n).questions =
        [k \in DOMAIN order |->
           Marked(req[n].answers[order[k]].question, req[n].answers[order[k]].option)]
  BY DEF SubmitResponse, StableOrder
<1> HIDE DEF order
<1>6. order \in [1..Cardinality(places) -> places] /\ DOMAIN order = 1..Cardinality(places)
  BY <1>4, OrderShape
<1>7. SubmitResponse(n).questions = results
  <2>1. \A k \in DOMAIN order : MarkOf(n)[order[k]] =
          Marked(req[n].answers[order[k]].question, req[n].answers[order[k]].option)
    BY <1>6 DEF MarkOf
  <2> QED
    BY <1>5, <2>1
<1>8. results \in Orders(Marks(n))
  <2> HIDE DEF places
  <2> QED
    BY <1>1, <1>4, Relabelled
<1>9. Follows(results, MarkPosition(n))
  <2>1. \A k \in DOMAIN order :
          MarkPosition(n)[results[k]] = PositionOf[req[n].answers[order[k]].question]
    BY <1>6, MarksByPlace DEF MarkPosition, MarkOf, Marked
  <2>2. \A k \in DOMAIN order : PositionOf[req[n].answers[order[k]].question] \in Int
    BY <1>6, PayloadType, ViewAssumption
  <2>3. DOMAIN results = DOMAIN order
    OBVIOUS
  <2> HIDE DEF results
  <2> QED
    BY <1>3, <2>1, <2>2, <2>3 DEF Follows, StableOrder
<1> QED
  BY <1>7, <1>8, <1>9

\* Any breakdown of the answers is the one in the response, but for the order of
\* questions that share a position.
LEMMA BreakdownIsResponse ==
  ASSUME ApiTypeOK, NEW n \in Requests, Accepted(n),
         NEW results \in Breakdowns(AnswerRows(n))
  PROVE  LET told == SubmitResponse(n).questions
         IN  /\ DOMAIN results = DOMAIN told
             /\ Range(results) = Range(told)
             /\ \A k \in DOMAIN told :
                  PositionOf[results[k].question] = PositionOf[told[k].question]
<1> DEFINE marks == Marks(n)
           key == MarkPosition(n)
           told == SubmitResponse(n).questions
<1>1. IsFiniteSet(marks) /\ key \in [marks -> Int]
  BY MarksAreFinite
<1>2. /\ results \in Orders(marks) /\ Follows(results, key)
      /\ told \in Orders(marks) /\ Follows(told, key)
  BY BreakdownIsOrder, ResponseIsOrder
<1>3. \A mark \in marks : key[mark] = PositionOf[mark.question]
  BY DEF MarkPosition
<1> HIDE DEF marks, key, told
<1>4. /\ results \in [1..Cardinality(marks) -> marks]
      /\ DOMAIN results = 1..Cardinality(marks)
      /\ \A mark \in marks : \E k \in 1..Cardinality(marks) : results[k] = mark
  BY <1>2, OrderShape
<1>5. /\ told \in [1..Cardinality(marks) -> marks]
      /\ DOMAIN told = 1..Cardinality(marks)
      /\ \A mark \in marks : \E k \in 1..Cardinality(marks) : told[k] = mark
  BY <1>2, OrderShape
<1>6. Range(results) = marks /\ Range(told) = marks
  BY <1>4, <1>5 DEF Range
<1>7. \A k \in 1..Cardinality(marks) : key[results[k]] = key[told[k]]
  BY <1>1, <1>2, SamePlacesSameKeys
<1>8. \A k \in DOMAIN told :
        PositionOf[results[k].question] = PositionOf[told[k].question]
  <2> SUFFICES ASSUME NEW k \in 1..Cardinality(marks)
               PROVE  PositionOf[results[k].question] = PositionOf[told[k].question]
    BY <1>5
  <2>1. results[k] \in marks /\ told[k] \in marks
    BY <1>4, <1>5
  <2> QED
    BY <1>3, <1>7, <2>1
<1>9. DOMAIN results = DOMAIN told
  BY <1>4, <1>5
<1> QED
  BY <1>6, <1>8, <1>9 DEF told

-----------------------------------------------------------------------------
(* The process runs the starts as AttemptStart has them, and submissions   *)
(* as AttemptSubmission has them but for those that come before the start. *)

LEMMA ProcessStepsStarts ==
  ASSUME [ViewsNext]_apiProcessVars
  PROVE  [StartNext]_startVars
<1>1. ASSUME NEW r \in Starts, StartStep(r) PROVE StartNext
  BY <1>1 DEF StartNext
<1>2. CASE Restart
  BY <1>2 DEF Restart, StartNext
<1>3. ASSUME NEW r \in Requests, UNCHANGED <<startVars, viewVars>>
      PROVE  UNCHANGED startVars
  BY <1>3
<1>4. ASSUME NEW v \in Viewers, UNCHANGED <<submissionVars, startVars>>
      PROVE  UNCHANGED startVars
  BY <1>4
<1>5. CASE UNCHANGED apiProcessVars
  BY <1>5 DEF apiProcessVars
<1> QED
  BY <1>1, <1>2, <1>3, <1>4, <1>5 DEF ViewsNext

\* Starts are not disturbed by the submissions and reads that race with them:
\* what holds of AttemptStart holds of them in the process.
THEOREM ProcessImplementsStart == ViewsSpec => StartSpec
<1>1. ViewsInit => StartInit
  BY DEF ViewsInit
<1>2. [ViewsNext]_apiProcessVars => [StartNext]_startVars
  BY ProcessStepsStarts
<1> QED
  BY <1>1, <1>2, PTL DEF ViewsSpec, StartSpec

\* One user per email, attempts of the user that asked, names stored unless
\* stale, and upserts that look like one step, in the process that also submits
\* and reads.
THEOREM StartsStaySound ==
  ViewsSpec => /\ [](UsersAreSound /\ AttemptsBelongToTheAsker)
               /\ NameStoredUnlessStale
               /\ DirectoryKept
<1>1. StartSpec => []UsersAreSound /\ []AttemptsBelongToTheAsker
  BY UsersAreAlwaysSound, AttemptsAlwaysBelong
<1> QED
  BY <1>1, ProcessImplementsStart, NameAlwaysStoredUnlessStale, DirectoryIsKept, PTL

LEMMA TooEarlyIsQuiet ==
  ASSUME SubmissionTypeOK, NEW r \in Requests, SubmitTooEarly(r)
  PROVE  QuietStep /\ SubmissionTypeOK'
  BY DEF SubmitTooEarly, Answer, StorageUnchanged, QuietStep, QuietMove, TablesKept,
         Replies, DomainErrors, SubmissionTypeOK, StorageTypeOK, ApiTypeOK, Stages

LEMMA SubmitStepIsApiStep ==
  ASSUME NEW r \in Requests, SubmitStep(r), ~SubmitTooEarly(r)
  PROVE  ApiNext
<1>1. CASE ApiStep(r)
  BY <1>1 DEF ApiNext
<1>2. CASE Faults /\ (CommitUnacknowledged(r) \/ TransactionFails(r))
  BY <1>2 DEF ApiNext, ApiFault
<1> QED
  BY <1>1, <1>2 DEF SubmitStep, ApiStep

LEMMA ProcessStepsSubmissions ==
  ASSUME SubmissionTypeOK, SubmissionInv, [ViewsNext]_apiProcessVars
  PROVE  /\ QuietStep \/ \E r \in Requests : CommitStep(r)
         /\ SubmissionTypeOK'
<1>1. CASE [ApiNext]_submissionVars
  BY <1>1, StepIsQuietOrCommit, SubmissionTypeStep DEF SubmissionTypeOK, SubmissionInv
<1>2. ASSUME NEW r \in Requests, SubmitStep(r)
      PROVE  [ApiNext]_submissionVars \/ (QuietStep /\ SubmissionTypeOK')
  BY <1>2, SubmitStepIsApiStep, TooEarlyIsQuiet
<1>3. CASE Restart
  <2>1. ApiNext
    BY <1>3 DEF Restart, ApiNext, ApiFault
  <2> QED
    BY <1>1, <2>1
<1>4. CASE UNCHANGED submissionVars
  BY <1>1, <1>4
<1>5. CASE UNCHANGED apiProcessVars
  BY <1>4, <1>5 DEF apiProcessVars
<1> QED
  BY <1>1, <1>2, <1>3, <1>4, <1>5 DEF ViewsNext

ProcessInv ==
  /\ FullInv /\ StartOrderInv /\ IsFiniteSet(started)
  /\ SubmissionTypeOK /\ SubmissionInv

LEMMA ProcessInvInductive ==
  ASSUME ProcessInv, [ViewsNext]_apiProcessVars
  PROVE  ProcessInv'
<1> USE DEF ProcessInv
<1>1. FullInv' /\ StartOrderInv' /\ IsFiniteSet(started')
  BY ProcessStepsStarts, FullInductive, StartOrderInductive, FinitelyStarted
<1>2. SubmissionTypeOK' /\ SubmissionInv'
  BY ProcessStepsSubmissions, QuietStepKeepsInv, CommitStepKeepsInv
<1> QED
  BY <1>1, <1>2

LEMMA ProcessInvInit == ViewsInit => ProcessInv
<1> SUFFICES ASSUME ViewsInit PROVE ProcessInv
  OBVIOUS
<1>1. StartInit /\ SubmissionInit
  BY DEF ViewsInit
<1>2. IsFiniteSet(started)
  BY <1>1, FS_EmptySet DEF StartInit
<1> QED
  BY <1>1, <1>2, InitFull, StartOrderInit, SubmissionTypeInit, SubmissionInvInit
    DEF ProcessInv

LEMMA ProcessInvariance == ViewsSpec => []ProcessInv
<1>1. ProcessInv /\ [ViewsNext]_apiProcessVars => ProcessInv'
  BY ProcessInvInductive
<1> QED
  BY <1>1, ProcessInvInit, PTL DEF ViewsSpec

\* The guarantees of submissions hold in the process too: also of one that is
\* sent before the start it names has committed.
THEOREM SubmissionsStaySound == ViewsSpec => [](OkMeansStored /\ SubmissionIsWhole)
<1>1. ProcessInv => OkMeansStored /\ SubmissionIsWhole
  BY OkIsStored, StoredWhole DEF ProcessInv
<1> QED
  BY <1>1, ProcessInvariance, PTL

THEOREM ProcessKeepsResults == ViewsSpec => ResultsNeverChange
<1> DEFINE Kept ==
      \A a \in Attempts : attempts[a].submitted_at =>
        attempts'[a] = attempts[a] /\ AnswersOf(a)' = AnswersOf(a)
<1>1. ProcessInv /\ [ViewsNext]_apiProcessVars => [Kept]_submissionVars
  BY ResultsKept, ProcessStepsSubmissions DEF ProcessInv
<1> QED
  BY <1>1, ProcessInvariance, PTL DEF ViewsSpec, ResultsNeverChange

-----------------------------------------------------------------------------
(* The steps of one read, by what they make of it.                         *)

ViewShape ==
  /\ view = [v \in Viewers |-> view[v]]
  /\ known = [v \in Viewers |-> known[v]]

Begins(v) ==
  known'[v] = [starts |-> Answered, submits |-> {r \in Requests : stage[r] = "ok"}]

Continues(v) == known'[v] = known[v]

FindsNoAttempt(v) ==
  /\ Begins(v)
  /\ view'[v].kind = "attempt_not_found"
  /\ view'[v].id \notin Committed

FindsAttempt(v) ==
  /\ Begins(v)
  /\ view'[v].kind = "attempt read"
  /\ view'[v].attempt \in started
  /\ view'[v].row = attempts[view'[v].attempt.id]

ShowsDetail(v) ==
  /\ Continues(v)
  /\ view[v].kind = "attempt read"
  /\ view'[v].kind = "detail"
  /\ view'[v].attempt = view[v].attempt
  /\ view'[v].row = view[v].row
  /\ view'[v].total = Cardinality(QuestionsOf[view[v].attempt.id])
  /\ view'[v].feedback = IF view[v].row.submitted_at
                         THEN {feedback_for_percentage(view[v].row.percentage)} ELSE {}
  /\ view'[v].questions \in ReadBreakdowns(v)

FindsNoUser(v) ==
  /\ Begins(v)
  /\ view'[v].kind = "user_not_found"
  /\ \A user \in users : user.id # view'[v].id

ShowsList(v) ==
  /\ Begins(v)
  /\ view'[v].kind = "list"
  /\ \E rows \in SetToSeqs(AttemptsOf(view'[v].user)) :
       /\ \A i, j \in DOMAIN rows : i < j => NewestFirst(rows[i], rows[j])
       /\ DOMAIN view'[v].items = DOMAIN rows
       /\ \A k \in DOMAIN rows : /\ view'[v].items[k].id = rows[k].id
                                /\ view'[v].items[k].row = attempts[rows[k].id]

Counts(v) ==
  /\ Begins(v)
  /\ view'[v].kind = "counted"
  /\ view'[v].total = Cardinality(AttemptsOf(view'[v].user))

ShowsStats(v) ==
  /\ Continues(v)
  /\ view[v].kind = "counted"
  /\ view'[v].kind = "stats"
  /\ view'[v].user = view[v].user
  /\ view'[v].total = view[v].total
  /\ (\E t \in AttemptsOf(view[v].user) : attempts[t.id].submitted_at)
       => view'[v].average # {}

Reads(v) ==
  \/ FindsNoAttempt(v) \/ FindsAttempt(v) \/ ShowsDetail(v) \/ FindsNoUser(v)
  \/ ShowsList(v) \/ Counts(v) \/ ShowsStats(v)

LEMMA BeginShape ==
  ASSUME ViewShape, NEW v \in Viewers, NEW state, Begin(v, state)
  PROVE  Begins(v) /\ view'[v] = state
  BY DEF ViewShape, Begin, Begins

LEMMA ContinueShape ==
  ASSUME ViewShape, NEW v \in Viewers, NEW state, Continue(v, state)
  PROVE  Continues(v) /\ view'[v] = state
  BY DEF ViewShape, Continue, Continues

LEMMA ViewStepReads ==
  ASSUME ViewShape, NEW v \in Viewers, ViewStep(v)
  PROVE  Reads(v)
<1>1. ASSUME NEW id \in AttemptIds, DetailNotFound(v, id) PROVE FindsNoAttempt(v)
  <2> DEFINE state == [kind |-> "attempt_not_found", id |-> id]
  <2>1. Begin(v, state) /\ id \notin Committed
    BY <1>1 DEF DetailNotFound
  <2>2. state.kind = "attempt_not_found" /\ state.id = id
    OBVIOUS
  <2> HIDE DEF state
  <2> QED
    BY <2>1, <2>2, BeginShape DEF FindsNoAttempt
<1>2. ASSUME NEW t \in started, ReadAttempt(v, t) PROVE FindsAttempt(v)
  <2> DEFINE state == [kind |-> "attempt read", attempt |-> t, row |-> attempts[t.id]]
  <2>1. Begin(v, state)
    BY <1>2 DEF ReadAttempt
  <2>2. state.kind = "attempt read" /\ state.attempt = t /\ state.row = attempts[t.id]
    OBVIOUS
  <2> HIDE DEF state
  <2> QED
    BY <2>1, <2>2, BeginShape DEF FindsAttempt
<1>3. ASSUME ReadAnswers(v) PROVE ShowsDetail(v)
  <2>1. PICK questions \in ReadBreakdowns(v) :
          /\ view[v].kind = "attempt read"
          /\ Continue(v, Detail(v, view[v].row, questions))
    BY <1>3 DEF ReadAnswers
  <2> DEFINE state == Detail(v, view[v].row, questions)
  <2>2. /\ state.kind = "detail"
        /\ state.attempt = view[v].attempt
        /\ state.row = view[v].row
        /\ state.total = Cardinality(QuestionsOf[view[v].attempt.id])
        /\ state.feedback = IF view[v].row.submitted_at
                            THEN {feedback_for_percentage(view[v].row.percentage)} ELSE {}
        /\ state.questions = questions
    BY DEF Detail
  <2> HIDE DEF state
  <2>3. Continues(v) /\ view'[v] = state
    BY <2>1, ContinueShape DEF state
  <2> QED
    BY <2>1, <2>2, <2>3 DEF ShowsDetail
<1>4. ASSUME NEW u \in UserIds, UserNotFound(v, u) PROVE FindsNoUser(v)
  <2> DEFINE state == [kind |-> "user_not_found", id |-> u]
  <2>1. Begin(v, state) /\ \A user \in users : user.id # u
    BY <1>4 DEF UserNotFound
  <2>2. state.kind = "user_not_found" /\ state.id = u
    OBVIOUS
  <2> HIDE DEF state
  <2> QED
    BY <2>1, <2>2, BeginShape DEF FindsNoUser
<1>5. ASSUME NEW user \in users, ListAttempts(v, user) PROVE ShowsList(v)
  <2> DEFINE itemsOf(rows) == [k \in DOMAIN rows |->
                                 [id |-> rows[k].id, row |-> attempts[rows[k].id]]]
             state(rows) == [kind |-> "list", user |-> user.id, items |-> itemsOf(rows)]
  <2>1. PICK rows \in SetToSeqs(AttemptsOf(user.id)) :
          /\ \A i, j \in DOMAIN rows : i < j => NewestFirst(rows[i], rows[j])
          /\ Begin(v, state(rows))
    BY <1>5 DEF ListAttempts
  <2>2. /\ DOMAIN itemsOf(rows) = DOMAIN rows
        /\ \A k \in DOMAIN rows : /\ itemsOf(rows)[k].id = rows[k].id
                                 /\ itemsOf(rows)[k].row = attempts[rows[k].id]
    OBVIOUS
  <2> HIDE DEF itemsOf
  <2>3. /\ state(rows).kind = "list" /\ state(rows).user = user.id
        /\ state(rows).items = itemsOf(rows)
    OBVIOUS
  <2> HIDE DEF state
  <2>4. Begins(v) /\ view'[v] = state(rows)
    BY <2>1, BeginShape
  <2> QED
    BY <2>1, <2>2, <2>3, <2>4 DEF ShowsList
<1>6. ASSUME NEW user \in users, CountAttempts(v, user) PROVE Counts(v)
  <2> DEFINE total == Cardinality(AttemptsOf(user.id))
             state == [kind |-> "counted", user |-> user.id, total |-> total]
  <2>1. Begin(v, state)
    BY <1>6 DEF CountAttempts
  <2>2. state.kind = "counted" /\ state.user = user.id /\ state.total = total
    OBVIOUS
  <2> HIDE DEF state
  <2> QED
    BY <2>1, <2>2, BeginShape DEF Counts
<1>7. ASSUME AverageSubmitted(v) PROVE ShowsStats(v)
  <2> DEFINE submitted == {t.id : t \in {t \in AttemptsOf(view[v].user) :
                                           attempts[t.id].submitted_at}}
             mean == RoundedQuotient(
                       MapThenSumSet(LAMBDA a : attempts[a].percentage, submitted),
                       Cardinality(submitted))
             average == IF submitted = {} THEN {} ELSE {mean}
             state == [kind |-> "stats", user |-> view[v].user, total |-> view[v].total,
                       average |-> average]
  <2>1. view[v].kind = "counted" /\ Continue(v, state)
    BY <1>7 DEF AverageSubmitted
  <2>2. (\E t \in AttemptsOf(view[v].user) : attempts[t.id].submitted_at)
          => average # {}
    <3> HIDE DEF mean
    <3> QED
      OBVIOUS
  <2> HIDE DEF average
  <2>3. /\ state.kind = "stats" /\ state.user = view[v].user
        /\ state.total = view[v].total /\ state.average = average
    OBVIOUS
  <2> HIDE DEF state
  <2> QED
    BY <2>1, <2>2, <2>3, ContinueShape DEF ShowsStats
<1> QED
  BY <1>1, <1>2, <1>3, <1>4, <1>5, <1>6, <1>7 DEF ViewStep, Reads

\* The read is not the one that moves; it is lost if it was under way when the
\* process died.
Stays(v) ==
  /\ known'[v] = known[v]
  /\ view'[v] = view[v] \/ view'[v].kind = "lost"

LEMMA OtherViewsStay ==
  ASSUME ViewShape, NEW v \in Viewers, ViewStep(v)
  PROVE  ViewShape' /\ \A w \in Viewers \ {v} : Stays(w)
<1>1. ASSUME NEW state, Begin(v, state) \/ Continue(v, state)
      PROVE  ViewShape' /\ \A w \in Viewers \ {v} : Stays(w)
  BY <1>1 DEF ViewShape, Begin, Continue, Stays
<1> QED
  BY <1>1 DEF ViewStep, DetailNotFound, ReadAttempt, ReadAnswers, UserNotFound,
    ListAttempts, CountAttempts, AverageSubmitted

LEMMA ProcessStepsViews ==
  ASSUME ViewShape, [ViewsNext]_apiProcessVars
  PROVE  /\ ViewShape'
         /\ \A v \in Viewers :
              Stays(v) \/ (Reads(v) /\ UNCHANGED <<submissionVars, startVars>>)
<1>1. CASE UNCHANGED viewVars
  BY <1>1 DEF viewVars, ViewShape, Stays
<1>2. ASSUME NEW w \in Viewers, ViewStep(w), UNCHANGED <<submissionVars, startVars>>
      PROVE  /\ ViewShape'
             /\ \A v \in Viewers :
                  Stays(v) \/ (Reads(v) /\ UNCHANGED <<submissionVars, startVars>>)
  <2>1. ViewShape' /\ \A v \in Viewers \ {w} : Stays(v)
    BY <1>2, OtherViewsStay
  <2>2. Reads(w)
    BY <1>2, ViewStepReads
  <2> QED
    BY <1>2, <2>1, <2>2
<1>3. CASE Restart
  BY <1>3 DEF Restart, ViewShape, Stays
<1>4. CASE UNCHANGED apiProcessVars
  BY <1>1, <1>4 DEF apiProcessVars
<1> QED
  BY <1>1, <1>2, <1>3, <1>4 DEF ViewsNext

-----------------------------------------------------------------------------
(* What no step of the process changes.                                    *)

LEMMA AnsweredIsStored ==
  ASSUME ProcessInv, NEW r \in Answered
  PROVE  /\ \E t \in started : t.id = r /\ t.user = UserOf(r)
         /\ \E user \in users : user.id = UserOf(r)
<1>1. PICK t \in started : t.id = r
  BY DEF ProcessInv, FullInv, StartInv, AttemptsBelongToTheAsker, Answered
<1>2. t.user = UserOf(r)
  BY <1>1 DEF ProcessInv, StartOrderInv, StartedAsAsked
<1>3. \E user \in users : user.id = t.user
  BY DEF ProcessInv, FullInv, StartInv, AttemptsBelongToTheAsker
<1> QED
  BY <1>1, <1>2, <1>3

LEMMA StoredRow ==
  ASSUME ProcessInv, NEW t \in started
  PROVE  t.id \in Attempts /\ attempts[t.id] \in AttemptRow
<1>1. t.id \in Attempts
  BY ViewAssumption DEF ProcessInv, FullInv, StartTypeOK, AttemptInsert
<1>2. attempts \in [Attempts -> AttemptRow]
  BY DEF ProcessInv, SubmissionTypeOK, StorageTypeOK
<1> QED
  BY <1>1, <1>2

LEMMA OkIsAccepted ==
  ASSUME ProcessInv, NEW r \in Requests, stage[r] = "ok"
  PROVE  /\ Accepted(r)
         /\ attempts[Target(r)] = Result(r)
         /\ AnswersOf(Target(r)) = AnswerRows(r)
  BY DEF ProcessInv, SubmissionInv, OkIsCommitted, RowsOfSubmission, Accepted

LEMMA RequestsStay ==
  ASSUME ProcessInv, [ViewsNext]_apiProcessVars
  PROVE  /\ req' = req
         /\ \A r \in Requests : /\ Target(r)' = Target(r)
                                /\ Result(r)' = Result(r)
                                /\ SubmitResponse(r)' = SubmitResponse(r)
         /\ \A r \in Requests : stage[r] = "ok" => stage'[r] = "ok"
<1>1. QuietStep \/ \E r \in Requests : CommitStep(r)
  BY ProcessStepsSubmissions DEF ProcessInv
<1>2. req' = req
  BY <1>1 DEF QuietStep, CommitStep
<1>3. \A r \in Requests : stage[r] = "ok" => stage'[r] = "ok"
  BY <1>1 DEF QuietStep, QuietMove, CommitStep, Answer, InTransaction, Replies,
    ProcessInv, SubmissionTypeOK, ApiTypeOK
<1>4. \A r \in Requests : Target(r)' = Target(r) /\ Result(r)' = Result(r)
  BY <1>2, RequestsAreFixed
<1>5. \A r \in Requests : SubmitResponse(r)' = SubmitResponse(r)
  BY <1>2 DEF SubmitResponse, Target, Result
<1> QED
  BY <1>2, <1>3, <1>4, <1>5

LEMMA StoredStays ==
  ASSUME ProcessInv, [ViewsNext]_apiProcessVars
  PROVE  /\ started \subseteq started' /\ Committed \subseteq Committed'
         /\ Answered \subseteq Answered'
         /\ \A id \in Committed : UserOf(id)' = UserOf(id) /\ behind'[id] = behind[id]
<1>1. /\ started \subseteq started'
      /\ Answered \subseteq Answered'
      /\ \A t \in started : UserOf(t.id)' = UserOf(t.id) /\ behind'[t.id] = behind[t.id]
  BY ProcessStepsStarts, StartedRemain DEF ProcessInv
<1> QED
  BY <1>1 DEF Committed

\* Who has been answered has an attempt, so it is as fixed as one.
LEMMA AnsweredStays ==
  ASSUME ProcessInv, [ViewsNext]_apiProcessVars, NEW r \in Answered
  PROVE  r \in Answered' /\ UserOf(r)' = UserOf(r)
<1>1. r \in Committed
  BY AnsweredIsStored DEF Committed
<1> QED
  BY <1>1, StoredStays

LEMMA FinalStays ==
  ASSUME ProcessInv, [ViewsNext]_apiProcessVars,
         NEW a \in Attempts, attempts[a].submitted_at
  PROVE  attempts'[a] = attempts[a]
<1>1. QuietStep \/ \E r \in Requests : CommitStep(r)
  BY ProcessStepsSubmissions DEF ProcessInv
<1> QED
  BY <1>1, ResultsKept DEF ProcessInv

-----------------------------------------------------------------------------
(* The invariant behind the reads.                                         *)

LEMMA SubmitsKeepFollowing ==
  ASSUME ProcessInv, SubmitsFollowStarts, [ViewsNext]_apiProcessVars
  PROVE  SubmitsFollowStarts'
<1> DEFINE Past == {"validated", "ok"} \cup InTransaction
<1>1. \A r \in Requests : Target(r)' = Target(r)
  BY RequestsStay
<1>2. Committed \subseteq Committed'
  BY StoredStays
<1>3. ASSUME \A r \in Requests : stage'[r] \in Past =>
               stage[r] \in Past \/ Target(r) \in Committed
      PROVE  SubmitsFollowStarts'
  BY <1>1, <1>2, <1>3 DEF SubmitsFollowStarts, InTransaction
<1>4. CASE stage' = stage
  BY <1>3, <1>4
<1>5. ASSUME NEW r \in Requests, SubmitStep(r)
      PROVE  SubmitsFollowStarts'
  <2>1. \A s \in Requests \ {r} : stage'[s] = stage[s]
    BY <1>5 DEF SubmitStep, AttemptNotFound, SubmitTooEarly, AlreadySubmitted,
      InvalidSubmission, Validate, Proceed, Flush, FlushConflict, SkipEnqueue,
      EnqueueJob, EnqueueFails, Commit, CommitUnacknowledged, TransactionFails, Answer,
      ProcessInv, SubmissionTypeOK, ApiTypeOK
  <2>2. stage'[r] \in Past => Target(r) \in Committed
    <3> SUFFICES ASSUME Target(r) \notin Committed PROVE stage'[r] \notin Past
      OBVIOUS
    <3>1. \/ AttemptNotFound(r) \/ SubmitTooEarly(r)
          \/ CommitUnacknowledged(r) \/ TransactionFails(r)
      BY <1>5 DEF SubmitStep
    <3> QED
      BY <3>1 DEF AttemptNotFound, SubmitTooEarly, CommitUnacknowledged,
        TransactionFails, Answer, InTransaction, ProcessInv, SubmissionTypeOK, ApiTypeOK
  <2> QED
    BY <1>3, <2>1, <2>2
<1>6. CASE Restart
  <2>1. \A r \in Requests : stage'[r] \in Past => stage[r] \in Past
    BY <1>6 DEF Restart, RestartApi, InTransaction
  <2> QED
    BY <1>3, <2>1
<1>7. CASE UNCHANGED submissionVars
  BY <1>4, <1>7 DEF submissionVars, apiVars
<1>8. CASE UNCHANGED apiProcessVars
  BY <1>7, <1>8 DEF apiProcessVars
<1> QED
  BY <1>5, <1>6, <1>7, <1>8 DEF ViewsNext

\* What is known as a read begins is what has been answered; that only grows.
LEMMA KnownStaysAnswered ==
  ASSUME ProcessInv, ViewShape, KnownIsAnswered, [ViewsNext]_apiProcessVars
  PROVE  KnownIsAnswered'
<1> SUFFICES ASSUME NEW v \in Viewers
             PROVE  /\ known'[v].starts \subseteq Answered'
                    /\ \A r \in known'[v].submits : r \in Requests /\ stage'[r] = "ok"
  BY DEF KnownIsAnswered
<1>1. /\ Answered \subseteq Answered'
      /\ \A r \in Requests : stage[r] = "ok" => stage'[r] = "ok"
  BY StoredStays, RequestsStay
<1>2. /\ known[v].starts \subseteq Answered
      /\ \A r \in known[v].submits : r \in Requests /\ stage[r] = "ok"
  BY DEF KnownIsAnswered
<1>3. CASE Begins(v)
  BY <1>1, <1>3 DEF Begins
<1>4. CASE known'[v] = known[v]
  BY <1>1, <1>2, <1>4
<1>5. Begins(v) \/ known'[v] = known[v]
  BY ProcessStepsViews DEF Stays, Reads, Continues, FindsNoAttempt, FindsAttempt,
    ShowsDetail, FindsNoUser, ShowsList, Counts, ShowsStats
<1> QED
  BY <1>3, <1>4, <1>5

LEMMA FoundRow ==
  ASSUME ProcessInv, NEW v \in Viewers, FindsAttempt(v)
  PROVE  /\ view'[v].attempt \in started
         /\ view'[v].row = attempts[view'[v].attempt.id]
         /\ view'[v].row \in AttemptRow
         /\ known'[v].submits = {r \in Requests : stage[r] = "ok"}
<1> DEFINE read == view'[v]
           t == read.attempt
           row == attempts[t.id]
<1>1. t \in started /\ read.row = row
  BY DEF FindsAttempt
<1>2. known'[v].submits = {r \in Requests : stage[r] = "ok"}
  <2>1. Begins(v)
    BY DEF FindsAttempt
  <2> QED
    BY ONLY <2>1 DEF Begins
<1> HIDE DEF t
<1>3. row \in AttemptRow
  BY <1>1, StoredRow
<1> HIDE DEF row
<1>4. read.row \in AttemptRow
  BY <1>1, <1>3
<1> QED
  BY <1>1, <1>2, <1>4 DEF t, row

LEMMA ReadStaysFinalOrOpen ==
  ASSUME ProcessInv, ViewShape, KnownIsAnswered, ReadIsFinalOrOpen,
         [ViewsNext]_apiProcessVars
  PROVE  ReadIsFinalOrOpen'
<1> SUFFICES ASSUME NEW v \in Viewers, view'[v].kind = "attempt read"
             PROVE  /\ view'[v].attempt \in started'
                    /\ view'[v].row \in AttemptRow
                    /\ view'[v].row.submitted_at =>
                         view'[v].row = attempts'[view'[v].attempt.id]
                    /\ \A r \in known'[v].submits :
                         Target(r)' = view'[v].attempt.id => view'[v].row = Result(r)'
  BY DEF ReadIsFinalOrOpen
<1>1. \A t \in started : t.id \in Attempts /\ attempts[t.id] \in AttemptRow
  BY StoredRow
<1>2. CASE Stays(v)
  <2>1. view'[v] = view[v] /\ known'[v] = known[v]
    BY <1>2 DEF Stays
  <2>2. /\ view[v].attempt \in started /\ view[v].row \in AttemptRow
        /\ view[v].row.submitted_at => view[v].row = attempts[view[v].attempt.id]
        /\ \A r \in known[v].submits :
             Target(r) = view[v].attempt.id => view[v].row = Result(r)
    BY <2>1 DEF ReadIsFinalOrOpen
  <2>3. view[v].row.submitted_at =>
          attempts'[view[v].attempt.id] = attempts[view[v].attempt.id]
    BY <1>1, <2>2, FinalStays
  <2>4. \A r \in known[v].submits : Target(r)' = Target(r) /\ Result(r)' = Result(r)
    BY RequestsStay DEF KnownIsAnswered
  <2> QED
    BY <2>1, <2>2, <2>3, <2>4, StoredStays
<1>3. CASE Reads(v) /\ UNCHANGED <<submissionVars, startVars>>
  <2>1. FindsAttempt(v)
    BY <1>3 DEF Reads, FindsNoAttempt, FindsAttempt, ShowsDetail, FindsNoUser,
      ShowsList, Counts, ShowsStats
  <2>2. /\ view'[v].attempt \in started
        /\ view'[v].row = attempts[view'[v].attempt.id]
        /\ view'[v].row \in AttemptRow
        /\ known'[v].submits = {r \in Requests : stage[r] = "ok"}
    BY <2>1, FoundRow
  <2>3. attempts' = attempts /\ started' = started
    BY <1>3 DEF submissionVars, startVars
  <2>4. \A r \in known'[v].submits :
          /\ Target(r)' = Target(r) /\ Result(r)' = Result(r)
          /\ attempts[Target(r)] = Result(r)
    BY <2>2, RequestsStay, OkIsAccepted
  <2> QED
    BY <2>2, <2>3, <2>4
<1> QED
  BY <1>2, <1>3, ProcessStepsViews

\* The attempts of a user are no fewer than the starts answered for that user.
LEMMA KnownAreCounted ==
  ASSUME ProcessInv, NEW u, NEW S \in SUBSET Answered, \A r \in S : UserOf(r) = u
  PROVE  /\ IsFiniteSet(AttemptsOf(u))
         /\ IsFiniteSet(S)
         /\ Cardinality(S) <= Cardinality(AttemptsOf(u))
<1> DEFINE rows == AttemptsOf(u)
           ids == {t.id : t \in rows}
           idOf == [t \in rows |-> t.id]
<1>1. IsFiniteSet(rows)
  BY FS_Subset DEF ProcessInv, AttemptsOf
<1>2. S \in SUBSET ids
  <2> SUFFICES ASSUME NEW r \in S PROVE r \in ids
    OBVIOUS
  <2>1. PICK t \in started : t.id = r /\ t.user = UserOf(r)
    BY AnsweredIsStored
  <2> QED
    BY <2>1 DEF AttemptsOf
<1> HIDE DEF rows
<1>3. idOf \in Surjection(rows, ids)
  BY DEF Surjection
<1> HIDE DEF ids, idOf
<1>4. IsFiniteSet(ids) /\ Cardinality(ids) <= Cardinality(rows)
  BY <1>1, <1>3, FS_Surjection
<1>5. IsFiniteSet(S) /\ Cardinality(S) <= Cardinality(ids)
  BY <1>2, <1>4, FS_Subset
<1>6. Cardinality(S) \in Nat /\ Cardinality(ids) \in Nat /\ Cardinality(rows) \in Nat
  BY <1>1, <1>4, <1>5, FS_CardinalityType
<1>7. Cardinality(S) <= Cardinality(rows)
  BY <1>4, <1>5, <1>6
<1> QED
  BY <1>1, <1>5, <1>7 DEF rows

LEMMA KnownOfStays ==
  ASSUME ProcessInv, KnownIsAnswered, [ViewsNext]_apiProcessVars,
         NEW v \in Viewers, known'[v] = known[v], NEW u
  PROVE  KnownOf(v, u)' = KnownOf(v, u)
<1>1. \A r \in known[v].starts : UserOf(r)' = UserOf(r)
  BY AnsweredStays DEF KnownIsAnswered
<1> QED
  BY <1>1 DEF KnownOf

LEMMA CountStaysComplete ==
  ASSUME ProcessInv, ViewShape, KnownIsAnswered, CountIsComplete,
         [ViewsNext]_apiProcessVars
  PROVE  CountIsComplete'
<1> SUFFICES ASSUME NEW v \in Viewers, view'[v].kind = "counted",
                    NEW u, u = view'[v].user
             PROVE  view'[v].total >= Cardinality(KnownOf(v, u)')
  BY DEF CountIsComplete, KnownOf
<1>1. CASE Stays(v)
  <2>1. view'[v] = view[v] /\ known'[v] = known[v]
    BY <1>1 DEF Stays
  <2>2. KnownOf(v, u)' = KnownOf(v, u)
    BY <2>1, KnownOfStays
  <2> QED
    BY <2>1, <2>2 DEF CountIsComplete
<1>2. CASE Reads(v) /\ UNCHANGED <<submissionVars, startVars>>
  <2>1. Counts(v)
    BY <1>2 DEF Reads, FindsNoAttempt, FindsAttempt, ShowsDetail, FindsNoUser,
      ShowsList, Counts, ShowsStats
  <2> DEFINE S == {r \in Answered : UserOf(r) = u}
  <2>2. view'[v].total = Cardinality(AttemptsOf(u))
    BY <2>1 DEF Counts
  <2>3. KnownOf(v, u)' = S
    <3>1. known'[v].starts = Answered
      BY <2>1 DEF Counts, Begins
    <3>2. seen' = seen
      BY <1>2 DEF startVars
    <3> QED
      BY <3>1, <3>2 DEF KnownOf, UserOf
  <2>4. S \in SUBSET Answered /\ \A r \in S : UserOf(r) = u
    OBVIOUS
  <2> HIDE DEF S
  <2>5. /\ Cardinality(S) <= Cardinality(AttemptsOf(u))
        /\ Cardinality(S) \in Nat /\ Cardinality(AttemptsOf(u)) \in Nat
    BY <2>4, KnownAreCounted, FS_CardinalityType
  <2> QED
    BY <2>2, <2>3, <2>5
<1> QED
  BY <1>1, <1>2, ProcessStepsViews

LEMMA ListedStaysStored ==
  ASSUME ProcessInv, ViewShape, ListedIsStored, [ViewsNext]_apiProcessVars
  PROVE  ListedIsStored'
<1> SUFFICES ASSUME NEW v \in Viewers, view'[v].kind = "list",
                    NEW k \in DOMAIN view'[v].items
             PROVE  view'[v].items[k].id \in Committed'
  BY DEF ListedIsStored
<1>1. Committed \subseteq Committed'
  BY StoredStays
<1>2. CASE Stays(v)
  <2>1. view'[v] = view[v]
    BY <1>2 DEF Stays
  <2> QED
    BY <1>1, <2>1 DEF ListedIsStored
<1>3. CASE Reads(v)
  <2>1. ShowsList(v)
    BY <1>3 DEF Reads, FindsNoAttempt, FindsAttempt, ShowsDetail, FindsNoUser,
      ShowsList, Counts, ShowsStats
  <2> DEFINE mine == AttemptsOf(view'[v].user)
  <2>2. PICK rows \in SetToSeqs(mine) :
          /\ DOMAIN view'[v].items = DOMAIN rows
          /\ \A i \in DOMAIN rows : view'[v].items[i].id = rows[i].id
    BY <2>1 DEF ShowsList
  <2>3. IsFiniteSet(mine) /\ mine \subseteq started
    BY FS_Subset DEF ProcessInv, AttemptsOf
  <2> HIDE DEF mine
  <2>4. rows \in [1..Cardinality(mine) -> mine] /\ DOMAIN rows = 1..Cardinality(mine)
    BY <2>3, ListingsOfSet, OrderShape
  <2>5. rows[k] \in started /\ view'[v].items[k].id = rows[k].id
    BY <2>2, <2>3, <2>4
  <2>6. view'[v].items[k].id \in Committed
    BY <2>5 DEF Committed
  <2> QED
    BY <1>1, <2>6
<1> QED
  BY <1>2, <1>3, ProcessStepsViews

FullViewInv == ProcessInv /\ ViewShape /\ ViewInv

LEMMA FullViewInit == ViewsInit => FullViewInv
<1> SUFFICES ASSUME ViewsInit PROVE FullViewInv
  OBVIOUS
<1>1. ProcessInv
  BY ProcessInvInit
<1>2. \A v \in Viewers : /\ view[v].kind = "idle"
                         /\ known[v].starts = {} /\ known[v].submits = {}
  BY DEF ViewsInit, ViewInit
<1>3. ViewShape
  BY DEF ViewsInit, ViewInit, ViewShape
<1>4. \A r \in Requests : stage[r] = "idle"
  BY DEF ViewsInit, SubmissionInit, ApiInit
<1>5. ViewInv
  BY <1>1, <1>2, <1>4 DEF ViewInv, ProcessInv, SubmitsFollowStarts, InTransaction,
    KnownIsAnswered, ReadIsFinalOrOpen, CountIsComplete, ListedIsStored
<1> QED
  BY <1>1, <1>3, <1>5 DEF FullViewInv

LEMMA FullViewInductive ==
  ASSUME FullViewInv, [ViewsNext]_apiProcessVars
  PROVE  FullViewInv'
<1> USE DEF FullViewInv, ViewInv
<1>1. ProcessInv'
  BY ProcessInvInductive
<1>2. ViewShape'
  BY ProcessStepsViews
<1>3. StartOrderInv'
  BY <1>1 DEF ProcessInv
<1>4. SubmitsFollowStarts'
  BY SubmitsKeepFollowing
<1>5. KnownIsAnswered'
  BY KnownStaysAnswered
<1>6. ReadIsFinalOrOpen'
  BY ReadStaysFinalOrOpen
<1>7. CountIsComplete'
  BY CountStaysComplete
<1>8. ListedIsStored'
  BY ListedStaysStored
<1> QED
  BY <1>1, <1>2, <1>3, <1>4, <1>5, <1>6, <1>7, <1>8

LEMMA FullViewInvariance == ViewsSpec => []FullViewInv
<1>1. FullViewInv /\ [ViewsNext]_apiProcessVars => FullViewInv'
  BY FullViewInductive
<1> QED
  BY <1>1, FullViewInit, PTL DEF ViewsSpec

\* Whatever a read has seen before the last of its SELECTs, no later start or
\* submission makes it wrong for what it goes on to answer.
THEOREM ReadsStayValid == ViewsSpec => []ViewInv
<1>1. FullViewInv => ViewInv
  BY DEF FullViewInv
<1> QED
  BY <1>1, FullViewInvariance, PTL

-----------------------------------------------------------------------------
(* A detail is of one moment.                                              *)

LEMMA SubmittedIsAccepted ==
  ASSUME ProcessInv, NEW a \in Attempts, attempts[a].submitted_at
  PROVE  \E n \in Requests :
           /\ Target(n) = a /\ Accepted(n)
           /\ attempts[a] = Result(n) /\ AnswersOf(a) = AnswerRows(n)
<1>1. SubmissionTypeOK /\ SubmissionInv
  BY DEF ProcessInv
<1>2. NotificationsOf(a) # {}
  BY <1>1 DEF SubmissionInv, NoRowsWithoutSubmission, Unsubmitted
<1>3. PICK n \in Requests : /\ Target(n) = a
                            /\ ValidSubmission(QuestionsOf[a], req[n].answers)
                            /\ attempts[a] = Result(n)
                            /\ AnswersOf(a) = AnswerRows(n)
  BY <1>1, <1>2, SubmittedBy
<1>4. Accepted(n)
  BY <1>3 DEF Accepted
<1> QED
  BY <1>3, <1>4

LEMMA BreakdownIsWhole ==
  ASSUME ProcessInv, NEW a \in Attempts, attempts[a].submitted_at,
         NEW results \in Breakdowns(AnswersOf(a))
  PROVE  /\ {results[k].question : k \in DOMAIN results} = QuestionsOf[a]
         /\ Len(results) = Cardinality(QuestionsOf[a])
         /\ InPosition(results)
         /\ Cardinality({k \in DOMAIN results : results[k].is_correct}) = attempts[a].score
<1>1. PICK n \in Requests : /\ Target(n) = a /\ Accepted(n)
                            /\ attempts[a] = Result(n) /\ AnswersOf(a) = AnswerRows(n)
  BY SubmittedIsAccepted
<1>2. ApiTypeOK
  BY DEF ProcessInv, SubmissionTypeOK
<1>3. results \in Breakdowns(AnswerRows(n))
  BY <1>1
<1>4. results \in Orders(Marks(n)) /\ InPosition(results)
  BY <1>1, <1>2, <1>3, BreakdownIsOrder
<1>5. /\ {results[k].question : k \in DOMAIN results} = QuestionsOf[Target(n)]
      /\ Len(results) = Cardinality(QuestionsOf[Target(n)])
      /\ Cardinality({k \in DOMAIN results : results[k].is_correct}) = Result(n).score
  BY <1>1, <1>2, <1>4, OrderOfMarksIsWhole
<1> QED
  BY <1>1, <1>4, <1>5

\* DetailIsWhole, of one detail.
Whole(shown) ==
  IF shown.row.submitted_at
  THEN /\ {shown.questions[k].question : k \in DOMAIN shown.questions} =
            QuestionsOf[shown.attempt.id]
       /\ Len(shown.questions) = shown.total
       /\ InPosition(shown.questions)
       /\ Cardinality({k \in DOMAIN shown.questions : shown.questions[k].is_correct}) =
            shown.row.score
  ELSE shown.questions = <<>> /\ shown.feedback = {}

LEMMA ShownIsWhole ==
  ASSUME FullViewInv, NEW v \in Viewers, ShowsDetail(v)
  PROVE  Whole(view'[v])
<1> DEFINE read == view[v]
           shown == view'[v]
           a == read.attempt.id
<1>1. /\ read.kind = "attempt read"
      /\ shown.attempt = read.attempt /\ shown.row = read.row
      /\ shown.total = Cardinality(QuestionsOf[a])
      /\ shown.feedback = IF read.row.submitted_at
                          THEN {feedback_for_percentage(read.row.percentage)} ELSE {}
      /\ shown.questions \in IF read.row.submitted_at THEN Breakdowns(AnswersOf(a))
                                                      ELSE {<<>>}
  BY DEF ShowsDetail, ReadBreakdowns
<1>2. /\ read.attempt \in started
      /\ read.row.submitted_at => read.row = attempts[a]
  BY <1>1 DEF FullViewInv, ViewInv, ReadIsFinalOrOpen
<1>3. a \in Attempts
  BY <1>2, StoredRow DEF FullViewInv
<1> HIDE DEF read, shown, a
<1>4. CASE read.row.submitted_at
  <2>1. attempts[a].submitted_at /\ shown.questions \in Breakdowns(AnswersOf(a))
    BY <1>1, <1>2, <1>4
  <2>2. /\ {shown.questions[k].question : k \in DOMAIN shown.questions} = QuestionsOf[a]
        /\ Len(shown.questions) = Cardinality(QuestionsOf[a])
        /\ InPosition(shown.questions)
        /\ Cardinality({k \in DOMAIN shown.questions : shown.questions[k].is_correct}) =
             attempts[a].score
    BY <1>3, <2>1, BreakdownIsWhole DEF FullViewInv
  <2>3. /\ shown.row = attempts[a] /\ shown.attempt.id = a
        /\ shown.total = Cardinality(QuestionsOf[a])
    BY <1>1, <1>2, <1>4 DEF a
  <2> QED
    BY <2>1, <2>2, <2>3 DEF Whole, shown
<1>5. CASE ~read.row.submitted_at
  BY <1>1, <1>5 DEF Whole, shown
<1> QED
  BY <1>4, <1>5

LEMMA DetailsStayWhole ==
  ASSUME FullViewInv, DetailIsWhole, [ViewsNext]_apiProcessVars
  PROVE  DetailIsWhole'
<1>1. ASSUME NEW v \in Viewers, view'[v].kind = "detail"
      PROVE  Whole(view'[v])
  <2>1. CASE Stays(v)
    <3>1. view'[v] = view[v] /\ view[v].kind = "detail"
      BY <1>1, <2>1 DEF Stays
    <3>2. Whole(view[v])
      BY <3>1 DEF DetailIsWhole, Whole
    <3> QED
      BY <3>1, <3>2
  <2>2. CASE Reads(v)
    <3>1. ShowsDetail(v)
      BY <1>1, <2>2 DEF Reads, FindsNoAttempt, FindsAttempt, ShowsDetail, FindsNoUser,
        ShowsList, Counts, ShowsStats
    <3> QED
      BY <3>1, ShownIsWhole
  <2> QED
    BY <2>1, <2>2, ProcessStepsViews DEF FullViewInv
<1> QED
  BY <1>1 DEF DetailIsWhole, Whole

\* A detail read while a submission commits shows no result, or the whole one,
\* with one entry for each question of the quiz.
THEOREM DetailIsAlwaysWhole == ViewsSpec => []DetailIsWhole
<1>1. ViewsInit => DetailIsWhole
  BY DEF ViewsInit, ViewInit, DetailIsWhole
<1>2. FullViewInv /\ DetailIsWhole /\ [ViewsNext]_apiProcessVars => DetailIsWhole'
  BY DetailsStayWhole
<1> QED
  BY <1>1, <1>2, FullViewInvariance, PTL DEF ViewsSpec

-----------------------------------------------------------------------------
(* The reads of whoever was answered with a result.                        *)

\* What a read shows agrees with the answer to a submission for attempt id of
\* the user.
Matches(shown, id, user, answer) ==
  /\ shown.kind = "detail" /\ shown.attempt.id = id => SameAnswer(shown, answer)
  /\ shown.kind = "list" =>
       \A k \in DOMAIN shown.items :
         shown.items[k].id = id => shown.items[k].row = answer.row
  /\ shown.kind = "stats" /\ shown.user = user => shown.average # {}

LEMMA ReadsMatch ==
  ReadsFollowAnswers <=>
    \A v \in Viewers : \A r \in known[v].submits :
      Matches(view[v], Target(r), UserOf(Target(r)), SubmitResponse(r))
<1>1. \A r : SubmitResponse(r).row = Result(r)
  BY DEF SubmitResponse
<1> QED
  BY <1>1 DEF ReadsFollowAnswers, Matches

LEMMA TargetIsStored ==
  ASSUME FullViewInv, NEW r \in Requests, stage[r] = "ok"
  PROVE  \E t \in started :
           /\ t.id = Target(r) /\ t.user = UserOf(Target(r))
           /\ attempts[t.id] = Result(r)
<1>1. Target(r) \in Committed
  BY DEF FullViewInv, ViewInv, SubmitsFollowStarts
<1>2. PICK t \in started : t.id = Target(r)
  BY <1>1 DEF Committed
<1>3. t.user = UserOf(t.id)
  BY DEF FullViewInv, ProcessInv, StartOrderInv, StartedAsAsked
<1>4. attempts[Target(r)] = Result(r)
  BY OkIsAccepted DEF FullViewInv
<1> QED
  BY <1>2, <1>3, <1>4

LEMMA AnswerStays ==
  ASSUME FullViewInv, [ViewsNext]_apiProcessVars, NEW r \in Requests, stage[r] = "ok"
  PROVE  /\ Target(r)' = Target(r)
         /\ UserOf(Target(r))' = UserOf(Target(r))
         /\ SubmitResponse(r)' = SubmitResponse(r)
<1>1. Target(r)' = Target(r) /\ SubmitResponse(r)' = SubmitResponse(r)
  BY RequestsStay DEF FullViewInv
<1>2. PICK id : id = Target(r)
  OBVIOUS
<1>3. id \in Committed
  BY <1>2, TargetIsStored DEF Committed
<1>4. UserOf(id)' = UserOf(id)
  BY <1>3, StoredStays DEF FullViewInv
<1>5. UserOf(Target(r))' = UserOf(id)'
  <2>1. Target(r)' = id
    BY <1>1, <1>2
  <2> QED
    BY <2>1 DEF UserOf
<1>6. UserOf(Target(r)) = UserOf(id)
  BY <1>2
<1> QED
  BY <1>1, <1>4, <1>5, <1>6

LEMMA DetailMatches ==
  ASSUME FullViewInv, NEW v \in Viewers, ShowsDetail(v), NEW r \in known[v].submits,
         view[v].attempt.id = Target(r)
  PROVE  SameAnswer(view'[v], SubmitResponse(r))
<1> DEFINE read == view[v]
           shown == view'[v]
           a == read.attempt.id
           told == SubmitResponse(r)
<1>1. /\ read.kind = "attempt read"
      /\ shown.row = read.row
      /\ shown.total = Cardinality(QuestionsOf[a])
      /\ shown.feedback = IF read.row.submitted_at
                          THEN {feedback_for_percentage(read.row.percentage)} ELSE {}
      /\ shown.questions \in IF read.row.submitted_at THEN Breakdowns(AnswersOf(a))
                                                      ELSE {<<>>}
  BY DEF ShowsDetail, ReadBreakdowns
<1>2. r \in Requests /\ stage[r] = "ok"
  BY DEF FullViewInv, ViewInv, KnownIsAnswered
<1>3. read.row = Result(r)
  BY <1>1 DEF FullViewInv, ViewInv, ReadIsFinalOrOpen
<1>4. Accepted(r) /\ AnswersOf(Target(r)) = AnswerRows(r) /\ ApiTypeOK
  BY <1>2, OkIsAccepted DEF FullViewInv, ProcessInv, SubmissionTypeOK
<1>5. /\ told.row = Result(r)
      /\ told.total = Cardinality(QuestionsOf[Target(r)])
      /\ told.feedback = {feedback_for_percentage(Result(r).percentage)}
  BY DEF SubmitResponse
<1>6. a = Target(r)
  OBVIOUS
<1>7. Result(r).submitted_at = TRUE
  BY DEF Result
<1> HIDE DEF read, shown, a, told
<1>8. shown.questions \in Breakdowns(AnswerRows(r))
  BY <1>1, <1>3, <1>4, <1>6, <1>7
<1>9. /\ DOMAIN shown.questions = DOMAIN told.questions
      /\ Range(shown.questions) = Range(told.questions)
      /\ \A k \in DOMAIN told.questions :
           PositionOf[shown.questions[k].question] = PositionOf[told.questions[k].question]
  BY <1>2, <1>4, <1>8, BreakdownIsResponse DEF told
<1>10. /\ shown.row = told.row
       /\ shown.total = told.total
       /\ shown.feedback = told.feedback
  BY <1>1, <1>3, <1>5, <1>6, <1>7
<1> QED
  BY <1>9, <1>10 DEF SameAnswer, shown, told

LEMMA KnownIsOk ==
  ASSUME FullViewInv, NEW v \in Viewers, Reads(v), NEW r \in known'[v].submits
  PROVE  r \in Requests /\ stage[r] = "ok"
<1>1. CASE Begins(v)
  BY <1>1 DEF Begins
<1>2. CASE Continues(v)
  BY <1>2 DEF Continues, FullViewInv, ViewInv, KnownIsAnswered
<1> QED
  BY <1>1, <1>2 DEF Reads, FindsNoAttempt, FindsAttempt, ShowsDetail, FindsNoUser,
    ShowsList, Counts, ShowsStats

LEMMA ReadMatchesAnswer ==
  ASSUME FullViewInv, NEW v \in Viewers, Reads(v), NEW r \in known'[v].submits
  PROVE  Matches(view'[v], Target(r), UserOf(Target(r)), SubmitResponse(r))
<1>1. r \in Requests /\ stage[r] = "ok"
  BY KnownIsOk
<1>2. CASE view'[v].kind \notin {"detail", "list", "stats"}
  BY <1>2 DEF Matches
<1>3. CASE ShowsDetail(v)
  <2>1. view'[v].kind = "detail" /\ view'[v].attempt = view[v].attempt
    BY <1>3 DEF ShowsDetail
  <2>2. view[v].attempt.id = Target(r) => SameAnswer(view'[v], SubmitResponse(r))
    BY <1>3, DetailMatches DEF ShowsDetail, Continues
  <2> QED
    BY <2>1, <2>2 DEF Matches
<1>4. CASE ShowsList(v)
  <2>1. view'[v].kind = "list"
    BY <1>4 DEF ShowsList
  <2>2. \A k \in DOMAIN view'[v].items :
          view'[v].items[k].row = attempts[view'[v].items[k].id]
    BY <1>4 DEF ShowsList
  <2>3. attempts[Target(r)] = Result(r) /\ SubmitResponse(r).row = Result(r)
    BY <1>1, OkIsAccepted DEF FullViewInv, SubmitResponse
  <2> QED
    BY <2>1, <2>2, <2>3 DEF Matches
<1>5. CASE ShowsStats(v)
  <2>1. /\ view'[v].kind = "stats" /\ view'[v].user = view[v].user
        /\ (\E t \in AttemptsOf(view[v].user) : attempts[t.id].submitted_at)
             => view'[v].average # {}
    BY <1>5 DEF ShowsStats
  <2>2. PICK t \in started : /\ t.user = UserOf(Target(r))
                             /\ attempts[t.id] = Result(r)
    BY <1>1, TargetIsStored
  <2>3. attempts[t.id].submitted_at
    BY <2>2 DEF Result
  <2>4. ASSUME view'[v].user = UserOf(Target(r)) PROVE view'[v].average # {}
    BY <2>1, <2>2, <2>3, <2>4 DEF AttemptsOf
  <2> QED
    BY <2>1, <2>4 DEF Matches
<1> QED
  BY <1>2, <1>3, <1>4, <1>5 DEF Reads, FindsNoAttempt, FindsAttempt, FindsNoUser, Counts

LEMMA ReadsStayFollowing ==
  ASSUME FullViewInv, ReadsFollowAnswers, [ViewsNext]_apiProcessVars
  PROVE  ReadsFollowAnswers'
<1>1. ASSUME NEW v \in Viewers, NEW r \in known'[v].submits
      PROVE  /\ r \in Requests /\ stage[r] = "ok"
             /\ Matches(view'[v], Target(r), UserOf(Target(r)), SubmitResponse(r))
  <2>1. CASE Stays(v)
    <3>1. known'[v] = known[v] /\ (view'[v] = view[v] \/ view'[v].kind = "lost")
      BY <2>1 DEF Stays
    <3>2. r \in Requests /\ stage[r] = "ok"
      BY <3>1, <1>1 DEF FullViewInv, ViewInv, KnownIsAnswered
    <3>3. Matches(view[v], Target(r), UserOf(Target(r)), SubmitResponse(r))
      BY <3>1, ReadsMatch
    <3>4. view'[v].kind = "lost" =>
            Matches(view'[v], Target(r), UserOf(Target(r)), SubmitResponse(r))
      BY DEF Matches
    <3> QED
      BY <3>1, <3>2, <3>3, <3>4
  <2>2. CASE Reads(v)
    BY <2>2, KnownIsOk, ReadMatchesAnswer
  <2> QED
    BY <2>1, <2>2, ProcessStepsViews DEF FullViewInv
<1>2. ASSUME NEW v \in Viewers, NEW r \in known'[v].submits
      PROVE  Matches(view'[v], Target(r)', UserOf(Target(r))', SubmitResponse(r)')
  BY <1>1, AnswerStays
<1>3. \A r : SubmitResponse(r)'.row = Result(r)'
  BY DEF SubmitResponse
<1> QED
  BY <1>2, <1>3 DEF ReadsFollowAnswers, Matches

\* A client whose submission was answered ok finds that result in every read it
\* makes from then on, whatever the others submit and start meanwhile.
THEOREM ReadsAlwaysFollowAnswers == ViewsSpec => []ReadsFollowAnswers
<1>1. ViewsInit => ReadsFollowAnswers
  BY DEF ViewsInit, ViewInit, ReadsFollowAnswers
<1>2. FullViewInv /\ ReadsFollowAnswers /\ [ViewsNext]_apiProcessVars => ReadsFollowAnswers'
  BY ReadsStayFollowing
<1> QED
  BY <1>1, <1>2, FullViewInvariance, PTL DEF ViewsSpec

-----------------------------------------------------------------------------
(* The reads of whoever was answered with an attempt.                      *)

\* A read finds attempt r of the user, in HistoryIsComplete's sense, and a
\* history is in the order clients learned of its attempts.
Finds(shown, r, user) ==
  /\ shown.kind = "attempt_not_found" => shown.id # r
  /\ shown.kind = "user_not_found" => shown.id # user
  /\ shown.kind = "detail" /\ shown.attempt.id = r => shown.attempt.user = user
  /\ shown.kind = "list" /\ shown.user = user =>
       \E k \in DOMAIN shown.items : shown.items[k].id = r

Recounts(shown) ==
  shown.kind = "list" =>
    \A i, j \in DOMAIN shown.items : i < j =>
      /\ shown.items[i].id # shown.items[j].id
      /\ shown.items[i].id \notin behind[shown.items[j].id]

\* Rows differ by their ids, and in a listing nothing comes before what it
\* waited for.
LEMMA ListedInOrder ==
  ASSUME ProcessInv, NEW t \in started, NEW later \in started,
         t # later, NewestFirst(t, later)
  PROVE  t.id # later.id /\ t.id \notin behind[later.id]
<1>1. /\ t \in AttemptInsert /\ later \in AttemptInsert
      /\ began \in [Starts -> Nat]
  BY DEF ProcessInv, FullInv, StartTypeOK
<1>2. /\ t.user = UserOf(t.id) /\ t.quiz = ask[t.id].quiz /\ t.started_at = began[t.id]
      /\ later.user = UserOf(later.id) /\ later.quiz = ask[later.id].quiz
      /\ later.started_at = began[later.id]
  BY DEF ProcessInv, StartOrderInv, StartedAsAsked
<1>3. t.id # later.id
  BY <1>1, <1>2 DEF AttemptInsert
<1>4. t.id \in Starts /\ later.id \in Starts
  BY <1>1 DEF AttemptInsert
<1>5. \A q \in behind[later.id] : began[q] < began[later.id]
  BY <1>4 DEF ProcessInv, StartOrderInv, BeginningsInOrder
<1>6. began[t.id] >= began[later.id]
  BY <1>2 DEF NewestFirst
<1>7. began[t.id] \in Nat /\ began[later.id] \in Nat
  BY <1>1, <1>4
<1> QED
  BY <1>3, <1>5, <1>6, <1>7

LEMMA ListIsComplete ==
  ASSUME ProcessInv, NEW v \in Viewers, ShowsList(v)
  PROVE  /\ \A t \in AttemptsOf(view'[v].user) :
              \E k \in DOMAIN view'[v].items : view'[v].items[k].id = t.id
         /\ Recounts(view'[v])
<1> DEFINE shown == view'[v]
           mine == AttemptsOf(shown.user)
<1>1. PICK rows \in SetToSeqs(mine) :
        /\ \A i, j \in DOMAIN rows : i < j => NewestFirst(rows[i], rows[j])
        /\ DOMAIN shown.items = DOMAIN rows
        /\ \A k \in DOMAIN rows : shown.items[k].id = rows[k].id
  BY DEF ShowsList
<1>2. IsFiniteSet(mine) /\ mine \subseteq started
  BY FS_Subset DEF ProcessInv, AttemptsOf
<1> HIDE DEF shown, mine
<1>3. /\ rows \in [1..Cardinality(mine) -> mine]
      /\ DOMAIN rows = 1..Cardinality(mine)
      /\ \A i, j \in 1..Cardinality(mine) : rows[i] = rows[j] => i = j
      /\ \A t \in mine : \E i \in 1..Cardinality(mine) : rows[i] = t
  BY <1>1, <1>2, ListingsOfSet, OrderShape
<1>4. \A t \in mine : \E k \in DOMAIN shown.items : shown.items[k].id = t.id
  BY <1>1, <1>3
<1>5. ASSUME NEW i \in DOMAIN shown.items, NEW j \in DOMAIN shown.items, i < j
      PROVE  /\ shown.items[i].id # shown.items[j].id
             /\ shown.items[i].id \notin behind[shown.items[j].id]
  <2>1. i \in 1..Cardinality(mine) /\ j \in 1..Cardinality(mine) /\ i # j
    BY <1>1, <1>2, <1>3, <1>5, FS_CardinalityType
  <2>2. rows[i] \in started /\ rows[j] \in started /\ rows[i] # rows[j]
    BY <1>2, <1>3, <2>1
  <2>3. NewestFirst(rows[i], rows[j])
    BY <1>1, <1>5
  <2>4. rows[i].id # rows[j].id /\ rows[i].id \notin behind[rows[j].id]
    BY <2>2, <2>3, ListedInOrder
  <2>5. shown.items[i].id = rows[i].id /\ shown.items[j].id = rows[j].id
    BY <1>1
  <2> QED
    BY <2>4, <2>5
<1>6. Recounts(shown)
  BY <1>5 DEF Recounts
<1> QED
  BY <1>4, <1>6 DEF shown, mine

LEMMA ReadFinds ==
  ASSUME FullViewInv, NEW v \in Viewers, Reads(v), NEW r \in Answered
  PROVE  Finds(view'[v], r, UserOf(r))
<1>1. PICK t \in started : t.id = r /\ t.user = UserOf(r)
  BY AnsweredIsStored DEF FullViewInv
<1>2. CASE view'[v].kind \notin {"attempt_not_found", "user_not_found", "detail", "list"}
  BY <1>2 DEF Finds
<1>3. CASE FindsNoAttempt(v)
  <2>1. view'[v].kind = "attempt_not_found" /\ view'[v].id # r
    BY <1>1, <1>3 DEF FindsNoAttempt, Committed
  <2> QED
    BY <2>1 DEF Finds
<1>4. CASE FindsNoUser(v)
  <2>1. \E user \in users : user.id = UserOf(r)
    BY AnsweredIsStored DEF FullViewInv
  <2>2. view'[v].kind = "user_not_found" /\ view'[v].id # UserOf(r)
    BY <1>4, <2>1 DEF FindsNoUser
  <2> QED
    BY <2>2 DEF Finds
<1>5. CASE ShowsDetail(v)
  <2>1. view'[v].kind = "detail" /\ view'[v].attempt \in started
    BY <1>5 DEF ShowsDetail, FullViewInv, ViewInv, ReadIsFinalOrOpen
  <2>2. view'[v].attempt.user = UserOf(view'[v].attempt.id)
    BY <2>1 DEF FullViewInv, ProcessInv, StartOrderInv, StartedAsAsked
  <2> QED
    BY <2>1, <2>2 DEF Finds
<1>6. CASE ShowsList(v)
  <2>1. view'[v].kind = "list"
    BY <1>6 DEF ShowsList
  <2>2. ASSUME view'[v].user = UserOf(r)
        PROVE  \E k \in DOMAIN view'[v].items : view'[v].items[k].id = r
    <3>1. t \in AttemptsOf(view'[v].user)
      BY <1>1, <2>2 DEF AttemptsOf
    <3> QED
      BY <1>1, <1>6, <3>1, ListIsComplete DEF FullViewInv
  <2> QED
    BY <2>1, <2>2 DEF Finds
<1> QED
  BY <1>2, <1>3, <1>4, <1>5, <1>6 DEF Reads, FindsAttempt, Counts, ShowsStats

\* HistoryIsComplete is these three, of every read.
Complete ==
  \A v \in Viewers :
    /\ \A r \in known[v].starts : Finds(view[v], r, UserOf(r))
    /\ view[v].kind = "stats" =>
         view[v].total >= Cardinality(KnownOf(v, view[v].user))
    /\ Recounts(view[v])

LEMMA HistoryByRead == HistoryIsComplete <=> Complete
  BY DEF HistoryIsComplete, Complete, Finds, Recounts

LEMMA FindsStay ==
  ASSUME FullViewInv, Complete, [ViewsNext]_apiProcessVars,
         NEW v \in Viewers, NEW r \in known'[v].starts
  PROVE  Finds(view'[v], r, UserOf(r)')
<1>1. known[v].starts \subseteq Answered
  BY DEF FullViewInv, ViewInv, KnownIsAnswered
<1>2. CASE Stays(v)
  <2>1. known'[v] = known[v] /\ (view'[v] = view[v] \/ view'[v].kind = "lost")
    BY <1>2 DEF Stays
  <2>2. r \in Answered /\ Finds(view[v], r, UserOf(r))
    BY <1>1, <2>1 DEF Complete
  <2>3. UserOf(r)' = UserOf(r)
    BY <2>2, AnsweredStays DEF FullViewInv
  <2>4. view'[v].kind = "lost" => Finds(view'[v], r, UserOf(r))
    BY DEF Finds
  <2> QED
    BY <2>1, <2>2, <2>3, <2>4
<1>3. CASE Reads(v)
  <2>1. r \in Answered
    <3>1. CASE Begins(v)
      BY <3>1 DEF Begins
    <3>2. CASE Continues(v)
      BY <1>1, <3>2 DEF Continues
    <3> QED
      BY <1>3, <3>1, <3>2 DEF Reads, FindsNoAttempt, FindsAttempt, ShowsDetail,
        FindsNoUser, ShowsList, Counts, ShowsStats
  <2>2. Finds(view'[v], r, UserOf(r))
    BY <1>3, <2>1, ReadFinds
  <2>3. UserOf(r)' = UserOf(r)
    BY <2>1, AnsweredStays DEF FullViewInv
  <2> QED
    BY <2>2, <2>3
<1> QED
  BY <1>2, <1>3, ProcessStepsViews DEF FullViewInv

LEMMA TotalStaysComplete ==
  ASSUME FullViewInv, Complete, [ViewsNext]_apiProcessVars,
         NEW v \in Viewers, view'[v].kind = "stats", NEW u, u = view'[v].user
  PROVE  view'[v].total >= Cardinality(KnownOf(v, u)')
<1>1. CASE Stays(v)
  <2>1. view'[v] = view[v] /\ known'[v] = known[v]
    BY <1>1 DEF Stays
  <2>2. KnownOf(v, u)' = KnownOf(v, u)
    BY <2>1, KnownOfStays DEF FullViewInv, ViewInv
  <2>3. view[v].total >= Cardinality(KnownOf(v, u))
    BY <2>1 DEF Complete
  <2> QED
    BY <2>1, <2>2, <2>3
<1>2. CASE Reads(v)
  <2>1. ShowsStats(v)
    BY <1>2 DEF Reads, FindsNoAttempt, FindsAttempt, ShowsDetail, FindsNoUser,
      ShowsList, Counts
  <2>2. /\ view[v].kind = "counted" /\ known'[v] = known[v]
        /\ view'[v].total = view[v].total /\ u = view[v].user
    BY <2>1 DEF ShowsStats, Continues
  <2>3. view[v].total >= Cardinality(KnownOf(v, u))
    BY <2>2 DEF FullViewInv, ViewInv, CountIsComplete
  <2>4. KnownOf(v, u)' = KnownOf(v, u)
    BY <2>2, KnownOfStays DEF FullViewInv, ViewInv
  <2> QED
    BY <2>2, <2>3, <2>4
<1> QED
  BY <1>1, <1>2, ProcessStepsViews DEF FullViewInv

LEMMA RecountsStay ==
  ASSUME FullViewInv, Complete, [ViewsNext]_apiProcessVars,
         NEW v \in Viewers, view'[v].kind = "list",
         NEW i \in DOMAIN view'[v].items, NEW j \in DOMAIN view'[v].items, i < j
  PROVE  /\ view'[v].items[i].id # view'[v].items[j].id
         /\ view'[v].items[i].id \notin behind'[view'[v].items[j].id]
<1>1. \A id \in Committed : behind'[id] = behind[id]
  BY StoredStays DEF FullViewInv
<1>2. CASE Stays(v)
  <2>1. view'[v] = view[v]
    BY <1>2 DEF Stays
  <2>2. view[v].items[j].id \in Committed
    BY <2>1 DEF FullViewInv, ViewInv, ListedIsStored
  <2>3. /\ view[v].items[i].id # view[v].items[j].id
        /\ view[v].items[i].id \notin behind[view[v].items[j].id]
    BY <2>1 DEF Complete, Recounts
  <2> QED
    BY <1>1, <2>1, <2>2, <2>3
<1>3. CASE Reads(v) /\ UNCHANGED <<submissionVars, startVars>>
  <2>1. ShowsList(v)
    BY <1>3 DEF Reads, FindsNoAttempt, FindsAttempt, ShowsDetail, FindsNoUser,
      ShowsList, Counts, ShowsStats
  <2>2. Recounts(view'[v])
    BY <2>1, ListIsComplete DEF FullViewInv
  <2>3. behind' = behind
    BY <1>3 DEF startVars
  <2> QED
    BY <2>2, <2>3 DEF Recounts
<1> QED
  BY <1>2, <1>3, ProcessStepsViews DEF FullViewInv

LEMMA CompleteStays ==
  ASSUME FullViewInv, Complete, [ViewsNext]_apiProcessVars
  PROVE  Complete'
<1> SUFFICES ASSUME NEW v \in Viewers
             PROVE  /\ \A r \in known'[v].starts : Finds(view'[v], r, UserOf(r)')
                    /\ view'[v].kind = "stats" =>
                         view'[v].total >= Cardinality(KnownOf(v, view[v].user)')
                    /\ Recounts(view[v])'
  BY DEF Complete
<1>1. \A r \in known'[v].starts : Finds(view'[v], r, UserOf(r)')
  BY FindsStay
<1>2. ASSUME view'[v].kind = "stats"
      PROVE  view'[v].total >= Cardinality(KnownOf(v, view[v].user)')
  <2>1. PICK u : u = view'[v].user
    OBVIOUS
  <2>2. view'[v].total >= Cardinality(KnownOf(v, u)')
    BY <1>2, <2>1, TotalStaysComplete
  <2> QED
    BY <2>1, <2>2 DEF KnownOf
<1>3. Recounts(view[v])'
  BY RecountsStay DEF Recounts
<1> QED
  BY <1>1, <1>2, <1>3

\* A client that was answered with an attempt finds it in every read from then
\* on, and every history lists each attempt once, newest first.
THEOREM HistoryIsAlwaysComplete == ViewsSpec => []HistoryIsComplete
<1>1. ViewsInit => Complete
  BY DEF ViewsInit, ViewInit, Complete, Finds, Recounts
<1>2. FullViewInv /\ Complete /\ [ViewsNext]_apiProcessVars => Complete'
  BY CompleteStays
<1> QED
  BY <1>1, <1>2, HistoryByRead, FullViewInvariance, PTL DEF ViewsSpec

=============================================================================
