--------------------------- MODULE AttemptContract ---------------------------
(***************************************************************************)
(* What clients and users may rely on, with no database, broker, worker or *)
(* transaction in sight: an attempt takes one answer sheet, once and for   *)
(* good; a request is answered once, and the answer "ok" means that its    *)
(* sheet is the one taken; a mail tells the score of the sheet taken.      *)
(* QuizApp implements this contract.                                       *)
(***************************************************************************)
EXTENDS Integers, FiniteSets

CONSTANTS
  Requests, Attempts,
  QuestionsOf, OptionsOf, CorrectOf   \* as in Storage

VARIABLES
  asked,    \* what each request asks: an attempt id and an answers array
  reply,    \* the answer each request was given, or "none"
  sheet,    \* the answers each attempt has taken, none while it is open
  told      \* the scores that mails have told

vars == <<asked, reply, sheet, told>>

Answers(r) == {asked[r].answers[i] : i \in DOMAIN asked[r].answers}

\* Each question of the quiz is answered at exactly one place of the array, by
\* one of its options, and nothing else is answered.
CompleteSheet(r) ==
  LET given     == asked[r].answers
      questions == QuestionsOf[asked[r].attempt]
  IN  /\ \A q \in questions : \E i \in DOMAIN given :
           /\ given[i].question = q /\ given[i].option \in OptionsOf[q]
           /\ \A j \in DOMAIN given : given[j].question = q => j = i
      /\ \A i \in DOMAIN given : given[i].question \in questions

RightAnswers(a) == {s \in sheet[a] : s.option = CorrectOf[s.question]}

Init ==
  /\ reply = [r \in DOMAIN asked |-> "none"]
  /\ sheet = [a \in Attempts |-> {}]
  /\ told = {}

\* The sheet is taken; the client may fail to hear of it.
Take(r) ==
  /\ reply[r] = "none"
  /\ asked[r].attempt \in Attempts
  /\ sheet[asked[r].attempt] = {}
  /\ CompleteSheet(r)
  /\ sheet' = [sheet EXCEPT ![asked[r].attempt] = Answers(r)]
  /\ \E answer \in {"ok", "server_error", "lost"} :
       reply' = [reply EXCEPT ![r] = answer]
  /\ UNCHANGED <<asked, told>>

\* The reasons for which a request may be refused.
Reason(r, code) ==
  \/ code = "attempt_not_found" /\ asked[r].attempt \notin Attempts
  \/ /\ asked[r].attempt \in Attempts
     /\ \/ code = "attempt_already_submitted" /\ sheet[asked[r].attempt] # {}
        \/ code = "invalid_answer_submission" /\ ~CompleteSheet(r)

Refuse(r) ==
  /\ reply[r] = "none"
  /\ \E code \in {"attempt_not_found", "attempt_already_submitted",
                  "invalid_answer_submission"} :
       Reason(r, code) /\ reply' = [reply EXCEPT ![r] = code]
  /\ UNCHANGED <<asked, sheet, told>>

\* Requests come to nothing: one fails, or all that a process was serving.
Fail(rs) ==
  /\ \A r \in rs : reply[r] = "none"
  /\ \E answer \in {"server_error", "lost"} :
       reply' = [r \in DOMAIN reply |-> IF r \in rs THEN answer ELSE reply[r]]
  /\ UNCHANGED <<asked, sheet, told>>

Tell(a) ==
  /\ sheet[a] # {}
  /\ told' = told \cup {[attempt |-> a, score |-> Cardinality(RightAnswers(a))]}
  /\ UNCHANGED <<asked, reply, sheet>>

Next ==
  \/ \E r \in Requests : Take(r) \/ Refuse(r)
  \/ \E rs \in SUBSET Requests : Fail(rs)
  \/ \E a \in Attempts : Tell(a)

Spec == Init /\ [][Next]_vars

=============================================================================
