---------------------------- MODULE UserDirectory ----------------------------
(***************************************************************************)
(* What POST /attempts promises, with no transaction, lock or stale read in *)
(* sight: a directory with one user for an email, once and for good, in     *)
(* which a request enters in a single step, as a new user or as the one     *)
(* that is there, and gets an attempt of that user.  A request that fails   *)
(* leaves nothing, but one may have entered and not be told.  AttemptStart  *)
(* implements this directory.                                               *)
(***************************************************************************)

CONSTANTS Starts, Emails, Quizzes   \* as in AttemptStart

VARIABLES
  posted,     \* what each request posts: name, email, quiz
  reply,      \* the answer each request was given, or "none"
  directory,  \* the user with each email, none before the first request
  owners      \* the attempts there are, each with its user

vars == <<posted, reply, directory, owners>>

Init ==
  /\ reply = [r \in Starts |-> "none"]
  /\ directory = [email \in Emails |-> {}]
  /\ owners = {}

\* What the entry of the email may be after the request: an upsert that read
\* the name it was to write may leave another that was written since.
Upserts(r) ==
  LET found == directory[posted[r].email]
  IN  IF found = {} THEN {[id |-> r, name |-> posted[r].name]}
      ELSE found \cup {[id |-> user.id, name |-> posted[r].name] : user \in found}

Enter(r) ==
  /\ reply[r] = "none"
  /\ posted[r].quiz \in Quizzes
  /\ \E user \in Upserts(r) :
       /\ directory' = [directory EXCEPT ![posted[r].email] = {user}]
       /\ owners' = owners \cup {[attempt |-> r, user |-> user.id]}
  /\ \E answer \in {"created", "server_error"} :
       reply' = [reply EXCEPT ![r] = answer]
  /\ UNCHANGED posted

Refuse(r) ==
  /\ reply[r] = "none"
  /\ posted[r].quiz \notin Quizzes
  /\ reply' = [reply EXCEPT ![r] = "quiz_not_found"]
  /\ UNCHANGED <<posted, directory, owners>>

\* One request comes to nothing, or all that a process was serving.
Fail(rs) ==
  /\ \A r \in rs : reply[r] = "none"
  /\ reply' = [r \in Starts |-> IF r \in rs THEN "server_error" ELSE reply[r]]
  /\ UNCHANGED <<posted, directory, owners>>

Next ==
  \/ \E r \in Starts : Enter(r) \/ Refuse(r)
  \/ \E rs \in SUBSET Starts : Fail(rs)

Spec == Init /\ [][Next]_vars

=============================================================================
