---------------------------- MODULE MCQuizCatalog ----------------------------
(***************************************************************************)
(* Instances of QuizCatalog for TLC.                                       *)
(***************************************************************************)
EXTENDS QuizCatalog, TLC

Draft(title, questions) == [title |-> title, questions |-> questions]
Q(position, options) == [position |-> position, options |-> options]

\* A quiz with a title of the seed and no positions given; one whose given
\* position collides with an index, and puts its last question first; and two
\* the structure check must refuse: no option, or two options, marked correct.
MCDrafts ==
  {Draft("Agent Fundamentals", <<Q(0, <<TRUE, FALSE>>), Q(0, <<FALSE, TRUE>>)>>),
   Draft("Another", <<Q(2, <<FALSE, TRUE>>), Q(0, <<TRUE, FALSE>>), Q(1, <<TRUE, FALSE>>)>>),
   Draft("Another", <<Q(0, <<TRUE, FALSE>>), Q(0, <<FALSE, FALSE>>)>>),
   Draft("Another", <<Q(1, <<TRUE, TRUE>>)>>)}

CatalogSymmetry == Permutations(Creates) \cup Permutations(SeedRuns)

=============================================================================
