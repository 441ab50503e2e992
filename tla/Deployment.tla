----------------------------- MODULE Deployment -----------------------------
(***************************************************************************)
(* The life of a database from the first boot on: servers upgrade the      *)
(* schema and serve, runs of the seed and POST /quizzes fill it.  The seed *)
(* is a process of its own and waits for nobody; the API answers only      *)
(* while a server serves.                                                  *)
(***************************************************************************)
EXTENDS QuizCatalog, Migration

deploymentVars == <<catalogVars, migrationVars>>

DeploymentInit == CatalogInit /\ MigrationInit

Served == \E p \in Servers : boot[p] = "serving"

\* The SELECT by title of a run that comes before the schema: the table is not
\* there, and the run ends.
SeedTooEarly(s) ==
  /\ version = "base"
  /\ seed[s] = "idle"
  /\ seed' = [seed EXCEPT ![s] = "failed"]
  /\ UNCHANGED <<quizzes, at, pending, before>> /\ RequestsUnchanged

CatalogStep ==
  \/ Served /\ PostNext
  \/ version = "head" /\ SeedNext
  \/ \E s \in SeedRuns : SeedTooEarly(s)

\* The models downgrade a database that nothing was written to and no run of
\* the seed is at work on: what a downgrade drops with its tables is gone.
Unused == quizzes = {} /\ \A s \in SeedRuns : seed[s] # "running"

DeploymentNext ==
  \/ BootNext /\ UNCHANGED catalogVars
  \/ Unused /\ DowngradeSchema /\ UNCHANGED catalogVars
  \/ CatalogStep /\ UNCHANGED migrationVars

DeploymentSpec == DeploymentInit /\ [][DeploymentNext]_deploymentVars

=============================================================================
