\* Two servers that boot, die and race, two requests and two runs of the seed,
\* with database errors.
CONSTANTS
  Servers = {p1, p2}
  MigrationFaults = TRUE
  Creates = {c1, c2}
  SeedRuns = {s1, s2}
  Drafts <- MCDrafts
  CatalogFaults = TRUE
SPECIFICATION DeploymentSpec
SYMMETRY DeploymentSymmetry
INVARIANTS
  MigrationTypeOK
  SchemaMatchesVersion
  ServingHasSchema
  CatalogTypeOK
  StoredQuizzesAreAnswerable
  ListingsKeepTheOrder
  SeedIsAllOrNothing
  SeedAddsOnlyMissingTitles
