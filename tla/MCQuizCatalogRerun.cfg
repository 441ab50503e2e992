\* A run of the seed that raises; it stops once all have ended.
CONSTANTS
  Creates = {c1, c2}
  SeedRuns = {s1}
  Drafts <- MCDrafts
  CatalogFaults = FALSE
SPECIFICATION CatalogSpec
INVARIANT SeedSkipsExistingTitles
CHECK_DEADLOCK FALSE
