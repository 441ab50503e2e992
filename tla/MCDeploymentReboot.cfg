\* One process and no faults: a boot after a downgrade.
CONSTANTS
  Servers = {p1}
  MigrationFaults = FALSE
SPECIFICATION MigrationSpec
INVARIANT BootSyncsSchema
