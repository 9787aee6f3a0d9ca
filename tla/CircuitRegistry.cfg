SPECIFICATION MCSpec
CONSTANTS
  Clients = {c1, c2}
  Names = {1, 2}
  Manifests <- MCManifests
  Packages <- MCPackages
  Kept <- MCKept
  NoFile = NoFile
  Torn = Torn
  MaxCommands = 3
  MaxPublished = 1
  MaxReplaced = 1
  MaxAborts = 1
SYMMETRY Symmetry
INVARIANTS
  TypeOK
  SnapshotConsistent
  DirectoryExplained
  LoadExplained
PROPERTIES
  MaterializedFaithful
CHECK_DEADLOCK FALSE
