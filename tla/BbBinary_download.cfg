SPECIFICATION Spec
CONSTANTS
  Provers = {p1, p2}
  Versions = {1, 2}
  Newest = 2
  Absent = Absent
  Partial = Partial
  Head = Head
  SourceBuild = FALSE
  ArchiveExecutable = FALSE
INVARIANT RunsPinned
INVARIANT DamageExplained
PROPERTY WarmStays
