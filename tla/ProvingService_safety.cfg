\* Two calls compete for one slot: MaxConcurrency 0 is raised to 1 by NewService.
\* A call runs once, so the system stops when both have returned.
\* A call returns without any assumption on the processes: with a timeout once its
\* timer fires, and without one when its client leaves.
SPECIFICATION FairSpec
CONSTANTS
  Jobs = {j1, j2}
  MaxConcurrency = 0
  TimeoutSet = TRUE
INVARIANTS
  TypeOK
  SlotAccounting
  CommandsBounded
  CleanReturn
  OnlyVerifiedProofs
  BbExcessExplained
PROPERTIES
  KeepsPromise
  EveryCallReturns
  DisconnectedReturns
CHECK_DEADLOCK FALSE
