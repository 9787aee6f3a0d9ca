\* Two requests to sign one petition share one slot; one crash.  A request is
\* handled once, so the system stops.
SPECIFICATION MCFairServiceSpec
CONSTANTS
  Requests = {r1, r2}
  Petitions = {p1}
  Nullifiers = {n0, n1}
  Zero = n0
  Fields = {f}
  MaxCrashes = 1
  Capacity = 1
INVARIANTS
  SignedOnVerified
PROPERTIES
  RefusedUnproved
  EveryRequestServed
CHECK_DEADLOCK FALSE
