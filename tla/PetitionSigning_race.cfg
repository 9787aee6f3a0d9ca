SPECIFICATION Spec
CONSTANTS
  Requests = {r1, r2}
  Petitions = {p1}
  Nullifiers = {n1}
  Zero = n0
  Fields = {f}
  MaxCrashes = 0
SYMMETRY Symmetry
INVARIANT
  DuplicateRejected
CHECK_DEADLOCK FALSE
