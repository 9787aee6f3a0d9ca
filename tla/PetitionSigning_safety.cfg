\* A pair of racing requests with every kind of data, failing database calls,
\* disconnects and one crash.  A request is handled once, so the system stops.
\* The fairness of the specification matters to EveryRequestAnswered only.
SPECIFICATION MCFairSpec
CONSTANTS
  Requests = {r1, r2}
  Petitions = {p1}
  Nullifiers = {n0, n1}
  Zero = n0
  Fields = {f}
  MaxCrashes = 1
INVARIANTS
  TypeOK
  OneSignatureEach
  ErrorsHonest
  SignaturesValidated
  CountAgrees
  OkMeansSigned
PROPERTIES
  KeepsLedger
  EveryRequestAnswered
CHECK_DEADLOCK FALSE
