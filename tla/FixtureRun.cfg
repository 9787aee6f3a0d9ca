SPECIFICATION Spec
CONSTANTS
  Runs = {r1, r2, r3}
  Base = {1}
  Disclosures = {2, 3}
  NoFile = NoFile
  Torn = Torn
  MaxDisclosed = 2
  MaxOverlapped = 3
  MaxAborts = 2
  MaxEdits = 1
SYMMETRY Symmetry
INVARIANTS
  TypeOK
  WitnessFormatRight
  SameCertificates
  IndexWhole
  BundleOfOneRun
CHECK_DEADLOCK FALSE
