SPECIFICATION Spec
CONSTANTS
  Queries <- MCQueries
  Documents <- MCDocuments
  CertificateFiles <- MCCertificateFiles
  Manifests <- MCManifests
  Curves = {"P-256"}
  Alpha3 <- MCAlpha3
  None = None
INVARIANTS
  SodReadRight
  HashesExplained
  CscaBest
  OuterCountsJobs
CHECK_DEADLOCK FALSE
