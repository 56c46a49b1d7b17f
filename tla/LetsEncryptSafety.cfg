\* Orders, failures and crashes; a panic at start-up stops the service, so deadlock is not checked.
SPECIFICATION Spec
CONSTANTS
  d1 = d1 d2 = d2 None = None
  Domains <- TwoDomains
  ConfigDomains <- D1Only
  UserCert <- D1Only
  SelfSigned <- FallbackD1
  Validity = 1
  RenewDays = 0
  MaxRestarts = 1
INVARIANTS TypeOK CrashCostsOnlyDue
PROPERTIES NoDowngrade NoNeedlessOrder FallbackServes RoutesGetCertificates CertificatesRenewed
CHECK_DEADLOCK FALSE
