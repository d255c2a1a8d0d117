SPECIFICATION Spec
CONSTANTS
  Base = 4
  EventWidth = 2
  NonceSize = 1
  SignatureSize = 1
  Retries = 1
  Errnos = {"ENOMEM", "ECONNRESET"}
  Capacity = 3
INVARIANTS
  TypeOK
  StreamIntact
  OkMeansWhole
  VerifiedBodyIsSigned
CHECK_DEADLOCK FALSE
