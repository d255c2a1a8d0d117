SPECIFICATION Spec
CONSTANTS
  Receivers = {r1, r2, r3}
  TrustedCount = 2
  MaxRetries = 1
  InitialListen = 16
  QueuedListen = 1
  CommTimeout = 7
  TimePerNode = 1
  Parts = 2
  Delay = 1
  Service = 1
  Latency = 1
  Blink = 12
  Gap = 20
  MaxSends = 2
  MaxSilent = 1
SYMMETRY ReceiverSymmetry
INVARIANTS
  TypeOK
  WaitBounded
  SendTakesAtMost
