SPECIFICATION Spec
CONSTANTS
  Receivers = {r1, r2}
  TrustedCount = 2
  MaxRetries = 1
  InitialListen = 10
  QueuedListen = 1
  CommTimeout = 3
  TimePerNode = 10
  Parts = 1
  Delay = 0
  Service = 2
  Latency = 1
  Blink = 4
  Gap = 12
  MaxSends = 1
  MaxSilent = 0
INVARIANT
  TurnComes
