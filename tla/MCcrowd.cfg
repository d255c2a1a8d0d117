SPECIFICATION Spec
CONSTANTS
  s1 = s1
  s2 = s2
  r1 = r1
  r2 = r2
  e1 = e1
  e2 = e2
  None = None
  Senders <- OneSender
  Receivers = {r1, r2}
  Events = {e1, e2}
  TrustedCount = 2
  SenderId <- SecondId
  PrivateKey <- OneKey
  PublicKeys <- TwoListedKeys
  Wanted <- WantsAll
  MaxRetries = 0
  UdpRetries = 0
  TcpRetries = 0
  Errnos = {}
  MaxAttempts = 1
INVARIANTS
  SessionAgreement
PROPERTIES
  ImplementsEventDelivery
SYMMETRY ReceiverSymmetry
