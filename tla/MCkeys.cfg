SPECIFICATION Spec
CONSTANTS
  s1 = s1
  s2 = s2
  r1 = r1
  r2 = r2
  e1 = e1
  e2 = e2
  None = None
  Senders <- TwoSenders
  Receivers = {r1}
  Events = {e1}
  TrustedCount = 1
  SenderId <- SameIds
  PrivateKey <- TwoKeys
  PublicKeys <- ListedKeys
  Wanted <- WantsAll
  MaxRetries = 0
  UdpRetries = 0
  TcpRetries = 0
  Errnos = {"ECONNRESET"}
  MaxAttempts = 2
INVARIANTS
  AuthenticDelivery
