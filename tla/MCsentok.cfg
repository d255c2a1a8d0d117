SPECIFICATION Spec
CONSTANTS
  s1 = s1
  s2 = s2
  r1 = r1
  r2 = r2
  e1 = e1
  e2 = e2
  None = None
  Senders <- OneSender
  Receivers = {r1}
  Events = {e1}
  TrustedCount = 1
  SenderId <- OneId
  PrivateKey <- OneKey
  PublicKeys <- ListedKeys
  Wanted <- WantsAll
  MaxRetries = 1
  UdpRetries = 0
  TcpRetries = 1
  Errnos = {"ENETUNREACH"}
  MaxAttempts = 1
INVARIANTS
  SendOkMeansBroadcast
