SPECIFICATION Spec
CONSTANTS
  k1 = k1
  k2 = k2
  k3 = k3
  Keys = {k1, k2, k3}
  OwnKey = k1
  Descriptors = {d1, d2, d3, d4, d5}
  None = None
  Roles = {"sender", "receiver", "both", "test"}
  Ids = {0, 1}
  PublicKeys <- ListedKeys
SYMMETRY DescriptorSymmetry
INVARIANTS
  TypeOK
  DescriptorsOwned
  ModeMatchesSockets
  OwnPortFree
  GuardsMeanReady
  VerdictUnderListedKey
