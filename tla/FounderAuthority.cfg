\* one principal besides the Founder, two face keys, any of them provisioned
CONSTANTS
  Others = {p1}
  Keys = {k1, k2}
  Provisionings = {{}, {k1}, {k2}, {k1, k2}}
  Bootstrap = TRUE
  ChallengeTtl = 1
  SessionTtl = 2
  ProofTtl = 1
  Skew = 0
  MaxIds = 3
  MaxRequests = 2
  MaxCommands = 1
  MaxVersion = 2
SPECIFICATION Spec
SYMMETRY Symmetry
INVARIANTS TokensAgree
PROPERTIES FaceKeysKept
CHECK_DEADLOCK FALSE
