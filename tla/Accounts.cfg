SPECIFICATION Spec
CONSTANTS
  r1 = r1
  r2 = r2
  Requests <- MCRequests
  MaxTokens = 3
  MaxLinks = 2
  None = None
SYMMETRY Symmetry
INVARIANTS RotationIsAChain RevokedIsPrefix
PROPERTIES ResetEndsOlderLinks
