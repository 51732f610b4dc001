SPECIFICATION FairSpec
CONSTANTS
  n1 = n1
  n2 = n2
  s1 = s1
  s2 = s2
  Nonce = {n1, n2}
  NoNonce = NoNonce
  Session = {s1, s2}
  SessionOf <- TwoSessions
  Run <- TwoRuns
  RegenerateMayFail = FALSE
PROPERTIES
  KeepsPromise
  EverythingEnds
