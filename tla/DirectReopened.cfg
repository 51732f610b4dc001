SPECIFICATION Spec
CONSTANTS
  n1 = n1
  n2 = n2
  s1 = s1
  s2 = s2
  Nonce = {n1, n2}
  NoNonce = NoNonce
  Session = {s1}
  SessionOf <- OneSession
  Run <- ThreeRuns
  RegenerateMayFail = TRUE
PROPERTIES
  AcknowledgedForGood
