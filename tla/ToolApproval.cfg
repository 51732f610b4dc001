SPECIFICATION FairSpec
CONSTANTS
  c1 = c1
  c2 = c2
  c3 = c3
  r1 = r1
  r2 = r2
  Call = {c1, c2, c3}
  Run = {r1, r2}
  RunOf <- ThreeCalls
  MaxCalls = 2
INVARIANTS
  TypeOK
  JournalAgrees
  ConsentedOnce
PROPERTIES
  SettledForGood
  CallsEnd
