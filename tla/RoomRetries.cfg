SPECIFICATION FairSpec
CONSTANTS
  t1 = t1
  t2 = t2
  r1 = r1
  NoTask = NoTask
  Bots = 3
  Founders = {{1, 2}, {1, 2, 3}}
  Task = {t1}
  MaxTurns = 2
  MaxHops = 1
  MaxTargets = 1
  Route = {r1}
  Batches = 1
  Retries = 1
  Crashes = 1
  Edits = 1
INVARIANTS
  BatchIsProcessed
  OutcomesAgree
  MembershipFrozen
PROPERTIES
  BatchesEnd
