SPECIFICATION Spec
CONSTANTS
  t1 = t1
  t2 = t2
  r1 = r1
  NoTask = NoTask
  Bots = 3
  Founders = {{1, 2, 3}}
  Task = {t1, t2}
  MaxTurns = 4
  MaxHops = 2
  MaxTargets = 1
  Route = {}
  Retries = 0
  Batches = 1
  Crashes = 0
  Edits = 0
INVARIANTS
  TypeOK
  Bounded
PROPERTIES
  StoppedStaysStopped
