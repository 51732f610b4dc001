SPECIFICATION FairSpec
CONSTANTS
  b1 = b1
  b2 = b2
  Routines = 1
  Bot = {b1}
  BotOf <- OneRoutine
  Schedules <- OnceAndInterval
  Horizon = 2
  Manual = {1}
  MissedAfter = 0
  UserTurns = 1
  Deletable = {b1}
INVARIANTS
  TypeOK
  SlotsFireOnce
  RunTellsRuntime
  OneTurnPerBot
PROPERTIES
  RunsSettle
