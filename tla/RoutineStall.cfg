SPECIFICATION FairSpec
CONSTANTS
  b1 = b1
  b2 = b2
  Routines = 2
  Bot = {b1, b2}
  BotOf <- TwoBots
  Schedules <- Once
  Horizon = 1
  Manual = {}
  MissedAfter = 1
  UserTurns = 2
  Deletable = {b1}
PROPERTIES
  WaitingRunStarts
