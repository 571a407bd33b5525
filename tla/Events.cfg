SPECIFICATION FairSpec
CONSTANTS
  MINUTE = 1
  Minutes = {0, 1}
  Statuses = {"ENABLE", "DISABLE"}
  r1 = r1
  r2 = r2
  Present_Values <- MCValues
  High_Limit = 4
  Low_Limit = 0
  Deadband = 1
  Written <- MCWritten
  Recipients = {r1, r2}
  Confirmed = {r2}
  Devices = {r2}
  Transitions <- MCTransitions
  Windows <- MCWindows
  MaxTime = 3
INVARIANTS EventTypeOK OperatorsKnow
PROPERTIES AckedWasTold EventsSettle
