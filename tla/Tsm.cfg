SPECIFICATION TsmFairSpec
CONSTANTS
  MAX_TSM_TRANSACTIONS = 2
  MAX_INVOKE_ID = 2
  Timeouts <- MCTimeouts
  Retries <- MCRetries
  Ticks <- MCTicks
  Requests = {r1, r2}
  NoRequest = NoRequest
INVARIANTS TsmTypeOK UniqueInvokeIDs FreedSlotsAreIdle SearchEnds
PROPERTIES ImplementsService RequestsSettle
