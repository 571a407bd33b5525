SPECIFICATION RpFairSpec
CONSTANTS
  MAX_TSM_TRANSACTIONS = 1
  MAX_INVOKE_ID = 2
  Timeouts = {1}
  Retries = {0}
  Ticks = {1}
  Requests = {p}
  NoRequest = NoRequest
  d1 = d1
  d2 = d2
  a1 = a1
  a2 = a2
  Devices = {d1, d2}
  Addresses = {a1, a2}
  Home <- TwoHomes
  IAms <- MCIAms
  NoAddress = NoAddress
  NoTarget = NoTarget
  MAX_POLLS = 3
\* A panicked client stops.
CHECK_DEADLOCK FALSE
INVARIANTS RpTypeOK PanicCauses SlotsAccounted
PROPERTIES ReadReturnsOwnAnswer ReadsEnd
