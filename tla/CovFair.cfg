SPECIFICATION CoFairSpec
CONSTANTS
  MAX_TSM_TRANSACTIONS = 1
  MAX_INVOKE_ID = 2
  Timeouts = {1}
  Retries = {0}
  Ticks = {1}
  Requests = {0}
  NoRequest = NoRequest
  MAX_COV_SUBCRIPTIONS = 1
  MAX_COV_ADDRESSES = 1
  a1 = a1
  o1 = o1
  p1 = p1
  Objects = {o1}
  Processes = {p1}
  Addresses = {a1}
  NoAddress = NoAddress
  Subscribers <- Alone
  Lifetimes = {0}
  Confirmed = {TRUE, FALSE}
  Communications = {TRUE}
  Sends = {TRUE}
  Kinds = {"ANALOG_INPUT", "ANALOG_VALUE", "BINARY_INPUT", "MULTISTATE_VALUE"}
  Values <- MCValues
  Increments <- MCIncrements
  Unknown = Unknown
PROPERTIES SubscribersFollow
INVARIANTS WrongAreMarked
