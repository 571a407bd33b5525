SPECIFICATION CovSpec
CONSTANTS
  MAX_TSM_TRANSACTIONS = 1
  MAX_INVOKE_ID = 2
  Timeouts = {1}
  Retries = {0}
  Ticks = {1}
  Requests = {0, 1}
  NoRequest = NoRequest
  MAX_COV_SUBCRIPTIONS = 2
  MAX_COV_ADDRESSES = 2
  a1 = a1
  a2 = a2
  o1 = o1
  o2 = o2
  p1 = p1
  Objects = {o1, o2}
  Processes = {p1}
  Addresses = {a1, a2}
  NoAddress = NoAddress
  Subscribers <- Apart
  Lifetimes = {1}
  Confirmed = {TRUE, FALSE}
  Communications = {TRUE}
  Sends = {TRUE, FALSE}
SYMMETRY ApartSymmetry
INVARIANTS CovTypeOK SubscriptionsConsistent NoLostChange
