SPECIFICATION CacheFairSpec
CONSTANTS
  MAX_ADDRESS_CACHE = 2
  d1 = d1
  d2 = d2
  d3 = d3
  a1 = a1
  a2 = a2
  Devices = {d1, d2, d3}
  NoDevice = NoDevice
  Addresses = {a1, a2}
  NoAddress = NoAddress
  CacheFile <- MCCacheFile
  SHORT_TIME = 1
  LONG_TIME = 2
  FOREVER = 3
  OwnIDs = {d3}
  UserTTLs <- MCUserTTLs
  Periods <- MCPeriods
  TableSizes = 4
INVARIANTS CacheTypeOK BindingsConsistent RangeIsAsked
PROPERTIES BindingsKept BindRequestsSettle
