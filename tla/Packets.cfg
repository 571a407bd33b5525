SPECIFICATION PqFairSpec
CONSTANTS
  ELEMENT_COUNT = 4
  UINT = 8
  Requests = {r}
  OtherFrames = {empty}
  EmptyFrames = {empty}
  Own = {own}
  Expecting = {own}
  Nothing = Nothing
  NoElement = NoElement
INVARIANTS PqTypeOK
PROPERTIES PortsPromise NothingMissed PacketsMove
