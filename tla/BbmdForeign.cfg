SPECIFICATION BbmdSpec
CONSTANTS
  a = a
  b = b
  y = y
  f = f
  g = g
  Nodes <- MCNodes
  Subnet <- MCSubnet
  BBMD_Table <- MCTable
  Remote_BBMD <- MCRemote
  TTL = 2
  GRACE = 2
  MAX_SECONDS = 5
  MAX_FD_ENTRIES = 1
  Senders = {a, b, y, f}
  IDs = {1}
  NoNode = NoNode
  MAX_FAULTS = 1
INVARIANTS ForeignHears
