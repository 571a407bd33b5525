SPECIFICATION MstpFairSpec
CONSTANTS
  Masters = {0, 1, 2}
  Nmax_master = 3
  Nmax_info_frames = 1
  Npoll = 3
  Nretry_token = 1
  Tslot = 1
  Tusage_timeout = 1
  Treply_delay = 2
  Treply_timeout = 4
  Tno_token = 5
  Traffic = {"DATA_EXPECTING_REPLY", "DATA_NOT_EXPECTING_REPLY"}
  StartsOn = {0, 1}
  NoFrame = NoFrame
  Invalid = Invalid
  MAX_RX = 2
  MAX_FAULTS = 1
INVARIANTS MstpTypeOK OneToken
PROPERTIES TokenKept RingHeals
