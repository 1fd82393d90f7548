SPECIFICATION WriterFairSpec

CONSTANTS
  Packets = {p1, p2, p3}
  NoPacket = NoPacket
  max_cache_buffer_write_size <- MCCache
  SizeModulus <- MCSizeModulus
  SndBuf <- MCSndBuf
  Unsendable = {p3}
  Interval = 40000000

INVARIANTS
  WriterTypeOK
  SlotIntegrity
  BlockedIsWoken

PROPERTIES
  ImplementsFifo
  CacheMoves
  UnblocksEventually
