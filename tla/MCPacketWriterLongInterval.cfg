SPECIFICATION WriterFairSpec

CONSTANTS
  Packets = {p1, p2}
  NoPacket = NoPacket
  max_cache_buffer_write_size <- MCCache
  SizeModulus <- MCSizeModulus
  SndBuf <- MCSndBuf
  Unsendable = {}
  Interval = 1000000000

PROPERTIES
  CacheMoves
