SPECIFICATION FairSpec

CONSTANTS
  Inputs <- MCInputs
  Invalid = {""}
  UploadMax = 2
  MaxAttempts = 2
  Answers <- MCAnswers
  max_cache_buffer_write_size = 2
  SizeModulus = 4
  SndBuf = 1
  Interval = 40000000
  Packets = {1, 2, 3, 4}
  NoPacket = 0
  Unsendable = {}

INVARIANTS
  TypeOK
  FinSaysAll
  NoPacketVanishes
  UploadIntact
  LengthKept

PROPERTY ResponseArrives
CHECK_DEADLOCK FALSE
