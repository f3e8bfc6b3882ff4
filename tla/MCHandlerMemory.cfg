SPECIFICATION MemorySpec
CONSTANTS
  Buffers = {b1, b2, b3}
  InvalidBuffer = InvalidBuffer
  PolicyFile = PolicyFile
  Large = {b3, "policy"}
INVARIANTS TypeOK OneWrite LinkedIsRead QueueAdvances OneBlock WrittenIsHeld
PROPERTIES OutboxSpec SentIsWritten GoneIsReleased
