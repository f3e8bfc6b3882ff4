SPECIFICATION SystemSpec
CONSTANTS
  Sessions = {s1, s2, s3, s4}
  IoThreads = {t1, t2}
  Senders = {"MM", "ZME"}
  NoSession = NoSession
INVARIANTS Alive OneAccept UpWhileUsed
PROPERTIES Terminates
CHECK_DEADLOCK FALSE
