SPECIFICATION PresenceSpec
CONSTANTS
  t1 = t1
  t2 = t2
  o1 = o1
  o2 = o2
  o3 = o3
  Threads <- MCThreads
  Players <- MCPlayers
  Objects <- MCObjects
  MaxPlayer = 1
  NoUser = NoUser
  NoThread = NoThread
SYMMETRY MCSymmetry
INVARIANTS TypeOK Overshoot DisplacedIsClosed RegisteredOnce MembersKnown
PROPERTIES DeadKeepSlot
