SPECIFICATION LockingSpec
CONSTANTS
  t1 = t1
  t2 = t2
  t3 = t3
  Threads <- MCThreads
  Users = {u1}
  Rooms = {r1, r2}
SYMMETRY MCSymmetry
INVARIANTS NoDeadlock
