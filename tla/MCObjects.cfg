SPECIFICATION ObjectsSpec
CONSTANTS
  t1 = t1
  t2 = t2
  b1 = b1
  b2 = b2
  b3 = b3
  Threads <- MCThreads
  Blocks <- MCBlocks
  Sizes = {1, 2, 3, 5}
  max_slot = 3
  max_thread = 2
  RingSize = 1
  NoBlock = NoBlock
  MaxRefs = 2
SYMMETRY MCSymmetry
INVARIANTS BigEnough OneOwner ObjectsHeld
CHECK_DEADLOCK FALSE
