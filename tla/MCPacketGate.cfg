SPECIFICATION Spec
CONSTANTS
  Wrap = 4
  MaxPackets = 5
  Key <- MCKey
  Bodies <- MCBodies
  Crcs <- MCCrcs
INVARIANTS InOrder LateOnce
PROPERTIES CrcAgrees
