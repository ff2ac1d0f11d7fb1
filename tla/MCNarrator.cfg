\* Two handlers; a day is two parts.
SPECIFICATION NarratorSpec
CHECK_DEADLOCK FALSE
CONSTANTS
  None = None
  Requests = {r1, r2}
  Behaviours <- MCBehaviours
  TTL = 2
SYMMETRY Symmetry
INVARIANTS
  StrongestInPacket
  FocusIsEnough
  TextIsOwn
PROPERTIES
  CachedForADay
