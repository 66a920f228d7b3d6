CONSTANTS
  MaxWalks = 2
  MaxKeys = 4
  Frames = 1
SPECIFICATION Spec
INVARIANTS TypeOK AdmittedOnce StripInReach
PROPERTIES StripSettles
CHECK_DEADLOCK FALSE
