\* Two turns, one edit, one revert, one crash; any call may fail.
CONSTANTS
  t1 = t1
  t2 = t2
  NoTurn = NoTurn
  None = None
  Turns = {t1, t2}
  MaxEdits = 1
  MaxReverts = 1
  MaxCrashes = 1
  FailingCalls = {"placeholder", "capture", "revert"}
SPECIFICATION Spec
SYMMETRY TurnSymmetry
INVARIANTS
  TypeOK
  CapturesHaveRefs
PROPERTIES
  CaptureIsNotTakenBack
\* The users and the provider may stop for good.
CHECK_DEADLOCK FALSE
