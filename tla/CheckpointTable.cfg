\* Two turns, two edits; calls succeed and nobody reverts.
CONSTANTS
  t1 = t1
  t2 = t2
  NoTurn = NoTurn
  None = None
  Turns = {t1, t2}
  MaxEdits = 2
  MaxReverts = 0
  MaxCrashes = 0
  FailingCalls = {}
SPECIFICATION Spec
SYMMETRY TurnSymmetry
PROPERTIES
  TableKeepsCapture
\* The users and the provider may stop for good.
CHECK_DEADLOCK FALSE
