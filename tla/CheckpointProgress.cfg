\* One turn, two edits, two reverts; the calls of a revert may fail.
CONSTANTS
  t1 = t1
  t2 = t2
  NoTurn = NoTurn
  None = None
  Turns = {t1}
  MaxEdits = 2
  MaxReverts = 2
  MaxCrashes = 0
  FailingCalls = {"revert"}
SPECIFICATION FairSpec
PROPERTIES
  PlaceholderIsReplaced
  EveryRevertIsAnswered
\* The users and the provider may stop for good.
CHECK_DEADLOCK FALSE
