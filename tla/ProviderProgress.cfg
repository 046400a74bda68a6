\* One turn, that may ask for an approval, and three requests: two answers to it.
CONSTANTS
  t1 = t1
  t2 = t2
  Turns = {t1}
  None = None
  FirstMode = "approval-required"
  MaxProcesses = 1
  MaxRequests = 3
  MaxFaults = 0
  MaxLag = 1
SPECIFICATION FairSpec
INVARIANTS
  ApprovalIsAnsweredOnce
PROPERTIES
  EveryTurnRequestIsSettled
\* the users' requests are bounded
CHECK_DEADLOCK FALSE
