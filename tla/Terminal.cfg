\* One thread with two terminals, one of which may be retained when inactive; two
\* sessions and two processes in all, one output each, so that an open can meet an
\* evicted session, a starting one, a process that is being killed and one that left.
CONSTANTS
  a = a
  b = b
  t1 = t1
  t2 = t2
  None = None
  Threads = {t1}
  Terminals = {a, b}
  ThreadOf <- OneThread
  Retained = 1
  HistoryLimit = 2
  MaxSessions = 2
  MaxProcesses = 2
  MaxOutputs = 1
  CallsAfterStray = FALSE
SPECIFICATION FairSpec
INVARIANTS
  TypeOK
  LiveProcessIsOwned
  HistorySurvivesEviction
  FileCatchesUp
PROPERTIES
  EveryOperationReturns
  StoppedProcessDies
\* Users may ask for nothing more, and a shell may run for good.
CHECK_DEADLOCK FALSE
