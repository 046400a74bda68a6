\* Three events, two connections, two runs of the effect; one event per answer, so
\* that catching up takes several replays.
CONSTANTS
  MaxEvents = 3
  MaxConnections = 2
  MaxMounts = 2
  ReplayLimit = 1
  RequestsFail = TRUE
SPECIFICATION FairSpec
PROPERTIES
  FollowsLog
  EveryRecoveryEnds
  RecoveryCatchesUp
\* The server may stay quiet.
CHECK_DEADLOCK FALSE
