\* Two turns and two app-servers, so every way from one app-server to the next is
\* taken: crash, stop, takeover, change of mode, restart of the server.
CONSTANTS
  t1 = t1
  t2 = t2
  Turns = {t1, t2}
  None = None
  FirstMode = "full-access"
  MaxProcesses = 2
  MaxRequests = 2
  MaxFaults = 1
  MaxLag = 1
SYMMETRY TurnSymmetry
SPECIFICATION Spec
INVARIANTS
  TypeOK
  UsableSessionIsRoutable
  SessionTellsTheTurn
PROPERTIES
  ConversationIsKept
\* the users' requests are bounded
CHECK_DEADLOCK FALSE
