\* Four commands, one of which makes two events, in three calls: a command can be sent
\* again while it waits, after a failure or a crash, and after its answer was lost.
SPECIFICATION FairSpec
CONSTANTS
    p1 = p1
    p2 = p2
    t1 = t1
    t2 = t2
    c1 = c1
    c2 = c2
    c3 = c3
    c4 = c4
    CommandIds = {c1, c2, c3, c4}
    Projects = {p1}
    Threads = {t1}
    NoThread = NoThread
    CommandOf <- TurnCommands
    Calls = {k1, k2, k3}
    NoCommand = NoCommand
    NoCall = NoCall
INVARIANTS
    ReadModelIsReplayOfLog
    ReceiptsMatchLog
    StreamFollowsLog
    AcknowledgedIsDurableAndVisible
PROPERTIES
    ImplementsLedger
    EveryCallReturns
