SPECIFICATION Spec
CONSTANTS
    m1 = m1
    m2 = m2
    Messages = {m1, m2}
    Turns <- MCTurns
    TurnOf <- MCTurnOf
    MaxDeltas <- MCMaxDeltas
    BufferLimit = 1
    MaxFeed = 1
    MaxSwitches = 1
INVARIANTS
    NothingIsSaidTwice
    TextIsWhole
    EndedTurnIsSettled
CHECK_DEADLOCK FALSE
