SPECIFICATION Spec
CONSTANTS
    tool = tool
    None = None
    Tools <- MCTools
    MaxPrompts = 2
    MaxTexts = 2
INVARIANTS
    ThreadFollowsTurn
    EverythingIsToldOnce
    RequestsAgree
PROPERTIES
    EveryRequestIsTold
CHECK_DEADLOCK FALSE
