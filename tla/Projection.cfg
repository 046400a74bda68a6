\* Two turns whose starts, answers and checkpoints may cross, up to nine events, which is
\* both turns with their checkpoints and a revert, or seven with an answer, an approval, an
\* interrupt, an error, the deletion or an event of a kind and turn that came before; two
\* crashes or failing statements, and one rebuilt table, which may be more than ReadLimit
\* events behind.  The log may be full: no deadlock check.
SPECIFICATION Spec
CONSTANTS
    MaxTurns = 2
    MaxEvents = 9
    MaxSpare = 1
    MaxMixed = 7
    MaxFailures = 2
    MaxRebuilds = 1
    ReadLimit = 8
    Rebuildable <- MCRebuildable
INVARIANTS
    TypeOK
    TablesFollowTheLog
    MessageFilesExist
    ModelsAgree
CHECK_DEADLOCK FALSE
