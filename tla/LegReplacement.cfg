\* An active call may rest, and so may a retired actor.
CHECK_DEADLOCK FALSE
CONSTANTS
    Kinds = {"transport", "private"}
    Lefts = {"out"}
    MaxReplacements = 2
    MaxGone = 1
SPECIFICATION ReplSpec
INVARIANT MakeBeforeBreak
PROPERTY ActiveCallsResume
