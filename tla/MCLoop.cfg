SPECIFICATION FairSpec
CONSTANTS
    Tools <- MCTools
    Args = {"a", "bad", "narrow"}
    Mutating = {"write"}
    Untrusted = {"fetch"}
    Alone = {"submit"}
    Withheld = {"mail"}
    PhaseTool = "phase_set"
    Phases = {"home", "narrow"}
    Visible <- VisibleKeeps
    Home = "home"
    Policies <- MCPolicies
    Shapes <- ShapesCommon
    Replies <- MCReplies
    MaxSteps = 3
    MaxParallel = 2
    IdenticalCalls = 2
    SameTool = 3
    TransientRetries = 1
    None = None
CHECK_DEADLOCK FALSE
INVARIANTS TypeOK SideEffectsKept WriteGate RepairsSound RepeatsBounded
PROPERTIES TurnEnds
