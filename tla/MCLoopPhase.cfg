SPECIFICATION Spec
CONSTANTS
    Tools <- MCTools
    Args = {"a", "bad", "narrow"}
    Mutating = {"write"}
    Untrusted = {"fetch"}
    Alone = {"submit"}
    Withheld = {"mail"}
    PhaseTool = "phase_set"
    Phases = {"home", "narrow"}
    Visible <- VisibleHides
    Home = "home"
    Policies <- MCPolicies
    Shapes <- ShapesPhase
    Replies <- MCReplies
    MaxSteps = 3
    MaxParallel = 2
    IdenticalCalls = 2
    SameTool = 3
    TransientRetries = 1
    None = None
INVARIANT SideEffectsKept
CHECK_DEADLOCK FALSE
