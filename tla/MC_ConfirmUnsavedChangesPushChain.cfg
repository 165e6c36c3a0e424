\* Two components using the hook, in any tree position.
CONSTANTS
    Hooks = {h1, h2}
    None = None
    MaxSteps = 5
SPECIFICATION Spec
INVARIANT GuardChainSound
CHECK_DEADLOCK FALSE
