\* Two components using the hook, in any tree position.
CONSTANTS
    Hooks = {h1, h2}
    None = None
    MaxSteps = 5
SPECIFICATION Spec
INVARIANTS TypeOK UnloadGuardMatchesUnsaved
\* The run ends after MaxSteps commits and navigations.
CHECK_DEADLOCK FALSE
