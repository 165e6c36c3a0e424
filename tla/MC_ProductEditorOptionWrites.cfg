\* Two editor page loads of the same store.
CONSTANTS
    Tabs = {t1, t2}
    Texts = {"a"}
    Unset = Unset
    None = None
    MaxSteps = 3
SPECIFICATION Spec
PROPERTY OptionWritesKept
CHECK_DEADLOCK FALSE
