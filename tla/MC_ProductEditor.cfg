\* One editor page load, every initial CES action and tracking choice, and
\* every initial summary; four user actions.
CONSTANTS
    Tabs = {t1}
    Texts = {"a", "b"}
    Unset = Unset
    None = None
    MaxSteps = 4
SPECIFICATION Spec
INVARIANTS
    HiddenFooterStaysHidden
    SavedSummaryMatchesEditor
CHECK_DEADLOCK FALSE
