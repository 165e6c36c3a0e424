\* A fatal error reported with LOGGER_LEVEL silent or an unknown level.
CONSTANTS
    Tasks = {t1, t2}
    Levels = {"silent", "other"}
    None = None
    Sequential = TRUE
SPECIFICATION Spec
INVARIANT FatalErrorExits
CHECK_DEADLOCK FALSE
