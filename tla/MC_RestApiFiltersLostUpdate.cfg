\* Two admin screens whose requests overlap.
CONSTANTS
    Clients = {c1, c2}
    Filters = {f1, f2}
    NoFilter = NoFilter
    MaxRequests = 2
SPECIFICATION Spec
INVARIANT FiltersMatchRequests
CHECK_DEADLOCK FALSE
