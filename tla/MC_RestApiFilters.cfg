\* One admin screen: each request completes before the next is sent.
CONSTANTS
    Clients = {c1}
    Filters = {f1, f2}
    NoFilter = NoFilter
    MaxRequests = 5
SPECIFICATION Spec
INVARIANTS TypeOK KeysArePositions FiltersMatchRequests
PROPERTY AtomicFiltersSpec
\* The run ends when MaxRequests requests have been sent.
CHECK_DEADLOCK FALSE
