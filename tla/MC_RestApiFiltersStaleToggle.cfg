\* Two admin screens: one deletes a filter while the other's toggle of the
\* same position is in flight.
CONSTANTS
    Clients = {c1, c2}
    Filters = {f1, f2}
    NoFilter = NoFilter
    MaxRequests = 4
SPECIFICATION Spec
INVARIANT NoMalformedEntry
CHECK_DEADLOCK FALSE
