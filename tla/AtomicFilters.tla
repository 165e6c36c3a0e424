---------------------------- MODULE AtomicFilters ----------------------------
(***************************************************************************)
(* What the REST API filters endpoints promise their admin screens         *)
(* (api/rest-api-filters/rest-api-filters.php): the filters are a list; a  *)
(* screen sends create with a filter, or delete or toggle with the         *)
(* position of a filter in the list; when the request is handled, create  *)
(* adds the filter, enabled, at the end, delete removes the filter at that *)
(* position and toggle flips 'enabled' of the filter at that position, in  *)
(* one atomic step.  The other filters keep their order and their flags.   *)
(***************************************************************************)
EXTENDS Integers, Sequences

CONSTANTS
    Clients,     \* admin screens sending requests
    Filters      \* the filters a create request may add

VARIABLES
    filters,     \* the list: a sequence of [id, enabled]
    pending      \* client -> the request it has sent and not yet seen handled

vars == <<filters, pending>>

NoRequest == [op |-> "none"]

Ids == {filters[i].id : i \in DOMAIN filters}

\* The requests a screen showing the list l may send.
Requests(l) ==
    [op : {"create"}, filter : Filters \ {l[i].id : i \in DOMAIN l}]
    \cup [op : {"delete", "toggle"}, pos : DOMAIN l]

\* create: the new filter goes last, enabled.
Create(l, f) == Append(l, [id |-> f, enabled |-> TRUE])

\* delete: the filter at position p goes, the rest close up in order.
Delete(l, p) == SubSeq(l, 1, p - 1) \o SubSeq(l, p + 1, Len(l))

\* toggle: the filter at position p is switched on or off.
Toggle(l, p) == [l EXCEPT ![p].enabled = ~@]

Do(l, r) ==
    CASE r.op = "create" -> Create(l, r.filter)
      [] r.op = "delete" -> Delete(l, r.pos)
      [] r.op = "toggle" -> Toggle(l, r.pos)

Init ==
    /\ filters = << >>
    /\ pending = [c \in Clients |-> NoRequest]

\* A screen sends a request about the list as it is now.
Send(c) ==
    /\ pending[c] = NoRequest
    /\ \E r \in Requests(filters) : pending' = [pending EXCEPT ![c] = r]
    /\ UNCHANGED filters

\* The request is handled: one atomic change of the list, at the position
\* the screen sent.
Apply(c) ==
    /\ pending[c] # NoRequest
    /\ pending[c].op = "create" => pending[c].filter \notin Ids
    /\ pending[c].op # "create" => pending[c].pos \in DOMAIN filters
    /\ filters' = Do(filters, pending[c])
    /\ pending' = [pending EXCEPT ![c] = NoRequest]

Next == \E c \in Clients : Send(c) \/ Apply(c)

Spec == Init /\ [][Next]_vars

=============================================================================
