---------------------------- MODULE RestApiFilters ----------------------------
(***************************************************************************)
(* The REST API filters of the beta-tester plugin                          *)
(* (api/rest-api-filters/rest-api-filters.php).  The filters are one PHP   *)
(* array kept in the option wc-admin-test-helper-rest-api-filters.  The    *)
(* three handlers create, delete and toggle each call update(), which     *)
(* reads the option, applies a callback to the copy and writes it back.   *)
(* Nothing serialises two requests: each request is a read step and a     *)
(* write step, and other requests may run between them.                    *)
(*                                                                         *)
(* A PHP array is an ordered map; it is a sequence of entries             *)
(* [key, id, enabled], where id is the filter the entry holds (its        *)
(* endpoint, dot notation and replacement) or NoFilter for an entry that   *)
(* has only an 'enabled' field.  A client (the plugin's admin screen)      *)
(* sends delete and toggle with the position of the filter it shows.      *)
(***************************************************************************)
EXTENDS Integers, Sequences, FiniteSets

CONSTANTS
    Clients,     \* admin screens sending requests
    Filters,     \* the filters a create request may add (endpoint, field, value)
    NoFilter,    \* the id of an entry toggle created at a missing index
    MaxRequests  \* requests sent in all, a bound on the run

VARIABLES
    option,    \* the stored array: a sequence of [key, id, enabled]
    pc,        \* client -> "idle", "sent" (request issued) or "read" (option read)
    req,       \* client -> the request it has in flight
    local,     \* client -> the copy of the option its request read
    sent,      \* number of requests sent so far
    expected   \* filter -> enabled: the filters the completed requests meant to leave

vars == <<option, pc, req, local, sent, expected>>

Entry(k, id, en) == [key |-> k, id |-> id, enabled |-> en]

Keys(arr) == {arr[i].key : i \in DOMAIN arr}

\* The position (0-based, as the client counts) of key k.
PosOf(arr, k) == CHOOSE i \in DOMAIN arr : arr[i].key = k

(***************************************************************************)
(* PHP array operations used by the callbacks.                             *)
(***************************************************************************)

\* $filters[] = x : the next key is one past the largest integer key.
AppendEntry(arr, id, en) ==
    LET next == IF arr = << >> THEN 0
                ELSE (CHOOSE m \in Keys(arr) : \A k \in Keys(arr) : k <= m) + 1
    IN  Append(arr, Entry(next, id, en))

\* Mutant: the keys renumbered from 1.
RenumberFromOne(arr) == [i \in DOMAIN arr |-> [arr[i] EXCEPT !.key = i]]

\* array_splice( $filters, $offset, 1 ): remove the element at that position
\* (a negative offset counts from the end) and renumber the integer keys.
Renumber(arr) == [i \in DOMAIN arr |-> [arr[i] EXCEPT !.key = i - 1]]

Splice(arr, offset) ==
    LET pos == IF offset < 0 THEN Len(arr) + offset ELSE offset
        p   == IF pos < 0 THEN 0 ELSE pos
    IN  Renumber(IF p >= Len(arr) THEN arr
                 ELSE SubSeq(arr, 1, p) \o SubSeq(arr, p + 2, Len(arr)))

\* Mutant: the entry is set enabled rather than negated.
ToggleKeySetTrue(arr, k) ==
    IF k \in Keys(arr)
    THEN [arr EXCEPT ![PosOf(arr, k)].enabled = TRUE]
    ELSE Append(arr, Entry(k, NoFilter, TRUE))

\* $filters[ $index ]['enabled'] = ! $filters[ $index ]['enabled'] : a
\* missing key reads as null, so a new entry enabled = true is appended.
ToggleKey(arr, k) ==
    IF k \in Keys(arr)
    THEN [arr EXCEPT ![PosOf(arr, k)].enabled = ~@]
    ELSE Append(arr, Entry(k, NoFilter, TRUE))

(***************************************************************************)
(* The handlers' callbacks.                                                *)
(***************************************************************************)

\* Mutant: the new filter's array has no 'enabled' element.
CreateCallbackNoEnabled(arr, f) ==
    Append(arr, [key |-> IF arr = << >> THEN 0
                         ELSE (CHOOSE m \in Keys(arr) : \A k \in Keys(arr) : k <= m) + 1,
                 id |-> f])

\* create(): appends the filter, enabled.
CreateCallback(arr, f) == AppendEntry(arr, f, TRUE)

\* Mutant: unset( $filters[ $index ] ), which keeps the other keys.
DeleteCallbackUnset(arr, index) ==
    IF index \in Keys(arr)
    THEN SubSeq(arr, 1, PosOf(arr, index) - 1) \o SubSeq(arr, PosOf(arr, index) + 1, Len(arr))
    ELSE arr

\* delete(): array_splice by the index parameter.
DeleteCallback(arr, index) == Splice(arr, index)

\* toggle(): negates 'enabled' of the entry with that key.
ToggleCallback(arr, index) == ToggleKey(arr, index)

Callback(r, arr) ==
    CASE r.op = "create" -> CreateCallback(arr, r.filter)
      [] r.op = "delete" -> DeleteCallback(arr, r.index)
      [] r.op = "toggle" -> ToggleCallback(arr, r.index)

(***************************************************************************)
(* What a request is meant to do, by filter rather than by index: the      *)
(* client names the filter it shows at that position.                      *)
(***************************************************************************)
Intended(r, exp) ==
    CASE r.op = "create" -> [f \in DOMAIN exp \cup {r.filter} |->
                                IF f = r.filter THEN TRUE ELSE exp[f]]
      [] r.op = "delete" -> [f \in DOMAIN exp \ {r.target} |-> exp[f]]
      [] r.op = "toggle" -> [f \in DOMAIN exp |->
                                IF f = r.target THEN ~exp[f] ELSE exp[f]]

(***************************************************************************)
(* Requests.  A client sends create for a filter not yet stored, or        *)
(* delete/toggle for the position of a filter its screen shows (the       *)
(* current option when it sends).                                          *)
(***************************************************************************)
Requests ==
    {[op |-> "create", filter |-> f, index |-> -1, target |-> f] :
        f \in Filters \ ({option[i].id : i \in DOMAIN option} \cup
                        {req[d].target : d \in {x \in Clients : pc[x] # "idle"}})}
    \cup
    {[op |-> o, filter |-> NoFilter, index |-> i - 1, target |-> option[i].id] :
        o \in {"delete", "toggle"}, i \in DOMAIN option}

Init ==
    /\ option = << >>
    /\ pc = [c \in Clients |-> "idle"]
    /\ req = [c \in Clients |-> [op |-> "none"]]
    /\ local = [c \in Clients |-> << >>]
    /\ sent = 0
    /\ expected = [f \in {} |-> TRUE]

\* The admin screen sends a request.
Send(c) ==
    /\ pc[c] = "idle" /\ sent < MaxRequests
    /\ \E r \in Requests : req' = [req EXCEPT ![c] = r]
    /\ pc' = [pc EXCEPT ![c] = "sent"]
    /\ sent' = sent + 1
    /\ UNCHANGED <<option, local, expected>>

\* update(): $filters = get_option( ..., array() ).
ReadOption(c) ==
    /\ pc[c] = "sent"
    /\ local' = [local EXCEPT ![c] = option]
    /\ pc' = [pc EXCEPT ![c] = "read"]
    /\ UNCHANGED <<option, req, sent, expected>>

\* update(): $filters = $callback( $filters ); update_option( ..., $filters );
\* then the 204 response.
WriteOption(c) ==
    /\ pc[c] = "read"
    /\ option' = Callback(req[c], local[c])
    /\ expected' = Intended(req[c], expected)
    /\ pc' = [pc EXCEPT ![c] = "idle"]
    /\ UNCHANGED <<req, local, sent>>

Next == \E c \in Clients : Send(c) \/ ReadOption(c) \/ WriteOption(c)

Spec == Init /\ [][Next]_vars

(***************************************************************************)
(* Properties                                                              *)
(***************************************************************************)
RequestType ==
    [op : {"create", "delete", "toggle"}, filter : Filters \cup {NoFilter},
     index : Int, target : Filters \cup {NoFilter}] \cup [op : {"none"}]

\* Every stored entry is an array with an integer key, a filter (or none)
\* and a boolean 'enabled', as create() writes it.
TypeOK ==
    /\ option \in Seq([key : Nat, id : Filters \cup {NoFilter}, enabled : BOOLEAN])
    /\ pc \in [Clients -> {"idle", "sent", "read"}]
    /\ req \in [Clients -> RequestType]
    /\ sent \in 0..MaxRequests
    /\ expected \in UNION {[S -> BOOLEAN] : S \in SUBSET Filters}

\* The stored array is a list: its keys are the positions 0, 1, ... that
\* the admin screen sends.  toggle() addresses an entry by key and delete()
\* by position, so both reach the filter the screen shows only while this
\* holds across create's append and delete's array_splice.
KeysArePositions == \A i \in DOMAIN option : option[i].key = i - 1

\* No entry lacks its filter: toggle() never creates an entry holding only
\* 'enabled' (which the REST filter hook would then apply without an
\* endpoint).
NoMalformedEntry == \A i \in DOMAIN option : option[i].id # NoFilter

\* The stored filters are exactly those the completed requests meant to
\* leave, each once, with the enabled flag the toggles meant: no create,
\* delete or toggle is lost or applied to another filter.
FiltersMatchRequests ==
    /\ \A i \in DOMAIN option :
          option[i].id # NoFilter =>
              option[i].id \in DOMAIN expected /\ option[i].enabled = expected[option[i].id]
    /\ \A f \in DOMAIN expected :
          Cardinality({i \in DOMAIN option : option[i].id = f}) = 1

(***************************************************************************)
(* Refinement: the stored array, read as a list of [id, enabled] in its    *)
(* order, is the list of AtomicFilters, and the request a client has in    *)
(* flight is the abstract request: create names its filter, delete and     *)
(* toggle the position the screen sent (index + 1).  Send is the abstract  *)
(* Send, ReadOption a stuttering step, WriteOption the abstract Apply.     *)
(***************************************************************************)
Listed == [i \in DOMAIN option |-> [id |-> option[i].id, enabled |-> option[i].enabled]]

\* The request parameters as the endpoints receive them.
Sent(r) ==
    IF r.op = "create" THEN [op |-> "create", filter |-> r.filter]
    ELSE [op |-> r.op, pos |-> r.index + 1]

InFlight == [c \in Clients |-> IF pc[c] = "idle" THEN [op |-> "none"] ELSE Sent(req[c])]

Atomic == INSTANCE AtomicFilters WITH filters <- Listed, pending <- InFlight

\* The handlers implement the list the admin screen is promised: every
\* completed delete or toggle changes the filter at the position the
\* screen sent, and only it; a create appends; the others keep their order.
\* The PHP keys toggle() addresses and array_splice's renumbering are what
\* keep the index sent pointing at that filter.
AtomicFiltersSpec == Atomic!Spec

=============================================================================
