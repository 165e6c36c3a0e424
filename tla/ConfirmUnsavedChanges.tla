------------------------ MODULE ConfirmUnsavedChanges ------------------------
(***************************************************************************)
(* useConfirmUnsavedChanges (navigation/src/hooks/use-confirm-unsaved-    *)
(* changes.ts) with several components using it at once.                   *)
(*                                                                         *)
(* While hasUnsavedChanges is true, the first effect replaces the one      *)
(* shared history.push with a wrapper that asks window.confirm and then   *)
(* calls the push it captured; its cleanup assigns that captured push      *)
(* back.  The second effect adds a capturing beforeunload listener and     *)
(* its cleanup removes it.  Both effects re-run when hasUnsavedChanges or  *)
(* the confirm message changes, and clean up on unmount.                   *)
(*                                                                         *)
(* A React commit touches a set of components; React runs the cleanups    *)
(* of every effect being re-run or unmounted, in tree order, and then the *)
(* new effects, in the same order.  The tree shape is not fixed, so every *)
(* order of the touched components is allowed.                             *)
(*                                                                         *)
(* history.push is represented by its chain of wrappers: <<h2, h1>> is h2's *)
(* wrapper around h1's wrapper around the router's own push (<< >>).        *)
(***************************************************************************)
EXTENDS Integers, Sequences, FiniteSets, SequencesExt

CONSTANTS
    Hooks,       \* components calling useConfirmUnsavedChanges
    None,        \* no cleanup pending
    MaxSteps     \* React commits and navigations in a run

VARIABLES
    mounted,    \* hook -> whether its component is mounted
    unsaved,    \* hook -> hasUnsavedChanges of its last committed render
    push,       \* the current history.push, as a chain of wrappers
    captured,   \* hook -> the push its installed wrapper captured, or None
    listeners,  \* registered beforeunload listeners: [owner, capture]
    lastNav,    \* the last history.push call: prompts shown, whether it navigated
    steps       \* commits and navigations so far

vars == <<mounted, unsaved, push, captured, listeners, lastNav, steps>>

(***************************************************************************)
(* The effects of one component, on the shared browser state              *)
(* st = [push, captured, listeners].                                       *)
(***************************************************************************)

\* First effect: const push = history.push; history.push = wrapper.
SetupPushGuard(st, h) ==
    [st EXCEPT !.captured[h] = st.push, !.push = <<h>> \o st.push]

\* Its cleanup: history.push = push (the value captured at setup).
CleanupPushGuard(st, h) ==
    IF st.captured[h] = None THEN st
    ELSE [st EXCEPT !.push = st.captured[h], !.captured[h] = None]

\* Mutant: addEventListener without { capture: true }.
SetupUnloadGuardNoCapture(st, h) ==
    [st EXCEPT !.listeners = @ \cup {[owner |-> h, capture |-> FALSE]}]

\* Second effect: addEventListener( 'beforeunload', onBeforeUnload, { capture: true } ).
SetupUnloadGuard(st, h) ==
    [st EXCEPT !.listeners = @ \cup {[owner |-> h, capture |-> TRUE]}]

\* Mutant: removeEventListener without { capture: true }, which matches no
\* capturing listener.
CleanupUnloadGuardNoCapture(st, h) ==
    [st EXCEPT !.listeners = @ \ {[owner |-> h, capture |-> FALSE]}]

\* Its cleanup: removeEventListener( 'beforeunload', onBeforeUnload, { capture: true } ).
CleanupUnloadGuard(st, h) ==
    [st EXCEPT !.listeners = @ \ {[owner |-> h, capture |-> TRUE]}]

\* Both effects of a component being re-run or unmounted: cleanups (only an
\* effect that ran with hasUnsavedChanges returned one).
Cleanup(st, h) ==
    IF st.captured[h] = None THEN st
    ELSE CleanupUnloadGuard(CleanupPushGuard(st, h), h)

\* Both effects of a component being (re-)run: they act only when
\* hasUnsavedChanges is true.
Setup(st, h, newUnsaved, newMounted) ==
    IF newMounted[h] /\ newUnsaved[h]
    THEN SetupUnloadGuard(SetupPushGuard(st, h), h)
    ELSE st

(***************************************************************************)
(* Commits.  What a render may change in a component: mount it (with       *)
(* either value of hasUnsavedChanges), unmount it, flip hasUnsavedChanges, *)
(* or change the confirm message while it has unsaved changes.             *)
(***************************************************************************)
Events(h) ==
    IF ~mounted[h] THEN {"mount saved", "mount unsaved"}
    ELSE {"unmount", "toggle"} \cup (IF unsaved[h] THEN {"message"} ELSE {})

\* The orders in which React may visit a set of components.
Orders(S) == {s \in [1..Cardinality(S) -> S] : Range(s) = S}

Commit(S, ord, ev) ==
    LET newMounted == [h \in Hooks |-> IF h \in S THEN ev[h] # "unmount" ELSE mounted[h]]
        newUnsaved == [h \in Hooks |->
                         CASE h \notin S              -> unsaved[h]
                           [] ev[h] = "mount saved"   -> FALSE
                           [] ev[h] = "mount unsaved" -> TRUE
                           [] ev[h] = "unmount"       -> unsaved[h]
                           [] ev[h] = "toggle"        -> ~unsaved[h]
                           [] ev[h] = "message"       -> unsaved[h]]
        st0  == [push |-> push, captured |-> captured, listeners |-> listeners]
        st1  == FoldLeft(LAMBDA st, h : Cleanup(st, h), st0, ord)
        st2  == FoldLeft(LAMBDA st, h : Setup(st, h, newUnsaved, newMounted), st1, ord)
    IN  /\ mounted' = newMounted
        /\ unsaved' = newUnsaved
        /\ push' = st2.push
        /\ captured' = st2.captured
        /\ listeners' = st2.listeners

Init ==
    /\ mounted = [h \in Hooks |-> FALSE]
    /\ unsaved = [h \in Hooks |-> FALSE]
    /\ push = << >>
    /\ captured = [h \in Hooks |-> None]
    /\ listeners = {}
    /\ lastNav = [prompts |-> 0, moved |-> FALSE]
    /\ steps = 0

\* A React commit re-rendering the components in S.
Render ==
    /\ steps < MaxSteps
    /\ \E S \in SUBSET Hooks \ {{}} :
       \E ord \in Orders(S) :
       \E ev \in [S -> UNION {Events(h) : h \in S}] :
          /\ \A h \in S : ev[h] \in Events(h)
          /\ Commit(S, ord, ev)
    /\ steps' = steps + 1
    /\ UNCHANGED lastNav

(***************************************************************************)
(* A call of history.push runs the chain from the outermost wrapper.  Each *)
(* wrapper either skips the prompt (shouldConfirm is a function returning  *)
(* false) or asks window.confirm; it calls the push it captured unless the *)
(* answer was false.  The router's own push at the end navigates.          *)
(***************************************************************************)
Outcome(answers) ==
    LET stops == {i \in DOMAIN answers : answers[i] = "no"}
        last  == IF stops = {} THEN Len(answers)
                 ELSE CHOOSE i \in stops : \A j \in stops : i <= j
    IN  [prompts |-> Cardinality({i \in 1..last : answers[i] # "skip"}),
         moved   |-> stops = {}]

Navigate ==
    /\ steps < MaxSteps
    /\ \E answers \in [1..Len(push) -> {"skip", "yes", "no"}] :
          lastNav' = Outcome(answers)
    /\ steps' = steps + 1
    /\ UNCHANGED <<mounted, unsaved, push, captured, listeners>>

Next == Render \/ Navigate

Spec == Init /\ [][Next]_vars

(***************************************************************************)
(* Properties                                                              *)
(***************************************************************************)
HookSet(s) == {s[i] : i \in DOMAIN s}

Guarding == {h \in Hooks : mounted[h] /\ unsaved[h]}

\* The shared state has its types; every beforeunload listener is the
\* capturing one the second effect adds.
TypeOK ==
    /\ mounted \in [Hooks -> BOOLEAN]
    /\ unsaved \in [Hooks -> BOOLEAN]
    /\ push \in Seq(Hooks)
    /\ \A h \in Hooks : captured[h] = None \/ captured[h] \in Seq(Hooks)
    /\ listeners \subseteq [owner : Hooks, capture : {TRUE}]
    /\ lastNav \in [prompts : Nat, moved : BOOLEAN]
    /\ steps \in 0..MaxSteps

\* Closing the tab is guarded exactly while some mounted component has
\* unsaved changes: each such component has its beforeunload listener,
\* and no listener outlives the unsaved changes or the component, whatever
\* the order React runs the cleanups of several components in.
UnloadGuardMatchesUnsaved == {l.owner : l \in listeners} = Guarding

\* history.push goes through exactly the wrappers of the mounted components
\* that have unsaved changes: none is dropped (a form left unguarded) and
\* none is stale (a saved or unmounted form still asking), whatever the
\* order React runs the cleanups and setups of several components in.
PushChainMatchesUnsaved == HookSet(push) = Guarding

\* One navigation asks for confirmation at most once: history.push holds
\* at most one wrapper that can prompt.
NavigationAsksOnce == lastNav.prompts <= 1

\* The guard history.push puts in front of a navigation is sound: it runs
\* the wrappers of exactly the guarding components, and a navigation asks
\* for confirmation at most once however many of them are mounted.
GuardChainSound == PushChainMatchesUnsaved /\ NavigationAsksOnce

=============================================================================
