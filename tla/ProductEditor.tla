----------------------------- MODULE ProductEditor -----------------------------
(***************************************************************************)
(* The new product editor page as far as the sources go: the summary field *)
(* (details-summary-field.tsx), the save hooks of useProductMVPCESFooter,  *)
(* the CES footer (product-mvp-ces-footer.tsx), the CES modal container    *)
(* and the feedback modal shown when the new experience is turned off.     *)
(* They meet in two places: saving the product sends the form's summary    *)
(* and runs onSaveDraft / onPublish, and the footer and the hooks read and *)
(* write the same options.                                                 *)
(*                                                                         *)
(* Each tab is one load of the editor.  The options store (not among the   *)
(* sources) is modelled as it behaves: getOption resolves once per tab     *)
(* from the server; updateOptions writes the tab's cache at once and sends *)
(* a POST; POSTs reach the server in any order.  The rich text editor      *)
(* (not among the sources) reports its initial blocks once when it mounts  *)
(* (an empty paragraph for an empty summary) and then one onChange per     *)
(* edit; React re-renders the field before the next event.                 *)
(*                                                                         *)
(* A summary is a list of at most one paragraph, <<x>> with x its text    *)
(* ("" for an empty paragraph).  serialize turns a list into its markup,   *)
(* a record [markup] here; the markup of the empty list is "".             *)
(***************************************************************************)
EXTENDS Integers, Sequences, FiniteSets, SequencesExt

CONSTANTS
    Tabs,       \* editor page loads
    Texts,      \* non-empty paragraph texts
    Unset,      \* an option that was never written (getOption gives false)
    None,       \* no CES modal data
    MaxSteps    \* user actions in a run

CesValues == {Unset, "show", "new_product", "hide"}
Blocks    == {<< >>} \cup {<<x>> : x \in Texts \cup {""}}

VARIABLES
    server,     \* option values on the server: [ces, shown, tracking, npm]
    resolved,   \* tab -> its getOption resolutions have finished
    cache,      \* tab -> the options store's values: [ces, shown, tracking]
    posts,      \* option POSTs in flight: [id, opt, val]
    nextId,     \* POSTs sent so far
    waiting,    \* tab -> onSaveDraft/onPublish calls awaiting resolveSelect
    cesModal,   \* tab -> the action of the visible CES modal, or None
    mvpModal,   \* tab -> the product MVP feedback modal is visible
    page,       \* tab -> "editor", or "classic" once it navigated away
    ready,      \* tab -> the rich text editor has reported its initial blocks
    summary,    \* tab -> summaryBlocks, the field's state
    form,       \* tab -> values.short_description of the product form
    saved,      \* short_description of the saved product
    savedShown, \* the text the editor showed when the product was last saved
    hid,        \* tab -> the user closed the footer or turned the editor off
    sharedFor,  \* the CES actions the user has given feedback for (a ghost)
    steps       \* user actions so far

vars == <<server, resolved, cache, posts, nextId, waiting, cesModal, mvpModal,
          page, ready, summary, form, saved, savedShown, hid, sharedFor, steps>>

Serialize(b) == [markup |-> b]
Parse(s)     == s.markup
Content(b)   == IF b = << >> THEN "" ELSE b[1]

(***************************************************************************)
(* The options store.                                                      *)
(***************************************************************************)

\* updateOptions( { opt: val } ) for each pair of kvs, in order.
UpdateOptions(t, kvs) ==
    /\ cache' = [cache EXCEPT ![t] =
                    [o \in DOMAIN cache[t] |->
                        IF \E i \in DOMAIN kvs : kvs[i][1] = o
                        THEN kvs[CHOOSE i \in DOMAIN kvs : kvs[i][1] = o][2]
                        ELSE cache[t][o]]]
    /\ posts' = posts \cup {[id |-> nextId + i, opt |-> kvs[i][1], val |-> kvs[i][2]] :
                               i \in DOMAIN kvs}
    /\ nextId' = nextId + Len(kvs)

\* A POST reaches the server.
Deliver ==
    \E p \in posts :
        /\ server' = [server EXCEPT ![p.opt] = p.val]
        /\ posts' = posts \ {p}
        /\ UNCHANGED <<resolved, cache, nextId, waiting, cesModal, mvpModal,
                       page, ready, summary, form, saved, savedShown, sharedFor, hid, steps>>

(***************************************************************************)
(* The summary field.                                                      *)
(***************************************************************************)

\* Mutant: onChange writes the blocks of the render it belongs to.
OnChangeStaleBlocks(t, b) ==
    /\ summary' = [summary EXCEPT ![t] = b]
    /\ form' = IF summary[t] = << >> THEN form
               ELSE [form EXCEPT ![t] = Serialize(summary[t])]

\* onChange( blocks ): setSummaryBlocks( blocks ); nothing more while the
\* rendered summaryBlocks is empty; otherwise setValue( 'short_description',
\* serialize( blocks ) ).
OnChange(t, b) ==
    /\ summary' = [summary EXCEPT ![t] = b]
    /\ form' = IF summary[t] = << >> THEN form
               ELSE [form EXCEPT ![t] = Serialize(b)]

\* The rich text editor mounts and reports the blocks it shows.
EditorMount(t) ==
    /\ page[t] = "editor" /\ ~ready[t]
    /\ ready' = [ready EXCEPT ![t] = TRUE]
    /\ OnChange(t, IF summary[t] = << >> THEN <<"">> ELSE summary[t])
    /\ UNCHANGED <<server, resolved, cache, posts, nextId, waiting, cesModal,
                   mvpModal, page, saved, savedShown, sharedFor, hid, steps>>

\* The user edits the summary.
Edit(t) ==
    /\ page[t] = "editor" /\ ready[t] /\ ~mvpModal[t] /\ cesModal[t] = None
    /\ steps < MaxSteps
    /\ \E b \in Blocks \ {<< >>, summary[t]} : OnChange(t, b)
    /\ steps' = steps + 1
    /\ UNCHANGED <<server, resolved, cache, posts, nextId, waiting, cesModal,
                   mvpModal, page, ready, saved, savedShown, sharedFor, hid>>

(***************************************************************************)
(* useProductMVPCESFooter.                                                 *)
(***************************************************************************)

\* Mutant: the save hooks write 'new_product' without reading the option.
SaveHookNoCheck(t, ces) == UpdateOptions(t, <<<<"ces", "new_product">>>>)

\* onSaveDraft / onPublish after the await: unless the CES action read is
\* 'hide', showCesFooter( 'new_product' ).
SaveHook(t, ces) ==
    IF ces = "hide" THEN UNCHANGED <<cache, posts, nextId>>
    ELSE UpdateOptions(t, <<<<"ces", "new_product">>>>)

\* The product is saved as a draft or published: the form's values are
\* stored, and onSaveDraft / onPublish runs.  Its await on an option the
\* tab has resolved finishes before any other event; otherwise it waits for
\* the resolution.
Save(t) ==
    /\ page[t] = "editor" /\ ~mvpModal[t] /\ cesModal[t] = None
    /\ steps < MaxSteps
    /\ saved' = form[t]
    /\ savedShown' = Content(summary[t])
    /\ IF resolved[t]
       THEN SaveHook(t, cache[t].ces) /\ UNCHANGED waiting
       ELSE /\ waiting' = [waiting EXCEPT ![t] = @ + 1]
            /\ UNCHANGED <<cache, posts, nextId>>
    /\ steps' = steps + 1
    /\ UNCHANGED <<server, resolved, cesModal, mvpModal, page, ready, summary,
                   form, hid, sharedFor>>

\* The tab's getOption resolutions finish; each waiting save hook resumes
\* with the value just read.
Resolve(t) ==
    /\ ~resolved[t]
    /\ resolved' = [resolved EXCEPT ![t] = TRUE]
    /\ LET fresh == [ces |-> server.ces, shown |-> server.shown,
                     tracking |-> server.tracking]
           writes == IF fresh.ces = "hide" THEN << >>
                     ELSE [i \in 1..waiting[t] |-> <<"ces", "new_product">>]
       IN  /\ cache' = [cache EXCEPT ![t] =
                           IF writes = << >> THEN fresh ELSE [fresh EXCEPT !.ces = "new_product"]]
           /\ posts' = posts \cup {[id |-> nextId + i, opt |-> "ces", val |-> "new_product"] :
                                     i \in DOMAIN writes}
           /\ nextId' = nextId + Len(writes)
    /\ waiting' = [waiting EXCEPT ![t] = 0]
    /\ UNCHANGED <<server, cesModal, mvpModal, page, ready, summary, form, saved,
                   savedShown, sharedFor, hid, steps>>

(***************************************************************************)
(* The footer and the modals.                                              *)
(***************************************************************************)

\* showCESFooter = ! isLoading && allowTracking && cesAction && cesAction !== 'hide'
FooterShown(t) ==
    /\ page[t] = "editor" /\ resolved[t]
    /\ cache[t].tracking = "yes"
    /\ cache[t].ces \notin {Unset, "hide"}

FooterClick(t) ==
    /\ FooterShown(t) /\ ~mvpModal[t] /\ cesModal[t] = None
    /\ steps < MaxSteps
    /\ steps' = steps + 1

\* shareFeedback: showCesModal for cesAction, and cesAction prepended to the
\* shown-for-actions list as rendered.
ShareFeedback(t) ==
    /\ FooterClick(t)
    /\ cesModal' = [cesModal EXCEPT ![t] = cache[t].ces]
    /\ sharedFor' = sharedFor \cup {cache[t].ces}
    /\ UpdateOptions(t, <<<<"shown", <<cache[t].ces>> \o cache[t].shown>>>>)
    /\ UNCHANGED <<server, resolved, waiting, mvpModal, page, ready, summary,
                   form, saved, savedShown, hid>>

\* onDisablingNewProductExperience: 'hide', new product management 'no'
\* (two updateOptions calls), then the feedback modal.
TurnOff(t) ==
    /\ FooterClick(t)
    /\ UpdateOptions(t, <<<<"ces", "hide">>, <<"npm", "no">>>>)
    /\ mvpModal' = [mvpModal EXCEPT ![t] = TRUE]
    /\ hid' = [hid EXCEPT ![t] = TRUE]
    /\ UNCHANGED <<server, resolved, waiting, cesModal, page, ready, summary,
                   form, saved, savedShown, sharedFor>>

\* onDisablingCES: the close button writes 'hide'.
CloseFooter(t) ==
    /\ FooterClick(t)
    /\ UpdateOptions(t, <<<<"ces", "hide">>>>)
    /\ hid' = [hid EXCEPT ![t] = TRUE]
    /\ UNCHANGED <<server, resolved, waiting, cesModal, mvpModal, page, ready,
                   summary, form, saved, savedShown, sharedFor>>

\* CustomerEffortScoreModalContainer: the score is recorded or the modal
\* closed; either way hideCesModal.
CesModalDone(t) ==
    /\ cesModal[t] # None /\ resolved[t]
    /\ cesModal' = [cesModal EXCEPT ![t] = None]
    /\ UNCHANGED <<server, resolved, cache, posts, nextId, waiting, mvpModal,
                   page, ready, summary, form, saved, savedShown, sharedFor, hid, steps>>

\* ProductMVPFeedbackModalContainer: recordScore or onCloseModal hides the
\* modal and sends the browser to the classic editor.
LeaveForClassic(t) ==
    /\ mvpModal[t]
    /\ mvpModal' = [mvpModal EXCEPT ![t] = FALSE]
    /\ page' = [page EXCEPT ![t] = "classic"]
    /\ UNCHANGED <<server, resolved, cache, posts, nextId, waiting, cesModal,
                   ready, summary, form, saved, savedShown, sharedFor, hid, steps>>

Init ==
    /\ server \in [ces : CesValues, shown : {<< >>}, tracking : {"yes", "no"},
                   npm : {"yes"}]
    /\ saved \in {Serialize(b) : b \in Blocks}
    /\ savedShown = Content(Parse(saved))
    /\ resolved = [t \in Tabs |-> FALSE]
    /\ cache = [t \in Tabs |-> [ces |-> Unset, shown |-> << >>, tracking |-> "no"]]
    /\ posts = {}
    /\ nextId = 0
    /\ waiting = [t \in Tabs |-> 0]
    /\ cesModal = [t \in Tabs |-> None]
    /\ mvpModal = [t \in Tabs |-> FALSE]
    /\ page = [t \in Tabs |-> "editor"]
    /\ ready = [t \in Tabs |-> FALSE]
    /\ summary = [t \in Tabs |-> Parse(saved)]
    /\ form = [t \in Tabs |-> saved]
    /\ hid = [t \in Tabs |-> FALSE]
    /\ sharedFor = {}
    /\ steps = 0

Next ==
    \/ Deliver
    \/ \E t \in Tabs :
          \/ EditorMount(t) \/ Edit(t) \/ Save(t) \/ Resolve(t)
          \/ ShareFeedback(t) \/ TurnOff(t) \/ CloseFooter(t)
          \/ CesModalDone(t) \/ LeaveForClassic(t)

Spec == Init /\ [][Next]_vars

(***************************************************************************)
(* Properties                                                              *)
(***************************************************************************)

\* Once the user closed the CES footer or turned the new editor off, the
\* footer does not come back in that editor: a later save (whose hook may
\* have been waiting for the option since before the click) does not write
\* 'new_product' over the 'hide'.
HiddenFooterStaysHidden ==
    \A t \in Tabs : hid[t] => ~FooterShown(t)

\* The saved product's summary is the text the summary field showed when it
\* was saved: no edit of the field is missing from the form's
\* short_description.
SavedSummaryMatchesEditor == Content(Parse(saved)) = savedShown

\* Once the server holds 'hide' for the CES action, no write replaces it: the
\* save hooks write 'new_product' only when the action is not 'hide', so an
\* editor loaded later must not show the footer again.
HideIsKept == [][server.ces = "hide" => server'.ces = "hide"]_server

\* Once every POST has landed, the shown-for-actions list on the server
\* holds every action the user gave feedback for: shareFeedback's write of
\* the list does not drop an action an earlier write recorded.
ShownActionsKept == posts = {} => sharedFor \subseteq ToSet(server.shown)

\* What the user told the editor through the options is not undone by a
\* later POST: a stored 'hide' stays, and no feedback given is forgotten.
OptionWritesKept == HideIsKept /\ []ShownActionsKept

=============================================================================
