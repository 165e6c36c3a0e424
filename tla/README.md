# TLA+ models of the WooCommerce website sources

This directory holds TLA+ models of the parts of this repository that have
state, ordering or concurrency worth model checking. It also holds the TLC
configurations that check those models and the record of what the checks
found, in `PROJECT.json`.

## 1. The system and its parts

The sources under `src/` are a slice of the WooCommerce monorepo. They fall
into four groups.

### Order model transformers (`packages/js/api`)

`classes.ts` declares the order model classes. Each has field initialisers
and a constructor that does `Object.assign(this, properties)`. The classes are:

- `OrderItemMeta` and `OrderItemTax`;
- the addresses, `ShippingOrderAddress` and `BillingOrderAddress`;
- the line items `OrderLineItem`, `OrderShippingLine`, `OrderFeeLine`,
  `OrderCouponLine` and `OrderRefundLine`;
- `OrderTaxRate`.

`transformer.ts` builds one `ModelTransformer` per class. Each is a list of
transformations:

- `IgnoreProperty`: drop fields.
- `PropertyType`: coerce a field to String, Integer or Boolean.
- `KeyChange`: rename camelCase model fields to the REST API's snake_case.
- `ModelTransformerTransformation`: convert a nested model or a list of them
  with another transformer. This one is in `src/`
  (`model-transformer-transformation.ts`).

`fromModel` runs the list in declared order. `toModel` runs it in reverse,
then builds the class with `new modelClass(properties)`. If any step fails,
the whole call aborts. The framework files (`ModelTransformer`, `KeyChange`,
`PropertyType`, `IgnoreProperty`) are not in `src/`, so their behaviour is
taken from `spec.md` §4.

Interaction: the order transformer calls the address, tax-rate, refund,
coupon, fee, line-item and shipping-line transformers through
`ModelTransformerTransformation`. The fee, line and shipping transformers call
the tax-rate transformer in turn.

### Product editor and customer-effort-score UI (`packages/js/*`)

- **Unsaved-changes guard** (`navigation/src/hooks/use-confirm-unsaved-changes.ts`).
  Each mounted hook with unsaved changes does two things:
  - It replaces the global `history.push` with a wrapper that asks
    `window.confirm` and then calls the `push` it captured. Its cleanup puts
    that captured `push` back.
  - It adds a `beforeunload` listener, which its cleanup removes.

  Several hook instances share the one `history` object.
- **Product MVP CES footer** (`use-product-mvp-ces-footer.ts`,
  `product-mvp-ces-footer.tsx`, the two modal containers).
  - `onSaveDraft`/`onPublish` await a read of the
    `woocommerce_ces_product_mvp_ces_action` option and then write
    `new_product`.
  - The footer's buttons write `hide` (close, turn off the new editor) or
    prepend the current action to `SHOWN_FOR_ACTIONS` (share feedback) from
    the snapshot the component rendered with.
  - The modal containers record a score and hide the modal.
- **Details summary field** (`details-summary-field.tsx`). `onChange` stores
  the blocks in component state. It writes the serialised blocks to the form
  only when the blocks of the *render the closure came from* were non-empty.
- **Tabs** (`tabs.tsx`): the selected tab is taken from the URL query or the
  first enabled fill.
- **Iframe editor back button**: `setTimeout(onClose, 550)`.
- **Presentation and glue code.** These have no state worth checking:
  - tree item, field/tab fill items, autocompleters;
  - feedback-simple buttons;
  - the data-store registrations (`crud/index.ts`, `navigation/index.ts`,
    `product-form/*`);
  - block registrations (`radio`, `shipping-dimensions`).

### Beta-tester plugin (`plugins/woocommerce-beta-tester`)

`rest-api-filters.php` stores the list of REST response filters in one WP
option. Its three REST handlers, `create`, `delete` (by position) and
`toggle` (by array key), each do `get_option`, then a callback, then
`update_option`. There is no lock, and PHP requests run concurrently.

### Tooling (`tools/*`, `.github/*`)

- **`Logger`**: a process-wide `lastSpinner`, and `error()` exits only when
  the log level lets it log.
- **The changelogger executor**: a child process whose `close` and `error`
  events settle one promise, plus the argument re-encoding
  `Number(x) && action==='write' ? x.toFixed(1) : x`.
- **`github-api.ts`**: paged commit comparison (`Math.ceil(total/100)` pages,
  bot filter, uniq by login), and the latest beta release chosen from one
  page of releases.
- **`parse-input-filter.js`**: builds `--filter='line'` arguments.
- **`analyzer-lint.ts`**: a lint command wrapper. It is not modelled.

## 2. Modules

| Module | Models | State and actions |
|---|---|---|
| `PropertyBag` | the value abstraction and the transformation constructors | none: constants. Values are tagged records; a string or number is represented by its *class* (empty, non-numeric text, zero, negative integer, positive integer, fractional), which is all that coercion tells apart. |
| `ModelTransformer` | the framework and `ModelTransformerTransformation` | parameterised by `Transformers` and class `Defaults`; the recursive operators `FromModel`, `ToModel`, `ApplyFrom`, `ApplyTo`, `NestedFrom`, `NestedTo`, `Coerce`, `RenameKeys`, `Construct` |
| `OrderModels` | `classes.ts` and `transformer.ts` | the class field tables (type and initialiser per field) and every transformer's transformation list, in source order |
| `TransformerPipeline` | one `fromModel` and/or `toModel` call | `cls, mode, input, bag, step, phase, wire, model`. Each action is one transformation of the outer transformer (`FromModelStep`, `ToModelStep`), a failing one (`*Abort`), or the return (`FromModelReturn` hands the body to `toModel`; `ToModelReturn` constructs the class). Nested transformers run inside the step of their `ModelTransformerTransformation`, as they do in the code. |
| `RestApiFilters` | `rest-api-filters.php` | `option` (the stored PHP array as a sequence of `[key, id, enabled]`), per client `pc`, `req`, `local`, and the ghost `expected` (what the completed requests meant, by filter). `Send` is an admin screen issuing create, delete or toggle for the position of a filter it shows; `ReadOption` is `get_option`; `WriteOption` is the callback plus `update_option`. `AppendEntry`, `Splice`/`Renumber` and `ToggleKey` are `$filters[] =`, `array_splice` and the toggle of a possibly missing key. `Listed` reads the array as a list of `[id, enabled]` and maps it onto `AtomicFilters`. |
| `AtomicFilters` | `rest-api-filters.php` (what the endpoints promise) | `filters`, a list of `[id, enabled]`, and per screen the `pending` request. `Send(c)` records a create of a filter not listed, or a delete or toggle of a listed position; `Apply(c)` performs it in one step (`Create` appends, `Delete` removes the position, `Toggle` flips it). It is the abstract specification that `RestApiFilters` refines (`Atomic == INSTANCE AtomicFilters WITH filters <- Listed, pending <- InFlight`). |
| `Logger` | `monorepo-utils/src/core/logger.ts` | `level` (`LOGGER_LEVEL`, read by the `loggingLevel` getter), per task `pc` and `spinner`, `lastSpinner`, `fatal`, `exited`. `StartTask`, `EndTask` and `Error` (with `failOnErr`) are the three methods; a comparison with an unknown level is false, as with `undefined` in JavaScript. |
| `Changelogger` | `tools/executors/changelogger/impl.ts` | `env` (whether the project directory and the script exist, whether `spawn` succeeds, the child's exit code or `Null` for a signal), `opts` (action, key as typed, value as typed), `pc`, `child`, `events` (emitted and not yet delivered), `promise`, `args`, `result`. `Execute` is the executor up to the `await` (chdir, `existsSync`, `runChangelogger`'s argument building, `spawn` and handler registration); `ChildExit` is the child's exit; `Deliver` runs the handler of the next event (`close` resolves, `error` rejects, a settled promise ignores it); `Resume` is the code after the `await`. NX's camel-casing (`Camel`) and its Number conversion (`NxValue`) are the environment the executor undoes with `Kebab` and `ArgValue`. A numeric text is `[int, frac]`, a Number is held in hundredths, and `NumText`/`Fixed1` are `String(n)` and `n.toFixed(1)`. `MC_Changelogger` gives the letters and values. |
| `ProductEditor` | the CES save hooks, footer and modal containers, and the details summary field | Per editor load (tab): `resolved`, `cache` (the options store), `waiting` save hooks, `cesModal`, `mvpModal`, `page`, `ready`, `summary` (`summaryBlocks`), `form` (`short_description`), `hid`; shared: `server` options, in-flight `posts`, the `saved` product and the ghost `savedShown`. `OnChange` is the field's handler; `Save` stores the form and runs `onSaveDraft`/`onPublish` (`SaveHook`), waiting when the option is not resolved yet; `Resolve` finishes the tab's `getOption` and resumes the waiting hooks; `ShareFeedback`, `TurnOff`, `CloseFooter` are the footer's buttons, shown when `FooterShown`; `CesModalDone` and `LeaveForClassic` are the two modal containers. The options store (`UpdateOptions` writes the cache and sends one POST per call; `Deliver` lands any POST) and the rich text editor (`EditorMount`, `Edit`) are the environment, modelled as they behave. |
| `ReleasePosts` | `tools/release-posts/lib/github-api.ts` | `call` (which function runs), `pc`, `head` (the compared commits, oldest first, as login or `NoAuthor`), `total`, `pages`, `i`, `allAuthors`, `releases` (newest first), `result`. `FirstPage`, `NextPage` and `ReturnContributors` are `getContributorData`'s first request, one loop iteration and its return; `PushToHead` is a commit pushed to the head branch between requests; `GetMostRecentBeta` and `GetMostRecentFinal` are the other two functions; `RequestFails` is any request rejecting. `FilterUniqBy`, `AuthorsOf`, `Pages` (`Math.ceil`), `Shuffle` (any order) and `LatestOf` (the `reduce`) are operators. Which logins contain 'bot' and which names contain 'beta' are constants. `MC_ReleasePosts` gives logins and names. |
| `ConfirmUnsavedChanges` | `use-confirm-unsaved-changes.ts` | `mounted`, `unsaved` per component, the shared `push` (a chain of wrappers; `<< >>` is the router's push), `captured` (the push each installed wrapper will restore), the beforeunload `listeners`, `lastNav`. `Render` is one React commit touching a set of components: each is mounted, unmounted, has its flag flipped or its message changed; every cleanup runs, then every effect, in one tree order chosen freely. `Navigate` is a `history.push` call through the chain, each wrapper skipping (shouldConfirm false), or confirming yes or no. |

### How the pipeline corresponds to the code

- A run starts in one of three modes:
  - `"model"`: a model of class `cls` with its initialised fields, at most
    one of them changed to another value of its TypeScript type;
  - `"untyped"`: a bag with one converted field holding any JSON scalar,
    which is what an untyped JavaScript caller may pass;
  - `"wire"`: a REST response body with one field, of any JSON kind, under
    its REST name.
- Each transformation acts on each key separately, so one changed field per
  input covers every key of every transformer.
- The runs' bounds:
  - `InStr` and `InNum` are all string and number classes.
  - A number may have a fractional part only in `FractionalFields`
    (`price`, `ratePercent`), the two fields that hold amounts or rates.
  - Nested lists have at most one element.

The *contract* a transformer is checked against (`RefFrom`, `RefTo`) is a
field-by-field statement of the same behaviour, with no pipeline. Each field
gets its REST name, is coerced to its declared type or converted by its
nested transformer (element by element), and ignored fields are dropped.
`toModel` is the inverse. It is the abstract specification that the stepwise
pipeline is checked against.

## 3. Runs

| Run | Config | Expect | What it shows |
|---|---|---|---|
| `transformer_contract` | `MC_TransformerPipeline.cfg` | pass | Over every transformer, for typed models, untyped bags and REST bodies, `fromModel` and `toModel` give the contract's result or fail exactly when it has none (`FromModelContract`, `ToModelContract`). Well-typed models never fail (`ModelSideNeverFails`). A built model has every initialised field of its class (`TypeOK`). A REST body's nested list may hold an element whose field fails coercion, after a good one, so a failing element must fail the whole `toModel`; the mutant that keeps the failed element as it came is caught. About 32,000 states. |
| `rest_body_faithful` | `MC_RestBody.cfg` | violation | `RestBodyFaithful` (the body uses REST names only, and `toModel` of it gives the model back) over `OrderTaxRate`, `OrderFeeLine` and `OrderShippingLine` fails in three ways. `ratePercent` (and a line item's `price`) is coerced with `PropertyType.Integer`, so 7.5 comes back as 7; spec §9 flags the Integer typing as an open question. Item `taxes` (`OrderItemTax[]` in `classes.ts`) are converted with the `OrderTaxRate` transformer and class, so `toModel` adds the tax-rate defaults to every tax entry. The shipping-line transformer has no `KeyChange` for `metaData` or `instanceId`, so `fromModel` sends camelCase keys, where spec §6 says snake_case. TLC reports the first it meets; restricting `Classes` to one class shows each of the others. |
| `rest_filters_serial` | `MC_RestApiFilters.cfg` | pass | One admin screen, requests one at a time (5 requests, 2 filters, 315 states): the array stays a list whose keys are the positions the screen sends (`KeysArePositions`), and the stored filters are exactly what the completed requests meant (`FiltersMatchRequests`). `AtomicFiltersSpec` checks that the handlers refine `AtomicFilters`: the request in flight maps to the abstract pending request (create with its filter, delete and toggle with the position sent), reading is a stuttering step, and each write is the abstract `Apply`, changing the filter at exactly that position and keeping the others in order. The `unset` mutant of `delete` breaks it: after a first delete the next one, at position 0, finds no key 0 and removes nothing. |
| `rest_filters_lost_update` | `MC_RestApiFiltersLostUpdate.cfg` | violation | Two screens create two filters at once; both read the empty option and the second write drops the first filter. |
| `rest_filters_stale_toggle` | `MC_RestApiFiltersStaleToggle.cfg` | violation | `NoMalformedEntry` fails. One screen deletes the only filter while the other screen's toggle of position 0 is in flight; the toggle reads the missing key as null and stores `[enabled => true]`, an entry with no endpoint. |
| `unsaved_guard_listeners` | `MC_ConfirmUnsavedChanges.cfg` | pass | Two components, 5 commits/navigations, every commit order (2,356 states): the beforeunload listeners are exactly those of mounted components with unsaved changes. |
| `unsaved_guard_push_chain` | `MC_ConfirmUnsavedChangesPushChain.cfg` | violation | Two components: `GuardChainSound` (`PushChainMatchesUnsaved /\ NavigationAsksOnce`) fails. With both dirty, one navigation runs both wrappers and asks twice. Both dirty (`push = <<h2, h1>>`), h1 unmounts and restores `<< >>`, and h2's unsaved changes are no longer guarded; or two siblings unmount in one commit, their cleanups run in setup order and leave h1's wrapper installed for a form that is gone. |
| `logger_silent_error` | `MC_LoggerSilent.cfg` | violation | With `LOGGER_LEVEL` silent, or a name `LOGGING_LEVELS` lacks, `Logger.error( err )` neither logs nor exits, and the command goes on after a fatal error. |
| `changelogger_executor` | `MC_Changelogger.cfg` | pass | Every environment (directory, script, spawn, exit code 0, 1 or a signal), both actions, every key of up to three letters and dashes, and the values 8.0, 7.9 and a word (6,804 states): the executor always settles (`ExecutorSettles`, under weak fairness), reports success only for a zero exit of a child that ran (`SuccessMeansZeroExit`), and passes the key and, for `write`, the version as typed (`ArgumentsAsTyped`). |
| `product_editor` | `MC_ProductEditor.cfg` | pass | One editor load, every starting option value and summary, four user actions with POSTs landing in any order (34,710 states): after the footer was closed or the editor turned off, the footer does not come back in that load (`HiddenFooterStaysHidden`), and a saved summary is the text the field showed (`SavedSummaryMatchesEditor`). |
| `ces_option_writes_lost` | `MC_ProductEditorOptionWrites.cfg` | violation | `OptionWritesKept` fails. Its conjunct `HideIsKept`: a save sends `new_product`, the footer's close sends `hide`, and the POSTs land in the other order, so the stored action is `new_product` and the next load shows the footer again; with two loads the same happens when the load that read the option before the close saves. Its conjunct `ShownActionsKept` (TLC reports it when checked alone as the invariant): two loads share feedback, and the second writes its own older shown-for-actions list over the first one's. |
| `release_posts` | `MC_ReleasePosts.cfg` | pass | Pages of two commits, up to four commits with pushes between requests, a bot, a human whose login contains 'bot' and commits with no author; up to three releases with names as WooCommerce writes them (20,347 states). `getContributorData` lists every human author of the counted commits exactly once (`ContributorsAreTheAuthors`), and `getMostRecentBeta` returns the latest beta of the page it lists, also for names written 'Beta' (`BetaIsLatestListed`). |

Every config sets `CHECK_DEADLOCK FALSE`:
- The changelogger executor returns or throws once; that final state has
  no successor.
- A release-posts call returns or throws once; that final state has no
  successor.
- A product editor run stops at its bound of user actions once every POST
  has landed.
- A conversion is a call that returns, so its final states (`done`,
  `failed`) have no successor, as they should not.
- The filter and unsaved-changes runs stop when their request or step bound
  is reached.
- A `Logger` run ends when every task has finished or the process has
  exited, as the command does.

### Bounds and the order assumption

- **`RestApiFilters`.** Two filters and up to five requests cover:
  - create, then delete and toggle at each position of a two-filter list;
  - the renumbering after a delete of the first element.

  The violations need two screens and two (lost update) or four (stale
  toggle) requests.
- **`ConfirmUnsavedChanges`.** React runs passive-effect cleanups and setups
  in tree order. The deletion of a subtree visits the parent first; re-runs
  visit children first. The model lets a commit visit its components in any
  order, which over-approximates, so a passing property holds for every
  tree. Both violations are reachable with React's real order:
  - the dropped wrapper: any order, because one component alone unmounts;
  - the stale wrapper: two siblings unmount together, and React visits
    them in the same order in which their effects were set up.
- **`Logger`.** Only the violation run checks it: two tasks at the levels
  `silent` and an unknown name. No passing run is kept. Run in sequence, a
  spinner property only restates that `startTask` and `endTask` share the
  `> silent` gate, and exit on a fatal error only restates the `>= error`
  guard at the levels that pass it. With `Sequential = FALSE` two tasks
  overlap and `endTask` of the first completes the second's spinner, leaving
  the first turning; no caller among the sources runs two tasks at once, so
  this stays a hazard without a property.

- **`Changelogger`.** The keys are all kebab-case words of up to three
  characters over two letters, so keys with and without dashes occur. The
  values are 8.0 (which NX turns into 8, and `toFixed(1)` restores), 7.9 and
  a word. A value such as `7.10` would be changed to `7.1` by NX before the
  executor sees it; the executor cannot restore that, and it is left out of
  `Values` because it is the intended handling of one-decimal versions.
- **`ReleasePosts`.** A page of two commits, not 100, keeps the control:
  four commits make one, two and three pages, with empty, partial and full
  last pages, and pushes move a commit onto a page not yet fetched. A page of
  two releases, not 30, with up to three releases puts a beta off the page.
- **`ProductEditor`.** One load with four user actions reaches every button
  after a save whose hook waits for the option, and every edit of an empty or
  non-empty summary. `MC_ProductEditorOptionWrites.cfg` uses two loads. A
  two-load run of `HiddenFooterStaysHidden` (three actions, 325,038 states)
  also passes; the property is per load, because each load has its own
  store.

### Fairness

Only `Changelogger` has a liveness property. Its specification is
`WF_vars(Next)`, for two reasons:
- Node's event loop runs every queued handler and every continuation after
  an `await`.
- The changelogger script is a process that terminates.

The other modules state only safety properties, and each handler either
completes or the run stops at its bound.

### Refinement

Two checks compare a detailed specification with an abstract one:

- `TransformerPipeline` runs one transformation per step. Its contract
  properties compare the result with the reference definitions
  `RefFrom`/`RefTo` of the `fromModel`/`toModel` contract. Both use
  `ModelTransformer` instanced with the order transformers
  (`MT == INSTANCE ModelTransformer WITH Transformers <- OrderTransformers, ...`).
- `RestApiFilters` is checked to refine `AtomicFilters`
  (`Atomic == INSTANCE AtomicFilters WITH filters <- Listed, pending <- InFlight`,
  with `AtomicFiltersSpec == Atomic!Spec` as a `PROPERTY`). `Listed` drops
  the PHP keys and keeps the order of the entries. `InFlight` gives each
  screen's request as the endpoint receives it: create with its filter,
  delete and toggle with the position sent (`index + 1`). `Send` is the
  abstract `Send`, `ReadOption` stutters, and each `WriteOption` must be the
  abstract `Apply` of that very request. The refinement holds for one
  screen. With two screens the lost update breaks it, which
  `rest_filters_lost_update` already shows.

## 4. Properties and the hazards they cover

`PROJECT.json` lists each hazard at its source line with the properties
that cover it. The main ones:

- **Transformation order (`ordering`).** `PropertyType` is keyed by model
  names, so it must run before `KeyChange` in `fromModel` and after it in
  `toModel`. The contract properties catch any transformer whose order or
  types would change a field. The mutant that puts a `KeyChange` first is
  caught.
- **Failure of one nested element (`partial_failure`).** Failing one element
  must fail the whole call. `ToModelContract` covers this over REST bodies
  whose nested list holds a good element and then a failing one; the mutant
  `MapResultsKeepFailed` is caught. Model inputs hold default elements,
  which never fail, so `fromModel` does not meet the case.
- **`if ( val )` on a nested value (`other`).** No property tells the branch
  apart. The contract shares `Truthy` with the pipeline, and the nested
  fields hold a list or `null`, where skipping and converting agree.
- **`null` defaults (`numeric_edge`).** `parentName = null` must pass
  `PropertyType` untouched. `ModelSideNeverFails` covers this.
- **Integer typing of monetary fields.** `RestBodyFaithful` is violated by it.
- **The filter option's read, callback and write (`atomicity`, `stale_state`).**
  These are not atomic, and the client's indices go stale.
  `FiltersMatchRequests` is violated by a lost update, and `NoMalformedEntry`
  by a toggle whose index another screen deleted.
- **The index as a position for `delete` and a key for `toggle`
  (`protocol_sequence`).** `KeysArePositions` covers this, and so does the
  refinement `AtomicFiltersSpec`. The mutant `unset` in place of
  `array_splice` breaks the refinement.
- **The `push` each wrapper captured (`interleaving`, `stale_state`).**
  Cleanup restores that captured `push`. `GuardChainSound` covers
  this, and also the double `window.confirm` of chained wrappers (`NavigationAsksOnce`).
- **The level-gated exit (`other`).** `FatalErrorExits` is violated at
  level silent. The static `lastSpinner` (`interleaving`) has no property;
  see the bounds above.
- **The promise settled by child events (`liveness`, `ordering`).** It must
  settle on every path. `ExecutorSettles` covers this, and so does the
  mutant that resolves only on exit code 0. A spawn error rejects, and the
  `await` throws past the executor's `if ( error )` branch.
- **`hide` written by the footer and `new_product` by the save hooks
  (`unreliable_delivery`).** These are separate POSTs. `HideIsKept`, a
  conjunct of `OptionWritesKept`, is violated.
- **The page count and the head moving between pages (`resource_bound`,
  `stale_state`).** `ContributorsAreTheAuthors` covers these. The mutant that
  computes the pages with floor instead of ceil is caught.
- **The shown-for-actions list written whole from a snapshot (`stale_state`).**
  `OptionWritesKept` is violated.
- **The closure's `summaryBlocks` (`stale_state`).** `SavedSummaryMatchesEditor`
  covers this, given that the editor reports its blocks on mount.

`NavigationAsksOnce` is checked as a conjunct of `GuardChainSound`, in the
same violation run as the push chain. The
stale toggle of the filters shows up with two screens and four requests
against `NoMalformedEntry`. That run was given up to stay within twelve runs.

## 5. Plan and status

| Order | Module | Component | Status |
|---|---|---|---|
| 1 | `PropertyBag`, `ModelTransformer`, `OrderModels`, `TransformerPipeline` | order transformers | done |
| 2 | `RestApiFilters` | beta-tester filter option under concurrent requests: lost updates, stale indices, `toggle` of a missing key | done |
| 3 | `ConfirmUnsavedChanges` | `history.push` wrapper stack and `beforeunload` listeners with several hook instances; one navigation asking twice | done |
| 4 | `ProductEditor` | footer, `onSaveDraft`/`onPublish` await-then-write, modal containers | done (feedback forms left out) |
| 5 | `ProductEditor` | stale closure in `onChange`, composed with saving | done |
| 6 | `Logger` | spinner handling, exit on error | done (violation run only) |
| 6b | `Changelogger` | promise settled by `close`/`error`, argument re-encoding | done |
| 7 | `ReleasePosts` | commit pagination and author filtering against a reference, the latest beta | done |
| 8 | `AtomicFilters` | the list the filter endpoints promise, refined by `RestApiFilters` | done |

## 6. Not modelled

- Presentation components: trees, tabs' markup, fills, autocompleters,
  tooltips, modals' markup.
- Store registrations.
- `analyzer-lint.ts`: spawning `git` and parsing its output is I/O.
- The beta-tester plugin header: its version `2.2.0` disagrees with
  `WC_BETA_TESTER_VERSION` `2.1.0`. That is a constant, not behaviour.
- The options store and the rich text editor are not in `src/`. They are
  modelled only as the environment of `ProductEditor`.
- The feedback modals' forms collect scores for `recordEvent`, and nothing
  reads them back.
- `tabs.tsx`. The selection comes from `?tab` and from the first enabled
  fill. Whether the fill's choice can win over `?tab` depends on when React
  flushes the render-phase `setSelected` from the `Slot` relative to the
  passive `?tab` effect, and the sources do not fix that order; a model
  would answer the question by assumption. A tab click navigates through
  `history.push`, which `ConfirmUnsavedChanges` already models. A run of
  its own would also exceed the twelve runs the project keeps. Its ordering
  hazard is listed.
- `iframe-editor.tsx`. No caller is among the sources. Its back button's
  `setTimeout(onClose, 550)` is never cancelled, but nothing in the sources
  receives `onClose`.
- `parse-input-filter.js`. Its hazards are a quote inside a line ending the
  shell argument and a CRLF line keeping its `\r`. Both are about
  characters, which the models abstract away. A check against a
  shell-quoting reference would need a run of its own.
- The page limit of `getMostRecentBeta` (30 releases). No run checks the
  latest beta over all releases, so this stays a hazard.
- Tests.

`PROJECT.json` gives the reason for each part it leaves out.
