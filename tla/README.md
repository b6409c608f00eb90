# Breach Scan: a specification

TLA+ modules for the breach-scan funnel (a FastAPI backend in `src/backend/app`, a React
frontend in `src/frontend/src`): what its moving parts do, what TLC checks of them on small
instances, and what TLAPS proves of them for every instance. Every definition that models code
names it in `PROJECT.json` under `map`; names are the code's where TLA+ allows it.

## The system

A visitor lands, watches a scan, reads a list of public breaches under one of two tones of
copy, and may sign up. The backend keeps a copy of HIBP's breach catalog, enrols visitors in
an experiment whose flag an operator can edit, records funnel steps, stores sign-ups, and reads
the experiment for a dashboard. One process, sync handlers on a thread pool, one READ COMMITTED
transaction per request (`db/session.py`); one browser per visitor, any number of tabs.

| part | state it keeps | operations | talks to |
|---|---|---|---|
| catalog refresh (`breaches/refresh.py`, `sync.py`) | `breach` table, in-flight lock, last attempt | sync at boot, refresh after a response | HIBP; scheduled by the list and summary requests |
| breach list and summary (`breaches/router.py`, `repository.py`) | none of its own | page, facts, 503 when empty | the table; schedules the refresh |
| visitors (`visitors/`) | `visitor`, `visitor_assignment` | create (or recognise by cookie), read | reads the flags while assigning |
| feature flags (`feature_flags/`) | `feature_flag` with its lock token | list, save | its orphan guard reads the assignments |
| funnel events (`funnel_events/`) | `funnel_event` | record, tagged with the assignment | the cookie, the assignments |
| sign-ups (`signups/`) | `signup` | create | the cookie |
| experiment read (`experiments/`) | none | count, rates, z-test, call | assignments and events |
| traffic simulator (`experiments/simulation.py`) | visits begun and failed; a cookie jar per visit | walk a visitor, fail a visit, give up | the visitor and event endpoints, over HTTP |
| catalog provider (`BreachCatalogProvider`) | request, list and summary states | load, retry, filters, load more | list and summary requests, aborted by its effects |
| funnel pages (`App`, `Scan`, `Result`, `SearchField`, `BreachFilters`, `useCountUp`) | the route; the box's text and pause; open rows; the counted figure | navigate, scan, search, filter, open a row, reload | the catalog provider, the visitor session |
| visitor session (`VisitorProvider`, `useLoadedState`) | session state, in-flight ref; cookie and localStorage | load, with a fallback to a new identity | visitor and flag requests |
| analytics (`AnalyticsProvider`) | queue, recorded ids, a ref to the session | record, flush | the session; event requests |
| sign-up page (`Signup`, `usePasswordLeakCheck`, `Protected`) | form, check, submission | typing, debounced check, submit | range and sign-up requests; the confirmation page |
| flag console (`Admin`, `FlagEditor`) | form, save state, edited ref | edit, save, reload | flag requests |
| dashboard (`Dashboard`, its cards and bars) | the load's state | load, retry; cards as functions of one answer | the experiment read |

What is hard here: requests interleave between two statements of a handler; answers come late,
out of order or never; effects run twice (StrictMode) and are cleaned up while something is in
flight; a handler closes over what was rendered before the last answer; a process dies between a
fetch and its commit; two operators or two tabs act on one row; counts meet zero. `PROJECT.json`
lists these hazards at the line where they bite, with the properties that would catch them.

## Modules

Each module says at its top what it leaves out. A step of the model is one atomic step of the
code: a statement of a transaction, an effect, a callback, a click. `MC...` modules give the
constants values and define symmetry; `...Proofs` modules hold the theorems.

The catalog, from HIBP to the page:

* `CatalogStore` is the abstract promise of the `breach` table: a payload lands whole, on top of
  the rows it does not name, stamped with one time, and no sooner than a TTL after the last.
* `CatalogRefresh` is the code that keeps it: `Start`, `Crash` (the process and everything in its
  memory), `Tick`, and per request `Arrive`, `ReadFetchedAt`, `Decide`, `Answer`; then, as the
  background task `carried_background_tasks` lets through, `TakeLock`/`SkipInFlight`,
  `Attempt`/`SkipRetryGate`, `SyncIfStale`/`SkipFresh`, `StoreFetched`/`FetchFails`, `Release`.
  The boot's sync runs the same `Sync` outside the lock. A commit the database refuses is
  `FetchFails` for a refresh; at boot it ends the startup, which is `Crash`.
* `CatalogProvider` is the abstract promise of the provider to the pages: a status for the tiles,
  one for the list, whether there are rows and more, and what filters, retries and answers do to
  them.
* `BreachListing` is the provider's two effects and five callbacks in front of that table. A
  list request is `CountRows`, `PageRows` and, for a total of 0, `RefuseIfEmpty`, so a refresh
  (`Refreshed`, one step of `CatalogStore`) can commit between them. `AfterAbort` is the effect's
  cleanup: a pending answer of an older request is never delivered. A new request, its render and its
  effect are one step, and so are the summary's one statement and its delivery. It refines
  `CatalogProvider`.
* `Pages` is one tab on top of `CatalogProvider`: `Open` and `Go` (what a navigation unmounts and
  what outlives it), the scan's `MomentEnds` and `Complete`, the box's `Type`, `PauseEnds` and
  `Adopt`, the three filters and `handleClearFilters`, `handleToggle`, the count-up's frames, the
  dashboard's load, and `Throw` with `handleReload` for the error boundary. Renders are steps of
  their own: `rendered` is the filters the bar's handlers close over.
* `BreachRecord` is a breach from the body of an answer (its nulls dropped at the seam, its date
  read as a local day) to what a row and the tiles state, and the query string of a request.

Visitors and the experiment:

* `Enrolment` interleaves the statements of visitor creation (`ReadSplits`, `InsertVisitor`)
  with those of a save (`FetchFlag`, `SendUpdate`, `OrphanGuard`, `UpdateFlag`, `LockConflict`),
  and reads off the copy a visitor is shown. `raced` is a ghost: the visitors whose creation
  overlapped a save's guard and write.
* `FlagSaves` is the console: `LoadFlags`, `handleFlagEdited`, `handleSave`, the server's
  `update_flag` or refusal, and the answer, which is `Saved`, `Rejected`, lost (`Lose`) or comes
  to a page that is gone (`Drop`). A flag is the set of edits it carries; weights among them move
  the split's total, through `clampWeight`, and an incomplete split cannot be saved. `rendered` is
  the flag the fields' handlers close over: an answer changes the page's flag (`form`) at once and
  its render is a step (`Render`), so an edit between the two writes back the flag, and the lock
  token, from before the answer. What is typed is rendered before the next event, as React does.
* `FlagFields` is how the console's fields are told apart, by test id and by accessible name.
* `FunnelSession` is one browser: `OpenPage`, `LoadEffect`, `get_visitor`, `create_visitor`, the
  two halves of `Promise.all`, `record`, `Flush`, `create_funnel_event`, an environment that
  loses requests, resets the database and expires the cookie, and a storage that may throw.
* `Identifiers` is the UUID a browser without `crypto.randomUUID` makes of sixteen random bytes.
* `Simulation` is the traffic simulator driving the API: `open_browser`, `walk`, `record_step` and
  their answers on one side, `create_visitor`, `create_funnel_event` and `Commit` on the other,
  with a `Timeout` that the server never learns of, so a request given up on may still be handled.
  Its tables are `ExperimentRead`'s, through `Read == INSTANCE`.
* `ExperimentRead` writes assignments and events in every order and reads them after each:
  `count_visitors`, `read_metric`, the z-test (compared through its square, so in integers) and
  `recommend`. It does not care which component wrote the rows.
* `Dashboard` is what is shown of that read: the answer on the wire, the client's model of it, the
  bars, the lift card and the banner, as functions of the tables. It adds no step.
* `Figures` is how counts, ages and percentages read once rounded, as the integer that is printed.

Signing up:

* `Signup` is the page: three `handle...`s and `setPlan`, `PasswordEffect` with its timer and
  cleanup, `checkPassword` (a whole range is asked for, padding lines and all, and the suffix is
  looked up in it), `handleSubmit`, `insert_signup` against the unique constraint, the answers, to
  a form that may be gone, and the guarded confirmation.
* `HttpClient` is what a page reads of a failed request: a status, or none.

`Enrolment` and `FunnelSession` abstract each other: the first says which variant a new
visitor gets, the second takes any; `BreachListing` takes any step of `CatalogStore`, which
`CatalogRefresh` is proved to implement, and `Pages` any step of `CatalogProvider`, which
`BreachListing` is proved to implement.

## Runs

A definition introduced by a comment "Mutant:" is a plausible bug used
to show that a property can fail; none is part of a specification.

| run | what it shows | bounds, and why they are enough |
|---|---|---|
| `CatalogRefresh` | one sync at a time (`SingleFlight`); HIBP hears from a process at most twice plus once per retry interval (`HibpBudget`); the table is `CatalogStore`'s (`ImplementsStore`); an empty catalog is filled once the outage ends (`Heals`); a stale one is attempted again each interval (`StaysCurrent`) | 2 requests race for one lock; TTL 3 and interval 2 over a clock of 5 give a boot, a failed attempt, a retry, an expiry and a second sync; 1 crash at any step; payloads that add, withdraw, or are empty |
| `BreachListing` | no row twice and nothing from an older selection (`RowsAnswerTheSelection`), no gaps while the catalog stands still (`NoGaps`), the provider's promise (`ImplementsProvider`: tiles refetched by retries only, a later page never costing the rows), recovery of both halves (`Recovers`) | 3 breaches at 1 per page, up to page 4, give every boundary; 2 selections in different orders; 2 refreshes that move a record across a boundary or withdraw it; 1 failure of each kind |
| `FlagSaves` | `Saved.` means stored, and a conflict or a failure means what it says (`SavedMeansStored`, `AnswersAreTrue`); no lost update; typing survives answers | 2 tabs; 3 edits, two weights that only together keep the split whole and a line of copy; 2 writes, 1 reload, 1 lost answer, 1 edit between an answer and its render (`MaxHasty`): the shortest overlap of each kind |
| `Enrolment` | only a raced visitor is orphaned; nobody else's copy ever changes | 2 visitors and 2 savers, 3 splits of which one drops a held key, one empties it, 2 writes |
| `FunnelSession` | no step refused for want of a visitor, sent in order and once, the cookie, the mirror, the page and the filed steps naming one visitor (`OneVisitorPerBrowser`), tagged as shown, queue drained | 1 tab loaded twice, 3 ids, 2 steps, 2 variants, one each of a lost request, a lost step, a reset and an expiry, with storage that works and that throws |
| `Signup` | one account per mailbox, the confirmation names the stored plan, leak flag and notice are about the password they stand beside, no spinner stays (`Settles`), an account is announced unless something was lost (`AccountsAreAnnounced`) | 1 mailbox in 2 spellings; a leaked password and one on a padding line of the same range; 2 plans, 4 edits, 1 loss, 1 return |
| `ExperimentRead` | rates at most 1, ships only when earned, the banner never contradicts the card and samples beneath it (`BannerIsTrue`), and only a person counted for the first time moves a figure (`OnlyNewPeopleMoveThePage`) | 4 visitors, 3 keys, the three steps the metrics use, 1 repeat; a sample of 2 per arm and a critical value of 1, so that every branch of `recommend` and of the banner is reached |
| `Simulation` | a 201 means stored, funnels narrow whatever failed, few half-funnels before the run gives up, the tables are written as `ExperimentRead` assumes and no step twice, and the run ends | 3 visitors and 2 failures allowed, so that a run completes, and gives up with a visitor to spare; walks of 1 and 3 steps; an arm without a rate and a flag that is off |
| `Pages` | the box says what is searched for (`BoxAgrees`) and is rewritten only by clearing (`OnlyClearingEmptiesTheBox`); tiles never show the seeded zero (`FigureIsTrue`); details stay open (`ReadingIsKept`); every screen comes to rest (`ScreensSettle`) | 4 texts, two of which trim to one query, 2 queries: an echo, an overtaken search and an outside clear; every route; the smallest body, of one breach. Nothing is bounded but data: the visitor may go on for ever, and deadlock is checked |

Three runs state what a comment of the repository says and find it violated; see
"Disagreements". The `TypeOK`s are proved rather than run.

Deadlock is not checked where the bounds, or a visitor who does nothing more, end a behaviour.

Fairness. `CatalogRefresh`: time passes, a started process finishes its lifespan, handlers and
worker threads keep running (every HIBP call has a timeout), and visitors keep coming: the
refresh is driven by traffic, so `Heals` and `StaysCurrent` are promises under traffic.
`BreachListing`: requests are answered or fail, the catalog is filled at some point, and a visitor
shown the error screen eventually presses its button; it is strong fairness on the button
because the screen comes and goes with the failures. `FunnelSession`, `Signup` and `Pages`: React
renders and runs its effects, timers fire and frames run out, requests are answered or fail; the
visitor owes nothing, and `ScreensSettle` is about the time after they rest. `Simulation`: the
simulator takes its steps and its client's timeout fires; nothing is asked of the server. The other
modules state no liveness and no fairness.

## Proofs

Checked by `tlapm`, for every value of the constants the `ASSUME`s allow.

* `CatalogProofs`, of `CatalogRefresh`: `RefreshTypeOK`, `SingleFlight`, `HibpBudget`, and that every
  step implements `CatalogStore`. `SingleFlight` is not inductive: `ControlInv` adds that a request
  is at a point between lock and release exactly when it owns the lock, and that nobody is past
  `Arrive` while the boot runs. The budget needs `CallsInv`: each attempt has paid for its call
  with an interval, counted from the process's start, and at most one attempt has not called
  yet. The refinement needs `FetchInv`: the age a sync decided on is still the table's age when
  its payload arrives, since nobody else can write meanwhile.
* `CatalogProofs`, of `BreachListing`, for any selections and orders, any page size and any catalog
  that `CatalogStore` allows: `TypeOK`, `RowsAnswerTheSelection`, `NoGaps`, `RowsKeepTheirPlaces`,
  and that every step implements `CatalogProvider` (`RowsKeepTheirPlaces`, "no step moves a row on
  screen", is in no run: the theorem alone states it). `AskInv` says that only the request in force is on the wire, once,
  over the rows it will join; it is what `AfterAbort` is for, and the refinement rests on it alone.
  `RowsInv` carries "each name once, all of this selection" through the three statements and the
  joins. `AnswerInv` says that a request whose count no refresh has overtaken holds today's total
  and today's page; `PrefixInv`, that over a catalog that stands still the rows are the pages asked
  for so far and the next one is not empty, so it cannot be refused as unavailable. The lemmas
  beneath are about the operators: positions picked in order (`Entries`), repeats dropped without
  losing a name (`RepeatsDropped`) or moving a first copy (`FirstCopiesStay`), pages that continue one another (`PagesContinue`).
* `FlagSavesProofs`: `TypeOK`, `SavedMeansStored`, `AnswersAreTrue`, `NoLostUpdate`,
  `EditsSurviveAnswers`. `Tied` says whose request is out, that a tab has at most one, and that a
  rendered flag has the form's edits, and is the form while a save is out; `Lineage` that wherever a token stands
  (form, rendered flag, request, answer) the row at least as new as it holds the edits that came
  with it, and that the newest token's edits are the row's. A save that passes the lock then
  carries every stored edit, whichever token it was sent with. `AnswersAreTrue` supposes that no
  answer was lost and nothing typed ahead of a render. And of `FlagFields`, for any flags and keys: every id a
  field is labelled by names one element of the page, and no two fields of a flag's variants are
  called the same. (Of the test ids nothing is proved.)
* `EnrolmentProofs`: `TypeOK`, `OrphansOnlyFromTheRace`, `AssignmentsAreSticky`,
  `SameCopyEveryVisit`. The invariant says of visitors outside the race that the split they read is
  the current one, that the key they hold is defined, and that a save past its guard keeps it.
* `ExperimentReadProofs`: `TypeOK` and all four properties of the run, from the lemmas that the
  visitors counted in a pair are a finite subset of those counted in each half, and that a won
  comparison is a higher rate. Besides: the API's answer is always one the client's translator
  takes (`AnswerIsAlwaysUnderstood`), the chart's bars are told apart by name, a sign never
  contradicts its lift, and nothing on the page moves while the two arms do not.
* `SignupProofs`: `TypeOK`, `OneAccountPerMailbox`, `ConfirmsAStoredPlan`, `LeakFlagIsEarned`,
  `NoticeIsAboutThePassword`, and that the lookup in a padded range is exact. A 201 on its way back
  stands for a stored account (`AnswerInv`), a flag on the wire was earned when it was sent
  (`FlagInv`), and a check that may still be shown is about the password the field last handed it,
  in a form that is there (`CheckInv`).
* `SimulationProofs`: `TypeOK`, `AnsweredMeansStored`, `FunnelsNarrow`, `HalfFunnelsAreFew`, and that
  every step is one of `ExperimentRead`'s writes. The one open request is the visit's next step (`OpenInv`); a visitor
  being created is mentioned nowhere else (`CreateInv`); a request for a step, late or not, stands
  for a step not stored yet whose predecessors are (`StepInv`), so a late commit neither repeats a
  step nor leaves a gap. `BudgetInv` counts: the stored visitors who are neither finished nor under
  way (`Half`) and the creations given up on that may still commit (`Late`) together never
  outnumber the failed visits.
* `PagesProofs`: `TypeOK` and all of the run's properties but liveness. `BoxInv` adds what the box
  last sent, `FigureInv` that a figure not under way has arrived and one under way is below its
  target, `RowInv` that a row is open only under its rows. Besides, of `BreachRecord`: two requests
  that differ in filters or page send different queries; a row states the record that was received
  (title, mark, domain or none, year, count, every badge), for any time zone; a received page,
  its nulls dropped, is a page of whole records, `BreachModel` being the model's own fields. And of `Figures`: counts
  and ages read in order and close to what they are.
* `FunnelSessionProofs`: `TypeOK`, `SentInOrder` and `NoStepIsTurnedAway` for any tabs;
  `TaggedAsShown` and `OneVisitorPerBrowser` for a browser with one tab (`OneTab`; two tabs can be
  two visitors, as the run `FunnelSessionTabs` shows). None is inductive. `OrderInv` adds that
  nothing waits in a queue that knows its session; `PendingInv` that a page has one visitor request
  out at most, none once it was answered, and shows whom it was answered with; `KnownInv` that
  whoever the cookie, the mirror, a page or a request names is stored, while the database stands;
  `CookieInv` that nobody is named and no step leaves before a cookie came, while it stands. With
  one tab, `MirrorInv` ties the mirror, the answer and a pending read to the cookie, `FiledInv`
  then says a step on the wire carries what its cookie's visitor is shown, and `SameInv` that every
  step, sent or stored, has the browser's one cookie. A creation whose answer is lost does leave a
  second row in `visitor`, in the code as in the model; what `OneVisitorPerBrowser` says is that
  nobody but the visitor of the cookie is named by the mirror, the page or a stored step. `OneTab` is used where a session is mirrored
  or a cookie replaced: no other request is out then. Besides, of `Identifiers`: minted ids are
  version 4 UUIDs and keep all their random bits.

Only model-checked: liveness, since TLAPS has no `ENABLED` (`Heals`, `StaysCurrent`, `Recovers`,
`QueueDrains`, `Settles`, `AccountsAreAnnounced`, `RunEnds`, `ScreensSettle`). What a recursive
definition computes cannot be proved here (induction takes an operator as a parameter), so the
models are written with sets, functions and folds, and no module is recursive; `CatalogProofs`
gets a sequence's first position from the cardinality of sets (`HasFirst`).

## Disagreements found while modelling

Three have a run that TLC ends with the trace, and are listed under `findings`:

* `BreachListingLoadMore`: after a failed later page Load more skips that page's records
  (`BreachCatalogProvider.utils.ts:182` against `:120-122`).
* `FunnelSessionTabs`: two tabs opened together are two visitors (`visitors/router.py:45` against
  `:7-9`).
* `PagesHalf`: a result page opened directly, or retried, whose summary fails while its list
  answers shows rows beside tiles that stay skeletons, without an error or a retry
  (`BreachSummary.tsx:32` against `BreachCatalogProvider.utils.ts:141-142`).

Others were met while reading, and are how the models behave; the properties carry them as the
exceptions they state:

* A save whose answer is lost is reported as "could not be saved and is unchanged"
  (`FlagEditor.utils.ts:90-91`), and the retry it asks for conflicts with the operator's own write.
  `AnswersAreTrue` holds only while nothing is lost.
* A character typed after a save's answer was applied and before the render that shows it hands the
  page the flag of the last render, old lock token included (`Admin.tsx:40`, `FlagEditor.tsx:80-84`),
  and the operator's next save is a conflict with nobody. `Admin.tsx:44-46` has the token applied
  "never to a flag captured before the request went out", and `FlagEditor.tsx:99-100` says the next
  save has it. `hasty` counts these edits and `AnswersAreTrue` holds only without them; no stored
  edit is lost by one: `NoLostUpdate` has no exception. (Without `hasty = 0` TLC ends
  `AnswersAreTrue` with the trace: load, save, the answer, an edit before its render, save.)
* `feature_flags/router.py:57-60` says a visitor orphaned by the race falls out of both samples.
  The read counts stored assignments by key, so one orphaned off a key the hypothesis names stays
  in that arm while shown the control copy (`SameCopyEveryVisit`'s exception).
* `Clear filters` pressed while a typed text's pause runs, with no query in force yet, leaves the
  text in the box, and 300 ms later the list is narrowed again (`SearchField.tsx:36`; the test at
  `SearchField.test.tsx:61` clears a query that is in force). `BoxAgrees` holds: the box
  then asks for what is searched for.
* A press on a filter between a search's timer and its render closes over the older filters and
  drops the search: the box and the list disagree until the next keystroke, which
  `BreachFilters.tsx:2-4` says the bar never does. `overtaken` marks these states.
* The banner reads "no significant difference yet" when the variant has significantly won on a full
  sample but nobody in the control converted: `recommend` keeps running for want of a lift
  (`recommendation.py:107-108`), and the title covers every such call (`BannerIsTrue`'s last line).
* The lift card's direction comes from the exact figure and its words from the rounded one, so an
  arrow can stand beside 0.0%.
* `FunnelBars.utils.ts:38-39` says the first bar is always full. In a series nobody entered at the
  first step every bar is empty, later steps included; where a later step has more people than the
  first, its share is above 1.
* 999,950 to 999,999 read as 1000K; `/scan` has no `h1`, though its error state is a panel "inside
  a page that has a heading of its own" (`ErrorState.utils.ts:8-10`); the message that an email is
  taken stays after the email is edited; a visitor whose storage throws is recognised by the cookie
  rather than "re-created on the next visit" (`storage/visitor-id.ts:20`).

## Not modelled

The parsing of HIBP's answers, SHA-1, password hashing and the text of a range; the bucket of a
visitor (any bucket) and its hash; the ranking inside the summary and wildcard escaping; confidence
intervals, the exact p-value and the sample-size formula; what doubles lose of a fraction. Layout,
styles, copy, links and test ids other than the console's. Configuration, logging, correlation ids,
health and migrations, which keep no state past a request. The test kit and the page drivers, which
drive tests, and the generated bundle under `docs/design`. `forgetVisitorId`, which no page
calls. Several flags (the code has one; `experiment_tag` raises on two). Several backend processes:
the lock and the last attempt are per process, which ADR-0002 records.

## What is left

The bucket walk of `assign_variant` and the summary's ranking against reference definitions; the
lenient parsing of the HIBP adapter; two tabs in one `Pages`, which share nothing but the cookie.
