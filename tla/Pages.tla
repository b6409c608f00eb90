-------------------------------- MODULE Pages --------------------------------
(***************************************************************************)
(* One tab of the funnel as its visitor walks it: the scan moment, the     *)
(* result screen with its search box, filters, list and counting figure,   *)
(* and the dashboard beside it.  The breach catalog is CatalogProvider,    *)
(* whose promise BreachListing is shown to keep; it outlives the           *)
(* navigation between funnel pages and nothing else does.                  *)
(*                                                                         *)
(* React renders after a timer or an answer, not during it: `rendered` is  *)
(* the filters as the bar last saw them, the ones its handlers close over. *)
(***************************************************************************)
EXTENDS BreachRecord

CONSTANTS Texts,         \* what can stand in the search box
          Queries,       \* what a box can ask for: the trimmed, non-empty texts
          NoQuery,       \* no search at all
          Trimmed,       \* Trimmed[text]: the query a text stands for, or NoQuery
          DataClasses, NoClass,
          NoVariant,     \* the visitor has no variant, or none is known yet
          SummaryBody,   \* the body the summary endpoint answers with
          ReducedMotion  \* prefers-reduced-motion

VARIABLES path,
          summary, list, filters,                   \* the catalog's promise
          rendered, text, lastSent, pause,          \* the filter bar and its search box
          overtaken,    \* ghost: a press closed over filters older than the last search
          expanded,     \* a row's details are open
          elapsed,      \* the scan's two seconds are over
          variant,      \* the tone of the visitor's variant
          counted, frame,                           \* the counting figure, and its next frame
          dashboard     \* the dashboard's load

provider == <<summary, list, filters>>
bar      == <<rendered, text, lastSent, pause, overtaken>>
figure   == <<counted, frame>>
vars     == <<path, provider, bar, expanded, elapsed, variant, figure, dashboard>>

ASSUME PagesAssumption ==
    /\ Queries \subseteq Texts /\ "" \in Texts \ Queries /\ NoQuery \notin Queries
    /\ Trimmed \in [Texts -> Queries \cup {NoQuery}]
    /\ Trimmed[""] = NoQuery /\ \A q \in Queries : Trimmed[q] = q
    /\ SummaryBody \in BreachSummaryDTO /\ ReducedMotion \in BOOLEAN

-----------------------------------------------------------------------------
(* The routes.  Pages under the funnel's layout share its providers; the   *)
(* dashboard and the not-found page stand outside it.                      *)
Landing == "/"
Scan == "/scan"
Result == "/result"
Signup == "/signup"
Protected == "/protected"
Dashboard == "/dashboard"
NotFound == "*"

Funnel == {Landing, Scan, Result, Signup, Protected}

Paths == Funnel \cup {Dashboard, NotFound}

(* What stands in the place of every page once a render has thrown.        *)
RenderFailure == "RenderFailure"

Screens == Paths \cup {RenderFailure}

hasFailed == path = RenderFailure

(* The pages that read the catalog, and so ask for it when they mount.     *)
CatalogReaders == {Scan, Result}

-----------------------------------------------------------------------------
(* The filters.                                                            *)
SortOption == {"Newest", "MostAccounts", "Name"}

Filters == [q : Queries \cup {NoQuery}, dataClass : DataClasses \cup {NoClass},
            verifiedOnly : BOOLEAN, sort : SortOption]

NoFilters == [q |-> NoQuery, dataClass |-> NoClass, verifiedOnly |-> FALSE, sort |-> "Newest"]

Catalog == INSTANCE CatalogProvider

toQuery(t) == Trimmed[t]

(* query ?? '': what the box holds for a query.                            *)
textOf(q) == IF q = NoQuery THEN "" ELSE q

(* Clearing keeps the order and drops everything that narrows.             *)
withoutFilters(f) == [NoFilters EXCEPT !.sort = f.sort]

hasActiveFilters(f) == f.q # NoQuery \/ f.dataClass # NoClass \/ f.verifiedOnly

toggled(f, class) == IF f.dataClass = class THEN NoClass ELSE class

(* Newest is the server's default and asks for nothing.                    *)
sortOptionMap ==
    [Newest       |-> [sort |-> {}, order |-> {}],
     MostAccounts |-> [sort |-> {"pwnCount"}, order |-> {"desc"}],
     Name         |-> [sort |-> {"name"}, order |-> {"asc"}]]

(* What the list endpoint is asked: what is undefined is the empty set.    *)
toListQuery(f, page) ==
    [q |-> {f.q} \ {NoQuery}, dataClass |-> {f.dataClass} \ {NoClass},
     verifiedOnly |-> IF f.verifiedOnly THEN {TRUE} ELSE {},
     sort |-> sortOptionMap[f.sort].sort, order |-> sortOptionMap[f.sort].order,
     page |-> {page} \ {1}]

(* An empty text and a switch that is off are the server's defaults too.   *)
isSet(key, value) ==
    /\ key \in {"q", "dataClass"} => value # ""
    /\ key = "verifiedOnly" => value # FALSE

buildBreachesQuery(query) ==
    UNION {{<<key, value>> : value \in {v \in query[key] : isSet(key, v)}} : key \in DOMAIN query}

-----------------------------------------------------------------------------
(* What is on screen.                                                      *)

(* Mutant: rows give way to skeletons while a later page comes.            *)
showsReadyRows == path = Result /\ list.status = "ready" /\ ~ list.empty

showsRows == path = Result /\ Catalog!hasItems /\ ~ list.empty

showsEmptyState == path = Result /\ Catalog!hasItems /\ list.empty

showsTiles == path = Result /\ summary = "ready"

showsScanFailure == path = Scan /\ Catalog!hasCatalogFailed

showsListFailure == path = Result /\ list.status = "failed"

offersClear ==
    \/ showsEmptyState
    \/ path = Result /\ list.status = "ready" /\ hasActiveFilters(rendered)

Tone == {"calm", "urgent"}

(* The assigned variant's tone, the control's otherwise.                   *)
tone == IF variant = NoVariant THEN "calm" ELSE variant

CountMode == {"still", "countUp"}

countModeMap == [t \in Tone |-> IF t = "urgent" THEN "countUp" ELSE "still"]

counts == countModeMap[tone] = "countUp" /\ ~ ReducedMotion

theSummary == summaryFromDTO(SummaryBody)

target == IF summary = "ready" THEN theSummary.totalAccountsExposed ELSE 0

shown == IF counts THEN counted ELSE target

tiles == buildSummaryTiles(theSummary, shown)

-----------------------------------------------------------------------------
(* Mounting a page.                                                        *)
FreshCatalog(p) ==
    /\ summary' = IF p \in CatalogReaders THEN "loading" ELSE "idle"
    /\ list' = Catalog!Bare(summary')
    /\ filters' = NoFilters
    /\ variant' = NoVariant

(* Mutant: a page of the funnel finds the catalog as it is.                *)
NobodyAsks(p) == UNCHANGED <<variant, provider>>

(* The catalog and the session are the layout's; load is idempotent.       *)
SameCatalog(p) ==
    /\ UNCHANGED variant
    /\ IF p \in CatalogReaders /\ summary = "idle" THEN Catalog!Load ELSE UNCHANGED provider

(* The box starts with the query in force, as if it had sent it itself.    *)
SearchField(query) == text' = textOf(query) /\ lastSent' = query /\ pause' = FALSE

(* A page's own state starts over, its timers and frames are cancelled.    *)
MountPage(p) ==
    /\ path' = p
    /\ rendered' = filters' /\ SearchField(filters'.q) /\ overtaken' = FALSE
    /\ expanded' = FALSE /\ elapsed' = FALSE
    /\ counted' = 0 /\ frame' = (p = Result /\ counts')
    /\ dashboard' = IF p = Dashboard THEN "loading" ELSE "closed"

(* A document: a typed URL, a reload, the first visit.                     *)
Open(p) == FreshCatalog(p) /\ MountPage(p)

(* A render throws, on any page: React unmounts the whole tree, providers  *)
(* and router included, and the boundary has one way forward, a reload of  *)
(* the address it threw at.  Which that was is not kept.                   *)
Throw == ~ hasFailed /\ Open(RenderFailure)

handleReload == hasFailed /\ \E p \in Paths : Open(p)

(* A button, a link, Back or Forward inside the document.  The funnel's    *)
(* layout stays mounted from one of its pages to another.                  *)
Go(p) ==
    /\ path \notin {Dashboard, RenderFailure} /\ p \notin {path, Dashboard}
    /\ IF path \in Funnel /\ p \in Funnel THEN SameCatalog(p) ELSE FreshCatalog(p)
    /\ MountPage(p)

Init ==
    /\ path \in {Landing, Scan, Result, Dashboard}
    /\ summary = IF path \in CatalogReaders THEN "loading" ELSE "idle"
    /\ list = Catalog!Bare(summary)
    /\ filters = NoFilters /\ variant = NoVariant
    /\ rendered = NoFilters /\ text = "" /\ lastSent = NoQuery
    /\ pause = FALSE /\ overtaken = FALSE
    /\ expanded = FALSE /\ elapsed = FALSE
    /\ counted = 0 /\ frame = FALSE
    /\ dashboard = IF path = Dashboard THEN "loading" ELSE "closed"

-----------------------------------------------------------------------------
(* What every step on a page does besides: an open row lives as long as    *)
(* its rows, and the figure counts again when its target or mode changes.  *)

(* Mutant: the counting effect does not depend on the target.              *)
CountOnce == UNCHANGED counted /\ frame' = IF counts' = counts THEN frame ELSE counts'

CountEffect ==
    /\ UNCHANGED counted
    /\ frame' = IF path # Result THEN FALSE
                ELSE IF target' = target /\ counts' = counts THEN frame ELSE counts'

OnPage == UNCHANGED <<path, dashboard>> /\ CountEffect

KeepRows == expanded' = (expanded /\ showsRows')

-----------------------------------------------------------------------------
(* The answers.                                                            *)
SummaryAnswers ==
    /\ Catalog!SummaryAnswers
    /\ UNCHANGED <<bar, elapsed, variant>> /\ OnPage /\ KeepRows

ListAnswers ==
    /\ Catalog!ListAnswers
    /\ UNCHANGED <<bar, elapsed, variant>> /\ OnPage /\ KeepRows

(* The visitor session answers: an arm, or no experiment and no change.    *)
VisitorAnswers ==
    /\ path \in Funnel
    /\ variant = NoVariant /\ variant' \in Tone
    /\ UNCHANGED <<provider, bar, expanded, elapsed>> /\ OnPage

-----------------------------------------------------------------------------
(* The scan moment.                                                        *)
MomentEnds ==
    /\ path = Scan /\ ~ elapsed
    /\ elapsed' = TRUE
    /\ UNCHANGED <<provider, bar, expanded, variant>> /\ OnPage

(* useScanMoment's second effect: the step it records is FunnelSession's.  *)
Complete ==
    /\ path = Scan /\ elapsed /\ Catalog!isCatalogReady
    /\ UNCHANGED <<provider, variant>>
    /\ MountPage(Result)

(* The retry of the scan's error state, or of the list's.                  *)
Retry ==
    /\ showsScanFailure \/ showsListFailure
    /\ Catalog!Retry
    /\ rendered' = filters
    /\ UNCHANGED <<text, lastSent, pause, overtaken, elapsed, variant>>
    /\ OnPage /\ KeepRows

-----------------------------------------------------------------------------
(* The filter bar and its search box.                                      *)

(* Mutant: the box adopts every query that comes back down.                *)
AdoptAnything(f) ==
    /\ rendered' = f
    /\ IF f.q = rendered.q
       THEN UNCHANGED <<text, lastSent, pause>>
       ELSE lastSent' = f.q /\ text' = textOf(f.q) /\ pause' = FALSE

(* Mutant: the box is seeded once and never rewritten.                     *)
AdoptNothing(f) == rendered' = f /\ UNCHANGED <<text, lastSent, pause>>

(* The bar renders with f.  A query that is neither the one it had nor the *)
(* one the box last sent came from outside, and the box adopts it.         *)
Adopt(f) ==
    /\ rendered' = f
    /\ IF f.q \in {rendered.q, lastSent}
       THEN UNCHANGED <<text, lastSent, pause>>
       ELSE /\ lastSent' = f.q /\ text' = textOf(f.q)
            /\ pause' = (pause /\ text = textOf(f.q))

(* A keystroke first renders what was pending: Render, then Type.          *)
Type(t) ==
    /\ path = Result /\ rendered = filters
    /\ t # text /\ text' = t
    /\ pause' = (toQuery(t) # lastSent)
    /\ UNCHANGED <<provider, rendered, lastSent, overtaken, expanded, elapsed, variant>> /\ OnPage

(* 300 ms without a keystroke: the search is sent with the handler of the  *)
(* last render.                                                            *)
PauseEnds ==
    /\ path = Result /\ pause
    /\ pause' = FALSE /\ lastSent' = toQuery(text)
    /\ Catalog!SetFilters([rendered EXCEPT !.q = toQuery(text)])
    /\ overtaken' = FALSE
    /\ UNCHANGED <<rendered, text, elapsed, variant>> /\ OnPage /\ KeepRows

Render ==
    /\ path = Result /\ rendered # filters
    /\ Adopt(filters)
    /\ UNCHANGED <<provider, overtaken, expanded, elapsed, variant>> /\ OnPage

(* A press writes what its handler closed over, and is rendered at once.   *)
Press(f) ==
    /\ Catalog!SetFilters(f)
    /\ Adopt(f)
    /\ overtaken' = (f.q \in {rendered.q, lastSent} /\ (overtaken \/ rendered.q # filters.q))
    /\ UNCHANGED <<elapsed, variant>> /\ OnPage /\ KeepRows

handleSort(option) == path = Result /\ Press([rendered EXCEPT !.sort = option])

handleDataClass(class) == showsTiles /\ Press([rendered EXCEPT !.dataClass = toggled(rendered, class)])

handleVerifiedOnly == path = Result /\ Press([rendered EXCEPT !.verifiedOnly = ~ @])

handleClearFilters == offersClear /\ Press(withoutFilters(rendered))

-----------------------------------------------------------------------------
(* The list, the figure and the dashboard.                                 *)
LoadMore ==
    /\ path = Result /\ Catalog!LoadMore
    /\ rendered' = filters
    /\ UNCHANGED <<text, lastSent, pause, overtaken, elapsed, variant>>
    /\ OnPage /\ KeepRows

handleToggle ==
    /\ showsRows
    /\ expanded' = ~ expanded /\ rendered' = filters
    /\ UNCHANGED <<provider, text, lastSent, pause, overtaken, elapsed, variant>> /\ OnPage

(* A frame before the 1400 ms are over shows any figure on the way.        *)
FrameTicks ==
    /\ frame
    /\ counted' \in 0..target
    /\ UNCHANGED <<path, provider, bar, expanded, elapsed, variant, frame, dashboard>>

LastFrame ==
    /\ frame
    /\ counted' = target /\ frame' = FALSE
    /\ UNCHANGED <<path, provider, bar, expanded, elapsed, variant, dashboard>>

LoadStatus == {"loading", "ready", "failed"}

DashboardAnswers ==
    /\ dashboard = "loading"
    /\ dashboard' \in LoadStatus \ {"loading"}
    /\ UNCHANGED <<path, provider, bar, expanded, elapsed, variant, figure>>

DashboardRetry ==
    /\ dashboard = "failed"
    /\ dashboard' = "loading"
    /\ UNCHANGED <<path, provider, bar, expanded, elapsed, variant, figure>>

-----------------------------------------------------------------------------
Visitor ==
    \/ \E p \in Paths : Open(p) \/ Go(p)
    \/ Retry \/ \E t \in Texts : Type(t)
    \/ \E option \in SortOption : handleSort(option)
    \/ \E class \in DataClasses : handleDataClass(class)
    \/ handleVerifiedOnly \/ handleClearFilters
    \/ LoadMore \/ handleToggle \/ DashboardRetry \/ handleReload

Browser ==
    \/ SummaryAnswers \/ ListAnswers \/ VisitorAnswers \/ DashboardAnswers
    \/ MomentEnds \/ Complete \/ PauseEnds \/ Render \/ FrameTicks \/ LastFrame
    \/ Throw

Next == Visitor \/ Browser

Spec == Init /\ [][Next]_vars

(***************************************************************************)
(* Requests are answered or fail, timers fire, React renders and frames    *)
(* run out.  The visitor owes nothing.                                     *)
(***************************************************************************)
FairSpec ==
    /\ Spec
    /\ WF_vars(SummaryAnswers) /\ WF_vars(ListAnswers) /\ WF_vars(DashboardAnswers)
    /\ WF_vars(MomentEnds) /\ WF_vars(Complete) /\ WF_vars(PauseEnds)
    /\ WF_vars(Render) /\ WF_vars(LastFrame)

-----------------------------------------------------------------------------
TypeOK ==
    /\ path \in Screens
    /\ summary \in Catalog!SummaryStatus
    /\ list \in [status : Catalog!ListStatus, empty : BOOLEAN, more : BOOLEAN]
    /\ filters \in Filters /\ rendered \in Filters
    /\ text \in Texts /\ lastSent \in Queries \cup {NoQuery}
    /\ {pause, overtaken, expanded, elapsed, frame} \subseteq BOOLEAN
    /\ variant \in Tone \cup {NoVariant}
    /\ counted \in Nat
    /\ dashboard \in LoadStatus \cup {"closed"}

(* Once the box is at rest it says what is being searched for, whatever    *)
(* was typed, sent, cleared and re-mounted before (SearchField.tsx:1-4);   *)
(* the one exception is a press that closed over older filters.            *)
BoxAgrees ==
    path = Result /\ rendered = filters /\ ~ pause /\ ~ overtaken => toQuery(text) = filters.q

(* The box is never rewritten while they type: what stands in it changes   *)
(* without a keystroke only to be emptied, when a query in force was       *)
(* cleared outside it (the echo guard, SearchField.tsx:25-40).             *)
OnlyClearingEmptiesTheBox ==
    [][path = Result /\ path' = Result /\ text' # text /\ <<provider, rendered>>' # <<provider, rendered>>
           => text' = "" /\ filters'.q = NoQuery]_vars

(* Tiles at rest state the summary, in both tones and whichever of summary *)
(* and variant arrives last: never the zero the figure was seeded with     *)
(* (BF63).  On its way the figure never reads above what it counts to.     *)
FigureIsTrue ==
    showsTiles =>
        /\ ~ frame => tiles = buildSummaryTiles(theSummary, theSummary.totalAccountsExposed)
        /\ CountRead(formatCount(shown)) <= CountRead(formatCount(theSummary.totalAccountsExposed))

(* Details a visitor opened stay open until they close them, leave, or ask *)
(* for a new first page: a later page coming or failing closes nothing.    *)
ReadingIsKept ==
    [][expanded /\ ~ expanded' /\ list' # list => (list'.status = "loading" \/ path' # path)]_vars

(* Once the visitor rests, every screen comes to rest: a scan ends in the  *)
(* result or in the error with its retry, a typed search is sent and       *)
(* rendered, the list and the figure land, the dashboard answers.          *)
AtRest ==
    /\ path = Scan => Catalog!hasCatalogFailed
    /\ path = Result => /\ summary # "loading" /\ list.status \notin {"loading", "loadingMore"}
                        /\ ~ pause /\ rendered = filters /\ ~ frame
    /\ dashboard # "loading"

ScreensSettle == <>[][~ Visitor]_vars => <>[]AtRest

(* "Either half failing is the whole screen failing: a result page with    *)
(* tiles and no rows, or rows and no tiles, would be a half-answer         *)
(* presented as a whole one" (BreachCatalogProvider.utils.ts:141-142).     *)
NoHalfAnswer == ~ (showsRows /\ summary = "failed")
=============================================================================
