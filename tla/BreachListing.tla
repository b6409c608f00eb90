---------------------------- MODULE BreachListing ----------------------------
(***************************************************************************)
(* The breach list and its tiles, from the browser's provider through the  *)
(* endpoint to a catalog that is refreshed underneath them.                *)
(*                                                                         *)
(* The catalog is CatalogStore: it changes by whole payloads.  The list    *)
(* endpoint reads it in up to three READ COMMITTED statements (count, page,*)
(* "is anything held"), and the provider sends one request per selection   *)
(* and page, aborting the one before.                                      *)
(***************************************************************************)
EXTENDS CatalogStore, Integers, SequencesExt

CONSTANTS Selections,       \* the filter and sort choices a visitor can make
          NoFilters,        \* the one the provider starts with
          Listing,          \* Listing[f]: the names f matches, in f's total order
          Limit,            \* rows per page
          MaxPage,          \* bound on how far Load more is pressed
          MaxRefreshes,     \* bound on catalog refreshes
          MaxFailures,      \* bound on failing first pages and summaries
          MaxLaterFailures  \* bound on failing later pages

VARIABLES request,        \* the provider's CatalogRequest
          list,           \* its ListState
          summary,        \* its SummaryState
          wire,           \* list requests on their way, and how far each got
          summaryWire,    \* summary requests on their way
          refreshes, failures, laterFailures   \* bounds, and the catalog's epoch

vars == <<rows, request, list, summary, wire, summaryWire, refreshes, failures, laterFailures>>

ASSUME ListingAssumption ==
    /\ NoFilters \in Selections
    /\ Limit \in Nat \ {0}
    /\ \A f \in Selections : Listing[f] \in Seq(Names) /\ IsInjective(Listing[f])

FIRST_PAGE == 1

-----------------------------------------------------------------------------
(* The server's reads.                                                     *)

(* The k-th of a set of positions, and what a sequence holds at them.      *)
nth(S, k) == CHOOSE i \in S : Cardinality({j \in S : j <= i}) = k

EntriesAt(s, S) == [k \in 1..Cardinality(S) |-> s[nth(S, k)]]

(* build_breach_query and build_breach_order: the servable rows f matches. *)
Listed(f) == EntriesAt(Listing[f], {i \in DOMAIN Listing[f] : Listing[f][i] \in servable_names(rows)})

(* Mutant: the offset is one row too far.                                  *)
PageOfOffByOne(ordered, page) ==
    LET first == (page - 1) * Limit + 2
        last  == IF page * Limit + 1 < Len(ordered) THEN page * Limit + 1 ELSE Len(ordered)
    IN  IF first > last THEN <<>> ELSE SubSeq(ordered, first, last)

(* LIMIT and OFFSET.                                                       *)
PageOf(ordered, page) ==
    LET first == (page - 1) * Limit + 1
        last  == IF page * Limit < Len(ordered) THEN page * Limit ELSE Len(ordered)
    IN  IF first > last THEN <<>> ELSE SubSeq(ordered, first, last)

-----------------------------------------------------------------------------
(* The provider's pure rules.                                              *)

ListStatus == {"idle", "loading", "ready", "loadingMore", "failed"}

hasItems(state) == state.status \in {"ready", "loadingMore"}

hasMorePages(state) == Len(state.items) < state.total

isFirstPage(req) == req.page = FIRST_PAGE

Bare(status) == [status |-> status, items |-> <<>>, total |-> 0, page |-> 0, epoch |-> 0]

awaitPage(current, req) ==
    IF isFirstPage(req) \/ ~ hasItems(current)
    THEN Bare("loading")
    ELSE [current EXCEPT !.status = "loadingMore"]

(* Mutant: pages are concatenated as they come.                            *)
withRepeats(items) == items

(* The first copy of a name wins.                                          *)
withoutRepeats(items) ==
    EntriesAt(items, {i \in DOMAIN items : \A j \in 1..(i - 1) : items[j] # items[i]})

(* The first page replaces whatever was there; a later page joins it.      *)
receivePage(current, answer, req) ==
    IF isFirstPage(req) \/ ~ hasItems(current)
    THEN [status |-> "ready", items |-> answer.items, total |-> answer.total,
          page |-> req.page, epoch |-> answer.epoch]
    ELSE [status |-> "ready", items |-> withoutRepeats(current.items \o answer.items),
          total |-> answer.total, page |-> req.page, epoch |-> current.epoch]

failPage(current, req) ==
    IF isFirstPage(req) \/ ~ hasItems(current)
    THEN Bare("failed")
    ELSE [current EXCEPT !.status = "ready"]

withFilters(req, f) ==
    IF req.filters = f THEN req ELSE [req EXCEPT !.filters = f, !.page = FIRST_PAGE]

retryRequest(req) == [req EXCEPT !.attempt = 1 - @, !.page = FIRST_PAGE]

nextPage(req) == [req EXCEPT !.page = @ + 1]

hasCatalogFailed == summary.status = "failed" \/ list.status = "failed"

isCatalogReady == summary.status = "ready" /\ list.status = "ready"

(* A list request, from the client's call to the endpoint's last statement.*)
fetchBreaches(req) == [request |-> req, stage |-> "count", total |-> 0, items |-> <<>>, epoch |-> 0]

(* What the client keeps of an answer; a row is told apart by its name.    *)
pageFromDTO(dto) == [items |-> dto.items, total |-> dto.total, epoch |-> dto.epoch]

(* The tiles are figures of the names a summary read: the names stand for  *)
(* them.                                                                   *)
summaryFromDTO(names) == [status |-> "ready", names |-> names]

-----------------------------------------------------------------------------
(* The provider's effects.                                                 *)

(* Mutant: an effect does not abort the request before it.                 *)
NothingAborted(pending) == pending

(* What an effect's cleanup leaves of the requests before it: an aborted   *)
(* request rejects with CanceledError, even when its answer had arrived.   *)
AfterAbort(pending) == {}

(* The list effect runs whenever the request object changes.  setRequest,  *)
(* its render and the effect are one step: an answer between them is the   *)
(* old request's, taken before the step or aborted by it.                  *)
ListEffect(req) ==
    /\ request' = req
    /\ list' = awaitPage(list, req)
    /\ wire' = AfterAbort(wire) \cup {fetchBreaches(req)}

(* The summary effect runs when isEnabled or attempt change, and only then.*)
SummaryEffect(req) ==
    /\ summary' = [status |-> "loading", names |-> {}]
    /\ summaryWire' = AfterAbort(summaryWire) \cup {req.attempt}

Init ==
    /\ StoreInit
    /\ request = [isEnabled |-> FALSE, attempt |-> 0, filters |-> NoFilters, page |-> FIRST_PAGE]
    /\ list = Bare("idle")
    /\ summary = [status |-> "idle", names |-> {}]
    /\ wire = {} /\ summaryWire = {}
    /\ refreshes = 0 /\ failures = 0 /\ laterFailures = 0

(* The first consumer mounts.                                              *)
Load ==
    /\ ~ request.isEnabled
    /\ ListEffect([request EXCEPT !.isEnabled = TRUE])
    /\ SummaryEffect(request)
    /\ UNCHANGED <<rows, refreshes, failures, laterFailures>>

(* Mutant: a retry asks for the list and forgets the tiles.                *)
RetryListOnly ==
    /\ hasCatalogFailed
    /\ ListEffect(retryRequest(request))
    /\ UNCHANGED <<rows, summary, summaryWire, refreshes, failures, laterFailures>>

(* The button of the scan's error state, shown when either half failed.    *)
Retry ==
    /\ hasCatalogFailed
    /\ ListEffect(retryRequest(request))
    /\ SummaryEffect(retryRequest(request))
    /\ UNCHANGED <<rows, refreshes, failures, laterFailures>>

(* Mutant: the summary effect depends on the whole request.                *)
SetFiltersEverywhere(f) ==
    /\ request.isEnabled
    /\ withFilters(request, f) # request
    /\ ListEffect(withFilters(request, f))
    /\ SummaryEffect(request)
    /\ UNCHANGED <<rows, refreshes, failures, laterFailures>>

(* A chip, the search field or the sort: a selection already in force      *)
(* leaves the request object alone, so no effect runs.                     *)
SetFilters(f) ==
    /\ request.isEnabled
    /\ withFilters(request, f) # request
    /\ ListEffect(withFilters(request, f))
    /\ UNCHANGED <<rows, summary, summaryWire, refreshes, failures, laterFailures>>

(* The Load more button: offered over rows, disabled while one is coming.  *)
LoadMore ==
    /\ list.status = "ready"
    /\ list.items # <<>>
    /\ hasMorePages(list)
    /\ request.page < MaxPage
    /\ ListEffect(nextPage(request))
    /\ UNCHANGED <<rows, summary, summaryWire, refreshes, failures, laterFailures>>

-----------------------------------------------------------------------------
(* The list endpoint, statement by statement.                              *)

Advance(w, next) == wire' = (wire \ {w}) \cup {next}

CountRows(w) ==
    /\ w.stage = "count"
    /\ Advance(w, [w EXCEPT !.stage = "page", !.total = Len(Listed(w.request.filters)),
                            !.epoch = refreshes])
    /\ UNCHANGED <<rows, request, list, summary, summaryWire, refreshes, failures, laterFailures>>

PageRows(w) ==
    /\ w.stage = "page"
    /\ Advance(w, [w EXCEPT !.stage = IF w.total = 0 THEN "exists" ELSE "ok",
                            !.items = PageOf(Listed(w.request.filters), w.request.page)])
    /\ UNCHANGED <<rows, request, list, summary, summaryWire, refreshes, failures, laterFailures>>

RefuseIfEmpty(w) ==
    /\ w.stage = "exists"
    /\ Advance(w, [w EXCEPT !.stage = IF servable_names(rows) = {} THEN "unavailable" ELSE "ok"])
    /\ UNCHANGED <<rows, request, list, summary, summaryWire, refreshes, failures, laterFailures>>

(* The answers, and a request lost on the way.                             *)
DeliverPage(w) ==
    /\ w.stage \in {"ok", "unavailable"}
    /\ wire' = wire \ {w}
    /\ list' = IF w.stage = "ok" THEN receivePage(list, pageFromDTO(w), w.request)
                                 ELSE failPage(list, w.request)
    /\ UNCHANGED <<rows, request, summary, summaryWire, refreshes, failures, laterFailures>>

LosePage(w) ==
    /\ IF isFirstPage(w.request)
       THEN failures < MaxFailures /\ failures' = failures + 1 /\ UNCHANGED laterFailures
       ELSE laterFailures < MaxLaterFailures /\ laterFailures' = laterFailures + 1
            /\ UNCHANGED failures
    /\ wire' = wire \ {w}
    /\ list' = failPage(list, w.request)
    /\ UNCHANGED <<rows, request, summary, summaryWire, refreshes>>

(* The summary endpoint reads everything in one statement.  The read and   *)
(* its delivery are one step: an answer that waits is that of an earlier   *)
(* reading, and nothing compares the tiles with the rows.                  *)
DeliverSummary(s) ==
    /\ summaryWire' = summaryWire \ {s}
    /\ summary' = IF servable_names(rows) = {}
                  THEN [status |-> "failed", names |-> {}]
                  ELSE summaryFromDTO(servable_names(rows))
    /\ UNCHANGED <<rows, request, list, wire, refreshes, failures, laterFailures>>

LoseSummary(s) ==
    /\ failures < MaxFailures
    /\ failures' = failures + 1
    /\ summaryWire' = summaryWire \ {s}
    /\ summary' = [status |-> "failed", names |-> {}]
    /\ UNCHANGED <<rows, request, list, wire, refreshes, laterFailures>>

(* A refresh lands: the catalog's promise, and nothing more, is assumed.   *)
Refreshed ==
    /\ refreshes < MaxRefreshes
    /\ StoreNext
    /\ refreshes' = refreshes + 1
    /\ UNCHANGED <<request, list, summary, wire, summaryWire, failures, laterFailures>>

-----------------------------------------------------------------------------
Serve == \E w \in wire : CountRows(w) \/ PageRows(w) \/ RefuseIfEmpty(w) \/ DeliverPage(w)

ServeSummary == \E s \in summaryWire : DeliverSummary(s)

Next ==
    \/ Load \/ Retry \/ LoadMore \/ \E f \in Selections : SetFilters(f)
    \/ Serve \/ ServeSummary
    \/ \E w \in wire : LosePage(w)
    \/ \E s \in summaryWire : LoseSummary(s)
    \/ Refreshed

Spec == Init /\ [][Next]_vars

(***************************************************************************)
(* Requests are answered or fail; the catalog is filled (CatalogRefresh's  *)
(* Heals); a visitor facing the error screen eventually presses its button,*)
(* and nothing is assumed about Load more or the filters.                  *)
(***************************************************************************)
FairSpec == Spec /\ WF_vars(Load) /\ WF_vars(Serve) /\ WF_vars(ServeSummary)
                 /\ WF_vars(Refreshed) /\ SF_vars(Retry)

-----------------------------------------------------------------------------
(* The provider's state, and a list request on its way to an answer.       *)
CatalogRequest ==
    [isEnabled : BOOLEAN, attempt : {0, 1}, filters : Selections, page : Nat \ {0}]

ListState ==
    [status : ListStatus, items : Seq(Names), total : Nat, page : Nat, epoch : Nat]

ListRequest ==
    [request : CatalogRequest, stage : {"count", "page", "exists", "ok", "unavailable"},
     total : Nat, items : Seq(Names), epoch : Nat]

TypeOK ==
    /\ StoreTypeOK
    /\ request \in CatalogRequest /\ list \in ListState /\ wire \subseteq ListRequest
    /\ summary \in [status : {"idle", "loading", "ready", "failed"}, names : SUBSET Names]
    /\ summaryWire \subseteq {0, 1}
    /\ refreshes \in Nat /\ failures \in Nat /\ laterFailures \in Nat

(* What the pages are promised (CatalogProvider), whatever the requests,   *)
(* the refreshes and the failures underneath: the tiles follow retries     *)
(* only, a filter starts the list again, a later page never costs the rows.*)
Provider == INSTANCE CatalogProvider
    WITH Filters <- Selections, filters <- request.filters, summary <- summary.status,
         list <- [status |-> list.status, empty |-> list.items = <<>>, more |-> hasMorePages(list)]

ImplementsProvider == Provider!Spec

(* The rows on screen answer the selection in force, an answer to an older *)
(* filter, page or attempt never landing over it, and none repeats a name, *)
(* although the catalog may grow between two pages and push a row onto the *)
(* next one (BF75: a repeat was a duplicate React key and a dropped row).  *)
RowsAnswerTheSelection ==
    /\ IsInjective(list.items)
    /\ hasItems(list) => Range(list.items) \subseteq Range(Listing[request.filters])

(* While the catalog stands still the rows on screen are the first rows of *)
(* the selection, none skipped, as long as no later page has failed; and   *)
(* when Load more is withdrawn they are all of them.                       *)
NoGaps ==
    hasItems(list) /\ list.epoch = refreshes /\ laterFailures = 0 =>
        /\ IsPrefix(list.items, Listed(request.filters))
        /\ ~ hasMorePages(list) => list.items = Listed(request.filters)

(* Rows on screen keep their places: whatever a later page brings, repeats *)
(* of rows a refresh has pushed down among them, it only adds below ("the  *)
(* first copy wins", BreachCatalogProvider.utils.ts:107-108).              *)
RowsKeepTheirPlaces ==
    [][hasItems(list) /\ hasItems(list)' => IsPrefix(list.items, list.items')]_vars

(* The scan ends: a visitor who keeps pressing the error screen's button   *)
(* and stops changing filters gets both halves once the catalog is held    *)
(* and failures stop.                                                      *)
Recovers ==
    <>[][request'.filters = request.filters]_vars
        => <>(summary.status = "ready" /\ hasItems(list))

(* "Load more offered again" after a failed page (BreachCatalogProvider    *)
(* .utils.ts:120-122): offered again, it should continue where the rows on *)
(* screen end.                                                             *)
LoadMoreContinues ==
    hasItems(list) /\ list.epoch = refreshes => IsPrefix(list.items, Listed(request.filters))
=============================================================================
