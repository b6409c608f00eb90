--------------------------- MODULE CatalogProvider ---------------------------
(***************************************************************************)
(* What the breach catalog promises the pages that read it: a status for   *)
(* the tiles, a status for the list, whether there are rows and whether    *)
(* there are more, and the filters in force.  Pages builds on this promise *)
(* and BreachListing, the provider with its requests, is shown to keep it. *)
(***************************************************************************)
CONSTANTS Filters,     \* the selections a visitor can make
          NoFilters    \* the one the provider starts with

VARIABLES summary,   \* SummaryStatus
          list,      \* ListState: its status, whether it is empty, whether there is more
          filters    \* the filters in force

vars == <<summary, list, filters>>

SummaryStatus == {"idle", "loading", "ready", "failed"}

ListStatus == {"idle", "loading", "ready", "loadingMore", "failed"}

(* A list without rows to show.                                            *)
Bare(status) == [status |-> status, empty |-> TRUE, more |-> FALSE]

hasItems == list.status \in {"ready", "loadingMore"}

(* Either half failing is the whole screen failing.                        *)
hasCatalogFailed == summary = "failed" \/ list.status = "failed"

isCatalogReady == summary = "ready" /\ list.status = "ready"

Init == summary = "idle" /\ list = Bare("idle") /\ filters = NoFilters

-----------------------------------------------------------------------------
(* The first consumer to mount asks for both halves; load is idempotent.   *)
Load ==
    /\ summary = "idle"
    /\ summary' = "loading" /\ list' = Bare("loading")
    /\ UNCHANGED filters

SummaryAnswers ==
    /\ summary = "loading"
    /\ summary' \in {"ready", "failed"}
    /\ UNCHANGED <<list, filters>>

(* A first page replaces the list, or fails it; a later one joins the rows *)
(* or leaves them as they were.                                            *)
ListAnswers ==
    /\ \/ list.status = "loading" /\ list' = Bare("failed")
       \/ list.status = "loading"
            /\ \E empty, more \in BOOLEAN :
                  list' = [status |-> "ready", empty |-> empty, more |-> more]
       \/ list.status = "loadingMore"
            /\ \E more \in BOOLEAN : list' = [list EXCEPT !.status = "ready", !.more = more]
    /\ UNCHANGED <<summary, filters>>

(* The filters in force start again from the first page.  The same filters *)
(* again ask nothing.                                                      *)
SetFilters(f) ==
    /\ list.status # "idle"
    /\ filters' = f
    /\ list' = IF f = filters THEN list ELSE Bare("loading")
    /\ UNCHANGED summary

LoadMore ==
    /\ list.status = "ready" /\ ~ list.empty /\ list.more
    /\ list' = [list EXCEPT !.status = "loadingMore"]
    /\ UNCHANGED <<summary, filters>>

(* Both halves start again, whichever failed.                              *)
Retry ==
    /\ hasCatalogFailed
    /\ summary' = "loading" /\ list' = Bare("loading")
    /\ UNCHANGED filters

Next ==
    \/ Load \/ SummaryAnswers \/ ListAnswers \/ LoadMore \/ Retry
    \/ \E f \in Filters : SetFilters(f)

Spec == Init /\ [][Next]_vars
=============================================================================
