--------------------------- MODULE CatalogRefresh ---------------------------
(***************************************************************************)
(* Stale-while-revalidate for the breach catalog: the boot sync, the       *)
(* request threads that notice the catalog is stale, and the background    *)
(* tasks that refresh it after the response, all over one table.           *)
(*                                                                         *)
(* An actor is the boot or a request.  Each is at one of these points:     *)
(*   boot     "down", "sync", "fetch", "up"                                *)
(*   request  "idle", "revalidate", "decide", "answer", "task", "gate",    *)
(*            "sync", "fetch", "release"                                   *)
(* "sync" and "fetch" are sync_catalog_in_own_transaction, which the boot  *)
(* and the background task share.                                          *)
(***************************************************************************)
EXTENDS CatalogStore, Integers

CONSTANTS Requests,       \* request threads
          Boot,           \* the lifespan
          NoOne,          \* nobody holds the in-flight lock
          Never,          \* no refresh attempted in this process yet
          RetryInterval,  \* how long one attempt keeps the next from starting
          OutageEnds,     \* bound: HIBP and the write may fail before this instant only
          MaxClock,       \* bound on the wall clock
          MaxCrashes      \* bound on process crashes

VARIABLES clock,            \* the wall clock
          pc,               \* where each actor is
          at,               \* the `now` each actor captured
          stale,            \* should_sync as each actor last evaluated it
          scheduled,        \* the request holds a background task
          in_flight,        \* holder of CatalogRefresher._in_flight
          last_attempt_at,  \* CatalogRefresher._last_attempt_at
          calls,            \* ghost: HIBP calls made by this process
          booted_at,        \* ghost: when this process started
          crashes           \* ghost: crashes so far

refreshVars == <<clock, rows, pc, at, stale, scheduled, in_flight, last_attempt_at,
                 calls, booted_at, crashes>>

Actors == Requests \cup {Boot}

ASSUME RefreshAssumption ==
    /\ RetryInterval \in Nat \ {0}
    /\ MaxClock \in Nat /\ Times = 0..MaxClock
    /\ MaxCrashes \in Nat
    /\ OutageEnds \in Nat
    /\ Boot \notin Requests
    /\ NoOne \notin Requests
    /\ Never \notin Nat

-----------------------------------------------------------------------------
(* The two rules of staleness.py.                                          *)

should_retry(now) ==
    last_attempt_at # Never => now >= last_attempt_at + RetryInterval

wants_refresh(r) ==
    /\ in_flight = NoOne
    /\ should_retry(at[r])
    /\ stale[r]

Goto(a, point) == pc' = [pc EXCEPT ![a] = point]

-----------------------------------------------------------------------------
(* The process and its environment.                                        *)

RefreshInit ==
    /\ clock = 0
    /\ StoreInit
    /\ pc = [a \in Actors |-> IF a = Boot THEN "down" ELSE "idle"]
    /\ at = [a \in Actors |-> 0]
    /\ stale = [a \in Actors |-> FALSE]
    /\ scheduled = [r \in Requests |-> FALSE]
    /\ in_flight = NoOne
    /\ last_attempt_at = Never
    /\ calls = 0
    /\ booted_at = 0
    /\ crashes = 0

(* The lifespan starts: the app answers nothing until its sync is over.    *)
Start ==
    /\ pc[Boot] = "down"
    /\ Goto(Boot, "sync")
    /\ at' = [at EXCEPT ![Boot] = clock]
    /\ booted_at' = clock
    /\ calls' = 0
    /\ UNCHANGED <<clock, rows, stale, scheduled, in_flight, last_attempt_at, crashes>>

(* The process dies: threads, tasks, the lock and the attempt time go with *)
(* it, an open transaction rolls back, and the table stays.                *)
Crash ==
    /\ crashes < MaxCrashes
    /\ pc[Boot] # "down"
    /\ pc' = [a \in Actors |-> IF a = Boot THEN "down" ELSE "idle"]
    /\ scheduled' = [r \in Requests |-> FALSE]
    /\ stale' = [a \in Actors |-> FALSE]
    /\ in_flight' = NoOne
    /\ last_attempt_at' = Never
    /\ crashes' = crashes + 1
    /\ UNCHANGED <<clock, rows, at, calls, booted_at>>

Tick ==
    /\ clock < MaxClock
    /\ clock' = clock + 1
    /\ UNCHANGED <<rows, pc, at, stale, scheduled, in_flight, last_attempt_at,
                   calls, booted_at, crashes>>

-----------------------------------------------------------------------------
(* A breach request: revalidate_catalog, then the answer.                  *)

(* The request captures `now` as revalidate_catalog begins.                *)
Arrive(r) ==
    /\ pc[Boot] = "up"
    /\ pc[r] = "idle"
    /\ Goto(r, "revalidate")
    /\ at' = [at EXCEPT ![r] = clock]
    /\ UNCHANGED <<clock, rows, stale, scheduled, in_flight, last_attempt_at,
                   calls, booted_at, crashes>>

(* It reads latest_fetched_at in the request's own transaction ...         *)
ReadFetchedAt(r) ==
    /\ pc[r] = "revalidate"
    /\ stale' = [stale EXCEPT ![r] = should_sync(rows, at[r])]
    /\ Goto(r, "decide")
    /\ UNCHANGED <<clock, rows, at, scheduled, in_flight, last_attempt_at,
                   calls, booted_at, crashes>>

(* ... and asks the refresher afterwards, whose state may have moved on.   *)
(* wants_refresh reads the lock and then the attempt time; since the time  *)
(* only advances under the lock, one atomic read has the same outcomes.    *)
Decide(r) ==
    /\ pc[r] = "decide"
    /\ scheduled' = [scheduled EXCEPT ![r] = wants_refresh(r)]
    /\ stale' = [stale EXCEPT ![r] = FALSE]
    /\ Goto(r, "answer")
    /\ UNCHANGED <<clock, rows, at, in_flight, last_attempt_at,
                   calls, booted_at, crashes>>

(* Mutant: the exception handler builds a bare 503 and drops the task.      *)
carried_only_by_answers(r) == scheduled[r] /\ servable_names(rows) # {}

(* Whether the response that goes out still carries the task: the 200's    *)
(* own background tasks, or the ones carried onto the 503.                 *)
carried_background_tasks(r) == scheduled[r]

Answer(r) ==
    /\ pc[r] = "answer"
    /\ Goto(r, IF carried_background_tasks(r) THEN "task" ELSE "idle")
    /\ scheduled' = [scheduled EXCEPT ![r] = FALSE]
    /\ UNCHANGED <<clock, rows, at, stale, in_flight, last_attempt_at,
                   calls, booted_at, crashes>>

-----------------------------------------------------------------------------
(* CatalogRefresher.refresh, on a worker thread after the response.        *)

(* Mutant: the refresh starts without asking whether one is in flight.     *)
TakeLockAnyway(r) ==
    /\ pc[r] = "task"
    /\ in_flight' = r
    /\ Goto(r, "gate")
    /\ UNCHANGED <<clock, rows, at, stale, scheduled, last_attempt_at,
                   calls, booted_at, crashes>>

TakeLock(r) ==
    /\ pc[r] = "task"
    /\ in_flight = NoOne
    /\ in_flight' = r
    /\ Goto(r, "gate")
    /\ UNCHANGED <<clock, rows, at, stale, scheduled, last_attempt_at,
                   calls, booted_at, crashes>>

(* Non-blocking: another refresh is in flight, so this one is over.        *)
SkipInFlight(r) ==
    /\ pc[r] = "task"
    /\ in_flight # NoOne
    /\ Goto(r, "idle")
    /\ UNCHANGED <<clock, rows, at, stale, scheduled, in_flight, last_attempt_at,
                   calls, booted_at, crashes>>

(* Mutants: the gate is trusted from before the lock, and the attempt is   *)
(* backdated instead of stamped.                                           *)
AttemptUngated(r) ==
    /\ pc[r] = "gate"
    /\ last_attempt_at' = at[r]
    /\ Goto(r, "sync")
    /\ UNCHANGED <<clock, rows, at, stale, scheduled, in_flight,
                   calls, booted_at, crashes>>

AttemptBackdated(r) ==
    /\ pc[r] = "gate"
    /\ should_retry(at[r])
    /\ last_attempt_at' = at[r] - RetryInterval
    /\ Goto(r, "sync")
    /\ UNCHANGED <<clock, rows, at, stale, scheduled, in_flight,
                   calls, booted_at, crashes>>

(* The retry gate once more, under the lock, with the request's own `now`. *)
Attempt(r) ==
    /\ pc[r] = "gate"
    /\ should_retry(at[r])
    /\ last_attempt_at' = at[r]
    /\ Goto(r, "sync")
    /\ UNCHANGED <<clock, rows, at, stale, scheduled, in_flight,
                   calls, booted_at, crashes>>

SkipRetryGate(r) ==
    /\ pc[r] = "gate"
    /\ ~ should_retry(at[r])
    /\ Goto(r, "release")
    /\ UNCHANGED <<clock, rows, at, stale, scheduled, in_flight, last_attempt_at,
                   calls, booted_at, crashes>>

(* Mutant: the lock is not released (no finally).                          *)
ReleaseForgotten(r) ==
    /\ pc[r] = "release"
    /\ Goto(r, "idle")
    /\ UNCHANGED <<clock, rows, at, stale, scheduled, in_flight, last_attempt_at,
                   calls, booted_at, crashes>>

Release(r) ==
    /\ pc[r] = "release"
    /\ in_flight' = NoOne
    /\ Goto(r, "idle")
    /\ UNCHANGED <<clock, rows, at, stale, scheduled, last_attempt_at,
                   calls, booted_at, crashes>>

-----------------------------------------------------------------------------
(* sync_catalog_in_own_transaction, by the boot or by a background task.   *)

AfterSync(a) == IF a = Boot THEN "up" ELSE "release"

(* Mutant: the age read before the lock is trusted.                        *)
SyncUnasked(a) ==
    /\ pc[a] = "sync"
    /\ calls' = calls + 1
    /\ Goto(a, "fetch")
    /\ UNCHANGED <<clock, rows, at, stale, scheduled, in_flight, last_attempt_at,
                   booted_at, crashes>>

(* sync_breaches_if_stale: the age is read again, then HIBP is called.     *)
SyncIfStale(a) ==
    /\ pc[a] = "sync"
    /\ should_sync(rows, at[a])
    /\ calls' = calls + 1
    /\ Goto(a, "fetch")
    /\ UNCHANGED <<clock, rows, at, stale, scheduled, in_flight, last_attempt_at,
                   booted_at, crashes>>

SkipFresh(a) ==
    /\ pc[a] = "sync"
    /\ ~ should_sync(rows, at[a])
    /\ Goto(a, AfterSync(a))
    /\ UNCHANGED <<clock, rows, at, stale, scheduled, in_flight, last_attempt_at,
                   calls, booted_at, crashes>>

(* HIBP answered a whole valid payload: every row in one statement, then   *)
(* the commit.  An empty payload stores nothing and counts as an outage.   *)
StoreFetched(a) ==
    /\ pc[a] = "fetch"
    /\ \E breaches \in Payloads :
         /\ DOMAIN breaches = {} => clock < OutageEnds
         /\ rows' = upsert_many(rows, breaches, at[a])
    /\ Goto(a, AfterSync(a))
    /\ UNCHANGED <<clock, at, stale, scheduled, in_flight, last_attempt_at,
                   calls, booted_at, crashes>>

(* HIBP is down, or its shape moved, or the write was refused: swallowed.  *)
(* A commit that is refused escapes the try: a refresh still gives back    *)
(* its lock and is done, as here; at boot it ends the startup, as Crash.   *)
FetchFails(a) ==
    /\ pc[a] = "fetch"
    /\ clock < OutageEnds
    /\ Goto(a, AfterSync(a))
    /\ UNCHANGED <<clock, rows, at, stale, scheduled, in_flight, last_attempt_at,
                   calls, booted_at, crashes>>

-----------------------------------------------------------------------------
Sync(a) == SyncIfStale(a) \/ SkipFresh(a) \/ StoreFetched(a) \/ FetchFails(a)

Handle(r) == ReadFetchedAt(r) \/ Decide(r) \/ Answer(r)

Refresh(r) ==
    TakeLock(r) \/ SkipInFlight(r) \/ Attempt(r) \/ SkipRetryGate(r) \/ Release(r)

RefreshNext ==
    \/ Start \/ Crash \/ Tick
    \/ \E r \in Requests : Arrive(r) \/ Handle(r) \/ Refresh(r)
    \/ \E a \in Actors : Sync(a)

RefreshSpec == RefreshInit /\ [][RefreshNext]_refreshVars

(***************************************************************************)
(* Time passes, a started process runs its lifespan, and every handler and *)
(* worker thread that has begun keeps running: HIBP_TIMEOUT_SECONDS ends   *)
(* every call.  Visitors keep coming, which the code cannot promise: the   *)
(* refresh is driven by traffic and the liveness below is "under traffic". *)
(***************************************************************************)
Fairness ==
    /\ WF_refreshVars(Tick) /\ WF_refreshVars(Start)
    /\ \A a \in Actors : WF_refreshVars(Sync(a))
    /\ \A r \in Requests : WF_refreshVars(Handle(r)) /\ WF_refreshVars(Refresh(r)) /\ WF_refreshVars(Arrive(r))

FairRefreshSpec == RefreshSpec /\ Fairness

-----------------------------------------------------------------------------
(* Type correctness of every variable. *)
Points == {"idle", "revalidate", "decide", "answer", "task", "gate", "sync",
           "fetch", "release", "down", "up"}

RefreshTypeOK ==
    /\ clock \in 0..MaxClock
    /\ StoreTypeOK
    /\ pc \in [Actors -> Points]
    /\ at \in [Actors -> 0..MaxClock]
    /\ stale \in [Actors -> BOOLEAN]
    /\ scheduled \in [Requests -> BOOLEAN]
    /\ in_flight \in Requests \cup {NoOne}
    /\ last_attempt_at \in Nat \cup {Never}
    /\ calls \in Nat
    /\ booted_at \in 0..MaxClock
    /\ crashes \in 0..MaxCrashes

(* At most one sync runs at a time, the boot's included: two concurrent    *)
(* fetches would upsert the same rows against each other (refresh.py:23-30,*)
(* sync.py:87-92).                                                         *)
Syncing(a) == pc[a] \in {"sync", "fetch"}

SingleFlight == \A a, b \in Actors : Syncing(a) /\ Syncing(b) => a = b

(* A down HIBP hears from one process at most once for the boot, once for  *)
(* the first request and once more per retry interval, however many        *)
(* visitors arrive (refresh.py:26-30, BF22).                               *)
HibpBudget == (calls - 2) * RetryInterval <= clock - booted_at

(* The table the refresher writes is the catalog CatalogStore promises: a  *)
(* payload lands whole, at least one TTL after the last, and nothing is    *)
(* lost when a slow task, a restart or a second request comes late.        *)
ImplementsStore == StoreSpec

(* Under traffic, an empty catalog is filled once HIBP answers again,      *)
(* without a restart: the 503 that reports it carries the refresh          *)
(* (router.py:51-57).                                                      *)
Heals == <>(DOMAIN rows # {})

(* Under traffic, a catalog past its TTL never just stays so: each time    *)
(* the retry interval is over somebody attempts it again, however many     *)
(* attempts failed before (refresh.py:1-7).  The bounded clock may stop    *)
(* inside the interval after the last attempt, which is why the interval   *)
(* is part of the statement.                                               *)
StaysCurrent == [](should_sync(rows, clock) => <> ~ (should_sync(rows, clock) /\ should_retry(clock)))

=============================================================================
