---------------------------- MODULE CatalogProofs ----------------------------
(***************************************************************************)
(* Proofs about the breach catalog, from the table to the screen.          *)
(*                                                                         *)
(* CatalogRefresh, for every set of requests, every payload HIBP may answer*)
(* and every value of the intervals and bounds: types, at most one sync at *)
(* a time, the budget of HIBP calls, and that the table is the one         *)
(* CatalogStore promises.                                                  *)
(*                                                                         *)
(* BreachListing, for every set of selections and their orders, any page   *)
(* size and any promised catalog: that the rows on screen answer the       *)
(* selection in force and repeat no name, that none is skipped, and that   *)
(* the provider is the one CatalogProvider promises the pages.             *)
(***************************************************************************)
EXTENDS CatalogRefresh, BreachListing, FiniteSetTheorems, SequenceTheorems, TLAPS

-----------------------------------------------------------------------------
(* The refresh: its inductive invariant.                                   *)

(* Boot and request points do not mix, and a task holds the lock from the  *)
(* moment it takes it until it releases it.                                *)
Holding == {"gate", "sync", "fetch", "release"}

PointsInv ==
    /\ pc[Boot] \in {"down", "sync", "fetch", "up"}
    /\ \A r \in Requests : pc[r] \notin {"down", "up"}

LockInv == \A r \in Requests : pc[r] \in Holding <=> in_flight = r

(* Nobody is served, and nothing refreshes, until the lifespan is over.    *)
BootInv == pc[Boot] # "up" => \A r \in Requests : pc[r] = "idle"

(* The age read before the HIBP call is still the table's age when the     *)
(* payload arrives, because nobody else may write meanwhile.               *)
FetchInv == \A a \in Actors : pc[a] = "fetch" => should_sync(rows, at[a])

(* Every captured `now` lies between the process's start and the clock,    *)
(* and each attempt has paid for the call it may make with an interval.    *)
StampInv ==
    /\ booted_at <= clock
    /\ \A a \in Actors : at[a] <= clock
    /\ \A r \in Requests : pc[r] # "idle" => booted_at <= at[r]

CallsInv ==
    /\ HibpBudget
    /\ pc[Boot] = "sync" => calls = 0
    /\ pc[Boot] # "up" => last_attempt_at = Never
    /\ pc[Boot] # "down" /\ last_attempt_at = Never =>
          calls <= 1 /\ \A r \in Requests : pc[r] # "sync"
    /\ last_attempt_at # Never =>
          /\ booted_at <= last_attempt_at /\ last_attempt_at <= clock
          /\ (calls - 2) * RetryInterval <= last_attempt_at - booted_at
          /\ (\E r \in Requests : pc[r] = "sync") =>
                (calls - 1) * RetryInterval <= last_attempt_at - booted_at

(* Who is where: the points, the lock and the quiet of an unfinished boot. *)
ControlInv == PointsInv /\ LockInv /\ BootInv

RefreshInv == ControlInv /\ FetchInv /\ StampInv /\ CallsInv

-----------------------------------------------------------------------------
(* upsert_many yields a table of rows again.                               *)
LEMMA UpsertType ==
    ASSUME NEW table, DOMAIN table \subseteq Names, table \in [DOMAIN table -> Row],
           NEW breaches \in Payloads, NEW now \in Nat
    PROVE  /\ DOMAIN upsert_many(table, breaches, now) \subseteq Names
           /\ upsert_many(table, breaches, now) \in
                [DOMAIN upsert_many(table, breaches, now) -> Row]
<1>1. PICK S \in SUBSET Names : breaches \in [S -> BOOLEAN]
  BY StoreAssumption DEF CatalogPayload
<1>2. DOMAIN breaches = S /\ \A n \in S : breaches[n] \in BOOLEAN
  BY <1>1
<1>3. DOMAIN upsert_many(table, breaches, now) = DOMAIN table \cup S
  BY <1>2 DEF upsert_many
<1>4. ASSUME NEW n \in DOMAIN table \cup S
      PROVE  upsert_many(table, breaches, now)[n] \in Row
  BY <1>2 DEF upsert_many, Row
<1>5. QED
  BY <1>3, <1>4 DEF upsert_many

(* Every variable keeps its type. *)
THEOREM RefreshTypeCorrect == RefreshSpec => []RefreshTypeOK
<1> USE RefreshAssumption DEF RefreshTypeOK, Actors
<1>1. RefreshInit => RefreshTypeOK
  BY DEF RefreshInit, Points, StoreInit, StoreTypeOK
<1>2. RefreshTypeOK /\ [RefreshNext]_refreshVars => RefreshTypeOK'
  <2> SUFFICES ASSUME RefreshTypeOK, [RefreshNext]_refreshVars PROVE RefreshTypeOK'
    OBVIOUS
  <2> USE DEF StoreTypeOK
  <2>1. CASE Start
    BY <2>1 DEF Start, Goto, Points
  <2>2. CASE Crash
    BY <2>2 DEF Crash, Points
  <2>3. CASE Tick
    BY <2>3 DEF Tick
  <2>4. ASSUME NEW r \in Requests, Arrive(r) \/ Handle(r)
        PROVE  RefreshTypeOK'
    <3>1. CASE Arrive(r)
      BY <3>1 DEF Arrive, Goto, Points
    <3>2. CASE ReadFetchedAt(r)
      BY <3>2 DEF ReadFetchedAt, Goto, Points, should_sync
    <3>3. CASE Decide(r)
      BY <3>3 DEF Decide, Goto, Points, wants_refresh, should_retry
    <3>4. CASE Answer(r)
      BY <3>4 DEF Answer, Goto, Points
    <3>5. QED
      BY <2>4, <3>1, <3>2, <3>3, <3>4 DEF Handle
  <2>5. ASSUME NEW r \in Requests, Refresh(r)
        PROVE  RefreshTypeOK'
    BY <2>5 DEF Refresh, TakeLock, SkipInFlight, Attempt, SkipRetryGate, Release, Goto, Points
  <2>6. ASSUME NEW a \in Actors, Sync(a)
        PROVE  RefreshTypeOK'
    <3>1. CASE StoreFetched(a)
      <4>1. PICK breaches \in Payloads : rows' = upsert_many(rows, breaches, at[a])
        BY <3>1 DEF StoreFetched
      <4>2. StoreTypeOK'
        BY <4>1, UpsertType
      <4>3. QED
        BY <3>1, <4>2 DEF StoreFetched, Goto, AfterSync, Points
    <3>2. CASE SyncIfStale(a) \/ SkipFresh(a) \/ FetchFails(a)
      BY <3>2 DEF SyncIfStale, SkipFresh, FetchFails, Goto, AfterSync, Points
    <3>3. QED
      BY <2>6, <3>1, <3>2 DEF Sync
  <2>7. CASE UNCHANGED refreshVars
    BY <2>7 DEF refreshVars
  <2>8. QED
    BY <2>1, <2>2, <2>3, <2>4, <2>5, <2>6, <2>7 DEF RefreshNext
<1>3. QED
  BY <1>1, <1>2, PTL DEF RefreshSpec

-----------------------------------------------------------------------------
(* The one arithmetic fact the budget needs. *)
LEMMA OneMoreInterval ==
    ASSUME NEW x \in Int PROVE (x + 1) * RetryInterval = x * RetryInterval + RetryInterval
  BY RefreshAssumption, SMT

LEMMA InvInit == RefreshInit => RefreshInv
  BY RefreshAssumption
  DEF RefreshInit, RefreshInv, PointsInv, LockInv, BootInv, FetchInv, StampInv, CallsInv, HibpBudget,
      ControlInv, Holding, Actors

LEMMA ControlStep == RefreshTypeOK /\ ControlInv /\ [RefreshNext]_refreshVars => ControlInv'
<1> SUFFICES ASSUME RefreshTypeOK, ControlInv, [RefreshNext]_refreshVars PROVE ControlInv'
  OBVIOUS
<1> USE RefreshAssumption
    DEF RefreshTypeOK, ControlInv, PointsInv, LockInv, BootInv, Holding, Actors, Goto
<1>1. CASE Start
  BY <1>1 DEF Start
<1>2. CASE Crash
  BY <1>2 DEF Crash
<1>3. CASE Tick
  BY <1>3 DEF Tick
<1>4. ASSUME NEW r \in Requests, Arrive(r) \/ Handle(r)
      PROVE  ControlInv'
  BY <1>4 DEF Arrive, Handle, ReadFetchedAt, Decide, Answer
<1>5. ASSUME NEW r \in Requests, Refresh(r)
      PROVE  ControlInv'
  BY <1>5 DEF Refresh, TakeLock, SkipInFlight, Attempt, SkipRetryGate, Release
<1>6. ASSUME NEW a \in Actors, Sync(a)
      PROVE  ControlInv'
  BY <1>6 DEF Sync, SyncIfStale, SkipFresh, StoreFetched, FetchFails, AfterSync
<1>7. CASE UNCHANGED refreshVars
  BY <1>7 DEF refreshVars
<1>8. QED
  BY <1>1, <1>2, <1>3, <1>4, <1>5, <1>6, <1>7 DEF RefreshNext

(* At most one sync at a time, on the boot or on any worker thread. *)
LEMMA ControlIsSingleFlight == RefreshTypeOK /\ ControlInv => SingleFlight
  BY RefreshAssumption
  DEF RefreshTypeOK, ControlInv, PointsInv, LockInv, BootInv, Holding, Actors, SingleFlight, Syncing

THEOREM OneSyncAtATime == RefreshSpec => []SingleFlight
<1>1. RefreshInit => ControlInv
  BY InvInit DEF RefreshInv, ControlInv
<1>2. QED
  BY <1>1, ControlStep, ControlIsSingleFlight, RefreshTypeCorrect, PTL DEF RefreshSpec

-----------------------------------------------------------------------------
(* Only a sync changes the table, so an age read before the HIBP call      *)
(* stays true until that call's payload is stored.                         *)
LEMMA RowsStable ==
    RefreshTypeOK /\ ControlInv /\ [RefreshNext]_refreshVars
    => rows' = rows \/ \E a \in Actors : StoreFetched(a)
  BY DEF RefreshNext, refreshVars, Start, Crash, Tick, Arrive, Handle, ReadFetchedAt, Decide, Answer,
         Refresh, TakeLock, SkipInFlight, Attempt, SkipRetryGate, Release,
         Sync, SyncIfStale, SkipFresh, FetchFails

LEMMA FetchStep == RefreshTypeOK /\ ControlInv /\ FetchInv /\ [RefreshNext]_refreshVars => FetchInv'
<1> SUFFICES ASSUME RefreshTypeOK, ControlInv, FetchInv, [RefreshNext]_refreshVars,
                    NEW b \in Actors, pc'[b] = "fetch"
             PROVE  should_sync(rows, at[b])'
  BY DEF FetchInv, Actors
<1> USE DEF RefreshTypeOK, Goto
<1>1. CASE \E a \in Actors : StoreFetched(a)
  <2>1. PICK a \in Actors : StoreFetched(a)
    BY <1>1
  <2>2. a # b
    BY <2>1, RefreshAssumption DEF StoreFetched, AfterSync, Actors
  <2>3. pc[b] = "fetch" /\ pc[a] = "fetch"
    BY <2>1, <2>2 DEF StoreFetched
  <2>4. QED
    BY <2>2, <2>3, ControlIsSingleFlight DEF SingleFlight, Syncing
<1>2. CASE rows' = rows
  <2>1. SUFFICES should_sync(rows, at'[b])
    BY <1>2 DEF should_sync
  <2>2. CASE SyncIfStale(b)
    BY <2>2 DEF SyncIfStale
  <2>3. CASE pc[b] = "fetch" /\ at'[b] = at[b]
    BY <2>3 DEF FetchInv
  <2>4. QED
    BY <2>2, <2>3, RefreshAssumption
    DEF RefreshNext, refreshVars, Start, Crash, Tick, Arrive, Handle, ReadFetchedAt, Decide, Answer,
        Refresh, TakeLock, SkipInFlight, Attempt, SkipRetryGate, Release,
        Sync, SyncIfStale, SkipFresh, StoreFetched, FetchFails, AfterSync, Actors,
        ControlInv, PointsInv
<1>3. QED
  BY <1>1, <1>2, RowsStable

LEMMA StampStep == RefreshTypeOK /\ ControlInv /\ StampInv /\ [RefreshNext]_refreshVars => StampInv'
<1> SUFFICES ASSUME RefreshTypeOK, ControlInv, StampInv, [RefreshNext]_refreshVars PROVE StampInv'
  OBVIOUS
<1> USE RefreshAssumption DEF RefreshTypeOK, StampInv, Actors, Goto
<1>1. CASE Start
  BY <1>1 DEF Start, ControlInv, BootInv
<1>2. CASE Crash
  BY <1>2 DEF Crash
<1>3. CASE Tick
  BY <1>3 DEF Tick
<1>4. ASSUME NEW r \in Requests, Arrive(r) \/ Handle(r)
      PROVE  StampInv'
  BY <1>4 DEF Arrive, Handle, ReadFetchedAt, Decide, Answer
<1>5. ASSUME NEW r \in Requests, Refresh(r)
      PROVE  StampInv'
  BY <1>5 DEF Refresh, TakeLock, SkipInFlight, Attempt, SkipRetryGate, Release
<1>6. ASSUME NEW a \in Actors, Sync(a)
      PROVE  StampInv'
  BY <1>6 DEF Sync, SyncIfStale, SkipFresh, StoreFetched, FetchFails, AfterSync
<1>7. CASE UNCHANGED refreshVars
  BY <1>7 DEF refreshVars
<1>8. QED
  BY <1>1, <1>2, <1>3, <1>4, <1>5, <1>6, <1>7 DEF RefreshNext

LEMMA CallsStep ==
    RefreshTypeOK /\ ControlInv /\ StampInv /\ CallsInv /\ [RefreshNext]_refreshVars => CallsInv'
<1> SUFFICES ASSUME RefreshTypeOK, ControlInv, StampInv, CallsInv, [RefreshNext]_refreshVars PROVE CallsInv'
  OBVIOUS
<1> USE RefreshAssumption DEF RefreshTypeOK, ControlInv, PointsInv, CallsInv, HibpBudget, Actors, Goto
<1>1. CASE Start
  BY <1>1 DEF Start, BootInv
<1>2. CASE Crash
  BY <1>2 DEF Crash
<1>3. CASE Tick
  BY <1>3 DEF Tick
<1>4. ASSUME NEW r \in Requests, Arrive(r) \/ Handle(r)
      PROVE  CallsInv'
  BY <1>4 DEF Arrive, Handle, ReadFetchedAt, Decide, Answer
<1>5. ASSUME NEW r \in Requests, Refresh(r)
      PROVE  CallsInv'
  <2>1. CASE Attempt(r)
    BY <2>1, OneMoreInterval DEF Attempt, should_retry, StampInv, BootInv, LockInv, Holding
  <2>2. CASE TakeLock(r) \/ SkipInFlight(r) \/ SkipRetryGate(r) \/ Release(r)
    BY <2>2 DEF TakeLock, SkipInFlight, SkipRetryGate, Release
  <2>3. QED
    BY <1>5, <2>1, <2>2 DEF Refresh
<1>6. ASSUME NEW a \in Actors, Sync(a)
      PROVE  CallsInv'
  <2>1. CASE SyncIfStale(a)
    BY <2>1, OneMoreInterval, ControlIsSingleFlight
    DEF SyncIfStale, StampInv, BootInv, SingleFlight, Syncing
  <2>2. CASE SkipFresh(a) \/ StoreFetched(a) \/ FetchFails(a)
    BY <2>2 DEF SkipFresh, StoreFetched, FetchFails, AfterSync, BootInv
  <2>3. QED
    BY <1>6, <2>1, <2>2 DEF Sync
<1>7. CASE UNCHANGED refreshVars
  BY <1>7 DEF refreshVars
<1>8. QED
  BY <1>1, <1>2, <1>3, <1>4, <1>5, <1>6, <1>7 DEF RefreshNext

THEOREM RefreshInvariance == RefreshSpec => []RefreshInv
<1>1. RefreshTypeOK /\ RefreshInv /\ [RefreshNext]_refreshVars => RefreshInv'
  BY ControlStep, FetchStep, StampStep, CallsStep DEF RefreshInv
<1>2. QED
  BY <1>1, InvInit, RefreshTypeCorrect, PTL DEF RefreshSpec

(* However many visitors find the catalog stale, HIBP hears from a process *)
(* at most twice plus once per retry interval it has been up.              *)
THEOREM HibpBudgetHolds == RefreshSpec => []HibpBudget
  BY RefreshInvariance, PTL DEF RefreshInv, CallsInv

-----------------------------------------------------------------------------
(* An empty payload is no write. *)
LEMMA UpsertNothing ==
    ASSUME NEW breaches, DOMAIN breaches = {}, NEW now,
           NEW table, table = [n \in DOMAIN table |-> table[n]]
    PROVE  upsert_many(table, breaches, now) = table
<1>1. DOMAIN table \cup DOMAIN breaches = DOMAIN table
  OBVIOUS
<1>2. QED
  BY <1>1 DEF upsert_many

LEMMA StoreStep ==
    RefreshTypeOK /\ RefreshInv /\ [RefreshNext]_refreshVars => [StoreNext]_rows
<1> SUFFICES ASSUME RefreshTypeOK, RefreshInv, [RefreshNext]_refreshVars PROVE [StoreNext]_rows
  OBVIOUS
<1>1. CASE \E a \in Actors : StoreFetched(a)
  <2>1. PICK a \in Actors, breaches \in Payloads :
            pc[a] = "fetch" /\ rows' = upsert_many(rows, breaches, at[a])
    BY <1>1 DEF StoreFetched
  <2>2. at[a] \in 0..MaxClock /\ rows = [n \in DOMAIN rows |-> rows[n]]
    BY DEF RefreshTypeOK, StoreTypeOK
  <2>3. CASE DOMAIN breaches = {}
    BY <2>1, <2>2, <2>3, UpsertNothing
  <2>4. CASE DOMAIN breaches # {}
    <3>1. should_sync(rows, at[a])
      BY <2>1 DEF RefreshInv, FetchInv
    <3>2. Store(breaches, at[a])
      BY <2>1, <2>4, <3>1 DEF Store
    <3>3. QED
      BY <2>1, <2>2, <3>2, RefreshAssumption DEF StoreNext
  <2>5. QED
    BY <2>3, <2>4
<1>2. QED
  BY <1>1, RowsStable DEF RefreshInv

(* The boot, the requests and the tasks together implement the catalog the *)
(* readers are promised: whole payloads, at least a TTL apart, never lost. *)
THEOREM ImplementsCatalogStore == RefreshSpec => ImplementsStore
<1>1. RefreshInit => StoreInit
  BY DEF RefreshInit
<1>2. QED
  BY <1>1, StoreStep, RefreshTypeCorrect, RefreshInvariance, PTL
  DEF RefreshSpec, ImplementsStore, StoreSpec

-----------------------------------------------------------------------------
(* The list.  First, what picking entries of a sequence by their positions *)
(* gives: nth counts a finite set of positions in order.                   *)

rank(S, i) == Cardinality({j \in S : j <= i})

LEMMA Ranked ==
    ASSUME NEW S \in SUBSET Nat, IsFiniteSet(S)
    PROVE  /\ Cardinality(S) \in Nat
           /\ \A i \in S : rank(S, i) \in 1..Cardinality(S)
           /\ \A i, j \in S : i < j => rank(S, i) < rank(S, j)
           /\ \A i, j \in S : rank(S, i) = rank(S, j) => i = j
<1> DEFINE Upto(i) == {j \in S : j <= i}
<1>1. Cardinality(S) \in Nat
  BY FS_CardinalityType
<1>2. ASSUME NEW i \in S
      PROVE  /\ IsFiniteSet(Upto(i)) /\ rank(S, i) = Cardinality(Upto(i))
             /\ rank(S, i) \in Nat /\ rank(S, i) <= Cardinality(S) /\ rank(S, i) # 0
  <2>1. Upto(i) \subseteq S /\ i \in Upto(i)
    OBVIOUS
  <2>2. IsFiniteSet(Upto(i)) /\ Cardinality(Upto(i)) <= Cardinality(S)
    BY <2>1, FS_Subset
  <2>3. Cardinality(Upto(i)) \in Nat /\ Cardinality(Upto(i)) # 0
    BY <2>1, <2>2, FS_CardinalityType, FS_EmptySet
  <2> QED  BY <2>2, <2>3 DEF rank
<1>3. ASSUME NEW i \in S, NEW j \in S, i < j
      PROVE  rank(S, i) < rank(S, j)
  <2>1. Upto(i) \subseteq Upto(j) \ {j} /\ j \in Upto(j)
    <3>1. \A k \in S : k \in Nat
      OBVIOUS
    <3>2. ASSUME NEW k \in S, k <= i
          PROVE  k <= j /\ k # j
      <4>1. k \in Nat /\ i \in Nat /\ j \in Nat
        OBVIOUS
      <4> QED  BY <1>3, <3>2, <4>1
    <3>3. j \in Upto(j)
      BY <3>1
    <3>4. ASSUME NEW k \in Upto(i)
          PROVE  k \in Upto(j) \ {j}
      BY <3>2, Zenon
    <3> HIDE DEF Upto
    <3> QED  BY <3>3, <3>4
  <2>2. IsFiniteSet(Upto(j)) /\ rank(S, j) = Cardinality(Upto(j)) /\ rank(S, j) \in Nat
        /\ rank(S, i) = Cardinality(Upto(i)) /\ rank(S, i) \in Nat
    BY <1>2
  <2>3. IsFiniteSet(Upto(j) \ {j}) /\ Cardinality(Upto(j) \ {j}) = Cardinality(Upto(j)) - 1
    BY <2>1, <2>2, FS_RemoveElement
  <2>4. Cardinality(Upto(i)) <= Cardinality(Upto(j) \ {j})
    BY <2>1, <2>3, FS_Subset
  <2> QED  BY <2>2, <2>3, <2>4
<1>4. ASSUME NEW i \in S, NEW j \in S, rank(S, i) = rank(S, j)
      PROVE  i = j
  <2>1. rank(S, i) \in Nat /\ i \in Nat /\ j \in Nat
    BY <1>2
  <2>2. ~ (i < j) /\ ~ (j < i)
    BY <1>3, <1>4, <2>1
  <2> QED  BY <2>1, <2>2
<1>5. ASSUME NEW i \in S PROVE rank(S, i) \in 1..Cardinality(S)
  <2>1. rank(S, i) \in Nat /\ rank(S, i) <= Cardinality(S) /\ rank(S, i) # 0
    BY <1>2
  <2> QED  BY <1>1, <2>1
<1> QED  BY <1>1, <1>3, <1>4, <1>5

(* Every rank up to the size is taken: nth is the inverse of rank.         *)
LEMMA NthOfRank ==
    ASSUME NEW S \in SUBSET Nat, IsFiniteSet(S)
    PROVE  /\ \A k \in 1..Cardinality(S) : nth(S, k) \in S /\ rank(S, nth(S, k)) = k
           /\ \A i \in S : nth(S, rank(S, i)) = i
           /\ \A k, l \in 1..Cardinality(S) : k < l => nth(S, k) < nth(S, l)
<1> DEFINE n == Cardinality(S)
           f == [i \in S |-> rank(S, i)]
<1>1. /\ n \in Nat /\ \A i \in S : rank(S, i) \in 1..n
      /\ \A i, j \in S : i < j => rank(S, i) < rank(S, j)
      /\ \A i, j \in S : rank(S, i) = rank(S, j) => i = j
  BY Ranked
<1>2. f \in Injection(S, 1..n)
  BY <1>1 DEF Injection, IsInjective
<1>3. IsFiniteSet(1..n) /\ Cardinality(1..n) = n
  BY <1>1, FS_Interval
<1>4. f \in Surjection(S, 1..n)
  BY <1>2, <1>3, FS_Injection
<1>5. \A k \in 1..n : \E i \in S : rank(S, i) = k
  BY <1>4 DEF Surjection
<1>6. ASSUME NEW k \in 1..n
      PROVE  nth(S, k) \in S /\ rank(S, nth(S, k)) = k
  BY <1>5 DEF nth, rank
<1>7. \A i \in S : nth(S, rank(S, i)) = i
  BY <1>1, <1>6
<1>8. ASSUME NEW k \in 1..n, NEW l \in 1..n, k < l
      PROVE  nth(S, k) < nth(S, l)
  <2>1. nth(S, k) \in S /\ nth(S, l) \in S /\ rank(S, nth(S, k)) = k /\ rank(S, nth(S, l)) = l
    BY <1>6
  <2>2. nth(S, k) \in Nat /\ nth(S, l) \in Nat /\ k \in Nat /\ l \in Nat
    <3>1. \A i \in S : i \in Nat
      OBVIOUS
    <3>2. n \in Nat
      BY <1>1
    <3> HIDE DEF n
    <3>3. k \in Nat /\ l \in Nat
      BY <3>2
    <3> QED  BY <2>1, <3>1, <3>3, Zenon
  <2>3. ~ (nth(S, l) < nth(S, k))
    <3> DEFINE u == nth(S, l)
               v == nth(S, k)
    <3> HIDE DEF u, v
    <3>a. u \in S /\ v \in S
      BY <2>1 DEF u, v
    <3>1. u < v => rank(S, u) < rank(S, v)
      BY <1>1, <3>a
    <3>2. u < v => l < k
      BY <2>1, <3>1 DEF u, v
    <3> QED  BY <1>8, <2>2, <3>2 DEF u, v
  <2>4. nth(S, l) # nth(S, k)
    BY <1>8, <2>1, <2>2
  <2> QED  BY <2>2, <2>3, <2>4
<1> QED  BY <1>6, <1>7, <1>8

LEMMA Entries ==
    ASSUME NEW X, NEW s \in Seq(X), NEW S \in SUBSET (DOMAIN s)
    PROVE  /\ S \in SUBSET Nat /\ IsFiniteSet(S) /\ Cardinality(S) \in Nat
           /\ EntriesAt(s, S) \in Seq(X)
           /\ Len(EntriesAt(s, S)) = Cardinality(S)
           /\ Range(EntriesAt(s, S)) = {s[i] : i \in S}
           /\ (\A i, j \in S : s[i] = s[j] => i = j) => IsInjective(EntriesAt(s, S))
<1> DEFINE n == Cardinality(S)
           e == EntriesAt(s, S)
<1>1. DOMAIN s = 1..Len(s) /\ Len(s) \in Nat /\ \A i \in DOMAIN s : s[i] \in X
  OBVIOUS
<1>2. S \in SUBSET Nat /\ IsFiniteSet(S) /\ n \in Nat
  <2>1. IsFiniteSet(1..Len(s))
    BY <1>1, FS_Interval
  <2>2. IsFiniteSet(S)
    BY <1>1, <2>1, FS_Subset
  <2> QED  BY <1>1, <2>2, FS_CardinalityType
<1>3. /\ \A k \in 1..n : nth(S, k) \in S
      /\ \A i \in S : rank(S, i) \in 1..n /\ nth(S, rank(S, i)) = i
      /\ \A k, l \in 1..n : k < l => nth(S, k) < nth(S, l)
  BY <1>2, NthOfRank, Ranked
<1>4. DOMAIN e = 1..n /\ \A k \in 1..n : e[k] = s[nth(S, k)]
  BY DEF EntriesAt
<1>5. e \in Seq(X) /\ Len(e) = n
  <2>1. e \in [1..n -> X]
    BY <1>1, <1>3, <1>4 DEF EntriesAt
  <2> QED  BY <1>2, <2>1
<1>6. Range(e) = {s[i] : i \in S}
  <2>1. ASSUME NEW k \in 1..n
        PROVE  e[k] \in {s[i] : i \in S}
    BY <1>3, <1>4
  <2>2. ASSUME NEW i \in S
        PROVE  s[i] \in {e[k] : k \in 1..n}
    BY <1>3, <1>4
  <2>3. Range(e) = {e[k] : k \in 1..n}
    BY <1>4 DEF Range
  <2> HIDE DEF e, n
  <2> QED  BY <2>1, <2>2, <2>3
<1>7. ASSUME \A i, j \in S : s[i] = s[j] => i = j
      PROVE  IsInjective(e)
  <2> SUFFICES ASSUME NEW k \in 1..n, NEW l \in 1..n, e[k] = e[l]
               PROVE  k = l
    BY <1>4 DEF IsInjective
  <2>1. nth(S, k) = nth(S, l) /\ nth(S, k) \in Nat
    BY <1>2, <1>3, <1>4, <1>7
  <2>2. ~ (k < l) /\ ~ (l < k)
    BY <1>3, <2>1
  <2> QED  BY <1>2, <2>2
<1> QED  BY <1>2, <1>5, <1>6, <1>7

(* Every position is the sequence itself.                                  *)
LEMMA AllEntries ==
    ASSUME NEW X, NEW s \in Seq(X)
    PROVE  EntriesAt(s, DOMAIN s) = s
<1> DEFINE n == Len(s)
           e == EntriesAt(s, 1..n)
<1>1. DOMAIN s = 1..n /\ n \in Nat
  OBVIOUS
<1>2. IsFiniteSet(1..n) /\ Cardinality(1..n) = n
  BY <1>1, FS_Interval
<1>3. ASSUME NEW i \in 1..n
      PROVE  nth(1..n, i) = i
  <2>1. {j \in 1..n : j <= i} = 1..i
    BY <1>1
  <2>2. Cardinality(1..i) = i
    BY FS_Interval
  <2>3. rank(1..n, i) = i
    BY <2>1, <2>2 DEF rank
  <2>4. nth(1..n, rank(1..n, i)) = i
    BY <1>1, <1>2, NthOfRank
  <2> QED  BY <2>3, <2>4
<1>4. e = [k \in 1..n |-> s[k]]
  BY <1>2, <1>3 DEF EntriesAt
<1> QED  BY <1>1, <1>4

(* A non-empty set of positions has a first one.                           *)
LEMMA HasFirst ==
    ASSUME NEW S \in SUBSET Nat, IsFiniteSet(S), S # {}
    PROVE  \E i \in S : \A j \in S : i <= j
<1>1. Cardinality(S) \in Nat /\ Cardinality(S) # 0
  BY FS_CardinalityType, FS_EmptySet
<1>2. 1 \in 1..Cardinality(S)
  BY <1>1
<1>3. nth(S, 1) \in S /\ rank(S, nth(S, 1)) = 1
  BY <1>2, NthOfRank
<1>4. ASSUME NEW j \in S, j < nth(S, 1)
      PROVE  FALSE
  <2>1. rank(S, j) \in 1..Cardinality(S) /\ rank(S, j) < rank(S, nth(S, 1))
    BY <1>3, <1>4, Ranked
  <2> QED  BY <1>1, <1>3, <2>1
<1>5. \A j \in S : nth(S, 1) <= j
  <2>1. nth(S, 1) \in Nat /\ \A j \in S : j \in Nat
    BY <1>3
  <2> QED  BY <1>4, <2>1
<1> QED  BY <1>3, <1>5

(* Dropping repeats loses no name, leaves each once, and leaves rows that  *)
(* never repeated as they are (BreachCatalogProvider.utils.ts:82-96).      *)
THEOREM RepeatsDropped ==
    ASSUME NEW items \in Seq(Names)
    PROVE  /\ withoutRepeats(items) \in Seq(Names)
           /\ IsInjective(withoutRepeats(items))
           /\ Range(withoutRepeats(items)) = Range(items)
           /\ IsInjective(items) => withoutRepeats(items) = items
           /\ items # <<>> => withoutRepeats(items) # <<>>
<1> DEFINE D == {i \in DOMAIN items : \A j \in 1..(i - 1) : items[j] # items[i]}
<1>1. DOMAIN items = 1..Len(items) /\ Len(items) \in Nat
  OBVIOUS
<1>2. D \in SUBSET (DOMAIN items) /\ withoutRepeats(items) = EntriesAt(items, D)
  BY DEF withoutRepeats
<1>3. ASSUME NEW i \in D, NEW j \in D, items[i] = items[j]
      PROVE  i = j
  <2>1. i \in Nat /\ j \in Nat /\ i >= 1 /\ j >= 1
    BY <1>1
  <2>2. ~ (i < j) /\ ~ (j < i)
    BY <1>3, <2>1
  <2> QED  BY <2>1, <2>2
<1>4. ASSUME NEW x \in DOMAIN items
      PROVE  \E i \in D : items[i] = items[x]
  <2> DEFINE T == {j \in DOMAIN items : items[j] = items[x]}
  <2>0. IsFiniteSet(1..Len(items))
    BY <1>1, FS_Interval
  <2>1. x \in T /\ T \in SUBSET (1..Len(items)) /\ T \in SUBSET Nat /\ T # {}
    BY <1>1
  <2>2. IsFiniteSet(T)
    BY <2>0, <2>1, FS_Subset
  <2>3. PICK i \in T : \A j \in T : i <= j
    <3> HIDE DEF T
    <3> QED  BY <2>1, <2>2, HasFirst
  <2>4. \A j \in 1..(i - 1) : items[j] # items[i]
    BY <1>1, <2>3
  <2> QED  BY <2>3, <2>4
<1>5. Range(items) = {items[i] : i \in D}
  BY <1>4 DEF Range
<1> HIDE DEF D
<1>6. /\ withoutRepeats(items) \in Seq(Names)
      /\ IsInjective(withoutRepeats(items))
      /\ Range(withoutRepeats(items)) = Range(items)
  BY <1>2, <1>3, <1>5, Entries
<1>7. ASSUME IsInjective(items)
      PROVE  withoutRepeats(items) = items
  <2>1. D = DOMAIN items
    BY <1>1, <1>7 DEF IsInjective, D
  <2> QED  BY <1>2, <2>1, AllEntries
<1>8. ASSUME items # <<>>
      PROVE  withoutRepeats(items) # <<>>
  <2>1. Range(items) # {}
    <3>1. Len(items) # 0
      BY <1>8, EmptySeq
    <3>2. 1 \in DOMAIN items
      BY <1>1, <3>1
    <3> QED  BY <3>2 DEF Range
  <2>2. Range(<<>>) = {}
    BY DEF Range
  <2> QED  BY <1>6, <2>1, <2>2
<1> QED  BY <1>6, <1>7, <1>8

(* The rows a selection lists are its servable names, each once.           *)
LEMMA ListedOnce ==
    ASSUME NEW f \in Selections
    PROVE  /\ Listed(f) \in Seq(Names) /\ Len(Listed(f)) \in Nat
           /\ IsInjective(Listed(f))
           /\ Range(Listed(f)) \subseteq Range(Listing[f])
<1> DEFINE S == {i \in DOMAIN Listing[f] : Listing[f][i] \in servable_names(rows)}
<1>1. Listing[f] \in Seq(Names) /\ IsInjective(Listing[f])
  BY ListingAssumption
<1>2. S \in SUBSET (DOMAIN Listing[f]) /\ Listed(f) = EntriesAt(Listing[f], S)
  BY DEF Listed
<1> HIDE DEF S
<1>3. \A i, j \in S : Listing[f][i] = Listing[f][j] => i = j
  BY <1>1, <1>2 DEF IsInjective
<1>4. /\ Listed(f) \in Seq(Names) /\ IsInjective(Listed(f))
      /\ Range(Listed(f)) = {Listing[f][i] : i \in S}
  BY <1>1, <1>2, <1>3, Entries
<1>5. Range(Listed(f)) \subseteq Range(Listing[f])
  BY <1>2, <1>4 DEF Range
<1> QED  BY <1>4, <1>5

(* Paging: the first p pages of an order, and what page p + 1 adds.        *)
FirstPages(s, p) == SubSeq(s, 1, IF p * Limit < Len(s) THEN p * Limit ELSE Len(s))

LEMMA PageBounds ==
    ASSUME NEW p \in Nat
    PROVE  /\ p * Limit \in Nat
           /\ (p + 1) * Limit = p * Limit + Limit
           /\ Limit \in Nat /\ Limit >= 1
<1>1. Limit \in Nat /\ Limit >= 1
  BY ListingAssumption
<1> QED  BY <1>1, SMT

(* A part of a sequence that repeats nothing repeats nothing.              *)
LEMMA PartOfSequence ==
    ASSUME NEW s \in Seq(Names), NEW m \in Nat, m >= 1, NEW n \in Nat, n <= Len(s)
    PROVE  /\ SubSeq(s, m, n) \in Seq(Names)
           /\ Len(SubSeq(s, m, n)) = IF m <= n THEN n - m + 1 ELSE 0
           /\ \A i \in 1..(n - m + 1) : SubSeq(s, m, n)[i] = s[m + i - 1]
           /\ Range(SubSeq(s, m, n)) \subseteq Range(s)
           /\ IsInjective(s) => IsInjective(SubSeq(s, m, n))
<1> DEFINE t == SubSeq(s, m, n)
<1>1. \A i \in m..n : s[i] \in Names
  OBVIOUS
<1>2. /\ t \in Seq(Names) /\ Len(t) = IF m <= n THEN n - m + 1 ELSE 0
      /\ \A i \in 1..(n - m + 1) : t[i] = s[m + i - 1]
  BY <1>1, SubSeqProperties
<1> HIDE DEF t
<1>3. DOMAIN t = 1..Len(t) /\ DOMAIN s = 1..Len(s) /\ Len(s) \in Nat
  BY <1>2
<1>4. \A i \in DOMAIN t : i \in 1..(n - m + 1) /\ m + i - 1 \in DOMAIN s /\ t[i] = s[m + i - 1]
  BY <1>2, <1>3
<1>5. Range(t) \subseteq Range(s)
  BY <1>4 DEF Range
<1>6. IsInjective(s) => IsInjective(t)
  <2> SUFFICES ASSUME IsInjective(s), NEW i \in DOMAIN t, NEW j \in DOMAIN t, t[i] = t[j]
               PROVE  i = j
    BY DEF IsInjective
  <2>1. m + i - 1 = m + j - 1
    BY <1>4 DEF IsInjective
  <2> QED  BY <1>3, <2>1, <1>2
<1> QED  BY <1>2, <1>5, <1>6 DEF t

(* A row on screen is the first copy of its name: joining a page below     *)
(* moves none of them.                                                     *)
LEMMA FirstCopiesStay ==
    ASSUME NEW s \in Seq(Names), NEW t \in Seq(Names), IsInjective(s)
    PROVE  IsPrefix(s, withoutRepeats(s \o t))
<1> DEFINE u == s \o t
           n == Len(s)
           D == {i \in DOMAIN u : \A j \in 1..(i - 1) : u[j] # u[i]}
           w == withoutRepeats(u)
<1>1. /\ u \in Seq(Names) /\ Len(u) = n + Len(t) /\ n \in Nat /\ Len(t) \in Nat
      /\ \A i \in 1..n : u[i] = s[i]
  <2>1. \A i \in 1..(Len(s) + Len(t)) : u[i] = IF i <= Len(s) THEN s[i] ELSE t[i - Len(s)]
    BY ConcatProperties
  <2>2. Len(s) \in Nat /\ Len(t) \in Nat
    OBVIOUS
  <2>3. \A i \in 1..n : i \in 1..(Len(s) + Len(t)) /\ i <= Len(s)
    BY <2>2
  <2> QED  BY <2>1, <2>2, <2>3, ConcatProperties
<1> HIDE DEF u
<1>2. /\ DOMAIN u = 1..Len(u) /\ DOMAIN s = 1..n
      /\ D \in SUBSET (DOMAIN u) /\ D \in SUBSET Nat /\ IsFiniteSet(D)
      /\ w = EntriesAt(u, D) /\ w \in Seq(Names) /\ Len(w) = Cardinality(D)
      /\ Cardinality(D) \in Nat
  <2>1. DOMAIN u = 1..Len(u) /\ DOMAIN s = 1..n
    BY <1>1
  <2>2. D \in SUBSET (DOMAIN u) /\ w = EntriesAt(u, D)
    BY DEF withoutRepeats
  <2> HIDE DEF D, w
  <2> QED  BY <1>1, <2>1, <2>2, Entries
<1>3. \A i \in 1..n : i \in D
  <2> SUFFICES ASSUME NEW i \in 1..n PROVE i \in D
    OBVIOUS
  <2>1. i \in DOMAIN u /\ i \in DOMAIN s /\ i \in Nat
    BY <1>1, <1>2
  <2>2. ASSUME NEW j \in 1..(i - 1)
        PROVE  u[j] # u[i]
    <3>1. j \in 1..n /\ j # i
      BY <1>1, <2>1
    <3> QED  BY <1>1, <1>2, <2>1, <3>1 DEF IsInjective
  <2> QED  BY <2>1, <2>2
<1> HIDE DEF D
<1>4. ASSUME NEW k \in 1..n
      PROVE  nth(D, k) = k /\ k \in 1..Cardinality(D)
  <2>0. k \in Nat /\ k \in D /\ \A j \in D : j \in Nat /\ j >= 1
    BY <1>1, <1>2, <1>3
  <2>1. {j \in D : j <= k} = 1..k
    <3>1. \A j \in 1..k : j \in 1..n
      BY <1>1, <2>0
    <3>2. ASSUME NEW j \in D, j <= k
          PROVE  j \in 1..k
      BY <2>0, <3>2
    <3>3. ASSUME NEW j \in 1..k
          PROVE  j \in D /\ j <= k
      BY <1>3, <2>0, <3>1
    <3> QED  BY <3>2, <3>3
  <2>2. rank(D, k) = k
    <3>1. Cardinality(1..k) = k
      BY <2>0, FS_Interval
    <3> QED  BY <2>1, <3>1 DEF rank
  <2>3. nth(D, rank(D, k)) = k /\ rank(D, k) \in 1..Cardinality(D)
    BY <1>2, <2>0, NthOfRank, Ranked
  <2> QED  BY <2>2, <2>3
<1>5. \A k \in 1..n : w[k] = s[k]
  BY <1>1, <1>2, <1>4 DEF EntriesAt
<1> HIDE DEF w
<1>6. n <= Len(w)
  <2>1. CASE n = 0
    BY <1>2, <2>1
  <2>2. CASE n # 0
    <3>1. n \in 1..n
      BY <1>1, <2>2
    <3>2. n \in 1..Cardinality(D)
      BY <1>4, <3>1
    <3> QED  BY <1>1, <1>2, <3>2
  <2> QED  BY <2>1, <2>2
<1>7. /\ SubSeq(w, 1, n) \in Seq(Names) /\ Len(SubSeq(w, 1, n)) = n
      /\ \A i \in 1..n : SubSeq(w, 1, n)[i] = w[i]
  BY <1>1, <1>2, <1>6, PartOfSequence
<1>8. SubSeq(w, 1, n) = s
  BY <1>1, <1>2, <1>5, <1>7, SeqEqual
<1>9. SubSeq(s, 1, n) = s
  BY SubSeqFull
<1> QED  BY <1>6, <1>8, <1>9 DEF IsPrefix, w, u

LEMMA PageIsPart ==
    ASSUME NEW s \in Seq(Names), NEW p \in Nat \ {0}
    PROVE  /\ PageOf(s, p) \in Seq(Names)
           /\ Range(PageOf(s, p)) \subseteq Range(s)
           /\ IsInjective(s) => IsInjective(PageOf(s, p))
<1> DEFINE first == (p - 1) * Limit + 1
           last == IF p * Limit < Len(s) THEN p * Limit ELSE Len(s)
<1>1. PageOf(s, p) = IF first > last THEN <<>> ELSE SubSeq(s, first, last)
  BY DEF PageOf
<1>2. first \in Nat /\ first >= 1
  <2>1. p - 1 \in Nat
    OBVIOUS
  <2>2. (p - 1) * Limit \in Nat
    BY <2>1, PageBounds, Zenon
  <2> DEFINE x == (p - 1) * Limit
  <2> HIDE DEF x
  <2>3. x \in Nat => x + 1 \in Nat /\ x + 1 >= 1
    OBVIOUS
  <2> QED  BY <2>2, <2>3 DEF x
<1>3. last \in Nat /\ last <= Len(s)
  <2>1. p * Limit \in Nat
    BY PageBounds, Zenon
  <2> DEFINE x == p * Limit
  <2> HIDE DEF x
  <2>2. Len(s) \in Nat /\ x \in Nat
    BY <2>1 DEF x
  <2>3. (IF x < Len(s) THEN x ELSE Len(s)) \in Nat /\ (IF x < Len(s) THEN x ELSE Len(s)) <= Len(s)
    BY <2>2
  <2> QED  BY <2>3 DEF x
<1> HIDE DEF first, last
<1>4. CASE first > last
  BY <1>1, <1>4 DEF Range, IsInjective
<1>5. CASE ~ (first > last)
  BY <1>1, <1>2, <1>3, <1>5, PartOfSequence
<1> QED  BY <1>4, <1>5

(* The pages of a catalog that stands still follow on from each other: the *)
(* first page is the first rows, and each later one continues them.        *)
THEOREM PagesContinue ==
    ASSUME NEW s \in Seq(Names), NEW p \in Nat
    PROVE  /\ FirstPages(s, 1) = PageOf(s, 1)
           /\ FirstPages(s, p) \o PageOf(s, p + 1) = FirstPages(s, p + 1)
           /\ IsPrefix(FirstPages(s, p), s)
           /\ Len(FirstPages(s, p)) >= Len(s) => FirstPages(s, p) = s
           /\ FirstPages(s, p) \in Seq(Names)
           /\ IsInjective(s) => IsInjective(FirstPages(s, p))
<1> DEFINE a == p * Limit
           b == (p + 1) * Limit
           n == Len(s)
           lo == IF a < n THEN a ELSE n
           hi == IF b < n THEN b ELSE n
<1>1. a \in Nat /\ b = a + Limit /\ Limit \in Nat /\ Limit >= 1 /\ n \in Nat
  <2>1. a \in Nat /\ b = a + Limit /\ Limit \in Nat /\ Limit >= 1
    BY PageBounds, Zenon
  <2> QED  BY <2>1
<1>2. FirstPages(s, p) = SubSeq(s, 1, lo) /\ FirstPages(s, p + 1) = SubSeq(s, 1, hi)
  BY DEF FirstPages
<1>3. PageOf(s, p + 1) = IF a + 1 > hi THEN <<>> ELSE SubSeq(s, a + 1, hi)
  <2>1. (p + 1) - 1 = p
    OBVIOUS
  <2> QED  BY <2>1 DEF PageOf
<1>4. FirstPages(s, 1) = PageOf(s, 1)
  <2>1. 1 * Limit = Limit /\ (1 - 1) * Limit = 0
    BY <1>1
  <2>2. CASE n = 0
    <3>1. FirstPages(s, 1) = SubSeq(s, 1, 0)
      BY <1>1, <2>1, <2>2 DEF FirstPages
    <3>2. PageOf(s, 1) = <<>>
      BY <1>1, <2>1, <2>2 DEF PageOf
    <3> QED  BY <3>1, <3>2, SubSeqEmpty
  <2>3. CASE n # 0
    <3> DEFINE end == IF Limit < n THEN Limit ELSE n
    <3>1. FirstPages(s, 1) = SubSeq(s, 1, end)
      BY <2>1 DEF FirstPages
    <3>2. PageOf(s, 1) = IF 1 > end THEN <<>> ELSE SubSeq(s, 1, end)
      BY <2>1 DEF PageOf
    <3>3. ~ (1 > end)
      BY <1>1, <2>3
    <3> HIDE DEF end
    <3> QED  BY <3>1, <3>2, <3>3
  <2> QED  BY <2>2, <2>3
<1> HIDE DEF a, b, n
<1>5. lo \in 0..n /\ hi \in 0..n /\ lo <= hi
  BY <1>1
<1>6. /\ SubSeq(s, 1, lo) \in Seq(Names) /\ Len(SubSeq(s, 1, lo)) = lo
      /\ \A i \in 1..lo : SubSeq(s, 1, lo)[i] = s[i]
      /\ IsInjective(s) => IsInjective(SubSeq(s, 1, lo))
  BY <1>1, <1>5, PartOfSequence DEF n
<1>7. /\ SubSeq(s, 1, hi) \in Seq(Names) /\ Len(SubSeq(s, 1, hi)) = hi
      /\ \A i \in 1..hi : SubSeq(s, 1, hi)[i] = s[i]
  BY <1>1, <1>5, PartOfSequence DEF n
<1>8. FirstPages(s, p) \o PageOf(s, p + 1) = FirstPages(s, p + 1)
  <2>1. CASE a + 1 > hi
    <3>1. lo = hi
      BY <1>1, <2>1
    <3> QED  BY <1>2, <1>3, <1>6, <2>1, <3>1, ConcatEmptySeq
  <2>2. CASE ~ (a + 1 > hi)
    <3>1. lo = a /\ a + 1 \in Nat /\ a + 1 >= 1 /\ hi \in Nat /\ hi <= n
      BY <1>1, <1>5, <2>2
    <3> DEFINE page == SubSeq(s, a + 1, hi)
    <3>2. /\ page \in Seq(Names) /\ Len(page) = hi - a
          /\ \A i \in 1..(hi - a) : page[i] = s[a + i]
      <4>1. /\ page \in Seq(Names)
            /\ Len(page) = IF a + 1 <= hi THEN hi - (a + 1) + 1 ELSE 0
            /\ \A i \in 1..(hi - (a + 1) + 1) : page[i] = s[(a + 1) + i - 1]
        BY <3>1, PartOfSequence DEF n
      <4>2. hi - (a + 1) + 1 = hi - a /\ \A i \in 1..(hi - a) : (a + 1) + i - 1 = a + i
        BY <1>1, <3>1
      <4> QED  BY <2>2, <3>1, <4>1, <4>2, <1>1
    <3> HIDE DEF page, lo, hi
    <3> DEFINE first == SubSeq(s, 1, lo)
               both == first \o page
    <3>3. /\ both \in Seq(Names) /\ Len(both) = Len(first) + Len(page)
          /\ \A i \in 1..(Len(first) + Len(page)) :
                both[i] = IF i <= Len(first) THEN first[i] ELSE page[i - Len(first)]
      BY <1>6, <3>2, ConcatProperties
    <3>4. Len(both) = hi
      BY <1>1, <1>6, <3>1, <3>2, <3>3
    <3>5. ASSUME NEW i \in 1..hi
          PROVE  both[i] = s[i]
      <4>1. CASE i <= lo
        BY <1>1, <1>5, <1>6, <3>1, <3>2, <3>3, <4>1
      <4>2. CASE i > lo
        <5>1. both[i] = page[i - a] /\ i - a \in 1..(hi - a) /\ a + (i - a) = i
          BY <1>1, <1>5, <1>6, <3>1, <3>2, <3>3, <4>2
        <5> QED  BY <3>2, <5>1
      <4>3. i \in Nat /\ lo \in Nat
        BY <1>1, <3>1
      <4>4. i <= lo \/ i > lo
        BY <4>3
      <4> QED  BY <4>1, <4>2, <4>4, Zenon
    <3>6. both = SubSeq(s, 1, hi)
      BY <1>7, <3>3, <3>4, <3>5, SeqEqual
    <3> QED  BY <1>2, <1>3, <2>2, <3>6 DEF page
  <2> QED  BY <2>1, <2>2
<1>9. IsPrefix(FirstPages(s, p), s)
  <2>1. SubSeq(SubSeq(s, 1, lo), 1, lo) = SubSeq(s, 1, lo)
    BY <1>6, SubSeqFull
  <2> QED  BY <1>2, <1>5, <1>6, <2>1, <1>1 DEF IsPrefix, n
<1>10. Len(FirstPages(s, p)) >= Len(s) => FirstPages(s, p) = s
  BY <1>1, <1>2, <1>5, <1>6, SubSeqFull DEF n
<1> QED  BY <1>2, <1>4, <1>6, <1>8, <1>9, <1>10

-----------------------------------------------------------------------------
(* The list: its inductive invariant.                                      *)

(* Only the request in force is on the wire, once, and the list and the    *)
(* tiles wait for it: a later page waits over the rows before it.          *)
AskInv ==
    /\ ~ request.isEnabled => /\ request.page = FIRST_PAGE /\ list = Bare("idle")
                              /\ summary.status = "idle" /\ wire = {} /\ summaryWire = {}
    /\ request.isEnabled => list.status # "idle" /\ summary.status # "idle"
    /\ ~ hasItems(list) => list = Bare(list.status)
    /\ \A w \in wire : w.request = request /\ \A v \in wire : v = w
    /\ wire # {} => IF isFirstPage(request) THEN list.status = "loading"
                    ELSE list.status = "loadingMore" /\ list.items # <<>>
    /\ summaryWire # {} => summary.status = "loading"
    /\ summaryWire \subseteq {request.attempt}

(* Rows, on screen or on their way, answer their selection, each once.     *)
RowsInv ==
    /\ IsInjective(list.items) /\ Range(list.items) \subseteq Range(Listing[request.filters])
    /\ \A w \in wire : /\ IsInjective(w.items)
                       /\ Range(w.items) \subseteq Range(Listing[w.request.filters])

(* What a request has read is the catalog of its epoch: as long as no      *)
(* refresh has landed since, its total and its page are today's, and only  *)
(* an empty selection goes on to ask whether anything is held.             *)
AnswerInv ==
    \A w \in wire : w.stage # "count" =>
        /\ w.epoch <= refreshes
        /\ ~ isFirstPage(w.request) => list.epoch <= w.epoch
        /\ w.epoch = refreshes =>
             /\ w.total = Len(Listed(w.request.filters))
             /\ w.stage # "page" => w.items = PageOf(Listed(w.request.filters), w.request.page)
             /\ w.stage \in {"exists", "unavailable"} => w.total = 0

(* The hypothesis of NoGaps: rows of the catalog as it still is, and every *)
(* later page has come.                                                    *)
Standing == hasItems(list) /\ list.epoch = refreshes /\ laterFailures = 0

(* Then the rows are exactly the pages asked for so far, and a page on its *)
(* way is the next one, which is not empty.                                *)
PrefixInv ==
    /\ hasItems(list) => list.epoch <= refreshes
    /\ Standing =>
         /\ list.page # 0
         /\ list.items = FirstPages(Listed(request.filters), list.page)
         /\ list.total = Len(Listed(request.filters))
         /\ list.status = "ready" => request.page = list.page
         /\ list.status = "loadingMore" => request.page = list.page + 1 /\ hasMorePages(list)

ListingInv == AskInv /\ RowsInv /\ AnswerInv /\ PrefixInv

-----------------------------------------------------------------------------
(* What each group of steps does to the list, in the terms of the proof.   *)

(* The four ways to ask: the first page over nothing, or the next page     *)
(* over rows; either way every older request is gone.                      *)
Asks == Load \/ Retry \/ LoadMore \/ \E f \in Selections : SetFilters(f)

FirstPageAsked(req) == isFirstPage(req) /\ list' = Bare("loading")

NextPageAsked(req) ==
    /\ ~ isFirstPage(req) /\ list.status = "ready" /\ list.items # <<>> /\ hasMorePages(list)
    /\ req.filters = request.filters /\ req.page = request.page + 1
    /\ list' = [status |-> "loadingMore", items |-> list.items, total |-> list.total,
                page |-> list.page, epoch |-> list.epoch]

LEMMA AskedRequest ==
    ASSUME TypeOK, AskInv, Asks
    PROVE  /\ request' \in CatalogRequest /\ request'.isEnabled
           /\ wire' = {fetchBreaches(request')}
           /\ FirstPageAsked(request') \/ NextPageAsked(request')
           /\ summary'.status # "idle" /\ (summaryWire' # {} => summary'.status = "loading")
           /\ summary' \in [status : {"idle", "loading", "ready", "failed"}, names : SUBSET Names]
           /\ summaryWire' \subseteq {request'.attempt}
           /\ UNCHANGED <<rows, refreshes, failures, laterFailures>>
<1> USE DEF TypeOK
<1>1. /\ request \in CatalogRequest /\ list \in ListState /\ request.page \in Nat /\ request.page # 0
      /\ request.isEnabled \in BOOLEAN /\ request.attempt \in {0, 1} /\ request.filters \in Selections
      /\ request = [isEnabled |-> request.isEnabled, attempt |-> request.attempt,
                    filters |-> request.filters, page |-> request.page]
  BY DEF CatalogRequest
<1>2. ASSUME NEW req \in CatalogRequest, isFirstPage(req), ListEffect(req), req.isEnabled
      PROVE  /\ request' \in CatalogRequest /\ request'.isEnabled
             /\ wire' = {fetchBreaches(request')} /\ FirstPageAsked(request')
  BY <1>2 DEF ListEffect, AfterAbort, awaitPage, FirstPageAsked
<1>3. CASE Load
  <2> DEFINE req == [request EXCEPT !.isEnabled = TRUE]
  <2>1. req \in CatalogRequest /\ isFirstPage(req) /\ req.isEnabled
    BY <1>1, <1>3 DEF Load, AskInv, isFirstPage, CatalogRequest
  <2>2. ListEffect(req) /\ SummaryEffect(request)
        /\ UNCHANGED <<rows, refreshes, failures, laterFailures>>
    BY <1>3 DEF Load
  <2>3. req.attempt = request.attempt
    BY <1>1 DEF CatalogRequest
  <2> HIDE DEF req
  <2>4. summary' = [status |-> "loading", names |-> {}] /\ summaryWire' = {req.attempt}
    BY <2>2, <2>3 DEF SummaryEffect, AfterAbort
  <2>5. request' = req
    BY <2>2 DEF ListEffect
  <2> QED  BY <1>2, <2>1, <2>2, <2>4, <2>5
<1>4. CASE Retry
  <2> DEFINE req == retryRequest(request)
  <2>1. request.isEnabled
    BY <1>4 DEF Retry, hasCatalogFailed, AskInv, Bare
  <2>2. req \in CatalogRequest /\ isFirstPage(req) /\ req.isEnabled
    <3> DEFINE other == 1 - request.attempt
    <3>2. other \in {0, 1}
      BY <1>1
    <3>3. req = [request EXCEPT !.attempt = other, !.page = 1]
      BY DEF retryRequest, FIRST_PAGE
    <3> HIDE DEF other, req
    <3>1. req = [isEnabled |-> request.isEnabled, attempt |-> other,
                 filters |-> request.filters, page |-> 1]
      BY <1>1, <3>3
    <3> QED  BY <1>1, <2>1, <3>1, <3>2 DEF isFirstPage, FIRST_PAGE, CatalogRequest
  <2>3. ListEffect(req) /\ SummaryEffect(req)
        /\ UNCHANGED <<rows, refreshes, failures, laterFailures>>
    BY <1>4 DEF Retry
  <2> HIDE DEF req
  <2>4. summary' = [status |-> "loading", names |-> {}] /\ summaryWire' = {req.attempt}
    BY <2>3 DEF SummaryEffect, AfterAbort
  <2>5. request' = req
    BY <2>3 DEF ListEffect
  <2> QED  BY <1>2, <2>2, <2>3, <2>4, <2>5
<1>5. CASE LoadMore
  <2> DEFINE req == nextPage(request)
  <2>1. request.isEnabled /\ list.status = "ready" /\ list.items # <<>> /\ hasMorePages(list)
    BY <1>5 DEF LoadMore, AskInv, Bare
  <2>2. /\ req \in CatalogRequest /\ req.isEnabled /\ req.page = request.page + 1
        /\ req.filters = request.filters /\ ~ isFirstPage(req)
        /\ req.attempt = request.attempt
    BY <1>1, <2>1 DEF nextPage, isFirstPage, FIRST_PAGE, CatalogRequest
  <2>3. ListEffect(req) /\ UNCHANGED <<rows, summary, summaryWire, refreshes, failures, laterFailures>>
    BY <1>5 DEF LoadMore
  <2> HIDE DEF req
  <2>4. request' = req /\ wire' = {fetchBreaches(req)} /\ list' = [list EXCEPT !.status = "loadingMore"]
    BY <2>1, <2>2, <2>3 DEF ListEffect, AfterAbort, awaitPage, hasItems
  <2>5. list' = [status |-> "loadingMore", items |-> list.items, total |-> list.total,
                 page |-> list.page, epoch |-> list.epoch]
    BY <1>1, <2>4 DEF ListState
  <2>6. NextPageAsked(request')
    BY <2>1, <2>2, <2>4, <2>5 DEF NextPageAsked
  <2> QED  BY <2>1, <2>2, <2>3, <2>4, <2>6 DEF AskInv
<1>6. ASSUME NEW f \in Selections, SetFilters(f)
      PROVE  /\ request' \in CatalogRequest /\ request'.isEnabled
             /\ wire' = {fetchBreaches(request')} /\ FirstPageAsked(request')
             /\ request.isEnabled
             /\ request'.attempt = request.attempt
             /\ UNCHANGED <<rows, summary, summaryWire, refreshes, failures, laterFailures>>
  <2> DEFINE req == withFilters(request, f)
  <2>1. request.isEnabled /\ request.filters # f
    BY <1>6 DEF SetFilters, withFilters
  <2>2. req = [request EXCEPT !.filters = f, !.page = FIRST_PAGE]
    BY <2>1 DEF withFilters
  <2>3. req \in CatalogRequest /\ isFirstPage(req) /\ req.isEnabled /\ req.attempt = request.attempt
    <3>1. req = [isEnabled |-> request.isEnabled, attempt |-> request.attempt, filters |-> f,
                 page |-> 1]
      BY <1>1, <2>2 DEF FIRST_PAGE
    <3> HIDE DEF req
    <3> QED  BY <1>1, <2>1, <3>1 DEF isFirstPage, FIRST_PAGE, CatalogRequest
  <2>4. ListEffect(req) /\ UNCHANGED <<rows, summary, summaryWire, refreshes, failures, laterFailures>>
    BY <1>6 DEF SetFilters
  <2> HIDE DEF req
  <2>5. request' = req
    BY <2>4 DEF ListEffect
  <2> QED  BY <1>2, <2>1, <2>3, <2>4, <2>5
<1>7. CASE \E f \in Selections : SetFilters(f)
  BY <1>6, <1>7 DEF AskInv
<1> QED  BY <1>3, <1>4, <1>5, <1>7 DEF Asks

(* Two requests with the same fields are the same request; what an update *)
(* of one gives.                                                           *)
LEMMA SameFields ==
    ASSUME NEW x, NEW y, x = [i \in DOMAIN x |-> x[i]], y = [i \in DOMAIN y |-> y[i]],
           DOMAIN x = {"request", "stage", "total", "items", "epoch"}, DOMAIN y = DOMAIN x,
           x.request = y.request, x.stage = y.stage, x.total = y.total, x.items = y.items,
           x.epoch = y.epoch
    PROVE  x = y
<1>1. \A i \in DOMAIN x : x[i] = y[i]
  OBVIOUS
<1> QED  BY <1>1

LEMMA RequestPaged ==
    ASSUME NEW w \in ListRequest, NEW stage, NEW items
    PROVE  [w EXCEPT !.stage = stage, !.items = items] =
             [request |-> w.request, stage |-> stage, total |-> w.total, items |-> items,
              epoch |-> w.epoch]
<1> DEFINE x == [w EXCEPT !.stage = stage, !.items = items]
           y == [request |-> w.request, stage |-> stage, total |-> w.total, items |-> items,
                 epoch |-> w.epoch]
<1>1. w = [request |-> w.request, stage |-> w.stage, total |-> w.total, items |-> w.items,
          epoch |-> w.epoch]
  BY DEF ListRequest
<1>2. /\ x = [i \in DOMAIN x |-> x[i]] /\ y = [i \in DOMAIN y |-> y[i]]
      /\ DOMAIN x = {"request", "stage", "total", "items", "epoch"} /\ DOMAIN y = DOMAIN x
      /\ x.request = y.request /\ x.stage = y.stage /\ x.total = y.total
      /\ x.items = y.items /\ x.epoch = y.epoch
  BY <1>1
<1> HIDE DEF x, y
<1>3. x = y
  BY <1>2, SameFields
<1> QED  BY <1>3 DEF x, y

(* One statement of the endpoint takes a request one stage on.             *)
Counted(w) ==
    [request |-> w.request, stage |-> "page", total |-> Len(Listed(w.request.filters)),
     items |-> w.items, epoch |-> refreshes]

Paged(w) ==
    [request |-> w.request, stage |-> IF w.total = 0 THEN "exists" ELSE "ok", total |-> w.total,
     items |-> PageOf(Listed(w.request.filters), w.request.page), epoch |-> w.epoch]

Refused(w, stage) ==
    [request |-> w.request, stage |-> stage, total |-> w.total, items |-> w.items,
     epoch |-> w.epoch]

Reads(w) == CountRows(w) \/ PageRows(w) \/ RefuseIfEmpty(w)

LEMMA RequestCounted ==
    ASSUME NEW w \in ListRequest
    PROVE  [w EXCEPT !.stage = "page", !.total = Len(Listed(w.request.filters)), !.epoch = refreshes]
             = Counted(w)
<1> DEFINE n == Len(Listed(w.request.filters))
           x == [w EXCEPT !.stage = "page", !.total = n, !.epoch = refreshes]
           y == Counted(w)
<1>1. w = [request |-> w.request, stage |-> w.stage, total |-> w.total, items |-> w.items,
          epoch |-> w.epoch]
  BY DEF ListRequest
<1>2. y = [request |-> w.request, stage |-> "page", total |-> n, items |-> w.items,
           epoch |-> refreshes]
  BY DEF Counted
<1> HIDE DEF y, n
<1>3. /\ x = [i \in DOMAIN x |-> x[i]] /\ y = [i \in DOMAIN y |-> y[i]]
      /\ DOMAIN x = {"request", "stage", "total", "items", "epoch"} /\ DOMAIN y = DOMAIN x
      /\ x.request = y.request /\ x.stage = y.stage /\ x.total = y.total
      /\ x.items = y.items /\ x.epoch = y.epoch
  BY <1>1, <1>2
<1> HIDE DEF x
<1>4. x = y
  BY <1>3, SameFields
<1> QED  BY <1>4 DEF x, y, n

LEMMA RequestAdvances ==
    ASSUME TypeOK, NEW w \in wire, Reads(w)
    PROVE  \E next :
             /\ wire' = (wire \ {w}) \cup {next}
             /\ \/ w.stage = "count" /\ next = Counted(w)
                \/ w.stage = "page" /\ next = Paged(w)
                \/ w.stage = "exists" /\ \E stage \in {"ok", "unavailable"} : next = Refused(w, stage)
             /\ next \in ListRequest /\ next.request = w.request
             /\ UNCHANGED <<rows, request, list, summary, summaryWire, refreshes, failures,
                            laterFailures>>
<1>1. /\ w \in ListRequest /\ w.request \in CatalogRequest /\ w.request.filters \in Selections
      /\ w.request.page \in Nat \ {0} /\ refreshes \in Nat
  BY DEF TypeOK, ListRequest, CatalogRequest
<1>2. Listed(w.request.filters) \in Seq(Names) /\ Len(Listed(w.request.filters)) \in Nat
  BY <1>1, ListedOnce
<1>3. PageOf(Listed(w.request.filters), w.request.page) \in Seq(Names)
  BY <1>1, <1>2, PageIsPart
<1>4. CASE CountRows(w)
  <2>1. wire' = (wire \ {w}) \cup {Counted(w)}
    BY <1>1, <1>4, RequestCounted DEF CountRows, Advance
  <2>2. Counted(w) \in ListRequest /\ Counted(w).request = w.request
    BY <1>1, <1>2 DEF Counted, ListRequest
  <2> QED  BY <1>4, <2>1, <2>2 DEF CountRows
<1>5. CASE PageRows(w)
  <2> DEFINE stage == IF w.total = 0 THEN "exists" ELSE "ok"
             page == PageOf(Listed(w.request.filters), w.request.page)
             next == [w EXCEPT !.stage = stage, !.items = page]
  <2>0. next = Paged(w)
    <3> HIDE DEF stage, page
    <3>1. next = [request |-> w.request, stage |-> stage, total |-> w.total, items |-> page,
                  epoch |-> w.epoch]
      BY <1>1, RequestPaged
    <3> QED  BY <3>1 DEF Paged, stage, page
  <2>1. wire' = (wire \ {w}) \cup {Paged(w)}
    BY <1>5, <2>0 DEF PageRows, Advance
  <2>2. Paged(w) \in ListRequest /\ Paged(w).request = w.request
    BY <1>1, <1>3 DEF Paged, ListRequest
  <2> QED  BY <1>5, <2>1, <2>2 DEF PageRows
<1>6. CASE RefuseIfEmpty(w)
  <2>1. PICK stage \in {"ok", "unavailable"} : wire' = (wire \ {w}) \cup {[w EXCEPT !.stage = stage]}
    BY <1>6 DEF RefuseIfEmpty, Advance
  <2>2. [w EXCEPT !.stage = stage] = Refused(w, stage)
    BY <1>1 DEF Refused, ListRequest
  <2>3. Refused(w, stage) \in ListRequest /\ Refused(w, stage).request = w.request
    BY <1>1 DEF Refused, ListRequest
  <2> QED  BY <1>6, <2>1, <2>2, <2>3 DEF RefuseIfEmpty
<1> QED  BY <1>4, <1>5, <1>6 DEF Reads

(* An answer or a lost request ends the wait.                              *)
Answered(w) == DeliverPage(w) \/ LosePage(w)

FirstPageCame(w) ==
    /\ isFirstPage(request) /\ w.stage = "ok"
    /\ list' = [status |-> "ready", items |-> w.items, total |-> w.total, page |-> request.page,
                epoch |-> w.epoch]

NextPageCame(w) ==
    /\ ~ isFirstPage(request) /\ w.stage = "ok" /\ list.status = "loadingMore"
    /\ list' = [status |-> "ready", items |-> withoutRepeats(list.items \o w.items),
                total |-> w.total, page |-> request.page, epoch |-> list.epoch]
    /\ laterFailures' = laterFailures

FirstPageFailed == isFirstPage(request) /\ list' = Bare("failed")

NextPageFailed(w) ==
    /\ ~ isFirstPage(request) /\ list.status = "loadingMore"
    /\ list' = [status |-> "ready", items |-> list.items, total |-> list.total,
                page |-> list.page, epoch |-> list.epoch]
    /\ \/ laterFailures' = laterFailures + 1
       \/ w.stage = "unavailable" /\ laterFailures' = laterFailures

LEMMA WaitEnds ==
    ASSUME TypeOK, AskInv, NEW w \in wire, Answered(w)
    PROVE  /\ wire' = {} /\ w.request = request /\ w \in ListRequest /\ request.isEnabled
           /\ FirstPageCame(w) \/ NextPageCame(w) \/ FirstPageFailed \/ NextPageFailed(w)
           /\ failures' \in Nat /\ laterFailures' \in Nat
           /\ UNCHANGED <<rows, request, summary, summaryWire, refreshes>>
<1>1. /\ w.request = request /\ w \in ListRequest /\ request.isEnabled /\ \A v \in wire : v = w
      /\ failures \in Nat /\ laterFailures \in Nat /\ list \in ListState
      /\ ~ isFirstPage(request) => list.status = "loadingMore"
  BY DEF AskInv, TypeOK
<1>2. wire' = {} /\ UNCHANGED <<rows, request, summary, summaryWire, refreshes>>
      /\ failures' \in Nat /\ laterFailures' \in Nat
  BY <1>1 DEF Answered, DeliverPage, LosePage
<1>3. CASE DeliverPage(w) /\ w.stage = "ok"
  <2>1. list' = receivePage(list, pageFromDTO(w), request) /\ laterFailures' = laterFailures
    BY <1>1, <1>3 DEF DeliverPage
  <2>2. FirstPageCame(w) \/ NextPageCame(w)
    BY <1>1, <1>3, <2>1
    DEF receivePage, pageFromDTO, hasItems, FirstPageCame, NextPageCame
  <2> QED  BY <1>1, <1>2, <2>2
<1>4. ASSUME list' = failPage(list, request)
      PROVE  \/ FirstPageFailed
             \/ /\ ~ isFirstPage(request) /\ list.status = "loadingMore"
                /\ list' = [status |-> "ready", items |-> list.items, total |-> list.total,
                            page |-> list.page, epoch |-> list.epoch]
  BY <1>1, <1>4 DEF failPage, hasItems, FirstPageFailed, ListState
<1>5. CASE DeliverPage(w) /\ w.stage # "ok"
  <2>1. list' = failPage(list, request) /\ laterFailures' = laterFailures /\ w.stage = "unavailable"
    BY <1>1, <1>5 DEF DeliverPage
  <2>2. FirstPageFailed \/ NextPageFailed(w)
    BY <1>4, <2>1 DEF NextPageFailed
  <2> QED  BY <1>1, <1>2, <2>2
<1>6. CASE LosePage(w)
  <2>1. /\ list' = failPage(list, request)
        /\ ~ isFirstPage(request) => laterFailures' = laterFailures + 1
    BY <1>1, <1>6 DEF LosePage
  <2>2. FirstPageFailed \/ NextPageFailed(w)
    BY <1>4, <2>1 DEF NextPageFailed
  <2> QED  BY <1>1, <1>2, <2>2
<1> QED  BY <1>3, <1>5, <1>6 DEF Answered

(* The tiles' half touches nothing of the list.                            *)
SummaryAnswered == \E s \in summaryWire : DeliverSummary(s) \/ LoseSummary(s)

LEMMA SummaryWaitEnds ==
    ASSUME TypeOK, AskInv, SummaryAnswered
    PROVE  /\ summary.status = "loading" /\ summary'.status \in {"ready", "failed"}
           /\ summary' \in [status : {"idle", "loading", "ready", "failed"}, names : SUBSET Names]
           /\ summaryWire' = {} /\ request.isEnabled
           /\ failures' \in Nat
           /\ UNCHANGED <<rows, request, list, wire, refreshes, laterFailures>>
<1>1. PICK s \in summaryWire : DeliverSummary(s) \/ LoseSummary(s)
  BY DEF SummaryAnswered
<1>2. /\ summary.status = "loading" /\ request.isEnabled /\ summaryWire = {s} /\ failures \in Nat
      /\ servable_names(rows) \subseteq Names
  BY <1>1 DEF AskInv, TypeOK, StoreTypeOK, servable_names
<1>3. summaryWire' = {} /\ failures' \in Nat
      /\ UNCHANGED <<rows, request, list, wire, refreshes, laterFailures>>
  BY <1>1, <1>2 DEF DeliverSummary, LoseSummary
<1>4. \/ summary' = [status |-> "failed", names |-> {}]
      \/ summary' = [status |-> "ready", names |-> servable_names(rows)]
  BY <1>1 DEF DeliverSummary, LoseSummary, summaryFromDTO
<1> QED  BY <1>2, <1>3, <1>4

LEMMA EveryStep ==
    ASSUME [Next]_vars
    PROVE  \/ Asks \/ (\E w \in wire : Reads(w)) \/ (\E w \in wire : Answered(w))
           \/ SummaryAnswered \/ Refreshed \/ UNCHANGED vars
  BY DEF Next, Serve, ServeSummary, Asks, Reads, Answered, SummaryAnswered

-----------------------------------------------------------------------------
(* The invariants, step by step.                                           *)

LEMMA ListingInit == Init => TypeOK /\ ListingInv
<1> SUFFICES ASSUME Init PROVE TypeOK /\ ListingInv
  OBVIOUS
<1>1. list = Bare("idle") /\ Bare("idle") \in ListState /\ request.filters = NoFilters
      /\ request \in CatalogRequest /\ Bare("idle").items = <<>>
  BY ListingAssumption DEF Init, Bare, ListState, ListStatus, CatalogRequest, FIRST_PAGE
<1>2. TypeOK
  BY <1>1 DEF Init, TypeOK, StoreInit, StoreTypeOK
<1>3. AskInv
  <2>1. list.status = "idle" /\ list = Bare(list.status)
    BY <1>1 DEF Bare
  <2> QED  BY <1>1, <2>1 DEF Init, AskInv, hasItems
<1>4. RowsInv
  BY <1>1 DEF Init, RowsInv, Range, IsInjective
<1>5. AnswerInv
  BY DEF Init, AnswerInv
<1>6. PrefixInv
  BY <1>1 DEF PrefixInv, Standing, hasItems, Bare
<1> QED  BY <1>2, <1>3, <1>4, <1>5, <1>6 DEF ListingInv

LEMMA ListingTypes ==
    ASSUME TypeOK, AskInv, [Next]_vars
    PROVE  TypeOK'
<1>1. CASE Asks
  <2>1. /\ request' \in CatalogRequest /\ wire' = {fetchBreaches(request')}
        /\ FirstPageAsked(request') \/ NextPageAsked(request')
        /\ summary' \in [status : {"idle", "loading", "ready", "failed"}, names : SUBSET Names]
        /\ summaryWire' \subseteq {request'.attempt}
        /\ UNCHANGED <<rows, refreshes, failures, laterFailures>>
    BY <1>1, AskedRequest
  <2>2. fetchBreaches(request') \in ListRequest
    BY <2>1 DEF fetchBreaches, ListRequest
  <2>3. list' \in ListState
    <3>1. Bare("loading") \in ListState
      BY DEF Bare, ListState, ListStatus
    <3>2. CASE NextPageAsked(request')
      BY <3>2 DEF NextPageAsked, ListState, ListStatus, TypeOK
    <3> QED  BY <2>1, <3>1, <3>2 DEF FirstPageAsked
  <2>4. summaryWire' \subseteq {0, 1}
    BY <2>1 DEF CatalogRequest
  <2> QED  BY <2>1, <2>2, <2>3, <2>4 DEF TypeOK, StoreTypeOK
<1>2. ASSUME NEW w \in wire, Reads(w)
      PROVE  TypeOK'
  <2>1. PICK next : /\ wire' = (wire \ {w}) \cup {next} /\ next \in ListRequest
                    /\ UNCHANGED <<rows, request, list, summary, summaryWire, refreshes, failures,
                                   laterFailures>>
    BY <1>2, RequestAdvances
  <2> QED  BY <2>1 DEF TypeOK, StoreTypeOK
<1>3. ASSUME NEW w \in wire, Answered(w)
      PROVE  TypeOK'
  <2>1. /\ wire' = {} /\ w.request = request /\ w \in ListRequest
        /\ FirstPageCame(w) \/ NextPageCame(w) \/ FirstPageFailed \/ NextPageFailed(w)
        /\ failures' \in Nat /\ laterFailures' \in Nat
        /\ UNCHANGED <<rows, request, summary, summaryWire, refreshes>>
    BY <1>3, WaitEnds
  <2>2. /\ list \in ListState /\ list.items \in Seq(Names) /\ list.total \in Nat
        /\ list.page \in Nat /\ list.epoch \in Nat /\ request.page \in Nat
        /\ w.items \in Seq(Names) /\ w.total \in Nat /\ w.epoch \in Nat
    BY <2>1 DEF TypeOK, ListState, ListRequest, CatalogRequest
  <2>3. withoutRepeats(list.items \o w.items) \in Seq(Names)
    BY <2>2, ConcatProperties, RepeatsDropped
  <2>4. list' \in ListState
    <3> DEFINE joined == withoutRepeats(list.items \o w.items)
    <3>1. CASE FirstPageCame(w)
      BY <2>2, <3>1 DEF FirstPageCame, ListState, ListStatus
    <3>2. CASE NextPageCame(w)
      <4>1. list' = [status |-> "ready", items |-> joined, total |-> w.total,
                     page |-> request.page, epoch |-> list.epoch]
        BY <3>2 DEF NextPageCame
      <4> HIDE DEF joined
      <4>2. joined \in Seq(Names)
        BY <2>3 DEF joined
      <4> QED  BY <2>2, <4>1, <4>2 DEF ListState, ListStatus
    <3>3. CASE FirstPageFailed
      BY <3>3 DEF FirstPageFailed, Bare, ListState, ListStatus
    <3>4. CASE NextPageFailed(w)
      BY <2>2, <3>4 DEF NextPageFailed, ListState, ListStatus
    <3> QED  BY <2>1, <3>1, <3>2, <3>3, <3>4
  <2> QED  BY <2>1, <2>4 DEF TypeOK, StoreTypeOK
<1>4. CASE SummaryAnswered
  <2>1. /\ summary' \in [status : {"idle", "loading", "ready", "failed"}, names : SUBSET Names]
        /\ summaryWire' = {} /\ failures' \in Nat
        /\ UNCHANGED <<rows, request, list, wire, refreshes, laterFailures>>
    BY <1>4, SummaryWaitEnds
  <2> QED  BY <2>1 DEF TypeOK, StoreTypeOK
<1>5. CASE Refreshed
  <2>1. PICK breaches \in Payloads, now \in Times : rows' = upsert_many(rows, breaches, now)
    BY <1>5 DEF Refreshed, StoreNext, Store
  <2>2. now \in Nat
    BY StoreAssumption
  <2>3. StoreTypeOK'
    BY <2>1, <2>2, UpsertType DEF TypeOK, StoreTypeOK
  <2> QED  BY <1>5, <2>3 DEF Refreshed, TypeOK
<1>6. CASE UNCHANGED vars
  BY <1>6 DEF vars, TypeOK, StoreTypeOK
<1> QED  BY <1>1, <1>2, <1>3, <1>4, <1>5, <1>6, EveryStep

LEMMA AskStep ==
    ASSUME TypeOK, AskInv, [Next]_vars
    PROVE  AskInv'
<1>1. CASE Asks
  <2>1. /\ request'.isEnabled /\ wire' = {fetchBreaches(request')}
        /\ FirstPageAsked(request') \/ NextPageAsked(request')
        /\ summary'.status # "idle" /\ (summaryWire' # {} => summary'.status = "loading")
        /\ summaryWire' \subseteq {request'.attempt}
    BY <1>1, AskedRequest
  <2>2. fetchBreaches(request').request = request'
    BY DEF fetchBreaches
  <2>3. CASE FirstPageAsked(request')
    <3>1. isFirstPage(request') /\ list' = Bare("loading") /\ Bare("loading").status = "loading"
      BY <2>3 DEF FirstPageAsked, Bare
    <3> QED  BY <2>1, <2>2, <3>1 DEF AskInv, hasItems
  <2>4. CASE NextPageAsked(request')
    <3>1. /\ ~ isFirstPage(request') /\ list'.status = "loadingMore" /\ list'.items # <<>>
      BY <2>4 DEF NextPageAsked
    <3> QED  BY <2>1, <2>2, <3>1 DEF AskInv, hasItems
  <2> QED  BY <2>1, <2>3, <2>4
<1>2. ASSUME NEW w \in wire, Reads(w)
      PROVE  AskInv'
  <2>1. PICK next : /\ wire' = (wire \ {w}) \cup {next} /\ next.request = w.request
                    /\ UNCHANGED <<request, list, summary, summaryWire>>
    BY <1>2, RequestAdvances
  <2>2. wire' = {next} /\ next.request = request /\ wire # {}
    BY <2>1 DEF AskInv
  <2> QED  BY <2>1, <2>2 DEF AskInv, hasItems, isFirstPage
<1>3. ASSUME NEW w \in wire, Answered(w)
      PROVE  AskInv'
  <2>1. /\ wire' = {} /\ request.isEnabled
        /\ FirstPageCame(w) \/ NextPageCame(w) \/ FirstPageFailed \/ NextPageFailed(w)
        /\ UNCHANGED <<request, summary, summaryWire>>
    BY <1>3, WaitEnds
  <2>2. /\ list'.status # "idle"
        /\ ~ hasItems(list') => list' = Bare(list'.status)
    BY <2>1 DEF FirstPageCame, NextPageCame, FirstPageFailed, NextPageFailed, Bare, hasItems
  <2> QED  BY <2>1, <2>2 DEF AskInv, hasItems
<1>4. CASE SummaryAnswered
  <2>1. /\ summary'.status \in {"ready", "failed"} /\ summaryWire' = {} /\ request.isEnabled
        /\ UNCHANGED <<request, list, wire>>
    BY <1>4, SummaryWaitEnds
  <2> QED  BY <2>1 DEF AskInv, hasItems, isFirstPage
<1>5. CASE Refreshed \/ UNCHANGED vars
  BY <1>5 DEF Refreshed, vars, AskInv, hasItems, isFirstPage
<1> QED  BY <1>1, <1>2, <1>3, <1>4, <1>5, EveryStep

LEMMA RowsStep ==
    ASSUME TypeOK, AskInv, RowsInv, [Next]_vars
    PROVE  RowsInv'
<1>0. IsInjective(<<>>) /\ Range(<<>>) = {}
  BY DEF IsInjective, Range
<1>1. CASE Asks
  <2>1. /\ wire' = {fetchBreaches(request')}
        /\ FirstPageAsked(request') \/ NextPageAsked(request')
    BY <1>1, AskedRequest
  <2>2. fetchBreaches(request').items = <<>>
    BY DEF fetchBreaches
  <2>3. \/ list'.items = <<>>
        \/ list'.items = list.items /\ request'.filters = request.filters
    BY <2>1 DEF FirstPageAsked, NextPageAsked, Bare
  <2> QED  BY <1>0, <2>1, <2>2, <2>3 DEF RowsInv
<1>2. ASSUME NEW w \in wire, Reads(w)
      PROVE  RowsInv'
  <2>1. PICK next : /\ wire' = (wire \ {w}) \cup {next} /\ next.request = w.request
                    /\ \/ next = Counted(w) \/ next = Paged(w)
                       \/ \E stage \in {"ok", "unavailable"} : next = Refused(w, stage)
                    /\ UNCHANGED <<request, list>>
    BY <1>2, RequestAdvances
  <2> DEFINE f == w.request.filters
             page == PageOf(Listed(f), w.request.page)
  <2>2. f \in Selections /\ w.request.page \in Nat \ {0}
    BY DEF TypeOK, ListRequest, CatalogRequest
  <2>3. /\ Listed(f) \in Seq(Names) /\ IsInjective(Listed(f))
        /\ Range(Listed(f)) \subseteq Range(Listing[f])
    BY <2>2, ListedOnce
  <2>4. IsInjective(page) /\ Range(page) \subseteq Range(Listing[f])
    BY <2>2, <2>3, PageIsPart
  <2>5. next.items = w.items \/ next.items = page
    BY <2>1 DEF Counted, Paged, Refused
  <2>6. IsInjective(next.items) /\ Range(next.items) \subseteq Range(Listing[next.request.filters])
    <3> HIDE DEF page
    <3> QED  BY <2>1, <2>4, <2>5 DEF RowsInv
  <2> QED  BY <2>1, <2>6 DEF RowsInv
<1>3. ASSUME NEW w \in wire, Answered(w)
      PROVE  RowsInv'
  <2>1. /\ wire' = {} /\ w.request = request /\ w \in ListRequest
        /\ FirstPageCame(w) \/ NextPageCame(w) \/ FirstPageFailed \/ NextPageFailed(w)
        /\ request' = request
    BY <1>3, WaitEnds
  <2> DEFINE both == list.items \o w.items
  <2>2. list.items \in Seq(Names) /\ w.items \in Seq(Names)
    BY <2>1 DEF TypeOK, ListState, ListRequest
  <2>3. both \in Seq(Names) /\ Range(both) = Range(list.items) \cup Range(w.items)
    BY <2>2, ConcatProperties, RangeConcatenation
  <2>4. IsInjective(withoutRepeats(both)) /\ Range(withoutRepeats(both)) = Range(both)
    BY <2>3, RepeatsDropped
  <2>5. /\ IsInjective(w.items) /\ Range(w.items) \subseteq Range(Listing[request.filters])
        /\ IsInjective(list.items) /\ Range(list.items) \subseteq Range(Listing[request.filters])
    BY <2>1 DEF RowsInv
  <2>6. \/ list'.items = <<>> \/ list'.items = w.items \/ list'.items = list.items
        \/ list'.items = withoutRepeats(both)
    BY <2>1 DEF FirstPageCame, NextPageCame, FirstPageFailed, NextPageFailed, Bare
  <2> HIDE DEF both
  <2> QED  BY <1>0, <2>1, <2>3, <2>4, <2>5, <2>6 DEF RowsInv
<1>4. CASE SummaryAnswered
  <2>1. UNCHANGED <<request, list, wire>>
    BY <1>4, SummaryWaitEnds
  <2> QED  BY <2>1 DEF RowsInv
<1>5. CASE Refreshed \/ UNCHANGED vars
  BY <1>5 DEF Refreshed, vars, RowsInv
<1> QED  BY <1>1, <1>2, <1>3, <1>4, <1>5, EveryStep

LEMMA AnswerStep ==
    ASSUME TypeOK, AskInv, AnswerInv, PrefixInv, [Next]_vars
    PROVE  AnswerInv'
<1>1. CASE Asks
  <2>1. wire' = {fetchBreaches(request')}
    BY <1>1, AskedRequest
  <2> QED  BY <2>1 DEF AnswerInv, fetchBreaches
<1>2. ASSUME NEW w \in wire, Reads(w)
      PROVE  AnswerInv'
  <2>1. PICK next : /\ wire' = (wire \ {w}) \cup {next} /\ next.request = w.request
                    /\ \/ w.stage = "count" /\ next = Counted(w)
                       \/ w.stage = "page" /\ next = Paged(w)
                       \/ /\ w.stage = "exists"
                          /\ \E stage \in {"ok", "unavailable"} : next = Refused(w, stage)
                    /\ UNCHANGED <<rows, list, refreshes>>
    BY <1>2, RequestAdvances
  <2> DEFINE L == Listed(w.request.filters)
  <2>2. wire' = {next} /\ w.request = request /\ L' = L
        /\ refreshes \in Nat /\ list.epoch \in Nat /\ w.epoch \in Nat
    BY <2>1 DEF AskInv, Listed, TypeOK, ListState, ListRequest
  <2>3. ~ isFirstPage(w.request) => list.epoch <= refreshes
    BY <2>2 DEF AskInv, PrefixInv, hasItems
  <2>4. w.stage # "count" =>
          /\ w.epoch <= refreshes
          /\ ~ isFirstPage(w.request) => list.epoch <= w.epoch
          /\ w.epoch = refreshes =>
               /\ w.total = Len(L)
               /\ w.stage # "page" => w.items = PageOf(L, w.request.page)
               /\ w.stage \in {"exists", "unavailable"} => w.total = 0
    BY DEF AnswerInv
  <2> DEFINE Kept == /\ next.epoch <= refreshes
                     /\ ~ isFirstPage(w.request) => list.epoch <= next.epoch
                     /\ next.epoch = refreshes =>
                          /\ next.total = Len(L)
                          /\ next.stage # "page" => next.items = PageOf(L, w.request.page)
                          /\ next.stage \in {"exists", "unavailable"} => next.total = 0
  <2>5. Kept
    <3>1. CASE w.stage = "count" /\ next = Counted(w)
      BY <2>2, <2>3, <3>1 DEF Counted
    <3>2. CASE w.stage = "page" /\ next = Paged(w)
      BY <2>4, <3>2 DEF Paged
    <3>3. ASSUME w.stage = "exists", NEW stage \in {"ok", "unavailable"}, next = Refused(w, stage)
          PROVE  Kept
      BY <2>4, <3>3 DEF Refused
    <3> QED  BY <2>1, <3>1, <3>2, <3>3
  <2>6. UNCHANGED <<list, refreshes>> /\ next.request = w.request
    BY <2>1
  <2>7. next.epoch <= refreshes' /\ Listed(next.request.filters)' = L
    BY <2>2, <2>5, <2>6
  <2> HIDE DEF L
  <2> QED  BY <2>2, <2>5, <2>6, <2>7 DEF AnswerInv, isFirstPage
<1>3. ASSUME NEW w \in wire, Answered(w)
      PROVE  AnswerInv'
  <2>1. wire' = {}
    BY <1>3, WaitEnds
  <2> QED  BY <2>1 DEF AnswerInv
<1>4. CASE SummaryAnswered
  <2>1. UNCHANGED <<rows, list, wire, refreshes>>
    BY <1>4, SummaryWaitEnds
  <2> QED  BY <2>1 DEF AnswerInv, Listed
<1>5. CASE Refreshed
  <2>1. refreshes' = refreshes + 1 /\ wire' = wire /\ list' = list /\ refreshes \in Nat
        /\ \A w \in wire : w.epoch \in Nat
    BY <1>5 DEF Refreshed, TypeOK, ListRequest
  <2>2. ASSUME NEW w \in wire, w.stage # "count"
        PROVE  /\ w.epoch <= refreshes' /\ w.epoch # refreshes'
               /\ ~ isFirstPage(w.request) => list'.epoch <= w.epoch
    <3>1. w.epoch <= refreshes /\ w.epoch \in Nat
          /\ (~ isFirstPage(w.request) => list'.epoch <= w.epoch)
      BY <2>1, <2>2 DEF AnswerInv
    <3> QED  BY <2>1, <3>1
  <2> QED  BY <2>1, <2>2 DEF AnswerInv, isFirstPage
<1>6. CASE UNCHANGED vars
  BY <1>6 DEF vars, AnswerInv, Listed
<1> QED  BY <1>1, <1>2, <1>3, <1>4, <1>5, <1>6, EveryStep

(* The heart of NoGaps: over a catalog that stands still the next page     *)
(* continues the rows, and it can be neither empty nor refused.            *)
LEMMA PrefixStep ==
    ASSUME TypeOK, AskInv, AnswerInv, PrefixInv, [Next]_vars
    PROVE  PrefixInv'
<1>0. /\ refreshes \in Nat /\ laterFailures \in Nat /\ list.epoch \in Nat /\ list.page \in Nat
      /\ request.page \in Nat /\ request.page # 0 /\ request.filters \in Selections
      /\ list.items \in Seq(Names)
  BY DEF TypeOK, ListState, CatalogRequest
<1>1. CASE Asks
  <2>1. /\ FirstPageAsked(request') \/ NextPageAsked(request')
        /\ UNCHANGED <<rows, refreshes, laterFailures>>
    BY <1>1, AskedRequest
  <2>2. CASE FirstPageAsked(request')
    BY <2>2 DEF FirstPageAsked, Bare, PrefixInv, Standing, hasItems
  <2>3. CASE NextPageAsked(request')
    <3>1. /\ list.status = "ready" /\ hasMorePages(list)
          /\ request'.filters = request.filters /\ request'.page = request.page + 1
          /\ list'.status = "loadingMore" /\ list'.items = list.items /\ list'.total = list.total
          /\ list'.page = list.page /\ list'.epoch = list.epoch
      BY <2>3 DEF NextPageAsked
    <3>2. hasItems(list) /\ list.epoch <= refreshes /\ hasMorePages(list') /\ (Standing' => Standing)
          /\ Listed(request.filters)' = Listed(request.filters)
      BY <2>1, <3>1 DEF PrefixInv, hasItems, hasMorePages, Standing, Listed
    <3> QED  BY <2>1, <3>1, <3>2 DEF PrefixInv, Standing, FirstPages, Listed
  <2> QED  BY <2>1, <2>2, <2>3
<1>2. ASSUME NEW w \in wire, Reads(w)
      PROVE  PrefixInv'
  <2>1. UNCHANGED <<rows, request, list, refreshes, laterFailures>>
    BY <1>2, RequestAdvances
  <2> QED  BY <2>1 DEF PrefixInv, Standing, hasItems, hasMorePages, Listed, FirstPages
<1>3. ASSUME NEW w \in wire, Answered(w)
      PROVE  PrefixInv'
  <2> DEFINE L == Listed(request.filters)
  <2>1. /\ w.request = request /\ w \in ListRequest
        /\ FirstPageCame(w) \/ NextPageCame(w) \/ FirstPageFailed \/ NextPageFailed(w)
        /\ UNCHANGED <<rows, request, refreshes>> /\ laterFailures' \in Nat
    BY <1>3, WaitEnds
  <2>2. /\ L \in Seq(Names) /\ Len(L) \in Nat /\ IsInjective(L) /\ L' = L
        /\ w.epoch \in Nat /\ w.total \in Nat
    BY <1>0, <2>1, ListedOnce DEF Listed, ListRequest
  <2>3. w.stage # "count" =>
          /\ w.epoch <= refreshes
          /\ ~ isFirstPage(request) => list.epoch <= w.epoch
          /\ w.epoch = refreshes =>
               /\ w.total = Len(L)
               /\ w.stage # "page" => w.items = PageOf(L, request.page)
               /\ w.stage \in {"exists", "unavailable"} => w.total = 0
    BY <2>1 DEF AnswerInv
  <2>4. hasItems(list) => list.epoch <= refreshes
    BY DEF PrefixInv
  <2>5. Standing => /\ list.page # 0 /\ list.items = FirstPages(L, list.page)
                    /\ list.total = Len(L)
                    /\ list.status = "loadingMore" => request.page = list.page + 1 /\ hasMorePages(list)
    BY DEF PrefixInv
  <2> HIDE DEF L
  <2>6. ASSUME /\ hasItems(list)' => list'.epoch <= refreshes
               /\ Standing' => /\ list'.page # 0 /\ list'.items = FirstPages(L, list'.page)
                               /\ list'.total = Len(L)
                               /\ list'.status = "ready" => request.page = list'.page
                               /\ list'.status # "loadingMore"
        PROVE  PrefixInv'
    <3>1. Listed(request.filters)' = L
      BY <2>2 DEF L
    <3> QED  BY <2>1, <2>6, <3>1 DEF PrefixInv, FirstPages
  <2>7. CASE FirstPageCame(w)
    <3>1. /\ request.page = 1 /\ w.stage = "ok" /\ list'.status = "ready" /\ list'.items = w.items
          /\ list'.total = w.total /\ list'.page = 1 /\ list'.epoch = w.epoch
      BY <2>7 DEF FirstPageCame, isFirstPage, FIRST_PAGE
    <3>2. FirstPages(L, 1) = PageOf(L, 1)
      BY <2>2, PagesContinue
    <3>3. Standing' => w.epoch = refreshes
      BY <2>1, <3>1 DEF Standing
    <3> QED  BY <2>3, <2>6, <3>1, <3>2, <3>3
  <2>8. CASE NextPageCame(w)
    <3> DEFINE both == list.items \o w.items
    <3>1. /\ w.stage = "ok" /\ list.status = "loadingMore" /\ list'.status = "ready"
          /\ list'.items = withoutRepeats(both)
          /\ list'.total = w.total /\ list'.page = request.page /\ list'.epoch = list.epoch
          /\ laterFailures' = laterFailures /\ ~ isFirstPage(request)
      BY <2>8 DEF NextPageCame
    <3>2. hasItems(list) /\ list.epoch <= refreshes
      BY <2>4, <3>1 DEF hasItems
    <3>3. ASSUME Standing'
          PROVE  list'.items = FirstPages(L, request.page) /\ w.total = Len(L)
      <4>1. Standing
        BY <2>1, <3>1, <3>2, <3>3 DEF Standing
      <4>2. w.epoch = refreshes
        BY <1>0, <2>2, <2>3, <3>1, <4>1 DEF Standing
      <4>3. /\ list.items = FirstPages(L, list.page) /\ request.page = list.page + 1
            /\ w.items = PageOf(L, request.page) /\ w.total = Len(L)
        BY <2>3, <2>5, <3>1, <4>1, <4>2
      <4>4. both = FirstPages(L, request.page) /\ both \in Seq(Names) /\ IsInjective(both)
        <5>1. FirstPages(L, list.page) \o PageOf(L, list.page + 1) = FirstPages(L, list.page + 1)
          BY <1>0, <2>2, PagesContinue
        <5>2. FirstPages(L, request.page) \in Seq(Names) /\ IsInjective(FirstPages(L, request.page))
          BY <1>0, <2>2, PagesContinue
        <5> QED  BY <4>3, <5>1, <5>2
      <4>5. withoutRepeats(both) = both
        BY <4>4, RepeatsDropped
      <4> QED  BY <3>1, <4>3, <4>4, <4>5
    <3> QED  BY <1>0, <2>6, <3>1, <3>2, <3>3
  <2>9. CASE FirstPageFailed
    <3>1. list'.status = "failed"
      BY <2>9 DEF FirstPageFailed, Bare
    <3> QED  BY <2>6, <3>1 DEF hasItems, Standing
  <2>10. CASE NextPageFailed(w)
    <3>1. /\ list.status = "loadingMore" /\ list'.epoch = list.epoch /\ ~ isFirstPage(request)
          /\ \/ laterFailures' = laterFailures + 1
             \/ w.stage = "unavailable" /\ laterFailures' = laterFailures
      BY <2>10 DEF NextPageFailed
    <3>2. hasItems(list) /\ list.epoch <= refreshes
      BY <2>4, <3>1 DEF hasItems
    <3>3. ASSUME Standing'
          PROVE  FALSE
      <4>1. laterFailures' = 0 /\ list.epoch = refreshes
        BY <2>1, <3>1, <3>3 DEF Standing
      <4>2. w.stage = "unavailable" /\ Standing
        BY <1>0, <3>1, <3>2, <4>1 DEF Standing
      <4>3. w.epoch = refreshes
        BY <1>0, <2>2, <2>3, <3>1, <4>1, <4>2
      <4>4. w.total = 0 /\ w.total = Len(L) /\ list.total = Len(L) /\ hasMorePages(list)
        BY <2>3, <2>5, <3>1, <4>2, <4>3
      <4>5. Len(list.items) \in Nat
        BY <1>0
      <4> QED  BY <4>4, <4>5 DEF hasMorePages
    <3> QED  BY <2>6, <3>1, <3>2, <3>3
  <2> QED  BY <2>1, <2>7, <2>8, <2>9, <2>10
<1>4. CASE SummaryAnswered
  <2>1. UNCHANGED <<rows, request, list, refreshes, laterFailures>>
    BY <1>4, SummaryWaitEnds
  <2> QED  BY <2>1 DEF PrefixInv, Standing, hasItems, hasMorePages, Listed, FirstPages
<1>5. CASE Refreshed
  <2>1. refreshes' = refreshes + 1 /\ list' = list
    BY <1>5 DEF Refreshed
  <2>2. hasItems(list)' => list'.epoch <= refreshes' /\ list'.epoch # refreshes'
    BY <1>0, <2>1 DEF PrefixInv, hasItems
  <2> QED  BY <2>2 DEF PrefixInv, Standing
<1>6. CASE UNCHANGED vars
  BY <1>6 DEF vars, PrefixInv, Standing, hasItems, hasMorePages, Listed, FirstPages
<1> QED  BY <1>1, <1>2, <1>3, <1>4, <1>5, <1>6, EveryStep

-----------------------------------------------------------------------------
THEOREM ListingInvariance == Spec => [](TypeOK /\ ListingInv)
<1>1. TypeOK /\ ListingInv /\ [Next]_vars => (TypeOK /\ ListingInv)'
  BY ListingTypes, AskStep, RowsStep, AnswerStep, PrefixStep DEF ListingInv
<1> QED  BY <1>1, ListingInit, PTL DEF Spec

(* Every variable keeps its type, for every catalog and any bounds.        *)
THEOREM ListingTypeCorrect == Spec => []TypeOK
  BY ListingInvariance, PTL

(* The rows on screen answer the selection in force and none repeats,      *)
(* however requests, retries, refreshes and failures interleave.           *)
THEOREM RowsAnswer == Spec => []RowsAnswerTheSelection
<1>1. ListingInv => RowsAnswerTheSelection
  BY DEF ListingInv, RowsInv, RowsAnswerTheSelection
<1> QED  BY <1>1, ListingInvariance, PTL

(* No row is skipped while the catalog stands still and no page has failed.*)
THEOREM NothingSkipped == Spec => []NoGaps
<1>1. TypeOK /\ ListingInv => NoGaps
  <2> SUFFICES ASSUME TypeOK, PrefixInv, Standing
               PROVE  /\ IsPrefix(list.items, Listed(request.filters))
                      /\ ~ hasMorePages(list) => list.items = Listed(request.filters)
    BY DEF NoGaps, ListingInv, Standing
  <2> DEFINE L == Listed(request.filters)
  <2>1. L \in Seq(Names) /\ Len(L) \in Nat /\ list.page \in Nat /\ list.items \in Seq(Names)
    BY ListedOnce DEF TypeOK, ListState, CatalogRequest
  <2>2. list.items = FirstPages(L, list.page) /\ list.total = Len(L)
    BY DEF PrefixInv
  <2> HIDE DEF L
  <2>3. IsPrefix(list.items, L) /\ (Len(list.items) >= Len(L) => list.items = L)
    BY <2>1, <2>2, PagesContinue
  <2>4. ~ hasMorePages(list) => Len(list.items) >= Len(L)
    BY <2>1, <2>2 DEF hasMorePages
  <2> QED  BY <2>3, <2>4 DEF L
<1> QED  BY <1>1, ListingInvariance, PTL

(* No step moves or takes away a row on screen while the list stays.       *)
THEOREM RowsStay == Spec => RowsKeepTheirPlaces
<1>1. ASSUME TypeOK, ListingInv, [Next]_vars, hasItems(list), hasItems(list')
      PROVE  IsPrefix(list.items, list'.items)
  <2> USE DEF ListingInv
  <2>1. list.items \in Seq(Names) /\ IsInjective(list.items) /\ IsPrefix(list.items, list.items)
    <3>1. list.items \in Seq(Names) /\ IsInjective(list.items)
      BY <1>1 DEF TypeOK, ListState, RowsInv
    <3>2. Len(list.items) <= Len(list.items)
      BY <3>1
    <3> QED  BY <3>1, <3>2 DEF IsPrefix
  <2>2. CASE list'.items = list.items
    BY <2>1, <2>2
  <2>3. CASE Asks
    <3>1. NextPageAsked(request')
      BY <1>1, <2>3, AskedRequest DEF FirstPageAsked, Bare, hasItems
    <3> QED  BY <2>2, <3>1 DEF NextPageAsked
  <2>4. ASSUME NEW w \in wire, Answered(w)
        PROVE  IsPrefix(list.items, list'.items)
    <3>1. /\ w.request = request /\ w \in ListRequest
          /\ FirstPageCame(w) \/ NextPageCame(w) \/ FirstPageFailed \/ NextPageFailed(w)
      BY <1>1, <2>4, WaitEnds
    <3>2. ~ isFirstPage(request)
      BY <1>1 DEF AskInv, hasItems
    <3>3. CASE NextPageCame(w)
      <4>1. w.items \in Seq(Names) /\ list'.items = withoutRepeats(list.items \o w.items)
        BY <3>1, <3>3 DEF NextPageCame, ListRequest
      <4> QED  BY <2>1, <4>1, FirstCopiesStay
    <3>4. CASE NextPageFailed(w)
      BY <2>2, <3>4 DEF NextPageFailed
    <3> QED  BY <3>1, <3>2, <3>3, <3>4 DEF FirstPageCame, FirstPageFailed
  <2>5. ASSUME NEW w \in wire, Reads(w)
        PROVE  list' = list
    BY <1>1, <2>5, RequestAdvances
  <2>6. CASE SummaryAnswered
    BY <1>1, <2>2, <2>6, SummaryWaitEnds
  <2>7. CASE Refreshed \/ UNCHANGED vars
    BY <2>2, <2>7 DEF Refreshed, vars
  <2> QED  BY <1>1, <2>2, <2>3, <2>4, <2>5, <2>6, <2>7, EveryStep
<1>2. TypeOK /\ ListingInv /\ [Next]_vars =>
        [hasItems(list) /\ hasItems(list)' => IsPrefix(list.items, list.items')]_vars
  BY <1>1 DEF hasItems
<1> QED  BY <1>2, ListingInvariance, PTL DEF Spec, RowsKeepTheirPlaces

-----------------------------------------------------------------------------
(* The provider keeps what the pages are promised.  The promise reads the  *)
(* list through three facts of it.                                         *)
Seen == [status |-> list.status, empty |-> list.items = <<>>, more |-> hasMorePages(list)]

LEMMA SeenBare ==
    ASSUME NEW status, list = Bare(status)
    PROVE  Seen = Provider!Bare(status)
<1>1. list.status = status /\ list.items = <<>> /\ list.total = 0
  BY DEF Bare
<1>2. hasMorePages(list) = FALSE /\ (list.items = <<>>) = TRUE
  BY <1>1 DEF hasMorePages
<1> QED  BY <1>1, <1>2 DEF Seen, Provider!Bare

LEMMA SeenAnswered ==
    ASSUME NEW more
    PROVE  [Seen EXCEPT !.status = "ready", !.more = more]
             = [status |-> "ready", empty |-> list.items = <<>>, more |-> more]
<1> DEFINE empty == list.items = <<>>
           before == hasMorePages(list)
           x == [Seen EXCEPT !.status = "ready", !.more = more]
           y == [status |-> "ready", empty |-> empty, more |-> more]
<1>1. Seen = [status |-> list.status, empty |-> empty, more |-> before]
  BY DEF Seen
<1> HIDE DEF empty, before
<1>2. /\ x = [i \in DOMAIN x |-> x[i]] /\ y = [i \in DOMAIN y |-> y[i]]
      /\ DOMAIN x = {"status", "empty", "more"} /\ DOMAIN y = DOMAIN x
      /\ x.status = y.status /\ x.empty = y.empty /\ x.more = y.more
  BY <1>1
<1> HIDE DEF x, y
<1>3. \A i \in DOMAIN x : x[i] = y[i]
  BY <1>2
<1>4. x = y
  BY <1>2, <1>3
<1> QED  BY <1>4 DEF x, y, empty

LEMMA ProviderInit == Init => Provider!Init
<1> SUFFICES ASSUME Init PROVE Provider!Init
  OBVIOUS
<1>1. list = Bare("idle") /\ summary.status = "idle" /\ request.filters = NoFilters
  BY DEF Init
<1> QED  BY <1>1, SeenBare DEF Provider!Init, Seen

LEMMA ProviderStep ==
    ASSUME TypeOK, AskInv, [Next]_vars
    PROVE  [Provider!Next]_(Provider!vars)
<1>0. /\ Seen.status = list.status /\ Seen.empty = (list.items = <<>>) /\ Seen.more = hasMorePages(list)
      /\ list \in ListState
  BY DEF Seen, TypeOK
<1>1. ASSUME NEW status, list' = Bare(status)
      PROVE  Seen' = Provider!Bare(status)
  <2>1. list'.status = status /\ list'.items = <<>> /\ list'.total = 0
    BY <1>1 DEF Bare
  <2>2. hasMorePages(list)' = FALSE /\ (list'.items = <<>>) = TRUE
    BY <2>1 DEF hasMorePages
  <2> QED  BY <2>1, <2>2 DEF Seen, Provider!Bare
<1>2. CASE Load
  <2>1. /\ request' = [request EXCEPT !.isEnabled = TRUE] /\ list' = Bare("loading")
        /\ summary.status = "idle" /\ summary'.status = "loading" /\ request \in CatalogRequest
    BY <1>2 DEF Load, ListEffect, SummaryEffect, awaitPage, isFirstPage, AskInv, TypeOK, CatalogRequest
  <2>2. request'.filters = request.filters
    BY <2>1 DEF CatalogRequest
  <2>3. Provider!Load
    BY <1>1, <2>1, <2>2 DEF Provider!Load, Seen
  <2> QED  BY <2>3 DEF Provider!Next
<1>3. CASE Retry
  <2>1. /\ request' = retryRequest(request) /\ list' = awaitPage(list, retryRequest(request))
        /\ hasCatalogFailed /\ summary'.status = "loading" /\ request \in CatalogRequest
    BY <1>3 DEF Retry, ListEffect, SummaryEffect, TypeOK
  <2>2. request'.filters = request.filters /\ isFirstPage(retryRequest(request))
    BY <2>1 DEF retryRequest, isFirstPage, CatalogRequest
  <2>3. list' = Bare("loading")
    BY <2>1, <2>2 DEF awaitPage
  <2>4. Provider!Retry
    BY <1>0, <1>1, <2>1, <2>2, <2>3 DEF Provider!Retry, Provider!hasCatalogFailed, hasCatalogFailed, Seen
  <2> QED  BY <2>4 DEF Provider!Next
<1>4. CASE LoadMore
  <2>1. /\ request' = nextPage(request) /\ request \in CatalogRequest /\ list.status = "ready"
        /\ list.items # <<>> /\ hasMorePages(list) /\ list' = awaitPage(list, nextPage(request))
        /\ summary' = summary
    BY <1>4 DEF LoadMore, ListEffect, TypeOK
  <2>2. request'.filters = request.filters /\ ~ isFirstPage(nextPage(request))
    BY <2>1 DEF nextPage, isFirstPage, FIRST_PAGE, CatalogRequest
  <2>3. list' = [list EXCEPT !.status = "loadingMore"]
    BY <2>1, <2>2 DEF awaitPage, hasItems
  <2>4. /\ list'.status = "loadingMore" /\ list'.items = list.items
        /\ list'.total = list.total
    BY <1>0, <2>3 DEF ListState
  <2>5. Seen' = [Seen EXCEPT !.status = "loadingMore"]
    BY <2>4 DEF Seen, hasMorePages
  <2>6. Provider!LoadMore
    BY <2>1, <2>2, <2>5 DEF Provider!LoadMore, Seen
  <2> QED  BY <2>6 DEF Provider!Next
<1>5. ASSUME NEW f \in Selections, SetFilters(f)
      PROVE  Provider!SetFilters(f)
  <2>1. request.isEnabled /\ request.filters # f /\ request \in CatalogRequest
    BY <1>5 DEF SetFilters, withFilters, TypeOK
  <2>2. withFilters(request, f) = [request EXCEPT !.filters = f, !.page = FIRST_PAGE]
    BY <2>1 DEF withFilters
  <2>3. withFilters(request, f).filters = f /\ isFirstPage(withFilters(request, f))
    BY <2>1, <2>2 DEF isFirstPage, CatalogRequest
  <2>4. request'.filters = f /\ list' = Bare("loading") /\ summary' = summary
    BY <1>5, <2>3 DEF SetFilters, ListEffect, awaitPage
  <2>5. list.status # "idle"
    BY <2>1 DEF AskInv
  <2> QED  BY <1>1, <2>1, <2>4, <2>5 DEF Provider!SetFilters, Seen
<1>6. CASE \E f \in Selections : SetFilters(f)
  BY <1>5, <1>6 DEF Provider!Next
<1>7. ASSUME NEW w \in wire, Reads(w)
      PROVE  UNCHANGED Provider!vars
  <2>1. UNCHANGED <<request, list, summary>>
    BY <1>7, RequestAdvances
  <2> QED  BY <2>1 DEF Provider!vars, hasMorePages
<1>8. ASSUME NEW w \in wire, Answered(w)
      PROVE  Provider!ListAnswers
  <2>1. /\ w.request = request /\ w \in ListRequest
        /\ FirstPageCame(w) \/ NextPageCame(w) \/ FirstPageFailed \/ NextPageFailed(w)
        /\ UNCHANGED <<request, summary>>
    BY <1>8, WaitEnds
  <2>2. isFirstPage(request) => list.status = "loading"
    BY DEF AskInv
  <2>3. ~ isFirstPage(request) => list.status = "loadingMore" /\ list.items # <<>>
    BY DEF AskInv
  <2>4. CASE FirstPageCame(w)
    <3>1. list.status = "loading" /\ list'.status = "ready"
      BY <2>2, <2>4 DEF FirstPageCame
    <3>2. Seen' = [status |-> "ready", empty |-> (list'.items = <<>>), more |-> hasMorePages(list')]
      BY <3>1 DEF Seen, hasMorePages
    <3>3. (list'.items = <<>>) \in BOOLEAN /\ hasMorePages(list') \in BOOLEAN
      BY DEF hasMorePages
    <3> QED  BY <2>1, <3>1, <3>2, <3>3 DEF Provider!ListAnswers, Seen
  <2>5. CASE FirstPageFailed
    <3>1. list.status = "loading" /\ Seen' = Provider!Bare("failed")
      BY <1>1, <2>2, <2>5 DEF FirstPageFailed
    <3> QED  BY <2>1, <3>1 DEF Provider!ListAnswers, Seen
  <2>6. ASSUME ~ isFirstPage(request), list'.status = "ready", list'.items # <<>>
        PROVE  Provider!ListAnswers
    <3>1. list.status = "loadingMore" /\ list.items # <<>>
      BY <2>3, <2>6
    <3>2. Seen' = [Seen EXCEPT !.status = "ready", !.more = hasMorePages(list')]
      <4>1. (list'.items = <<>>) = (list.items = <<>>) /\ hasMorePages(list)' = hasMorePages(list')
        BY <2>6, <3>1 DEF hasMorePages
      <4>2. Seen' = [status |-> "ready", empty |-> list.items = <<>>, more |-> hasMorePages(list')]
        BY <2>6, <4>1 DEF Seen
      <4> QED  BY <4>2, SeenAnswered
    <3>3. hasMorePages(list') \in BOOLEAN
      BY DEF hasMorePages
    <3> QED  BY <2>1, <3>1, <3>2, <3>3 DEF Provider!ListAnswers, Seen
  <2>7. CASE NextPageFailed(w)
    BY <2>3, <2>6, <2>7 DEF NextPageFailed
  <2>8. CASE NextPageCame(w)
    <3> DEFINE both == list.items \o w.items
    <3>1. list.items \in Seq(Names) /\ w.items \in Seq(Names) /\ list.items # <<>>
          /\ ~ isFirstPage(request)
      BY <2>1, <2>3, <2>8 DEF TypeOK, ListState, ListRequest, NextPageCame
    <3>2. both \in Seq(Names) /\ Len(both) = Len(list.items) + Len(w.items)
      BY <3>1, ConcatProperties
    <3>3. both # <<>>
      <4>1. Len(list.items) \in Nat /\ Len(list.items) # 0 /\ Len(w.items) \in Nat
        BY <3>1, EmptySeq
      <4> HIDE DEF both
      <4>2. \A m, n \in Nat : m # 0 => m + n # 0
        OBVIOUS
      <4>3. Len(both) # 0
        BY <3>2, <4>1, <4>2, Zenon
      <4> QED  BY <4>3, EmptySeq
    <3>4. withoutRepeats(both) # <<>>
      BY <3>2, <3>3, RepeatsDropped
    <3> QED  BY <2>6, <2>8, <3>1, <3>4 DEF NextPageCame
  <2> QED  BY <2>1, <2>4, <2>5, <2>7, <2>8
<1>9. CASE \E w \in wire : Answered(w)
  BY <1>8, <1>9 DEF Provider!Next
<1>10. CASE SummaryAnswered
  <2>1. /\ summary.status = "loading" /\ summary'.status \in {"ready", "failed"}
        /\ UNCHANGED <<request, list>>
    BY <1>10, SummaryWaitEnds
  <2>2. Provider!SummaryAnswers
    BY <2>1 DEF Provider!SummaryAnswers, hasMorePages
  <2> QED  BY <2>2 DEF Provider!Next
<1>11. CASE Refreshed \/ UNCHANGED vars
  BY <1>11 DEF Refreshed, vars, Provider!vars, hasMorePages
<1>12. CASE Asks
  BY <1>2, <1>3, <1>4, <1>6, <1>12 DEF Asks
<1> QED  BY <1>7, <1>9, <1>10, <1>11, <1>12, EveryStep

(* Whatever the requests, the refreshes and the failures underneath, every *)
(* step of the provider is one CatalogProvider allows, or none at all.     *)
THEOREM ProviderKept == Spec => ImplementsProvider
<1>1. TypeOK /\ ListingInv /\ [Next]_vars => [Provider!Next]_(Provider!vars)
  BY ProviderStep DEF ListingInv
<1> QED  BY <1>1, ProviderInit, ListingInvariance, PTL DEF Spec, ImplementsProvider, Provider!Spec
=============================================================================
