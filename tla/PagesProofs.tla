----------------------------- MODULE PagesProofs -----------------------------
(***************************************************************************)
(* Theorems about Pages, for any texts and queries, any data classes and   *)
(* any figure: the box says what is searched for, it is rewritten only to  *)
(* be emptied, the figure is true, open details stay open, and counts and  *)
(* ages read back in order.                                                *)
(*                                                                         *)
(* What carries them: a box with no pause running has sent what it holds;  *)
(* what was sent last is in force, but after a press that closed over      *)
(* older filters, which is rendered at once; a figure that counts and has  *)
(* no frame left has arrived; and details are open only over rows.         *)
(***************************************************************************)
EXTENDS Pages, TLAPS

-----------------------------------------------------------------------------
(* Figures on a tile and the catalog's age, for any count and any clock.   *)
LEMMA ReachedIsTheLargest ==
    ASSUME NEW floors \in SUBSET Int, NEW number \in Int, NEW f \in floors,
           f <= number, \A g \in floors : g <= number => g <= f
    PROVE  Reached(floors, number) = f
<1>1. \E u \in floors : u <= number /\ \A g \in floors : g <= number => g <= u
  OBVIOUS
<1>2. /\ Reached(floors, number) \in floors
      /\ Reached(floors, number) <= number
      /\ \A g \in floors : g <= number => g <= Reached(floors, number)
  BY <1>1 DEF Reached
<1>3. Reached(floors, number) \in Int /\ f \in Int
  BY <1>2
<1>4. Reached(floors, number) <= f /\ f <= Reached(floors, number)
  BY <1>2
<1> QED BY <1>3, <1>4, SMT

LEMMA Magnitudes == magnitudes = {1000, 1000000, 1000000000}
BY SMT DEF magnitudes, THOUSAND

LEMMA MagnitudeOfACount ==
    ASSUME NEW count \in Nat, count >= 1000
    PROVE  \/ count < 1000000 /\ formatCount(count).unit = 1000
           \/ count >= 1000000 /\ count < 1000000000 /\ formatCount(count).unit = 1000000
           \/ count >= 1000000000 /\ formatCount(count).unit = 1000000000
<1>1. formatCount(count).unit = Reached(magnitudes, count)
  BY SMT DEF formatCount, THOUSAND
<1>2. magnitudes \in SUBSET Int
  BY Magnitudes, SMT
<1>3. CASE count < 1000000
  BY <1>1, <1>2, <1>3, Magnitudes, ReachedIsTheLargest, SMT
<1>4. CASE count >= 1000000 /\ count < 1000000000
  BY <1>1, <1>2, <1>4, Magnitudes, ReachedIsTheLargest, SMT
<1>5. CASE count >= 1000000000
  BY <1>1, <1>2, <1>5, Magnitudes, ReachedIsTheLargest, SMT
<1> QED BY <1>3, <1>4, <1>5, SMT

(* What a count reads as, magnitude by magnitude.                          *)
ReadsAs(count, read) ==
    /\ read \in Int
    /\ count < 1000 => read = 10 * count
    /\ count >= 1000 /\ count < 1000000
         => read = ((20 * count + 1000) \div 2000) * 1000
    /\ count >= 1000000 /\ count < 1000000000
         => read = ((20 * count + 1000000) \div 2000000) * 1000000
    /\ count >= 1000000000
         => read = ((20 * count + 1000000000) \div 2000000000) * 1000000000

LEMMA ReadingOfACount ==
    ASSUME NEW count \in Nat
    PROVE  ReadsAs(count, CountRead(formatCount(count)))
<1>1. CASE count < 1000
  BY <1>1, SMT DEF ReadsAs, CountRead, formatCount, THOUSAND
<1>2. CASE count >= 1000
  <2> DEFINE unit == formatCount(count).unit
  <2>1. formatCount(count).tenths = Rounded(10 * count, unit)
    BY <1>2, SMT DEF formatCount, THOUSAND
  <2> HIDE DEF unit
  <2> QED BY <1>2, <2>1, MagnitudeOfACount, SMT DEF ReadsAs, CountRead, Rounded, unit
<1> QED BY <1>1, <1>2, SMT

(* A larger count never reads smaller, not even where the magnitude        *)
(* changes: 999,999 reads 1000K beside a million's 1M.                     *)
THEOREM CountsReadInOrder ==
    ASSUME NEW fewer \in Nat, NEW more \in Nat, fewer <= more
    PROVE  CountRead(formatCount(fewer)) <= CountRead(formatCount(more))
<1>1. ASSUME NEW less \in Int, NEW greater \in Int, ReadsAs(fewer, less), ReadsAs(more, greater)
      PROVE  less <= greater
  <2>1. CASE more < 1000
    BY <1>1, <2>1, SMT DEF ReadsAs
  <2>2. CASE more >= 1000 /\ more < 1000000
    BY <1>1, <2>2, SMT DEF ReadsAs
  <2>3. CASE more >= 1000000 /\ more < 1000000000
    BY <1>1, <2>3, SMT DEF ReadsAs
  <2>4. CASE more >= 1000000000
    BY <1>1, <2>4, SMT DEF ReadsAs
  <2> QED BY <2>1, <2>2, <2>3, <2>4, SMT
<1>2. /\ CountRead(formatCount(fewer)) \in Int
      /\ CountRead(formatCount(more)) \in Int
  BY ReadingOfACount, SMT DEF ReadsAs
<1> QED BY <1>1, <1>2, ReadingOfACount, SMT

(* A reading is off by at most a twentieth of the count.                   *)
THEOREM CountsReadClose ==
    ASSUME NEW count \in Nat
    PROVE  /\ 19 * count <= 2 * CountRead(formatCount(count))
           /\ 2 * CountRead(formatCount(count)) <= 21 * count
<1>1. ASSUME NEW read \in Int, ReadsAs(count, read)
      PROVE  19 * count <= 2 * read /\ 2 * read <= 21 * count
  BY <1>1, SMT DEF ReadsAs
<1>2. CountRead(formatCount(count)) \in Int
  BY ReadingOfACount, SMT DEF ReadsAs
<1> QED BY <1>1, <1>2, ReadingOfACount, SMT

LEMMA AgeUnits ==
    /\ ageUnits = {60000, 3600000, 86400000}
    /\ MINUTE_MS = 60000 /\ HOUR_MS = 3600000 /\ DAY_MS = 86400000
BY SMT DEF ageUnits, MINUTE_MS, HOUR_MS, DAY_MS

(* What an age reads as, unit by unit.                                     *)
AgesAs(age, read) ==
    /\ read \in Int
    /\ age < 60000 => read = 0
    /\ age >= 60000 /\ age < 3600000 => read = (age \div 60000) * 60000
    /\ age >= 3600000 /\ age < 86400000 => read = (age \div 3600000) * 3600000
    /\ age >= 86400000 => read = (age \div 86400000) * 86400000

LEMMA ReadingOfAnAge ==
    ASSUME NEW syncedAt \in Int, NEW now \in Int
    PROVE  AgesAs(now - syncedAt, AgeRead(formatSyncedAgo(syncedAt, now)))
<1> DEFINE age == now - syncedAt
           unit == Reached(ageUnits, age)
<1>1. age \in Int /\ ageUnits \in SUBSET Int
  BY AgeUnits, SMT
<1>2. CASE age < 60000
  BY <1>2, AgeUnits, SMT DEF AgesAs, AgeRead, formatSyncedAgo
<1>3. CASE age >= 60000
  <2>1. \/ age < 3600000 /\ unit = 60000
        \/ age >= 3600000 /\ age < 86400000 /\ unit = 3600000
        \/ age >= 86400000 /\ unit = 86400000
    <3>1. CASE age < 3600000
      BY <1>1, <1>3, <3>1, AgeUnits, ReachedIsTheLargest, SMT
    <3>2. CASE age >= 3600000 /\ age < 86400000
      BY <1>1, <1>3, <3>2, AgeUnits, ReachedIsTheLargest, SMT
    <3>3. CASE age >= 86400000
      BY <1>1, <1>3, <3>3, AgeUnits, ReachedIsTheLargest, SMT
    <3> QED BY <1>1, <3>1, <3>2, <3>3, SMT
  <2>2. formatSyncedAgo(syncedAt, now) = [count |-> age \div unit, unit |-> unit]
    BY <1>1, <1>3, AgeUnits, SMT DEF formatSyncedAgo
  <2>3. AgeRead(formatSyncedAgo(syncedAt, now)) = (age \div unit) * unit
    BY <2>2, SMT DEF AgeRead
  <2> HIDE DEF age, unit
  <2>4. AgesAs(age, (age \div unit) * unit)
    BY <1>1, <1>3, <2>1, SMT DEF AgesAs
  <2> QED BY <2>3, <2>4 DEF age
<1> QED BY <1>1, <1>2, <1>3, SMT

(* As the clock goes on a record never reads younger, and it never reads   *)
(* older than it is.                                                       *)
THEOREM AgesReadInOrder ==
    ASSUME NEW syncedAt \in Int, NEW now \in Int, NEW later \in Int, now <= later
    PROVE  /\ AgeRead(formatSyncedAgo(syncedAt, now)) <= AgeRead(formatSyncedAgo(syncedAt, later))
           /\ syncedAt <= now => AgeRead(formatSyncedAgo(syncedAt, now)) <= now - syncedAt
<1> DEFINE age == now - syncedAt
           older == later - syncedAt
<1>1. ASSUME NEW a \in Int, NEW b \in Int, NEW read \in Int, NEW reread \in Int, a <= b,
             AgesAs(a, read), AgesAs(b, reread)
      PROVE  read <= reread /\ (a >= 0 => read <= a)
  <2>1. CASE b < 60000
    BY <1>1, <2>1, SMT DEF AgesAs
  <2>2. CASE b >= 60000 /\ b < 3600000
    BY <1>1, <2>2, SMT DEF AgesAs
  <2>3. CASE b >= 3600000 /\ b < 86400000
    BY <1>1, <2>3, SMT DEF AgesAs
  <2>4. CASE b >= 86400000
    BY <1>1, <2>4, SMT DEF AgesAs
  <2> QED BY <2>1, <2>2, <2>3, <2>4, SMT
<1>2. /\ AgesAs(age, AgeRead(formatSyncedAgo(syncedAt, now)))
      /\ AgesAs(older, AgeRead(formatSyncedAgo(syncedAt, later)))
  BY ReadingOfAnAge
<1>3. age \in Int /\ older \in Int /\ age <= older /\ (syncedAt <= now <=> age >= 0)
  BY SMT
<1>4. /\ AgeRead(formatSyncedAgo(syncedAt, now)) \in Int
      /\ AgeRead(formatSyncedAgo(syncedAt, later)) \in Int
  BY <1>2, SMT DEF AgesAs
<1> HIDE DEF age, older
<1>5. /\ AgeRead(formatSyncedAgo(syncedAt, now)) <= AgeRead(formatSyncedAgo(syncedAt, later))
      /\ age >= 0 => AgeRead(formatSyncedAgo(syncedAt, now)) <= age
  BY <1>1, <1>2, <1>3, <1>4
<1> QED BY <1>3, <1>5 DEF age

-----------------------------------------------------------------------------
(* The pages.                                                              *)
CatalogType ==
    /\ summary \in Catalog!SummaryStatus
    /\ list \in [status : Catalog!ListStatus, empty : BOOLEAN, more : BOOLEAN]
    /\ filters \in Filters

BoxInv ==
    /\ ~ pause => toQuery(text) = lastSent
    /\ ~ overtaken => filters.q = lastSent
    /\ overtaken => rendered = filters

FigureInv ==
    /\ path = Result /\ counts /\ ~ frame => counted = target
    /\ counted <= theSummary.totalAccountsExposed

RowInv == expanded => showsRows

IInv == TypeOK /\ BoxInv /\ FigureInv /\ RowInv

-----------------------------------------------------------------------------
(* Lemmas on the filters and on the box.                                   *)
LEMMA FilterTypes ==
    ASSUME NEW f \in Filters
    PROVE  /\ f.q \in Queries \cup {NoQuery}
           /\ \A q \in Queries \cup {NoQuery} : [f EXCEPT !.q = q] \in Filters
                                                  /\ [f EXCEPT !.q = q].q = q
           /\ \A s \in SortOption : [f EXCEPT !.sort = s] \in Filters /\ [f EXCEPT !.sort = s].q = f.q
           /\ \A c \in DataClasses \cup {NoClass} :
                  [f EXCEPT !.dataClass = c] \in Filters /\ [f EXCEPT !.dataClass = c].q = f.q
           /\ \A b \in BOOLEAN :
                  [f EXCEPT !.verifiedOnly = b] \in Filters /\ [f EXCEPT !.verifiedOnly = b].q = f.q
           /\ withoutFilters(f) \in Filters /\ withoutFilters(f).q = NoQuery
BY DEF Filters, withoutFilters, NoFilters

LEMMA NoFiltersType == NoFilters \in Filters /\ NoFilters.q = NoQuery
BY DEF NoFilters, Filters, SortOption

(* A box holding a query's text stands for that query.                     *)
LEMMA TextOfQuery ==
    ASSUME NEW q \in Queries \cup {NoQuery}
    PROVE  /\ textOf(q) \in Texts /\ toQuery(textOf(q)) = q
           /\ q = NoQuery => textOf(q) = ""
BY PagesAssumption DEF textOf, toQuery

LEMMA QueryOfText == \A t \in Texts : toQuery(t) \in Queries \cup {NoQuery}
BY PagesAssumption DEF toQuery

LEMMA SummaryType == theSummary.totalAccountsExposed \in Nat
<1>1. theSummary.totalAccountsExposed = SummaryBody.totalAccountsExposed
  BY PagesAssumption DEF theSummary, summaryFromDTO, BreachSummaryDTO
<1> QED BY <1>1, PagesAssumption DEF BreachSummaryDTO

LEMMA BareType == \A s \in {"idle", "loading", "failed"} :
    Catalog!Bare(s) \in [status : Catalog!ListStatus, empty : BOOLEAN, more : BOOLEAN]
      /\ Catalog!Bare(s).status = s
BY DEF Catalog!Bare, Catalog!ListStatus

-----------------------------------------------------------------------------
(* What the catalog's own steps leave of its types and of the rows.        *)
LEMMA CatalogSteps ==
    ASSUME CatalogType
    PROVE  /\ Catalog!Load \/ Catalog!LoadMore \/ Catalog!Retry
                \/ Catalog!SummaryAnswers \/ Catalog!ListAnswers
                => CatalogType' /\ filters' = filters
           /\ \A f \in Filters : Catalog!SetFilters(f) => CatalogType' /\ filters' = f
<1> USE DEF CatalogType
<1>1. ASSUME Catalog!Load \/ Catalog!Retry PROVE CatalogType' /\ filters' = filters
  BY <1>1, BareType DEF Catalog!Load, Catalog!Retry, Catalog!SummaryStatus
<1>2. ASSUME Catalog!LoadMore PROVE CatalogType' /\ filters' = filters
  BY <1>2 DEF Catalog!LoadMore, Catalog!ListStatus
<1>3. ASSUME Catalog!SummaryAnswers PROVE CatalogType' /\ filters' = filters
  BY <1>3 DEF Catalog!SummaryAnswers, Catalog!SummaryStatus
<1>4. ASSUME Catalog!ListAnswers PROVE CatalogType' /\ filters' = filters
  <2>1. UNCHANGED <<summary, filters>>
    BY <1>4 DEF Catalog!ListAnswers
  <2>2. CASE list.status = "loading"
    <3>1. \/ list' = Catalog!Bare("failed")
          \/ \E empty, more \in BOOLEAN :
                 list' = [status |-> "ready", empty |-> empty, more |-> more]
      BY <1>4, <2>2 DEF Catalog!ListAnswers
    <3> QED BY <2>1, <3>1, BareType DEF Catalog!ListStatus
  <2>3. CASE list.status = "loadingMore"
    <3>1. \E more \in BOOLEAN : list' = [list EXCEPT !.status = "ready", !.more = more]
      BY <1>4, <2>3 DEF Catalog!ListAnswers
    <3> QED BY <2>1, <3>1 DEF Catalog!ListStatus
  <2> QED BY <1>4, <2>2, <2>3 DEF Catalog!ListAnswers
<1>5. ASSUME NEW f \in Filters, Catalog!SetFilters(f) PROVE CatalogType' /\ filters' = f
  BY <1>5, BareType DEF Catalog!SetFilters
<1> QED BY <1>1, <1>2, <1>3, <1>4, <1>5

(* The counting figure follows its target on every step of a page.         *)
LEMMA Counted ==
    ASSUME TypeOK, FigureInv, CatalogType', OnPage
    PROVE  frame' \in BOOLEAN /\ counted' \in Nat /\ FigureInv'
<1>1. UNCHANGED <<path, counted>>
  BY DEF OnPage, CountEffect
<1>2. counts \in BOOLEAN /\ counts' \in BOOLEAN
  BY DEF counts
<1>3. frame' = IF path # Result THEN FALSE
               ELSE IF target' = target /\ counts' = counts THEN frame ELSE counts'
  BY DEF OnPage, CountEffect
<1>4. frame' \in BOOLEAN /\ counted' \in Nat
  BY <1>1, <1>2, <1>3 DEF TypeOK
<1>5. ASSUME path = Result, counts', ~ frame' PROVE counted = target'
  <2>1. target' = target /\ counts' = counts
    BY <1>3, <1>5
  <2>2. counts /\ ~ frame
    BY <1>3, <1>5, <2>1
  <2> QED BY <1>5, <2>1, <2>2 DEF FigureInv
<1> QED BY <1>1, <1>4, <1>5 DEF FigureInv

-----------------------------------------------------------------------------
(* A page that mounts starts from what is in force.                        *)
LEMMA Mounted ==
    ASSUME NEW p \in Screens, CatalogType', variant' \in Tone \cup {NoVariant}, MountPage(p)
    PROVE  IInv'
<1>1. /\ path' = p /\ rendered' = filters' /\ text' = textOf(filters'.q) /\ lastSent' = filters'.q
      /\ pause' = FALSE /\ overtaken' = FALSE /\ expanded' = FALSE /\ elapsed' = FALSE
      /\ counted' = 0 /\ dashboard' \in {"loading", "closed"}
  BY DEF MountPage, SearchField, LoadStatus
<1>2. filters'.q \in Queries \cup {NoQuery}
  BY FilterTypes DEF CatalogType
<1>3. frame' = (p = Result /\ counts') /\ counts' \in BOOLEAN
  BY DEF MountPage, counts
<1>4. TypeOK'
  BY <1>1, <1>2, <1>3, TextOfQuery DEF TypeOK, CatalogType, LoadStatus
<1>5. BoxInv'
  BY <1>1, <1>2, TextOfQuery DEF BoxInv
<1>6. FigureInv'
  BY <1>1, <1>3, SummaryType DEF FigureInv
<1>7. RowInv'
  BY <1>1 DEF RowInv
<1> QED BY <1>4, <1>5, <1>6, <1>7 DEF IInv

LEMMA FreshStep ==
    ASSUME NEW p \in Screens, FreshCatalog(p)
    PROVE  CatalogType' /\ variant' = NoVariant /\ filters' = NoFilters
             /\ (p = Result => list'.status = "loading")
<1>1. summary' \in {"loading", "idle"} /\ list' = Catalog!Bare(summary')
  BY DEF FreshCatalog
<1>2. p = Result => summary' = "loading"
  BY DEF FreshCatalog, CatalogReaders
<1> QED BY <1>1, <1>2, BareType, NoFiltersType
        DEF FreshCatalog, CatalogType, Catalog!SummaryStatus

LEMMA Initially == Init => IInv
<1> SUFFICES ASSUME Init PROVE IInv
  OBVIOUS
<1>1. summary \in {"loading", "idle"} /\ list = Catalog!Bare(summary)
  BY DEF Init
<1>2. path \in Screens /\ dashboard \in LoadStatus \cup {"closed"}
  BY DEF Init, Screens, Paths, Funnel, LoadStatus
<1>3. TypeOK
  BY <1>1, <1>2, BareType, NoFiltersType, PagesAssumption DEF Init, TypeOK, Catalog!SummaryStatus
<1>4. BoxInv
  BY NoFiltersType, PagesAssumption DEF Init, BoxInv, toQuery
<1>5. FigureInv
  <2>1. path = Result => summary = "loading"
    BY DEF Init, CatalogReaders
  <2>2. counted = 0 /\ (path = Result => target = 0)
    BY <2>1 DEF Init, target
  <2>3. 0 <= theSummary.totalAccountsExposed
    BY SummaryType
  <2> QED BY <2>2, <2>3 DEF FigureInv
<1>6. RowInv
  BY DEF Init, RowInv
<1> QED BY <1>3, <1>4, <1>5, <1>6 DEF IInv

LEMMA MoveStep ==
    ASSUME IInv, NEW p \in Screens, Open(p) \/ Go(p) \/ (Complete /\ p = Result)
    PROVE  IInv'
<1>1. CASE Open(p)
  BY <1>1, FreshStep, Mounted DEF Open
<1>2. CASE Go(p)
  <2>1. MountPage(p) /\ (SameCatalog(p) \/ FreshCatalog(p))
    BY <1>2 DEF Go
  <2>2. CASE SameCatalog(p)
    <3>1. CatalogType' /\ variant' = variant
      BY <2>2, CatalogSteps DEF SameCatalog, IInv, TypeOK, CatalogType, provider
    <3> QED BY <2>1, <3>1, Mounted DEF IInv, TypeOK
  <2> QED BY <2>1, <2>2, FreshStep, Mounted
<1>3. CASE Complete /\ p = Result
  <2>1. CatalogType' /\ variant' = variant /\ MountPage(p)
    BY <1>3 DEF Complete, IInv, TypeOK, CatalogType, provider
  <2> QED BY <2>1, Mounted DEF IInv, TypeOK
<1> QED BY <1>1, <1>2, <1>3

-----------------------------------------------------------------------------
(* The answers, the timers and the frames.                                 *)
LEMMA RowsKept == ASSUME KeepRows PROVE RowInv' /\ (expanded \in BOOLEAN => expanded' \in BOOLEAN)
BY DEF KeepRows, RowInv

LEMMA AnswerStep ==
    ASSUME IInv, SummaryAnswers \/ ListAnswers
    PROVE  IInv'
<1> USE DEF IInv
<1>1. /\ UNCHANGED <<rendered, text, lastSent, pause, overtaken, elapsed, variant, path, dashboard>>
      /\ OnPage /\ KeepRows
  BY DEF SummaryAnswers, ListAnswers, bar, OnPage
<1>2. CatalogType' /\ filters' = filters
  BY CatalogSteps DEF SummaryAnswers, ListAnswers, TypeOK, CatalogType
<1>3. TypeOK'
  BY <1>1, <1>2, Counted, RowsKept DEF TypeOK, CatalogType
<1>4. BoxInv'
  BY <1>1, <1>2 DEF BoxInv
<1> QED BY <1>1, <1>2, <1>3, <1>4, Counted, RowsKept

LEMMA QuietStep ==
    ASSUME IInv, VisitorAnswers \/ MomentEnds \/ DashboardAnswers \/ DashboardRetry
    PROVE  IInv'
<1> USE DEF IInv
<1>1. UNCHANGED <<summary, list, filters, rendered, text, lastSent, pause, overtaken, path, expanded>>
  BY DEF VisitorAnswers, MomentEnds, DashboardAnswers, DashboardRetry, provider, bar, OnPage
<1>2. /\ elapsed' \in BOOLEAN /\ variant' \in Tone \cup {NoVariant}
      /\ dashboard' \in LoadStatus \cup {"closed"}
  BY DEF VisitorAnswers, MomentEnds, DashboardAnswers, DashboardRetry, OnPage, TypeOK, LoadStatus
<1>3. CatalogType' /\ RowInv' /\ BoxInv'
  BY <1>1 DEF TypeOK, CatalogType, RowInv, showsRows, Catalog!hasItems, BoxInv
<1>4. frame' \in BOOLEAN /\ counted' \in Nat /\ FigureInv'
  <2>1. CASE OnPage
    BY <1>3, <2>1, Counted
  <2>2. CASE DashboardAnswers \/ DashboardRetry
    BY <2>2 DEF DashboardAnswers, DashboardRetry, provider, figure, TypeOK, FigureInv, counts, tone,
                target
  <2> QED BY <2>1, <2>2 DEF VisitorAnswers, MomentEnds
<1>5. TypeOK'
  BY <1>1, <1>2, <1>4 DEF TypeOK
<1> QED BY <1>3, <1>4, <1>5

LEMMA FrameStep ==
    ASSUME IInv, FrameTicks \/ LastFrame
    PROVE  IInv'
<1> USE DEF IInv
<1>1. UNCHANGED <<path, summary, list, filters, rendered, text, lastSent, pause, overtaken, expanded,
                  elapsed, variant, dashboard>>
  BY DEF FrameTicks, LastFrame, provider, bar
<1>2. target \in Nat /\ target' = target
  BY <1>1, SummaryType DEF target
<1> target <= theSummary.totalAccountsExposed
  BY SummaryType DEF target
<1>3. /\ counted' \in Nat /\ frame' \in BOOLEAN /\ (~ frame' => counted' = target)
      /\ counted' <= theSummary.totalAccountsExposed
  <2>1. CASE FrameTicks
    <3>1. counted' \in 0..target /\ frame /\ frame' = frame
      BY <2>1 DEF FrameTicks
    <3> QED BY <1>2, <3>1, SummaryType
  <2>2. CASE LastFrame
    BY <1>2, <2>2, SummaryType DEF LastFrame
  <2> QED BY <2>1, <2>2
<1>4. TypeOK' /\ FigureInv'
  BY <1>1, <1>2, <1>3 DEF TypeOK, FigureInv, Screens
<1>5. BoxInv' /\ RowInv'
  BY <1>1 DEF BoxInv, RowInv, showsRows, Catalog!hasItems
<1> QED BY <1>4, <1>5

(* Retry, a later page and a row's details: rendered, and nothing typed.   *)
LEMMA ListStep ==
    ASSUME IInv, Retry \/ LoadMore \/ handleToggle
    PROVE  IInv'
<1> USE DEF IInv
<1>1. /\ UNCHANGED <<text, lastSent, pause, overtaken, elapsed, variant, path, dashboard>>
      /\ rendered' = filters /\ OnPage
  BY DEF Retry, LoadMore, handleToggle, OnPage
<1>2. CatalogType' /\ filters' = filters
  BY CatalogSteps DEF Retry, LoadMore, handleToggle, TypeOK, CatalogType, provider
<1>3. RowInv' /\ expanded' \in BOOLEAN
  <2>1. CASE handleToggle
    BY <1>1, <2>1 DEF handleToggle, RowInv, showsRows, Catalog!hasItems, provider
  <2> QED BY <2>1, RowsKept DEF Retry, LoadMore, TypeOK
<1>4. TypeOK'
  BY <1>1, <1>2, <1>3, Counted DEF TypeOK, CatalogType
<1>5. BoxInv'
  BY <1>1, <1>2 DEF BoxInv
<1> QED BY <1>1, <1>2, <1>3, <1>4, <1>5, Counted

-----------------------------------------------------------------------------
(* The search box.                                                         *)
LEMMA TypeStep == ASSUME IInv, NEW t \in Texts, Type(t) PROVE IInv'
<1> USE DEF IInv
<1>1. /\ UNCHANGED <<summary, list, filters, rendered, lastSent, overtaken, expanded, elapsed, variant,
                     path, dashboard>>
      /\ text' = t /\ pause' = (toQuery(t) # lastSent) /\ OnPage
  BY DEF Type, provider, OnPage
<1>2. CatalogType'
  BY <1>1 DEF TypeOK, CatalogType
<1>3. TypeOK'
  BY <1>1, <1>2, Counted DEF TypeOK
<1>4. BoxInv' /\ RowInv'
  BY <1>1 DEF BoxInv, RowInv, showsRows, Catalog!hasItems
<1> QED BY <1>1, <1>2, <1>3, <1>4, Counted

LEMMA PauseStep == ASSUME IInv, PauseEnds PROVE IInv'
<1> USE DEF IInv
<1> DEFINE q == toQuery(text)
           f == [rendered EXCEPT !.q = q]
<1>1. /\ UNCHANGED <<rendered, text, elapsed, variant, path, dashboard>>
      /\ pause' = FALSE /\ overtaken' = FALSE /\ lastSent' = q
      /\ Catalog!SetFilters(f) /\ OnPage /\ KeepRows
  BY DEF PauseEnds, OnPage
<1>2. q \in Queries \cup {NoQuery} /\ f \in Filters /\ f.q = q
  BY QueryOfText, FilterTypes DEF TypeOK
<1>3. CatalogType' /\ filters' = f
  BY <1>1, <1>2, CatalogSteps DEF TypeOK, CatalogType
<1>4. toQuery(text') = q
  BY <1>1
<1> HIDE DEF q, f
<1>5. TypeOK'
  BY <1>1, <1>2, <1>3, Counted, RowsKept DEF TypeOK, CatalogType
<1>6. BoxInv'
  BY <1>1, <1>2, <1>3, <1>4 DEF BoxInv
<1> QED BY <1>1, <1>3, <1>5, <1>6, Counted, RowsKept

(* Adopting a query leaves a box at rest in agreement with what it holds.  *)
LEMMA Adopted ==
    ASSUME IInv, NEW f \in Filters, Adopt(f)
    PROVE  /\ rendered' = f
           /\ text' \in Texts /\ lastSent' \in Queries \cup {NoQuery} /\ pause' \in BOOLEAN
           /\ ~ pause' => toQuery(text') = lastSent'
           /\ f.q \in {rendered.q, lastSent} => UNCHANGED <<text, lastSent>>
           /\ f.q \notin {rendered.q, lastSent} => lastSent' = f.q /\ text' = textOf(f.q)
<1>1. f.q \in Queries \cup {NoQuery}
  BY FilterTypes
<1>2. CASE f.q \in {rendered.q, lastSent}
  BY <1>2 DEF Adopt, IInv, TypeOK, BoxInv
<1>3. CASE f.q \notin {rendered.q, lastSent}
  <2>1. text' = textOf(f.q) /\ lastSent' = f.q /\ pause' = (pause /\ text = textOf(f.q))
    BY <1>3 DEF Adopt
  <2> QED BY <1>1, <1>3, <2>1, TextOfQuery DEF Adopt
<1> QED BY <1>2, <1>3

LEMMA RenderStep == ASSUME IInv, Render PROVE IInv'
<1> USE DEF IInv
<1>1. /\ UNCHANGED <<summary, list, filters, overtaken, expanded, elapsed, variant, path, dashboard>>
      /\ Adopt(filters) /\ rendered # filters /\ OnPage
  BY DEF Render, provider, OnPage
<1>2. CatalogType' /\ filters \in Filters
  BY <1>1 DEF TypeOK, CatalogType
<1>3. filters.q = lastSent
  BY <1>1 DEF BoxInv, TypeOK
<1>4. TypeOK'
  BY <1>1, <1>2, Adopted, Counted DEF TypeOK
<1>5. BoxInv'
  BY <1>1, <1>2, <1>3, Adopted DEF BoxInv
<1>6. RowInv'
  BY <1>1 DEF RowInv, showsRows, Catalog!hasItems
<1> QED BY <1>1, <1>2, <1>4, <1>5, <1>6, Counted

LEMMA PressStep == ASSUME IInv, NEW f \in Filters, Press(f), UNCHANGED <<path, dashboard>> PROVE IInv'
<1> USE DEF IInv
<1>1. /\ UNCHANGED <<elapsed, variant, path, dashboard>>
      /\ Catalog!SetFilters(f) /\ Adopt(f) /\ OnPage /\ KeepRows
      /\ overtaken' = (f.q \in {rendered.q, lastSent} /\ (overtaken \/ rendered.q # filters.q))
  BY DEF Press
<1>2. CatalogType' /\ filters' = f
  BY <1>1, CatalogSteps DEF TypeOK, CatalogType
<1>3. TypeOK'
  BY <1>1, <1>2, Adopted, Counted, RowsKept DEF TypeOK, CatalogType
<1>4. BoxInv'
  <2>1. ~ overtaken' => filters'.q = lastSent'
    <3>1. CASE f.q \notin {rendered.q, lastSent}
      BY <1>1, <1>2, <3>1, Adopted
    <3>2. CASE f.q \in {rendered.q, lastSent} /\ ~ overtaken'
      <4>1. ~ overtaken /\ rendered.q = filters.q
        BY <1>1, <3>2
      <4> QED BY <1>1, <1>2, <3>2, <4>1, Adopted DEF BoxInv
    <3> QED BY <3>1, <3>2
  <2> QED BY <1>1, <1>2, <2>1, Adopted DEF BoxInv
<1> QED BY <1>1, <1>2, <1>3, <1>4, Counted, RowsKept

(* The four presses of the bar.                                            *)
LEMMA Presses ==
    ASSUME IInv, \/ \E option \in SortOption : handleSort(option)
                 \/ \E class \in DataClasses : handleDataClass(class)
                 \/ handleVerifiedOnly \/ handleClearFilters
    PROVE  \E f \in Filters : Press(f) /\ f.q \in {rendered.q, NoQuery} /\ path = Result
<1>1. rendered \in Filters
  BY DEF IInv, TypeOK
<1>2. ASSUME NEW option \in SortOption, handleSort(option)
      PROVE  \E f \in Filters : Press(f) /\ f.q \in {rendered.q, NoQuery} /\ path = Result
  BY <1>1, <1>2, FilterTypes DEF handleSort
<1>3. ASSUME NEW class \in DataClasses, handleDataClass(class)
      PROVE  \E f \in Filters : Press(f) /\ f.q \in {rendered.q, NoQuery} /\ path = Result
  <2>1. toggled(rendered, class) \in DataClasses \cup {NoClass}
    BY DEF toggled
  <2> QED BY <1>1, <1>3, <2>1, FilterTypes DEF handleDataClass, showsTiles
<1>4. ASSUME handleVerifiedOnly
      PROVE  \E f \in Filters : Press(f) /\ f.q \in {rendered.q, NoQuery} /\ path = Result
  <2>1. Press([rendered EXCEPT !.verifiedOnly = ~ rendered.verifiedOnly]) /\ path = Result
    BY <1>4 DEF handleVerifiedOnly
  <2>2. (~ rendered.verifiedOnly) \in BOOLEAN
    OBVIOUS
  <2> QED BY <1>1, <2>1, <2>2, FilterTypes
<1>5. ASSUME handleClearFilters
      PROVE  \E f \in Filters : Press(f) /\ f.q \in {rendered.q, NoQuery} /\ path = Result
  <2>1. Press(withoutFilters(rendered)) /\ path = Result
    BY <1>5 DEF handleClearFilters, offersClear, showsEmptyState
  <2> QED BY <1>1, <2>1, FilterTypes
<1> QED BY <1>2, <1>3, <1>4, <1>5

-----------------------------------------------------------------------------
(* A throw and the way out of it are documents of their own.               *)
LEMMA Boundary == Throw \/ handleReload => \E p \in Screens : Open(p)
BY DEF Throw, handleReload, Screens

LEMMA Invariant == Spec => []IInv
<1>1. IInv /\ [Next]_vars => IInv'
  <2> SUFFICES ASSUME IInv, [Next]_vars PROVE IInv'
    OBVIOUS
  <2>1. ASSUME NEW p \in Screens, Open(p) \/ Go(p) PROVE IInv'
    BY <2>1, MoveStep
  <2>2. CASE Complete
    BY <2>2, MoveStep DEF Screens, Paths, Funnel
  <2>3. CASE \/ \E option \in SortOption : handleSort(option)
             \/ \E class \in DataClasses : handleDataClass(class)
             \/ handleVerifiedOnly \/ handleClearFilters
    BY <2>3, Presses, PressStep DEF Press, OnPage
  <2>4. CASE UNCHANGED vars
    <3>1. UNCHANGED <<path, summary, list, filters, rendered, text, lastSent, pause, overtaken, expanded,
                      elapsed, variant, counted, frame, dashboard>>
      BY <2>4 DEF vars, provider, bar, figure
    <3>2. TypeOK' /\ BoxInv'
      BY <3>1 DEF IInv, TypeOK, BoxInv
    <3>3. FigureInv' /\ RowInv'
      BY <3>1 DEF IInv, FigureInv, counts, tone, target, RowInv, showsRows, Catalog!hasItems
    <3> QED BY <3>2, <3>3 DEF IInv
  <2>5. CASE Visitor
    BY <2>1, <2>3, <2>5, Boundary, ListStep, TypeStep, QuietStep DEF Visitor, Screens
  <2>6. CASE Browser
    BY <2>1, <2>2, <2>6, Boundary, AnswerStep, QuietStep, PauseStep, RenderStep, FrameStep DEF Browser
  <2> QED BY <2>4, <2>5, <2>6 DEF Next
<1> QED BY Initially, <1>1, PTL DEF Spec

(* Every screen's state keeps its type, whatever the visitor does.         *)
THEOREM TypeCorrect == Spec => []TypeOK
<1>1. IInv => TypeOK
  BY DEF IInv
<1> QED BY Invariant, <1>1, PTL

(* A box at rest says what is searched for (SearchField.tsx:1-4).          *)
THEOREM TheBoxAgrees == Spec => []BoxAgrees
<1>1. IInv => BoxAgrees
  BY DEF IInv, BoxInv, BoxAgrees
<1> QED BY Invariant, <1>1, PTL

(* Tiles at rest state the summary (BF63), and a figure on its way never   *)
(* reads above it.                                                         *)
THEOREM TheFigureIsTrue == Spec => []FigureIsTrue
<1>1. IInv => FigureIsTrue
  <2> SUFFICES ASSUME IInv, showsTiles
               PROVE  /\ ~ frame => shown = theSummary.totalAccountsExposed
                      /\ CountRead(formatCount(shown))
                           <= CountRead(formatCount(theSummary.totalAccountsExposed))
    BY DEF FigureIsTrue, tiles
  <2>1. target = theSummary.totalAccountsExposed /\ path = Result
    BY DEF showsTiles, target
  <2>2. ~ frame => shown = theSummary.totalAccountsExposed
    BY <2>1 DEF IInv, FigureInv, shown
  <2>3. shown \in Nat /\ shown <= theSummary.totalAccountsExposed
    BY <2>1, SummaryType DEF IInv, TypeOK, FigureInv, shown
  <2> QED BY <2>2, <2>3, SummaryType, CountsReadInOrder
<1> QED BY Invariant, <1>1, PTL

-----------------------------------------------------------------------------
(* The box changes under a visitor only to be emptied, when the query in   *)
(* force was cleared outside it (SearchField.tsx:25-40).                   *)
LEMMA BoxStep ==
    ASSUME IInv, Next, path = Result, path' = Result, text' # text,
           <<provider, rendered>>' # <<provider, rendered>>
    PROVE  text' = "" /\ filters'.q = NoQuery
<1>1. ASSUME NEW p \in Screens, Open(p) PROVE text' = "" /\ filters'.q = NoQuery
  <2>1. filters' = NoFilters /\ text' = textOf(filters'.q)
    BY <1>1, FreshStep DEF Open, MountPage, SearchField
  <2> QED BY <2>1, NoFiltersType, TextOfQuery
<1>2. ~ \E p \in Paths : Go(p)
  BY DEF Go, MountPage
<1>3. ~ Complete
  BY DEF Complete, Scan, Result
<1>4. ASSUME NEW f \in Filters, Press(f), f.q \in {rendered.q, NoQuery}
      PROVE  text' = "" /\ filters'.q = NoQuery
  <2>1. f.q = NoQuery /\ text' = textOf(f.q)
    BY <1>4, Adopted DEF Press
  <2>2. filters' = f
    BY <1>4, CatalogSteps DEF Press, IInv, TypeOK, CatalogType
  <2> QED BY <2>1, <2>2, TextOfQuery
<1>5. ~ Render
  <2> SUFFICES ASSUME Render PROVE text' = text
    OBVIOUS
  <2>1. filters \in Filters /\ filters.q = lastSent /\ Adopt(filters)
    BY DEF Render, IInv, BoxInv, TypeOK
  <2> QED BY <2>1, Adopted
<1>6. ~ \E t \in Texts : Type(t)
  BY DEF Type, provider
<1>7. ~ (\/ Retry \/ LoadMore \/ handleToggle \/ DashboardRetry
         \/ SummaryAnswers \/ ListAnswers \/ VisitorAnswers \/ DashboardAnswers
         \/ MomentEnds \/ PauseEnds \/ FrameTicks \/ LastFrame)
  BY DEF Retry, LoadMore, handleToggle, DashboardRetry, SummaryAnswers, ListAnswers, VisitorAnswers,
         DashboardAnswers, MomentEnds, PauseEnds, FrameTicks, LastFrame, bar
<1>8. CASE Visitor
  BY <1>1, <1>2, <1>4, <1>6, <1>7, <1>8, Presses, Boundary DEF Visitor, Screens
<1>9. CASE Browser
  BY <1>1, <1>3, <1>5, <1>7, <1>9, Boundary DEF Browser
<1> QED BY <1>8, <1>9 DEF Next

THEOREM TheBoxIsTheirs == Spec => OnlyClearingEmptiesTheBox
<1>1. IInv /\ [Next]_vars =>
        [path = Result /\ path' = Result /\ text' # text
           /\ <<provider, rendered>>' # <<provider, rendered>> => text' = "" /\ filters'.q = NoQuery]_vars
  BY BoxStep
<1> QED BY Invariant, <1>1, PTL DEF Spec, OnlyClearingEmptiesTheBox

-----------------------------------------------------------------------------
(* A later page coming or failing closes no details.                       *)
LEMMA RowsStep ==
    ASSUME IInv, Next, expanded, ~ expanded', list' # list, path' = path
    PROVE  list'.status = "loading"
<1>1. path = Result /\ list.status \in {"ready", "loadingMore"} /\ ~ list.empty
  BY DEF IInv, RowInv, showsRows, Catalog!hasItems
<1>2. ASSUME NEW p \in Screens, Open(p) PROVE list'.status = "loading"
  <2>1. p = Result
    BY <1>1, <1>2 DEF Open, MountPage
  <2> QED BY <1>2, <2>1, FreshStep DEF Open
<1>3. ~ (Complete \/ \E p \in Paths : Go(p))
  BY <1>1 DEF Complete, Scan, Result, Go, MountPage
<1>4. ASSUME KeepRows PROVE list'.status \notin {"ready", "loadingMore"} \/ list'.empty
  BY <1>1, <1>4 DEF KeepRows, showsRows, Catalog!hasItems
<1>5. ASSUME NEW f \in Filters, Catalog!SetFilters(f) PROVE list'.status = "loading"
  BY <1>5, BareType DEF Catalog!SetFilters
<1>6. list \in [status : Catalog!ListStatus, empty : BOOLEAN, more : BOOLEAN]
  BY DEF IInv, TypeOK
<1>7. ~ ListAnswers
  <2> SUFFICES ASSUME ListAnswers PROVE FALSE
    OBVIOUS
  <2>1. \E more \in BOOLEAN : list' = [list EXCEPT !.status = "ready", !.more = more]
    BY <1>1 DEF ListAnswers, Catalog!ListAnswers
  <2>2. list'.status = "ready" /\ ~ list'.empty
    BY <1>1, <1>6, <2>1
  <2> QED BY <1>4, <2>2 DEF ListAnswers
<1>8. ~ LoadMore
  <2> SUFFICES ASSUME LoadMore PROVE FALSE
    OBVIOUS
  <2>1. list'.status = "loadingMore" /\ ~ list'.empty
    BY <1>1, <1>6 DEF LoadMore, Catalog!LoadMore
  <2> QED BY <1>4, <2>1 DEF LoadMore
<1>9. ASSUME Retry PROVE list'.status = "loading"
  BY <1>9, BareType DEF Retry, Catalog!Retry
<1>10. ASSUME PauseEnds PROVE list'.status = "loading"
  <2>1. [rendered EXCEPT !.q = toQuery(text)] \in Filters
    BY QueryOfText, FilterTypes DEF IInv, TypeOK
  <2> QED BY <1>5, <1>10, <2>1 DEF PauseEnds
<1>11. ~ (\/ handleToggle \/ DashboardRetry \/ SummaryAnswers \/ VisitorAnswers \/ DashboardAnswers
          \/ MomentEnds \/ Render \/ FrameTicks \/ LastFrame \/ \E t \in Texts : Type(t))
  BY DEF handleToggle, DashboardRetry, SummaryAnswers, Catalog!SummaryAnswers, VisitorAnswers,
         DashboardAnswers, MomentEnds, Render, FrameTicks, LastFrame, Type, provider
<1>12. CASE Visitor
  BY <1>2, <1>3, <1>5, <1>8, <1>9, <1>11, <1>12, Presses, Boundary DEF Visitor, Press, Screens
<1>13. CASE Browser
  BY <1>2, <1>3, <1>7, <1>10, <1>11, <1>13, Boundary DEF Browser
<1> QED BY <1>12, <1>13 DEF Next

THEOREM DetailsStayOpen == Spec => ReadingIsKept
<1>1. IInv /\ [Next]_vars =>
        [expanded /\ ~ expanded' /\ list' # list => (list'.status = "loading" \/ path' # path)]_vars
  BY RowsStep
<1> QED BY Invariant, <1>1, PTL DEF Spec, ReadingIsKept

-----------------------------------------------------------------------------
(* Selections a visitor can tell apart, and the pages of one, are          *)
(* different requests: no filter is lost on the way to the query string,   *)
(* and what is left out of it for being the server's default reads back as *)
(* that (breaches.utils.ts:9-10, BreachCatalogProvider.utils.ts:184-185).  *)
THEOREM RequestsAreToldApart ==
    ASSUME "" \notin DataClasses \cup {NoClass, NoQuery},
           NEW f \in Filters, NEW g \in Filters, NEW page \in Nat \ {0}, NEW other \in Nat \ {0},
           buildBreachesQuery(toListQuery(f, page)) = buildBreachesQuery(toListQuery(g, other))
    PROVE  f = g /\ page = other
<1> DEFINE Sent(query, key) == {v \in query[key] : isSet(key, v)}
           Keys == {"q", "dataClass", "verifiedOnly", "sort", "order", "page"}
<1>1. ASSUME NEW h \in Filters, NEW i \in Nat \ {0}
      PROVE  DOMAIN toListQuery(h, i) = Keys
  BY DEF toListQuery
<1>2. ASSUME NEW h \in Filters, NEW i \in Nat \ {0}, NEW key \in Keys, NEW v
      PROVE  <<key, v>> \in buildBreachesQuery(toListQuery(h, i))
               <=> v \in Sent(toListQuery(h, i), key)
  <2> DEFINE Q == toListQuery(h, i)
             Part(k) == {<<k, value>> : value \in {u \in Q[k] : isSet(k, u)}}
  <2>1. buildBreachesQuery(Q) = UNION {Part(k) : k \in Keys}
    BY <1>1 DEF buildBreachesQuery
  <2> HIDE DEF Q, Keys
  <2>2. ASSUME NEW k \in Keys
        PROVE  <<key, v>> \in Part(k) <=> (k = key /\ v \in Sent(Q, key))
    OBVIOUS
  <2> HIDE DEF Part
  <2>3. <<key, v>> \in UNION {Part(k) : k \in Keys} <=> \E k \in Keys : <<key, v>> \in Part(k)
    OBVIOUS
  <2> QED BY <2>1, <2>2, <2>3 DEF Q
<1>3. ASSUME NEW key \in Keys
      PROVE  Sent(toListQuery(f, page), key) = Sent(toListQuery(g, other), key)
  <2> HIDE DEF Sent, Keys
  <2>1. \A v : v \in Sent(toListQuery(f, page), key) <=> v \in Sent(toListQuery(g, other), key)
    BY <1>2
  <2> QED BY <2>1
<1>4. ASSUME NEW h \in Filters, NEW i \in Nat \ {0}
      PROVE  /\ Sent(toListQuery(h, i), "q") = {h.q} \ {NoQuery}
             /\ Sent(toListQuery(h, i), "dataClass") = {h.dataClass} \ {NoClass}
             /\ Sent(toListQuery(h, i), "verifiedOnly") = IF h.verifiedOnly THEN {TRUE} ELSE {}
             /\ Sent(toListQuery(h, i), "sort") = sortOptionMap[h.sort].sort
             /\ Sent(toListQuery(h, i), "page") = {i} \ {1}
  <2>1. Sent(toListQuery(h, i), "q") = {h.q} \ {NoQuery}
    BY PagesAssumption DEF toListQuery, isSet, Filters
  <2>2. Sent(toListQuery(h, i), "dataClass") = {h.dataClass} \ {NoClass}
    BY DEF toListQuery, isSet, Filters
  <2>3. Sent(toListQuery(h, i), "verifiedOnly") = IF h.verifiedOnly THEN {TRUE} ELSE {}
    BY DEF toListQuery, isSet
  <2>4. Sent(toListQuery(h, i), "sort") = sortOptionMap[h.sort].sort
    BY DEF toListQuery, isSet
  <2>5. Sent(toListQuery(h, i), "page") = {i} \ {1}
    BY DEF toListQuery, isSet
  <2> QED BY <2>1, <2>2, <2>3, <2>4, <2>5
<1>5. /\ {f.q} \ {NoQuery} = {g.q} \ {NoQuery}
      /\ {f.dataClass} \ {NoClass} = {g.dataClass} \ {NoClass}
      /\ (IF f.verifiedOnly THEN {TRUE} ELSE {}) = (IF g.verifiedOnly THEN {TRUE} ELSE {})
      /\ sortOptionMap[f.sort].sort = sortOptionMap[g.sort].sort
      /\ {page} \ {1} = {other} \ {1}
  <2> HIDE DEF Sent
  <2>1. Sent(toListQuery(f, page), "q") = Sent(toListQuery(g, other), "q")
    BY <1>3
  <2>2. Sent(toListQuery(f, page), "dataClass") = Sent(toListQuery(g, other), "dataClass")
    BY <1>3
  <2>3. Sent(toListQuery(f, page), "verifiedOnly") = Sent(toListQuery(g, other), "verifiedOnly")
    BY <1>3
  <2>4. Sent(toListQuery(f, page), "sort") = Sent(toListQuery(g, other), "sort")
    BY <1>3
  <2>5. Sent(toListQuery(f, page), "page") = Sent(toListQuery(g, other), "page")
    BY <1>3
  <2>6. /\ Sent(toListQuery(f, page), "q") = {f.q} \ {NoQuery}
        /\ Sent(toListQuery(f, page), "dataClass") = {f.dataClass} \ {NoClass}
        /\ Sent(toListQuery(f, page), "verifiedOnly") = IF f.verifiedOnly THEN {TRUE} ELSE {}
        /\ Sent(toListQuery(f, page), "sort") = sortOptionMap[f.sort].sort
        /\ Sent(toListQuery(f, page), "page") = {page} \ {1}
    BY <1>4
  <2>7. /\ Sent(toListQuery(g, other), "q") = {g.q} \ {NoQuery}
        /\ Sent(toListQuery(g, other), "dataClass") = {g.dataClass} \ {NoClass}
        /\ Sent(toListQuery(g, other), "verifiedOnly") = IF g.verifiedOnly THEN {TRUE} ELSE {}
        /\ Sent(toListQuery(g, other), "sort") = sortOptionMap[g.sort].sort
        /\ Sent(toListQuery(g, other), "page") = {other} \ {1}
    BY <1>4
  <2> QED BY <2>1, <2>2, <2>3, <2>4, <2>5, <2>6, <2>7
<1>6. f.q = g.q
  <2>1. f.q # NoQuery => f.q \in {g.q} \ {NoQuery}
    BY <1>5
  <2>2. g.q # NoQuery => g.q \in {f.q} \ {NoQuery}
    BY <1>5
  <2> QED BY <2>1, <2>2
<1>7. f.dataClass = g.dataClass
  <2>1. f.dataClass # NoClass => f.dataClass \in {g.dataClass} \ {NoClass}
    BY <1>5
  <2>2. g.dataClass # NoClass => g.dataClass \in {f.dataClass} \ {NoClass}
    BY <1>5
  <2> QED BY <2>1, <2>2
<1>8. f.verifiedOnly = g.verifiedOnly
  BY <1>5 DEF Filters
<1>9. f.sort = g.sort
  <2>1. /\ sortOptionMap["Newest"].sort = {} /\ sortOptionMap["MostAccounts"].sort = {"pwnCount"}
        /\ sortOptionMap["Name"].sort = {"name"}
    BY DEF sortOptionMap
  <2>2. {"pwnCount"} # {} /\ {"name"} # {} /\ {"name"} # {"pwnCount"}
    OBVIOUS
  <2>3. f.sort \in SortOption /\ g.sort \in SortOption
    BY DEF Filters
  <2> QED BY <1>5, <2>1, <2>2, <2>3 DEF SortOption
<1>10. page = other
  <2>1. page # 1 => page \in {other} \ {1}
    BY <1>5
  <2>2. other # 1 => other \in {page} \ {1}
    BY <1>5
  <2> QED BY <2>1, <2>2
<1>11. f = g
  <2>1. /\ f = [q |-> f.q, dataClass |-> f.dataClass, verifiedOnly |-> f.verifiedOnly, sort |-> f.sort]
        /\ g = [q |-> g.q, dataClass |-> g.dataClass, verifiedOnly |-> g.verifiedOnly, sort |-> g.sort]
    BY DEF Filters
  <2> QED BY <1>6, <1>7, <1>8, <1>9, <2>1
<1> QED BY <1>10, <1>11

-----------------------------------------------------------------------------
(* A breach date is the same day wherever the browser is.                  *)
LEMMA DayReadsBack ==
    ASSUME NEW day \in Int
    PROVE  getFullYear(toCalendarDay(day)) = YearOf(day)
<1>1. Offset \in Int
  BY RecordAssumption
<1>2. (1440 * day - Offset + Offset) \div 1440 = day
  BY <1>1
<1> QED BY <1>2 DEF getFullYear, toCalendarDay, MINUTES_A_DAY

(* A row says what the record says, wherever the browser is: the year is   *)
(* the breach date's own, never the year before on the west of Greenwich;  *)
(* the accounts are the record's count as formatCount writes it; a record  *)
(* without a domain has none in its line, and never "null"; each data      *)
(* class has its badge, in its place, and the one in danger is the leaked  *)
(* passwords' (translator.ts:17-19, BreachRow.tsx, BreachRow.utils.ts).    *)
THEOREM RowStatesTheRecord ==
    ASSUME NEW dto \in BreachDTO
    PROVE  LET row == BreachRow(fromDTO(normaliseNulls(dto)))
           IN  /\ row.title = dto.title /\ row.verified = dto.isVerified
               /\ row.meta.domain = {dto.domain} \ {null}
               /\ row.meta.year = YearOf(dto.breachDate)
               /\ row.meta.accounts = formatCount(dto.pwnCount)
               /\ DOMAIN row.badges = 1..Len(dto.dataClasses)
               /\ \A i \in 1..Len(dto.dataClasses) :
                    /\ row.badges[i].dataClass = dto.dataClasses[i]
                    /\ row.badges[i].danger <=> dto.dataClasses[i] = PASSWORDS_DATA_CLASS
<1> DEFINE body == normaliseNulls(dto)
           breach == fromDTO(body)
<1>1. /\ dto.title \in Strings /\ dto.isVerified \in BOOLEAN /\ dto.breachDate \in Int /\ dto.pwnCount \in Nat
      /\ dto.dataClasses \in Seq(Strings) /\ dto.domain \in Strings \cup {null}
      /\ DOMAIN dto = {"name", "title", "domain", "breachDate", "pwnCount", "description",
                       "dataClasses", "isVerified"}
  BY DEF BreachDTO
<1>2. /\ dto.title # null /\ dto.isVerified # null /\ dto.breachDate # null
      /\ dto.dataClasses # null /\ dto.pwnCount # null
  BY <1>1, RecordAssumption
<1>3. /\ \A key \in DOMAIN body : body[key] = dto[key]
      /\ DOMAIN body = {key \in DOMAIN dto : dto[key] # null}
  BY DEF normaliseNulls
<1>4. {"title", "isVerified", "breachDate", "dataClasses", "pwnCount"} \subseteq DOMAIN body
  BY <1>1, <1>2, <1>3
<1> HIDE DEF body
<1>5. /\ DOMAIN breach = DOMAIN body
      /\ breach.breachDate = toCalendarDay(body.breachDate)
      /\ \A key \in DOMAIN body \ {"breachDate"} : breach[key] = body[key]
  BY <1>4 DEF fromDTO
<1> HIDE DEF breach
<1>6. /\ breach.title = dto.title /\ breach.isVerified = dto.isVerified
      /\ breach.dataClasses = dto.dataClasses /\ breach.pwnCount = dto.pwnCount
      /\ breach.breachDate = toCalendarDay(dto.breachDate)
  BY <1>3, <1>4, <1>5
<1>7. {breach[key] : key \in {"domain"} \cap DOMAIN breach} = {dto.domain} \ {null}
  <2>1. CASE dto.domain = null
    <3>1. {"domain"} \cap DOMAIN breach = {}
      BY <1>3, <1>5, <2>1
    <3> QED BY <2>1, <3>1
  <2>2. CASE dto.domain # null
    <3>1. {"domain"} \cap DOMAIN breach = {"domain"} /\ breach["domain"] = dto.domain
      BY <1>1, <1>3, <1>5, <2>2
    <3> QED BY <2>2, <3>1
  <2> QED BY <2>1, <2>2
<1>8. breachYear(breach) = YearOf(dto.breachDate)
  BY <1>1, <1>6, DayReadsBack DEF breachYear
<1>9. /\ DOMAIN BreachRow(breach).badges = 1..Len(dto.dataClasses)
      /\ \A i \in 1..Len(dto.dataClasses) :
           /\ BreachRow(breach).badges[i].dataClass = dto.dataClasses[i]
           /\ BreachRow(breach).badges[i].danger <=> dto.dataClasses[i] = PASSWORDS_DATA_CLASS
  <2>1. DOMAIN dto.dataClasses = 1..Len(dto.dataClasses)
    BY <1>1
  <2> QED BY <1>6, <2>1 DEF BreachRow, DataClassBadge, isPasswordsDataClass
<1>10. /\ BreachRow(breach).title = breach.title /\ BreachRow(breach).verified = breach.isVerified
       /\ BreachRow(breach).meta.domain = {breach[key] : key \in {"domain"} \cap DOMAIN breach}
       /\ BreachRow(breach).meta.year = breachYear(breach)
       /\ BreachRow(breach).meta.accounts = formatCount(breach.pwnCount)
  BY DEF BreachRow, formatMetaLine
<1> QED BY <1>6, <1>7, <1>8, <1>9, <1>10 DEF breach, body

(* One breach of it.                                                       *)
LEMMA RecordReceived ==
    ASSUME NEW dto \in BreachDTO
    PROVE  fromDTO(normaliseNulls(dto)) \in BreachModel
<1> DEFINE body == normaliseNulls(dto)
           Fields == {"name", "title", "breachDate", "pwnCount", "description", "dataClasses",
                      "isVerified"}
<1>1. /\ DOMAIN dto = Fields \cup {"domain"}
      /\ dto.name \in Strings /\ dto.title \in Strings /\ dto.domain \in Strings \cup {null}
      /\ dto.breachDate \in Int /\ dto.pwnCount \in Nat /\ dto.description \in Strings
      /\ dto.dataClasses \in Seq(Strings) /\ dto.isVerified \in BOOLEAN
  BY DEF BreachDTO
<1>2. \A key \in Fields : dto[key] # null
  BY <1>1, RecordAssumption
<1>3. toCalendarDay(dto.breachDate) \in Int
  BY <1>1, RecordAssumption DEF toCalendarDay, MINUTES_A_DAY
<1>4. CASE dto.domain = null
  <2>1. body = [name |-> dto.name, title |-> dto.title, breachDate |-> dto.breachDate,
                pwnCount |-> dto.pwnCount, description |-> dto.description,
                dataClasses |-> dto.dataClasses, isVerified |-> dto.isVerified]
    <3>1. {k \in DOMAIN dto : dto[k] # null} = Fields
      BY <1>1, <1>2, <1>4
    <3> QED BY <3>1 DEF normaliseNulls
  <2> QED BY <1>1, <1>3, <2>1 DEF fromDTO, BreachModel
<1>5. CASE dto.domain # null
  <2>1. body = [name |-> dto.name, title |-> dto.title, domain |-> dto.domain,
                breachDate |-> dto.breachDate, pwnCount |-> dto.pwnCount,
                description |-> dto.description, dataClasses |-> dto.dataClasses,
                isVerified |-> dto.isVerified]
    <3>1. {k \in DOMAIN dto : dto[k] # null} = Fields \cup {"domain"}
      BY <1>1, <1>2, <1>5
    <3> QED BY <3>1 DEF normaliseNulls
  <2> QED BY <1>1, <1>3, <1>5, <2>1 DEF fromDTO, BreachModel
<1> QED BY <1>4, <1>5

(* A page of the list, received and translated, is a page of records: each *)
(* has all its fields, with a domain that is a text or is not there, and   *)
(* never null; and the pager's numbers are the server's                    *)
(* (http-client.ts:29-33, translator.ts:77-80).                            *)
THEOREM PageIsOfRecords ==
    ASSUME NEW dto \in BreachPageDTO
    PROVE  pageFromDTO(received(dto)) \in BreachPageModel
<1> DEFINE rows == [i \in DOMAIN dto.items |-> normaliseNulls(dto.items[i])]
           records == [i \in DOMAIN rows |-> fromDTO(rows[i])]
<1>1. /\ dto.items \in Seq(BreachDTO) /\ dto.total \in Nat /\ dto.page \in Nat /\ dto.limit \in Nat
      /\ dto = [items |-> dto.items, total |-> dto.total, page |-> dto.page, limit |-> dto.limit]
  BY DEF BreachPageDTO
<1>2. records \in Seq(BreachModel)
  <2>1. DOMAIN records = 1..Len(dto.items) /\ Len(dto.items) \in Nat
    BY <1>1
  <2>2. ASSUME NEW i \in DOMAIN records PROVE records[i] \in BreachModel
    <3>1. dto.items[i] \in BreachDTO /\ records[i] = fromDTO(normaliseNulls(dto.items[i]))
      BY <1>1, <2>1
    <3> QED BY <3>1, RecordReceived
  <2> HIDE DEF records
  <2>3. \A n \in Nat : records \in [1..n -> BreachModel] => records \in Seq(BreachModel)
    OBVIOUS
  <2>4. records = [i \in DOMAIN records |-> records[i]]
    BY DEF records
  <2> QED BY <2>1, <2>2, <2>3, <2>4
<1>3. normaliseNulls(dto) = dto
  <2>1. DOMAIN dto = {"items", "total", "page", "limit"}
    BY <1>1
  <2>2. /\ dto.items # null
        /\ dto.total # null /\ dto.page # null /\ dto.limit # null
    BY <1>1, BodyAssumption, RecordAssumption
  <2>3. {key \in DOMAIN dto : dto[key] # null} = DOMAIN dto
    BY <2>1, <2>2
  <2>4. dto = [key \in DOMAIN dto |-> dto[key]]
    BY <1>1
  <2> QED BY <2>3, <2>4 DEF normaliseNulls
<1>4. received(dto) = [items |-> rows, total |-> dto.total, page |-> dto.page, limit |-> dto.limit]
  BY <1>1, <1>3 DEF received
<1>5. pageFromDTO(received(dto))
        = [items |-> records, total |-> dto.total, page |-> dto.page, limit |-> dto.limit]
  BY <1>4 DEF pageFromDTO
<1> HIDE DEF records
<1> QED BY <1>1, <1>2, <1>5 DEF BreachPageModel
=============================================================================
