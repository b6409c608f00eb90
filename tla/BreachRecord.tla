----------------------------- MODULE BreachRecord -----------------------------
(***************************************************************************)
(* The public record of breaches, from the body of an answer to what a row *)
(* and a tile state of it.  A name, a title or a description stands for    *)
(* itself; a day is counted from the epoch, and midnight in minutes.       *)
(***************************************************************************)
EXTENDS Figures, Sequences

CONSTANTS Strings,       \* names, titles, domains, descriptions and data classes
          null,          \* JSON's null
          YearOf(_),     \* the calendar year a day falls in
          Offset,        \* local time minus UTC, in minutes, where the browser is
          PASSWORDS_DATA_CLASS

ASSUME RecordAssumption ==
    /\ null \notin Strings \cup Int \cup BOOLEAN \cup Seq(Strings)
    /\ PASSWORDS_DATA_CLASS \in Strings
    /\ Offset \in Int

-----------------------------------------------------------------------------
(* The seam every body crosses, at every depth: application code never     *)
(* sees a null.  What is undefined in the code is a key the function does  *)
(* not have.                                                               *)
normaliseNulls(body) == [key \in {k \in DOMAIN body : body[k] # null} |-> body[key]]

-----------------------------------------------------------------------------
(* The calendar.  A breach date is a day: it is read as that day's local   *)
(* midnight.  A record's age is counted from an instant.                   *)
MINUTES_A_DAY == 1440

toCalendarDay(day) == MINUTES_A_DAY * day - Offset

getFullYear(date) == YearOf((date + Offset) \div MINUTES_A_DAY)

-----------------------------------------------------------------------------
(* Bodies.  What no screen reads of a breach (logoPath, isSensitive) is    *)
(* left out; a share is a pair <<part, whole>>.                            *)
BreachDTO ==
    [name : Strings, title : Strings, domain : Strings \cup {null}, breachDate : Int,
     pwnCount : Nat, description : Strings, dataClasses : Seq(Strings), isVerified : BOOLEAN]

BreachPageDTO == [items : Seq(BreachDTO), total : Nat, page : Nat, limit : Nat]

BreachHighlightDTO == [name : Strings, title : Strings, breachDate : Int, pwnCount : Nat]

DataClassCountDTO == [dataClass : Strings, breachCount : Nat]

BreachSummaryDTO ==
    [totalBreaches : Nat, totalAccountsExposed : Nat, breachesLast12Months : Nat,
     shareExposingPasswords : Nat \X (Nat \ {0}), topDataClasses : Seq(DataClassCountDTO),
     largestBreach : BreachHighlightDTO, mostRecentBreach : BreachHighlightDTO, syncedAt : Int]

ASSUME BodyAssumption == null \notin Seq(BreachDTO)

(* The interceptor, on a page of the list.                                 *)
received(body) ==
    LET answer == normaliseNulls(body)
    IN  [answer EXCEPT !.items = [i \in DOMAIN @ |-> normaliseNulls(@[i])]]

fromDTO(dto) == [dto EXCEPT !.breachDate = toCalendarDay(@)]

pageFromDTO(dto) == [dto EXCEPT !.items = [i \in DOMAIN dto.items |-> fromDTO(dto.items[i])]]

highlightFromDTO(dto) == [dto EXCEPT !.breachDate = toCalendarDay(@)]

summaryFromDTO(dto) == [dto EXCEPT !.largestBreach = highlightFromDTO(@),
                                   !.mostRecentBreach = highlightFromDTO(@)]

(* What the pages hold of a record: every field but the domain, which may  *)
(* be absent.                                                              *)
BreachModel ==
    [name : Strings, title : Strings, breachDate : Int, pwnCount : Nat, description : Strings,
     dataClasses : Seq(Strings), isVerified : BOOLEAN]
    \cup
    [name : Strings, title : Strings, domain : Strings, breachDate : Int, pwnCount : Nat,
     description : Strings, dataClasses : Seq(Strings), isVerified : BOOLEAN]

BreachPageModel == [items : Seq(BreachModel), total : Nat, page : Nat, limit : Nat]

(* A highlight and a ranked data class have nothing that can be absent.    *)
BreachHighlightModel == [name : Strings, title : Strings, breachDate : Int, pwnCount : Nat]

DataClassCountModel == [dataClass : Strings, breachCount : Nat]

BreachSummaryModel ==
    [totalBreaches : Nat, totalAccountsExposed : Nat, breachesLast12Months : Nat,
     shareExposingPasswords : Nat \X (Nat \ {0}), topDataClasses : Seq(DataClassCountModel),
     largestBreach : BreachHighlightModel, mostRecentBreach : BreachHighlightModel, syncedAt : Int]

-----------------------------------------------------------------------------
(* A row.                                                                  *)
breachYear(breach) == getFullYear(breach.breachDate)

isPasswordsDataClass(dataClass) == dataClass = PASSWORDS_DATA_CLASS

hasLeakedPasswords(breach) ==
    \E i \in DOMAIN breach.dataClasses : breach.dataClasses[i] = PASSWORDS_DATA_CLASS

(* The domain is left out when the record has none.                        *)
formatMetaLine(breach) ==
    [domain |-> {breach[key] : key \in {"domain"} \cap DOMAIN breach},
     year |-> breachYear(breach), accounts |-> formatCount(breach.pwnCount)]

DataClassBadge(dataClass) == [dataClass |-> dataClass, danger |-> isPasswordsDataClass(dataClass)]

BreachRow(breach) ==
    [title |-> breach.title, verified |-> breach.isVerified, meta |-> formatMetaLine(breach),
     badges |-> [i \in DOMAIN breach.dataClasses |-> DataClassBadge(breach.dataClasses[i])]]

-----------------------------------------------------------------------------
(* The tiles.  The figure of accounts arrives apart: it may be mid-count.  *)
Tile(id, kind, value, support) == [id |-> id, kind |-> kind, value |-> value, support |-> support]

buildSummaryTiles(summary, accountsExposed) ==
    <<Tile("RecentBreaches", "number", summary.breachesLast12Months, {}),
      Tile("AccountsExposed", "number", formatCount(accountsExposed), {}),
      Tile("PasswordsLeaked", "number",
           formatShare(summary.shareExposingPasswords[1], summary.shareExposingPasswords[2]), {}),
      Tile("LargestBreach", "name", summary.largestBreach.title,
           {formatCount(summary.largestBreach.pwnCount)})>>

formatSyncedLine(summary, now) == formatSyncedAgo(summary.syncedAt, now)
=============================================================================
