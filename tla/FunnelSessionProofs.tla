------------------------- MODULE FunnelSessionProofs -------------------------
(***************************************************************************)
(* Theorems about FunnelSession, for any tabs, steps, variants and bounds: *)
(* no step is turned away, steps leave in order, and, in a browser with    *)
(* one tab, they are all one visitor's and filed under what was shown.     *)
(* And about the ids steps are minted with, for any random bytes.          *)
(*                                                                         *)
(* What carries them: a page has one visitor request out at most, and none *)
(* once it was answered; whoever the browser names is stored; and nobody   *)
(* is named, and no step sent, before a cookie came.                       *)
(***************************************************************************)
EXTENDS FunnelSession, Identifiers, FiniteSetTheorems, SequenceTheorems, TLAPS

-----------------------------------------------------------------------------
(* Types.                                                                  *)
Ids == Visitors \cup {NoOne}

Requests == [from : Tabs \cup {NoOne}, kind : {"get", "post", "event"}, id : Ids \cup Steps,
             cookie : Ids, stage : {"sent", "ok", "unknown"}, shown : Variants \cup {Outside}]

ServerType ==
    /\ DOMAIN visitors \subseteq minted /\ minted \subseteq Visitors
    /\ visitors \in [DOMAIN visitors -> Variants \cup {Outside}]
    /\ DOMAIN events \subseteq Steps /\ refused \subseteq Steps

BrowserType == cookie \in Ids /\ stored \in Ids /\ storage \in {"works", "throws"}

LoadingType ==
    /\ page \in [Tabs -> {"closed", "loading", "ready", "failed"}]
    /\ inFlight \in [Tabs -> BOOLEAN]
    /\ got \in [Tabs -> [visitor : Ids, flags : BOOLEAN]]
    /\ session \in [Tabs -> Ids]

AnalyticsType ==
    /\ ref \in [Tabs -> {"loading", "ready", "failed"}]
    /\ queue \in [Tabs -> Seq(Steps)]
    /\ recorded \in [Tabs -> Seq(Steps)]
    /\ sent \in [Tabs -> Seq(Steps)]

WireType ==
    /\ wire \subseteq Requests
    /\ \A r \in wire : IF r.kind = "event" THEN r.id \in Steps ELSE r.id \in Ids

BoundType == resets \in Nat /\ expiries \in Nat

Types == ServerType /\ BrowserType /\ LoadingType /\ AnalyticsType /\ WireType /\ BoundType

-----------------------------------------------------------------------------
(* Order.  Nothing waits once the session is known to the queue, and the   *)
(* queue never learns of a failure its page has not had.                   *)
OrderFor(t) ==
    /\ ref[t] # "failed" => recorded[t] = sent[t] \o queue[t]
    /\ ref[t] = "ready" => queue[t] = <<>>
    /\ page[t] \in {"closed", "loading"} => ref[t] = "loading"
    /\ page[t] = "ready" => ref[t] \in {"loading", "ready"}

OrderInv == \A t \in Tabs : OrderFor(t)

(* Loading.  A page has at most one visitor request out, none once it was  *)
(* answered, and shows the visitor it was answered with.                   *)
PendingFor(r, t) == r.from = t /\ r.kind # "event"

PendingOf(t) ==
    /\ \A r, q \in wire : PendingFor(r, t) /\ PendingFor(q, t) => r = q
    /\ \A r \in wire : PendingFor(r, t) => inFlight[t] /\ got[t].visitor = NoOne
    /\ ~ inFlight[t] => got[t].visitor = NoOne
    /\ session[t] # NoOne => session[t] = got[t].visitor
    /\ page[t] = "ready" => session[t] # NoOne
    /\ ref[t] = "ready" => session[t] # NoOne

PendingInv == \A t \in Tabs : PendingOf(t)

(* While the database stands, whoever the browser names is stored.         *)
Known(id) == id \in DOMAIN visitors \cup {NoOne}

KnownRequest(r) ==
    /\ Known(r.cookie)
    /\ r.kind = "get" => r.id \in DOMAIN visitors /\ r.stage # "unknown"
    /\ r.kind = "post" /\ r.stage = "ok" => r.id \in DOMAIN visitors

KnownInv ==
    resets = 0 =>
        /\ Known(cookie) /\ Known(stored)
        /\ \A t \in Tabs : Known(got[t].visitor)
        /\ \A r \in wire : KnownRequest(r)

(* While it stands and the cookie does too, every id the browser holds or  *)
(* asks for has come with a cookie, and so has every step.                 *)
CookieInv ==
    resets = 0 /\ expiries = 0 =>
        /\ refused = {}
        /\ cookie = NoOne =>
            /\ stored = NoOne
            /\ \A t \in Tabs : got[t].visitor = NoOne
            /\ \A r \in wire : r.kind # "get"
        /\ \A r \in wire : r.kind = "event" => r.cookie # NoOne

IInv == Types /\ OrderInv /\ PendingInv /\ KnownInv /\ CookieInv

-----------------------------------------------------------------------------
(* One tab: the cookie, the mirror and the page name the same visitor...   *)
OneTab == \A t, u \in Tabs : t = u

MirrorInv ==
    resets = 0 =>
        /\ stored # NoOne => cookie \in {NoOne, stored}
        /\ storage = "throws" => stored = NoOne
        /\ \A t \in Tabs : got[t].visitor # NoOne => cookie \in {NoOne, got[t].visitor}
        /\ \A r \in wire : r.from # NoOne =>
            /\ r.kind = "get" => cookie \in {NoOne, r.id}
            /\ r.kind = "post" => stored = NoOne

(* ... so every step carries what the visitor its cookie names is shown;   *)
FiledInv ==
    resets = 0 =>
        /\ \A r \in wire : r.kind = "event" /\ r.cookie # NoOne => r.shown = visitors[r.cookie]
        /\ \A s \in DOMAIN events : events[s].tag = events[s].shown

(* and while the cookie stands, all of them carry the same.                *)
SameInv ==
    resets = 0 /\ expiries = 0 =>
        /\ \A r \in wire : r.kind = "post" /\ r.from # NoOne =>
            /\ r.cookie = cookie
            /\ r.stage = "ok" /\ r.cookie # NoOne => r.id = r.cookie
        /\ \A r \in wire : r.kind = "event" => r.cookie = cookie
        /\ \A s \in DOMAIN events : events[s].visitor = cookie /\ cookie # NoOne

-----------------------------------------------------------------------------
(* Lemmas on requests.                                                     *)
LEMMA NewRequest ==
    ASSUME ServerType, BrowserType, NEW t \in Tabs, NEW kind \in {"get", "post", "event"},
           NEW id \in Ids \cup Steps
    PROVE  httpClient(t, kind, id) \in Requests
<1>1. displayed(t) \in Variants \cup {Outside}
  BY DEF displayed, ServerType
<1>2. httpClient(t, kind, id) = [from |-> t, kind |-> kind, id |-> id, cookie |-> cookie,
                                 stage |-> "sent", shown |-> displayed(t)]
  BY DEF httpClient
<1> HIDE DEF displayed
<1> QED BY <1>1, <1>2 DEF Requests, BrowserType

LEMMA Fields ==
    ASSUME NEW t, NEW kind, NEW id
    PROVE  LET r == httpClient(t, kind, id)
           IN  /\ r.from = t /\ r.kind = kind /\ r.id = id /\ r.cookie = cookie
               /\ r.stage = "sent" /\ r.shown = displayed(t)
BY DEF httpClient

LEMMA Replaced ==
    ASSUME NEW r \in Requests, NEW stage \in {"sent", "ok", "unknown"}, NEW id \in Ids \cup Steps
    PROVE  LET q == [r EXCEPT !.stage = stage, !.id = id]
           IN  /\ q \in Requests /\ q.stage = stage /\ q.id = id
               /\ q.from = r.from /\ q.kind = r.kind /\ q.cookie = r.cookie /\ q.shown = r.shown
BY DEF Requests

LEMMA Orphaned ==
    ASSUME NEW r \in Requests
    PROVE  LET q == [r EXCEPT !.from = NoOne]
           IN  /\ q \in Requests /\ q.from = NoOne
               /\ q.id = r.id /\ q.kind = r.kind /\ q.cookie = r.cookie
               /\ q.stage = r.stage /\ q.shown = r.shown
BY DEF Requests

(* What a page sends: one request per step, with the cookie of the moment. *)
LEMMA Sending ==
    ASSUME NEW t, NEW steps, Send(t, steps), NEW r \in wire', r \notin wire
    PROVE  /\ r.from = t /\ r.kind = "event" /\ r.cookie = cookie /\ r.shown = displayed(t)
           /\ r.stage = "sent" /\ r.id \in Range(steps) /\ r = httpClient(t, "event", r.id)
<1>1. PICK s \in Range(steps) : r = httpClient(t, "event", s)
  BY DEF Send, EventRequest, toCreatePayload, FunnelEvent
<1> QED BY <1>1, Fields

LEMMA StepsOfASequence ==
    ASSUME NEW steps \in Seq(Steps) PROVE Range(steps) \subseteq Steps
BY DEF Range

-----------------------------------------------------------------------------
(* Types are kept.                                                         *)
LEMMA TypesInit == Init => Types
<1> SUFFICES ASSUME Init PROVE Types
  OBVIOUS
<1>1. ServerType
  BY DEF Init, ServerType
<1>2. BrowserType
  BY DEF Init, BrowserType, Ids
<1>3. LoadingType
  BY DEF Init, LoadingType, Ids, NoAnswer
<1>4. AnalyticsType
  BY DEF Init, AnalyticsType
<1>5. WireType /\ BoundType
  BY DEF Init, WireType, BoundType
<1> QED BY <1>1, <1>2, <1>3, <1>4, <1>5 DEF Types

(* A request that comes or goes keeps the wire's type.                     *)
LEMMA WireKept ==
    ASSUME WireType, NEW r, wire' \subseteq wire \cup {r}, r \in Requests,
           IF r.kind = "event" THEN r.id \in Steps ELSE r.id \in Ids
    PROVE  WireType'
BY DEF WireType

LEMMA ReplaceKept ==
    ASSUME WireType, NEW r \in wire, NEW stage \in {"sent", "ok", "unknown"}, NEW id \in Ids,
           r.kind # "event", Replace(r, stage, id)
    PROVE  WireType'
<1> DEFINE q == [r EXCEPT !.stage = stage, !.id = id]
<1>1. r \in Requests /\ id \in Ids \cup Steps
  BY DEF WireType
<1>2. q \in Requests /\ q.kind = r.kind /\ q.id = id
  BY <1>1 DEF Requests
<1>3. wire' \subseteq wire \cup {q}
  BY DEF Replace
<1> HIDE DEF q
<1> QED BY <1>2, <1>3, WireKept

LEMMA TypesPage ==
    ASSUME Types, NEW t \in Tabs, OpenPage(t) \/ Load(t) \/ FlagsFail(t) PROVE Types'
<1> USE DEF Types
<1>1. CASE OpenPage(t)
  <2>1. UNCHANGED <<server, browser, resets, expiries>>
    BY <1>1 DEF OpenPage
  <2>2. ServerType' /\ BrowserType' /\ BoundType'
    BY <2>1 DEF ServerType, BrowserType, BoundType, server, browser
  <2>3. LoadingType'
    BY <1>1 DEF OpenPage, LoadingType, NoAnswer, Ids
  <2>4. AnalyticsType'
    BY <1>1 DEF OpenPage, AnalyticsType
  <2>5. ASSUME NEW q \in wire'
        PROVE  q \in Requests /\ (IF q.kind = "event" THEN q.id \in Steps ELSE q.id \in Ids)
    <3>1. PICK r \in wire : q = IF r.from = t THEN [r EXCEPT !.from = NoOne] ELSE r
      BY <1>1 DEF OpenPage
    <3> QED BY <3>1, Orphaned DEF WireType
  <2> QED BY <2>2, <2>3, <2>4, <2>5 DEF WireType
<1>2. CASE LoadEffect(t)
  <2>1. UNCHANGED <<server, browser, page, got, session, analytics, bounds>>
    BY <1>2 DEF LoadEffect
  <2>2. ServerType' /\ BrowserType' /\ BoundType' /\ AnalyticsType'
    BY <2>1 DEF ServerType, BrowserType, BoundType, AnalyticsType, server, browser, bounds, analytics
  <2>3. LoadingType'
    BY <1>2, <2>1 DEF LoadEffect, LoadingType
  <2>4. PICK kind \in {"get", "post"}, id \in Ids : resolveVisitor(t) = httpClient(t, kind, id)
    BY DEF resolveVisitor, createVisitor, fetchVisitor, readStoredVisitorId, BrowserType, Ids
  <2>5. wire' = wire \cup {httpClient(t, kind, id)}
    BY <1>2, <2>4 DEF LoadEffect
  <2> QED BY <2>2, <2>3, <2>5, NewRequest, Fields, WireKept
<1>3. CASE FlagsArrive(t)
  BY <1>3 DEF FlagsArrive, ServerType, BrowserType, LoadingType, AnalyticsType, WireType, BoundType,
              server, browser, analytics, bounds
<1>4. CASE SessionReady(t)
  BY <1>4 DEF SessionReady, storeVisitorId, ServerType, BrowserType, LoadingType, AnalyticsType,
              WireType, BoundType, server, analytics, bounds
<1>5. CASE FlagsFail(t)
  BY <1>5 DEF FlagsFail, ServerType, BrowserType, LoadingType, AnalyticsType, WireType, BoundType,
              server, browser, analytics
<1> QED BY <1>1, <1>2, <1>3, <1>4, <1>5 DEF Load

(* Sending keeps the wire's type and the types of what was sent.           *)
LEMMA Sends ==
    ASSUME Types, NEW t \in Tabs, NEW steps \in Seq(Steps), Send(t, steps)
    PROVE  WireType' /\ sent' \in [Tabs -> Seq(Steps)]
<1>1. sent' \in [Tabs -> Seq(Steps)]
  BY DEF Send, Types, AnalyticsType
<1>2. ASSUME NEW r \in wire', r \notin wire
      PROVE  r \in Requests /\ r.kind = "event" /\ r.id \in Steps
  <2>1. r = httpClient(t, "event", r.id) /\ r.id \in Steps /\ r.kind = "event"
    BY <1>2, Sending, StepsOfASequence
  <2> QED BY <2>1, NewRequest DEF Types
<1> QED BY <1>1, <1>2 DEF WireType, Types

LEMMA TypesAnalytics ==
    ASSUME Types, NEW t \in Tabs,
           Flush(t) \/ \E s \in Fresh \cup Range(recorded[t]) : record(t, s)
    PROVE  Types'
<1>1. CASE Flush(t)
  <2>1. UNCHANGED <<server, browser, loading, recorded, bounds>>
    BY <1>1 DEF Flush
  <2>2. ServerType' /\ BrowserType' /\ BoundType' /\ LoadingType'
    BY <2>1 DEF Types, ServerType, BrowserType, BoundType, LoadingType, server, browser, bounds, loading
  <2>3. ref' \in [Tabs -> {"loading", "ready", "failed"}] /\ queue' \in [Tabs -> Seq(Steps)]
    BY <1>1 DEF Flush, Types, AnalyticsType, LoadingType
  <2>4. CASE page[t] = "ready"
    <3>1. Send(t, queue[t]) /\ queue[t] \in Seq(Steps)
      BY <1>1, <2>4 DEF Flush, Types, AnalyticsType
    <3> QED BY <2>1, <2>2, <2>3, <3>1, Sends DEF Types, AnalyticsType
  <2>5. CASE page[t] # "ready"
    BY <1>1, <2>1, <2>2, <2>3, <2>5 DEF Flush, Types, AnalyticsType, WireType
  <2> QED BY <2>4, <2>5
<1>2. ASSUME NEW s \in Fresh \cup Range(recorded[t]), record(t, s) PROVE Types'
  <2>1. UNCHANGED <<server, browser, loading, ref, bounds>>
    BY <1>2 DEF record
  <2>2. ServerType' /\ BrowserType' /\ BoundType' /\ LoadingType'
    BY <2>1 DEF Types, ServerType, BrowserType, BoundType, LoadingType, server, browser, bounds, loading
  <2>3. s \in Steps
    <3>1. recorded[t] \in Seq(Steps)
      BY DEF Types, AnalyticsType
    <3> QED BY <3>1, StepsOfASequence DEF Fresh
  <2>4. recorded' \in [Tabs -> Seq(Steps)]
    BY <1>2, <2>3 DEF record, Types, AnalyticsType
  <2>5. CASE Send(t, <<s>>) /\ UNCHANGED queue
    <3>1. <<s>> \in Seq(Steps)
      BY <2>3
    <3> QED BY <2>1, <2>2, <2>4, <2>5, <3>1, Sends DEF Types, AnalyticsType
  <2>6. CASE queue' = [queue EXCEPT ![t] = Append(@, s)] /\ UNCHANGED <<sent, wire>>
    BY <2>1, <2>2, <2>3, <2>4, <2>6 DEF Types, AnalyticsType, WireType
  <2>7. CASE UNCHANGED <<queue, sent, wire>>
    BY <2>1, <2>2, <2>4, <2>7 DEF Types, AnalyticsType, WireType
  <2> QED BY <1>2, <2>5, <2>6, <2>7 DEF record
<1> QED BY <1>1, <1>2

LEMMA TypesRequest ==
    ASSUME Types, NEW r \in wire, Serve(r) \/ VisitorFails(r) \/ LoseEvent(r) \/ Abandon(r)
    PROVE  Types'
<1>1. r \in Requests /\ (IF r.kind = "event" THEN r.id \in Steps ELSE r.id \in Ids)
  BY DEF Types, WireType
<1>2. CASE get_visitor(r)
  <2>1. PICK stage \in {"ok", "unknown"} : Replace(r, stage, r.id)
    BY <1>2 DEF get_visitor
  <2>2. WireType'
    BY <1>1, <1>2, <2>1, ReplaceKept DEF get_visitor, Types
  <2> QED BY <1>2, <2>2 DEF get_visitor, Types, ServerType, BrowserType, LoadingType, AnalyticsType,
                            BoundType, server, browser, loading, analytics, bounds
<1>3. CASE create_visitor(r)
  <2>1. PICK v \in Ids : Replace(r, "ok", v)
    BY <1>3 DEF create_visitor, Types, ServerType, Ids
  <2>2. WireType'
    BY <1>3, <2>1, ReplaceKept DEF create_visitor, Types
  <2>3. ServerType'
    <3>1. CASE UNCHANGED <<visitors, minted>>
      BY <1>3, <3>1 DEF create_visitor, Types, ServerType
    <3>2. ASSUME NEW w \in Visitors \ minted, NEW k \in Variants \cup {Outside},
                 visitors' = [u \in DOMAIN visitors \cup {w} |->
                                IF u = w THEN k ELSE visitors[u]],
                 minted' = minted \cup {w}
          PROVE  ServerType'
      BY <1>3, <3>2 DEF create_visitor, Types, ServerType
    <3> QED BY <1>3, <3>1, <3>2 DEF create_visitor
  <2> QED BY <1>3, <2>2, <2>3 DEF create_visitor, Types, BrowserType, LoadingType, AnalyticsType,
                                  BoundType, browser, loading, analytics, bounds
<1>4. CASE VisitorArrives(r)
  <2>1. r.from \in Tabs /\ r.id \in Ids
    BY <1>1, <1>4 DEF VisitorArrives, Requests
  <2> QED BY <1>4, <2>1 DEF VisitorArrives, Types, ServerType, BrowserType, LoadingType, AnalyticsType,
                            WireType, BoundType, server, analytics, bounds
<1>5. CASE VisitorUnknown(r)
  <2>1. r.from \in Tabs /\ NoOne \in Ids
    BY <1>1, <1>5 DEF VisitorUnknown, Requests, Ids
  <2>2. WireType'
    BY <1>5, <2>1, NewRequest, Fields, WireKept DEF VisitorUnknown, createVisitor, Types
  <2> QED BY <1>5, <2>2 DEF VisitorUnknown, Types, ServerType, BrowserType, LoadingType, AnalyticsType,
                            BoundType, server, browser, loading, analytics, bounds
<1>6. CASE RefuseEvent(r)
  BY <1>1, <1>6 DEF RefuseEvent, Types, ServerType, BrowserType, LoadingType, AnalyticsType,
              WireType, BoundType, browser, loading, analytics, bounds
<1>7. CASE create_funnel_event(r)
  <2>1. DOMAIN events' \subseteq Steps
    BY <1>1, <1>7 DEF create_funnel_event, Types, ServerType
  <2> QED BY <1>7, <2>1 DEF create_funnel_event, Types, ServerType, BrowserType, LoadingType,
              AnalyticsType, WireType, BoundType, browser, loading, analytics, bounds
<1>8. CASE VisitorFails(r)
  <2>1. WireType'
    BY <1>1, <1>8, Orphaned, WireKept DEF VisitorFails, Types
  <2> QED BY <1>8, <2>1 DEF VisitorFails, Types, ServerType, BrowserType, LoadingType,
              AnalyticsType, BoundType, server, browser, analytics
<1>9. CASE LoseEvent(r)
  BY <1>9 DEF LoseEvent, Types, ServerType, BrowserType, LoadingType, AnalyticsType, WireType,
              BoundType, server, browser, loading, analytics
<1>10. CASE Abandon(r)
  BY <1>10 DEF Abandon, Types, ServerType, BrowserType, LoadingType, AnalyticsType, WireType,
              BoundType, server, browser, loading, analytics, bounds
<1> QED BY <1>2, <1>3, <1>4, <1>5, <1>6, <1>7, <1>8, <1>9, <1>10 DEF Serve

LEMMA TypesEnvironment == ASSUME Types, ResetDatabase \/ CookieExpires PROVE Types'
<1>1. CASE ResetDatabase
  BY <1>1 DEF ResetDatabase, Types, ServerType, BrowserType, LoadingType, AnalyticsType, WireType,
              BoundType, browser, loading, analytics
<1>2. CASE CookieExpires
  BY <1>2 DEF CookieExpires, Types, ServerType, BrowserType, LoadingType, AnalyticsType, WireType,
              BoundType, Ids, server, loading, analytics
<1> QED BY <1>1, <1>2

LEMMA TypesKept == Types /\ [Next]_vars => Types'
<1> SUFFICES ASSUME Types, [Next]_vars PROVE Types'
  OBVIOUS
<1>1. CASE UNCHANGED vars
  BY <1>1 DEF vars, Types, ServerType, BrowserType, LoadingType, AnalyticsType, WireType, BoundType,
              server, browser, loading, analytics, bounds
<1> QED BY <1>1, TypesPage, TypesAnalytics, TypesRequest, TypesEnvironment DEF Next

(* The tables, the browser, its pages and everything on the wire keep      *)
(* their types.                                                            *)
THEOREM TypeCorrect == Spec => []TypeOK
<1>1. Types => TypeOK
  BY DEF Types, ServerType, BrowserType, LoadingType, AnalyticsType, TypeOK, Ids
<1> QED BY <1>1, TypesInit, TypesKept, PTL DEF Spec

-----------------------------------------------------------------------------
(* Steps are sent in the order they were recorded.                         *)
LEMMA AppendsToTheQueue ==
    ASSUME NEW a \in Seq(Steps), NEW b \in Seq(Steps), NEW s \in Steps
    PROVE  /\ Append(a \o b, s) = a \o Append(b, s)
           /\ a \o <<>> = a
           /\ Append(a, s) = a \o <<s>>
           /\ (a \o b) \o <<>> = a \o b
<1>1. a \o b \in Seq(Steps)
  OBVIOUS
<1>2. /\ a \o <<>> = a
      /\ (a \o b) \o <<>> = a \o b
  BY <1>1
<1>3. Append(a, s) = a \o <<s>>
  OBVIOUS
<1>4. Append(a \o b, s) = a \o Append(b, s)
  <2>1. <<s>> \in Seq(Steps)
    OBVIOUS
  <2>2. Append(a \o b, s) = (a \o b) \o <<s>>
    BY <1>1, AppendIsConcat
  <2>3. Append(b, s) = b \o <<s>>
    BY AppendIsConcat
  <2>4. (a \o b) \o <<s>> = a \o (b \o <<s>>)
    BY <2>1, ConcatAssociative
  <2> QED BY <2>2, <2>3, <2>4
<1> QED BY <1>2, <1>3, <1>4

LEMMA OrderElsewhere ==
    ASSUME OrderInv, NEW t \in Tabs, OrderFor(t)',
           \A u \in Tabs : u # t => /\ page'[u] = page[u] /\ ref'[u] = ref[u]
                                    /\ queue'[u] = queue[u] /\ sent'[u] = sent[u]
                                    /\ recorded'[u] = recorded[u]
    PROVE  OrderInv'
BY DEF OrderInv, OrderFor

LEMMA OrderPage ==
    ASSUME Types, OrderInv, NEW t \in Tabs, OpenPage(t) \/ Load(t) \/ FlagsFail(t)
    PROVE  OrderInv'
<1> USE DEF Types, LoadingType, AnalyticsType
<1>1. CASE OpenPage(t)
  <2>1. OrderFor(t)'
    BY <1>1 DEF OpenPage, OrderFor
  <2> QED BY <1>1, <2>1, OrderElsewhere DEF OpenPage
<1>2. CASE LoadEffect(t) \/ FlagsArrive(t)
  BY <1>2 DEF LoadEffect, FlagsArrive, OrderInv, OrderFor, analytics
<1>3. CASE SessionReady(t)
  <2>1. OrderFor(t)'
    BY <1>3 DEF SessionReady, OrderInv, OrderFor, analytics
  <2> QED BY <1>3, <2>1, OrderElsewhere DEF SessionReady, analytics
<1>4. CASE FlagsFail(t)
  <2>1. OrderFor(t)'
    BY <1>4 DEF FlagsFail, OrderInv, OrderFor, analytics
  <2> QED BY <1>4, <2>1, OrderElsewhere DEF FlagsFail, analytics
<1> QED BY <1>1, <1>2, <1>3, <1>4 DEF Load

LEMMA OrderAnalytics ==
    ASSUME Types, OrderInv, NEW t \in Tabs,
           Flush(t) \/ \E s \in Fresh \cup Range(recorded[t]) : record(t, s)
    PROVE  OrderInv'
<1>1. /\ sent[t] \in Seq(Steps) /\ queue[t] \in Seq(Steps) /\ recorded[t] \in Seq(Steps)
      /\ OrderFor(t)
  BY DEF Types, AnalyticsType, OrderInv
<1>2. CASE Flush(t)
  <2>1. /\ page' = page /\ recorded' = recorded
        /\ ref' = [ref EXCEPT ![t] = page[t]] /\ queue' = [queue EXCEPT ![t] = <<>>]
        /\ page[t] # ref[t] /\ page[t] # "closed"
    BY <1>2 DEF Flush, loading
  <2>2. page[t] \in {"ready", "failed"}
    BY <1>1, <2>1 DEF OrderFor, Types, LoadingType
  <2>3. CASE page[t] = "ready"
    <3>1. sent' = [sent EXCEPT ![t] = @ \o queue[t]]
      BY <1>2, <2>3 DEF Flush, Send
    <3>2. recorded[t] = sent[t] \o queue[t]
      BY <1>1, <2>1, <2>3 DEF OrderFor
    <3>3. /\ ref'[t] = "ready" /\ queue'[t] = <<>> /\ sent'[t] = sent[t] \o queue[t]
          /\ recorded'[t] = recorded[t] /\ page'[t] = "ready"
      BY <2>1, <2>3, <3>1 DEF Types, AnalyticsType
    <3>4. sent'[t] \o queue'[t] = recorded'[t]
      BY <1>1, <3>2, <3>3
    <3>5. OrderFor(t)'
      BY <3>3, <3>4 DEF OrderFor
    <3> QED BY <2>1, <3>1, <3>5, OrderElsewhere DEF Types, AnalyticsType
  <2>4. CASE page[t] = "failed"
    <3>1. sent' = sent
      BY <1>2, <2>4 DEF Flush
    <3>2. OrderFor(t)'
      BY <2>1, <2>4 DEF OrderFor, Types, AnalyticsType
    <3> QED BY <2>1, <3>1, <3>2, OrderElsewhere DEF Types, AnalyticsType
  <2> QED BY <2>2, <2>3, <2>4
<1>3. ASSUME NEW s \in Fresh \cup Range(recorded[t]), record(t, s) PROVE OrderInv'
  <2>1. /\ page' = page /\ ref' = ref
        /\ recorded' = [recorded EXCEPT ![t] = Append(@, s)]
    BY <1>3 DEF record, loading
  <2>2. s \in Steps
    BY <1>1, StepsOfASequence DEF Fresh
  <2>3. recorded'[t] = Append(recorded[t], s)
    BY <2>1 DEF Types, AnalyticsType
  <2>4. CASE ref[t] = "failed" /\ UNCHANGED <<queue, sent, wire>>
    <3>1. OrderFor(t)'
      BY <1>1, <2>1, <2>4 DEF OrderFor
    <3> QED BY <2>1, <2>4, <3>1, OrderElsewhere DEF Types, AnalyticsType
  <2>5. CASE ref[t] = "loading" /\ queue' = [queue EXCEPT ![t] = Append(@, s)]
                                /\ UNCHANGED <<sent, wire>>
    <3>1. queue'[t] = Append(queue[t], s) /\ sent'[t] = sent[t]
      BY <2>5 DEF Types, AnalyticsType
    <3>2. recorded[t] = sent[t] \o queue[t]
      BY <1>1, <2>5 DEF OrderFor
    <3>3. Append(sent[t] \o queue[t], s) = sent[t] \o Append(queue[t], s)
      BY <1>1, <2>2, AppendsToTheQueue
    <3>4. recorded'[t] = sent'[t] \o queue'[t]
      BY <2>3, <3>1, <3>2, <3>3
    <3>5. OrderFor(t)'
      BY <1>1, <2>1, <2>5, <3>4 DEF OrderFor
    <3> QED BY <2>1, <2>5, <3>5, OrderElsewhere DEF Types, AnalyticsType
  <2>6. CASE ref[t] = "ready" /\ Send(t, <<s>>) /\ UNCHANGED queue
    <3>1. sent' = [sent EXCEPT ![t] = @ \o <<s>>] /\ queue' = queue
      BY <2>6 DEF Send
    <3>2. queue[t] = <<>> /\ recorded[t] = sent[t] \o <<>>
      BY <1>1, <2>6 DEF OrderFor
    <3>3. recorded[t] = sent[t]
      BY <1>1, <2>2, <3>2, AppendsToTheQueue
    <3>4. sent'[t] = recorded'[t] /\ sent'[t] \in Seq(Steps)
      BY <1>1, <2>2, <2>3, <3>1, <3>3, AppendsToTheQueue DEF Types, AnalyticsType
    <3>5. recorded'[t] = sent'[t] \o queue'[t]
      BY <2>2, <3>1, <3>2, <3>4, AppendsToTheQueue
    <3>6. OrderFor(t)'
      BY <1>1, <2>1, <3>1, <3>2, <3>5 DEF OrderFor
    <3> QED BY <2>1, <3>1, <3>6, OrderElsewhere DEF Types, AnalyticsType
  <2> QED BY <1>3, <2>4, <2>5, <2>6 DEF record
<1> QED BY <1>2, <1>3

LEMMA OrderRequest ==
    ASSUME Types, OrderInv, NEW r \in wire,
           Serve(r) \/ VisitorFails(r) \/ LoseEvent(r) \/ Abandon(r)
    PROVE  OrderInv'
<1>1. analytics' = analytics
  BY DEF Serve, get_visitor, create_visitor, VisitorArrives, VisitorUnknown, RefuseEvent,
         create_funnel_event, VisitorFails, LoseEvent, Abandon
<1>2. CASE page' = page
  BY <1>1, <1>2 DEF OrderInv, OrderFor, analytics
<1>3. CASE VisitorFails(r)
  <2>1. r.from \in Tabs /\ page' = [page EXCEPT ![r.from] = "failed"]
    BY <1>3 DEF VisitorFails, Types, WireType, Requests
  <2>2. OrderFor(r.from)'
    BY <1>1, <2>1 DEF OrderInv, OrderFor, analytics, Types, LoadingType
  <2> QED BY <1>1, <2>1, <2>2, OrderElsewhere DEF analytics, Types, LoadingType
<1> QED BY <1>2, <1>3 DEF Serve, get_visitor, create_visitor, VisitorArrives, VisitorUnknown,
                          RefuseEvent, create_funnel_event, LoseEvent, Abandon, loading

LEMMA OrderKept == Types /\ OrderInv /\ [Next]_vars => OrderInv'
<1> SUFFICES ASSUME Types, OrderInv, [Next]_vars PROVE OrderInv'
  OBVIOUS
<1>1. CASE UNCHANGED <<loading, analytics>>
  BY <1>1 DEF OrderInv, OrderFor, loading, analytics
<1>2. CASE ResetDatabase \/ CookieExpires \/ UNCHANGED vars
  BY <1>1, <1>2 DEF ResetDatabase, CookieExpires, vars
<1> QED BY <1>2, OrderPage, OrderAnalytics, OrderRequest DEF Next

LEMMA OrderInit == Init => OrderInv
<1> SUFFICES ASSUME Init, NEW t \in Tabs PROVE OrderFor(t)
  BY DEF OrderInv
<1>1. /\ recorded[t] = <<>> /\ sent[t] = <<>> /\ queue[t] = <<>> /\ ref[t] = "loading"
      /\ page[t] = "closed"
  BY DEF Init
<1>2. recorded[t] = sent[t] \o queue[t]
  BY <1>1
<1> QED BY <1>1, <1>2 DEF OrderFor

(* A page sends its steps in the order they happened, each once, whether   *)
(* they waited for the session or not.                                     *)
THEOREM InOrder == Spec => []SentInOrder
<1>1. OrderInv => SentInOrder
  BY DEF OrderInv, OrderFor, SentInOrder
<1> QED BY <1>1, OrderInit, TypesInit, TypesKept, OrderKept, PTL DEF Spec

-----------------------------------------------------------------------------
(* What each kind of step leaves on the wire.                              *)
Still(q, r) ==
    q.kind = r.kind /\ q.id = r.id /\ q.cookie = r.cookie /\ q.stage = r.stage /\ q.shown = r.shown

LEMMA OpenedWire ==
    ASSUME Types, NEW t \in Tabs, OpenPage(t), NEW q \in wire'
    PROVE  /\ q.from # NoOne => q \in wire /\ q.from # t
           /\ \E r \in wire : Still(q, r)
<1>1. PICK r \in wire : q = IF r.from = t THEN [r EXCEPT !.from = NoOne] ELSE r
  BY DEF OpenPage
<1>2. CASE r.from = t
  BY <1>1, <1>2, Orphaned DEF Still, Types, WireType
<1>3. CASE r.from # t
  BY <1>1, <1>3 DEF Still
<1> QED BY <1>2, <1>3

LEMMA ReplacedWire ==
    ASSUME Types, NEW r \in wire, NEW stage \in {"sent", "ok", "unknown"}, NEW id \in Ids,
           Replace(r, stage, id), NEW q \in wire', ~ (q \in wire /\ q # r)
    PROVE  /\ q.from = r.from /\ q.kind = r.kind /\ q.cookie = r.cookie /\ q.shown = r.shown
           /\ q.stage = stage /\ q.id = id
<1>1. q = [r EXCEPT !.stage = stage, !.id = id]
  BY DEF Replace
<1>2. r \in Requests
  BY DEF Types, WireType
<1> QED BY <1>1, <1>2 DEF Requests

LEMMA FailedWire ==
    ASSUME Types, NEW r \in wire, VisitorFails(r), NEW q \in wire', ~ (q \in wire /\ q # r)
    PROVE  q.from = NoOne /\ Still(q, r)
<1>1. q = [r EXCEPT !.from = NoOne]
  BY DEF VisitorFails
<1> QED BY <1>1, Orphaned DEF Types, WireType, Still

LEMMA Asked ==
    ASSUME Types, NEW t \in Tabs, LoadEffect(t)
    PROVE  \E c : /\ wire' = wire \cup {c} /\ c.from = t /\ c.kind \in {"get", "post"}
                  /\ c.cookie = cookie /\ c.stage = "sent"
                  /\ c.kind = "get" => c.id = stored /\ stored # NoOne
                  /\ c.kind = "post" => stored = NoOne \/ storage = "throws"
<1>1. wire' = wire \cup {resolveVisitor(t)}
  BY DEF LoadEffect
<1>2. CASE readStoredVisitorId = NoOne
  <2>1. resolveVisitor(t) = httpClient(t, "post", NoOne)
    BY <1>2 DEF resolveVisitor, createVisitor
  <2> QED BY <1>1, <1>2, <2>1, Fields DEF readStoredVisitorId, Types, BrowserType
<1>3. CASE readStoredVisitorId # NoOne
  <2>1. resolveVisitor(t) = httpClient(t, "get", stored) /\ stored # NoOne
    BY <1>3 DEF resolveVisitor, fetchVisitor, readStoredVisitorId
  <2> QED BY <1>1, <2>1, Fields
<1> QED BY <1>2, <1>3

(* What a page sends goes out once it has a session, with the cookie.      *)
LEMMA SentWithASession ==
    ASSUME Types, PendingInv, NEW t \in Tabs, NEW q \in wire', q \notin wire,
           Flush(t) \/ \E s \in Fresh \cup Range(recorded[t]) : record(t, s)
    PROVE  /\ q.kind = "event" /\ q.cookie = cookie /\ q.shown = displayed(t)
           /\ session[t] # NoOne
<1>1. CASE Flush(t)
  <2>1. page[t] = "ready" /\ Send(t, queue[t])
    BY <1>1 DEF Flush
  <2> QED BY <2>1, Sending DEF PendingInv, PendingOf
<1>2. ASSUME NEW s \in Fresh \cup Range(recorded[t]), record(t, s)
      PROVE  ref[t] = "ready" /\ Send(t, <<s>>)
  BY <1>2 DEF record
<1>3. CASE \E s \in Fresh \cup Range(recorded[t]) : record(t, s)
  BY <1>2, <1>3, Sending DEF PendingInv, PendingOf
<1> QED BY <1>1, <1>3

-----------------------------------------------------------------------------
(* Loading: one visitor request at a time, and what it brought is shown.   *)
LEMMA PendingElsewhere ==
    ASSUME PendingInv, NEW t \in Tabs, PendingOf(t)',
           \A u \in Tabs : u # t =>
              /\ page'[u] = page[u] /\ ref'[u] = ref[u] /\ inFlight'[u] = inFlight[u]
              /\ got'[u] = got[u] /\ session'[u] = session[u],
           \A q \in wire' : q.from # t /\ q.from # NoOne /\ q.kind # "event" => q \in wire,
           NoOne \notin Tabs
    PROVE  PendingInv'
<1> SUFFICES ASSUME NEW u \in Tabs, u # t PROVE PendingOf(u)'
  BY DEF PendingInv
<1>1. PendingOf(u)
  BY DEF PendingInv
<1>2. \A q \in wire' : PendingFor(q, u) => q \in wire
  BY DEF PendingFor
<1> QED BY <1>1, <1>2 DEF PendingOf, PendingFor

LEMMA PendingQuiet ==
    ASSUME PendingInv, UNCHANGED <<page, ref, inFlight, got, session>>,
           \A q \in wire' : q.kind # "event" /\ q.from # NoOne => q \in wire, NoOne \notin Tabs
    PROVE  PendingInv'
<1> SUFFICES ASSUME NEW t \in Tabs PROVE PendingOf(t)'
  BY DEF PendingInv
<1>1. PendingOf(t)
  BY DEF PendingInv
<1>2. \A q \in wire' : PendingFor(q, t) => q \in wire
  BY DEF PendingFor
<1> QED BY <1>1, <1>2 DEF PendingOf, PendingFor

LEMMA PendingSwap ==
    ASSUME PendingInv, UNCHANGED <<page, ref, inFlight, got, session>>,
           NEW r \in wire, r.kind # "event", NEW c, c.from = r.from,
           \A q \in wire' : (q \in wire /\ q # r) \/ q = c
    PROVE  PendingInv'
<1> SUFFICES ASSUME NEW t \in Tabs PROVE PendingOf(t)'
  BY DEF PendingInv
<1>1. PendingOf(t)
  BY DEF PendingInv
<1>2. \A q \in wire' : PendingFor(q, t) => (q \in wire /\ q # r) \/ (q = c /\ PendingFor(r, t))
  BY DEF PendingFor
<1>3. \A q, p \in wire' : PendingFor(q, t) /\ PendingFor(p, t) => q = p
  BY <1>1, <1>2 DEF PendingOf
<1>4. \A q \in wire' : PendingFor(q, t) => inFlight[t] /\ got[t].visitor = NoOne
  BY <1>1, <1>2 DEF PendingOf
<1>5. \A q \in wire' : PendingFor(q, t)' <=> PendingFor(q, t)
  BY DEF PendingFor
<1> QED BY <1>1, <1>3, <1>4, <1>5 DEF PendingOf

LEMMA PendingPage ==
    ASSUME Types, PendingInv, NEW t \in Tabs, OpenPage(t) \/ Load(t) \/ FlagsFail(t)
    PROVE  PendingInv'
<1> USE DEF Types, LoadingType, AnalyticsType
<1>0. NoOne \notin Tabs /\ PendingOf(t)
  BY FunnelAssumption DEF PendingInv
<1>1. CASE OpenPage(t)
  <2>1. \A q \in wire' : q.from # NoOne => q \in wire /\ q.from # t
    BY <1>1, OpenedWire
  <2>2. \A q \in wire' : ~ PendingFor(q, t)
    BY <1>0, <2>1 DEF PendingFor
  <2>3. /\ ~ inFlight'[t] /\ got'[t].visitor = NoOne /\ session'[t] = NoOne
        /\ page'[t] = "loading" /\ ref'[t] = "loading"
    BY <1>1 DEF OpenPage, NoAnswer
  <2>4. PendingOf(t)'
    BY <2>2, <2>3 DEF PendingOf, PendingFor
  <2> QED BY <1>0, <1>1, <2>1, <2>4, PendingElsewhere DEF OpenPage
<1>2. CASE LoadEffect(t)
  <2>1. PICK c : wire' = wire \cup {c} /\ c.from = t
    BY <1>2, Asked
  <2>2. ~ inFlight[t] /\ inFlight' = [inFlight EXCEPT ![t] = TRUE]
        /\ UNCHANGED <<page, got, session, ref>>
    BY <1>2 DEF LoadEffect, analytics
  <2>3. got[t].visitor = NoOne /\ \A q \in wire : ~ PendingFor(q, t)
    BY <1>0, <2>2 DEF PendingOf
  <2>4. \A q \in wire' : PendingFor(q, t) => q = c
    BY <2>1, <2>3
  <2>5. PendingOf(t)'
    BY <1>0, <2>2, <2>3, <2>4 DEF PendingOf, PendingFor
  <2> QED BY <1>0, <2>1, <2>2, <2>5, PendingElsewhere
<1>3. CASE FlagsArrive(t)
  <2>1. got' = [got EXCEPT ![t].flags = TRUE] /\ UNCHANGED <<page, inFlight, session, ref, wire>>
    BY <1>3 DEF FlagsArrive, analytics
  <2>2. got'[t].visitor = got[t].visitor
    BY <2>1
  <2>3. PendingOf(t)'
    BY <1>0, <2>1, <2>2 DEF PendingOf, PendingFor
  <2> QED BY <1>0, <2>1, <2>3, PendingElsewhere
<1>4. CASE SessionReady(t)
  <2>1. /\ got[t].visitor # NoOne /\ session' = [session EXCEPT ![t] = got[t].visitor]
        /\ page' = [page EXCEPT ![t] = "ready"] /\ UNCHANGED <<inFlight, got, ref, wire>>
    BY <1>4 DEF SessionReady, analytics
  <2>2. PendingOf(t)'
    BY <1>0, <2>1 DEF PendingOf, PendingFor
  <2> QED BY <1>0, <2>1, <2>2, PendingElsewhere
<1>5. CASE FlagsFail(t)
  <2>1. /\ page' = [page EXCEPT ![t] = "failed"] /\ UNCHANGED <<inFlight, got, session, ref, wire>>
    BY <1>5 DEF FlagsFail, analytics
  <2>2. PendingOf(t)'
    BY <1>0, <2>1 DEF PendingOf, PendingFor
  <2> QED BY <1>0, <2>1, <2>2, PendingElsewhere
<1> QED BY <1>1, <1>2, <1>3, <1>4, <1>5 DEF Load

LEMMA PendingAnalytics ==
    ASSUME Types, OrderInv, PendingInv, NEW t \in Tabs,
           Flush(t) \/ \E s \in Fresh \cup Range(recorded[t]) : record(t, s)
    PROVE  PendingInv'
<1>0. NoOne \notin Tabs /\ PendingOf(t)
  BY FunnelAssumption DEF PendingInv
<1>1. UNCHANGED <<page, inFlight, got, session>>
  BY DEF Flush, record, loading
<1>2. \A q \in wire' : q.kind # "event" => q \in wire
  BY SentWithASession
<1>3. CASE ref' = ref
  BY <1>0, <1>1, <1>2, <1>3, PendingQuiet
<1>4. CASE Flush(t)
  <2>1. ref' = [ref EXCEPT ![t] = page[t]]
    BY <1>4 DEF Flush
  <2>2. PendingOf(t)'
    BY <1>0, <1>1, <1>2, <2>1 DEF PendingOf, PendingFor, Types, AnalyticsType
  <2> QED BY <1>0, <1>1, <1>2, <2>1, <2>2, PendingElsewhere DEF Types, AnalyticsType
<1> QED BY <1>3, <1>4 DEF record

LEMMA PendingRequest ==
    ASSUME Types, PendingInv, NEW r \in wire,
           Serve(r) \/ VisitorFails(r) \/ LoseEvent(r) \/ Abandon(r)
    PROVE  PendingInv'
<1>0. NoOne \notin Tabs /\ r \in Requests /\ (r.kind # "event" => r.id \in Ids)
  BY FunnelAssumption DEF Types, WireType
<1>1. CASE get_visitor(r)
  <2>1. PICK stage \in {"ok", "unknown"} : Replace(r, stage, r.id)
    BY <1>1 DEF get_visitor
  <2>2. r.kind # "event" /\ r.id \in Ids
    BY <1>0, <1>1 DEF get_visitor
  <2> DEFINE c == [r EXCEPT !.stage = stage, !.id = r.id]
  <2>3. c.from = r.from
    BY <1>0 DEF Requests
  <2>4. c.from = r.from /\ \A q \in wire' : (q \in wire /\ q # r) \/ q = c
    BY <2>1, <2>3 DEF Replace
  <2> HIDE DEF c
  <2> QED BY <1>1, <2>2, <2>4, PendingSwap DEF get_visitor, loading, analytics
<1>2. CASE create_visitor(r)
  <2>1. PICK v \in Ids : Replace(r, "ok", v)
    BY <1>2 DEF create_visitor, Types, ServerType, Ids
  <2> DEFINE c == [r EXCEPT !.stage = "ok", !.id = v]
  <2>2. c.from = r.from
    BY <1>0 DEF Requests
  <2>3. c.from = r.from /\ \A q \in wire' : (q \in wire /\ q # r) \/ q = c
    BY <2>1, <2>2 DEF Replace
  <2> HIDE DEF c
  <2> QED BY <1>2, <2>3, PendingSwap DEF create_visitor, loading, analytics
<1>3. CASE VisitorArrives(r)
  <2> DEFINE t == r.from
  <2>1. t \in Tabs /\ PendingFor(r, t) /\ r.id \in Ids
    BY <1>0, <1>3 DEF VisitorArrives, Requests, PendingFor
  <2>2. /\ got' = [got EXCEPT ![t].visitor = r.id] /\ wire' = wire \ {r}
        /\ UNCHANGED <<page, inFlight, session, ref>>
    BY <1>3 DEF VisitorArrives, analytics
  <2>3. PendingOf(t)
    BY <2>1 DEF PendingInv
  <2>4. \A q \in wire' : ~ PendingFor(q, t)
    BY <2>1, <2>2, <2>3 DEF PendingOf
  <2>5. inFlight[t] /\ session[t] = NoOne
    BY <2>1, <2>3 DEF PendingOf
  <2>6. PendingOf(t)'
    BY <2>2, <2>3, <2>4, <2>5 DEF PendingOf, PendingFor
  <2>7. \A u \in Tabs : u # t => got'[u] = got[u]
    BY <2>2 DEF Types, LoadingType
  <2> HIDE DEF t
  <2> QED BY <1>0, <2>1, <2>2, <2>6, <2>7, PendingElsewhere
<1>4. CASE VisitorUnknown(r)
  <2>1. /\ wire' = (wire \ {r}) \cup {createVisitor(r.from)} /\ r.kind # "event"
        /\ createVisitor(r.from).from = r.from
    BY <1>4, Fields DEF VisitorUnknown, createVisitor
  <2> QED BY <1>4, <2>1, PendingSwap DEF VisitorUnknown, loading, analytics
<1>5. CASE RefuseEvent(r) \/ create_funnel_event(r) \/ LoseEvent(r) \/ Abandon(r)
  <2>1. wire' = wire \ {r} /\ UNCHANGED <<page, inFlight, got, session, ref>>
    BY <1>5 DEF RefuseEvent, create_funnel_event, LoseEvent, Abandon, loading, analytics
  <2> QED BY <1>0, <2>1, PendingQuiet
<1>6. CASE VisitorFails(r)
  <2> DEFINE t == r.from
  <2>1. t \in Tabs /\ PendingFor(r, t) /\ r.from # NoOne
    BY <1>0, <1>6 DEF VisitorFails, Requests, PendingFor
  <2>2. page' = [page EXCEPT ![t] = "failed"] /\ UNCHANGED <<inFlight, got, session, ref>>
    BY <1>6 DEF VisitorFails, analytics
  <2>3. PendingOf(t)
    BY <2>1 DEF PendingInv
  <2>4. \A q \in wire' : (q \in wire /\ q # r) \/ q.from = NoOne
    BY <1>6, FailedWire
  <2>5. \A q \in wire' : ~ PendingFor(q, t)
    BY <1>0, <2>1, <2>3, <2>4 DEF PendingOf, PendingFor
  <2>6. PendingOf(t)'
    BY <2>1, <2>2, <2>3, <2>5 DEF PendingOf, PendingFor, Types, LoadingType
  <2>7. \A u \in Tabs : u # t => page'[u] = page[u]
    BY <2>2 DEF Types, LoadingType
  <2> HIDE DEF t
  <2> QED BY <1>0, <2>1, <2>2, <2>4, <2>6, <2>7, PendingElsewhere
<1> QED BY <1>1, <1>2, <1>3, <1>4, <1>5, <1>6 DEF Serve

LEMMA PendingInit == Init => PendingInv
BY DEF Init, PendingInv, PendingOf, PendingFor, NoAnswer

LEMMA PendingKept == Types /\ OrderInv /\ PendingInv /\ [Next]_vars => PendingInv'
<1> SUFFICES ASSUME Types, OrderInv, PendingInv, [Next]_vars PROVE PendingInv'
  OBVIOUS
<1>1. CASE ResetDatabase \/ CookieExpires \/ UNCHANGED vars
  <2>1. UNCHANGED <<page, ref, inFlight, got, session, wire>>
    BY <1>1 DEF ResetDatabase, CookieExpires, vars, loading, analytics
  <2> QED BY <2>1, PendingQuiet, FunnelAssumption
<1> QED BY <1>1, PendingPage, PendingAnalytics, PendingRequest DEF Next

-----------------------------------------------------------------------------
(* While the database stands, the browser names nobody it has not stored.  *)
LEMMA KnownPage ==
    ASSUME Types, KnownInv, NEW t \in Tabs, OpenPage(t) \/ Load(t) \/ FlagsFail(t)
    PROVE  KnownInv'
<1> SUFFICES ASSUME resets' = 0 PROVE KnownInv'
  BY DEF KnownInv
<1>1. UNCHANGED <<visitors, cookie, resets>>
  BY DEF OpenPage, Load, LoadEffect, FlagsArrive, SessionReady, FlagsFail, server, browser, bounds
<1>2. /\ Known(cookie) /\ Known(stored) /\ \A u \in Tabs : Known(got[u].visitor)
      /\ \A r \in wire : KnownRequest(r)
  BY <1>1 DEF KnownInv
<1>3. \A u \in Tabs : Known(got'[u].visitor)
  <2>1. Known(NoOne)
    BY DEF Known
  <2>2. CASE OpenPage(t)
    BY <1>2, <2>1, <2>2 DEF OpenPage, NoAnswer, Types, LoadingType
  <2>3. CASE ~ OpenPage(t)
    BY <1>2, <2>3 DEF Load, LoadEffect, FlagsArrive, SessionReady, FlagsFail, Types, LoadingType
  <2> QED BY <2>2, <2>3
<1>4. Known(stored')
  BY <1>2 DEF OpenPage, Load, LoadEffect, FlagsArrive, SessionReady, FlagsFail, browser,
              storeVisitorId
<1>5. ASSUME NEW q \in wire' PROVE KnownRequest(q)
  <2>1. CASE q \in wire
    BY <1>2, <2>1
  <2>2. CASE OpenPage(t)
    BY <1>2, <2>2, OpenedWire DEF Still, KnownRequest
  <2>3. CASE LoadEffect(t)
    <3>1. PICK c : /\ wire' = wire \cup {c} /\ c.kind \in {"get", "post"}
                   /\ c.cookie = cookie /\ c.stage = "sent"
                   /\ c.kind = "get" => c.id = stored /\ stored # NoOne
      BY <2>3, Asked
    <3>2. KnownRequest(c)
      BY <1>2, <3>1 DEF KnownRequest, Known
    <3> QED BY <1>2, <3>1, <3>2
  <2>4. CASE wire' = wire
    BY <1>2, <2>4
  <2> QED BY <2>2, <2>3, <2>4 DEF Load, FlagsArrive, SessionReady, FlagsFail
<1>6. DOMAIN visitors' = DOMAIN visitors /\ cookie' = cookie
  BY <1>1
<1> QED BY <1>2, <1>3, <1>4, <1>5, <1>6 DEF KnownInv, KnownRequest, Known

LEMMA KnownAnalytics ==
    ASSUME Types, PendingInv, KnownInv, NEW t \in Tabs,
           Flush(t) \/ \E s \in Fresh \cup Range(recorded[t]) : record(t, s)
    PROVE  KnownInv'
<1> SUFFICES ASSUME resets' = 0 PROVE KnownInv'
  BY DEF KnownInv
<1>1. UNCHANGED <<visitors, cookie, stored, got, resets>>
  BY DEF Flush, record, server, browser, loading, bounds
<1>2. \A q \in wire' : q \in wire \/ (q.kind = "event" /\ q.cookie = cookie)
  BY SentWithASession
<1>3. \A q \in wire' : KnownRequest(q)
  BY <1>1, <1>2 DEF KnownInv, KnownRequest
<1> QED BY <1>1, <1>3 DEF KnownInv, KnownRequest, Known

LEMMA VisitorsGrow ==
    ASSUME Types, NEW r \in wire, Serve(r) \/ VisitorFails(r) \/ LoseEvent(r) \/ Abandon(r)
    PROVE  /\ DOMAIN visitors \subseteq DOMAIN visitors'
           /\ \A v \in DOMAIN visitors : visitors'[v] = visitors[v]
           /\ resets' = resets /\ expiries' = expiries /\ stored' = stored /\ storage' = storage
           /\ session' = session /\ ref' = ref
<1>1. CASE create_visitor(r)
  <2>1. CASE UNCHANGED visitors
    BY <1>1, <2>1 DEF create_visitor, browser, bounds, loading, analytics
  <2>2. ASSUME NEW v \in Visitors \ minted, NEW k \in Variants \cup {Outside},
               visitors' = [u \in DOMAIN visitors \cup {v} |-> IF u = v THEN k ELSE visitors[u]]
        PROVE  /\ DOMAIN visitors \subseteq DOMAIN visitors'
               /\ \A w \in DOMAIN visitors : visitors'[w] = visitors[w]
    <3>1. v \notin DOMAIN visitors
      BY <2>2 DEF Types, ServerType
    <3> QED BY <2>2, <3>1
  <2> QED BY <1>1, <2>1, <2>2 DEF create_visitor, browser, bounds, loading, analytics
<1>2. CASE ~ create_visitor(r)
  BY <1>2 DEF Serve, get_visitor, VisitorArrives, VisitorUnknown, RefuseEvent,
              create_funnel_event, VisitorFails, LoseEvent, Abandon, server, browser, bounds,
              loading, analytics
<1> QED BY <1>1, <1>2

LEMMA KnownRequests ==
    ASSUME Types, KnownInv, resets = 0, NEW r \in wire,
           Serve(r) \/ VisitorFails(r) \/ LoseEvent(r) \/ Abandon(r), NEW q \in wire'
    PROVE  KnownRequest(q)'
<1>0. r \in Requests /\ (r.kind # "event" => r.id \in Ids) /\ KnownRequest(r) /\ Known(cookie)
  BY DEF Types, WireType, KnownInv
<1>1. DOMAIN visitors \subseteq DOMAIN visitors'
  BY VisitorsGrow
<1>2. CASE q \in wire
  BY <1>1, <1>2 DEF KnownInv, KnownRequest, Known
<1>3. CASE get_visitor(r) /\ q \notin wire
  <2>1. PICK stage \in {"ok", "unknown"} : /\ Replace(r, stage, r.id)
                                           /\ r.id \in DOMAIN visitors => stage = "ok"
    BY <1>3 DEF get_visitor
  <2>2. q.kind = r.kind /\ q.id = r.id /\ q.stage = stage /\ q.cookie = r.cookie /\ r.kind = "get"
    <3>1. r.kind = "get" /\ r.id \in Ids /\ ~ (q \in wire /\ q # r)
      BY <1>0, <1>3 DEF get_visitor
    <3>2. stage \in {"sent", "ok", "unknown"}
      OBVIOUS
    <3> QED BY <2>1, <3>1, <3>2, ReplacedWire
  <2> QED BY <1>0, <1>1, <2>1, <2>2 DEF KnownRequest, Known
<1>4. CASE create_visitor(r) /\ q \notin wire
  <2>1. PICK v \in Ids : Replace(r, "ok", v) /\ v \in DOMAIN visitors'
    BY <1>4 DEF create_visitor, Types, ServerType, Ids
  <2>2. q.kind = r.kind /\ q.id = v /\ q.cookie = r.cookie /\ r.kind = "post"
    <3>1. r.kind = "post" /\ ~ (q \in wire /\ q # r)
      BY <1>4 DEF create_visitor
    <3>2. "ok" \in {"sent", "ok", "unknown"}
      OBVIOUS
    <3> QED BY <2>1, <3>1, <3>2, ReplacedWire
  <2> QED BY <1>0, <1>1, <2>1, <2>2 DEF KnownRequest, Known
<1>5. CASE VisitorUnknown(r) /\ q \notin wire
  <2>1. q = httpClient(r.from, "post", NoOne)
    BY <1>5 DEF VisitorUnknown, createVisitor
  <2>2. q.kind = "post" /\ q.stage = "sent" /\ q.cookie = cookie
    BY <2>1, Fields
  <2> QED BY <1>0, <1>1, <2>2 DEF KnownRequest, Known
<1>6. CASE VisitorFails(r) /\ q \notin wire
  <2>1. Still(q, r)
    BY <1>6, FailedWire
  <2> QED BY <1>0, <1>1, <2>1 DEF Still, KnownRequest, Known
<1> QED BY <1>2, <1>3, <1>4, <1>5, <1>6
        DEF Serve, VisitorArrives, RefuseEvent, create_funnel_event, LoseEvent, Abandon

LEMMA KnownServed ==
    ASSUME Types, KnownInv, NEW r \in wire,
           Serve(r) \/ VisitorFails(r) \/ LoseEvent(r) \/ Abandon(r)
    PROVE  KnownInv'
<1>1. resets' = resets /\ stored' = stored /\ DOMAIN visitors \subseteq DOMAIN visitors'
  BY VisitorsGrow
<1> SUFFICES ASSUME resets = 0 PROVE KnownInv'
  BY <1>1 DEF KnownInv
<1>2. KnownRequest(r) /\ Known(stored) /\ Known(cookie) /\ \A t \in Tabs : Known(got[t].visitor)
  BY DEF KnownInv
<1>3. \A id : Known(id) => Known(id)'
  BY <1>1 DEF Known
<1>4. CASE VisitorArrives(r)
  <2>1. Known(r.id)
    BY <1>2, <1>4 DEF VisitorArrives, KnownRequest, Known
  <2>2. Known(cookie')
    BY <1>2, <1>4, <2>1 DEF VisitorArrives
  <2>3. \A t \in Tabs : Known(got'[t].visitor)
    BY <1>2, <1>4, <2>1 DEF VisitorArrives, Types, LoadingType
  <2>4. visitors' = visitors
    BY <1>4 DEF VisitorArrives, server
  <2> QED BY <1>1, <1>2, <2>2, <2>3, <2>4, KnownRequests DEF KnownInv, Known
<1>5. CASE ~ VisitorArrives(r)
  <2>1. cookie' = cookie /\ got' = got
    BY <1>5 DEF Serve, get_visitor, create_visitor, VisitorUnknown, RefuseEvent,
                create_funnel_event, VisitorFails, LoseEvent, Abandon, browser, loading
  <2> QED BY <1>1, <1>2, <2>1, KnownRequests DEF KnownInv, Known
<1> QED BY <1>4, <1>5

LEMMA KnownInit == Init => KnownInv
BY DEF Init, KnownInv, Known, NoAnswer

LEMMA KnownKept == Types /\ PendingInv /\ KnownInv /\ [Next]_vars => KnownInv'
<1> SUFFICES ASSUME Types, PendingInv, KnownInv, [Next]_vars PROVE KnownInv'
  OBVIOUS
<1>1. CASE ResetDatabase
  BY <1>1 DEF ResetDatabase, KnownInv, Types, BoundType
<1>2. CASE CookieExpires
  BY <1>2 DEF CookieExpires, KnownInv, KnownRequest, Known, server, loading
<1>3. CASE UNCHANGED vars
  BY <1>3 DEF vars, KnownInv, KnownRequest, Known, server, browser, loading, bounds
<1> QED BY <1>1, <1>2, <1>3, KnownPage, KnownAnalytics, KnownServed DEF Next

-----------------------------------------------------------------------------
(* While the cookie stands too, every step carries one the server knows.   *)
LEMMA CookiePage ==
    ASSUME Types, CookieInv, NEW t \in Tabs, OpenPage(t) \/ Load(t) \/ FlagsFail(t)
    PROVE  CookieInv'
<1>1. UNCHANGED <<visitors, cookie, refused, resets, expiries>>
  BY DEF OpenPage, Load, LoadEffect, FlagsArrive, SessionReady, FlagsFail, server, browser, bounds
<1> SUFFICES ASSUME resets = 0, expiries = 0 PROVE CookieInv'
  BY <1>1 DEF CookieInv
<1>2. CASE OpenPage(t)
  <2>1. \A q \in wire' : \E r \in wire : q.kind = r.kind /\ q.cookie = r.cookie
    BY <1>2, OpenedWire DEF Still
  <2>2. \A u \in Tabs : got'[u].visitor \in {NoOne, got[u].visitor}
    BY <1>2 DEF OpenPage, NoAnswer, Types, LoadingType
  <2>3. stored' = stored
    BY <1>2 DEF OpenPage, browser
  <2> QED BY <1>1, <2>1, <2>2, <2>3 DEF CookieInv
<1>3. CASE LoadEffect(t)
  <2>1. PICK c : /\ wire' = wire \cup {c} /\ c.kind \in {"get", "post"}
                 /\ c.kind = "get" => stored # NoOne
    BY <1>3, Asked
  <2>2. stored' = stored /\ got' = got
    BY <1>3 DEF LoadEffect, browser
  <2> QED BY <1>1, <2>1, <2>2 DEF CookieInv
<1>4. CASE FlagsArrive(t) \/ SessionReady(t) \/ FlagsFail(t)
  <2>1. \A u \in Tabs : got'[u].visitor = got[u].visitor
    BY <1>4 DEF FlagsArrive, SessionReady, FlagsFail, Types, LoadingType
  <2>2. wire' = wire
    BY <1>4 DEF FlagsArrive, SessionReady, FlagsFail
  <2>3. stored' = stored \/ got[t].visitor # NoOne
    BY <1>4 DEF FlagsArrive, SessionReady, FlagsFail, browser
  <2> QED BY <1>1, <2>1, <2>2, <2>3 DEF CookieInv
<1> QED BY <1>2, <1>3, <1>4 DEF Load

(* A page that shows a session has been given its cookie.                  *)
LEMMA ShownWithACookie ==
    ASSUME PendingInv, CookieInv, resets = 0, expiries = 0, NEW t \in Tabs, session[t] # NoOne
    PROVE  cookie # NoOne
BY DEF PendingInv, PendingOf, CookieInv

LEMMA CookieAnalytics ==
    ASSUME Types, PendingInv, CookieInv, NEW t \in Tabs,
           Flush(t) \/ \E s \in Fresh \cup Range(recorded[t]) : record(t, s)
    PROVE  CookieInv'
<1>1. UNCHANGED <<refused, cookie, stored, got, resets, expiries>>
  BY DEF Flush, record, server, browser, loading, bounds
<1> SUFFICES ASSUME resets = 0, expiries = 0 PROVE CookieInv'
  BY <1>1 DEF CookieInv
<1>2. ASSUME NEW q \in wire', q \notin wire
      PROVE  q.kind = "event" /\ q.cookie # NoOne
  BY <1>2, SentWithASession, ShownWithACookie
<1> QED BY <1>1, <1>2 DEF CookieInv

LEMMA ServedWire ==
    ASSUME Types, KnownInv, resets = 0, NEW r \in wire,
           Serve(r) \/ VisitorFails(r) \/ LoseEvent(r) \/ Abandon(r), NEW q \in wire'
    PROVE  /\ q.kind = "event" => q \in wire
           /\ q.kind = "get" => \E p \in wire : p.kind = "get"
           /\ q.kind # "event" /\ q.from # NoOne =>
                \E p \in wire : /\ p.from = q.from /\ p.kind = q.kind /\ p.cookie = q.cookie
                                /\ q.kind = "get" => q.id = p.id
           /\ q.kind = "post" /\ q.from # NoOne /\ ~ create_visitor(r) => q \in wire
<1>0. r \in Requests /\ (r.kind # "event" => r.id \in Ids) /\ KnownRequest(r)
  BY DEF Types, WireType, KnownInv
<1>1. CASE q \in wire
  BY <1>1
<1>2. CASE q \notin wire /\ get_visitor(r)
  <2>1. PICK stage \in {"ok", "unknown"} : Replace(r, stage, r.id)
    BY <1>2 DEF get_visitor
  <2>2. /\ r.id \in Ids /\ ~ (q \in wire /\ q # r) /\ stage \in {"sent", "ok", "unknown"}
        /\ r.kind = "get"
    BY <1>0, <1>2 DEF get_visitor
  <2>3. q.from = r.from /\ q.kind = r.kind /\ q.cookie = r.cookie /\ q.id = r.id
    BY <2>1, <2>2, ReplacedWire
  <2> QED BY <2>2, <2>3
<1>3. CASE q \notin wire /\ create_visitor(r)
  <2>1. PICK v \in Ids : Replace(r, "ok", v)
    BY <1>3 DEF create_visitor, Types, ServerType, Ids
  <2>2. ~ (q \in wire /\ q # r) /\ "ok" \in {"sent", "ok", "unknown"} /\ r.kind = "post"
    BY <1>3 DEF create_visitor
  <2>3. q.from = r.from /\ q.kind = r.kind /\ q.cookie = r.cookie
    BY <2>1, <2>2, ReplacedWire
  <2> QED BY <1>3, <2>2, <2>3
<1>4. ~ VisitorUnknown(r)
  BY <1>0 DEF VisitorUnknown, KnownRequest, isNotFound, ErrorOf, statusOfError, Unanswered
<1>5. CASE q \notin wire /\ VisitorFails(r)
  <2>1. q.from = NoOne /\ q.kind = r.kind /\ r.kind \in {"get", "post"}
    BY <1>5, FailedWire DEF Still, VisitorFails
  <2> QED BY <2>1
<1> QED BY <1>1, <1>2, <1>3, <1>4, <1>5
        DEF Serve, VisitorArrives, RefuseEvent, create_funnel_event, LoseEvent, Abandon

LEMMA CookieServed ==
    ASSUME Types, KnownInv, CookieInv, NEW r \in wire,
           Serve(r) \/ VisitorFails(r) \/ LoseEvent(r) \/ Abandon(r)
    PROVE  CookieInv'
<1>1. resets' = resets /\ expiries' = expiries /\ stored' = stored
  BY VisitorsGrow
<1> SUFFICES ASSUME resets = 0, expiries = 0 PROVE CookieInv'
  BY <1>1 DEF CookieInv
<1>2. \A q \in wire' : q.kind = "event" => q.cookie # NoOne
  BY ServedWire DEF CookieInv
<1>3. cookie = NoOne => \A q \in wire' : q.kind # "get"
  BY ServedWire DEF CookieInv
<1>4. KnownRequest(r)
  BY DEF KnownInv
<1>5. CASE RefuseEvent(r)
  BY <1>4, <1>5 DEF RefuseEvent, KnownRequest, Known, CookieInv
<1>6. CASE VisitorArrives(r)
  <2>1. CASE r.kind = "post"
    <3>1. cookie' = r.id /\ r.id \in DOMAIN visitors
      BY <1>4, <1>6, <2>1 DEF VisitorArrives, KnownRequest
    <3>2. cookie' # NoOne /\ refused' = refused
      BY <1>6, <3>1, FunnelAssumption DEF VisitorArrives, server, Types, ServerType
    <3> QED BY <1>2, <3>2 DEF CookieInv
  <2>2. CASE r.kind = "get"
    <3>1. cookie # NoOne
      BY <2>2 DEF CookieInv
    <3>2. cookie' = cookie /\ refused' = refused
      BY <1>6, <2>2 DEF VisitorArrives, server
    <3> QED BY <1>2, <3>1, <3>2 DEF CookieInv
  <2> QED BY <1>6, <2>1, <2>2 DEF VisitorArrives
<1>7. CASE ~ RefuseEvent(r) /\ ~ VisitorArrives(r)
  <2>1. UNCHANGED <<cookie, got, refused>>
    BY <1>7 DEF Serve, get_visitor, create_visitor, VisitorUnknown, create_funnel_event,
                VisitorFails, LoseEvent, Abandon, server, browser, loading
  <2> QED BY <1>1, <1>2, <1>3, <2>1 DEF CookieInv
<1> QED BY <1>5, <1>6, <1>7

LEMMA CookieKept == Types /\ PendingInv /\ KnownInv /\ CookieInv /\ [Next]_vars => CookieInv'
<1> SUFFICES ASSUME Types, PendingInv, KnownInv, CookieInv, [Next]_vars PROVE CookieInv'
  OBVIOUS
<1>1. CASE ResetDatabase
  BY <1>1 DEF ResetDatabase, CookieInv, Types, BoundType
<1>2. CASE CookieExpires
  BY <1>2 DEF CookieExpires, CookieInv, Types, BoundType
<1>3. CASE UNCHANGED vars
  BY <1>3 DEF vars, CookieInv, server, browser, loading, bounds
<1> QED BY <1>1, <1>2, <1>3, CookiePage, CookieAnalytics, CookieServed DEF Next

-----------------------------------------------------------------------------
LEMMA Inductive == Spec => []IInv
<1>1. Init => OrderInv
  BY OrderInit
<1>2. Init => CookieInv
  BY DEF Init, CookieInv, NoAnswer
<1>3. Init => IInv
  BY <1>1, <1>2, TypesInit, PendingInit, KnownInit DEF IInv
<1>4. IInv /\ [Next]_vars => IInv'
  BY TypesKept, OrderKept, PendingKept, KnownKept, CookieKept DEF IInv
<1> QED BY <1>3, <1>4, PTL DEF Spec

(* Steps wait for the cookie: while it does not expire and the database is *)
(* not reset, no step of any tab is turned away for want of a visitor.     *)
THEOREM NothingTurnedAway == Spec => []NoStepIsTurnedAway
<1>1. IInv => NoStepIsTurnedAway
  BY DEF IInv, CookieInv, NoStepIsTurnedAway
<1> QED BY <1>1, Inductive, PTL

-----------------------------------------------------------------------------
(* One tab: the mirror never names anybody but the cookie's visitor.       *)
LEMMA OnlyRequest ==
    ASSUME Types, PendingInv, OneTab, NEW r \in wire, NEW q \in wire,
           r.kind # "event", r.from # NoOne, q.kind # "event", q.from # NoOne
    PROVE  q = r
<1>1. r.from \in Tabs /\ q.from = r.from
  BY DEF Types, WireType, Requests, OneTab
<1> QED BY <1>1 DEF PendingInv, PendingOf, PendingFor

LEMMA MirrorPage ==
    ASSUME OneTab, Types, PendingInv, MirrorInv, NEW t \in Tabs,
           OpenPage(t) \/ Load(t) \/ FlagsFail(t)
    PROVE  MirrorInv'
<1>1. UNCHANGED <<cookie, storage, resets>>
  BY DEF OpenPage, Load, LoadEffect, FlagsArrive, SessionReady, FlagsFail, browser, bounds
<1> SUFFICES ASSUME resets = 0 PROVE MirrorInv'
  BY <1>1 DEF MirrorInv
<1>2. CASE OpenPage(t)
  <2>1. \A q \in wire' : q.from # NoOne => q \in wire
    BY <1>2, OpenedWire
  <2>2. \A u \in Tabs : got'[u].visitor \in {NoOne, got[u].visitor}
    BY <1>2 DEF OpenPage, NoAnswer, Types, LoadingType
  <2>3. stored' = stored
    BY <1>2 DEF OpenPage, browser
  <2> QED BY <1>1, <2>1, <2>2, <2>3 DEF MirrorInv
<1>3. CASE LoadEffect(t)
  <2>1. PICK c : /\ wire' = wire \cup {c}
                 /\ c.kind = "get" => c.id = stored /\ stored # NoOne
                 /\ c.kind = "post" => stored = NoOne \/ storage = "throws"
    BY <1>3, Asked
  <2>2. stored' = stored /\ got' = got
    BY <1>3 DEF LoadEffect, browser
  <2> QED BY <1>1, <2>1, <2>2 DEF MirrorInv
<1>4. CASE FlagsArrive(t) \/ FlagsFail(t)
  <2>1. \A u \in Tabs : got'[u].visitor = got[u].visitor
    BY <1>4 DEF FlagsArrive, FlagsFail, Types, LoadingType
  <2>2. wire' = wire /\ stored' = stored
    BY <1>4 DEF FlagsArrive, FlagsFail, browser
  <2> QED BY <1>1, <2>1, <2>2 DEF MirrorInv
<1>5. CASE SessionReady(t)
  <2>1. /\ got' = got /\ wire' = wire /\ got[t].visitor # NoOne
        /\ stored' = IF storage = "works" THEN got[t].visitor ELSE stored
    BY <1>5 DEF SessionReady, storeVisitorId
  <2>2. \A q \in wire : q.from # NoOne => q.kind = "event"
    BY <2>1 DEF PendingInv, PendingOf, PendingFor, OneTab, Types, WireType, Requests
  <2> QED BY <1>1, <2>1, <2>2 DEF MirrorInv
<1> QED BY <1>2, <1>3, <1>4, <1>5 DEF Load

LEMMA MirrorAnalytics ==
    ASSUME Types, PendingInv, MirrorInv, NEW t \in Tabs,
           Flush(t) \/ \E s \in Fresh \cup Range(recorded[t]) : record(t, s)
    PROVE  MirrorInv'
<1>1. UNCHANGED <<cookie, stored, storage, got, resets>>
  BY DEF Flush, record, browser, loading, bounds
<1>2. \A q \in wire' : q \in wire \/ q.kind = "event"
  BY SentWithASession
<1> QED BY <1>1, <1>2 DEF MirrorInv

LEMMA MirrorServed ==
    ASSUME OneTab, Types, PendingInv, KnownInv, MirrorInv, NEW r \in wire,
           Serve(r) \/ VisitorFails(r) \/ LoseEvent(r) \/ Abandon(r)
    PROVE  MirrorInv'
<1>1. resets' = resets /\ stored' = stored /\ storage' = storage
  BY VisitorsGrow
<1> SUFFICES ASSUME resets = 0 PROVE MirrorInv'
  BY <1>1 DEF MirrorInv
<1>2. CASE VisitorArrives(r)
  <2>1. /\ r.kind \in {"get", "post"} /\ r.from # NoOne /\ wire' = wire \ {r}
        /\ got' = [got EXCEPT ![r.from].visitor = r.id]
        /\ cookie' = IF r.kind = "post" THEN r.id ELSE cookie
    BY <1>2 DEF VisitorArrives
  <2>2. r.from \in Tabs
    BY <2>1 DEF Types, WireType, Requests
  <2>3. \A u \in Tabs : got'[u].visitor = r.id
    BY <2>1, <2>2 DEF OneTab, Types, LoadingType
  <2>4. cookie' \in {NoOne, r.id} /\ (r.kind = "post" => stored = NoOne)
    BY <2>1 DEF MirrorInv
  <2>5. r.kind = "get" => cookie' = cookie
    BY <2>1
  <2>6. \A q \in wire' : q.from # NoOne => q.kind = "event"
    BY <2>1, OnlyRequest
  <2> QED BY <1>1, <2>1, <2>3, <2>4, <2>5, <2>6 DEF MirrorInv
<1>3. CASE ~ VisitorArrives(r)
  <2>1. cookie' = cookie /\ got' = got
    BY <1>3 DEF Serve, get_visitor, create_visitor, VisitorUnknown, RefuseEvent,
                create_funnel_event, VisitorFails, LoseEvent, Abandon, browser, loading
  <2>2. \A q \in wire' : q.kind # "event" /\ q.from # NoOne =>
           \E p \in wire : /\ p.from = q.from /\ p.kind = q.kind /\ p.cookie = q.cookie
                           /\ q.kind = "get" => q.id = p.id
    BY ServedWire
  <2>3. ASSUME NEW q \in wire', q.from # NoOne
        PROVE  /\ q.kind = "get" => cookie \in {NoOne, q.id}
               /\ q.kind = "post" => stored = NoOne
    <3>1. CASE q.kind # "event"
      <4>1. PICK p \in wire : /\ p.from = q.from /\ p.kind = q.kind /\ p.cookie = q.cookie
                              /\ q.kind = "get" => q.id = p.id
        BY <2>2, <2>3, <3>1
      <4>2. /\ p.kind = "get" => cookie \in {NoOne, p.id}
            /\ p.kind = "post" => stored = NoOne
        BY <2>3, <4>1 DEF MirrorInv
      <4> QED BY <4>1, <4>2
    <3> QED BY <3>1
  <2> QED BY <1>1, <2>1, <2>3 DEF MirrorInv
<1> QED BY <1>2, <1>3

LEMMA MirrorKept ==
    OneTab /\ Types /\ PendingInv /\ KnownInv /\ MirrorInv /\ [Next]_vars => MirrorInv'
<1> SUFFICES ASSUME OneTab, Types, PendingInv, KnownInv, MirrorInv, [Next]_vars
             PROVE  MirrorInv'
  OBVIOUS
<1>1. CASE ResetDatabase
  BY <1>1 DEF ResetDatabase, MirrorInv, Types, BoundType
<1>2. CASE CookieExpires
  BY <1>2 DEF CookieExpires, MirrorInv, loading
<1>3. CASE UNCHANGED vars
  BY <1>3 DEF vars, MirrorInv, browser, loading, bounds
<1> QED BY <1>1, <1>2, <1>3, MirrorPage, MirrorAnalytics, MirrorServed DEF Next

-----------------------------------------------------------------------------
(* Every step is filed under what its page was showing.                    *)
LEMMA FiledAnalytics ==
    ASSUME Types, PendingInv, KnownInv, MirrorInv, FiledInv, NEW t \in Tabs,
           Flush(t) \/ \E s \in Fresh \cup Range(recorded[t]) : record(t, s)
    PROVE  FiledInv'
<1>1. UNCHANGED <<visitors, events, resets>>
  BY DEF Flush, record, server, bounds
<1> SUFFICES ASSUME resets = 0 PROVE FiledInv'
  BY <1>1 DEF FiledInv
<1>2. ASSUME NEW q \in wire', q \notin wire, q.cookie # NoOne
      PROVE  q.shown = visitors[q.cookie]
  <2>1. q.cookie = cookie /\ q.shown = displayed(t) /\ session[t] # NoOne
    BY <1>2, SentWithASession
  <2>2. session[t] = got[t].visitor /\ session[t] \in DOMAIN visitors
    BY <2>1 DEF PendingInv, PendingOf, KnownInv, Known
  <2>3. cookie = session[t]
    BY <1>2, <2>1, <2>2 DEF MirrorInv
  <2> QED BY <2>1, <2>2, <2>3 DEF displayed
<1> QED BY <1>1, <1>2 DEF FiledInv

LEMMA FiledServed ==
    ASSUME Types, KnownInv, FiledInv, NEW r \in wire,
           Serve(r) \/ VisitorFails(r) \/ LoseEvent(r) \/ Abandon(r)
    PROVE  FiledInv'
<1>1. resets' = resets /\ \A v \in DOMAIN visitors : visitors'[v] = visitors[v]
  BY VisitorsGrow
<1> SUFFICES ASSUME resets = 0 PROVE FiledInv'
  BY <1>1 DEF FiledInv
<1>2. ASSUME NEW q \in wire', q.kind = "event", q.cookie # NoOne
      PROVE  q.shown = visitors'[q.cookie]
  <2>1. q \in wire
    BY <1>2, ServedWire
  <2>2. q.cookie \in DOMAIN visitors
    BY <1>2, <2>1 DEF KnownInv, KnownRequest, Known
  <2> QED BY <1>1, <1>2, <2>1, <2>2 DEF FiledInv
<1>3. ASSUME NEW s \in DOMAIN events' PROVE events'[s].tag = events'[s].shown
  <2>1. CASE create_funnel_event(r)
    <3>1. r.cookie # NoOne
      BY <2>1, FunnelAssumption DEF create_funnel_event, Types, ServerType
    <3>2. visitors[r.cookie] = r.shown
      BY <2>1, <3>1 DEF create_funnel_event, FiledInv
    <3>3. CASE s \in DOMAIN events /\ events'[s] = events[s]
      BY <3>3 DEF FiledInv
    <3>4. CASE events'[s] = [visitor |-> r.cookie, tag |-> visitors[r.cookie], shown |-> r.shown]
      BY <3>2, <3>4
    <3> QED BY <2>1, <3>3, <3>4 DEF create_funnel_event
  <2>2. CASE ~ create_funnel_event(r)
    <3>1. events' = events
      BY <2>2 DEF Serve, get_visitor, create_visitor, VisitorArrives, VisitorUnknown, RefuseEvent,
                  VisitorFails, LoseEvent, Abandon, server
    <3> QED BY <3>1 DEF FiledInv
  <2> QED BY <2>1, <2>2
<1> QED BY <1>1, <1>2, <1>3 DEF FiledInv

LEMMA FiledKept ==
    Types /\ PendingInv /\ KnownInv /\ MirrorInv /\ FiledInv /\ [Next]_vars => FiledInv'
<1> SUFFICES ASSUME Types, PendingInv, KnownInv, MirrorInv, FiledInv, [Next]_vars
             PROVE  FiledInv'
  OBVIOUS
<1>1. ASSUME NEW t \in Tabs, OpenPage(t) \/ Load(t) \/ FlagsFail(t) PROVE FiledInv'
  <2>1. UNCHANGED <<visitors, events, resets>>
    BY <1>1 DEF OpenPage, Load, LoadEffect, FlagsArrive, SessionReady, FlagsFail, server, bounds
  <2>2. ASSUME NEW q \in wire', q.kind = "event"
        PROVE  \E r \in wire : r.kind = "event" /\ r.cookie = q.cookie /\ r.shown = q.shown
    <3>1. CASE OpenPage(t)
      BY <2>2, <3>1, OpenedWire DEF Still
    <3>2. CASE LoadEffect(t)
      BY <2>2, <3>2, Asked
    <3> QED BY <1>1, <2>2, <3>1, <3>2 DEF Load, FlagsArrive, SessionReady, FlagsFail
  <2> QED BY <2>1, <2>2 DEF FiledInv
<1>2. CASE ResetDatabase
  BY <1>2 DEF ResetDatabase, FiledInv, Types, BoundType
<1>3. CASE CookieExpires \/ UNCHANGED vars
  BY <1>3 DEF CookieExpires, vars, FiledInv, server, bounds
<1> QED BY <1>1, <1>2, <1>3, FiledAnalytics, FiledServed DEF Next

-----------------------------------------------------------------------------
(* A browser is one visitor.                                               *)
LEMMA SamePage ==
    ASSUME Types, SameInv, NEW t \in Tabs, OpenPage(t) \/ Load(t) \/ FlagsFail(t)
    PROVE  SameInv'
<1>1. UNCHANGED <<cookie, events, resets, expiries>>
  BY DEF OpenPage, Load, LoadEffect, FlagsArrive, SessionReady, FlagsFail, server, browser, bounds
<1> SUFFICES ASSUME resets = 0, expiries = 0 PROVE SameInv'
  BY <1>1 DEF SameInv
<1>2. CASE OpenPage(t)
  <2>1. \A q \in wire' : /\ q.from # NoOne => q \in wire
                         /\ \E p \in wire : q.kind = p.kind /\ q.cookie = p.cookie
    BY <1>2, OpenedWire DEF Still
  <2> QED BY <1>1, <2>1 DEF SameInv
<1>3. CASE LoadEffect(t)
  <2>1. PICK c : /\ wire' = wire \cup {c} /\ c.kind \in {"get", "post"}
                 /\ c.cookie = cookie /\ c.stage = "sent"
    BY <1>3, Asked
  <2> QED BY <1>1, <2>1 DEF SameInv
<1>4. CASE wire' = wire
  BY <1>1, <1>4 DEF SameInv
<1> QED BY <1>2, <1>3, <1>4 DEF Load, FlagsArrive, SessionReady, FlagsFail

LEMMA SameAnalytics ==
    ASSUME Types, PendingInv, SameInv, NEW t \in Tabs,
           Flush(t) \/ \E s \in Fresh \cup Range(recorded[t]) : record(t, s)
    PROVE  SameInv'
<1>1. UNCHANGED <<cookie, events, resets, expiries>>
  BY DEF Flush, record, server, browser, bounds
<1>2. \A q \in wire' : q \in wire \/ (q.kind = "event" /\ q.cookie = cookie)
  BY SentWithASession
<1> QED BY <1>1, <1>2 DEF SameInv

LEMMA SameServed ==
    ASSUME OneTab, Types, PendingInv, KnownInv, CookieInv, SameInv, NEW r \in wire,
           Serve(r) \/ VisitorFails(r) \/ LoseEvent(r) \/ Abandon(r)
    PROVE  SameInv'
<1>1. resets' = resets /\ expiries' = expiries
  BY VisitorsGrow
<1> SUFFICES ASSUME resets = 0, expiries = 0 PROVE SameInv'
  BY <1>1 DEF SameInv
<1>2. \A q \in wire' : q.kind = "event" => q \in wire
  BY ServedWire
<1>3. KnownRequest(r)
  BY DEF KnownInv
<1>4. CASE create_visitor(r)
  <2>1. UNCHANGED <<cookie, events>> /\ r.kind = "post"
    BY <1>4 DEF create_visitor, browser
  <2>2. PICK v \in Ids : /\ Replace(r, "ok", v)
                         /\ r.cookie # NoOne => v = r.cookie
    BY <1>3, <1>4 DEF create_visitor, Types, ServerType, Ids, KnownRequest, Known
  <2>3. ASSUME NEW q \in wire', q \notin wire
        PROVE  q.from = r.from /\ q.kind = "post" /\ q.cookie = r.cookie /\ q.id = v
    <3>1. ~ (q \in wire /\ q # r) /\ "ok" \in {"sent", "ok", "unknown"}
      BY <2>3
    <3> QED BY <2>1, <2>2, <3>1, ReplacedWire
  <2> QED BY <1>2, <2>1, <2>2, <2>3 DEF SameInv
<1>5. CASE VisitorArrives(r)
  <2>1. /\ r.kind \in {"get", "post"} /\ r.stage = "ok" /\ r.from # NoOne /\ wire' = wire \ {r}
        /\ cookie' = IF r.kind = "post" THEN r.id ELSE cookie
        /\ events' = events
    BY <1>5 DEF VisitorArrives, server
  <2>2. \A q \in wire' : q.from # NoOne => q.kind = "event"
    BY <2>1, OnlyRequest
  <2>3. cookie # NoOne => cookie' = cookie
    BY <2>1 DEF SameInv
  <2>4. cookie = NoOne => events' = events /\ DOMAIN events = {} /\ \A q \in wire : q.kind # "event"
    BY <2>1 DEF SameInv, CookieInv
  <2> QED BY <2>1, <2>2, <2>3, <2>4 DEF SameInv
<1>6. CASE ~ create_visitor(r) /\ ~ VisitorArrives(r)
  <2>1. cookie' = cookie
    BY <1>6 DEF Serve, get_visitor, VisitorUnknown, RefuseEvent,
                create_funnel_event, VisitorFails, LoseEvent, Abandon, browser
  <2>2. \A q \in wire' : q.kind = "post" /\ q.from # NoOne => q \in wire
    BY <1>6, ServedWire
  <2>3. ASSUME NEW s \in DOMAIN events' PROVE events'[s].visitor = cookie /\ cookie # NoOne
    <3>1. CASE create_funnel_event(r)
      <4>1. r.cookie = cookie /\ cookie # NoOne
        BY <3>1 DEF create_funnel_event, SameInv, CookieInv
      <4>2. CASE s \in DOMAIN events /\ events'[s] = events[s]
        BY <4>2 DEF SameInv
      <4>3. CASE events'[s] = [visitor |-> r.cookie, tag |-> visitors[r.cookie], shown |-> r.shown]
        BY <4>1, <4>3
      <4> QED BY <3>1, <4>2, <4>3 DEF create_funnel_event
    <3>2. CASE ~ create_funnel_event(r)
      <4>1. events' = events
        BY <1>6, <3>2 DEF Serve, get_visitor, VisitorUnknown, RefuseEvent, VisitorFails, LoseEvent,
                          Abandon, server
      <4> QED BY <4>1 DEF SameInv
    <3> QED BY <3>1, <3>2
  <2> QED BY <1>2, <2>1, <2>2, <2>3 DEF SameInv
<1> QED BY <1>4, <1>5, <1>6

LEMMA SameKept ==
    OneTab /\ Types /\ PendingInv /\ KnownInv /\ CookieInv /\ SameInv /\ [Next]_vars => SameInv'
<1> SUFFICES ASSUME OneTab, Types, PendingInv, KnownInv, CookieInv, SameInv, [Next]_vars
             PROVE  SameInv'
  OBVIOUS
<1>1. CASE ResetDatabase
  BY <1>1 DEF ResetDatabase, SameInv, Types, BoundType
<1>2. CASE CookieExpires
  BY <1>2 DEF CookieExpires, SameInv, Types, BoundType
<1>3. CASE UNCHANGED vars
  BY <1>3 DEF vars, SameInv, server, browser, bounds
<1> QED BY <1>1, <1>2, <1>3, SamePage, SameAnalytics, SameServed DEF Next

-----------------------------------------------------------------------------
LEMMA OneTabInductive ==
    ASSUME OneTab PROVE Spec => [](IInv /\ MirrorInv /\ FiledInv /\ SameInv)
<1>1. Init => MirrorInv /\ FiledInv /\ SameInv
  BY DEF Init, MirrorInv, FiledInv, SameInv, NoAnswer
<1>2. IInv /\ MirrorInv /\ FiledInv /\ SameInv /\ [Next]_vars => (MirrorInv /\ FiledInv /\ SameInv)'
  BY MirrorKept, FiledKept, SameKept DEF IInv
<1> QED BY <1>1, <1>2, Inductive, PTL DEF Spec

(* In a browser with one tab, every step is filed under the variant its    *)
(* page was showing, whatever the cookie and the mirror go through while   *)
(* the database stands.                                                    *)
THEOREM StepsAreTaggedAsShown == ASSUME OneTab PROVE Spec => []TaggedAsShown
<1>1. FiledInv => TaggedAsShown
  BY DEF FiledInv, TaggedAsShown
<1> QED BY <1>1, OneTabInductive, PTL

(* In a browser with one tab whose cookie stands, however often the page   *)
(* is reloaded and its session fails, whatever names a visitor -- cookie,  *)
(* mirror, page or filed step -- names the same one.                       *)
THEOREM ABrowserIsOneVisitor == ASSUME OneTab PROVE Spec => []OneVisitorPerBrowser
<1>1. IInv /\ MirrorInv /\ SameInv => OneVisitorPerBrowser
  <2> DEFINE filed == {events[s].visitor : s \in DOMAIN events}
             who == ({cookie, stored} \cup Range(session) \cup filed) \ {NoOne}
  <2> SUFFICES ASSUME IInv, MirrorInv, SameInv, resets = 0, expiries = 0
               PROVE  Cardinality(who) <= 1
    BY DEF OneVisitorPerBrowser
  <2>1. who \subseteq {cookie}
    <3>1. filed \subseteq {cookie}
      BY DEF SameInv
    <3>2. stored # NoOne => stored = cookie
      BY DEF IInv, CookieInv, MirrorInv
    <3>3. ASSUME NEW t \in Tabs, session[t] # NoOne PROVE session[t] = cookie
      <4>1. session[t] = got[t].visitor
        BY <3>3 DEF IInv, PendingInv, PendingOf
      <4> QED BY <3>3, <4>1 DEF IInv, CookieInv, MirrorInv
    <3>4. \A v \in Range(session) : \E t \in Tabs : v = session[t]
      BY DEF Range, IInv, Types, LoadingType
    <3> HIDE DEF filed
    <3> QED BY <3>1, <3>2, <3>3, <3>4
  <2>2. IsFiniteSet({cookie}) /\ Cardinality({cookie}) = 1
    BY FS_Singleton
  <2> HIDE DEF who
  <2>3. Cardinality(who) <= Cardinality({cookie})
    BY <2>1, <2>2, FS_Subset
  <2> QED BY <2>2, <2>3 DEF who
<1> QED BY <1>1, OneTabInductive, PTL

-----------------------------------------------------------------------------
(* The ids steps are minted with.                                          *)
LEMMA StampedBytes ==
    ASSUME NEW bytes \in Uint8Array, NEW i \in 0..15
    PROVE  /\ stamped(bytes)[i] \in 0..255
           /\ i \notin {6, 8} => stamped(bytes)[i] = bytes[i]
           /\ i = 6 => stamped(bytes)[i] = (bytes[i] % 16) + 64
           /\ i = 8 => stamped(bytes)[i] = (bytes[i] % 64) + 128
<1>1. bytes[i] \in 0..255 /\ bytes \in [0..15 -> 0..255]
  BY DEF Uint8Array, UUID_BYTES
<1>2. bytes[i] % 16 \in 0..15 /\ bytes[i] % 64 \in 0..63
  BY <1>1
<1>3. i \notin {6, 8} => stamped(bytes)[i] = bytes[i]
  BY <1>1 DEF stamped, UUID_VERSION_INDEX, UUID_VARIANT_INDEX
<1>4. i = 6 => stamped(bytes)[i] = (bytes[i] % 16) + 64
  BY <1>1 DEF stamped, UUID_VERSION_INDEX, UUID_VARIANT_INDEX, stampVersion
<1>5. i = 8 => stamped(bytes)[i] = (bytes[i] % 64) + 128
  BY <1>1 DEF stamped, UUID_VERSION_INDEX, UUID_VARIANT_INDEX, stampVariant
<1> QED BY <1>1, <1>2, <1>3, <1>4, <1>5

LEMMA DigitsOfAByte ==
    ASSUME NEW bytes \in Uint8Array, NEW i \in 0..15
    PROVE  /\ hex(bytes)[2 * i] = stamped(bytes)[i] \div 16
           /\ hex(bytes)[2 * i + 1] = stamped(bytes)[i] % 16
<1>1. /\ 2 * i \in 0..31 /\ (2 * i) \div 2 = i /\ (2 * i) % 2 = 0
      /\ 2 * i + 1 \in 0..31 /\ (2 * i + 1) \div 2 = i /\ (2 * i + 1) % 2 = 1
  OBVIOUS
<1> QED BY <1>1 DEF hex, hexOf, UUID_BYTES, HEX_BYTE_WIDTH, HEX_RADIX

LEMMA SameByte ==
    ASSUME NEW x \in Int, NEW y \in Int, x \div 16 = y \div 16, x % 16 = y % 16
    PROVE  x = y
BY SMT

(* Whatever the sixteen bytes, the id is a version 4 UUID: its third group *)
(* opens with a 4, its fourth with 8, 9, a or b, and every digit is one    *)
(* (ids.utils.ts:24).                                                      *)
THEOREM IdsAreWellFormed ==
    ASSUME NEW bytes \in Uint8Array
    PROVE  /\ uuidFromRandomBytes(bytes)[<<12, 16>>][0] = 4
           /\ uuidFromRandomBytes(bytes)[<<16, 20>>][0] \in 8..11
           /\ \A digit \in 0..31 : hex(bytes)[digit] \in 0..15
<1>1. hex(bytes)[12] = 4
  <2>1. bytes[6] \in 0..255
    BY DEF Uint8Array, UUID_BYTES
  <2>3. stamped(bytes)[6] = (bytes[6] % 16) + 64
    BY StampedBytes
  <2>2. hex(bytes)[2 * 6] = stamped(bytes)[6] \div 16
    BY DigitsOfAByte
  <2> QED BY <2>1, <2>2, <2>3
<1>2. hex(bytes)[16] \in 8..11
  <2>1. bytes[8] \in 0..255
    BY DEF Uint8Array, UUID_BYTES
  <2>3. stamped(bytes)[8] = (bytes[8] % 64) + 128
    BY StampedBytes
  <2>2. hex(bytes)[2 * 8] = stamped(bytes)[8] \div 16
    BY DigitsOfAByte
  <2> QED BY <2>1, <2>2, <2>3
<1>3. ASSUME NEW digit \in 0..31
      PROVE  hex(bytes)[digit] \in 0..15
  <2>1. PICK i \in 0..15 : digit = 2 * i \/ digit = 2 * i + 1
    <3>1. digit \div 2 \in 0..15 /\ (digit = 2 * (digit \div 2) \/ digit = 2 * (digit \div 2) + 1)
      OBVIOUS
    <3> QED BY <3>1
  <2>2. stamped(bytes)[i] \in 0..255
    BY StampedBytes
  <2>3. stamped(bytes)[i] \div 16 \in 0..15 /\ stamped(bytes)[i] % 16 \in 0..15
    BY <2>2
  <2> QED BY <2>1, <2>3, DigitsOfAByte
<1>4. /\ uuidFromRandomBytes(bytes)[<<12, 16>>][0] = hex(bytes)[12]
      /\ uuidFromRandomBytes(bytes)[<<16, 20>>][0] = hex(bytes)[16]
  BY DEF uuidFromRandomBytes, UUID_GROUPS
<1> QED BY <1>1, <1>2, <1>3, <1>4

(* Two drawings make the same id only if they agree on every bit the       *)
(* stamps leave alone: 122 random bits stand between two steps taken for   *)
(* one, or one visitor's step for another's.                               *)
THEOREM IdsKeepTheirRandomness ==
    ASSUME NEW a \in Uint8Array, NEW b \in Uint8Array,
           uuidFromRandomBytes(a) = uuidFromRandomBytes(b)
    PROVE  /\ \A i \in (0..15) \ {6, 8} : a[i] = b[i]
           /\ a[6] % 16 = b[6] % 16 /\ a[8] % 64 = b[8] % 64
<1>1. ASSUME NEW group \in UUID_GROUPS, NEW k \in 0..(group[2] - group[1] - 1)
      PROVE  hex(a)[group[1] + k] = hex(b)[group[1] + k]
  <2>1. /\ uuidFromRandomBytes(a)[group][k] = hex(a)[group[1] + k]
        /\ uuidFromRandomBytes(b)[group][k] = hex(b)[group[1] + k]
    BY DEF uuidFromRandomBytes
  <2> QED BY <2>1
<1>2. ASSUME NEW digit \in 0..31
      PROVE  hex(a)[digit] = hex(b)[digit]
  <2>1. \E from \in {0, 8, 12, 16, 20} : \E to \in {8, 12, 16, 20, 32} :
           /\ <<from, to>> \in UUID_GROUPS
           /\ digit - from \in 0..(to - from - 1)
    <3>1. CASE digit < 8
      BY <3>1 DEF UUID_GROUPS
    <3>2. CASE digit >= 8 /\ digit < 12
      BY <3>2 DEF UUID_GROUPS
    <3>3. CASE digit >= 12 /\ digit < 16
      BY <3>3 DEF UUID_GROUPS
    <3>4. CASE digit >= 16 /\ digit < 20
      BY <3>4 DEF UUID_GROUPS
    <3>5. CASE digit >= 20
      BY <3>5 DEF UUID_GROUPS
    <3> QED BY <3>1, <3>2, <3>3, <3>4, <3>5
  <2>2. PICK from \in {0, 8, 12, 16, 20}, to \in {8, 12, 16, 20, 32} :
           /\ <<from, to>> \in UUID_GROUPS
           /\ digit - from \in 0..(to - from - 1)
    BY <2>1
  <2>3. <<from, to>>[1] = from /\ <<from, to>>[2] = to
    OBVIOUS
  <2>4. hex(a)[from + (digit - from)] = hex(b)[from + (digit - from)]
    BY <1>1, <2>2, <2>3
  <2>5. from + (digit - from) = digit
    BY <2>2
  <2> QED BY <2>4, <2>5
<1>3. ASSUME NEW i \in 0..15
      PROVE  stamped(a)[i] = stamped(b)[i]
  <2>1. 2 * i \in 0..31 /\ 2 * i + 1 \in 0..31
    OBVIOUS
  <2>2. /\ stamped(a)[i] \div 16 = stamped(b)[i] \div 16
        /\ stamped(a)[i] % 16 = stamped(b)[i] % 16
    BY <1>2, <2>1, DigitsOfAByte
  <2>3. stamped(a)[i] \in 0..255 /\ stamped(b)[i] \in 0..255
    BY StampedBytes
  <2>4. stamped(a)[i] \in Int /\ stamped(b)[i] \in Int
    BY <2>3
  <2> QED BY <2>2, <2>4, SameByte
<1>4. \A i \in (0..15) \ {6, 8} : a[i] = b[i]
  BY <1>3, StampedBytes
<1>5. a[6] % 16 = b[6] % 16
  <2>1. stamped(a)[6] = (a[6] % 16) + 64 /\ stamped(b)[6] = (b[6] % 16) + 64
    BY StampedBytes
  <2>2. a[6] \in 0..255 /\ b[6] \in 0..255
    BY DEF Uint8Array, UUID_BYTES
  <2> QED BY <1>3, <2>1, <2>2
<1>6. a[8] % 64 = b[8] % 64
  <2>1. stamped(a)[8] = (a[8] % 64) + 128 /\ stamped(b)[8] = (b[8] % 64) + 128
    BY StampedBytes
  <2>2. a[8] \in 0..255 /\ b[8] \in 0..255
    BY DEF Uint8Array, UUID_BYTES
  <2> QED BY <1>3, <2>1, <2>2
<1> QED BY <1>4, <1>5, <1>6
=============================================================================
