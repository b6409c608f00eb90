---------------------------- MODULE FunnelSession ----------------------------
(***************************************************************************)
(* Who a visitor is, and under whom their funnel steps are filed: one      *)
(* browser with several tabs, its HttpOnly cookie and its localStorage     *)
(* mirror, the visitor session each tab loads, the analytics queue behind  *)
(* it, and the visitor and funnel_event tables.                            *)
(*                                                                         *)
(* One flag is in question.  Which variant a new visitor is given is       *)
(* Enrolment's business: here it is any variant, or none.                  *)
(***************************************************************************)
EXTENDS HttpClient, Sequences, FiniteSets, Functions

CONSTANTS Tabs,
          Visitors,      \* the visitor ids that will be minted
          Steps,         \* bound: the funnel steps (event ids) pages will mint
          Variants,      \* the flag's variant keys
          Outside,       \* no assignment: the flag was off
          NoOne,         \* no cookie, nothing stored, no answer yet
          MaxLoads,      \* bound on page loads
          MaxLosses,     \* bound on failed visitor and flag requests
          MaxLostSteps,  \* bound on funnel-event requests lost
          MaxResets,     \* bound on database resets
          MaxExpiries    \* bound on the cookie expiring or being cleared

VARIABLES visitors,  \* the server: id |-> the variant stored for it
          minted,    \* ids handed out; generate_unique_id never repeats one
          events,    \* the server: event id |-> [visitor, tag, shown]
          refused,   \* ghost: steps answered 401 or 404
          cookie,    \* the browser's visitor_id cookie
          stored,    \* its localStorage mirror
          storage,   \* localStorage works, or throws on every access
          page,      \* each tab's VisitorState: "closed", "loading", "ready", "failed"
          inFlight,  \* useLoadedState's request ref
          got,       \* Promise.all: the visitor half, and whether the flags are in
          session,   \* the visitor each ready tab shows
          ref,       \* AnalyticsProvider's visitorRef
          queue,     \* its queue
          recorded,  \* its recorded ids, in order
          sent,      \* ghost: the steps each page sent, in order
          wire,      \* visitor and event requests on their way
          loads, losses, lostSteps, resets, expiries

server == <<visitors, minted, events, refused>>
browser == <<cookie, stored, storage>>
loading == <<page, inFlight, got, session>>
analytics == <<ref, queue, recorded, sent>>
bounds == <<loads, losses, lostSteps, resets, expiries>>
vars == <<server, browser, loading, analytics, wire, bounds>>

ASSUME FunnelAssumption == NoOne \notin Visitors \cup Tabs /\ Outside \notin Variants

NoAnswer == [visitor |-> NoOne, flags |-> FALSE]

Init ==
    /\ visitors = [v \in {} |-> Outside] /\ minted = {}
    /\ events = [s \in {} |-> Outside] /\ refused = {}
    /\ cookie = NoOne /\ stored = NoOne /\ storage \in {"works", "throws"}
    /\ page = [t \in Tabs |-> "closed"]
    /\ inFlight = [t \in Tabs |-> FALSE]
    /\ got = [t \in Tabs |-> NoAnswer]
    /\ session = [t \in Tabs |-> NoOne]
    /\ ref = [t \in Tabs |-> "loading"]
    /\ queue = [t \in Tabs |-> <<>>]
    /\ recorded = [t \in Tabs |-> <<>>]
    /\ sent = [t \in Tabs |-> <<>>]
    /\ wire = {}
    /\ loads = 0 /\ losses = 0 /\ lostSteps = 0 /\ resets = 0 /\ expiries = 0

-----------------------------------------------------------------------------
(* The page and its session load.                                          *)

(* The variant a page displays: its session's, as the server stored it.    *)
displayed(t) == IF session[t] \in DOMAIN visitors THEN visitors[session[t]] ELSE Outside

(* The cookie rides on every request as it stands when the request leaves; *)
(* `shown` is a ghost, what the page displays meanwhile.                   *)
httpClient(t, kind, id) ==
    [from |-> t, kind |-> kind, id |-> id, cookie |-> cookie, stage |-> "sent",
     shown |-> displayed(t)]

createVisitor(t) == httpClient(t, "post", NoOne)

fetchVisitor(t, id) == httpClient(t, "get", id)

(* A browser that refuses storage reads as "no visitor yet", and a write   *)
(* it refuses is forgotten.                                                *)
readStoredVisitorId == IF storage = "works" THEN stored ELSE NoOne

storeVisitorId(id) == stored' = IF storage = "works" THEN id ELSE stored

(* What a session load asks first.                                         *)
resolveVisitor(t) ==
    IF readStoredVisitorId = NoOne THEN createVisitor(t) ELSE fetchVisitor(t, readStoredVisitorId)

(* A tab is opened or reloaded; what the old page had out is abandoned.    *)
OpenPage(t) ==
    /\ loads < MaxLoads
    /\ loads' = loads + 1
    /\ page' = [page EXCEPT ![t] = "loading"]
    /\ inFlight' = [inFlight EXCEPT ![t] = FALSE]
    /\ got' = [got EXCEPT ![t] = NoAnswer]
    /\ session' = [session EXCEPT ![t] = NoOne]
    /\ ref' = [ref EXCEPT ![t] = "loading"]
    /\ queue' = [queue EXCEPT ![t] = <<>>]
    /\ recorded' = [recorded EXCEPT ![t] = <<>>]
    /\ sent' = [sent EXCEPT ![t] = <<>>]
    /\ wire' = {IF r.from = t THEN [r EXCEPT !.from = NoOne] ELSE r : r \in wire}
    /\ UNCHANGED <<server, browser, losses, lostSteps, resets, expiries>>

(* The mount effect.  StrictMode runs it again on the same page: that run  *)
(* finds the request in the ref and joins it.                              *)
LoadEffect(t) ==
    /\ page[t] = "loading"
    /\ ~ inFlight[t]
    /\ inFlight' = [inFlight EXCEPT ![t] = TRUE]
    /\ wire' = wire \cup {resolveVisitor(t)}
    /\ UNCHANGED <<server, browser, page, got, session, analytics, bounds>>

Replace(r, stage, id) == wire' = (wire \ {r}) \cup {[r EXCEPT !.stage = stage, !.id = id]}

(* GET /visitors/{id}: the assignments as stored, and no cookie.           *)
get_visitor(r) ==
    /\ r.kind = "get" /\ r.stage = "sent"
    /\ Replace(r, IF r.id \in DOMAIN visitors THEN "ok" ELSE "unknown", r.id)
    /\ UNCHANGED <<server, browser, loading, analytics, bounds>>

(* Mutant: every POST enrols somebody new, whatever cookie it carries.     *)
create_visitor_anew(r) ==
    /\ r.kind = "post" /\ r.stage = "sent"
    /\ \E v \in Visitors \ minted, k \in Variants \cup {Outside} :
          /\ visitors' = [u \in DOMAIN visitors \cup {v} |->
                            IF u = v THEN k ELSE visitors[u]]
          /\ minted' = minted \cup {v}
          /\ Replace(r, "ok", v)
    /\ UNCHANGED <<events, refused, browser, loading, analytics, bounds>>

(* POST /visitors: the visitor the cookie names, or a new one.             *)
create_visitor(r) ==
    /\ r.kind = "post" /\ r.stage = "sent"
    /\ IF r.cookie \in DOMAIN visitors
       THEN Replace(r, "ok", r.cookie) /\ UNCHANGED <<visitors, minted>>
       ELSE \E v \in Visitors \ minted, k \in Variants \cup {Outside} :
              /\ visitors' = [u \in DOMAIN visitors \cup {v} |->
                                IF u = v THEN k ELSE visitors[u]]
              /\ minted' = minted \cup {v}
              /\ Replace(r, "ok", v)
    /\ UNCHANGED <<events, refused, browser, loading, analytics, bounds>>

(* The visitor half resolves.  Only the POST's answer sets the cookie.     *)
VisitorArrives(r) ==
    /\ r.kind \in {"get", "post"} /\ r.stage = "ok" /\ r.from # NoOne
    /\ cookie' = IF r.kind = "post" THEN r.id ELSE cookie
    /\ got' = [got EXCEPT ![r.from].visitor = r.id]
    /\ wire' = wire \ {r}
    /\ UNCHANGED <<server, stored, storage, page, inFlight, session, analytics, bounds>>

(* What a request that brought no visitor fails with.                      *)
ErrorOf(r) == IF r.stage = "unknown" THEN Answered(HTTP_NOT_FOUND) ELSE Unanswered

isNotFound(error) == HTTP_NOT_FOUND \in statusOfError(error)

(* A stored id the server no longer knows: start again as somebody new.    *)
VisitorUnknown(r) ==
    /\ r.kind = "get" /\ isNotFound(ErrorOf(r)) /\ r.from # NoOne
    /\ wire' = (wire \ {r}) \cup {createVisitor(r.from)}
    /\ UNCHANGED <<server, browser, loading, analytics, bounds>>

FlagsArrive(t) ==
    /\ inFlight[t] /\ page[t] = "loading" /\ ~ got[t].flags
    /\ got' = [got EXCEPT ![t].flags = TRUE]
    /\ UNCHANGED <<server, browser, page, inFlight, session, analytics, wire, bounds>>

(* Both halves are in: mirror the id, then show the session.               *)
SessionReady(t) ==
    /\ page[t] = "loading"
    /\ got[t].flags /\ got[t].visitor # NoOne
    /\ storeVisitorId(got[t].visitor)
    /\ session' = [session EXCEPT ![t] = got[t].visitor]
    /\ page' = [page EXCEPT ![t] = "ready"]
    /\ UNCHANGED <<server, cookie, storage, inFlight, got, analytics, wire, bounds>>

(* Either half fails and the whole session has: the other half may still   *)
(* arrive, with its cookie.                                                *)
FlagsFail(t) ==
    /\ inFlight[t] /\ page[t] = "loading" /\ ~ got[t].flags
    /\ losses < MaxLosses /\ losses' = losses + 1
    /\ page' = [page EXCEPT ![t] = "failed"]
    /\ UNCHANGED <<server, browser, inFlight, got, session, analytics, wire,
                   loads, lostSteps, resets, expiries>>

VisitorFails(r) ==
    /\ r.kind \in {"get", "post"} /\ r.from # NoOne
    /\ losses < MaxLosses /\ losses' = losses + 1
    /\ page' = [page EXCEPT ![r.from] = "failed"]
    /\ wire' = (wire \ {r}) \cup {[r EXCEPT !.from = NoOne]}
    /\ UNCHANGED <<server, browser, inFlight, got, session, analytics,
                   loads, lostSteps, resets, expiries>>

-----------------------------------------------------------------------------
(* The analytics provider.                                                 *)

(* A step as its page made it -- its name and instant go along unread --   *)
(* and what of it is sent: nothing in the body names a visitor.            *)
FunnelEvent(s) == [id |-> s]

toCreatePayload(event) == [id |-> event.id]

EventRequest(t, s) == httpClient(t, "event", toCreatePayload(FunnelEvent(s)).id)

Send(t, steps) ==
    /\ wire' = wire \cup {EventRequest(t, s) : s \in Range(steps)}
    /\ sent' = [sent EXCEPT ![t] = @ \o steps]

(* Steps no page has minted yet.                                           *)
Fresh == Steps \ (UNION {Range(recorded[t]) : t \in Tabs} \cup DOMAIN events \cup refused
                    \cup {r.id : r \in wire})

(* Once per id: StrictMode runs a mount effect twice with the id it minted *)
(* once, and the second run records nothing.                               *)
hasRecorded(t, s) == s \in Range(recorded[t])

(* Mutant: a step is sent without waiting for the session.                 *)
recordEagerly(t, s) ==
    /\ page[t] # "closed"
    /\ ~ hasRecorded(t, s)
    /\ recorded' = [recorded EXCEPT ![t] = Append(@, s)]
    /\ Send(t, <<s>>)
    /\ UNCHANGED <<server, browser, loading, ref, queue, bounds>>

record(t, s) ==
    /\ page[t] # "closed"
    /\ ~ hasRecorded(t, s)
    /\ recorded' = [recorded EXCEPT ![t] = Append(@, s)]
    /\ \/ ref[t] = "failed" /\ UNCHANGED <<queue, sent, wire>>
       \/ ref[t] = "loading" /\ queue' = [queue EXCEPT ![t] = Append(@, s)]
                             /\ UNCHANGED <<sent, wire>>
       \/ ref[t] = "ready" /\ Send(t, <<s>>) /\ UNCHANGED queue
    /\ UNCHANGED <<server, browser, loading, ref, bounds>>

(* Mutants: what was sent stays queued, and a failed session is not told   *)
(* to the queue.                                                           *)
FlushKeeps(t) ==
    /\ page[t] # ref[t] /\ page[t] # "closed"
    /\ ref' = [ref EXCEPT ![t] = page[t]]
    /\ IF page[t] = "ready" THEN Send(t, queue[t]) ELSE UNCHANGED <<sent, wire>>
    /\ UNCHANGED <<server, browser, loading, recorded, queue, bounds>>

FlushWhenReady(t) ==
    /\ page[t] # ref[t] /\ page[t] = "ready"
    /\ ref' = [ref EXCEPT ![t] = page[t]]
    /\ queue' = [queue EXCEPT ![t] = <<>>]
    /\ Send(t, queue[t])
    /\ UNCHANGED <<server, browser, loading, recorded, bounds>>

(* The provider's effect, after the effects of the children that mounted   *)
(* in the same commit: what waited is sent in order, or dropped.           *)
Flush(t) ==
    /\ page[t] # ref[t] /\ page[t] # "closed"
    /\ ref' = [ref EXCEPT ![t] = page[t]]
    /\ queue' = [queue EXCEPT ![t] = <<>>]
    /\ IF page[t] = "ready" THEN Send(t, queue[t]) ELSE UNCHANGED <<sent, wire>>
    /\ UNCHANGED <<server, browser, loading, recorded, bounds>>

-----------------------------------------------------------------------------
(* POST /funnel-events.                                                    *)

(* No cookie is a 401, a cookie naming nobody a 404.                       *)
RefuseEvent(r) ==
    /\ r.kind = "event"
    /\ r.cookie \notin DOMAIN visitors
    /\ refused' = refused \cup {r.id}
    /\ wire' = wire \ {r}
    /\ UNCHANGED <<visitors, minted, events, browser, loading, analytics, bounds>>

(* Mutant: the tag is assigned anew from the weights of the day.           *)
create_event_reassigned(r) ==
    /\ r.kind = "event"
    /\ r.cookie \in DOMAIN visitors
    /\ \E k \in Variants :
         events' = IF r.id \in DOMAIN events THEN events
                   ELSE [s \in DOMAIN events \cup {r.id} |->
                           IF s = r.id THEN [visitor |-> r.cookie, tag |-> k, shown |-> r.shown]
                           ELSE events[s]]
    /\ wire' = wire \ {r}
    /\ UNCHANGED <<visitors, minted, refused, browser, loading, analytics, bounds>>

(* Tagged with the stored assignment; the first write of an id wins.       *)
create_funnel_event(r) ==
    /\ r.kind = "event"
    /\ r.cookie \in DOMAIN visitors
    /\ events' = IF r.id \in DOMAIN events THEN events
                 ELSE [s \in DOMAIN events \cup {r.id} |->
                         IF s = r.id THEN [visitor |-> r.cookie, tag |-> visitors[r.cookie],
                                           shown |-> r.shown]
                         ELSE events[s]]
    /\ wire' = wire \ {r}
    /\ UNCHANGED <<visitors, minted, refused, browser, loading, analytics, bounds>>

(* Lost on the way, or a 400 for a clock too far ahead: logged, forgotten, *)
(* never retried.                                                          *)
LoseEvent(r) ==
    /\ r.kind = "event"
    /\ lostSteps < MaxLostSteps /\ lostSteps' = lostSteps + 1
    /\ wire' = wire \ {r}
    /\ UNCHANGED <<server, browser, loading, analytics, loads, losses, resets, expiries>>

(* The page is gone: its visitor request never arrives, or is answered to  *)
(* a closed connection.                                                    *)
Abandon(r) ==
    /\ r.from = NoOne /\ r.kind # "event"
    /\ wire' = wire \ {r}
    /\ UNCHANGED <<server, browser, loading, analytics, bounds>>

-----------------------------------------------------------------------------
(* The environment.                                                        *)

(* The database is reset behind a browser that keeps its state.            *)
ResetDatabase ==
    /\ resets < MaxResets /\ resets' = resets + 1
    /\ visitors' = [v \in {} |-> Outside]
    /\ events' = [s \in {} |-> Outside]
    /\ UNCHANGED <<minted, refused, browser, loading, analytics, wire,
                   loads, losses, lostSteps, expiries>>

(* The cookie reaches VISITOR_COOKIE_MAX_AGE, or the visitor clears it.    *)
CookieExpires ==
    /\ expiries < MaxExpiries /\ expiries' = expiries + 1
    /\ cookie' = NoOne
    /\ UNCHANGED <<server, stored, storage, loading, analytics, wire, loads, losses, lostSteps,
                   resets>>

-----------------------------------------------------------------------------
Load(t) == LoadEffect(t) \/ FlagsArrive(t) \/ SessionReady(t)

Serve(r) == \/ get_visitor(r) \/ create_visitor(r) \/ VisitorArrives(r) \/ VisitorUnknown(r)
            \/ RefuseEvent(r) \/ create_funnel_event(r)

Next ==
    \/ \E t \in Tabs : OpenPage(t) \/ Load(t) \/ FlagsFail(t) \/ Flush(t)
    \/ \E t \in Tabs : \E s \in Fresh \cup Range(recorded[t]) : record(t, s)
    \/ \E r \in wire : Serve(r) \/ VisitorFails(r) \/ LoseEvent(r) \/ Abandon(r)
    \/ ResetDatabase \/ CookieExpires

Spec == Init /\ [][Next]_vars

(* React runs its effects and every request is answered or fails.          *)
FairSpec ==
    /\ Spec
    /\ \A t \in Tabs : WF_vars(Load(t)) /\ WF_vars(Flush(t))
    /\ WF_vars(\E r \in wire : Serve(r) \/ Abandon(r))

-----------------------------------------------------------------------------
TypeOK ==
    /\ DOMAIN visitors \subseteq minted /\ minted \subseteq Visitors
    /\ visitors \in [DOMAIN visitors -> Variants \cup {Outside}]
    /\ DOMAIN events \subseteq Steps /\ refused \subseteq Steps
    /\ cookie \in Visitors \cup {NoOne} /\ stored \in Visitors \cup {NoOne}
    /\ storage \in {"works", "throws"}
    /\ page \in [Tabs -> {"closed", "loading", "ready", "failed"}]
    /\ ref \in [Tabs -> {"loading", "ready", "failed"}]
    /\ session \in [Tabs -> Visitors \cup {NoOne}]
    /\ \A t \in Tabs : queue[t] \in Seq(Steps) /\ recorded[t] \in Seq(Steps)

(* Steps wait for the cookie: unless it expires or the database is reset,  *)
(* no step is ever turned away for want of a visitor                       *)
(* (AnalyticsProvider.tsx:1-4).                                            *)
NoStepIsTurnedAway == resets = 0 /\ expiries = 0 => refused = {}

(* A page sends its steps in the order they happened, each once, whether   *)
(* they waited or not (AnalyticsProvider.tsx:35-38).                       *)
SentInOrder == \A t \in Tabs : ref[t] # "failed" => recorded[t] = sent[t] \o queue[t]

(* However its loads fail and whatever its storage refuses, a browser with *)
(* one tab goes by one visitor: its cookie, its mirror, what its page      *)
(* shows and all the steps filed for it name the same one                  *)
(* (visitors/router.py:7-9, storage/visitor-id.ts:3-4).  Enrolled is       *)
(* another matter: a POST whose answer is lost leaves a row behind, and    *)
(* the next load, without a cookie, enrols the browser again; no step is   *)
(* ever filed under the row nobody was told of.                            *)
OneVisitorPerBrowser ==
    resets = 0 /\ expiries = 0 =>
        Cardinality(({cookie, stored} \cup Range(session)
                      \cup {events[s].visitor : s \in DOMAIN events}) \ {NoOne}) <= 1

(* Every step is filed under the variant its page was showing (ADR-0003,   *)
(* docs/adr/adr-0003-server-side-stored-assignment.md:8-9).                *)
TaggedAsShown ==
    resets = 0 => \A s \in DOMAIN events : events[s].tag = events[s].shown

(* "Two tabs opened together are one person" (visitors/router.py:8-9).     *)
TabsAreOnePerson ==
    resets = 0 /\ expiries = 0 =>
        \A t, u \in Tabs : page[t] = "ready" /\ page[u] = "ready" => session[t] = session[u]

(* A step recorded on a page that stays open is sent once its session is   *)
(* ready: none is left behind in the queue.                                *)
QueueDrains == \A t \in Tabs : queue[t] # <<>> ~> queue[t] = <<>>
=============================================================================
