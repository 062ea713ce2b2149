------------------------------- MODULE Events -------------------------------
(***************************************************************************)
(* The life of an event after it was inserted: the events endpoints of     *)
(* src/api/routers/events.py over the table, and the events page of the    *)
(* dashboard, open in several browsers.  A browser's fetch, the statement  *)
(* the API runs for it and the arrival of the answer are separate steps;   *)
(* an answer may be lost, overtaken by another one, or come as an error    *)
(* while the API still works on the request.  A definition D_X is D with   *)
(* the slip X in it, for the mutation tests.                               *)
(***************************************************************************)
EXTENDS Database, FiniteSets

CONSTANTS
    Browser,    \* open dashboards
    Alert,      \* what the writers of events may insert
    Limit,      \* LIMIT of the list: the page asks for 50
    MaxEvents,  \* bound on the inserted events
    MaxClicks   \* bound on what users do

ASSUME LimitAssumption == Limit \in Nat \ {0} /\ MaxEvents \in Nat /\ MaxClicks \in Nat
ASSUME NoneAssumption == None \notin Nat

VARIABLES
    events,    \* table events
    requests,  \* every fetch so far, in the order they were sent
    page,      \* browser -> checkbox and table of its events page
    clicks     \* user actions so far

vars == <<events, requests, page, clicks>>

Request == [from : Browser, what : {"list", "resolve"},
            resolved : BOOLEAN,        \* list: the filter
            id : Nat,                  \* resolve: the event; list after one: its event
            after : BOOLEAN,           \* list: sent when a resolve was answered
            server : {"pending", "done"},
            client : {"waiting", "settled"},
            ok : BOOLEAN,              \* answer of a resolve: 200, not 404
            rows : SUBSET Nat]         \* answer of a list, until it is shown

List(b, filter, id, after) ==
    [from |-> b, what |-> "list", resolved |-> filter, id |-> id, after |-> after,
     server |-> "pending", client |-> "waiting", ok |-> FALSE, rows |-> {}]
ResolveRequest(b, id) ==
    [from |-> b, what |-> "resolve", resolved |-> FALSE, id |-> id, after |-> FALSE,
     server |-> "pending", client |-> "waiting", ok |-> FALSE, rows |-> {}]

-----------------------------------------------------------------------------
\* SELECT ... WHERE resolved = $2 ORDER BY time DESC LIMIT n
QueryEvents(table, resolved) ==
    LET match == {i \in DOMAIN table : (table[i].resolved_at # None) = resolved}
    IN {i \in match : Cardinality({j \in match : j > i}) < Limit}

\* UPDATE events SET ... WHERE id = $1 AND NOT resolved, true for "UPDATE 1".
\* NOW() is the number of the request.
Resolvable_Any(table, id) == id \in DOMAIN table  \* AND NOT resolved left out
Resolvable(table, id) == id \in DOMAIN table /\ table[id].resolved_at = None

-----------------------------------------------------------------------------
Init ==
    /\ events = << >>
    /\ requests = << >>
    /\ page = [b \in Browser |-> [checked |-> FALSE, rows |-> {}, resolved |-> FALSE]]
    /\ clicks = 0

\* insert_event, by the collector or by a prediction run.
Insert(a) ==
    /\ Len(events) < MaxEvents
    /\ events' = InsertEvent(events, [content |-> a, resolved_at |-> None])
    /\ UNCHANGED <<requests, page, clicks>>

Click ==
    /\ clicks < MaxClicks
    /\ clicks' = clicks + 1
    /\ UNCHANGED events

\* renderEvents: a new, unchecked page that loads its list.
Render(b) ==
    /\ Click
    /\ page' = [page EXCEPT ![b] = [checked |-> FALSE, rows |-> {}, resolved |-> FALSE]]
    /\ requests' = Append(requests, List(b, FALSE, 0, FALSE))

\* The checkbox changes: loadEvents.
Toggle_Undefined(b) ==  \* without "|| false"
    /\ Click
    /\ requests' = Append(requests, List(b, None, 0, FALSE))
    /\ UNCHANGED page
Toggle(b) ==
    /\ Click
    /\ page' = [page EXCEPT ![b].checked = ~@]
    /\ requests' = Append(requests, List(b, ~page[b].checked, 0, FALSE))

\* window.resolveEvent up to its await.
ClickResolve_NoAwait(b, id) ==  \* loadEvents does not wait for the PATCH
    /\ Click
    /\ id \in page[b].rows
    /\ ~page[b].resolved
    /\ requests' = requests \o <<ResolveRequest(b, id), List(b, page[b].checked, id, TRUE)>>
    /\ UNCHANGED page
ClickResolve(b, id) ==
    /\ Click
    /\ id \in page[b].rows
    /\ ~page[b].resolved
    /\ requests' = Append(requests, ResolveRequest(b, id))
    /\ UNCHANGED page

-----------------------------------------------------------------------------
\* The API runs list_events for request k.  (Run after its browser gave up, it
\* would change nothing.)
HandleList(k) ==
    /\ requests[k].what = "list"
    /\ requests[k].client = "waiting"
    /\ requests[k].server = "pending"
    /\ requests' = [requests EXCEPT
          ![k].server = "done",
          ![k].rows = QueryEvents(events, requests[k].resolved)]
    /\ UNCHANGED <<events, page, clicks>>

\* The API runs resolve_event for request k.
HandleResolve(k) ==
    /\ requests[k].what = "resolve"
    /\ requests[k].server = "pending"
    /\ LET won == Resolvable(events, requests[k].id)
       IN /\ events' = IF won THEN [events EXCEPT ![requests[k].id].resolved_at = k]
                              ELSE events
          /\ requests' = [requests EXCEPT ![k].server = "done", ![k].ok = won]
    /\ UNCHANGED <<page, clicks>>

\* The answer of a list reaches its page, whatever the page has done since.
ShowList_Checkbox(k) ==  \* rows marked by the checkbox, not by resolved_at
    /\ requests[k].what = "list"
    /\ requests[k].client = "waiting"
    /\ requests[k].server = "done"
    /\ LET b == requests[k].from
       IN page' = [page EXCEPT ![b].rows = requests[k].rows,
                               ![b].resolved = page[b].checked]
    /\ requests' = [requests EXCEPT ![k].client = "settled", ![k].rows = {}]
    /\ UNCHANGED <<events, clicks>>
ShowList(k) ==
    /\ requests[k].what = "list"
    /\ requests[k].client = "waiting"
    /\ requests[k].server = "done"
    /\ page' = [page EXCEPT ![requests[k].from].rows = requests[k].rows,
                            ![requests[k].from].resolved = requests[k].resolved]
    /\ requests' = [requests EXCEPT ![k].client = "settled", ![k].rows = {}]
    /\ UNCHANGED <<events, clicks>>

\* .catch(() => ({ data: [] })): an error empties the table.
ListFails(k) ==
    /\ requests[k].what = "list"
    /\ requests[k].client = "waiting"
    /\ page' = [page EXCEPT ![requests[k].from].rows = {},
                            ![requests[k].from].resolved = FALSE]
    /\ requests' = [requests EXCEPT ![k].client = "settled", ![k].rows = {}]
    /\ UNCHANGED <<events, clicks>>

\* The await in window.resolveEvent ends, with 200 or 404 alike: loadEvents.
Resolved(k) ==
    /\ requests[k].what = "resolve"
    /\ requests[k].client = "waiting"
    /\ requests[k].server = "done"
    /\ LET b == requests[k].from
       IN requests' = Append([requests EXCEPT ![k].client = "settled"],
                             List(b, page[b].checked, requests[k].id, TRUE))
    /\ UNCHANGED <<events, page, clicks>>

\* It ends with an error: .catch(() => null), and loadEvents all the same.
ResolveFails_Uncaught(k) ==  \* without the catch
    /\ requests[k].what = "resolve"
    /\ requests[k].client = "waiting"
    /\ requests' = [requests EXCEPT ![k].client = "settled"]
    /\ UNCHANGED <<events, page, clicks>>
ResolveFails(k) ==
    /\ requests[k].what = "resolve"
    /\ requests[k].client = "waiting"
    /\ LET b == requests[k].from
       IN requests' = Append([requests EXCEPT ![k].client = "settled"],
                             List(b, page[b].checked, requests[k].id, FALSE))
    /\ UNCHANGED <<events, page, clicks>>

\* A fetch settles, with its answer or with an error.
Settle(k) == ShowList(k) \/ ListFails(k) \/ Resolved(k) \/ ResolveFails(k)

Next ==
    \/ \E a \in Alert : Insert(a)
    \/ \E b \in Browser : Render(b) \/ Toggle(b)
    \/ \E b \in Browser : \E id \in page[b].rows : ClickResolve(b, id)
    \/ \E k \in DOMAIN requests :
          \/ HandleList(k)
          \/ HandleResolve(k)
          \/ ShowList(k)
          \/ ListFails(k)
          \/ Resolved(k)
          \/ ResolveFails(k)

Spec == Init /\ [][Next]_vars

\* Browsers settle every fetch; nothing promises that the API handles it.
FairSpec ==
    /\ Spec
    /\ \A k \in 1 .. 2 * MaxClicks : WF_vars(k \in DOMAIN requests /\ Settle(k))

-----------------------------------------------------------------------------
\* The type of the table, the fetches and the pages.
TypeOK ==
    /\ events \in Seq([content : Alert, resolved_at : Nat \cup {None}])
    /\ requests \in Seq(Request)
    /\ page \in [Browser -> [checked : BOOLEAN, rows : SUBSET Nat, resolved : BOOLEAN]]
    /\ clicks \in Nat

\* Of all who resolve an event, in whatever order, exactly the one whose PATCH
\* answered 200 did it, and a 404 means that another one had: the answer is
\* never wrong about who acts on an event (queries.py:249-255, events.py:44).
ResolveAnswersAreTrue ==
    \A k \in DOMAIN requests :
        LET r == requests[k]
        IN (r.what = "resolve" /\ r.server = "done") =>
              /\ r.id \in DOMAIN events
              /\ events[r.id].resolved_at # None
              /\ r.ok <=> events[r.id].resolved_at = k

\* The list a page loads after its PATCH was answered no longer offers the event
\* for resolution, whoever resolved it (events.js:75-76).
ReloadDropsResolved ==
    \A k \in DOMAIN requests :
        LET r == requests[k]
        IN (r.what = "list" /\ r.after /\ r.server = "done" /\ ~r.resolved)
              => r.id \notin r.rows

\* A page never marks an open event as resolved, however late the list it shows.
ShownResolvedIsResolved ==
    \A b \in Browser : page[b].resolved =>
        \A i \in page[b].rows : events[i].resolved_at # None

\* Every click on resolve, answered or failed, is followed by a reload that
\* settles too, so the user always sees what became of it (events.js:74-77).
ClickIsFollowedByReload ==
    \A k \in 1 .. MaxClicks :
        (k \in DOMAIN requests /\ requests[k].what = "resolve")
            ~> (\E j \in DOMAIN requests :
                  /\ j > k
                  /\ requests[j].what = "list"
                  /\ requests[j].from = requests[k].from
                  /\ requests[j].id = requests[k].id
                  /\ requests[j].client = "settled")

\* The table is an event log.
Log == INSTANCE EventLog WITH Content <- Alert, Open <- None, Stamp <- Nat, log <- events
LogSpec == Log!Spec

-----------------------------------------------------------------------------
\* What the fetches under way know of the table, the part of the inductive
\* invariant that no user sees.

\* Only events that exist are listed or resolved.
RowsExist ==
    /\ \A b \in Browser : page[b].rows \subseteq DOMAIN events
    /\ \A k \in DOMAIN requests :
          /\ requests[k].rows \subseteq DOMAIN events
          /\ requests[k].what = "resolve" => requests[k].id \in DOMAIN events

\* A resolved event was resolved by the answered request its stamp names.
ResolverIsKnown ==
    \A i \in DOMAIN events :
        LET k == events[i].resolved_at
        IN k # None =>
              /\ k \in DOMAIN requests
              /\ requests[k].what = "resolve"
              /\ requests[k].server = "done"
              /\ requests[k].id = i

\* Answers of the resolved list hold resolved events, and a list sent after the
\* answer of a resolve was sent after its event was resolved.
ListsAreTrue ==
    \A k \in DOMAIN requests :
        LET r == requests[k]
        IN r.what = "list" =>
              /\ r.resolved => \A i \in r.rows : events[i].resolved_at # None
              /\ r.after => /\ r.id \in DOMAIN events
                            /\ events[r.id].resolved_at # None

IInv ==
    /\ TypeOK
    /\ RowsExist
    /\ ResolverIsKnown
    /\ ListsAreTrue
    /\ ResolveAnswersAreTrue
    /\ ReloadDropsResolved
    /\ ShownResolvedIsResolved
=============================================================================
