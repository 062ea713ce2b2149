---------------------------- MODULE EventsProofs ----------------------------
(***************************************************************************)
(* Proofs about Events for any number of browsers, alerts, user actions    *)
(* and for every LIMIT.  Each step appends fetches, or settles one; the    *)
(* two lemmas on sequences say so once, and the steps of the proofs below  *)
(* say what it means for the table, the answers and the pages.             *)
(***************************************************************************)
EXTENDS Events, SequenceTheorems, TLAPS

\* A fetch appended to the sent ones.
LEMMA Sent ==
    ASSUME NEW s \in Seq(Request), NEW r \in Request
    PROVE  /\ Append(s, r) \in Seq(Request)
           /\ DOMAIN Append(s, r) = DOMAIN s \cup {Len(s) + 1}
           /\ Len(s) + 1 \in Nat /\ Len(s) + 1 \notin DOMAIN s
           /\ \A j \in DOMAIN s : Append(s, r)[j] = s[j]
           /\ Append(s, r)[Len(s) + 1] = r
OBVIOUS

\* A fetch that changed.
LEMMA Changed ==
    ASSUME NEW s \in Seq(Request), NEW k \in DOMAIN s, NEW r \in Request
    PROVE  /\ [s EXCEPT ![k] = r] \in Seq(Request)
           /\ DOMAIN [s EXCEPT ![k] = r] = DOMAIN s
           /\ Len([s EXCEPT ![k] = r]) = Len(s)
           /\ \A j \in DOMAIN s \ {k} : [s EXCEPT ![k] = r][j] = s[j]
           /\ [s EXCEPT ![k] = r][k] = r
<1>1. [s EXCEPT ![k] = r] \in Seq(Request) /\ Len([s EXCEPT ![k] = r]) = Len(s)
  BY ExceptSeq
<1> QED
  BY <1>1

\* A fetch just sent.
LEMMA ListType ==
    ASSUME NEW b \in Browser, NEW f \in BOOLEAN, NEW id \in Nat, NEW a \in BOOLEAN
    PROVE  List(b, f, id, a) \in Request
BY DEF List, Request

LEMMA ResolveRequestType ==
    ASSUME NEW b \in Browser, NEW id \in Nat
    PROVE  ResolveRequest(b, id) \in Request
BY DEF ResolveRequest, Request

\* A list holds rows of the table that match its filter.
LEMMA QueryEventsMatch ==
    ASSUME NEW table, NEW f \in BOOLEAN
    PROVE  \A i \in QueryEvents(table, f) :
              i \in DOMAIN table /\ (table[i].resolved_at # None) = f
BY DEF QueryEvents

-----------------------------------------------------------------------------
\* What each action does to the fetch it is about, k: the fields it sets.

LEMMA HandleListEffect ==
    ASSUME TypeOK, NEW k \in DOMAIN requests, HandleList(k)
    PROVE  LET r == [requests[k] EXCEPT !.server = "done",
                                        !.rows = QueryEvents(events, requests[k].resolved)]
           IN r \in Request /\ requests' = [requests EXCEPT ![k] = r]
<1> DEFINE rows == QueryEvents(events, requests[k].resolved)
<1>1. requests[k] \in Request
  BY DEF TypeOK
<1>2. rows \in SUBSET Nat
  BY <1>1, QueryEventsMatch DEF TypeOK, Request
<1>3. requests' = [requests EXCEPT ![k].server = "done", ![k].rows = rows]
  BY DEF HandleList
<1> HIDE DEF rows
<1>4. [requests[k] EXCEPT !.server = "done", !.rows = rows] \in Request
  BY <1>1, <1>2 DEF Request
<1> QED
  BY <1>3, <1>4 DEF rows

LEMMA HandleResolveEffect ==
    ASSUME TypeOK, NEW k \in DOMAIN requests, HandleResolve(k)
    PROVE  LET r == [requests[k] EXCEPT !.server = "done",
                                        !.ok = Resolvable(events, requests[k].id)]
           IN r \in Request /\ requests' = [requests EXCEPT ![k] = r]
<1> DEFINE won == Resolvable(events, requests[k].id)
<1>1. requests[k] \in Request
  BY DEF TypeOK
<1>2. won \in BOOLEAN
  BY DEF Resolvable
<1>3. requests' = [requests EXCEPT ![k].server = "done", ![k].ok = won]
  BY DEF HandleResolve
<1> HIDE DEF won
<1>4. [requests[k] EXCEPT !.server = "done", !.ok = won] \in Request
  BY <1>1, <1>2 DEF Request
<1> QED
  BY <1>3, <1>4 DEF won

LEMMA ListSettledEffect ==
    ASSUME TypeOK, NEW k \in DOMAIN requests, ShowList(k) \/ ListFails(k)
    PROVE  LET r == [requests[k] EXCEPT !.client = "settled", !.rows = {}]
           IN r \in Request /\ requests' = [requests EXCEPT ![k] = r]
<1>1. requests[k] \in Request
  BY DEF TypeOK
<1>2. requests' = [requests EXCEPT ![k].client = "settled", ![k].rows = {}]
  BY DEF ShowList, ListFails
<1>3. [requests[k] EXCEPT !.client = "settled", !.rows = {}] \in Request
  BY <1>1 DEF Request
<1> QED
  BY <1>2, <1>3

\* The list that follows a resolve carries its event, and whether the resolve
\* was answered.
LEMMA ResolveSettledEffect ==
    ASSUME TypeOK, NEW k \in DOMAIN requests, Resolved(k) \/ ResolveFails(k)
    PROVE  LET r == [requests[k] EXCEPT !.client = "settled"]
           IN /\ r \in Request
              /\ \E filter, answered \in BOOLEAN :
                    LET l == List(requests[k].from, filter, requests[k].id, answered)
                    IN /\ l \in Request
                       /\ answered => requests[k].server = "done"
                       /\ requests' = Append([requests EXCEPT ![k] = r], l)
<1> DEFINE r == [requests[k] EXCEPT !.client = "settled"]
           b == requests[k].from
           filter == page[b].checked
<1>1. requests[k] \in Request
  BY DEF TypeOK
<1>2. r \in Request /\ b \in Browser /\ requests[k].id \in Nat
  BY <1>1 DEF Request
<1>3. filter \in BOOLEAN
  BY <1>2 DEF TypeOK
<1>4. \E answered \in BOOLEAN :
        /\ answered => requests[k].server = "done"
        /\ requests' = Append([requests EXCEPT ![k].client = "settled"],
                              List(b, filter, requests[k].id, answered))
  BY DEF Resolved, ResolveFails
<1>5. [requests EXCEPT ![k].client = "settled"] = [requests EXCEPT ![k] = r]
  OBVIOUS
<1>6. \A answered \in BOOLEAN : List(b, filter, requests[k].id, answered) \in Request
  BY <1>2, <1>3, ListType
<1> HIDE DEF r, b, filter
<1>7. \E f, answered \in BOOLEAN :
        /\ List(b, f, requests[k].id, answered) \in Request
        /\ answered => requests[k].server = "done"
        /\ requests' = Append([requests EXCEPT ![k] = r],
                              List(b, f, requests[k].id, answered))
  BY <1>3, <1>4, <1>5, <1>6
<1> QED
  BY <1>2, <1>7 DEF r, b

-----------------------------------------------------------------------------
\* The types need that pages and lists only hold events that exist, since a
\* click takes the number of an event from its page.

THEOREM TypeInit == Init => TypeOK
BY DEF Init, TypeOK

LEMMA TypeStep == TypeOK /\ [Next]_vars => TypeOK'
<1> SUFFICES ASSUME TypeOK, [Next]_vars PROVE TypeOK'
  OBVIOUS
<1> USE DEF TypeOK
<1>1. ASSUME NEW a \in Alert, Insert(a) PROVE TypeOK'
  <2>1. [content |-> a, resolved_at |-> None] \in [content : Alert, resolved_at : Nat \cup {None}]
    OBVIOUS
  <2> QED
    BY <1>1, <2>1 DEF Insert, InsertEvent
<1>2. ASSUME NEW b \in Browser, Render(b) PROVE TypeOK'
  <2>1. List(b, FALSE, 0, FALSE) \in Request
    BY ListType
  <2>2. requests' \in Seq(Request)
    BY <1>2, <2>1, Sent DEF Render
  <2>3. page' \in [Browser -> [checked : BOOLEAN, rows : SUBSET Nat, resolved : BOOLEAN]]
    BY <1>2 DEF Render
  <2>4. events' = events /\ clicks' \in Nat
    BY <1>2 DEF Render, Click
  <2> QED
    BY <2>2, <2>3, <2>4
<1>3. ASSUME NEW b \in Browser, Toggle(b) PROVE TypeOK'
  <2>1. List(b, ~page[b].checked, 0, FALSE) \in Request
    BY ListType
  <2>2. requests' \in Seq(Request)
    BY <1>3, <2>1, Sent DEF Toggle
  <2>3. page' \in [Browser -> [checked : BOOLEAN, rows : SUBSET Nat, resolved : BOOLEAN]]
    BY <1>3 DEF Toggle
  <2>4. events' = events /\ clicks' \in Nat
    BY <1>3 DEF Toggle, Click
  <2> QED
    BY <2>2, <2>3, <2>4
<1>4. ASSUME NEW b \in Browser, NEW id \in page[b].rows, ClickResolve(b, id) PROVE TypeOK'
  <2>1. ResolveRequest(b, id) \in Request
    BY ResolveRequestType
  <2> QED
    BY <1>4, <2>1, Sent DEF ClickResolve, Click
<1>5. ASSUME NEW k \in DOMAIN requests, HandleList(k) PROVE TypeOK'
  BY <1>5, HandleListEffect, Changed DEF HandleList
<1>6. ASSUME NEW k \in DOMAIN requests, HandleResolve(k) PROVE TypeOK'
  <2>1. events' \in Seq([content : Alert, resolved_at : Nat \cup {None}])
    <3> DEFINE id == requests[k].id
               E == [content : Alert, resolved_at : Nat \cup {None}]
    <3>1. CASE Resolvable(events, id)
      <4>1. id \in DOMAIN events /\ k \in Nat
        BY <3>1 DEF Resolvable
      <4>a. \A row \in E : [row EXCEPT !.resolved_at = k] \in E
        BY <4>1
      <4>b. events \in Seq(E)
        OBVIOUS
      <4> HIDE DEF E
      <4>2. [events[id] EXCEPT !.resolved_at = k] \in E
        BY <4>1, <4>a, <4>b
      <4>3. events' = [events EXCEPT ![id] = [events[id] EXCEPT !.resolved_at = k]]
        BY <1>6, <3>1 DEF HandleResolve
      <4>4. events' \in Seq(E)
        BY <4>1, <4>2, <4>3, <4>b, ExceptSeq
      <4> QED
        BY <4>4 DEF E
    <3>2. CASE ~Resolvable(events, id)
      BY <1>6, <3>2 DEF HandleResolve
    <3> QED
      BY <3>1, <3>2
  <2>2. requests' \in Seq(Request) /\ page' = page /\ clicks' = clicks
    BY <1>6, HandleResolveEffect, Changed DEF HandleResolve
  <2> QED
    BY <2>1, <2>2
<1>7. ASSUME NEW k \in DOMAIN requests, ShowList(k) \/ ListFails(k) PROVE TypeOK'
  <2> DEFINE r == [requests[k] EXCEPT !.client = "settled", !.rows = {}]
  <2>a. r \in Request /\ requests' = [requests EXCEPT ![k] = r]
    BY <1>7, ListSettledEffect
  <2> HIDE DEF r
  <2>1. requests' \in Seq(Request)
    BY <2>a, Changed
  <2>b. requests[k] \in Request
    OBVIOUS
  <2>2. /\ requests[k].from \in Browser
        /\ requests[k].rows \in SUBSET Nat
        /\ requests[k].resolved \in BOOLEAN
    BY <2>b DEF Request
  <2>3. page' \in [Browser -> [checked : BOOLEAN, rows : SUBSET Nat, resolved : BOOLEAN]]
    <3>1. \E rows \in SUBSET Nat, resolved \in BOOLEAN :
            page' = [page EXCEPT ![requests[k].from].rows = rows,
                                 ![requests[k].from].resolved = resolved]
      BY <1>7, <2>2 DEF ShowList, ListFails
    <3> QED
      BY SMTT(20), <2>2, <3>1
  <2> QED
    BY <1>7, <2>1, <2>3 DEF ShowList, ListFails
<1>8. ASSUME NEW k \in DOMAIN requests, Resolved(k) \/ ResolveFails(k) PROVE TypeOK'
  <2> DEFINE r == [requests[k] EXCEPT !.client = "settled"]
  <2>a. r \in Request /\ \E l \in Request : requests' = Append([requests EXCEPT ![k] = r], l)
    BY <1>8, ResolveSettledEffect
  <2> HIDE DEF r
  <2>1. requests' \in Seq(Request)
    BY <2>a, Changed, Sent
  <2> QED
    BY <1>8, <2>1 DEF Resolved, ResolveFails
<1>9. CASE UNCHANGED vars
  BY <1>9 DEF vars
<1> QED
  BY <1>1, <1>2, <1>3, <1>4, <1>5, <1>6, <1>7, <1>8, <1>9 DEF Next

\* The table, the fetches and the pages keep their types in every behaviour of
\* the browsers and the API.
THEOREM TypeCorrect == Spec => []TypeOK
BY TypeInit, TypeStep, PTL DEF Spec

-----------------------------------------------------------------------------
(***************************************************************************)
(* The safety invariants.  What a resolve was answered and what a list     *)
(* holds are true of the table at the time the API ran them; they stay     *)
(* true because a resolved event never changes again (ResolverIsKnown      *)
(* names the one request that resolved it) and answers are never changed.  *)
(***************************************************************************)

\* The part of IInv that is about the fetches, and the one about the pages.
FetchesOK ==
    /\ \A k \in DOMAIN requests :
          /\ requests[k].rows \subseteq DOMAIN events
          /\ requests[k].what = "resolve" => requests[k].id \in DOMAIN events
    /\ ResolverIsKnown
    /\ ListsAreTrue
    /\ ResolveAnswersAreTrue
    /\ ReloadDropsResolved

PagesOK ==
    /\ \A b \in Browser : page[b].rows \subseteq DOMAIN events
    /\ ShownResolvedIsResolved

LEMMA Parts == IInv <=> TypeOK /\ FetchesOK /\ PagesOK
BY DEF IInv, FetchesOK, PagesOK, RowsExist

\* Fetch j is still what it was, but for its client and for rows already shown.
SameFetch(j) ==
    /\ requests'[j].what = requests[j].what
    /\ requests'[j].resolved = requests[j].resolved
    /\ requests'[j].id = requests[j].id
    /\ requests'[j].after = requests[j].after
    /\ requests'[j].server = requests[j].server
    /\ requests'[j].ok = requests[j].ok
    /\ requests'[j].rows \subseteq requests[j].rows

\* Fetch l was sent for an event that exists, and after its resolution if it
\* says so.
SoundFetch(l) ==
    /\ l.server = "pending"
    /\ l.rows = {}
    /\ l.what = "resolve" => l.id \in DOMAIN events
    /\ l.what = "list" /\ l.after => /\ l.id \in DOMAIN events
                                     /\ events[l.id].resolved_at # None

\* Sending sound fetches and adding open events disturbs no fetch.
LEMMA FetchesAfterSending ==
    ASSUME FetchesOK,
           DOMAIN requests \subseteq DOMAIN requests',
           \A j \in DOMAIN requests : SameFetch(j),
           \A j \in DOMAIN requests' \ DOMAIN requests : SoundFetch(requests'[j]),
           DOMAIN events \subseteq DOMAIN events',
           \A i \in DOMAIN events : events'[i] = events[i],
           \A i \in DOMAIN events' \ DOMAIN events : events'[i].resolved_at = None
    PROVE  FetchesOK'
<1> USE DEF FetchesOK, SameFetch, SoundFetch
<1>1. \A k \in DOMAIN requests' :
        /\ requests'[k].rows \subseteq DOMAIN events'
        /\ requests'[k].what = "resolve" => requests'[k].id \in DOMAIN events'
  OBVIOUS
<1>2. ResolverIsKnown'
  BY DEF ResolverIsKnown
<1>3. ListsAreTrue'
  BY DEF ListsAreTrue
<1>4. ResolveAnswersAreTrue'
  BY DEF ResolveAnswersAreTrue
<1>5. ReloadDropsResolved'
  BY DEF ReloadDropsResolved
<1> QED
  BY <1>1, <1>2, <1>3, <1>4, <1>5

\* So does the answer to a list: its rows match the table as it is.
LEMMA FetchesAfterList ==
    ASSUME TypeOK, FetchesOK, NEW k \in DOMAIN requests, HandleList(k)
    PROVE  FetchesOK'
<1> DEFINE rows == QueryEvents(events, requests[k].resolved)
           r == [requests[k] EXCEPT !.server = "done", !.rows = rows]
<1>1. r \in Request /\ requests' = [requests EXCEPT ![k] = r]
  BY HandleListEffect
<1>2. /\ DOMAIN requests' = DOMAIN requests
      /\ \A j \in DOMAIN requests \ {k} : requests'[j] = requests[j]
      /\ requests'[k] = r
  BY <1>1
<1>3. requests[k] \in Request
  BY DEF TypeOK
<1>4. /\ r.what = "list" /\ requests[k].what = "list"
      /\ r.id = requests[k].id
      /\ r.after = requests[k].after /\ r.resolved = requests[k].resolved
      /\ r.rows = rows
  BY <1>3 DEF Request, HandleList
<1>5. \A i \in rows : i \in DOMAIN events /\ (events[i].resolved_at # None) = r.resolved
  BY <1>3, <1>4, QueryEventsMatch DEF Request
<1>6. events' = events
  BY DEF HandleList
<1> HIDE DEF r, rows
<1> USE DEF FetchesOK
<1>7. \A j \in DOMAIN requests' :
        /\ requests'[j].rows \subseteq DOMAIN events
        /\ requests'[j].what = "resolve" => requests'[j].id \in DOMAIN events
  BY <1>2, <1>4, <1>5
<1>8. ResolverIsKnown'
  BY <1>2, <1>4, <1>6 DEF ResolverIsKnown
<1>9. ListsAreTrue'
  BY ZenonT(40), <1>2, <1>4, <1>5, <1>6 DEF ListsAreTrue
<1>10. ResolveAnswersAreTrue'
  BY <1>2, <1>4, <1>6 DEF ResolveAnswersAreTrue
<1>11. ReloadDropsResolved'
  BY ZenonT(40), <1>2, <1>4, <1>5, <1>6 DEF ReloadDropsResolved, ListsAreTrue
<1> QED
  BY <1>6, <1>7, <1>8, <1>9, <1>10, <1>11

\* A resolution stamps an open event with the number of its request; every
\* other event, and every answer given before, stays.
LEMMA HandleResolveTable ==
    ASSUME TypeOK, FetchesOK, NEW k \in DOMAIN requests, HandleResolve(k)
    PROVE  /\ DOMAIN events' = DOMAIN events
           /\ requests[k].id \in DOMAIN events
           /\ \A i \in DOMAIN events \ {requests[k].id} : events'[i] = events[i]
           /\ events[requests[k].id].resolved_at # None =>
                 events'[requests[k].id] = events[requests[k].id]
           /\ events[requests[k].id].resolved_at = None =>
                 events'[requests[k].id].resolved_at = k
<1> DEFINE id == requests[k].id
           Row == [content : Alert, resolved_at : Nat \cup {None}]
<1>1. id \in DOMAIN events
  BY DEF FetchesOK, HandleResolve
<1>2. events \in Seq(Row)
  BY DEF TypeOK
<1> HIDE DEF Row
<1>3. CASE events[id].resolved_at # None
  <2>1. events' = events
    BY <1>3 DEF HandleResolve, Resolvable
  <2> QED
    BY <1>1, <1>3, <2>1
<1>4. CASE events[id].resolved_at = None
  <2>1. events' = [events EXCEPT ![id].resolved_at = k]
    BY <1>1, <1>4 DEF HandleResolve, Resolvable
  <2>2. events[id] \in Row
    BY <1>1, <1>2
  <2>3. [events[id] EXCEPT !.resolved_at = k].resolved_at = k
    BY <2>2 DEF Row
  <2> QED
    BY <1>1, <1>4, <2>1, <2>3
<1> QED
  BY <1>3, <1>4

LEMMA FetchesAfterResolve ==
    ASSUME TypeOK, FetchesOK, NEW k \in DOMAIN requests, HandleResolve(k)
    PROVE  FetchesOK'
<1> DEFINE id == requests[k].id
           won == Resolvable(events, id)
           r == [requests[k] EXCEPT !.server = "done", !.ok = won]
<1>1. r \in Request /\ requests' = [requests EXCEPT ![k] = r]
  BY HandleResolveEffect
<1>2. /\ DOMAIN requests' = DOMAIN requests
      /\ \A j \in DOMAIN requests \ {k} : requests'[j] = requests[j]
      /\ requests'[k] = r
  BY <1>1
<1>3. requests[k] \in Request /\ k \in Nat /\ k # None
  BY NoneAssumption DEF TypeOK
<1>4. /\ r.what = "resolve" /\ r.id = id /\ r.server = "done"
      /\ r.ok = won /\ r.rows = requests[k].rows
      /\ requests[k].what = "resolve" /\ requests[k].server = "pending"
  BY <1>3 DEF Request, HandleResolve
<1>5. /\ DOMAIN events' = DOMAIN events
      /\ id \in DOMAIN events
      /\ \A i \in DOMAIN events \ {id} : events'[i] = events[i]
      /\ events[id].resolved_at # None => events'[id] = events[id]
      /\ events[id].resolved_at = None => events'[id].resolved_at = k
  BY HandleResolveTable
<1>6. won <=> events[id].resolved_at = None
  BY <1>5 DEF Resolvable
<1>7. \A i \in DOMAIN events :
        events[i].resolved_at # None => events'[i] = events[i]
  BY <1>5
<1>8. \A j \in DOMAIN requests : requests'[j].rows = requests[j].rows
                                 /\ requests'[j].what = requests[j].what
                                 /\ requests'[j].id = requests[j].id
  BY <1>2, <1>4
<1> HIDE DEF r, id, won
<1> USE DEF FetchesOK
<1>9. \A j \in DOMAIN requests' :
        /\ requests'[j].rows \subseteq DOMAIN events'
        /\ requests'[j].what = "resolve" => requests'[j].id \in DOMAIN events'
  BY <1>2, <1>5, <1>8
<1>10. ResolverIsKnown'
  <2> SUFFICES ASSUME NEW i \in DOMAIN events, events'[i].resolved_at # None
               PROVE  /\ events'[i].resolved_at \in DOMAIN requests
                      /\ requests'[events'[i].resolved_at].what = "resolve"
                      /\ requests'[events'[i].resolved_at].server = "done"
                      /\ requests'[events'[i].resolved_at].id = i
    BY <1>2, <1>5 DEF ResolverIsKnown
  <2>1. CASE i = id /\ events[id].resolved_at = None
    BY <1>2, <1>4, <1>5, <2>1
  <2>2. CASE ~(i = id /\ events[id].resolved_at = None)
    <3>1. events'[i] = events[i]
      BY <1>5, <2>2
    <3> QED
      BY <1>2, <1>4, <3>1 DEF ResolverIsKnown
  <2> QED
    BY <2>1, <2>2
<1>11. ListsAreTrue'
  BY <1>2, <1>4, <1>5, <1>7 DEF ListsAreTrue
<1>12. ResolveAnswersAreTrue'
  <2> SUFFICES ASSUME NEW j \in DOMAIN requests, requests'[j].what = "resolve",
                      requests'[j].server = "done"
               PROVE  /\ requests'[j].id \in DOMAIN events
                      /\ events'[requests'[j].id].resolved_at # None
                      /\ requests'[j].ok <=> events'[requests'[j].id].resolved_at = j
    BY <1>2, <1>5 DEF ResolveAnswersAreTrue
  <2>1. CASE j = k
    <3>1. CASE won
      BY <1>2, <1>3, <1>4, <1>5, <1>6, <2>1, <3>1
    <3>2. CASE ~won
      <4>1. events[id].resolved_at # k
        BY <1>4, <1>5, <1>6, <3>2 DEF ResolverIsKnown
      <4> QED
        BY <1>2, <1>4, <1>5, <1>6, <2>1, <3>2, <4>1
    <3> QED
      BY <3>1, <3>2
  <2>2. CASE j # k
    <3>1. /\ requests[j].id \in DOMAIN events
          /\ events[requests[j].id].resolved_at # None
          /\ requests[j].ok <=> events[requests[j].id].resolved_at = j
      BY <1>2, <2>2 DEF ResolveAnswersAreTrue
    <3> QED
      BY <1>2, <1>7, <2>2, <3>1
  <2> QED
    BY <2>1, <2>2
<1>13. ReloadDropsResolved'
  BY <1>2, <1>4 DEF ReloadDropsResolved
<1> QED
  BY <1>9, <1>10, <1>11, <1>12, <1>13

\* What a page shows was once true, and resolved events stay resolved.
LEMMA PagesAfter ==
    ASSUME PagesOK,
           DOMAIN events \subseteq DOMAIN events',
           \A i \in DOMAIN events :
              events[i].resolved_at # None => events'[i].resolved_at # None,
           \A b \in Browser :
              \/ page'[b].rows = page[b].rows /\ page'[b].resolved = page[b].resolved
              \/ /\ page'[b].rows \subseteq DOMAIN events
                 /\ page'[b].resolved =>
                       \A i \in page'[b].rows : events[i].resolved_at # None
    PROVE  PagesOK'
BY DEF PagesOK, ShownResolvedIsResolved

LEMMA SafetyStep == IInv /\ [Next]_vars => FetchesOK' /\ PagesOK'
<1> SUFFICES ASSUME IInv, [Next]_vars PROVE FetchesOK' /\ PagesOK'
  OBVIOUS
<1>a. TypeOK /\ FetchesOK /\ PagesOK
  BY Parts
<1>b. /\ requests \in Seq(Request)
      /\ page \in [Browser -> [checked : BOOLEAN, rows : SUBSET Nat, resolved : BOOLEAN]]
  BY <1>a DEF TypeOK
<1>1. ASSUME NEW a \in Alert, Insert(a) PROVE FetchesOK' /\ PagesOK'
  <2>1. events \in Seq([content : Alert, resolved_at : Nat \cup {None}])
    BY <1>a DEF TypeOK
  <2>2. /\ DOMAIN events' = DOMAIN events \cup {Len(events) + 1}
        /\ Len(events) + 1 \notin DOMAIN events
        /\ \A i \in DOMAIN events : events'[i] = events[i]
        /\ events'[Len(events) + 1] = [content |-> a, resolved_at |-> None]
    BY <1>1, <2>1 DEF Insert, InsertEvent
  <2>3. requests' = requests /\ page' = page
    BY <1>1 DEF Insert
  <2>4. FetchesOK'
    BY <1>a, <2>2, <2>3, FetchesAfterSending DEF SameFetch
  <2>5. PagesOK'
    BY <1>a, <2>2, <2>3, PagesAfter
  <2> QED
    BY <2>4, <2>5
<1>2. ASSUME NEW l \in Request, SoundFetch(l), requests' = Append(requests, l),
             events' = events
      PROVE  FetchesOK'
  <2>1. /\ DOMAIN requests' = DOMAIN requests \cup {Len(requests) + 1}
        /\ \A j \in DOMAIN requests : requests'[j] = requests[j]
        /\ requests'[Len(requests) + 1] = l
        /\ Len(requests) + 1 \notin DOMAIN requests
    BY <1>2, <1>b, Sent
  <2> QED
    BY <1>2, <1>a, <2>1, FetchesAfterSending DEF SameFetch
<1>3. ASSUME NEW b \in Browser, Render(b) \/ Toggle(b)
      PROVE  FetchesOK' /\ PagesOK'
  <2>1. \E filter \in BOOLEAN : requests' = Append(requests, List(b, filter, 0, FALSE))
    BY <1>3, <1>b DEF Render, Toggle
  <2>2. \A filter \in BOOLEAN :
          List(b, filter, 0, FALSE) \in Request /\ SoundFetch(List(b, filter, 0, FALSE))
    BY ListType DEF SoundFetch, List
  <2>3. events' = events
    BY <1>3 DEF Render, Toggle, Click
  <2>4. \A c \in Browser :
          \/ page'[c].rows = page[c].rows /\ page'[c].resolved = page[c].resolved
          \/ page'[c].rows = {}
    <3> SUFFICES ASSUME NEW c \in Browser
                 PROVE  \/ page'[c].rows = page[c].rows /\ page'[c].resolved = page[c].resolved
                        \/ page'[c].rows = {}
      OBVIOUS
    <3>1. CASE Render(b)
      BY <3>1, <1>b DEF Render
    <3>2. CASE Toggle(b)
      <4>1. page' = [page EXCEPT ![b] = [page[b] EXCEPT !.checked = ~page[b].checked]]
        BY <3>2 DEF Toggle
      <4>2. page[b] \in [checked : BOOLEAN, rows : SUBSET Nat, resolved : BOOLEAN]
        BY <1>b
      <4> QED
        BY <4>1, <4>2, <1>b
    <3> QED
      BY <1>3, <3>1, <3>2
  <2>5. FetchesOK'
    BY <1>2, <2>1, <2>2, <2>3
  <2>6. PagesOK'
    BY <1>a, <2>3, <2>4, PagesAfter
  <2> QED
    BY <2>5, <2>6
<1>4. ASSUME NEW b \in Browser, NEW id \in page[b].rows, ClickResolve(b, id)
      PROVE  FetchesOK' /\ PagesOK'
  <2>1. requests' = Append(requests, ResolveRequest(b, id)) /\ events' = events /\ page' = page
    BY <1>4 DEF ClickResolve, Click
  <2>2. ResolveRequest(b, id) \in Request /\ SoundFetch(ResolveRequest(b, id))
    <3>1. id \in Nat /\ id \in DOMAIN events
      BY <1>a, <1>b DEF PagesOK
    <3> QED
      BY <3>1, ResolveRequestType DEF SoundFetch, ResolveRequest
  <2>3. FetchesOK'
    BY <1>2, <2>1, <2>2
  <2>4. PagesOK'
    BY <1>a, <2>1, PagesAfter
  <2> QED
    BY <2>3, <2>4
<1>5. ASSUME NEW k \in DOMAIN requests, HandleList(k) PROVE FetchesOK' /\ PagesOK'
  BY <1>5, <1>a, FetchesAfterList, PagesAfter DEF HandleList
<1>6. ASSUME NEW k \in DOMAIN requests, HandleResolve(k) PROVE FetchesOK' /\ PagesOK'
  <2>1. FetchesOK'
    BY <1>6, <1>a, FetchesAfterResolve
  <2>2. page' = page /\ k \in Nat /\ k # None
    BY <1>6, <1>b, NoneAssumption DEF HandleResolve
  <2>3. /\ DOMAIN events' = DOMAIN events
        /\ \A i \in DOMAIN events :
              events[i].resolved_at # None => events'[i].resolved_at # None
    BY <1>6, <1>a, HandleResolveTable
  <2> QED
    BY <1>a, <2>1, <2>2, <2>3, PagesAfter
<1>7. ASSUME NEW k \in DOMAIN requests, ShowList(k) \/ ListFails(k)
      PROVE  FetchesOK' /\ PagesOK'
  <2> DEFINE r == [requests[k] EXCEPT !.client = "settled", !.rows = {}]
             b == requests[k].from
  <2>1. r \in Request /\ requests' = [requests EXCEPT ![k] = r]
    BY <1>7, <1>a, ListSettledEffect
  <2>2. /\ DOMAIN requests' = DOMAIN requests
        /\ \A j \in DOMAIN requests \ {k} : requests'[j] = requests[j]
        /\ requests'[k] = r
    BY <2>1, <1>b
  <2>3. requests[k] \in Request
    BY <1>b
  <2>4. SameFetch(k)
    BY <2>2, <2>3 DEF SameFetch, Request
  <2>5. \A j \in DOMAIN requests : SameFetch(j)
    BY <2>2, <2>4 DEF SameFetch
  <2>6. events' = events
    BY <1>7 DEF ShowList, ListFails
  <2>7. FetchesOK'
    BY <1>a, <2>2, <2>5, <2>6, FetchesAfterSending
  <2>8. b \in Browser
    BY <2>3 DEF Request
  <2> HIDE DEF r, b
  <2>9. \A c \in Browser \ {b} : page'[c] = page[c]
    BY <1>7, <1>b DEF ShowList, ListFails, b
  <2>10. /\ page'[b].rows \subseteq requests[k].rows
         /\ page'[b].resolved => requests[k].resolved
    BY <1>7, <1>b, <2>8 DEF ShowList, ListFails, b
  <2>11. /\ requests[k].rows \subseteq DOMAIN events
         /\ requests[k].resolved =>
               \A i \in requests[k].rows : events[i].resolved_at # None
    BY <1>7, <1>a DEF ShowList, ListFails, FetchesOK, ListsAreTrue
  <2>12. PagesOK'
    BY <1>a, <2>6, <2>8, <2>9, <2>10, <2>11, PagesAfter
  <2> QED
    BY <2>7, <2>12
<1>8. ASSUME NEW k \in DOMAIN requests, Resolved(k) \/ ResolveFails(k)
      PROVE  FetchesOK' /\ PagesOK'
  <2> DEFINE r == [requests[k] EXCEPT !.client = "settled"]
             s == [requests EXCEPT ![k] = r]
  <2>1. PICK filter \in BOOLEAN, answered \in BOOLEAN :
          /\ List(requests[k].from, filter, requests[k].id, answered) \in Request
          /\ answered => requests[k].server = "done"
          /\ requests' = Append(s, List(requests[k].from, filter, requests[k].id, answered))
    BY <1>8, <1>a, ResolveSettledEffect
  <2> DEFINE l == List(requests[k].from, filter, requests[k].id, answered)
  <2>2. r \in Request
    BY <1>8, <1>a, ResolveSettledEffect
  <2>3. requests[k] \in Request
    BY <1>b
  <2>4. /\ r.what = requests[k].what /\ r.resolved = requests[k].resolved
        /\ r.id = requests[k].id /\ r.after = requests[k].after
        /\ r.server = requests[k].server /\ r.ok = requests[k].ok
        /\ r.rows = requests[k].rows
    BY <2>3 DEF Request
  <2>5. SoundFetch(l)
    BY <1>8, <1>a, <2>1 DEF SoundFetch, List, Resolved, ResolveFails, FetchesOK,
         ResolveAnswersAreTrue
  <2> HIDE DEF r, l
  <2>6. /\ s \in Seq(Request) /\ DOMAIN s = DOMAIN requests
        /\ \A j \in DOMAIN requests \ {k} : s[j] = requests[j]
        /\ s[k] = r
    BY <1>b, <2>2, Changed
  <2> HIDE DEF s
  <2>7. /\ DOMAIN requests' = DOMAIN s \cup {Len(s) + 1}
        /\ \A j \in DOMAIN s : requests'[j] = s[j]
        /\ requests'[Len(s) + 1] = l
        /\ Len(s) + 1 \notin DOMAIN s
    BY <2>1, <2>6, Sent DEF l
  <2>8. \A j \in DOMAIN requests : SameFetch(j)
    BY <2>4, <2>6, <2>7 DEF SameFetch
  <2>9. events' = events /\ page' = page
    BY <1>8 DEF Resolved, ResolveFails
  <2>10. FetchesOK'
    BY <1>a, <2>5, <2>6, <2>7, <2>8, <2>9, FetchesAfterSending
  <2>11. PagesOK'
    BY <1>a, <2>9, PagesAfter
  <2> QED
    BY <2>10, <2>11
<1>9. CASE UNCHANGED vars
  BY <1>9, <1>a, FetchesAfterSending, PagesAfter DEF vars, SameFetch
<1> QED
  BY <1>1, <1>3, <1>4, <1>5, <1>6, <1>7, <1>8, <1>9 DEF Next

-----------------------------------------------------------------------------
\* IInv is inductive.
THEOREM Safety == Spec => []IInv
<1>1. Init => IInv
  BY TypeInit DEF Init, IInv, RowsExist, ResolverIsKnown, ListsAreTrue,
       ResolveAnswersAreTrue, ReloadDropsResolved, ShownResolvedIsResolved
<1>2. IInv /\ [Next]_vars => IInv'
  <2> SUFFICES ASSUME IInv, [Next]_vars PROVE IInv'
    OBVIOUS
  <2>1. TypeOK'
    BY TypeStep DEF IInv
  <2>2. FetchesOK' /\ PagesOK'
    BY SafetyStep
  <2> QED
    BY <2>1, <2>2 DEF IInv, FetchesOK, PagesOK, RowsExist
<1> QED
  BY <1>1, <1>2, PTL DEF Spec

\* The answer to a resolve tells truly who resolved the event: of all the
\* requests for it exactly the one answered 200 (queries.py:249-255).
THEOREM AnswersAreTrue == Spec => []ResolveAnswersAreTrue
<1>1. IInv => ResolveAnswersAreTrue
  BY DEF IInv
<1> QED
  BY Safety, <1>1, PTL

\* The list loaded after the answer to a resolve does not offer its event
\* again (events.js:74-77).
THEOREM ReloadsAreFresh == Spec => []ReloadDropsResolved
<1>1. IInv => ReloadDropsResolved
  BY DEF IInv
<1> QED
  BY Safety, <1>1, PTL

\* No page shows an open event as resolved, in whatever order its lists arrive
\* (events.js:26-50).
THEOREM PagesAreTrue == Spec => []ShownResolvedIsResolved
<1>1. IInv => ShownResolvedIsResolved
  BY DEF IInv
<1> QED
  BY Safety, <1>1, PTL

-----------------------------------------------------------------------------
\* The table of events, used by any number of browsers, is an event log: it
\* implements EventLog (queries.py:106-121 and 249-255).
THEOREM EventsAreALog == Spec => LogSpec
<1>1. Init => Log!Init
  BY DEF Init, Log!Init
<1>2. IInv /\ [Next]_vars => [Log!Next]_events
  <2> SUFFICES ASSUME IInv, [Next]_vars, events' # events PROVE Log!Next
    OBVIOUS
  <2> DEFINE Row == [content : Alert, resolved_at : Nat \cup {None}]
  <2>1. events \in Seq(Row) /\ TypeOK /\ FetchesOK
    BY Parts DEF TypeOK
  <2>2. events' \in Seq(Row)
    BY <2>1, TypeStep DEF TypeOK
  <2>3. Log!Entry = Row
    BY DEF Log!Entry
  <2>4. ASSUME NEW a \in Alert, Insert(a) PROVE Log!Add
    <3>1. events' = Append(events, [content |-> a, resolved_at |-> None])
      BY <2>4 DEF Insert, InsertEvent
    <3> HIDE DEF Row
    <3>2. /\ Len(events') = Len(events) + 1
          /\ \A i \in DOMAIN events : events'[i] = events[i]
          /\ events'[Len(events')] = [content |-> a, resolved_at |-> None]
      BY <2>1, <3>1
    <3> QED
      BY <2>2, <2>3, <3>2 DEF Log!Add
  <2>5. ASSUME NEW k \in DOMAIN requests, HandleResolve(k) PROVE Log!Resolve
    <3> DEFINE id == requests[k].id
    <3>1. /\ DOMAIN events' = DOMAIN events
          /\ id \in DOMAIN events
          /\ \A i \in DOMAIN events \ {id} : events'[i] = events[i]
          /\ events[id].resolved_at # None => events'[id] = events[id]
          /\ events[id].resolved_at = None => events'[id].resolved_at = k
      BY <2>1, <2>5, HandleResolveTable
    <3>2. events[id].resolved_at = None
      <4>1. Resolvable(events, id)
        BY <2>5 DEF HandleResolve
      <4> QED
        BY <4>1 DEF Resolvable
    <3>3. events'[id].content = events[id].content
      <4>1. events' = [events EXCEPT ![id].resolved_at = k]
        BY <2>5, <3>1, <3>2 DEF HandleResolve, Resolvable
      <4> HIDE DEF Row
      <4>2. events[id] \in Row
        BY <2>1, <3>1
      <4>3. [events[id] EXCEPT !.resolved_at = k].content = events[id].content
        BY <4>2 DEF Row
      <4> QED
        BY <3>1, <4>1, <4>3
    <3>4. Len(events') = Len(events)
      <4> HIDE DEF Row
      <4> QED
        BY <2>1, <2>2, <3>1, LenProperties
    <3>5. k \in Nat
      BY <2>1 DEF TypeOK
    <3> HIDE DEF id
    <3> QED
      BY <2>2, <2>3, <3>1, <3>2, <3>3, <3>4, <3>5 DEF Log!Resolve
  <2>6. \/ \E a \in Alert : Insert(a)
        \/ \E k \in DOMAIN requests : HandleResolve(k)
    BY DEF Next, Render, Toggle, ClickResolve, Click, HandleList, ShowList,
         ListFails, Resolved, ResolveFails, vars
  <2> QED
    BY <2>4, <2>5, <2>6 DEF Log!Next
<1> QED
  BY Safety, <1>1, <1>2, PTL DEF Spec, LogSpec, Log!Spec
=============================================================================
