-------------------------- MODULE DashboardProofs --------------------------
(***************************************************************************)
(* Proofs about Dashboard for any number of tabs, pages, clusters, chains  *)
(* and clicks.  The invariant speaks of each tab by itself, and a step     *)
(* touches one: the lemmas say what a step does to a tab, the proofs below *)
(* which of them an action is.                                             *)
(***************************************************************************)
EXTENDS Dashboard, TLAPS

-----------------------------------------------------------------------------
\* Types

LEMMA AskType ==
    ASSUME NEW what \in {"me", "clusters", "page", "login", "logout", "change"},
           NEW t \in Token \cup {None}, NEW p \in Hash \cup {None},
           NEW c \in Cluster \cup {None}, NEW right \in BOOLEAN
    PROVE  /\ Ask(what, t, p, c, right) \in Fetch
           /\ Ask(what, t, p, c, right) # None
           /\ Ask(what, t, p, c, right).what = what
           /\ Ask(what, t, p, c, right).page = p
           /\ Ask(what, t, p, c, right).cluster = c
<1>1. Ask(what, t, p, c, right) \in Fetch
  BY DEF Ask, Fetch
<1> QED
  BY <1>1, NoneAssumption DEF Ask

LEMMA RenderingType ==
    ASSUME NEW h \in Hash, NEW c \in Cluster \cup {None}, NEW t \in Token \cup {None}
    PROVE  Rendering(h, c, t) \in Fetch \cup {None}
BY AskType DEF Rendering, Hash

LEMMA HeadedType ==
    ASSUME NEW m \in Shown, NEW h \in Hash, NEW c \in Cluster \cup {None}
    PROVE  Headed(m, h, c) \in Shown
BY DEF Headed, Shown, Bare, Hash

LEMMA FilledType ==
    ASSUME NEW m \in Shown, NEW f \in Fetch
    PROVE  Filled(m, f) \in Shown
BY DEF Filled, Shown, Fetch, Bare, Hash

\* One fetch of one tab changes.
LEMMA PutOne ==
    ASSUME TypeOK, NEW b \in Tab, NEW s \in Slot, NEW f \in Fetch \cup {None},
           fetch' = [fetch EXCEPT ![b][s] = f]
    PROVE  /\ fetch' \in [Tab -> [Slot -> Fetch \cup {None}]]
           /\ fetch'[b] \in [Slot -> Fetch \cup {None}]
           /\ fetch'[b][s] = f
           /\ \A r \in Slot : r # s => fetch'[b][r] = fetch[b][r]
           /\ \A d \in Tab : d # b => fetch'[d] = fetch[d]
BY DEF TypeOK

\* An answer changes nothing else of a fetch.
LEMMA ReplyOne ==
    ASSUME TypeOK, NEW b \in Tab, NEW s \in Slot, fetch[b][s] # None,
           NEW answer \in {"ok", "denied", "failed"},
           Reply(b, s, answer)
    PROVE  /\ fetch' = [fetch EXCEPT ![b][s] = [fetch[b][s] EXCEPT !.answer = answer]]
           /\ [fetch[b][s] EXCEPT !.answer = answer] \in Fetch
<1>1. fetch[b][s] \in Fetch
  BY DEF TypeOK
<1>2. [fetch[b][s] EXCEPT !.answer = answer] \in Fetch
  BY <1>1 DEF Fetch
<1>3. fetch' = [fetch EXCEPT ![b][s] = [fetch[b][s] EXCEPT !.answer = answer]]
  BY DEF Reply
<1> QED
  BY <1>2, <1>3

LEMMA LoginOne ==
    ASSUME TypeOK, NEW b \in Tab, NEW s \in Slot, fetch[b][s] # None,
           issued < MaxTokens,
           fetch' = [fetch EXCEPT ![b][s].answer = "ok", ![b][s].token = issued + 1]
    PROVE  LET f == [fetch[b][s] EXCEPT !.answer = "ok", !.token = issued + 1] IN
           f \in Fetch /\ fetch' = [fetch EXCEPT ![b][s] = f]
<1>1. fetch[b][s] \in Fetch /\ issued + 1 \in Token
  BY BoundAssumption DEF TypeOK, Token
<1>2. [fetch[b][s] EXCEPT !.answer = "ok", !.token = issued + 1] \in Fetch
  BY <1>1 DEF Fetch
<1>3. fetch' = [fetch EXCEPT ![b][s] =
                  [fetch[b][s] EXCEPT !.answer = "ok", !.token = issued + 1]]
  BY DEF TypeOK
<1> QED
  BY <1>2, <1>3

\* So the fetches keep their type.
LEMMA ReplyType ==
    ASSUME TypeOK, NEW b \in Tab, NEW s \in Slot, fetch[b][s] # None,
           NEW answer \in {"ok", "denied", "failed"},
           Reply(b, s, answer)
    PROVE  fetch' \in [Tab -> [Slot -> Fetch \cup {None}]]
<1> DEFINE f == [fetch[b][s] EXCEPT !.answer = answer]
<1>1. f \in Fetch
  BY ReplyOne
<1>2. fetch' = [fetch EXCEPT ![b][s] = f]
  BY DEF Reply
<1> HIDE DEF f
<1> QED
  BY <1>1, <1>2 DEF TypeOK

LEMMA LoginType ==
    ASSUME TypeOK, NEW b \in Tab, NEW s \in Slot, fetch[b][s] # None,
           issued < MaxTokens,
           fetch' = [fetch EXCEPT ![b][s].answer = "ok", ![b][s].token = issued + 1]
    PROVE  fetch' \in [Tab -> [Slot -> Fetch \cup {None}]]
<1> DEFINE f == [fetch[b][s] EXCEPT !.answer = "ok", !.token = issued + 1]
<1>1. f \in Fetch /\ fetch' = [fetch EXCEPT ![b][s] = f]
  BY LoginOne
<1> HIDE DEF f
<1> QED
  BY ONLY <1>1, TypeOK, b \in Tab, s \in Slot DEF TypeOK

-----------------------------------------------------------------------------
\* The invariant of one tab

TabOK(b) ==
    /\ main[b].shows \in Page /\ main[b].rows = None => Renders(b, main[b].shows)
    /\ main[b].shows \in Page
         => \/ main[b].shows = hash[b] /\ main[b].cluster = cluster[b]
            \/ Renders(b, Settings)
    /\ \A s \in Slot :
         fetch[b][s] # None /\ fetch[b][s].what = "page" /\ fetch[b][s].page \in Page
             => fetch[b][s].cluster \in Cluster
TabsOK == \A b \in Tab : TabOK(b)

LEMMA InvariantOfTabs == IInv <=> TypeOK /\ TabsOK
BY DEF IInv, EveryPageIsFilled, HeadingIsChosen, RendersNameTheirCluster, TabOK, TabsOK

\* A slot that no render uses.
NoRender(f) == f = None \/ f.what # "page"

LEMMA Untouched ==
    ASSUME NEW b \in Tab, TabOK(b), main'[b] = main[b], fetch'[b] = fetch[b],
           hash'[b] = hash[b], cluster'[b] = cluster[b]
    PROVE  TabOK(b)'
BY DEF TabOK, Renders

\* A fetch that belongs to no render is sent or settled.
LEMMA QuietSlot ==
    ASSUME TypeOK, TabsOK, NEW b \in Tab, NEW s \in Slot, NoRender(fetch[b][s]),
           NEW f \in Fetch \cup {None}, NoRender(f),
           fetch' = [fetch EXCEPT ![b][s] = f],
           main' = main, hash' = hash, cluster' = cluster
    PROVE  TabsOK'
<1>1. \A d \in Tab : d # b => TabOK(d)'
  BY PutOne, Untouched DEF TabsOK
<1>2. \A r \in Slot : ~NoRender(fetch[b][r]) <=> ~NoRender(fetch'[b][r])
  BY PutOne
<1>3. \A r \in Slot : ~NoRender(fetch[b][r]) => fetch'[b][r] = fetch[b][r]
  BY PutOne
<1>4. \A h : Renders(b, h)' <=> Renders(b, h)
  BY <1>2, <1>3 DEF Renders, NoRender
<1>5. TabOK(b)
  BY DEF TabsOK
<1>6. TabOK(b)'
  BY <1>2, <1>3, <1>4, <1>5 DEF TabOK, NoRender
<1> QED
  BY <1>1, <1>6 DEF TabsOK

\* A fetch gets its answer.
LEMMA AnsweredSlot ==
    ASSUME TypeOK, TabsOK, NEW b \in Tab, NEW s \in Slot, fetch[b][s] # None,
           NEW f \in Fetch, f.what = fetch[b][s].what, f.page = fetch[b][s].page,
           f.cluster = fetch[b][s].cluster,
           fetch' = [fetch EXCEPT ![b][s] = f],
           main' = main, hash' = hash, cluster' = cluster
    PROVE  TabsOK'
<1>1. \A d \in Tab : d # b => TabOK(d)'
  BY PutOne, Untouched DEF TabsOK
<1>2. \A r \in Slot :
         /\ fetch'[b][r] # None <=> fetch[b][r] # None
         /\ fetch[b][r] # None => /\ fetch'[b][r].what = fetch[b][r].what
                                  /\ fetch'[b][r].page = fetch[b][r].page
                                  /\ fetch'[b][r].cluster = fetch[b][r].cluster
  BY PutOne, NoneAssumption
<1>3. \A h : Renders(b, h)' <=> Renders(b, h)
  BY <1>2 DEF Renders
<1>4. TabOK(b)
  BY DEF TabsOK
<1>5. TabOK(b)'
  BY <1>2, <1>3, <1>4 DEF TabOK
<1> QED
  BY <1>1, <1>5 DEF TabsOK

\* navigate, in a slot that no render uses.
LEMMA Navigated ==
    ASSUME TypeOK, TabsOK, NEW b \in Tab, NEW s \in Slot, NoRender(fetch[b][s]),
           NEW h \in Hash, NEW c \in Cluster \cup {None}, NEW t \in Token \cup {None},
           Navigate(b, s, h, c, t),
           hash' = [hash EXCEPT ![b] = h], cluster' = [cluster EXCEPT ![b] = c]
    PROVE  TabsOK'
<1>20. \A p \in Hash :
         Ask("page", t, p, c, TRUE) \in Fetch /\ Ask("page", t, p, None, TRUE) \in Fetch
  BY DEF Ask, Fetch
<1> DEFINE f == Rendering(h, c, t)
<1>1. f \in Fetch \cup {None}
  BY RenderingType
<1>10. fetch' = [fetch EXCEPT ![b][s] = f]
  BY DEF Navigate, Put
<1>11. h = Settings => f # None /\ f.what = "page" /\ f.page = Settings
  BY <1>20, NoneAssumption DEF Rendering, Ask, Hash
<1>12. h # Settings /\ c = None => f = None
  BY DEF Rendering
<1>13. h # Settings /\ c # None
         => f # None /\ f.what = "page" /\ f.page = h /\ f.cluster = c
  BY <1>20, NoneAssumption DEF Rendering, Ask
<1> HIDE DEF f
<1>2. /\ fetch'[b][s] = f
      /\ \A r \in Slot : r # s => fetch'[b][r] = fetch[b][r]
      /\ \A d \in Tab : d # b => fetch'[d] = fetch[d]
  BY <1>10 DEF TypeOK
<1>3. /\ main'[b] = Headed(main[b], h, c) /\ hash'[b] = h /\ cluster'[b] = c
      /\ \A d \in Tab : d # b => /\ main'[d] = main[d] /\ hash'[d] = hash[d]
                                 /\ cluster'[d] = cluster[d]
  BY DEF TypeOK, Navigate
<1>4. \A d \in Tab : d # b => TabOK(d)'
  BY <1>2, <1>3, Untouched DEF TabsOK
<1>14. SUFFICES TabOK(b)'
  BY <1>4 DEF TabsOK
<1>5. TabOK(b)
  BY DEF TabsOK
<1>6. \A r \in Slot : ~NoRender(fetch[b][r]) => fetch'[b][r] = fetch[b][r]
  BY <1>2
<1>7. CASE h = Settings
  <2>1. main'[b] = main[b]
    BY <1>3, <1>7 DEF Headed
  <2>2. f # None /\ f.what = "page" /\ f.page = Settings
    BY <1>7, <1>11
  <2>3. Renders(b, Settings)'
    BY <1>2, <2>2 DEF Renders
  <2>4. \A g : Renders(b, g) => Renders(b, g)'
    BY <1>6 DEF Renders, NoRender
  <2>5. Settings \notin Page
    BY PageAssumption
  <2>6. \A r \in Slot :
           fetch'[b][r] # None /\ fetch'[b][r].what = "page" /\ fetch'[b][r].page \in Page
               => fetch'[b][r].cluster \in Cluster
    BY <1>2, <1>5, <2>2, <2>5 DEF TabOK
  <2> QED
    BY <1>5, <2>1, <2>3, <2>4, <2>6 DEF TabOK
<1>8. CASE h # Settings /\ c = None
  <2>1. main'[b].shows = "choose"
    BY <1>3, <1>8 DEF Headed, Bare
  <2>2. "choose" \notin Page
    BY PageAssumption
  <2>3. f = None
    BY <1>8, <1>12
  <2> QED
    BY <1>2, <1>5, <2>1, <2>2, <2>3 DEF TabOK
<1>9. CASE h # Settings /\ c # None
  <2>1. main'[b].shows = h /\ main'[b].cluster = c
    BY <1>3, <1>9 DEF Headed
  <2>2. f # None /\ f.what = "page" /\ f.page = h /\ f.cluster = c
    BY <1>9, <1>13
  <2>3. Renders(b, h)'
    BY <1>2, <2>2 DEF Renders
  <2>4. \A r \in Slot :
           fetch'[b][r] # None /\ fetch'[b][r].what = "page" /\ fetch'[b][r].page \in Page
               => fetch'[b][r].cluster \in Cluster
    BY <1>2, <1>5, <1>9, <2>2 DEF TabOK
  <2> QED
    BY <1>3, <2>1, <2>3, <2>4 DEF TabOK
<1> QED
  BY <1>7, <1>8, <1>9

\* A render goes on: it fills the page it has written, or leaves no page.
LEMMA RenderSettled ==
    ASSUME TypeOK, TabsOK, NEW b \in Tab, NEW s \in Slot, SettlePage(b, s)
    PROVE  TabsOK'
<1> DEFINE f == fetch[b][s]
<1>1. f \in Fetch /\ f # None /\ f.what = "page"
  BY DEF TypeOK, SettlePage, Settles
<1>10. fetch' = [fetch EXCEPT ![b][s] = None]
  BY DEF SettlePage, Put
<1>2. /\ fetch'[b][s] = None
      /\ \A r \in Slot : r # s => fetch'[b][r] = fetch[b][r]
      /\ \A d \in Tab : d # b => fetch'[d] = fetch[d]
  BY <1>10 DEF TypeOK
<1>3. /\ main'[b] = Filled(main[b], f) /\ hash' = hash /\ cluster' = cluster
      /\ \A d \in Tab : d # b => main'[d] = main[d]
  BY DEF TypeOK, SettlePage
<1>4. \A d \in Tab : d # b => TabOK(d)'
  BY <1>2, <1>3, Untouched DEF TabsOK
<1>11. SUFFICES TabOK(b)'
  BY <1>4 DEF TabsOK
<1>5. TabOK(b)
  BY DEF TabsOK
<1>6. CASE f.page = Settings
  <2>1. main'[b].shows = Settings
    BY <1>3, <1>6 DEF Filled, Bare
  <2> QED
    BY <1>2, <1>5, <2>1, PageAssumption DEF TabOK
<1>7. CASE f.page # Settings /\ main[b].shows # f.page
  <2>1. main'[b].shows = "error"
    BY <1>3, <1>7 DEF Filled, Bare
  <2>2. "error" \notin Page
    BY PageAssumption
  <2> QED
    BY <1>2, <1>5, <2>1, <2>2 DEF TabOK
<1>8. CASE f.page # Settings /\ main[b].shows = f.page
  <2>1. main[b] \in Shown
    BY DEF TypeOK
  <2>2. /\ main'[b].shows = f.page /\ main'[b].cluster = main[b].cluster
        /\ main'[b].rows = f.cluster
    BY <1>3, <1>8, <2>1 DEF Filled, Shown
  <2>3. f.page \in Page => f.cluster # None
    BY <1>1, <1>5, PageAssumption DEF TabOK
  <2>4. Renders(b, Settings) => Renders(b, Settings)'
    BY <1>2, <1>8 DEF Renders
  <2> QED
    BY <1>2, <1>3, <1>5, <1>8, <2>2, <2>3, <2>4 DEF TabOK
<1> QED
  BY <1>6, <1>7, <1>8

\* A document just loaded shows no page.
LEMMA Loaded ==
    ASSUME TypeOK, TabsOK, NEW b \in Tab, NEW t \in Token \cup {None}, Load(b, t),
           hash' = hash
    PROVE  TabsOK'
<1>1. /\ main'[b] = Bare("nothing")
      /\ \A s \in Slot : NoRender(fetch'[b][s])
      /\ \A d \in Tab : d # b => /\ main'[d] = main[d] /\ fetch'[d] = fetch[d]
                                 /\ cluster'[d] = cluster[d]
  BY DEF TypeOK, Load, NoRender, Ask
<1>2. \A d \in Tab : d # b => TabOK(d)'
  BY <1>1, Untouched DEF TabsOK
<1>3. "nothing" \notin Page
  BY PageAssumption
<1>4. TabOK(b)'
  BY <1>1, <1>3 DEF TabOK, NoRender, Bare
<1> QED
  BY <1>2, <1>4 DEF TabsOK

-----------------------------------------------------------------------------
\* The steps

\* navigate changes what the tab shows and one slot, within their types.
LEMMA NavigateType ==
    ASSUME TypeOK, NEW b \in Tab, NEW s \in Slot, NEW h \in Hash,
           NEW c \in Cluster \cup {None}, NEW t \in Token \cup {None},
           Navigate(b, s, h, c, t)
    PROVE  /\ main' \in [Tab -> Shown]
           /\ fetch' \in [Tab -> [Slot -> Fetch \cup {None}]]
<1>1. Headed(main[b], h, c) \in Shown /\ Rendering(h, c, t) \in Fetch \cup {None}
  BY HeadedType, RenderingType DEF TypeOK
<1> QED
  BY <1>1 DEF TypeOK, Navigate, Put

\* A document is loaded within its types.
LEMMA LoadType ==
    ASSUME TypeOK, NEW b \in Tab, NEW t \in Token \cup {None}, Load(b, t)
    PROVE  /\ screen' \in [Tab -> {"loading", "login", "app"}]
           /\ cluster' \in [Tab -> Cluster \cup {None}]
           /\ options' \in [Tab -> SUBSET Cluster]
           /\ main' \in [Tab -> Shown]
           /\ fetch' \in [Tab -> [Slot -> Fetch \cup {None}]]
           /\ leaving' \in [Tab -> BOOLEAN]
<1>1. Bare("nothing") \in Shown
  BY DEF Bare, Shown
<1>2. Ask("me", t, None, None, TRUE) \in Fetch
  BY DEF Ask, Fetch
<1> QED
  BY <1>1, <1>2 DEF TypeOK, Load

LEMMA Types ==
    ASSUME TypeOK, [Next]_vars
    PROVE  TypeOK'
<1> USE DEF TypeOK, server, client, shell, bounds
<1>1. ASSUME NEW t \in Token, Expire(t) PROVE TypeOK'
  BY <1>1 DEF Expire
<1>2. ASSUME NEW b \in Tab, NEW s \in Slot, Handle(b, s) PROVE TypeOK'
  <2>1. fetch[b][s] \in Fetch
    BY <1>2 DEF Handle, HandleRead, HandleLogin, HandleLogout, HandleChange, Waits
  <2>2. CASE HandleRead(b, s)
    <3>1. Checked(fetch[b][s]) \in {"ok", "denied", "failed"}
      BY DEF Checked
    <3>2. fetch' \in [Tab -> [Slot -> Fetch \cup {None}]]
      BY <2>2, <3>1, ReplyType DEF HandleRead, Waits
    <3> QED
      BY <2>2, <3>2 DEF HandleRead
  <2>3. CASE HandleLogin(b, s)
    <3>1. CASE fetch[b][s].right
      <4>1. fetch' \in [Tab -> [Slot -> Fetch \cup {None}]]
        BY <2>3, <3>1, LoginType DEF HandleLogin, Waits
      <4>2. issued' \in 0 .. MaxTokens /\ sessions' \in SUBSET Token
        BY <2>3, <3>1, BoundAssumption DEF HandleLogin, Token
      <4> QED
        BY <2>3, <4>1, <4>2 DEF HandleLogin
    <3>2. CASE ~fetch[b][s].right
      BY <2>3, <3>2, ReplyType DEF HandleLogin, Waits
    <3> QED
      BY <3>1, <3>2
  <2>4. CASE HandleLogout(b, s)
    <3>1. fetch' \in [Tab -> [Slot -> Fetch \cup {None}]]
      BY <2>4, ReplyType DEF HandleLogout, Waits
    <3> QED
      BY <2>4, <3>1 DEF HandleLogout
  <2>5. CASE HandleChange(b, s)
    <3>1. Checked(fetch[b][s]) \in {"ok", "denied", "failed"}
      BY DEF Checked
    <3>2. fetch' \in [Tab -> [Slot -> Fetch \cup {None}]]
      BY <2>5, <3>1, ReplyType DEF HandleChange, Waits
    <3> QED
      BY <2>5, <3>2 DEF HandleChange
  <2> QED
    BY <1>2, <2>2, <2>3, <2>4, <2>5 DEF Handle
<1>3. ASSUME NEW b \in Tab, NEW s \in Slot, Lose(b, s) PROVE TypeOK'
  <2>1. fetch' \in [Tab -> [Slot -> Fetch \cup {None}]]
    BY <1>3, ReplyType DEF Lose
  <2> QED
    BY <1>3, <2>1, BoundAssumption DEF Lose
<1>4. ASSUME NEW b \in Tab, NEW s \in Slot, Settle(b, s) PROVE TypeOK'
  <2> DEFINE f == fetch[b][s]
  <2>1. f \in Fetch
    <3>1. f # None
      BY <1>4 DEF Settle, SettleMe, SettleClusters, SettlePage, SettleLogin, SettleLogout,
                  SettleChange, Settles
    <3> QED
      BY <3>1
  <2> HIDE DEF f
  <2>2. KeptToken(f) \in Token \cup {None} /\ KeptScreen(b, f) \in {"loading", "login", "app"}
    BY DEF KeptToken, KeptScreen
  <2>3. f.token \in Token \cup {None}
    BY <2>1 DEF Fetch
  <2>4. CASE SettleMe(b, s)
    <3>1. Ask("clusters", token, None, None, TRUE) \in Fetch
      BY DEF Ask, Fetch
    <3>2. \E g \in Fetch \cup {None} : Put(b, s, g)
      BY <2>4, <3>1 DEF SettleMe
    <3>3. fetch' \in [Tab -> [Slot -> Fetch \cup {None}]]
      BY <3>2 DEF Put
    <3> QED
      BY <2>2, <2>4, <3>3 DEF SettleMe, f
  <2>5. CASE SettleClusters(b, s)
    <3> DEFINE c == IF f.answer = "ok" THEN FirstCluster ELSE cluster[b]
    <3>1. c \in Cluster \cup {None} /\ hash[b] \in Hash
      BY PageAssumption
    <3>2. /\ Navigate(b, s, hash[b], c, KeptToken(f))
          /\ cluster' = [cluster EXCEPT ![b] = c]
      BY <2>5 DEF SettleClusters, f
    <3> HIDE DEF c
    <3>3. main' \in [Tab -> Shown] /\ fetch' \in [Tab -> [Slot -> Fetch \cup {None}]]
      BY <2>2, <3>1, <3>2, NavigateType
    <3> QED
      BY ZenonT(40), <2>2, <2>5, <3>1, <3>2, <3>3 DEF SettleClusters, f
  <2>6. CASE SettlePage(b, s)
    <3>1. Filled(main[b], f) \in Shown
      BY <2>1, FilledType
    <3> QED
      BY <2>2, <2>6, <3>1 DEF SettlePage, Put, f
  <2>7. CASE SettleLogin(b, s)
    <3>1. Ask("me", f.token, None, None, TRUE) \in Fetch
      BY <2>3 DEF Ask, Fetch
    <3>2. \E g \in Fetch \cup {None} : Put(b, s, g)
      BY <2>7, <3>1 DEF SettleLogin, f
    <3>3. fetch' \in [Tab -> [Slot -> Fetch \cup {None}]]
      BY <3>2 DEF Put
    <3> QED
      BY <2>2, <2>3, <2>7, <3>3 DEF SettleLogin, f
  <2>8. CASE SettleLogout(b, s)
    BY <2>8 DEF SettleLogout, Put
  <2>9. CASE SettleChange(b, s)
    BY <2>2, <2>9 DEF SettleChange, Put, f
  <2> QED
    BY <1>4, <2>4, <2>5, <2>6, <2>7, <2>8, <2>9 DEF Settle
<1>5. ASSUME NEW b \in Tab, Tick(b) PROVE TypeOK'
  <2>1. PICK s \in Slot : Navigate(b, s, hash[b], cluster[b], token)
    BY <1>5 DEF Tick
  <2>2. main' \in [Tab -> Shown] /\ fetch' \in [Tab -> [Slot -> Fetch \cup {None}]]
    BY <2>1, NavigateType
  <2> QED
    BY <1>5, <2>2 DEF Tick
<1>6. ASSUME NEW b \in Tab, Leave(b) PROVE TypeOK'
  <2>1. Load(b, None)
    BY <1>6 DEF Leave
  <2> QED
    BY <1>6, <2>1, LoadType DEF Leave
<1>7. ASSUME NEW b \in Tab, User(b) PROVE TypeOK'
  <2>1. ASSUME Click PROVE clicks' \in 0 .. MaxClicks /\ failures' \in 0 .. MaxFailures
    BY <2>1, BoundAssumption DEF Click
  <2>2. ASSUME NEW h \in Hash, OpenPage(b, h) PROVE TypeOK'
    <3>1. PICK s \in Slot : Navigate(b, s, h, cluster[b], token)
      BY <2>2 DEF OpenPage
    <3>2. main' \in [Tab -> Shown] /\ fetch' \in [Tab -> [Slot -> Fetch \cup {None}]]
      BY <3>1, NavigateType
    <3> QED
      BY <2>1, <2>2, <3>2 DEF OpenPage
  <2>3. ASSUME NEW c \in Cluster \cup {None}, SelectCluster(b, c) PROVE TypeOK'
    <3>1. PICK s \in Slot : Navigate(b, s, hash[b], c, token)
      BY <2>3 DEF SelectCluster
    <3>2. main' \in [Tab -> Shown] /\ fetch' \in [Tab -> [Slot -> Fetch \cup {None}]]
      BY <3>1, NavigateType
    <3> QED
      BY <2>1, <2>3, <3>2 DEF SelectCluster
  <2>4. ASSUME NEW f \in Fetch, Asks(b, f) PROVE fetch' \in [Tab -> [Slot -> Fetch \cup {None}]]
    BY <2>4 DEF Asks, Put
  <2>5. ASSUME NEW right \in BOOLEAN, Login(b, right) PROVE TypeOK'
    <3>1. Ask("login", token, None, None, right) \in Fetch
      BY DEF Ask, Fetch
    <3> QED
      BY <2>1, <2>4, <2>5, <3>1 DEF Login
  <2>6. ASSUME NEW right \in BOOLEAN, ChangePassword(b, right) PROVE TypeOK'
    <3>1. Ask("change", token, None, None, right) \in Fetch
      BY DEF Ask, Fetch
    <3> QED
      BY <2>1, <2>4, <2>6, <3>1 DEF ChangePassword
  <2>7. CASE Logout(b)
    <3>1. Ask("logout", token, None, None, TRUE) \in Fetch
      BY DEF Ask, Fetch
    <3> QED
      BY <2>1, <2>4, <2>7, <3>1 DEF Logout
  <2>8. CASE Reload(b)
    <3>1. Load(b, token)
      BY <2>8 DEF Reload
    <3> QED
      BY <2>1, <2>8, <3>1, LoadType DEF Reload
  <2> QED
    BY <1>7, <2>2, <2>3, <2>5, <2>6, <2>7, <2>8 DEF User
<1>8. CASE UNCHANGED vars
  BY <1>8 DEF vars
<1> QED
  BY <1>1, <1>2, <1>3, <1>4, <1>5, <1>6, <1>7, <1>8 DEF Next

\* A fetch for anything but a page is no render.
LEMMA AskQuiet ==
    ASSUME NEW what \in {"me", "clusters", "login", "logout", "change"},
           NEW t \in Token \cup {None}, NEW right \in BOOLEAN
    PROVE  /\ Ask(what, t, None, None, right) \in Fetch
           /\ NoRender(Ask(what, t, None, None, right))
BY DEF Ask, Fetch, NoRender

LEMMA Steps ==
    ASSUME TypeOK, TabsOK, [Next]_vars
    PROVE  TabsOK'
<1> USE DEF server, client, shell, bounds
<1>1. ASSUME NEW t \in Token, Expire(t) PROVE TabsOK'
  BY <1>1, Untouched DEF Expire, TabsOK
<1>2. ASSUME NEW b \in Tab, NEW s \in Slot, NEW answer \in {"ok", "denied", "failed"},
             fetch[b][s] # None, Reply(b, s, answer),
             main' = main, hash' = hash, cluster' = cluster
      PROVE  TabsOK'
  <2> DEFINE f == [fetch[b][s] EXCEPT !.answer = answer]
  <2>1. fetch[b][s] \in Fetch
    BY <1>2 DEF TypeOK
  <2>2. f \in Fetch /\ f.what = fetch[b][s].what /\ f.page = fetch[b][s].page
        /\ f.cluster = fetch[b][s].cluster
    BY <2>1 DEF Fetch
  <2>3. fetch' = [fetch EXCEPT ![b][s] = f]
    BY <1>2 DEF Reply
  <2> HIDE DEF f
  <2> QED
    BY <1>2, <2>2, <2>3, AnsweredSlot
<1>3. ASSUME NEW b \in Tab, NEW s \in Slot, Handle(b, s) PROVE TabsOK'
  <2>1. Checked(fetch[b][s]) \in {"ok", "denied", "failed"}
    BY DEF Checked
  <2>2. CASE HandleRead(b, s)
    BY <1>2, <2>1, <2>2 DEF HandleRead, Waits
  <2>3. CASE HandleLogin(b, s)
    <3>1. CASE fetch[b][s].right
      <4> DEFINE f == [fetch[b][s] EXCEPT !.answer = "ok", !.token = issued + 1]
      <4>1. fetch[b][s] # None /\ fetch[b][s] \in Fetch
        BY <2>3 DEF TypeOK, HandleLogin, Waits
      <4>2. /\ issued < MaxTokens
            /\ fetch' = [fetch EXCEPT ![b][s].answer = "ok", ![b][s].token = issued + 1]
        BY <2>3, <3>1 DEF HandleLogin
      <4>3. f \in Fetch /\ fetch' = [fetch EXCEPT ![b][s] = f]
        BY <4>1, <4>2, LoginOne
      <4>4. f.what = fetch[b][s].what /\ f.page = fetch[b][s].page
            /\ f.cluster = fetch[b][s].cluster
        BY <4>1 DEF Fetch
      <4> HIDE DEF f
      <4>5. main' = main /\ hash' = hash /\ cluster' = cluster
        BY <2>3 DEF HandleLogin
      <4> QED
        BY <4>1, <4>3, <4>4, <4>5, AnsweredSlot
    <3>2. CASE ~fetch[b][s].right
      BY <1>2, <2>3, <3>2 DEF HandleLogin, Waits
    <3> QED
      BY <3>1, <3>2
  <2>4. CASE HandleLogout(b, s)
    BY <1>2, <2>4 DEF HandleLogout, Waits
  <2>5. CASE HandleChange(b, s)
    BY <1>2, <2>1, <2>5 DEF HandleChange, Waits
  <2> QED
    BY <1>3, <2>2, <2>3, <2>4, <2>5 DEF Handle
<1>4. ASSUME NEW b \in Tab, NEW s \in Slot, Lose(b, s) PROVE TabsOK'
  BY <1>2, <1>4 DEF Lose
<1>5. ASSUME NEW b \in Tab, NEW s \in Slot, Settle(b, s) PROVE TabsOK'
  <2>1. CASE SettleMe(b, s)
    <3>1. NoRender(fetch[b][s])
      BY <2>1 DEF SettleMe, Settles, NoRender
    <3>2. NoRender(None)
      BY DEF NoRender
    <3>3. PICK f \in Fetch \cup {None} : NoRender(f) /\ Put(b, s, f)
      BY <2>1, <3>2, AskQuiet DEF SettleMe, TypeOK
    <3>4. main' = main /\ hash' = hash /\ cluster' = cluster
      BY <2>1 DEF SettleMe
    <3> QED
      BY <3>1, <3>3, <3>4, QuietSlot DEF Put
  <2>2. CASE SettleClusters(b, s)
    <3> DEFINE c == IF fetch[b][s].answer = "ok" THEN FirstCluster ELSE cluster[b]
    <3>1. NoRender(fetch[b][s])
      BY <2>2 DEF SettleClusters, Settles, NoRender
    <3>2. c \in Cluster \cup {None} /\ hash[b] \in Hash
      BY PageAssumption DEF TypeOK
    <3>3. KeptToken(fetch[b][s]) \in Token \cup {None}
      BY DEF KeptToken, TypeOK
    <3>4. /\ Navigate(b, s, hash[b], c, KeptToken(fetch[b][s]))
          /\ cluster' = [cluster EXCEPT ![b] = c] /\ hash' = hash
      BY <2>2 DEF SettleClusters
    <3>5. hash' = [hash EXCEPT ![b] = hash[b]]
      BY <3>4 DEF TypeOK
    <3> HIDE DEF c
    <3> QED
      BY <3>1, <3>2, <3>3, <3>4, <3>5, Navigated
  <2>3. CASE SettlePage(b, s)
    BY <2>3, RenderSettled
  <2>4. CASE SettleLogin(b, s)
    <3>1. NoRender(fetch[b][s]) /\ fetch[b][s] \in Fetch
      BY <2>4 DEF SettleLogin, Settles, NoRender, TypeOK
    <3>2. NoRender(None) /\ fetch[b][s].token \in Token \cup {None}
      BY <3>1 DEF NoRender, Fetch
    <3>3. PICK f \in Fetch \cup {None} : NoRender(f) /\ Put(b, s, f)
      BY <2>4, <3>2, AskQuiet DEF SettleLogin
    <3>4. main' = main /\ hash' = hash /\ cluster' = cluster
      BY <2>4 DEF SettleLogin
    <3> QED
      BY <3>1, <3>3, <3>4, QuietSlot DEF Put
  <2>5. CASE SettleLogout(b, s)
    BY <2>5, QuietSlot DEF SettleLogout, Settles, NoRender, Put
  <2>6. CASE SettleChange(b, s)
    BY <2>6, QuietSlot DEF SettleChange, Settles, NoRender, Put
  <2> QED
    BY <1>5, <2>1, <2>2, <2>3, <2>4, <2>5, <2>6 DEF Settle
\* A click and the timer take a slot that is free.
<1>6. ASSUME NEW b \in Tab, NEW s \in Slot, NextSlot(b, s) PROVE NoRender(fetch[b][s])
  BY <1>6 DEF NextSlot, Free, NoRender
<1>7. ASSUME NEW b \in Tab, Tick(b) PROVE TabsOK'
  <2>1. PICK s \in Slot : NextSlot(b, s) /\ Navigate(b, s, hash[b], cluster[b], token)
    BY <1>7 DEF Tick
  <2>2. /\ hash' = [hash EXCEPT ![b] = hash[b]]
        /\ cluster' = [cluster EXCEPT ![b] = cluster[b]]
        /\ hash[b] \in Hash /\ cluster[b] \in Cluster \cup {None}
        /\ token \in Token \cup {None}
    BY <1>7 DEF Tick, TypeOK
  <2> QED
    BY <1>6, <2>1, <2>2, Navigated
<1>8. ASSUME NEW b \in Tab, Leave(b) PROVE TabsOK'
  BY <1>8, Loaded DEF Leave
<1>9. ASSUME NEW b \in Tab, User(b) PROVE TabsOK'
  <2>1. ASSUME NEW h \in Hash, OpenPage(b, h) PROVE TabsOK'
    <3>1. PICK s \in Slot : NextSlot(b, s) /\ Navigate(b, s, h, cluster[b], token)
      BY <2>1 DEF OpenPage
    <3>2. /\ hash' = [hash EXCEPT ![b] = h]
          /\ cluster' = [cluster EXCEPT ![b] = cluster[b]]
          /\ cluster[b] \in Cluster \cup {None} /\ token \in Token \cup {None}
      BY <2>1 DEF OpenPage, TypeOK
    <3> QED
      BY <1>6, <3>1, <3>2, Navigated
  <2>2. ASSUME NEW c \in Cluster \cup {None}, SelectCluster(b, c) PROVE TabsOK'
    <3>1. PICK s \in Slot : NextSlot(b, s) /\ Navigate(b, s, hash[b], c, token)
      BY <2>2 DEF SelectCluster
    <3>2. /\ hash' = [hash EXCEPT ![b] = hash[b]]
          /\ cluster' = [cluster EXCEPT ![b] = c]
          /\ hash[b] \in Hash /\ token \in Token \cup {None}
      BY <2>2 DEF SelectCluster, TypeOK
    <3> QED
      BY <1>6, <3>1, <3>2, Navigated
  <2>3. ASSUME NEW f \in Fetch, NoRender(f), Asks(b, f),
               main' = main, hash' = hash, cluster' = cluster
        PROVE  TabsOK'
    <3>1. PICK s \in Slot : NextSlot(b, s) /\ Put(b, s, f)
      BY <2>3 DEF Asks
    <3> QED
      BY <1>6, <2>3, <3>1, QuietSlot DEF Put
  <2>4. token \in Token \cup {None}
    BY DEF TypeOK
  <2>5. ASSUME NEW right \in BOOLEAN, Login(b, right) PROVE TabsOK'
    <3>1. /\ Ask("login", token, None, None, right) \in Fetch
          /\ NoRender(Ask("login", token, None, None, right))
      BY <2>4, AskQuiet
    <3> QED
      BY <2>3, <2>5, <3>1 DEF Login
  <2>6. ASSUME NEW right \in BOOLEAN, ChangePassword(b, right) PROVE TabsOK'
    <3>1. /\ Ask("change", token, None, None, right) \in Fetch
          /\ NoRender(Ask("change", token, None, None, right))
      BY <2>4, AskQuiet
    <3> QED
      BY <2>3, <2>6, <3>1 DEF ChangePassword
  <2>7. CASE Logout(b)
    <3>1. /\ Ask("logout", token, None, None, TRUE) \in Fetch
          /\ NoRender(Ask("logout", token, None, None, TRUE))
      BY <2>4 DEF Ask, Fetch, NoRender
    <3> QED
      BY <2>3, <2>7, <3>1 DEF Logout
  <2>8. CASE Reload(b)
    BY <2>4, <2>8, Loaded DEF Reload
  <2> QED
    BY <1>9, <2>1, <2>2, <2>5, <2>6, <2>7, <2>8 DEF User
<1>10. CASE UNCHANGED vars
  BY <1>10, Untouched DEF vars, TabsOK
<1> QED
  BY <1>1, <1>3, <1>4, <1>5, <1>7, <1>8, <1>9, <1>10 DEF Next

LEMMA Initially == Init => IInv
<1> SUFFICES ASSUME Init PROVE TypeOK /\ TabsOK
  BY InvariantOfTabs
<1>1. Bare("nothing") \in Shown
  BY DEF Bare, Shown
<1>2. token \in Token \cup {None}
  BY BoundAssumption DEF Init, Token
<1>3. Ask("me", token, None, None, TRUE) \in Fetch
  BY <1>2 DEF Ask, Fetch
<1>4. TypeOK
  <2>1. issued \in 0 .. MaxTokens /\ sessions \in SUBSET Token
    BY BoundAssumption DEF Init, Token
  <2>2. fetch \in [Tab -> [Slot -> Fetch \cup {None}]]
    BY <1>3 DEF Init
  <2>3. clicks \in 0 .. MaxClicks /\ failures \in 0 .. MaxFailures
    BY BoundAssumption DEF Init
  <2>4. /\ screen \in [Tab -> {"loading", "login", "app"}]
        /\ hash \in [Tab -> Hash]
        /\ cluster \in [Tab -> Cluster \cup {None}]
        /\ options \in [Tab -> SUBSET Cluster]
        /\ leaving \in [Tab -> BOOLEAN]
    BY DEF Init
  <2>5. main \in [Tab -> Shown]
    BY <1>1 DEF Init
  <2> QED
    BY <1>2, <2>1, <2>2, <2>3, <2>4, <2>5 DEF TypeOK
<1>5. ASSUME NEW b \in Tab PROVE TabOK(b)
  <2>1. main[b].shows \notin Page
    BY PageAssumption DEF Init, Bare
  <2>2. \A s \in Slot : NoRender(fetch[b][s])
    BY DEF Init, Ask, NoRender
  <2> QED
    BY <2>1, <2>2 DEF TabOK, NoRender
<1> QED
  BY <1>4, <1>5 DEF TabsOK

-----------------------------------------------------------------------------
\* The theorems

\* Whatever tabs share the token, and in whatever order their chains, the API
\* and the users take their steps, pages show a heading or a notice, and only
\* clusters that exist.
THEOREM TypeCorrect == Spec => []TypeOK
<1>1. Init => TypeOK
  BY Initially DEF IInv
<1>2. TypeOK /\ [Next]_vars => TypeOK'
  BY Types
<1> QED
  BY <1>1, <1>2, PTL DEF Spec

\* The inductive invariant: the two properties below, and that a render of a
\* page of a cluster was asked for with one.
THEOREM Safety == Spec => []IInv
<1>1. IInv /\ [Next]_vars => IInv'
  <2> SUFFICES ASSUME IInv, [Next]_vars PROVE IInv'
    OBVIOUS
  <2>1. TypeOK' /\ TabsOK'
    BY InvariantOfTabs, Types, Steps
  <2> QED
    BY <2>1, InvariantOfTabs, PTL
<1> QED
  BY <1>1, Initially, PTL DEF Spec

\* A page without rows is always being filled, in every tab, however many
\* renders overtake each other and whatever fails.
THEOREM PagesAreFilled == Spec => []EveryPageIsFilled
<1>1. IInv => EveryPageIsFilled
  BY DEF IInv
<1> QED
  BY <1>1, Safety, PTL

\* No tab ever shows the heading of a page or cluster other than the one the
\* user chose last, except while the settings are on their way.
THEOREM HeadingsAreChosen == Spec => []HeadingIsChosen
<1>1. IInv => HeadingIsChosen
  BY DEF IInv
<1> QED
  BY <1>1, Safety, PTL
=============================================================================
