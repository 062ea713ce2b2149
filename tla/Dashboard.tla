------------------------------ MODULE Dashboard ------------------------------
(***************************************************************************)
(* The dashboard in the browser: dashboard/app.js, api.js and the pages,   *)
(* one or more tabs of one browser that share the token in localStorage,   *)
(* in front of the sessions of the API.                                    *)
(*                                                                         *)
(* A chain of awaits (boot, login, the render of a page) is one fetch at a *)
(* time, and its continuation a step of its own, so that chains overtake   *)
(* each other wherever the code waits.  The several fetches one page waits *)
(* for together are one.  A definition D_X is D with the slip X in it, for *)
(* the mutation tests.                                                     *)
(***************************************************************************)
EXTENDS Naturals

CONSTANTS
    None,
    Tab,
    Page, Settings,        \* the pages of a cluster, and the one without
    Cluster, FirstCluster, \* FirstCluster heads the list of clusters
    MaxTokens,             \* bound on the sessions created
    MaxFetches,            \* bound on the chains under way in a tab
    MaxClicks,             \* bound on what users do
    MaxFailures            \* bound on requests that fail for another reason

ASSUME PageAssumption ==
    /\ FirstCluster \in Cluster
    /\ Settings \notin Page
    /\ {Settings, "nothing", "choose", "error"} \cap Page = {}
    /\ Settings \notin {"nothing", "choose", "error"}
    /\ None \notin Cluster \cup Nat
ASSUME BoundAssumption ==
    /\ MaxTokens \in Nat \ {0}
    /\ MaxFetches \in Nat
    /\ MaxClicks \in Nat /\ MaxClicks < MaxTokens
    /\ MaxFailures \in Nat

Token == 1 .. MaxTokens
Slot == 1 .. MaxFetches
Hash == Page \cup {Settings}

VARIABLES
    sessions,  \* tokens of the sessions the API knows
    issued,    \* sessions created so far
    token,     \* session_token in localStorage, None without
    screen,    \* tab -> "loading" until boot has its first answer, "login", "app"
    hash,      \* tab -> location.hash
    cluster,   \* tab -> currentCluster, None for ''
    options,   \* tab -> clusters to select from
    main,      \* tab -> what main-content shows
    fetch,     \* tab -> slot -> the fetch a chain waits for, None when free
    leaving,   \* tab -> whether the reload after a password change is set
    clicks, failures

server == <<sessions, issued>>
shell == <<screen, cluster, options>>
bounds == <<clicks, failures>>
vars == <<sessions, issued, token, screen, hash, cluster, options, main, fetch,
          leaving, clicks, failures>>

-----------------------------------------------------------------------------
\* A page of a cluster is shown by its heading, which names the cluster, and
\* rows: the cluster they were asked for, None while the page is waiting.
Shown == [shows : Hash \cup {"nothing", "choose", "error"},
          cluster : Cluster \cup {None}, rows : Cluster \cup {None}]
Bare(what) == [shows |-> what, cluster |-> None, rows |-> None]

\* A fetch: what it asks for and with which token; for a page the page and
\* cluster; whether the password typed is right.  An answered login carries the
\* token it brings.
Fetch == [what : {"me", "clusters", "page", "login", "logout", "change"},
          token : Token \cup {None}, page : Hash \cup {None},
          cluster : Cluster \cup {None}, right : BOOLEAN,
          answer : {"pending", "ok", "denied", "failed"}]

ASSUME NoneAssumption == None \notin Fetch

Ask(what, t, p, c, right) ==
    [what |-> what, token |-> t, page |-> p, cluster |-> c, right |-> right,
     answer |-> "pending"]

Free(b) == {s \in Slot : fetch[b][s] = None}
NextSlot(b, s) == s \in Free(b) /\ \A r \in Free(b) : s <= r
Put(b, s, f) == fetch' = [fetch EXCEPT ![b][s] = f]

\* navigate: the page writes its heading at once and then waits; the settings
\* page waits first; without a cluster a page only asks for one.
Headed(m, h, c) ==
    IF h = Settings THEN m
    ELSE IF c = None THEN Bare("choose")
    ELSE [shows |-> h, cluster |-> c, rows |-> None]
Rendering(h, c, t) ==
    IF h = Settings THEN Ask("page", t, Settings, None, TRUE)
    ELSE IF c = None THEN None
    ELSE Ask("page", t, h, c, TRUE)

Navigate(b, s, h, c, t) ==
    /\ main' = [main EXCEPT ![b] = Headed(@, h, c)]
    /\ Put(b, s, Rendering(h, c, t))

\* The tab is opened with what an earlier visit left in localStorage: nothing,
\* or a token whose session may have ended.
Init ==
    /\ \E t \in {None, 1} :
          /\ token = t
          /\ issued = IF t = None THEN 0 ELSE 1
          /\ \/ sessions = {}
             \/ t # None /\ sessions = {t}
    /\ screen = [b \in Tab |-> "loading"]
    /\ hash \in [Tab -> Hash]
    /\ cluster = [b \in Tab |-> None]
    /\ options = [b \in Tab |-> {}]
    /\ main = [b \in Tab |-> Bare("nothing")]
    /\ fetch = [b \in Tab |-> [s \in Slot |->
                  IF s = 1 THEN Ask("me", token, None, None, TRUE) ELSE None]]
    /\ leaving = [b \in Tab |-> FALSE]
    /\ clicks = 0
    /\ failures = 0

-----------------------------------------------------------------------------
\* The API

Waits(b, s) == fetch[b][s] # None /\ fetch[b][s].answer = "pending"
Reply(b, s, answer) == fetch' = [fetch EXCEPT ![b][s].answer = answer]
client == <<token, screen, hash, cluster, options, main, leaving>>

\* verify_session: no token is answered 403, an unknown or ended one 401.
Checked(f) ==
    IF f.token = None THEN "failed"
    ELSE IF f.token \in sessions THEN "ok" ELSE "denied"

HandleRead(b, s) ==
    /\ Waits(b, s)
    /\ fetch[b][s].what \in {"me", "clusters", "page"}
    /\ Reply(b, s, Checked(fetch[b][s]))
    /\ UNCHANGED <<server, client, bounds>>

HandleLogin(b, s) ==
    /\ Waits(b, s)
    /\ fetch[b][s].what = "login"
    /\ IF fetch[b][s].right
       THEN /\ issued < MaxTokens
            /\ issued' = issued + 1
            /\ sessions' = sessions \cup {issued + 1}
            /\ fetch' = [fetch EXCEPT ![b][s].answer = "ok", ![b][s].token = issued + 1]
       ELSE /\ Reply(b, s, "denied")
            /\ UNCHANGED server
    /\ UNCHANGED <<client, bounds>>

\* logout takes any token, and none.
HandleLogout(b, s) ==
    /\ Waits(b, s)
    /\ fetch[b][s].what = "logout"
    /\ sessions' = sessions \ {fetch[b][s].token}
    /\ Reply(b, s, "ok")
    /\ UNCHANGED <<issued, client, bounds>>

\* change-password: 401 for a wrong current password too; else all sessions end.
HandleChange(b, s) ==
    LET f == fetch[b][s] IN
    /\ Waits(b, s)
    /\ f.what = "change"
    /\ IF Checked(f) = "ok" /\ f.right
       THEN sessions' = {} /\ Reply(b, s, "ok")
       ELSE /\ Reply(b, s, IF Checked(f) = "ok" THEN "denied" ELSE Checked(f))
            /\ UNCHANGED sessions
    /\ UNCHANGED <<issued, client, bounds>>

Handle(b, s) ==
    HandleRead(b, s) \/ HandleLogin(b, s) \/ HandleLogout(b, s) \/ HandleChange(b, s)

\* The request or its answer is lost, or the API fails.
Lose(b, s) ==
    /\ fetch[b][s] # None
    /\ fetch[b][s].answer # "failed"
    /\ failures < MaxFailures
    /\ failures' = failures + 1
    /\ Reply(b, s, "failed")
    /\ UNCHANGED <<server, client, clicks>>

\* SESSION_TTL has passed.
Expire(t) ==
    /\ t \in sessions
    /\ sessions' = sessions \ {t}
    /\ UNCHANGED <<issued, client, fetch, bounds>>

-----------------------------------------------------------------------------
\* The continuations in the browser

Settles(b, s, what) ==
    fetch[b][s] # None /\ fetch[b][s].what = what /\ fetch[b][s].answer # "pending"

\* _check: 401 removes whatever token is there and shows the login screen.
Denied_403(f) == f.answer # "pending" /\ f.token = None  \* tests for 403
Denied(f) == f.answer = "denied"
KeptToken(f) == IF Denied(f) THEN None ELSE token
KeptScreen(b, f) == IF Denied(f) THEN "login" ELSE screen[b]

\* boot, first half; any failure shows the login screen.
SettleMe(b, s) ==
    LET f == fetch[b][s] IN
    /\ Settles(b, s, "me")
    /\ token' = KeptToken(f)
    /\ IF f.answer = "ok"
       THEN /\ screen' = [screen EXCEPT ![b] = "app"]
            /\ Put(b, s, Ask("clusters", token, None, None, TRUE))
       ELSE /\ screen' = [screen EXCEPT ![b] = "login"]
            /\ Put(b, s, None)
    /\ UNCHANGED <<server, hash, cluster, options, main, leaving, bounds>>

\* loadClusters and the navigate behind it; a failure is an empty list.
SettleClusters(b, s) ==
    LET f == fetch[b][s]
        c == IF f.answer = "ok" THEN FirstCluster ELSE cluster[b]
    IN
    /\ Settles(b, s, "clusters")
    /\ token' = KeptToken(f)
    /\ screen' = [screen EXCEPT ![b] = KeptScreen(b, f)]
    /\ options' = [options EXCEPT ![b] = IF f.answer = "ok" THEN Cluster ELSE {}]
    /\ cluster' = [cluster EXCEPT ![b] = c]
    /\ Navigate(b, s, hash[b], c, KeptToken(f))
    /\ UNCHANGED <<server, hash, leaving, bounds>>

\* The render goes on: a failure is caught and shown as no rows.  When its
\* elements are gone, the error is written over whatever is shown now.
Filled_Uncaught(m, f) ==  \* a failed fetch is not caught, nor is its error shown
    IF f.answer # "ok" THEN m
    ELSE IF f.page = Settings THEN Bare(Settings)
    ELSE IF m.shows = f.page THEN [m EXCEPT !.rows = f.cluster]
    ELSE Bare("error")
Filled_Hash(m, f) ==  \* the hash in the place of the cluster
    IF m.shows = f.page THEN [m EXCEPT !.rows = f.page] ELSE m
Filled(m, f) ==
    IF f.page = Settings THEN Bare(Settings)
    ELSE IF m.shows = f.page THEN [m EXCEPT !.rows = f.cluster]
    ELSE Bare("error")
SettlePage(b, s) ==
    LET f == fetch[b][s] IN
    /\ Settles(b, s, "page")
    /\ token' = KeptToken(f)
    /\ screen' = [screen EXCEPT ![b] = KeptScreen(b, f)]
    /\ main' = [main EXCEPT ![b] = Filled(@, f)]
    /\ Put(b, s, None)
    /\ UNCHANGED <<server, hash, cluster, options, leaving, bounds>>

\* The submit handler of the login form; with a token it goes on to boot.
SettleLogin(b, s) ==
    LET f == fetch[b][s] IN
    /\ Settles(b, s, "login")
    /\ screen' = [screen EXCEPT ![b] = KeptScreen(b, f)]
    /\ IF f.answer = "ok"
       THEN /\ token' = f.token
            /\ Put(b, s, Ask("me", f.token, None, None, TRUE))
       ELSE /\ token' = KeptToken(f)
            /\ Put(b, s, None)
    /\ UNCHANGED <<server, hash, cluster, options, main, leaving, bounds>>

\* logout-btn: whatever the answer is.
SettleLogout(b, s) ==
    /\ Settles(b, s, "logout")
    /\ token' = None
    /\ screen' = [screen EXCEPT ![b] = "login"]
    /\ Put(b, s, None)
    /\ UNCHANGED <<server, hash, cluster, options, main, leaving, bounds>>

\* pw-form: on success the reload follows 1.5 s later.
SettleChange(b, s) ==
    LET f == fetch[b][s] IN
    /\ Settles(b, s, "change")
    /\ token' = KeptToken(f)
    /\ screen' = [screen EXCEPT ![b] = KeptScreen(b, f)]
    /\ leaving' = [leaving EXCEPT ![b] = @ \/ f.answer = "ok"]
    /\ Put(b, s, None)
    /\ UNCHANGED <<server, hash, cluster, options, main, bounds>>

Settle(b, s) ==
    \/ SettleMe(b, s) \/ SettleClusters(b, s) \/ SettlePage(b, s)
    \/ SettleLogin(b, s) \/ SettleLogout(b, s) \/ SettleChange(b, s)

\* The document is loaded anew: every chain ends, and boot begins.
Load(b, t) ==
    /\ screen' = [screen EXCEPT ![b] = "loading"]
    /\ cluster' = [cluster EXCEPT ![b] = None]
    /\ options' = [options EXCEPT ![b] = {}]
    /\ main' = [main EXCEPT ![b] = Bare("nothing")]
    /\ fetch' = [fetch EXCEPT ![b] = [s \in Slot |->
          IF s = 1 THEN Ask("me", t, None, None, TRUE) ELSE None]]
    /\ leaving' = [leaving EXCEPT ![b] = FALSE]

Leave(b) ==
    /\ leaving[b]
    /\ token' = None
    /\ Load(b, None)
    /\ UNCHANGED <<server, hash, bounds>>

\* The refresh timer: nothing while the login screen is up.
Tick_LoginOnly(b) ==  \* the test of the overlay the wrong way round
    /\ screen[b] = "login"
    /\ \E s \in Slot : NextSlot(b, s) /\ Navigate(b, s, hash[b], cluster[b], token)
    /\ UNCHANGED <<server, token, shell, hash, leaving, bounds>>
Tick(b) ==
    /\ screen[b] # "login"
    /\ \E s \in Slot : NextSlot(b, s) /\ Navigate(b, s, hash[b], cluster[b], token)
    /\ UNCHANGED <<server, token, shell, hash, leaving, bounds>>

-----------------------------------------------------------------------------
\* The user

Click == clicks < MaxClicks /\ clicks' = clicks + 1 /\ UNCHANGED failures
Asks(b, f) == \E s \in Slot : NextSlot(b, s) /\ Put(b, s, f)

\* A tab, the home link, or the history of the browser, which also works
\* behind the login screen.
OpenPage(b, h) ==
    /\ Click
    /\ h # hash[b]
    /\ hash' = [hash EXCEPT ![b] = h]
    /\ \E s \in Slot : NextSlot(b, s) /\ Navigate(b, s, h, cluster[b], token)
    /\ UNCHANGED <<server, token, shell, leaving>>

SelectCluster_Only(b, c) ==  \* the page is left to the timer
    /\ Click
    /\ screen[b] # "login"
    /\ c \in options[b] \cup {None}
    /\ c # cluster[b]
    /\ cluster' = [cluster EXCEPT ![b] = c]
    /\ UNCHANGED <<server, token, screen, hash, options, main, fetch, leaving>>
SelectCluster(b, c) ==
    /\ Click
    /\ screen[b] # "login"
    /\ c \in options[b] \cup {None}
    /\ c # cluster[b]
    /\ cluster' = [cluster EXCEPT ![b] = c]
    /\ \E s \in Slot : NextSlot(b, s) /\ Navigate(b, s, hash[b], c, token)
    /\ UNCHANGED <<server, token, screen, hash, options, leaving>>

\* The form has no guard against a second submit.
Login(b, right) ==
    /\ Click
    /\ screen[b] = "login"
    /\ Asks(b, Ask("login", token, None, None, right))
    /\ UNCHANGED <<server, token, shell, hash, main, leaving>>

Logout(b) ==
    /\ Click
    /\ screen[b] = "app"
    /\ Asks(b, Ask("logout", token, None, None, TRUE))
    /\ UNCHANGED <<server, token, shell, hash, main, leaving>>

ChangePassword(b, right) ==
    /\ Click
    /\ screen[b] # "login"
    /\ main[b].shows = Settings
    /\ Asks(b, Ask("change", token, None, None, right))
    /\ UNCHANGED <<server, token, shell, hash, main, leaving>>

Reload(b) ==
    /\ Click
    /\ Load(b, token)
    /\ UNCHANGED <<server, token, hash>>

-----------------------------------------------------------------------------
User(b) ==
    \/ \E h \in Hash : OpenPage(b, h)
    \/ \E c \in Cluster \cup {None} : SelectCluster(b, c)
    \/ \E right \in BOOLEAN : Login(b, right) \/ ChangePassword(b, right)
    \/ Logout(b)
    \/ Reload(b)

Next ==
    \/ \E t \in Token : Expire(t)
    \/ \E b \in Tab :
          \/ \E s \in Slot : Handle(b, s) \/ Lose(b, s) \/ Settle(b, s)
          \/ Tick(b)
          \/ Leave(b)
          \/ User(b)

Spec == Init /\ [][Next]_vars

\* A fetch is answered or fails, a settled promise and a timer run; users and
\* losses are free to stop.
FairSpec ==
    /\ Spec
    /\ \A b \in Tab :
          /\ WF_vars(Tick(b))
          /\ WF_vars(Leave(b))
          /\ \A s \in Slot : WF_vars(Handle(b, s)) /\ WF_vars(Settle(b, s))

-----------------------------------------------------------------------------
\* Types of the state.
TypeOK ==
    /\ sessions \in SUBSET Token
    /\ issued \in 0 .. MaxTokens
    /\ token \in Token \cup {None}
    /\ screen \in [Tab -> {"loading", "login", "app"}]
    /\ hash \in [Tab -> Hash]
    /\ cluster \in [Tab -> Cluster \cup {None}]
    /\ options \in [Tab -> SUBSET Cluster]
    /\ main \in [Tab -> Shown]
    /\ fetch \in [Tab -> [Slot -> Fetch \cup {None}]]
    /\ leaving \in [Tab -> BOOLEAN]
    /\ clicks \in 0 .. MaxClicks
    /\ failures \in 0 .. MaxFailures

Renders(b, h) == \E s \in Slot :
    fetch[b][s] # None /\ fetch[b][s].what = "page" /\ fetch[b][s].page = h

\* A page never stays empty: while it shows a heading without rows, a fetch for
\* this very page is under way, whatever failed, and whichever of several
\* renders of the tab finished first (the catch behind every Promise.all of the
\* pages, and the one in navigate).
EveryPageIsFilled ==
    \A b \in Tab : main[b].shows \in Page /\ main[b].rows = None
        => Renders(b, main[b].shows)

\* The heading tells the page and cluster the user has selected, and so which
\* cluster the buttons below it act on; only the settings page, which writes
\* nothing before its answer, lets the old page stand until then.
HeadingIsChosen ==
    \A b \in Tab : main[b].shows \in Page
        => \/ main[b].shows = hash[b] /\ main[b].cluster = cluster[b]
           \/ Renders(b, Settings)

\* When the session of the token has ended, by time, by a logout or by a change
\* of the password, a tab that asks for anything comes to the login screen,
\* unless a login brings another token: no tab goes on with a dead token.
EndedSessionIsNoticed ==
    \A b \in Tab, t \in Token :
        (token = t /\ t \notin sessions)
            ~> (token # t \/ screen[b] = "login" \/ cluster[b] = None)

\* Overtaking renders may leave rows of another cluster under a heading, the
\* settings over a page, or an error over both; but once the user rests, every
\* open tab comes to show the page and cluster selected, and keeps showing them.
Faithful(b) ==
    IF hash[b] = Settings THEN main[b].shows = Settings
    ELSE IF cluster[b] = None THEN main[b].shows = "choose"
    ELSE /\ main[b].shows = hash[b]
         /\ main[b].cluster = cluster[b]
         /\ main[b].rows \in {None, cluster[b]}
ChosenPageIsShown == \A b \in Tab : <>[](screen[b] = "app" => Faithful(b))

\* "Session ended or not authenticated -> to the login screen" (api.js:13): a
\* tab that shows the app while there is no token comes to ask for a login.
UnauthenticatedTabAsksForLogin ==
    \A b \in Tab : (screen[b] = "app" /\ token = None)
        ~> (screen[b] # "app" \/ token # None)

-----------------------------------------------------------------------------
\* A render of a page that needs a cluster was asked for with one.
RendersNameTheirCluster ==
    \A b \in Tab, s \in Slot :
        fetch[b][s] # None /\ fetch[b][s].what = "page" /\ fetch[b][s].page \in Page
            => fetch[b][s].cluster \in Cluster

\* The inductive invariant.
IInv ==
    /\ TypeOK
    /\ EveryPageIsFilled
    /\ HeadingIsChosen
    /\ RendersNameTheirCluster
=============================================================================
