------------------------------ MODULE Session -------------------------------
(* The session of one account in the tabs of one browser: the pair of tokens  *)
(* in localStorage (lib/tokenStorage.ts), the calls that carry them and the    *)
(* one refresh a tab runs for all its calls that got a 401 (lib/apiFetch.ts),  *)
(* the user the page shows (context/AuthContext.tsx), and the rotation of      *)
(* refresh tokens by the server (routes/auth.py, core/token_blacklist.py).     *)
(*                                                                             *)
(* All tabs share the stored pair; everything else a tab knows is in its own   *)
(* JavaScript heap and is gone when the page is loaded again.  A step is one   *)
(* turn of a tab's event loop, with the microtasks it leaves behind, or one    *)
(* request at the server, whose handlers run to their end on one event loop.   *)
EXTENDS Naturals

CONSTANTS
  Tabs,       \* the tabs of the browser
  Calls,      \* places for an outstanding API call
  TabOf,      \* the tab each of these places belongs to
  Uses,       \* bound: the kinds of call made from each place
  MaxPairs    \* bound: pairs of tokens the server issues

ASSUME TabOfAssumption == TabOf \in [Calls -> Tabs]
ASSUME UsesAssumption == Uses \in [Calls -> SUBSET {"plain", "init", "me", "login", "logout"}]
ASSUME MaxPairsAssumption == MaxPairs \in Nat

VARIABLES
  stored,     \* the pair in localStorage, 0 when there is none
  page,       \* page[t]: the session the page of tab t shows
  call,       \* call[c]: an API call
  refresh,    \* refresh[t]: isRefreshing and refreshPromise of tab t
  issued,     \* pairs 1..issued have been issued by the server
  deadAccess, \* pairs whose access token has expired or was revoked by a logout
  spent,      \* pairs whose refresh token is in revoked_tokens
  parent,     \* history: the pair a pair was minted for, 0 for a login
  shown,      \* history: the pairs a tab has asked to refresh since it was loaded
  lost        \* history: rotated pairs whose successor was lost with its page

browser == <<stored, page, call, refresh, shown, lost>>
server == <<issued, deadAccess, spent, parent>>
vars == <<browser, server>>

Pairs == 1..MaxPairs
None == 0

\* What a call does with its answer: an ordinary one, the /me of the first load,
\* the /me of refreshUser, login (or register) and logout.
Kinds == {"plain", "init", "me", "login", "logout"}
Call == [kind : Kinds, at : {"idle", "sent", "answered", "waiting"},
         pair : Pairs \cup {None}, reply : {"none", "ok", "401", "error"}, again : BOOLEAN]
NoCall == [kind |-> "plain", at |-> "idle", pair |-> None, reply |-> "none", again |-> FALSE]

Refresh == [at : {"off", "sent", "answered", "body"}, pair : Pairs \cup {None}, got : Pairs \cup {None}]
NoRefresh == [at |-> "off", pair |-> None, got |-> None]

TypeOK ==
  /\ stored \in Pairs \cup {None}
  /\ page \in [Tabs -> {"loading", "in", "out"}]
  /\ call \in [Calls -> Call]
  /\ refresh \in [Tabs -> Refresh]
  /\ issued \in 0..MaxPairs
  /\ deadAccess \subseteq Pairs
  /\ spent \subseteq Pairs
  /\ parent \in [Pairs -> Pairs \cup {None}]
  /\ shown \in [Tabs -> SUBSET Pairs]
  /\ lost \subseteq Pairs

Init ==
  /\ stored = None
  /\ page = [t \in Tabs |-> "out"]
  /\ call = [c \in Calls |-> NoCall]
  /\ refresh = [t \in Tabs |-> NoRefresh]
  /\ issued = 0
  /\ deadAccess = {}
  /\ spent = {}
  /\ parent = [n \in Pairs |-> None]
  /\ shown = [t \in Tabs |-> {}]
  /\ lost = {}

-----------------------------------------------------------------------------
(* The tab *)

Idle(c) == call' = [call EXCEPT ![c] = NoCall]

\* A call leaves with the access token of the pair it finds in localStorage.
Sent(kind, n, again) ==
  [kind |-> kind, at |-> "sent", pair |-> n, reply |-> "none", again |-> again]

\* apiFetch and fetchWithTimeout up to their request.  login has no token;
\* refreshUser sends nothing when no token is stored.
Send(c, kind) ==
  /\ call[c].at = "idle"
  /\ kind \in Uses[c]
  /\ kind = "login" => page[TabOf[c]] = "out"
  /\ kind = "logout" => page[TabOf[c]] = "in"
  /\ kind = "me" => stored # None
  /\ call' = [call EXCEPT ![c] = Sent(kind, IF kind = "login" THEN None ELSE stored, FALSE)]
  /\ UNCHANGED <<stored, page, refresh, shown, lost, server>>

\* refreshUser without a stored token.
NobodyStored(t) ==
  /\ stored = None
  /\ page' = [page EXCEPT ![t] = "out"]
  /\ UNCHANGED <<stored, call, refresh, shown, lost, server>>

\* The answers apiFetch turns into a refresh and one more attempt: a 401 of a
\* first attempt, unless the caller asked for skipAuthRefresh.
WantsRefresh(c) ==
  /\ call[c].reply = "401"
  /\ call[c].kind \in {"plain", "init"}
  /\ ~call[c].again

\* Faulty variant: the isRefreshing guard is lost, every 401 starts a refresh.
JoinTwice(c) ==
  LET t == TabOf[c] IN
  /\ call[c].at = "answered"
  /\ WantsRefresh(c)
  /\ \/ /\ stored # None
        /\ call' = [call EXCEPT ![c].at = "waiting", ![c].reply = "none"]
        /\ refresh' = [refresh EXCEPT ![t] = [at |-> "sent", pair |-> stored, got |-> None]]
        /\ shown' = [shown EXCEPT ![t] = @ \cup {stored}]
        /\ UNCHANGED page
     \/ /\ stored = None
        /\ Idle(c)
        /\ page' = [page EXCEPT ![t] = "out"]
        /\ UNCHANGED <<refresh, shown>>
  /\ UNCHANGED <<stored, lost, server>>

\* Faulty variant: doRefresh does not ask whether a refresh token is stored.
JoinBlindly(c) ==
  LET t == TabOf[c] IN
  /\ call[c].at = "answered"
  /\ WantsRefresh(c)
  /\ call' = [call EXCEPT ![c].at = "waiting", ![c].reply = "none"]
  /\ \/ refresh[t].at # "off" /\ UNCHANGED <<refresh, shown>>
     \/ /\ refresh[t].at = "off"
        /\ refresh' = [refresh EXCEPT ![t] = [at |-> "sent", pair |-> stored, got |-> None]]
        /\ shown' = [shown EXCEPT ![t] = @ \cup {stored}]
  /\ UNCHANGED <<stored, page, lost, server>>

\* The first call with a 401 starts doRefresh with the stored refresh token; the
\* calls after it wait for the same promise.  Without a stored token doRefresh
\* answers false at once: the session is over.
Join(c) ==
  LET t == TabOf[c] IN
  /\ call[c].at = "answered"
  /\ WantsRefresh(c)
  /\ \/ /\ refresh[t].at # "off"
        /\ call' = [call EXCEPT ![c].at = "waiting", ![c].reply = "none"]
        /\ UNCHANGED <<page, refresh, shown>>
     \/ /\ refresh[t].at = "off"
        /\ stored # None
        /\ call' = [call EXCEPT ![c].at = "waiting", ![c].reply = "none"]
        /\ refresh' = [refresh EXCEPT ![t] = [at |-> "sent", pair |-> stored, got |-> None]]
        /\ shown' = [shown EXCEPT ![t] = @ \cup {stored}]
        /\ UNCHANGED page
     \/ /\ refresh[t].at = "off"
        /\ stored = None
        /\ Idle(c)
        /\ page' = [page EXCEPT ![t] = "out"]
        /\ UNCHANGED <<refresh, shown>>
  /\ UNCHANGED <<stored, lost, server>>

Waiting(t) == {c \in Calls : TabOf[c] = t /\ call[c].at = "waiting"}

\* The headers of a 200 are here: fetchWithTimeout clears its timer and doRefresh
\* awaits the body, for which there is no limit.
Headers(t) ==
  /\ refresh[t].at = "answered"
  /\ refresh[t].got # None
  /\ refresh' = [refresh EXCEPT ![t].at = "body"]
  /\ UNCHANGED <<stored, page, call, shown, lost, server>>

\* Faulty variant: the call that started the refresh is sent again, the ones that
\* waited with it are forgotten.
RefreshedOnlyOne(t) ==
  /\ refresh[t].at = "body"
  /\ stored' = refresh[t].got
  /\ refresh' = [refresh EXCEPT ![t] = NoRefresh]
  /\ \E first \in Waiting(t) :
       call' = [call EXCEPT ![first] = Sent(call[first].kind, refresh[t].got, TRUE)]
  /\ UNCHANGED <<page, shown, lost, server>>

\* doRefresh got a new pair: it is stored and every waiting call is sent again.
Refreshed(t) ==
  /\ refresh[t].at = "body"
  /\ stored' = refresh[t].got
  /\ refresh' = [refresh EXCEPT ![t] = NoRefresh]
  /\ call' = [c \in Calls |-> IF c \in Waiting(t)
                              THEN Sent(call[c].kind, refresh[t].got, TRUE) ELSE call[c]]
  /\ UNCHANGED <<page, shown, lost, server>>

\* doRefresh failed: the tokens are cleared, every waiting call dispatches
\* auth:session-expired (onExpired signs the page out) and throws.
SignOut(t) ==
  /\ stored' = None
  /\ refresh' = [refresh EXCEPT ![t] = NoRefresh]
  /\ page' = [page EXCEPT ![t] = "out"]
  /\ call' = [c \in Calls |-> IF c \in Waiting(t) THEN NoCall ELSE call[c]]
  /\ UNCHANGED <<shown, lost, server>>

\* Faulty variant: a refused refresh leaves the refused tokens in localStorage.
RefusedKeeps(t) ==
  /\ refresh[t].at = "answered"
  /\ refresh[t].got = None
  /\ refresh' = [refresh EXCEPT ![t] = NoRefresh]
  /\ page' = [page EXCEPT ![t] = "out"]
  /\ call' = [c \in Calls |-> IF c \in Waiting(t) THEN NoCall ELSE call[c]]
  /\ UNCHANGED <<stored, shown, lost, server>>

\* Any answer but a new pair: a revoked or expired token, 429, 503.
Refused(t) ==
  /\ refresh[t].at = "answered"
  /\ refresh[t].got = None
  /\ SignOut(t)

\* The network fails, or the timer of fetchWithTimeout aborts the request.
RefreshFails(t) ==
  /\ refresh[t].at \in {"sent", "answered"}
  /\ SignOut(t)

\* The connection breaks in the body, or what came is no JSON.
BodyFails(t) ==
  /\ refresh[t].at = "body"
  /\ SignOut(t)

\* The answers handed to the code that made the call.
Accept(c) ==
  LET t == TabOf[c]  k == call[c].kind  ok == call[c].reply = "ok" IN
  /\ call[c].at = "answered"
  /\ ~WantsRefresh(c)
  /\ Idle(c)
  /\ stored' = CASE k = "login" /\ ok                -> call[c].pair
                 [] k = "logout"                     -> None
                 [] k \in {"init", "me"} /\ ~ok      -> None
                 [] OTHER                            -> stored
  /\ page' = CASE k \in {"login", "init", "me"} /\ ok -> [page EXCEPT ![t] = "in"]
               [] k \in {"init", "me"} /\ ~ok         -> [page EXCEPT ![t] = "out"]
               [] k = "logout"                        -> [page EXCEPT ![t] = "out"]
               [] OTHER                               -> page
  /\ UNCHANGED <<refresh, shown, lost, server>>

\* The call fails or times out, before or after the server has handled it.
Fail(c) ==
  LET t == TabOf[c]  k == call[c].kind IN
  /\ call[c].at \in {"sent", "answered"}
  /\ Idle(c)
  /\ stored' = IF k = "logout" THEN None ELSE stored
  /\ page' = IF k \in {"init", "me", "logout"} THEN [page EXCEPT ![t] = "out"] ELSE page
  /\ UNCHANGED <<refresh, shown, lost, server>>

\* A tab is opened or loaded again: its calls and its refresh are forgotten, and
\* AuthProvider asks /me who is signed in when it finds a token.  A refresh that was
\* on its way may be rotated all the same: that is Rotate before Load, for between
\* the two only another refresh of the same token looks at it.
Load(t) ==
  /\ \E c \in Calls :
       /\ TabOf[c] = t
       /\ "init" \in Uses[c]
       /\ call' = [d \in Calls |-> CASE TabOf[d] # t -> call[d]
                                     [] d = c /\ stored # None -> Sent("init", stored, FALSE)
                                     [] OTHER -> NoCall]
  /\ page' = [page EXCEPT ![t] = IF stored = None THEN "out" ELSE "loading"]
  /\ refresh' = [refresh EXCEPT ![t] = NoRefresh]
  /\ shown' = [shown EXCEPT ![t] = {}]
  /\ lost' = IF refresh[t].got # None THEN lost \cup {refresh[t].pair} ELSE lost
  /\ UNCHANGED <<stored, server>>

-----------------------------------------------------------------------------
(* The server *)

Mint(n, p) ==
  /\ n \in Pairs
  /\ issued' = n
  /\ parent' = [parent EXCEPT ![n] = p]

\* login issues a pair, or refuses the password.
ServeLogin(c) ==
  /\ call[c].at = "sent"
  /\ call[c].kind = "login"
  /\ \/ /\ Mint(issued + 1, None)
        /\ call' = [call EXCEPT ![c].at = "answered", ![c].reply = "ok", ![c].pair = issued + 1]
     \/ /\ call' = [call EXCEPT ![c].at = "answered", ![c].reply = "401"]
        /\ UNCHANGED <<issued, parent>>
  /\ UNCHANGED <<stored, page, refresh, shown, lost, deadAccess, spent>>

\* get_current_user: a token that is missing, expired or revoked is a 401.  A
\* request that passes may still fail (an ordinary caller does not tell), and
\* logout revokes its access token.
Serve(c) ==
  /\ call[c].at = "sent"
  /\ call[c].kind # "login"
  /\ \E reply \in IF call[c].pair = None \/ call[c].pair \in deadAccess
                  THEN {"401"} ELSE IF call[c].kind = "plain" THEN {"ok"} ELSE {"ok", "error"} :
       /\ call' = [call EXCEPT ![c].at = "answered", ![c].reply = reply, ![c].pair = None]
       /\ deadAccess' = IF call[c].kind = "logout" /\ reply = "ok"
                        THEN deadAccess \cup {call[c].pair} ELSE deadAccess
  /\ UNCHANGED <<stored, page, refresh, shown, lost, issued, spent, parent>>

Answer(t, n) == refresh' = [refresh EXCEPT ![t].at = "answered", ![t].got = n]

\* refresh: a token that is not revoked is revoked, then its successor is minted.
Rotate(t) ==
  /\ refresh[t].at = "sent"
  /\ refresh[t].pair \notin spent
  /\ spent' = spent \cup {refresh[t].pair}
  /\ Mint(issued + 1, refresh[t].pair)
  /\ Answer(t, issued + 1)
  /\ UNCHANGED <<stored, page, call, shown, lost, deadAccess>>

\* refresh answers an error: always for a revoked token, and for any token that
\* has expired, is over the limit of 20 an hour or meets a failing database.
Refuse(t) ==
  /\ refresh[t].at = "sent"
  /\ Answer(t, None)
  /\ UNCHANGED <<stored, page, call, shown, lost, server>>

\* ACCESS_TOKEN_MAX_AGE_SECONDS pass, for a pair that somebody may still use.
Expire(n) ==
  /\ n \in Pairs \ deadAccess
  /\ n = stored \/ \E c \in Calls : call[c].at = "sent" /\ call[c].pair = n
  /\ deadAccess' = deadAccess \cup {n}
  /\ UNCHANGED <<browser, issued, spent, parent>>

CallStep(c) == Join(c) \/ Accept(c) \/ Fail(c) \/ ServeLogin(c) \/ Serve(c)
Timed(t) == Headers(t) \/ Refused(t) \/ RefreshFails(t)
RefreshEnds(t) == Timed(t) \/ Refreshed(t) \/ BodyFails(t)
RefreshStep(t) == RefreshEnds(t) \/ Rotate(t) \/ Refuse(t)

Next ==
  \/ \E c \in Calls : CallStep(c) \/ \E k \in Kinds \ {"init"} : Send(c, k)
  \/ \E t \in Tabs : RefreshStep(t) \/ Load(t) \/ NobodyStored(t)
  \/ \E n \in Pairs : Expire(n)

\* The timer of fetchWithTimeout bounds the request of doRefresh up to the headers,
\* and the event loop of the tab runs what its end has made ready.  Nobody owes the
\* body of an answer.
Fairness == \A t \in Tabs : WF_vars(Timed(t))

Spec == Init /\ [][Next]_vars /\ Fairness

-----------------------------------------------------------------------------
(* Properties *)

\* A refresh token buys one new pair, however many tabs present it and whichever
\* of their answers are lost.
SingleUse == \A m, n \in Pairs : parent[m] # None /\ parent[m] = parent[n] => m = n

\* localStorage holds a refresh token the server has already rotated only while
\* its successor is on the way to a tab, or when a page was left during a refresh:
\* no order of answers in several tabs strands the session on a dead token.
NoStrandedSession ==
  stored \in spent =>
    \/ stored \in lost
    \/ \E t \in Tabs : refresh[t].pair = stored /\ refresh[t].got # None

\* A tab never asks twice for the same refresh token while its page lives: the
\* second answer, a refusal, would sign the user out.
NeverReplays ==
  [][\A t \in Tabs : refresh'[t].at = "sent" /\ refresh'[t] # refresh[t]
                       => refresh'[t].pair \notin shown[t]]_vars

\* No call waits for ever for the refresh it joined, however that ends: but for a
\* refresh whose body never comes, which nothing in apiFetch.ts ends, every call
\* that waits is sent again, signed out or left with its page.
WaitersWake ==
  \A t \in Tabs :
    []<>(Waiting(t) = {}) \/ <>[](refresh[t].at = "body")

\* The stored session is given up only for a logout, for a refresh that was
\* refused or lost, or for an answer other than 401; an expired access token
\* alone never ends it, not even in the /me of refreshUser
\* (apiFetch.ts: /api/auth/me should trigger refresh when the token expires).
ExpiryKeepsSession ==
  [][\A c \in Calls : call[c].kind = "me" /\ call[c].reply = "401" /\ Accept(c)
                        => stored' = stored]_vars
=============================================================================
