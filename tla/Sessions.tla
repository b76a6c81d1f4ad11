------------------------------ MODULE Sessions ------------------------------
(***************************************************************************)
(* Browsers against the sessions of auth-service: the cookie with the      *)
(* refresh token, the access token, and the requests that travel between   *)
(* them through the gateway.  Every step on the table is one of            *)
(* RefreshTokens; this module adds who asks, with which cookie, and        *)
(* whether the answer arrives.  Tabs of one browser share its cookie.      *)
(*                                                                         *)
(* The gateway forwards everything with one HTTP client, and that client   *)
(* has a cookie jar: it keeps the cookie of the last answer it saw, and    *)
(* sends it along with a request that carries no cookie of its own.        *)
(*                                                                         *)
(* The clock ticks in units of the life of an access token; requests may   *)
(* be in flight when it ticks.                                             *)
(***************************************************************************)
EXTENDS RefreshTokens

CONSTANTS Browsers, Tabs,
          UserOf,     \* the user of each browser
          Layouts,    \* which browser a tab belongs to: functions on Tabs
          Forgetful,  \* clients that may drop their cookies, or keep none
          NoTab,
          AccessTtl,  \* ACCESS_TOKEN_EXPIRE_MINUTES
          RefreshTtl, \* REFRESH_TOKEN_EXPIRE_MINUTES
          MaxTime     \* bound: ticks

ASSUME SessionsAssumption ==
    /\ UserOf \in [Browsers -> Users]
    /\ Layouts \subseteq [Tabs -> Browsers]
    /\ Forgetful \subseteq Browsers
    /\ NoTab \notin Tabs
    /\ AccessTtl \in Nat \ {0} /\ RefreshTtl \in Nat /\ MaxTime \in Nat
    /\ AccessTtl <= RefreshTtl

VARIABLES
    now,
    due,       \* expires_at of each row
    browserOf, \* the layout
    cookie,    \* per browser: its refresh token, 0 when it has none
    access,    \* per browser: exp of its access token
    jar,       \* the refresh token in the jar of the gateway's HTTP client
    tab,       \* per tab: what it asked for and where that is
    serving,   \* per request thread: the tab it works for
    left,      \* history, per browser: the logins it has logged out of
    lent,      \* history: logins with a token that went to a request without one
    mishap     \* history: browsers with an answer that was lost, a token that
               \* expired before it was read, or tabs that asked at the same time

tokenVars == <<now, due>>
browserVars == <<cookie, access>>
sessionVars == <<tokenVars, browserOf, browserVars, jar, tab, serving, left, lent,
                 mishap>>
allVars == <<vars, sessionVars>>

Idle == [at |-> "idle", op |-> "none", arg |-> 0, exp |-> 0]

SessionsInit ==
    /\ Init
    /\ now = 0
    /\ due = [t \in Tokens |-> 0]
    /\ browserOf \in Layouts
    /\ cookie = [b \in Browsers |-> 0]
    /\ access = [b \in Browsers |-> 0]
    /\ jar = 0
    /\ tab = [x \in Tabs |-> Idle]
    /\ serving = [th \in Threads |-> NoTab]
    /\ left = [b \in Browsers |-> {}]
    /\ lent = {}
    /\ mishap = {}

\* decode_access_token, in the gateway and in validate, get_me and patch_me.
\* Nothing else about the session is asked.
Accepted(exp) == now < exp

\* mint_access_token
AccessExp == now + AccessTtl

-----------------------------------------------------------------------------
(* The browser, and the gateway on the way *)

Crossing(x) == \E y \in Tabs \ {x} : browserOf[y] = browserOf[x] /\ tab[y].at # "idle"

Bare(x) == cookie[browserOf[x]] = 0 \* a request without a cookie

\* The token that reaches the service.
Presented(x) == IF Bare(x) THEN jar ELSE cookie[browserOf[x]]

Send(x, op, token) ==
    /\ tab[x].at = "idle"
    /\ tab' = [tab EXCEPT ![x] = [Idle EXCEPT !.at = "sent", !.op = op,
                                              !.arg = token]]
    /\ lent' = IF Bare(x) /\ token # 0 THEN lent \cup {root[token]} ELSE lent
    /\ mishap' = IF Crossing(x) THEN mishap \cup {browserOf[x]} ELSE mishap
    /\ UNCHANGED <<vars, tokenVars, browserOf, browserVars, jar, serving, left>>

SendLogin(x) == Send(x, "login", 0)
\* Without any token the answer is 401, and nothing changes.
SendRefresh(x) == Presented(x) # 0 /\ Send(x, "refresh", Presented(x))
\* /api/auth/logout is not public: the gateway wants an access token.
SendLogout(x) == Accepted(access[browserOf[x]]) /\ Send(x, "logout", Presented(x))

\* The answer passes the gateway: a session fills the jar, a logout empties it.
Relay(x) ==
    /\ tab[x].at = "answered"
    /\ jar' = IF tab[x].op = "logout" THEN 0 ELSE tab[x].arg
    /\ tab' = [tab EXCEPT ![x].at = "relayed"]
    /\ UNCHANGED <<vars, tokenVars, browserOf, browserVars, serving, left, lent, mishap>>

Forget(x) == tab' = [tab EXCEPT ![x] = Idle]

ReceiveLoginOnly(x) == \* mutant: the answer to a refresh sets no cookie
    /\ tab[x].at = "relayed" /\ tab[x].op # "logout"
    /\ cookie' = [cookie EXCEPT ![browserOf[x]] =
                     IF tab[x].op = "login" THEN tab[x].arg ELSE @]
    /\ access' = [access EXCEPT ![browserOf[x]] = tab[x].exp]
    /\ Forget(x)
    /\ UNCHANGED <<vars, tokenVars, browserOf, jar, serving, left, lent, mishap>>

\* An answer with a session: Set-Cookie, and the access token in the body.
ReceiveSession(x) ==
    /\ tab[x].at = "relayed" /\ tab[x].op # "logout"
    /\ cookie' = [cookie EXCEPT ![browserOf[x]] = tab[x].arg]
    /\ access' = [access EXCEPT ![browserOf[x]] = tab[x].exp]
    /\ Forget(x)
    /\ UNCHANGED <<vars, tokenVars, browserOf, jar, serving, left, lent, mishap>>

\* The answer to a logout deletes the cookie.
ReceiveLogout(x) ==
    /\ tab[x].at = "relayed" /\ tab[x].op = "logout"
    /\ cookie' = [cookie EXCEPT ![browserOf[x]] = 0]
    /\ access' = [access EXCEPT ![browserOf[x]] = 0]
    /\ Forget(x)
    /\ UNCHANGED <<vars, tokenVars, browserOf, jar, serving, left, lent, mishap>>

\* Before the gateway or after it.
LoseAnswer(x) ==
    /\ tab[x].at \in {"answered", "relayed"}
    /\ mishap' = mishap \cup {browserOf[x]}
    /\ Forget(x)
    /\ UNCHANGED <<vars, tokenVars, browserOf, browserVars, jar, serving, left, lent>>

Browse(x) ==
    \/ SendLogin(x) \/ SendRefresh(x) \/ SendLogout(x) \/ Relay(x) \/ LoseAnswer(x)
    \/ ReceiveSession(x) \/ ReceiveLogout(x)

\* A client clears its cookies, or lets one go whose max_age is over: that
\* counts from its receipt, so the row has expired before.
DropCookie(b) ==
    /\ cookie[b] # 0
    /\ b \in Forgetful \/ cookie[b] \in expired
    /\ cookie' = [cookie EXCEPT ![b] = 0]
    /\ UNCHANGED <<vars, tokenVars, browserOf, access, jar, tab, serving, left, lent,
                   mishap>>

\* The gateway restarts, or the cookie in its jar is over.
EmptyJar ==
    /\ jar # 0
    /\ jar' = 0
    /\ UNCHANGED <<vars, tokenVars, browserOf, browserVars, tab, serving, left, lent,
                   mishap>>

-----------------------------------------------------------------------------
(* auth-service *)

\* The new row of a session: when it expires, and the access token beside it.
Grant(x) ==
    LET t == rows + 1 IN
    /\ due' = [due EXCEPT ![t] = now + RefreshTtl]
    /\ tab' = [tab EXCEPT ![x] = [@ EXCEPT !.at = "answered", !.arg = t,
                                           !.exp = AccessExp]]

Reply(x, at) == tab' = [tab EXCEPT ![x].at = at]

ServeLogin(th, x) ==
    /\ tab[x].at = "sent" /\ tab[x].op = "login"
    /\ Login(th, UserOf[browserOf[x]])
    /\ Grant(x)
    /\ UNCHANGED <<now, browserOf, browserVars, jar, serving, left, lent, mishap>>

StartRefresh(th, x) ==
    /\ tab[x].at = "sent" /\ tab[x].op = "refresh"
    /\ PresentUsable(th, tab[x].arg) \/ PresentUnusable(th, tab[x].arg)
    /\ mishap' = IF tab[x].arg \in expired
                 THEN mishap \cup {browserOf[x]} ELSE mishap
    /\ serving' = [serving EXCEPT ![th] = x]
    /\ Reply(x, "served")
    /\ UNCHANGED <<tokenVars, browserOf, browserVars, jar, left, lent>>

StartLogout(th, x) ==
    /\ tab[x].at = "sent" /\ tab[x].op = "logout"
    /\ PresentLogout(th, tab[x].arg)
    /\ serving' = [serving EXCEPT ![th] = x]
    /\ Reply(x, "served")
    /\ UNCHANGED <<tokenVars, browserOf, browserVars, jar, left, lent, mishap>>

\* revoke_session_for_token has nothing to do; the answer is that of any logout.
LogoutWithoutCookie(x) ==
    /\ tab[x].at = "sent" /\ tab[x].op = "logout" /\ tab[x].arg = 0
    /\ Reply(x, "answered")
    /\ UNCHANGED <<vars, tokenVars, browserOf, browserVars, jar, serving, left, lent,
                   mishap>>

Release(th) == serving' = [serving EXCEPT ![th] = NoTab]

FinishRotate(th) ==
    /\ Rotate(th)
    /\ Grant(serving[th])
    /\ Release(th)
    /\ UNCHANGED <<now, browserOf, browserVars, jar, left, lent, mishap>>

StartSweep(th) == Sweep(th) /\ UNCHANGED sessionVars

\* 401: an error sets no cookie and deletes none, so its way back is left out.
FinishCascade(th) ==
    /\ RevokeAll(th)
    /\ Forget(serving[th])
    /\ Release(th)
    /\ UNCHANGED <<tokenVars, browserOf, browserVars, jar, left, lent, mishap>>

FinishLogout(th) ==
    /\ Logout(th)
    /\ Reply(serving[th], "answered")
    /\ left' = [left EXCEPT ![browserOf[serving[th]]] = @ \cup {root[arg[th]]}]
    /\ Release(th)
    /\ UNCHANGED <<tokenVars, browserOf, browserVars, jar, lent, mishap>>

Fail(th) ==
    /\ Abort(th)
    /\ Forget(serving[th])
    /\ Release(th)
    /\ UNCHANGED <<tokenVars, browserOf, browserVars, jar, left, lent, mishap>>

-----------------------------------------------------------------------------
(* The clock *)

Reached(t) == Row(t) /\ due[t] <= now

ExpireRow(t) == Reached(t) /\ Expire(t) /\ UNCHANGED sessionVars

\* A cookie may be over a moment after its row, never by the life of an access
\* token.
Tick ==
    /\ now < MaxTime
    /\ \A t \in Tokens : Reached(t) => t \in expired
    /\ \A b \in Browsers : cookie[b] \notin expired
    /\ jar \notin expired
    /\ now' = now + 1
    /\ UNCHANGED <<vars, due, browserOf, browserVars, jar, tab, serving, left, lent,
                   mishap>>

Step ==
    \/ Tick \/ EmptyJar
    \/ \E t \in Tokens : ExpireRow(t)
    \/ \E b \in Browsers : DropCookie(b)
    \/ \E x \in Tabs :
         \/ Browse(x) \/ LogoutWithoutCookie(x)
         \/ \E th \in Threads : \/ ServeLogin(th, x)
                                \/ StartRefresh(th, x) \/ StartLogout(th, x)
    \/ \E th \in Threads :
         \/ FinishRotate(th) \/ StartSweep(th) \/ FinishCascade(th)
         \/ FinishLogout(th) \/ Fail(th)

SessionsSpec == SessionsInit /\ [][Step]_allVars

-----------------------------------------------------------------------------
\* A revocation of all tokens of a user begins only after something went wrong
\* between the service and a browser of that user, or the gateway gave a token
\* of that user to a request without one: tabs that wait for each other's
\* answers, and receive them, never trip the detection of reuse.
CascadeNeedsMishap ==
    \A u \in Users : begun[u] > 0 =>
        (\E b \in mishap : UserOf[b] = u) \/ (\E r \in lent : owner[r] = u)

\* A logout that was served ends the session in which the browser is, also
\* when it has renewed it before, unless the gateway gave a token of that
\* session to someone else.
LogoutIsFinal ==
    \A b \in Browsers \ mishap : \A r \in left[b] \ lent : LiveOf(r) = {}

=============================================================================
