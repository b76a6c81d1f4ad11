--------------------------- MODULE SessionsProofs ---------------------------
(***************************************************************************)
(* Theorems about Sessions: browsers, tabs and requests in any numbers,    *)
(* with any number of requests served at the same time.                    *)
(*                                                                         *)
(* The argument is about the tokens a browser holds (in its cookie, or in  *)
(* a request or an answer on its way) and, among them, those it may still  *)
(* renew its session with.  Sessions never pass from one browser to        *)
(* another; and in a browser whose tabs take turns and get their answers,  *)
(* the token it renews with is the only live one of its session.           *)
(***************************************************************************)
EXTENDS Sessions, RefreshTokensProofs

Places == {"idle", "sent", "served", "answered", "relayed"}
Requests == [at : Places, op : {"none", "login", "refresh", "logout"},
             arg : Tokens \cup {0}, exp : Nat]

SessionTypes ==
    /\ now \in Nat
    /\ due \in [Tokens -> Nat]
    /\ browserOf \in [Tabs -> Browsers]
    /\ cookie \in [Browsers -> Tokens \cup {0}]
    /\ access \in [Browsers -> Nat]
    /\ jar \in Tokens \cup {0}
    /\ lent \subseteq 1..rows
    /\ tab \in [Tabs -> Requests]
    /\ serving \in [Threads -> Tabs \cup {NoTab}]
    /\ left \in [Browsers -> SUBSET (0..rows)]
    /\ mishap \subseteq Browsers

\* The tokens that browsers, requests and the gateway have were issued.
Issued ==
    /\ \A b \in Browsers : cookie[b] \in 0..rows
    /\ \A x \in Tabs : tab[x].arg \in 0..rows
    /\ jar \in 0..rows

\* A thread that is not idle serves a tab, which waits for it and for no other,
\* with the token it presented, to log out or not.
Serves(th, x) ==
    /\ serving[th] = x /\ x \in Tabs
    /\ tab[x].at = "served" /\ arg[th] = tab[x].arg
    /\ pc[th] = "logout" => tab[x].op = "logout"

Assigned ==
    \A th \in Threads :
        IF pc[th] = "idle" THEN serving[th] = NoTab
        ELSE /\ Serves(th, serving[th])
             /\ \A o \in Threads : serving[o] = serving[th] => o = th

-----------------------------------------------------------------------------
(* Sessions takes the steps of RefreshTokens. *)

LEMMA GrantType ==
    ASSUME TypeOK, SessionTypes, NEW x \in Tabs, Grant(x), rows' = rows + 1,
           rows' \in 0..MaxTokens
    PROVE  due' \in [Tokens -> Nat] /\ tab' \in [Tabs -> Requests]
<1>1. rows + 1 \in Tokens /\ now + RefreshTtl \in Nat /\ now + AccessTtl \in Nat
  BY RefreshAssumption, SessionsAssumption DEF TypeOK, SessionTypes, Tokens
<1>2. due' \in [Tokens -> Nat]
  BY <1>1 DEF Grant, SessionTypes
<1>3. tab' \in [Tabs -> Requests]
  <2>1. PICK r : r = [tab[x] EXCEPT !.at = "answered", !.arg = rows + 1, !.exp = AccessExp]
    OBVIOUS
  <2>2. tab[x] \in Requests /\ AccessExp \in Nat
    BY <1>1 DEF SessionTypes, AccessExp
  <2>3. r \in Requests
    BY <1>1, <2>1, <2>2 DEF Requests, Places
  <2>4. tab' = [tab EXCEPT ![x] = r]
    BY <2>1 DEF Grant
  <2> QED
    BY <2>3, <2>4 DEF SessionTypes
<1> QED
  BY <1>2, <1>3

LEMMA StepIsNext ==
    ASSUME TypeOK, SessionTypes, Assigned, [Step]_allVars
    PROVE  [Next]_vars
<1>1. CASE Tick
  BY <1>1 DEF Tick
<1>2. ASSUME NEW t \in Tokens, ExpireRow(t) PROVE Next
  BY <1>2 DEF ExpireRow, Next
<1>3. ASSUME NEW x \in Tabs, Browse(x) PROVE UNCHANGED vars
  BY <1>3 DEF Browse, SendLogin, SendRefresh, SendLogout, Send, Relay, LoseAnswer,
              ReceiveSession, ReceiveLogout
<1>8. ASSUME EmptyJar \/ \E b \in Browsers : DropCookie(b) PROVE UNCHANGED vars
  BY <1>8 DEF EmptyJar, DropCookie
<1>9. ASSUME NEW x \in Tabs, LogoutWithoutCookie(x) PROVE UNCHANGED vars
  BY <1>9 DEF LogoutWithoutCookie
<1>4. ASSUME NEW th \in Threads, NEW x \in Tabs, ServeLogin(th, x) PROVE Next
  <2>1. UserOf[browserOf[x]] \in Users
    BY SessionsAssumption DEF SessionTypes
  <2> QED
    BY <1>4, <2>1 DEF ServeLogin, Next
<1>5. ASSUME NEW th \in Threads, NEW x \in Tabs, StartRefresh(th, x) \/ StartLogout(th, x)
      PROVE  Next
  <2> DEFINE t == tab[x].arg
  <2>1. PresentUsable(th, t) \/ PresentUnusable(th, t) \/ PresentLogout(th, t)
    BY <1>5 DEF StartRefresh, StartLogout
  <2>2. Row(t)
    BY <2>1 DEF PresentUsable, PresentUnusable, PresentLogout, Read
  <2>3. t \in Tokens
    BY <2>2, RefreshAssumption DEF Row, TypeOK, Tokens
  <2> QED
    BY <2>1, <2>3 DEF Next
<1>6. ASSUME NEW th \in Threads,
             \/ FinishRotate(th) \/ StartSweep(th) \/ FinishCascade(th)
             \/ FinishLogout(th) \/ Fail(th)
      PROVE  Next
  BY <1>6 DEF FinishRotate, StartSweep, FinishCascade, FinishLogout, Fail, Next
<1>7. CASE UNCHANGED allVars
  BY <1>7 DEF allVars
<1> QED
  BY <1>1, <1>2, <1>3, <1>4, <1>5, <1>6, <1>7, <1>8, <1>9 DEF Step

\* The rows are never fewer.
LEMMA RowsGrow ==
    ASSUME TypeOK, [Next]_vars
    PROVE  /\ rows \in Nat /\ rows' \in Nat /\ rows <= rows' /\ 0..rows \subseteq 0..rows'
<1>1. rows \in Nat /\ rows' \in Nat /\ rows <= rows'
  BY RowsStay
<1> QED
  BY <1>1

LEMMA TypesStep ==
    ASSUME TypeOK, Rooted, SessionTypes, Issued, Assigned, [Step]_allVars
    PROVE  SessionTypes'
<1>1. /\ rows \in Nat /\ rows' \in Nat /\ rows <= rows' /\ 0..rows \subseteq 0..rows'
      /\ rows' \in 0..MaxTokens
  BY StepIsNext, RowsGrow, TypeStep DEF TypeOK
<1>2. /\ left \in [Browsers -> SUBSET (0..rows')]
      /\ lent \subseteq 1..rows'
  BY <1>1 DEF SessionTypes
<1>3. CASE Tick
  BY <1>2, <1>3 DEF Tick, SessionTypes, browserVars
<1>13. CASE EmptyJar
  BY <1>1, <1>2, <1>13 DEF EmptyJar, SessionTypes, tokenVars, browserVars
<1>14. ASSUME NEW b \in Browsers, DropCookie(b) PROVE SessionTypes'
  <2>1. cookie' \in [Browsers -> Tokens \cup {0}]
    BY <1>14 DEF DropCookie, SessionTypes
  <2> QED
    BY <1>2, <1>14, <2>1 DEF DropCookie, SessionTypes, tokenVars
<1>4. ASSUME UNCHANGED sessionVars PROVE SessionTypes'
  BY <1>2, <1>4 DEF sessionVars, tokenVars, browserVars, SessionTypes
<1>5. ASSUME NEW x \in Tabs, NEW op \in {"login", "refresh", "logout"},
             NEW t \in Tokens \cup {0}, Send(x, op, t),
             Bare(x) /\ t # 0 => t \in 1..rows
      PROVE  SessionTypes'
  <2>1. tab' \in [Tabs -> Requests]
    BY <1>5 DEF Send, Idle, SessionTypes, Requests, Places
  <2>2. mishap' \subseteq Browsers
    BY <1>5 DEF Send, SessionTypes
  <2>3. lent' \subseteq 1..rows
    <3>1. Bare(x) /\ t # 0 => root[t] \in 1..rows
      BY <1>5 DEF Rooted, Row
    <3> QED
      BY <1>5, <3>1 DEF Send, SessionTypes
  <2>4. rows' = rows
    BY <1>5 DEF Send, vars, tableVars
  <2> QED
    BY <1>2, <1>5, <2>1, <2>2, <2>3, <2>4 DEF Send, SessionTypes, tokenVars, browserVars
<1>6. ASSUME NEW x \in Tabs, Forget(x) PROVE tab' \in [Tabs -> Requests]
  BY <1>6 DEF Forget, Idle, SessionTypes, Requests, Places
<1>7. ASSUME NEW x \in Tabs, Browse(x) PROVE SessionTypes'
  <2>1. browserOf[x] \in Browsers /\ cookie[browserOf[x]] \in Tokens \cup {0}
    BY DEF SessionTypes
  <2>2. tab[x].arg \in Tokens \cup {0} /\ tab[x].exp \in Nat
    BY DEF SessionTypes, Requests
  <2>3. CASE SendLogin(x) \/ SendRefresh(x) \/ SendLogout(x)
    <3>1. Presented(x) \in Tokens \cup {0}
      BY <2>1 DEF Presented, SessionTypes
    <3>2. Bare(x) /\ Presented(x) # 0 => Presented(x) \in 1..rows
      BY DEF Presented, Issued, TypeOK
    <3> HIDE DEF Presented
    <3> QED
      BY <1>5, <2>3, <3>1, <3>2 DEF SendLogin, SendRefresh, SendLogout
  <2>7. CASE Relay(x)
    <3>1. tab' \in [Tabs -> Requests]
      BY <2>7 DEF Relay, SessionTypes, Requests, Places
    <3>2. jar' \in Tokens \cup {0}
      BY <2>2, <2>7 DEF Relay
    <3> QED
      BY <1>2, <2>7, <3>1, <3>2 DEF Relay, SessionTypes, tokenVars, browserVars
  <2>4. CASE ReceiveSession(x)
    BY <1>2, <1>6, <2>1, <2>2, <2>4 DEF ReceiveSession, SessionTypes, tokenVars
  <2>5. CASE ReceiveLogout(x)
    BY <1>2, <1>6, <2>1, <2>5 DEF ReceiveLogout, SessionTypes, tokenVars
  <2>6. CASE LoseAnswer(x)
    BY <1>2, <1>6, <2>1, <2>6 DEF LoseAnswer, SessionTypes, tokenVars, browserVars
  <2> QED
    BY <1>7, <2>3, <2>4, <2>5, <2>6, <2>7 DEF Browse
<1>8. ASSUME NEW th \in Threads, NEW x \in Tabs, ServeLogin(th, x) PROVE SessionTypes'
  <2>1. due' \in [Tokens -> Nat] /\ tab' \in [Tabs -> Requests]
    BY <1>1, <1>8, GrantType DEF ServeLogin, Login, Insert
  <2> QED
    BY <1>2, <1>8, <2>1 DEF ServeLogin, SessionTypes, browserVars
<1>9. ASSUME NEW x \in Tabs, NEW p \in Places, Reply(x, p) PROVE tab' \in [Tabs -> Requests]
  BY <1>9 DEF Reply, SessionTypes, Requests
<1>10. ASSUME NEW th \in Threads, NEW x \in Tabs,
              StartRefresh(th, x) \/ StartLogout(th, x)
       PROVE  SessionTypes'
  <2>1. tab' \in [Tabs -> Requests]
    BY <1>9, <1>10 DEF StartRefresh, StartLogout, Places
  <2>2. serving' \in [Threads -> Tabs \cup {NoTab}]
    BY <1>10 DEF StartRefresh, StartLogout, SessionTypes
  <2>3. mishap' \subseteq Browsers
    BY <1>10 DEF StartRefresh, StartLogout, SessionTypes
  <2> QED
    BY <1>2, <1>10, <2>1, <2>2, <2>3
    DEF StartRefresh, StartLogout, SessionTypes, browserVars, tokenVars
<1>11. ASSUME NEW th \in Threads,
              FinishRotate(th) \/ FinishCascade(th) \/ FinishLogout(th) \/ Fail(th)
       PROVE  SessionTypes'
  <2>1. pc[th] # "idle"
    BY <1>11 DEF FinishRotate, Rotate, FinishCascade, RevokeAll, FinishLogout, Logout,
                 Fail, Abort
  <2>2. serving[th] \in Tabs /\ arg[th] \in Tokens
    BY <2>1, ArgRow DEF Assigned, Serves
  <2>3. serving' \in [Threads -> Tabs \cup {NoTab}]
    BY <1>11 DEF FinishRotate, FinishCascade, FinishLogout, Fail, Release, SessionTypes
  <2>4. CASE FinishRotate(th)
    <3>1. due' \in [Tokens -> Nat] /\ tab' \in [Tabs -> Requests]
      BY <1>1, <2>2, <2>4, GrantType DEF FinishRotate, Rotate, Insert
    <3> QED
      BY <1>2, <2>3, <2>4, <3>1 DEF FinishRotate, SessionTypes, browserVars
  <2>5. CASE FinishCascade(th) \/ Fail(th)
    <3>1. tab' \in [Tabs -> Requests]
      BY <1>6, <2>2, <2>5 DEF FinishCascade, Fail
    <3> QED
      BY <1>2, <2>3, <2>5, <3>1
      DEF FinishCascade, Fail, SessionTypes, tokenVars, browserVars
  <2>6. CASE FinishLogout(th)
    <3>1. tab' \in [Tabs -> Requests]
      BY <1>9, <2>2, <2>6 DEF FinishLogout, Places
    <3>2. root[arg[th]] \in 0..rows'
      BY <1>1, <2>2 DEF TypeOK
    <3>3. left' \in [Browsers -> SUBSET (0..rows')]
      BY <1>2, <2>6, <3>2 DEF FinishLogout
    <3> QED
      BY <1>2, <2>3, <2>6, <3>1, <3>3
      DEF FinishLogout, SessionTypes, tokenVars, browserVars
  <2> QED
    BY <1>11, <2>4, <2>5, <2>6
<1>12. CASE UNCHANGED allVars
  BY <1>4, <1>12 DEF allVars
<1>15. ASSUME NEW x \in Tabs, LogoutWithoutCookie(x) PROVE SessionTypes'
  <2>1. tab' \in [Tabs -> Requests]
    BY <1>9, <1>15 DEF LogoutWithoutCookie, Places
  <2> QED
    BY <1>2, <1>15, <2>1 DEF LogoutWithoutCookie, SessionTypes, browserVars, tokenVars
<1> QED
  BY <1>3, <1>4, <1>7, <1>8, <1>10, <1>11, <1>12, <1>13, <1>14, <1>15
  DEF Step, ExpireRow, StartSweep

LEMMA IssuedStep ==
    ASSUME TypeOK, SessionTypes, Issued, Assigned, [Step]_allVars
    PROVE  Issued'
<1>1. rows \in Nat /\ rows' \in Nat /\ 0..rows \subseteq 0..rows'
  BY StepIsNext, RowsGrow
<1>2. ASSUME NEW x \in Tabs, Forget(x) PROVE \A y \in Tabs : tab'[y].arg \in 0..rows
  BY <1>1, <1>2 DEF Forget, Idle, Issued, SessionTypes
<1>3. ASSUME NEW x \in Tabs, NEW p \in Places, Reply(x, p)
      PROVE  \A y \in Tabs : tab'[y].arg \in 0..rows
  BY <1>3 DEF Reply, Issued, SessionTypes, Requests
<1>4. ASSUME NEW x \in Tabs, Grant(x), rows' = rows + 1
      PROVE  \A y \in Tabs : tab'[y].arg \in 0..rows'
  BY <1>1, <1>4 DEF Grant, Issued, SessionTypes, Requests
<1>5. CASE Tick \/ (\E t \in Tokens : ExpireRow(t)) \/ UNCHANGED allVars
           \/ \E th \in Threads : StartSweep(th)
  <2>1. UNCHANGED <<cookie, tab, jar>>
    BY <1>5 DEF Tick, ExpireRow, StartSweep, allVars, sessionVars, browserVars
  <2> QED
    BY <1>1, <2>1 DEF Issued
<1>6. CASE EmptyJar
  BY <1>1, <1>6 DEF EmptyJar, browserVars, Issued
<1>7. ASSUME NEW b \in Browsers, DropCookie(b) PROVE Issued'
  <2>1. \A c \in Browsers : cookie'[c] = 0 \/ cookie'[c] = cookie[c]
    BY <1>7 DEF DropCookie, SessionTypes
  <2>2. 0 \in 0..rows' /\ UNCHANGED <<tab, jar>>
    BY <1>1, <1>7 DEF DropCookie
  <2> QED
    BY <1>1, <2>1, <2>2 DEF Issued
<1>8. ASSUME NEW x \in Tabs, NEW op, NEW t \in 0..rows, Send(x, op, t) PROVE Issued'
  BY <1>1, <1>8 DEF Send, Idle, Issued, SessionTypes, browserVars
<1>9. ASSUME NEW x \in Tabs, Browse(x) PROVE Issued'
  <2>1. browserOf[x] \in Browsers /\ cookie[browserOf[x]] \in 0..rows
    BY DEF SessionTypes, Issued
  <2>2. CASE SendLogin(x) \/ SendRefresh(x) \/ SendLogout(x)
    <3>1. Presented(x) \in 0..rows
      BY <2>1 DEF Presented, Issued
    <3> HIDE DEF Presented
    <3> QED
      BY <1>1, <1>8, <2>2, <3>1 DEF SendLogin, SendRefresh, SendLogout
  <2>3. CASE Relay(x)
    <3>1. \A y \in Tabs : tab'[y].arg = tab[y].arg
      BY <2>3 DEF Relay, SessionTypes, Requests
    <3> QED
      BY <1>1, <2>3, <3>1 DEF Relay, Issued, browserVars
  <2>4. CASE ReceiveSession(x)
    BY <1>1, <1>2, <2>1, <2>4 DEF ReceiveSession, Issued, SessionTypes
  <2>5. CASE ReceiveLogout(x)
    <3>1. \A c \in Browsers : cookie'[c] = 0 \/ cookie'[c] = cookie[c]
      BY <2>5 DEF ReceiveLogout, SessionTypes
    <3>2. 0 \in 0..rows' /\ jar' = jar
      BY <1>1, <2>5 DEF ReceiveLogout
    <3>3. \A y \in Tabs : tab'[y].arg \in 0..rows
      BY <1>2, <2>5 DEF ReceiveLogout
    <3> QED
      BY <1>1, <3>1, <3>2, <3>3 DEF Issued
  <2>6. CASE LoseAnswer(x)
    BY <1>1, <1>2, <2>6 DEF LoseAnswer, Issued, browserVars
  <2> QED
    BY <1>9, <2>2, <2>3, <2>4, <2>5, <2>6 DEF Browse
<1>10. ASSUME NEW th \in Threads, NEW x \in Tabs, ServeLogin(th, x) PROVE Issued'
  <2>1. rows' = rows + 1 /\ Grant(x) /\ UNCHANGED <<cookie, jar>>
    BY <1>10 DEF ServeLogin, Login, Insert, browserVars
  <2> QED
    BY <1>1, <1>4, <2>1 DEF Issued
<1>11. ASSUME NEW th \in Threads, NEW x \in Tabs,
              StartRefresh(th, x) \/ StartLogout(th, x)
       PROVE  Issued'
  BY <1>1, <1>3, <1>11 DEF StartRefresh, StartLogout, Places, Issued, browserVars
<1>12. ASSUME NEW th \in Threads,
              FinishRotate(th) \/ FinishCascade(th) \/ FinishLogout(th) \/ Fail(th)
       PROVE  Issued'
  <2>1. serving[th] \in Tabs
    BY <1>12 DEF FinishRotate, Rotate, FinishCascade, RevokeAll, FinishLogout, Logout,
                 Fail, Abort, Assigned, Serves
  <2>2. UNCHANGED <<cookie, jar>>
    BY <1>12 DEF FinishRotate, FinishCascade, FinishLogout, Fail, browserVars
  <2>3. CASE FinishRotate(th)
    <3>1. rows' = rows + 1 /\ Grant(serving[th])
      BY <2>3 DEF FinishRotate, Rotate, Insert
    <3> QED
      BY <1>1, <1>4, <2>1, <2>2, <3>1 DEF Issued
  <2>4. CASE FinishCascade(th) \/ Fail(th)
    BY <1>1, <1>2, <2>1, <2>2, <2>4 DEF FinishCascade, Fail, Issued
  <2>5. CASE FinishLogout(th)
    BY <1>1, <1>3, <2>1, <2>2, <2>5 DEF FinishLogout, Issued, Places
  <2> QED
    BY <1>12, <2>3, <2>4, <2>5
<1>13. ASSUME NEW x \in Tabs, LogoutWithoutCookie(x) PROVE Issued'
  BY <1>1, <1>3, <1>13 DEF LogoutWithoutCookie, Places, Issued, browserVars
<1> QED
  BY <1>5, <1>6, <1>7, <1>9, <1>10, <1>11, <1>12, <1>13 DEF Step

-----------------------------------------------------------------------------
\* A step of a tab that no thread serves, or that starts or stops being served.

LEMMA AssignedKept ==
    ASSUME Assigned, NEW x \in Tabs, tab[x].at # "served",
           \A y \in Tabs \ {x} : tab'[y] = tab[y],
           UNCHANGED <<pc, arg, serving>>
    PROVE  Assigned'
BY DEF Assigned, Serves

LEMMA AssignedStarts ==
    ASSUME TypeOK, SessionTypes, Assigned, NEW th \in Threads, NEW x \in Tabs,
           NEW p \in {"rotate", "cascade", "logout"}, tab[x].at = "sent",
           Read(th, tab[x].arg, p), Reply(x, "served"),
           p = "logout" => tab[x].op = "logout",
           serving' = [serving EXCEPT ![th] = x]
    PROVE  Assigned'
<1>1. /\ pc'[th] = p /\ arg'[th] = tab[x].arg /\ serving'[th] = x
      /\ tab'[x].at = "served" /\ tab'[x].arg = tab[x].arg /\ tab'[x].op = tab[x].op
  BY DEF Read, Reply, TypeOK, SessionTypes, Requests
<1>2. \A y \in Tabs \ {x} : tab'[y] = tab[y]
  BY DEF Reply, SessionTypes
<1>3. \A o \in Threads \ {th} : /\ pc'[o] = pc[o] /\ arg'[o] = arg[o]
                                /\ serving'[o] = serving[o] /\ serving[o] # x
  BY SessionsAssumption DEF Read, TypeOK, SessionTypes, Assigned, Serves
<1> QED
  BY <1>1, <1>2, <1>3 DEF Assigned, Serves

LEMMA AssignedEnds ==
    ASSUME TypeOK, SessionTypes, Assigned, NEW th \in Threads, pc[th] # "idle",
           Finish(th), Release(th),
           \A y \in Tabs \ {serving[th]} : tab'[y] = tab[y]
    PROVE  Assigned'
<1>1. pc'[th] = "idle" /\ serving'[th] = NoTab
  BY DEF Finish, Release, TypeOK, SessionTypes
<1>2. \A o \in Threads \ {th} : /\ pc'[o] = pc[o] /\ arg'[o] = arg[o]
                                /\ serving'[o] = serving[o]
                                /\ pc[o] # "idle" => serving[o] # serving[th]
  BY DEF Finish, Release, TypeOK, SessionTypes, Assigned
<1> QED
  BY <1>1, <1>2, SessionsAssumption DEF Assigned, Serves

\* The request goes on with its work for the tab.
LEMMA AssignedGoesOn ==
    ASSUME TypeOK, Assigned, NEW th \in Threads, Sweep(th), UNCHANGED <<serving, tab>>
    PROVE  Assigned'
<1>1. /\ pc[th] # "idle" /\ pc'[th] = "swept" /\ arg' = arg
      /\ \A o \in Threads \ {th} : pc'[o] = pc[o]
  BY DEF Sweep, TypeOK
<1>2. \A o \in Threads : (pc'[o] = "idle") <=> (pc[o] = "idle")
  BY <1>1
<1>3. \A o \in Threads : pc'[o] = "logout" => pc[o] = "logout"
  BY <1>1
<1> QED
  BY <1>1, <1>2, <1>3 DEF Assigned, Serves

LEMMA AssignedStep ==
    ASSUME TypeOK, SessionTypes, Assigned, [Step]_allVars
    PROVE  Assigned'
<1>1. ASSUME UNCHANGED <<pc, arg, serving, tab>> PROVE Assigned'
  BY <1>1 DEF Assigned, Serves
<1>2. CASE Tick
  BY <1>1, <1>2 DEF Tick, vars, threadVars
<1>3. ASSUME NEW t \in Tokens, ExpireRow(t) PROVE Assigned'
  BY <1>1, <1>3 DEF ExpireRow, Expire, threadVars, sessionVars
<1>9. ASSUME EmptyJar \/ \E b \in Browsers : DropCookie(b) PROVE Assigned'
  BY <1>1, <1>9 DEF EmptyJar, DropCookie, vars, threadVars
<1>10. ASSUME NEW th \in Threads, StartSweep(th) PROVE Assigned'
  BY <1>10, AssignedGoesOn DEF StartSweep, sessionVars
<1>4. ASSUME NEW x \in Tabs, Browse(x) PROVE Assigned'
  <2>1. tab[x].at # "served" /\ \A y \in Tabs \ {x} : tab'[y] = tab[y]
    BY <1>4 DEF Browse, SendLogin, SendRefresh, SendLogout, Send, Relay, LoseAnswer,
                ReceiveSession, ReceiveLogout, Forget, SessionTypes
  <2>2. UNCHANGED <<pc, arg, serving>>
    BY <1>4 DEF Browse, SendLogin, SendRefresh, SendLogout, Send, Relay, LoseAnswer,
                ReceiveSession, ReceiveLogout, vars, threadVars
  <2> QED
    BY <2>1, <2>2, AssignedKept
<1>5. ASSUME NEW th \in Threads, NEW x \in Tabs, ServeLogin(th, x) PROVE Assigned'
  <2>1. tab[x].at # "served" /\ \A y \in Tabs \ {x} : tab'[y] = tab[y]
    BY <1>5 DEF ServeLogin, Grant, SessionTypes
  <2> QED
    BY <1>5, <2>1, AssignedKept DEF ServeLogin, Login, threadVars
<1>6. ASSUME NEW th \in Threads, NEW x \in Tabs,
             StartRefresh(th, x) \/ StartLogout(th, x)
      PROVE  Assigned'
  BY <1>6, AssignedStarts DEF StartRefresh, StartLogout, PresentUsable,
     PresentUnusable, PresentLogout
<1>7. ASSUME NEW th \in Threads,
             FinishRotate(th) \/ FinishCascade(th) \/ FinishLogout(th) \/ Fail(th)
      PROVE  Assigned'
  <2>1. pc[th] # "idle" /\ Finish(th) /\ Release(th)
    BY <1>7 DEF FinishRotate, Rotate, FinishCascade, RevokeAll, FinishLogout, Logout,
                Fail, Abort
  <2>2. \A y \in Tabs \ {serving[th]} : tab'[y] = tab[y]
    BY <1>7 DEF FinishRotate, Grant, FinishCascade, Forget, FinishLogout, Reply, Fail,
                SessionTypes
  <2> QED
    BY <2>1, <2>2, AssignedEnds
<1>8. CASE UNCHANGED allVars
  BY <1>1, <1>8 DEF allVars, sessionVars, vars, threadVars
<1>11. ASSUME NEW x \in Tabs, LogoutWithoutCookie(x) PROVE Assigned'
  <2>1. tab[x].at # "served" /\ \A y \in Tabs \ {x} : tab'[y] = tab[y]
    BY <1>11 DEF LogoutWithoutCookie, Reply, SessionTypes
  <2> QED
    BY <1>11, <2>1, AssignedKept DEF LogoutWithoutCookie, vars, threadVars
<1> QED
  BY <1>2, <1>3, <1>4, <1>5, <1>6, <1>7, <1>8, <1>9, <1>10, <1>11 DEF Step

SessionsInv == TypeOK /\ Rooted /\ SessionTypes /\ Issued /\ Assigned

LEMMA SessionsStart == SessionsInit => SessionsInv
<1> SUFFICES ASSUME SessionsInit PROVE SessionsInv
  OBVIOUS
<1>1. TypeOK
  BY RefreshAssumption DEF SessionsInit, Init, TypeOK, Row, Tokens
<1>2. SessionTypes
  BY SessionsAssumption DEF SessionsInit, SessionTypes, Idle, Requests, Places, Init
<1>3. Assigned /\ Issued
  BY DEF SessionsInit, Init, Assigned, Issued, Idle
<1>4. Rooted
  BY RootedInit DEF SessionsInit
<1> QED
  BY <1>1, <1>2, <1>3, <1>4 DEF SessionsInv

LEMMA SessionsKept == SessionsInv /\ [Step]_allVars => SessionsInv'
BY StepIsNext, TypeStep, RootedStep, TypesStep, IssuedStep, AssignedStep DEF SessionsInv

\* The table, the requests and the browsers always have their types, and a busy
\* thread works for one tab that waits for it, with the token that tab sent.
THEOREM SessionsTyped == SessionsSpec => []SessionsInv
BY SessionsStart, SessionsKept, PTL DEF SessionsSpec

\* Whatever the browsers send, and whatever is lost on the way, the service goes
\* through the steps of RefreshTokens: every theorem about Spec is one about
\* SessionsSpec.
THEOREM SessionsRefine == SessionsSpec => Spec
<1>1. SessionsInit => Init
  BY DEF SessionsInit
<1>2. SessionsInv /\ [Step]_allVars => [Next]_vars
  BY StepIsNext DEF SessionsInv
<1> QED
  BY <1>1, <1>2, SessionsTyped, PTL DEF SessionsSpec, Spec

-----------------------------------------------------------------------------
(* What a browser holds. *)

TabsOf(b) == {x \in Tabs : browserOf[x] = b}

\* Token t is of a session that never reached a request without a token of its own.
Private(t) == t # 0 /\ root[t] \notin lent

\* Such a token is in the cookie of b, or in a request or an answer of one of its
\* tabs.
Holds(b, t) == Private(t) /\ (cookie[b] = t \/ \E x \in TabsOf(b) : tab[x].arg = t)

\* An answer that will replace the cookie is on its way.
Answering(b) == \E x \in TabsOf(b) : tab[x].at \in {"answered", "relayed"}

\* It is the answer to a logout.
Closed(x) == tab[x].at \in {"answered", "relayed"} /\ tab[x].op = "logout"

\* b has asked, been answered, or will ask next, with token t.
Renews(b, t) ==
    /\ Private(t)
    /\ \/ cookie[b] = t /\ ~Answering(b)
       \/ \E x \in TabsOf(b) : tab[x].arg = t /\ ~Closed(x)

\* Nothing went wrong with any browser of the user, and no token of the user was
\* lent.
Clean(u) == (\A b \in mishap : UserOf[b] # u) /\ (\A r \in lent : owner[r] # u)

\* A request is about to revoke all tokens of the user of its row.
Cascades(th) == pc[th] \in {"cascade", "swept"}

Quiet(x) == tab[x].at = "idle" => tab[x].arg = 0

\* The tabs of a browser without a mishap take turns.
TakesTurns(b) ==
    \A x, y \in TabsOf(b) : tab[x].at # "idle" /\ tab[y].at # "idle" => x = y

\* The parts of the invariant, for a browser b.
Owns(b) == \A t \in Tokens : Holds(b, t) => owner[t] = UserOf[b]

Apart(b, c) ==
    \A s, t \in Tokens : Holds(b, s) /\ Holds(c, t) => root[s] # root[t]

LeftAlone(b, c) == \A t \in Tokens : Holds(c, t) => root[t] \notin left[b]

\* The token is the only live one of its session, which was not logged out.
Latest(b) ==
    \A t \in Tokens : Renews(b, t) =>
        LiveOf(root[t]) \subseteq {t} /\ root[t] \notin left[b]

Unrevoked(b) == \A t \in Tokens : Renews(b, t) => t \notin revoked

LeftIsDead(b) == \A r \in left[b] \ lent : LiveOf(r) = {}

BrowserInv ==
    /\ \A b \in Browsers : Owns(b)
    /\ \A b, c \in Browsers : b # c => Apart(b, c) /\ LeftAlone(b, c)
    /\ \A b \in Browsers \ mishap : TakesTurns(b) /\ Latest(b) /\ LeftIsDead(b)
    /\ \A b \in Browsers : Clean(UserOf[b]) => Unrevoked(b)

\* Only tokens of users with a mishap are presented to a revocation of all.
CascadeInv ==
    /\ \A th \in Threads : Cascades(th) => ~Clean(owner[arg[th]])
    /\ \A u \in Users : begun[u] > 0 => ~Clean(u)

QuietInv == \A x \in Tabs : Quiet(x)

HoldInv == BrowserInv /\ CascadeInv /\ QuietInv

LEMMA HoldStart == SessionsInit => HoldInv
<1> SUFFICES ASSUME SessionsInit PROVE HoldInv
  OBVIOUS
<1>1. \A b \in Browsers, t \in Tokens : ~Holds(b, t) /\ ~Renews(b, t)
  <2>1. SessionTypes
    BY SessionsStart DEF SessionsInv
  <2> QED
    BY <2>1 DEF SessionsInit, Holds, Renews, Private, TabsOf, Idle, SessionTypes
<1>2. \A b \in Browsers : TakesTurns(b) /\ left[b] = {}
  BY DEF SessionsInit, TakesTurns, TabsOf, Idle
<1>3. \A x \in Tabs : Quiet(x)
  BY DEF SessionsInit, Quiet, Idle
<1>4. BrowserInv
  BY <1>1, <1>2 DEF BrowserInv, Owns, Apart, LeftAlone, Latest, Unrevoked, LeftIsDead
<1>5. CascadeInv
  BY DEF SessionsInit, Init, CascadeInv, Cascades
<1> QED
  BY <1>3, <1>4, <1>5 DEF HoldInv, QuietInv

\* A step of a tab of b gives another browser nothing to hold.
LEMMA OthersHold ==
    ASSUME SessionTypes, browserOf' = browserOf, NEW b \in Browsers,
           \A x \in Tabs : browserOf[x] # b => tab'[x] = tab[x],
           lent \subseteq lent',
           NEW c \in Browsers \ {b}, cookie'[c] = cookie[c]
    PROVE  /\ \A t \in Tokens : root'[t] = root[t] =>
                  /\ Holds(c, t)' => Holds(c, t)
                  /\ Renews(c, t)' => Renews(c, t)
           /\ TakesTurns(c)' <=> TakesTurns(c)
<1>1. TabsOf(c)' = TabsOf(c) /\ \A x \in TabsOf(c) : tab'[x] = tab[x]
  BY DEF TabsOf
<1>2. \A t \in Tokens : root'[t] = root[t] /\ Private(t)' => Private(t)
  BY DEF Private
<1>3. Answering(c)' <=> Answering(c)
  BY <1>1 DEF Answering
<1>4. \A x \in TabsOf(c) : Closed(x)' <=> Closed(x)
  BY <1>1 DEF Closed
<1>5. TakesTurns(c)' <=> TakesTurns(c)
  BY <1>1 DEF TakesTurns
<1>6. \A t \in Tokens : root'[t] = root[t] /\ Holds(c, t)' => Holds(c, t)
  BY <1>1, <1>2 DEF Holds
<1>7. \A t \in Tokens : root'[t] = root[t] /\ Renews(c, t)' => Renews(c, t)
  BY <1>1, <1>2, <1>3, <1>4 DEF Renews
<1> QED
  BY <1>5, <1>6, <1>7

\* A token that is held was issued.
LEMMA HeldRow ==
    ASSUME TypeOK, Issued, NEW b \in Browsers, NEW t \in Tokens, Holds(b, t)
    PROVE  t \in 1..rows
BY DEF Holds, Private, TabsOf, Issued, TypeOK

\* A user of whom something went wrong stays one.
LEMMA UncleanStays ==
    ASSUME mishap \subseteq mishap', lent \subseteq lent',
           \A r \in lent : owner'[r] = owner[r]
    PROVE  \A u \in Users : ~Clean(u) => ~Clean(u)'
BY DEF Clean

\* A renewing token is held.
LEMMA RenewsHolds ==
    ASSUME NEW b, NEW t, Renews(b, t)
    PROVE  Holds(b, t)
BY DEF Renews, Holds

\* A step that inserts no row.
LEMMA ShrinkStep ==
    ASSUME SessionTypes, TypeOK, BrowserInv,
           UNCHANGED <<rows, owner, root, left>>,
           revoked \subseteq revoked', mishap \subseteq mishap', mishap' \subseteq Browsers,
           lent \subseteq lent',
           \A b \in Browsers, t \in Tokens : Holds(b, t)' => Holds(b, t),
           \A b \in Browsers \ mishap' : TakesTurns(b)',
           \A b \in Browsers \ mishap', t \in Tokens : Renews(b, t)' => Renews(b, t),
           \A b \in Browsers, t \in Tokens :
               Clean(UserOf[b])' /\ Renews(b, t)' => t \notin revoked'
    PROVE  BrowserInv'
<1>1. \A r \in Nat : LiveOf(r)' \subseteq LiveOf(r)
  BY DEF LiveOf, Live, Row
<1>2. ASSUME NEW b \in Browsers PROVE Owns(b)'
  BY <1>2 DEF BrowserInv, Owns
<1>3. ASSUME NEW b \in Browsers, NEW c \in Browsers, b # c
      PROVE  Apart(b, c)' /\ LeftAlone(b, c)'
  BY <1>3 DEF BrowserInv, Apart, LeftAlone
<1>4. ASSUME NEW b \in Browsers \ mishap' PROVE Latest(b)' /\ LeftIsDead(b)'
  <2>1. Latest(b) /\ LeftIsDead(b)
    BY DEF BrowserInv
  <2>2. Latest(b)'
    BY <1>1, <2>1 DEF Latest, TypeOK
  <2>3. \A r \in left[b] : r \in Nat
    BY DEF SessionTypes, TypeOK
  <2> QED
    BY <1>1, <2>1, <2>2, <2>3 DEF LeftIsDead
<1>5. ASSUME NEW b \in Browsers, Clean(UserOf[b])' PROVE Unrevoked(b)'
  BY <1>5 DEF Unrevoked
<1> QED
  BY <1>2, <1>3, <1>4, <1>5 DEF BrowserInv

\* A new row for a tab of b: for the session of the token that is revoked with
\* it, or for a session of its own.
LEMMA GrantStep ==
    ASSUME TypeOK, Rooted, SessionTypes, Issued, BrowserInv,
           NEW b \in Browsers, NEW r \in 0..(rows + 1), NEW e, NEW u,
           Insert(u, r, e), r \notin lent => u = UserOf[b],
           UNCHANGED <<left, mishap, lent>>,
           \A c \in Browsers \ {b}, t \in Tokens : Holds(c, t)' => Holds(c, t),
           \A t \in Tokens : Holds(b, t)' => Holds(b, t) \/ t = rows + 1,
           \A c \in Browsers \ mishap : TakesTurns(c)',
           \A c \in Browsers, t \in Tokens \ {rows + 1} : Renews(c, t)' => Renews(c, t),
           b \notin mishap => \A t \in Tokens : Renews(b, t)' => t = rows + 1,
           \/ r = rows + 1 /\ revoked' = revoked
           \/ \E t \in Tokens : /\ r = root[t] /\ (r \notin lent => Renews(b, t))
                                /\ Row(t) /\ revoked' = revoked \cup {t}
    PROVE  BrowserInv'
<1> DEFINE n == rows + 1
<1>1. n \in Tokens /\ rows \in Nat /\ rows' = n
  BY RefreshAssumption DEF Insert, TypeOK, Tokens
<1>2. /\ \A t \in Tokens : t # n => root'[t] = root[t] /\ owner'[t] = owner[t]
      /\ root'[n] = r /\ owner'[n] = u
  BY <1>1 DEF Insert, TypeOK
<1>3. \A c \in Browsers, t \in Tokens :
          Holds(c, t) => t \in 1..rows /\ t # n /\ root[t] \in 0..rows /\ root[t] # n
  BY <1>1, HeldRow DEF TypeOK
<1>13. \A c \in Browsers, t \in Tokens : t = n /\ Holds(c, t)' => r \notin lent
  BY <1>2 DEF Holds, Private
<1>4. \A c \in Browsers : left[c] \subseteq 0..rows /\ n \notin left[c]
  BY <1>1 DEF SessionTypes
<1> HIDE DEF n
\* No other browser is in this session, unless it was lent.
<1>5. ASSUME NEW c \in Browsers \ {b}
      PROVE  /\ r \notin lent => r \notin left[c]
             /\ \A t \in Tokens : Holds(c, t) => root[t] # r
  <2>1. CASE r = n
    BY <1>3, <1>4, <2>1
  <2>2. CASE r \in lent
    BY <2>2 DEF Holds, Private
  <2>3. ASSUME NEW t \in Tokens, Renews(b, t), r = root[t] PROVE <1>5!2
    BY <2>3, RenewsHolds DEF BrowserInv, Apart, LeftAlone
  <2> QED
    BY <2>1, <2>2, <2>3 DEF n
<1>6. \A q \in Nat : q # r => LiveOf(q)' \subseteq LiveOf(q)
  <2>1. \A t \in Tokens : t \in 1..rows' /\ t # n => t \in 1..rows
    BY <1>1 DEF n
  <2> QED
    BY <1>2, <2>1 DEF LiveOf, Live, Row
<1>7. b \notin mishap /\ r \notin lent => r \notin left[b] /\ LiveOf(r)' \subseteq {n}
  <2> SUFFICES ASSUME b \notin mishap, r \notin lent PROVE r \notin left[b] /\ LiveOf(r)' \subseteq {n}
    OBVIOUS
  <2>1. \A t \in Tokens : t \in 1..rows' /\ t # n => t \in 1..rows
    BY <1>1 DEF n
  <2>2. LiveOf(r)' \subseteq {n} \cup {t \in LiveOf(r) : t \notin revoked'}
    BY <1>2, <2>1 DEF LiveOf, Live, Row
  <2>3. CASE r = n
    <3>1. \A t \in Tokens : root[t] # n
      BY <1>1 DEF TypeOK, n
    <3> QED
      BY <1>4, <2>2, <2>3, <3>1 DEF LiveOf
  <2>4. ASSUME NEW t \in Tokens, Renews(b, t), r = root[t], revoked' = revoked \cup {t}
        PROVE  r \notin left[b] /\ LiveOf(r)' \subseteq {n}
    BY <2>2, <2>4 DEF BrowserInv, Latest
  <2> QED
    BY <2>3, <2>4 DEF n
<1>8. ASSUME NEW c \in Browsers PROVE Owns(c)'
  <2> SUFFICES ASSUME NEW t \in Tokens, Holds(c, t)' PROVE owner'[t] = UserOf[c]
    BY DEF Owns
  <2>1. CASE t = n
    BY <1>2, <1>3, <1>13, <2>1 DEF n
  <2>2. CASE t # n
    BY <1>2, <2>2 DEF BrowserInv, Owns, n
  <2> QED
    BY <2>1, <2>2
<1>9. ASSUME NEW c \in Browsers, NEW d \in Browsers, c # d
      PROVE  Apart(c, d)' /\ LeftAlone(c, d)'
  <2>1. ASSUME NEW s \in Tokens, NEW t \in Tokens, Holds(c, s)', Holds(d, t)'
        PROVE  root'[s] # root'[t]
    <3>1. CASE s = n
      BY <1>2, <1>3, <1>5, <1>9, <2>1, <3>1 DEF n
    <3>2. CASE t = n
      BY <1>2, <1>3, <1>5, <1>9, <2>1, <3>2 DEF n
    <3>3. CASE s # n /\ t # n
      BY <1>2, <1>9, <2>1, <3>3 DEF BrowserInv, Apart, n
    <3> QED
      BY <3>1, <3>2, <3>3
  <2>2. ASSUME NEW t \in Tokens, Holds(d, t)' PROVE root'[t] \notin left'[c]
    <3>1. CASE t = n
      BY <1>2, <1>3, <1>5, <1>9, <1>13, <2>2, <3>1 DEF n
    <3>2. CASE t # n
      BY <1>2, <1>9, <2>2, <3>2 DEF BrowserInv, LeftAlone, n
    <3> QED
      BY <3>1, <3>2
  <2> QED
    BY <2>1, <2>2 DEF Apart, LeftAlone
<1>10. ASSUME NEW c \in Browsers \ mishap PROVE Latest(c)'
  <2> SUFFICES ASSUME NEW t \in Tokens, Renews(c, t)'
               PROVE  (LiveOf(root[t]) \subseteq {t} /\ root[t] \notin left[c])'
    BY DEF Latest
  <2>3. Holds(c, t)'
    BY DEF Renews, Holds
  <2>1. CASE c = b
    BY <1>2, <1>7, <1>13, <2>1, <2>3 DEF n
  <2>2. CASE c # b
    <3>1. Holds(c, t)
      BY <2>2, <2>3
    <3>2. t # n /\ Renews(c, t) /\ root[t] # r /\ root[t] \in Nat
      BY <1>3, <1>5, <2>2, <3>1 DEF n
    <3> QED
      BY <1>2, <1>6, <3>2 DEF BrowserInv, Latest
  <2> QED
    BY <2>1, <2>2
<1>11. ASSUME NEW c \in Browsers \ mishap PROVE LeftIsDead(c)'
  <2>1. r \notin left[c] \ lent
    BY <1>5, <1>7
  <2>2. \A q \in left[c] \ lent : q \in Nat /\ q # r /\ LiveOf(q) = {}
    BY <1>4, <2>1 DEF BrowserInv, LeftIsDead
  <2> QED
    BY <1>6, <2>2 DEF LeftIsDead
<1>12. ASSUME NEW c \in Browsers, Clean(UserOf[c])' PROVE Unrevoked(c)'
  <2> SUFFICES ASSUME NEW t \in Tokens, Renews(c, t)'
               PROVE  t \notin revoked'
    BY DEF Unrevoked
  <2>4. \A q \in lent : owner'[q] = owner[q]
    <3>1. \A q \in lent : q \in Tokens /\ q # n
      BY <1>1, RefreshAssumption DEF SessionTypes, TypeOK, Tokens, n
    <3> QED
      BY <1>2, <3>1
  <2>1. c \notin mishap /\ Clean(UserOf[c])
    BY <1>12, <2>4 DEF Clean
  <2>2. CASE t = n
    <3>1. n \notin revoked /\ ~Row(n)
      BY <1>1 DEF Rooted, Row, n
    <3> QED
      BY <2>2, <3>1 DEF n
  <2>3. CASE t # n
    <3>1. Renews(c, t) /\ c # b
      BY <2>1, <2>3 DEF n
    <3>2. t \notin revoked /\ Holds(c, t) /\ root[t] # r
      BY <1>5, <2>1, <3>1, RenewsHolds DEF BrowserInv, Unrevoked
    <3> QED
      BY <3>2
  <2> QED
    BY <2>2, <2>3
<1> QED
  BY <1>8, <1>9, <1>10, <1>11, <1>12 DEF BrowserInv

\* The logout of a tab of b with token t.
LEMMA LeaveStep ==
    ASSUME TypeOK, SessionTypes, BrowserInv, UNCHANGED <<rows, owner, root, mishap, lent>>,
           NEW b \in Browsers, NEW t \in Tokens, root[t] \notin lent => Renews(b, t),
           revoked' = revoked \cup {t},
           left' = [left EXCEPT ![b] = @ \cup {root[t]}],
           \A c \in Browsers, s \in Tokens : Holds(c, s)' => Holds(c, s),
           \A c \in Browsers \ mishap : TakesTurns(c)',
           \A c \in Browsers, s \in Tokens : Renews(c, s)' => Renews(c, s),
           b \notin mishap => \A s \in Tokens : ~Renews(b, s)'
    PROVE  BrowserInv'
<1>1. \A r \in Nat : LiveOf(r)' \subseteq LiveOf(r) \ {t}
  BY DEF LiveOf, Live, Row
<1>2. /\ left'[b] = left[b] \cup {root[t]}
      /\ \A c \in Browsers : c # b => left'[c] = left[c]
  BY DEF SessionTypes
<1>3. ASSUME NEW c \in Browsers PROVE Owns(c)'
  BY <1>3 DEF BrowserInv, Owns
<1>4. ASSUME NEW c \in Browsers, NEW d \in Browsers, c # d
      PROVE  Apart(c, d)' /\ LeftAlone(c, d)'
  <2>1. \A s \in Tokens : b # d /\ Holds(d, s) => root[s] # root[t]
    <3>1. CASE root[t] \in lent
      BY <3>1 DEF Holds, Private
    <3>2. CASE root[t] \notin lent
      BY <3>2, RenewsHolds DEF BrowserInv, Apart
    <3> QED
      BY <3>1, <3>2
  <2> QED
    BY <1>2, <1>4, <2>1 DEF BrowserInv, Apart, LeftAlone
<1>5. ASSUME NEW c \in Browsers \ mishap PROVE Latest(c)'
  <2>1. CASE c = b
    BY <2>1 DEF Latest
  <2>2. CASE c # b
    BY <1>1, <1>2, <2>2 DEF BrowserInv, Latest, TypeOK
  <2> QED
    BY <2>1, <2>2
<1>6. ASSUME NEW c \in Browsers \ mishap PROVE LeftIsDead(c)'
  <2>1. \A r \in left[c] \ lent : r \in Nat /\ LiveOf(r) = {}
    BY DEF BrowserInv, LeftIsDead, SessionTypes, TypeOK
  <2>2. c = b /\ root[t] \notin lent => LiveOf(root[t])' = {} /\ root[t] \in Nat
    BY <1>1 DEF BrowserInv, Latest, TypeOK
  <2> QED
    BY <1>1, <1>2, <2>1, <2>2 DEF LeftIsDead
<1>7. ASSUME NEW c \in Browsers, Clean(UserOf[c])' PROVE Unrevoked(c)'
  <2> SUFFICES ASSUME NEW s \in Tokens, Renews(c, s)' PROVE s \notin revoked'
    BY DEF Unrevoked
  <2>1. c \notin mishap /\ Clean(UserOf[c])
    BY <1>7 DEF Clean
  <2>2. c # b /\ Renews(c, s)
    BY <2>1
  <2>3. root[s] # root[t]
    <3>1. CASE root[t] \in lent
      BY <2>2, <3>1 DEF Renews, Private
    <3>2. CASE root[t] \notin lent
      BY <2>2, <3>2, RenewsHolds DEF BrowserInv, Apart
    <3> QED
      BY <3>1, <3>2
  <2> QED
    BY <2>1, <2>2, <2>3 DEF BrowserInv, Unrevoked
<1> QED
  BY <1>3, <1>4, <1>5, <1>6, <1>7 DEF BrowserInv

-----------------------------------------------------------------------------
(* What the steps of a tab do to what its browser holds. *)

LEMMA SendView ==
    ASSUME SessionsInv, HoldInv, NEW x \in Tabs, NEW op \in {"login", "refresh", "logout"},
           NEW b \in Browsers, b = browserOf[x], NEW t, Send(x, op, t),
           Bare(x) \/ t \in {0, cookie[b]}
    PROVE  /\ \A c \in Browsers, s \in Tokens : Holds(c, s)' => Holds(c, s)
           /\ \A c \in Browsers \ mishap' : TakesTurns(c)'
           /\ \A c \in Browsers \ mishap', s \in Tokens : Renews(c, s)' => Renews(c, s)
           /\ \A y \in Tabs : Quiet(y)'
           /\ mishap \subseteq mishap' /\ lent \subseteq lent'
<1> USE DEF SessionsInv
<1>1. /\ browserOf' = browserOf /\ cookie' = cookie
      /\ tab[x].at = "idle" /\ tab'[x].at = "sent" /\ tab'[x].arg = t
      /\ \A y \in Tabs : y # x => tab'[y] = tab[y]
  BY DEF Send, Idle, SessionTypes, browserVars
<1>2. TabsOf(b)' = TabsOf(b) /\ x \in TabsOf(b) /\ TabsOf(b) \subseteq Tabs
  BY <1>1 DEF TabsOf
<1>3. mishap \subseteq mishap' /\ lent \subseteq lent'
  BY DEF Send
<1>13. root' = root /\ \A s \in Tokens : Private(s)' => Private(s)
  BY <1>3 DEF Send, vars, rowHistory, Private
\* What reaches the service for a request without a token is not held.
<1>14. \A s \in Tokens : Private(s)' /\ s = t => cookie[b] = s
  BY <1>13 DEF Send, Private
<1>4. b \notin mishap' => \A y \in TabsOf(b) : y # x => tab[y].at = "idle"
  BY DEF Send, Crossing, TabsOf
<1>5. \A y \in Tabs : Quiet(y)'
  BY <1>1 DEF HoldInv, QuietInv, Quiet
<1>6. \A s \in Tokens : Holds(b, s)' => Holds(b, s)
  BY <1>1, <1>2, <1>13, <1>14 DEF Holds
<1>7. b \notin mishap' => TakesTurns(b)'
  BY <1>1, <1>2, <1>4 DEF TakesTurns
<1>8. b \notin mishap' => \A s \in Tokens : Renews(b, s)' => Renews(b, s)
  <2> SUFFICES ASSUME b \notin mishap', NEW s \in Tokens, Renews(b, s)'
               PROVE  Renews(b, s)
    OBVIOUS
  <2>1. ~Answering(b)
    BY <1>1, <1>4 DEF Answering, TabsOf
  <2>2. \A y \in TabsOf(b) : y # x => (Closed(y)' <=> Closed(y))
    BY <1>1, <1>2 DEF Closed
  <2>3. Private(s)' /\ Private(s)
    BY <1>13 DEF Renews
  <2> QED
    BY <1>1, <1>2, <1>14, <2>1, <2>2, <2>3 DEF Renews
<1>9. ASSUME NEW c \in Browsers \ {b}, c \notin mishap'
      PROVE  TakesTurns(c)
  BY <1>3, <1>9 DEF HoldInv, BrowserInv
<1>10. \A y \in Tabs : browserOf[y] # b => tab'[y] = tab[y]
  BY <1>1
<1> HIDE DEF SessionsInv
<1>11. SessionTypes
  BY DEF SessionsInv
<1>12. ASSUME NEW c \in Browsers \ {b}
       PROVE  /\ \A s \in Tokens : /\ Holds(c, s)' => Holds(c, s)
                                   /\ Renews(c, s)' => Renews(c, s)
              /\ TakesTurns(c)' <=> TakesTurns(c)
  BY <1>1, <1>3, <1>10, <1>11, <1>13, OthersHold
<1> QED
  BY <1>3, <1>5, <1>6, <1>7, <1>8, <1>9, <1>12

LEMMA ForgetView ==
    ASSUME SessionsInv, HoldInv, NEW x \in Tabs, Forget(x),
           UNCHANGED <<browserOf, root, lent>>, mishap \subseteq mishap',
           NEW b \in Browsers, b = browserOf[x],
           \A c \in Browsers \ {b} : cookie'[c] = cookie[c],
           \/ cookie'[b] = 0
           \/ cookie'[b] = tab[x].arg /\ ~Closed(x)
           \/ cookie'[b] = cookie[b] /\ (tab[x].at = "served" \/ b \in mishap')
    PROVE  /\ \A c \in Browsers, s \in Tokens : Holds(c, s)' => Holds(c, s)
           /\ \A c \in Browsers \ mishap' : TakesTurns(c)'
           /\ \A c \in Browsers \ mishap', s \in Tokens : Renews(c, s)' => Renews(c, s)
           /\ \A y \in Tabs : Quiet(y)'
<1> USE DEF SessionsInv
<1>1. /\ tab'[x].at = "idle" /\ tab'[x].arg = 0
      /\ \A y \in Tabs : y # x => tab'[y] = tab[y]
  BY DEF Forget, Idle, SessionTypes
<1>2. TabsOf(b)' = TabsOf(b) /\ x \in TabsOf(b) /\ TabsOf(b) \subseteq Tabs
  BY DEF TabsOf
<1>3. \A y \in Tabs : Quiet(y)'
  BY <1>1 DEF HoldInv, QuietInv, Quiet
<1>11. \A s \in Tokens : Private(s)' <=> Private(s)
  BY DEF Private
<1>4. \A s \in Tokens : Holds(b, s)' => Holds(b, s)
  BY <1>1, <1>2, <1>11 DEF Holds, Private
<1>5. TakesTurns(b) => TakesTurns(b)'
  BY <1>1, <1>2 DEF TakesTurns
<1>6. b \notin mishap' => \A s \in Tokens : Renews(b, s)' => Renews(b, s)
  <2> SUFFICES ASSUME b \notin mishap', NEW s \in Tokens, Renews(b, s)'
               PROVE  Renews(b, s)
    OBVIOUS
  <2>3. Private(s) /\ s # 0
    BY <1>11 DEF Renews, Private
  <2>1. ASSUME NEW y \in TabsOf(b), tab'[y].arg = s, ~Closed(y)'
        PROVE  Renews(b, s)
    BY <1>1, <1>2, <2>1, <2>3 DEF Renews, Closed
  <2>2. CASE cookie'[b] = s /\ ~Answering(b)'
    <3>1. CASE cookie'[b] = tab[x].arg /\ ~Closed(x)
      BY <1>2, <2>2, <2>3, <3>1 DEF Renews
    <3>2. CASE cookie'[b] = cookie[b] /\ tab[x].at = "served"
      <4>1. ~Answering(b)
        BY <1>1, <1>2, <2>2, <3>2 DEF Answering
      <4> QED
        BY <2>2, <2>3, <3>2, <4>1 DEF Renews
    <3> QED
      BY <2>2, <2>3, <3>1, <3>2
  <2> QED
    BY <1>2, <2>1, <2>2 DEF Renews
<1>7. \A y \in Tabs : browserOf[y] # b => tab'[y] = tab[y]
  BY <1>1
<1>8. \A c \in Browsers \ mishap' : TakesTurns(c)
  BY DEF HoldInv, BrowserInv
<1> HIDE DEF SessionsInv
<1>9. SessionTypes
  BY DEF SessionsInv
<1>10. ASSUME NEW c \in Browsers \ {b}
       PROVE  /\ \A s \in Tokens : /\ Holds(c, s)' => Holds(c, s)
                                   /\ Renews(c, s)' => Renews(c, s)
              /\ TakesTurns(c)' <=> TakesTurns(c)
  BY <1>7, <1>9, OthersHold
<1> QED
  BY <1>3, <1>4, <1>5, <1>6, <1>8, <1>10

LEMMA ReplyView ==
    ASSUME SessionsInv, HoldInv, NEW x \in Tabs, NEW p \in {"served", "answered", "relayed"},
           Reply(x, p),
           tab[x].at \in {"sent", "served"} \/ (p = "relayed" /\ tab[x].at = "answered"),
           UNCHANGED <<browserOf, cookie, root, lent>>, mishap \subseteq mishap',
           NEW b \in Browsers, b = browserOf[x]
    PROVE  /\ \A c \in Browsers, s \in Tokens : Holds(c, s)' => Holds(c, s)
           /\ \A c \in Browsers \ mishap' : TakesTurns(c)'
           /\ \A c \in Browsers, s \in Tokens : Renews(c, s)' => Renews(c, s)
           /\ \A y \in Tabs : Quiet(y)'
           /\ Closed(x)' /\ b \notin mishap => \A s \in Tokens : ~Renews(b, s)'
<1> USE DEF SessionsInv
<1>1. /\ tab'[x].at = p /\ tab'[x].arg = tab[x].arg /\ tab'[x].op = tab[x].op
      /\ \A y \in Tabs : y # x => tab'[y] = tab[y]
  BY DEF Reply, SessionTypes, Requests
<1>2. TabsOf(b)' = TabsOf(b) /\ x \in TabsOf(b) /\ TabsOf(b) \subseteq Tabs
  BY DEF TabsOf
<1>3. \A y \in Tabs : Quiet(y)'
  BY <1>1 DEF HoldInv, QuietInv, Quiet
<1>13. \A s \in Tokens : Private(s)' <=> Private(s)
  BY DEF Private
<1>4. \A s \in Tokens : Holds(b, s)' => Holds(b, s)
  BY <1>1, <1>2, <1>13 DEF Holds
<1>5. TakesTurns(b) => TakesTurns(b)'
  BY <1>1, <1>2 DEF TakesTurns
<1>6. Answering(b) => Answering(b)'
  BY <1>1, <1>2 DEF Answering
<1>14. \A y \in Tabs : Closed(y) => Closed(y)'
  BY <1>1 DEF Closed
<1>7. \A s \in Tokens : Renews(b, s)' => Renews(b, s)
  BY <1>1, <1>2, <1>6, <1>13, <1>14 DEF Renews
<1>8. ASSUME Closed(x)', b \notin mishap, NEW s \in Tokens PROVE ~Renews(b, s)'
  <2>1. Answering(b)'
    BY <1>2, <1>8 DEF Answering, Closed
  <2>2. \A y \in TabsOf(b) : y # x => tab'[y].arg = 0
    <3>1. TakesTurns(b)
      BY <1>8 DEF HoldInv, BrowserInv
    <3> QED
      BY <1>1, <1>2, <3>1 DEF TakesTurns, HoldInv, QuietInv, Quiet
  <2> QED
    BY <1>1, <1>2, <1>8, <2>1, <2>2 DEF Renews, Private
<1>9. \A y \in Tabs : browserOf[y] # b => tab'[y] = tab[y]
  BY <1>1
<1>10. \A c \in Browsers \ mishap' : TakesTurns(c)
  BY DEF HoldInv, BrowserInv
<1> HIDE DEF SessionsInv
<1>11. SessionTypes
  BY DEF SessionsInv
<1>12. ASSUME NEW c \in Browsers \ {b}
       PROVE  /\ \A s \in Tokens : /\ Holds(c, s)' => Holds(c, s)
                                   /\ Renews(c, s)' => Renews(c, s)
              /\ TakesTurns(c)' <=> TakesTurns(c)
  BY <1>9, <1>11, OthersHold
<1> QED
  BY <1>3, <1>4, <1>5, <1>7, <1>8, <1>10, <1>12

LEMMA GrantView ==
    ASSUME SessionsInv, HoldInv, NEW x \in Tabs, tab[x].at \in {"sent", "served"},
           Grant(x), UNCHANGED <<browserOf, cookie, mishap, lent>>,
           \A s \in Tokens \ {rows + 1} : root'[s] = root[s],
           NEW b \in Browsers, b = browserOf[x]
    PROVE  /\ \A c \in Browsers \ {b}, s \in Tokens : Holds(c, s)' => Holds(c, s)
           /\ \A s \in Tokens : Holds(b, s)' => Holds(b, s) \/ s = rows + 1
           /\ \A c \in Browsers \ mishap : TakesTurns(c)'
           /\ \A c \in Browsers, s \in Tokens \ {rows + 1} : Renews(c, s)' => Renews(c, s)
           /\ b \notin mishap => \A s \in Tokens : Renews(b, s)' => s = rows + 1
           /\ \A y \in Tabs : Quiet(y)'
<1> DEFINE n == rows + 1
<1> USE DEF SessionsInv
<1>1. /\ tab'[x].at = "answered" /\ tab'[x].arg = n
      /\ \A y \in Tabs : y # x => tab'[y] = tab[y]
  BY DEF Grant, SessionTypes, Requests
<1> HIDE DEF n
<1>2. TabsOf(b)' = TabsOf(b) /\ x \in TabsOf(b) /\ TabsOf(b) \subseteq Tabs
  BY DEF TabsOf
<1>3. \A y \in Tabs : Quiet(y)'
  BY <1>1 DEF HoldInv, QuietInv, Quiet
<1>13. \A s \in Tokens : s # n => (Private(s)' <=> Private(s))
  BY DEF Private, n
<1>4. \A s \in Tokens : Holds(b, s)' => Holds(b, s) \/ s = n
  BY <1>1, <1>2, <1>13 DEF Holds
<1>5. TakesTurns(b) => TakesTurns(b)'
  BY <1>1, <1>2 DEF TakesTurns
<1>6. Answering(b)'
  BY <1>1, <1>2 DEF Answering
<1>14. \A y \in Tabs : y # x => (Closed(y)' <=> Closed(y))
  BY <1>1 DEF Closed
<1>7. \A s \in Tokens : Renews(b, s)' => Renews(b, s) \/ s = n
  BY <1>1, <1>2, <1>6, <1>13, <1>14 DEF Renews
<1>8. ASSUME b \notin mishap, NEW s \in Tokens, Renews(b, s)' PROVE s = n
  <2>1. TakesTurns(b)
    BY <1>8 DEF HoldInv, BrowserInv
  <2>2. \A y \in TabsOf(b) : y # x => tab'[y].arg = 0
    BY <1>1, <1>2, <2>1 DEF TakesTurns, HoldInv, QuietInv, Quiet
  <2> QED
    BY <1>1, <1>2, <1>6, <1>8, <2>2 DEF Renews, Private
<1>9. \A y \in Tabs : browserOf[y] # b => tab'[y] = tab[y]
  BY <1>1
<1>10. \A c \in Browsers \ mishap : TakesTurns(c)
  BY DEF HoldInv, BrowserInv
<1> HIDE DEF SessionsInv
<1>11. SessionTypes /\ TypeOK
  BY DEF SessionsInv
<1>15. Issued
  BY DEF SessionsInv
<1>12. ASSUME NEW c \in Browsers \ {b}
       PROVE  /\ \A s \in Tokens : /\ Holds(c, s)' => Holds(c, s)
                                   /\ s # n /\ Renews(c, s)' => Renews(c, s)
              /\ TakesTurns(c)' <=> TakesTurns(c)
  <2>1. \A s \in Tokens : s = n => ~Holds(c, s)'
    <3>1. \A k \in 0..rows : k # n
      BY <1>11 DEF n, TypeOK
    <3> QED
      BY <1>1, <1>2, <1>15, <3>1 DEF Holds, TabsOf, Issued
  <2>2. \A s \in Tokens : s # n => root'[s] = root[s]
    BY DEF n
  <2> QED
    BY <1>9, <1>11, <2>1, <2>2, OthersHold
<1> QED
  BY <1>3, <1>4, <1>5, <1>7, <1>8, <1>10, <1>12 DEF n

-----------------------------------------------------------------------------
(* Every step keeps the invariant. *)

\* A step that neither inserts nor revokes a row.
LEMMA CalmStep ==
    ASSUME SessionsInv, HoldInv, UNCHANGED <<rows, owner, root, left, revoked>>,
           mishap \subseteq mishap', mishap' \subseteq Browsers, lent \subseteq lent',
           \A b \in Browsers, t \in Tokens : Holds(b, t)' => Holds(b, t),
           \A b \in Browsers \ mishap' : TakesTurns(b)',
           \A b \in Browsers \ mishap', t \in Tokens : Renews(b, t)' => Renews(b, t)
    PROVE  BrowserInv'
<1>1. ASSUME NEW b \in Browsers, NEW t \in Tokens, Clean(UserOf[b])', Renews(b, t)'
      PROVE  t \notin revoked'
  <2>1. b \notin mishap' /\ Clean(UserOf[b])
    BY <1>1 DEF Clean
  <2> QED
    BY <1>1, <2>1 DEF HoldInv, BrowserInv, Unrevoked
<1> QED
  BY <1>1, ShrinkStep DEF SessionsInv, HoldInv

\* The logins whose tokens were lent keep their owners.
LEMMA LentOwners ==
    ASSUME SessionsInv, [Step]_allVars
    PROVE  \A r \in lent : owner'[r] = owner[r]
<1>1. \A r \in lent : r \in 1..rows /\ r \in Tokens
  BY RefreshAssumption DEF SessionsInv, SessionTypes, TypeOK, Tokens
<1> QED
  BY <1>1, StepIsNext, RowsStay DEF SessionsInv

\* A step after which no other request is about to revoke all tokens of a user.
LEMMA CascadeKept ==
    ASSUME SessionsInv, CascadeInv, [Step]_allVars,
           mishap \subseteq mishap', lent \subseteq lent', begun' = begun,
           \A th \in Threads : Cascades(th)' => Cascades(th) /\ arg'[th] = arg[th]
    PROVE  CascadeInv'
<1>1. \A u \in Users : ~Clean(u) => ~Clean(u)'
  BY LentOwners, UncleanStays
<1>2. \A th \in Threads : pc[th] # "idle" =>
          owner'[arg[th]] = owner[arg[th]] /\ owner[arg[th]] \in Users
  BY StepIsNext, RowsStay, ArgRow DEF SessionsInv
<1>3. \A th \in Threads : Cascades(th) => pc[th] # "idle"
  BY DEF Cascades
<1> QED
  BY <1>1, <1>2, <1>3 DEF CascadeInv

LEMMA FinishCascades ==
    ASSUME TypeOK, NEW th \in Threads, Finish(th)
    PROVE  \A o \in Threads : Cascades(o)' => Cascades(o) /\ arg'[o] = arg[o]
BY DEF Finish, TypeOK, Cascades

LEMMA HoldSend ==
    ASSUME SessionsInv, HoldInv, [Step]_allVars, NEW x \in Tabs,
           SendLogin(x) \/ SendRefresh(x) \/ SendLogout(x)
    PROVE  HoldInv'
<1> DEFINE b == browserOf[x]
<1>1. b \in Browsers
  BY DEF SessionsInv, SessionTypes
<1>2. PICK op \in {"login", "refresh", "logout"}, t \in {0, jar, cookie[b]} :
          Send(x, op, t) /\ (Bare(x) \/ t \in {0, cookie[b]})
  BY DEF SendLogin, SendRefresh, SendLogout, Presented
<1>3. UNCHANGED <<rows, owner, root, left, revoked, pc, arg, begun>>
  BY <1>2 DEF Send, vars, tableVars, threadVars, rowHistory, userHistory
<1>4. /\ \A c \in Browsers, s \in Tokens : Holds(c, s)' => Holds(c, s)
      /\ \A c \in Browsers \ mishap' : TakesTurns(c)'
      /\ \A c \in Browsers \ mishap', s \in Tokens : Renews(c, s)' => Renews(c, s)
      /\ \A y \in Tabs : Quiet(y)'
      /\ mishap \subseteq mishap' /\ lent \subseteq lent'
  BY <1>1, <1>2, SendView
<1>5. mishap' \subseteq Browsers
  BY <1>1, <1>2 DEF Send, SessionsInv, SessionTypes
<1>6. BrowserInv'
  BY <1>3, <1>4, <1>5, CalmStep
<1>7. CascadeInv'
  BY <1>3, <1>4, CascadeKept DEF HoldInv, Cascades
<1> QED
  BY <1>4, <1>6, <1>7 DEF HoldInv, QuietInv

\* The answer arrives, or it does not.
LEMMA HoldReceive ==
    ASSUME SessionsInv, HoldInv, [Step]_allVars, NEW x \in Tabs,
           ReceiveSession(x) \/ ReceiveLogout(x) \/ LoseAnswer(x)
    PROVE  HoldInv'
<1> DEFINE b == browserOf[x]
<1>1. b \in Browsers /\ mishap \subseteq mishap' /\ mishap' \subseteq Browsers
  BY DEF SessionsInv, SessionTypes, ReceiveSession, ReceiveLogout, LoseAnswer
<1>2. /\ UNCHANGED <<rows, owner, root, left, revoked, pc, arg, begun, browserOf>>
      /\ UNCHANGED lent
  BY DEF ReceiveSession, ReceiveLogout, LoseAnswer, vars, tableVars, threadVars,
         rowHistory, userHistory
<1>3. \A c \in Browsers \ {b} : cookie'[c] = cookie[c]
  BY <1>1 DEF ReceiveSession, ReceiveLogout, LoseAnswer, browserVars, SessionsInv, SessionTypes
<1>4. \/ cookie'[b] = 0
      \/ cookie'[b] = tab[x].arg /\ ~Closed(x)
      \/ cookie'[b] = cookie[b] /\ b \in mishap'
  BY <1>1 DEF ReceiveSession, ReceiveLogout, LoseAnswer, browserVars, SessionsInv,
              SessionTypes, Closed
<1>5. Forget(x)
  BY DEF ReceiveSession, ReceiveLogout, LoseAnswer
<1> HIDE DEF b
<1>6. /\ \A c \in Browsers, s \in Tokens : Holds(c, s)' => Holds(c, s)
      /\ \A c \in Browsers \ mishap' : TakesTurns(c)'
      /\ \A c \in Browsers \ mishap', s \in Tokens : Renews(c, s)' => Renews(c, s)
      /\ \A y \in Tabs : Quiet(y)'
  BY <1>1, <1>2, <1>3, <1>4, <1>5, ForgetView DEF b
<1>7. BrowserInv'
  BY <1>1, <1>2, <1>6, CalmStep
<1>8. CascadeInv'
  BY <1>1, <1>2, CascadeKept DEF HoldInv, Cascades
<1> QED
  BY <1>6, <1>7, <1>8 DEF HoldInv, QuietInv

\* The answer passes the gateway, or a logout is answered that had no token.
LEMMA HoldRelay ==
    ASSUME SessionsInv, HoldInv, [Step]_allVars, NEW x \in Tabs,
           Relay(x) \/ LogoutWithoutCookie(x)
    PROVE  HoldInv'
<1>1. PICK b \in Browsers : b = browserOf[x]
  BY DEF SessionsInv, SessionTypes
<1>2. /\ UNCHANGED <<rows, owner, root, left, revoked, pc, arg, begun>>
      /\ UNCHANGED <<browserOf, cookie, lent, mishap>>
  BY DEF Relay, LogoutWithoutCookie, vars, tableVars, threadVars, rowHistory,
         userHistory, browserVars
<1>3. PICK p \in {"served", "answered", "relayed"} :
          /\ Reply(x, p)
          /\ tab[x].at \in {"sent", "served"} \/ (p = "relayed" /\ tab[x].at = "answered")
  BY DEF Relay, LogoutWithoutCookie, Reply
<1>4. /\ \A c \in Browsers, s \in Tokens : Holds(c, s)' => Holds(c, s)
      /\ \A c \in Browsers \ mishap' : TakesTurns(c)'
      /\ \A c \in Browsers, s \in Tokens : Renews(c, s)' => Renews(c, s)
      /\ \A y \in Tabs : Quiet(y)'
  BY <1>1, <1>2, <1>3, ReplyView
<1>5. BrowserInv'
  BY <1>2, <1>4, CalmStep DEF SessionsInv, SessionTypes
<1>6. CascadeInv'
  BY <1>2, CascadeKept DEF HoldInv, Cascades
<1> QED
  BY <1>4, <1>5, <1>6 DEF HoldInv, QuietInv

LEMMA HoldDrop ==
    ASSUME SessionsInv, HoldInv, [Step]_allVars, NEW b \in Browsers, DropCookie(b)
    PROVE  HoldInv'
<1>1. /\ UNCHANGED <<rows, owner, root, left, revoked, pc, arg, begun>>
      /\ UNCHANGED <<browserOf, tab, mishap, lent>>
  BY DEF DropCookie, vars, tableVars, threadVars, rowHistory, userHistory
<1>2. \A c \in Browsers : cookie'[c] = 0 \/ cookie'[c] = cookie[c]
  BY DEF DropCookie, SessionsInv, SessionTypes
<1>3. \A s \in Tokens : (Private(s)' <=> Private(s)) /\ (Private(s) => s # 0)
  BY <1>1 DEF Private
<1>4. \A c \in Browsers, s \in Tokens : Holds(c, s)' => Holds(c, s)
  BY <1>1, <1>2, <1>3 DEF Holds, TabsOf
<1>5. \A c \in Browsers, s \in Tokens : Renews(c, s)' => Renews(c, s)
  BY <1>1, <1>2, <1>3 DEF Renews, Answering, Closed, TabsOf
<1>6. \A c \in Browsers \ mishap' : TakesTurns(c)'
  BY <1>1 DEF TakesTurns, TabsOf, HoldInv, BrowserInv
<1>7. BrowserInv'
  BY <1>1, <1>4, <1>5, <1>6, CalmStep DEF SessionsInv, SessionTypes
<1>8. CascadeInv'
  BY <1>1, CascadeKept DEF HoldInv, Cascades
<1> QED
  BY <1>1, <1>7, <1>8 DEF HoldInv, QuietInv, Quiet

\* A step that no browser sees.
LEMMA BrowserSame ==
    ASSUME HoldInv, UNCHANGED <<rows, owner, root, revoked>>,
           UNCHANGED <<left, browserOf, cookie, tab, mishap, lent>>
    PROVE  BrowserInv' /\ QuietInv' /\ \A u \in Users : Clean(u)' <=> Clean(u)
<1>1. \A b \in Browsers, t \in Tokens :
          (Holds(b, t)' <=> Holds(b, t)) /\ (Renews(b, t)' <=> Renews(b, t))
  BY DEF Holds, Renews, Private, Answering, Closed, TabsOf
<1>2. \A b \in Browsers : TakesTurns(b)' <=> TakesTurns(b)
  BY DEF TakesTurns, TabsOf
<1>3. \A r : LiveOf(r)' = LiveOf(r)
  BY DEF LiveOf, Live, Row
<1>4. BrowserInv'
  BY <1>1, <1>2, <1>3
  DEF HoldInv, BrowserInv, Owns, Apart, LeftAlone, Latest, LeftIsDead, Unrevoked, Clean
<1> QED
  BY <1>4 DEF HoldInv, QuietInv, Quiet, Clean

LEMMA HoldSame ==
    ASSUME SessionsInv, HoldInv, UNCHANGED <<rows, owner, root, revoked, pc, arg, begun>>,
           UNCHANGED <<left, browserOf, cookie, tab, mishap, lent>>
    PROVE  HoldInv'
<1>1. BrowserInv' /\ QuietInv' /\ \A u \in Users : Clean(u)' <=> Clean(u)
  BY BrowserSame
<1>2. CascadeInv'
  BY DEF HoldInv, CascadeInv, Cascades, Clean
<1> QED
  BY <1>1, <1>2 DEF HoldInv

\* The revocation begins.
LEMMA HoldSweep ==
    ASSUME SessionsInv, HoldInv, NEW th \in Threads, StartSweep(th)
    PROVE  HoldInv'
<1>1. /\ UNCHANGED <<rows, owner, root, revoked, arg>>
      /\ UNCHANGED <<left, browserOf, cookie, tab, mishap, lent>>
  BY DEF StartSweep, Sweep, tableVars, rowHistory, sessionVars, browserVars
<1>2. BrowserInv' /\ QuietInv' /\ \A u \in Users : Clean(u)' <=> Clean(u)
  BY <1>1, BrowserSame
<1>3. PICK u \in Users : u = owner[arg[th]] /\ ~Clean(u)
  BY ArgRow DEF StartSweep, Sweep, HoldInv, CascadeInv, Cascades, SessionsInv
<1>4. \A v \in Users : v # u => begun'[v] = begun[v]
  BY <1>3 DEF StartSweep, Sweep, SessionsInv, TypeOK
<1>5. \A o \in Threads : Cascades(o)' => Cascades(o)
  BY DEF StartSweep, Sweep, SessionsInv, TypeOK, Cascades
<1>6. \A o \in Threads : Cascades(o) => owner[arg[o]] \in Users
  BY ArgRow DEF SessionsInv, Cascades
<1>7. CascadeInv'
  BY <1>1, <1>2, <1>3, <1>4, <1>5, <1>6 DEF HoldInv, CascadeInv
<1> QED
  BY <1>2, <1>7 DEF HoldInv

\* A request that reads the row of its token.
LEMMA HoldRead ==
    ASSUME SessionsInv, HoldInv, [Step]_allVars, NEW th \in Threads, NEW x \in Tabs,
           NEW p \in {"rotate", "cascade", "logout"}, NEW b \in Browsers, b = browserOf[x],
           tab[x].at = "sent", Read(th, tab[x].arg, p), Reply(x, "served"),
           UNCHANGED <<browserOf, cookie, left, lent>>,
           mishap' \in {mishap, mishap \cup {b}},
           p = "cascade" => tab[x].arg \in revoked \/ b \in mishap'
    PROVE  HoldInv'
<1>0. PICK t : t = tab[x].arg
  OBVIOUS
<1>1. /\ UNCHANGED <<rows, owner, root, revoked, begun>>
      /\ mishap \subseteq mishap' /\ mishap' \subseteq Browsers
  BY DEF Read, tableVars, rowHistory, userHistory, SessionsInv, SessionTypes
<1>2. /\ \A c \in Browsers, s \in Tokens : Holds(c, s)' => Holds(c, s)
      /\ \A c \in Browsers \ mishap' : TakesTurns(c)'
      /\ \A c \in Browsers, s \in Tokens : Renews(c, s)' => Renews(c, s)
      /\ \A y \in Tabs : Quiet(y)'
  BY <1>1, ReplyView
<1>3. BrowserInv'
  BY <1>1, <1>2, CalmStep
<1>4. t \in Tokens /\ t # 0 /\ Row(t)
  <2>1. t \in 1..rows
    BY <1>0 DEF Read, Row
  <2> QED
    BY <2>1, RefreshAssumption DEF SessionsInv, TypeOK, Tokens, Row
<1>5. root[t] \notin lent => Renews(b, t) /\ owner[t] = UserOf[b]
  <2>1. x \in TabsOf(b) /\ ~Closed(x)
    BY DEF TabsOf, Closed
  <2>2. root[t] \notin lent => Renews(b, t)
    BY <1>0, <1>4, <2>1 DEF Renews, Private
  <2> QED
    BY <1>4, <2>2, RenewsHolds DEF HoldInv, BrowserInv, Owns
<1>6. p = "cascade" => ~Clean(owner[t])'
  <2>1. CASE root[t] \in lent
    <3>1. owner[root[t]] = owner[t]
      BY <1>4 DEF SessionsInv, Rooted
    <3> QED
      BY <1>1, <2>1, <3>1 DEF Clean
  <2>2. CASE root[t] \notin lent
    <3>1. p = "cascade" /\ b \notin mishap' => ~Clean(UserOf[b])
      BY <1>0, <1>4, <1>5, <2>2 DEF HoldInv, BrowserInv, Unrevoked
    <3> QED
      BY <1>1, <1>5, <2>2, <3>1 DEF Clean
  <2> QED
    BY <2>1, <2>2
<1>7. /\ pc'[th] = p /\ arg'[th] = t
      /\ \A o \in Threads \ {th} : pc'[o] = pc[o] /\ arg'[o] = arg[o]
  BY <1>0 DEF Read, SessionsInv, TypeOK
<1>8. \A u \in Users : ~Clean(u) => ~Clean(u)'
  BY <1>1, UncleanStays
<1>9. \A o \in Threads : Cascades(o) => owner[arg[o]] \in Users
  BY ArgRow DEF SessionsInv, Cascades
<1>10. CascadeInv'
  BY <1>1, <1>6, <1>7, <1>8, <1>9 DEF CascadeInv, Cascades, HoldInv
<1> QED
  BY <1>2, <1>3, <1>10 DEF HoldInv, QuietInv

LEMMA HoldLogin ==
    ASSUME SessionsInv, HoldInv, [Step]_allVars, NEW th \in Threads, NEW x \in Tabs,
           ServeLogin(th, x)
    PROVE  HoldInv'
<1>1. PICK b \in Browsers : b = browserOf[x]
  BY DEF SessionsInv, SessionTypes
<1>2. /\ tab[x].at \in {"sent", "served"} /\ Grant(x)
      /\ UNCHANGED <<browserOf, cookie, left, mishap, lent, revoked, pc, arg, begun>>
      /\ Insert(UserOf[b], rows + 1, begun[UserOf[b]])
  BY <1>1 DEF ServeLogin, Login, browserVars, threadVars, userHistory
<1>3. \A s \in Tokens \ {rows + 1} : root'[s] = root[s]
  BY <1>2 DEF Insert, SessionsInv, TypeOK
<1>4. /\ \A c \in Browsers \ {b}, s \in Tokens : Holds(c, s)' => Holds(c, s)
      /\ \A s \in Tokens : Holds(b, s)' => Holds(b, s) \/ s = rows + 1
      /\ \A c \in Browsers \ mishap : TakesTurns(c)'
      /\ \A c \in Browsers, s \in Tokens \ {rows + 1} : Renews(c, s)' => Renews(c, s)
      /\ b \notin mishap => \A s \in Tokens : Renews(b, s)' => s = rows + 1
      /\ \A y \in Tabs : Quiet(y)'
  BY <1>1, <1>2, <1>3, GrantView
<1>5. rows + 1 \in 0..(rows + 1)
  BY DEF SessionsInv, TypeOK
<1>6. BrowserInv'
  BY <1>2, <1>4, <1>5, GrantStep DEF SessionsInv, HoldInv
<1>7. CascadeInv'
  BY <1>2, CascadeKept DEF HoldInv, Cascades
<1> QED
  BY <1>4, <1>6, <1>7 DEF HoldInv, QuietInv

\* The tab that a busy thread works for, its browser, and the token it sent: one that
\* its browser renews with, unless it was lent.
LEMMA Served ==
    ASSUME SessionsInv, HoldInv, NEW th \in Threads, pc[th] # "idle"
    PROVE  \E x \in Tabs, b \in Browsers, t \in Tokens :
               /\ x = serving[th] /\ b = browserOf[x] /\ tab[x].at = "served"
               /\ t = arg[th] /\ t = tab[x].arg /\ Row(t)
               /\ pc[th] = "logout" => tab[x].op = "logout"
               /\ root[t] \notin lent => Renews(b, t) /\ owner[t] = UserOf[b]
<1>1. PICK x \in Tabs, b \in Browsers, t \in Tokens :
          /\ x = serving[th] /\ b = browserOf[x] /\ tab[x].at = "served"
          /\ t = arg[th] /\ t = tab[x].arg /\ Row(t)
          /\ pc[th] = "logout" => tab[x].op = "logout"
  BY ArgRow DEF SessionsInv, SessionTypes, Assigned, Serves
<1>2. root[t] \notin lent => Renews(b, t)
  BY <1>1 DEF Renews, Private, TabsOf, Tokens, Closed
<1>3. root[t] \notin lent => owner[t] = UserOf[b]
  BY <1>2, RenewsHolds DEF HoldInv, BrowserInv, Owns
<1> QED
  BY <1>1, <1>2, <1>3

\* The answer of a thread to the tab it serves.
LEMMA HoldRotate ==
    ASSUME SessionsInv, HoldInv, [Step]_allVars, NEW th \in Threads, FinishRotate(th)
    PROVE  HoldInv'
<1>1. pc[th] # "idle" /\ Rotate(th) /\ Grant(serving[th])
  BY DEF FinishRotate, Rotate
<1>2. PICK x \in Tabs, b \in Browsers, t \in Tokens :
          /\ x = serving[th] /\ b = browserOf[x] /\ tab[x].at = "served"
          /\ t = arg[th] /\ Row(t)
          /\ root[t] \notin lent => Renews(b, t) /\ owner[t] = UserOf[b]
  BY <1>1, Served
<1>3. UNCHANGED <<browserOf, cookie, left, mishap, lent, begun>>
  BY DEF FinishRotate, Rotate, browserVars, userHistory
<1>4. PICK u : u = owner[t] /\ (root[t] \notin lent => u = UserOf[b])
  BY <1>2
<1>5. /\ Insert(u, root[t], stamp[th])
      /\ revoked' = revoked \cup {t} /\ Finish(th)
  BY <1>1, <1>2, <1>4 DEF Rotate
<1>6. \A s \in Tokens \ {rows + 1} : root'[s] = root[s]
  BY <1>5 DEF Insert, SessionsInv, TypeOK
<1>7. /\ \A c \in Browsers \ {b}, s \in Tokens : Holds(c, s)' => Holds(c, s)
      /\ \A s \in Tokens : Holds(b, s)' => Holds(b, s) \/ s = rows + 1
      /\ \A c \in Browsers \ mishap : TakesTurns(c)'
      /\ \A c \in Browsers, s \in Tokens \ {rows + 1} : Renews(c, s)' => Renews(c, s)
      /\ b \notin mishap => \A s \in Tokens : Renews(b, s)' => s = rows + 1
      /\ \A y \in Tabs : Quiet(y)'
  BY <1>1, <1>2, <1>3, <1>6, GrantView
<1>8. root[t] \in 0..(rows + 1)
  BY DEF SessionsInv, TypeOK
<1>9. BrowserInv'
  BY <1>2, <1>3, <1>4, <1>5, <1>7, <1>8, GrantStep DEF SessionsInv, HoldInv
<1>10. CascadeInv'
  BY <1>3, <1>5, FinishCascades, CascadeKept DEF HoldInv, SessionsInv
<1> QED
  BY <1>7, <1>9, <1>10 DEF HoldInv, QuietInv

LEMMA HoldCascade ==
    ASSUME SessionsInv, HoldInv, [Step]_allVars, NEW th \in Threads, FinishCascade(th)
    PROVE  HoldInv'
<1>1. pc[th] = "swept" /\ RevokeAll(th) /\ Forget(serving[th]) /\ Finish(th)
  BY DEF FinishCascade, RevokeAll
<1>2. PICK x \in Tabs, b \in Browsers, t \in Tokens :
          /\ x = serving[th] /\ b = browserOf[x] /\ tab[x].at = "served" /\ t = arg[th]
  BY <1>1, Served
<1>3. /\ UNCHANGED <<rows, owner, root, begun>>
      /\ UNCHANGED <<browserOf, cookie, left, mishap, lent>>
  BY DEF FinishCascade, RevokeAll, browserVars, rowHistory
<1>4. PICK u : u = owner[t] /\ ~Clean(u)
  BY <1>1, <1>2 DEF HoldInv, CascadeInv, Cascades
<1>5. revoked' = revoked \cup {s \in 1..seen[th] : owner[s] = u}
  BY <1>1, <1>2, <1>4 DEF RevokeAll
<1>6. /\ \A c \in Browsers, s \in Tokens : Holds(c, s)' => Holds(c, s)
      /\ \A c \in Browsers \ mishap' : TakesTurns(c)'
      /\ \A c \in Browsers \ mishap', s \in Tokens : Renews(c, s)' => Renews(c, s)
      /\ \A y \in Tabs : Quiet(y)'
  BY <1>1, <1>2, <1>3, ForgetView
<1>7. ASSUME NEW c \in Browsers, NEW s \in Tokens, Clean(UserOf[c])', Renews(c, s)'
      PROVE  s \notin revoked'
  <2>1. c \notin mishap' /\ Clean(UserOf[c]) /\ UserOf[c] # u
    BY <1>3, <1>4, <1>7 DEF Clean
  <2>2. Renews(c, s)
    BY <1>6, <1>7, <2>1
  <2>3. s \notin revoked /\ owner[s] = UserOf[c]
    BY <2>1, <2>2, RenewsHolds DEF HoldInv, BrowserInv, Unrevoked, Owns
  <2> QED
    BY <1>5, <2>1, <2>3
<1>8. BrowserInv'
  BY <1>3, <1>5, <1>6, <1>7, ShrinkStep DEF SessionsInv, SessionTypes, HoldInv
<1>9. CascadeInv'
  BY <1>1, <1>3, FinishCascades, CascadeKept DEF HoldInv, SessionsInv
<1> QED
  BY <1>6, <1>8, <1>9 DEF HoldInv, QuietInv

LEMMA HoldFail ==
    ASSUME SessionsInv, HoldInv, [Step]_allVars, NEW th \in Threads, Fail(th)
    PROVE  HoldInv'
<1>1. pc[th] # "idle" /\ Forget(serving[th]) /\ Finish(th)
  BY DEF Fail, Abort
<1>2. PICK x \in Tabs, b \in Browsers :
          x = serving[th] /\ b = browserOf[x] /\ tab[x].at = "served"
  BY <1>1, Served
<1>3. /\ UNCHANGED <<rows, owner, root, revoked, begun>>
      /\ UNCHANGED <<browserOf, cookie, left, mishap, lent>>
  BY DEF Fail, Abort, browserVars, rowHistory, tableVars, userHistory
<1>4. /\ \A c \in Browsers, s \in Tokens : Holds(c, s)' => Holds(c, s)
      /\ \A c \in Browsers \ mishap' : TakesTurns(c)'
      /\ \A c \in Browsers \ mishap', s \in Tokens : Renews(c, s)' => Renews(c, s)
      /\ \A y \in Tabs : Quiet(y)'
  BY <1>1, <1>2, <1>3, ForgetView
<1>5. BrowserInv'
  BY <1>3, <1>4, CalmStep DEF SessionsInv, SessionTypes
<1>6. CascadeInv'
  BY <1>1, <1>3, FinishCascades, CascadeKept DEF HoldInv, SessionsInv
<1> QED
  BY <1>4, <1>5, <1>6 DEF HoldInv, QuietInv

LEMMA HoldLogout ==
    ASSUME SessionsInv, HoldInv, [Step]_allVars, NEW th \in Threads, FinishLogout(th)
    PROVE  HoldInv'
<1>1. pc[th] = "logout" /\ Reply(serving[th], "answered") /\ Finish(th)
  BY DEF FinishLogout, Logout
<1>2. PICK x \in Tabs, b \in Browsers, t \in Tokens :
          /\ x = serving[th] /\ b = browserOf[x] /\ tab[x].at = "served"
          /\ t = arg[th] /\ tab[x].op = "logout"
          /\ root[t] \notin lent => Renews(b, t)
  BY <1>1, Served
<1>3. /\ UNCHANGED <<rows, owner, root, begun>>
      /\ UNCHANGED <<browserOf, cookie, mishap, lent>>
      /\ revoked' = revoked \cup {t}
      /\ left' = [left EXCEPT ![b] = @ \cup {root[t]}]
  BY <1>2 DEF FinishLogout, Logout, browserVars, rowHistory, userHistory
<1>4. Closed(x)'
  BY <1>1, <1>2 DEF Reply, Closed, SessionsInv, SessionTypes, Requests
<1>5. /\ \A c \in Browsers, s \in Tokens : Holds(c, s)' => Holds(c, s)
      /\ \A c \in Browsers \ mishap' : TakesTurns(c)'
      /\ \A c \in Browsers, s \in Tokens : Renews(c, s)' => Renews(c, s)
      /\ \A y \in Tabs : Quiet(y)'
      /\ b \notin mishap => \A s \in Tokens : ~Renews(b, s)'
  BY <1>1, <1>2, <1>3, <1>4, ReplyView
<1>6. BrowserInv'
  BY <1>2, <1>3, <1>5, LeaveStep DEF SessionsInv, HoldInv
<1>7. CascadeInv'
  BY <1>1, <1>3, FinishCascades, CascadeKept DEF HoldInv, SessionsInv
<1> QED
  BY <1>5, <1>6, <1>7 DEF HoldInv, QuietInv

LEMMA HoldStep == SessionsInv /\ HoldInv /\ [Step]_allVars => HoldInv'
<1> SUFFICES ASSUME SessionsInv, HoldInv, [Step]_allVars PROVE HoldInv'
  OBVIOUS
<1>1. CASE Tick \/ EmptyJar
  BY <1>1, HoldSame
  DEF Tick, EmptyJar, vars, tableVars, threadVars, rowHistory, userHistory, browserVars
<1>2. ASSUME NEW x \in Tabs, Browse(x) \/ LogoutWithoutCookie(x) PROVE HoldInv'
  BY <1>2, HoldSend, HoldReceive, HoldRelay DEF Browse
<1>3. ASSUME NEW th \in Threads, NEW x \in Tabs, StartRefresh(th, x) PROVE HoldInv'
  <2>1. PICK b \in Browsers : b = browserOf[x]
    BY DEF SessionsInv, SessionTypes
  <2>2. /\ tab[x].at = "sent" /\ Reply(x, "served")
        /\ UNCHANGED <<browserOf, cookie, left, lent>>
    BY <1>3 DEF StartRefresh, browserVars
  <2>3. mishap' = IF tab[x].arg \in expired THEN mishap \cup {b} ELSE mishap
    BY <1>3, <2>1 DEF StartRefresh
  <2>4. CASE PresentUsable(th, tab[x].arg)
    BY <2>1, <2>2, <2>3, <2>4, HoldRead DEF PresentUsable
  <2>5. CASE PresentUnusable(th, tab[x].arg)
    BY <2>1, <2>2, <2>3, <2>5, HoldRead DEF PresentUnusable, Usable
  <2> QED
    BY <1>3, <2>4, <2>5 DEF StartRefresh
<1>4. ASSUME NEW th \in Threads, NEW x \in Tabs, StartLogout(th, x) PROVE HoldInv'
  <2>1. PICK b \in Browsers : b = browserOf[x]
    BY DEF SessionsInv, SessionTypes
  <2> QED
    BY <1>4, <2>1, HoldRead DEF StartLogout, PresentLogout, browserVars
<1>5. CASE UNCHANGED allVars
  BY <1>5, HoldSame
  DEF allVars, sessionVars, vars, tableVars, threadVars, rowHistory, userHistory,
      browserVars
<1>6. ASSUME NEW t \in Tokens, ExpireRow(t) PROVE HoldInv'
  BY <1>6, HoldSame
  DEF ExpireRow, Expire, sessionVars, threadVars, rowHistory, userHistory, browserVars
<1> QED
  BY <1>1, <1>2, <1>3, <1>4, <1>5, <1>6, HoldDrop, HoldLogin, HoldRotate, HoldSweep,
     HoldCascade, HoldLogout, HoldFail DEF Step

LEMMA HoldAlways == SessionsSpec => [](SessionsInv /\ HoldInv)
BY SessionsStart, SessionsKept, HoldStart, HoldStep, PTL DEF SessionsSpec

\* For any number of browsers, tabs and requests served at the same time: a
\* revocation of all tokens of a user begins only after an answer to a browser of
\* that user was lost, a token expired on its way, two of its tabs asked at once,
\* or the gateway sent a token of that user along with a request that had none.
THEOREM CascadesNeedMishap == SessionsSpec => []CascadeNeedsMishap
<1>1. HoldInv => CascadeNeedsMishap
  BY DEF HoldInv, CascadeInv, Clean, CascadeNeedsMishap
<1> QED
  BY <1>1, HoldAlways, PTL

\* In a browser without such a mishap a logout leaves no live token of the session,
\* however often it was renewed, and none appears later, unless a token of the
\* session was sent along with a request that had none.
THEOREM LogoutsAreFinal == SessionsSpec => []LogoutIsFinal
<1>1. HoldInv => LogoutIsFinal
  BY DEF HoldInv, BrowserInv, LeftIsDead, LogoutIsFinal
<1> QED
  BY <1>1, HoldAlways, PTL

\* The token a browser without a mishap renews with is the only live one of its
\* session, whatever the other requests do, as long as no token of the session was
\* sent along with a request that had none (Renews is about those sessions only):
\* the race of two refreshes needs a mishap.
THEOREM OneTokenPerBrowser == SessionsSpec => [](\A b \in Browsers \ mishap : Latest(b))
<1>1. HoldInv => \A b \in Browsers \ mishap : Latest(b)
  BY DEF HoldInv, BrowserInv
<1> QED
  BY <1>1, HoldAlways, PTL

\* The tokens of tabs of two browsers are of two sessions, or of one that was lent.
TabsApart ==
    \A x, y \in Tabs :
        LET s == tab[x].arg
            t == tab[y].arg
        IN  browserOf[x] # browserOf[y] /\ s # 0 /\ t # 0 /\ root[s] = root[t]
            => root[s] \in lent

LEMMA ApartTabs == SessionsInv /\ HoldInv => TabsApart
<1> SUFFICES ASSUME SessionsInv, HoldInv, NEW x \in Tabs, NEW y \in Tabs,
                    NEW s, s = tab[x].arg, NEW t, t = tab[y].arg,
                    browserOf[x] # browserOf[y], s # 0, t # 0, root[s] = root[t],
                    root[s] \notin lent
             PROVE  FALSE
  BY DEF TabsApart
<1>1. s \in Tokens /\ t \in Tokens /\ browserOf[x] \in Browsers /\ browserOf[y] \in Browsers
  BY DEF SessionsInv, SessionTypes, Requests
<1>2. Holds(browserOf[x], s) /\ Holds(browserOf[y], t)
  BY DEF Holds, Private, TabsOf
<1> QED
  BY <1>1, <1>2 DEF HoldInv, BrowserInv, Apart

\* Two browsers come to have tokens of one session in one way only: the gateway
\* sent a token of it along with a request that had none.
THEOREM SessionsStayApart == SessionsSpec => []TabsApart
BY ApartTabs, HoldAlways, PTL

\* Browsers do not break what the service keeps by itself: with requests served
\* one at a time the sessions keep their ledger, and in any case every theorem
\* about the table holds under them.
THEOREM BrowsersKeepLedger ==
    ASSUME Sequential PROVE SessionsSpec => KeepsLedger
BY SessionsRefine, SequentialLedger, PTL

=============================================================================
