------------------------ MODULE RefreshTokensProofs ------------------------
(***************************************************************************)
(* Theorems about RefreshTokens, for any numbers of users, tokens and      *)
(* concurrent requests.                                                    *)
(***************************************************************************)
EXTENDS RefreshTokens, FiniteSetTheorems, TLAPS

LEMMA InsertType ==
    ASSUME TypeOK, NEW u \in Users, NEW r \in 0..(rows + 1),
           NEW e \in 0..MaxCascades, Insert(u, r, e)
    PROVE  /\ rows + 1 \in Tokens
           /\ rows' \in 0..MaxTokens
           /\ owner' \in [Tokens -> Users \cup {NoUser}]
           /\ \A t \in Tokens : t \in 1..rows' => owner'[t] \in Users
           /\ root' \in [Tokens -> 0..rows']
           /\ vouched' \in [Tokens -> 0..MaxCascades]
           /\ born' \in [Tokens -> 0..MaxCascades]
<1> USE RefreshAssumption DEF TypeOK, Insert
<1>1. rows + 1 \in Tokens /\ rows' \in 0..MaxTokens
  BY DEF Tokens
<1>2. owner' \in [Tokens -> Users \cup {NoUser}]
  BY <1>1
<1>3. \A t \in Tokens : t \in 1..rows' => owner'[t] \in Users
  BY <1>1 DEF Tokens, Row
<1>4. 0..rows \subseteq 0..rows' /\ r \in 0..rows'
  OBVIOUS
<1>5. root' \in [Tokens -> 0..rows']
  BY <1>1, <1>4
<1>6. vouched' \in [Tokens -> 0..MaxCascades]
  BY <1>1
<1>7. begun[u] \in 0..MaxCascades
  OBVIOUS
<1>8. born' \in [Tokens -> 0..MaxCascades]
  BY <1>1, <1>7
<1> QED
  BY <1>1, <1>2, <1>3, <1>5, <1>6, <1>8

LEMMA FinishType ==
    ASSUME TypeOK, NEW th \in Threads, Finish(th), rows' \in Nat, rows' >= rows
    PROVE  /\ pc' \in [Threads -> {"idle", "rotate", "cascade", "swept", "logout"}]
           /\ arg' \in [Threads -> 0..rows']
           /\ \A x \in Threads : pc'[x] # "idle" => arg'[x] # 0
           /\ seen' \in [Threads -> 0..rows']
           /\ stamp' \in [Threads -> 0..MaxCascades]
BY RefreshAssumption DEF TypeOK, Finish

LEMMA ReadType ==
    ASSUME TypeOK, NEW th \in Threads, NEW t \in Tokens,
           NEW next \in {"rotate", "cascade", "logout"}, Read(th, t, next)
    PROVE  TypeOK'
<1>1. t \in 0..rows /\ t # 0
  BY DEF Read, Row, TypeOK
<1>2. owner[t] \in Users
  BY DEF Read, TypeOK
<1>3. begun[owner[t]] \in 0..MaxCascades
  BY <1>2 DEF TypeOK
<1>4. /\ pc' \in [Threads -> {"idle", "rotate", "cascade", "swept", "logout"}]
      /\ arg' \in [Threads -> 0..rows]
      /\ \A x \in Threads : pc'[x] # "idle" => arg'[x] # 0
  BY <1>1 DEF TypeOK, Read
<1>5. stamp' \in [Threads -> 0..MaxCascades]
  BY <1>3 DEF TypeOK, Read
<1> QED
  BY <1>4, <1>5 DEF TypeOK, Read, Row, tableVars, rowHistory, userHistory

\* The row a request is about to write exists and has an owner.
LEMMA ArgRow ==
    ASSUME TypeOK, NEW th \in Threads, pc[th] # "idle"
    PROVE  /\ arg[th] \in Tokens
           /\ Row(arg[th])
           /\ owner[arg[th]] \in Users
<1>1. rows \in Nat /\ rows <= MaxTokens /\ arg[th] \in 0..rows /\ arg[th] # 0
  BY RefreshAssumption DEF TypeOK
<1>2. arg[th] \in Tokens /\ Row(arg[th])
  BY <1>1, RefreshAssumption DEF Tokens, Row
<1> QED
  BY <1>2 DEF TypeOK

LEMMA TypeStep ==
    ASSUME TypeOK, [Next]_vars
    PROVE  TypeOK'
<1>1. ASSUME NEW th \in Threads, NEW u \in Users, Login(th, u) PROVE TypeOK'
  <2>1. rows + 1 \in 0..(rows + 1) /\ begun[u] \in 0..MaxCascades
    BY DEF TypeOK
  <2>2. Insert(u, rows + 1, begun[u])
    BY <1>1 DEF Login
  <2>3. rows' = rows + 1 /\ 0..rows \subseteq 0..rows'
    BY <2>2 DEF Insert, TypeOK
  <2>4. UNCHANGED <<revoked, expired, pc, arg, seen, stamp, begun, epoch>>
    BY <1>1 DEF Login, threadVars, userHistory
  <2>5. arg' \in [Threads -> 0..rows'] /\ seen' \in [Threads -> 0..rows']
    BY <2>3, <2>4 DEF TypeOK
  <2> QED
    BY <2>1, <2>2, <2>4, <2>5, InsertType DEF TypeOK, Row
<1>2. CASE \E t \in Tokens : Expire(t)
  BY <1>2 DEF Expire, TypeOK, threadVars, rowHistory, userHistory, Row
<1>3. ASSUME NEW th \in Threads, Rotate(th) PROVE TypeOK'
  <2>1. arg[th] \in Tokens /\ owner[arg[th]] \in Users
    BY <1>3, ArgRow DEF Rotate
  <2>2. root[arg[th]] \in 0..(rows + 1) /\ stamp[th] \in 0..MaxCascades
    BY <2>1 DEF TypeOK
  <2>3. Insert(owner[arg[th]], root[arg[th]], stamp[th])
    BY <1>3 DEF Rotate
  <2>4. rows' = rows + 1 /\ rows' \in Nat /\ rows' >= rows
    BY <2>3 DEF Insert, TypeOK
  <2>5. Finish(th)
    BY <1>3 DEF Rotate
  <2> HIDE DEF Insert, Finish
  <2> QED
    BY <1>3, <2>1, <2>2, <2>3, <2>4, <2>5, InsertType, FinishType
    DEF Rotate, TypeOK, userHistory, Row
<1>4. ASSUME NEW th \in Threads, RevokeAll(th) PROVE TypeOK'
  <2>1. owner[arg[th]] \in Users /\ 1..seen[th] \subseteq Tokens
    BY <1>4, ArgRow, RefreshAssumption DEF RevokeAll, TypeOK, Tokens
  <2>2. rows' = rows /\ Finish(th) /\ rows' \in Nat
    BY <1>4 DEF RevokeAll, TypeOK
  <2>3. epoch' \in [Users -> 0..MaxCascades]
    BY <1>4, <2>1 DEF RevokeAll, Record, TypeOK
  <2>4. revoked' \subseteq Tokens
    BY <1>4, <2>1 DEF RevokeAll, TypeOK
  <2> QED
    BY <1>4, <2>2, <2>3, <2>4, FinishType DEF RevokeAll, TypeOK, rowHistory, Row
<1>5. ASSUME NEW th \in Threads, Logout(th) PROVE TypeOK'
  <2>1. arg[th] \in Tokens
    BY <1>5, ArgRow DEF Logout
  <2>2. rows' = rows /\ Finish(th) /\ rows' \in Nat
    BY <1>5 DEF Logout, TypeOK
  <2> QED
    BY <1>5, <2>1, <2>2, FinishType DEF Logout, TypeOK, rowHistory, userHistory, Row
<1>6. ASSUME NEW th \in Threads, Abort(th) PROVE TypeOK'
  <2>1. rows' = rows /\ Finish(th) /\ rows' \in Nat
    BY <1>6 DEF Abort, TypeOK, tableVars
  <2> QED
    BY <1>6, <2>1, FinishType DEF Abort, TypeOK, tableVars, rowHistory, userHistory, Row
<1>7. ASSUME NEW th \in Threads, NEW t \in Tokens,
             PresentUsable(th, t) \/ PresentUnusable(th, t) \/ PresentLogout(th, t)
      PROVE  TypeOK'
  BY <1>7, ReadType DEF PresentUsable, PresentUnusable, PresentLogout
<1>9. ASSUME NEW th \in Threads, Sweep(th) PROVE TypeOK'
  <2>1. PICK u \in Users : u = owner[arg[th]]
    BY <1>9, ArgRow DEF Sweep
  <2>2. begun[u] + 1 \in 0..MaxCascades
    BY <1>9, <2>1, RefreshAssumption DEF Sweep, TypeOK
  <2>3. begun' \in [Users -> 0..MaxCascades] /\ stamp' \in [Threads -> 0..MaxCascades]
    BY <1>9, <2>1, <2>2 DEF Sweep, TypeOK
  <2>4. seen' \in [Threads -> 0..rows] /\ arg[th] # 0
    BY <1>9 DEF Sweep, TypeOK
  <2> QED
    BY <1>9, <2>3, <2>4 DEF Sweep, TypeOK, tableVars, rowHistory, Row
<1>8. CASE UNCHANGED vars
  BY <1>8 DEF vars, tableVars, threadVars, rowHistory, userHistory, TypeOK, Row
<1> QED
  BY <1>1, <1>2, <1>3, <1>4, <1>5, <1>6, <1>7, <1>8, <1>9 DEF Next

\* The table and the requests always have their types: in particular a request
\* only ever works on a row that exists and has an owner.
THEOREM TypeCorrect == Spec => []TypeOK
<1>1. Init => TypeOK
  BY RefreshAssumption DEF Init, TypeOK, Row, Tokens
<1> QED
  BY <1>1, TypeStep, PTL DEF Spec

-----------------------------------------------------------------------------
\* A revocation that was committed had begun, and what a request saw begin had.
Stamped ==
    /\ \A u \in Users : epoch[u] <= begun[u]
    /\ \A th \in Threads : pc[th] # "idle" => stamp[th] <= begun[owner[arg[th]]]

LEMMA StampedInit == Init => Stamped
BY RefreshAssumption DEF Init, Stamped

\* A request whose step is over holds nothing; the others hold what they held.
LEMMA FinishLeaves ==
    ASSUME TypeOK, NEW th \in Threads, Finish(th)
    PROVE  /\ pc'[th] = "idle"
           /\ \A o \in Threads : o # th => /\ pc'[o] = pc[o] /\ arg'[o] = arg[o]
                                          /\ seen'[o] = seen[o] /\ stamp'[o] = stamp[o]
BY DEF TypeOK, Finish

\* Rows keep their owner; a row that is inserted has a number of its own.
LEMMA RowsStay ==
    ASSUME TypeOK, [Next]_vars
    PROVE  /\ rows \in Nat /\ rows' \in Nat /\ rows <= rows'
           /\ \A t \in Tokens : t \in 1..rows =>
                /\ owner'[t] = owner[t] /\ vouched'[t] = vouched[t] /\ born'[t] = born[t]
           /\ \A th \in Threads : pc[th] # "idle" =>
                arg[th] \in 1..rows /\ arg[th] \in Tokens /\ owner'[arg[th]] = owner[arg[th]]
           /\ revoked \subseteq revoked'
<1>1. rows \in Nat /\ rows + 1 \notin 1..rows
  BY DEF TypeOK
<1>2. ASSUME NEW u, NEW r, NEW e, Insert(u, r, e)
      PROVE  /\ rows' = rows + 1
             /\ \A t \in Tokens : t \in 1..rows =>
                  /\ owner'[t] = owner[t] /\ vouched'[t] = vouched[t] /\ born'[t] = born[t]
  BY <1>1, <1>2 DEF Insert, TypeOK
<1>3. ASSUME UNCHANGED <<rows, owner, vouched, born>>
      PROVE  /\ rows' = rows
             /\ \A t \in Tokens : t \in 1..rows =>
                  /\ owner'[t] = owner[t] /\ vouched'[t] = vouched[t] /\ born'[t] = born[t]
  BY <1>3
<1>4. /\ rows' = rows \/ rows' = rows + 1
      /\ \A t \in Tokens : t \in 1..rows =>
           /\ owner'[t] = owner[t] /\ vouched'[t] = vouched[t] /\ born'[t] = born[t]
  BY <1>2, <1>3
  DEF Next, Login, Expire, Rotate, Sweep, RevokeAll, Logout, Abort, PresentUsable,
      PresentUnusable, PresentLogout, Read, vars, tableVars, rowHistory
<1>5. revoked \subseteq revoked'
  BY DEF Next, Login, Expire, Rotate, Sweep, RevokeAll, Logout, Abort, PresentUsable,
         PresentUnusable, PresentLogout, Read, vars, tableVars
<1>6. \A th \in Threads : pc[th] # "idle" => arg[th] \in 1..rows /\ arg[th] \in Tokens
  BY ArgRow DEF Row
<1> QED
  BY <1>1, <1>4, <1>5, <1>6

LEMMA StampedStep ==
    ASSUME TypeOK, Stamped, [Next]_vars
    PROVE  Stamped'
<1>1. \A th \in Threads : pc[th] # "idle" => owner'[arg[th]] = owner[arg[th]]
  BY RowsStay
<1>2. ASSUME NEW th \in Threads, Finish(th), UNCHANGED userHistory PROVE Stamped'
  BY <1>1, <1>2, FinishLeaves DEF Stamped, userHistory
<1>3. ASSUME UNCHANGED <<threadVars, userHistory>> PROVE Stamped'
  BY <1>1, <1>3 DEF Stamped, threadVars, userHistory
<1>4. ASSUME NEW th \in Threads, RevokeAll(th) PROVE Stamped'
  <2>1. PICK u \in Users : u = owner[arg[th]]
    BY <1>4, ArgRow DEF RevokeAll
  <2>2. stamp[th] <= begun[u]
    BY <1>4, <2>1 DEF RevokeAll, Stamped
  <2>3. \A v \in Users : epoch'[v] <= begun[v]
    BY <1>4, <2>1, <2>2 DEF RevokeAll, Record, Stamped, TypeOK
  <2>4. Finish(th) /\ UNCHANGED begun
    BY <1>4 DEF RevokeAll
  <2> QED
    BY <1>1, <2>3, <2>4, FinishLeaves DEF Stamped
<1>5. ASSUME NEW th \in Threads, Sweep(th) PROVE Stamped'
  <2>1. PICK u \in Users : u = owner[arg[th]]
    BY <1>5, ArgRow DEF Sweep
  <2>2. \A v \in Users : begun[v] <= begun'[v] /\ begun[v] \in Nat /\ begun'[v] \in Nat
    BY <1>5, <2>1 DEF Sweep, TypeOK
  <2>3. /\ begun'[u] = begun[u] + 1 /\ stamp'[th] = begun[u] + 1
        /\ \A o \in Threads : o # th => pc'[o] = pc[o] /\ stamp'[o] = stamp[o]
        /\ UNCHANGED <<arg, owner, epoch>>
    BY <1>5, <2>1 DEF Sweep, TypeOK, tableVars
  <2>4. \A o \in Threads : stamp[o] \in Nat /\ (pc[o] # "idle" => owner[arg[o]] \in Users)
    BY ArgRow, RefreshAssumption DEF TypeOK
  <2>5. \A v \in Users : epoch[v] \in Nat
    BY DEF TypeOK
  <2>6. \A v \in Users : epoch'[v] <= begun'[v]
    BY <2>2, <2>3, <2>5 DEF Stamped
  <2>7. \A o \in Threads : pc'[o] # "idle" => stamp'[o] <= begun'[owner'[arg'[o]]]
    BY <2>1, <2>2, <2>3, <2>4 DEF Stamped
  <2> QED
    BY <2>6, <2>7 DEF Stamped
<1>6. ASSUME NEW th \in Threads, NEW t \in Tokens, NEW p, Read(th, t, p) PROVE Stamped'
  <2>1. /\ arg'[th] = t /\ stamp'[th] = begun[owner[t]]
        /\ \A o \in Threads : o # th => pc'[o] = pc[o] /\ arg'[o] = arg[o]
                                        /\ stamp'[o] = stamp[o]
        /\ UNCHANGED <<owner, begun, epoch>>
    BY <1>6 DEF Read, TypeOK, tableVars, userHistory
  <2>2. begun[owner[t]] <= begun[owner[t]]
    BY <1>6 DEF Read, TypeOK
  <2> QED
    BY <2>1, <2>2 DEF Stamped
<1> QED
  BY <1>2, <1>3, <1>4, <1>5, <1>6
  DEF Next, Login, Expire, Rotate, Logout, Abort, PresentUsable, PresentUnusable,
      PresentLogout, vars

\* What an UPDATE in progress does not see was inserted after it began.
SweepKnows ==
    \A th \in Threads : pc[th] = "swept" =>
        \A t \in Tokens : Row(t) /\ owner[t] = owner[arg[th]] /\ t > seen[th]
                             => born[t] >= stamp[th]

BornInv == Stamped /\ SweepKnows /\ LiveBornThisEpoch

LEMMA BornStep ==
    ASSUME TypeOK, BornInv, [Next]_vars
    PROVE  BornInv'
<1> USE DEF Row, Live
<1>1. Stamped'
  BY StampedStep DEF BornInv
\* A row inserted in this step carries the latest number there is.
<1>2. ASSUME NEW t \in Tokens, t \in 1..rows', t \notin 1..rows
      PROVE  born'[t] = begun[owner'[t]] /\ owner'[t] \in Users /\ UNCHANGED userHistory
  <2>1. ASSUME NEW u \in Users, NEW r, NEW e, Insert(u, r, e)
        PROVE  born'[t] = begun[u] /\ owner'[t] = u
    BY <1>2, <2>1 DEF Insert, TypeOK
  <2>2. rows' # rows
    BY <1>2
  <2> QED
    BY <2>1, <2>2, ArgRow
    DEF Next, Login, Expire, Rotate, Sweep, RevokeAll, Logout, Abort, PresentUsable,
        PresentUnusable, PresentLogout, Read, vars, tableVars
<1>3. \A u \in Users : begun[u] \in Nat /\ epoch[u] \in Nat
  BY DEF TypeOK
<1>4. \A th \in Threads : stamp[th] \in Nat /\ seen[th] \in 0..rows
  BY DEF TypeOK
<1>5. \A t \in Tokens : t \in Nat
  BY DEF Tokens
<1>6. SweepKnows'
  <2> SUFFICES ASSUME NEW th \in Threads, pc'[th] = "swept", NEW t \in Tokens,
                      t \in 1..rows', owner'[t] = owner'[arg'[th]], t > seen'[th]
               PROVE  born'[t] >= stamp'[th]
    BY DEF SweepKnows
  <2>1. CASE Sweep(th)
    BY <1>5, <2>1 DEF Sweep, TypeOK, tableVars
  <2>2. CASE ~Sweep(th)
    <3>1. /\ pc[th] = "swept" /\ arg'[th] = arg[th]
          /\ seen'[th] = seen[th] /\ stamp'[th] = stamp[th]
      BY <2>2, FinishLeaves
      DEF TypeOK, Next, Login, Expire, Rotate, Sweep, RevokeAll, Logout, Abort,
          PresentUsable, PresentUnusable, PresentLogout, Read, vars, threadVars
    <3>2. owner'[arg[th]] = owner[arg[th]]
      BY <3>1, RowsStay
    <3>3. CASE t \in 1..rows
      BY <3>1, <3>2, <3>3, RowsStay DEF BornInv, SweepKnows
    <3>4. CASE t \notin 1..rows
      BY <1>2, <3>1, <3>2, <3>4 DEF BornInv, Stamped
    <3> QED
      BY <3>3, <3>4
  <2> QED
    BY <2>1, <2>2
<1>7. LiveBornThisEpoch'
  <2> SUFFICES ASSUME NEW t \in Tokens, Live(t)'
               PROVE  born'[t] >= epoch'[owner'[t]]
    BY DEF LiveBornThisEpoch
  <2>1. CASE t \notin 1..rows
    BY <1>2, <1>3, <2>1 DEF BornInv, Stamped, userHistory
  <2>2. CASE t \in 1..rows
    <3>1. /\ Live(t) /\ owner'[t] = owner[t] /\ born'[t] = born[t]
          /\ owner[t] \in Users /\ born[t] >= epoch[owner[t]]
      BY <2>2, RowsStay DEF BornInv, LiveBornThisEpoch, TypeOK
    <3>2. CASE epoch'[owner[t]] = epoch[owner[t]]
      BY <3>1, <3>2
    <3>3. CASE epoch'[owner[t]] # epoch[owner[t]]
      <4>1. PICK th \in Threads : RevokeAll(th)
        BY <3>3
        DEF Next, Login, Expire, Rotate, Sweep, Logout, Abort, PresentUsable,
            PresentUnusable, PresentLogout, Read, vars, userHistory
      <4>2. owner[t] = owner[arg[th]] /\ epoch'[owner[t]] = stamp[th]
        BY <3>1, <3>3, <4>1 DEF RevokeAll, Record, TypeOK
      <4>3. t \notin 1..seen[th]
        BY <4>1, <4>2 DEF RevokeAll
      <4>4. t > seen[th]
        BY <1>4, <1>5, <2>2, <4>3
      <4> QED
        BY <2>2, <3>1, <4>1, <4>2, <4>4 DEF RevokeAll, BornInv, SweepKnows
    <3> QED
      BY <3>2, <3>3
  <2> QED
    BY <2>1, <2>2
<1> QED
  BY <1>1, <1>6, <1>7 DEF BornInv

\* The revocation of all tokens of a user leaves no token alive that existed
\* when its UPDATE began, however many requests run at the same time and
\* whatever they commit between the UPDATE and its commit.
THEOREM CascadeIsComplete == Spec => []LiveBornThisEpoch
<1>1. Init => BornInv
  BY StampedInit DEF Init, BornInv, SweepKnows, LiveBornThisEpoch, Live, Row
<1>2. BornInv => LiveBornThisEpoch
  BY DEF BornInv
<1> QED
  BY <1>1, <1>2, BornStep, TypeCorrect, PTL DEF Spec

-----------------------------------------------------------------------------
(* Requests served one at a time. *)

Sequential == \E th \in Threads : Threads = {th}

\* What a request that has read a usable row knows when no other request can
\* have written since: the row is still live, and no revocation of all tokens
\* has happened.
ReadStillHolds ==
    \A th \in Threads : pc[th] = "rotate" =>
        Live(arg[th]) /\ stamp[th] >= epoch[owner[arg[th]]]

\* ... and an UPDATE in progress has seen every row there is.
SweepSeesAll == \A th \in Threads : pc[th] = "swept" => seen[th] = rows

RootsAreRows == \A t \in Tokens : Row(t) => root[t] \in 1..rows

SequentialInv ==
    /\ OneLivePerSession
    /\ CascadeRevokesAll
    /\ ReadStillHolds
    /\ SweepSeesAll
    /\ RootsAreRows

LEMMA SequentialInit == Init => SequentialInv
BY DEF Init, SequentialInv, OneLivePerSession, CascadeRevokesAll,
       ReadStillHolds, SweepSeesAll, RootsAreRows, Live, Row

\* A row inserted for a login or for the only live row of a session that is
\* revoked in the same transaction.
LEMMA InsertKeeps ==
    ASSUME TypeOK, SequentialInv, NEW u \in Users, NEW r \in 1..(rows + 1),
           NEW e, e >= epoch[u], Insert(u, r, e), UNCHANGED epoch, revoked \subseteq revoked',
           \A t \in Tokens : Live(t)' /\ t # rows + 1 => root[t] # r
    PROVE  OneLivePerSession' /\ CascadeRevokesAll' /\ RootsAreRows'
<1> DEFINE n == rows + 1
<1>1. n \in Tokens /\ rows' = n /\ rows \in Nat
  BY RefreshAssumption DEF Insert, TypeOK, Tokens
<1>2. \A t \in Tokens : Live(t)' /\ t # n => Live(t)
  BY <1>1 DEF Live, Row
<1>3. \A t \in Tokens : t # n => /\ root'[t] = root[t] /\ owner'[t] = owner[t]
                                /\ vouched'[t] = vouched[t]
  BY <1>1 DEF Insert, TypeOK
<1>4. root'[n] = r /\ owner'[n] = u /\ vouched'[n] = e
  BY <1>1 DEF Insert, TypeOK
<1>5. OneLivePerSession'
  <2> SUFFICES ASSUME NEW s \in Tokens, NEW t \in Tokens, Live(s)', Live(t)',
                      root'[s] = root'[t]
               PROVE  s = t
    BY DEF OneLivePerSession
  <2>1. CASE s = n \/ t = n
    BY <2>1, <1>3, <1>4
  <2>2. CASE s # n /\ t # n
    BY <2>2, <1>2, <1>3 DEF SequentialInv, OneLivePerSession
  <2> QED
    BY <2>1, <2>2
<1>6. CascadeRevokesAll'
  <2> SUFFICES ASSUME NEW t \in Tokens, Live(t)'
               PROVE  vouched'[t] >= epoch'[owner'[t]]
    BY DEF CascadeRevokesAll
  <2>1. CASE t = n
    BY <2>1, <1>4
  <2>2. CASE t # n
    BY <2>2, <1>2, <1>3 DEF SequentialInv, CascadeRevokesAll
  <2> QED
    BY <2>1, <2>2
<1>7. RootsAreRows'
  <2> SUFFICES ASSUME NEW t \in Tokens, t \in 1..rows'
               PROVE  root'[t] \in 1..rows'
    BY DEF RootsAreRows, Row
  <2>1. CASE t = n
    BY <2>1, <1>1, <1>4
  <2>2. CASE t # n
    <3>1. t \in 1..rows
      BY <2>2, <1>1
    <3>2. root[t] \in 1..rows
      BY <3>1 DEF SequentialInv, RootsAreRows, Row
    <3> QED
      BY <3>2, <2>2, <1>1, <1>3
  <2> QED
    BY <2>1, <2>2
<1> QED
  BY <1>5, <1>6, <1>7

\* A step that inserts no row and makes no token live again.
LEMMA RevokeKeeps ==
    ASSUME TypeOK, SequentialInv, UNCHANGED <<rows, owner, rowHistory>>,
           revoked \subseteq revoked',
           \A t \in Tokens : Live(t)' => epoch'[owner[t]] = epoch[owner[t]]
    PROVE  OneLivePerSession' /\ CascadeRevokesAll' /\ RootsAreRows'
<1>1. \A t \in Tokens : Live(t)' => Live(t)
  BY DEF Live, Row
<1>2. OneLivePerSession'
  BY <1>1 DEF SequentialInv, OneLivePerSession, rowHistory
<1>3. CascadeRevokesAll'
  BY <1>1 DEF SequentialInv, CascadeRevokesAll, rowHistory
<1>4. RootsAreRows'
  BY DEF SequentialInv, RootsAreRows, rowHistory, Row
<1> QED
  BY <1>2, <1>3, <1>4

LEMMA SequentialStep ==
    ASSUME Sequential, TypeOK, Stamped, SequentialInv, [Next]_vars
    PROVE  SequentialInv'
<1>1. PICK th : Threads = {th}
  BY DEF Sequential
<1>2. ASSUME Finish(th) PROVE ReadStillHolds' /\ SweepSeesAll'
  BY <1>1, <1>2 DEF Finish, ReadStillHolds, SweepSeesAll, TypeOK
<1>3. CASE \E u \in Users : Login(th, u)
  <2>1. PICK u \in Users : Login(th, u)
    BY <1>3
  <2>2. /\ Insert(u, rows + 1, begun[u]) /\ begun[u] >= epoch[u]
        /\ pc[th] = "idle" /\ UNCHANGED <<revoked, epoch, pc>>
    BY <2>1 DEF Login, threadVars, userHistory, Stamped, TypeOK
  <2>3. rows + 1 \in 1..(rows + 1) /\ rows + 1 \notin 1..rows
    BY DEF TypeOK
  <2>4. \A t \in Tokens : Live(t)' /\ t # rows + 1 => root[t] # rows + 1
    <3> SUFFICES ASSUME NEW t \in Tokens, Live(t)', t # rows + 1
                 PROVE  root[t] # rows + 1
      OBVIOUS
    <3>1. Row(t)
      BY <2>2 DEF Live, Row, Insert, TypeOK
    <3> QED
      BY <3>1, <2>3 DEF SequentialInv, RootsAreRows
  <2>5. OneLivePerSession' /\ CascadeRevokesAll' /\ RootsAreRows'
    <3> HIDE DEF SequentialInv
    <3> QED
      BY <2>2, <2>3, <2>4, InsertKeeps
  <2>6. ReadStillHolds' /\ SweepSeesAll'
    BY <1>1, <2>2 DEF ReadStillHolds, SweepSeesAll
  <2> QED
    BY <2>5, <2>6 DEF SequentialInv
<1>4. CASE \E t \in Tokens : Expire(t)
  <2>1. UNCHANGED <<rows, owner, revoked, epoch, rowHistory, pc, arg, seen, stamp>>
    BY <1>4 DEF Expire, threadVars, userHistory
  <2>2. ReadStillHolds' /\ SweepSeesAll'
    BY <2>1 DEF SequentialInv, ReadStillHolds, SweepSeesAll, Live, Row
  <2> QED
    BY <2>1, <2>2, RevokeKeeps DEF SequentialInv
<1>5. CASE Rotate(th)
  <2> DEFINE u == owner[arg[th]]
             r == root[arg[th]]
  <2>1. arg[th] \in Tokens /\ Row(arg[th]) /\ u \in Users
    BY <1>1, <1>5, ArgRow DEF Rotate
  <2>2. Live(arg[th]) /\ stamp[th] >= epoch[u]
    BY <1>1, <1>5 DEF Rotate, SequentialInv, ReadStillHolds
  <2>3. /\ Insert(u, r, stamp[th])
        /\ UNCHANGED epoch
        /\ revoked' = revoked \cup {arg[th]}
    BY <1>5 DEF Rotate, userHistory
  <2>4. r \in 1..(rows + 1)
    BY <2>1 DEF SequentialInv, RootsAreRows, TypeOK
  <2>5. \A t \in Tokens : Live(t)' /\ t # rows + 1 => root[t] # r
    <3> SUFFICES ASSUME NEW t \in Tokens, Live(t)', t # rows + 1
                 PROVE  root[t] # r
      OBVIOUS
    <3>1. Live(t) /\ t # arg[th]
      BY <2>3 DEF Live, Row, Insert, TypeOK
    <3> QED
      BY <3>1, <2>1, <2>2 DEF SequentialInv, OneLivePerSession
  <2>6. revoked \subseteq revoked'
    BY <2>3
  <2>7. OneLivePerSession' /\ CascadeRevokesAll' /\ RootsAreRows'
    <3> HIDE DEF u, r
    <3> QED
      BY <2>1, <2>2, <2>3, <2>4, <2>5, <2>6, InsertKeeps
  <2>8. ReadStillHolds' /\ SweepSeesAll'
    BY <1>2, <1>5 DEF Rotate
  <2> QED
    BY <2>7, <2>8 DEF SequentialInv
<1>6. CASE RevokeAll(th)
  <2>1. PICK u \in Users : u = owner[arg[th]]
    BY <1>1, <1>6, ArgRow DEF RevokeAll
  <2>2. /\ UNCHANGED <<rows, owner, rowHistory>>
        /\ revoked' = revoked \cup {t \in 1..rows : owner[t] = u}
        /\ Record(u, stamp[th]) /\ Finish(th)
    BY <1>1, <1>6, <2>1 DEF RevokeAll, SequentialInv, SweepSeesAll
  <2>3. ASSUME NEW t \in Tokens, Live(t)'
        PROVE  epoch'[owner[t]] = epoch[owner[t]]
    <3>1. Live(t) /\ owner[t] # u
      BY <2>2, <2>3 DEF Live, Row
    <3>2. owner[t] \in Users
      BY <3>1 DEF Live, TypeOK
    <3> QED
      BY <2>2, <3>1, <3>2 DEF Record, TypeOK
  <2>4. OneLivePerSession' /\ CascadeRevokesAll' /\ RootsAreRows'
    BY <2>2, <2>3, RevokeKeeps
  <2> QED
    BY <2>2, <2>4, <1>2 DEF SequentialInv
<1>10. CASE Sweep(th)
  <2>1. /\ UNCHANGED <<rows, owner, revoked, rowHistory, epoch>>
        /\ pc'[th] = "swept" /\ seen'[th] = rows
    BY <1>1, <1>10 DEF Sweep, tableVars, TypeOK
  <2>2. OneLivePerSession' /\ CascadeRevokesAll' /\ RootsAreRows'
    BY <2>1, RevokeKeeps
  <2>3. ReadStillHolds' /\ SweepSeesAll'
    BY <1>1, <2>1 DEF ReadStillHolds, SweepSeesAll
  <2> QED
    BY <2>2, <2>3 DEF SequentialInv
<1>7. CASE Logout(th) \/ Abort(th)
  <2>1. /\ UNCHANGED <<rows, owner, rowHistory, epoch>>
        /\ revoked \subseteq revoked'
        /\ Finish(th)
    BY <1>7 DEF Logout, Abort, tableVars, userHistory
  <2> QED
    BY <2>1, <1>2, RevokeKeeps DEF SequentialInv
<1>8. ASSUME NEW t \in Tokens,
             PresentUsable(th, t) \/ PresentUnusable(th, t) \/ PresentLogout(th, t)
      PROVE  SequentialInv'
  <2>1. UNCHANGED <<rows, owner, revoked, rowHistory, epoch>>
    BY <1>8 DEF PresentUsable, PresentUnusable, PresentLogout, Read, tableVars,
                userHistory
  <2>2. OneLivePerSession' /\ CascadeRevokesAll' /\ RootsAreRows'
    BY <2>1, RevokeKeeps
  <2>3. ReadStillHolds'
    <3> SUFFICES ASSUME pc'[th] = "rotate"
                 PROVE  Live(arg[th])' /\ stamp'[th] >= epoch'[owner'[arg'[th]]]
      BY <1>1 DEF ReadStillHolds
    <3>1. PresentUsable(th, t)
      BY <1>1, <1>8 DEF PresentUnusable, PresentLogout, Read, TypeOK
    <3>2. arg'[th] = t /\ stamp'[th] = begun[owner[t]] /\ Row(t) /\ t \notin revoked
      BY <1>1, <3>1 DEF PresentUsable, Read, Usable, TypeOK
    <3>3. begun[owner[t]] >= epoch[owner[t]]
      BY <3>2 DEF Stamped, TypeOK
    <3> QED
      BY <2>1, <3>2, <3>3 DEF Live, Row
  <2>4. SweepSeesAll'
    BY <1>1, <1>8 DEF SweepSeesAll, PresentUsable, PresentUnusable, PresentLogout, Read,
                      TypeOK
  <2> QED
    BY <2>2, <2>3, <2>4 DEF SequentialInv
<1>9. CASE UNCHANGED vars
  <2>1. /\ UNCHANGED <<rows, owner, rowHistory, epoch, revoked>>
        /\ UNCHANGED <<pc, arg, seen, stamp>>
    BY <1>9 DEF vars, tableVars, threadVars, userHistory
  <2>2. ReadStillHolds' /\ SweepSeesAll'
    BY <2>1 DEF SequentialInv, ReadStillHolds, SweepSeesAll, Live, Row
  <2> QED
    BY <2>1, <2>2, RevokeKeeps DEF SequentialInv
<1> QED
  BY <1>1, <1>3, <1>4, <1>5, <1>6, <1>7, <1>8, <1>9, <1>10 DEF Next

LEMMA SequentialAlways ==
    ASSUME Sequential PROVE Spec => [](Stamped /\ SequentialInv)
BY SequentialInit, SequentialStep, StampedInit, StampedStep, TypeCorrect, PTL DEF Spec

\* When requests are served one at a time, every session has at most one live
\* token, for any numbers of users, logins and rotations.
THEOREM SequentialSessions ==
    ASSUME Sequential PROVE Spec => []OneLivePerSession
<1>1. SequentialInv => OneLivePerSession
  BY DEF SequentialInv
<1> QED
  BY <1>1, SequentialAlways, PTL DEF Spec

\* When requests are served one at a time, the reuse of a token leaves its user
\* without a single live token issued on what was read before.
THEOREM SequentialCascade ==
    ASSUME Sequential PROVE Spec => []CascadeRevokesAll
<1>1. SequentialInv => CascadeRevokesAll
  BY DEF SequentialInv
<1> QED
  BY <1>1, SequentialAlways, PTL DEF Spec

-----------------------------------------------------------------------------
(* The sessions of the table, and the ledger they keep. *)

\* Every row descends from the row of a login, and belongs to the user who
\* logged in.
Rooted ==
    /\ \A t \in Tokens : Row(t) => /\ root[t] \in 1..rows /\ root[root[t]] = root[t]
                                   /\ owner[root[t]] = owner[t]
    /\ revoked \subseteq 1..rows

LEMMA RootedInsert ==
    ASSUME TypeOK, Rooted, NEW u \in Users, NEW r, NEW e, Insert(u, r, e),
           \/ r = rows + 1
           \/ r \in 1..rows /\ root[r] = r /\ owner[r] = u,
           revoked' \subseteq 1..rows'
    PROVE  Rooted'
<1> DEFINE n == rows + 1
<1>1. n \in Tokens /\ rows' = n /\ rows \in Nat /\ n \notin 1..rows /\ 1..n = 1..rows \cup {n}
  BY RefreshAssumption DEF Insert, TypeOK, Tokens
<1>2. \A t \in Tokens : t # n => root'[t] = root[t] /\ owner'[t] = owner[t]
  BY <1>1 DEF Insert, TypeOK
<1>3. root'[n] = r /\ owner'[n] = u
  BY <1>1 DEF Insert, TypeOK
<1>4. 1..rows \subseteq Tokens
  BY RefreshAssumption DEF TypeOK, Tokens
<1> HIDE DEF n
<1>5. ASSUME NEW t \in Tokens, t \in 1..rows'
      PROVE  root'[t] \in 1..rows' /\ root'[root'[t]] = root'[t] /\ owner'[root'[t]] = owner'[t]
  <2>1. CASE t = n
    BY <1>1, <1>2, <1>3, <1>4, <2>1 DEF n
  <2>2. CASE t # n
    BY <1>1, <1>2, <1>4, <1>5, <2>2 DEF Rooted, Row
  <2> QED
    BY <2>1, <2>2
<1> QED
  BY <1>5 DEF Rooted, Row

LEMMA RootedStep ==
    ASSUME TypeOK, Rooted, [Next]_vars
    PROVE  Rooted'
<1>1. rows \in Nat
  BY DEF TypeOK
<1>2. ASSUME UNCHANGED <<rows, owner, root>>, revoked' \subseteq 1..rows' PROVE Rooted'
  BY <1>2 DEF Rooted, Row
<1>3. ASSUME NEW th \in Threads, NEW u \in Users, Login(th, u) PROVE Rooted'
  <2>1. revoked' \subseteq 1..rows' /\ Insert(u, rows + 1, begun[u])
    BY <1>1, <1>3 DEF Login, Insert, Rooted
  <2> QED
    BY <2>1, RootedInsert
<1>4. ASSUME NEW th \in Threads, Rotate(th) PROVE Rooted'
  <2> DEFINE t == arg[th]
  <2>1. t \in Tokens /\ t \in 1..rows /\ owner[t] \in Users
    BY <1>4, ArgRow DEF Rotate, Row
  <2>2. revoked' \subseteq 1..rows' /\ Insert(owner[t], root[t], stamp[th])
    BY <1>1, <1>4, <2>1 DEF Rotate, Insert, Rooted
  <2>3. root[t] \in 1..rows /\ root[root[t]] = root[t] /\ owner[root[t]] = owner[t]
    BY <2>1 DEF Rooted, Row
  <2> HIDE DEF t
  <2> QED
    BY <2>1, <2>2, <2>3, RootedInsert
<1>5. ASSUME NEW th \in Threads, RevokeAll(th) PROVE Rooted'
  <2>1. 1..seen[th] \subseteq 1..rows
    BY <1>1 DEF TypeOK
  <2> QED
    BY <1>2, <1>5, <2>1 DEF RevokeAll, rowHistory, Rooted
<1>6. ASSUME NEW th \in Threads, Logout(th) PROVE Rooted'
  <2>1. arg[th] \in 1..rows
    BY <1>6, ArgRow DEF Logout, Row
  <2> QED
    BY <1>2, <1>6, <2>1 DEF Logout, rowHistory, Rooted
<1>7. ASSUME UNCHANGED <<rows, owner, root, revoked>> PROVE Rooted'
  BY <1>2, <1>7 DEF Rooted
<1> QED
  BY <1>3, <1>4, <1>5, <1>6, <1>7
  DEF Next, Expire, Sweep, Abort, PresentUsable, PresentUnusable, PresentLogout, Read,
      vars, tableVars, rowHistory

LEMMA RootedInit == Init => Rooted
BY DEF Init, Rooted, Row

\* Sessions do not mix: renewing a session never hands it to another user.
THEOREM SessionsKeepOwner == Spec => []Rooted
BY RootedInit, RootedStep, TypeCorrect, PTL DEF Spec

UserOfSession(r) == IF Row(r) /\ root[r] = r THEN owner[r] ELSE NoUser
OneOf(S) == IF S = {} THEN NoUser ELSE CHOOSE t \in S : TRUE
CurrentOf(r) == OneOf(LiveOf(r))

LEMMA CurrentIsLive ==
    ASSUME OneLivePerSession, NEW r, NEW t \in LiveOf(r)
    PROVE  CurrentOf(r) = t /\ LiveOf(r) = {t}
<1>1. LiveOf(r) = {t}
  BY DEF OneLivePerSession, LiveOf
<1> QED
  BY <1>1 DEF CurrentOf, OneOf

\* A step of the table is a step of the ledger, or nothing to it.
LEMMA LedgerStep ==
    ASSUME TypeOK, Rooted, SequentialInv, SequentialInv', [Next]_vars
    PROVE  [Ledger!Next]_(Ledger!vars)
<1> DEFINE user == [r \in Tokens |-> UserOfSession(r)]
           current == [r \in Tokens |-> CurrentOf(r)]
           Small == \/ \E s \in Tokens, t \in Tokens :
                         \/ /\ current[s] # NoUser
                            /\ t # current[s]
                            /\ current' = [current EXCEPT ![s] = t]
                            /\ UNCHANGED user
                         \/ \E u \in Users :
                              /\ user[s] = NoUser
                              /\ user' = [user EXCEPT ![s] = u]
                              /\ current' = [current EXCEPT ![s] = t]
                    \/ \E s \in Tokens : /\ current' = [current EXCEPT ![s] = NoUser]
                                         /\ UNCHANGED user
                    \/ \E u \in Users :
                         /\ current' = [s \in Tokens |->
                                          IF user[s] = u THEN NoUser ELSE current[s]]
                         /\ UNCHANGED user
<1>1. SUFFICES Small \/ UNCHANGED <<user, current>>
  <2>1. /\ user = [r \in Tokens |-> IF Row(r) /\ root[r] = r THEN owner[r] ELSE NoUser]
        /\ current = [r \in Tokens |-> IF LiveOf(r) = {} THEN NoUser
                                       ELSE CHOOSE t \in LiveOf(r) : TRUE]
    BY DEF UserOfSession, CurrentOf, OneOf
  <2> QED
    BY DEF Ledger!Next, Ledger!vars, Ledger!Renew, Ledger!Open, Ledger!Close,
           Ledger!CloseAll, UserOfSession, CurrentOf, OneOf
<1>2. CASE UNCHANGED <<rows, owner, root, revoked>>
  BY <1>2 DEF UserOfSession, CurrentOf, LiveOf, Live, Row
<1>3. rows \in Nat /\ 1..rows \subseteq Tokens
  BY RefreshAssumption DEF TypeOK, Tokens
<1>4. ASSUME NEW th \in Threads, NEW u \in Users, Login(th, u) PROVE Small
  <2>1. PICK n \in Tokens : /\ n = rows + 1 /\ rows' = n
                            /\ n \notin 1..rows /\ 1..n = 1..rows \cup {n}
    <3>1. rows < MaxTokens /\ rows' = rows + 1
      BY <1>4 DEF Login, Insert
    <3> QED
      BY <1>3, <3>1, RefreshAssumption DEF Tokens
  <2>2. /\ \A t \in Tokens : t # n => root'[t] = root[t] /\ owner'[t] = owner[t]
        /\ root'[n] = n /\ owner'[n] = u /\ revoked' = revoked
    BY <1>4, <2>1 DEF Login, Insert, TypeOK
  <2>3. \A r \in Tokens : r # n => UserOfSession(r)' = UserOfSession(r)
    BY <2>1, <2>2 DEF UserOfSession, Row
  <2>4. UserOfSession(n)' = u /\ UserOfSession(n) = NoUser
    BY <2>1, <2>2 DEF UserOfSession, Row
  <2>5. \A r \in Tokens : r # n => LiveOf(r)' = LiveOf(r)
    BY <2>1, <2>2 DEF LiveOf, Live, Row
  <2>6. n \in LiveOf(n)'
    BY <2>1, <2>2 DEF LiveOf, Live, Row, Rooted
  <2>7. CurrentOf(n)' = n
    <3>1. OneLivePerSession'
      BY DEF SequentialInv
    <3>2. LiveOf(n)' = {n}
      BY <2>6, <3>1 DEF OneLivePerSession, LiveOf
    <3> QED
      BY <3>2 DEF CurrentOf, OneOf
  <2>8. user' = [user EXCEPT ![n] = u] /\ user[n] = NoUser
    BY <2>3, <2>4
  <2>9. current' = [current EXCEPT ![n] = n]
    <3>1. \A r \in Tokens : r # n => CurrentOf(r)' = CurrentOf(r)
      BY <2>5 DEF CurrentOf
    <3> QED
      BY <2>7, <3>1
  <2> QED
    BY <2>8, <2>9
<1>5. ASSUME NEW th \in Threads, Rotate(th) PROVE Small
  <2>1. PICK n \in Tokens : /\ n = rows + 1 /\ rows' = n
                            /\ n \notin 1..rows /\ 1..n = 1..rows \cup {n}
    <3>1. rows < MaxTokens /\ rows' = rows + 1
      BY <1>5 DEF Rotate, Insert
    <3> QED
      BY <1>3, <3>1, RefreshAssumption DEF Tokens
  <2>2. PICK t \in Tokens : t = arg[th] /\ t \in 1..rows
    BY <1>5, ArgRow DEF Rotate, Row
  <2>3. PICK r \in Tokens : r = root[t] /\ r \in 1..rows
    BY <1>3, <2>2 DEF Rooted, Row
  <2>4. /\ \A s \in Tokens : s # n => root'[s] = root[s] /\ owner'[s] = owner[s]
        /\ root'[n] = r /\ revoked' = revoked \cup {t}
    BY <1>5, <2>1, <2>2, <2>3 DEF Rotate, Insert, TypeOK
  <2>5. t \in LiveOf(r)
    BY <1>5, <2>2, <2>3 DEF Rotate, SequentialInv, ReadStillHolds, LiveOf
  <2>6. CurrentOf(r) = t /\ LiveOf(r) = {t}
    BY <2>5, CurrentIsLive DEF SequentialInv
  <2>7. \A q \in Tokens : UserOfSession(q)' = UserOfSession(q)
    BY <2>1, <2>3, <2>4 DEF UserOfSession, Row
  <2>8. \A q \in Tokens : q # r => LiveOf(q)' = LiveOf(q)
    BY <2>1, <2>2, <2>3, <2>4 DEF LiveOf, Live, Row
  <2>9. LiveOf(r)' = {n}
    <3>1. n \in LiveOf(r)'
      BY <2>1, <2>2, <2>4 DEF LiveOf, Live, Row, Rooted
    <3>2. OneLivePerSession'
      BY DEF SequentialInv
    <3> QED
      BY <3>1, <3>2 DEF OneLivePerSession, LiveOf
  <2>10. CurrentOf(r)' = n
    BY <2>9 DEF CurrentOf, OneOf
  <2>11. UNCHANGED user
    BY <2>7
  <2>12. current' = [current EXCEPT ![r] = n]
    <3>1. \A q \in Tokens : q # r => CurrentOf(q)' = CurrentOf(q)
      BY <2>8 DEF CurrentOf
    <3> QED
      BY <2>10, <3>1
  <2>13. current[r] # NoUser /\ n # current[r]
    BY <2>1, <2>2, <2>6, RefreshAssumption DEF Tokens
  <2> QED
    BY <2>11, <2>12, <2>13
<1>6. ASSUME NEW th \in Threads, RevokeAll(th) PROVE Small
  <2>1. PICK u \in Users : u = owner[arg[th]]
    BY <1>6, ArgRow DEF RevokeAll
  <2>2. /\ UNCHANGED <<rows, owner, root>>
        /\ revoked' = revoked \cup {t \in 1..rows : owner[t] = u}
    BY <1>6, <2>1 DEF RevokeAll, rowHistory, SequentialInv, SweepSeesAll
  <2>3. UNCHANGED user
    BY <2>2 DEF UserOfSession, Row
  <2>4. \A s \in Tokens : \A t \in LiveOf(s) : UserOfSession(s) = owner[t]
    BY DEF LiveOf, Live, Rooted, UserOfSession, Row
  <2>5. \A s \in Tokens : LiveOf(s)' = {t \in LiveOf(s) : owner[t] # u}
    BY <2>2 DEF LiveOf, Live, Row
  <2>6. \A s \in Tokens : CurrentOf(s)' = IF UserOfSession(s) = u THEN NoUser ELSE CurrentOf(s)
    <3> SUFFICES ASSUME NEW s \in Tokens
                 PROVE  CurrentOf(s)' = IF UserOfSession(s) = u THEN NoUser ELSE CurrentOf(s)
      OBVIOUS
    <3>1. CASE UserOfSession(s) = u
      BY <2>4, <2>5, <3>1 DEF CurrentOf, OneOf
    <3>2. CASE UserOfSession(s) # u
      <4>1. LiveOf(s)' = LiveOf(s)
        BY <2>4, <2>5, <3>2
      <4> QED
        BY <3>2, <4>1 DEF CurrentOf
    <3> QED
      BY <3>1, <3>2
  <2>7. current' = [s \in Tokens |-> IF user[s] = u THEN NoUser ELSE current[s]]
    BY <2>6
  <2> QED
    BY <2>3, <2>7
<1>7. ASSUME NEW th \in Threads, Logout(th) PROVE Small \/ UNCHANGED <<user, current>>
  <2>1. PICK t \in Tokens : t = arg[th] /\ t \in 1..rows
    BY <1>7, ArgRow DEF Logout, Row
  <2>2. PICK r \in Tokens : r = root[t]
    BY <1>3, <2>1 DEF Rooted, Row
  <2>3. UNCHANGED <<rows, owner, root>> /\ revoked' = revoked \cup {t}
    BY <1>7, <2>1 DEF Logout, rowHistory
  <2>4. CASE t \in revoked
    <3>1. revoked' = revoked
      BY <2>3, <2>4
    <3> QED
      BY <1>2, <2>3, <3>1
  <2>5. CASE t \notin revoked
    <3>1. t \in LiveOf(r)
      BY <2>1, <2>2, <2>5 DEF LiveOf, Live, Row
    <3>2. LiveOf(r) = {t}
      BY <3>1, CurrentIsLive DEF SequentialInv
    <3>3. \A q \in Tokens : LiveOf(q)' = LiveOf(q) \ {t}
      BY <2>3 DEF LiveOf, Live, Row
    <3>4. CurrentOf(r)' = NoUser
      BY <3>2, <3>3 DEF CurrentOf, OneOf
    <3>5. \A q \in Tokens : q # r => LiveOf(q)' = LiveOf(q)
      BY <2>2, <3>3 DEF LiveOf
    <3>6. current' = [current EXCEPT ![r] = NoUser]
      <4>1. \A q \in Tokens : q # r => CurrentOf(q)' = CurrentOf(q)
        BY <3>5 DEF CurrentOf
      <4> QED
        BY <3>4, <4>1
    <3>7. UNCHANGED user
      BY <2>3 DEF UserOfSession, Row
    <3> QED
      BY <3>6, <3>7
  <2> QED
    BY <2>4, <2>5
<1> QED
  BY <1>2, <1>4, <1>5, <1>6, <1>7
  DEF Next, Expire, Sweep, Abort, PresentUsable, PresentUnusable, PresentLogout, Read,
      vars, tableVars, rowHistory

LEMMA LedgerStart == Init => Ledger!Init
BY DEF Init, Ledger!Init, Row, LiveOf, Live

\* Requests served one at a time keep the ledger of sessions: login, refresh,
\* logout and the revocation of all tokens of a user do what they promise.
THEOREM SequentialLedger ==
    ASSUME Sequential PROVE Spec => KeepsLedger
<1>1. TypeOK /\ Rooted /\ SequentialInv /\ SequentialInv' /\ [Next]_vars
         => [Ledger!Next]_(Ledger!vars)
  BY LedgerStep
<1>2. Spec => []SequentialInv
  BY SequentialAlways, PTL
<1> QED
  BY <1>1, <1>2, LedgerStart, TypeCorrect, SessionsKeepOwner, PTL
  DEF Spec, KeepsLedger, Ledger!Spec

-----------------------------------------------------------------------------
(* How many tokens survive a revocation of all tokens of their user. *)

\* The tokens inserted after row lo, and the requests that will insert one, on
\* the strength of what was read before revocation n of the tokens of u began.
Spared(u, lo, n) == {t \in Tokens : Live(t) /\ owner[t] = u /\ t > lo /\ vouched[t] < n}
Pending(u, n) == {th \in Threads : pc[th] = "rotate" /\ owner[arg[th]] = u /\ stamp[th] < n}

\* Each survivor took the place of such a request, and the request that revokes
\* all tokens is not one of them.
Few(u, lo, n) ==
    Cardinality(Spared(u, lo, n)) + Cardinality(Pending(u, n)) < Cardinality(Threads)

\* It holds of the latest revocation that was committed, and of each that has
\* only begun.
EscapesInv ==
    /\ \A u \in Users : Few(u, 0, epoch[u])
    /\ \A th \in Threads : pc[th] = "swept" => Few(owner[arg[th]], seen[th], stamp[th])

LEMMA EscapesFinite ==
    /\ IsFiniteSet(Tokens) /\ Cardinality(Threads) \in Nat \ {0}
    /\ \A u, lo, n :
         /\ IsFiniteSet(Spared(u, lo, n)) /\ Cardinality(Spared(u, lo, n)) \in Nat
         /\ IsFiniteSet(Pending(u, n)) /\ Cardinality(Pending(u, n)) \in Nat
         /\ IsFiniteSet(Spared(u, lo, n)') /\ Cardinality(Spared(u, lo, n)') \in Nat
         /\ IsFiniteSet(Pending(u, n)') /\ Cardinality(Pending(u, n)') \in Nat
<1>1. IsFiniteSet(Tokens)
  BY FS_Interval, RefreshAssumption DEF Tokens
<1>2. Cardinality(Threads) \in Nat \ {0}
  BY FS_CardinalityType, FS_EmptySet, ThreadsAssumption
<1>3. \A u, lo, n : /\ Spared(u, lo, n) \subseteq Tokens /\ Pending(u, n) \subseteq Threads
                    /\ Spared(u, lo, n)' \subseteq Tokens /\ Pending(u, n)' \subseteq Threads
  BY DEF Spared, Pending
<1> QED
  BY <1>1, <1>2, <1>3, FS_Subset, FS_CardinalityType, ThreadsAssumption

\* No new survivor and no new request that could make one.
LEMMA EscapesShrink ==
    ASSUME NEW u, NEW lo, NEW n, Few(u, lo, n),
           Spared(u, lo, n)' \subseteq Spared(u, lo, n), Pending(u, n)' \subseteq Pending(u, n)
    PROVE  Few(u, lo, n)'
<1>1. /\ Cardinality(Spared(u, lo, n)') <= Cardinality(Spared(u, lo, n))
      /\ Cardinality(Pending(u, n)') <= Cardinality(Pending(u, n))
  BY EscapesFinite, FS_Subset
<1> QED
  BY <1>1, EscapesFinite DEF Few

\* A request inserts a token of the user.
LEMMA EscapesMove ==
    ASSUME NEW u, NEW lo, NEW n, Few(u, lo, n), NEW th \in Pending(u, n), NEW t,
           Spared(u, lo, n)' \subseteq Spared(u, lo, n) \cup {t},
           Pending(u, n)' \subseteq Pending(u, n) \ {th}
    PROVE  Few(u, lo, n)'
<1>1. /\ IsFiniteSet(Spared(u, lo, n) \cup {t})
      /\ Cardinality(Spared(u, lo, n) \cup {t}) <= Cardinality(Spared(u, lo, n)) + 1
  <2>1. PICK S : /\ S = Spared(u, lo, n) /\ IsFiniteSet(S) /\ Cardinality(S) \in Nat
    BY EscapesFinite
  <2>2. /\ IsFiniteSet(S \cup {t})
        /\ Cardinality(S \cup {t}) = Cardinality(S) \/ Cardinality(S \cup {t}) = Cardinality(S) + 1
    BY <2>1, FS_AddElement
  <2> QED
    BY <2>1, <2>2
<1>2. Cardinality(Spared(u, lo, n)') <= Cardinality(Spared(u, lo, n)) + 1
  BY <1>1, EscapesFinite, FS_Subset, FS_CardinalityType
<1>3. /\ IsFiniteSet(Pending(u, n) \ {th})
      /\ Cardinality(Pending(u, n) \ {th}) = Cardinality(Pending(u, n)) - 1
  BY EscapesFinite, FS_RemoveElement
<1>4. Cardinality(Pending(u, n)') <= Cardinality(Pending(u, n)) - 1
  BY <1>3, EscapesFinite, FS_Subset
<1> QED
  BY <1>2, <1>4, EscapesFinite DEF Few

\* The bound survives every step, once the revocation has begun.
LEMMA FewStep ==
    ASSUME TypeOK, [Next]_vars, NEW u \in Users, NEW lo \in Nat, NEW n \in Nat,
           n <= begun[u], Few(u, lo, n)
    PROVE  Few(u, lo, n)'
<1> DEFINE Less == Spared(u, lo, n)' \subseteq Spared(u, lo, n)
                   /\ Pending(u, n)' \subseteq Pending(u, n)
<1>1. /\ rows \in Nat /\ revoked \subseteq revoked'
      /\ \A t \in Tokens : t \in 1..rows => owner'[t] = owner[t] /\ vouched'[t] = vouched[t]
      /\ \A th \in Threads : pc[th] # "idle" => owner'[arg[th]] = owner[arg[th]]
  BY RowsStay
<1>2. ASSUME UNCHANGED rows PROVE Spared(u, lo, n)' \subseteq Spared(u, lo, n)
  BY <1>1, <1>2 DEF Spared, Live, Row
<1>3. ASSUME NEW th \in Threads, Finish(th) PROVE Pending(u, n)' \subseteq Pending(u, n) \ {th}
  BY <1>1, <1>3, FinishLeaves DEF Pending
<1>4. ASSUME NEW th \in Threads, NEW v \in Users, Login(th, v) PROVE Less
  <2>1. /\ rows' = rows + 1 /\ vouched'[rows + 1] = begun[v] /\ owner'[rows + 1] = v
    BY <1>1, <1>4, RefreshAssumption DEF Login, Insert, TypeOK, Tokens
  <2>2. rows + 1 \notin Spared(u, lo, n)'
    BY <2>1 DEF Spared, TypeOK
  <2>3. Spared(u, lo, n)' \subseteq Spared(u, lo, n) \cup {rows + 1}
    BY <1>1, <2>1 DEF Spared, Live, Row
  <2>4. Pending(u, n)' \subseteq Pending(u, n)
    BY <1>1, <1>4 DEF Login, threadVars, Pending
  <2> QED
    BY <2>2, <2>3, <2>4
<1>5. ASSUME NEW th \in Threads, Rotate(th)
      PROVE  \/ Less
             \/ /\ th \in Pending(u, n)
                /\ Spared(u, lo, n)' \subseteq Spared(u, lo, n) \cup {rows + 1}
                /\ Pending(u, n)' \subseteq Pending(u, n) \ {th}
  <2>1. /\ rows' = rows + 1 /\ vouched'[rows + 1] = stamp[th]
        /\ owner'[rows + 1] = owner[arg[th]]
    BY <1>1, <1>5, RefreshAssumption DEF Rotate, Insert, TypeOK, Tokens
  <2>2. Spared(u, lo, n)' \subseteq Spared(u, lo, n) \cup {rows + 1}
    BY <1>1, <2>1 DEF Spared, Live, Row
  <2>3. Pending(u, n)' \subseteq Pending(u, n) \ {th}
    BY <1>3, <1>5 DEF Rotate
  <2>4. rows + 1 \in Spared(u, lo, n)' => th \in Pending(u, n)
    BY <1>5, <2>1 DEF Spared, Pending, Rotate
  <2> QED
    BY <2>2, <2>3, <2>4
<1>6. ASSUME NEW th \in Threads, RevokeAll(th) \/ Logout(th) \/ Abort(th) PROVE Less
  BY <1>2, <1>3, <1>6 DEF RevokeAll, Logout, Abort, tableVars
<1>7. ASSUME NEW th \in Threads, Sweep(th) PROVE Less
  <2>1. /\ pc'[th] = "swept" /\ UNCHANGED <<rows, arg>>
        /\ \A o \in Threads : o # th => pc'[o] = pc[o] /\ stamp'[o] = stamp[o]
    BY <1>7 DEF Sweep, tableVars, TypeOK
  <2> QED
    BY <1>1, <1>2, <2>1 DEF Pending
<1>8. ASSUME NEW th \in Threads, NEW t \in Tokens, NEW p, Read(th, t, p) PROVE Less
  <2>1. /\ arg'[th] = t /\ stamp'[th] = begun[owner[t]] /\ UNCHANGED <<rows, owner>>
        /\ \A o \in Threads : o # th => pc'[o] = pc[o] /\ arg'[o] = arg[o]
                                        /\ stamp'[o] = stamp[o]
    BY <1>8 DEF Read, tableVars, TypeOK
  <2>2. th \notin Pending(u, n)'
    BY <2>1 DEF Pending, TypeOK
  <2> QED
    BY <1>1, <1>2, <2>1, <2>2 DEF Pending
<1>9. ASSUME UNCHANGED <<rows, threadVars>> PROVE Less
  BY <1>1, <1>2, <1>9 DEF Pending, threadVars
<1>10. \/ Less
       \/ \E th \in Threads :
            /\ th \in Pending(u, n)
            /\ Spared(u, lo, n)' \subseteq Spared(u, lo, n) \cup {rows + 1}
            /\ Pending(u, n)' \subseteq Pending(u, n) \ {th}
  BY <1>4, <1>5, <1>6, <1>7, <1>8, <1>9
  DEF Next, Expire, PresentUsable, PresentUnusable, PresentLogout, vars, tableVars
<1> QED
  BY <1>10, EscapesShrink, EscapesMove

LEMMA EscapesStep ==
    ASSUME TypeOK, Stamped, EscapesInv, [Next]_vars
    PROVE  EscapesInv'
<1>1. \A u \in Users : epoch[u] \in Nat /\ epoch[u] <= begun[u]
  BY DEF TypeOK, Stamped
<1>2. \A th \in Threads : pc[th] = "swept" =>
         /\ owner[arg[th]] \in Users /\ seen[th] \in Nat /\ stamp[th] \in Nat
         /\ stamp[th] <= begun[owner[arg[th]]]
  BY ArgRow DEF TypeOK, Stamped
<1>3. ASSUME NEW u \in Users PROVE Few(u, 0, epoch[u])'
  <2>1. PICK e \in Nat : e = epoch[u]
    BY <1>1
  <2>2. Few(u, 0, e)'
    BY <1>1, <2>1, FewStep DEF EscapesInv
  <2>3. CASE epoch'[u] = e
    BY <2>2, <2>3 DEF Few, Spared, Pending
  <2>4. CASE epoch'[u] # e
    <3>1. PICK th \in Threads : RevokeAll(th)
      BY <2>1, <2>4
      DEF Next, Login, Expire, Rotate, Sweep, Logout, Abort, PresentUsable,
          PresentUnusable, PresentLogout, Read, vars, userHistory
    <3>2. PICK lo \in Nat, n \in Nat : lo = seen[th] /\ n = stamp[th]
      BY <1>2, <3>1 DEF RevokeAll
    <3>3. /\ u = owner[arg[th]] /\ epoch'[u] = n /\ pc[th] = "swept"
      BY <2>1, <2>4, <3>1, <3>2 DEF RevokeAll, Record, TypeOK
    <3>4. Few(u, lo, n)'
      BY <1>2, <3>2, <3>3, FewStep DEF EscapesInv
    <3>5. \A t \in 1..lo : owner[t] = u => t \in revoked'
      BY <3>1, <3>2, <3>3 DEF RevokeAll
    <3>6. Spared(u, 0, n)' \subseteq Spared(u, lo, n)'
      <4> SUFFICES ASSUME NEW t \in Spared(u, 0, n)' PROVE t > lo
        BY DEF Spared
      <4>1. t \in Tokens /\ t \notin revoked' /\ owner[t] = u /\ t \in Nat \ {0}
        BY <3>1 DEF Spared, Live, RevokeAll, Tokens
      <4> QED
        BY <3>5, <4>1
    <3>7. Few(u, 0, n)'
      <4>1. Cardinality(Spared(u, 0, n)') <= Cardinality(Spared(u, lo, n)')
        BY <3>6, EscapesFinite, FS_Subset
      <4> QED
        BY <3>4, <4>1, EscapesFinite DEF Few
    <3> QED
      BY <3>3, <3>7 DEF Few, Spared, Pending
  <2> QED
    BY <2>3, <2>4
<1>4. ASSUME NEW th \in Threads, pc'[th] = "swept"
      PROVE  Few(owner[arg[th]], seen[th], stamp[th])'
  <2>1. CASE Sweep(th)
    <3>1. PICK u, lo, n : u = owner[arg[th]]' /\ lo = seen'[th] /\ n = stamp'[th]
      OBVIOUS
    <3>2. lo = rows'
      BY <2>1, <3>1 DEF Sweep, tableVars, TypeOK
    <3>3. Spared(u, lo, n)' = {}
      BY <3>2, RowsStay DEF Spared, Live, Row, Tokens
    <3>4. Pending(u, n)' \subseteq Threads \ {th}
      BY <1>4 DEF Pending
    <3>5. /\ IsFiniteSet(Threads \ {th})
          /\ Cardinality(Threads \ {th}) = Cardinality(Threads) - 1
      BY ThreadsAssumption, FS_RemoveElement
    <3>6. Cardinality(Pending(u, n)') <= Cardinality(Threads) - 1
      BY <3>4, <3>5, FS_Subset
    <3>7. Few(u, lo, n)'
      BY <3>3, <3>6, FS_EmptySet, EscapesFinite DEF Few
    <3> QED
      BY <3>1, <3>7 DEF Few, Spared, Pending
  <2>2. CASE ~Sweep(th)
    <3>1. /\ pc[th] = "swept" /\ arg'[th] = arg[th]
          /\ seen'[th] = seen[th] /\ stamp'[th] = stamp[th]
      BY <1>4, <2>2, FinishLeaves
      DEF TypeOK, Next, Login, Expire, Rotate, Sweep, RevokeAll, Logout, Abort,
          PresentUsable, PresentUnusable, PresentLogout, Read, vars, threadVars
    <3>2. PICK u \in Users, lo \in Nat, n \in Nat :
             u = owner[arg[th]] /\ lo = seen[th] /\ n = stamp[th]
      BY <1>2, <3>1
    <3>3. owner'[arg'[th]] = u
      BY <3>1, <3>2, RowsStay
    <3>4. Few(u, lo, n)'
      BY <1>2, <3>1, <3>2, FewStep DEF EscapesInv
    <3> QED
      BY <3>1, <3>2, <3>3, <3>4 DEF Few, Spared, Pending
  <2> QED
    BY <2>1, <2>2
<1> QED
  BY <1>3, <1>4 DEF EscapesInv

\* Of the tokens that were given out on the strength of what was read before a
\* revocation of all tokens of their user began, fewer survive it than requests
\* are served at the same time, whatever their order.
THEOREM EscapesAreFew == Spec => []EscapesBounded
<1>1. Init => EscapesInv
  <2>1. \A u, lo, n : Init => Spared(u, lo, n) = {} /\ Pending(u, n) = {}
    BY DEF Init, Spared, Live, Row, Pending
  <2> QED
    BY <2>1, FS_EmptySet, EscapesFinite DEF Init, EscapesInv, Few
<1>2. EscapesInv => EscapesBounded
  <2>1. \A u \in Users : Escaped(u) = Spared(u, 0, epoch[u])
    BY DEF Escaped, Spared, Tokens
  <2> QED
    BY <2>1, EscapesFinite DEF EscapesInv, EscapesBounded, Few
<1> QED
  BY <1>1, <1>2, EscapesStep, StampedInit, StampedStep, TypeCorrect, PTL DEF Spec

=============================================================================
