--------------------------- MODULE RefreshTokens ---------------------------
(***************************************************************************)
(* The refresh_tokens table of auth-service and the requests that work on  *)
(* it: login (and the end of onboarding), refresh and logout.  A request   *)
(* reads the row of the presented token in one statement and writes in a   *)
(* later transaction; neither a lock nor a version check ties the two, so  *)
(* other requests commit in between.  Commits are atomic, but the UPDATE   *)
(* that revokes all tokens of a user works on the rows that exist when it  *)
(* begins, and is committed later: READ COMMITTED, the default.            *)
(*                                                                         *)
(* Rows are numbered in the order of insertion.  A row that expires is     *)
(* marked so at any time.  Users with tokens are ACTIVE, and that status   *)
(* has no way back, so the status checks never fail here.                  *)
(***************************************************************************)
EXTENDS Naturals, FiniteSets

CONSTANTS Users,
          Threads,     \* requests served at the same time
          MaxTokens,   \* bound: rows inserted
          MaxCascades, \* bound: revocations of all tokens of a user
          NoUser

ASSUME RefreshAssumption ==
    /\ MaxTokens \in Nat
    /\ MaxCascades \in Nat
    /\ NoUser \notin Users \cup 1..MaxTokens \* the NULL of both

\* A process serves requests, and finitely many at a time.
ASSUME ThreadsAssumption == IsFiniteSet(Threads) /\ Threads # {}

Tokens == 1..MaxTokens

VARIABLES
    rows,        \* number of rows inserted
    owner,       \* user_id
    revoked,     \* rows whose revoked_at is set (the reason is left out)
    expired,     \* rows whose expires_at has passed
    pc, arg,     \* per request: what it will commit, for which row
    seen,        \* per request: how many rows existed when its UPDATE of all
                 \* tokens of the user began
    root,        \* history: the login a token descends from
    begun,       \* history: how many revocations of all tokens of a user began
    epoch,       \* history: the latest of them that was committed
    stamp,       \* history, per request: begun when it read the row; the number
                 \* of its own revocation when it has begun one
    vouched,     \* history, per row: begun when the request that inserted it
                 \* read what entitled it to
    born         \* history, per row: begun when it was inserted

tableVars == <<rows, owner, revoked, expired>>
threadVars == <<pc, arg, seen, stamp>>
rowHistory == <<root, vouched, born>>
userHistory == <<begun, epoch>>
vars == <<tableVars, threadVars, rowHistory, userHistory>>

Row(t) == t \in 1..rows
Live(t) == Row(t) /\ t \notin revoked

Init ==
    /\ rows = 0
    /\ owner = [t \in Tokens |-> NoUser]
    /\ revoked = {}
    /\ expired = {}
    /\ pc = [th \in Threads |-> "idle"]
    /\ arg = [th \in Threads |-> 0]
    /\ root = [t \in Tokens |-> 0]
    /\ seen = [th \in Threads |-> 0]
    /\ begun = [u \in Users |-> 0]
    /\ epoch = [u \in Users |-> 0]
    /\ stamp = [th \in Threads |-> 0]
    /\ vouched = [t \in Tokens |-> 0]
    /\ born = [t \in Tokens |-> 0]

InsertUnowned(u, r, read) == \* mutant: the owner is written to the last row
    /\ rows < MaxTokens
    /\ rows' = rows + 1
    /\ owner' = [owner EXCEPT ![IF rows = 0 THEN 1 ELSE rows] = u]
    /\ root' = [root EXCEPT ![rows + 1] = r]
    /\ vouched' = [vouched EXCEPT ![rows + 1] = read]
    /\ born' = [born EXCEPT ![rows + 1] = begun[u]]

\* INSERT of a row for user u, in the session opened by login r.
Insert(u, r, read) ==
    /\ rows < MaxTokens
    /\ rows' = rows + 1
    /\ owner' = [owner EXCEPT ![rows + 1] = u]
    /\ root' = [root EXCEPT ![rows + 1] = r]
    /\ vouched' = [vouched EXCEPT ![rows + 1] = read]
    /\ born' = [born EXCEPT ![rows + 1] = begun[u]]

Finish(th) ==
    /\ pc' = [pc EXCEPT ![th] = "idle"]
    /\ arg' = [arg EXCEPT ![th] = 0]
    /\ seen' = [seen EXCEPT ![th] = 0]
    /\ stamp' = [stamp EXCEPT ![th] = 0]

Read(th, t, next) ==
    /\ pc[th] = "idle"
    /\ Row(t)
    /\ pc' = [pc EXCEPT ![th] = next]
    /\ arg' = [arg EXCEPT ![th] = t]
    /\ stamp' = [stamp EXCEPT ![th] = begun[owner[t]]]
    /\ UNCHANGED <<tableVars, seen, rowHistory, userHistory>>

-----------------------------------------------------------------------------
\* authenticate_and_open_session, and _open_session at the end of onboarding.
Login(th, u) ==
    /\ pc[th] = "idle"
    /\ Insert(u, rows + 1, begun[u])
    /\ UNCHANGED <<revoked, expired, threadVars, userHistory>>

\* rotate_refresh reads the row of the token it was given.  A revoked or an
\* expired token makes it revoke everything the user has.
UsableUnlessExpired(t) == t \notin expired \* mutant: revoked_at is not tested

Usable(t) == t \notin revoked \cup expired

PresentUsable(th, t) == Usable(t) /\ Read(th, t, "rotate")
PresentUnusable(th, t) == ~Usable(t) /\ Read(th, t, "cascade")

RotateKeepsOld(th) == \* mutant: the old row is not revoked
    /\ pc[th] = "rotate"
    /\ Insert(owner[arg[th]], root[arg[th]], stamp[th])
    /\ Finish(th)
    /\ UNCHANGED <<revoked, expired, userHistory>>

\* The commit of rotate_refresh: the UPDATE of the old row is by primary key,
\* whatever has become of the row since it was read.
Rotate(th) ==
    /\ pc[th] = "rotate"
    /\ Insert(owner[arg[th]], root[arg[th]], stamp[th])
    /\ revoked' = revoked \cup {arg[th]}
    /\ Finish(th)
    /\ UNCHANGED <<expired, userHistory>>

\* _revoke_all_for_user: the UPDATE finds the rows of the user whose revoked_at
\* is NULL among those that exist when it begins.  It goes from row to row, and
\* may wait at each for another transaction, so any commit may still come
\* between its beginning and its own commit.
Sweep(th) ==
    /\ pc[th] = "cascade"
    /\ LET u == owner[arg[th]] IN
         /\ begun[u] < MaxCascades
         /\ begun' = [begun EXCEPT ![u] = @ + 1]
         /\ stamp' = [stamp EXCEPT ![th] = begun[u] + 1]
    /\ pc' = [pc EXCEPT ![th] = "swept"]
    /\ seen' = [seen EXCEPT ![th] = rows]
    /\ UNCHANGED <<tableVars, arg, rowHistory, epoch>>

\* The revocation numbered n of the tokens of u is committed.
Record(u, n) == epoch' = [epoch EXCEPT ![u] = IF n > @ THEN n ELSE @]

RevokeOne(th) == \* mutant: only the row that was presented
    /\ pc[th] = "swept"
    /\ revoked' = revoked \cup {arg[th]}
    /\ Record(owner[arg[th]], stamp[th])
    /\ Finish(th)
    /\ UNCHANGED <<rows, owner, expired, rowHistory, begun>>

RevokeUncommitted(th) == \* mutant: the UPDATE is not committed
    /\ pc[th] = "swept"
    /\ Record(owner[arg[th]], stamp[th])
    /\ Finish(th)
    /\ UNCHANGED <<tableVars, rowHistory, begun>>

\* The commit of the UPDATE, alone in its transaction.
RevokeAll(th) ==
    /\ pc[th] = "swept"
    /\ LET u == owner[arg[th]] IN
         /\ revoked' = revoked \cup {t \in 1..seen[th] : owner[t] = u}
         /\ Record(u, stamp[th])
    /\ Finish(th)
    /\ UNCHANGED <<rows, owner, expired, rowHistory, begun>>

\* revoke_session_for_token: reads the row, then marks it, revoked or not.
PresentLogout(th, t) == Read(th, t, "logout")

LogoutForgets(th) == \* mutant: the cookie goes, the row stays
    /\ pc[th] = "logout"
    /\ Finish(th)
    /\ UNCHANGED <<tableVars, rowHistory, userHistory>>

Logout(th) ==
    /\ pc[th] = "logout"
    /\ revoked' = revoked \cup {arg[th]}
    /\ Finish(th)
    /\ UNCHANGED <<rows, owner, expired, rowHistory, userHistory>>

\* The request dies (or its commit fails) and leaves nothing behind.
Abort(th) ==
    /\ pc[th] # "idle"
    /\ Finish(th)
    /\ UNCHANGED <<tableVars, rowHistory, userHistory>>

\* The clock passes expires_at.
Expire(t) ==
    /\ Row(t) /\ t \notin expired
    /\ expired' = expired \cup {t}
    /\ UNCHANGED <<rows, owner, revoked, threadVars, rowHistory, userHistory>>

Next ==
    \/ \E t \in Tokens : Expire(t)
    \/ \E th \in Threads :
         \/ \E u \in Users : Login(th, u)
         \/ Rotate(th) \/ Sweep(th) \/ RevokeAll(th) \/ Logout(th) \/ Abort(th)
         \/ \E t \in Tokens : \/ PresentUsable(th, t) \/ PresentUnusable(th, t)
                              \/ PresentLogout(th, t)

Spec == Init /\ [][Next]_vars

-----------------------------------------------------------------------------
TypeOK ==
    /\ rows \in 0..MaxTokens
    /\ owner \in [Tokens -> Users \cup {NoUser}]
    /\ \A t \in Tokens : Row(t) => owner[t] \in Users
    /\ revoked \subseteq Tokens
    /\ expired \subseteq Tokens
    /\ pc \in [Threads -> {"idle", "rotate", "cascade", "swept", "logout"}]
    /\ arg \in [Threads -> 0..rows]
    /\ \A th \in Threads : pc[th] # "idle" => arg[th] # 0
    /\ seen \in [Threads -> 0..rows]
    /\ root \in [Tokens -> 0..rows]
    /\ begun \in [Users -> 0..MaxCascades]
    /\ epoch \in [Users -> 0..MaxCascades]
    /\ stamp \in [Threads -> 0..MaxCascades]
    /\ vouched \in [Tokens -> 0..MaxCascades]
    /\ born \in [Tokens -> 0..MaxCascades]

\* The revocation of all tokens of a user spares no row that existed when it
\* began: every live token was inserted after the beginning of the latest one
\* that was committed.  (A rotation that commits before it does may still put
\* a row in the place of one it revokes.)
LiveBornThisEpoch ==
    \A t \in Tokens : Live(t) => born[t] >= epoch[owner[t]]

Escaped(u) == {t \in Tokens : Live(t) /\ owner[t] = u /\ vouched[t] < epoch[u]}

\* The damage of the race is bounded: the tokens that survive a revocation on
\* the strength of what was read before it began are at most one per other
\* request in flight at that moment.
EscapesBounded ==
    \A u \in Users : Cardinality(Escaped(u)) < Cardinality(Threads)

\* One session, one token: at most one live token descends from each login.
OneLivePerSession ==
    \A s, t \in Tokens : Live(s) /\ Live(t) /\ root[s] = root[t] => s = t

\* Reuse of a revoked token revokes all tokens of the user: none is live that
\* was issued on the strength of a token read before that began.
CascadeRevokesAll ==
    \A t \in Tokens : Live(t) => vouched[t] >= epoch[owner[t]]

\* Requests served one at a time keep the promise of SessionLedger.
LiveOf(r) == {t \in Tokens : Live(t) /\ root[t] = r}

Ledger == INSTANCE SessionLedger WITH
    Sessions <- Tokens,
    None <- NoUser,
    user <- [r \in Tokens |-> IF Row(r) /\ root[r] = r THEN owner[r] ELSE NoUser],
    current <- [r \in Tokens |-> IF LiveOf(r) = {} THEN NoUser
                                 ELSE CHOOSE t \in LiveOf(r) : TRUE]

KeepsLedger == Ledger!Spec

=============================================================================
