------------------------------ MODULE Profile ------------------------------
(***************************************************************************)
(* GET and PATCH /me of auth-service: the row of one user, read by each    *)
(* request into its own session, changed in a later transaction, read      *)
(* again after the commit and announced as user.updated on events:auth.    *)
(* Nothing locks the row, so other requests commit in between.             *)
(*                                                                         *)
(* The session writes only the columns whose new value differs from the    *)
(* one it has loaded.  A field that a client leaves out, or sends as null, *)
(* is Absent.                                                              *)
(***************************************************************************)
EXTENDS Naturals, Sequences, FiniteSets

CONSTANTS Reqs,
          Fields,    \* full_name, phone
          Values,
          Blank,     \* what a field holds before it is first written
          Absent,
          Patches,   \* the bodies clients send
          MaxFaults  \* bound: calls to the database or to Redis that raise

ASSUME ProfileAssumption ==
    /\ Absent \notin Values /\ Blank \in Values
    /\ Patches \subseteq [Fields -> Values \cup {Absent}]
    /\ MaxFaults \in Nat

VARIABLES
    row,     \* the columns in auth_db
    pc,
    patch,   \* the body of the request
    loaded,  \* the row as the session of the request has it
    stream,  \* events:auth, by the request that published
    wrote,   \* history: the requests whose UPDATE is committed
    after,   \* history: the requests answered when this one read the row
    faults

requestVars == <<patch, loaded, after>>
vars == <<row, pc, requestVars, stream, wrote, faults>>

Nothing == [f \in Fields |-> Absent]
Fresh == [f \in Fields |-> Blank]

Init ==
    /\ row = Fresh
    /\ pc = [r \in Reqs |-> "idle"]
    /\ patch = [r \in Reqs |-> Nothing]
    /\ loaded = [r \in Reqs |-> Fresh]
    /\ stream = <<>>
    /\ wrote = {}
    /\ after = [r \in Reqs |-> {}]
    /\ faults = 0

Answered == {r \in Reqs : pc[r] \in {"200", "401", "500"}}

Goto(r, place) == pc' = [pc EXCEPT ![r] = place]

\* The bearer header is missing, or its token does not decode: 401.
Unauthorized(r) ==
    /\ pc[r] = "idle"
    /\ Goto(r, "401")
    /\ UNCHANGED <<row, requestVars, stream, wrote, faults>>

\* get_user_by_id: a user whose token is valid exists, users are not deleted.
Read(r) ==
    /\ loaded' = [loaded EXCEPT ![r] = row]
    /\ after' = [after EXCEPT ![r] = Answered]
    /\ UNCHANGED <<row, stream, wrote, faults>>

GetMe(r) ==
    /\ pc[r] = "idle"
    /\ Read(r)
    /\ Goto(r, "200")
    /\ UNCHANGED patch

PatchMe(r, body) ==
    /\ pc[r] = "idle"
    /\ Read(r)
    /\ patch' = [patch EXCEPT ![r] = body]
    /\ Goto(r, "loaded")

Given(r) == {f \in Fields : patch[r][f] # Absent}

WrittenAll(r) == \* mutant: the whole row is written, as it was loaded
    [f \in Fields |-> IF f \in Given(r) THEN patch[r][f] ELSE loaded[r][f]]

\* update_user: the UPDATE of its flush.
Written(r) ==
    [f \in Fields |-> IF f \in Given(r) /\ patch[r][f] # loaded[r][f]
                      THEN patch[r][f] ELSE row[f]]

Flush(r) ==
    /\ row' = Written(r)
    /\ wrote' = wrote \cup {r}
    /\ UNCHANGED <<requestVars, stream>>

Commit(r) ==
    /\ pc[r] = "loaded"
    /\ Flush(r)
    /\ Goto(r, "committed")
    /\ UNCHANGED faults

ReloadSkipped(r) == \* mutant: the answer shows the row as it was first read
    /\ pc[r] = "committed"
    /\ Goto(r, "reloaded")
    /\ UNCHANGED <<row, requestVars, stream, wrote, faults>>

\* db.refresh after the commit.
Reload(r) ==
    /\ pc[r] = "committed"
    /\ loaded' = [loaded EXCEPT ![r] = row]
    /\ Goto(r, "reloaded")
    /\ UNCHANGED <<row, patch, after, stream, wrote, faults>>

\* What the event says of its fields: those given, changed or not.
ToldChanged(r) == {f \in Given(r) : loaded[r][f] # patch[r][f]}
                  \* mutant: only what differs from the row, read again
Told(r) == Given(r)

Event(r) == [request |-> r, changes |-> [f \in Told(r) |-> patch[r][f]]]

\* The event, then the answer, built from the row that was read again.
Publish(r) ==
    /\ pc[r] = "reloaded"
    /\ stream' = Append(stream, Event(r))
    /\ Goto(r, "200")
    /\ UNCHANGED <<row, requestVars, wrote, faults>>

\* A call raises, whether it was executed or not, or the process dies: the
\* client is told 500, or nothing.
Raise(r) ==
    /\ faults < MaxFaults
    /\ faults' = faults + 1
    /\ Goto(r, "500")
    /\ \/ pc[r] \in {"loaded", "committed", "reloaded"}
          /\ UNCHANGED <<row, requestVars, stream, wrote>>
       \/ pc[r] = "loaded" /\ Flush(r)
       \/ pc[r] = "reloaded" /\ stream' = Append(stream, Event(r))
          /\ UNCHANGED <<row, requestVars, wrote>>

Next ==
    \E r \in Reqs :
        \/ Unauthorized(r) \/ GetMe(r) \/ \E body \in Patches : PatchMe(r, body)
        \/ Commit(r) \/ Reload(r) \/ Publish(r) \/ Raise(r)

Spec == Init /\ [][Next]_vars

-----------------------------------------------------------------------------
TypeOK ==
    /\ row \in [Fields -> Values]
    /\ pc \in [Reqs -> {"idle", "loaded", "committed", "reloaded", "200", "401",
                        "500"}]
    /\ patch \in [Reqs -> [Fields -> Values \cup {Absent}]]
    /\ loaded \in [Reqs -> [Fields -> Values]]
    /\ after \in [Reqs -> SUBSET Reqs]
    /\ wrote \subseteq Reqs
    /\ faults \in 0..MaxFaults

Writers(f) == {r \in wrote : f \in Given(r)}

\* v is a value of field f that a client who knows of the writers in W may be
\* shown: none of them came after the writer of v had been answered.
Current(f, v, W) ==
    \/ W = {} /\ v = Blank
    \/ \E q \in Writers(f) : v = patch[q][f] /\ \A r \in W : q \notin after[r]

\* No update is lost: a field holds what a PATCH gave it, and no PATCH that
\* came after that one was answered gave it something else.
NoPatchUndone == \A f \in Fields : Current(f, row[f], Writers(f))

\* The answer is no older than the request: it shows the effect of every PATCH
\* answered before the request came, and of the request itself.
AnswerIsCurrent ==
    \A r \in Reqs : pc[r] = "200" => \A f \in Fields :
        Current(f, loaded[r][f], Writers(f) \cap (after[r] \cup {r}))

\* What a reader of the stream takes a field to be: the last it was told.
Tellings(f) == {k \in DOMAIN stream : f \in DOMAIN stream[k].changes}
Projection(f) ==
    IF Tellings(f) = {} THEN Blank
    ELSE stream[CHOOSE k \in Tellings(f) : \A l \in Tellings(f) : l <= k].changes[f]

Overlap(q, r) == q \notin after[r] /\ r \notin after[q]

\* user.updated keeps a copy of the profile true, unless a PATCH of the field
\* failed: when no request is left the copy and the row agree, or two PATCHes
\* that overlapped gave them their values (their events came in the other
\* order than their commits).
EventsTellProfile ==
    (\A r \in Reqs : pc[r] \in {"idle", "200", "401", "500"}) =>
        \A f \in Fields : (\A r \in Writers(f) : pc[r] = "200") =>
            \/ Projection(f) = row[f]
            \/ \E q, r \in Writers(f) : /\ patch[q][f] = row[f]
                                         /\ patch[r][f] = Projection(f)
                                         /\ Overlap(q, r)

=============================================================================
