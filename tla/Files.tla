------------------------------- MODULE Files -------------------------------
(***************************************************************************)
(* files-service: the avatar of a user is a row of media_resources and an  *)
(* object in MinIO, written and deleted in separate steps by request       *)
(* threads that share nothing but the database, the bucket and one MinIO   *)
(* client.  To sign a public URL a thread points that client at the public *)
(* endpoint for a moment.  auth-service reads avatars through the internal *)
(* router, which builds a client of its own for every request.             *)
(*                                                                         *)
(* A row and its object key are drawn together and have one number.        *)
(* Uploads that fail validation and requests that answer 404 or 403 change *)
(* nothing and are left out.                                               *)
(***************************************************************************)
EXTENDS Naturals, FiniteSets

CONSTANTS Users, NoUser,
          Threads,    \* requests served at the same time
          MaxMedia,   \* bound: uploads
          MaxFaults,  \* bound: exceptions raised by the database or MinIO
          MaxCrashes  \* bound: deaths of the process

ASSUME FilesAssumption ==
    /\ NoUser \notin Users
    /\ MaxMedia \in Nat /\ MaxFaults \in Nat /\ MaxCrashes \in Nat
    /\ IsFiniteSet(Threads)

Media == 1..MaxMedia
None == 0
Internal == "internal"
Public == "public"

VARIABLES
    drawn,      \* keys drawn by uploads
    owner,      \* user_id of each row
    rows,       \* committed rows of media_resources
    objects,    \* objects in the bucket
    base,       \* _base_url of the client in app.state.storage
    pc,         \* request threads
    old, new,   \* the row a request found; the row it is to insert
    saved,      \* original_base_url of presigned_get_url
    announced,  \* user.avatar.changed events, by row
    hosts,      \* history: the endpoints public URLs were signed with
    stored,     \* history: objects ever put
    committed,  \* history: rows ever committed
    current,    \* history: the row of the last upload answered 201, None
                \* after a delete answered 204
    contended,  \* history: users with two requests in flight that write
    disturbed,  \* history: users one of whose requests was cut short
    crowded,    \* history: two threads were in presigned_get_url at once
    faults, crashes

dbVars == <<drawn, owner, rows, committed>>
objectVars == <<objects, stored>>
locals == <<pc, old, new, saved>>
userHistory == <<current, contended, disturbed>>
signVars == <<base, hosts, crowded>>
budget == <<faults, crashes>>
vars == <<dbVars, objectVars, locals, announced, userHistory, signVars, budget>>

RowsOf(u) == {m \in rows : owner[m] = u}

Writing == {"delObj", "delRow", "put", "commit", "answer"}
Signing == {"check", "save", "swap", "sign", "signDirect", "restore"}
Places == {"idle", "summary"} \cup Writing \cup Signing

\* The user a thread writes for.
WriterOf(th) == IF new[th] # None THEN owner[new[th]] ELSE owner[old[th]]
Busy(u) == \E th \in Threads : pc[th] \in Writing /\ WriterOf(th) = u

Init ==
    /\ drawn = 0
    /\ owner = [m \in Media |-> NoUser]
    /\ rows = {} /\ committed = {}
    /\ objects = {} /\ stored = {}
    /\ base = Internal
    /\ pc = [th \in Threads |-> "idle"]
    /\ old = [th \in Threads |-> None]
    /\ new = [th \in Threads |-> None]
    /\ saved = [th \in Threads |-> Internal]
    /\ announced = {}
    /\ hosts = {}
    /\ current = [u \in Users |-> None]
    /\ contended = {} /\ disturbed = {}
    /\ crowded = FALSE
    /\ faults = 0 /\ crashes = 0

Goto(th, place) == pc' = [pc EXCEPT ![th] = place]

\* The end of a request.
End(th) ==
    /\ Goto(th, "idle")
    /\ old' = [old EXCEPT ![th] = None]
    /\ new' = [new EXCEPT ![th] = None]
    /\ saved' = [saved EXCEPT ![th] = Internal]

NoteWriter(u) == contended' = IF Busy(u) THEN contended \cup {u} ELSE contended

-----------------------------------------------------------------------------
(* upload_my_avatar and delete_my_avatar: MediaManager *)

\* get_avatar: .first() of the rows of the user, in no particular order.
Found(u, m) == m \in RowsOf(u) \/ (m = None /\ RowsOf(u) = {})

UploadInserts(th, u) == \* mutant: the existing row is not looked for
    /\ pc[th] = "idle" /\ drawn < MaxMedia
    /\ drawn' = drawn + 1
    /\ owner' = [owner EXCEPT ![drawn'] = u]
    /\ new' = [new EXCEPT ![th] = drawn']
    /\ Goto(th, "put")
    /\ NoteWriter(u)
    /\ UNCHANGED <<rows, committed, objectVars, old, saved, announced, current,
                   disturbed, signVars, budget>>

UploadCommitsFirst(th, u) == \* mutant: the object is never put
    /\ pc[th] = "idle" /\ drawn < MaxMedia
    /\ RowsOf(u) = {}
    /\ drawn' = drawn + 1
    /\ owner' = [owner EXCEPT ![drawn'] = u]
    /\ new' = [new EXCEPT ![th] = drawn']
    /\ Goto(th, "commit")
    /\ NoteWriter(u)
    /\ UNCHANGED <<rows, committed, objectVars, old, saved, announced, current,
                   disturbed, signVars, budget>>

\* upload_avatar draws a key and reads the row it is to replace.
Upload(th, u) ==
    /\ pc[th] = "idle" /\ drawn < MaxMedia
    /\ drawn' = drawn + 1
    /\ owner' = [owner EXCEPT ![drawn'] = u]
    /\ new' = [new EXCEPT ![th] = drawn']
    /\ \E m \in Media \cup {None} :
         /\ Found(u, m)
         /\ old' = [old EXCEPT ![th] = m]
         /\ Goto(th, IF m = None THEN "put" ELSE "delObj")
    /\ NoteWriter(u)
    /\ UNCHANGED <<rows, committed, objectVars, saved, announced, current,
                   disturbed, signVars, budget>>

\* delete_avatar.
Delete(th, u) ==
    /\ pc[th] = "idle"
    /\ \E m \in RowsOf(u) : old' = [old EXCEPT ![th] = m]
    /\ Goto(th, "delObj")
    /\ NoteWriter(u)
    /\ UNCHANGED <<dbVars, objectVars, new, saved, announced, current,
                   disturbed, signVars, budget>>

RemoveNothing(th) == UNCHANGED objectVars \* mutant: every S3Error is swallowed

\* What the calls of a writer do to MinIO and to the database.  An object that
\* is gone already is no error, and neither is a row: the DELETE by primary key
\* then matches nothing.
RemoveObject(th) == objects' = objects \ {old[th]} /\ UNCHANGED stored

StoreObject(th) ==
    /\ objects' = objects \cup {new[th]}
    /\ stored' = stored \cup {new[th]}

KeepRow(th) == UNCHANGED <<rows, committed>> \* mutant: db.delete is forgotten

RemoveRow(th) == rows' = rows \ {old[th]} /\ UNCHANGED committed
InsertRow(th) ==
    /\ rows' = rows \cup {new[th]}
    /\ committed' = committed \cup {new[th]}

Quiet(th) == UNCHANGED <<drawn, owner, old, new, saved, announced, userHistory,
                         signVars, budget>>

DeleteObject(th) ==
    /\ pc[th] = "delObj"
    /\ RemoveObject(th)
    /\ Goto(th, "delRow")
    /\ UNCHANGED <<rows, committed>> /\ Quiet(th)

DeleteRow(th) ==
    /\ pc[th] = "delRow"
    /\ RemoveRow(th)
    /\ Goto(th, IF new[th] = None THEN "answer" ELSE "put")
    /\ UNCHANGED objectVars /\ Quiet(th)

\* The INSERT is flushed, but nobody sees the row before the commit.
PutObject(th) ==
    /\ pc[th] = "put"
    /\ StoreObject(th)
    /\ Goto(th, "commit")
    /\ UNCHANGED <<rows, committed>> /\ Quiet(th)

CommitRow(th) ==
    /\ pc[th] = "commit"
    /\ InsertRow(th)
    /\ Goto(th, "answer")
    /\ UNCHANGED objectVars /\ Quiet(th)

\* The event is published, or lost: _publish_event swallows every exception.
Answer(th) ==
    /\ pc[th] = "answer"
    /\ \/ announced' = announced \cup ({new[th]} \ {None})
       \/ UNCHANGED announced
    /\ current' = [current EXCEPT ![WriterOf(th)] = new[th]]
    /\ End(th)
    /\ UNCHANGED <<dbVars, objectVars, contended, disturbed, signVars, budget>>

\* MinIO or the database raises: the call may have been executed or not.  The
\* request answers 500 and its transaction is rolled back.
Raise(th) ==
    /\ pc[th] \in Writing \ {"answer"}
    /\ faults < MaxFaults
    /\ faults' = faults + 1
    /\ \/ UNCHANGED <<rows, committed, objectVars>>
       \/ pc[th] = "delObj" /\ RemoveObject(th) /\ UNCHANGED <<rows, committed>>
       \/ pc[th] = "delRow" /\ RemoveRow(th) /\ UNCHANGED objectVars
       \/ pc[th] = "put" /\ StoreObject(th) /\ UNCHANGED <<rows, committed>>
       \/ pc[th] = "commit" /\ InsertRow(th) /\ UNCHANGED objectVars
    /\ disturbed' = disturbed \cup {WriterOf(th)}
    /\ End(th)
    /\ UNCHANGED <<drawn, owner, announced, current, contended, signVars,
                   crashes>>

Write(th) == DeleteObject(th) \/ DeleteRow(th) \/ PutObject(th)
             \/ CommitRow(th) \/ Answer(th) \/ Raise(th)

-----------------------------------------------------------------------------
(* get_my_avatar and presign_media_public: MinioBackend.presigned_get_url on
   the client all threads share *)

signLocals == <<old, new>>
DataUnchanged == UNCHANGED <<dbVars, objectVars, announced, userHistory, budget>>

\* The row is one of the caller's own.
Presign(th, u) ==
    /\ pc[th] = "idle"
    /\ \E m \in RowsOf(u) : old' = [old EXCEPT ![th] = m]
    /\ Goto(th, "check")
    /\ crowded' = (crowded \/ \E t \in Threads : pc[t] \in Signing)
    /\ UNCHANGED <<base, hosts, new, saved>> /\ DataUnchanged

\* A client whose endpoint is the public one signs as it is.
Check(th) ==
    /\ pc[th] = "check"
    /\ Goto(th, IF base = Public THEN "signDirect" ELSE "save")
    /\ UNCHANGED <<signVars, signLocals, saved>> /\ DataUnchanged

Save(th) ==
    /\ pc[th] = "save"
    /\ saved' = [saved EXCEPT ![th] = base]
    /\ Goto(th, "swap")
    /\ UNCHANGED <<signVars, signLocals>> /\ DataUnchanged

Swap(th) ==
    /\ pc[th] = "swap"
    /\ base' = Public
    /\ Goto(th, "sign")
    /\ UNCHANGED <<hosts, crowded, signLocals, saved>> /\ DataUnchanged

SignNoFinally(th) == \* mutant: an exception skips the restoration
    /\ pc[th] = "sign"
    /\ \/ hosts' = hosts \cup {base} /\ Goto(th, "restore") /\ UNCHANGED <<signLocals, saved>>
       \/ UNCHANGED hosts /\ End(th)
    /\ UNCHANGED <<base, crowded>> /\ DataUnchanged

\* The URL carries the endpoint the client has now; signing may raise (it asks
\* MinIO for the region), and the finally clause restores the endpoint anyway.
Sign(th) ==
    /\ pc[th] = "sign"
    /\ hosts' = hosts \cup {base} \/ UNCHANGED hosts
    /\ Goto(th, "restore")
    /\ UNCHANGED <<base, crowded, signLocals, saved>> /\ DataUnchanged

SignDirect(th) ==
    /\ pc[th] = "signDirect"
    /\ hosts' = hosts \cup {base} \/ UNCHANGED hosts
    /\ End(th)
    /\ UNCHANGED <<base, crowded>> /\ DataUnchanged

Restore(th) ==
    /\ pc[th] = "restore"
    /\ base' = saved[th]
    /\ End(th)
    /\ UNCHANGED <<hosts, crowded>> /\ DataUnchanged

PublicUrl(th) == Check(th) \/ Save(th) \/ Swap(th) \/ Sign(th) \/ SignDirect(th)
                 \/ Restore(th)

-----------------------------------------------------------------------------
(* get_avatar_summary of auth-service: two requests to the internal router *)

Summary(th, u) ==
    /\ pc[th] = "idle"
    /\ \E m \in RowsOf(u) : old' = [old EXCEPT ![th] = m]
    /\ Goto(th, "summary")
    /\ UNCHANGED <<new, saved, signVars>> /\ DataUnchanged

\* The row may be gone by now: 404, and the summary says there is no avatar.
\* Otherwise the URL is signed by a client nobody else has.
SummaryUrl(th) ==
    /\ pc[th] = "summary"
    /\ \/ old[th] \in rows /\ hosts' = hosts \cup {Public}
       \/ UNCHANGED hosts
    /\ End(th)
    /\ UNCHANGED <<base, crowded>> /\ DataUnchanged

-----------------------------------------------------------------------------
\* The process dies with all its requests and starts with a new client.
Crash ==
    /\ crashes < MaxCrashes
    /\ crashes' = crashes + 1
    /\ disturbed' = disturbed \cup {u \in Users : Busy(u)}
    /\ pc' = [th \in Threads |-> "idle"]
    /\ old' = [th \in Threads |-> None]
    /\ new' = [th \in Threads |-> None]
    /\ saved' = [th \in Threads |-> Internal]
    /\ base' = Internal
    /\ UNCHANGED <<dbVars, objectVars, announced, current, contended, hosts,
                   crowded, faults>>

Next ==
    \/ Crash
    \/ \E th \in Threads :
         \/ Write(th) \/ PublicUrl(th) \/ SummaryUrl(th)
         \/ \E u \in Users : \/ Upload(th, u) \/ Delete(th, u)
                             \/ Presign(th, u) \/ Summary(th, u)

Spec == Init /\ [][Next]_vars

-----------------------------------------------------------------------------
TypeOK ==
    /\ drawn \in 0..MaxMedia
    /\ owner \in [Media -> Users \cup {NoUser}]
    /\ \A m \in Media : (m <= drawn) <=> (owner[m] \in Users)
    /\ rows \subseteq 1..drawn /\ committed \subseteq 1..drawn
    /\ objects \subseteq 1..drawn /\ stored \subseteq 1..drawn
    /\ base \in {Internal, Public}
    /\ pc \in [Threads -> Places]
    /\ old \in [Threads -> 0..drawn] /\ new \in [Threads -> 0..drawn]
    /\ saved \in [Threads -> {Internal, Public}]
    /\ announced \subseteq 1..drawn
    /\ hosts \subseteq {Internal, Public}
    /\ current \in [Users -> 0..drawn]
    /\ contended \subseteq Users /\ disturbed \subseteq Users
    /\ crowded \in BOOLEAN
    /\ faults \in 0..MaxFaults /\ crashes \in 0..MaxCrashes

\* A row is committed only when its object has been put, and an event names
\* only rows that were committed, whatever is raised in between.
InOrder ==
    /\ rows \subseteq committed
    /\ committed \subseteq stored
    /\ announced \subseteq committed

\* Rows without an object and objects without a row that no request in flight
\* is about to settle.
Dangling == {m \in rows \ objects : \A th \in Threads :
                                      ~(pc[th] = "delRow" /\ old[th] = m)}
Orphans == {m \in objects \ rows : \A th \in Threads :
                                     ~(pc[th] = "commit" /\ new[th] = m)}

\* Concurrency alone never separates a row from its object: each exception or
\* crash leaves at most one such pair per request it cuts short.
DamageBounded ==
    Cardinality(Dangling) + Cardinality(Orphans)
        <= faults + crashes * Cardinality(Threads)

\* A user has one avatar row, even after exceptions and crashes, until two of
\* the user's uploads or deletes overlap.
OneRowUnlessContended ==
    \A u \in Users \ contended : Cardinality(RowsOf(u)) <= 1

\* For a user whose requests neither overlapped nor failed, the last upload
\* that was answered is the avatar, with its object; after a delete, none is.
LastUploadIsServed ==
    \A u \in Users \ (contended \cup disturbed) : ~Busy(u) =>
        /\ RowsOf(u) = {current[u]} \ {None}
        /\ RowsOf(u) \subseteq objects

\* While no two threads sign at once, every URL handed out is for the public
\* endpoint and the client is back at the internal one after each signature.
EndpointRestored ==
    ~crowded =>
        /\ hosts \subseteq {Public}
        /\ (\A th \in Threads : pc[th] \notin {"sign", "restore"}) => base = Internal

=============================================================================
