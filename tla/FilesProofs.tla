---------------------------- MODULE FilesProofs ----------------------------
(***************************************************************************)
(* Theorems about Files, for any numbers of users, request threads,        *)
(* uploads, exceptions and crashes.                                        *)
(***************************************************************************)
EXTENDS Files, FiniteSetTheorems, TLAPS

\* The rows a writing thread works on are of one user.
OneUser(th) ==
    /\ pc[th] \notin Writing => new[th] = None
    /\ pc[th] \in Writing => new[th] # None \/ old[th] # None
    /\ pc[th] \in {"delObj", "delRow"} => old[th] # None
    /\ pc[th] \in {"put", "commit"} => new[th] # None
    /\ old[th] # None /\ new[th] # None => owner[old[th]] = owner[new[th]]

Typed == TypeOK /\ \A th \in Threads : OneUser(th)

\* A step of one thread leaves the others alone.
Frame(th) ==
    \A t \in Threads \ {th} :
        pc'[t] = pc[t] /\ old'[t] = old[t] /\ new'[t] = new[t] /\ saved'[t] = saved[t]

Starts(th) == \E u \in Users : \/ Upload(th, u) \/ Delete(th, u)
                               \/ Presign(th, u) \/ Summary(th, u)
StepOf(th) == Write(th) \/ PublicUrl(th) \/ SummaryUrl(th) \/ Starts(th)

LEMMA Alone ==
    ASSUME TypeOK, NEW th \in Threads, StepOf(th)
    PROVE  Frame(th)
<1> USE DEF TypeOK, Goto, locals, signLocals, Frame, End
<1>1. CASE Write(th)
  BY <1>1 DEF Write, DeleteObject, DeleteRow, PutObject, CommitRow, Quiet, Answer, Raise
<1>2. CASE PublicUrl(th)
  BY <1>2 DEF PublicUrl, Check, Save, Swap, Sign, SignDirect, Restore
<1>3. CASE SummaryUrl(th)
  BY <1>3 DEF SummaryUrl
<1>4. CASE Starts(th)
  BY <1>4 DEF Starts, Upload, Delete, Presign, Summary
<1> QED
  BY <1>1, <1>2, <1>3, <1>4 DEF StepOf

-----------------------------------------------------------------------------
\* The numbers of rows and the places of threads.
LEMMA UploadType ==
    ASSUME TypeOK, NEW th \in Threads, NEW u \in Users, Upload(th, u)
    PROVE  TypeOK' /\ OneUser(th)'
<1>1. /\ drawn' \in 1..MaxMedia /\ drawn' = drawn + 1 /\ drawn \in Nat
      /\ owner' = [owner EXCEPT ![drawn'] = u]
      /\ drawn' \in Media
  BY FilesAssumption DEF TypeOK, Upload, Media
<1>2. PICK m \in Media \cup {None} :
          /\ Found(u, m)
          /\ old' = [old EXCEPT ![th] = m]
          /\ Goto(th, IF m = None THEN "put" ELSE "delObj")
  BY DEF Upload
<1>3. m \in 0..drawn /\ (m # None => owner[m] = u)
  BY <1>2, <1>1 DEF TypeOK, Found, RowsOf, None
<1>4. owner' \in [Media -> Users \cup {NoUser}]
      /\ \A x \in Media : (x <= drawn') <=> (owner'[x] \in Users)
  BY <1>1, FilesAssumption DEF TypeOK, Media
<1>5. old' \in [Threads -> 0..drawn'] /\ new' \in [Threads -> 0..drawn']
  BY <1>1, <1>2, <1>3 DEF TypeOK, Upload
<1>6. pc' \in [Threads -> Places]
  BY <1>2 DEF TypeOK, Goto, Places, Writing
<1>7. contended' \subseteq Users
  BY DEF Upload, NoteWriter, TypeOK
<1>8. current' \in [Users -> 0..drawn']
  BY <1>1 DEF Upload, TypeOK
<1>9. TypeOK'
  BY <1>1, <1>4, <1>5, <1>6, <1>7, <1>8
  DEF TypeOK, Upload, objectVars, signVars, budget
<1>10. OneUser(th)'
  <2>1. new'[th] = drawn' /\ old'[th] = m /\ pc'[th] = IF m = None THEN "put" ELSE "delObj"
    BY <1>2 DEF Upload, TypeOK, Goto
  <2>2. m # None => owner'[m] = u /\ owner'[drawn'] = u
    BY <1>1, <1>3 DEF TypeOK
  <2>3. drawn' # None
    BY <1>1 DEF None
  <2> QED
    BY <2>1, <2>2, <2>3 DEF OneUser, Writing
<1> QED
  BY <1>9, <1>10

LEMMA EndType ==
    ASSUME TypeOK, NEW th \in Threads, End(th), drawn' = drawn
    PROVE  /\ pc' \in [Threads -> Places] /\ saved' \in [Threads -> {Internal, Public}]
           /\ old' \in [Threads -> 0..drawn'] /\ new' \in [Threads -> 0..drawn']
           /\ OneUser(th)'
<1>1. 0 \in 0..drawn
  BY DEF TypeOK
<1> QED
  BY <1>1 DEF TypeOK, End, Goto, Places, OneUser, Writing, None

\* Who writes for which user, and which rows are touched.
LEMMA WriterType ==
    ASSUME Typed, NEW th \in Threads, pc[th] \in Writing
    PROVE  /\ WriterOf(th) \in Users
           /\ old[th] # None => old[th] \in 1..drawn /\ owner[old[th]] = WriterOf(th)
           /\ new[th] # None => new[th] \in 1..drawn /\ owner[new[th]] = WriterOf(th)
<1>1. drawn \in Nat /\ MaxMedia \in Nat /\ drawn <= MaxMedia
  BY FilesAssumption DEF Typed, TypeOK
<1>2. old[th] \in 0..drawn /\ new[th] \in 0..drawn /\ OneUser(th)
  BY DEF Typed, TypeOK
<1>3. \A m \in 1..drawn : owner[m] \in Users
  BY <1>1 DEF Typed, TypeOK, Media
<1> QED
  BY <1>1, <1>2, <1>3 DEF OneUser, WriterOf, None

LEMMA WriteType ==
    ASSUME Typed, NEW th \in Threads, Write(th)
    PROVE  TypeOK' /\ OneUser(th)'
<1>1. /\ pc[th] \in Writing /\ OneUser(th)
      /\ drawn' = drawn /\ owner' = owner
  BY DEF Write, DeleteObject, DeleteRow, PutObject, CommitRow, Quiet, Answer, Raise,
         Writing, Typed, dbVars
<1>2. /\ new[th] # None => new[th] \in 1..drawn
      /\ WriterOf(th) \in Users
  BY <1>1, WriterType
<1>3. /\ rows' = rows \/ RemoveRow(th) \/ (InsertRow(th) /\ pc[th] = "commit")
      /\ committed' = committed \/ (InsertRow(th) /\ pc[th] = "commit")
      /\ objects' = objects \/ RemoveObject(th) \/ (StoreObject(th) /\ pc[th] = "put")
      /\ stored' = stored \/ (StoreObject(th) /\ pc[th] = "put")
  BY DEF Write, DeleteObject, DeleteRow, PutObject, CommitRow, Quiet, Answer, Raise,
         RemoveRow, InsertRow, RemoveObject, StoreObject, dbVars, objectVars
<1>4. rows' \subseteq 1..drawn /\ committed' \subseteq 1..drawn
  BY <1>1, <1>2, <1>3 DEF Typed, TypeOK, OneUser, RemoveRow, InsertRow
<1>5. objects' \subseteq 1..drawn /\ stored' \subseteq 1..drawn
  BY <1>1, <1>2, <1>3 DEF Typed, TypeOK, OneUser, RemoveObject, StoreObject
<1>6. UNCHANGED <<base, hosts, contended, crowded, crashes>>
  BY DEF Write, DeleteObject, DeleteRow, PutObject, CommitRow, Quiet, Answer, Raise,
         signVars, userHistory, budget
<1>7. faults' \in 0..MaxFaults
  BY FilesAssumption
  DEF Write, DeleteObject, DeleteRow, PutObject, CommitRow, Quiet, Answer, Raise,
      budget, Typed, TypeOK
<1>8. announced' \subseteq 1..drawn
  <2>1. announced' = announced \/ announced' = announced \cup ({new[th]} \ {None})
    BY DEF Write, DeleteObject, DeleteRow, PutObject, CommitRow, Quiet, Answer, Raise
  <2> QED
    BY <1>2, <2>1 DEF Typed, TypeOK
<1>9. current' \in [Users -> 0..drawn]
  <2>1. current' = current \/ current' = [current EXCEPT ![WriterOf(th)] = new[th]]
    BY DEF Write, DeleteObject, DeleteRow, PutObject, CommitRow, Quiet, Answer, Raise,
           userHistory
  <2> QED
    BY <1>2, <2>1 DEF Typed, TypeOK
<1>10. disturbed' \subseteq Users
  <2>1. disturbed' = disturbed \/ disturbed' = disturbed \cup {WriterOf(th)}
    BY DEF Write, DeleteObject, DeleteRow, PutObject, CommitRow, Quiet, Answer, Raise,
           userHistory
  <2> QED
    BY <1>2, <2>1 DEF Typed, TypeOK
<1>11. /\ pc' \in [Threads -> Places] /\ saved' \in [Threads -> {Internal, Public}]
       /\ old' \in [Threads -> 0..drawn'] /\ new' \in [Threads -> 0..drawn']
       /\ OneUser(th)'
  <2>1. CASE Answer(th) \/ Raise(th)
    BY <1>1, <2>1, EndType DEF Answer, Raise, Typed
  <2>2. CASE DeleteObject(th) \/ DeleteRow(th) \/ PutObject(th) \/ CommitRow(th)
    BY <1>1, <2>2 DEF DeleteObject, DeleteRow, PutObject, CommitRow, Quiet, Goto, Typed,
                      TypeOK, Places, Writing, OneUser
  <2> QED
    BY <2>1, <2>2 DEF Write
<1> QED
  BY <1>1, <1>4, <1>5, <1>6, <1>7, <1>8, <1>9, <1>10, <1>11 DEF Typed, TypeOK

LEMMA ReadType ==
    ASSUME Typed, NEW th \in Threads,
           \/ PublicUrl(th) \/ SummaryUrl(th)
           \/ \E u \in Users : Delete(th, u) \/ Presign(th, u) \/ Summary(th, u)
    PROVE  TypeOK' /\ OneUser(th)'
<1>1. UNCHANGED <<drawn, owner, rows, committed, objects, stored, announced, current,
                  disturbed, faults, crashes>>
  BY DEF PublicUrl, Check, Save, Swap, Sign, SignDirect, Restore, SummaryUrl, Delete,
         Presign, Summary, DataUnchanged, dbVars, objectVars, userHistory, budget
<1>2. contended' \subseteq Users
  BY DEF PublicUrl, Check, Save, Swap, Sign, SignDirect, Restore, SummaryUrl, Delete,
         Presign, Summary, DataUnchanged, userHistory, NoteWriter, Typed, TypeOK
<1>3. /\ base' \in {Internal, Public} /\ hosts' \subseteq {Internal, Public}
      /\ crowded' \in BOOLEAN
  BY DEF PublicUrl, Check, Save, Swap, Sign, SignDirect, Restore, SummaryUrl, Delete,
         Presign, Summary, signVars, Typed, TypeOK
<1>4. /\ pc' \in [Threads -> Places] /\ saved' \in [Threads -> {Internal, Public}]
      /\ old' \in [Threads -> 0..drawn'] /\ new' \in [Threads -> 0..drawn']
      /\ OneUser(th)'
  <2>1. CASE SignDirect(th) \/ Restore(th) \/ SummaryUrl(th)
    BY <1>1, <2>1, EndType DEF SignDirect, Restore, SummaryUrl, Typed
  <2>2. CASE Check(th) \/ Save(th) \/ Swap(th) \/ Sign(th)
    BY <1>1, <2>2 DEF Check, Save, Swap, Sign, Goto, signLocals, Typed, TypeOK, Places,
                      Signing, Writing, OneUser
  <2>3. CASE \E u \in Users : Delete(th, u) \/ Presign(th, u) \/ Summary(th, u)
    <3>1. PICK m \in 1..drawn :
              /\ old' = [old EXCEPT ![th] = m] /\ new' = new /\ saved' = saved
              /\ \E p \in {"delObj", "check", "summary"} : Goto(th, p)
              /\ pc[th] = "idle"
      BY <2>3 DEF Delete, Presign, Summary, RowsOf, Typed, TypeOK
    <3> QED
      BY <1>1, <3>1 DEF Goto, Typed, TypeOK, Places, Signing, Writing, OneUser, None
  <2> QED
    BY <2>1, <2>2, <2>3 DEF PublicUrl
<1> QED
  BY <1>1, <1>2, <1>3, <1>4 DEF Typed, TypeOK

\* The state always has its type: a thread only works on rows that were drawn,
\* and those it deletes and inserts are of one user.
THEOREM TypeCorrect == Spec => []Typed
<1>1. Init => Typed
  <2> SUFFICES ASSUME Init PROVE Typed
    OBVIOUS
  <2>1. \A m \in Media : (m <= drawn) <=> (owner[m] \in Users)
    BY FilesAssumption DEF Init, Media
  <2>2. /\ drawn \in 0..MaxMedia /\ 0 \in 0..drawn
        /\ faults \in 0..MaxFaults /\ crashes \in 0..MaxCrashes
    BY FilesAssumption DEF Init
  <2>3. TypeOK
    BY <2>1, <2>2 DEF Init, TypeOK, Places, None
  <2>4. ASSUME NEW th \in Threads PROVE OneUser(th)
    BY DEF Init, OneUser, Writing
  <2> QED
    BY <2>3, <2>4 DEF Typed
<1>2. Typed /\ [Next]_vars => Typed'
  <2> SUFFICES ASSUME Typed, [Next]_vars PROVE Typed'
    OBVIOUS
  <2>1. ASSUME NEW th \in Threads, StepOf(th) PROVE Typed'
    <3>1. TypeOK' /\ OneUser(th)'
      BY <2>1, WriteType, ReadType, UploadType DEF StepOf, Starts, Typed
    <3>2. \A m \in 1..drawn : owner'[m] = owner[m]
      <4>1. drawn \in Nat
        BY DEF Typed, TypeOK
      <4>2. CASE \E u \in Users : Upload(th, u)
        BY <4>1, <4>2 DEF Upload, Typed, TypeOK
      <4>3. CASE ~\E u \in Users : Upload(th, u)
        BY <2>1, <4>3
        DEF StepOf, Starts, Write, DeleteObject, DeleteRow, PutObject, CommitRow, Quiet,
            Answer, Raise, PublicUrl, Check, Save, Swap, Sign, SignDirect, Restore,
            SummaryUrl, Delete, Presign, Summary, DataUnchanged, dbVars
      <4> QED
        BY <4>2, <4>3
    <3>3. ASSUME NEW t \in Threads \ {th} PROVE OneUser(t)'
      <4>1. /\ pc'[t] = pc[t] /\ old'[t] = old[t] /\ new'[t] = new[t]
            /\ OneUser(t) /\ old[t] \in 0..drawn /\ new[t] \in 0..drawn
        BY <2>1, Alone DEF Typed, TypeOK, Frame
      <4>2. drawn \in Nat
        BY DEF Typed, TypeOK
      <4> QED
        BY <3>2, <4>1, <4>2 DEF OneUser, None
    <3> QED
      BY <3>1, <3>3 DEF Typed
  <2>2. CASE Crash
    BY <2>2, FilesAssumption
    DEF Crash, Typed, TypeOK, OneUser, Places, Writing, None, dbVars, objectVars, Busy
  <2>3. CASE UNCHANGED vars
    BY <2>3 DEF vars, Typed, TypeOK, OneUser, dbVars, objectVars, locals, userHistory,
                signVars, budget
  <2> QED
    BY <2>1, <2>2, <2>3 DEF Next, StepOf, Starts
<1> QED
  BY <1>1, <1>2, PTL DEF Spec

-----------------------------------------------------------------------------
\* What a thread has done before it goes on.
DoneBefore(th) ==
    /\ pc[th] = "commit" => new[th] \in stored
    /\ pc[th] = "answer" /\ new[th] # None => new[th] \in committed

Ordered == InOrder /\ \A th \in Threads : DoneBefore(th)

LEMMA OrderedWrite ==
    ASSUME Typed, Ordered, NEW th \in Threads, Write(th)
    PROVE  /\ InOrder' /\ DoneBefore(th)'
           /\ stored \subseteq stored' /\ committed \subseteq committed'
<1> USE DEF Typed, TypeOK, Ordered, InOrder, DoneBefore, Goto, None
<1>1. CASE DeleteObject(th)
  BY <1>1 DEF DeleteObject, RemoveObject, Quiet
<1>2. CASE DeleteRow(th)
  BY <1>2 DEF DeleteRow, RemoveRow, Quiet, objectVars
<1>3. CASE PutObject(th)
  BY <1>3 DEF PutObject, StoreObject, Quiet
<1>4. CASE CommitRow(th)
  BY <1>4 DEF CommitRow, InsertRow, Quiet, objectVars
<1>5. CASE Answer(th)
  BY <1>5 DEF Answer, End, dbVars, objectVars
<1>6. CASE Raise(th)
  BY <1>6 DEF Raise, End, RemoveObject, RemoveRow, StoreObject, InsertRow, objectVars
<1> QED
  BY <1>1, <1>2, <1>3, <1>4, <1>5, <1>6 DEF Write

\* A row never exists without its object having been stored first, and an event
\* never announces a row that was not committed, for any number of threads, and
\* whatever is raised.
THEOREM StepsInOrder == Spec => []InOrder
<1>1. Init => Ordered
  BY DEF Init, Ordered, InOrder, DoneBefore
<1>2. Typed /\ Ordered /\ [Next]_vars => Ordered'
  <2> SUFFICES ASSUME Typed, Ordered, [Next]_vars PROVE Ordered'
    OBVIOUS
  <2>1. ASSUME NEW th \in Threads, Write(th) PROVE Ordered'
    <3>1. ASSUME NEW t \in Threads \ {th} PROVE DoneBefore(t)'
      BY <2>1, Alone, OrderedWrite DEF StepOf, Frame, Typed, Ordered, DoneBefore
    <3> QED
      BY <2>1, <3>1, OrderedWrite DEF Ordered
  <2>2. ASSUME NEW th \in Threads,
               PublicUrl(th) \/ SummaryUrl(th) \/ Starts(th)
        PROVE  Ordered'
    <3>1. UNCHANGED <<rows, committed, stored, announced>>
      BY <2>2 DEF PublicUrl, Check, Save, Swap, Sign, SignDirect, Restore, SummaryUrl,
                  Starts, Upload, Delete, Presign, Summary, DataUnchanged, dbVars,
                  objectVars
    <3>2. pc'[th] \notin {"commit", "answer"}
      BY <2>2 DEF PublicUrl, Check, Save, Swap, Sign, SignDirect, Restore, SummaryUrl,
                  Starts, Upload, Delete, Presign, Summary, Goto, End, Typed, TypeOK
    <3>3. ASSUME NEW t \in Threads \ {th} PROVE DoneBefore(t)'
      BY <2>2, <3>1, Alone DEF StepOf, Frame, Typed, Ordered, DoneBefore
    <3> QED
      BY <3>1, <3>2, <3>3 DEF Ordered, InOrder, DoneBefore
  <2>3. CASE Crash
    BY <2>3 DEF Crash, Ordered, InOrder, DoneBefore, dbVars, objectVars
  <2>4. CASE UNCHANGED vars
    BY <2>4 DEF vars, Ordered, InOrder, DoneBefore, dbVars, objectVars, locals
  <2> QED
    BY <2>1, <2>2, <2>3, <2>4 DEF Next, Starts
<1> QED
  BY <1>1, <1>2, TypeCorrect, PTL DEF Spec, Ordered

-----------------------------------------------------------------------------
\* While one thread signs at a time, it finds the client at the internal
\* endpoint, and remembers that.
Alternating ==
    ~crowded =>
        /\ \A t1, t2 \in Threads : pc[t1] \in Signing /\ pc[t2] \in Signing => t1 = t2
        /\ \A th \in Threads :
             /\ pc[th] # "signDirect"
             /\ pc[th] \in {"swap", "sign", "restore"} => saved[th] = Internal
             /\ pc[th] = "sign" => base = Public

Restored == EndpointRestored /\ Alternating

LEMMA NotSigning ==
    ASSUME Typed, NEW th \in Threads,
           \/ Write(th)
           \/ \E u \in Users : Upload(th, u) \/ Delete(th, u) \/ Summary(th, u)
           \/ SummaryUrl(th)
    PROVE  /\ base' = base /\ crowded' = crowded
           /\ hosts' = hosts \/ hosts' = hosts \cup {Public}
           /\ pc[th] \notin Signing /\ pc'[th] \notin Signing
<1> USE DEF Typed, TypeOK, Goto, End, Writing, Signing, signVars
<1>1. CASE Write(th)
  BY <1>1 DEF Write, DeleteObject, DeleteRow, PutObject, CommitRow, Quiet, Answer, Raise
<1>2. CASE \E u \in Users : Upload(th, u) \/ Delete(th, u) \/ Summary(th, u)
  BY <1>2 DEF Upload, Delete, Summary
<1>3. CASE SummaryUrl(th)
  BY <1>3 DEF SummaryUrl
<1> QED
  BY <1>1, <1>2, <1>3

\* While no two threads sign at once, every URL is signed for the public
\* endpoint and the client is back at the internal one after each signature, also
\* when signing raises, and after a crash.
THEOREM EndpointIsRestored == Spec => []EndpointRestored
<1>1. Init => Restored
  BY DEF Init, Restored, EndpointRestored, Alternating, Signing
<1>2. Typed /\ Restored /\ [Next]_vars => Restored'
  <2> SUFFICES ASSUME Typed, Restored, [Next]_vars, ~crowded' PROVE Restored'
    BY DEF Restored, EndpointRestored, Alternating
  <2> USE DEF Restored, EndpointRestored, Alternating
  <2>1. ASSUME NEW th \in Threads, StepOf(th), PublicUrl(th) PROVE Restored'
    <3>1. ~crowded
      BY <2>1 DEF PublicUrl, Check, Save, Swap, Sign, SignDirect, Restore, signVars
    <3>2. pc[th] \in Signing /\ \A t \in Threads \ {th} : pc[t] \notin Signing
      BY <2>1, <3>1 DEF PublicUrl, Check, Save, Swap, Sign, SignDirect, Restore, Signing
    <3>3. \A t \in Threads \ {th} : pc'[t] \notin Signing
      BY <2>1, <3>2, Alone DEF Frame, Typed
    <3> USE DEF Typed, TypeOK, Goto, signVars, signLocals, End
    <3>4. CASE Check(th) \/ Save(th) \/ Swap(th)
      BY <3>1, <3>2, <3>3, <3>4 DEF Check, Save, Swap, Signing, Internal, Public
    <3>5. CASE Sign(th) \/ SignDirect(th) \/ Restore(th)
      BY <3>1, <3>2, <3>3, <3>5 DEF Sign, SignDirect, Restore, Signing, Internal, Public
    <3> QED
      BY <2>1, <3>4, <3>5 DEF PublicUrl
  <2>2. ASSUME NEW th \in Threads, StepOf(th), NEW u \in Users, Presign(th, u)
        PROVE  Restored'
    <3>1. ~crowded /\ \A t \in Threads : pc[t] \notin Signing
      BY <2>2 DEF Presign
    <3>2. base' = base /\ hosts' = hosts /\ pc'[th] = "check"
      BY <2>2 DEF Presign, Goto, Typed, TypeOK
    <3>3. \A t \in Threads \ {th} : pc'[t] \notin Signing
      BY <2>2, <3>1, Alone DEF Frame, Typed
    <3> QED
      BY <3>1, <3>2, <3>3 DEF Signing
  <2>3. ASSUME NEW th \in Threads, StepOf(th),
               \/ Write(th)
               \/ \E u \in Users : Upload(th, u) \/ Delete(th, u) \/ Summary(th, u)
               \/ SummaryUrl(th)
        PROVE  Restored'
    <3>1. \A t \in Threads \ {th} : pc'[t] = pc[t] /\ saved'[t] = saved[t]
      BY <2>3, Alone DEF Frame, Typed
    <3> QED
      BY <2>3, <3>1, NotSigning DEF Signing
  <2>4. CASE Crash
    BY <2>4 DEF Crash, Signing
  <2>5. CASE UNCHANGED vars
    BY <2>5 DEF vars, locals, signVars
  <2> QED
    BY <2>1, <2>2, <2>3, <2>4, <2>5 DEF Next, StepOf, Starts
<1> QED
  BY <1>1, <1>2, TypeCorrect, PTL DEF Spec, Restored

-----------------------------------------------------------------------------
WritesFor(th, u) == pc[th] \in Writing /\ WriterOf(th) = u

\* A user whose requests do not overlap has one writer at most, and no second
\* row that the writer does not know of.
OneRow(u) ==
    /\ \A t1, t2 \in Threads : WritesFor(t1, u) /\ WritesFor(t2, u) => t1 = t2
    /\ \A m1, m2 \in RowsOf(u) : m1 = m2
    /\ \A th \in Threads : WritesFor(th, u) =>
           /\ pc[th] \in {"delObj", "delRow"} => RowsOf(u) \subseteq {old[th]}
           /\ pc[th] \in {"put", "commit"} => RowsOf(u) = {}

\* If none of them failed either, the writer leaves the user with its own row.
Served(u) ==
    /\ ~Busy(u) => RowsOf(u) = {current[u]} \ {None} /\ RowsOf(u) \subseteq objects
    /\ \A th \in Threads : WritesFor(th, u) =>
           /\ pc[th] = "commit" => new[th] \in objects
           /\ pc[th] = "answer" => RowsOf(u) = {new[th]} \ {None}
                                   /\ RowsOf(u) \subseteq objects

Settled(u) ==
    /\ u \notin contended => OneRow(u)
    /\ u \notin contended \cup disturbed => Served(u)

LEMMA BusyWriters ==
    ASSUME NEW u
    PROVE  Busy(u) <=> \E th \in Threads : WritesFor(th, u)
BY DEF Busy, WritesFor

\* A step that changes nothing of a user.
LEMMA SettledStays ==
    ASSUME NEW u \in Users, Settled(u), RowsOf(u)' = RowsOf(u),
           RowsOf(u) \subseteq objects => RowsOf(u) \subseteq objects',
           contended \subseteq contended', disturbed \subseteq disturbed',
           current'[u] = current[u],
           \A t \in Threads : WritesFor(t, u)' <=> WritesFor(t, u),
           \A t \in Threads : WritesFor(t, u) =>
               /\ pc'[t] = pc[t] /\ old'[t] = old[t] /\ new'[t] = new[t]
               /\ pc[t] = "commit" /\ new[t] \in objects => new[t] \in objects'
    PROVE  Settled(u)'
<1>1. Busy(u)' <=> Busy(u)
  BY BusyWriters DEF Busy, WritesFor
<1>2. OneRow(u) => OneRow(u)'
  BY DEF OneRow
<1>3. Served(u) => Served(u)'
  BY <1>1 DEF Served
<1> QED
  BY <1>2, <1>3 DEF Settled

LEMMA WriterStays ==
    ASSUME Typed, NEW t \in Threads, NEW u,
           pc'[t] = pc[t], old'[t] = old[t], new'[t] = new[t],
           \A m \in 1..drawn : owner'[m] = owner[m]
    PROVE  WritesFor(t, u)' <=> WritesFor(t, u)
<1>1. pc[t] \in Writing => WriterOf(t)' = WriterOf(t)
  BY WriterType DEF WriterOf, Typed, OneUser
<1> QED
  BY <1>1 DEF WritesFor

\* The writer of another user.
LEMMA WriteElsewhere ==
    ASSUME Typed, NEW th \in Threads, Write(th), NEW u \in Users, u # WriterOf(th),
           Settled(u)
    PROVE  Settled(u)'
<1>1. pc[th] \in Writing /\ drawn' = drawn /\ owner' = owner /\ contended' = contended
  BY DEF Write, DeleteObject, DeleteRow, PutObject, CommitRow, Quiet, Answer, Raise,
         Writing, dbVars, userHistory
<1>2. /\ old[th] # None => owner[old[th]] # u
      /\ new[th] # None => owner[new[th]] # u
      /\ WriterOf(th) \in Users
  BY <1>1, WriterType
<1>3. /\ pc[th] \in {"delObj", "delRow"} => old[th] # None
      /\ pc[th] \in {"put", "commit"} => new[th] # None
  BY DEF Typed, OneUser
<1>4. /\ rows' = rows \/ (RemoveRow(th) /\ pc[th] = "delRow")
                      \/ (InsertRow(th) /\ pc[th] = "commit")
      /\ objects' = objects \/ (RemoveObject(th) /\ pc[th] = "delObj")
                            \/ (StoreObject(th) /\ pc[th] = "put")
  BY DEF Write, DeleteObject, DeleteRow, PutObject, CommitRow, Quiet, Answer, Raise,
         dbVars, objectVars
<1>5. RowsOf(u)' = RowsOf(u)
  BY <1>1, <1>2, <1>3, <1>4 DEF RowsOf, RemoveRow, InsertRow
<1>6. RowsOf(u) \subseteq objects => RowsOf(u) \subseteq objects'
  BY <1>2, <1>3, <1>4 DEF RowsOf, RemoveObject, StoreObject
<1>7. disturbed \subseteq disturbed' /\ current'[u] = current[u]
  BY <1>2 DEF Write, DeleteObject, DeleteRow, PutObject, CommitRow, Quiet, Answer, Raise,
              userHistory, Typed, TypeOK
<1>8. \A t \in Threads \ {th} : /\ pc'[t] = pc[t] /\ old'[t] = old[t] /\ new'[t] = new[t]
  BY Alone DEF StepOf, Frame, Typed
<1>9. \A t \in Threads \ {th} : WritesFor(t, u)' <=> WritesFor(t, u)
  BY <1>1, <1>8, WriterStays
<1>10. ~WritesFor(th, u) /\ ~WritesFor(th, u)'
  <2>1. CASE pc'[th] \in Writing
    <3>1. old'[th] = old[th] /\ new'[th] = new[th]
      BY <2>1 DEF Write, DeleteObject, DeleteRow, PutObject, CommitRow, Quiet, Answer,
                  Raise, End, Goto, Writing, Typed, TypeOK
    <3> QED
      BY <1>1, <3>1 DEF WritesFor, WriterOf
  <2>2. CASE pc'[th] \notin Writing
    BY <2>2 DEF WritesFor
  <2> QED
    BY <2>1, <2>2
<1>11. ASSUME NEW t \in Threads, WritesFor(t, u), pc[t] = "commit", new[t] \in objects
       PROVE  new[t] \in objects'
  <2>1. new[t] # None /\ owner[new[t]] = u
    BY <1>11, WriterType DEF WritesFor, Typed, OneUser
  <2> QED
    BY <1>2, <1>3, <1>4, <1>11, <2>1 DEF RemoveObject, StoreObject
<1> QED
  BY <1>1, <1>5, <1>6, <1>7, <1>8, <1>9, <1>10, <1>11, SettledStays

\* The writer of the user, when its requests do not overlap.
LEMMA WriteHere ==
    ASSUME Typed, NEW th \in Threads, Write(th), NEW u \in Users, u = WriterOf(th),
           Settled(u)
    PROVE  Settled(u)'
<1>1. /\ WritesFor(th, u) /\ drawn' = drawn /\ owner' = owner
      /\ contended' = contended /\ disturbed \subseteq disturbed'
      /\ OneUser(th)
  BY DEF Write, DeleteObject, DeleteRow, PutObject, CommitRow, Quiet, Answer, Raise,
         Writing, WritesFor, dbVars, userHistory, Typed
<1> SUFFICES ASSUME u \notin contended, OneRow(u),
                    u \notin disturbed' => Served(u)
             PROVE  OneRow(u)' /\ (u \notin disturbed' => Served(u)')
  BY <1>1 DEF Settled
<1>2. /\ old[th] # None => owner[old[th]] = u
      /\ new[th] # None => owner[new[th]] = u
  BY <1>1, WriterType DEF WritesFor
<1>3. \A t \in Threads \ {th} :
          /\ pc'[t] = pc[t] /\ old'[t] = old[t] /\ new'[t] = new[t]
          /\ ~WritesFor(t, u) /\ ~WritesFor(t, u)'
  <2>1. ASSUME NEW t \in Threads \ {th}
        PROVE  pc'[t] = pc[t] /\ old'[t] = old[t] /\ new'[t] = new[t]
    BY Alone DEF StepOf, Frame, Typed
  <2>2. ASSUME NEW t \in Threads \ {th} PROVE ~WritesFor(t, u)
    BY <1>1 DEF OneRow
  <2> QED
    BY <1>1, <2>1, <2>2, WriterStays
<1>4. \A t1, t2 \in Threads : WritesFor(t1, u)' /\ WritesFor(t2, u)' => t1 = t2
  BY <1>3
<1>5. pc'[th] \in Writing => Busy(u)'
  <2>1. CASE pc'[th] \in Writing
    <3>1. old'[th] = old[th] /\ new'[th] = new[th]
      BY <2>1 DEF Write, DeleteObject, DeleteRow, PutObject, CommitRow, Quiet, Answer,
                  Raise, End, Goto, Writing, Typed, TypeOK
    <3> QED
      BY <1>1, <2>1, <3>1 DEF Busy, WriterOf
  <2> QED
    BY <2>1
<1>6. Busy(u)' => pc'[th] \in Writing
  BY <1>3 DEF Busy, WritesFor
<1>7. \A m \in RowsOf(u) : owner[m] = u
  BY DEF RowsOf
<1> USE DEF Goto, Typed, TypeOK
<1>8. CASE DeleteObject(th)
  <2>1. /\ pc[th] = "delObj" /\ pc'[th] = "delRow" /\ old'[th] = old[th]
        /\ RowsOf(u)' = RowsOf(u)
    BY <1>8 DEF DeleteObject, Quiet, RowsOf
  <2>2. OneRow(u)'
    BY <1>1, <1>3, <1>4, <2>1 DEF OneRow
  <2>3. Served(u)'
    BY <1>3, <1>5, <2>1 DEF Served, Writing
  <2> QED
    BY <2>2, <2>3
<1>9. CASE DeleteRow(th)
  <2>1. /\ pc[th] = "delRow" /\ pc'[th] \in {"answer", "put"}
        /\ pc'[th] = "answer" => new[th] = None
        /\ new'[th] = new[th] /\ RowsOf(u)' = {}
    BY <1>1, <1>9 DEF DeleteRow, RemoveRow, Quiet, RowsOf, OneRow
  <2>2. OneRow(u)'
    BY <1>1, <1>3, <1>4, <2>1 DEF OneRow
  <2>3. Served(u)'
    BY <1>3, <1>5, <2>1 DEF Served, Writing
  <2> QED
    BY <2>2, <2>3
<1>10. CASE PutObject(th)
  <2>1. /\ pc[th] = "put" /\ pc'[th] = "commit"
        /\ new'[th] = new[th] /\ new[th] \in objects' /\ RowsOf(u)' = {}
    BY <1>1, <1>10 DEF PutObject, StoreObject, Quiet, RowsOf, OneRow
  <2>2. OneRow(u)'
    BY <1>1, <1>3, <1>4, <2>1 DEF OneRow
  <2>3. Served(u)'
    BY <1>3, <1>5, <2>1 DEF Served, Writing
  <2> QED
    BY <2>2, <2>3
<1>11. CASE CommitRow(th)
  <2>1. /\ pc[th] = "commit" /\ pc'[th] = "answer" /\ new'[th] = new[th]
        /\ new[th] # None /\ RowsOf(u)' = {new[th]} /\ objects' = objects
    BY <1>1, <1>2, <1>11
    DEF CommitRow, InsertRow, Quiet, RowsOf, OneRow, OneUser, objectVars
  <2>2. OneRow(u)'
    BY <1>1, <1>3, <1>4, <2>1 DEF OneRow
  <2>3. Served(u) => Served(u)'
    BY <1>1, <1>3, <1>5, <2>1 DEF Served, Writing
  <2> QED
    BY <2>2, <2>3
<1>12. CASE Answer(th)
  <2>1. /\ pc[th] = "answer" /\ pc'[th] = "idle" /\ current'[u] = new[th]
        /\ RowsOf(u)' = RowsOf(u) /\ objects' = objects
    BY <1>12 DEF Answer, End, RowsOf, dbVars, objectVars
  <2>2. OneRow(u)'
    BY <1>3, <1>4, <2>1 DEF OneRow, WritesFor, Writing
  <2>3. Served(u) => Served(u)'
    BY <1>1, <1>3, <2>1 DEF Served, WritesFor, Writing
  <2> QED
    BY <2>2, <2>3
<1>13. CASE Raise(th)
  <2>1. u \in disturbed' /\ pc'[th] = "idle"
    BY <1>13 DEF Raise, End
  <2>2. \A m1, m2 \in RowsOf(u)' : m1 = m2
    <3>1. \/ rows' = rows \/ rows' = rows \ {old[th]}
          \/ rows' = rows \cup {new[th]} /\ pc[th] = "commit"
      BY <1>13 DEF Raise, RemoveRow, InsertRow, RemoveObject, StoreObject
    <3> QED
      BY <1>1, <3>1 DEF RowsOf, OneRow
  <2> QED
    BY <1>3, <1>4, <2>1, <2>2 DEF OneRow, WritesFor, Writing
<1> QED
  BY <1>8, <1>9, <1>10, <1>11, <1>12, <1>13 DEF Write

\* An upload or a delete of the user v begins.
LEMMA Begins ==
    ASSUME Typed, NEW th \in Threads, NEW v \in Users, Upload(th, v) \/ Delete(th, v),
           NEW u \in Users, Settled(u)
    PROVE  Settled(u)'
<1>1. \A m \in 1..drawn : owner'[m] = owner[m]
  <2>1. drawn \in Nat
    BY DEF Typed, TypeOK
  <2>2. CASE Upload(th, v)
    BY <2>1, <2>2 DEF Upload, Typed, TypeOK
  <2>3. CASE Delete(th, v)
    BY <2>3 DEF Delete, dbVars
  <2> QED
    BY <2>2, <2>3
<1>2. /\ rows' = rows /\ objects' = objects /\ current' = current
      /\ disturbed' = disturbed /\ contended \subseteq contended'
      /\ Busy(v) => v \in contended'
      /\ pc[th] = "idle" /\ pc'[th] \in {"delObj", "put"}
  BY DEF Upload, Delete, NoteWriter, dbVars, objectVars, Goto, Typed, TypeOK
<1>3. \A x \in Users : RowsOf(x)' = RowsOf(x)
  BY <1>1, <1>2 DEF RowsOf, Typed, TypeOK
<1>4. /\ pc'[th] = "delObj" => old'[th] \in RowsOf(v)
      /\ pc'[th] = "put" => RowsOf(v) = {}
      /\ ~WritesFor(th, u) /\ WritesFor(th, v)'
  <2>1. CASE Upload(th, v)
    <3>1. new'[th] = drawn' /\ drawn' # None /\ owner'[drawn'] = v
      BY <2>1, FilesAssumption DEF Upload, Typed, TypeOK, Media, None
    <3>2. PICK m \in Media \cup {None} :
              Found(v, m) /\ old'[th] = m
              /\ pc'[th] = IF m = None THEN "put" ELSE "delObj"
      BY <2>1 DEF Upload, Goto, Typed, TypeOK
    <3>3. WriterOf(th)' = v /\ pc'[th] \in Writing
      BY <1>2, <3>1 DEF WriterOf, Writing
    <3>4. m = None => RowsOf(v) = {}
      BY <3>2, FilesAssumption DEF Found, RowsOf, None, Typed, TypeOK
    <3>5. m # None => m \in RowsOf(v)
      BY <3>2 DEF Found
    <3> QED
      BY <1>2, <3>2, <3>3, <3>4, <3>5 DEF WritesFor, Writing
  <2>2. CASE Delete(th, v)
    <3>1. PICK m \in RowsOf(v) : old'[th] = m
      BY <2>2 DEF Delete, RowsOf, Typed, TypeOK
    <3>2. /\ new'[th] = None /\ pc'[th] = "delObj"
          /\ owner'[m] = v
      BY <2>2 DEF Delete, RowsOf, Goto, dbVars, Typed, TypeOK, OneUser, Writing
    <3> QED
      BY <1>2, <3>1, <3>2 DEF WritesFor, WriterOf, Writing
  <2> QED
    BY <2>1, <2>2
<1>5. \A t \in Threads \ {th} :
          /\ pc'[t] = pc[t] /\ old'[t] = old[t] /\ new'[t] = new[t]
          /\ WritesFor(t, u)' <=> WritesFor(t, u)
  <2>1. ASSUME NEW t \in Threads \ {th}
        PROVE  pc'[t] = pc[t] /\ old'[t] = old[t] /\ new'[t] = new[t]
    BY Alone DEF StepOf, Starts, Frame, Typed
  <2> QED
    BY <1>1, <2>1, WriterStays
<1>6. CASE u # v
  <2>1. ~WritesFor(th, u)'
    BY <1>4, <1>6 DEF WritesFor
  <2> QED
    BY <1>2, <1>3, <1>4, <1>5, <2>1, SettledStays
<1>7. CASE u = v /\ Busy(u)
  BY <1>2, <1>7 DEF Settled
<1>8. CASE u = v /\ ~Busy(u)
  <2>1. \A t \in Threads \ {th} : ~WritesFor(t, u) /\ ~WritesFor(t, u)'
    BY <1>5, <1>8, BusyWriters
  <2>2. OneRow(u) => OneRow(u)'
    <3> SUFFICES ASSUME OneRow(u) PROVE OneRow(u)'
      OBVIOUS
    <3>1. \A t1, t2 \in Threads : WritesFor(t1, u)' /\ WritesFor(t2, u)' => t1 = t2
      BY <2>1
    <3>2. pc'[th] = "delObj" => RowsOf(u)' \subseteq {old'[th]}
      BY <1>3, <1>4, <1>8 DEF OneRow
    <3> QED
      BY <1>2, <1>3, <1>4, <1>8, <2>1, <3>1, <3>2 DEF OneRow
  <2>3. Busy(u)'
    BY <1>4, <1>8 DEF Busy, WritesFor
  <2>4. Served(u)'
    BY <1>2, <2>1, <2>3 DEF Served
  <2> QED
    BY <1>2, <2>2, <2>4 DEF Settled
<1> QED
  BY <1>6, <1>7, <1>8

LEMMA Reads ==
    ASSUME Typed, NEW th \in Threads,
           PublicUrl(th) \/ SummaryUrl(th) \/ \E v \in Users : Presign(th, v) \/ Summary(th, v),
           NEW u \in Users, Settled(u)
    PROVE  Settled(u)'
<1>1. UNCHANGED <<drawn, owner, rows, objects, current, contended, disturbed>>
  BY DEF PublicUrl, Check, Save, Swap, Sign, SignDirect, Restore, SummaryUrl, Presign,
         Summary, DataUnchanged, dbVars, objectVars, userHistory
<1>2. pc[th] \notin Writing /\ pc'[th] \notin Writing
  BY DEF PublicUrl, Check, Save, Swap, Sign, SignDirect, Restore, SummaryUrl, Presign,
         Summary, Goto, End, Writing, Typed, TypeOK
<1>3. ~WritesFor(th, u) /\ ~WritesFor(th, u)'
  BY <1>2 DEF WritesFor
<1>4. \A t \in Threads \ {th} : pc'[t] = pc[t] /\ old'[t] = old[t] /\ new'[t] = new[t]
  BY Alone DEF StepOf, Starts, Frame, Typed
<1>5. \A t \in Threads \ {th} : WritesFor(t, u)' <=> WritesFor(t, u)
  BY <1>1, <1>4, WriterStays
<1>6. RowsOf(u)' = RowsOf(u)
  BY <1>1 DEF RowsOf
<1> QED
  BY <1>1, <1>3, <1>4, <1>5, <1>6, SettledStays

LEMMA SettledStep ==
    ASSUME Typed, [Next]_vars, NEW u \in Users, Settled(u)
    PROVE  Settled(u)'
<1>1. ASSUME NEW th \in Threads, Write(th) PROVE Settled(u)'
  BY <1>1, WriteHere, WriteElsewhere
<1>2. ASSUME NEW th \in Threads, PublicUrl(th) \/ SummaryUrl(th) \/ Starts(th)
      PROVE  Settled(u)'
  BY <1>2, Begins, Reads DEF Starts
<1>3. CASE Crash
  <2>1. /\ RowsOf(u)' = RowsOf(u) /\ objects' = objects /\ current' = current
        /\ contended' = contended /\ disturbed \subseteq disturbed'
        /\ Busy(u) => u \in disturbed'
    BY <1>3 DEF Crash, RowsOf, dbVars, objectVars
  <2>2. \A t \in Threads : ~WritesFor(t, u)'
    BY <1>3 DEF Crash, WritesFor, Writing
  <2>3. ~Busy(u)'
    BY <1>3 DEF Crash, Busy, Writing
  <2> QED
    BY <2>1, <2>2, <2>3 DEF Settled, OneRow, Served
<1>4. CASE UNCHANGED vars
  <2>1. /\ \A t \in Threads : WritesFor(t, u)' <=> WritesFor(t, u)
        /\ RowsOf(u)' = RowsOf(u)
    BY <1>4 DEF vars, locals, dbVars, WritesFor, WriterOf, RowsOf
  <2> QED
    BY <1>4, <2>1, SettledStays DEF vars, locals, objectVars, userHistory
<1> QED
  BY <1>1, <1>2, <1>3, <1>4 DEF Next, Starts

\* What a user has whose requests do not overlap, and do not fail either.
THEOREM Invariant == Spec => [](\A u \in Users : Settled(u))
<1>1. Init => \A u \in Users : Settled(u)
  BY DEF Init, Settled, OneRow, Served, WritesFor, Writing, RowsOf
<1>2. Typed /\ (\A u \in Users : Settled(u)) /\ [Next]_vars
      => (\A u \in Users : Settled(u))'
  BY SettledStep
<1> QED
  BY <1>1, <1>2, TypeCorrect, PTL DEF Spec

\* A user whose requests do not overlap has one avatar row, for any number of
\* requests of others at the same time, and whatever fails or dies.
THEOREM OneRowEach == Spec => []OneRowUnlessContended
<1>1. (\A u \in Users : Settled(u)) => OneRowUnlessContended
  <2> SUFFICES ASSUME NEW u \in Users, OneRow(u) PROVE Cardinality(RowsOf(u)) <= 1
    BY DEF Settled, OneRowUnlessContended
  <2>1. CASE RowsOf(u) = {}
    BY <2>1, FS_EmptySet
  <2>2. ASSUME NEW m \in RowsOf(u) PROVE Cardinality(RowsOf(u)) <= 1
    <3>1. RowsOf(u) = {m}
      BY <2>2 DEF OneRow
    <3>2. Cardinality({m}) = 1
      BY FS_Singleton
    <3> QED
      BY <3>1, <3>2
  <2> QED
    BY <2>1, <2>2
<1> QED
  BY <1>1, Invariant, PTL

\* For a user whose requests neither overlap nor fail, the last upload that was
\* answered is the avatar, with its object, and after a delete there is none.
THEOREM LastUploadServed == Spec => []LastUploadIsServed
<1>1. (\A u \in Users : Settled(u)) => LastUploadIsServed
  BY DEF Settled, Served, LastUploadIsServed
<1> QED
  BY <1>1, Invariant, PTL

-----------------------------------------------------------------------------
\* What is known of the keys a writing thread works on: it inserts a key that
\* nobody else has, so only the thread itself removes or commits it, and what it
\* deletes was committed, so nobody puts it again.
Keys(th) ==
    /\ pc[th] \in {"delObj", "delRow"} => old[th] \in committed
    /\ pc[th] = "delRow" => old[th] \notin objects
    /\ pc[th] \in {"delObj", "delRow", "put"} => new[th] \notin stored
    /\ pc[th] = "commit" => new[th] \in objects /\ new[th] \notin committed

KeysApart == \A t1, t2 \in Threads : new[t1] = new[t2] /\ new[t1] # None => t1 = t2

KeysKept == objects \subseteq stored /\ KeysApart /\ \A th \in Threads : Keys(th)

\* A thread that writes: what it changes is its own keys.
LEMMA KeysWrite ==
    ASSUME Typed, InOrder, KeysKept, NEW th \in Threads, Write(th)
    PROVE  /\ objects' \subseteq stored' /\ Keys(th)'
           /\ new'[th] \in {new[th], None}
           /\ objects' \subseteq objects \cup ({new[th]} \ stored)
           /\ stored' \subseteq stored \cup {new[th]}
           /\ pc[th] # "put" => stored' = stored
           /\ committed \subseteq committed'
           /\ committed' \subseteq committed \cup {new[th]}
           /\ pc[th] # "commit" => committed' = committed
           /\ objects \ objects' \subseteq committed
<1> USE DEF Typed, TypeOK, InOrder, KeysKept, Keys, Goto, None
<1>1. CASE DeleteObject(th)
  BY <1>1 DEF DeleteObject, RemoveObject, Quiet
<1>2. CASE DeleteRow(th)
  BY <1>2 DEF DeleteRow, RemoveRow, Quiet, objectVars
<1>3. CASE PutObject(th)
  BY <1>3 DEF PutObject, StoreObject, Quiet
<1>4. CASE CommitRow(th)
  BY <1>4 DEF CommitRow, InsertRow, Quiet, objectVars
<1>5. CASE Answer(th)
  BY <1>5 DEF Answer, End, dbVars, objectVars
<1>6. CASE Raise(th)
  BY <1>6 DEF Raise, End, RemoveObject, RemoveRow, StoreObject, InsertRow, objectVars
<1> QED
  BY <1>1, <1>2, <1>3, <1>4, <1>5, <1>6 DEF Write

LEMMA KeysOfOthers ==
    ASSUME Typed, InOrder, KeysKept, NEW th \in Threads, Write(th),
           NEW t \in Threads \ {th}
    PROVE  Keys(t)'
<1>1. /\ pc'[t] = pc[t] /\ old'[t] = old[t] /\ new'[t] = new[t] /\ Keys(t)
  BY Alone DEF StepOf, Frame, Typed, KeysKept
<1>2. pc[t] \in {"put", "commit"} => new[t] # None
  BY DEF Typed, OneUser
<1>3. new[t] # None => new[t] # new[th]
  BY DEF KeysKept, KeysApart
<1>4. 0 \notin stored /\ 0 \notin stored'
  <2>1. TypeOK'
    BY WriteType
  <2> QED
    BY <2>1 DEF Typed, TypeOK
<1>5. pc[t] \in {"delObj", "delRow", "put"} => new'[t] \notin stored'
  BY <1>1, <1>3, <1>4, KeysWrite DEF Keys, None
<1>6. pc[t] = "commit" => new'[t] \in objects' /\ new'[t] \notin committed'
  BY <1>1, <1>2, <1>3, KeysWrite DEF Keys
<1>7. pc[t] = "delRow" => old'[t] \notin objects'
  BY <1>1, KeysWrite DEF Keys, InOrder
<1> QED
  BY <1>1, <1>5, <1>6, <1>7, KeysWrite DEF Keys

\* A request that begins draws a key above all others, or reads a row.
LEMMA KeysBegin ==
    ASSUME Typed, InOrder, KeysKept, NEW th \in Threads,
           PublicUrl(th) \/ SummaryUrl(th) \/ Starts(th)
    PROVE  KeysKept'
<1>1. /\ UNCHANGED <<rows, committed, objects, stored>>
      /\ drawn \in Nat /\ rows \subseteq committed
  BY DEF PublicUrl, Check, Save, Swap, Sign, SignDirect, Restore, SummaryUrl,
         Starts, Upload, Delete, Presign, Summary, DataUnchanged, dbVars,
         objectVars, Typed, TypeOK, InOrder
<1>2. \A t \in Threads \ {th} :
          pc'[t] = pc[t] /\ old'[t] = old[t] /\ new'[t] = new[t] /\ new[t] \in 0..drawn
  BY Alone DEF StepOf, Frame, Typed, TypeOK
<1>3. /\ pc'[th] \notin {"delRow", "commit"}
      /\ pc'[th] = "delObj" => old'[th] \in rows
      /\ new'[th] = None \/ new'[th] = drawn + 1
  <2>1. pc[th] \notin Writing /\ new[th] = None
    BY DEF PublicUrl, Check, Save, Swap, Sign, SignDirect, Restore, SummaryUrl,
           Starts, Upload, Delete, Presign, Summary, Typed, OneUser, Writing
  <2>2. CASE PublicUrl(th) \/ SummaryUrl(th)
    BY <2>1, <2>2 DEF PublicUrl, Check, Save, Swap, Sign, SignDirect, Restore,
              SummaryUrl, Goto, End, signLocals, Typed, TypeOK
  <2>3. CASE \E u \in Users : Upload(th, u)
    <3>1. PICK u \in Users, m \in Media \cup {None} :
              /\ Found(u, m) /\ old' = [old EXCEPT ![th] = m]
              /\ Goto(th, IF m = None THEN "put" ELSE "delObj")
              /\ new' = [new EXCEPT ![th] = drawn + 1]
      BY <2>3 DEF Upload
    <3>2. m # None => m \in rows
      BY <3>1 DEF Found, RowsOf
    <3> QED
      BY <3>1, <3>2 DEF Goto, Typed, TypeOK
  <2>4. CASE \E u \in Users : Delete(th, u) \/ Presign(th, u) \/ Summary(th, u)
    BY <2>1, <2>4 DEF Delete, Presign, Summary, RowsOf, Goto, Typed, TypeOK
  <2> QED
    BY <2>2, <2>3, <2>4 DEF Starts
<1>4. Keys(th)'
  <2>1. stored \subseteq 1..drawn
    BY DEF Typed, TypeOK
  <2>2. new'[th] \notin stored
    BY <1>1, <1>3, <2>1 DEF None
  <2> QED
    BY <1>1, <1>3, <2>2 DEF Keys
<1>5. \A t \in Threads \ {th} : Keys(t)'
  BY <1>1, <1>2 DEF KeysKept, Keys
<1>6. KeysApart'
  BY <1>1, <1>2, <1>3 DEF KeysKept, KeysApart, None
<1> QED
  BY <1>1, <1>4, <1>5, <1>6 DEF KeysKept

LEMMA KeysStep ==
    ASSUME Typed, InOrder, KeysKept, [Next]_vars
    PROVE  KeysKept'
<1>1. ASSUME NEW th \in Threads, Write(th) PROVE KeysKept'
  <2>1. \A t \in Threads \ {th} : new'[t] = new[t]
    BY <1>1, Alone DEF StepOf, Frame, Typed
  <2>2. KeysApart'
    BY <1>1, <2>1, KeysWrite DEF KeysKept, KeysApart
  <2> QED
    BY <1>1, <2>2, KeysWrite, KeysOfOthers DEF KeysKept
<1>2. CASE Crash
  BY <1>2 DEF Crash, KeysKept, KeysApart, Keys, objectVars
<1>3. CASE UNCHANGED vars
  BY <1>3 DEF vars, locals, dbVars, objectVars, KeysKept, KeysApart, Keys
<1> QED
  BY <1>1, <1>2, <1>3, KeysBegin DEF Next, Starts

-----------------------------------------------------------------------------
\* A step that goes on separates no row from its object; a call that raises
\* leaves the row or the object it was about to settle.
LEMMA WriteDamage ==
    ASSUME Typed, InOrder, KeysKept, NEW th \in Threads, Write(th)
    PROVE  /\ crashes' = crashes
           /\ \/ /\ faults' = faults
                 /\ Dangling' \subseteq Dangling /\ Orphans' \subseteq Orphans
              \/ /\ faults' = faults + 1
                 /\ \E x : Dangling' \subseteq Dangling \cup {x}
                 /\ Orphans' \subseteq Orphans
              \/ /\ faults' = faults + 1
                 /\ \E x : Orphans' \subseteq Orphans \cup {x}
                 /\ Dangling' \subseteq Dangling
<1>1. \A t \in Threads \ {th} : pc'[t] = pc[t] /\ old'[t] = old[t] /\ new'[t] = new[t]
  BY Alone DEF StepOf, Frame, Typed
<1>2. /\ pc[th] = "delRow" => old[th] \notin objects
      /\ pc[th] = "commit" => new[th] \in objects
  BY DEF KeysKept, Keys
<1> USE DEF Goto, Typed, TypeOK
<1>3. CASE DeleteObject(th)
  <2>1. /\ pc[th] = "delObj" /\ pc'[th] = "delRow" /\ old'[th] = old[th]
        /\ rows' = rows /\ objects' = objects \ {old[th]}
        /\ faults' = faults /\ crashes' = crashes
    BY <1>3 DEF DeleteObject, RemoveObject, Quiet, budget
  <2> QED
    BY <1>1, <2>1 DEF Dangling, Orphans
<1>4. CASE DeleteRow(th)
  <2>1. /\ pc[th] = "delRow" /\ pc'[th] \in {"put", "answer"}
        /\ rows' = rows \ {old[th]} /\ objects' = objects
        /\ faults' = faults /\ crashes' = crashes
    BY <1>4 DEF DeleteRow, RemoveRow, Quiet, budget, objectVars
  <2> QED
    BY <1>1, <1>2, <2>1 DEF Dangling, Orphans
<1>5. CASE PutObject(th)
  <2>1. /\ pc[th] = "put" /\ pc'[th] = "commit" /\ new'[th] = new[th]
        /\ rows' = rows /\ objects' = objects \cup {new[th]}
        /\ faults' = faults /\ crashes' = crashes
    BY <1>5 DEF PutObject, StoreObject, Quiet, budget
  <2> QED
    BY <1>1, <2>1 DEF Dangling, Orphans
<1>6. CASE CommitRow(th)
  <2>1. /\ pc[th] = "commit" /\ pc'[th] = "answer"
        /\ rows' = rows \cup {new[th]} /\ objects' = objects
        /\ faults' = faults /\ crashes' = crashes
    BY <1>6 DEF CommitRow, InsertRow, Quiet, budget, objectVars
  <2> QED
    BY <1>1, <1>2, <2>1 DEF Dangling, Orphans
<1>7. CASE Answer(th)
  <2>1. /\ pc[th] = "answer" /\ pc'[th] = "idle"
        /\ rows' = rows /\ objects' = objects
        /\ faults' = faults /\ crashes' = crashes
    BY <1>7 DEF Answer, End, dbVars, objectVars, budget
  <2> QED
    BY <1>1, <2>1 DEF Dangling, Orphans
<1>8. CASE Raise(th)
  <2>1. faults' = faults + 1 /\ crashes' = crashes /\ pc'[th] = "idle"
    BY <1>8 DEF Raise, End
  <2>2. CASE pc[th] = "delObj"
    <3>1. rows' = rows /\ objects \ {old[th]} \subseteq objects' /\ objects' \subseteq objects
      BY <1>8, <2>2 DEF Raise, RemoveObject, objectVars
    <3>2. Dangling' \subseteq Dangling \cup {old[th]} /\ Orphans' \subseteq Orphans
      BY <1>1, <2>1, <2>2, <3>1 DEF Dangling, Orphans
    <3> QED
      BY <2>1, <3>2
  <2>3. CASE pc[th] = "delRow"
    <3>1. objects' = objects /\ rows \ {old[th]} \subseteq rows' /\ rows' \subseteq rows
      BY <1>8, <2>3 DEF Raise, RemoveRow, objectVars
    <3>2. Dangling' \subseteq Dangling \cup {old[th]} /\ Orphans' \subseteq Orphans
      BY <1>1, <1>2, <2>1, <2>3, <3>1 DEF Dangling, Orphans
    <3> QED
      BY <2>1, <3>2
  <2>4. CASE pc[th] = "put"
    <3>1. rows' = rows /\ objects \subseteq objects' /\ objects' \subseteq objects \cup {new[th]}
      BY <1>8, <2>4 DEF Raise, StoreObject, objectVars
    <3>2. Dangling' \subseteq Dangling /\ Orphans' \subseteq Orphans \cup {new[th]}
      BY <1>1, <2>1, <2>4, <3>1 DEF Dangling, Orphans
    <3> QED
      BY <2>1, <3>2
  <2>5. CASE pc[th] = "commit"
    <3>1. objects' = objects /\ rows \subseteq rows' /\ rows' \subseteq rows \cup {new[th]}
      BY <1>8, <2>5 DEF Raise, InsertRow, objectVars
    <3>2. Dangling' \subseteq Dangling /\ Orphans' \subseteq Orphans \cup {new[th]}
      BY <1>1, <1>2, <2>1, <2>5, <3>1 DEF Dangling, Orphans
    <3> QED
      BY <2>1, <3>2
  <2> QED
    BY <1>8, <2>2, <2>3, <2>4, <2>5 DEF Raise, Writing
<1> QED
  BY <1>3, <1>4, <1>5, <1>6, <1>7, <1>8 DEF Write

LEMMA DamageFinite ==
    ASSUME TypeOK
    PROVE  /\ IsFiniteSet(Dangling) /\ Cardinality(Dangling) \in Nat
           /\ IsFiniteSet(Orphans) /\ Cardinality(Orphans) \in Nat
<1>1. IsFiniteSet(1..drawn)
  BY FS_Interval DEF TypeOK
<1>2. Dangling \in SUBSET (1..drawn) /\ Orphans \in SUBSET (1..drawn)
  BY DEF Dangling, Orphans, TypeOK
<1> QED
  BY <1>1, <1>2, FS_Subset, FS_CardinalityType

LEMMA DamageStaysFinite ==
    ASSUME TypeOK'
    PROVE  /\ IsFiniteSet(Dangling') /\ Cardinality(Dangling') \in Nat
           /\ IsFiniteSet(Orphans') /\ Cardinality(Orphans') \in Nat
<1>1. IsFiniteSet(1..drawn')
  BY FS_Interval DEF TypeOK
<1>2. Dangling' \in SUBSET (1..drawn') /\ Orphans' \in SUBSET (1..drawn')
  BY DEF Dangling, Orphans, TypeOK
<1> QED
  BY <1>1, <1>2, FS_Subset, FS_CardinalityType

LEMMA NoMore ==
    ASSUME NEW S, IsFiniteSet(S), NEW T, T \subseteq S
    PROVE  Cardinality(T) <= Cardinality(S)
BY FS_Subset

LEMMA OneMore ==
    ASSUME NEW S, IsFiniteSet(S), NEW x, NEW T, T \subseteq S \cup {x}
    PROVE  Cardinality(T) <= Cardinality(S) + 1
<1>1. /\ IsFiniteSet(S \cup {x}) /\ Cardinality(S) \in Nat
      /\ \/ Cardinality(S \cup {x}) = Cardinality(S)
         \/ Cardinality(S \cup {x}) = Cardinality(S) + 1
  BY FS_AddElement, FS_CardinalityType
<1>2. IsFiniteSet(T) /\ Cardinality(T) <= Cardinality(S \cup {x})
  BY <1>1, FS_Subset
<1>3. Cardinality(T) \in Nat
  BY <1>2, FS_CardinalityType
<1> QED
  BY <1>1, <1>2, <1>3

\* As many more as there are threads in W.
LEMMA ManyMore ==
    ASSUME NEW S, IsFiniteSet(S), NEW W, IsFiniteSet(W), NEW f,
           NEW T, T \subseteq S \cup {f[t] : t \in W}
    PROVE  Cardinality(T) <= Cardinality(S) + Cardinality(W)
<1>1. PICK A : A = {f[t] : t \in W}
  OBVIOUS
<1>2. PICK g : g = [t \in W |-> f[t]]
  OBVIOUS
<1>3. g \in Surjection(W, A)
  BY <1>1, <1>2 DEF Surjection
<1>4. /\ IsFiniteSet(A) /\ Cardinality(A) <= Cardinality(W)
      /\ Cardinality(A) \in Nat /\ Cardinality(W) \in Nat /\ Cardinality(S) \in Nat
  BY <1>3, FS_Surjection, FS_CardinalityType
<1>5. IsFiniteSet(S \cap A) /\ Cardinality(S \cap A) \in Nat
  BY FS_Subset, FS_CardinalityType
<1>6. /\ IsFiniteSet(S \cup A)
      /\ Cardinality(S \cup A) = Cardinality(S) + Cardinality(A) - Cardinality(S \cap A)
  BY <1>4, FS_Union
<1>7. IsFiniteSet(T) /\ Cardinality(T) <= Cardinality(S \cup A)
  BY <1>1, <1>6, FS_Subset
<1>8. Cardinality(T) \in Nat
  BY <1>7, FS_CardinalityType
<1> QED
  BY <1>4, <1>5, <1>6, <1>7, <1>8

\* A crash leaves what each thread was about to settle, and a thread settles one
\* row or one object at a time.
LEMMA CrashDamage ==
    ASSUME Typed, Crash
    PROVE  Cardinality(Dangling') + Cardinality(Orphans')
               <= Cardinality(Dangling) + Cardinality(Orphans) + Cardinality(Threads)
<1>1. PICK D : D = {t \in Threads : pc[t] = "delRow"}
  OBVIOUS
<1>2. PICK C : C = {t \in Threads : pc[t] = "commit"}
  OBVIOUS
<1>3. PICK o : o = old
  OBVIOUS
<1>4. PICK n : n = new
  OBVIOUS
<1>5. PICK R : R = Dangling
  OBVIOUS
<1>6. PICK O : O = Orphans
  OBVIOUS
<1>7. /\ IsFiniteSet(R) /\ Cardinality(R) \in Nat
      /\ IsFiniteSet(O) /\ Cardinality(O) \in Nat
  BY <1>5, <1>6, DamageFinite DEF Typed
<1>8. /\ IsFiniteSet(D) /\ IsFiniteSet(C) /\ D \cap C = {}
      /\ Cardinality(D) \in Nat /\ Cardinality(C) \in Nat /\ Cardinality(Threads) \in Nat
  BY <1>1, <1>2, FilesAssumption, FS_Subset, FS_CardinalityType
<1>9. Cardinality(D) + Cardinality(C) <= Cardinality(Threads)
  <2>1. Cardinality(D \cap C) = 0
    BY <1>8, FS_EmptySet
  <2>2. IsFiniteSet(D \cup C) /\ Cardinality(D \cup C) = Cardinality(D) + Cardinality(C)
    BY <1>8, <2>1, FS_Union
  <2>3. D \cup C \in SUBSET Threads
    BY <1>1, <1>2
  <2>4. Cardinality(D \cup C) <= Cardinality(Threads)
    BY <2>3, FilesAssumption, FS_Subset
  <2> QED
    BY <2>2, <2>4
<1>10. rows' = rows /\ objects' = objects
  BY DEF Crash, dbVars, objectVars
<1>11. Dangling' \subseteq R \cup {o[t] : t \in D}
  BY <1>1, <1>3, <1>5, <1>10 DEF Dangling
<1>12. Orphans' \subseteq O \cup {n[t] : t \in C}
  BY <1>2, <1>4, <1>6, <1>10 DEF Orphans
<1>13. PICK S : S = Dangling'
  OBVIOUS
<1>14. PICK P : P = Orphans'
  OBVIOUS
<1>15. Cardinality(S) <= Cardinality(R) + Cardinality(D)
  BY <1>7, <1>8, <1>11, <1>13, ManyMore
<1>16. Cardinality(P) <= Cardinality(O) + Cardinality(C)
  BY <1>7, <1>8, <1>12, <1>14, ManyMore
<1>17. Cardinality(S) \in Nat /\ Cardinality(P) \in Nat
  <2>1. TypeOK'
    BY FilesAssumption
    DEF Crash, Typed, TypeOK, Places, None, dbVars, objectVars, Busy
  <2> QED
    BY <2>1, <1>13, <1>14, DamageStaysFinite
<1> QED
  BY <1>5, <1>6, <1>7, <1>8, <1>9, <1>13, <1>14, <1>15, <1>16, <1>17

\* Rows and objects are parted only by what raises or dies, at most once for
\* each call that raises and for each request that a crash cuts short, for any
\* number of users, threads and uploads: the requests themselves, in any order,
\* never part them.
THEOREM DamageIsBounded == Spec => []DamageBounded
<1>1. Init => KeysKept /\ DamageBounded
  <2> SUFFICES ASSUME Init PROVE KeysKept /\ DamageBounded
    OBVIOUS
  <2>1. KeysKept
    BY DEF Init, KeysKept, KeysApart, Keys
  <2>2. Dangling = {} /\ Orphans = {} /\ faults = 0 /\ crashes = 0
    BY DEF Init, Dangling, Orphans
  <2>3. Cardinality({}) = 0 /\ Cardinality(Threads) \in Nat
    BY FS_EmptySet, FS_CardinalityType, FilesAssumption
  <2>4. Cardinality(Dangling) = 0 /\ Cardinality(Orphans) = 0
    BY <2>2, <2>3
  <2> QED
    BY <2>1, <2>2, <2>3, <2>4 DEF DamageBounded
<1>2. ASSUME Typed, Typed', InOrder, KeysKept, DamageBounded, [Next]_vars
      PROVE  DamageBounded'
  <2>1. /\ faults \in Nat /\ crashes \in Nat /\ Cardinality(Threads) \in Nat
        /\ crashes * Cardinality(Threads) \in Nat
    BY <1>2, FilesAssumption, FS_CardinalityType DEF Typed, TypeOK
  <2>2. PICK n : n = Cardinality(Threads)
    OBVIOUS
  <2>3. PICK d : d = Cardinality(Dangling)
    OBVIOUS
  <2>4. PICK o : o = Cardinality(Orphans)
    OBVIOUS
  <2>5. PICK d2 : d2 = Cardinality(Dangling')
    OBVIOUS
  <2>6. PICK o2 : o2 = Cardinality(Orphans')
    OBVIOUS
  <2>7. d \in Nat /\ o \in Nat /\ d2 \in Nat /\ o2 \in Nat
    BY <1>2, <2>3, <2>4, <2>5, <2>6, DamageFinite, DamageStaysFinite DEF Typed
  <2>8. d + o <= faults + crashes * n
    BY <1>2, <2>2, <2>3, <2>4 DEF DamageBounded
  <2>9. IsFiniteSet(Dangling) /\ IsFiniteSet(Orphans)
    BY <1>2, DamageFinite DEF Typed
  <2>10. (\/ faults' = faults /\ crashes' = crashes /\ d2 + o2 <= d + o
          \/ faults' = faults + 1 /\ crashes' = crashes /\ d2 + o2 <= d + o + 1
          \/ faults' = faults /\ crashes' = crashes + 1 /\ d2 + o2 <= d + o + n)
         => DamageBounded'
    <3>1. (crashes + 1) * n = crashes * n + n
      BY <2>1, <2>2
    <3>2. crashes * n \in Nat /\ n \in Nat
      BY <2>1, <2>2
    <3>3. (d2 + o2 <= faults' + crashes' * n) => DamageBounded'
      BY <2>2, <2>5, <2>6 DEF DamageBounded
    <3> QED
      BY <2>1, <2>7, <2>8, <3>1, <3>2, <3>3
  <2>11. ASSUME NEW th \in Threads, Write(th) PROVE DamageBounded'
    <3>1. CASE /\ faults' = faults
               /\ Dangling' \subseteq Dangling /\ Orphans' \subseteq Orphans
      <4>1. d2 <= d /\ o2 <= o
        BY <3>1, <2>3, <2>4, <2>5, <2>6, <2>9, NoMore
      <4> QED
        BY <1>2, <2>7, <2>10, <2>11, <3>1, <4>1, WriteDamage
    <3>2. CASE /\ faults' = faults + 1
               /\ \E x : Dangling' \subseteq Dangling \cup {x}
               /\ Orphans' \subseteq Orphans
      <4>1. d2 <= d + 1 /\ o2 <= o
        BY <3>2, <2>3, <2>4, <2>5, <2>6, <2>9, NoMore, OneMore
      <4> QED
        BY <1>2, <2>7, <2>10, <2>11, <3>2, <4>1, WriteDamage
    <3>3. CASE /\ faults' = faults + 1
               /\ \E x : Orphans' \subseteq Orphans \cup {x}
               /\ Dangling' \subseteq Dangling
      <4>1. d2 <= d /\ o2 <= o + 1
        BY <3>3, <2>3, <2>4, <2>5, <2>6, <2>9, NoMore, OneMore
      <4> QED
        BY <1>2, <2>7, <2>10, <2>11, <3>3, <4>1, WriteDamage
    <3> QED
      BY <1>2, <2>11, <3>1, <3>2, <3>3, WriteDamage
  <2>12. ASSUME NEW th \in Threads, PublicUrl(th) \/ SummaryUrl(th) \/ Starts(th)
         PROVE  DamageBounded'
    <3>1. UNCHANGED <<rows, objects, faults, crashes>>
      BY <2>12 DEF PublicUrl, Check, Save, Swap, Sign, SignDirect, Restore, SummaryUrl,
             Starts, Upload, Delete, Presign, Summary, DataUnchanged, dbVars,
             objectVars, budget
    <3>2. \A t \in Threads \ {th} :
              pc'[t] = pc[t] /\ old'[t] = old[t] /\ new'[t] = new[t]
      BY <1>2, <2>12, Alone DEF StepOf, Frame, Typed
    <3>3. pc[th] \notin {"delRow", "commit"}
      BY <2>12 DEF PublicUrl, Check, Save, Swap, Sign, SignDirect, Restore, SummaryUrl,
             Starts, Upload, Delete, Presign, Summary
    <3>4. Dangling' \subseteq Dangling /\ Orphans' \subseteq Orphans
      BY <3>1, <3>2, <3>3 DEF Dangling, Orphans
    <3>5. d2 <= d /\ o2 <= o
      BY <3>4, <2>3, <2>4, <2>5, <2>6, <2>9, NoMore
    <3> QED
      BY <2>7, <2>10, <3>1, <3>5
  <2>13. CASE Crash
    <3>1. faults' = faults /\ crashes' = crashes + 1
      BY <2>13 DEF Crash
    <3>2. d2 + o2 <= d + o + n
      BY <1>2, <2>2, <2>3, <2>4, <2>5, <2>6, <2>13, CrashDamage
    <3> QED
      BY <2>10, <3>1, <3>2
  <2>14. CASE UNCHANGED vars
    BY <1>2, <2>14 DEF vars, dbVars, objectVars, locals, budget, DamageBounded, Dangling,
                       Orphans
  <2> QED
    BY <1>2, <2>11, <2>12, <2>13, <2>14 DEF Next, Starts
<1>3. Typed /\ InOrder /\ KeysKept /\ [Next]_vars => KeysKept'
  BY KeysStep
<1> QED
  BY <1>1, <1>2, <1>3, TypeCorrect, StepsInOrder, PTL DEF Spec

=============================================================================
