--------------------------- MODULE ProfileProofs ---------------------------
(***************************************************************************)
(* Theorems about Profile, for any numbers of requests, fields and values. *)
(*                                                                         *)
(* The argument rests on one request per field, the author of its value:   *)
(* the last one that changed it, or that found it as it wanted it.  The    *)
(* invariant Settled says that an author exists whom nobody that wrote     *)
(* later knew of, and that a request which is about to write and knows of  *)
(* the author has loaded the author's value.  So its UPDATE leaves the     *)
(* column out only when it is content with what the column holds.          *)
(***************************************************************************)
EXTENDS Profile, TLAPS

Places == {"idle", "loaded", "committed", "reloaded", "200", "401", "500"}

\* Requests that are still to write know only of requests that are answered.
Ordered ==
    /\ wrote \cap {r \in Reqs : pc[r] \in {"idle", "loaded"}} = {}
    /\ \A r \in Reqs : after[r] \subseteq Answered

\* q is the author of what the row holds in field f.
Author(q, f) ==
    /\ q \in Writers(f)
    /\ row[f] = patch[q][f]
    /\ \A r \in Writers(f) : q \notin after[r]
    /\ \A r \in Reqs : pc[r] = "loaded" =>
           q \notin after[r] \/ loaded[r][f] = row[f]

Unwritten(f) ==
    /\ Writers(f) = {} /\ row[f] = Blank
    /\ \A r \in Reqs : pc[r] = "loaded" => loaded[r][f] = row[f]

Settled == \A f \in Fields : Unwritten(f) \/ \E q \in Reqs : Author(q, f)

Inv == TypeOK /\ Ordered /\ Settled

\* What a request has read again, or answered, is current.
ShownIsCurrent ==
    \A r \in Reqs : pc[r] \in {"reloaded", "200"} => \A f \in Fields :
        Current(f, loaded[r][f], Writers(f) \cap (after[r] \cup {r}))

-----------------------------------------------------------------------------
LEMMA WrittenType ==
    ASSUME TypeOK, NEW r \in Reqs
    PROVE  Written(r) \in [Fields -> Values]
BY DEF TypeOK, Written, Given

LEMMA FlushType ==
    ASSUME TypeOK, NEW r \in Reqs, NEW p \in Places, Flush(r), Goto(r, p),
           faults' \in 0..MaxFaults
    PROVE  TypeOK'
BY WrittenType DEF TypeOK, Flush, Goto, Places, requestVars

LEMMA MoveType ==
    ASSUME TypeOK, NEW r \in Reqs, NEW p \in Places, Goto(r, p),
           faults' \in 0..MaxFaults, UNCHANGED <<row, requestVars, wrote>>
    PROVE  TypeOK'
BY DEF TypeOK, Goto, Places, requestVars

\* The row, the bodies and the sessions always have their types: a column never
\* holds the mark of a field that was left out.
THEOREM TypeCorrect == Spec => []TypeOK
<1>1. Init => TypeOK
  BY ProfileAssumption DEF Init, TypeOK, Nothing, Fresh
<1>2. TypeOK /\ [Next]_vars => TypeOK'
  <2> SUFFICES ASSUME TypeOK, [Next]_vars PROVE TypeOK'
    OBVIOUS
  <2> USE DEF Places
  <2>1. ASSUME NEW r \in Reqs, Unauthorized(r) PROVE TypeOK'
    BY <2>1, MoveType DEF Unauthorized, TypeOK
  <2>2. ASSUME NEW r \in Reqs, GetMe(r) PROVE TypeOK'
    BY <2>2 DEF GetMe, Read, Goto, TypeOK, Answered
  <2>3. ASSUME NEW r \in Reqs, NEW body \in Patches, PatchMe(r, body) PROVE TypeOK'
    <3>1. body \in [Fields -> Values \cup {Absent}]
      BY ProfileAssumption
    <3> QED
      BY <2>3, <3>1 DEF PatchMe, Read, Goto, TypeOK, Answered
  <2>4. ASSUME NEW r \in Reqs, Commit(r) PROVE TypeOK'
    BY <2>4, FlushType DEF Commit, TypeOK
  <2>5. ASSUME NEW r \in Reqs, Reload(r) PROVE TypeOK'
    BY <2>5 DEF Reload, Goto, TypeOK
  <2>6. ASSUME NEW r \in Reqs, Publish(r) PROVE TypeOK'
    BY <2>6, MoveType DEF Publish, TypeOK
  <2>7. ASSUME NEW r \in Reqs, Raise(r) PROVE TypeOK'
    <3>1. faults' \in 0..MaxFaults
      BY <2>7, ProfileAssumption DEF Raise, TypeOK
    <3>2. Flush(r) \/ UNCHANGED <<row, requestVars, wrote>>
      BY <2>7 DEF Raise
    <3> QED
      BY <2>7, <3>1, <3>2, FlushType, MoveType DEF Raise
  <2>8. CASE UNCHANGED vars
    BY <2>8 DEF vars, requestVars, TypeOK
  <2> QED
    BY <2>1, <2>2, <2>3, <2>4, <2>5, <2>6, <2>7, <2>8 DEF Next
<1> QED
  BY <1>1, <1>2, PTL DEF Spec

-----------------------------------------------------------------------------
LEMMA OrderedStep ==
    ASSUME TypeOK, Ordered, [Next]_vars
    PROVE  Ordered'
<1> USE DEF Ordered, Answered, TypeOK, Goto, Read, requestVars
<1>1. ASSUME NEW r \in Reqs, Unauthorized(r) \/ Reload(r) \/ Publish(r)
      PROVE  Ordered'
  BY <1>1 DEF Unauthorized, Reload, Publish
<1>2. ASSUME NEW r \in Reqs, GetMe(r) PROVE Ordered'
  BY <1>2 DEF GetMe
<1>3. ASSUME NEW r \in Reqs, NEW body \in Patches, PatchMe(r, body) PROVE Ordered'
  BY <1>3 DEF PatchMe
<1>4. ASSUME NEW r \in Reqs, Commit(r) PROVE Ordered'
  BY <1>4 DEF Commit, Flush
<1>5. ASSUME NEW r \in Reqs, Raise(r) PROVE Ordered'
  BY <1>5 DEF Raise, Flush
<1>6. CASE UNCHANGED vars
  BY <1>6 DEF vars
<1> QED
  BY <1>1, <1>2, <1>3, <1>4, <1>5, <1>6 DEF Next

\* A step that writes no row, and whose reader, if there is one, has the row.
LEMMA QuietStep ==
    ASSUME Settled, row' = row, wrote' = wrote, wrote \subseteq Reqs,
           \A r \in wrote : patch'[r] = patch[r] /\ after'[r] = after[r],
           \A r \in Reqs : pc'[r] = "loaded" =>
               \/ loaded'[r] = row
               \/ pc[r] = "loaded" /\ loaded'[r] = loaded[r] /\ after'[r] = after[r]
    PROVE  Settled'
<1> SUFFICES ASSUME NEW f \in Fields
             PROVE  (Unwritten(f) \/ \E q \in Reqs : Author(q, f))'
  BY DEF Settled
<1>1. Writers(f)' = Writers(f)
  BY DEF Writers, Given
<1>2. CASE Unwritten(f)
  BY <1>1, <1>2 DEF Unwritten
<1>3. ASSUME NEW q \in Reqs, Author(q, f) PROVE Author(q, f)'
  <2>1. \A r \in Writers(f) : r \in wrote
    BY DEF Writers
  <2> QED
    BY <1>1, <1>3, <2>1 DEF Author
<1> QED
  BY <1>2, <1>3 DEF Settled

\* The UPDATE of r: r is the new author of a field it changes, and of one that
\* it found as it wanted it, although it knew of the author.
LEMMA FlushStep ==
    ASSUME Inv, NEW r \in Reqs, pc[r] = "loaded", Flush(r),
           NEW p \in Places \ {"idle", "loaded"}, Goto(r, p)
    PROVE  Settled'
<1> SUFFICES ASSUME NEW f \in Fields
             PROVE  (Unwritten(f) \/ \E q \in Reqs : Author(q, f))'
  BY DEF Settled
<1>1. /\ patch' = patch /\ after' = after /\ loaded' = loaded
      /\ wrote' = wrote \cup {r}
      /\ \A q \in Reqs : pc'[q] = "loaded" => q # r /\ pc[q] = "loaded"
  BY DEF Flush, requestVars, Goto, Inv, TypeOK
<1>2. \A q \in Reqs : r \notin after[q]
  BY DEF Inv, Ordered, Answered
<1>3. row'[f] = IF f \in Given(r) /\ patch[r][f] # loaded[r][f]
                THEN patch[r][f] ELSE row[f]
  BY DEF Flush, Written
<1>4. wrote' \subseteq Reqs
  BY <1>1 DEF Inv, TypeOK
<1>5. ASSUME f \in Given(r), row'[f] = patch[r][f] PROVE Author(r, f)'
  <2>1. r \in Writers(f)'
    BY <1>1, <1>5 DEF Writers, Given
  <2>2. \A q \in Writers(f)' : q \in Reqs
    BY <1>4 DEF Writers
  <2> QED
    BY <1>1, <1>2, <1>5, <2>1, <2>2 DEF Author
<1>6. ASSUME f \notin Given(r) PROVE (Unwritten(f) \/ \E q \in Reqs : Author(q, f))'
  <2>1. Writers(f)' = Writers(f) /\ row'[f] = row[f]
    BY <1>1, <1>3, <1>6 DEF Writers, Given
  <2>2. CASE Unwritten(f)
    BY <1>1, <2>1, <2>2 DEF Unwritten
  <2>3. ASSUME NEW q \in Reqs, Author(q, f) PROVE Author(q, f)'
    BY <1>1, <2>1, <2>3 DEF Author
  <2> QED
    BY <2>2, <2>3 DEF Inv, Settled
<1>7. ASSUME f \in Given(r), row'[f] # patch[r][f]
      PROVE  \E q \in Reqs : Author(q, f)'
  <2>1. row'[f] = row[f] /\ patch[r][f] = loaded[r][f] /\ loaded[r][f] # row[f]
    BY <1>3, <1>7
  <2>2. PICK q \in Reqs : Author(q, f)
    BY <2>1 DEF Inv, Settled, Unwritten
  <2>3. q \notin after[r]
    BY <2>1, <2>2 DEF Author
  <2>4. Writers(f) \subseteq Writers(f)' /\ Writers(f)' \subseteq Writers(f) \cup {r}
    BY <1>1 DEF Writers, Given
  <2>5. Author(q, f)'
    BY <1>1, <2>1, <2>2, <2>3, <2>4 DEF Author
  <2> QED
    BY <2>5
<1> QED
  BY <1>5, <1>6, <1>7

\* Every field that was written has an author, whom no later PATCH of it followed.
THEOREM Invariant == Spec => []Inv
<1>1. Init => Ordered /\ Settled
  BY DEF Init, Ordered, Settled, Unwritten, Writers, Fresh
<1>2. TypeOK /\ Ordered /\ Settled /\ [Next]_vars => Ordered' /\ Settled'
  <2> SUFFICES ASSUME TypeOK, Ordered, Settled, [Next]_vars PROVE Settled'
    BY OrderedStep
  <2>1. wrote \subseteq Reqs /\ \A r \in wrote : pc[r] \notin {"idle", "loaded"}
    BY DEF TypeOK, Ordered
  <2> USE DEF Goto, Read, requestVars, TypeOK
  <2>2. ASSUME NEW r \in Reqs, Unauthorized(r) \/ Reload(r) \/ Publish(r)
        PROVE  Settled'
    BY <2>1, <2>2, QuietStep DEF Unauthorized, Reload, Publish
  <2>3. ASSUME NEW r \in Reqs, GetMe(r) PROVE Settled'
    BY <2>1, <2>3, QuietStep DEF GetMe
  <2>4. ASSUME NEW r \in Reqs, NEW body \in Patches, PatchMe(r, body) PROVE Settled'
    BY <2>1, <2>4, QuietStep DEF PatchMe
  <2>5. ASSUME NEW r \in Reqs, Commit(r) PROVE Settled'
    BY <2>5, FlushStep DEF Commit, Inv, Places
  <2>6. ASSUME NEW r \in Reqs, Raise(r) PROVE Settled'
    <3>1. CASE pc[r] = "loaded" /\ Flush(r)
      BY <2>6, <3>1, FlushStep DEF Raise, Inv, Places
    <3>2. CASE UNCHANGED <<row, requestVars, wrote>>
      BY <2>1, <2>6, <3>2, QuietStep DEF Raise
    <3> QED
      BY <2>6, <3>1, <3>2 DEF Raise
  <2>7. CASE UNCHANGED vars
    BY <2>1, <2>7, QuietStep DEF vars
  <2> QED
    BY <2>2, <2>3, <2>4, <2>5, <2>6, <2>7 DEF Next
<1> QED
  BY <1>1, <1>2, TypeCorrect, PTL DEF Spec, Inv

LEMMA RowIsCurrent ==
    ASSUME Inv, NEW f \in Fields, NEW W \in SUBSET Writers(f)
    PROVE  Current(f, row[f], W)
BY DEF Inv, Settled, Unwritten, Author, Current

\* No update is lost, whatever the requests that overlap, fail or die: the value
\* of a field was given to it by a PATCH, and no PATCH that came after that one
\* was answered gave it something else.
THEOREM NoLostUpdate == Spec => []NoPatchUndone
<1>1. Inv => NoPatchUndone
  BY RowIsCurrent DEF NoPatchUndone
<1> QED
  BY <1>1, Invariant, PTL

-----------------------------------------------------------------------------
\* What a client is shown stays current: a writer that commits later is not one
\* that it knew of.
LEMMA StaysCurrent ==
    ASSUME NEW f \in Fields, NEW v, NEW W, Current(f, v, W),
           Writers(f) \subseteq Writers(f)',
           \A q \in Writers(f) : patch'[q] = patch[q],
           \A r \in W : after'[r] = after[r]
    PROVE  Current(f, v, W)'
BY DEF Current

LEMMA ShownStep ==
    ASSUME Inv, ShownIsCurrent, [Next]_vars
    PROVE  ShownIsCurrent'
<1> USE DEF Goto, Read, requestVars, TypeOK
<1>1. /\ wrote \subseteq Reqs
      /\ \A r \in wrote : pc[r] \notin {"idle", "loaded"}
      /\ \A r, q \in Reqs : q \in after[r] => pc[q] \notin {"idle", "loaded"}
  BY DEF Inv, Ordered, Answered
<1>2. \A f \in Fields : Writers(f) \subseteq Reqs /\ Writers(f) \subseteq wrote
  BY <1>1 DEF Writers
\* Nothing is written, and each request that is shown something either has what
\* it had or has just read the row.
<1>3. ASSUME wrote' = wrote,
             \A r \in wrote : patch'[r] = patch[r] /\ after'[r] = after[r],
             \A r \in Reqs : pc'[r] \in {"reloaded", "200"} =>
                 \/ loaded'[r] = row
                 \/ /\ pc[r] \in {"reloaded", "200"}
                    /\ loaded'[r] = loaded[r] /\ after'[r] = after[r]
      PROVE  ShownIsCurrent'
  <2> SUFFICES ASSUME NEW r \in Reqs, pc'[r] \in {"reloaded", "200"},
                      NEW f \in Fields
               PROVE  Current(f, loaded[r][f], Writers(f) \cap (after[r] \cup {r}))'
    BY DEF ShownIsCurrent
  <2>1. Writers(f)' = Writers(f)
    BY <1>3 DEF Writers, Given
  <2> DEFINE W == Writers(f) \cap (after'[r] \cup {r})
             v == loaded'[r][f]
  <2>2. Current(f, v, W)
    BY <1>3, RowIsCurrent DEF ShownIsCurrent
  <2> HIDE DEF W, v
  <2>3. \A q \in Writers(f) : patch'[q] = patch[q] /\ after'[q] = after[q]
    BY <1>2, <1>3
  <2>4. \A q \in W : after'[q] = after[q]
    BY <2>3 DEF W
  <2> QED
    BY <2>1, <2>2, <2>3, <2>4 DEF Current, W, v
\* The UPDATE of r.
<1>4. ASSUME NEW r \in Reqs, pc[r] = "loaded", Flush(r),
             NEW p \in {"committed", "500"}, Goto(r, p)
      PROVE  ShownIsCurrent'
  <2> SUFFICES ASSUME NEW q \in Reqs, pc'[q] \in {"reloaded", "200"},
                      NEW f \in Fields
               PROVE  Current(f, loaded[q][f], Writers(f) \cap (after[q] \cup {q}))'
    BY DEF ShownIsCurrent
  <2>1. /\ patch' = patch /\ after' = after /\ loaded' = loaded
        /\ wrote' = wrote \cup {r} /\ q # r /\ pc[q] \in {"reloaded", "200"}
    BY <1>4 DEF Flush, Inv
  <2>2. r \notin after[q]
    BY <1>1, <1>4
  <2>3. Writers(f) \subseteq Writers(f)' /\ Writers(f)' \subseteq Writers(f) \cup {r}
    BY <2>1 DEF Writers, Given
  <2> DEFINE W == Writers(f) \cap (after[q] \cup {q})
  <2>4. Writers(f)' \cap (after'[q] \cup {q}) = W
    BY <2>1, <2>2, <2>3
  <2>5. Current(f, loaded[q][f], W)
    BY <2>1 DEF ShownIsCurrent
  <2> HIDE DEF W
  <2> QED
    BY <2>1, <2>3, <2>4, <2>5 DEF Current
<1>5. ASSUME NEW r \in Reqs, Unauthorized(r) \/ Reload(r) \/ Publish(r)
      PROVE  ShownIsCurrent'
  BY <1>1, <1>3, <1>5 DEF Unauthorized, Reload, Publish, Inv
<1>6. ASSUME NEW r \in Reqs, GetMe(r) PROVE ShownIsCurrent'
  BY <1>1, <1>3, <1>6 DEF GetMe, Inv
<1>7. ASSUME NEW r \in Reqs, NEW body \in Patches, PatchMe(r, body)
      PROVE  ShownIsCurrent'
  BY <1>1, <1>3, <1>7 DEF PatchMe, Inv
<1>8. ASSUME NEW r \in Reqs, Commit(r) PROVE ShownIsCurrent'
  BY <1>4, <1>8 DEF Commit
<1>9. ASSUME NEW r \in Reqs, Raise(r) PROVE ShownIsCurrent'
  <2>1. CASE pc[r] = "loaded" /\ Flush(r)
    BY <1>4, <1>9, <2>1 DEF Raise
  <2>2. CASE UNCHANGED <<row, requestVars, wrote>>
    BY <1>1, <1>3, <1>9, <2>2 DEF Raise, Inv
  <2> QED
    BY <1>9, <2>1, <2>2 DEF Raise
<1>10. CASE UNCHANGED vars
  BY <1>3, <1>10 DEF vars
<1> QED
  BY <1>5, <1>6, <1>7, <1>8, <1>9, <1>10 DEF Next

\* An answer is no older than its request: it shows every PATCH answered before
\* the request came, and the request's own.
THEOREM AnswersAreCurrent == Spec => []AnswerIsCurrent
<1>1. Init => ShownIsCurrent
  BY DEF Init, ShownIsCurrent
<1>2. ShownIsCurrent => AnswerIsCurrent
  BY DEF ShownIsCurrent, AnswerIsCurrent
<1>3. Inv /\ ShownIsCurrent /\ [Next]_vars => ShownIsCurrent'
  BY ShownStep
<1> QED
  BY <1>1, <1>2, <1>3, Invariant, PTL DEF Spec

-----------------------------------------------------------------------------
(* The stream.  A request publishes once, after its UPDATE and before it is
   answered, so the events of two requests that do not overlap come in the order
   of the requests.                                                          *)

Changes == UNION {[S -> Values \cup {Absent}] : S \in SUBSET Fields}
Events == [request : Reqs, changes : Changes]

\* The event at k is that of a request whose UPDATE is committed and that is
\* answered, or failed after it had published.
Published(k) ==
    /\ stream[k].request \in wrote
    /\ pc[stream[k].request] \in {"200", "500"}
    /\ stream[k].changes = Event(stream[k].request).changes

HasLast(f) ==
    Tellings(f) = {} \/ \E k \in Tellings(f) : \A l \in Tellings(f) : l <= k

StreamOK ==
    /\ stream \in Seq(Events)
    /\ \A r \in Reqs : pc[r] \in {"committed", "reloaded"} => r \in wrote
    /\ \A k \in DOMAIN stream : Published(k)
    /\ \A r \in wrote : pc[r] = "200" => \E k \in DOMAIN stream : stream[k].request = r
    /\ \A k, l \in DOMAIN stream :
           stream[k].request \in after[stream[l].request] => k < l
    /\ \A f \in Fields : HasLast(f)

LEMMA EventType ==
    ASSUME TypeOK, NEW r \in Reqs
    PROVE  Event(r) \in Events /\ Event(r).request = r
<1>1. Given(r) \in SUBSET Fields
  BY DEF Given
<1>2. [f \in Given(r) |-> patch[r][f]] \in [Given(r) -> Values \cup {Absent}]
  BY <1>1 DEF TypeOK
<1>3. [f \in Given(r) |-> patch[r][f]] \in Changes
  BY <1>1, <1>2 DEF Changes
<1> QED
  BY <1>3 DEF Event, Events, Told

\* A step that publishes nothing.
LEMMA NothingPublished ==
    ASSUME StreamOK, stream' = stream, wrote \subseteq wrote', wrote \subseteq Reqs,
           \A r \in wrote : /\ patch'[r] = patch[r] /\ after'[r] = after[r]
                            /\ pc[r] \in {"200", "500"} => pc'[r] = pc[r],
           \A r \in wrote' : pc'[r] = "200" => r \in wrote /\ pc[r] = "200",
           \A r \in Reqs : pc'[r] \in {"committed", "reloaded"} => r \in wrote'
    PROVE  StreamOK'
<1>1. ASSUME NEW k \in DOMAIN stream PROVE Published(k)'
  <2>1. PICK r : r = stream[k].request
    OBVIOUS
  <2>2. /\ r \in wrote /\ pc[r] \in {"200", "500"}
        /\ stream[k].changes = Event(r).changes
    BY <1>1, <2>1 DEF StreamOK, Published
  <2>3. patch'[r] = patch[r] /\ pc'[r] = pc[r] /\ r \in wrote'
    BY <2>2
  <2>4. Event(r)' = Event(r)
    BY <2>3 DEF Event, Told, Given
  <2>5. Event(r).changes' = Event(r).changes
    BY <2>4
  <2> QED
    BY <2>1, <2>2, <2>3, <2>5 DEF Published
<1>2. \A k \in DOMAIN stream : stream[k].request \in wrote
  BY DEF StreamOK, Published
<1>3. \A k, l \in DOMAIN stream :
          stream[k].request \in after'[stream[l].request] => k < l
  BY <1>2 DEF StreamOK
<1>4. \A r \in wrote' : pc'[r] = "200" => \E k \in DOMAIN stream : stream[k].request = r
  BY DEF StreamOK
<1>5. \A f \in Fields : HasLast(f)'
  BY DEF StreamOK, HasLast, Tellings
<1> QED
  BY <1>1, <1>3, <1>4, <1>5 DEF StreamOK

\* The event of r, whatever becomes of r.
LEMMA OnePublished ==
    ASSUME TypeOK, Ordered, StreamOK, NEW r \in Reqs, pc[r] = "reloaded",
           stream' = Append(stream, Event(r)), NEW p \in {"200", "500"}, Goto(r, p),
           UNCHANGED <<row, requestVars, wrote>>
    PROVE  StreamOK'
<1>1. PICK n \in Nat : n = Len(stream)
  BY DEF StreamOK
<1>2. /\ DOMAIN stream = 1..n /\ DOMAIN stream' = 1..(n + 1)
      /\ stream' \in Seq(Events) /\ stream'[n + 1] = Event(r)
      /\ \A k \in 1..n : stream'[k] = stream[k]
  BY <1>1, EventType DEF StreamOK
<1>3. /\ patch' = patch /\ after' = after /\ wrote' = wrote /\ pc'[r] = p
      /\ \A q \in Reqs \ {r} : pc'[q] = pc[q]
      /\ wrote \subseteq Reqs /\ r \in wrote
  BY DEF requestVars, Goto, TypeOK, StreamOK
<1>4. \A q \in Reqs : Event(q)' = Event(q)
  BY <1>3 DEF Event, Told, Given
<1>5. \A k \in 1..n : /\ Published(k) /\ stream[k].request # r
                      /\ stream[k].request \in wrote
  BY <1>2 DEF StreamOK, Published
<1>6. ASSUME NEW k \in DOMAIN stream' PROVE Published(k)'
  <2>1. CASE k = n + 1
    BY <1>2, <1>3, <1>4, <2>1, EventType DEF Published
  <2>2. CASE k \in 1..n
    BY <1>2, <1>3, <1>4, <1>5, <2>2 DEF Published
  <2> QED
    BY <1>2, <2>1, <2>2
<1>7. ASSUME NEW q \in wrote, pc'[q] = "200"
      PROVE  \E k \in DOMAIN stream' : stream'[k].request = q
  <2>1. CASE q = r
    BY <1>2, <2>1, EventType
  <2>2. CASE q # r
    <3>1. PICK k \in 1..n : stream[k].request = q
      BY <1>2, <1>3, <1>7, <2>2 DEF StreamOK
    <3> QED
      BY <1>2, <3>1
  <2> QED
    BY <2>1, <2>2
<1>8. ASSUME NEW k \in DOMAIN stream', NEW l \in DOMAIN stream',
             stream'[k].request \in after[stream'[l].request]
      PROVE  k < l
  <2>1. CASE k = n + 1
    <3>1. stream'[l].request \in Reqs
      BY <1>2, <1>3, <1>5, EventType
    <3>2. stream'[k].request = r
      BY <1>2, <2>1, EventType
    <3>3. r \in Answered
      BY <1>8, <3>1, <3>2 DEF Ordered
    <3> QED
      BY <3>3 DEF Answered
  <2>2. CASE k \in 1..n /\ l = n + 1
    BY <2>2
  <2>3. CASE k \in 1..n /\ l \in 1..n
    BY <1>2, <1>8, <2>3 DEF StreamOK
  <2> QED
    BY <1>2, <2>1, <2>2, <2>3
<1>9. ASSUME NEW f \in Fields PROVE HasLast(f)'
  <2>1. CASE f \in DOMAIN Event(r).changes
    <3>1. n + 1 \in Tellings(f)'
      BY <1>2, <2>1 DEF Tellings
    <3>2. \A l \in Tellings(f)' : l <= n + 1
      BY <1>2 DEF Tellings
    <3> QED
      BY <3>1, <3>2 DEF HasLast
  <2>2. CASE f \notin DOMAIN Event(r).changes
    <3>1. Tellings(f)' = Tellings(f)
      BY <1>2, <2>2 DEF Tellings
    <3> QED
      BY <3>1 DEF StreamOK, HasLast
  <2> QED
    BY <2>1, <2>2
<1> QED
  BY <1>2, <1>3, <1>6, <1>7, <1>8, <1>9 DEF StreamOK

LEMMA StreamStep ==
    ASSUME TypeOK, Ordered, StreamOK, [Next]_vars
    PROVE  StreamOK'
<1> USE DEF Goto, Read, requestVars, TypeOK
<1>1. /\ wrote \subseteq Reqs
      /\ \A r \in wrote : pc[r] \notin {"idle", "loaded"}
      /\ \A r \in Reqs : pc[r] \in {"committed", "reloaded"} => r \in wrote
  BY DEF Ordered, StreamOK
<1>2. ASSUME NEW r \in Reqs, Unauthorized(r) \/ GetMe(r) PROVE StreamOK'
  BY <1>1, <1>2, NothingPublished DEF Unauthorized, GetMe
<1>3. ASSUME NEW r \in Reqs, NEW body \in Patches, PatchMe(r, body) PROVE StreamOK'
  BY <1>1, <1>3, NothingPublished DEF PatchMe
<1>4. ASSUME NEW r \in Reqs, Commit(r) PROVE StreamOK'
  BY <1>1, <1>4, NothingPublished DEF Commit, Flush
<1>5. ASSUME NEW r \in Reqs, Reload(r) PROVE StreamOK'
  BY <1>1, <1>5, NothingPublished DEF Reload
<1>6. ASSUME NEW r \in Reqs, Publish(r) PROVE StreamOK'
  BY <1>6, OnePublished DEF Publish
<1>7. ASSUME NEW r \in Reqs, Raise(r) PROVE StreamOK'
  <2>1. CASE pc[r] = "loaded" /\ Flush(r)
    BY <1>1, <1>7, <2>1, NothingPublished DEF Raise, Flush
  <2>2. CASE pc[r] \in {"loaded", "committed", "reloaded"}
             /\ UNCHANGED <<row, requestVars, stream, wrote>>
    BY <1>1, <1>7, <2>2, NothingPublished DEF Raise
  <2>3. CASE /\ pc[r] = "reloaded" /\ stream' = Append(stream, Event(r))
             /\ UNCHANGED <<row, requestVars, wrote>>
    BY <1>7, <2>3, OnePublished DEF Raise
  <2> QED
    BY <1>7, <2>1, <2>2, <2>3 DEF Raise
<1>8. CASE UNCHANGED vars
  BY <1>1, <1>8, NothingPublished DEF vars
<1> QED
  BY <1>2, <1>3, <1>4, <1>5, <1>6, <1>7, <1>8 DEF Next

\* When every writer of a field has published, the last to tell of it did not
\* come before the author of its value was answered, nor was it answered before
\* the author came: it would not have been the last.
LEMMA LastTeller ==
    ASSUME Inv, StreamOK, NEW f \in Fields, \A r \in Writers(f) : pc[r] = "200"
    PROVE  \/ Projection(f) = row[f]
           \/ \E q, r \in Writers(f) : /\ patch[q][f] = row[f]
                                        /\ patch[r][f] = Projection(f)
                                        /\ Overlap(q, r)
<1>1. ASSUME NEW q \in Writers(f)
      PROVE  \E l \in Tellings(f) : stream[l].request = q
  <2>1. q \in wrote /\ f \in Given(q) /\ pc[q] = "200"
    BY <1>1 DEF Writers
  <2>2. PICK l \in DOMAIN stream : stream[l].request = q
    BY <2>1 DEF StreamOK
  <2>3. f \in DOMAIN stream[l].changes
    BY <2>1, <2>2 DEF StreamOK, Published, Event, Told
  <2> QED
    BY <2>2, <2>3 DEF Tellings
<1>2. CASE Tellings(f) = {}
  <2>1. Projection(f) = Blank
    BY <1>2 DEF Projection
  <2>2. row[f] = Blank
    BY <1>1, <1>2 DEF Inv, Settled, Unwritten, Author
  <2> QED
    BY <2>1, <2>2
<1>3. CASE Tellings(f) # {}
  <2>1. PICK k : /\ k \in Tellings(f) /\ \A l \in Tellings(f) : l <= k
                 /\ Projection(f) = stream[k].changes[f]
    <3>1. \E k \in Tellings(f) : \A l \in Tellings(f) : l <= k
      BY <1>3 DEF StreamOK, HasLast
    <3> QED
      BY <1>3, <3>1 DEF Projection
  <2>2. PICK r : r = stream[k].request
    OBVIOUS
  <2>3. /\ k \in DOMAIN stream /\ k \in Nat /\ r \in Reqs /\ r \in wrote
        /\ stream[k].changes = Event(r).changes /\ f \in DOMAIN stream[k].changes
    <3>1. k \in DOMAIN stream /\ f \in DOMAIN stream[k].changes
      BY <2>1 DEF Tellings
    <3>2. Published(k) /\ k \in Nat
      BY <3>1 DEF StreamOK
    <3>3. r \in wrote /\ stream[k].changes = Event(r).changes
      BY <2>2, <3>2 DEF Published
    <3> QED
      BY <3>1, <3>2, <3>3 DEF Inv, TypeOK
  <2>4. f \in Given(r) /\ stream[k].changes[f] = patch[r][f]
    BY <2>3 DEF Event, Told
  <2>5. r \in Writers(f) /\ Projection(f) = patch[r][f]
    BY <2>1, <2>3, <2>4 DEF Writers
  <2>6. PICK q \in Reqs : Author(q, f)
    BY <2>5 DEF Inv, Settled, Unwritten
  <2>7. q \in Writers(f) /\ patch[q][f] = row[f] /\ q \notin after[r]
    BY <2>5, <2>6 DEF Author
  <2>8. PICK l \in Tellings(f) : stream[l].request = q
    BY <1>1, <2>7
  <2>9. r \notin after[q]
    <3>1. l <= k /\ l \in DOMAIN stream /\ l \in Nat
      BY <2>1, <2>8 DEF Tellings, StreamOK
    <3>2. r \in after[q] => k < l
      BY <2>2, <2>3, <2>8, <3>1 DEF StreamOK
    <3> QED
      BY <2>3, <3>1, <3>2
  <2> QED
    BY <2>5, <2>7, <2>9 DEF Overlap
<1> QED
  BY <1>2, <1>3

\* user.updated keeps a copy of the profile true, for any number of requests and
\* whatever is raised: the copy a reader of the stream has of a field differs
\* from the row only while a request is in flight, when a PATCH of the field
\* failed, or when the two were written by PATCHes that overlapped.
THEOREM EventsTell == Spec => []EventsTellProfile
<1>1. Init => StreamOK
  BY DEF Init, StreamOK, HasLast, Tellings
<1>2. Inv /\ StreamOK /\ [Next]_vars => StreamOK'
  BY StreamStep DEF Inv
<1>3. Inv /\ StreamOK => EventsTellProfile
  BY LastTeller DEF EventsTellProfile
<1> QED
  BY <1>1, <1>2, <1>3, Invariant, PTL DEF Spec

=============================================================================
