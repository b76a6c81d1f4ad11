------------------------- MODULE GatewayLocalProofs -------------------------
(***************************************************************************)
(* Theorems about what the gateway answers itself: the media responses,    *)
(* for files of any size, chunks of any size and any number of requests,   *)
(* whatever happens to the file while they are served, and the document of *)
(* the API, for any list of services, whichever of them answer.            *)
(***************************************************************************)
EXTENDS GatewayLocal, SequenceTheorems, WellFoundedInduction, TLAPS

\* A range is refused exactly when it asks for no byte of the file, and
\* otherwise the answer promises exactly the bytes asked for, for a file of
\* any size and any two numbers.
THEOREM RangeIsWhatWasAsked ==
    ASSUME NEW length \in Nat, NEW h \in Headers
    PROVE  /\ Satisfiable(length, h) <=> Asked(length, h) # {}
           /\ Satisfiable(length, h)
                => FirstByte(length, h)..LastByte(length, h) = Asked(length, h)
<1> DEFINE f == FirstByte(length, h)
           l == LastByte(length, h)
<1>1. f \in Int /\ l \in Int /\ f >= 0 /\ l <= length - 1
  BY DEF FirstByte, LastByte, Larger, Smaller, Headers, Numbers, Blank
<1>2. ASSUME NEW p \in 0..(length - 1), h.first # Blank \/ h.last # Blank
      PROVE  p \in Asked(length, h) <=> f <= p /\ p <= l
  BY <1>2 DEF Asked, FirstByte, LastByte, Larger, Smaller, Headers, Numbers, Blank
<1>3. ASSUME ~(h.first # Blank \/ h.last # Blank)
      PROVE  Asked(length, h) = {}
  BY <1>3 DEF Asked
<1>4. Asked(length, h) \subseteq 0..(length - 1)
  BY DEF Asked
<1>5. ASSUME Satisfiable(length, h) PROVE f..l = Asked(length, h)
  <2>1. h.first # Blank \/ h.last # Blank
    BY <1>5 DEF Satisfiable
  <2>2. \A p \in 0..(length - 1) : p \in Asked(length, h) <=> f <= p /\ p <= l
    BY <1>2, <2>1
  <2> HIDE DEF f, l
  <2>3. \A p : p \in f..l <=> p \in Asked(length, h)
    BY <1>1, <1>4, <2>2
  <2> QED
    BY <2>3
<1>6. Satisfiable(length, h) => f \in f..l
  BY <1>1 DEF Satisfiable
<1>7. ASSUME NEW p \in Asked(length, h) PROVE Satisfiable(length, h)
  BY <1>1, <1>2, <1>3, <1>4, <1>7 DEF Satisfiable
<1> QED
  BY <1>5, <1>6, <1>7

-----------------------------------------------------------------------------
Stages == InProgress \cup Answers \cup {"idle"}
DocsPlaces == DocsStages \cup {"probe", "docs", "health"}
Promises == [size : Nat, first : Nat, last : Int]

Shape ==
    /\ size \in Nat
    /\ pc \in [Clients -> Stages]
    /\ header \in [Clients -> Headers \cup {NoRange}]
    /\ promise \in [Clients -> Promises]
    /\ sent \in [Clients -> Nat]
    /\ shrunk \in [Clients -> BOOLEAN]

\* The range that was worked out is the one asked for ...
Exact(c) ==
    /\ pc[c] \in {"open", "read", "range", "broken"}
         => /\ promise[c].first..promise[c].last
                 = Asked(promise[c].size, header[c])
            /\ promise[c].first <= promise[c].last
    /\ pc[c] = "416" => Asked(promise[c].size, header[c]) = {}

\* ... and lies within the file as long as the file has not shrunk.
Within(c) ==
    pc[c] \in {"open", "read"} /\ ~shrunk[c] => promise[c].last < size

Kept(c) ==
    /\ sent[c] <= Promised(c)
    /\ pc[c] = "range" /\ ~shrunk[c] => sent[c] = Promised(c)

Asking(c) == pc[c] = "stat" => header[c] \in Headers /\ sent[c] = 0

Local(c) == Exact(c) /\ Within(c) /\ Kept(c) /\ Asking(c)

MediaInv == Shape /\ \A c \in Clients : Local(c)

-----------------------------------------------------------------------------
LEMMA InitMedia == Init => MediaInv
<1> SUFFICES ASSUME Init PROVE MediaInv
  OBVIOUS
<1>1. Shape
  BY GatewayLocalAssumption
     DEF Init, Shape, Stages, Promises, NoPromise
<1>2. ASSUME NEW c \in Clients PROVE Local(c)
  BY DEF Init, Local, Exact, Within, Kept, Asking, Promised, NoPromise
<1> QED
  BY <1>1, <1>2 DEF MediaInv

\* What leaves the media variables and the stages of media requests alone.
LEMMA DocsStep ==
    ASSUME MediaInv, NEW c \in Clients, NEW place \in DocsPlaces,
           Goto(c, place), UNCHANGED <<size, mediaVars>>
    PROVE  MediaInv'
<1>1. Shape'
  BY DEF MediaInv, Shape, Goto, mediaVars, Stages, DocsPlaces, InProgress,
         Answers, DocsStages
<1>2. ASSUME NEW d \in Clients PROVE Local(d)'
  <2>1. pc'[d] = pc[d] \/ pc'[d] \in DocsPlaces
    BY DEF Goto, MediaInv, Shape
  <2> QED
    BY <2>1 DEF MediaInv, Local, Exact, Within, Kept, Asking, Promised,
                mediaVars, DocsPlaces, DocsStages
<1> QED
  BY <1>1, <1>2 DEF MediaInv

LEMMA IdleStep ==
    ASSUME MediaInv, UNCHANGED <<size, pc, mediaVars>>
    PROVE  MediaInv'
BY DEF MediaInv, Shape, Local, Exact, Within, Kept, Asking, Promised, mediaVars

\* A new request starts with no promise and nothing sent.
LEMMA FreshStep ==
    ASSUME MediaInv, NEW c \in Clients, NEW h \in Headers \cup {NoRange},
           NEW stage \in DocsPlaces \cup {"404", "whole", "stat"}, NEW down,
           Fresh(c, stage, h, down), stage = "stat" => h \in Headers
    PROVE  MediaInv'
<1>1. Shape'
  BY DEF MediaInv, Shape, Fresh, Goto, fileVars, Stages, DocsPlaces,
         InProgress, MediaStages, Answers, DocsStages, Promises, NoPromise
<1>2. ASSUME NEW d \in Clients, d # c PROVE Local(d)'
  BY <1>2 DEF MediaInv, Shape, Fresh, Goto, fileVars, Local, Exact, Within,
              Kept, Asking, Promised
<1>3. Local(c)'
  BY DEF MediaInv, Shape, Fresh, Goto, Local, Exact, Within, Kept, Asking,
         Promised, NoPromise, DocsPlaces, DocsStages
<1> QED
  BY <1>1, <1>2, <1>3 DEF MediaInv

-----------------------------------------------------------------------------
(* The steps of a media request *)

LEMMA StatStep ==
    ASSUME MediaInv, NEW c \in Clients, Stat(c)
    PROVE  MediaInv'
<1>1. pc[c] = "stat" /\ header[c] \in Headers /\ sent[c] = 0 /\ size \in Nat
  BY DEF Stat, MediaInv, Local, Asking, Shape
<1>2. /\ FirstByte(size, header[c]) \in Nat
      /\ LastByte(size, header[c]) \in Int
      /\ LastByte(size, header[c]) <= size - 1
  BY <1>1 DEF FirstByte, LastByte, Larger, Smaller, Headers, Numbers, Blank
<1>3. /\ Satisfiable(size, header[c]) <=> Asked(size, header[c]) # {}
      /\ Satisfiable(size, header[c])
           => FirstByte(size, header[c])..LastByte(size, header[c])
                = Asked(size, header[c])
  BY <1>1, RangeIsWhatWasAsked
<1>4. Satisfiable(size, header[c])
        => FirstByte(size, header[c]) <= LastByte(size, header[c])
  BY DEF Satisfiable
<1>5. UNCHANGED <<size, header, sent, shrunk>>
  BY DEF Stat, fileVars
<1>6. ASSUME NEW d \in Clients, d # c
      PROVE  Local(d)'
  <2>1. pc'[d] = pc[d] /\ promise'[d] = promise[d]
    BY <1>6 DEF Stat, Goto, MediaInv, Shape
  <2> QED
    BY <2>1, <1>5 DEF MediaInv, Local, Exact, Within, Kept, Asking, Promised
<1>7. CASE ~there
  <2>1. Shape'
    BY <1>5, <1>7 DEF Stat, Goto, MediaInv, Shape, Stages, Answers
  <2>2. Local(c)'
    BY <1>5, <1>7 DEF Stat, Goto, MediaInv, Shape, Local, Exact, Within, Kept,
                      Asking, Promised
  <2> QED
    BY <1>6, <2>1, <2>2 DEF MediaInv
<1>8. CASE there /\ ~Satisfiable(size, header[c])
  <2>1. pc'[c] = "416" /\ promise'[c] = [promise[c] EXCEPT !.size = size]
    BY <1>8 DEF Stat, Goto, MediaInv, Shape
  <2>2. promise[c] \in Promises
    BY DEF MediaInv, Shape
  <2>3. /\ promise'[c].size = size /\ promise'[c].first = promise[c].first
        /\ promise'[c].last = promise[c].last /\ promise'[c] \in Promises
    BY <1>1, <2>1, <2>2 DEF Promises
  <2>4. Shape'
    BY <1>5, <1>8, <2>3 DEF Stat, Goto, MediaInv, Shape, Stages, Answers
  <2>5. Local(c)'
    BY <1>3, <1>5, <1>8, <2>1, <2>3
       DEF MediaInv, Local, Exact, Within, Kept, Asking, Promised
  <2> QED
    BY <1>6, <2>4, <2>5 DEF MediaInv
<1>9. CASE there /\ Satisfiable(size, header[c])
  <2>1. /\ pc'[c] = "open"
        /\ promise'[c] = [size  |-> size,
                          first |-> FirstByte(size, header[c]),
                          last  |-> LastByte(size, header[c])]
    BY <1>9 DEF Stat, Goto, MediaInv, Shape
  <2>2. promise'[c] \in Promises
    BY <1>1, <1>2, <2>1 DEF Promises
  <2>3. Shape'
    BY <1>5, <1>9, <2>1, <2>2
       DEF Stat, Goto, MediaInv, Shape, Stages, InProgress, MediaStages
  <2>4. Local(c)'
    BY <1>1, <1>2, <1>3, <1>4, <1>5, <1>9, <2>1
       DEF Local, Exact, Within, Kept, Asking, Promised
  <2> QED
    BY <1>6, <2>3, <2>4 DEF MediaInv
<1> QED
  BY <1>7, <1>8, <1>9

LEMMA OpenStep ==
    ASSUME MediaInv, NEW c \in Clients, Open(c)
    PROVE  MediaInv'
<1>1. Shape'
  BY DEF MediaInv, Shape, Open, Goto, fileVars, mediaVars, Stages, InProgress,
         MediaStages, Answers
<1>2. ASSUME NEW d \in Clients PROVE Local(d)'
  <2>1. pc'[d] = pc[d] \/ (pc[d] = "open" /\ pc'[d] \in {"read", "broken"})
    BY DEF Open, Goto, MediaInv, Shape
  <2> QED
    BY <2>1 DEF Open, MediaInv, Local, Exact, Within, Kept, Asking, Promised,
                fileVars, mediaVars
<1> QED
  BY <1>1, <1>2 DEF MediaInv

\* An empty read before the end of the range means that the file has shrunk.
LEMMA ReadStep ==
    ASSUME MediaInv, NEW c \in Clients, Read(c)
    PROVE  MediaInv'
<1>1. /\ sent[c] \in Nat /\ size \in Nat /\ ChunkSize \in Nat \ {0}
      /\ promise[c].first \in Nat /\ promise[c].last \in Int
      /\ pc[c] = "read"
  BY GatewayLocalAssumption DEF MediaInv, Shape, Promises, Read
<1>2. Local(c)
  BY DEF MediaInv
<1>3. UNCHANGED <<size, header, promise, shrunk>>
  BY DEF Read, fileVars
<1>4. ASSUME NEW d \in Clients, d # c PROVE Local(d)'
  <2>1. pc'[d] = pc[d] /\ sent'[d] = sent[d]
    BY <1>4 DEF Read, Goto, MediaInv, Shape
  <2> QED
    BY <2>1, <1>3 DEF MediaInv, Local, Exact, Within, Kept, Asking, Promised
<1>5. CASE Remaining(c) > 0 /\ Chunk(c) > 0
  <2>1. /\ Chunk(c) \in Nat /\ Chunk(c) <= Remaining(c)
    BY <1>1, <1>5 DEF Chunk, Remaining, Promised, Smaller, Larger
  <2>2. sent'[c] = sent[c] + Chunk(c) /\ UNCHANGED pc
    BY <1>5 DEF Read, MediaInv, Shape
  <2>3. sent[c] + Chunk(c) \in Nat
    BY <1>1, <2>1
  <2>4. Shape'
    BY <1>3, <1>5, <2>3 DEF Read, MediaInv, Shape
  <2>5. sent'[c] <= Promised(c)
    BY <1>1, <2>1, <2>2 DEF Remaining, Promised
  <2>6. Local(c)'
    BY <1>1, <1>2, <1>3, <2>2, <2>5
       DEF Local, Exact, Within, Kept, Asking, Promised
  <2> QED
    BY <1>4, <2>4, <2>6 DEF MediaInv
<1>6. CASE ~(Remaining(c) > 0 /\ Chunk(c) > 0)
  <2>1. pc' = [pc EXCEPT ![c] = "range"] /\ UNCHANGED sent
    BY <1>6 DEF Read, Goto
  <2>2. Shape'
    BY <1>3, <2>1 DEF MediaInv, Shape, Stages, Answers
  <2>3. ASSUME ~shrunk[c] PROVE sent[c] = Promised(c)
    <3>1. promise[c].last < size /\ sent[c] <= Promised(c)
      BY <1>1, <1>2, <2>3 DEF Local, Within, Kept
    <3>2. Remaining(c) > 0 => Chunk(c) > 0
      BY <1>1, <3>1 DEF Chunk, Remaining, Promised, Smaller, Larger
    <3> QED
      BY <1>1, <1>6, <3>1, <3>2 DEF Remaining, Promised
  <2>4. pc'[c] = "range"
    BY <2>1 DEF MediaInv, Shape
  <2>5. Local(c)'
    BY <1>1, <1>2, <1>3, <2>1, <2>3, <2>4
       DEF Local, Exact, Within, Kept, Asking, Promised
  <2> QED
    BY <1>4, <2>2, <2>5 DEF MediaInv
<1> QED
  BY <1>5, <1>6

LEMMA ResizeStep ==
    ASSUME MediaInv, NEW n \in 0..MaxSize, Resize(n)
    PROVE  MediaInv'
<1>1. size' = n /\ n \in Nat /\ UNCHANGED <<pc, header, promise, sent>>
  BY GatewayLocalAssumption DEF Resize
<1>2. Shape'
  BY <1>1 DEF MediaInv, Shape, Resize
<1>3. ASSUME NEW d \in Clients PROVE Local(d)'
  <2>1. shrunk'[d] = (shrunk[d] \/ (pc[d] \in {"open", "read"}
                                      /\ n <= promise[d].last))
    BY DEF Resize
  <2>2. promise[d].last \in Int
    BY DEF MediaInv, Shape, Promises
  <2>3. ~shrunk'[d] => ~shrunk[d]
    BY <2>1
  <2>4. ASSUME pc[d] \in {"open", "read"}, ~shrunk'[d]
        PROVE  promise[d].last < n
    <3>1. ~(n <= promise[d].last)
      BY <2>1, <2>4, Zenon
    <3> QED
      BY <1>1, <2>2, <3>1
  <2>5. Within(d)'
    BY <1>1, <2>4 DEF Within
  <2>6. Kept(d)'
    BY <1>1, <2>3 DEF MediaInv, Local, Kept, Promised
  <2> QED
    BY <1>1, <2>5, <2>6 DEF MediaInv, Local, Exact, Asking
<1> QED
  BY <1>2, <1>3 DEF MediaInv

-----------------------------------------------------------------------------
LEMMA AskStep ==
    ASSUME MediaInv, NEW c \in Clients, Ask(c)
    PROVE  MediaInv'
<1>1. CASE AskDocs(c)
  BY <1>1, FreshStep DEF AskDocs, DocsPlaces, DocsStages
<1>2. CASE AskHealth(c)
  BY <1>2, FreshStep DEF AskHealth, DocsPlaces
<1>3. ASSUME NEW h \in RangeHeaders, AskMedia(c, h) PROVE MediaInv'
  <2> DEFINE stage == IF ~there THEN "404"
                      ELSE IF h = NoRange THEN "whole" ELSE "stat"
  <2>1. h \in Headers \cup {NoRange}
    BY GatewayLocalAssumption
  <2>2. stage \in {"404", "whole", "stat"} /\ (stage = "stat" => h \in Headers)
    BY <2>1
  <2>3. Fresh(c, stage, h, {})
    BY <1>3 DEF AskMedia
  <2> HIDE DEF stage
  <2> QED
    BY <2>1, <2>2, <2>3, FreshStep
<1> QED
  BY <1>1, <1>2, <1>3 DEF Ask

LEMMA ServeStep ==
    ASSUME MediaInv, NEW c \in Clients, Serve(c)
    PROVE  MediaInv'
<1>1. CASE Stat(c)
  BY <1>1, StatStep
<1>2. CASE Open(c)
  BY <1>2, OpenStep
<1>3. CASE Read(c)
  BY <1>3, ReadStep
<1>4. CASE Hit(c)
  BY <1>4, DocsStep DEF Hit, Proceed, fileVars, DocsPlaces, DocsStages
<1>5. CASE Miss(c)
  BY <1>5, DocsStep DEF Miss, fileVars, DocsPlaces, DocsStages
<1>6. CASE Fetch(c)
  BY <1>6, DocsStep DEF Fetch, fileVars, DocsPlaces, DocsStages
<1>7. CASE FetchFails(c)
  BY <1>7, DocsStep DEF FetchFails, Proceed, fileVars, DocsPlaces, DocsStages
<1>8. CASE Store(c)
  BY <1>8, DocsStep DEF Store, Proceed, fileVars, DocsPlaces, DocsStages
<1>9. CASE StoreFails(c)
  BY <1>9, DocsStep DEF StoreFails, Proceed, fileVars, DocsPlaces, DocsStages
<1>10. CASE Probe(c)
  BY <1>10, DocsStep DEF Probe, Proceed, fileVars, DocsPlaces
<1> QED
  BY <1>1, <1>2, <1>3, <1>4, <1>5, <1>6, <1>7, <1>8, <1>9, <1>10 DEF Serve

LEMMA EnvironmentStep ==
    ASSUME MediaInv, Environment
    PROVE  MediaInv'
<1>1. ASSUME NEW n \in 0..MaxSize, Resize(n) PROVE MediaInv'
  BY <1>1, ResizeStep
<1>2. CASE Unlink
  BY <1>2, IdleStep DEF Unlink
<1>3. ASSUME NEW s, GoDown(s) \/ ComeUp(s) \/ Release(s) \/ Expire(s)
      PROVE  MediaInv'
  BY <1>3, IdleStep DEF GoDown, ComeUp, Release, Expire, fileVars
<1> QED
  BY <1>1, <1>2, <1>3 DEF Environment

\* What a request for a range holds at each place, beyond the two properties.
THEOREM MediaInvariant == Spec => []MediaInv
<1>1. Init => MediaInv
  BY InitMedia
<1>2. MediaInv /\ [Next]_vars => MediaInv'
  <2> SUFFICES ASSUME MediaInv, [Next]_vars PROVE MediaInv'
    OBVIOUS
  <2>1. CASE Environment
    BY <2>1, EnvironmentStep
  <2>2. ASSUME NEW c \in Clients, Ask(c) \/ Serve(c) PROVE MediaInv'
    BY <2>2, AskStep, ServeStep
  <2>3. CASE UNCHANGED vars
    BY <2>3, IdleStep DEF vars, fileVars
  <2> QED
    BY <2>1, <2>2, <2>3 DEF Next
<1> QED
  BY <1>1, <1>2, PTL DEF Spec

\* A range response is exactly what the header asks of the file as it was
\* when its size was read, and a refused range asks for no byte of it.
THEOREM RangesAreExact == Spec => []RangeIsExact
<1>1. MediaInv => RangeIsExact
  BY DEF MediaInv, Local, Exact, RangeIsExact
<1> QED
  BY <1>1, MediaInvariant, PTL

\* A body never has more bytes than its headers announce, and has fewer only
\* if the file lost bytes of the range while it was served.
THEOREM BodiesAreComplete == Spec => []SentIsPromised
<1>1. MediaInv => SentIsPromised
  BY DEF MediaInv, Local, Kept, SentIsPromised
<1> QED
  BY <1>1, MediaInvariant, PTL

-----------------------------------------------------------------------------
(* The API document and the report on health *)

Gathering == DocsStages \cup {"probe"}

DocsTypes ==
    /\ there \in BOOLEAN
    /\ up \subseteq ServiceSet
    /\ live \in [ServiceSet -> Versions]
    /\ cache \in [ServiceSet -> Versions \cup {NoSpec}]
    /\ persistent \subseteq ServiceSet
    /\ pc \in [Clients -> Stages]
    /\ at \in [Clients -> 1..(Len(Services) + 1)]
    /\ found \in [Clients -> SUBSET (ServiceSet \X Versions)]
    /\ missed \in [Clients -> SUBSET ServiceSet]

\* The first n services are in the answer or were missed.
Seen(c, n) == \A i \in 1..n : Services[i] \in Listed(c) \cup missed[c]

\* A request has a service whose turn it is, has settled those before it, and
\* has missed whatever is down.
Progress(c) ==
    /\ pc[c] \in Gathering => /\ at[c] \in 1..Len(Services)
                               /\ ServiceSet \ up \subseteq missed[c]
                               /\ Seen(c, at[c] - 1)
    /\ pc[c] = "store" => \E v \in Versions : <<Current(c), v>> \in found[c]
    /\ pc[c] \in {"docs", "health"} => ServiceSet \ Listed(c) \subseteq missed[c]

DocsInv == DocsTypes /\ \A c \in Clients : Progress(c)

LEMMA ServiceFacts ==
    /\ Len(Services) \in Nat
    /\ ServiceSet = {Services[i] : i \in 1..Len(Services)}
    /\ \A i \in 1..Len(Services) : Services[i] \in ServiceSet
<1>1. Len(Services) \in Nat /\ DOMAIN Services = 1..Len(Services)
  BY GatewayLocalAssumption
<1> QED
  BY <1>1 DEF ServiceSet

LEMMA InitDocs == Init => DocsInv
<1> SUFFICES ASSUME Init PROVE DocsInv
  OBVIOUS
<1>1. 1 \in Versions /\ 1 \in 1..(Len(Services) + 1)
  BY GatewayLocalAssumption, ServiceFacts DEF Versions
<1>2. DocsTypes
  BY <1>1 DEF Init, DocsTypes, Stages
<1>3. ASSUME NEW c \in Clients PROVE Progress(c)
  BY DEF Init, Progress, Gathering, DocsStages
<1> QED
  BY <1>2, <1>3 DEF DocsInv

\* A step on media leaves requests for documents and reports as they are.
LEMMA MediaStep ==
    ASSUME DocsInv, NEW c \in Clients, Stat(c) \/ Open(c) \/ Read(c)
    PROVE  DocsInv'
<1>1. UNCHANGED <<fileVars, serviceVars, cacheVars, docsVars>>
  BY DEF Stat, Open, Read
<1>2. /\ pc[c] \in MediaStages
      /\ \E stage \in {"500", "416", "open", "read", "broken", "range"} :
            pc' = [pc EXCEPT ![c] = stage] \/ pc' = pc
  BY DEF Stat, Open, Read, Goto, MediaStages
<1>3. DocsTypes'
  BY <1>1, <1>2 DEF DocsInv, DocsTypes, fileVars, serviceVars, cacheVars, docsVars,
                    Stages, InProgress, MediaStages, Answers
<1>4. ASSUME NEW d \in Clients PROVE Progress(d)'
  <2>1. pc'[d] = pc[d] \/ pc'[d] \notin Gathering \cup {"docs", "health", "store"}
    BY <1>2 DEF DocsInv, DocsTypes, Gathering, DocsStages
  <2> QED
    BY <1>1, <2>1 DEF DocsInv, Progress, Seen, Listed, Current, docsVars, serviceVars
<1> QED
  BY <1>3, <1>4 DEF DocsInv

LEMMA AskDocsStep ==
    ASSUME DocsInv, NEW c \in Clients, Ask(c)
    PROVE  DocsInv'
<1>1. /\ UNCHANGED <<fileVars, serviceVars, cacheVars>>
      /\ at' = [at EXCEPT ![c] = 1] /\ found' = [found EXCEPT ![c] = {}]
  BY DEF Ask, AskDocs, AskHealth, AskMedia, Fresh
<1>2. PICK stage, down :
        /\ pc' = [pc EXCEPT ![c] = stage] /\ missed' = [missed EXCEPT ![c] = down]
        /\ \/ stage \in {"404", "whole", "stat"} /\ down = {}
           \/ /\ stage = IF Services = <<>> THEN "docs" ELSE "lookup"
              /\ down = ServiceSet \ up
           \/ /\ stage = IF Services = <<>> THEN "health" ELSE "probe"
              /\ down = ServiceSet \ up
  <2>1. CASE AskDocs(c) \/ AskHealth(c)
    BY <2>1 DEF AskDocs, AskHealth, Fresh, Goto
  <2>2. ASSUME NEW h \in RangeHeaders, AskMedia(c, h)
        PROVE  \E stage \in {"404", "whole", "stat"} :
                  pc' = [pc EXCEPT ![c] = stage] /\ missed' = [missed EXCEPT ![c] = {}]
    BY <2>2 DEF AskMedia, Fresh, Goto
  <2> QED
    BY <2>1, <2>2 DEF Ask
<1>3. DocsTypes'
  <2>1. stage \in Stages /\ down \subseteq ServiceSet
    BY <1>2 DEF Stages, InProgress, MediaStages, DocsStages, Answers
  <2>2. 1 \in 1..(Len(Services) + 1)
    BY ServiceFacts
  <2> QED
    BY <1>1, <1>2, <2>1, <2>2 DEF DocsInv, DocsTypes, fileVars, serviceVars, cacheVars
<1>4. ASSUME NEW d \in Clients, d # c PROVE Progress(d)'
  <2>1. /\ pc'[d] = pc[d] /\ at'[d] = at[d] /\ found'[d] = found[d]
        /\ missed'[d] = missed[d] /\ up' = up
    BY <1>1, <1>2, <1>4 DEF DocsInv, DocsTypes, serviceVars
  <2> QED
    BY <2>1 DEF DocsInv, Progress, Seen, Listed, Current
<1>5. Progress(c)'
  <2>1. /\ pc'[c] = stage /\ at'[c] = 1 /\ found'[c] = {} /\ missed'[c] = down
        /\ up' = up
    BY <1>1, <1>2 DEF DocsInv, DocsTypes, serviceVars
  <2>2. Services = <<>> => ServiceSet = {}
    BY DEF ServiceSet
  <2>3. Services # <<>> => 1 \in 1..Len(Services)
    BY ServiceFacts, GatewayLocalAssumption
  <2> QED
    BY <1>2, <2>1, <2>2, <2>3 DEF Progress, Seen, Gathering, DocsStages
<1> QED
  BY <1>3, <1>4, <1>5 DEF DocsInv

\* When the service whose turn it is is settled, the request goes on to the
\* next one or is answered.
LEMMA ProceedStep ==
    ASSUME DocsInv, NEW c \in Clients, pc[c] \in Gathering,
           NEW stage \in {"lookup", "probe"}, NEW answer \in {"docs", "health"},
           Proceed(c, stage, answer),
           UNCHANGED <<up, missed>>, found' \in [Clients -> SUBSET (ServiceSet \X Versions)],
           \A d \in Clients : d # c => found'[d] = found[d],
           found[c] \subseteq found'[c],
           Current(c) \in {f[1] : f \in found'[c]} \cup missed[c]
    PROVE  /\ \A d \in Clients : Progress(d)'
           /\ pc' \in [Clients -> Stages] /\ at' \in [Clients -> 1..(Len(Services) + 1)]
<1>1. at[c] \in 1..Len(Services) /\ Len(Services) \in Nat
  BY ServiceFacts DEF DocsInv, Progress
<1>2. /\ pc' = [pc EXCEPT ![c] = IF at[c] = Len(Services) THEN answer ELSE stage]
      /\ at' = [at EXCEPT ![c] = IF at[c] = Len(Services) THEN 1 ELSE at[c] + 1]
  BY DEF Proceed, Goto
<1>3. pc' \in [Clients -> Stages] /\ at' \in [Clients -> 1..(Len(Services) + 1)]
  <2>1. {stage, answer} \subseteq Stages
    BY DEF Stages, InProgress, DocsStages, Answers
  <2> QED
    BY <1>1, <1>2, <2>1 DEF DocsInv, DocsTypes
<1>4. ASSUME NEW d \in Clients, d # c PROVE Progress(d)'
  <2>1. pc'[d] = pc[d] /\ at'[d] = at[d] /\ found'[d] = found[d]
    BY <1>2, <1>4 DEF DocsInv, DocsTypes
  <2> QED
    BY <2>1 DEF DocsInv, Progress, Seen, Listed, Current
<1>5. \A i \in 1..at[c] : Services[i] \in Listed(c)' \cup missed'[c]
  <2>1. \A i \in 1..(at[c] - 1) : Services[i] \in Listed(c) \cup missed[c]
    BY DEF DocsInv, Progress, Seen
  <2>2. Listed(c) \subseteq Listed(c)'
    BY DEF Listed
  <2>3. Services[at[c]] \in Listed(c)' \cup missed'[c]
    BY DEF Listed, Current
  <2>4. \A i \in 1..at[c] : i \in 1..(at[c] - 1) \/ i = at[c]
    BY <1>1
  <2> QED
    BY <2>1, <2>2, <2>3, <2>4
<1>6. Progress(c)'
  <2>1. CASE at[c] = Len(Services)
    <3>1. pc'[c] = answer
      BY <1>2, <2>1 DEF DocsInv, DocsTypes
    <3>2. ServiceSet \ Listed(c)' \subseteq missed'[c]
      BY <1>5, <2>1, ServiceFacts
    <3> QED
      BY <3>1, <3>2 DEF Progress, Gathering, DocsStages
  <2>2. CASE at[c] # Len(Services)
    <3>1. pc'[c] = stage /\ at'[c] = at[c] + 1
      BY <1>2, <2>2 DEF DocsInv, DocsTypes
    <3>2. at'[c] \in 1..Len(Services) /\ at'[c] - 1 = at[c]
      BY <1>1, <2>2, <3>1
    <3>3. ServiceSet \ up' \subseteq missed'[c]
      BY DEF DocsInv, Progress
    <3> QED
      BY <1>5, <3>1, <3>2, <3>3 DEF Progress, Seen
  <2> QED
    BY <2>1, <2>2
<1> QED
  BY <1>3, <1>4, <1>6

\* What is collected is a version of the service whose turn it is.
LEMMA CollectFacts ==
    ASSUME DocsInv, NEW c \in Clients, pc[c] \in Gathering, NEW v \in Versions,
           Collect(c, v)
    PROVE  /\ found' \in [Clients -> SUBSET (ServiceSet \X Versions)]
           /\ \A d \in Clients : d # c => found'[d] = found[d]
           /\ found[c] \subseteq found'[c] /\ <<Current(c), v>> \in found'[c]
           /\ Current(c) \in {f[1] : f \in found'[c]}
<1>1. Current(c) \in ServiceSet
  BY ServiceFacts DEF DocsInv, Progress, Current
<1>2. <<Current(c), v>> \in ServiceSet \X Versions
  BY <1>1
<1>3. found'[c] = found[c] \cup {<<Current(c), v>>}
  BY DEF Collect, DocsInv, DocsTypes
<1>4. <<Current(c), v>> \in found'[c] /\ <<Current(c), v>>[1] = Current(c)
  BY <1>3
<1> QED
  BY <1>2, <1>3, <1>4 DEF Collect, DocsInv, DocsTypes

\* A service that is up admits what the gateway asks it: the document with a
\* service token, the health check without one.
LEMMA OnlyDownIsMissed ==
    ASSUME DocsInv, NEW c \in Clients, pc[c] \in Gathering,
           ~SendsSpec(Current(c)) \/ ~IsHealthy(Current(c))
    PROVE  Current(c) \in missed[c]
<1>1. Current(c) \in ServiceSet
  BY ServiceFacts DEF DocsInv, Progress, Current
<1>2. Current(c) \notin up
  BY DEF SendsSpec, IsHealthy, Replies, Admits, Exempt
<1> QED
  BY <1>1, <1>2 DEF DocsInv, Progress

LEMMA DocsServeStep ==
    ASSUME DocsInv, NEW c \in Clients,
           \/ Hit(c) \/ Miss(c) \/ Fetch(c) \/ FetchFails(c) \/ Store(c)
           \/ StoreFails(c) \/ Probe(c)
    PROVE  DocsInv'
<1>1. UNCHANGED <<fileVars, serviceVars, missed>>
  BY DEF Hit, Miss, Fetch, FetchFails, Store, StoreFails, Probe, docsVars
<1>2. /\ there' = there /\ up' = up /\ live' = live /\ missed' = missed
      /\ pc[c] \in Gathering
  BY <1>1 DEF fileVars, serviceVars, Hit, Miss, Fetch, FetchFails, Store, StoreFails,
              Probe, Gathering, DocsStages
<1>3. Current(c) \in ServiceSet
  BY <1>2, ServiceFacts DEF DocsInv, Progress, Current
<1> DEFINE Settled == /\ \A d \in Clients : Progress(d)'
                      /\ pc' \in [Clients -> Stages]
                      /\ at' \in [Clients -> 1..(Len(Services) + 1)]
           Gathers == found' \in [Clients -> SUBSET (ServiceSet \X Versions)]
           Caches  == /\ cache' \in [ServiceSet -> Versions \cup {NoSpec}]
                      /\ persistent' \subseteq ServiceSet
<1>4. ASSUME UNCHANGED cacheVars PROVE Caches
  BY <1>4 DEF cacheVars, DocsInv, DocsTypes
<1>5. ASSUME UNCHANGED found PROVE Gathers
  BY <1>5 DEF DocsInv, DocsTypes
<1>6. CASE Hit(c)
  <2>1. cache[Current(c)] \in Versions /\ UNCHANGED cacheVars
    BY <1>3, <1>6 DEF Hit, DocsInv, DocsTypes
  <2>2. Collect(c, cache[Current(c)]) /\ Proceed(c, "lookup", "docs")
    BY <1>6 DEF Hit
  <2>3. Gathers /\ Settled
    BY <1>2, <2>1, <2>2, CollectFacts, ProceedStep
  <2> QED
    BY <1>2, <1>4, <2>1, <2>3 DEF DocsInv, DocsTypes
<1>7. CASE Miss(c) \/ Fetch(c)
  <2>1. UNCHANGED <<cacheVars, at>>
    BY <1>7 DEF Miss, Fetch, docsVars
  <2>2. pc' = [pc EXCEPT ![c] = "fetch"] \/ pc' = [pc EXCEPT ![c] = "store"]
    BY <1>7 DEF Miss, Fetch, Goto
  <2>3. /\ Gathers /\ found[c] \subseteq found'[c]
        /\ \A d \in Clients : d # c => found'[d] = found[d]
        /\ pc'[c] = "store" => \E v \in Versions : <<Current(c), v>> \in found'[c]
    <3>1. CASE Miss(c)
      BY <3>1 DEF Miss, Goto, docsVars, DocsInv, DocsTypes
    <3>2. CASE Fetch(c)
      <4>1. live[Current(c)] \in Versions
        BY <1>3 DEF DocsInv, DocsTypes
      <4> QED
        BY <1>2, <3>2, <4>1, CollectFacts DEF Fetch
    <3> QED
      BY <1>7, <3>1, <3>2
  <2>4. pc' \in [Clients -> Stages] /\ at' \in [Clients -> 1..(Len(Services) + 1)]
    BY <2>1, <2>2 DEF DocsInv, DocsTypes, Stages, InProgress, DocsStages
  <2>5. ASSUME NEW d \in Clients, d # c PROVE Progress(d)'
    <3>1. pc'[d] = pc[d] /\ at'[d] = at[d] /\ found'[d] = found[d]
      BY <2>1, <2>2, <2>3, <2>5 DEF DocsInv, DocsTypes
    <3> QED
      BY <1>2, <3>1 DEF DocsInv, Progress, Seen, Listed, Current
  <2>6. Progress(c)'
    <3>1. pc'[c] \in {"fetch", "store"} /\ at'[c] = at[c]
      BY <2>1, <2>2 DEF DocsInv, DocsTypes
    <3>2. Listed(c) \subseteq Listed(c)'
      BY <2>3 DEF Listed
    <3>3. Progress(c) /\ Seen(c, at[c] - 1)
      BY <1>2 DEF DocsInv, Progress
    <3>4. Seen(c, at[c] - 1)'
      BY <1>2, <3>1, <3>2, <3>3 DEF Seen
    <3> QED
      BY <1>2, <2>3, <3>1, <3>3, <3>4 DEF Progress, Current, Gathering, DocsStages
  <2> QED
    BY <1>2, <1>4, <2>1, <2>3, <2>4, <2>5, <2>6 DEF DocsInv, DocsTypes
<1>8. CASE FetchFails(c)
  <2>1. Current(c) \in missed[c]
    BY <1>2, <1>8, OnlyDownIsMissed DEF FetchFails
  <2>2. Proceed(c, "lookup", "docs") /\ UNCHANGED <<cacheVars, found>>
    BY <1>8 DEF FetchFails
  <2>3. Settled
    BY <1>2, <1>5, <2>1, <2>2, ProceedStep
  <2> QED
    BY <1>2, <1>4, <1>5, <2>2, <2>3 DEF DocsInv, DocsTypes
<1>9. CASE Store(c) \/ StoreFails(c)
  <2>1. PICK v \in Versions : <<Current(c), v>> \in found[c]
    BY <1>9 DEF Store, StoreFails, DocsInv, Progress
  <2>2. Fetched(c) \in Versions
    BY <2>1 DEF Fetched
  <2>3. Current(c) \in {f[1] : f \in found[c]}
    <3>1. <<Current(c), v>>[1] = Current(c)
      OBVIOUS
    <3> QED
      BY <2>1, <3>1
  <2>4. Proceed(c, "lookup", "docs") /\ UNCHANGED found
    BY <1>9 DEF Store, StoreFails
  <2>5. Caches
    BY <1>3, <1>4, <1>9, <2>2 DEF Store, StoreFails, DocsInv, DocsTypes
  <2>6. Settled
    BY <1>2, <1>5, <2>3, <2>4, ProceedStep
  <2> QED
    BY <1>2, <1>5, <2>4, <2>5, <2>6 DEF DocsInv, DocsTypes
<1>10. CASE Probe(c)
  <2>1. Proceed(c, "probe", "health") /\ UNCHANGED cacheVars
    BY <1>10 DEF Probe
  <2>2. CASE IsHealthy(Current(c))
    <3>1. live[Current(c)] \in Versions /\ Collect(c, live[Current(c)])
      BY <1>3, <1>10, <2>2 DEF Probe, DocsInv, DocsTypes
    <3>2. Gathers /\ Settled
      BY <1>2, <2>1, <3>1, CollectFacts, ProceedStep
    <3> QED
      BY <1>2, <1>4, <2>1, <3>2 DEF DocsInv, DocsTypes
  <2>3. CASE ~IsHealthy(Current(c))
    <3>1. UNCHANGED found /\ Current(c) \in missed[c]
      BY <1>2, <1>10, <2>3, OnlyDownIsMissed DEF Probe
    <3>2. Settled
      BY <1>2, <1>5, <2>1, <3>1, ProceedStep
    <3> QED
      BY <1>2, <1>4, <1>5, <2>1, <3>1, <3>2 DEF DocsInv, DocsTypes
  <2> QED
    BY <2>2, <2>3
<1> QED
  BY <1>6, <1>7, <1>8, <1>9, <1>10

LEMMA DocsEnvironmentStep ==
    ASSUME DocsInv, Environment
    PROVE  DocsInv'
<1>1. UNCHANGED <<pc, at, found>>
  BY DEF Environment, Resize, Unlink, GoDown, ComeUp, Release, Expire, docsVars
<1>2. /\ missed' \in [Clients -> SUBSET ServiceSet]
      /\ \A c \in Clients : missed[c] \subseteq missed'[c]
      /\ \A c \in Clients : pc[c] \in Gathering =>
            (ServiceSet \ up \subseteq missed[c] => ServiceSet \ up' \subseteq missed'[c])
  <2>1. ASSUME NEW s \in Flaky, GoDown(s)
        PROVE  /\ missed' \in [Clients -> SUBSET ServiceSet]
               /\ \A c \in Clients : missed[c] \subseteq missed'[c]
               /\ \A c \in Clients : pc[c] \in Gathering =>
                     (ServiceSet \ up \subseteq missed[c] => ServiceSet \ up' \subseteq missed'[c])
    <3>1. s \in ServiceSet
      BY GatewayLocalAssumption
    <3> QED
      BY <2>1, <3>1 DEF GoDown, Gathering, DocsInv, DocsTypes
  <2>2. ASSUME missed' = missed, up \subseteq up'
        PROVE  /\ missed' \in [Clients -> SUBSET ServiceSet]
               /\ \A c \in Clients : missed[c] \subseteq missed'[c]
               /\ \A c \in Clients : pc[c] \in Gathering =>
                     (ServiceSet \ up \subseteq missed[c] => ServiceSet \ up' \subseteq missed'[c])
    BY <2>2 DEF DocsInv, DocsTypes
  <2>3. \/ \E s \in Flaky : GoDown(s)
        \/ missed' = missed /\ up \subseteq up'
    BY DEF Environment, Resize, Unlink, ComeUp, Release, Expire, docsVars, serviceVars
  <2> QED
    BY <2>1, <2>2, <2>3
<1>3. DocsTypes'
  <2>1. there' \in BOOLEAN
    BY DEF Environment, Resize, Unlink, GoDown, ComeUp, Release, Expire, fileVars,
           DocsInv, DocsTypes
  <2>2. up' \subseteq ServiceSet
    BY GatewayLocalAssumption DEF Environment, Resize, Unlink, GoDown, ComeUp, Release,
       Expire, serviceVars, DocsInv, DocsTypes
  <2>3. live' \in [ServiceSet -> Versions]
    <3>1. ASSUME NEW s \in Flaky, Release(s) PROVE live' \in [ServiceSet -> Versions]
      <4>1. s \in ServiceSet /\ live[s] + 1 \in Versions
        BY <3>1, GatewayLocalAssumption DEF Release, Versions, DocsInv, DocsTypes
      <4> QED
        BY <3>1, <4>1 DEF Release, DocsInv, DocsTypes
    <3>2. live' = live \/ \E s \in Flaky : Release(s)
      BY DEF Environment, Resize, Unlink, GoDown, ComeUp, Expire, serviceVars
    <3> QED
      BY <3>1, <3>2 DEF DocsInv, DocsTypes
  <2>4. cache' \in [ServiceSet -> Versions \cup {NoSpec}] /\ persistent' \subseteq ServiceSet
    BY DEF Environment, Resize, Unlink, GoDown, ComeUp, Release, Expire, cacheVars,
           DocsInv, DocsTypes
  <2> QED
    BY <1>1, <1>2, <2>1, <2>2, <2>3, <2>4 DEF DocsInv, DocsTypes
<1>4. ASSUME NEW c \in Clients PROVE Progress(c)'
  <2>1. Progress(c) /\ Listed(c)' = Listed(c) /\ Current(c)' = Current(c)
    BY <1>1 DEF DocsInv, Listed, Current
  <2> QED
    BY <1>1, <1>2, <2>1 DEF Progress, Seen
<1> QED
  BY <1>3, <1>4 DEF DocsInv

LEMMA DocsInvariant == Spec => []DocsInv
<1>1. Init => DocsInv
  BY InitDocs
<1>2. DocsInv /\ [Next]_vars => DocsInv'
  <2> SUFFICES ASSUME DocsInv, [Next]_vars PROVE DocsInv'
    OBVIOUS
  <2>1. ASSUME NEW c \in Clients, Ask(c) \/ Serve(c) PROVE DocsInv'
    BY <2>1, AskDocsStep, MediaStep, DocsServeStep DEF Serve
  <2>2. CASE UNCHANGED vars
    BY <2>2 DEF vars, fileVars, serviceVars, cacheVars, docsVars, DocsInv, DocsTypes,
                Progress, Seen, Listed, Current
  <2> QED
    BY <2>1, <2>2, DocsEnvironmentStep DEF Next
<1> QED
  BY <1>1, <1>2, PTL DEF Spec

\* An upstream that is left out of the document or of the report was down at
\* some time while the request was served; the others are never taken out.
THEOREM OnlyDownIsLeftOut == Spec => []BlamedWasDown
<1>1. DocsInv => BlamedWasDown
  BY DEF DocsInv, Progress, BlamedWasDown
<1> QED
  BY <1>1, DocsInvariant, PTL

-----------------------------------------------------------------------------
\* The bounds of the media variables.
Bounded ==
    /\ size \in 0..MaxSize
    /\ header \in [Clients -> RangeHeaders \cup {NoRange}]
    /\ promise \in [Clients -> [size : 0..MaxSize, first : 0..MaxSize,
                                last : -1..(MaxSize - 1)]]

LEMMA BoundedStep ==
    ASSUME MediaInv, Bounded, [Next]_vars
    PROVE  Bounded'
<1>1. CASE UNCHANGED <<size, header, promise>>
  BY <1>1 DEF Bounded
<1>2. ASSUME NEW c \in Clients, NEW h \in RangeHeaders \cup {NoRange}, NEW stage, NEW down,
             Fresh(c, stage, h, down)
      PROVE  Bounded'
  <2>1. NoPromise \in [size : 0..MaxSize, first : 0..MaxSize, last : -1..(MaxSize - 1)]
    BY GatewayLocalAssumption DEF NoPromise
  <2> QED
    BY <1>2, <2>1 DEF Fresh, fileVars, Bounded
<1>3. ASSUME NEW c \in Clients, Stat(c) PROVE Bounded'
  <2>1. header[c] \in Headers /\ size \in Nat /\ size <= MaxSize /\ MaxSize \in Nat
    BY <1>3, GatewayLocalAssumption DEF Stat, MediaInv, Local, Asking, Shape, Bounded
  <2>2. UNCHANGED <<size, header>>
    BY <1>3 DEF Stat, fileVars
  <2>3. CASE there /\ Satisfiable(size, header[c])
    <3> DEFINE p == [size  |-> size, first |-> FirstByte(size, header[c]),
                     last  |-> LastByte(size, header[c])]
    <3>1. FirstByte(size, header[c]) \in 0..MaxSize /\ LastByte(size, header[c]) \in -1..(MaxSize - 1)
      BY <2>1, <2>3 DEF Satisfiable, FirstByte, LastByte, Larger, Smaller, Headers,
                        Numbers, Blank
    <3>2. p \in [size : 0..MaxSize, first : 0..MaxSize, last : -1..(MaxSize - 1)]
      BY <2>1, <3>1
    <3>3. promise' = [promise EXCEPT ![c] = p]
      BY <1>3, <2>3 DEF Stat
    <3> HIDE DEF p
    <3> QED
      BY <2>2, <3>2, <3>3 DEF Bounded
  <2>4. CASE there /\ ~Satisfiable(size, header[c])
    <3>1. promise' = [promise EXCEPT ![c].size = size]
      BY <1>3, <2>4 DEF Stat
    <3> QED
      BY <2>1, <2>2, <3>1 DEF Bounded
  <2>5. CASE ~there
    BY <1>3, <2>2, <2>5 DEF Stat, Bounded
  <2> QED
    BY <2>3, <2>4, <2>5
<1>4. ASSUME NEW n \in 0..MaxSize, Resize(n) PROVE Bounded'
  BY <1>4 DEF Resize, Bounded
<1>5. ASSUME NEW c \in Clients, Ask(c) PROVE Bounded'
  <2>1. CASE AskDocs(c) \/ AskHealth(c)
    BY <1>2, <2>1 DEF AskDocs, AskHealth
  <2>2. ASSUME NEW h \in RangeHeaders, AskMedia(c, h) PROVE Bounded'
    BY <1>2, <2>2 DEF AskMedia
  <2> QED
    BY <1>5, <2>1, <2>2 DEF Ask
<1>6. ASSUME NEW c \in Clients, Serve(c), ~Stat(c) PROVE UNCHANGED <<size, header, promise>>
  BY <1>6 DEF Serve, Open, Read, Hit, Miss, Fetch, FetchFails, Store, StoreFails, Probe,
              fileVars, mediaVars
<1>7. ASSUME Unlink \/ \E s \in Flaky : GoDown(s) \/ ComeUp(s) \/ Release(s)
      PROVE  UNCHANGED <<size, header, promise>>
  BY <1>7 DEF Unlink, GoDown, ComeUp, Release, fileVars, mediaVars
<1>8. ASSUME NEW s \in ServiceSet, Expire(s) PROVE UNCHANGED <<size, header, promise>>
  BY <1>8 DEF Expire, fileVars, mediaVars
<1>9. CASE UNCHANGED vars
  BY <1>1, <1>9 DEF vars, fileVars, mediaVars
<1>10. CASE Environment
  BY <1>1, <1>4, <1>7, <1>8, <1>10 DEF Environment
<1> QED
  BY <1>1, <1>3, <1>5, <1>6, <1>9, <1>10 DEF Next

\* Every variable keeps its type; no body is longer than the largest file.
THEOREM TypeCorrect == Spec => []TypeOK
<1>1. Init => Bounded
  BY GatewayLocalAssumption DEF Init, Bounded, NoPromise
<1>2. MediaInv /\ Bounded /\ [Next]_vars => Bounded'
  BY BoundedStep
<1>3. ASSUME MediaInv, DocsInv, Bounded PROVE TypeOK
  <2>1. ASSUME NEW c \in Clients PROVE sent[c] \in 0..MaxSize
    <3>1. /\ sent[c] \in Nat /\ sent[c] <= Promised(c)
          /\ promise[c].first \in Nat /\ promise[c].last \in Int
          /\ promise[c].last <= MaxSize - 1
      BY <1>3, GatewayLocalAssumption
         DEF MediaInv, Shape, Local, Kept, Bounded
    <3> QED
      BY <3>1, GatewayLocalAssumption DEF Promised
  <2>2. sent \in [Clients -> 0..MaxSize] /\ shrunk \in [Clients -> BOOLEAN]
    BY <1>3, <2>1 DEF MediaInv, Shape
  <2> QED
    BY <1>3, <2>2 DEF DocsInv, DocsTypes, Bounded, TypeOK, Stages
<1> QED
  BY <1>1, <1>2, <1>3, MediaInvariant, DocsInvariant, PTL DEF Spec

-----------------------------------------------------------------------------
(* Paths *)

\* The segments that occur, and the names of the services, one of which may come
\* first in a path.
Segments == {"api", "auth", "tenants", "files", "resolve", "public", "internal",
             "health", "onboarding", "login", "logout", "refresh", "validate", "me",
             "users", "avatar", "media", "presign", "{media_id}", "{user_id}"}
            \cup AllServices
Paths == Seq(Segments)

LEMMA Pair ==
    ASSUME NEW S, NEW a \in S, NEW b \in S
    PROVE  /\ <<a, b>> \in Seq(S) /\ Len(<<a, b>>) = 2
           /\ <<a, b>>[1] = a /\ <<a, b>>[2] = b
OBVIOUS

LEMMA PairOfSegments ==
    ASSUME NEW a \in Segments, NEW b \in Segments
    PROVE  \E h : h \in Paths /\ h = <<a, b>> /\ Len(h) = 2 /\ h[1] = a /\ h[2] = b
<1>1. PICK S : S = Segments
  OBVIOUS
<1>2. PICK h : h = <<a, b>>
  OBVIOUS
<1>3. h \in Seq(S) /\ Len(h) = 2 /\ h[1] = a /\ h[2] = b
  BY <1>1, <1>2, Pair
<1> QED
  BY <1>1, <1>2, <1>3 DEF Paths

LEMMA One ==
    ASSUME NEW S, NEW a \in S
    PROVE  <<a>> \in Seq(S) /\ Len(<<a>>) = 1 /\ <<a>>[1] = a
OBVIOUS

\* A path that begins with two given segments.
LEMMA TwoAndRest ==
    ASSUME NEW a \in Segments, NEW b \in Segments, NEW p \in Paths,
           NEW q, q = <<a, b>> \o p
    PROVE  /\ q \in Paths /\ Len(q) = Len(p) + 2 /\ q[1] = a /\ q[2] = b
           /\ SubSeq(q, 3, Len(q)) = p
<1>1. Len(p) \in Nat
  BY LenProperties DEF Paths
<1>2. PICK h : h \in Paths /\ h = <<a, b>> /\ Len(h) = 2 /\ h[1] = a /\ h[2] = b
  BY PairOfSegments
<1>3. /\ q \in Paths /\ Len(q) = Len(p) + 2
      /\ \A i \in 1..(Len(p) + 2) : q[i] = IF i <= 2 THEN h[i] ELSE p[i - 2]
  BY <1>1, <1>2, ConcatProperties DEF Paths
<1>4. q[1] = a /\ q[2] = b
  BY <1>1, <1>2, <1>3
<1>5. PICK t : t = SubSeq(q, 3, Len(q))
  OBVIOUS
<1>6. t \in Paths /\ Len(t) = Len(p) /\ \A i \in 1..Len(p) : t[i] = q[i + 2]
  <2>1. \A i \in 3..Len(q) : q[i] \in Segments
    BY <1>1, <1>3, ElementOfSeq DEF Paths
  <2> QED
    BY <1>1, <1>3, <1>5, <2>1, SubSeqProperties DEF Paths
<1>7. \A i \in 1..Len(p) : t[i] = p[i]
  BY <1>1, <1>3, <1>6
<1>8. t = p
  BY <1>6, <1>7, SeqEqual DEF Paths
<1> QED
  BY <1>3, <1>4, <1>5, <1>8

LEMMA BeginsWithTwo ==
    ASSUME NEW a \in Segments, NEW b \in Segments, NEW q \in Paths
    PROVE  IsPrefix(<<a, b>>, q) <=> Len(q) >= 2 /\ q[1] = a /\ q[2] = b
<1>1. Len(q) \in Nat
  BY LenProperties DEF Paths
<1>2. PICK h : h \in Paths /\ h = <<a, b>> /\ Len(h) = 2 /\ h[1] = a /\ h[2] = b
  BY PairOfSegments
<1>3. SubSeq(h, 1, 2) = h
  BY <1>2, SubSeqFull DEF Paths
<1>4. IsPrefix(h, q) <=> 2 <= Len(q) /\ h = SubSeq(q, 1, 2)
  BY <1>2, <1>3 DEF IsPrefix
<1>5. ASSUME Len(q) >= 2
      PROVE  h = SubSeq(q, 1, 2) <=> q[1] = a /\ q[2] = b
  <2>1. PICK t : t = SubSeq(q, 1, 2)
    OBVIOUS
  <2>2. \A i \in 1..2 : q[i] \in Segments
    BY <1>1, <1>5, ElementOfSeq DEF Paths
  <2>3. t \in Paths /\ Len(t) = 2 /\ t[1] = q[1] /\ t[2] = q[2]
    BY <2>1, <2>2, SubSeqProperties DEF Paths
  <2>4. h[1] = t[1] /\ h[2] = t[2] => \A i \in 1..Len(h) : h[i] = t[i]
    BY <1>2
  <2>5. h[1] = t[1] /\ h[2] = t[2] => h = t
    BY <1>2, <2>3, <2>4, SeqEqual DEF Paths
  <2> QED
    BY <1>2, <2>1, <2>3, <2>5
<1> QED
  BY <1>1, <1>2, <1>4, <1>5

LEMMA BeginsWithOne ==
    ASSUME NEW a \in Segments, NEW q \in Paths, IsPrefix(<<a>>, q)
    PROVE  Len(q) >= 1 /\ q[1] = a
<1>1. Len(q) \in Nat
  BY LenProperties DEF Paths
<1>2. PICK h \in Paths : h = <<a>> /\ Len(h) = 1 /\ h[1] = a
  BY One DEF Paths
<1>3. SubSeq(h, 1, 1) = h
  BY <1>2, SubSeqFull DEF Paths
<1>4. 1 <= Len(q) /\ h = SubSeq(q, 1, 1)
  BY <1>2, <1>3 DEF IsPrefix
<1>5. \A i \in 1..1 : q[i] \in Segments
  BY <1>1, <1>4, ElementOfSeq DEF Paths
<1>6. SubSeq(q, 1, 1)[1] = q[1]
  BY <1>5, SubSeqProperties
<1> QED
  BY <1>1, <1>2, <1>4, <1>6

LEMMA OneOfSegments ==
    ASSUME NEW a \in Segments
    PROVE  \E h : h \in Paths /\ h = <<a>> /\ Len(h) = 1 /\ h[1] = a
<1>1. PICK S : S = Segments
  OBVIOUS
<1>2. PICK h : h = <<a>>
  OBVIOUS
<1>3. h \in Seq(S) /\ Len(h) = 1 /\ h[1] = a
  BY <1>1, <1>2, One
<1> QED
  BY <1>1, <1>2, <1>3 DEF Paths

LEMMA ThreeOfSegments ==
    ASSUME NEW a \in Segments, NEW b \in Segments, NEW c \in Segments
    PROVE  <<a, b, c>> \in Paths
<1>1. PICK S : S = Segments
  OBVIOUS
<1>2. <<a, b, c>> \in Seq(S)
  BY <1>1
<1> QED
  BY <1>1, <1>2 DEF Paths

\* The operations of a service have paths, under the prefix of their router.
PathsUnder(prefix, ops) ==
    \A o \in ops : \E r \in Paths : \E m : o = Op(m, prefix \o r)

LEMMA WhatIsServed ==
    /\ PathsUnder(<<"api", "auth">>, AuthOps)
    /\ PathsUnder(<<"public", "files">>, PublicFilesOps)
    /\ PathsUnder(<<"internal", "files">>, InternalFilesOps)
<1>1. /\ <<"onboarding">> \in Paths /\ <<"login">> \in Paths /\ <<"logout">> \in Paths
      /\ <<"refresh">> \in Paths /\ <<"validate">> \in Paths /\ <<"me">> \in Paths
  <2>1. ASSUME NEW a \in Segments PROVE <<a>> \in Paths
    BY OneOfSegments
  <2>2. /\ "onboarding" \in Segments /\ "login" \in Segments /\ "logout" \in Segments
        /\ "refresh" \in Segments /\ "validate" \in Segments /\ "me" \in Segments
    BY DEF Segments
  <2> QED
    BY <2>1, <2>2
<1>2. /\ <<"users", "me", "avatar">> \in Paths
      /\ <<"media", "{media_id}", "presign">> \in Paths
      /\ <<"users", "{user_id}", "avatar">> \in Paths
  <2>1. /\ "users" \in Segments /\ "me" \in Segments /\ "avatar" \in Segments
        /\ "media" \in Segments /\ "{media_id}" \in Segments
        /\ "presign" \in Segments /\ "{user_id}" \in Segments
    BY DEF Segments
  <2> QED
    BY <2>1, ThreeOfSegments
<1>3. ASSUME NEW prefix, NEW ops, NEW o \in Under(prefix, ops),
             \A x \in ops : x.path \in Paths
      PROVE  \E r \in Paths : \E m : o = Op(m, prefix \o r)
  BY <1>3 DEF Under
<1>4. PathsUnder(<<"api", "auth">>, AuthOps)
  <2>1. PICK ops : ops = {Op("POST", <<"onboarding">>), Op("POST", <<"login">>),
                          Op("POST", <<"logout">>), Op("POST", <<"refresh">>),
                          Op("GET", <<"validate">>), Op("GET", <<"me">>),
                          Op("PATCH", <<"me">>)}
    OBVIOUS
  <2>2. AuthOps = Under(<<"api", "auth">>, ops)
    BY <2>1 DEF AuthOps
  <2>3. \A x \in ops : x.path \in Paths
    BY <1>1, <2>1 DEF Op
  <2> QED
    BY <1>3, <2>2, <2>3 DEF PathsUnder
<1>5. PathsUnder(<<"public", "files">>, PublicFilesOps)
  <2>0. PICK avatar, presign :
            /\ avatar = <<"users", "me", "avatar">>
            /\ presign = <<"media", "{media_id}", "presign">>
    OBVIOUS
  <2>1. PICK ops :
               ops = {Op(m, avatar) : m \in {"POST", "GET", "DELETE"}}
                      \cup {Op("GET", presign)}
    OBVIOUS
  <2>2. PublicFilesOps = Under(<<"public", "files">>, ops)
    BY <2>0, <2>1 DEF PublicFilesOps
  <2>3. \A x \in ops : x.path \in Paths
    <3>1. avatar \in Paths /\ presign \in Paths
      BY <1>2, <2>0
    <3>2. \A x \in ops : x.path = avatar \/ x.path = presign
      BY <2>1 DEF Op
    <3> QED
      BY <3>1, <3>2
  <2>4. ASSUME NEW o \in PublicFilesOps
        PROVE  \E r \in Paths : \E m : o = Op(m, <<"public", "files">> \o r)
    <3>1. PICK prefix : prefix = <<"public", "files">>
      OBVIOUS
    <3>2. o \in Under(prefix, ops)
      BY <2>2, <3>1
    <3>3. \E r \in Paths : \E m : o = Op(m, prefix \o r)
      BY <1>3, <2>3, <3>2
    <3> QED
      BY <3>1, <3>3
  <2> QED
    BY <2>4 DEF PathsUnder
<1>6. PathsUnder(<<"internal", "files">>, InternalFilesOps)
  <2>0. PICK avatar, presign :
            /\ avatar = <<"users", "{user_id}", "avatar">>
            /\ presign = <<"media", "{media_id}", "presign">>
    OBVIOUS
  <2>1. PICK ops :
               ops = {Op("GET", avatar), Op("GET", presign)}
    OBVIOUS
  <2>2. InternalFilesOps = Under(<<"internal", "files">>, ops)
    BY <2>0, <2>1 DEF InternalFilesOps
  <2>3. \A x \in ops : x.path \in Paths
    <3>1. avatar \in Paths /\ presign \in Paths
      BY <1>2, <2>0
    <3>2. \A x \in ops : x.path = avatar \/ x.path = presign
      BY <2>1 DEF Op
    <3> QED
      BY <3>1, <3>2
  <2>4. ASSUME NEW o \in InternalFilesOps
        PROVE  \E r \in Paths : \E m : o = Op(m, <<"internal", "files">> \o r)
    <3>1. PICK prefix : prefix = <<"internal", "files">>
      OBVIOUS
    <3>2. o \in Under(prefix, ops)
      BY <2>2, <3>1
    <3>3. \E r \in Paths : \E m : o = Op(m, prefix \o r)
      BY <1>3, <2>3, <3>2
    <3> QED
      BY <3>1, <3>3
  <2> QED
    BY <2>4 DEF PathsUnder
<1> QED
  BY <1>4, <1>5, <1>6

\* The route of a path is that of its first two segments.
LEMMA RouteOf ==
    ASSUME NEW b \in {"auth", "files"}, NEW r \in Paths,
           NEW q, q = <<"api", b>> \o r
    PROVE  Routed(q) /\ GatewayPrefix(q) = <<"api", b>>
<1>1. /\ "api" \in Segments /\ "auth" \in Segments /\ "files" \in Segments
      /\ "tenants" \in Segments /\ "resolve" \in Segments /\ b \in Segments
  BY DEF Segments
<1>2. q \in Paths /\ Len(q) >= 2 /\ q[1] = "api" /\ q[2] = b
  <2>1. Len(r) \in Nat
    BY LenProperties DEF Paths
  <2> QED
    BY <1>1, <2>1, TwoAndRest DEF Paths
<1>3. DOMAIN ServiceRoutes = {<<"api", "auth">>, <<"api", "tenants">>,
                              <<"api", "files">>, <<"api", "resolve">>}
  BY DEF ServiceRoutes
<1>4. ASSUME NEW x \in {"auth", "tenants", "files", "resolve"}
      PROVE  IsPrefix(<<"api", x>>, q) <=> x = b
  <2>1. PICK a, c : a = "api" /\ c = x
    OBVIOUS
  <2>2. PICK u : u = q
    OBVIOUS
  <2>3. a \in Segments /\ c \in Segments /\ u \in Paths
    BY <1>1, <1>2, <2>1, <2>2
  <2>4. IsPrefix(<<a, c>>, u) <=> Len(u) >= 2 /\ u[1] = a /\ u[2] = c
    BY <2>3, BeginsWithTwo
  <2> QED
    BY <1>2, <2>1, <2>2, <2>4
<1>5. \A prefix \in DOMAIN ServiceRoutes :
          IsPrefix(prefix, q) <=> prefix = <<"api", b>>
  BY <1>3, <1>4
<1>6. <<"api", b>> \in DOMAIN ServiceRoutes
  BY <1>3
<1> QED
  BY <1>5, <1>6 DEF Routed, GatewayPrefix

LEMMA WhatEachServes ==
    /\ Operations(AuthService) = {Op("GET", <<"health">>)} \cup AuthOps
    /\ Operations(TenantService) = {Op("GET", <<"health">>)}
    /\ Operations(FilesService)
         = {Op("GET", <<"health">>)} \cup (PublicFilesOps \cup InternalFilesOps)
BY DEF Operations, AuthService, TenantService, FilesService

\* A request for o gets to an operation of the service.
Served(o, service) ==
    \/ AnsweredHere(o.path)
    \/ /\ Routed(o.path)
       /\ Upstream(o.path) = service
       /\ Op(o.method, UpstreamPath(o.path)) \in Operations(service)

LEMMA HealthIsServed ==
    ASSUME NEW service \in AllServices
    PROVE  /\ Normalize(service, <<"health">>) = <<"health">>
           /\ \A o : o.path = <<"health">> => Served(o, service)
<1>1. "health" \in Segments /\ "public" \in Segments /\ "files" \in Segments
      /\ service \in Segments /\ service # "health"
  BY DEF Segments, AllServices, AuthService, TenantService, FilesService
<1>2. PICK q : q \in Paths /\ q = <<"health">> /\ Len(q) = 1 /\ q[1] = "health"
  BY <1>1, OneOfSegments
<1>3. ~IsPrefix(<<service>>, q) /\ ~IsPrefix(<<"public", "files">>, q)
  BY <1>1, <1>2, BeginsWithOne, BeginsWithTwo
<1>4. Normalize(service, q) = q
  BY <1>3 DEF Normalize, Bare, RewrittenTo
<1> QED
  BY <1>2, <1>4 DEF Served, AnsweredHere

LEMMA AuthIsServed ==
    ASSUME NEW p \in AuthOps, NEW o, o = Op(p.method, Normalize(AuthService, p.path))
    PROVE  Served(o, AuthService)
<1>1. PICK r \in Paths : p = Op(p.method, <<"api", "auth">> \o r)
  <2>1. PICK r \in Paths : \E m : p = Op(m, <<"api", "auth">> \o r)
    BY WhatIsServed DEF PathsUnder
  <2>2. PICK m : p = Op(m, <<"api", "auth">> \o r)
    BY <2>1
  <2>3. p.method = m
    BY <2>2 DEF Op
  <2> QED
    BY <2>2, <2>3
<1>2. PICK q : q = <<"api", "auth">> \o r
  OBVIOUS
<1>3. "api" \in Segments /\ "auth" \in Segments /\ AuthService \in Segments
  BY DEF Segments, AllServices
<1>4. q \in Paths /\ q[1] = "api"
  BY <1>2, <1>3, TwoAndRest DEF Paths
<1>5. ~IsPrefix(<<AuthService>>, q)
  BY <1>3, <1>4, BeginsWithOne DEF AuthService
<1>6. Normalize(AuthService, q) = q
  BY <1>5 DEF Normalize, Bare, AuthService, FilesService
<1>7. p.path = q /\ o = Op(p.method, q) /\ o = p /\ o.path = q /\ o.method = p.method
  <2>1. p = Op(p.method, q)
    BY <1>1, <1>2
  <2>2. p.path = q
    BY <2>1 DEF Op
  <2>3. o = Op(p.method, q)
    BY <1>6, <2>2
  <2> QED
    BY <2>1, <2>2, <2>3
<1>8. Routed(q) /\ GatewayPrefix(q) = <<"api", "auth">>
  BY <1>2, RouteOf
<1>9. ServiceRoutes[<<"api", "auth">>] = AuthService
  BY DEF ServiceRoutes
<1>10. UpstreamPath(q) = q
  BY <1>8 DEF UpstreamPath, Rewritten
<1>11. p \in Operations(AuthService)
  BY WhatEachServes
<1> QED
  BY <1>7, <1>8, <1>9, <1>10, <1>11 DEF Served, Upstream

LEMMA FilesAreServed ==
    ASSUME NEW p \in PublicFilesOps,
           NEW o, o = Op(p.method, Normalize(FilesService, p.path))
    PROVE  Served(o, FilesService)
<1>1. PICK r \in Paths : p = Op(p.method, <<"public", "files">> \o r)
  <2>1. PICK r \in Paths : \E m : p = Op(m, <<"public", "files">> \o r)
    BY WhatIsServed DEF PathsUnder
  <2>2. PICK m : p = Op(m, <<"public", "files">> \o r)
    BY <2>1
  <2>3. p.method = m
    BY <2>2 DEF Op
  <2> QED
    BY <2>2, <2>3
<1>2. PICK q : q = <<"public", "files">> \o r
  OBVIOUS
<1>3. PICK q2 : q2 = <<"api", "files">> \o r
  OBVIOUS
<1>4. /\ "api" \in Segments /\ "public" \in Segments /\ "files" \in Segments
      /\ FilesService \in Segments /\ Len(r) \in Nat
  BY LenProperties DEF Segments, AllServices, Paths
<1>5. /\ q \in Paths /\ Len(q) >= 2 /\ q[1] = "public" /\ q[2] = "files"
      /\ SubSeq(q, 3, Len(q)) = r
  BY <1>2, <1>4, TwoAndRest DEF Paths
<1>6. SubSeq(q2, 3, Len(q2)) = r
  BY <1>3, <1>4, TwoAndRest DEF Paths
<1>7. ~IsPrefix(<<FilesService>>, q) /\ IsPrefix(<<"public", "files">>, q)
  BY <1>4, <1>5, BeginsWithOne, BeginsWithTwo DEF FilesService
<1>8. Len(<<"public", "files">>) + 1 = 3 /\ Len(<<"api", "files">>) + 1 = 3
  OBVIOUS
<1>9. Normalize(FilesService, q) = q2
  BY <1>3, <1>5, <1>7, <1>8 DEF Normalize, Bare, Replace, Rewritten, RewrittenTo
<1>10. p.path = q /\ o.path = q2 /\ o.method = p.method /\ p = Op(p.method, q)
  <2>1. p = Op(p.method, q)
    BY <1>1, <1>2
  <2>2. p.path = q
    BY <2>1 DEF Op
  <2>3. o.path = q2 /\ o.method = p.method
    BY <1>9, <2>2 DEF Op
  <2> QED
    BY <2>1, <2>2, <2>3
<1>11. Routed(q2) /\ GatewayPrefix(q2) = <<"api", "files">>
  BY <1>3, RouteOf
<1>12. ServiceRoutes[<<"api", "files">>] = FilesService
  BY DEF ServiceRoutes
<1>13. UpstreamPath(q2) = q
  BY <1>2, <1>6, <1>8, <1>11 DEF UpstreamPath, Replace, Rewritten, RewrittenTo
<1>14. p \in Operations(FilesService)
  BY WhatEachServes
<1> QED
  BY <1>10, <1>11, <1>12, <1>13, <1>14 DEF Served, Upstream

LEMMA InternalIsHidden ==
    ASSUME NEW p \in InternalFilesOps
    PROVE  Hidden(FilesService, p.path)
<1>1. PICK r \in Paths : p = Op(p.method, <<"internal", "files">> \o r)
  <2>1. PICK r \in Paths : \E m : p = Op(m, <<"internal", "files">> \o r)
    BY WhatIsServed DEF PathsUnder
  <2>2. PICK m : p = Op(m, <<"internal", "files">> \o r)
    BY <2>1
  <2>3. p.method = m
    BY <2>2 DEF Op
  <2> QED
    BY <2>2, <2>3
<1>2. PICK q : q = <<"internal", "files">> \o r
  OBVIOUS
<1>3. /\ "internal" \in Segments /\ "files" \in Segments
      /\ FilesService \in Segments /\ Len(r) \in Nat
  BY LenProperties DEF Segments, AllServices, Paths
<1>4. q \in Paths /\ Len(q) >= 2 /\ q[1] = "internal" /\ q[2] = "files"
  BY <1>2, <1>3, TwoAndRest DEF Paths
<1>5. ~IsPrefix(<<FilesService>>, q) /\ IsPrefix(<<"internal", "files">>, q)
  BY <1>3, <1>4, BeginsWithOne, BeginsWithTwo DEF FilesService
<1>6. p.path = q
  BY <1>1, <1>2 DEF Op
<1> QED
  BY <1>5, <1>6 DEF Hidden, Bare

\* Whatever a service documents, the gateway gets requests for it there.
LEMMA PublishedIsServed ==
    ASSUME NEW service \in AllServices, NEW o \in Published(service)
    PROVE  Served(o, service)
<1>1. PICK p \in Operations(service) :
          ~Hidden(service, p.path) /\ o = Op(p.method, Normalize(service, p.path))
  BY DEF Published
<1>2. CASE p = Op("GET", <<"health">>)
  BY <1>1, <1>2, HealthIsServed DEF Op
<1>3. CASE service = AuthService /\ p \in AuthOps
  BY <1>1, <1>3, AuthIsServed
<1>4. CASE service = FilesService /\ p \in PublicFilesOps
  BY <1>1, <1>4, FilesAreServed
<1>5. CASE service = FilesService /\ p \in InternalFilesOps
  BY <1>1, <1>5, InternalIsHidden
<1> QED
  BY <1>1, <1>2, <1>3, <1>4, <1>5, WhatEachServes DEF AllServices

-----------------------------------------------------------------------------
(* Merging *)

\* Induction for sets: a set of numbers with 0 and the successors of its members
\* has all of them.
LEMMA Least ==
    ASSUME NEW T \in SUBSET Nat, T # {}
    PROVE  \E n \in T : \A m \in T : n <= m
<1>1. PICK R : R = {ss \in Nat \X Nat : ss[1] < ss[2]}
  OBVIOUS
<1>2. IsWellFoundedOn(R, Nat)
  BY <1>1, NatLessThanWellFounded DEF OpToRel
<1>3. PICK x \in T : \A y \in T : ~ (<<y, x>> \in R)
  BY <1>2, WFMin
<1>4. ASSUME NEW y \in T, y < x PROVE FALSE
  <2>1. <<y, x>> \in Nat \X Nat /\ <<y, x>>[1] < <<y, x>>[2]
    BY <1>4
  <2>2. <<y, x>> \in R
    BY <1>1, <2>1
  <2> QED
    BY <1>3, <2>2
<1> QED
  BY <1>4

LEMMA AllNumbers ==
    ASSUME NEW S \in SUBSET Nat, 0 \in S, \A n \in S : n + 1 \in S
    PROVE  S = Nat
<1> SUFFICES ASSUME Nat \ S # {} PROVE FALSE
  OBVIOUS
<1>1. PICK n \in Nat \ S : \A m \in Nat \ S : n <= m
  BY Least
<1>2. n - 1 \in S
  BY <1>1
<1> QED
  BY <1>2

LEMMA LastIsMax ==
    ASSUME NEW n \in Nat, NEW s \in SUBSET (1..(n + 1)), n + 1 \in s
    PROVE  Max(s) = n + 1
<1>1. \A y \in s : n + 1 >= y
  OBVIOUS
<1>2. \A x \in s : (\A y \in s : x >= y) => x = n + 1
  OBVIOUS
<1> QED
  BY <1>1, <1>2 DEF Max

LEMMA NotLast ==
    ASSUME NEW n \in Nat, NEW s \in SUBSET (1..(n + 1)), n + 1 \notin s
    PROVE  s \in SUBSET (1..n)
OBVIOUS

\* What FoldLeft goes through when it merges the specifications in known.
Rounds(f, n, known, q) ==
    f = [s \in SUBSET (1..n) |->
           IF s = {} THEN NoOps
           ELSE MergeFound(known, f[s \ {Max(s)}], q[Max(s)])]

LEMMA RoundsExist ==
    ASSUME NEW known, NEW q
    PROVE  \A n \in Nat : \E f : Rounds(f, n, known, q)
<1>1. PICK S : S = {n \in Nat : \E f : Rounds(f, n, known, q)}
  OBVIOUS
<1>2. 0 \in S
  <2>1. \A s \in SUBSET (1..0) : s = {}
    OBVIOUS
  <2>2. PICK f : f = [s \in SUBSET (1..0) |-> NoOps]
    OBVIOUS
  <2>3. Rounds(f, 0, known, q)
    BY <2>1, <2>2 DEF Rounds
  <2> QED
    BY <1>1, <2>3
<1>3. ASSUME NEW n \in S PROVE n + 1 \in S
  <2>1. n \in Nat
    BY <1>1
  <2>2. PICK f : Rounds(f, n, known, q)
    BY <1>1
  <2>3. PICK g : g = [s \in SUBSET (1..(n + 1)) |->
                        IF n + 1 \in s THEN MergeFound(known, f[s \ {n + 1}], q[n + 1])
                        ELSE f[s]]
    OBVIOUS
  <2>4. ASSUME NEW s \in SUBSET (1..(n + 1))
        PROVE  g[s] = IF s = {} THEN NoOps
                      ELSE MergeFound(known, g[s \ {Max(s)}], q[Max(s)])
    <3>1. CASE n + 1 \in s
      <4>1. Max(s) = n + 1 /\ s # {}
        BY <2>1, <3>1, LastIsMax
      <4>2. s \ {n + 1} \in SUBSET (1..(n + 1)) /\ n + 1 \notin s \ {n + 1}
        OBVIOUS
      <4>3. g[s \ {n + 1}] = f[s \ {n + 1}]
        BY <2>3, <4>2
      <4>4. g[s] = MergeFound(known, f[s \ {n + 1}], q[n + 1])
        BY <2>3, <3>1
      <4> QED
        BY <4>1, <4>3, <4>4
    <3>2. CASE n + 1 \notin s
      <4>1. s \in SUBSET (1..n)
        BY <2>1, <3>2, NotLast
      <4>2. g[s] = f[s]
        BY <2>3, <3>2
      <4>3. f[s] = IF s = {} THEN NoOps
                   ELSE MergeFound(known, f[s \ {Max(s)}], q[Max(s)])
        BY <2>2, <4>1 DEF Rounds
      <4>4. s \ {Max(s)} \in SUBSET (1..(n + 1)) /\ n + 1 \notin s \ {Max(s)}
        BY <3>2
      <4>5. g[s \ {Max(s)}] = f[s \ {Max(s)}]
        BY <2>3, <4>4
      <4> QED
        BY <4>2, <4>3, <4>5
    <3> QED
      BY <3>1, <3>2
  <2>5. Rounds(g, n + 1, known, q)
    <3>1. g = [s \in SUBSET (1..(n + 1)) |-> g[s]]
      BY <2>3
    <3> QED
      BY <2>4, <3>1 DEF Rounds
  <2> QED
    BY <1>1, <2>1, <2>5
<1>4. S = Nat
  BY <1>1, <1>2, <1>3, AllNumbers
<1> QED
  BY <1>1, <1>4

LEMMA MergedByRounds ==
    ASSUME NEW known, NEW q, NEW n \in Nat, DOMAIN q = 1..n
    PROVE  \E f : Rounds(f, n, known, q) /\ Merged(q, known) = f[1..n]
<1>1. PICK f : Rounds(f, n, known, q)
  BY RoundsExist
<1>2. PICK D : D = 1..n
  OBVIOUS
<1>3. DOMAIN q = D
  BY <1>2
<1>4. f = [s \in SUBSET D |->
             IF s = {} THEN NoOps
             ELSE MergeFound(known, f[s \ {Max(s)}], q[Max(s)])]
  BY <1>1, <1>2 DEF Rounds
<1>5. \E iter : /\ iter = [s \in SUBSET D |->
                     IF s = {} THEN NoOps
                     ELSE MergeFound(known, iter[s \ {Max(s)}], q[Max(s)])]
                /\ Merged(q, known) = iter[D]
  BY <1>3, <1>4 DEF Merged, FoldLeft, MapThenFoldSet
<1> QED
  BY <1>2, <1>5 DEF Rounds

\* One round keeps every operation reachable: those of the document stay what
\* they are, or give way to one the service serves.
LEMMA RoundKeeps ==
    ASSUME NEW known, NEW doc, Reachable(doc), NEW service \in AllServices
    PROVE  Reachable(MergeFound(known, doc, service))
<1>1. CASE service \notin known
  BY <1>1 DEF MergeFound
<1>2. CASE service \in known
  <2>1. PICK d : d = MergeOne(doc, service)
    OBVIOUS
  <2>2. /\ DOMAIN d = DOMAIN doc \cup Published(service)
        /\ \A o \in Published(service) : d[o].from = service
        /\ \A o \in DOMAIN doc \ Published(service) : d[o] = doc[o]
    BY <2>1 DEF MergeOne
  <2>3. ASSUME NEW o \in Published(service)
        PROVE  \/ AnsweredHere(o.path)
               \/ /\ Routed(o.path)
                  /\ Upstream(o.path) = d[o].from
                  /\ Op(o.method, UpstreamPath(o.path)) \in Operations(d[o].from)
    BY <2>2, <2>3, PublishedIsServed DEF Served
  <2>4. Reachable(d)
    BY <2>2, <2>3 DEF Reachable
  <2> QED
    BY <1>2, <2>1, <2>4 DEF MergeFound
<1> QED
  BY <1>1, <1>2

\* Whatever specifications are known, of whatever services in whatever order, a
\* request for an operation of the merged document gets to the service that
\* documents it.
THEOREM MergedIsReachable ==
    ASSUME NEW q \in Seq(AllServices), NEW known
    PROVE  Reachable(Merged(q, known))
<1>1. PICK n \in Nat : n = Len(q) /\ DOMAIN q = 1..n
  OBVIOUS
<1>2. PICK f : Rounds(f, n, known, q) /\ Merged(q, known) = f[1..n]
  BY <1>1, MergedByRounds
<1>3. PICK S : S = {k \in Nat : k <= n => \A s \in SUBSET (1..k) : Reachable(f[s])}
  OBVIOUS
<1>4. \A s \in SUBSET (1..n) :
          f[s] = IF s = {} THEN NoOps
                 ELSE MergeFound(known, f[s \ {Max(s)}], q[Max(s)])
  BY <1>2 DEF Rounds
<1>5. Reachable(NoOps)
  BY DEF Reachable, NoOps
<1>6. 0 \in S
  <2>1. \A s \in SUBSET (1..0) : s = {} /\ s \in SUBSET (1..n)
    OBVIOUS
  <2> QED
    BY <1>3, <1>4, <1>5, <2>1
<1>7. ASSUME NEW k \in S PROVE k + 1 \in S
  <2>1. k \in Nat
    BY <1>3
  <2>0. k + 1 \in Nat
    BY <2>1
  <2> SUFFICES ASSUME k + 1 <= n
               PROVE  \A s \in SUBSET (1..(k + 1)) : Reachable(f[s])
    BY <1>3, <2>0
  <2> TAKE s \in SUBSET (1..(k + 1))
  <2>2. \A t \in SUBSET (1..k) : Reachable(f[t])
    BY <1>3, <2>1
  <2>3. CASE k + 1 \notin s
    BY <2>1, <2>2, <2>3, NotLast
  <2>4. CASE k + 1 \in s
    <3>1. Max(s) = k + 1 /\ s # {}
      BY <2>1, <2>4, LastIsMax
    <3>2. s \in SUBSET (1..n) /\ s \ {k + 1} \in SUBSET (1..k)
      BY <2>1
    <3>3. q[k + 1] \in AllServices
      BY <1>1, <2>1
    <3>4. f[s] = MergeFound(known, f[s \ {k + 1}], q[k + 1])
      BY <1>4, <3>1, <3>2
    <3>5. Reachable(f[s \ {k + 1}])
      BY <2>2, <3>2
    <3> QED
      BY <3>3, <3>4, <3>5, RoundKeeps
  <2> QED
    BY <2>3, <2>4
<1>8. S = Nat
  BY <1>3, <1>6, <1>7, AllNumbers
<1>9. 1..n \in SUBSET (1..n)
  OBVIOUS
<1> QED
  BY <1>1, <1>2, <1>3, <1>8, <1>9

\* Whatever services answer and whatever is cached, the document a client is
\* given lists only operations that the gateway answers itself or forwards to the
\* service that documents them, under the path they have there.
THEOREM DocumentedReached == Spec => []DocumentedIsReachable
<1>1. TypeOK => DocumentedIsReachable
  <2> SUFFICES ASSUME TypeOK, NEW c \in Clients
               PROVE  Reachable(DocOf(c))
    BY DEF DocumentedIsReachable
  <2>1. Listed(c) \in SUBSET ServiceSet
    <3>1. found[c] \in SUBSET (ServiceSet \X Versions)
      BY DEF TypeOK
    <3> QED
      BY <3>1 DEF Listed
  <2>2. DocOf(c) = Merged(Services, Listed(c))
    BY <2>1 DEF DocOf, Document
  <2>3. Services \in Seq(AllServices)
    BY GatewayLocalAssumption
  <2> QED
    BY <2>2, <2>3, MergedIsReachable
<1> QED
  BY <1>1, TypeCorrect, PTL

=============================================================================
