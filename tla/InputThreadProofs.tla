-------------------------- MODULE InputThreadProofs --------------------------
(* Proofs of the invariants of InputThread, and that it implements             *)
(* RequestChannel, for any number of writers, connections, messages and        *)
(* handshakes.                                                                 *)
EXTENDS InputThread, FiniteSetTheorems, TLAPS

-----------------------------------------------------------------------------
\* Strengthening of DeafOnlyAfterCut, for its proof.

\* A thread of the server is in a message only with the mutex, and only while the
\* connection it began it on is up and in use.
WriterHasMutex ==
    \A w \in Writers :
        writing[w] # None => mutex = w /\ peer = "up" /\ ctx = "ready"

\* On its way to another connection the input thread has read all of the last.
NothingUnread ==
    /\ ctx # "ready" => stream = <<>>
    /\ pc \in {"free", "config", "connect"} => peer # "up" /\ stream = <<>>
    /\ pc = "read" /\ ctx # "ready" => peer # "up"
    /\ pc \in {"config", "connect", "handshake"} => ctx # "ready"
    /\ pc = "announce" => ctx = "ready"

\* The records on their way continue what the tokener has, each what the one
\* before it left.
EndsBefore(i) == IF i = 1 THEN tok = "fresh" ELSE stream[i - 1].last

RecordsFollow == \A i \in DOMAIN stream : stream[i].first = EndsBefore(i)

\* The last of them is in the middle of a message exactly if a writer is.
InMessage == \E w \in Writers : writing[w] # None /\ ~writing[w].first

LastIsOpen == peer = "up" => EndsBefore(Len(stream) + 1) = ~InMessage

InOrder ==
    ~cut => /\ tok # "stuck"
            /\ pc # "read" => tok = "fresh"
            /\ RecordsFollow /\ LastIsOpen

TriesLeft ==
    pc \in {"free", "config", "connect", "handshake"} => tries < MaxTries

InputInv ==
    /\ TypeOK
    /\ TriesLeft
    /\ WriterHasMutex
    /\ NothingUnread
    /\ InOrder

-----------------------------------------------------------------------------
\* What makes the steps of InputThread steps of the channel.

\* The message that a record at place i of the stream belongs to.
Due(i) ==
    IF i = 1 THEN Len(heard[link]) + 1
    ELSE IF stream[i - 1].last THEN stream[i - 1].n + 1 ELSE stream[i - 1].n

\* What was heard on a connection are its first messages; the connections to come
\* are unused.
HeardInOrder ==
    /\ \A k \in Links : \A i \in DOMAIN heard[k] : heard[k][i] = <<k, i>>
    /\ \A k \in Links : k > link => heard[k] = <<>> /\ begun[k] = 0

\* The records on their way are those of the messages that follow, up to the last
\* one begun.
Numbered ==
    ~cut => /\ \A i \in DOMAIN stream : stream[i].n = Due(i) /\ stream[i].n <= begun[link]
            /\ \A w \in Writers :
                  writing[w] # None => /\ writing[w].n = Due(Len(stream) + 1)
                                       /\ writing[w].n = begun[link]
            /\ peer = "up" /\ (\A w \in Writers : writing[w] = None) =>
                  begun[link] = Due(Len(stream) + 1) - 1

\* After a connection has ended within a message, no message is heard any more: the
\* next record is the first of another, and an error.
CutIsDeaf ==
    cut => /\ tok # "fresh"
           /\ tok = "mid" => /\ stream # <<>> => stream[1].first
                             /\ stream = <<>> => ~InMessage

ChannelInv == HeardInOrder /\ Numbered /\ CutIsDeaf

-----------------------------------------------------------------------------

LEMMA Bounds ==
    /\ MaxConns \in Nat \ {0} /\ MaxMessages \in Nat \ {0} /\ MaxTries \in Nat \ {0}
    /\ \A w \in Writers : w # None
    /\ \A job \in Job : job # None
BY InputThreadAssumption

-----------------------------------------------------------------------------
\* Sequences of records.

LEMMA TailOfStream ==
    ASSUME NEW S, NEW s \in Seq(S), s # <<>>
    PROVE  /\ Head(s) = s[1] /\ Head(s) \in S
           /\ Tail(s) \in Seq(S)
           /\ Len(Tail(s)) = Len(s) - 1
           /\ \A i \in DOMAIN Tail(s) : i + 1 \in DOMAIN s /\ Tail(s)[i] = s[i + 1]
OBVIOUS

LEMMA AppendToStream ==
    ASSUME NEW S, NEW s \in Seq(S), NEW e \in S
    PROVE  /\ Append(s, e) \in Seq(S)
           /\ Len(Append(s, e)) = Len(s) + 1
           /\ Append(s, e)[Len(s) + 1] = e
           /\ \A i \in DOMAIN s : Append(s, e)[i] = s[i]
OBVIOUS

LEMMA StartOfStream ==
    ASSUME NEW S, NEW s \in Seq(S), NEW k \in 0 .. Len(s)
    PROVE  /\ SubSeq(s, 1, k) \in Seq(S)
           /\ Len(SubSeq(s, 1, k)) = k
           /\ \A i \in 1 .. k : SubSeq(s, 1, k)[i] = s[i]
OBVIOUS

-----------------------------------------------------------------------------
\* Types.

LEMMA InputTypeInit == Init => TypeOK
<1>1. 1 \in Links /\ 0 \in 0 .. MaxMessages /\ 0 \in 0 .. MaxTries
  BY Bounds DEF Links
<1>2. <<>> \in Seq(Part) /\ <<>> \in Seq(Links \X (1 .. MaxMessages))
  OBVIOUS
<1> QED
  BY <1>1, <1>2 DEF Init, TypeOK

LEMMA TypeServerStep ==
    ASSUME InputInv,
           \/ \E w \in Writers : BeginMessage(w) \/ WriteRecord(w)
           \/ ServerExits \/ ServerStarts \/ LinkBreaks
    PROVE  TypeOK'
<1> USE DEF InputInv
<1> USE DEF TypeOK, client, server
<1>1. ASSUME NEW w \in Writers, BeginMessage(w)
      PROVE  TypeOK'
  <2>1. begun[link] + 1 \in 1 .. MaxMessages /\ begun[link] + 1 \in 0 .. MaxMessages
    BY <1>1, Bounds DEF BeginMessage
  <2>2. PICK parts \in 1 .. 2 : writing' = [writing EXCEPT ![w] =
               [n |-> begun[link] + 1, left |-> parts, first |-> TRUE]]
    BY <1>1 DEF BeginMessage
  <2>3. writing' \in [Writers -> Job \cup {None}]
    BY <2>1, <2>2 DEF Job
  <2>4. begun' \in [Links -> 0 .. MaxMessages]
    BY <1>1, <2>1 DEF BeginMessage
  <2> QED
    BY <1>1, <2>3, <2>4 DEF BeginMessage, Lock
<1>2. ASSUME NEW w \in Writers, WriteRecord(w)
      PROVE  TypeOK'
  <2> DEFINE job == writing[w]
  <2>1. job \in Job /\ job.left \in 1 .. 2
    BY <1>2 DEF WriteRecord, Job
  <2>2. PartsLeft(job) \in 0 .. 1
    BY <2>1 DEF PartsLeft
  <2>3. [n |-> job.n, first |-> job.first, last |-> job.left = 1] \in Part
    BY <2>1 DEF Part, Job
  <2>4. stream' \in Seq(Part)
    BY <1>2, <2>3, AppendToStream DEF WriteRecord
  <2>5. PartsLeft(job) # 0 => [n |-> job.n, left |-> PartsLeft(job), first |-> FALSE] \in Job
    BY <2>1, <2>2 DEF Job
  <2>6. writing' \in [Writers -> Job \cup {None}]
    BY <1>2, <2>5 DEF WriteRecord
  <2> QED
    BY <1>2, <2>4, <2>6 DEF WriteRecord
<1>3. CASE ServerExits
  <2>1. running' \in BOOLEAN /\ peer' \in {"none", "up", "fin", "reset"}
    BY <1>3 DEF ServerExits
  <2>2. writing' \in [Writers -> Job \cup {None}] /\ mutex' \in Writers \cup {None}
    BY <1>3 DEF ServerExits, Forgotten
  <2> QED
    BY <1>3, <2>1, <2>2 DEF ServerExits
<1>4. CASE ServerStarts
  BY <1>4 DEF ServerStarts
<1>5. CASE LinkBreaks
  <2>1. stream' \in Seq(Part)
    BY <1>5, StartOfStream DEF LinkBreaks
  <2> QED
    BY <1>5, <2>1 DEF LinkBreaks, Forgotten
<1> QED
  BY <1>1, <1>2, <1>3, <1>4, <1>5

LEMMA TypeClientStep ==
    ASSUME InputInv, InputStep \/ BeginSend \/ EndSend
    PROVE  TypeOK'
<1> USE DEF InputInv
<1> USE DEF TypeOK, client, server
<1>1. CASE ReadRecord
  <2>1. Head(stream) \in Part /\ stream' \in Seq(Part)
    BY <1>1, TailOfStream DEF ReadRecord
  <2>2. tok' \in {"fresh", "mid", "stuck"}
    BY <1>1 DEF ReadRecord, Parsed
  <2>3. <<link, Head(stream).n>> \in Links \X (1 .. MaxMessages)
    BY <2>1 DEF Part
  <2>4. heard' \in [Links -> Seq(Links \X (1 .. MaxMessages))]
    BY <1>1, <2>3, AppendToStream DEF ReadRecord
  <2> QED
    BY <1>1, <2>1, <2>2, <2>4 DEF ReadRecord
<1>2. CASE ReadFails
  BY <1>2, Bounds DEF ReadFails
<1>3. CASE FreeContext
  BY <1>3 DEF FreeContext
<1>4. CASE NewContext
  BY <1>4 DEF NewContext
<1>5. CASE ConnectToServer
  <2>1. link < MaxConns => link + 1 \in Links
    BY Bounds DEF Links
  <2>2. <<>> \in Seq(Part)
    OBVIOUS
  <2> QED
    BY <1>5, <2>1, <2>2 DEF ConnectToServer
<1>6. CASE Handshake
  BY <1>6 DEF Handshake
<1>7. CASE HandshakeFails
  <2>1. tries + 1 \in 0 .. MaxTries
    BY <1>7, Bounds DEF HandshakeFails, TriesLeft, InputAt
  <2> QED
    BY <1>7, <2>1 DEF HandshakeFails, AfterFailure
<1>8. CASE Announce
  BY <1>8 DEF Announce, Send
<1>9. CASE BeginSend
  BY <1>9 DEF BeginSend
<1>10. CASE EndSend
  <2>1. gtk' = "idle" /\ UNCHANGED <<server, link, stream, pc, tries, tok, heard, ctx, cut>>
    BY <1>10 DEF EndSend
  <2>2. alive' \in BOOLEAN /\ peer' \in {"none", "up", "fin", "reset"}
    <3> HIDE DEF TypeOK, InputInv
    <3>1. alive \in BOOLEAN /\ peer \in {"none", "up", "fin", "reset"}
      BY DEF InputInv, TypeOK
    <3>2. Send => alive' \in BOOLEAN /\ peer' \in {"none", "up", "fin", "reset"}
      BY <3>1 DEF Send
    <3>3. \/ Send
          \/ UNCHANGED <<peer, alive>>
          \/ alive' \in BOOLEAN /\ UNCHANGED peer
      BY <1>10 DEF EndSend
    <3> QED
      BY <3>1, <3>2, <3>3
  <2> QED
    BY <2>1, <2>2
<1> QED
  BY <1>1, <1>2, <1>3, <1>4, <1>5, <1>6, <1>7, <1>8, <1>9, <1>10 DEF InputStep

-----------------------------------------------------------------------------
\* Where the threads are.

LEMMA ServerLeavesInput ==
    ASSUME InputInv,
           \/ \E w \in Writers : BeginMessage(w) \/ WriteRecord(w)
           \/ ServerExits \/ ServerStarts \/ LinkBreaks
    PROVE  /\ UNCHANGED <<link, pc, tries, tok, heard, ctx, alive, gtk, cut>>
           /\ peer' = "up" => peer = "up"
           /\ stream = <<>> /\ stream' # <<>> => peer = "up" /\ ctx = "ready"
<1>1. ASSUME NEW w \in Writers, BeginMessage(w)
      PROVE  UNCHANGED <<client, link, peer, stream, gtk, cut>>
  BY <1>1 DEF BeginMessage
<1>2. ASSUME NEW w \in Writers, WriteRecord(w)
      PROVE  /\ UNCHANGED <<client, link, peer, gtk, cut>>
             /\ peer = "up" /\ ctx = "ready"
  BY <1>2 DEF WriteRecord, InputInv, WriterHasMutex
<1>3. CASE ServerExits \/ ServerStarts
  BY <1>3 DEF ServerExits, ServerStarts, client
<1>4. CASE LinkBreaks
  <2>1. stream = <<>> => stream' = <<>>
    BY <1>4 DEF LinkBreaks
  <2> QED
    BY <1>4, <2>1 DEF LinkBreaks, client
<1> QED
  BY <1>1, <1>2, <1>3, <1>4 DEF client

LEMMA WriterStep ==
    ASSUME InputInv, [Next]_vars
    PROVE  WriterHasMutex'
<1> USE DEF InputInv, WriterHasMutex
<1>1. ASSUME NEW w \in Writers, BeginMessage(w)
      PROVE  WriterHasMutex'
  <2>1. \A v \in Writers : writing[v] = None
    BY <1>1, Bounds DEF BeginMessage, Lock
  <2> QED
    BY <1>1, <2>1 DEF BeginMessage, Lock, client, TypeOK
<1>2. ASSUME NEW w \in Writers, WriteRecord(w)
      PROVE  WriterHasMutex'
  BY <1>2 DEF WriteRecord, client, TypeOK
<1>3. CASE ServerExits \/ LinkBreaks
  BY <1>3 DEF ServerExits, LinkBreaks, Forgotten
<1>4. CASE ServerStarts
  BY <1>4 DEF ServerStarts, client
<1>5. CASE InputStep
  BY <1>5 DEF InputStep, ReadRecord, ReadFails, FreeContext, NewContext,
     ConnectToServer, Handshake, HandshakeFails, Announce, Send, InputAt, server,
     NothingUnread
<1>6. CASE BeginSend \/ EndSend \/ UNCHANGED vars
  BY <1>6 DEF BeginSend, EndSend, Send, server, client, vars
<1> QED
  BY <1>1, <1>2, <1>3, <1>4, <1>5, <1>6 DEF Next

LEMMA UnreadStep ==
    ASSUME InputInv, [Next]_vars
    PROVE  NothingUnread' /\ TriesLeft'
<1> USE DEF InputInv, NothingUnread, TriesLeft
<1>1. CASE \/ \E w \in Writers : BeginMessage(w) \/ WriteRecord(w)
           \/ ServerExits \/ ServerStarts \/ LinkBreaks
  BY <1>1, ServerLeavesInput
<1>2. CASE ReadRecord
  <2>1. stream # <<>> /\ ctx = "ready" /\ pc = "read"
    BY <1>2 DEF ReadRecord, InputAt
  <2> QED
    BY <1>2, <2>1 DEF ReadRecord
<1>3. CASE ReadFails
  BY <1>3, Bounds DEF ReadFails, InputAt
<1>4. CASE FreeContext \/ NewContext \/ Handshake
  BY <1>4 DEF FreeContext, NewContext, Handshake, InputAt
<1>5. CASE ConnectToServer
  BY <1>5 DEF ConnectToServer, InputAt
<1>6. CASE HandshakeFails
  BY <1>6, Bounds DEF HandshakeFails, AfterFailure, InputAt, TypeOK
<1>7. CASE Announce
  BY <1>7 DEF Announce, InputAt
<1>8. CASE BeginSend \/ EndSend \/ UNCHANGED vars
  BY <1>8 DEF BeginSend, EndSend, Send, client, vars
<1> QED
  BY <1>1, <1>2, <1>3, <1>4, <1>5, <1>6, <1>7, <1>8 DEF Next, InputStep

-----------------------------------------------------------------------------
\* The order of the records.

\* Nothing on its way, the tokener between two messages, nobody in a message.
LEMMA EmptyInOrder ==
    ASSUME stream = <<>>, tok = "fresh", \A w \in Writers : writing[w] = None
    PROVE  InOrder
<1>1. DOMAIN stream = {} /\ Len(stream) = 0
  OBVIOUS
<1> QED
  BY <1>1 DEF InOrder, RecordsFollow, LastIsOpen, EndsBefore, InMessage

LEMMA OrderWriterStep ==
    ASSUME InputInv, NEW w \in Writers, BeginMessage(w) \/ WriteRecord(w)
    PROVE  InOrder'
<1> USE DEF InputInv
<1> SUFFICES ASSUME ~cut
             PROVE  InOrder'
  BY ServerLeavesInput DEF InOrder
<1>1. /\ UNCHANGED <<pc, tok, cut, peer>> /\ peer = "up"
      /\ \A v \in Writers : v # w => writing[v] = None
  <2>1. UNCHANGED <<pc, tok, cut, peer>>
    BY DEF BeginMessage, WriteRecord, client
  <2>2. CASE BeginMessage(w)
    BY <2>1, <2>2, Bounds DEF BeginMessage, Lock, WriterHasMutex
  <2>3. CASE WriteRecord(w)
    BY <2>1, <2>3, Bounds DEF WriteRecord, WriterHasMutex
  <2> QED
    BY <2>1, <2>2, <2>3
<1>2. CASE BeginMessage(w)
  <2>1. UNCHANGED stream /\ ~InMessage
    BY <1>1, <1>2 DEF BeginMessage, InMessage
  <2>2. /\ writing'[w].first = TRUE
        /\ \A v \in Writers : v # w => writing'[v] = None
    BY <1>1, <1>2 DEF BeginMessage, TypeOK
  <2>3. ~InMessage'
    BY <2>2 DEF InMessage
  <2> QED
    BY <1>1, <2>1, <2>3 DEF InOrder, RecordsFollow, LastIsOpen, EndsBefore
<1>3. CASE WriteRecord(w)
  <2> DEFINE job == writing[w]
             rec == [n |-> job.n, first |-> job.first, last |-> job.left = 1]
  <2>1. job \in Job /\ job # None /\ job.left \in 1 .. 2 /\ job.first \in BOOLEAN
    BY <1>3 DEF WriteRecord, TypeOK, Job
  <2>2. stream' = Append(stream, rec) /\ stream \in Seq(Part) /\ rec \in Part
    BY <1>1, <1>3, <2>1 DEF WriteRecord, TypeOK, Part, Job
  <2>3. /\ Len(stream') = Len(stream) + 1 /\ stream' \in Seq(Part)
        /\ stream'[Len(stream) + 1] = rec
        /\ \A i \in DOMAIN stream : stream'[i] = stream[i]
    BY <2>2, AppendToStream
  <2>4. InMessage = ~job.first
    BY <1>1, <2>1 DEF InMessage
  <2>5. EndsBefore(Len(stream) + 1) = rec.first
    BY <1>1, <2>1, <2>4 DEF InOrder, LastIsOpen
  <2>6. \A i \in 1 .. Len(stream) + 1 : EndsBefore(i)' = EndsBefore(i)
    BY <1>1, <2>2, <2>3 DEF EndsBefore
  <2>7. RecordsFollow'
    <3>1. DOMAIN stream' = DOMAIN stream \cup {Len(stream) + 1}
      BY <2>2, <2>3
    <3>2. \A i \in DOMAIN stream : i \in 1 .. Len(stream) + 1
      BY <2>2
    <3>3. Len(stream) + 1 \in 1 .. Len(stream) + 1
      BY <2>2
    <3> QED
      BY <2>3, <2>5, <2>6, <3>1, <3>2, <3>3 DEF InOrder, RecordsFollow
  <2>8. EndsBefore(Len(stream) + 1)' = rec.last
    <3>1. /\ Len(stream') + 1 # 1 /\ Len(stream') + 1 - 1 = Len(stream) + 1
      BY <2>2, <2>3
    <3> QED
      BY <2>3, <3>1 DEF EndsBefore
  <2>9. InMessage' = (job.left # 1)
    <3>1. /\ \A v \in Writers \ {w} : writing'[v] = None
          /\ job.left = 1 => writing'[w] = None
          /\ job.left # 1 => writing'[w] \in Job /\ ~writing'[w].first
      BY <1>1, <1>3, <2>1 DEF WriteRecord, PartsLeft, TypeOK, Job
    <3> QED
      BY <3>1, Bounds DEF InMessage
  <2>10. LastIsOpen'
    BY <2>1, <2>8, <2>9 DEF LastIsOpen
  <2> QED
    BY <1>1, <2>7, <2>10 DEF InOrder
<1> QED
  BY <1>2, <1>3

LEMMA OrderReadStep ==
    ASSUME InputInv, ReadRecord
    PROVE  InOrder'
<1> USE DEF InputInv
<1> SUFFICES ASSUME ~cut
             PROVE  InOrder'
  BY DEF ReadRecord, InOrder
<1>1. /\ UNCHANGED <<pc, cut, peer, writing>> /\ pc = "read"
      /\ stream # <<>> /\ stream \in Seq(Part)
      /\ stream' = Tail(stream) /\ tok' = Parsed(Head(stream))
  BY DEF ReadRecord, server, InputAt, TypeOK
<1>2. /\ Head(stream) = stream[1] /\ Head(stream) \in Part
      /\ Len(stream') = Len(stream) - 1
      /\ \A i \in DOMAIN stream' : i + 1 \in DOMAIN stream /\ stream'[i] = stream[i + 1]
      /\ stream' \in Seq(Part)
  BY <1>1, TailOfStream
<1>3. 1 \in DOMAIN stream /\ stream[1].first = (tok = "fresh")
  BY <1>1 DEF InOrder, RecordsFollow, EndsBefore
<1>4. tok' # "stuck" /\ (tok' = "fresh") = stream[1].last
  <2>1. stream[1].last \in BOOLEAN /\ tok # "stuck"
    BY <1>2 DEF Part, InOrder
  <2> QED
    BY <1>1, <1>2, <1>3, <2>1 DEF Parsed
<1>5. \A i \in 1 .. Len(stream') + 1 : EndsBefore(i)' = EndsBefore(i + 1)
  <2> SUFFICES ASSUME NEW i \in 1 .. Len(stream') + 1
               PROVE  EndsBefore(i)' = EndsBefore(i + 1)
    OBVIOUS
  <2>1. CASE i = 1
    BY <2>1, <1>4 DEF EndsBefore
  <2>2. CASE i # 1
    <3>1. i - 1 \in DOMAIN stream' /\ i + 1 - 1 = i /\ i + 1 # 1 /\ i - 1 + 1 = i
      BY <1>2, <2>2
    <3> QED
      BY <1>2, <2>2, <3>1 DEF EndsBefore
  <2> QED
    BY <2>1, <2>2
<1>6. RecordsFollow'
  <2> SUFFICES ASSUME NEW i \in DOMAIN stream'
               PROVE  stream'[i].first = EndsBefore(i)'
    BY DEF RecordsFollow
  <2>1. i \in 1 .. Len(stream') + 1
    BY <1>2
  <2> QED
    BY <1>2, <1>5, <2>1 DEF InOrder, RecordsFollow
<1>7. LastIsOpen'
  <2>1. PICK n \in 1 .. Len(stream') + 1 : n = Len(stream') + 1 /\ n + 1 = Len(stream) + 1
    <3>1. Len(stream) \in Nat /\ Len(stream') \in Nat
      BY <1>1, <1>2
    <3> QED
      BY <1>2, <3>1
  <2>2. EndsBefore(Len(stream) + 1)' = EndsBefore(Len(stream) + 1)
    <3>1. EndsBefore(Len(stream) + 1)' = EndsBefore(n)'
      BY <2>1 DEF EndsBefore
    <3> QED
      BY <1>5, <2>1, <3>1
  <2>3. InMessage' = InMessage
    BY <1>1 DEF InMessage
  <2> QED
    BY <1>1, <2>2, <2>3 DEF InOrder, LastIsOpen
<1> QED
  BY <1>1, <1>4, <1>6, <1>7 DEF InOrder

\* A connection that ends takes a part of the stream with it, and its writers.
LEMMA OrderBreakStep ==
    ASSUME InputInv, LinkBreaks
    PROVE  InOrder'
<1> USE DEF InputInv
<1>1. PICK k \in 0 .. Len(stream) : stream' = SubSeq(stream, 1, k)
  BY DEF LinkBreaks
<1>2. /\ Len(stream') = k /\ stream' \in Seq(Part) /\ k <= Len(stream)
      /\ \A i \in 1 .. k : stream'[i] = stream[i]
  BY <1>1, StartOfStream DEF TypeOK
<1>3. UNCHANGED <<pc, tok, cut>> /\ peer' # "up"
  BY DEF LinkBreaks, client
<1>4. ASSUME RecordsFollow, NEW i \in DOMAIN stream'
      PROVE  stream'[i].first = EndsBefore(i)'
  <2>1. i \in 1 .. k /\ i \in DOMAIN stream /\ stream'[i] = stream[i]
    BY <1>2 DEF TypeOK
  <2>2. i # 1 => i - 1 \in 1 .. k
    BY <2>1
  <2> QED
    BY <1>2, <1>3, <1>4, <2>1, <2>2 DEF EndsBefore, RecordsFollow
<1> QED
  BY <1>3, <1>4 DEF InOrder, RecordsFollow, LastIsOpen

LEMMA OrderStep ==
    ASSUME InputInv, [Next]_vars
    PROVE  InOrder'
<1> USE DEF InputInv
<1>1. ASSUME UNCHANGED <<tok, stream, cut>>,
             pc' # "read" => pc # "read" \/ tok = "fresh" \/ cut,
             peer' = "up" => peer = "up" /\ writing' = writing
      PROVE  InOrder'
  BY <1>1 DEF InOrder, RecordsFollow, LastIsOpen, EndsBefore, InMessage
<1>2. CASE \E w \in Writers : BeginMessage(w) \/ WriteRecord(w)
  BY <1>2, OrderWriterStep
<1>3. CASE ServerExits
  BY <1>1, <1>3 DEF ServerExits, client
<1>4. CASE ServerStarts
  BY <1>1, <1>4 DEF ServerStarts, client
<1>5. CASE LinkBreaks
  BY <1>5, OrderBreakStep
<1>6. CASE ReadRecord
  BY <1>6, OrderReadStep
<1>7. CASE ReadFails
  <2>1. CASE cut'
    BY <2>1 DEF InOrder
  <2>2. CASE ~cut'
    <3>1. ~cut /\ tok # "mid" /\ UNCHANGED <<tok, stream, cut, peer, writing>>
      BY <1>7, <2>2 DEF ReadFails, server, TypeOK
    <3>2. tok = "fresh"
      BY <3>1 DEF InOrder, TypeOK
    <3> QED
      BY <1>1, <3>1, <3>2
  <2> QED
    BY <2>1, <2>2
<1>8. CASE FreeContext \/ NewContext \/ Handshake \/ HandshakeFails \/ Announce
  BY <1>1, <1>8 DEF FreeContext, NewContext, Handshake, HandshakeFails, Announce,
     Send, InputAt, server
<1>9. CASE ConnectToServer
  <2>1. CASE pc' = "ended"
    BY <1>1, <1>9, <2>1 DEF ConnectToServer, server, InputAt
  <2>2. CASE pc' # "ended"
    <3>1. /\ stream' = <<>> /\ UNCHANGED <<writing, tok, cut>> /\ pc = "connect"
      BY <1>9, <2>2 DEF ConnectToServer, server, InputAt
    <3>2. \A w \in Writers : writing[w] = None
      BY <3>1 DEF NothingUnread, WriterHasMutex
    <3>3. CASE cut
      BY <3>1, <3>3 DEF InOrder
    <3>4. CASE ~cut
      <4>1. tok = "fresh"
        BY <3>1, <3>4 DEF InOrder
      <4>2. DOMAIN stream' = {} /\ Len(stream') = 0
        BY <3>1
      <4> QED
        BY <3>1, <3>2, <4>1, <4>2 DEF InOrder, RecordsFollow, LastIsOpen,
           EndsBefore, InMessage
    <3> QED
      BY <3>3, <3>4
  <2> QED
    BY <2>1, <2>2
<1>10. CASE BeginSend \/ EndSend \/ UNCHANGED vars
  BY <1>1, <1>10 DEF BeginSend, EndSend, Send, server, client, vars
<1> QED
  BY <1>2, <1>3, <1>4, <1>5, <1>6, <1>7, <1>8, <1>9, <1>10 DEF Next, InputStep

-----------------------------------------------------------------------------
\* The inductive invariant.

LEMMA InputInit == Init => InputInv
<1> SUFFICES ASSUME Init
             PROVE  InputInv
  OBVIOUS
<1>1. WriterHasMutex /\ NothingUnread /\ TriesLeft
  BY DEF Init, WriterHasMutex, NothingUnread, TriesLeft
<1>2. InOrder
  BY EmptyInOrder DEF Init
<1> QED
  BY <1>1, <1>2, InputTypeInit DEF InputInv

LEMMA InputNext == InputInv /\ [Next]_vars => InputInv'
<1> SUFFICES ASSUME InputInv, [Next]_vars
             PROVE  InputInv'
  OBVIOUS
<1>1. TypeOK'
  <2>1. CASE UNCHANGED vars
    BY <2>1 DEF vars, server, client, InputInv, TypeOK
  <2> QED
    BY <2>1, TypeServerStep, TypeClientStep DEF Next
<1> QED
  BY <1>1, WriterStep, UnreadStep, OrderStep DEF InputInv

LEMMA InputInvariant == Spec => []InputInv
BY InputInit, InputNext, PTL DEF Spec

\* Every variable of the connection keeps its type.
THEOREM InputTypes == Spec => []TypeOK
<1>1. InputInv => TypeOK
  BY DEF InputInv
<1> QED
  BY <1>1, InputInvariant, PTL

\* The tokener that lasts as long as the client is in error only if a connection
\* ended between two records of a message.
THEOREM NeverDeafBefore == Spec => []DeafOnlyAfterCut
<1>1. InputInv => DeafOnlyAfterCut
  BY DEF InputInv, InOrder, DeafOnlyAfterCut
<1> QED
  BY <1>1, InputInvariant, PTL

\* Two threads of the server are never in a message to one client at once.
THEOREM OneWriter ==
    Spec => [](\A v, w \in Writers : writing[v] # None /\ writing[w] # None => v = w)
<1>1. InputInv => \A v, w \in Writers : writing[v] # None /\ writing[w] # None => v = w
  BY DEF InputInv, WriterHasMutex
<1> QED
  BY <1>1, InputInvariant, PTL

-----------------------------------------------------------------------------
\* The channel: the numbers of the messages.

\* A step that touches neither the messages nor the stream.
LEMMA ChannelKept ==
    ASSUME InputInv, ChannelInv, UNCHANGED <<stream, heard, link, begun>>,
           \/ writing' = writing /\ (peer' = "up" => peer = "up")
           \/ (\A w \in Writers : writing'[w] = None) /\ peer' # "up",
           UNCHANGED <<tok, cut>>
    PROVE  ChannelInv'
<1>1. \A i \in 1 .. Len(stream) + 1 : Due(i)' = Due(i)
  BY DEF Due
<1>2. HeardInOrder'
  BY DEF ChannelInv, HeardInOrder
<1>3. stream \in Seq(Part) /\ DOMAIN stream = 1 .. Len(stream) /\ Len(stream) \in Nat
  BY DEF InputInv, TypeOK
<1>4. Due(Len(stream) + 1)' = Due(Len(stream) + 1)
  BY DEF Due
<1>5. Numbered'
  <2> SUFFICES ASSUME ~cut
               PROVE  Numbered'
    BY DEF Numbered
  <2>1. \A i \in DOMAIN stream' : stream'[i].n = Due(i)' /\ stream'[i].n <= begun'[link']
    BY <1>1, <1>3 DEF ChannelInv, Numbered
  <2>2. \A w \in Writers :
            writing'[w] # None => /\ writing'[w].n = Due(Len(stream) + 1)'
                                  /\ writing'[w].n = begun'[link']
    BY <1>4 DEF ChannelInv, Numbered
  <2>3. peer' = "up" /\ (\A w \in Writers : writing'[w] = None) =>
            begun'[link'] = Due(Len(stream) + 1)' - 1
    BY <1>4 DEF ChannelInv, Numbered
  <2> QED
    BY <2>1, <2>2, <2>3 DEF Numbered
<1>6. CutIsDeaf'
  BY DEF ChannelInv, CutIsDeaf, InMessage
<1> QED
  BY <1>2, <1>5, <1>6 DEF ChannelInv

LEMMA ChannelBegins ==
    ASSUME InputInv, ChannelInv, NEW w \in Writers, BeginMessage(w)
    PROVE  ChannelInv'
<1>1. /\ UNCHANGED <<stream, heard, link, tok, cut, peer>> /\ peer = "up"
      /\ \A v \in Writers : writing[v] = None
      /\ begun' = [begun EXCEPT ![link] = begun[link] + 1]
      /\ \E parts \in 1 .. 2 : writing' = [writing EXCEPT ![w] =
               [n |-> begun[link] + 1, left |-> parts, first |-> TRUE]]
  BY Bounds DEF BeginMessage, Lock, client, InputInv, WriterHasMutex
<1>2. /\ TypeOK /\ link \in Links /\ begun \in [Links -> 0 .. MaxMessages]
      /\ writing \in [Writers -> Job \cup {None}]
      /\ DOMAIN stream = 1 .. Len(stream) /\ Len(stream) \in Nat
  BY DEF InputInv, TypeOK
<1>3. /\ begun'[link] = begun[link] + 1 /\ begun[link] \in Nat
      /\ \A k \in Links : k # link => begun'[k] = begun[k]
  BY <1>1, <1>2, Bounds
<1>4. /\ writing'[w].n = begun[link] + 1 /\ writing'[w].first = TRUE
      /\ \A v \in Writers : v # w => writing'[v] = None
      /\ writing'[w] # None
  <2>1. begun[link] + 1 \in 1 .. MaxMessages
    BY <1>2, Bounds DEF BeginMessage
  <2>2. \A parts \in 1 .. 2 : [n |-> begun[link] + 1, left |-> parts, first |-> TRUE] \in Job
    BY <2>1 DEF Job
  <2> QED
    <3>1. PICK parts \in 1 .. 2 : writing' = [writing EXCEPT ![w] =
               [n |-> begun[link] + 1, left |-> parts, first |-> TRUE]]
      BY <1>1
    <3>2. writing'[w] = [n |-> begun[link] + 1, left |-> parts, first |-> TRUE]
          /\ \A v \in Writers : v # w => writing'[v] = writing[v]
      BY <1>2, <3>1
    <3>3. writing'[w] \in Job
      BY <2>2, <3>2
    <3>4. writing'[w] # None
      BY <3>3, Bounds
    <3>5. writing'[w].n = begun[link] + 1 /\ writing'[w].first = TRUE
      BY <3>2
    <3>6. \A v \in Writers : v # w => writing'[v] = None
      BY <1>1, <3>2
    <3> QED
      BY <3>4, <3>5, <3>6
<1>5. \A i \in 1 .. Len(stream) + 1 : Due(i)' = Due(i)
  BY <1>1 DEF Due
<1>6. HeardInOrder'
  BY <1>1, <1>3 DEF ChannelInv, HeardInOrder
<1>7. Numbered'
  <2> SUFFICES ASSUME ~cut
               PROVE  Numbered'
    BY <1>1 DEF Numbered
  <2>1. Due(Len(stream) + 1)' = Due(Len(stream) + 1)
    BY <1>1 DEF Due
  <2>2. begun[link] = Due(Len(stream) + 1) - 1
    BY <1>1 DEF ChannelInv, Numbered
  <2>3. Due(Len(stream) + 1) \in Int
    <3>1. Len(heard[link]) \in Nat
      BY <1>2 DEF TypeOK
    <3>2. \A i \in DOMAIN stream : stream[i] \in Part
      BY <1>2 DEF TypeOK
    <3>3. \A i \in DOMAIN stream : stream[i].n \in Nat
      BY <3>2, Bounds DEF Part
    <3>4. Len(stream) + 1 # 1 => Len(stream) + 1 - 1 \in DOMAIN stream
      BY <1>2
    <3> QED
      BY <3>1, <3>3, <3>4 DEF Due
  <2>4. begun'[link] = Due(Len(stream) + 1)
    BY <1>3, <2>2, <2>3
  <2>5. \A i \in DOMAIN stream : stream[i].n = Due(i)' /\ stream[i].n <= begun[link]
    BY <1>2, <1>5 DEF ChannelInv, Numbered
  <2>6. \A i \in DOMAIN stream : stream[i].n \in Nat
    <3>1. \A i \in DOMAIN stream : stream[i] \in Part
      BY <1>2 DEF TypeOK
    <3> QED
      BY <3>1, Bounds DEF Part
  <2>7. \A i \in DOMAIN stream : stream[i].n <= begun[link] + 1
    BY <1>3, <2>5, <2>6
  <2> QED
    BY <1>1, <1>3, <1>4, <2>1, <2>4, <2>5, <2>7 DEF Numbered
<1>8. CutIsDeaf'
  <2>1. ~InMessage'
    BY <1>4 DEF InMessage
  <2> QED
    BY <1>1, <2>1 DEF ChannelInv, CutIsDeaf
<1> QED
  BY <1>6, <1>7, <1>8 DEF ChannelInv

LEMMA ChannelWritten ==
    ASSUME InputInv, ChannelInv, NEW w \in Writers, WriteRecord(w),
           NEW job, job = writing[w],
           NEW rec, rec = [n |-> job.n, first |-> job.first, last |-> job.left = 1],
           NEW l, l = Len(stream)
    PROVE  ChannelInv'
<1>1. /\ UNCHANGED <<heard, link, begun, tok, cut, peer>> /\ peer = "up" /\ job # None
      /\ \A v \in Writers : v # w => writing[v] = None
  BY Bounds DEF WriteRecord, client, InputInv, WriterHasMutex
<1>2. /\ TypeOK /\ stream \in Seq(Part) /\ writing \in [Writers -> Job \cup {None}]
      /\ DOMAIN stream = 1 .. l /\ l \in Nat
  BY DEF InputInv, TypeOK
<1>3. job \in Job /\ job.left \in 1 .. 2 /\ job.first \in BOOLEAN /\ job.n \in 1 .. MaxMessages
  BY <1>1, <1>2 DEF Job
<1>4. rec \in Part /\ rec.n = job.n /\ rec.first = job.first /\ rec.last = (job.left = 1)
  BY <1>3 DEF Part
<1>5. /\ stream' = Append(stream, rec)
      /\ writing' = [writing EXCEPT ![w] =
            IF job.left - 1 = 0 THEN None ELSE [n |-> job.n, left |-> job.left - 1, first |-> FALSE]]
  BY <1>1 DEF WriteRecord, PartsLeft
<1>6. /\ Len(stream') = l + 1 /\ DOMAIN stream' = 1 .. l + 1 /\ stream'[l + 1] = rec
      /\ \A i \in DOMAIN stream : stream'[i] = stream[i]
  BY <1>2, <1>4, <1>5, AppendToStream
<1>7. /\ \A v \in Writers : v # w => writing'[v] = None
      /\ job.left = 1 => writing'[w] = None
      /\ job.left # 1 => writing'[w].n = job.n
  BY <1>1, <1>2, <1>3, <1>5
<1>8. HeardInOrder'
  BY <1>1 DEF ChannelInv, HeardInOrder
<1>9. Numbered'
  <2> SUFFICES ASSUME ~cut
               PROVE  Numbered'
    BY <1>1 DEF Numbered
  <2>1. job.n = Due(l + 1) /\ job.n = begun[link]
    BY <1>1 DEF ChannelInv, Numbered
  <2>2. ASSUME NEW i \in 1 .. l + 1
        PROVE  Due(i)' = Due(i)
    <3>1. i # 1 => i - 1 \in DOMAIN stream /\ i - 1 \in Nat
      BY <1>2
    <3> QED
      BY <1>1, <1>6, <3>1 DEF Due
  <2>3. \A i \in DOMAIN stream' : i \in DOMAIN stream \/ i = l + 1
    BY <1>2, <1>6
  <2>4. ASSUME NEW i \in DOMAIN stream'
        PROVE  stream'[i].n = Due(i)' /\ stream'[i].n <= begun'[link']
    <3>1. CASE i \in DOMAIN stream
      BY <1>1, <1>2, <1>6, <2>2, <3>1 DEF ChannelInv, Numbered
    <3>2. CASE i = l + 1
      BY <1>1, <1>3, <1>4, <1>6, <2>1, <2>2, <3>2
    <3> QED
      BY <2>3, <3>1, <3>2
  <2>5. Due(Len(stream) + 1)' = IF rec.last THEN job.n + 1 ELSE job.n
    <3>1. l + 1 + 1 # 1 /\ l + 1 + 1 - 1 = l + 1
      BY <1>2
    <3>2. Due(l + 1 + 1)' = IF rec.last THEN rec.n + 1 ELSE rec.n
      BY <1>6, <3>1 DEF Due
    <3>3. Due(Len(stream) + 1)' = Due(l + 1 + 1)'
      BY <1>6 DEF Due
    <3> QED
      BY <1>4, <3>2, <3>3
  <2>6. \A v \in Writers :
            writing'[v] # None => /\ writing'[v].n = Due(Len(stream) + 1)'
                                  /\ writing'[v].n = begun'[link']
    BY <1>1, <1>4, <1>7, <2>1, <2>5
  <2>7. (\A v \in Writers : writing'[v] = None) => begun'[link'] = Due(Len(stream) + 1)' - 1
    <3> SUFFICES ASSUME writing'[w] = None
                 PROVE  begun'[link'] = Due(Len(stream) + 1)' - 1
      OBVIOUS
    <3>1. job.left = 1
      <4>1. job.left # 1 => writing'[w] \in Job
        <5> SUFFICES ASSUME job.left # 1
                     PROVE  writing'[w] \in Job
          OBVIOUS
        <5>1. [n |-> job.n, left |-> job.left - 1, first |-> FALSE] \in Job
          BY <1>3 DEF Job
        <5>2. job.left - 1 # 0
          BY <1>3
        <5>3. writing' = [writing EXCEPT ![w] =
                             [n |-> job.n, left |-> job.left - 1, first |-> FALSE]]
          BY <1>5, <5>2
        <5> QED
          BY <1>2, <5>1, <5>3
      <4> QED
        BY <4>1, Bounds
    <3>2. Due(Len(stream) + 1)' = job.n + 1
      BY <1>4, <2>5, <3>1
    <3>3. job.n \in Nat
      BY <1>3, Bounds
    <3>4. begun'[link'] = job.n
      BY <1>1, <2>1
    <3> QED
      BY <3>2, <3>3, <3>4
  <2> QED
    BY <2>4, <2>6, <2>7 DEF Numbered
<1>10. CutIsDeaf'
  <2> SUFFICES ASSUME cut
               PROVE  CutIsDeaf'
    BY <1>1 DEF CutIsDeaf
  <2>1. tok # "fresh" /\ (tok = "mid" => (stream # <<>> => stream[1].first)
                                         /\ (stream = <<>> => ~InMessage))
    BY DEF ChannelInv, CutIsDeaf
  <2>2. stream' # <<>>
    BY <1>2, <1>6
  <2>3. CASE stream = <<>>
    <3>1. stream'[1] = rec
      BY <1>6, <2>3
    <3>2. ~InMessage => rec.first
      BY <1>1, <1>4 DEF InMessage
    <3> QED
      BY <1>1, <2>1, <2>2, <2>3, <3>1, <3>2 DEF CutIsDeaf
  <2>4. CASE stream # <<>>
    <3>1. 1 \in DOMAIN stream
      BY <1>2, <2>4
    <3> QED
      BY <1>1, <1>6, <2>1, <2>2, <2>4, <3>1 DEF CutIsDeaf
  <2> QED
    BY <2>3, <2>4
<1> QED
  BY <1>8, <1>9, <1>10 DEF ChannelInv

\* After a cut the next record is an error, and no message is heard; otherwise it is
\* heard when it is the last of its message, under the number that is due.
LEMMA ReadHears ==
    ASSUME InputInv, ChannelInv, ReadRecord, NEW h, h = Len(heard[link])
    PROVE  /\ UNCHANGED <<link, begun, cut, peer, writing>>
           /\ stream # <<>> /\ stream \in Seq(Part) /\ h \in Nat
           /\ cut => tok' = "stuck" /\ heard' = heard
           /\ ~cut => /\ stream[1].n = h + 1 /\ h + 1 <= begun[link]
                      /\ stream[1].last => /\ tok' = "fresh"
                                           /\ heard' = [heard EXCEPT ![link] = Append(@, <<link, h + 1>>)]
                      /\ ~stream[1].last => tok' # "fresh" /\ heard' = heard
<1>1. /\ UNCHANGED <<link, begun, cut, peer, writing>> /\ pc = "read"
      /\ stream # <<>> /\ stream \in Seq(Part) /\ TypeOK
      /\ tok' = Parsed(Head(stream))
      /\ heard' = IF tok' = "fresh" THEN [heard EXCEPT ![link] = Append(@, <<link, Head(stream).n>>)]
                  ELSE heard
  BY DEF ReadRecord, server, InputAt, InputInv, TypeOK
<1>2. Head(stream) = stream[1] /\ stream[1] \in Part /\ 1 \in DOMAIN stream
  BY <1>1, TailOfStream
<1>3. h \in Nat
  BY <1>1 DEF TypeOK
<1>4. ASSUME cut
      PROVE  tok' = "stuck" /\ heard' = heard
  <2>1. tok = "stuck" \/ (tok = "mid" /\ stream[1].first)
    BY <1>1, <1>4 DEF ChannelInv, CutIsDeaf, TypeOK
  <2> QED
    BY <1>1, <1>2, <2>1 DEF Parsed
<1>5. ASSUME ~cut
      PROVE  /\ stream[1].n = h + 1 /\ h + 1 <= begun[link]
             /\ tok' = IF stream[1].last THEN "fresh" ELSE "mid"
  <2>1. stream[1].n = Due(1) /\ stream[1].n <= begun[link]
    BY <1>2, <1>5 DEF ChannelInv, Numbered
  <2>2. Due(1) = h + 1
    BY DEF Due
  <2>3. stream[1].first = (tok = "fresh") /\ tok # "stuck"
    BY <1>2, <1>5 DEF InputInv, InOrder, RecordsFollow, EndsBefore
  <2>4. stream[1].first \in BOOLEAN
    BY <1>2 DEF Part
  <2> QED
    BY <1>1, <1>2, <2>1, <2>2, <2>3, <2>4 DEF Parsed
<1>6. stream[1].last \in BOOLEAN
  BY <1>2 DEF Part
<1>7. ASSUME ~cut, stream[1].last
      PROVE  tok' = "fresh" /\ heard' = [heard EXCEPT ![link] = Append(@, <<link, h + 1>>)]
  BY <1>1, <1>2, <1>5, <1>7
<1>8. ASSUME ~cut, ~stream[1].last
      PROVE  tok' # "fresh" /\ heard' = heard
  BY <1>1, <1>5, <1>8
<1> QED
  BY <1>1, <1>3, <1>4, <1>5, <1>7, <1>8

LEMMA ChannelRead ==
    ASSUME InputInv, ChannelInv, ReadRecord, NEW h, h = Len(heard[link]),
           NEW l, l = Len(stream')
    PROVE  ChannelInv'
<1>1. /\ UNCHANGED <<link, begun, cut, peer, writing>>
      /\ stream # <<>> /\ stream \in Seq(Part) /\ h \in Nat
      /\ cut => tok' = "stuck" /\ heard' = heard
      /\ ~cut => /\ stream[1].n = h + 1 /\ h + 1 <= begun[link]
                 /\ stream[1].last => /\ tok' = "fresh"
                                      /\ heard' = [heard EXCEPT ![link] = Append(@, <<link, h + 1>>)]
                 /\ ~stream[1].last => tok' # "fresh" /\ heard' = heard
  BY ReadHears
<1>2. TypeOK /\ link \in Links /\ heard \in [Links -> Seq(Links \X (1 .. MaxMessages))]
      /\ begun[link] \in 0 .. MaxMessages
  BY DEF InputInv, TypeOK
<1>3. /\ stream' = Tail(stream) /\ l \in Nat /\ Len(stream) = l + 1
      /\ DOMAIN stream' = 1 .. l
      /\ \A i \in DOMAIN stream' : i + 1 \in DOMAIN stream /\ stream'[i] = stream[i + 1]
  <2>1. stream' = Tail(stream)
    BY DEF ReadRecord
  <2>2. /\ stream' \in Seq(Part) /\ l = Len(stream) - 1 /\ Len(stream) \in Nat
        /\ \A i \in DOMAIN stream' : i + 1 \in DOMAIN stream /\ stream'[i] = stream[i + 1]
    BY <1>1, <2>1, TailOfStream
  <2>3. Len(stream) # 0
    BY <1>1
  <2>4. l \in Nat
    BY <2>2, <2>3
  <2> QED
    BY <2>1, <2>2, <2>4
<1>4. ASSUME ~cut, stream[1].last
      PROVE  /\ Len(heard'[link]) = h + 1 /\ heard'[link][h + 1] = <<link, h + 1>>
             /\ DOMAIN heard'[link] = 1 .. h + 1
             /\ \A i \in DOMAIN heard[link] : heard'[link][i] = heard[link][i]
             /\ \A k \in Links : k # link => heard'[k] = heard[k]
  <2>1. heard[link] \in Seq(Links \X (1 .. MaxMessages))
    BY <1>2
  <2>2. <<link, h + 1>> \in Links \X (1 .. MaxMessages)
    <3>1. h + 1 \in 1 .. MaxMessages
      BY <1>1, <1>2, <1>4, Bounds
    <3> QED
      BY <1>2, <3>1
  <2>3. heard' = [heard EXCEPT ![link] = Append(heard[link], <<link, h + 1>>)]
    BY <1>1, <1>4
  <2>4. /\ heard'[link] = Append(heard[link], <<link, h + 1>>)
        /\ \A k \in Links : k # link => heard'[k] = heard[k]
    BY <1>2, <2>3
  <2>5. /\ Append(heard[link], <<link, h + 1>>) \in Seq(Links \X (1 .. MaxMessages))
        /\ Len(Append(heard[link], <<link, h + 1>>)) = h + 1
        /\ Append(heard[link], <<link, h + 1>>)[h + 1] = <<link, h + 1>>
        /\ \A i \in DOMAIN heard[link] :
               Append(heard[link], <<link, h + 1>>)[i] = heard[link][i]
    BY <2>1, <2>2, AppendToStream
  <2> QED
    BY <2>4, <2>5
<1>5. HeardInOrder'
  <2>1. CASE heard' = heard
    BY <1>1, <2>1 DEF ChannelInv, HeardInOrder
  <2>2. CASE heard' # heard
    <3>1. ~cut /\ stream[1].last
      BY <1>1, <2>2
    <3>2. ASSUME NEW k \in Links, NEW i \in DOMAIN heard'[k]
          PROVE  heard'[k][i] = <<k, i>>
      <4>1. CASE k # link
        BY <1>4, <3>1, <3>2, <4>1 DEF ChannelInv, HeardInOrder
      <4>2. CASE k = link
        <5>1. i \in 1 .. h + 1
          BY <1>4, <3>1, <3>2, <4>2
        <5>2. i = h + 1 \/ i \in DOMAIN heard[link]
          BY <1>1, <1>2, <5>1
        <5>3. CASE i = h + 1
          BY <1>4, <3>1, <4>2, <5>3
        <5>4. CASE i \in DOMAIN heard[link]
          BY <1>2, <1>4, <3>1, <4>2, <5>4 DEF ChannelInv, HeardInOrder
        <5> QED
          BY <5>2, <5>3, <5>4
      <4> QED
        BY <4>1, <4>2
    <3>3. \A k \in Links : k > link' => heard'[k] = <<>> /\ begun'[k] = 0
      <4> SUFFICES ASSUME NEW k \in Links, k > link
                   PROVE  heard'[k] = <<>> /\ begun'[k] = 0
        BY <1>1
      <4>1. k # link
        BY DEF Links
      <4> QED
        BY <1>1, <1>4, <3>1, <4>1 DEF ChannelInv, HeardInOrder
    <3> QED
      BY <3>2, <3>3 DEF HeardInOrder
  <2> QED
    BY <2>1, <2>2
<1>6. ASSUME ~cut
      PROVE  \A i \in 1 .. l + 1 : Due(i)' = Due(i + 1)
  <2> SUFFICES ASSUME NEW i \in 1 .. l + 1
               PROVE  Due(i)' = Due(i + 1)
    OBVIOUS
  <2>1. CASE i = 1
    <3>1. Due(1 + 1) = IF stream[1].last THEN h + 1 + 1 ELSE h + 1
      BY <1>1, <1>6 DEF Due
    <3>2. Due(1)' = Len(heard'[link]) + 1
      BY <1>1 DEF Due
    <3>3. CASE stream[1].last
      BY <1>4, <1>6, <2>1, <3>1, <3>2, <3>3
    <3>4. CASE ~stream[1].last
      BY <1>1, <1>6, <2>1, <3>1, <3>2, <3>4
    <3> QED
      BY <3>3, <3>4
  <2>2. CASE i # 1
    <3>1. i - 1 \in DOMAIN stream' /\ i + 1 - 1 = i /\ i + 1 # 1 /\ i - 1 + 1 = i
      BY <1>3, <2>2
    <3> QED
      BY <1>3, <2>2, <3>1 DEF Due
  <2> QED
    BY <2>1, <2>2
<1>7. Numbered'
  <2> SUFFICES ASSUME ~cut
               PROVE  Numbered'
    BY <1>1 DEF Numbered
  <2>1. Due(Len(stream) + 1)' = Due(Len(stream) + 1)
    <3>1. Due(Len(stream) + 1)' = Due(l + 1)'
      BY DEF Due
    <3>2. l + 1 \in 1 .. l + 1
      BY <1>3
    <3>3. Due(l + 1)' = Due(l + 1 + 1)
      BY <1>6, <3>2
    <3> QED
      BY <1>3, <3>1, <3>3
  <2>2. ASSUME NEW i \in DOMAIN stream'
        PROVE  stream'[i].n = Due(i)' /\ stream'[i].n <= begun'[link']
    <3>1. i \in 1 .. l + 1 /\ i + 1 \in DOMAIN stream /\ stream'[i] = stream[i + 1]
      BY <1>3, <2>2
    <3>2. Due(i)' = Due(i + 1)
      BY <1>6, <3>1
    <3> QED
      BY <1>1, <3>1, <3>2 DEF ChannelInv, Numbered
  <2>3. \A w \in Writers :
            writing'[w] # None => /\ writing'[w].n = Due(Len(stream) + 1)'
                                  /\ writing'[w].n = begun'[link']
    BY <1>1, <2>1 DEF ChannelInv, Numbered
  <2>4. peer' = "up" /\ (\A w \in Writers : writing'[w] = None) =>
            begun'[link'] = Due(Len(stream) + 1)' - 1
    BY <1>1, <2>1 DEF ChannelInv, Numbered
  <2> QED
    BY <2>2, <2>3, <2>4 DEF Numbered
<1>8. CutIsDeaf'
  BY <1>1 DEF CutIsDeaf
<1> QED
  BY <1>5, <1>7, <1>8 DEF ChannelInv

LEMMA ChannelBreaks ==
    ASSUME InputInv, ChannelInv, LinkBreaks
    PROVE  ChannelInv'
<1>1. /\ UNCHANGED <<heard, link, begun, tok, cut>> /\ peer' # "up"
      /\ \A w \in Writers : writing'[w] = None
  BY DEF LinkBreaks, client, Forgotten
<1>2. PICK k \in 0 .. Len(stream) : stream' = SubSeq(stream, 1, k)
  BY DEF LinkBreaks
<1>3. /\ Len(stream') = k /\ stream' \in Seq(Part) /\ k <= Len(stream)
      /\ \A i \in 1 .. k : stream'[i] = stream[i] /\ i \in DOMAIN stream
  BY <1>2, StartOfStream DEF InputInv, TypeOK
<1>4. HeardInOrder'
  BY <1>1 DEF ChannelInv, HeardInOrder
<1>5. Numbered'
  <2> SUFFICES ASSUME ~cut
               PROVE  Numbered'
    BY <1>1 DEF Numbered
  <2>1. ASSUME NEW i \in DOMAIN stream'
        PROVE  stream'[i].n = Due(i)' /\ stream'[i].n <= begun'[link']
    <3>1. i \in 1 .. k /\ i \in DOMAIN stream /\ stream'[i] = stream[i]
      BY <1>3
    <3>2. i # 1 => i - 1 \in 1 .. k
      BY <3>1
    <3>3. Due(i)' = Due(i)
      BY <1>1, <1>3, <3>2 DEF Due
    <3> QED
      BY <1>1, <3>1, <3>3 DEF ChannelInv, Numbered
  <2> QED
    BY <1>1, <2>1 DEF Numbered
<1>6. CutIsDeaf'
  <2> SUFFICES ASSUME cut, tok = "mid"
               PROVE  /\ stream' # <<>> => stream'[1].first
                      /\ stream' = <<>> => ~InMessage'
    BY <1>1 DEF CutIsDeaf, ChannelInv
  <2>1. ~InMessage'
    BY <1>1 DEF InMessage
  <2>2. ASSUME stream' # <<>>
        PROVE  stream'[1].first
    <3>1. 1 \in 1 .. k
      BY <1>3, <2>2
    <3>2. stream # <<>> /\ stream'[1] = stream[1]
      BY <1>3, <3>1
    <3> QED
      BY <3>2 DEF ChannelInv, CutIsDeaf
  <2> QED
    BY <2>1, <2>2
<1> QED
  BY <1>4, <1>5, <1>6 DEF ChannelInv

\* A read fails only when all that came has been read.
LEMMA ChannelFails ==
    ASSUME InputInv, ChannelInv, ReadFails
    PROVE  ChannelInv'
<1>1. /\ UNCHANGED <<heard, link, begun, tok, stream, peer, writing>>
      /\ cut' = (cut \/ tok = "mid")
  BY DEF ReadFails, server
<1>2. stream = <<>> /\ peer # "up"
  BY DEF ReadFails, InputAt, InputInv, NothingUnread
<1>3. ~InMessage'
  BY <1>1, <1>2 DEF InputInv, WriterHasMutex, InMessage
<1>4. HeardInOrder'
  BY <1>1 DEF ChannelInv, HeardInOrder
<1>5. CASE ~cut'
  <2>1. UNCHANGED <<tok, cut>>
    BY <1>1, <1>5 DEF InputInv, TypeOK
  <2> QED
    BY <1>1, <2>1, ChannelKept
<1>6. CASE cut'
  <2>1. tok' # "fresh"
    BY <1>1, <1>6 DEF ChannelInv, CutIsDeaf
  <2>2. CutIsDeaf'
    BY <1>1, <1>2, <1>3, <2>1 DEF CutIsDeaf
  <2>3. Numbered'
    BY <1>6 DEF Numbered
  <2> QED
    BY <1>4, <2>2, <2>3 DEF ChannelInv
<1> QED
  BY <1>5, <1>6 DEF InputInv, TypeOK

\* A new connection begins with nothing written, nothing on its way and nothing
\* heard.
LEMMA ChannelConnects ==
    ASSUME InputInv, ChannelInv, ConnectToServer, link' = link + 1
    PROVE  ChannelInv'
<1>1. /\ UNCHANGED <<heard, begun, tok, cut, writing>> /\ stream' = <<>>
      /\ link \in Links /\ link' \in Links /\ peer # "up"
      /\ heard'[link'] = <<>> /\ begun'[link'] = 0
  <2>1. UNCHANGED <<heard, begun, tok, cut, writing>> /\ pc = "connect"
    BY DEF ConnectToServer, server, InputAt
  <2>2. link \in Links /\ peer # "up"
    BY <2>1 DEF InputInv, TypeOK, NothingUnread
  <2>3. link # link' /\ link' \in Links /\ link' > link /\ link < MaxConns /\ stream' = <<>>
    <3>1. link # link + 1 /\ link + 1 > link
      BY <2>2 DEF Links
    <3>2. link < MaxConns /\ stream' = <<>>
      BY <3>1 DEF ConnectToServer
    <3>3. link + 1 \in Links
      BY <2>2, <3>2, Bounds DEF Links
    <3> QED
      BY <3>1, <3>2, <3>3
  <2> QED
    BY <2>1, <2>2, <2>3 DEF ChannelInv, HeardInOrder
<1>2. \A w \in Writers : writing'[w] = None
  BY <1>1 DEF InputInv, WriterHasMutex
<1>3. HeardInOrder'
  <2>1. \A k \in Links : k > link' => k > link
    BY <1>1 DEF Links
  <2> QED
    BY <1>1, <2>1 DEF ChannelInv, HeardInOrder
<1>4. Numbered'
  <2>1. Len(stream') = 0 /\ DOMAIN stream' = {}
    BY <1>1
  <2>2. Due(Len(stream) + 1)' = Len(heard'[link']) + 1
    BY <2>1 DEF Due
  <2>3. Due(Len(stream) + 1)' - 1 = 0
    BY <1>1, <2>2
  <2> QED
    BY <1>1, <1>2, <2>1, <2>3 DEF Numbered
<1>5. CutIsDeaf'
  <2>1. ~InMessage'
    BY <1>2 DEF InMessage
  <2> QED
    BY <1>1, <2>1 DEF ChannelInv, CutIsDeaf
<1> QED
  BY <1>3, <1>4, <1>5 DEF ChannelInv

LEMMA ChannelInit == Init => ChannelInv
<1> SUFFICES ASSUME Init
             PROVE  ChannelInv
  OBVIOUS
<1>1. /\ link = 1 /\ 1 \in Links /\ stream = <<>> /\ Len(stream) = 0 /\ DOMAIN stream = {}
      /\ cut = FALSE /\ \A w \in Writers : writing[w] = None
      /\ \A k \in Links : heard[k] = <<>> /\ begun[k] = 0
  BY Bounds DEF Init, Links
<1>2. HeardInOrder
  BY <1>1 DEF HeardInOrder
<1>3. Due(Len(stream) + 1) - 1 = 0
  <2>1. Due(Len(stream) + 1) = Len(heard[link]) + 1
    BY <1>1 DEF Due
  <2>2. Len(heard[link]) = 0
    BY <1>1
  <2> QED
    BY <2>1, <2>2
<1>4. Numbered /\ CutIsDeaf
  BY <1>1, <1>3 DEF Numbered, CutIsDeaf
<1> QED
  BY <1>2, <1>4 DEF ChannelInv

LEMMA ChannelNext == InputInv /\ ChannelInv /\ [Next]_vars => ChannelInv'
<1> SUFFICES ASSUME InputInv, ChannelInv, [Next]_vars
             PROVE  ChannelInv'
  OBVIOUS
<1>1. ASSUME NEW w \in Writers, BeginMessage(w)
      PROVE  ChannelInv'
  BY <1>1, ChannelBegins
<1>2. ASSUME NEW w \in Writers, WriteRecord(w)
      PROVE  ChannelInv'
  BY <1>2, ChannelWritten
<1>3. CASE ServerExits
  BY <1>3, ChannelKept DEF ServerExits, Forgotten, client
<1>4. CASE LinkBreaks
  BY <1>4, ChannelBreaks
<1>5. CASE ReadRecord
  BY <1>5, ChannelRead
<1>6. CASE ReadFails
  BY <1>6, ChannelFails
<1>7. CASE ConnectToServer
  <2>1. CASE link' = link + 1
    BY <1>7, <2>1, ChannelConnects
  <2>2. CASE link' # link + 1
    BY <1>7, <2>2, ChannelKept DEF ConnectToServer, server
  <2> QED
    BY <2>1, <2>2
<1>8. CASE ServerStarts \/ FreeContext \/ NewContext \/ Handshake \/ HandshakeFails \/ Announce
  BY <1>8, ChannelKept DEF ServerStarts, FreeContext, NewContext, Handshake,
     HandshakeFails, Announce, Send, server, client
<1>9. CASE BeginSend \/ EndSend \/ UNCHANGED vars
  BY <1>9, ChannelKept DEF BeginSend, EndSend, Send, server, client, vars
<1> QED
  BY <1>1, <1>2, <1>3, <1>4, <1>5, <1>6, <1>7, <1>8, <1>9 DEF Next, InputStep

LEMMA ChannelInvariant == Spec => [](InputInv /\ ChannelInv)
BY InputInit, InputNext, ChannelInit, ChannelNext, PTL DEF Spec

-----------------------------------------------------------------------------
\* InputThread implements RequestChannel.

LEMMA ChannelStutter ==
    ASSUME UNCHANGED <<begun, heard, link>>
    PROVE  UNCHANGED Channel!vars
BY DEF Channel!vars

\* As many messages were heard on a connection as the channel counts.
LEMMA HeardOfItself ==
    ASSUME InputInv, ChannelInv, NEW h, h = Len(heard[link])
    PROVE  Channel!OwnHandled(link) = h
<1>1. heard[link] \in Seq(Links \X (1 .. MaxMessages)) /\ link \in Links
  BY DEF InputInv, TypeOK
<1>2. h \in Nat /\ DOMAIN heard[link] = 1 .. h
  BY <1>1
<1>3. {i \in DOMAIN heard[link] : heard[link][i][1] = link} = 1 .. h
  <2>1. \A i \in DOMAIN heard[link] : heard[link][i] = <<link, i>>
    BY <1>1 DEF ChannelInv, HeardInOrder
  <2>2. \A i \in DOMAIN heard[link] : heard[link][i][1] = link
    BY <2>1
  <2> QED
    BY <1>2, <2>2
<1>4. Cardinality(1 .. h) = h
  <2>1. 1 \in Int /\ h \in Int
    BY <1>2
  <2>2. Cardinality(1 .. h) = IF 1 > h THEN 0 ELSE h - 1 + 1
    BY ONLY <2>1, FS_Interval
  <2>3. (IF 1 > h THEN 0 ELSE h - 1 + 1) = h
    BY <1>2
  <2> QED
    BY <2>2, <2>3
<1>5. Channel!OwnHandled(link)
          = Cardinality({i \in DOMAIN heard[link] : heard[link][i][1] = link})
  BY DEF Channel!OwnHandled, Channel!Cardinality, Cardinality
<1> QED
  BY <1>3, <1>4, <1>5

LEMMA ChannelStep ==
    InputInv /\ ChannelInv /\ [Next]_vars => [Channel!Next]_(Channel!vars)
<1> SUFFICES ASSUME InputInv, ChannelInv, [Next]_vars
             PROVE  [Channel!Next]_(Channel!vars)
  OBVIOUS
<1>1. link \in Links /\ Links \subseteq Nat
  BY DEF InputInv, TypeOK, Links
<1>2. ASSUME NEW w \in Writers, BeginMessage(w)
      PROVE  Channel!Next
  <2>1. begun' = [begun EXCEPT ![link] = @ + 1] /\ UNCHANGED <<heard, link>>
    BY <1>2 DEF BeginMessage, client
  <2>2. link \notin (1 .. link - 1) \cup {}
    BY <1>1
  <2>3. Channel!Send(link)
    BY <2>1, <2>2 DEF Channel!Send
  <2> QED
    BY <1>1, <2>3 DEF Channel!Next
<1>3. CASE ReadRecord
  <2>1. PICK h : h = Len(heard[link])
    OBVIOUS
  <2>2. /\ UNCHANGED <<link, begun>>
        /\ \/ heard' = heard
           \/ h < begun[link] /\ heard' = [heard EXCEPT ![link] = Append(@, <<link, h + 1>>)]
    <3>1. /\ UNCHANGED <<link, begun, cut, peer, writing>> /\ h \in Nat
          /\ cut => heard' = heard
          /\ ~cut => /\ h + 1 <= begun[link]
                     /\ stream[1].last =>
                            heard' = [heard EXCEPT ![link] = Append(@, <<link, h + 1>>)]
                     /\ ~stream[1].last => heard' = heard
      BY <1>3, <2>1, ReadHears
    <3>2. begun[link] \in Nat
      BY <1>1, Bounds DEF InputInv, TypeOK
    <3>3. h + 1 <= begun[link] => h < begun[link]
      BY <3>1, <3>2
    <3> QED
      BY <3>1, <3>3
  <2>3. CASE heard' = heard
    BY <2>2, <2>3, ChannelStutter
  <2>4. CASE heard' # heard
    <3>1. Channel!OwnHandled(link) = h
      BY <2>1, HeardOfItself
    <3>2. link \notin 1 .. link - 1
      BY <1>1
    <3>3. Channel!AnswerMayBreak
      BY DEF Channel!AnswerMayBreak
    <3>4. 1 .. link' - 1 = 1 .. link - 1
      BY <2>2
    <3>5. Channel!Handle(link)
      BY <2>2, <2>4, <3>1, <3>2, <3>3, <3>4 DEF Channel!Handle
    <3> QED
      BY <1>1, <3>5 DEF Channel!Next
  <2> QED
    BY <2>3, <2>4
<1>4. CASE ConnectToServer
  <2>1. UNCHANGED <<begun, heard>> /\ (link' = link + 1 \/ link' = link)
    BY <1>4 DEF ConnectToServer, server
  <2>2. CASE link' = link
    BY <2>1, <2>2, ChannelStutter
  <2>3. CASE link' = link + 1
    <3>1. 1 .. link' - 1 = (1 .. link - 1) \cup {link}
      <4>1. link \in Nat /\ link >= 1 /\ link' - 1 = link
        BY <1>1, <2>3 DEF Links
      <4>2. ASSUME NEW i
            PROVE  i \in 1 .. link <=> i \in (1 .. link - 1) \cup {link}
        BY <4>1
      <4> QED
        BY <4>1, <4>2
    <3>2. Channel!Close(link)
      BY <2>1, <3>1 DEF Channel!Close
    <3> QED
      BY <1>1, <3>2 DEF Channel!Next
  <2> QED
    BY <2>1, <2>2, <2>3
<1>5. ASSUME NEW w \in Writers, WriteRecord(w)
      PROVE  UNCHANGED <<begun, heard, link>>
  BY <1>5 DEF WriteRecord, client
<1>6. CASE \/ ServerExits \/ ServerStarts \/ LinkBreaks \/ ReadFails \/ FreeContext
           \/ NewContext \/ Handshake \/ HandshakeFails \/ Announce
  BY <1>6, ChannelStutter DEF ServerExits, ServerStarts, LinkBreaks, ReadFails,
     FreeContext, NewContext, Handshake, HandshakeFails, Announce, server, client
<1>7. CASE BeginSend \/ EndSend \/ UNCHANGED vars
  BY <1>7, ChannelStutter DEF BeginSend, EndSend, server, client, vars
<1> QED
  BY <1>2, <1>3, <1>4, <1>5, <1>6, <1>7, ChannelStutter DEF Next, InputStep

LEMMA ChannelInitial == Init => Channel!Init
<1> SUFFICES ASSUME Init
             PROVE  Channel!Init
  OBVIOUS
<1>1. 1 .. link - 1 = {}
  BY DEF Init
<1> QED
  BY <1>1 DEF Init, Channel!Init

\* What the server's threads write to a client is heard as the messages they wrote,
\* whatever breaks and whenever: each at most once, whole, in the order the mutex
\* was taken, and none of them on a later connection.
THEOREM InputImplementsChannel == Spec => ImplementsChannel
BY ChannelInitial, ChannelStep, ChannelInvariant, PTL
   DEF Spec, ImplementsChannel, Channel!Spec
=============================================================================
