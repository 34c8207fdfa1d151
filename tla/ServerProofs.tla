----------------------------- MODULE ServerProofs -----------------------------
(* Proofs about the server's loop and its list of client sockets.  The first   *)
(* half is about ServerLoop: its invariants and that it implements             *)
(* RequestChannel, for any number of connections, requests, reads and          *)
(* descriptors.  The second is about SocketTree: that the list stays a search  *)
(* tree through every insertion and deletion, its invariants and that it       *)
(* implements SocketRegistry, for any number of descriptors, addresses and     *)
(* threads.                                                                    *)
EXTENDS ServerLoop, SocketTree, FiniteSetTheorems, TLAPS

-----------------------------------------------------------------------------
\* Strengthening of TailHasFollower and OnlyBrokenPeersStop, for their proofs.

\* The connection the loop is at is where its pc says, and threads write only to
\* connections the loop has not dropped.
AtItsPlace ==
    /\ pc \in {"handshake", "read", "mail"} => at # None
    /\ pc = "handshake" => phase[at] = "handshake"
    /\ pc \in {"read", "mail"} => phase[at] = "open"
    /\ \A c \in sending : phase[c] = "open"

\* What keeps a tail from being the last: no record of several reads is, unless
\* there is more to come.
LongHasFollower ==
    \A c \in Conns :
        kernel[c] # <<>> /\ Last(kernel[c]).reads > 1 => c \in uploading \/ up[c] # "up"

\* The descriptors in use are those of the connections held, and at most two for
\* each mail.
Held == {c \in Conns : phase[c] \in {"handshake", "open"}}

FdsCounted ==
    /\ fds <= Cardinality(Held) + 2 * mails
    /\ Cardinality(Held) <= fds

ServerInv ==
    /\ TypeOK
    /\ AtItsPlace
    /\ LongHasFollower /\ TailHasFollower
    /\ FdsCounted /\ OnlyBrokenPeersStop

-----------------------------------------------------------------------------
\* What makes the steps of ServerLoop steps of the channel.

\* The connections whose requests are still run in turn: the rest of a reset one
\* is dropped, once the read the loop may be in has returned.
Intact(c) == phase[c] # "closed" /\ (up[c] # "reset" \/ (pc = "read" /\ at = c))

\* The number of the last request taken from the socket.
Taken(c) == Len(handled[c]) + IF tail[c] = None THEN 0 ELSE 1

\* A connection's own requests have been run, libtls holds the next, and the
\* socket those after it, up to the last one sent.
InTurn(c) ==
    /\ \A i \in DOMAIN handled[c] : handled[c][i] = <<c, i>>
    /\ tail[c] # None => tail[c].n = Taken(c)
    /\ \A i \in DOMAIN kernel[c] : kernel[c][i].n = Taken(c) + i
    /\ sent[c] = Taken(c) + Len(kernel[c])

\* What is left in the buffer is a request that was run.
InputWasRun == input # None => <<input.by, input.n>> \in ToSet(handled[input.by])

ChannelInv ==
    /\ \A c \in Conns : Intact(c) => InTurn(c)
    /\ InputWasRun

-----------------------------------------------------------------------------

LEMMA ServerBounds ==
    /\ MaxSent \in [Conns -> Nat] /\ MaxReads \in Nat \ {0} /\ MaxFds \in Nat \ {0}
    /\ IsFiniteSet(Conns) /\ Cardinality(Conns) \in Nat /\ MaxFds > Cardinality(Conns)
    /\ None \notin Conns /\ None \notin Request
BY ServerLoopAssumption, FS_CardinalityType

\* Sequences of records.

LEMMA TailOfRecords ==
    ASSUME NEW s \in Seq(Record), s # <<>>
    PROVE  /\ Head(s) \in Record /\ Head(s) = s[1]
           /\ Tail(s) \in Seq(Record)
           /\ Tail(s) # <<>> => Last(Tail(s)) = Last(s)
           /\ Tail(s) = <<>> => Head(s) = Last(s)
<1>1. Tail(s) \in Seq(Record) /\ Len(Tail(s)) = Len(s) - 1 /\ Len(s) \in Nat \ {0}
  OBVIOUS
<1>2. ASSUME Tail(s) # <<>>
      PROVE  Last(Tail(s)) = Last(s)
  <2>1. Len(s) - 1 \in 1 .. Len(Tail(s))
    BY <1>1, <1>2
  <2>2. Tail(s)[Len(s) - 1] = s[Len(s) - 1 + 1] /\ Len(s) - 1 + 1 = Len(s)
    BY <1>1, <2>1
  <2> QED
    BY <1>1, <2>2 DEF Last
<1>3. ASSUME Tail(s) = <<>>
      PROVE  Head(s) = Last(s)
  <2>1. Len(s) = 1
    BY <1>1, <1>3
  <2> QED
    BY <2>1 DEF Last
<1> QED
  BY <1>1, <1>2, <1>3

LEMMA AppendToRecords ==
    ASSUME NEW s \in Seq(Record), NEW e \in Record
    PROVE  Append(s, e) \in Seq(Record) /\ Append(s, e) # <<>> /\ Last(Append(s, e)) = e
<1>1. Len(Append(s, e)) = Len(s) + 1 /\ Append(s, e)[Len(s) + 1] = e
  OBVIOUS
<1> QED
  BY <1>1 DEF Last

-----------------------------------------------------------------------------
\* What a handler does, whichever request it runs and whatever is still unread.

LEMMA RunEffect ==
    ASSUME ServerInv, NEW c \in Conns, NEW by \in Conns, NEW n \in Nat,
           NEW type \in Types, NEW rest, RunRequest(c, by, n, type, rest)
    PROVE  /\ handled' \in [Conns -> Seq(Conns \X Nat)]
           /\ up' \in [Conns -> {"up", "fin", "reset"}]
           /\ \A d \in Conns : up[d] # "up" => up'[d] # "up"
           /\ kernel' = rest
           /\ sending' \in {sending, sending \cup {c}}
           /\ UNCHANGED <<phase, uploading, sent, fds, mails>>
           /\ \/ pc' = "poll" /\ at' = None
              \/ pc' = "mail" /\ at' = c
              \/ /\ pc' = "stopped" /\ at' = None
                 /\ \E d \in Conns : (phase[d] = "open" \/ d = c) /\ up[d] = "reset"
<1>1. PICK who \in Answered(c, type) :
        LET gone == {d \in who : up[d] = "fin"}
            lost == \E d \in who : up[d] = "reset"
        IN  /\ handled' = [handled EXCEPT ![c] = Append(@, <<by, n>>)]
            /\ up' = [d \in Conns |-> IF d \in gone THEN "reset" ELSE up[d]]
            /\ kernel' = rest
            /\ sending' = IF type = "GET" THEN sending \cup {c} ELSE sending
            /\ \/ pc' = "poll" /\ at' = None
               \/ type = "AUTH" /\ pc' = "mail" /\ at' = c
               \/ lost /\ pc' = "stopped" /\ at' = None
            /\ UNCHANGED <<phase, uploading, sent, fds, mails>>
  BY Zenon DEF RunRequest
<1>2. \A d \in who : d \in Conns /\ (phase[d] = "open" \/ d = c)
  BY DEF Answered, Types
<1>3. handled' \in [Conns -> Seq(Conns \X Nat)]
  <2>1. handled \in [Conns -> Seq(Conns \X Nat)] /\ <<by, n>> \in Conns \X Nat
    BY DEF ServerInv, TypeOK
  <2>2. Append(handled[c], <<by, n>>) \in Seq(Conns \X Nat)
    BY <2>1
  <2> QED
    BY <1>1, <2>1, <2>2
<1>4. up' \in [Conns -> {"up", "fin", "reset"}] /\ \A d \in Conns : up[d] # "up" => up'[d] # "up"
  BY <1>1 DEF ServerInv, TypeOK
<1> QED
  BY <1>1, <1>2, <1>3, <1>4

\* What a read leaves of the socket's buffer.
LEMMA ReadEffect ==
    ASSUME ServerInv, pc = "read", Readable1024
    PROVE  /\ at \in Conns /\ phase[at] = "open"
           /\ Unread \in Request
           /\ Rest \in [Conns -> Seq(Record)]
           /\ \A c \in Conns : Rest[c] # <<>> => /\ kernel[c] # <<>>
                                                 /\ Last(Rest[c]) = Last(kernel[c])
           /\ \A c \in Conns : c # at => Rest[c] = kernel[c]
           /\ Rest[at] = <<>> /\ tail[at] # None => kernel[at] = <<>>
           /\ Rest[at] = <<>> /\ tail[at] = None =>
                kernel[at] # <<>> /\ Last(kernel[at]).reads = Unread.reads
<1>1. at \in Conns /\ phase[at] = "open" /\ kernel \in [Conns -> Seq(Record)]
      /\ tail \in [Conns -> Request \cup {None}]
  BY ServerBounds DEF ServerInv, TypeOK, AtItsPlace
<1>2. CASE tail[at] # None
  BY <1>1, <1>2 DEF Unread, Rest
<1>3. CASE tail[at] = None
  <2>1. kernel[at] \in Seq(Record) /\ kernel[at] # <<>>
    BY <1>1, <1>3 DEF Readable1024
  <2>2. /\ Head(kernel[at]) \in Record /\ Tail(kernel[at]) \in Seq(Record)
        /\ Tail(kernel[at]) # <<>> => Last(Tail(kernel[at])) = Last(kernel[at])
        /\ Tail(kernel[at]) = <<>> => Head(kernel[at]) = Last(kernel[at])
    BY <2>1, TailOfRecords
  <2>3. Rest = [kernel EXCEPT ![at] = Tail(kernel[at])]
    BY <1>1, <1>3 DEF Rest
  <2>4. Unread \in Request /\ Unread.reads = Head(kernel[at]).reads
    BY <1>3, <2>2 DEF Unread, Request, Record
  <2> QED
    BY <1>1, <1>3, <2>1, <2>2, <2>3, <2>4
<1> QED
  BY <1>2, <1>3

\* What the clients do to the socket's buffers.
LEMMA WriteEffect ==
    ASSUME ServerInv, NEW c \in Conns, NEW type \in Types, NEW reads \in 1 .. MaxReads,
           Write(c, type, reads)
    PROVE  /\ up[c] = "up" /\ phase[c] = "open"
           /\ kernel' \in [Conns -> Seq(Record)]
           /\ sent' \in [Conns -> Nat] /\ \A d \in Conns : sent'[d] <= MaxSent[d]
           /\ kernel'[c] # <<>> /\ Last(kernel'[c]).reads = reads
           /\ \A d \in Conns : d # c => kernel'[d] = kernel[d]
           /\ UNCHANGED <<phase, up, tail, handled, sending, pc, at, input, fds, mails>>
<1>1. PICK arrived \in BOOLEAN :
           kernel' = [kernel EXCEPT ![c] = Append(@,
               [n |-> sent[c] + 1, type |-> type, reads |-> reads, arrived |-> arrived])]
  BY DEF Write
<1>2. [n |-> sent[c] + 1, type |-> type, reads |-> reads, arrived |-> arrived] \in Record
  BY DEF Record, ServerInv, TypeOK
<1>3. kernel \in [Conns -> Seq(Record)]
  BY DEF ServerInv, TypeOK
<1>4. sent' \in [Conns -> Nat] /\ \A d \in Conns : sent'[d] <= MaxSent[d]
  <2>1. sent \in [Conns -> Nat] /\ \A d \in Conns : sent[d] <= MaxSent[d]
    BY DEF ServerInv, TypeOK
  <2>2. sent' = [sent EXCEPT ![c] = @ + 1] /\ sent[c] < MaxSent[c]
    BY DEF Write
  <2>3. sent[c] \in Nat /\ MaxSent[c] \in Nat
    BY <2>1, ServerBounds
  <2>4. sent[c] + 1 \in Nat /\ sent[c] + 1 <= MaxSent[c]
    BY <2>2, <2>3
  <2> QED
    BY <2>1, <2>2, <2>4
<1> QED
  BY <1>1, <1>2, <1>3, <1>4, AppendToRecords DEF Write

LEMMA ArriveEffect ==
    ASSUME ServerInv, NEW c \in Conns, Arrive(c)
    PROVE  /\ kernel' \in [Conns -> Seq(Record)]
           /\ \A d \in Conns : kernel'[d] # <<>> =>
                kernel[d] # <<>> /\ Last(kernel'[d]).reads = Last(kernel[d]).reads
           /\ \A d \in Conns : kernel'[d] = <<>> => kernel[d] = <<>>
           /\ UNCHANGED <<phase, up, uploading, sent, tail, handled, sending, pc, at,
                          input, fds, mails>>
<1> DEFINE s == kernel[c]
           r == [s[Len(s)] EXCEPT !.arrived = TRUE]
           t == [s EXCEPT ![Len(s)] = r]
<1>1. s \in Seq(Record) /\ s # <<>> /\ kernel \in [Conns -> Seq(Record)]
  BY DEF Arrive, ServerInv, TypeOK
<1>2. kernel' = [kernel EXCEPT ![c] = t]
  BY DEF Arrive
<1>3. Len(s) \in DOMAIN s /\ s[Len(s)] \in Record
  BY <1>1
<1>4. r \in Record /\ r.reads = s[Len(s)].reads
  BY <1>3 DEF Record
<1>5. t \in Seq(Record) /\ Len(t) = Len(s) /\ t[Len(s)] = r
  BY <1>1, <1>3, <1>4
<1>6. t # <<>> /\ Last(t).reads = Last(s).reads
  BY <1>1, <1>4, <1>5 DEF Last
<1>7. kernel'[c] = t /\ \A d \in Conns : d # c => kernel'[d] = kernel[d]
  BY <1>1, <1>2
<1>8. kernel' \in [Conns -> Seq(Record)]
  BY <1>1, <1>2, <1>5
<1> HIDE DEF t, r
<1> QED
  BY <1>1, <1>6, <1>7, <1>8 DEF Arrive

-----------------------------------------------------------------------------
\* Descriptors.

LEMMA HeldFinite ==
    ASSUME NEW S, S \subseteq Conns
    PROVE  IsFiniteSet(S) /\ Cardinality(S) \in Nat /\ Cardinality(S) <= Cardinality(Conns)
BY ServerBounds, FS_Subset, FS_CardinalityType

\* A connection in the backlog is not held: there is room for it in the count.
LEMMA HeldBeside ==
    ASSUME NEW c \in Conns, phase[c] \notin {"handshake", "open"}
    PROVE  Cardinality(Held) < Cardinality(Conns)
<1>1. Held \subseteq Conns \ {c}
  BY DEF Held
<1>2. Cardinality(Conns \ {c}) = Cardinality(Conns) - 1 /\ IsFiniteSet(Conns \ {c})
  BY ServerBounds, FS_RemoveElement
<1>3. Cardinality(Held) <= Cardinality(Conns \ {c}) /\ Cardinality(Held) \in Nat
  BY <1>1, <1>2, FS_Subset, FS_CardinalityType
<1> QED
  BY <1>2, <1>3, ServerBounds

LEMMA FdsStep ==
    ASSUME ServerInv, [Next]_vars
    PROVE  FdsCounted'
<1> USE DEF ServerInv, FdsCounted
<1>1. ASSUME Held' = Held, UNCHANGED <<fds, mails>>
      PROVE  FdsCounted'
  BY <1>1
<1>2. fds \in Nat /\ mails \in Nat /\ Cardinality(Held) \in Nat /\ IsFiniteSet(Held)
  BY HeldFinite, ServerBounds DEF TypeOK, Held
<1>3. ASSUME NEW c \in Conns, Accept(c)
      PROVE  FdsCounted'
  <2>1. CASE fds < MaxFds /\ fds' = fds + 1 /\ phase' = [phase EXCEPT ![c] = "handshake"]
    <3>1. Held' = Held \cup {c} /\ c \notin Held
      BY <1>3, <2>1 DEF Accept, Held, TypeOK
    <3>2. Cardinality(Held') = Cardinality(Held) + 1
      BY <1>2, <3>1, FS_AddElement
    <3>3. mails' = mails
      BY <1>3 DEF Accept
    <3> QED
      BY <1>2, <2>1, <3>2, <3>3
  <2>2. CASE UNCHANGED <<phase, fds>>
    BY <1>1, <1>3, <2>2 DEF Accept, Held
  <2> QED
    BY <1>3, <2>1, <2>2 DEF Accept
<1>4. ASSUME NEW c \in Conns, EofEvent(c)
      PROVE  FdsCounted'
  <2>1. Held' = Held \ {c} /\ c \in Held
    BY <1>4 DEF EofEvent, Held, TypeOK
  <2>2. Cardinality(Held') = Cardinality(Held) - 1
    BY <1>2, <2>1, FS_RemoveElement
  <2>3. fds' = fds - 1 /\ mails' = mails
    BY <1>4 DEF EofEvent, Closing
  <2> QED
    BY <1>2, <2>2, <2>3
<1>5. ASSUME NEW n \in {1, 2}, MailLoses(n)
      PROVE  FdsCounted'
  <2>1. Held' = Held /\ fds' = fds + n /\ mails' = mails + 1
    BY <1>5 DEF MailLoses, clients, Held
  <2> QED
    BY <1>2, <1>5, <2>1
<1>6. CASE Read
  <2>1. UNCHANGED <<phase, fds, mails>>
    BY <1>6 DEF Read, ReadPart, ReadRequest, ReadNothing, ReadFailed, RunRequest, clients
  <2> QED
    BY <1>1, <2>1 DEF Held
<1>7. CASE Handshake
  <2>1. phase[at] = "handshake" /\ phase' = [phase EXCEPT ![at] = "open"]
    BY <1>7 DEF Handshake, AtItsPlace
  <2> QED
    BY <1>1, <1>7, <2>1 DEF Handshake, Held, TypeOK
<1>8. CASE HandshakeFails \/ MailNotSent \/ UNCHANGED vars
  BY <1>1, <1>8 DEF HandshakeFails, MailNotSent, clients, Held, vars
<1>9. ASSUME NEW c \in Conns, ClientStep(c) \/ ReadEvent(c) \/ SendingThread(c)
      PROVE  FdsCounted'
  <2>1. UNCHANGED <<fds, mails>>
    BY <1>9 DEF ClientStep, Connect, SendRequest, SendPiece, SendEmpty, Write, Arrive,
       Leave, Reset, ReadEvent, SendingThread
  <2>2. CASE Connect(c)
    BY <1>1, <2>1, <2>2 DEF Connect, Held, TypeOK
  <2>3. CASE ~Connect(c)
    <3>1. phase' = phase
      BY <1>9, <2>3 DEF ClientStep, SendRequest, SendPiece, SendEmpty, Write, Arrive,
         Leave, Reset, ReadEvent, SendingThread, clients
    <3> QED
      BY <1>1, <2>1, <3>1 DEF Held
  <2> QED
    BY <2>2, <2>3
<1> QED
  BY <1>3, <1>4, <1>5, <1>6, <1>7, <1>8, <1>9 DEF Next, Event, Mail, MailSent, MailBreaksOff

-----------------------------------------------------------------------------
\* The steps of the others leave the loop alone: what a client or a sending
\* thread may change.

LEMMA ClientEffect ==
    ASSUME ServerInv, NEW c \in Conns, ClientStep(c)
    PROVE  /\ UNCHANGED <<tail, handled, sending, pc, at, input, fds, mails>>
           /\ phase' \in [Conns -> {"off", "backlog", "handshake", "open", "closed"}]
           /\ \A d \in Conns : phase[d] # "off" => phase'[d] = phase[d]
           /\ \A d \in Conns : phase'[d] = "closed" => phase[d] = "closed"
           /\ up' \in [Conns -> {"up", "fin", "reset"}]
           /\ \A d \in Conns : up[d] # "up" => up'[d] # "up"
           /\ kernel' \in [Conns -> Seq(Record)]
           /\ \A d \in Conns : kernel'[d] = <<>> => kernel[d] = <<>> /\
                                    (d \in uploading => d \in uploading')
           /\ \A d \in Conns :
                \/ kernel'[d] # <<>> =>
                     /\ kernel[d] # <<>> /\ Last(kernel'[d]).reads = Last(kernel[d]).reads
                     /\ d \in uploading => d \in uploading'
                \/ Last(kernel'[d]).reads > 1 => d \in uploading'
           /\ uploading' \subseteq Conns
           /\ sent' \in [Conns -> Nat] /\ \A d \in Conns : sent'[d] <= MaxSent[d]
<1>0. TypeOK
  BY DEF ServerInv
<1>1. CASE Connect(c)
  BY <1>0, <1>1 DEF Connect, TypeOK
<1>2. CASE SendRequest(c)
  <2>1. PICK type \in Types : Write(c, type, 1)
    BY <1>2 DEF SendRequest, Types
  <2>2. 1 \in 1 .. MaxReads
    BY ServerBounds
  <2>3. uploading' = uploading
    BY <1>2 DEF SendRequest
  <2>4. /\ kernel'[c] # <<>> /\ Last(kernel'[c]).reads = 1
        /\ \A d \in Conns : d # c => kernel'[d] = kernel[d]
        /\ kernel' \in [Conns -> Seq(Record)]
        /\ sent' \in [Conns -> Nat] /\ \A d \in Conns : sent'[d] <= MaxSent[d]
        /\ UNCHANGED <<phase, up, tail, handled, sending, pc, at, input, fds, mails>>
    BY <2>1, <2>2, WriteEffect
  <2>5. \A d \in Conns \ {c} : kernel'[d] # <<>> =>
            /\ kernel[d] # <<>> /\ Last(kernel'[d]).reads = Last(kernel[d]).reads
            /\ d \in uploading => d \in uploading'
    BY <2>3, <2>4
  <2>6. ~(Last(kernel'[c]).reads > 1)
    BY <2>4
  <2> QED
    BY <1>0, <2>3, <2>4, <2>5, <2>6 DEF TypeOK
<1>3. CASE SendPiece(c)
  <2>1. PICK reads \in 1 .. MaxReads : Write(c, "FILE", reads)
    BY <1>3 DEF SendPiece
  <2>2. uploading' = uploading \cup {c} /\ "FILE" \in Types
    BY <1>3 DEF SendPiece, Types
  <2> QED
    BY <1>0, <2>1, <2>2, WriteEffect DEF TypeOK
<1>4. CASE SendEmpty(c)
  <2>1. Write(c, "EMPTY", 1) /\ "EMPTY" \in Types /\ 1 \in 1 .. MaxReads
    BY <1>4, ServerBounds DEF SendEmpty, Types
  <2>2. uploading' = uploading \ {c}
    BY <1>4 DEF SendEmpty
  <2>3. /\ kernel'[c] # <<>> /\ Last(kernel'[c]).reads = 1
        /\ \A d \in Conns : d # c => kernel'[d] = kernel[d]
        /\ kernel' \in [Conns -> Seq(Record)]
        /\ sent' \in [Conns -> Nat] /\ \A d \in Conns : sent'[d] <= MaxSent[d]
        /\ UNCHANGED <<phase, up, tail, handled, sending, pc, at, input, fds, mails>>
    BY <2>1, WriteEffect
  <2>4. \A d \in Conns \ {c} : kernel'[d] # <<>> =>
            /\ kernel[d] # <<>> /\ Last(kernel'[d]).reads = Last(kernel[d]).reads
            /\ d \in uploading => d \in uploading'
    BY <2>2, <2>3
  <2>5. ~(Last(kernel'[c]).reads > 1)
    BY <2>3
  <2> QED
    BY <1>0, <2>2, <2>3, <2>4, <2>5 DEF TypeOK
<1>5. CASE Arrive(c)
  BY <1>0, <1>5, ArriveEffect DEF TypeOK
<1>6. CASE Leave(c)
  BY <1>0, <1>6 DEF Leave, TypeOK
<1>7. CASE Reset(c)
  BY <1>0, <1>7 DEF Reset, TypeOK
<1> QED
  BY <1>1, <1>2, <1>3, <1>4, <1>5, <1>6, <1>7 DEF ClientStep

LEMMA SenderEffect ==
    ASSUME ServerInv, NEW c \in Conns, SendingThread(c)
    PROVE  /\ UNCHANGED <<phase, kernel, uploading, sent, tail, handled, input, fds, mails>>
           /\ up' \in [Conns -> {"up", "fin", "reset"}]
           /\ \A d \in Conns : up[d] # "up" => up'[d] # "up"
           /\ sending' \subseteq sending
           /\ \/ UNCHANGED <<pc, at>>
              \/ pc' = "stopped" /\ at' = None /\ up' = up /\ up[c] = "reset"
<1>1. TypeOK
  BY DEF ServerInv
<1>2. up' = up \/ up' = [up EXCEPT ![c] = "reset"]
  BY DEF SendingThread
<1>3. up' \in [Conns -> {"up", "fin", "reset"}] /\ \A d \in Conns : up[d] # "up" => up'[d] # "up"
  BY <1>1, <1>2 DEF TypeOK
<1> QED
  BY <1>3 DEF SendingThread

-----------------------------------------------------------------------------
\* The loop's own steps, but for those that read.

LEMMA LoopTypes ==
    ASSUME ServerInv,
           \/ \E c \in Conns : Event(c)
           \/ Handshake \/ HandshakeFails \/ Mail
    PROVE  TypeOK'
<1> USE DEF ServerInv, TypeOK, clients
<1>1. ASSUME NEW c \in Conns, Accept(c)
      PROVE  TypeOK'
  <2>1. fds' \in 0 .. MaxFds
    BY <1>1, ServerBounds DEF Accept
  <2>2. phase' \in [Conns -> {"off", "backlog", "handshake", "open", "closed"}]
    BY <1>1 DEF Accept
  <2> QED
    BY <1>1, <2>1, <2>2 DEF Accept
<1>2. ASSUME NEW c \in Conns, ReadEvent(c)
      PROVE  TypeOK'
  BY <1>2 DEF ReadEvent
<1>3. ASSUME NEW c \in Conns, EofEvent(c)
      PROVE  TypeOK'
  <2>1. c \in Held
    BY <1>3 DEF EofEvent, Held
  <2>2. Cardinality(Held) \in Nat /\ Cardinality(Held) # 0
    BY <2>1, HeldFinite, FS_EmptySet DEF Held
  <2>3. fds' \in 0 .. MaxFds
    BY <1>3, <2>2, ServerBounds DEF EofEvent, Closing, FdsCounted
  <2>4. <<>> \in Seq(Record)
    OBVIOUS
  <2> QED
    BY <1>3, <2>3, <2>4 DEF EofEvent
<1>4. CASE Handshake
  BY <1>4, ServerBounds DEF Handshake
<1>5. CASE HandshakeFails
  BY <1>5 DEF HandshakeFails
<1>6. CASE MailNotSent
  BY <1>6 DEF MailNotSent
<1>7. ASSUME NEW n \in {1, 2}, fds + n <= MaxFds, MailLoses(n)
      PROVE  TypeOK'
  <2>1. fds' \in 0 .. MaxFds /\ mails' \in Nat
    BY <1>7, ServerBounds DEF MailLoses
  <2> QED
    BY <1>7, <2>1 DEF MailLoses
<1>8. fds + 2 <= MaxFds => fds + 1 <= MaxFds
  BY ServerBounds
<1> QED
  BY <1>1, <1>2, <1>3, <1>4, <1>5, <1>6, <1>7, <1>8 DEF Event, Mail, MailSent, MailBreaksOff

LEMMA LoopPlace ==
    ASSUME ServerInv,
           \/ \E c \in Conns : Event(c)
           \/ Handshake \/ HandshakeFails \/ Mail
    PROVE  AtItsPlace'
<1> USE DEF ServerInv, TypeOK, AtItsPlace, clients
<1>1. ASSUME NEW c \in Conns, Accept(c)
      PROVE  AtItsPlace'
  <2>1. c # None /\ \A d \in sending : d \in Conns /\ d # c
    BY <1>1, ServerBounds DEF Accept
  <2> QED
    BY <1>1, <2>1 DEF Accept
<1>2. ASSUME NEW c \in Conns, ReadEvent(c)
      PROVE  AtItsPlace'
  BY <1>2, ServerBounds DEF ReadEvent, Readable
<1>3. ASSUME NEW c \in Conns, EofEvent(c)
      PROVE  AtItsPlace'
  BY <1>3 DEF EofEvent
<1>4. CASE Handshake
  BY <1>4 DEF Handshake
<1>5. CASE HandshakeFails \/ MailNotSent
  BY <1>5 DEF HandshakeFails, MailNotSent
<1>6. ASSUME NEW n \in {1, 2}, MailLoses(n)
      PROVE  AtItsPlace'
  BY <1>6 DEF MailLoses
<1> QED
  BY <1>1, <1>2, <1>3, <1>4, <1>5, <1>6 DEF Event, Mail, MailSent, MailBreaksOff

\* None of them reads, and only dropping a connection touches its buffers.
LEMMA LoopBuffers ==
    ASSUME ServerInv,
           \/ \E c \in Conns : Event(c)
           \/ Handshake \/ HandshakeFails \/ Mail
    PROVE  LongHasFollower' /\ TailHasFollower'
<1> USE DEF LongHasFollower, TailHasFollower
<1>1. CASE UNCHANGED <<tail, kernel, uploading, up>>
  BY <1>1 DEF ServerInv
<1>2. ASSUME NEW c \in Conns, EofEvent(c)
      PROVE  LongHasFollower' /\ TailHasFollower'
  BY <1>2 DEF EofEvent, ServerInv, TypeOK
<1> QED
  BY <1>1, <1>2 DEF Event, Accept, ReadEvent, Handshake, HandshakeFails, Mail, MailSent,
     MailBreaksOff, MailNotSent, MailLoses, clients

LEMMA LoopStops ==
    ASSUME ServerInv,
           \/ \E c \in Conns : Event(c)
           \/ Handshake \/ HandshakeFails \/ Mail
    PROVE  OnlyBrokenPeersStop'
<1> USE DEF ServerInv, OnlyBrokenPeersStop
<1>1. ASSUME NEW c \in Conns, Accept(c)
      PROVE  OnlyBrokenPeersStop'
  <2>1. CASE pc' # "stopped"
    BY <2>1
  <2>2. CASE pc' = "stopped"
    <3>1. fds = MaxFds /\ mails' = mails /\ phase[c] = "backlog"
      BY <1>1, <2>2 DEF Accept
    <3>2. Cardinality(Held) < Cardinality(Conns) /\ Cardinality(Held) \in Nat
      BY <3>1, HeldBeside, HeldFinite DEF Held
    <3>3. fds <= Cardinality(Held) + 2 * mails /\ fds \in Nat /\ mails \in Nat
      BY ServerBounds DEF FdsCounted, TypeOK
    <3>4. 2 * mails + Cardinality(Conns) > MaxFds
      BY <3>1, <3>2, <3>3, ServerBounds
    <3> QED
      BY <3>1, <3>4
  <2> QED
    BY <2>1, <2>2
<1>2. CASE HandshakeFails
  <2>1. at \in Conns /\ phase[at] = "handshake" /\ up[at] # "up"
    BY <1>2 DEF HandshakeFails, AtItsPlace, TypeOK
  <2> QED
    BY <1>2, <2>1 DEF HandshakeFails, clients
<1>3. ASSUME NEW c \in Conns, ReadEvent(c) \/ EofEvent(c)
      PROVE  OnlyBrokenPeersStop'
  BY <1>3 DEF ReadEvent, EofEvent
<1>4. CASE Handshake \/ Mail
  BY <1>4 DEF Handshake, Mail, MailSent, MailBreaksOff, MailLoses, MailNotSent
<1> QED
  BY <1>1, <1>2, <1>3, <1>4 DEF Event

-----------------------------------------------------------------------------
\* The steps that read.

\* A read that runs no request.
LEMMA QuietRead ==
    ASSUME ServerInv, ReadPart \/ ReadNothing \/ (ReadFailed /\ pc' = "poll" /\ clients' = clients
                                                  /\ UNCHANGED <<handled, sending, fds, mails>>)
    PROVE  /\ pc' = "poll" /\ at' = None
           /\ UNCHANGED <<phase, up, uploading, sent, handled, sending, fds, mails>>
           /\ TypeOK' /\ LongHasFollower' /\ TailHasFollower'
<1> USE DEF ServerInv
<1>1. CASE UNCHANGED <<tail, kernel, input>> /\ (ReadNothing \/ ReadFailed) /\ pc' = "poll"
           /\ clients' = clients /\ UNCHANGED <<handled, sending, fds, mails>>
  <2>1. at' = None
    BY <1>1, ServerBounds DEF ReadNothing, ReadFailed, RunRequest, TypeOK
  <2> QED
    BY <1>1, <2>1 DEF clients, TypeOK, LongHasFollower, TailHasFollower
<1>2. CASE ReadPart
  <2>1. /\ pc' = "poll" /\ at' = None /\ input' = None /\ kernel' = Rest
        /\ UNCHANGED <<phase, up, uploading, sent, handled, sending, fds, mails>>
        /\ tail' = [tail EXCEPT ![at] = [Unread EXCEPT !.reads = @ - 1]]
        /\ Unread.reads > 1
    BY <1>2 DEF ReadPart
  <2>2. /\ at \in Conns /\ Unread \in Request /\ Rest \in [Conns -> Seq(Record)]
        /\ \A c \in Conns : Rest[c] # <<>> => /\ kernel[c] # <<>>
                                              /\ Last(Rest[c]) = Last(kernel[c])
        /\ \A c \in Conns : c # at => Rest[c] = kernel[c]
        /\ Rest[at] = <<>> /\ tail[at] # None => kernel[at] = <<>>
        /\ Rest[at] = <<>> /\ tail[at] = None =>
                kernel[at] # <<>> /\ Last(kernel[at]).reads = Unread.reads
    BY <1>2, ReadEffect DEF ReadPart
  <2>3. [Unread EXCEPT !.reads = @ - 1] \in Request
    <3>1. Unread.reads - 1 \in 1 .. MaxReads
      BY <2>1, <2>2, ServerBounds DEF Request
    <3> QED
      BY <2>2, <3>1 DEF Request
  <2>4. TypeOK'
    BY <2>1, <2>2, <2>3 DEF TypeOK
  <2>5. LongHasFollower'
    BY <2>1, <2>2 DEF LongHasFollower
  <2>6. TailHasFollower'
    <3>1. \A c \in Conns : c # at => tail'[c] = tail[c] /\ kernel'[c] = kernel[c]
      BY <2>1, <2>2 DEF TypeOK
    <3>2. kernel'[at] = <<>> => at \in uploading \/ up[at] # "up"
      BY <2>1, <2>2 DEF LongHasFollower, TailHasFollower
    <3> QED
      BY <2>1, <3>1, <3>2 DEF TailHasFollower
  <2> QED
    BY <2>1, <2>4, <2>5, <2>6
<1>3. CASE ReadNothing
  BY <1>1, <1>3 DEF ReadNothing, clients
<1>4. CASE ReadFailed /\ pc' = "poll" /\ clients' = clients
           /\ UNCHANGED <<handled, sending, fds, mails>>
  BY <1>1, <1>4 DEF ReadFailed, clients
<1> QED
  BY <1>2, <1>3, <1>4

\* A read that runs one: a whole request, or what input still has.
LEMMA RunningRead ==
    ASSUME ServerInv, NEW by \in Conns, NEW n \in Nat, NEW type \in Types, NEW rest,
           rest \in [Conns -> Seq(Record)],
           \A c \in Conns : rest[c] # <<>> => kernel[c] # <<>> /\ Last(rest[c]) = Last(kernel[c]),
           \A c \in Conns : c # at => rest[c] = kernel[c],
           at \in Conns, phase[at] = "open",
           tail' \in [Conns -> Request \cup {None}],
           \A c \in Conns : c # at => tail'[c] = tail[c],
           tail'[at] # None => tail'[at] = tail[at] /\ rest[at] = kernel[at],
           input' \in Residue \cup {None},
           RunRequest(at, by, n, type, rest)
    PROVE  ServerInv'
<1> USE DEF ServerInv
<1>1. /\ handled' \in [Conns -> Seq(Conns \X Nat)]
      /\ up' \in [Conns -> {"up", "fin", "reset"}]
      /\ \A d \in Conns : up[d] # "up" => up'[d] # "up"
      /\ kernel' = rest
      /\ sending' \in {sending, sending \cup {at}}
      /\ UNCHANGED <<phase, uploading, sent, fds, mails>>
      /\ \/ pc' = "poll" /\ at' = None
         \/ pc' = "mail" /\ at' = at
         \/ /\ pc' = "stopped" /\ at' = None
            /\ \E d \in Conns : (phase[d] = "open" \/ d = at) /\ up[d] = "reset"
  BY RunEffect
<1>2. TypeOK'
  BY <1>1 DEF TypeOK
<1>3. AtItsPlace'
  BY <1>1, ServerBounds DEF AtItsPlace, TypeOK
<1>4. LongHasFollower'
  BY <1>1 DEF LongHasFollower, TypeOK
<1>5. TailHasFollower'
  <2>0. kernel' = rest
    BY <1>1
  <2>1. \A c \in Conns : c # at => tail'[c] = tail[c] /\ kernel'[c] = kernel[c]
    BY <2>0
  <2>2. tail'[at] # None => tail'[at] = tail[at] /\ kernel'[at] = kernel[at]
    BY <2>0
  <2> QED
    BY <1>1, <2>1, <2>2 DEF TailHasFollower
<1>6. FdsCounted'
  BY <1>1 DEF FdsCounted, Held
<1>7. OnlyBrokenPeersStop'
  <2>1. CASE pc' # "stopped"
    BY <2>1 DEF OnlyBrokenPeersStop
  <2>2. CASE pc' = "stopped"
    <3>1. PICK d \in Conns : phase[d] = "open" /\ up[d] = "reset"
      BY <1>1, <2>2, ServerBounds
    <3>2. phase'[d] # "closed" /\ up'[d] # "up"
      BY <1>1, <3>1
    <3> QED
      BY <3>2 DEF OnlyBrokenPeersStop
  <2> QED
    BY <2>1, <2>2
<1> QED
  BY <1>2, <1>3, <1>4, <1>5, <1>6, <1>7

LEMMA ReadStep ==
    ASSUME ServerInv, Read
    PROVE  ServerInv'
<1>1. at \in Conns /\ phase[at] = "open" /\ pc = "read" /\ TypeOK
  BY ServerBounds DEF Read, ReadPart, ReadRequest, ReadNothing, ReadFailed, ServerInv, TypeOK,
     AtItsPlace
<1>2. ASSUME /\ pc' = "poll" /\ at' = None
             /\ UNCHANGED <<phase, up, uploading, sent, handled, sending, fds, mails>>
             /\ TypeOK' /\ LongHasFollower' /\ TailHasFollower'
      PROVE  ServerInv'
  BY <1>2 DEF ServerInv, AtItsPlace, FdsCounted, Held, OnlyBrokenPeersStop
<1>3. CASE ReadPart \/ ReadNothing
  BY <1>2, <1>3, QuietRead
<1>4. CASE ReadRequest
  <2>1. Unread \in Request
    BY <1>1, <1>4, ReadEffect DEF ReadRequest
  <2>2. /\ Unread.n \in Nat /\ Unread.type \in Types
        /\ input' \in Residue \cup {None}
    BY <1>1, <1>4, <2>1 DEF ReadRequest, Request, Residue
  <2>3. /\ Rest \in [Conns -> Seq(Record)]
        /\ \A c \in Conns : Rest[c] # <<>> => kernel[c] # <<>> /\ Last(Rest[c]) = Last(kernel[c])
        /\ \A c \in Conns : c # at => Rest[c] = kernel[c]
    BY <1>4, ReadEffect DEF ReadRequest
  <2>4. /\ tail' = [tail EXCEPT ![at] = None]
        /\ RunRequest(at, at, Unread.n, Unread.type, Rest)
    BY <1>4 DEF ReadRequest
  <2>5. /\ tail' \in [Conns -> Request \cup {None}]
        /\ \A c \in Conns : c # at => tail'[c] = tail[c]
        /\ tail'[at] = None
    BY <1>1, <2>4 DEF TypeOK
  <2> QED
    BY <1>1, <2>2, <2>3, <2>4, <2>5, RunningRead
<1>5. CASE ReadFailed
  <2>1. CASE pc' = "poll" /\ at' = None /\ UNCHANGED <<clients, handled, sending, fds, mails>>
    BY <1>2, <1>5, <2>1, QuietRead
  <2>2. CASE input # None /\ RunRequest(at, input.by, input.n, input.type, kernel)
    <3>1. input \in Residue
      BY <1>1, <2>2 DEF TypeOK
    <3>2. input.by \in Conns /\ input.n \in Nat /\ input.type \in Types
      BY <3>1 DEF Residue
    <3>3. /\ kernel \in [Conns -> Seq(Record)] /\ UNCHANGED <<tail, input>>
          /\ tail \in [Conns -> Request \cup {None}]
      BY <1>1, <1>5 DEF TypeOK, ReadFailed
    <3> QED
      BY <1>1, <2>2, <3>1, <3>2, <3>3, RunningRead
  <2> QED
    BY <1>5, <2>1, <2>2 DEF ReadFailed
<1> QED
  BY <1>3, <1>4, <1>5 DEF Read

-----------------------------------------------------------------------------
\* The inductive invariant.

LEMMA ServerInit == Init => ServerInv
<1> SUFFICES ASSUME Init
             PROVE  ServerInv
  OBVIOUS
<1>1. TypeOK
  <2>1. <<>> \in Seq(Record) /\ <<>> \in Seq(Conns \X Nat) /\ 0 \in 0 .. MaxFds
    BY ServerBounds
  <2>2. \A c \in Conns : sent[c] <= MaxSent[c]
    BY ServerBounds DEF Init
  <2> QED
    BY <2>1, <2>2 DEF Init, TypeOK
<1>2. Held = {}
  BY DEF Init, Held
<1>3. FdsCounted
  BY <1>2, FS_EmptySet DEF Init, FdsCounted
<1> QED
  BY <1>1, <1>3 DEF Init, ServerInv, AtItsPlace, LongHasFollower, TailHasFollower,
     OnlyBrokenPeersStop

LEMMA ServerNext == ServerInv /\ [Next]_vars => ServerInv'
<1> SUFFICES ASSUME ServerInv, [Next]_vars
             PROVE  ServerInv'
  OBVIOUS
<1>1. FdsCounted'
  BY FdsStep
<1>2. CASE UNCHANGED vars
  BY <1>1, <1>2 DEF vars, clients, ServerInv, TypeOK, AtItsPlace, LongHasFollower,
     TailHasFollower, OnlyBrokenPeersStop
<1>3. CASE Read
  BY <1>3, ReadStep
<1>4. CASE \/ \E c \in Conns : Event(c)
           \/ Handshake \/ HandshakeFails \/ Mail
  BY <1>1, <1>4, LoopTypes, LoopPlace, LoopBuffers, LoopStops DEF ServerInv
<1>5. ASSUME NEW c \in Conns, ClientStep(c)
      PROVE  ServerInv'
  <2> USE DEF ServerInv
  <2>1. TypeOK'
    BY <1>5, ClientEffect DEF TypeOK
  <2>2. AtItsPlace'
    BY <1>5, ClientEffect DEF AtItsPlace, TypeOK
  <2>3. LongHasFollower'
    BY <1>5, ClientEffect DEF LongHasFollower
  <2>4. TailHasFollower'
    BY <1>5, ClientEffect DEF TailHasFollower
  <2>5. OnlyBrokenPeersStop'
    BY <1>5, ClientEffect DEF OnlyBrokenPeersStop
  <2> QED
    BY <1>1, <2>1, <2>2, <2>3, <2>4, <2>5
<1>6. ASSUME NEW c \in Conns, SendingThread(c)
      PROVE  ServerInv'
  <2> USE DEF ServerInv
  <2>1. TypeOK'
    BY <1>6, SenderEffect DEF TypeOK
  <2>2. AtItsPlace'
    BY <1>6, SenderEffect DEF AtItsPlace
  <2>3. LongHasFollower' /\ TailHasFollower'
    BY <1>6, SenderEffect DEF LongHasFollower, TailHasFollower
  <2>4. OnlyBrokenPeersStop'
    <3>1. c \in sending => phase[c] = "open"
      BY DEF AtItsPlace
    <3> QED
      BY <1>6, <3>1, SenderEffect DEF OnlyBrokenPeersStop, SendingThread
  <2> QED
    BY <1>1, <2>1, <2>2, <2>3, <2>4
<1> QED
  BY <1>2, <1>3, <1>4, <1>5, <1>6 DEF Next

LEMMA ServerInvariant == Spec => []ServerInv
BY ServerInit, ServerNext, PTL DEF Spec

\* Every variable of the server's loop keeps its type, the number of descriptors
\* within what the process may open.
THEOREM ServerTypes == Spec => []TypeOK
<1>1. ServerInv => TypeOK
  BY DEF ServerInv
<1> QED
  BY <1>1, ServerInvariant, PTL

\* What libtls keeps of a long request is never left there without something that
\* will make the loop read it.
THEOREM TailsAreFollowed == Spec => []TailHasFollower
<1>1. ServerInv => TailHasFollower
  BY DEF ServerInv
<1> QED
  BY <1>1, ServerInvariant, PTL

\* The loop ends only for a peer that has left, or for descriptors lost to mail.
THEOREM OnlyBrokenStop == Spec => []OnlyBrokenPeersStop
<1>1. ServerInv => OnlyBrokenPeersStop
  BY DEF ServerInv
<1> QED
  BY <1>1, ServerInvariant, PTL

-----------------------------------------------------------------------------
\* The channel: which request a connection's next one is.

LEMMA ItemsOfAppend ==
    ASSUME NEW S, NEW s \in Seq(S), NEW e \in S
    PROVE  ToSet(Append(s, e)) = ToSet(s) \cup {e}
<1>1. Append(s, e) \in Seq(S) /\ Len(Append(s, e)) = Len(s) + 1 /\ Len(s) \in Nat
      /\ Append(s, e)[Len(s) + 1] = e /\ \A i \in 1 .. Len(s) : Append(s, e)[i] = s[i]
  OBVIOUS
<1>2. DOMAIN s = 1 .. Len(s) /\ DOMAIN Append(s, e) = 1 .. Len(s) + 1
  BY <1>1
<1>3. \A i \in 1 .. Len(s) + 1 : i \in 1 .. Len(s) \/ i = Len(s) + 1
  BY <1>1
<1>4. \A x : x \in ToSet(Append(s, e)) => x \in ToSet(s) \cup {e}
  BY <1>1, <1>2, <1>3 DEF ToSet
<1>5. 1 .. Len(s) \subseteq 1 .. Len(s) + 1 /\ Len(s) + 1 \in 1 .. Len(s) + 1
  BY <1>1
<1>6. \A x : x \in ToSet(s) \cup {e} => x \in ToSet(Append(s, e))
  BY <1>1, <1>2, <1>5 DEF ToSet
<1> QED
  BY <1>4, <1>6

LEMMA TurnKept ==
    ASSUME NEW c \in Conns, InTurn(c), handled'[c] = handled[c], tail'[c] = tail[c],
           kernel'[c] = kernel[c], sent'[c] = sent[c]
    PROVE  InTurn(c)'
<1>1. Taken(c)' = Taken(c)
  BY DEF Taken
<1> QED
  BY <1>1 DEF InTurn

\* A step that runs nothing.
LEMMA ChannelKept ==
    ASSUME ChannelInv, UNCHANGED <<handled, input>>,
           \A c \in Conns : Intact(c)' => /\ Intact(c)
                                          /\ tail'[c] = tail[c] /\ kernel'[c] = kernel[c]
                                          /\ sent'[c] = sent[c]
    PROVE  ChannelInv'
<1>1. InputWasRun'
  BY DEF ChannelInv, InputWasRun
<1>2. ASSUME NEW c \in Conns, Intact(c)'
      PROVE  InTurn(c)'
  BY <1>2, TurnKept DEF ChannelInv
<1> QED
  BY <1>1, <1>2 DEF ChannelInv

LEMMA TakenType ==
    ASSUME ServerInv, NEW c \in Conns
    PROVE  /\ handled[c] \in Seq(Conns \X Nat) /\ Len(handled[c]) \in Nat /\ Taken(c) \in Nat
           /\ kernel[c] \in Seq(Record) /\ Len(kernel[c]) \in Nat
           /\ sent[c] \in Nat
<1>1. /\ handled[c] \in Seq(Conns \X Nat) /\ kernel[c] \in Seq(Record) /\ sent[c] \in Nat
  BY DEF ServerInv, TypeOK
<1>2. Len(handled[c]) \in Nat /\ Len(kernel[c]) \in Nat
  BY <1>1
<1>3. Taken(c) \in Nat
  <2>1. Len(handled[c]) + 0 \in Nat /\ Len(handled[c]) + 1 \in Nat
    BY <1>2
  <2>2. Taken(c) \in {Len(handled[c]) + 0, Len(handled[c]) + 1}
    BY DEF Taken
  <2> QED
    BY <2>1, <2>2
<1> QED
  BY <1>1, <1>2, <1>3

LEMMA ChannelSends ==
    ASSUME ServerInv, ChannelInv, NEW c \in Conns, NEW type, NEW reads, Write(c, type, reads)
    PROVE  ChannelInv'
<1>1. /\ UNCHANGED <<handled, tail, input, phase, up, pc, at>>
      /\ phase[c] = "open" /\ up[c] = "up"
      /\ sent' = [sent EXCEPT ![c] = sent[c] + 1]
  BY DEF Write
<1>2. PICK rec : rec.n = sent[c] + 1 /\ kernel' = [kernel EXCEPT ![c] = Append(kernel[c], rec)]
  BY DEF Write
<1>3. /\ kernel \in [Conns -> Seq(Record)] /\ sent \in [Conns -> Nat]
  BY DEF ServerInv, TypeOK
<1>4. /\ kernel'[c] = Append(kernel[c], rec) /\ sent'[c] = sent[c] + 1
      /\ \A d \in Conns : d # c => kernel'[d] = kernel[d] /\ sent'[d] = sent[d]
  BY <1>1, <1>2, <1>3
<1>5. PICK l \in Nat : l = Len(kernel[c]) /\ DOMAIN kernel[c] = 1 .. l
  BY <1>3
<1>6. /\ Len(kernel'[c]) = l + 1 /\ DOMAIN kernel'[c] = 1 .. l + 1
      /\ kernel'[c][l + 1] = rec /\ \A i \in 1 .. l : kernel'[c][i] = kernel[c][i]
  BY <1>3, <1>4, <1>5
<1>7. InTurn(c)'
  <2>1. InTurn(c)
    BY <1>1 DEF ChannelInv, Intact
  <2>2. Taken(c)' = Taken(c) /\ Taken(c) \in Nat
    BY <1>1, TakenType DEF Taken
  <2>3. sent[c] = Taken(c) + l
    BY <1>5, <2>1 DEF InTurn
  <2>4. \A i \in DOMAIN kernel'[c] : kernel'[c][i].n = Taken(c) + i
    <3> SUFFICES ASSUME NEW i \in 1 .. l + 1
                 PROVE  kernel'[c][i].n = Taken(c) + i
      BY <1>6
    <3>1. CASE i = l + 1
      BY <1>2, <1>6, <2>2, <2>3, <3>1
    <3>2. CASE i \in 1 .. l
      BY <1>5, <1>6, <2>1, <3>2 DEF InTurn
    <3> QED
      BY <1>5, <3>1, <3>2
  <2>5. sent'[c] = Taken(c) + Len(kernel'[c])
    BY <1>4, <1>6, <2>2, <2>3
  <2> QED
    BY <1>1, <2>1, <2>2, <2>4, <2>5 DEF InTurn
<1>8. ASSUME NEW d \in Conns, Intact(d)'
      PROVE  InTurn(d)'
  <2>1. Intact(d)
    BY <1>1, <1>8 DEF Intact
  <2>2. CASE d # c
    BY <1>1, <1>4, <2>1, <2>2, TurnKept DEF ChannelInv
  <2> QED
    BY <1>7, <2>2
<1>9. InputWasRun'
  BY <1>1 DEF ChannelInv, InputWasRun
<1> QED
  BY <1>8, <1>9 DEF ChannelInv

LEMMA ChannelArrives ==
    ASSUME ServerInv, ChannelInv, NEW c \in Conns, Arrive(c)
    PROVE  ChannelInv'
<1>1. UNCHANGED <<handled, tail, input, phase, up, pc, at, sent>> /\ kernel[c] # <<>>
  BY DEF Arrive
<1>2. PICK s, r, t : /\ s = kernel[c] /\ r = [s[Len(s)] EXCEPT !.arrived = TRUE]
                     /\ t = [s EXCEPT ![Len(s)] = r]
                     /\ kernel' = [kernel EXCEPT ![c] = t]
  BY DEF Arrive
<1>3. kernel \in [Conns -> Seq(Record)] /\ s \in Seq(Record) /\ s # <<>>
  BY <1>1, <1>2 DEF ServerInv, TypeOK
<1>4. Len(s) \in DOMAIN s /\ s[Len(s)] \in Record
  BY <1>3
<1>5. r.n = s[Len(s)].n
  BY <1>2, <1>4 DEF Record
<1>6. Len(t) = Len(s) /\ DOMAIN t = DOMAIN s /\ \A i \in DOMAIN s : t[i].n = s[i].n
  <2>1. r \in Record
    BY <1>2, <1>4 DEF Record
  <2> QED
    BY <1>2, <1>3, <1>4, <1>5, <2>1
<1>7. kernel'[c] = t /\ \A d \in Conns : d # c => kernel'[d] = kernel[d]
  BY <1>2, <1>3
<1>8. ASSUME NEW d \in Conns, Intact(d)'
      PROVE  InTurn(d)'
  <2>1. Intact(d) /\ InTurn(d)
    BY <1>1, <1>8 DEF Intact, ChannelInv
  <2>2. CASE d # c
    BY <1>1, <1>7, <2>1, <2>2, TurnKept
  <2>3. CASE d = c
    <3>1. Taken(d)' = Taken(d)
      BY <1>1 DEF Taken
    <3> QED
      BY <1>1, <1>2, <1>6, <1>7, <2>1, <2>3, <3>1 DEF InTurn
  <2> QED
    BY <2>2, <2>3
<1>9. InputWasRun'
  BY <1>1 DEF ChannelInv, InputWasRun
<1> QED
  BY <1>8, <1>9 DEF ChannelInv

LEMMA Sums ==
    ASSUME NEW m \in Nat, NEW l \in Nat
    PROVE  m < m + 1 + l /\ (l >= 1 => m < m + l /\ m + l = m + 1 + (l - 1))
OBVIOUS

\* What a read takes is the request after the last one taken or run, and what it
\* leaves goes on with those after it.
LEMMA ReadTurn ==
    ASSUME ServerInv, ChannelInv, pc = "read", Readable1024,
           NEW m, m = Len(handled[at])
    PROVE  /\ at \in Conns /\ InTurn(at) /\ Unread.n = m + 1 /\ m < sent[at]
           /\ \A i \in DOMAIN Rest[at] : Rest[at][i].n = m + 1 + i
           /\ sent[at] = m + 1 + Len(Rest[at])
<1>1. at \in Conns /\ phase[at] = "open" /\ kernel \in [Conns -> Seq(Record)]
      /\ tail \in [Conns -> Request \cup {None}]
  BY ServerBounds DEF ServerInv, TypeOK, AtItsPlace
<1>2. InTurn(at)
  BY <1>1 DEF ChannelInv, Intact
<1>3. /\ m \in Nat /\ Len(kernel[at]) \in Nat /\ sent[at] \in Nat
      /\ kernel[at] \in Seq(Record)
  BY <1>1, TakenType
<1>4. CASE tail[at] # None
  <2>1. Unread = tail[at] /\ Rest = kernel
    BY <1>4 DEF Unread, Rest
  <2>2. Taken(at) = m + 1
    BY <1>4 DEF Taken
  <2>3. sent[at] = m + 1 + Len(kernel[at])
    BY <1>2, <2>2 DEF InTurn
  <2>4. m < sent[at]
    <3>1. m \in Nat /\ Len(kernel[at]) \in Nat
      BY <1>3
    <3>2. m < m + 1 + Len(kernel[at])
      BY ONLY <3>1, Sums
    <3> QED
      BY <2>3, <3>2
  <2>5. Unread.n = m + 1 /\ \A i \in DOMAIN kernel[at] : kernel[at][i].n = m + 1 + i
    BY <1>2, <1>4, <2>1, <2>2 DEF InTurn
  <2> QED
    BY <1>1, <1>2, <2>1, <2>3, <2>4, <2>5
<1>5. CASE tail[at] = None
  <2>1. kernel[at] # <<>> /\ Unread.n = Head(kernel[at]).n /\ Rest[at] = Tail(kernel[at])
    BY <1>1, <1>5 DEF Readable1024, Unread, Rest
  <2>2. Taken(at) = m
    BY <1>3, <1>5 DEF Taken
  <2>3. /\ \A i \in DOMAIN kernel[at] : kernel[at][i].n = m + i
        /\ sent[at] = m + Len(kernel[at])
    BY <1>2, <2>2 DEF InTurn
  <2>4. /\ Head(kernel[at]) = kernel[at][1] /\ 1 \in DOMAIN kernel[at]
        /\ Len(Rest[at]) = Len(kernel[at]) - 1 /\ Len(kernel[at]) >= 1
        /\ \A i \in DOMAIN Rest[at] : /\ i + 1 \in DOMAIN kernel[at] /\ i \in Nat
                                      /\ Rest[at][i] = kernel[at][i + 1]
    BY <1>3, <2>1
  <2>5. Unread.n = m + 1
    BY <2>1, <2>3, <2>4
  <2>6. m < sent[at] /\ sent[at] = m + 1 + Len(Rest[at])
    <3>1. m \in Nat /\ Len(kernel[at]) \in Nat /\ Len(kernel[at]) >= 1
      BY <1>3, <2>4
    <3>2. /\ m < m + Len(kernel[at])
          /\ m + Len(kernel[at]) = m + 1 + (Len(kernel[at]) - 1)
      BY ONLY <3>1, Sums
    <3> QED
      BY <2>3, <2>4, <3>2
  <2>7. ASSUME NEW i \in DOMAIN Rest[at]
        PROVE  Rest[at][i].n = m + 1 + i
    <3>1. Rest[at][i].n = m + (i + 1) /\ i \in Nat
      BY <2>3, <2>4
    <3>2. m \in Nat /\ i \in Nat
      BY <1>3, <3>1
    <3>3. m + (i + 1) = m + 1 + i
      BY ONLY <3>2
    <3> QED
      BY <3>1, <3>3
  <2> QED
    BY <1>1, <1>2, <2>5, <2>6, <2>7
<1> QED
  BY <1>4, <1>5

\* A connection that is read stays in turn, whether or not it was the end of a
\* request.
LEMMA AfterRead ==
    ASSUME ServerInv, ChannelInv, pc = "read", Readable1024,
           NEW m, m = Len(handled[at]), NEW d, d = at,
           kernel' = Rest, sent' = sent,
           \A i \in DOMAIN handled'[d] : handled'[d][i] = <<d, i>>,
           Taken(d)' = m + 1, tail'[d] # None => tail'[d].n = m + 1
    PROVE  InTurn(d)'
<1>1. /\ \A i \in DOMAIN kernel'[d] : kernel'[d][i].n = m + 1 + i
      /\ sent'[d] = m + 1 + Len(kernel'[d])
  BY ReadTurn
<1> QED
  BY <1>1 DEF InTurn

LEMMA ChannelReadsPart ==
    ASSUME ServerInv, ChannelInv, ReadPart
    PROVE  ChannelInv'
<1>1. PICK m, d : m = Len(handled[at]) /\ d = at
  OBVIOUS
<1>2. /\ pc = "read" /\ Readable1024 /\ kernel' = Rest /\ pc' = "poll" /\ input' = None
      /\ tail' = [tail EXCEPT ![d] = [Unread EXCEPT !.reads = Unread.reads - 1]]
      /\ UNCHANGED <<phase, up, sent, handled>> /\ Unread.reads > 1
  BY <1>1 DEF ReadPart
<1>3. /\ d \in Conns /\ InTurn(d) /\ Unread.n = m + 1 /\ Unread \in Request
      /\ \A c \in Conns : c # d => Rest[c] = kernel[c]
      /\ tail \in [Conns -> Request \cup {None}]
  BY <1>1, <1>2, ReadTurn, ReadEffect DEF ServerInv, TypeOK
<1>4. [Unread EXCEPT !.reads = Unread.reads - 1] \in Request
  <2>1. Unread.reads \in 1 .. MaxReads /\ Unread.reads - 1 \in 1 .. MaxReads
    BY <1>2, <1>3, ServerBounds DEF Request
  <2> QED
    BY <1>3, <2>1 DEF Request
<1>5. /\ tail'[d] # None /\ tail'[d].n = m + 1
      /\ \A c \in Conns : c # d => tail'[c] = tail[c]
  <2>1. tail'[d] = [Unread EXCEPT !.reads = Unread.reads - 1]
        /\ \A c \in Conns : c # d => tail'[c] = tail[c]
    BY <1>2, <1>3
  <2>2. tail'[d] # None
    BY <1>4, <2>1, ServerBounds
  <2>3. tail'[d].n = m + 1
    BY <1>3, <2>1 DEF Request
  <2> QED
    BY <2>1, <2>2, <2>3
<1>6. InTurn(d)'
  <2>1. \A i \in DOMAIN handled'[d] : handled'[d][i] = <<d, i>>
    BY <1>2, <1>3 DEF InTurn
  <2>2. Taken(d)' = m + 1
    BY <1>1, <1>2, <1>5 DEF Taken
  <2> QED
    BY <1>1, <1>2, <1>5, <2>1, <2>2, AfterRead
<1>7. ASSUME NEW c \in Conns, Intact(c)'
      PROVE  InTurn(c)'
  <2>1. CASE c # d
    <3>1. Intact(c)
      BY <1>2, <1>7 DEF Intact
    <3> QED
      BY <1>2, <1>3, <1>5, <2>1, <3>1, TurnKept DEF ChannelInv
  <2> QED
    BY <1>6, <2>1
<1> QED
  BY <1>2, <1>7 DEF ChannelInv, InputWasRun

\* A request that is run: who is answered may be found to have gone, but none of
\* those the loop has dropped.
LEMMA RunChannel ==
    ASSUME ServerInv, NEW c \in Conns, phase[c] = "open", NEW by \in Conns, NEW n \in Nat,
           NEW type \in Types, NEW rest, RunRequest(c, by, n, type, rest)
    PROVE  /\ handled' = [handled EXCEPT ![c] = Append(handled[c], <<by, n>>)]
           /\ handled'[c] = Append(handled[c], <<by, n>>)
           /\ \A d \in Conns : d # c => handled'[d] = handled[d]
           /\ kernel' = rest /\ UNCHANGED <<phase, sent>> /\ pc' # "read"
           /\ \A d \in Conns : up[d] = "reset" => up'[d] = "reset"
           /\ \A d \in Conns : phase[d] = "closed" => up'[d] = up[d]
<1>1. PICK who \in Answered(c, type) :
          /\ handled' = [handled EXCEPT ![c] = Append(handled[c], <<by, n>>)]
          /\ up' = [d \in Conns |-> IF d \in who /\ up[d] = "fin" THEN "reset" ELSE up[d]]
          /\ kernel' = rest
          /\ \/ pc' = "poll" /\ at' = None
             \/ type = "AUTH" /\ pc' = "mail" /\ at' = c
             \/ pc' = "stopped" /\ at' = None
          /\ UNCHANGED <<phase, sent>>
  <2>1. PICK who \in Answered(c, type) :
        LET gone == {d \in who : up[d] = "fin"}
            lost == \E d \in who : up[d] = "reset"
        IN  /\ handled' = [handled EXCEPT ![c] = Append(@, <<by, n>>)]
            /\ up' = [d \in Conns |-> IF d \in gone THEN "reset" ELSE up[d]]
            /\ kernel' = rest
            /\ sending' = IF type = "GET" THEN sending \cup {c} ELSE sending
            /\ \/ pc' = "poll" /\ at' = None
               \/ type = "AUTH" /\ pc' = "mail" /\ at' = c
               \/ lost /\ pc' = "stopped" /\ at' = None
            /\ UNCHANGED <<phase, uploading, sent, fds, mails>>
    BY Zenon DEF RunRequest
  <2>2. \A d : d \in {e \in who : up[e] = "fin"} <=> d \in who /\ up[d] = "fin"
    OBVIOUS
  <2>3. up' = [d \in Conns |-> IF d \in who /\ up[d] = "fin" THEN "reset" ELSE up[d]]
    BY <2>1, <2>2
  <2> QED
    BY <2>1, <2>3
<1>2. \A d \in who : phase[d] = "open"
  BY <1>1 DEF Answered, Types
<1>3. handled \in [Conns -> Seq(Conns \X Nat)]
  BY DEF ServerInv, TypeOK
<1>4. /\ handled'[c] = Append(handled[c], <<by, n>>)
      /\ \A d \in Conns : d # c => handled'[d] = handled[d]
  BY <1>1, <1>3
<1>5. \A d \in Conns : up[d] = "reset" => up'[d] = "reset"
  BY <1>1
<1>6. \A d \in Conns : phase[d] = "closed" => up'[d] = up[d]
  BY <1>1, <1>2
<1> QED
  BY <1>1, <1>4, <1>5, <1>6

LEMMA ChannelRunsRequest ==
    ASSUME ServerInv, ChannelInv, ReadRequest
    PROVE  ChannelInv'
<1>1. PICK m, d : m = Len(handled[at]) /\ d = at
  OBVIOUS
<1>2. /\ pc = "read" /\ Readable1024 /\ tail' = [tail EXCEPT ![d] = None]
      /\ input' = None \/ input' = [by |-> d, n |-> Unread.n, type |-> Unread.type]
      /\ RunRequest(d, d, Unread.n, Unread.type, Rest)
  BY <1>1 DEF ReadRequest
<1>3. /\ d \in Conns /\ phase[d] = "open" /\ InTurn(d) /\ Unread.n = m + 1
      /\ Unread \in Request /\ \A c \in Conns : c # d => Rest[c] = kernel[c]
      /\ tail \in [Conns -> Request \cup {None}]
      /\ handled \in [Conns -> Seq(Conns \X Nat)]
  BY <1>1, <1>2, ReadTurn, ReadEffect DEF ServerInv, TypeOK
<1>4. Unread.n \in Nat /\ Unread.type \in Types /\ m \in Nat
  BY <1>1, <1>3 DEF Request
<1>5. /\ handled'[d] = Append(handled[d], <<d, m + 1>>)
      /\ \A c \in Conns : c # d => handled'[c] = handled[c]
      /\ kernel' = Rest /\ UNCHANGED <<phase, sent>> /\ pc' # "read"
      /\ \A c \in Conns : up[c] = "reset" => up'[c] = "reset"
  BY <1>2, <1>3, <1>4, RunChannel
<1>6. tail'[d] = None /\ \A c \in Conns : c # d => tail'[c] = tail[c]
  BY <1>2, <1>3
<1>7. /\ handled[d] \in Seq(Conns \X Nat) /\ <<d, m + 1>> \in Conns \X Nat
      /\ Len(handled'[d]) = m + 1 /\ handled'[d][m + 1] = <<d, m + 1>>
      /\ DOMAIN handled[d] = 1 .. m
      /\ DOMAIN handled'[d] = 1 .. m + 1
      /\ \A i \in 1 .. m : handled'[d][i] = handled[d][i]
  <2>1. handled[d] \in Seq(Conns \X Nat) /\ <<d, m + 1>> \in Conns \X Nat
        /\ Len(handled[d]) = m
    BY <1>1, <1>3, <1>4
  <2> QED
    BY <1>4, <1>5, <2>1
<1>8. InTurn(d)'
  <2>1. \A i \in 1 .. m + 1 : handled'[d][i] = <<d, i>>
    <3> SUFFICES ASSUME NEW i \in 1 .. m + 1
                 PROVE  handled'[d][i] = <<d, i>>
      OBVIOUS
    <3>1. CASE i = m + 1
      BY <1>7, <3>1
    <3>2. CASE i \in 1 .. m
      BY <1>3, <1>7, <3>2 DEF InTurn
    <3> QED
      BY <1>4, <3>1, <3>2
  <2>2. Taken(d)' = m + 1
    <3>1. Taken(d)' = m + 1 + 0
      BY <1>6, <1>7 DEF Taken
    <3> QED
      BY <1>4, <3>1
  <2> QED
    BY <1>1, <1>2, <1>5, <1>6, <1>7, <2>1, <2>2, AfterRead
<1>9. ASSUME NEW c \in Conns, Intact(c)'
      PROVE  InTurn(c)'
  <2>1. CASE c # d
    <3>1. Intact(c)
      BY <1>5, <1>9 DEF Intact
    <3>2. kernel'[c] = kernel[c] /\ sent'[c] = sent[c]
      BY <1>3, <1>5, <2>1
    <3> QED
      BY <1>5, <1>6, <2>1, <3>1, <3>2, TurnKept DEF ChannelInv
  <2> QED
    BY <1>8, <2>1
<1>10. InputWasRun'
  <2>1. <<d, m + 1>> \in ToSet(handled'[d])
    BY <1>5, <1>7, ItemsOfAppend
  <2>2. input' # None => input'.by = d /\ input'.n = m + 1
    BY <1>2, <1>3
  <2> QED
    BY <2>1, <2>2 DEF InputWasRun
<1> QED
  BY <1>9, <1>10 DEF ChannelInv

\* What the buffer still holds is run in the name of a connection that was reset,
\* and is out of turn there.
LEMMA ChannelRunsAgain ==
    ASSUME ServerInv, ChannelInv, ReadFailed, input # None,
           RunRequest(at, input.by, input.n, input.type, kernel)
    PROVE  ChannelInv'
<1>1. PICK d : d = at
  OBVIOUS
<1>2. /\ pc = "read" /\ UNCHANGED <<tail, input>> /\ up[d] = "reset"
      /\ d \in Conns /\ phase[d] = "open" /\ input \in Residue
      /\ handled \in [Conns -> Seq(Conns \X Nat)]
  BY <1>1, ServerBounds DEF ReadFailed, ServerInv, TypeOK, AtItsPlace
<1>3. input.by \in Conns /\ input.n \in Nat /\ input.type \in Types
  BY <1>2 DEF Residue
<1>4. /\ handled'[d] = Append(handled[d], <<input.by, input.n>>)
      /\ \A c \in Conns : c # d => handled'[c] = handled[c]
      /\ kernel' = kernel /\ UNCHANGED <<phase, sent>> /\ pc' # "read"
      /\ \A c \in Conns : up[c] = "reset" => up'[c] = "reset"
  BY <1>1, <1>2, <1>3, RunChannel
<1>5. ASSUME NEW c \in Conns, Intact(c)'
      PROVE  InTurn(c)'
  <2>1. c # d
    BY <1>2, <1>4, <1>5 DEF Intact
  <2>2. Intact(c)
    BY <1>4, <1>5 DEF Intact
  <2> QED
    BY <1>2, <1>4, <2>1, <2>2, TurnKept DEF ChannelInv
<1>6. InputWasRun'
  <2>1. <<input.by, input.n>> \in ToSet(handled[input.by])
    BY DEF ChannelInv, InputWasRun
  <2>2. CASE input.by = d
    <3>1. handled[d] \in Seq(Conns \X Nat) /\ <<input.by, input.n>> \in Conns \X Nat
      BY <1>2, <1>3
    <3>2. ToSet(Append(handled[d], <<input.by, input.n>>))
              = ToSet(handled[d]) \cup {<<input.by, input.n>>}
      BY ONLY <3>1, ItemsOfAppend
    <3> QED
      BY <1>2, <1>4, <2>1, <2>2, <3>2 DEF InputWasRun
  <2>3. CASE input.by # d
    BY <1>2, <1>3, <1>4, <2>1, <2>3 DEF InputWasRun
  <2> QED
    BY <2>2, <2>3
<1> QED
  BY <1>5, <1>6 DEF ChannelInv

LEMMA ChannelInit == Init => ChannelInv
<1> SUFFICES ASSUME Init
             PROVE  ChannelInv
  OBVIOUS
<1>1. ASSUME NEW c \in Conns
      PROVE  InTurn(c)
  <2>1. /\ handled[c] = <<>> /\ kernel[c] = <<>> /\ tail[c] = None /\ sent[c] = 0
        /\ DOMAIN handled[c] = {} /\ DOMAIN kernel[c] = {}
        /\ Len(handled[c]) = 0 /\ Len(kernel[c]) = 0
    BY DEF Init
  <2>2. Taken(c) = 0
    BY <2>1 DEF Taken
  <2> QED
    BY <2>1, <2>2 DEF InTurn
<1>2. InputWasRun
  BY DEF Init, InputWasRun
<1> QED
  BY <1>1, <1>2 DEF ChannelInv

LEMMA ChannelNext == ServerInv /\ ChannelInv /\ [Next]_vars => ChannelInv'
<1> SUFFICES ASSUME ServerInv, ChannelInv, [Next]_vars
             PROVE  ChannelInv'
  OBVIOUS
<1>1. TypeOK /\ AtItsPlace
  BY DEF ServerInv
<1>2. ASSUME UNCHANGED <<handled, input, tail, kernel, sent>>,
             \A c \in Conns : phase'[c] # "closed" => phase[c] # "closed",
             \A c \in Conns : up[c] = "reset" => up'[c] = "reset",
             (pc' = pc /\ at' = at) \/ pc' # "read"
      PROVE  ChannelInv'
  BY <1>2, ChannelKept DEF Intact
<1>3. ASSUME NEW c \in Conns, Connect(c)
      PROVE  ChannelInv'
  BY <1>1, <1>2, <1>3 DEF Connect, TypeOK
<1>4. ASSUME NEW c \in Conns, SendRequest(c)
      PROVE  ChannelInv'
  BY <1>4, ChannelSends DEF SendRequest
<1>5. ASSUME NEW c \in Conns, SendPiece(c)
      PROVE  ChannelInv'
  BY <1>5, ChannelSends DEF SendPiece
<1>6. ASSUME NEW c \in Conns, SendEmpty(c)
      PROVE  ChannelInv'
  BY <1>6, ChannelSends DEF SendEmpty
<1>7. ASSUME NEW c \in Conns, Arrive(c)
      PROVE  ChannelInv'
  BY <1>7, ChannelArrives
<1>8. ASSUME NEW c \in Conns, Leave(c) \/ Reset(c)
      PROVE  ChannelInv'
  BY <1>1, <1>2, <1>8 DEF Leave, Reset, TypeOK
<1>9. ASSUME NEW c \in Conns, Accept(c)
      PROVE  ChannelInv'
  BY <1>1, <1>2, <1>9 DEF Accept, TypeOK
<1>10. CASE Handshake \/ HandshakeFails
  BY <1>1, <1>2, <1>10 DEF Handshake, HandshakeFails, clients, TypeOK, AtItsPlace
<1>11. ASSUME NEW c \in Conns, ReadEvent(c)
       PROVE  ChannelInv'
  <2>1. /\ UNCHANGED <<handled, input, tail, kernel, sent, phase, up>>
        /\ at' = c /\ up[c] = "up"
    BY <1>11 DEF ReadEvent, clients
  <2>2. ASSUME NEW d \in Conns, Intact(d)'
        PROVE  Intact(d)
    BY <2>1, <2>2 DEF Intact
  <2> QED
    BY <2>1, <2>2, ChannelKept
<1>12. ASSUME NEW c \in Conns, EofEvent(c)
       PROVE  ChannelInv'
  <2>1. /\ UNCHANGED <<handled, input, sent, up, pc, at>> /\ phase'[c] = "closed"
        /\ \A d \in Conns : d # c => /\ phase'[d] = phase[d] /\ kernel'[d] = kernel[d]
                                     /\ tail'[d] = tail[d]
    BY <1>1, <1>12 DEF EofEvent, TypeOK
  <2>2. ASSUME NEW d \in Conns, Intact(d)'
        PROVE  Intact(d) /\ d # c
    BY <2>1, <2>2 DEF Intact
  <2> QED
    BY <2>1, <2>2, ChannelKept
<1>13. ASSUME NEW c \in Conns, SendingThread(c)
       PROVE  ChannelInv'
  <2>1. /\ UNCHANGED <<phase, kernel, sent, tail, handled, input>>
        /\ up' = up \/ up' = [up EXCEPT ![c] = "reset"]
        /\ (pc' = pc /\ at' = at) \/ pc' = "stopped"
    BY <1>13 DEF SendingThread
  <2>2. \A d \in Conns : up[d] = "reset" => up'[d] = "reset"
    BY <1>1, <2>1 DEF TypeOK
  <2> QED
    BY <1>2, <2>1, <2>2
<1>14. CASE Mail
  BY <1>2, <1>14 DEF Mail, MailNotSent, MailSent, MailBreaksOff, MailLoses, clients
<1>15. CASE ReadPart
  BY <1>15, ChannelReadsPart
<1>16. CASE ReadRequest
  BY <1>16, ChannelRunsRequest
<1>17. CASE ReadNothing
  BY <1>2, <1>17 DEF ReadNothing, clients
<1>18. CASE ReadFailed
  <2>1. CASE pc' = "poll" /\ UNCHANGED <<clients, handled>>
    BY <1>2, <1>18, <2>1 DEF ReadFailed, clients
  <2>2. CASE input # None /\ RunRequest(at, input.by, input.n, input.type, kernel)
    BY <1>18, <2>2, ChannelRunsAgain
  <2> QED
    BY <1>18, <2>1, <2>2 DEF ReadFailed
<1>19. CASE UNCHANGED vars
  BY <1>2, <1>19 DEF vars, clients
<1> QED
  BY <1>3, <1>4, <1>5, <1>6, <1>7, <1>8, <1>9, <1>10, <1>11, <1>12, <1>13, <1>14,
     <1>15, <1>16, <1>17, <1>18, <1>19 DEF Next, ClientStep, Event, Read

LEMMA ChannelInvariant == Spec => [](ServerInv /\ ChannelInv)
BY ServerInit, ServerNext, ChannelInit, ChannelNext, PTL DEF Spec

-----------------------------------------------------------------------------
\* ServerLoop implements RequestChannel.

\* As many of a connection's requests were run as the channel counts.
LEMMA HandledOfItself ==
    ASSUME ServerInv, NEW c \in Conns, InTurn(c), NEW m, m = Len(handled[c])
    PROVE  Channel!OwnHandled(c) = m
<1>1. m \in Nat /\ DOMAIN handled[c] = 1 .. m
  BY TakenType
<1>2. {i \in DOMAIN handled[c] : handled[c][i][1] = c} = 1 .. m
  <2>1. \A i \in DOMAIN handled[c] : handled[c][i] = <<c, i>>
    BY DEF InTurn
  <2>2. \A i \in DOMAIN handled[c] : handled[c][i][1] = c
    BY <2>1
  <2> QED
    BY <1>1, <2>2
<1>3. Cardinality(1 .. m) = m
  <2>1. 1 \in Int /\ m \in Int
    BY <1>1
  <2>2. Cardinality(1 .. m) = IF 1 > m THEN 0 ELSE m - 1 + 1
    BY ONLY <2>1, FS_Interval
  <2>3. (IF 1 > m THEN 0 ELSE m - 1 + 1) = m
    BY <1>1
  <2> QED
    BY <2>2, <2>3
<1>4. Channel!OwnHandled(c) = Cardinality({i \in DOMAIN handled[c] : handled[c][i][1] = c})
  BY DEF Channel!OwnHandled, Channel!Cardinality, Cardinality
<1> QED
  BY <1>2, <1>3, <1>4

\* No step but EofEvent drops a connection, and none takes one up again.
LEMMA ChannelQuiet ==
    ASSUME UNCHANGED <<sent, handled, up>>,
           \A c \in Conns : phase'[c] = "closed" <=> phase[c] = "closed"
    PROVE  UNCHANGED Channel!vars
<1>1. {c \in Conns : phase'[c] = "closed"} = {c \in Conns : phase[c] = "closed"}
  OBVIOUS
<1>2. {c \in Conns : up'[c] = "reset"} = {c \in Conns : up[c] = "reset"}
  OBVIOUS
<1> QED
  BY <1>1, <1>2 DEF Channel!vars

LEMMA ChannelSend ==
    ASSUME ServerInv, NEW c \in Conns, NEW type, NEW reads, Write(c, type, reads)
    PROVE  Channel!Next
<1>1. /\ UNCHANGED <<phase, up, handled>> /\ phase[c] = "open" /\ up[c] = "up"
      /\ sent' = [sent EXCEPT ![c] = @ + 1]
  BY DEF Write
<1>2. c \notin {d \in Conns : phase[d] = "closed"} \cup {d \in Conns : up[d] = "reset"}
  BY <1>1
<1>3. Channel!Send(c)
  BY <1>1, <1>2 DEF Channel!Send
<1> QED
  BY <1>3 DEF Channel!Next

LEMMA ChannelBreak ==
    ASSUME ServerInv, NEW c \in Conns, UNCHANGED <<phase, sent, handled>>,
           phase[c] # "closed", up' = [up EXCEPT ![c] = "reset"]
    PROVE  Channel!Next
<1>1. up'[c] = "reset" /\ \A d \in Conns : d # c => up'[d] = up[d]
  BY DEF ServerInv, TypeOK
<1>2. {d \in Conns : up'[d] = "reset"} = {d \in Conns : up[d] = "reset"} \cup {c}
  BY <1>1
<1>3. c \notin {d \in Conns : phase[d] = "closed"}
  OBVIOUS
<1>4. Channel!Break(c)
  BY <1>2, <1>3 DEF Channel!Break
<1> QED
  BY <1>4 DEF Channel!Next

LEMMA ChannelClose ==
    ASSUME ServerInv, NEW c \in Conns, EofEvent(c)
    PROVE  Channel!Next
<1>1. UNCHANGED <<up, sent, handled>> /\ phase'[c] = "closed"
      /\ \A d \in Conns : d # c => phase'[d] = phase[d]
  BY DEF EofEvent, ServerInv, TypeOK
<1>2. {d \in Conns : phase'[d] = "closed"} = {d \in Conns : phase[d] = "closed"} \cup {c}
  BY <1>1
<1>3. Channel!Close(c)
  BY <1>1, <1>2 DEF Channel!Close
<1> QED
  BY <1>3 DEF Channel!Next

\* What a handler writes breaks connections, but none that has been dropped.
LEMMA AnswersBreak ==
    ASSUME UNCHANGED phase,
           \A d \in Conns : up[d] = "reset" => up'[d] = "reset",
           \A d \in Conns : phase[d] = "closed" => up'[d] = up[d]
    PROVE  Channel!AnswerMayBreak
BY DEF Channel!AnswerMayBreak

LEMMA ChannelHandle ==
    ASSUME ServerInv, ChannelInv, ReadRequest
    PROVE  Channel!Next
<1>1. PICK m, d : m = Len(handled[at]) /\ d = at
  OBVIOUS
<1>2. /\ pc = "read" /\ Readable1024
      /\ RunRequest(d, d, Unread.n, Unread.type, Rest)
  BY <1>1 DEF ReadRequest
<1>3. /\ d \in Conns /\ phase[d] = "open" /\ InTurn(d) /\ Unread.n = m + 1
      /\ Unread \in Request /\ m < sent[d]
  BY <1>1, <1>2, ReadTurn, ReadEffect
<1>4. Unread.n \in Nat /\ Unread.type \in Types
  BY <1>3 DEF Request
<1>5. /\ handled' = [handled EXCEPT ![d] = Append(handled[d], <<d, m + 1>>)]
      /\ UNCHANGED <<phase, sent>>
      /\ \A c \in Conns : up[c] = "reset" => up'[c] = "reset"
      /\ \A c \in Conns : phase[c] = "closed" => up'[c] = up[c]
  BY <1>2, <1>3, <1>4, RunChannel
<1>6. Channel!OwnHandled(d) = m
  BY <1>1, <1>3, HandledOfItself
<1>7. Channel!AnswerMayBreak
  BY <1>5, AnswersBreak
<1>8. d \notin {c \in Conns : phase[c] = "closed"}
  BY <1>3
<1>9. Channel!Handle(d)
  BY <1>3, <1>5, <1>6, <1>7, <1>8 DEF Channel!Handle
<1> QED
  BY <1>3, <1>9 DEF Channel!Next

LEMMA ChannelHandleAgain ==
    ASSUME ServerInv, ChannelInv, ReadFailed, input # None,
           RunRequest(at, input.by, input.n, input.type, kernel)
    PROVE  Channel!Next
<1>1. PICK d : d = at
  OBVIOUS
<1>2. /\ up[d] = "reset" /\ d \in Conns /\ phase[d] = "open" /\ input \in Residue
  BY <1>1, ServerBounds DEF ReadFailed, ServerInv, TypeOK, AtItsPlace
<1>3. input.by \in Conns /\ input.n \in Nat /\ input.type \in Types
  BY <1>2 DEF Residue
<1>4. /\ handled' = [handled EXCEPT ![d] = Append(handled[d], <<input.by, input.n>>)]
      /\ UNCHANGED <<phase, sent>>
      /\ \A c \in Conns : up[c] = "reset" => up'[c] = "reset"
      /\ \A c \in Conns : phase[c] = "closed" => up'[c] = up[c]
  BY <1>1, <1>2, <1>3, RunChannel
<1>5. <<input.by, input.n>> \in Channel!ToSet(handled[input.by])
  <2>1. <<input.by, input.n>> \in ToSet(handled[input.by])
    BY DEF ChannelInv, InputWasRun
  <2> QED
    BY <2>1 DEF Channel!ToSet, ToSet
<1>6. Channel!AnswerMayBreak
  BY <1>4, AnswersBreak
<1>7. d \in {c \in Conns : up[c] = "reset"} \ {c \in Conns : phase[c] = "closed"}
  BY <1>2
<1>8. Channel!HandleAgain(d)
  BY <1>3, <1>4, <1>5, <1>6, <1>7 DEF Channel!HandleAgain
<1> QED
  BY <1>2, <1>8 DEF Channel!Next

LEMMA ChannelStep ==
    ServerInv /\ ChannelInv /\ [Next]_vars => [Channel!Next]_(Channel!vars)
<1> SUFFICES ASSUME ServerInv, ChannelInv, [Next]_vars
             PROVE  [Channel!Next]_(Channel!vars)
  OBVIOUS
<1>1. TypeOK /\ AtItsPlace
  BY DEF ServerInv
<1>2. ASSUME NEW c \in Conns, Connect(c) \/ Leave(c) \/ Arrive(c) \/ Accept(c)
      PROVE  UNCHANGED <<sent, handled>> /\ \A d \in Conns :
                 /\ phase'[d] = "closed" <=> phase[d] = "closed"
                 /\ up'[d] = "reset" <=> up[d] = "reset"
  BY <1>1, <1>2 DEF Connect, Leave, Arrive, Accept, TypeOK
<1>3. ASSUME UNCHANGED <<sent, handled>>,
             \A d \in Conns : /\ phase'[d] = "closed" <=> phase[d] = "closed"
                              /\ up'[d] = "reset" <=> up[d] = "reset"
      PROVE  UNCHANGED Channel!vars
  <2>1. {c \in Conns : phase'[c] = "closed"} = {c \in Conns : phase[c] = "closed"}
    BY <1>3
  <2>2. {c \in Conns : up'[c] = "reset"} = {c \in Conns : up[c] = "reset"}
    BY <1>3
  <2> QED
    BY <1>3, <2>1, <2>2 DEF Channel!vars
<1>4. ASSUME NEW c \in Conns, SendRequest(c) \/ SendPiece(c) \/ SendEmpty(c)
      PROVE  Channel!Next
  BY <1>4, ChannelSend DEF SendRequest, SendPiece, SendEmpty
<1>5. ASSUME NEW c \in Conns, Reset(c)
      PROVE  Channel!Next
  BY <1>5, ChannelBreak DEF Reset
<1>6. CASE Handshake \/ HandshakeFails
  <2>1. UNCHANGED <<sent, handled, up>> /\ pc = "handshake"
    BY <1>6 DEF Handshake, HandshakeFails, clients
  <2>2. \A c \in Conns : phase'[c] = "closed" <=> phase[c] = "closed"
    BY <1>1, <1>6, <2>1 DEF Handshake, HandshakeFails, clients, TypeOK, AtItsPlace
  <2> QED
    BY <2>1, <2>2, ChannelQuiet
<1>7. ASSUME NEW c \in Conns, ReadEvent(c)
      PROVE  UNCHANGED <<sent, handled, up, phase>>
  BY <1>7 DEF ReadEvent, clients
<1>8. ASSUME NEW c \in Conns, EofEvent(c)
      PROVE  Channel!Next
  BY <1>8, ChannelClose
<1>9. ASSUME NEW c \in Conns, SendingThread(c)
      PROVE  [Channel!Next]_(Channel!vars)
  <2>1. UNCHANGED <<phase, sent, handled>> /\ phase[c] # "closed"
        /\ (up' = up \/ up' = [up EXCEPT ![c] = "reset"])
    BY <1>1, <1>9 DEF SendingThread, AtItsPlace
  <2> QED
    BY <2>1, ChannelQuiet, ChannelBreak
<1>10. CASE Mail \/ ReadPart \/ ReadNothing \/ UNCHANGED vars
  <2>1. UNCHANGED <<sent, handled, up, phase>>
    BY <1>10 DEF Mail, MailNotSent, MailSent, MailBreaksOff, MailLoses, ReadPart,
       ReadNothing, clients, vars
  <2> QED
    BY <2>1, ChannelQuiet
<1>11. CASE ReadRequest
  BY <1>11, ChannelHandle
<1>12. CASE ReadFailed
  <2>1. CASE UNCHANGED <<clients, handled>>
    BY <2>1, ChannelQuiet DEF clients
  <2>2. CASE input # None /\ RunRequest(at, input.by, input.n, input.type, kernel)
    BY <1>12, <2>2, ChannelHandleAgain
  <2> QED
    BY <1>12, <2>1, <2>2 DEF ReadFailed
<1> QED
  BY <1>2, <1>3, <1>4, <1>5, <1>6, <1>7, <1>8, <1>9, <1>10, <1>11, <1>12, ChannelQuiet
     DEF Next, ClientStep, Event, Read

LEMMA ChannelInitial == Init => Channel!Init
<1> SUFFICES ASSUME Init
             PROVE  Channel!Init
  OBVIOUS
<1>1. {c \in Conns : phase[c] = "closed"} = {} /\ {c \in Conns : up[c] = "reset"} = {}
  BY DEF Init
<1> QED
  BY <1>1 DEF Init, Channel!Init

\* However its records are cut into reads, whoever else is served in between, and
\* whenever connections break: a connection's requests are run in the order they
\* were sent, each once and whole, and none after the loop has dropped it; what is
\* run again from the buffer is run in the name of a reset connection only.
THEOREM ServerImplementsChannel == Spec => ImplementsChannel
BY ChannelInitial, ChannelStep, ChannelInvariant, PTL
   DEF Spec, ImplementsChannel, Channel!Spec

-----------------------------------------------------------------------------
\* The tree of sockets.  A loop goes from x to next[x] until that is no node.

\* What a loop visits from r on: the least set with r in it and with what follows.
Closed(P, r, next) ==
    /\ P \subseteq DOMAIN next
    /\ r \in DOMAIN next => r \in P
    /\ \A x \in P : next[x] \in DOMAIN next => next[x] \in P

Visited(r, next) ==
    {a \in DOMAIN next : \A P \in SUBSET DOMAIN next : Closed(P, r, next) => a \in P}

\* It comes to an end wherever it starts: every set of nodes is left.
Ends(next) == \A C \in SUBSET DOMAIN next : C # {} => \E x \in C : next[x] \notin C

LEMMA VisitedInSet ==
    ASSUME NEW next, NEW r, NEW P, Closed(P, r, next)
    PROVE  Visited(r, next) \subseteq P
BY DEF Visited, Closed

LEMMA VisitedIsClosed ==
    ASSUME NEW next, NEW r
    PROVE  Closed(Visited(r, next), r, next)
<1>1. Visited(r, next) \subseteq DOMAIN next
  BY DEF Visited
<1>2. ASSUME r \in DOMAIN next
      PROVE  r \in Visited(r, next)
  BY <1>2 DEF Visited, Closed
<1>3. ASSUME NEW x \in Visited(r, next), next[x] \in DOMAIN next
      PROVE  next[x] \in Visited(r, next)
  <2>1. ASSUME NEW P \in SUBSET DOMAIN next, Closed(P, r, next)
        PROVE  next[x] \in P
    <3>1. x \in P
      BY <2>1, <1>3, VisitedInSet
    <3> QED
      BY <3>1, <2>1, <1>3 DEF Closed
  <2> QED
    BY <2>1, <1>3 DEF Visited
<1> QED
  BY <1>1, <1>2, <1>3 DEF Closed

\* What is visited from a node visited is visited.
LEMMA VisitedOnwards ==
    ASSUME NEW next, NEW r, NEW x \in Visited(r, next)
    PROVE  Visited(x, next) \subseteq Visited(r, next)
<1>1. Closed(Visited(r, next), x, next)
  BY VisitedIsClosed DEF Closed
<1> QED
  BY <1>1, VisitedInSet

\* The start, and what is visited from the next node on.
LEMMA VisitedSplits ==
    ASSUME NEW next, NEW x
    PROVE  Visited(x, next) \subseteq {x} \cup Visited(next[x], next)
<1> DEFINE P == DOMAIN next \cap ({x} \cup Visited(next[x], next))
<1>1. Closed(P, x, next)
  <2>1. Closed(Visited(next[x], next), next[x], next)
    BY VisitedIsClosed
  <2> QED
    BY <2>1 DEF Closed
<1> QED
  BY <1>1, VisitedInSet

\* A node visited is the first one, or follows one visited.
LEMMA VisitedAfter ==
    ASSUME NEW next, NEW r, NEW y \in Visited(r, next), y # r
    PROVE  \E x \in Visited(r, next) : next[x] = y
<1> SUFFICES ASSUME \A x \in Visited(r, next) : next[x] # y
             PROVE  FALSE
  OBVIOUS
<1> DEFINE P == Visited(r, next) \ {y}
<1>1. Closed(P, r, next)
  <2>1. Closed(Visited(r, next), r, next)
    BY VisitedIsClosed
  <2> QED
    BY <2>1 DEF Closed
<1> QED
  BY <1>1, VisitedInSet

\* From every node visited the loop comes to where it ends.
LEMMA VisitedToEnd ==
    ASSUME NEW next, NEW r, NEW e \in Visited(r, next), next[e] \notin DOMAIN next,
           NEW x \in Visited(r, next)
    PROVE  e \in Visited(x, next)
<1> DEFINE P == {y \in Visited(r, next) : e \in Visited(y, next)}
<1>1. Closed(Visited(r, next), r, next)
  BY VisitedIsClosed
<1>2. r \in DOMAIN next
  <2> SUFFICES ASSUME r \notin DOMAIN next
               PROVE  FALSE
    OBVIOUS
  <2>1. Closed({}, r, next)
    BY DEF Closed
  <2> QED
    BY <2>1, VisitedInSet
<1>3. ASSUME NEW y \in P, next[y] \in DOMAIN next
      PROVE  next[y] \in P
  <2>1. y # e /\ next[y] \in Visited(r, next)
    BY <1>1, <1>3 DEF Closed
  <2>2. e \in Visited(next[y], next)
    BY <2>1, <1>3, VisitedSplits
  <2> QED
    BY <2>1, <2>2
<1>4. r \in P
  BY <1>1, <1>2 DEF Closed
<1>5. Closed(P, r, next)
  BY <1>1, <1>2, <1>3, <1>4 DEF Closed
<1>6. x \in P
  BY <1>5, VisitedInSet
<1> QED
  BY <1>6

LEMMA OneEnd ==
    ASSUME NEW next, NEW r, NEW e \in Visited(r, next), next[e] \notin DOMAIN next,
           NEW x \in Visited(r, next), next[x] \notin DOMAIN next
    PROVE  x = e
<1>1. e \in Visited(x, next)
  BY VisitedToEnd
<1>2. Closed({x}, x, next)
  <2>1. x \in DOMAIN next
    BY VisitedIsClosed DEF Closed
  <2> QED
    BY <2>1 DEF Closed
<1> QED
  BY <1>1, <1>2, VisitedInSet

LEMMA EndExists ==
    ASSUME NEW next, Ends(next), NEW r \in DOMAIN next
    PROVE  \E e \in Visited(r, next) : next[e] \notin DOMAIN next
<1>1. Closed(Visited(r, next), r, next)
  BY VisitedIsClosed
<1>2. Visited(r, next) \in SUBSET DOMAIN next /\ Visited(r, next) # {}
  BY <1>1 DEF Closed
<1>3. PICK e \in Visited(r, next) : next[e] \notin Visited(r, next)
  BY <1>2 DEF Ends
<1> QED
  BY <1>1, <1>3 DEF Closed

IsStops(f, next) ==
    f = [x \in DOMAIN next |-> IF next[x] \in DOMAIN next THEN f[next[x]] ELSE x]

LEMMA StopsExists ==
    ASSUME NEW next, Ends(next)
    PROVE  \E f : IsStops(f, next)
<1> DEFINE EndFrom(x) == CHOOSE e \in Visited(x, next) : next[e] \notin DOMAIN next
           f == [x \in DOMAIN next |-> EndFrom(x)]
<1>1. \A x \in DOMAIN next : EndFrom(x) \in Visited(x, next) /\ next[EndFrom(x)] \notin DOMAIN next
  BY EndExists
<1>2. ASSUME NEW x \in DOMAIN next, next[x] \in DOMAIN next
      PROVE  EndFrom(x) = EndFrom(next[x])
  <2>1. x \in Visited(x, next) /\ next[x] \in Visited(x, next)
    BY <1>2, VisitedIsClosed DEF Closed
  <2>2. PICK d : d = EndFrom(x)
    OBVIOUS
  <2>3. PICK e : e = EndFrom(next[x])
    OBVIOUS
  <2>4. d \in Visited(x, next) /\ next[d] \notin DOMAIN next
    BY <1>1, <2>2
  <2>5. e \in Visited(next[x], next) /\ next[e] \notin DOMAIN next
    BY <1>1, <1>2, <2>3
  <2>6. e \in Visited(x, next)
    BY <2>1, <2>5, VisitedOnwards
  <2>7. d = e
    BY <2>4, <2>5, <2>6, OneEnd
  <2> QED
    BY <2>2, <2>3, <2>7
<1>3. ASSUME NEW x \in DOMAIN next, next[x] \notin DOMAIN next
      PROVE  EndFrom(x) = x
  <2>1. x \in Visited(x, next)
    BY VisitedIsClosed DEF Closed
  <2>2. PICK d : d = EndFrom(x)
    OBVIOUS
  <2>3. d \in Visited(x, next) /\ next[d] \notin DOMAIN next
    BY <1>1, <2>2
  <2>4. d = x
    BY <1>3, <2>1, <2>3, OneEnd
  <2> QED
    BY <2>2, <2>4
<1> HIDE DEF EndFrom
<1>4. f = [x \in DOMAIN next |-> IF next[x] \in DOMAIN next THEN f[next[x]] ELSE x]
  BY <1>2, <1>3
<1> QED
  BY <1>4 DEF IsStops

\* A loop that ends stops at the one node visited that is followed by none.
LEMMA StopIs ==
    ASSUME NEW next, Ends(next), NEW r \in DOMAIN next
    PROVE  /\ Stop(r, next) \in Visited(r, next)
           /\ next[Stop(r, next)] \notin DOMAIN next
<1>1. PICK f : IsStops(f, next) /\ f[r] = Stop(r, next)
  <2> DEFINE f == CHOOSE f : IsStops(f, next)
  <2>1. IsStops(f, next)
    BY StopsExists
  <2>2. f[r] = Stop(r, next)
    BY DEF Stop, IsStops
  <2> QED
    BY <2>1, <2>2
<1>2. PICK e \in Visited(r, next) : next[e] \notin DOMAIN next
  BY EndExists
<1> DEFINE P == {x \in Visited(r, next) : f[x] = f[r]}
<1>3. Closed(Visited(r, next), r, next)
  BY VisitedIsClosed
<1>4. Closed(P, r, next)
  <2>1. r \in P
    BY <1>3 DEF Closed
  <2>2. ASSUME NEW x \in P, next[x] \in DOMAIN next
        PROVE  next[x] \in P
    <3>1. f[x] = f[next[x]]
      BY <1>1, <1>3, <2>2 DEF IsStops, Closed
    <3> QED
      BY <1>3, <2>2, <3>1 DEF Closed
  <2> QED
    BY <1>3, <2>1, <2>2 DEF Closed
<1>5. e \in P
  BY <1>4, VisitedInSet
<1>6. e \in DOMAIN next /\ f[e] = e
  BY <1>1, <1>2, <1>3 DEF IsStops, Closed
<1> QED
  BY <1>1, <1>2, <1>5, <1>6

LEMMA StopIsEnd ==
    ASSUME NEW next, Ends(next), NEW r \in DOMAIN next,
           NEW e \in Visited(r, next), next[e] \notin DOMAIN next
    PROVE  Stop(r, next) = e
BY StopIs, OneEnd

\* Part of a loop that ends ends.
LEMMA EndsInPart ==
    ASSUME NEW next, Ends(next), NEW part, DOMAIN part \subseteq DOMAIN next,
           \A x \in DOMAIN part : part[x] = next[x] \/ part[x] \notin DOMAIN part
    PROVE  Ends(part)
<1> SUFFICES ASSUME NEW C \in SUBSET DOMAIN part, C # {}
             PROVE  \E x \in C : part[x] \notin C
  BY DEF Ends
<1>1. PICK x \in C : next[x] \notin C
  BY DEF Ends
<1> QED
  BY <1>1

-----------------------------------------------------------------------------
\* Trees.

Kids(h, x) == {h[x].left, h[x].right} \ {Nil}

Way(h, r, s) == Visited(r, Search(h, s))

PointToNodes(h, r) ==
    /\ r \in Allocated(h) \cup {Nil}
    /\ \A x \in Allocated(h) : Kids(h, x) \subseteq Allocated(h)

OnePointerEach(h, r) ==
    /\ \A x \in Allocated(h) : r \notin Kids(h, x)
    /\ \A x, y \in Allocated(h) : x # y => Kids(h, x) \cap Kids(h, y) = {}
    /\ \A x \in Allocated(h) : h[x].left = h[x].right => h[x].left = Nil

\* The way to the socket of a node comes to the node.
AllFound(h, r) == \A x \in Allocated(h) : x \in Way(h, r, h[x].socket)

IsTree(h, r) ==
    /\ h \in [Addresses -> Node \cup {Nil}]
    /\ PointToNodes(h, r) /\ OnePointerEach(h, r) /\ AllFound(h, r)
    /\ IsFiniteSet(Allocated(h))

LEMMA NodeFacts ==
    ASSUME NEW h \in [Addresses -> Node \cup {Nil}]
    PROVE  /\ Nil \notin Allocated(h)
           /\ \A x \in Allocated(h) :
                /\ x \in Addresses /\ h[x] \in Node /\ h[x].socket \in Nat
                /\ h[x].left \in Addresses \cup {Nil} /\ h[x].right \in Addresses \cup {Nil}
<1>1. Sockets \subseteq Nat /\ Nil \notin Addresses \cup Node
  BY TreeAssumption
<1>2. \A x \in Allocated(h) : x \in Addresses /\ h[x] \in Node
  BY DEF Allocated
<1>3. \A n \in Node : /\ n.socket \in Sockets
                      /\ n.left \in Addresses \cup {Nil} /\ n.right \in Addresses \cup {Nil}
  BY DEF Node
<1> QED
  BY <1>1, <1>2, <1>3 DEF Allocated

LEMMA SearchFacts ==
    ASSUME NEW h, NEW s
    PROVE  /\ DOMAIN Search(h, s) = Allocated(h)
           /\ \A x \in Allocated(h) :
                Search(h, s)[x] = IF h[x].socket = s THEN Nil
                                  ELSE IF s < h[x].socket THEN h[x].left ELSE h[x].right
BY DEF Search, Child

\* A step of a search leads to a child.
LEMMA SearchGoesDown ==
    ASSUME NEW h, NEW s, NEW r, IsTree(h, r), NEW x \in Allocated(h),
           NEW y \in Allocated(h), Search(h, s)[x] = y
    PROVE  y \in Kids(h, x) /\ h[x].socket # s
BY SearchFacts, NodeFacts DEF Kids, IsTree

LEMMA WayIn ==
    ASSUME NEW h, NEW r, NEW s
    PROVE  Way(h, r, s) \subseteq Allocated(h)
BY SearchFacts DEF Way, Visited

\* Every loop that goes from a node to a child ends.
LEMMA DescentEnds ==
    ASSUME NEW h, NEW r, IsTree(h, r), NEW next, DOMAIN next = Allocated(h),
           \A x \in Allocated(h) : next[x] \in Kids(h, x) \/ next[x] \notin Allocated(h)
    PROVE  Ends(next)
<1> SUFFICES ASSUME NEW C \in SUBSET Allocated(h), C # {}, \A x \in C : next[x] \in C
             PROVE  FALSE
  BY DEF Ends
<1> DEFINE f == [x \in C |-> next[x]]
<1>1. \A x \in C : next[x] \in Kids(h, x)
  OBVIOUS
<1>2. f \in Injection(C, C)
  <2>1. \A x, y \in C : next[x] = next[y] => x = y
    BY <1>1 DEF IsTree, OnePointerEach
  <2>2. f \in [C -> C]
    OBVIOUS
  <2>3. \A x, y \in C : f[x] = f[y] => x = y
    BY <2>1
  <2> QED
    BY <2>2, <2>3 DEF Injection, IsInjective
<1>3. IsFiniteSet(C)
  BY FS_Subset DEF IsTree
<1>4. f \in Surjection(C, C)
  BY <1>2, <1>3, FS_Injection
<1>5. \A y \in C : \E x \in C : next[x] = y
  <2>1. \A y \in C : \E x \in C : f[x] = y
    BY <1>4 DEF Surjection
  <2> QED
    BY <2>1
<1>6. PICK x : x \in C
  OBVIOUS
<1>7. PICK s : s = h[x].socket
  OBVIOUS
<1>8. Closed(Allocated(h) \ C, r, Search(h, s))
  <2>1. r \notin C
    BY <1>1, <1>5 DEF IsTree, OnePointerEach
  <2>2. ASSUME NEW y \in Allocated(h) \ C, Search(h, s)[y] \in Allocated(h)
        PROVE  Search(h, s)[y] \notin C
    <3> SUFFICES ASSUME Search(h, s)[y] \in C
                 PROVE  FALSE
      OBVIOUS
    <3>1. PICK w \in C : next[w] = Search(h, s)[y]
      BY <1>5
    <3>2. next[w] \in Kids(h, w) /\ next[w] \in Kids(h, y) /\ w # y
      BY <1>1, <2>2, <3>1, SearchGoesDown
    <3> QED
      BY <3>2 DEF IsTree, OnePointerEach
  <2> QED
    BY <2>1, <2>2, SearchFacts DEF Closed
<1>9. x \in Way(h, r, s)
  BY <1>6, <1>7 DEF IsTree, AllFound
<1> QED
  BY <1>6, <1>8, <1>9, VisitedInSet DEF Way

LEMMA SearchEnds ==
    ASSUME NEW h, NEW r, IsTree(h, r), NEW s
    PROVE  Ends(Search(h, s))
<1>1. \A x \in Allocated(h) : Search(h, s)[x] \in Kids(h, x) \/ Search(h, s)[x] \notin Allocated(h)
  BY SearchGoesDown
<1> QED
  BY <1>1, SearchFacts, DescentEnds

LEMMA LeftwardEnds ==
    ASSUME NEW h, NEW r, IsTree(h, r)
    PROVE  Ends(Leftward(h))
<1>1. DOMAIN Leftward(h) = Allocated(h) /\ \A x \in Allocated(h) : Leftward(h)[x] = h[x].left
  BY DEF Leftward
<1>2. \A x \in Allocated(h) : h[x].left \in Kids(h, x) \/ h[x].left \notin Allocated(h)
  BY NodeFacts DEF Kids, IsTree
<1> QED
  BY <1>1, <1>2, DescentEnds

\* A node is where the way to its socket ends.
LEMMA NodeIsEnd ==
    ASSUME NEW h, NEW r, IsTree(h, r), NEW x \in Allocated(h)
    PROVE  /\ x \in Way(h, r, h[x].socket)
           /\ Search(h, h[x].socket)[x] \notin Allocated(h)
           /\ r \in Allocated(h)
<1>1. x \in Way(h, r, h[x].socket)
  BY DEF IsTree, AllFound
<1>2. Search(h, h[x].socket)[x] \notin Allocated(h)
  BY SearchFacts, NodeFacts DEF IsTree
<1>3. r \in Allocated(h)
  <2> SUFFICES ASSUME r \notin Allocated(h)
               PROVE  FALSE
    OBVIOUS
  <2>1. Closed({}, r, Search(h, h[x].socket))
    BY SearchFacts DEF Closed
  <2> QED
    BY <1>1, <2>1, VisitedInSet DEF Way
<1> QED
  BY <1>1, <1>2, <1>3

\* No two nodes are of one socket.
LEMMA OneNodeEach ==
    ASSUME NEW h, NEW r, IsTree(h, r), NEW x \in Allocated(h), NEW y \in Allocated(h),
           h[x].socket = h[y].socket
    PROVE  x = y
<1>1. x \in Way(h, r, h[y].socket) /\ Search(h, h[y].socket)[x] \notin Allocated(h)
  BY NodeIsEnd
<1>2. y \in Way(h, r, h[y].socket) /\ Search(h, h[y].socket)[y] \notin Allocated(h)
  BY NodeIsEnd
<1> QED
  BY <1>1, <1>2, SearchFacts, OneEnd DEF Way

\* mx_find_socket_elem finds the node of the socket, if there is one.
LEMMA FindIs ==
    ASSUME NEW h, NEW r, IsTree(h, r), NEW s
    PROVE  /\ \A x \in Allocated(h) : h[x].socket = s => Find(h, r, s) = x
           /\ Find(h, r, s) # Nil =>
                Find(h, r, s) \in Allocated(h) /\ h[Find(h, r, s)].socket = s
<1>1. ASSUME NEW x \in Allocated(h), h[x].socket = s
      PROVE  Find(h, r, s) = x
  <2>1. /\ x \in Visited(r, Search(h, s)) /\ r \in DOMAIN Search(h, s)
        /\ Search(h, s)[x] \notin DOMAIN Search(h, s)
    BY <1>1, NodeIsEnd, SearchFacts DEF Way
  <2>2. Stop(r, Search(h, s)) = x
    BY <2>1, SearchEnds, StopIsEnd
  <2>3. r # Nil
    BY <2>1, SearchFacts, NodeFacts DEF IsTree
  <2> QED
    BY <1>1, <2>2, <2>3 DEF Find
<1>2. ASSUME Find(h, r, s) # Nil
      PROVE  Find(h, r, s) \in Allocated(h) /\ h[Find(h, r, s)].socket = s
  <2>1. /\ r # Nil /\ Find(h, r, s) = Stop(r, Search(h, s))
        /\ h[Find(h, r, s)].socket = s
    BY <1>2 DEF Find
  <2>2. r \in DOMAIN Search(h, s)
    BY <2>1, SearchFacts DEF IsTree, PointToNodes
  <2>3. Stop(r, Search(h, s)) \in Way(h, r, s)
    BY <2>2, SearchEnds, StopIs DEF Way
  <2> QED
    BY <2>1, <2>3, WayIn
<1> QED
  BY <1>1, <1>2

\* The parent of a node is before it on the way to its socket, and on its side.
LEMMA ParentOnWay ==
    ASSUME NEW h, NEW r, IsTree(h, r), NEW p \in Allocated(h), NEW b \in Kids(h, p)
    PROVE  /\ b \in Allocated(h)
           /\ p \in Way(h, r, h[b].socket) /\ Search(h, h[b].socket)[p] = b
           /\ b = h[p].left => h[b].socket < h[p].socket
           /\ b = h[p].right => h[p].socket < h[b].socket
<1>1. b \in Allocated(h) /\ b # r
  BY DEF IsTree, PointToNodes, OnePointerEach
<1>2. PICK s : s = h[b].socket
  OBVIOUS
<1>3. b \in Visited(r, Search(h, s))
  BY <1>1, <1>2, NodeIsEnd DEF Way
<1>4. PICK x \in Way(h, r, s) : Search(h, s)[x] = b
  BY <1>1, <1>3, VisitedAfter DEF Way
<1>5. x \in Allocated(h)
  BY <1>4, WayIn
<1>6. x = p
  <2>1. b \in Kids(h, x)
    BY <1>1, <1>4, <1>5, SearchGoesDown
  <2> QED
    BY <1>5, <2>1 DEF IsTree, OnePointerEach
<1>7. h[p].socket \in Nat /\ s \in Nat
  BY <1>1, <1>2, NodeFacts DEF IsTree
<1>8. b # Nil /\ (h[p].left = h[p].right => h[p].left = Nil)
  BY DEF Kids, IsTree, OnePointerEach
<1>9. b = IF h[p].socket = s THEN Nil
          ELSE IF s < h[p].socket THEN h[p].left ELSE h[p].right
  BY <1>4, <1>6, SearchFacts
<1>10. b = h[p].left => s < h[p].socket
  BY <1>8, <1>9
<1>11. b = h[p].right => h[p].socket < s
  BY <1>7, <1>8, <1>9
<1> QED
  BY <1>1, <1>2, <1>4, <1>6, <1>10, <1>11

-----------------------------------------------------------------------------
\* A node is added.

SameAt(h, g, x) ==
    g[x].socket = h[x].socket /\ g[x].tls = h[x].tls /\ g[x].lock = h[x].lock

LEMMA VisitsMore ==
    ASSUME NEW next, NEW more, NEW r, DOMAIN next \subseteq DOMAIN more,
           \A x \in DOMAIN next : next[x] \in DOMAIN next => more[x] = next[x]
    PROVE  Visited(r, next) \subseteq Visited(r, more)
<1> DEFINE P == DOMAIN next \cap Visited(r, more)
<1>1. Closed(P, r, next)
  <2>1. Closed(Visited(r, more), r, more)
    BY VisitedIsClosed
  <2> QED
    BY <2>1 DEF Closed
<1> QED
  BY <1>1, VisitedInSet

LEMMA SetChildIs ==
    ASSUME NEW h \in [Addresses -> Node \cup {Nil}], NEW p \in Allocated(h), NEW s,
           NEW c \in Addresses \cup {Nil}, NEW g, g = SetChild(h, p, s, c)
    PROVE  /\ g \in [Addresses -> Node \cup {Nil}] /\ Allocated(g) = Allocated(h)
           /\ \A x \in Addresses : x # p => g[x] = h[x]
           /\ SameAt(h, g, p)
           /\ g[p].left = IF s < h[p].socket THEN c ELSE h[p].left
           /\ g[p].right = IF s < h[p].socket THEN h[p].right ELSE c
<1>1. p \in Addresses /\ h[p] \in Node /\ Nil \notin Node
  BY NodeFacts, TreeAssumption
<1>2. PICK n : n = IF s < h[p].socket THEN [h[p] EXCEPT !.left = c] ELSE [h[p] EXCEPT !.right = c]
  OBVIOUS
<1>3. /\ n \in Node /\ n.socket = h[p].socket /\ n.tls = h[p].tls /\ n.lock = h[p].lock
      /\ n.left = IF s < h[p].socket THEN c ELSE h[p].left
      /\ n.right = IF s < h[p].socket THEN h[p].right ELSE c
  BY <1>1, <1>2 DEF Node
<1>4. g = [h EXCEPT ![p] = n]
  BY <1>1, <1>2 DEF SetChild
<1>5. g[p] = n /\ \A x \in Addresses : x # p => g[x] = h[x]
  BY <1>1, <1>4
<1>6. g \in [Addresses -> Node \cup {Nil}]
  BY <1>1, <1>3, <1>4
<1>7. Allocated(g) = Allocated(h)
  BY <1>1, <1>3, <1>5 DEF Allocated
<1> QED
  BY <1>3, <1>5, <1>6, <1>7 DEF SameAt

\* The node a, without children, is hung from p.
LEMMA HungFromNode ==
    ASSUME NEW h, NEW r, IsTree(h, r), NEW a \in Addresses \ Allocated(h), NEW g,
           NEW p \in Allocated(h), NEW s \in Nat,
           p \in Way(h, r, s), Search(h, s)[p] = Nil, h[p].socket # s,
           g \in [Addresses -> Node \cup {Nil}], Allocated(g) = Allocated(h) \cup {a},
           g[a].socket = s, g[a].left = Nil, g[a].right = Nil,
           \A x \in Allocated(h) :
              /\ SameAt(h, g, x)
              /\ g[x].left = IF x = p /\ s < h[p].socket THEN a ELSE h[x].left
              /\ g[x].right = IF x = p /\ ~(s < h[p].socket) THEN a ELSE h[x].right
    PROVE  IsTree(g, r)
<1>1. a # Nil /\ Nil \notin Allocated(h)
  BY NodeFacts, TreeAssumption DEF IsTree
<1>2. IF s < h[p].socket THEN h[p].left = Nil ELSE h[p].right = Nil
  BY SearchFacts
<1>3. /\ Kids(g, a) = {}
      /\ Kids(g, p) = Kids(h, p) \cup {a}
      /\ \A x \in Allocated(h) : x # p => Kids(g, x) = Kids(h, x)
  BY <1>1, <1>2 DEF Kids
<1>4. r \in Allocated(h)
  BY NodeIsEnd
<1>5. PointToNodes(g, r)
  BY <1>3, <1>4 DEF IsTree, PointToNodes
<1>6. OnePointerEach(g, r)
  <2>1. a # r /\ \A x \in Allocated(h) : a \notin Kids(h, x) /\ a # h[x].left /\ a # h[x].right
    BY <1>1, <1>4 DEF IsTree, PointToNodes, Kids
  <2>2. \A x \in Allocated(g) : r \notin Kids(g, x)
    BY <1>3, <2>1 DEF IsTree, OnePointerEach
  <2>3. \A x, y \in Allocated(g) : x # y => Kids(g, x) \cap Kids(g, y) = {}
    BY <1>3, <2>1 DEF IsTree, OnePointerEach
  <2>4. \A x \in Allocated(g) : g[x].left = g[x].right => g[x].left = Nil
    BY <1>2, <2>1 DEF IsTree, OnePointerEach
  <2> QED
    BY <2>2, <2>3, <2>4 DEF OnePointerEach
<1>7. ASSUME NEW t
      PROVE  \A x \in Allocated(h) : Search(h, t)[x] \in Allocated(h) =>
                 Search(g, t)[x] = Search(h, t)[x]
  <2> SUFFICES ASSUME NEW x \in Allocated(h), Search(h, t)[x] \in Allocated(h)
               PROVE  Search(g, t)[x] = Search(h, t)[x]
    OBVIOUS
  <2>1. g[x].socket = h[x].socket
    BY DEF SameAt
  <2>2. Search(h, t)[x] = IF h[x].socket = t THEN Nil
                          ELSE IF t < h[x].socket THEN h[x].left ELSE h[x].right
    BY SearchFacts
  <2>3. Search(g, t)[x] = IF g[x].socket = t THEN Nil
                          ELSE IF t < g[x].socket THEN g[x].left ELSE g[x].right
    BY SearchFacts
  <2> QED
    BY <1>1, <1>2, <2>1, <2>2, <2>3
<1>8. ASSUME NEW t
      PROVE  Way(h, r, t) \subseteq Way(g, r, t)
  BY <1>7, SearchFacts, VisitsMore DEF Way
<1>9. ASSUME NEW x \in Allocated(h)
      PROVE  x \in Way(g, r, g[x].socket)
  BY <1>8 DEF IsTree, AllFound, SameAt
<1>10. a \in Way(g, r, s)
  <2>1. p \in Way(g, r, s)
    BY <1>8
  <2>2. Search(g, s)[p] = a
    <3>1. g[p].socket = h[p].socket
      BY DEF SameAt
    <3> QED
      BY <3>1, SearchFacts
  <2> QED
    BY <2>1, <2>2, SearchFacts, VisitedIsClosed DEF Way, Closed
<1>11. IsFiniteSet(Allocated(g))
  BY FS_AddElement DEF IsTree
<1> QED
  BY <1>5, <1>6, <1>9, <1>10, <1>11 DEF IsTree, AllFound

\* mx_add_socket_elem: from the tree at r in h to the one at q in g, with the node a.
Hung(h, r, g, q, a, s, k) ==
    LET f == [h EXCEPT ![a] = NewNode(s, k)]
    IN  IF r = Nil THEN g = f /\ q = a
        ELSE g = SetChild(f, Above(h, r, s), s, a) /\ q = r

LEMMA TreeAdded ==
    ASSUME NEW h, NEW r, IsTree(h, r), NEW a \in Addresses \ Allocated(h),
           NEW s \in Sockets, NEW k \in Connections, \A x \in Allocated(h) : h[x].socket # s,
           NEW g, NEW q, Hung(h, r, g, q, a, s, k)
    PROVE  /\ IsTree(g, q) /\ Allocated(g) = Allocated(h) \cup {a}
           /\ \A x \in Allocated(h) : SameAt(h, g, x)
           /\ g[a].socket = s /\ g[a].tls = k /\ g[a].lock = Nobody
<1>1. /\ NewNode(s, k) \in Node /\ NewNode(s, k) # Nil /\ s \in Nat
      /\ NewNode(s, k).socket = s /\ NewNode(s, k).tls = k /\ NewNode(s, k).lock = Nobody
      /\ NewNode(s, k).left = Nil /\ NewNode(s, k).right = Nil
  BY TreeAssumption DEF NewNode, Node
<1>2. h \in [Addresses -> Node \cup {Nil}]
  BY DEF IsTree
<1>f. PICK f : f = [h EXCEPT ![a] = NewNode(s, k)]
  OBVIOUS
<1>h. IF r = Nil THEN g = f /\ q = a
      ELSE g = SetChild(f, Above(h, r, s), s, a) /\ q = r
  BY <1>f DEF Hung
<1>3. /\ f \in [Addresses -> Node \cup {Nil}] /\ f[a] = NewNode(s, k)
      /\ \A x \in Addresses : x # a => f[x] = h[x]
  BY <1>1, <1>2, <1>f
<1>4. Allocated(f) = Allocated(h) \cup {a} /\ Nil \notin Allocated(h)
  BY <1>1, <1>2, <1>3, NodeFacts DEF Allocated
<1>5. \A x \in Allocated(h) : x \in Addresses /\ x # a /\ f[x] = h[x]
  BY <1>2, <1>3, NodeFacts
<1>6. CASE r = Nil
  <2>1. Allocated(h) = {}
    BY <1>4, <1>6, NodeIsEnd
  <2>2. g = f /\ q = a
    BY <1>6, <1>h
  <2>3. Kids(f, a) = {}
    BY <1>1, <1>3 DEF Kids
  <2>4. Allocated(f) = {a}
    BY <1>4, <2>1
  <2>5. PointToNodes(f, a) /\ OnePointerEach(f, a)
    BY <1>1, <1>3, <2>3, <2>4 DEF PointToNodes, OnePointerEach
  <2>6. a \in Way(f, a, s)
    <3>1. a \in DOMAIN Search(f, s)
      BY <2>4, SearchFacts
    <3>2. Closed(Visited(a, Search(f, s)), a, Search(f, s))
      BY VisitedIsClosed
    <3> QED
      BY <3>1, <3>2 DEF Way, Closed
  <2>7. IsFiniteSet(Allocated(f))
    BY <1>4, FS_AddElement DEF IsTree
  <2>8. AllFound(f, a)
    BY <1>1, <1>3, <2>4, <2>6 DEF AllFound
  <2> QED
    BY <1>1, <1>3, <1>4, <2>1, <2>2, <2>5, <2>7, <2>8 DEF IsTree
<1>7. CASE r # Nil
  <2>1. r \in DOMAIN Search(h, s)
    BY <1>7, SearchFacts DEF IsTree, PointToNodes
  <2>2. PICK p : p = Above(h, r, s)
    OBVIOUS
  <2>3. p \in Way(h, r, s) /\ Search(h, s)[p] \notin Allocated(h)
    BY <2>1, <2>2, SearchEnds, StopIs, SearchFacts DEF Above, Way
  <2>4. p \in Allocated(h)
    BY <2>3, WayIn
  <2>5. Search(h, s)[p] = Nil
    <3>1. Kids(h, p) \subseteq Allocated(h)
      BY <2>4 DEF IsTree, PointToNodes
    <3> QED
      BY <2>3, <2>4, <3>1, SearchFacts DEF Kids
  <2>6. g = SetChild(f, p, s, a) /\ q = r /\ p \in Allocated(f) /\ p # a /\ p \in Addresses
    BY <1>4, <1>5, <1>7, <1>h, <2>2, <2>4
  <2>7. /\ g \in [Addresses -> Node \cup {Nil}] /\ Allocated(g) = Allocated(f)
        /\ \A x \in Addresses : x # p => g[x] = f[x]
        /\ SameAt(f, g, p)
        /\ g[p].left = IF s < f[p].socket THEN a ELSE f[p].left
        /\ g[p].right = IF s < f[p].socket THEN f[p].right ELSE a
    <3>1. f \in [Addresses -> Node \cup {Nil}] /\ a \in Addresses \cup {Nil}
      BY <1>3
    <3>2. p \in Allocated(f) /\ g = SetChild(f, p, s, a)
      BY <2>6
    <3> QED
      BY ONLY <3>1, <3>2, SetChildIs
  <2>8. ASSUME NEW x \in Allocated(h)
        PROVE  /\ SameAt(h, g, x)
               /\ g[x].left = IF x = p /\ s < h[p].socket THEN a ELSE h[x].left
               /\ g[x].right = IF x = p /\ ~(s < h[p].socket) THEN a ELSE h[x].right
    <3>1. CASE x = p
      BY <1>5, <2>4, <2>7, <3>1 DEF SameAt
    <3>2. CASE x # p
      BY <1>5, <2>7, <2>8, <3>2 DEF SameAt
    <3> QED
      BY <3>1, <3>2
  <2>9. /\ g[a].socket = s /\ g[a].tls = k /\ g[a].lock = Nobody
        /\ g[a].left = Nil /\ g[a].right = Nil
    BY <1>1, <1>3, <2>6, <2>7
  <2>10. IsTree(g, r)
    <3>1. IsTree(h, r) /\ a \in Addresses \ Allocated(h) /\ s \in Nat
      BY <1>1
    <3>2. g \in [Addresses -> Node \cup {Nil}] /\ Allocated(g) = Allocated(h) \cup {a}
      BY <1>4, <2>7
    <3>3. h[p].socket # s
      BY <2>4
    <3>4. \A x \in Allocated(h) :
              /\ SameAt(h, g, x)
              /\ g[x].left = IF x = p /\ s < h[p].socket THEN a ELSE h[x].left
              /\ g[x].right = IF x = p /\ ~(s < h[p].socket) THEN a ELSE h[x].right
      BY <2>8
    <3>5. g[a].socket = s /\ g[a].left = Nil /\ g[a].right = Nil
      BY <2>9
    <3> QED
      BY ONLY <2>3, <2>4, <2>5, <3>1, <3>2, <3>3, <3>4, <3>5, HungFromNode
  <2> QED
    BY <1>4, <2>6, <2>7, <2>8, <2>9, <2>10
<1> QED
  BY <1>6, <1>7

-----------------------------------------------------------------------------
\* A node is deleted.

\* The node m, with c for its only child or no child, gives way to c: from h to g.
GivesWay(h, g, m, c) ==
    /\ Kids(h, m) = {c} \ {Nil}
    /\ g \in [Addresses -> Node \cup {Nil}]
    /\ Allocated(g) = Allocated(h) \ {m}
    /\ \A x \in Allocated(g) :
          /\ SameAt(h, g, x)
          /\ g[x].left = IF h[x].left = m THEN c ELSE h[x].left
          /\ g[x].right = IF h[x].right = m THEN c ELSE h[x].right

LEMMA NodeRemoved ==
    ASSUME NEW h, NEW r, IsTree(h, r), NEW m \in Allocated(h),
           NEW c, NEW g, GivesWay(h, g, m, c), NEW q, q = IF r = m THEN c ELSE r
    PROVE  IsTree(g, q)
<1> USE DEF GivesWay
<1>1. Nil \notin Allocated(h) /\ m # Nil
  BY NodeFacts DEF IsTree
<1>2. m \notin Kids(h, m)
  <2> SUFFICES ASSUME m \in Kids(h, m)
               PROVE  FALSE
    OBVIOUS
  <2>1. h[m].socket \in Nat
    BY NodeFacts DEF IsTree
  <2>2. ~(h[m].socket < h[m].socket)
    BY <2>1
  <2>3. m # h[m].left /\ m # h[m].right
    BY <2>2, ParentOnWay
  <2> QED
    BY <2>3 DEF Kids
<1>3. c = Nil \/ (c \in Kids(h, m) /\ c \in Allocated(g) /\ c # r)
  <2>1. Kids(h, m) \subseteq Allocated(h) /\ r \notin Kids(h, m)
    BY DEF IsTree, PointToNodes, OnePointerEach
  <2> QED
    BY <1>2, <2>1
<1>4. \A x \in Allocated(g) :
          Kids(g, x) = IF m \in Kids(h, x) THEN (Kids(h, x) \ {m}) \cup ({c} \ {Nil})
                       ELSE Kids(h, x)
  BY <1>1 DEF Kids
<1>5. \A x \in Allocated(g) : c \notin Kids(h, x)
  BY <1>3 DEF IsTree, OnePointerEach, Kids
<1>6. PointToNodes(g, q)
  BY <1>3, <1>4 DEF IsTree, PointToNodes
<1>7. OnePointerEach(g, q)
  <2>1. ASSUME NEW x \in Allocated(g)
        PROVE  q \notin Kids(g, x)
    <3>1. r \notin Kids(h, x) /\ Nil \notin Kids(g, x)
      BY DEF IsTree, OnePointerEach, Kids
    <3>2. CASE r = m
      BY <1>4, <1>5, <3>1, <3>2
    <3>3. CASE r # m
      BY <1>3, <1>4, <3>1, <3>3
    <3> QED
      BY <3>2, <3>3
  <2>2. ASSUME NEW x \in Allocated(g), NEW y \in Allocated(g), x # y
        PROVE  Kids(g, x) \cap Kids(g, y) = {}
    <3>1. Kids(h, x) \cap Kids(h, y) = {}
      BY <2>2 DEF IsTree, OnePointerEach
    <3> QED
      BY <1>4, <1>5, <3>1
  <2>3. ASSUME NEW x \in Allocated(g), g[x].left = g[x].right
        PROVE  g[x].left = Nil
    <3>1. h[x].left = h[x].right => h[x].left = Nil
      BY DEF IsTree, OnePointerEach
    <3>2. c # Nil => c # h[x].left /\ c # h[x].right
      BY <1>5 DEF Kids
    <3> QED
      BY <1>1, <2>3, <3>1, <3>2
  <2> QED
    BY <2>1, <2>2, <2>3 DEF OnePointerEach
<1>8. ASSUME NEW t, NEW y \in Allocated(g)
      PROVE  Search(g, t)[y] = IF Search(h, t)[y] = m THEN c ELSE Search(h, t)[y]
  <2>1. g[y].socket = h[y].socket /\ y \in Allocated(h)
    BY DEF SameAt
  <2>2. Search(h, t)[y] = IF h[y].socket = t THEN Nil
                          ELSE IF t < h[y].socket THEN h[y].left ELSE h[y].right
    BY <2>1, SearchFacts
  <2>3. Search(g, t)[y] = IF g[y].socket = t THEN Nil
                          ELSE IF t < g[y].socket THEN g[y].left ELSE g[y].right
    BY SearchFacts
  <2> QED
    BY <1>1, <2>1, <2>2, <2>3
<1>9. ASSUME NEW x \in Allocated(g)
      PROVE  x \in Way(g, q, g[x].socket)
  <2>1. PICK t : t = h[x].socket /\ t = g[x].socket
    BY DEF SameAt
  <2> DEFINE P == {y \in Allocated(h) : IF y = m THEN c \in Allocated(g) => c \in Way(g, q, t)
                                        ELSE y \in Way(g, q, t)}
  <2>2. /\ q \in Allocated(g) => q \in Way(g, q, t)
        /\ \A y \in Way(g, q, t) :
              Search(g, t)[y] \in Allocated(g) => Search(g, t)[y] \in Way(g, q, t)
    BY VisitedIsClosed, SearchFacts DEF Way, Closed
  <2>3. r \in Allocated(h) => r \in P
    BY <2>2
  <2>4. ASSUME NEW y \in P, Search(h, t)[y] \in Allocated(h)
        PROVE  Search(h, t)[y] \in P
    <3>1. Search(h, t)[y] \in Kids(h, y)
      BY <2>4, SearchGoesDown
    <3>2. CASE y = m
      <4>1. Search(h, t)[y] = c /\ c # m
        BY <1>2, <3>1, <3>2
      <4> QED
        BY <2>4, <3>2, <4>1
    <3>3. CASE y # m
      <4>1. y \in Allocated(g) /\ y \in Way(g, q, t)
        BY <2>4, <3>3
      <4>2. CASE Search(h, t)[y] = m
        BY <1>8, <2>2, <4>1, <4>2
      <4>3. CASE Search(h, t)[y] # m
        BY <1>8, <2>2, <2>4, <4>1, <4>3
      <4> QED
        BY <4>2, <4>3
    <3> QED
      BY <3>2, <3>3
  <2>5. Closed(P, r, Search(h, t))
    <3> HIDE DEF P
    <3>1. P \subseteq Allocated(h)
      BY DEF P
    <3> QED
      BY <2>3, <2>4, <3>1, SearchFacts DEF Closed
  <2>6. x \in P
    <3>1. x \in Way(h, r, t)
      BY <2>1 DEF IsTree, AllFound
    <3> QED
      BY <2>5, <3>1, VisitedInSet DEF Way
  <2> QED
    BY <2>1, <2>6
<1>10. IsFiniteSet(Allocated(g))
  BY FS_Subset DEF IsTree
<1> QED
  BY <1>6, <1>7, <1>9, <1>10 DEF IsTree, AllFound

\* The node a is given another socket t that no node is of, with no node between
\* the old and the new.
LEMMA NodeRenamed ==
    ASSUME NEW h, NEW r, IsTree(h, r), NEW a \in Allocated(h), NEW t \in Nat,
           \A x \in Allocated(h) : x # a => /\ h[x].socket # t
                                            /\ h[a].socket < h[x].socket <=> t < h[x].socket,
           NEW g, g \in [Addresses -> Node \cup {Nil}], Allocated(g) = Allocated(h),
           g[a].socket = t,
           \A x \in Allocated(h) : /\ x # a => SameAt(h, g, x)
                                   /\ g[x].left = h[x].left /\ g[x].right = h[x].right
    PROVE  IsTree(g, r)
<1>1. \A x \in Allocated(h) : Kids(g, x) = Kids(h, x)
  BY DEF Kids
<1>2. PointToNodes(g, r) /\ OnePointerEach(g, r)
  BY <1>1 DEF IsTree, PointToNodes, OnePointerEach
<1>3. PICK s : s = h[a].socket /\ s \in Nat
  BY NodeFacts DEF IsTree
<1>4. \A x \in Allocated(h) : x # a => h[x].socket # s /\ h[x].socket \in Nat
  BY <1>3, OneNodeEach, NodeFacts DEF IsTree
<1>5. ASSUME NEW x \in Allocated(h), x # a
      PROVE  Search(g, h[x].socket) = Search(h, h[x].socket)
  <2>1. PICK u : u = h[x].socket
    OBVIOUS
  <2>2. u \in Nat /\ u # s /\ u # t /\ (s < u <=> t < u)
    BY <1>3, <1>4, <1>5, <2>1
  <2>3. ASSUME NEW y \in Allocated(h)
        PROVE  Search(g, u)[y] = Search(h, u)[y]
    <3>1. CASE y = a
      <4>1. u < s <=> u < t
        BY <1>3, <2>2
      <4> QED
        BY <1>3, <2>2, <3>1, <4>1, SearchFacts
    <3>2. CASE y # a
      BY <3>2, SearchFacts DEF SameAt
    <3> QED
      BY <3>1, <3>2
  <2>4. Search(g, u) = Search(h, u)
    BY <2>3 DEF Search
  <2> QED
    BY <2>1, <2>4
<1>6. Search(g, t) = Search(h, s)
  <2>1. ASSUME NEW y \in Allocated(h)
        PROVE  Search(g, t)[y] = Search(h, s)[y]
    <3>1. CASE y = a
      BY <1>3, <3>1, SearchFacts
    <3>2. CASE y # a
      <4>1. g[y].socket = h[y].socket
        BY <3>2 DEF SameAt
      <4>2. h[y].socket # s /\ h[y].socket # t /\ (s < h[y].socket <=> t < h[y].socket)
        BY <1>3, <1>4, <3>2
      <4> QED
        BY <4>1, <4>2, SearchFacts
    <3> QED
      BY <3>1, <3>2
  <2> QED
    BY <2>1 DEF Search
<1>7. ASSUME NEW x \in Allocated(h)
      PROVE  x \in Way(g, r, g[x].socket)
  <2>1. x \in Way(h, r, h[x].socket)
    BY DEF IsTree, AllFound
  <2>2. CASE x = a
    BY <1>3, <1>6, <2>1, <2>2 DEF Way
  <2>3. CASE x # a
    BY <1>5, <2>1, <2>3 DEF Way, SameAt
  <2> QED
    BY <2>2, <2>3
<1> QED
  BY <1>2, <1>7 DEF IsTree, AllFound

Without(h, m) == [h EXCEPT ![m] = Nil]

\* In the tree at q, of which m is not the root, the way to m's socket ends at the
\* node above m once m is freed.
LEMMA AboveFreed ==
    ASSUME NEW h, NEW r, IsTree(h, r), NEW m \in Allocated(h), NEW s, s = h[m].socket,
           NEW q \in Allocated(h), q # m, m \in Way(h, q, s),
           NEW f, f = Without(h, m)
    PROVE  /\ Above(f, q, s) \in Allocated(h) \ {m}
           /\ Search(h, s)[Above(f, q, s)] = m
<1> USE DEF Without
<1>1. f[m] = Nil /\ \A x \in Addresses : x # m => f[x] = h[x]
  BY NodeFacts DEF IsTree
<1>2. Allocated(f) = Allocated(h) \ {m}
  BY <1>1 DEF Allocated
<1>d. DOMAIN Search(h, s) = Allocated(h) /\ DOMAIN Search(f, s) = Allocated(f)
  BY SearchFacts
<1>3. ASSUME NEW x \in Allocated(f)
      PROVE  Search(f, s)[x] = Search(h, s)[x]
  <2>1. f[x] = h[x] /\ x \in Allocated(h)
    BY <1>1, <1>2 DEF Allocated
  <2> QED
    BY <2>1 DEF Search
<1>4. Ends(Search(f, s))
  <2>1. Ends(Search(h, s))
    BY SearchEnds
  <2> QED
    BY <1>2, <1>d, <1>3, <2>1, EndsInPart
<1>5. PICK p : p = Above(f, q, s)
  OBVIOUS
<1>6. p \in Visited(q, Search(f, s)) /\ Search(f, s)[p] \notin Allocated(f)
  <2>1. q \in DOMAIN Search(f, s)
    BY <1>2, <1>d
  <2> QED
    BY <1>4, <1>5, <1>d, <2>1, StopIs DEF Above
<1>7. p \in Allocated(f)
  BY <1>6, <1>d DEF Visited
<1>8. p \in Way(h, q, s)
  <2>1. Visited(q, Search(f, s)) \subseteq Visited(q, Search(h, s))
    BY <1>2, <1>3, <1>d, VisitsMore
  <2> QED
    BY <1>6, <2>1 DEF Way
<1>9. Search(h, s)[p] = m
  <2> SUFFICES ASSUME Search(h, s)[p] # m
               PROVE  FALSE
    OBVIOUS
  <2>1. Search(h, s)[p] \notin Allocated(h)
    BY <1>2, <1>3, <1>6, <1>7
  <2>2. Search(h, s)[m] \notin Allocated(h)
    BY NodeIsEnd
  <2>3. p = m
    BY <1>8, <2>1, <2>2, OneEnd, SearchFacts DEF Way
  <2> QED
    BY <1>2, <1>7, <2>3
<1> QED
  BY <1>2, <1>5, <1>7, <1>9

\* The way to a node is part of the way to what is below it.
LEMMA WayAbove ==
    ASSUME NEW h, NEW r, IsTree(h, r), NEW x \in Allocated(h), NEW y \in Allocated(h),
           NEW s, s = h[x].socket, NEW t, t = h[y].socket, x \in Way(h, r, t),
           NEW z \in Way(h, r, s)
    PROVE  z \in Way(h, r, t) /\ (z # x => Search(h, s)[z] = Search(h, t)[z])
<1> DEFINE Q == {w \in Way(h, r, s) : /\ w \in Way(h, r, t)
                                      /\ w = x \/ Search(h, s)[w] = Search(h, t)[w]}
<1> SUFFICES ASSUME z \notin Q
             PROVE  FALSE
  OBVIOUS
<1>1. x \in Q
  BY NodeIsEnd
<1> DEFINE R == Way(h, r, s) \ Q
<1>d. DOMAIN Search(h, s) = Allocated(h)
  BY SearchFacts
<1>2. ASSUME NEW w \in R, Search(h, s)[w] \in Allocated(h)
      PROVE  Search(h, s)[w] \in R
  <2>1. w \in Allocated(h)
    BY <1>2, WayIn
  <2>2. PICK v : v = Search(h, s)[w]
    OBVIOUS
  <2>3. v \in Way(h, r, s)
    BY <1>2, <1>d, <2>2, VisitedIsClosed DEF Way, Closed
  <2>4. v \in Kids(h, w) /\ v \in Allocated(h)
    BY <1>2, <2>1, <2>2, SearchGoesDown
  <2>5. ASSUME v \in Q
        PROVE  FALSE
    <3>1. v \in Way(h, r, t) /\ v # r
      BY <2>1, <2>4, <2>5 DEF IsTree, OnePointerEach
    <3>2. PICK p \in Way(h, r, t) : Search(h, t)[p] = v
      BY <3>1, VisitedAfter DEF Way
    <3>3. p \in Allocated(h)
      BY <3>2, WayIn
    <3>4. v \in Kids(h, p)
      BY <2>4, <3>2, <3>3, SearchGoesDown
    <3>5. p = w
      BY <2>1, <2>4, <3>3, <3>4 DEF IsTree, OnePointerEach
    <3> QED
      BY <1>2, <2>2, <3>2, <3>5
  <2> QED
    BY <2>2, <2>3, <2>5
<1>3. Closed(R, z, Search(h, s))
  <2>1. R \subseteq Allocated(h) /\ z \in R
    BY WayIn
  <2> HIDE DEF R
  <2> QED
    BY <1>2, <1>d, <2>1 DEF Closed
<1>4. x \in Visited(z, Search(h, s))
  BY <1>d, NodeIsEnd, VisitedToEnd DEF Way
<1>5. x \in R
  BY <1>3, <1>4, VisitedInSet
<1> QED
  BY <1>1, <1>5

\* Going left from the right child of a: nodes of greater sockets, a on the way to each.
LEMMA LeftwardNodes ==
    ASSUME NEW h, NEW r, IsTree(h, r), NEW a \in Allocated(h),
           NEW q \in Allocated(h), q = h[a].right, NEW x \in Visited(q, Leftward(h))
    PROVE  /\ x \in Allocated(h) /\ a \in Way(h, r, h[x].socket)
           /\ Search(h, h[x].socket)[a] = q /\ h[a].socket < h[x].socket
<1>d. /\ DOMAIN Leftward(h) = Allocated(h)
      /\ \A y \in Allocated(h) : Leftward(h)[y] = h[y].left
  BY DEF Leftward
<1>n. Nil \notin Allocated(h) /\ \A y \in Allocated(h) : h[y].socket \in Nat
  BY NodeFacts DEF IsTree
<1> DEFINE Beyond(y) == /\ a \in Way(h, r, h[y].socket)
                        /\ Search(h, h[y].socket)[a] = q /\ h[a].socket < h[y].socket
           P == {y \in Allocated(h) : Beyond(y)}
<1>1. q \in P
  <2>1. q \in Kids(h, a)
    BY <1>n DEF Kids
  <2> QED
    BY <2>1, ParentOnWay
<1>2. ASSUME NEW y \in P, h[y].left \in Allocated(h)
      PROVE  h[y].left \in P
  <2>1. PICK v : v = h[y].left
    OBVIOUS
  <2>2. v \in Kids(h, y)
    BY <1>n, <1>2, <2>1 DEF Kids
  <2>3. y \in Way(h, r, h[v].socket)
    BY <2>2, ParentOnWay
  <2>4. PICK s : s = h[y].socket
    OBVIOUS
  <2>5. PICK t : t = h[v].socket
    OBVIOUS
  <2>6. a \in Way(h, r, s) /\ Search(h, s)[a] = q /\ h[a].socket < s
    BY <1>2, <2>4
  <2>7. a # y
    BY <1>n, <2>4, <2>6
  <2>8. a \in Way(h, r, t) /\ Search(h, t)[a] = q
    BY <1>2, <2>1, <2>3, <2>4, <2>5, <2>6, <2>7, WayAbove
  <2>9. h[a].socket < t
    <3>1. h[a].socket # t /\ (t < h[a].socket => q = h[a].left)
      BY <1>n, <2>8, SearchFacts
    <3>2. h[a].left # q
      BY <1>n DEF IsTree, OnePointerEach
    <3> QED
      BY <1>n, <1>2, <2>1, <2>5, <3>1, <3>2
  <2> QED
    BY <1>2, <2>1, <2>5, <2>8, <2>9
<1>3. Closed(P, q, Leftward(h))
  <2>1. P \subseteq Allocated(h)
    OBVIOUS
  <2> HIDE DEF P
  <2> QED
    BY <1>1, <1>2, <1>d, <2>1 DEF Closed
<1>4. x \in P
  BY <1>3, VisitedInSet
<1> QED
  BY <1>4

\* mx_get_min_socket_elem gives the node of the next socket after a's.
IsNextOf(h, a, m) ==
    /\ h[a].socket < h[m].socket
    /\ \A b \in Allocated(h) : ~(h[a].socket < h[b].socket /\ h[b].socket < h[m].socket)

LEMMA MinIsNext ==
    ASSUME NEW h, NEW r, IsTree(h, r), NEW a \in Allocated(h),
           NEW q \in Allocated(h), q = h[a].right, NEW m, m = MinNode(h, q),
           NEW t, t = h[m].socket
    PROVE  /\ m \in Allocated(h) /\ m # r /\ h[m].left = Nil
           /\ m \in Way(h, q, t) /\ IsNextOf(h, a, m)
<1>d. /\ DOMAIN Leftward(h) = Allocated(h)
      /\ \A y \in Allocated(h) : Leftward(h)[y] = h[y].left
  BY DEF Leftward
<1>n. Nil \notin Allocated(h) /\ \A y \in Allocated(h) : h[y].socket \in Nat
  BY NodeFacts DEF IsTree
<1> DEFINE L == Visited(q, Leftward(h))
<1>1. m \in L /\ Leftward(h)[m] \notin Allocated(h)
  <2>1. Ends(Leftward(h)) /\ q \in DOMAIN Leftward(h)
    BY <1>d, LeftwardEnds
  <2> QED
    BY <1>d, <2>1, StopIs DEF MinNode
<1>2. Closed(L, q, Leftward(h))
  BY VisitedIsClosed
<1>3. /\ m \in Allocated(h) /\ a \in Way(h, r, t) /\ Search(h, t)[a] = q
      /\ h[a].socket < t
  BY <1>1, LeftwardNodes
<1>4. h[m].left = Nil
  <2>1. h[m].left \notin Allocated(h)
    BY <1>1, <1>3, <1>d
  <2> QED
    BY <1>3, <2>1 DEF IsTree, PointToNodes, Kids
<1>5. m # r
  <2>1. CASE m = q
    BY <1>n, <2>1 DEF IsTree, OnePointerEach, Kids
  <2>2. CASE m # q
    <3>1. PICK x \in L : Leftward(h)[x] = m
      BY <1>1, <2>2, VisitedAfter
    <3>2. x \in Allocated(h) /\ m = h[x].left
      BY <1>2, <1>d, <3>1 DEF Closed
    <3>3. m \in Kids(h, x)
      BY <1>n, <1>3, <3>2 DEF Kids
    <3> QED
      BY <3>2, <3>3 DEF IsTree, OnePointerEach
  <2> QED
    BY <2>1, <2>2
<1> HIDE DEF L
<1>6. ASSUME NEW z \in L, z # m
      PROVE  z \in Allocated(h) /\ t < h[z].socket
  <2>1. z \in Allocated(h)
    BY <1>2, <1>6, <1>d DEF Closed
  <2> SUFFICES ASSUME ~(t < h[z].socket)
               PROVE  FALSE
    BY <2>1
  <2> DEFINE R == {w \in L : w # m /\ ~(t < h[w].socket)}
  <2>2. ASSUME NEW w \in R, h[w].left \in Allocated(h)
        PROVE  h[w].left \in R
    <3>1. w \in Allocated(h)
      BY <1>2, <1>d, <2>2 DEF Closed
    <3>2. PICK v : v = h[w].left
      OBVIOUS
    <3>3. v \in L
      BY <1>2, <1>d, <2>2, <3>1, <3>2 DEF Closed
    <3>4. h[v].socket < h[w].socket
      <4>1. v \in Kids(h, w)
        BY <1>n, <2>2, <3>2 DEF Kids
      <4> QED
        BY <3>1, <3>2, <4>1, ParentOnWay
    <3>5. h[v].socket \in Nat /\ h[w].socket \in Nat /\ t \in Nat
      BY <1>n, <1>3, <2>2, <3>1, <3>2
    <3>6. v # m /\ ~(t < h[v].socket)
      BY <2>2, <3>4, <3>5
    <3> QED
      BY <3>2, <3>3, <3>6
  <2>3. z \in R /\ R \subseteq Allocated(h)
    BY <1>2, <1>6, <1>d DEF Closed
  <2>4. m \notin R
    OBVIOUS
  <2> HIDE DEF R
  <2>5. \A w \in R : Leftward(h)[w] \in Allocated(h) => Leftward(h)[w] \in R
    BY <1>d, <2>2, <2>3
  <2>6. Closed(R, z, Leftward(h))
    BY <1>d, <2>3, <2>5 DEF Closed
  <2>7. m \in Visited(z, Leftward(h))
    BY <1>1, <1>6, <1>d, VisitedToEnd DEF L
  <2> QED
    BY <2>4, <2>6, <2>7, VisitedInSet
<1>7. PICK s : s = h[a].socket
  OBVIOUS
<1>8. ASSUME NEW z \in Way(h, r, s)
      PROVE  z # a => Search(h, s)[z] = Search(h, t)[z]
  BY <1>3, <1>7, WayAbove
<1>9. ASSUME NEW z \in L, z # m
      PROVE  Search(h, t)[z] = h[z].left
  <2>1. z \in Allocated(h) /\ t < h[z].socket
    BY <1>6, <1>9
  <2>2. h[z].socket # t
    BY <1>n, <2>1
  <2> QED
    BY <2>1, <2>2, SearchFacts
<1>10. DOMAIN Search(h, t) = Allocated(h) /\ DOMAIN Search(h, s) = Allocated(h)
  BY SearchFacts
<1>11. Way(h, r, t) \subseteq Way(h, r, s) \cup L
  <2> DEFINE P == Way(h, r, s) \cup L
  <2>1. Closed(Way(h, r, s), r, Search(h, s))
    BY VisitedIsClosed DEF Way
  <2>2. P \subseteq Allocated(h) /\ (r \in Allocated(h) => r \in P)
    BY <1>2, <1>d, <1>10, <2>1 DEF Closed
  <2>3. ASSUME NEW z \in P, Search(h, t)[z] \in Allocated(h)
        PROVE  Search(h, t)[z] \in P
    <3>1. CASE z \in Way(h, r, s) /\ z # a
      <4>1. Search(h, s)[z] = Search(h, t)[z]
        BY <1>8, <3>1
      <4> QED
        BY <1>10, <2>1, <2>3, <3>1, <4>1 DEF Closed
    <3>2. CASE z = a
      <4>1. q \in L
        BY <1>2, <1>d DEF Closed
      <4> QED
        BY <1>3, <3>2, <4>1
    <3>3. CASE z \in L /\ z = m
      BY <1>3, <2>3, <3>3, NodeIsEnd
    <3>4. CASE z \in L /\ z # m
      BY <1>2, <1>9, <1>d, <2>2, <2>3, <3>4 DEF Closed
    <3> QED
      BY <2>3, <3>1, <3>2, <3>3, <3>4
  <2>4. Closed(P, r, Search(h, t))
    <3> HIDE DEF P
    <3> QED
      BY <1>10, <2>2, <2>3 DEF Closed
  <2> QED
    BY <2>4, VisitedInSet DEF Way
<1>12. ASSUME NEW b \in Allocated(h), s < h[b].socket, h[b].socket < t
       PROVE  FALSE
  <2>1. PICK u : u = h[b].socket
    OBVIOUS
  <2>2. u \in Nat /\ s \in Nat /\ t \in Nat /\ s < u /\ u < t
    BY <1>n, <1>3, <1>7, <1>12, <2>1
  <2>3. ASSUME NEW z \in Way(h, r, t), z # m, Search(h, t)[z] \in Allocated(h)
        PROVE  Search(h, u)[z] = Search(h, t)[z]
    <3>1. z \in Allocated(h)
      BY WayIn
    <3>z. h[z].socket \in Nat
      BY <1>n, <3>1
    <3>2. CASE z \in Way(h, r, s) /\ z # a
      <4>1. Search(h, s)[z] = Search(h, t)[z]
        BY <1>8, <3>2
      <4>2. PICK v : v = Search(h, t)[z]
        OBVIOUS
      <4>3. v = IF h[z].socket = t THEN Nil ELSE IF t < h[z].socket THEN h[z].left ELSE h[z].right
        BY <3>1, <4>2, SearchFacts
      <4>4. v = IF h[z].socket = s THEN Nil ELSE IF s < h[z].socket THEN h[z].left ELSE h[z].right
        BY <3>1, <4>1, <4>2, SearchFacts
      <4>5. v # Nil /\ (h[z].left = h[z].right => h[z].left = Nil)
        BY <1>n, <2>3, <3>1, <4>2 DEF IsTree, OnePointerEach
      <4>6. (t < h[z].socket /\ s < h[z].socket) \/ (h[z].socket < s /\ h[z].socket < t)
        BY <2>2, <3>z, <4>3, <4>4, <4>5
      <4>7. h[z].socket # u /\ (u < h[z].socket <=> t < h[z].socket)
        BY <2>2, <3>z, <4>6
      <4>8. h[z].socket # t
        BY <4>3, <4>5
      <4> QED
        BY <3>1, <4>7, <4>8, SearchFacts
    <3>3. CASE z = a
      <4>1. ~(u < s) /\ s # u /\ h[a].socket = s
        BY <1>7, <2>2
      <4> QED
        BY <1>3, <3>3, <4>1, SearchFacts
    <3>4. CASE z \in L
      <4>1. t < h[z].socket
        BY <1>6, <2>3, <3>4
      <4>2. u < h[z].socket /\ h[z].socket # u
        BY <2>2, <3>z, <4>1
      <4>3. Search(h, u)[z] = h[z].left
        BY <3>1, <4>2, SearchFacts
      <4> QED
        BY <1>9, <2>3, <3>4, <4>3
    <3> QED
      BY <1>11, <3>2, <3>3, <3>4
  <2> DEFINE P == Way(h, r, t) \cap Way(h, r, u)
  <2>4. /\ Closed(Way(h, r, t), r, Search(h, t)) /\ Closed(Way(h, r, u), r, Search(h, u))
        /\ DOMAIN Search(h, u) = Allocated(h)
    BY VisitedIsClosed, SearchFacts DEF Way
  <2>5. ASSUME NEW z \in P, Search(h, t)[z] \in Allocated(h)
        PROVE  Search(h, t)[z] \in P
    <3>1. z # m
      BY <1>3, <2>5, NodeIsEnd
    <3>2. Search(h, u)[z] = Search(h, t)[z]
      BY <2>3, <2>5, <3>1
    <3> QED
      BY <1>10, <2>4, <2>5, <3>2 DEF Closed
  <2>6. Closed(P, r, Search(h, t))
    BY <1>10, <2>4, <2>5 DEF Closed
  <2>7. m \in Way(h, r, u)
    <3>1. m \in Way(h, r, t)
      BY <1>3, NodeIsEnd
    <3> QED
      BY <2>6, <3>1, VisitedInSet DEF Way
  <2>8. Search(h, u)[m] = Nil
    <3>1. u < h[m].socket /\ h[m].socket # u
      BY <2>2
    <3> QED
      BY <1>3, <1>4, <3>1, SearchFacts
  <2>9. b \in Way(h, r, u) /\ Search(h, u)[b] \notin Allocated(h)
    BY <2>1, NodeIsEnd
  <2>10. b = m
    BY <1>n, <2>4, <2>7, <2>8, <2>9, OneEnd DEF Way
  <2> QED
    BY <2>1, <2>2, <2>10
<1>13. m \in Way(h, q, t)
  <2>1. m \in Way(h, r, t) /\ Search(h, t)[m] \notin Allocated(h)
    BY <1>3, NodeIsEnd
  <2>2. m \in Visited(a, Search(h, t))
    BY <1>3, <1>10, <2>1, VisitedToEnd DEF Way
  <2>3. m # a
    BY <1>n, <1>3
  <2>4. m \in Visited(Search(h, t)[a], Search(h, t))
    BY <2>2, <2>3, VisitedSplits
  <2> QED
    BY <1>3, <2>4 DEF Way
<1> QED
  BY <1>3, <1>4, <1>5, <1>7, <1>12, <1>13 DEF IsNextOf

\* The node m of s, with the child c or none, is taken out of the tree at q, which is
\* r's tree or a part of it.
LEMMA Unlinked ==
    ASSUME NEW h, NEW r, IsTree(h, r), NEW m \in Allocated(h), NEW s, s = h[m].socket,
           NEW q \in Allocated(h), m \in Way(h, q, s), m = r => q = m,
           NEW c \in Addresses \cup {Nil}, c # m,
           NEW d, d = Unlink(h, q, m, s, c)
    PROVE  /\ d.heap \in [Addresses -> Node \cup {Nil}]
           /\ Allocated(d.heap) = Allocated(h) \ {m}
           /\ d.root = IF q = m THEN c ELSE q
           /\ \A x \in Allocated(h) \ {m} :
                /\ SameAt(h, d.heap, x)
                /\ d.heap[x].left = IF h[x].left = m /\ q # m THEN c ELSE h[x].left
                /\ d.heap[x].right = IF h[x].right = m /\ q # m THEN c ELSE h[x].right
<1>1. h \in [Addresses -> Node \cup {Nil}] /\ m \in Addresses /\ m # Nil
  BY NodeFacts DEF IsTree
<1>2. PICK f : f = [h EXCEPT ![m] = Nil]
  OBVIOUS
<1>3. f \in [Addresses -> Node \cup {Nil}] /\ f[m] = Nil /\ \A x \in Addresses : x # m => f[x] = h[x]
  BY <1>1, <1>2
<1>4. Allocated(f) = Allocated(h) \ {m}
  BY <1>1, <1>3 DEF Allocated
<1>5. CASE q = m
  <2>1. d.heap = f /\ d.root = c
    BY <1>2, <1>5 DEF Unlink
  <2>2. \A x \in Allocated(h) \ {m} : f[x] = h[x]
    BY <1>3 DEF Allocated
  <2> QED
    BY <1>3, <1>4, <1>5, <2>1, <2>2 DEF SameAt
<1>6. CASE q # m
  <2>1. PICK p : p = Above(f, q, s)
    OBVIOUS
  <2>2. d.heap = SetChild(f, p, s, c) /\ d.root = q
    BY <1>2, <1>6, <2>1 DEF Unlink
  <2>3. p \in Allocated(h) \ {m} /\ Search(h, s)[p] = m
    <3>1. IsTree(h, r) /\ m \in Allocated(h) /\ s = h[m].socket
      OBVIOUS
    <3>2. q \in Allocated(h) /\ q # m /\ m \in Way(h, q, s)
      BY <1>6
    <3>3. p = Above(f, q, s)
      BY <2>1
    <3>4. f = Without(h, m)
      BY <1>2 DEF Without
    <3> QED
      BY ONLY <3>1, <3>2, <3>3, <3>4, AboveFreed
  <2>4. /\ d.heap \in [Addresses -> Node \cup {Nil}] /\ Allocated(d.heap) = Allocated(f)
        /\ \A x \in Addresses : x # p => d.heap[x] = f[x]
        /\ SameAt(f, d.heap, p)
        /\ d.heap[p].left = IF s < f[p].socket THEN c ELSE f[p].left
        /\ d.heap[p].right = IF s < f[p].socket THEN f[p].right ELSE c
    <3>1. p \in Allocated(f) /\ f \in [Addresses -> Node \cup {Nil}]
      BY <1>3, <1>4, <2>3
    <3>2. PICK g : g = d.heap
      OBVIOUS
    <3>3. g = SetChild(f, p, s, c)
      BY <2>2, <3>2
    <3>4. /\ g \in [Addresses -> Node \cup {Nil}] /\ Allocated(g) = Allocated(f)
          /\ \A x \in Addresses : x # p => g[x] = f[x]
          /\ SameAt(f, g, p)
          /\ g[p].left = IF s < f[p].socket THEN c ELSE f[p].left
          /\ g[p].right = IF s < f[p].socket THEN f[p].right ELSE c
      BY ONLY <3>1, <3>3, SetChildIs
    <3> QED
      BY <3>2, <3>4
  <2>5. p \in Addresses /\ f[p] = h[p] /\ m = (IF s < h[p].socket THEN h[p].left ELSE h[p].right)
    BY <1>1, <1>3, <2>3, NodeFacts, SearchFacts
  <2>6. /\ m \in Kids(h, p)
        /\ h[p].left # h[p].right
        /\ \A x \in Allocated(h) : x # p => h[x].left # m /\ h[x].right # m
    <3>1. m \in Kids(h, p)
      BY <1>1, <2>5 DEF Kids
    <3>2. h[p].left # h[p].right
      BY <1>1, <2>3, <2>5 DEF IsTree, OnePointerEach
    <3>3. \A x \in Allocated(h) : x # p => m \notin Kids(h, x)
      BY <2>3, <3>1 DEF IsTree, OnePointerEach
    <3> QED
      BY <1>1, <3>1, <3>2, <3>3 DEF Kids
  <2>7. ASSUME NEW x \in Allocated(h) \ {m}
        PROVE  /\ SameAt(h, d.heap, x)
               /\ d.heap[x].left = IF h[x].left = m THEN c ELSE h[x].left
               /\ d.heap[x].right = IF h[x].right = m THEN c ELSE h[x].right
    <3>1. CASE x = p
      BY <2>4, <2>5, <2>6, <3>1 DEF SameAt
    <3>2. CASE x # p
      <4>1. d.heap[x] = h[x]
        BY <1>3, <2>4, <3>2 DEF Allocated
      <4>2. h[x].left # m /\ h[x].right # m
        BY <2>6, <3>2
      <4> QED
        BY <4>1, <4>2 DEF SameAt
    <3> QED
      BY <3>1, <3>2
  <2> QED
    BY <1>4, <1>6, <2>2, <2>4, <2>7
<1> QED
  BY <1>5, <1>6

\* What deleteNode does for the node a: it frees a, or the node m of the next socket, whose
\* contents a takes over.
Takes(h, g, a, m) ==
    /\ Allocated(g) = Allocated(h) \ {m}
    /\ \A x \in Allocated(g) : x # a => SameAt(h, g, x)
    /\ a # m => /\ IsNextOf(h, a, m)
                /\ g[a].socket = h[m].socket /\ g[a].tls = h[m].tls /\ g[a].lock = h[m].lock

\* A node with one child at most.
LEMMA SplicedNode ==
    ASSUME NEW h, NEW r, IsTree(h, r), NEW a \in Allocated(h), NEW s, s = h[a].socket,
           Nil \in {h[a].left, h[a].right},
           NEW d, d = Splice(h, r, a, s)
    PROVE  IsTree(d.heap, d.root) /\ Takes(h, d.heap, a, a)
<1>1. PICK c : c = OnlyChild(h[a])
  OBVIOUS
<1>n. Nil \notin Allocated(h) /\ h[a].left \in Addresses \cup {Nil} /\ h[a].right \in Addresses \cup {Nil}
  BY NodeFacts DEF IsTree
<1>2. Kids(h, a) = {c} \ {Nil} /\ c \in Addresses \cup {Nil}
  BY <1>1, <1>n DEF OnlyChild, Kids
<1>3. c # a
  <2> SUFFICES ASSUME c = a
               PROVE  FALSE
    OBVIOUS
  <2>1. a \in Kids(h, a)
    BY <1>2, <1>n
  <2>2. h[a].socket \in Nat
    BY NodeFacts DEF IsTree
  <2>3. a # h[a].left /\ a # h[a].right
    BY <2>1, <2>2, ParentOnWay
  <2> QED
    BY <2>1, <2>3 DEF Kids
<1>4. d = Unlink(h, r, a, s, c)
  BY <1>1 DEF Splice
<1>5. r \in Allocated(h) /\ a \in Way(h, r, s)
  BY NodeIsEnd
<1>6. /\ d.heap \in [Addresses -> Node \cup {Nil}]
      /\ Allocated(d.heap) = Allocated(h) \ {a}
      /\ d.root = IF r = a THEN c ELSE r
      /\ \A x \in Allocated(h) \ {a} :
           /\ SameAt(h, d.heap, x)
           /\ d.heap[x].left = IF h[x].left = a /\ r # a THEN c ELSE h[x].left
           /\ d.heap[x].right = IF h[x].right = a /\ r # a THEN c ELSE h[x].right
  BY <1>2, <1>3, <1>4, <1>5, Unlinked
<1>7. ASSUME NEW x \in Allocated(d.heap)
      PROVE  /\ SameAt(h, d.heap, x)
             /\ d.heap[x].left = IF h[x].left = a THEN c ELSE h[x].left
             /\ d.heap[x].right = IF h[x].right = a THEN c ELSE h[x].right
  <2>1. x \in Allocated(h) \ {a}
    BY <1>6
  <2>2. r = a => h[x].left # a /\ h[x].right # a
    BY <1>n, <2>1 DEF IsTree, OnePointerEach, Kids
  <2> QED
    BY <1>6, <2>1, <2>2
<1>8. IsTree(d.heap, d.root)
  <2>1. PICK g : g = d.heap
    OBVIOUS
  <2>2. PICK q : q = d.root
    OBVIOUS
  <2>3. GivesWay(h, g, a, c)
    BY <1>2, <1>6, <1>7, <2>1 DEF GivesWay
  <2>4. q = IF r = a THEN c ELSE r
    BY <1>6, <2>2
  <2>5. IsTree(g, q)
    BY <2>3, <2>4, NodeRemoved
  <2> QED
    BY <2>1, <2>2, <2>5
<1> QED
  BY <1>6, <1>7, <1>8 DEF Takes

\* A node with two children.
LEMMA ReplacedNode ==
    ASSUME NEW h, NEW r, IsTree(h, r), NEW a \in Allocated(h),
           Nil \notin {h[a].left, h[a].right},
           NEW q, q = h[a].right, NEW m, m = MinNode(h, q),
           NEW d, d = Splice(h, q, m, h[m].socket),
           NEW g, g = [d.heap EXCEPT ![a] = TakeOver(h[a], h[m], d.root)]
    PROVE  IsTree(g, r) /\ m \in Allocated(h) /\ Takes(h, g, a, m)
<1>n. /\ Nil \notin Allocated(h) /\ h \in [Addresses -> Node \cup {Nil}]
      /\ \A x \in Allocated(h) : x \in Addresses /\ h[x] \in Node /\ h[x].socket \in Nat
  BY NodeFacts DEF IsTree
<1>1. q \in Allocated(h)
  BY DEF IsTree, PointToNodes, Kids
<1>2. PICK t : t = h[m].socket
  OBVIOUS
<1>3. /\ m \in Allocated(h) /\ m # r /\ h[m].left = Nil
      /\ m \in Way(h, q, t) /\ IsNextOf(h, a, m)
  BY <1>1, <1>2, MinIsNext
<1>4. PICK c : c = h[m].right
  OBVIOUS
<1>5. Kids(h, m) = {c} \ {Nil} /\ c \in Addresses \cup {Nil} /\ OnlyChild(h[m]) = c
  BY <1>3, <1>4, NodeFacts DEF OnlyChild, Kids, IsTree
<1>6. a # m /\ t \in Nat /\ h[a].socket < t
  BY <1>2, <1>3, <1>n DEF IsNextOf
<1>7. c # m /\ h[a].left # m
  <2>1. h[a].left \in Kids(h, a) /\ (c # Nil => c \in Kids(h, m))
    BY <1>4, <1>n DEF Kids
  <2>2. h[a].left # m
    <3>1. h[h[a].left].socket < h[a].socket
      BY <2>1, ParentOnWay
    <3> SUFFICES ASSUME h[a].left = m
                 PROVE  FALSE
      OBVIOUS
    <3>2. h[m].socket < h[a].socket
      BY <3>1
    <3> QED
      BY <1>2, <1>6, <1>n, <3>2
  <2>3. c # Nil => h[m].socket < h[c].socket
    BY <1>3, <1>4, <2>1, ParentOnWay
  <2>4. c # m
    BY <1>2, <1>3, <1>6, <1>n, <2>3
  <2> QED
    BY <2>2, <2>4
<1>8. d = Unlink(h, q, m, t, c)
  BY <1>2, <1>5 DEF Splice
<1>9. /\ d.heap \in [Addresses -> Node \cup {Nil}]
      /\ Allocated(d.heap) = Allocated(h) \ {m}
      /\ d.root = IF q = m THEN c ELSE q
      /\ \A x \in Allocated(h) \ {m} :
           /\ SameAt(h, d.heap, x)
           /\ d.heap[x].left = IF h[x].left = m /\ q # m THEN c ELSE h[x].left
           /\ d.heap[x].right = IF h[x].right = m /\ q # m THEN c ELSE h[x].right
  <2>1. IsTree(h, r) /\ m \in Allocated(h) /\ t = h[m].socket
    BY <1>2, <1>3
  <2>2. q \in Allocated(h) /\ m \in Way(h, q, t) /\ (m = r => q = m)
    BY <1>1, <1>3
  <2>3. c \in Addresses \cup {Nil} /\ c # m /\ d = Unlink(h, q, m, t, c)
    BY <1>5, <1>7, <1>8
  <2> QED
    BY ONLY <2>1, <2>2, <2>3, Unlinked
\* First the node m alone is removed.
<1> DEFINE n == [h[a] EXCEPT !.right = IF q = m THEN c ELSE q]
<1>10. /\ n \in Node /\ n.socket = h[a].socket /\ n.tls = h[a].tls /\ n.lock = h[a].lock
       /\ n.left = h[a].left /\ n.right = IF q = m THEN c ELSE q
  <2>1. h[a] \in Node /\ q \in Addresses \cup {Nil} /\ c \in Addresses \cup {Nil}
    BY <1>1, <1>5, <1>n
  <2> QED
    BY <2>1 DEF Node
<1> HIDE DEF n
<1>11. PICK f : f = [d.heap EXCEPT ![a] = n]
  OBVIOUS
<1>12. /\ f \in [Addresses -> Node \cup {Nil}] /\ f[a] = n
       /\ \A x \in Addresses : x # a => f[x] = d.heap[x]
  BY <1>9, <1>10, <1>11, <1>n
<1>13. Allocated(f) = Allocated(h) \ {m}
  <2>1. n # Nil /\ a \in Allocated(d.heap)
    BY <1>6, <1>9, <1>10, TreeAssumption
  <2>2. ASSUME NEW x \in Addresses
        PROVE  f[x] # Nil <=> d.heap[x] # Nil
    BY <1>12, <2>1 DEF Allocated
  <2> QED
    BY <1>9, <2>2 DEF Allocated
<1>14. \A x \in Allocated(f) :
           /\ SameAt(h, f, x)
           /\ f[x].left = IF h[x].left = m THEN c ELSE h[x].left
           /\ f[x].right = IF h[x].right = m THEN c ELSE h[x].right
  <2> SUFFICES ASSUME NEW x \in Allocated(f)
               PROVE  /\ SameAt(h, f, x)
                      /\ f[x].left = IF h[x].left = m THEN c ELSE h[x].left
                      /\ f[x].right = IF h[x].right = m THEN c ELSE h[x].right
    OBVIOUS
  <2>1. CASE x = a
    BY <1>7, <1>10, <1>12, <2>1 DEF SameAt
  <2>2. CASE x # a
    <3>1. f[x] = d.heap[x] /\ x \in Allocated(h) \ {m}
      BY <1>12, <1>13, <1>n, <2>2
    <3>2. q = m => h[x].left # m /\ h[x].right # m
      <4>1. q = m => m \in Kids(h, a) /\ m \notin Kids(h, x)
        BY <1>n, <1>1, <2>2, <3>1 DEF IsTree, OnePointerEach, Kids
      <4> QED
        BY <1>3, <1>n, <4>1 DEF Kids
    <3>3. /\ SameAt(h, d.heap, x)
          /\ d.heap[x].left = IF h[x].left = m /\ q # m THEN c ELSE h[x].left
          /\ d.heap[x].right = IF h[x].right = m /\ q # m THEN c ELSE h[x].right
      BY <1>9, <3>1
    <3> QED
      BY <3>1, <3>2, <3>3 DEF SameAt
  <2> QED
    BY <2>1, <2>2
<1>15. IsTree(f, r)
  <2>1. GivesWay(h, f, m, c)
    BY <1>5, <1>12, <1>13, <1>14 DEF GivesWay
  <2> QED
    BY <1>3, <2>1, NodeRemoved
\* Then its contents come to a.
<1>16. PICK k : k = TakeOver(h[a], h[m], d.root)
  OBVIOUS
<1>17. /\ k \in Node /\ k.socket = t /\ k.tls = h[m].tls /\ k.lock = h[m].lock
       /\ k.left = f[a].left /\ k.right = f[a].right
  <2>1. h[m] \in Node /\ h[a].left \in Addresses \cup {Nil} /\ d.root \in Addresses \cup {Nil}
    <3>1. h[m] \in Node /\ h[a] \in Node
      BY <1>3, <1>n
    <3>2. h[a].left \in Addresses \cup {Nil}
      BY <3>1 DEF Node
    <3>3. q \in Addresses /\ (d.root = c \/ d.root = q)
      BY <1>1, <1>9, <1>n
    <3> QED
      BY <1>5, <3>1, <3>2, <3>3
  <2>2. f[a].left = h[a].left /\ f[a].right = d.root
    BY <1>9, <1>10, <1>12
  <2> QED
    BY <1>2, <1>16, <2>1, <2>2 DEF TakeOver, Node
<1>18. /\ g \in [Addresses -> Node \cup {Nil}] /\ g[a] = k
       /\ \A x \in Addresses : x # a => g[x] = f[x]
  BY <1>9, <1>12, <1>16, <1>17, <1>n
<1>19. Allocated(g) = Allocated(f)
  <2>1. k # Nil /\ a \in Allocated(f)
    BY <1>6, <1>13, <1>17, TreeAssumption
  <2>2. ASSUME NEW x \in Addresses
        PROVE  g[x] # Nil <=> f[x] # Nil
    BY <1>18, <2>1 DEF Allocated
  <2> QED
    BY <2>2 DEF Allocated
<1>20. a \in Allocated(f) /\ f[a].socket = h[a].socket
  BY <1>6, <1>13, <1>14 DEF SameAt
<1>21. \A x \in Allocated(f) : x # a => /\ f[x].socket # t
                                        /\ f[a].socket < f[x].socket <=> t < f[x].socket
  <2> SUFFICES ASSUME NEW x \in Allocated(f), x # a
               PROVE  /\ f[x].socket # t
                      /\ f[a].socket < f[x].socket <=> t < f[x].socket
    OBVIOUS
  <2>1. x \in Allocated(h) /\ x # m /\ f[x].socket = h[x].socket
    BY <1>13, <1>14 DEF SameAt
  <2>2. PICK u : u = h[x].socket
    OBVIOUS
  <2>3. u # t
    BY <1>2, <1>3, <2>1, <2>2, OneNodeEach
  <2>4. ~(h[a].socket < u /\ u < t)
    BY <1>2, <1>3, <2>1, <2>2 DEF IsNextOf
  <2>5. u \in Nat /\ h[a].socket \in Nat
    BY <1>n, <2>1, <2>2
  <2>6. h[a].socket < u <=> t < u
    BY <1>6, <2>3, <2>4, <2>5
  <2> QED
    BY <1>20, <2>1, <2>2, <2>3, <2>6
<1>22. \A x \in Allocated(f) : /\ x # a => SameAt(f, g, x)
                               /\ g[x].left = f[x].left /\ g[x].right = f[x].right
  <2>1. \A x \in Allocated(f) : x # a => g[x] = f[x]
    BY <1>18 DEF Allocated
  <2> QED
    BY <1>17, <1>18, <2>1 DEF SameAt
<1>23. IsTree(g, r)
  <2>1. IsTree(f, r) /\ a \in Allocated(f) /\ t \in Nat
    BY <1>6, <1>15, <1>20
  <2>2. g \in [Addresses -> Node \cup {Nil}] /\ Allocated(g) = Allocated(f) /\ g[a].socket = t
    BY <1>17, <1>18, <1>19
  <2> QED
    BY ONLY <2>1, <2>2, <1>21, <1>22, NodeRenamed
<1>24. ASSUME NEW x \in Allocated(g), x # a
       PROVE  SameAt(h, g, x)
  BY <1>14, <1>19, <1>22, <1>24 DEF SameAt
<1> QED
  BY <1>2, <1>3, <1>13, <1>17, <1>18, <1>19, <1>23, <1>24 DEF Takes

\* deleteNode, called for the root and the socket of the node a.
LEMMA TreeDeleted ==
    ASSUME NEW h, NEW r, IsTree(h, r), NEW a \in Allocated(h), NEW s, s = h[a].socket,
           NEW d, d = Deleted(h, r, s)
    PROVE  IsTree(d.heap, d.root) /\ \E m \in Allocated(h) : Takes(h, d.heap, a, m)
<1>1. Find(h, r, s) = a
  BY FindIs
<1>2. a # Nil
  BY NodeFacts DEF IsTree
<1>3. CASE Nil \in {h[a].left, h[a].right}
  <2>1. d = Splice(h, r, a, s)
    BY <1>1, <1>2, <1>3 DEF Deleted
  <2> QED
    BY <1>3, <2>1, SplicedNode
<1>4. CASE Nil \notin {h[a].left, h[a].right}
  <2>1. PICK q : q = h[a].right
    OBVIOUS
  <2>2. PICK m : m = MinNode(h, q)
    OBVIOUS
  <2>3. PICK e : e = Splice(h, q, m, h[m].socket)
    OBVIOUS
  <2>4. PICK g : g = [e.heap EXCEPT ![a] = TakeOver(h[a], h[m], e.root)]
    OBVIOUS
  <2>5. d = [heap |-> g, root |-> r]
    BY <1>1, <1>2, <1>4, <2>1, <2>2, <2>3, <2>4 DEF Deleted
  <2>6. IsTree(g, r) /\ m \in Allocated(h) /\ Takes(h, g, a, m)
    BY <1>4, <2>1, <2>2, <2>3, <2>4, ReplacedNode
  <2> QED
    BY <2>5, <2>6
<1> QED
  BY <1>3, <1>4

-----------------------------------------------------------------------------
\* The inductive invariant of SocketTree.

\* The list says which connection the kernel has on each descriptor.
Listed(h, r, o) ==
    /\ IsTree(h, r)
    /\ \A a \in Allocated(h) : o[h[a].socket] = h[a].tls
    /\ \A s \in Sockets : o[s] # NoConnection => \E a \in Allocated(h) : h[a].socket = s

\* A connection is on one descriptor.
OneSocketEach(o, n) ==
    /\ \A s \in Sockets : o[s] # NoConnection => o[s] <= n
    /\ \A s, u \in Sockets : o[s] = o[u] /\ o[s] # NoConnection => s = u

\* What a thread that sends has been given: its node is in the tree and holds its context,
\* while no disconnect has exposed it.
Attached ==
    \A t \in Threads :
        IF thread[t].at = "idle" THEN thread[t] = Resting
        ELSE /\ thread[t].node \in Addresses
             /\ t \notin exposed => /\ thread[t].node \in Allocated(heap)
                                    /\ heap[thread[t].node].tls = thread[t].tls

\* A thread that writes holds the mutex of its node.
WritersHoldLocks ==
    exposed = {} => \A t \in Threads :
        thread[t].at = "writing" => heap[thread[t].node].lock = t

TreeInv ==
    /\ TreeTypeOK
    /\ Listed(heap, head, open) /\ OneSocketEach(open, last)
    /\ Attached
    /\ LocksAreReleased /\ WritersHoldLocks

LEMMA ThreadFacts ==
    /\ Server \in Threads /\ Senders \subseteq Threads /\ Server \notin Senders
    /\ Nobody \notin Threads /\ NoConnection \notin Connections
    /\ Resting \in Sending /\ Resting.at = "idle"
    /\ \A k \in Sending : /\ k.at \in {"idle", "waiting", "writing"}
                          /\ k.node \in Addresses \cup {Nil}
                          /\ k.tls \in Connections \cup {NoConnection}
BY TreeAssumption DEF Threads, Resting, Sending

\* A lookup gives the connection on the descriptor.
LEMMA ListedFound ==
    ASSUME NEW h, NEW r, NEW o, Listed(h, r, o), NEW s \in Sockets
    PROVE  (IF Find(h, r, s) = Nil THEN NoConnection ELSE h[Find(h, r, s)].tls) = o[s]
<1>1. IsTree(h, r) /\ Nil \notin Allocated(h)
  BY NodeFacts DEF Listed, IsTree
<1>2. CASE Find(h, r, s) = Nil
  <2>1. ~ \E x \in Allocated(h) : h[x].socket = s
    BY <1>1, <1>2, FindIs
  <2> QED
    BY <1>2, <2>1 DEF Listed
<1>3. CASE Find(h, r, s) # Nil
  <2>1. Find(h, r, s) \in Allocated(h) /\ h[Find(h, r, s)].socket = s
    BY <1>1, <1>3, FindIs
  <2> QED
    BY <1>3, <2>1 DEF Listed
<1> QED
  BY <1>2, <1>3

\* Only the mutex of a node changes.
Locked(h, a, v) == [h EXCEPT ![a].lock = v]

OnlyLock(h, g, a, v) ==
    /\ Allocated(g) = Allocated(h) /\ g[a].lock = v
    /\ \A x \in Allocated(h) : g[x].tls = h[x].tls /\ (x # a => g[x].lock = h[x].lock)

LEMMA ListedLock ==
    ASSUME NEW h, NEW r, NEW o, Listed(h, r, o), NEW a \in Allocated(h),
           NEW v \in Threads \cup {Nobody}, NEW g, g = Locked(h, a, v)
    PROVE  Listed(g, r, o) /\ OnlyLock(h, g, a, v)
<1>1. /\ h \in [Addresses -> Node \cup {Nil}] /\ a \in Addresses /\ h[a] \in Node
      /\ Nil \notin Node
  BY NodeFacts, TreeAssumption DEF Listed, IsTree
<1>2. PICK n : n = [h[a] EXCEPT !.lock = v]
  OBVIOUS
<1>3. /\ n \in Node /\ n.socket = h[a].socket /\ n.tls = h[a].tls /\ n.lock = v
      /\ n.left = h[a].left /\ n.right = h[a].right
  BY <1>1, <1>2 DEF Node
<1>4. g = [h EXCEPT ![a] = n]
  BY <1>1, <1>2 DEF Locked
<1>5. /\ g \in [Addresses -> Node \cup {Nil}] /\ g[a] = n
      /\ \A x \in Addresses : x # a => g[x] = h[x]
  BY <1>1, <1>3, <1>4
<1>6. Allocated(g) = Allocated(h)
  BY <1>1, <1>3, <1>5 DEF Allocated
<1>7. \A x \in Allocated(h) :
          /\ g[x].socket = h[x].socket /\ g[x].tls = h[x].tls
          /\ g[x].left = h[x].left /\ g[x].right = h[x].right
          /\ x # a => g[x].lock = h[x].lock
  <2>1. \A x \in Allocated(h) : x = a \/ g[x] = h[x]
    BY <1>5 DEF Allocated
  <2> QED
    BY <1>3, <1>5, <2>1
<1>8. ASSUME NEW s
      PROVE  Search(g, s) = Search(h, s)
  BY <1>6, <1>7 DEF Search, Child
<1>9. IsTree(g, r)
  <2>1. \A x \in Allocated(h) : Kids(g, x) = Kids(h, x)
    BY <1>7 DEF Kids
  <2>2. PointToNodes(g, r) /\ OnePointerEach(g, r)
    BY <1>6, <1>7, <2>1 DEF Listed, IsTree, PointToNodes, OnePointerEach
  <2>3. AllFound(g, r)
    BY <1>6, <1>7, <1>8 DEF Listed, IsTree, AllFound, Way
  <2> QED
    BY <1>5, <1>6, <2>2, <2>3 DEF Listed, IsTree
<1>10. Listed(g, r, o)
  <2>1. \A x \in Allocated(g) : o[g[x].socket] = g[x].tls
    BY <1>6, <1>7 DEF Listed
  <2>2. \A s \in Sockets : o[s] # NoConnection => \E x \in Allocated(g) : g[x].socket = s
    BY <1>6, <1>7 DEF Listed
  <2> QED
    BY <1>9, <2>1, <2>2 DEF Listed
<1> QED
  BY <1>3, <1>5, <1>6, <1>7, <1>10 DEF OnlyLock

\* A connection accepted is listed.
LEMMA ListedAdded ==
    ASSUME NEW h, NEW r, NEW o \in [Sockets -> Connections \cup {NoConnection}],
           Listed(h, r, o), NEW g, NEW q, NEW s \in Sockets, NEW k \in Connections,
           o[s] = NoConnection, NEW a \in Addresses, Allocated(g) = Allocated(h) \cup {a},
           IsTree(g, q), \A x \in Allocated(h) : SameAt(h, g, x),
           g[a].socket = s, g[a].tls = k
    PROVE  Listed(g, q, [o EXCEPT ![s] = k])
<1> DEFINE p == [o EXCEPT ![s] = k]
<1>1. p[s] = k /\ \A u \in Sockets : u # s => p[u] = o[u]
  OBVIOUS
<1>2. \A x \in Allocated(h) : h[x].socket # s /\ h[x].socket \in Sockets
  <2>1. \A x \in Allocated(h) : h[x] \in Node
    BY NodeFacts DEF Listed, IsTree
  <2>2. \A x \in Allocated(h) : h[x].tls \in Connections /\ h[x].socket \in Sockets
    BY <2>1 DEF Node
  <2> QED
    BY <2>2, ThreadFacts DEF Listed
<1> HIDE DEF p
<1>3. \A x \in Allocated(g) : p[g[x].socket] = g[x].tls
  BY <1>1, <1>2 DEF Listed, SameAt
<1>4. \A u \in Sockets : p[u] # NoConnection => \E x \in Allocated(g) : g[x].socket = u
  BY <1>1 DEF Listed, SameAt
<1> QED
  BY <1>3, <1>4 DEF Listed, p

\* A connection that ends is listed no more.
LEMMA ListedDeleted ==
    ASSUME NEW h, NEW r, NEW o \in [Sockets -> Connections \cup {NoConnection}],
           Listed(h, r, o), NEW g, NEW q, NEW a \in Allocated(h), NEW s, s = h[a].socket,
           IsTree(g, q), NEW m \in Allocated(h), Takes(h, g, a, m)
    PROVE  Listed(g, q, [o EXCEPT ![s] = NoConnection])
<1> DEFINE p == [o EXCEPT ![s] = NoConnection]
<1>1. \A x \in Allocated(h) : h[x].socket \in Sockets /\ h[x].socket \in Nat
  <2>1. \A x \in Allocated(h) : h[x] \in Node /\ h[x].socket \in Nat
    BY NodeFacts DEF Listed, IsTree
  <2> QED
    BY <2>1 DEF Node
<1>2. p[s] = NoConnection /\ \A u \in Sockets : u # s => p[u] = o[u]
  BY <1>1
<1>3. \A x \in Allocated(h) : x # a => h[x].socket # s
  BY OneNodeEach DEF Listed
<1> HIDE DEF p
<1>4. a # m => h[m].socket # s
  BY <1>3
<1>5. \A x \in Allocated(g) : p[g[x].socket] = g[x].tls
  BY <1>1, <1>2, <1>3, <1>4 DEF Listed, SameAt, Takes
<1>6. ASSUME NEW u \in Sockets, p[u] # NoConnection
      PROVE  \E x \in Allocated(g) : g[x].socket = u
  <2>1. u # s
    BY <1>2, <1>6
  <2>2. PICK x \in Allocated(h) : h[x].socket = u
    BY <1>2, <1>6, <2>1 DEF Listed
  <2>3. x # a
    BY <2>1, <2>2
  <2>4. CASE x = m
    BY <2>2, <2>3, <2>4 DEF Takes
  <2>5. CASE x # m
    BY <2>2, <2>3, <2>5 DEF Takes, SameAt
  <2> QED
    BY <2>4, <2>5
<1> QED
  BY <1>5, <1>6 DEF Listed, p

-----------------------------------------------------------------------------
\* Every step keeps the invariant.

LEMMA TreeInvAddNewClient ==
    ASSUME TreeInv, NEW s \in Sockets, AddNewClient(s)
    PROVE  TreeInv'
<1>1. /\ open[s] = NoConnection /\ last < MaxConnections /\ last' = last + 1
      /\ open' = [open EXCEPT ![s] = last + 1]
      /\ UNCHANGED <<thread, exposed, undefined>>
  BY DEF AddNewClient
<1>2. last \in Nat /\ MaxConnections \in Nat /\ last \in 0 .. MaxConnections
  BY TreeAssumption DEF TreeInv, TreeTypeOK
<1>3. PICK k : k = last + 1
  OBVIOUS
<1>4. k \in Connections /\ last' = k /\ last' \in 0 .. MaxConnections /\ k \in Nat /\ last < k
  BY <1>1, <1>2, <1>3 DEF Connections
<1>5. PICK a \in Addresses \ Allocated(heap) : Hung(heap, head, heap', head', a, s, k)
  BY <1>3 DEF AddNewClient, Hung
<1>6. Listed(heap, head, open) /\ IsTree(heap, head)
  BY DEF TreeInv, Listed
<1>7. open \in [Sockets -> Connections \cup {NoConnection}]
  BY DEF TreeInv, TreeTypeOK
<1>8. \A x \in Allocated(heap) : heap[x].socket # s
  <2>1. \A x \in Allocated(heap) : heap[x] \in Node
    BY <1>6, NodeFacts DEF IsTree
  <2>2. \A x \in Allocated(heap) : heap[x].tls \in Connections
    BY <2>1 DEF Node
  <2> QED
    BY <1>1, <1>6, <2>2, ThreadFacts DEF Listed
<1>9. PICK g : g = heap'
  OBVIOUS
<1>10. PICK q : q = head'
  OBVIOUS
<1>11. /\ IsTree(g, q) /\ Allocated(g) = Allocated(heap) \cup {a}
       /\ \A x \in Allocated(heap) : SameAt(heap, g, x)
       /\ g[a].socket = s /\ g[a].tls = k /\ g[a].lock = Nobody
  <2>1. Hung(heap, head, g, q, a, s, k)
    BY <1>5, <1>9, <1>10
  <2> QED
    BY <1>4, <1>6, <1>8, <2>1, TreeAdded
<1>12. Listed(g, q, open')
  <2>1. open' = [open EXCEPT ![s] = k]
    BY <1>1, <1>3
  <2>2. Listed(g, q, [open EXCEPT ![s] = k])
    BY <1>1, <1>4, <1>6, <1>7, <1>11, ListedAdded
  <2> QED
    BY <2>1, <2>2
<1>13. Listed(heap', head', open')
  BY <1>9, <1>10, <1>12
<1>14. Allocated(heap)' = Allocated(g) /\ Allocated(heap') = Allocated(g)
  BY <1>9 DEF Allocated
<1>15. TreeTypeOK'
  <2>1. heap' \in [Addresses -> Node \cup {Nil}] /\ head' \in Addresses \cup {Nil}
    <3>1. q \in Allocated(g) \cup {Nil}
      BY <1>11 DEF IsTree, PointToNodes
    <3> QED
      BY <1>9, <1>10, <1>11, <3>1 DEF IsTree, Allocated
  <2>2. open' \in [Sockets -> Connections \cup {NoConnection}]
    BY <1>1, <1>3, <1>4, <1>7
  <2> QED
    BY <1>1, <1>4, <2>1, <2>2 DEF TreeTypeOK, TreeInv
<1>16. OneSocketEach(open', last')
  <2>1. /\ \A u \in Sockets : open[u] # NoConnection => open[u] <= last /\ open[u] \in Nat
        /\ \A u, w \in Sockets : open[u] = open[w] /\ open[u] # NoConnection => u = w
    BY <1>7 DEF TreeInv, OneSocketEach, Connections
  <2>2. open'[s] = k /\ \A u \in Sockets : u # s => open'[u] = open[u]
    BY <1>1, <1>3, <1>7
  <2>3. \A u \in Sockets : open'[u] # NoConnection => open'[u] <= k
    <3>1. \A u \in Sockets : open[u] # NoConnection => open[u] <= k
      BY <1>2, <1>4, <2>1
    <3> QED
      BY <1>4, <2>2, <3>1
  <2>4. \A u \in Sockets : open[u] # k
    <3>1. k # NoConnection
      BY <1>4, ThreadFacts
    <3> QED
      BY <1>2, <1>4, <2>1, <3>1
  <2>5. \A u, w \in Sockets : open'[u] = open'[w] /\ open'[u] # NoConnection => u = w
    BY <2>1, <2>2, <2>4
  <2> QED
    BY <1>4, <2>3, <2>5 DEF OneSocketEach
<1>17. \A x \in Allocated(heap) :
           /\ x \in Allocated(heap)' /\ heap'[x].tls = heap[x].tls /\ heap'[x].lock = heap[x].lock
  BY <1>9, <1>11, <1>14 DEF SameAt
<1>18. Attached'
  BY <1>1, <1>17 DEF TreeInv, Attached
<1>19. LocksAreReleased'
  <2> SUFFICES ASSUME exposed = {}, NEW x \in Addresses, heap'[x] # Nil, heap'[x].lock # Nobody
               PROVE  thread[heap'[x].lock].at = "writing" /\ thread[heap'[x].lock].node = x
    BY <1>1 DEF LocksAreReleased
  <2>1. x \in Allocated(heap)
    <3>1. x \in Allocated(g) /\ x # a
      BY <1>9, <1>11 DEF Allocated
    <3> QED
      BY <1>11, <3>1
  <2> QED
    BY <1>17, <2>1 DEF TreeInv, LocksAreReleased, Allocated
<1>20. WritersHoldLocks'
  <2> SUFFICES ASSUME exposed = {}, NEW t \in Threads, thread[t].at = "writing"
               PROVE  heap'[thread[t].node].lock = t
    BY <1>1 DEF WritersHoldLocks
  <2>1. thread[t].node \in Allocated(heap) /\ heap[thread[t].node].lock = t
    BY DEF TreeInv, WritersHoldLocks, Attached
  <2> QED
    BY <1>17, <2>1
<1> QED
  BY <1>13, <1>15, <1>16, <1>18, <1>19, <1>20 DEF TreeInv

\* A disconnect spares the node of a sender it does not expose.
LEMMA Spared ==
    ASSUME TreeInv, NEW s \in Sockets, NEW a \in Allocated(heap), heap[a].socket = s,
           NEW g, NEW m \in Allocated(heap), Takes(heap, g, a, m),
           NEW t \in Senders, t \notin exposed, t \notin Disturbed(s), thread[t].at # "idle"
    PROVE  /\ thread[t].node \in Allocated(heap)
           /\ thread[t].node # a /\ thread[t].node # m
<1>1. PICK x : x = thread[t].node
  OBVIOUS
<1>2. x \in Allocated(heap) /\ heap[x].tls = thread[t].tls /\ thread[t] # Resting
  BY <1>1, ThreadFacts DEF TreeInv, Attached
<1>3. \A y \in Allocated(heap) : /\ heap[y].socket \in Sockets /\ heap[y].socket \in Nat
                                  /\ open[heap[y].socket] = heap[y].tls
                                  /\ heap[y].tls \in Connections
  <2>1. \A y \in Allocated(heap) : heap[y] \in Node /\ heap[y].socket \in Nat
    BY NodeFacts DEF TreeInv, Listed, IsTree
  <2> QED
    BY <2>1 DEF Node, TreeInv, Listed
<1>4. heap[x].socket \in SocketOf(thread[t].tls)
  BY <1>2, <1>3 DEF SocketOf
<1>5. x # a
  <2>1. s \notin SocketOf(thread[t].tls)
    BY <1>2 DEF Disturbed
  <2> QED
    BY <1>4, <2>1
<1>6. x # m
  <2> SUFFICES ASSUME x = m
               PROVE  FALSE
    OBVIOUS
  <2>1. IsNextOf(heap, a, m)
    BY <1>5 DEF Takes
  <2> DEFINE above == {r \in Sockets : r > s /\ open[r] # NoConnection}
             next == {r \in above : \A q \in above : r <= q}
  <2>2. PICK u : u = heap[m].socket
    OBVIOUS
  <2>3. u \in above
    <3>1. u \in Sockets /\ u \in Nat /\ open[u] # NoConnection
      BY <1>3, <2>2, ThreadFacts
    <3>2. s < u /\ s \in Nat
      BY <1>3, <2>1, <2>2 DEF IsNextOf
    <3>3. u > s
      BY <3>1, <3>2
    <3> QED
      BY <3>1, <3>3
  <2>4. ASSUME NEW q \in above
        PROVE  u <= q
    <3>1. q \in Sockets /\ q > s /\ open[q] # NoConnection
      OBVIOUS
    <3>2. PICK b \in Allocated(heap) : heap[b].socket = q
      BY <3>1 DEF TreeInv, Listed
    <3>3. ~(s < q /\ q < u)
      BY <2>1, <2>2, <3>2 DEF IsNextOf
    <3>4. s \in Nat /\ q \in Nat /\ u \in Nat
      BY <1>3, <2>2, <3>2
    <3> QED
      BY <3>1, <3>3, <3>4
  <2>5. u \in next
    BY <2>3, <2>4
  <2>6. u \notin SocketOf(thread[t].tls)
    <3>1. SocketOf(thread[t].tls) \cap ({s} \cup next) = {}
      BY <1>2 DEF Disturbed
    <3> QED
      BY <2>5, <3>1
  <2> QED
    BY <1>4, <2>2, <2>6
<1> QED
  BY <1>1, <1>2, <1>5, <1>6

LEMMA TreeInvDeleteSocketElem ==
    ASSUME TreeInv, NEW s \in Sockets, DeleteSocketElem(s)
    PROVE  TreeInv'
<1>1. /\ thread[Server] = Resting /\ open[s] # NoConnection
      /\ open' = [open EXCEPT ![s] = NoConnection]
      /\ exposed' = exposed \cup Disturbed(s)
      /\ UNCHANGED <<last, thread, undefined>>
  BY DEF DeleteSocketElem, ServerReady
<1>2. PICK d : d = Deleted(heap, head, s)
  OBVIOUS
<1>3. heap' = d.heap /\ head' = d.root
  BY <1>2 DEF DeleteSocketElem
<1>4. Listed(heap, head, open) /\ IsTree(heap, head)
  BY DEF TreeInv, Listed
<1>5. PICK a \in Allocated(heap) : heap[a].socket = s
  BY <1>1, <1>4 DEF Listed
<1>6. IsTree(d.heap, d.root) /\ \E m \in Allocated(heap) : Takes(heap, d.heap, a, m)
  BY <1>2, <1>4, <1>5, TreeDeleted
<1>7. PICK g : g = heap'
  OBVIOUS
<1>8. PICK q : q = head'
  OBVIOUS
<1>9. IsTree(g, q)
  BY <1>3, <1>6, <1>7, <1>8
<1>10. PICK m \in Allocated(heap) : Takes(heap, g, a, m)
  BY <1>3, <1>6, <1>7
<1>11. open \in [Sockets -> Connections \cup {NoConnection}]
  BY DEF TreeInv, TreeTypeOK
<1>12. Listed(heap', head', open')
  <2>1. Listed(g, q, [open EXCEPT ![s] = NoConnection])
    BY <1>4, <1>5, <1>9, <1>10, <1>11, ListedDeleted
  <2> QED
    BY <1>1, <1>7, <1>8, <2>1
<1>13. Allocated(heap)' = Allocated(g)
  BY <1>7 DEF Allocated
<1>14. TreeTypeOK'
  <2>1. heap' \in [Addresses -> Node \cup {Nil}] /\ head' \in Addresses \cup {Nil}
    <3>1. q \in Allocated(g) \cup {Nil}
      BY <1>9 DEF IsTree, PointToNodes
    <3> QED
      BY <1>7, <1>8, <1>9, <3>1 DEF IsTree, Allocated
  <2>2. open' \in [Sockets -> Connections \cup {NoConnection}]
    BY <1>1, <1>11
  <2>3. exposed' \subseteq Senders
    BY <1>1 DEF TreeInv, TreeTypeOK, Disturbed
  <2> QED
    BY <1>1, <2>1, <2>2, <2>3 DEF TreeTypeOK, TreeInv
<1>15. OneSocketEach(open', last')
  <2>1. \A u \in Sockets : open'[u] = IF u = s THEN NoConnection ELSE open[u]
    BY <1>1, <1>11
  <2> QED
    BY <1>1, <2>1 DEF TreeInv, OneSocketEach
<1>16. \A x \in Allocated(heap) : x # a /\ x # m =>
           x \in Allocated(g) /\ g[x].tls = heap[x].tls /\ g[x].lock = heap[x].lock
  BY <1>10 DEF Takes, SameAt
<1>17. ASSUME NEW t \in Threads, t \notin exposed', thread[t].at # "idle"
       PROVE  /\ thread[t].node \in Allocated(heap)
              /\ thread[t].node # a /\ thread[t].node # m
  <2>1. t \in Senders /\ t \notin exposed /\ t \notin Disturbed(s)
    BY <1>1, <1>17, ThreadFacts DEF Threads
  <2> QED
    BY <1>5, <1>10, <1>17, <2>1, Spared
<1>18. Attached'
  <2> SUFFICES ASSUME NEW t \in Threads, thread[t].at # "idle"
               PROVE  /\ thread[t].node \in Addresses
                      /\ t \notin exposed' => /\ thread[t].node \in Allocated(g)
                                              /\ g[thread[t].node].tls = thread[t].tls
    BY <1>1, <1>7, <1>13 DEF TreeInv, Attached
  <2>1. /\ thread[t].node \in Addresses
        /\ t \notin exposed => heap[thread[t].node].tls = thread[t].tls
    BY DEF TreeInv, Attached
  <2> QED
    BY <1>1, <1>16, <1>17, <2>1
<1>19. LocksAreReleased'
  <2> SUFFICES ASSUME exposed' = {}, NEW x \in Addresses, g[x] # Nil, g[x].lock # Nobody
               PROVE  thread[g[x].lock].at = "writing" /\ thread[g[x].lock].node = x
    BY <1>1, <1>7 DEF LocksAreReleased
  <2>1. exposed = {} /\ x \in Allocated(g) /\ x \in Allocated(heap) /\ x # m
    BY <1>1, <1>10 DEF Takes, Allocated
  <2>2. PICK y \in Allocated(heap) : g[x].lock = heap[y].lock /\ (y = x \/ (x = a /\ y = m))
    <3>1. CASE x = a
      BY <1>10, <2>1, <3>1 DEF Takes
    <3>2. CASE x # a
      BY <1>16, <2>1, <3>2
    <3> QED
      BY <3>1, <3>2
  <2>3. PICK t : t = heap[y].lock
    OBVIOUS
  <2>4. thread[t].at = "writing" /\ thread[t].node = y /\ t \in Threads
    <3>1. thread[t].at = "writing" /\ thread[t].node = y
      BY <2>1, <2>2, <2>3 DEF TreeInv, LocksAreReleased, Allocated
    <3>2. heap[y] \in Node
      BY <1>4, NodeFacts DEF IsTree
    <3>3. heap[y].lock \in Threads \cup {Nobody}
      BY <3>2 DEF Node
    <3> QED
      BY <2>2, <2>3, <3>1, <3>3
  <2>5. y # a /\ y # m
    BY <1>17, <2>4
  <2> QED
    BY <2>2, <2>3, <2>4, <2>5
<1>20. WritersHoldLocks'
  <2> SUFFICES ASSUME exposed' = {}, NEW t \in Threads, thread[t].at = "writing"
               PROVE  g[thread[t].node].lock = t
    BY <1>1, <1>7 DEF WritersHoldLocks
  <2>1. heap[thread[t].node].lock = t
    BY <1>1 DEF TreeInv, WritersHoldLocks
  <2> QED
    BY <1>16, <1>17, <2>1
<1> QED
  BY <1>12, <1>14, <1>15, <1>18, <1>19, <1>20 DEF TreeInv

\* A thread is given the node and the context of a descriptor that is found.
LEMMA TreeInvStarted ==
    ASSUME TreeInv, NEW s \in Sockets, NEW t \in Threads, thread[t] = Resting,
           Find(heap, head, s) # Nil,
           thread' = [thread EXCEPT ![t] = [at |-> "waiting", node |-> Find(heap, head, s),
                                            tls |-> heap[Find(heap, head, s)].tls]],
           UNCHANGED <<heap, head, open, last, exposed, undefined>>
    PROVE  TreeInv'
<1>1. PICK a : a = Find(heap, head, s)
  OBVIOUS
<1>2. a \in Allocated(heap) /\ a \in Addresses /\ heap[a] \in Node
  BY <1>1, FindIs, NodeFacts DEF TreeInv, Listed, IsTree
<1>3. PICK k : k = [at |-> "waiting", node |-> a, tls |-> heap[a].tls]
  OBVIOUS
<1>4. k \in Sending /\ k.at = "waiting" /\ k.node = a /\ k.tls = heap[a].tls
  BY <1>2, <1>3 DEF Sending, Node
<1>5. thread \in [Threads -> Sending]
  BY DEF TreeInv, TreeTypeOK
<1>6. /\ thread' \in [Threads -> Sending] /\ thread'[t] = k
      /\ \A u \in Threads : u # t => thread'[u] = thread[u]
  BY <1>1, <1>3, <1>4, <1>5
<1>7. TreeTypeOK'
  BY <1>6 DEF TreeInv, TreeTypeOK
<1>8. Allocated(heap)' = Allocated(heap)
  BY DEF Allocated
<1>9. Listed(heap', head', open') /\ OneSocketEach(open', last')
  BY DEF TreeInv
<1>10. Attached'
  BY <1>2, <1>4, <1>6, <1>8 DEF TreeInv, Attached
<1>11. LocksAreReleased'
  <2> SUFFICES ASSUME exposed = {}, NEW x \in Addresses, heap[x] # Nil, heap[x].lock # Nobody
               PROVE  thread'[heap[x].lock].at = "writing" /\ thread'[heap[x].lock].node = x
    BY DEF LocksAreReleased
  <2>1. thread[heap[x].lock].at = "writing" /\ thread[heap[x].lock].node = x
    BY DEF TreeInv, LocksAreReleased
  <2>2. heap[x].lock \in Threads
    <3>1. heap[x] \in Node
      BY DEF TreeInv, TreeTypeOK
    <3> QED
      BY <3>1 DEF Node
  <2>3. heap[x].lock # t
    BY <2>1, ThreadFacts
  <2> QED
    BY <1>6, <2>1, <2>2, <2>3
<1>12. WritersHoldLocks'
  <2> SUFFICES ASSUME exposed = {}, NEW u \in Threads, thread'[u].at = "writing"
               PROVE  heap[thread'[u].node].lock = u
    BY DEF WritersHoldLocks
  <2>1. u # t
    BY <1>4, <1>6
  <2> QED
    BY <1>6, <2>1 DEF TreeInv, WritersHoldLocks
<1> QED
  BY <1>7, <1>9, <1>10, <1>11, <1>12 DEF TreeInv

\* Only an exposed sender uses freed memory.
LEMMA ExposedUsesFreed ==
    ASSUME TreeInv, NEW t \in Threads, thread[t].at # "idle",
           heap[thread[t].node] = Nil \/ SocketOf(thread[t].tls) = {}
    PROVE  t \in exposed
<1> SUFFICES ASSUME t \notin exposed
             PROVE  FALSE
  OBVIOUS
<1>1. PICK a : a = thread[t].node
  OBVIOUS
<1>2. a \in Allocated(heap) /\ heap[a].tls = thread[t].tls
  BY <1>1 DEF TreeInv, Attached
<1>3. heap[a].socket \in Sockets /\ open[heap[a].socket] = heap[a].tls
  <2>1. heap[a] \in Node
    BY <1>2, NodeFacts DEF TreeInv, Listed, IsTree
  <2> QED
    BY <1>2, <2>1 DEF Node, TreeInv, Listed
<1>4. heap[a].socket \in SocketOf(thread[t].tls)
  BY <1>2, <1>3 DEF SocketOf
<1> QED
  BY <1>1, <1>2, <1>4 DEF Allocated

LEMMA TreeInvUseFreed ==
    ASSUME TreeInv, NEW t \in Threads, t \in exposed, UseFreed(t)
    PROVE  TreeInv'
<1>1. /\ thread' = [thread EXCEPT ![t] = Resting] /\ undefined' = TRUE
      /\ UNCHANGED <<heap, head, open, last, exposed>>
  BY DEF UseFreed
<1>2. thread \in [Threads -> Sending]
  BY DEF TreeInv, TreeTypeOK
<1>3. /\ thread' \in [Threads -> Sending] /\ thread'[t] = Resting
      /\ \A u \in Threads : u # t => thread'[u] = thread[u]
  BY <1>1, <1>2, ThreadFacts
<1>4. TreeTypeOK'
  BY <1>1, <1>3 DEF TreeInv, TreeTypeOK
<1>5. Allocated(heap)' = Allocated(heap)
  BY <1>1 DEF Allocated
<1>6. Listed(heap', head', open') /\ OneSocketEach(open', last')
  BY <1>1 DEF TreeInv
<1>7. Attached'
  BY <1>1, <1>3, <1>5, ThreadFacts DEF TreeInv, Attached
<1>8. LocksAreReleased' /\ WritersHoldLocks'
  BY <1>1 DEF LocksAreReleased, WritersHoldLocks
<1> QED
  BY <1>4, <1>6, <1>7, <1>8 DEF TreeInv

\* A thread goes on sending, or rests, and the mutex of its node changes.
GoesOn(t) == {Resting} \cup {[thread[t] EXCEPT !.at = p] : p \in {"waiting", "writing"}}

Latched(t, a, v, k) ==
    /\ heap' = Locked(heap, a, v)
    /\ k \in GoesOn(t) /\ thread' = [thread EXCEPT ![t] = k]
    /\ UNCHANGED <<head, open, last, exposed, undefined>>

StaysAttached(t, a, v, k) ==
    /\ TreeTypeOK' /\ Listed(heap', head', open') /\ OneSocketEach(open', last')
    /\ Attached'
    /\ Allocated(heap)' = Allocated(heap)
    /\ heap'[a].lock = v
    /\ \A x \in Allocated(heap) : x # a => heap'[x].lock = heap[x].lock
    /\ thread'[t] = k /\ \A u \in Threads : u # t => thread'[u] = thread[u]

LEMMA AttachedLock ==
    ASSUME TreeInv, NEW t \in Threads, thread[t].at # "idle",
           NEW a, a = thread[t].node, a \in Allocated(heap),
           NEW v \in Threads \cup {Nobody}, NEW k, Latched(t, a, v, k)
    PROVE  StaysAttached(t, a, v, k)
<1> USE DEF Latched
<1>1. PICK g : g = heap'
  OBVIOUS
<1>2. /\ Listed(g, head, open) /\ Allocated(g) = Allocated(heap) /\ g[a].lock = v
      /\ \A x \in Allocated(heap) : g[x].tls = heap[x].tls /\ (x # a => g[x].lock = heap[x].lock)
  <2>1. g = Locked(heap, a, v)
    BY <1>1
  <2>2. Listed(heap, head, open)
    BY DEF TreeInv
  <2>3. Listed(g, head, open) /\ OnlyLock(heap, g, a, v)
    BY <2>1, <2>2, ListedLock
  <2> QED
    BY <2>3 DEF OnlyLock
<1>3. thread \in [Threads -> Sending]
  BY DEF TreeInv, TreeTypeOK
<1>4. /\ k \in Sending
      /\ k = Resting \/ (k.at # "idle" /\ k.node = a /\ k.tls = thread[t].tls)
  <2>1. CASE k = Resting
    BY <2>1, ThreadFacts
  <2>2. ASSUME NEW p \in {"waiting", "writing"}, k = [thread[t] EXCEPT !.at = p]
        PROVE  k \in Sending /\ k.at # "idle" /\ k.node = a /\ k.tls = thread[t].tls
    BY <1>3, <2>2 DEF Sending
  <2> QED
    BY <2>1, <2>2 DEF GoesOn
<1>5. /\ thread' \in [Threads -> Sending] /\ thread'[t] = k
      /\ \A u \in Threads : u # t => thread'[u] = thread[u]
  BY <1>3, <1>4
<1>6. Allocated(heap)' = Allocated(heap)
  BY <1>1, <1>2 DEF Allocated
<1>7. TreeTypeOK'
  BY <1>1, <1>2, <1>5 DEF TreeInv, TreeTypeOK, Listed, IsTree
<1>8. Listed(heap', head', open') /\ OneSocketEach(open', last')
  BY <1>1, <1>2 DEF TreeInv
<1>9. Attached'
  <2> SUFFICES ASSUME NEW u \in Threads
               PROVE  IF thread'[u].at = "idle" THEN thread'[u] = Resting
                      ELSE /\ thread'[u].node \in Addresses
                           /\ u \notin exposed => /\ thread'[u].node \in Allocated(heap)
                                                  /\ g[thread'[u].node].tls = thread'[u].tls
    BY <1>1, <1>6 DEF Attached
  <2>1. IF thread[u].at = "idle" THEN thread[u] = Resting
        ELSE /\ thread[u].node \in Addresses
             /\ u \notin exposed => /\ thread[u].node \in Allocated(heap)
                                    /\ g[thread[u].node].tls = thread[u].tls
    BY <1>2 DEF TreeInv, Attached
  <2>2. CASE u # t
    BY <1>5, <2>1, <2>2
  <2>3. CASE u = t
    BY <1>4, <1>5, <2>1, <2>3, ThreadFacts
  <2> QED
    BY <2>2, <2>3
<1> QED
  BY <1>1, <1>2, <1>5, <1>6, <1>7, <1>8, <1>9 DEF StaysAttached

\* Who holds a mutex is a thread.
LEMMA HolderIsThread ==
    ASSUME TreeInv, NEW x \in Allocated(heap), heap[x].lock # Nobody
    PROVE  heap[x].lock \in Threads
<1>1. heap[x] \in Node
  BY NodeFacts DEF TreeInv, TreeTypeOK
<1> QED
  BY <1>1 DEF Node

LEMMA TreeInvLock ==
    ASSUME TreeInv, NEW t \in Threads, Lock(t)
    PROVE  TreeInv'
<1>1. PICK a : a = thread[t].node
  OBVIOUS
<1>2. thread[t].at = "waiting"
  BY DEF Lock
<1>3. CASE heap[a] = Nil /\ UseFreed(t)
  BY <1>1, <1>2, <1>3, ExposedUsesFreed, TreeInvUseFreed
<1>4. CASE /\ heap[a] # Nil /\ heap[a].lock = Nobody
           /\ heap' = [heap EXCEPT ![a].lock = t]
           /\ thread' = [thread EXCEPT ![t].at = "writing"]
           /\ UNCHANGED <<head, open, last, exposed, undefined>>
  <2>1. a \in Allocated(heap) /\ Allocated(heap) \subseteq Addresses
    BY <1>1, <1>2, <1>4 DEF TreeInv, Attached, Allocated
  <2>2. PICK k : k = [thread[t] EXCEPT !.at = "writing"]
    OBVIOUS
  <2>3. thread' = [thread EXCEPT ![t] = k]
    BY <1>4, <2>2 DEF TreeInv, TreeTypeOK
  <2>4. k.at = "writing" /\ k.node = a
    BY <1>1, <2>2 DEF TreeInv, TreeTypeOK, Sending
  <2>5. /\ TreeTypeOK' /\ Listed(heap', head', open') /\ OneSocketEach(open', last')
        /\ Attached'
        /\ Allocated(heap)' = Allocated(heap)
        /\ heap'[a].lock = t
        /\ \A x \in Allocated(heap) : x # a => heap'[x].lock = heap[x].lock
        /\ thread'[t] = k /\ \A u \in Threads : u # t => thread'[u] = thread[u]
    <3>1. Latched(t, a, t, k)
      BY <1>4, <2>2, <2>3 DEF Locked, GoesOn, Latched
    <3>2. thread[t].at # "idle" /\ t \in Threads \cup {Nobody} /\ TreeInv /\ t \in Threads
      BY <1>2
    <3>3. StaysAttached(t, a, t, k)
      BY <1>1, <2>1, <3>1, <3>2, AttachedLock
    <3> QED
      BY <3>3 DEF StaysAttached
  <2>6. LocksAreReleased'
    <3> SUFFICES ASSUME exposed = {}, NEW x \in Allocated(heap), heap'[x].lock # Nobody
                 PROVE  thread'[heap'[x].lock].at = "writing" /\ thread'[heap'[x].lock].node = x
      BY <1>4, <2>5 DEF LocksAreReleased, Allocated
    <3>1. CASE x = a
      BY <2>4, <2>5, <3>1
    <3>2. CASE x # a
      <4>1. thread[heap[x].lock].at = "writing" /\ thread[heap[x].lock].node = x
        BY <2>5, <3>2 DEF TreeInv, LocksAreReleased, Allocated
      <4>2. heap[x].lock \in Threads /\ heap[x].lock # t
        BY <1>2, <2>5, <3>2, <4>1, HolderIsThread
      <4> QED
        BY <2>5, <3>2, <4>1, <4>2
    <3> QED
      BY <3>1, <3>2
  <2>7. WritersHoldLocks'
    <3> SUFFICES ASSUME exposed = {}, NEW u \in Threads, thread'[u].at = "writing"
                 PROVE  heap'[thread'[u].node].lock = u
      BY <1>4 DEF WritersHoldLocks
    <3>1. CASE u = t
      BY <2>4, <2>5, <3>1
    <3>2. CASE u # t
      <4>1. /\ thread'[u] = thread[u] /\ heap[thread[u].node].lock = u
            /\ thread[u].node \in Allocated(heap)
        BY <2>5, <3>2 DEF TreeInv, WritersHoldLocks, Attached
      <4>2. thread[u].node # a
        BY <1>4, <4>1, ThreadFacts
      <4> QED
        BY <2>5, <4>1, <4>2
    <3> QED
      BY <3>1, <3>2
  <2> QED
    BY <2>5, <2>6, <2>7 DEF TreeInv
<1> QED
  BY <1>1, <1>3, <1>4 DEF Lock

LEMMA TreeInvWriteUnlock ==
    ASSUME TreeInv, NEW t \in Threads, WriteUnlock(t)
    PROVE  TreeInv'
<1>1. PICK a : a = thread[t].node
  OBVIOUS
<1>2. thread[t].at = "writing"
  BY DEF WriteUnlock
<1>3. CASE (heap[a] = Nil \/ SocketOf(thread[t].tls) = {}) /\ UseFreed(t)
  BY <1>1, <1>2, <1>3, ExposedUsesFreed, TreeInvUseFreed
<1>4. CASE /\ heap[a] # Nil
           /\ heap' = [heap EXCEPT ![a].lock = Nobody]
           /\ \E then \in AfterSend(t) : thread' = [thread EXCEPT ![t] = then]
           /\ UNCHANGED <<head, open, last, exposed, undefined>>
  <2>1. a \in Allocated(heap) /\ Allocated(heap) \subseteq Addresses
    BY <1>1, <1>2, <1>4 DEF TreeInv, Attached, Allocated
  <2>2. PICK k \in AfterSend(t) : thread' = [thread EXCEPT ![t] = k]
    BY <1>4
  <2>3. k = Resting \/ k = [thread[t] EXCEPT !.at = "waiting"]
    BY <2>2 DEF AfterSend
  <2>4. k.at # "writing"
    BY <2>3, ThreadFacts DEF TreeInv, TreeTypeOK, Sending
  <2>5. /\ TreeTypeOK' /\ Listed(heap', head', open') /\ OneSocketEach(open', last')
        /\ Attached'
        /\ Allocated(heap)' = Allocated(heap)
        /\ heap'[a].lock = Nobody
        /\ \A x \in Allocated(heap) : x # a => heap'[x].lock = heap[x].lock
        /\ thread'[t] = k /\ \A u \in Threads : u # t => thread'[u] = thread[u]
    <3>1. Latched(t, a, Nobody, k)
      BY <1>4, <2>2, <2>3 DEF Locked, GoesOn, Latched
    <3>2. thread[t].at # "idle" /\ Nobody \in Threads \cup {Nobody} /\ TreeInv /\ t \in Threads
      BY <1>2
    <3>3. StaysAttached(t, a, Nobody, k)
      BY <1>1, <2>1, <3>1, <3>2, AttachedLock
    <3> QED
      BY <3>3 DEF StaysAttached
  <2>6. LocksAreReleased'
    <3> SUFFICES ASSUME exposed = {}, NEW x \in Allocated(heap), heap'[x].lock # Nobody
                 PROVE  thread'[heap'[x].lock].at = "writing" /\ thread'[heap'[x].lock].node = x
      BY <1>4, <2>5 DEF LocksAreReleased, Allocated
    <3>1. x # a /\ heap'[x].lock = heap[x].lock
      BY <2>5
    <3>2. thread[heap[x].lock].at = "writing" /\ thread[heap[x].lock].node = x
      BY <3>1 DEF TreeInv, LocksAreReleased, Allocated
    <3>3. heap[x].lock \in Threads /\ heap[x].lock # t
      BY <1>1, <3>1, <3>2, HolderIsThread
    <3> QED
      BY <2>5, <3>1, <3>2, <3>3
  <2>7. WritersHoldLocks'
    <3> SUFFICES ASSUME exposed = {}, NEW u \in Threads, thread'[u].at = "writing"
                 PROVE  heap'[thread'[u].node].lock = u
      BY <1>4 DEF WritersHoldLocks
    <3>1. u # t
      BY <2>4, <2>5
    <3>2. /\ thread'[u] = thread[u] /\ heap[thread[u].node].lock = u
          /\ thread[u].node \in Allocated(heap)
      BY <2>5, <3>1 DEF TreeInv, WritersHoldLocks, Attached
    <3>3. heap[a].lock = t
      BY <1>1, <1>2 DEF TreeInv, WritersHoldLocks
    <3> QED
      BY <2>5, <3>1, <3>2, <3>3
  <2> QED
    BY <2>5, <2>6, <2>7 DEF TreeInv
<1> QED
  BY <1>1, <1>3, <1>4 DEF WriteUnlock

LEMMA TreeInvInit ==
    ASSUME TreeInit
    PROVE  TreeInv
<1>1. Allocated(heap) = {}
  BY DEF TreeInit, Allocated
<1>2. TreeTypeOK
  <2>1. last \in 0 .. MaxConnections
    BY TreeAssumption DEF TreeInit
  <2>2. thread \in [Threads -> Sending]
    BY ThreadFacts DEF TreeInit
  <2>3. heap \in [Addresses -> Node \cup {Nil}] /\ open \in [Sockets -> Connections \cup {NoConnection}]
    BY DEF TreeInit
  <2> QED
    BY <2>1, <2>2, <2>3 DEF TreeInit, TreeTypeOK
<1>3. IsTree(heap, head)
  <2>1. IsFiniteSet({})
    BY FS_EmptySet
  <2> QED
    BY <1>1, <1>2, <2>1 DEF TreeInit, TreeTypeOK, IsTree, PointToNodes, OnePointerEach, AllFound
<1>4. Listed(heap, head, open)
  BY <1>1, <1>3 DEF TreeInit, Listed
<1>5. OneSocketEach(open, last)
  BY DEF TreeInit, OneSocketEach
<1>6. Attached
  BY ThreadFacts DEF TreeInit, Attached
<1>7. LocksAreReleased
  BY <1>1 DEF LocksAreReleased, Allocated
<1>8. WritersHoldLocks
  BY ThreadFacts DEF TreeInit, WritersHoldLocks
<1> QED
  BY <1>2, <1>4, <1>5, <1>6, <1>7, <1>8 DEF TreeInv

LEMMA TreeInvStep ==
    ASSUME TreeInv, [TreeNext]_treeVars
    PROVE  TreeInv'
<1>1. ASSUME NEW s \in Sockets, AddNewClient(s)
      PROVE  TreeInv'
  BY <1>1, TreeInvAddNewClient
<1>2. ASSUME NEW s \in Sockets, DeleteSocketElem(s)
      PROVE  TreeInv'
  BY <1>2, TreeInvDeleteSocketElem
<1>3. ASSUME NEW s \in Sockets, ServerSend(s)
      PROVE  TreeInv'
  <2>1. Server \in Threads /\ thread[Server] = Resting
    BY <1>3, ThreadFacts DEF ServerSend, ServerReady
  <2> QED
    BY <1>3, <2>1, TreeInvStarted DEF ServerSend
<1>4. ASSUME NEW s \in Sockets, NEW t \in Senders, StartSender(s, t)
      PROVE  TreeInv'
  <2>1. t \in Threads
    BY ThreadFacts
  <2> QED
    BY <1>4, <2>1, TreeInvStarted DEF StartSender
<1>5. ASSUME NEW t \in Threads, Lock(t)
      PROVE  TreeInv'
  BY <1>5, TreeInvLock
<1>6. ASSUME NEW t \in Threads, WriteUnlock(t)
      PROVE  TreeInv'
  BY <1>6, TreeInvWriteUnlock
<1>7. CASE UNCHANGED treeVars
  <2>1. Allocated(heap)' = Allocated(heap)
    BY <1>7 DEF treeVars, Allocated
  <2> QED
    BY <1>7, <2>1 DEF treeVars, TreeInv, TreeTypeOK, Attached, LocksAreReleased, WritersHoldLocks
<1> QED
  BY <1>1, <1>2, <1>3, <1>4, <1>5, <1>6, <1>7 DEF TreeNext

LEMMA TreeInvAlways == TreeSpec => []TreeInv
<1>1. TreeInit => TreeInv
  BY TreeInvInit
<1>2. TreeInv /\ [TreeNext]_treeVars => TreeInv'
  BY TreeInvStep
<1> QED
  BY <1>1, <1>2, PTL DEF TreeSpec

\* Every variable of the list of sockets and of the threads keeps its type: the pointers
\* of deleteNode and mx_add_socket_elem are to nodes, and the mutexes of the nodes are
\* held by threads or by nobody.
THEOREM TreeTypes == TreeSpec => []TreeTypeOK
<1>1. TreeInv => TreeTypeOK
  BY DEF TreeInv
<1> QED
  BY <1>1, TreeInvAlways, PTL

\* While no disconnect has pulled a node from under a running sender, the mutexes that
\* mx_save_send takes keep two threads from writing to one TLS context at once.
THEOREM TakingTurns == TreeSpec => []WritersTakeTurns
<1>1. ASSUME TreeInv
      PROVE  WritersTakeTurns
  <2> SUFFICES ASSUME exposed = {}, NEW t \in Threads, NEW u \in Threads,
                      thread[t].at = "writing", thread[u].at = "writing",
                      thread[t].tls = thread[u].tls
               PROVE  t = u
    BY DEF WritersTakeTurns
  <2>1. PICK a : a = thread[t].node
    OBVIOUS
  <2>2. PICK b : b = thread[u].node
    OBVIOUS
  <2>3. /\ a \in Allocated(heap) /\ b \in Allocated(heap) /\ heap[a].tls = heap[b].tls
        /\ heap[a].lock = t /\ heap[b].lock = u
    BY <1>1, <2>1, <2>2 DEF TreeInv, Attached, WritersHoldLocks
  <2>4. /\ heap[a].socket \in Sockets /\ heap[b].socket \in Sockets
        /\ heap[a].tls \in Connections
    <3>1. heap[a] \in Node /\ heap[b] \in Node
      BY <1>1, <2>3, NodeFacts DEF TreeInv, TreeTypeOK
    <3> QED
      BY <3>1 DEF Node
  <2>5. open[heap[a].socket] = heap[a].tls /\ open[heap[b].socket] = heap[b].tls
    BY <1>1, <2>3 DEF TreeInv, Listed
  <2>6. heap[a].socket = heap[b].socket
    BY <1>1, <2>3, <2>4, <2>5, ThreadFacts DEF TreeInv, OneSocketEach
  <2>7. a = b
    BY <1>1, <2>3, <2>6, OneNodeEach DEF TreeInv, Listed
  <2> QED
    BY <2>3, <2>7
<1> QED
  BY <1>1, TreeInvAlways, PTL

\* While no disconnect has pulled a node from under a running sender, a mutex that is
\* locked is held by a thread that is inside mx_save_send for that very node.
THEOREM LocksReleased == TreeSpec => []LocksAreReleased
<1>1. TreeInv => LocksAreReleased
  BY DEF TreeInv
<1> QED
  BY <1>1, TreeInvAlways, PTL

\* Only a sender whose own client, or the client with the next smaller descriptor, has
\* disconnected while it was sending uses freed memory: deleteNode spares every other node.
THEOREM FreedMemory == TreeSpec => FreedMemoryNotUsed
<1>1. ASSUME TreeInv, [TreeNext]_treeVars
      PROVE  [undefined' # undefined => \E t \in exposed : thread'[t] # thread[t]]_treeVars
  <2> SUFFICES ASSUME TreeNext, undefined' # undefined
               PROVE  \E t \in exposed : thread'[t] # thread[t]
    BY <1>1
  <2>1. PICK t \in Threads : /\ thread[t].at # "idle" /\ UseFreed(t)
                             /\ heap[thread[t].node] = Nil \/ SocketOf(thread[t].tls) = {}
    BY DEF TreeNext, AddNewClient, DeleteSocketElem, ServerSend, StartSender, Lock, WriteUnlock
  <2>2. t \in exposed
    BY <1>1, <2>1, ExposedUsesFreed
  <2>3. thread'[t] = Resting
    BY <1>1, <2>1 DEF UseFreed, TreeInv, TreeTypeOK
  <2> QED
    BY <2>1, <2>2, <2>3, ThreadFacts
<1> QED
  BY <1>1, TreeInvAlways, PTL DEF TreeSpec, FreedMemoryNotUsed

\* Through every order of connecting and disconnecting, the list implements the
\* registry: looking a descriptor up gives the connection open on it and no other.
THEOREM TreeImplementsRegistry == TreeSpec => ImplementsRegistry
<1> DEFINE Found(h, r) == [s \in Sockets |-> LET a == Find(h, r, s)
                                            IN  IF a = Nil THEN NoConnection ELSE h[a].tls]
<1>0. ASSUME NEW h, NEW r, NEW o \in [Sockets -> Connections \cup {NoConnection}],
             Listed(h, r, o)
      PROVE  Found(h, r) = o
  BY <1>0, ListedFound
<1>1. ASSUME TreeInit
      PROVE  Registry!RegistryInit
  <2>1. Found(heap, head) = open
    BY <1>0, <1>1, TreeInvInit DEF TreeInv, TreeTypeOK
  <2>2. open = [s \in Sockets |-> NoConnection] /\ 1 .. last = {}
    BY <1>1 DEF TreeInit
  <2> QED
    BY <2>1, <2>2 DEF Registry!RegistryInit
<1>2. ASSUME TreeInv, TreeInv', [TreeNext]_treeVars
      PROVE  [Registry!RegistryNext]_(Registry!registryVars)
  <2>1. Found(heap, head) = open /\ Found(heap', head') = open'
    BY <1>0, <1>2 DEF TreeInv, TreeTypeOK
  <2>2. open \in [Sockets -> Connections \cup {NoConnection}] /\ last \in Nat
    BY <1>2, TreeAssumption DEF TreeInv, TreeTypeOK
  <2> HIDE DEF Found
  <2>3. ASSUME NEW s \in Sockets, AddNewClient(s)
        PROVE  Registry!Register(s, last + 1) /\ last + 1 \in Connections
    <3>1. /\ open[s] = NoConnection /\ last < MaxConnections /\ last' = last + 1
          /\ open' = [open EXCEPT ![s] = last + 1]
      BY <2>3 DEF AddNewClient
    <3>2. last + 1 \in Connections \ (1 .. last) /\ 1 .. last' = (1 .. last) \cup {last + 1}
      BY <2>2, <3>1, TreeAssumption DEF Connections
    <3> QED
      BY <2>1, <3>1, <3>2 DEF Registry!Register, Found
  <2>4. ASSUME NEW s \in Sockets, DeleteSocketElem(s)
        PROVE  Registry!Unregister(s)
    BY <2>1, <2>4 DEF DeleteSocketElem, Registry!Unregister, Found
  <2>5. CASE UNCHANGED <<open, last>>
    BY <2>1, <2>5 DEF Registry!registryVars, Found
  <2>6. ASSUME NEW t \in Threads, Lock(t) \/ WriteUnlock(t)
        PROVE  UNCHANGED <<open, last>>
    BY <2>6 DEF Lock, WriteUnlock, UseFreed
  <2>7. ASSUME NEW s \in Sockets, ServerSend(s) \/ \E t \in Senders : StartSender(s, t)
        PROVE  UNCHANGED <<open, last>>
    BY <2>7 DEF ServerSend, StartSender
  <2>8. CASE UNCHANGED treeVars
    BY <2>5, <2>8 DEF treeVars
  <2> QED
    BY <1>2, <2>3, <2>4, <2>5, <2>6, <2>7, <2>8 DEF TreeNext, Registry!RegistryNext
<1>3. TreeInv /\ TreeInv' /\ [TreeNext]_treeVars => [Registry!RegistryNext]_(Registry!registryVars)
  BY <1>2
<1>4. TreeInit => Registry!RegistryInit
  BY <1>1
<1> QED
  BY <1>3, <1>4, TreeInvAlways, PTL DEF TreeSpec, ImplementsRegistry, Registry!RegistrySpec
=============================================================================
