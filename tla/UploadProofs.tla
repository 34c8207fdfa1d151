----------------------------- MODULE UploadProofs -----------------------------
(* Proofs of the invariants of Upload, for any clients, files and number of    *)
(* uploads: first those that hold whoever uploads what, then those about users *)
(* whose uploads come one after another.                                       *)
EXTENDS Upload, SequenceTheorems, FiniteSetTheorems, WellFoundedInduction, TLAPS

-----------------------------------------------------------------------------
\* What holds besides and makes the invariants inductive.

\* The pieces on a connection are of uploads begun.
OutIsOfUploads ==
    \A c \in Clients : \A i \in DOMAIN out[c] : out[c][i].upload \in DOMAIN uploads

\* A path that was opened once has one FILE, and nothing is written through it
\* before it is closed.
OneFileEach ==
    /\ \A i, j \in DOMAIN inputFiles :
          inputFiles[i].path = inputFiles[j].path /\ inputFiles[i].path \notin reused => i = j
    /\ \A i \in DOMAIN inputFiles :
          inputFiles[i].path \notin reused => disk[inputFiles[i].path] = <<>>
    /\ \A i \in DOMAIN inputFiles, k \in DOMAIN announced :
          inputFiles[i].path = announced[k].path => inputFiles[i].path \in reused

UploadInv == TypeOK /\ OutIsOfUploads /\ OneFileEach /\ AnnouncedHasItsSize

Of(c) == {u \in DOMAIN uploads : uploads[u].client = c}

\* How many pieces of u the server has handled, of a user in order.
Got(u) == IF Handled(u) THEN uploads[u].file.length + 1
          ELSE uploads[u].sent - Len(out[uploads[u].client])

ToAnnounce(u) ==
    /\ u \notin refused
    /\ uploads[u].file.size = uploads[u].file.length
    /\ uploads[u].file.name \notin Quoted

\* The pieces on a connection are the client's own.
OutIsOwn ==
    \A c \in Clients : \A i \in DOMAIN out[c] :
        out[c][i].id = c /\ out[c][i].upload \in Of(c)

\* What the server has of uploads is of uploads begun.
OfUploads ==
    /\ \A u \in DOMAIN uploads : uploads[u].sent <= uploads[u].file.length + 1
    /\ \A k \in DOMAIN announced : announced[k].by \in DOMAIN uploads
    /\ refused \subseteq DOMAIN uploads

\* c sends one file after the other, each to its end; what is on its connection
\* are the last pieces sent, in order.
InTurn(c) ==
    /\ \A u \in Of(c) : ~uploads[u].cut
    /\ \A u, v \in Of(c) : ~Handled(u) /\ ~Handled(v) => u = v
    /\ \A i \in DOMAIN out[c] :
          LET u == out[c][i].upload
              n == uploads[u].sent - Len(out[c])
          IN  n >= 0 /\ out[c][i].piece = KindOf(uploads[u].file, n + i - 1)

\* The entry of c holds what the server has of its upload, unless the file could
\* not be opened.
EntryIsOfUpload(c) ==
    /\ \A j \in DOMAIN inputFiles :
          inputFiles[j].id = c =>
              \E u \in Of(c) :
                  /\ ~Handled(u) /\ u \notin refused /\ Got(u) >= 1
                  /\ inputFiles[j].path[2] = uploads[u].file.name
                  /\ inputFiles[j].size = uploads[u].file.size
                  /\ inputFiles[j].data = [i \in 1 .. Got(u) - 1 |-> u]
    /\ \A i, j \in DOMAIN inputFiles :
          inputFiles[i].id = c /\ inputFiles[j].id = c => i = j
    /\ \A u \in Of(c) :
          Got(u) >= 1 => Handled(u) \/ u \in refused \/ \E j \in DOMAIN inputFiles : inputFiles[j].id = c
    /\ \A u \in Of(c) : u \in refused => Got(u) >= 1

\* u is announced once, with its name and its bytes, when all its pieces have
\* been handled.
AnnouncedOnce(u) ==
    /\ \A k \in DOMAIN announced :
          announced[k].by = u =>
              /\ Handled(u) /\ ToAnnounce(u)
              /\ announced[k].path[2] = uploads[u].file.name
              /\ announced[k].path \notin reused => disk[announced[k].path] = Whole(u)
    /\ \A k, l \in DOMAIN announced : announced[k].by = u /\ announced[l].by = u => k = l
    /\ Handled(u) /\ ToAnnounce(u) => \E k \in DOMAIN announced : announced[k].by = u

InOrder(c) ==
    InTurn(c) /\ EntryIsOfUpload(c) /\ \A u \in Of(c) : AnnouncedOnce(u)

InOrderInv == OutIsOwn /\ OfUploads /\ \A c \in Clients \ dirty : InOrder(c)

-----------------------------------------------------------------------------

\* A set of numbers has a least one.
LEMMA LeastNumber ==
    ASSUME NEW S, S \subseteq Nat, S # {}
    PROVE  Min(S) \in S /\ \A y \in S : Min(S) <= y
<1>1. \E x \in S : \A y \in S : <<y, x>> \notin OpToRel(<, Nat)
  BY WFMin, NatLessThanWellFounded
<1>2. PICK x \in S : \A y \in S : ~(y < x)
  BY <1>1 DEF OpToRel
<1>3. \E z \in S : \A y \in S : z <= y
  BY <1>2
<1> QED
  BY <1>3 DEF Min

\* A list without its element i.
LEMMA ListWithoutElement ==
    ASSUME NEW S, NEW s \in Seq(S), NEW i \in 1 .. Len(s)
    PROVE  /\ RemoveAt(s, i) \in Seq(S)
           /\ Len(RemoveAt(s, i)) = Len(s) - 1
           /\ \A j \in 1 .. Len(s) - 1 : RemoveAt(s, i)[j] = IF j < i THEN s[j] ELSE s[j + 1]
<1> DEFINE a == SubSeq(s, 1, i - 1)
           b == SubSeq(s, i + 1, Len(s))
<1>1. a \in Seq(S) /\ Len(a) = i - 1 /\ \A j \in 1 .. i - 1 : a[j] = s[j]
  OBVIOUS
<1>2. b \in Seq(S) /\ Len(b) = Len(s) - i
      /\ \A j \in 1 .. Len(s) - i : b[j] = s[i + j]
  OBVIOUS
<1> HIDE DEF a, b
<1>3. /\ a \o b \in Seq(S) /\ Len(a \o b) = Len(a) + Len(b)
      /\ \A j \in 1 .. Len(a) + Len(b) :
            (a \o b)[j] = IF j <= Len(a) THEN a[j] ELSE b[j - Len(a)]
  BY <1>1, <1>2, ConcatProperties
<1>4. RemoveAt(s, i) = a \o b
  BY DEF RemoveAt, a, b
<1>5. ASSUME NEW j \in 1 .. Len(s) - 1
      PROVE  (a \o b)[j] = IF j < i THEN s[j] ELSE s[j + 1]
  <2>1. CASE j < i
    BY <1>1, <1>2, <1>3, <2>1
  <2>2. CASE ~(j < i)
    <3>1. j - (i - 1) \in 1 .. Len(s) - i /\ i + (j - (i - 1)) = j + 1
      BY <2>2
    <3>2. j \in 1 .. Len(a) + Len(b) /\ ~(j <= Len(a)) /\ Len(a) = i - 1
      BY <1>1, <1>2, <2>2
    <3>3. (a \o b)[j] = b[j - (i - 1)]
      BY <1>3, <3>2
    <3> QED
      BY <1>2, <2>2, <3>1, <3>3
  <2> QED
    BY <2>1, <2>2
<1>6. Len(a) + Len(b) = Len(s) - 1
  BY <1>1, <1>2
<1> QED
  BY <1>3, <1>4, <1>5, <1>6

-----------------------------------------------------------------------------

LEMMA UploadConstants ==
    /\ MaxSize \in Nat /\ MaxUploads \in Nat /\ MaxSeconds \in Nat \ {0} /\ MaxBreaks \in Nat
    /\ \A f \in Files : f.size \in 1 .. MaxSize /\ f.length \in 1 .. MaxSize
    /\ NoFile \notin Seq(UploadIds)
<1>1. \A s : s \in Seq(UploadIds) => s \in Seq(Nat)
  BY UploadAssumption DEF UploadIds
<1> QED
  BY <1>1, UploadAssumption

\* The first entry of a user, and what the list of files is after a piece.
LEMMA FirstEntryFacts ==
    ASSUME NEW files \in Seq(FileEntry), NEW id
    PROVE  FirstEntry(files, id) \in 0 .. Len(files)
<1> DEFINE I == {i \in 1 .. Len(files) : files[i].id = id}
<1>1. FirstEntry(files, id) = IF I # {} THEN Min(I) ELSE 0
  BY DEF FirstEntry, SelectInSeq
<1>2. I \subseteq Nat
  OBVIOUS
<1>3. I # {} => Min(I) \in I
  BY <1>2, LeastNumber
<1> QED
  BY <1>1, <1>3

\* No path is changed by data that comes in, and an entry of a list has its type.
LEMMA EntryTypes ==
    ASSUME NEW files \in Seq(FileEntry), NEW i \in DOMAIN files
    PROVE  /\ files[i] \in FileEntry /\ files[i].path \in Paths
           /\ files[i].size \in 1 .. MaxSize /\ files[i].data \in Seq(UploadIds)
<1>1. files[i] \in FileEntry
  OBVIOUS
<1> QED
  BY <1>1 DEF FileEntry

LEMMA AnnouncedPaths ==
    ASSUME announced \in Seq(Announcement), NEW k \in DOMAIN announced
    PROVE  announced[k].path \in Paths
<1>1. announced[k] \in Announcement
  OBVIOUS
<1> QED
  BY <1>1 DEF Announcement

LEMMA WithDataFacts ==
    ASSUME NEW files \in Seq(FileEntry), NEW p \in Piece
    PROVE  /\ WithData(files, p) \in Seq(FileEntry)
           /\ Len(WithData(files, p)) = Len(files)
           /\ DOMAIN WithData(files, p) = DOMAIN files
           /\ \A j \in DOMAIN files : WithData(files, p)[j].path = files[j].path
<1> DEFINE i == FirstEntry(files, p.id)
<1>1. i \in 0 .. Len(files)
  BY FirstEntryFacts
<1>2. WithData(files, p) = IF i = 0 THEN files
                           ELSE [files EXCEPT ![i].data = Append(@, p.upload)]
  BY DEF WithData
<1> HIDE DEF i
<1>3. CASE i = 0
  BY <1>2, <1>3
<1>4. CASE i # 0
  <2>1. i \in DOMAIN files
    BY <1>1, <1>4
  <2>2. files[i] \in FileEntry /\ files[i].data \in Seq(UploadIds) /\ p.upload \in UploadIds
    BY <2>1, EntryTypes DEF Piece
  <2>3. Append(files[i].data, p.upload) \in Seq(UploadIds)
    BY <2>2
  <2>4. /\ [files[i] EXCEPT !.data = Append(files[i].data, p.upload)] \in FileEntry
        /\ [files[i] EXCEPT !.data = Append(files[i].data, p.upload)].path = files[i].path
    BY <2>2, <2>3 DEF FileEntry
  <2>5. WithData(files, p) =
            [files EXCEPT ![i] = [files[i] EXCEPT !.data = Append(files[i].data, p.upload)]]
    BY <1>2, <1>4
  <2> QED
    BY <2>1, <2>4, <2>5
<1> QED
  BY <1>3, <1>4

LEMMA ReceiveFacts ==
    ASSUME TypeOK, OutIsOfUploads, NEW c \in Clients, NEW pieces, Receive(c, pieces)
    PROVE  /\ Head(out[c]) \in Piece /\ Head(out[c]).upload \in DOMAIN uploads
           /\ out' \in [Clients -> Seq(Piece)] /\ OutIsOfUploads'
           /\ UNCHANGED <<uploads, connected, now, dirty>>
<1>1. /\ out \in [Clients -> Seq(Piece)] /\ out[c] \in Seq(Piece) /\ out[c] # <<>>
      /\ out' = [out EXCEPT ![c] = Tail(@)]
      /\ UNCHANGED <<uploads, connected, now, dirty>>
  BY DEF TypeOK, Receive
<1>2. /\ Head(out[c]) \in Piece /\ 1 \in DOMAIN out[c] /\ Head(out[c]) = out[c][1]
      /\ Tail(out[c]) \in Seq(Piece)
      /\ \A i \in DOMAIN Tail(out[c]) : i + 1 \in DOMAIN out[c] /\ Tail(out[c])[i] = out[c][i + 1]
  BY <1>1
<1>3. out' \in [Clients -> Seq(Piece)]
  BY <1>1, <1>2
<1>4. OutIsOfUploads'
  <2> SUFFICES ASSUME NEW d \in Clients, NEW i \in DOMAIN out'[d]
               PROVE  out'[d][i].upload \in DOMAIN uploads
    BY <1>1 DEF OutIsOfUploads
  <2>1. CASE d = c
    BY <1>1, <1>2, <2>1 DEF OutIsOfUploads
  <2>2. CASE d # c
    BY <1>1, <2>2 DEF OutIsOfUploads
  <2> QED
    BY <2>1, <2>2
<1> QED
  BY <1>1, <1>2, <1>3, <1>4 DEF OutIsOfUploads

-----------------------------------------------------------------------------
\* The clients and the network leave the files alone.

LEMMA ServerKept ==
    ASSUME UploadInv, UNCHANGED server
    PROVE  OneFileEach' /\ AnnouncedHasItsSize'
<1>1. UNCHANGED <<inputFiles, disk, announced, reused, refused>>
  BY DEF server
<1> QED
  BY <1>1 DEF UploadInv, OneFileEach, AnnouncedHasItsSize

LEMMA StartUploadKeeps ==
    ASSUME UploadInv, NEW c \in Clients, NEW file \in Files, StartUpload(c, file)
    PROVE  UploadInv'
<1> DEFINE u == [client |-> c, file |-> file, sent |-> 0, cut |-> FALSE]
<1>1. /\ uploads' = Append(uploads, u)
      /\ Len(uploads) < MaxUploads
      /\ dirty' = dirty \/ dirty' = dirty \cup {c}
      /\ UNCHANGED <<out, connected, server, now, breaks>>
  BY DEF StartUpload
<1>2. TypeOK /\ uploads \in Seq(UploadOf) /\ OutIsOfUploads
  BY DEF UploadInv, TypeOK
<1>3. u \in UploadOf
  BY UploadConstants DEF UploadOf
<1> HIDE DEF u
<1>4. /\ uploads' \in Seq(UploadOf) /\ Len(uploads') <= MaxUploads
      /\ DOMAIN uploads \subseteq DOMAIN uploads'
  BY <1>1, <1>2, <1>3, UploadConstants
<1>5. TypeOK'
  BY <1>1, <1>2, <1>4 DEF TypeOK, server
<1>6. OutIsOfUploads'
  BY <1>1, <1>2, <1>4 DEF OutIsOfUploads
<1> QED
  BY <1>1, <1>5, <1>6, ServerKept DEF UploadInv

LEMMA SendPieceKeeps ==
    ASSUME UploadInv, NEW u \in DOMAIN uploads, SendPiece(u)
    PROVE  UploadInv'
<1> DEFINE c == uploads[u].client
           i == uploads[u].sent
           p == [piece |-> KindOf(uploads[u].file, i), id |-> c, upload |-> u]
<1>1. /\ Running(u)
      /\ uploads' = [uploads EXCEPT ![u].sent = i + 1]
      /\ out' = IF c \in connected THEN [out EXCEPT ![c] = Append(@, p)] ELSE out
      /\ dirty' = IF c \in connected THEN dirty ELSE dirty \cup {c}
      /\ UNCHANGED <<connected, server, now, breaks>>
  BY DEF SendPiece
<1>2. /\ TypeOK /\ uploads \in Seq(UploadOf) /\ Len(uploads) <= MaxUploads
      /\ out \in [Clients -> Seq(Piece)] /\ OutIsOfUploads /\ dirty \subseteq Clients
  BY DEF UploadInv, TypeOK
<1>3. uploads[u] \in UploadOf /\ u \in UploadIds
  BY <1>2, UploadConstants DEF UploadIds
<1>4. c \in Clients /\ i \in Nat /\ i + 1 \in 0 .. MaxSize + 1
  BY <1>1, <1>3, UploadConstants DEF UploadOf, Running
<1>5. p \in Piece /\ p.upload = u
  <2>1. KindOf(uploads[u].file, i) \in 1 .. 3
    BY DEF KindOf
  <2> QED
    BY <1>3, <1>4, <2>1 DEF Piece
<1> HIDE DEF c, p
<1>6. /\ uploads' \in Seq(UploadOf) /\ DOMAIN uploads' = DOMAIN uploads
      /\ Len(uploads') = Len(uploads)
  <2>1. uploads' = [uploads EXCEPT ![u] = [uploads[u] EXCEPT !.sent = i + 1]]
    BY <1>1
  <2>2. [uploads[u] EXCEPT !.sent = i + 1] \in UploadOf
    BY <1>3, <1>4 DEF UploadOf
  <2> QED
    BY <1>2, <2>1, <2>2
<1>7. out' \in [Clients -> Seq(Piece)] /\ OutIsOfUploads'
  <2>1. CASE c \in connected
    <3>1. /\ Append(out[c], p) \in Seq(Piece)
          /\ \A j \in DOMAIN Append(out[c], p) :
                Append(out[c], p)[j] = p \/ (j \in DOMAIN out[c] /\ Append(out[c], p)[j] = out[c][j])
      BY <1>2, <1>4, <1>5
    <3>2. out' \in [Clients -> Seq(Piece)] /\ out'[c] = Append(out[c], p)
          /\ \A d \in Clients : d # c => out'[d] = out[d]
      BY <1>1, <1>2, <1>4, <2>1, <3>1
    <3>3. ASSUME NEW d \in Clients, NEW j \in DOMAIN out'[d]
          PROVE  out'[d][j].upload \in DOMAIN uploads
      BY <1>2, <1>5, <3>1, <3>2 DEF OutIsOfUploads
    <3> QED
      BY <1>6, <3>2, <3>3 DEF OutIsOfUploads
  <2>2. CASE c \notin connected
    BY <1>1, <1>2, <1>6, <2>2 DEF OutIsOfUploads
  <2> QED
    BY <2>1, <2>2
<1>8. dirty' \subseteq Clients
  BY <1>1, <1>2, <1>4
<1>9. TypeOK'
  BY <1>1, <1>2, <1>6, <1>7, <1>8 DEF TypeOK, server
<1> QED
  BY <1>1, <1>7, <1>9, ServerKept DEF UploadInv

LEMMA ReadFailsKeeps ==
    ASSUME UploadInv, NEW u \in DOMAIN uploads, ReadFails(u)
    PROVE  UploadInv'
<1>1. /\ breaks < MaxBreaks /\ breaks' = breaks + 1
      /\ uploads' = [uploads EXCEPT ![u].cut = TRUE]
      /\ dirty' = dirty \cup {uploads[u].client}
      /\ UNCHANGED <<out, connected, server, now>>
  BY DEF ReadFails
<1>2. /\ TypeOK /\ uploads \in Seq(UploadOf) /\ Len(uploads) <= MaxUploads
      /\ breaks \in 0 .. MaxBreaks /\ OutIsOfUploads /\ dirty \subseteq Clients
  BY DEF UploadInv, TypeOK
<1>3. uploads[u] \in UploadOf
  BY <1>2
<1>4. /\ uploads' \in Seq(UploadOf) /\ DOMAIN uploads' = DOMAIN uploads
      /\ Len(uploads') = Len(uploads)
  <2>1. uploads' = [uploads EXCEPT ![u] = [uploads[u] EXCEPT !.cut = TRUE]]
    BY <1>1
  <2>2. [uploads[u] EXCEPT !.cut = TRUE] \in UploadOf
    BY <1>3 DEF UploadOf
  <2> QED
    BY <1>2, <2>1, <2>2
<1>5. breaks' \in 0 .. MaxBreaks /\ dirty' \subseteq Clients
  BY <1>1, <1>2, <1>3, UploadConstants DEF UploadOf
<1>6. TypeOK'
  BY <1>1, <1>2, <1>4, <1>5 DEF TypeOK, server
<1>7. OutIsOfUploads'
  BY <1>1, <1>2, <1>4 DEF OutIsOfUploads
<1> QED
  BY <1>1, <1>6, <1>7, ServerKept DEF UploadInv

LEMMA ConnectionKeeps ==
    ASSUME UploadInv, NEW c \in Clients, Break(c) \/ Reconnect(c)
    PROVE  UploadInv'
<1>1. /\ TypeOK /\ out \in [Clients -> Seq(Piece)] /\ connected \subseteq Clients
      /\ breaks \in 0 .. MaxBreaks /\ OutIsOfUploads /\ dirty \subseteq Clients
  BY DEF UploadInv, TypeOK
<1>2. CASE Break(c)
  <2>1. /\ breaks' = breaks + 1 /\ breaks < MaxBreaks
        /\ connected' = connected \ {c} /\ out' = [out EXCEPT ![c] = <<>>]
        /\ dirty' = dirty \/ dirty' = dirty \cup {c}
        /\ UNCHANGED <<uploads, server, now>>
    BY <1>2 DEF Break
  <2>2. /\ out' \in [Clients -> Seq(Piece)]
        /\ \A d \in Clients : out'[d] = <<>> \/ out'[d] = out[d]
    BY <1>1, <2>1
  <2>3. breaks' \in 0 .. MaxBreaks /\ dirty' \subseteq Clients
    BY <1>1, <2>1, UploadConstants
  <2>4. TypeOK'
    BY <1>1, <2>1, <2>2, <2>3 DEF TypeOK, server
  <2>5. OutIsOfUploads'
    <3> SUFFICES ASSUME NEW d \in Clients, NEW i \in DOMAIN out'[d]
                 PROVE  out'[d][i].upload \in DOMAIN uploads
      BY <2>1 DEF OutIsOfUploads
    <3>1. out'[d] = out[d]
      BY <2>2
    <3> QED
      BY <1>1, <3>1 DEF OutIsOfUploads
  <2> QED
    BY <2>1, <2>4, <2>5, ServerKept DEF UploadInv
<1>3. CASE Reconnect(c)
  <2>1. connected' = connected \cup {c} /\ UNCHANGED <<uploads, out, server, now, breaks, dirty>>
    BY <1>3 DEF Reconnect
  <2>2. TypeOK'
    BY <1>1, <2>1 DEF TypeOK, server
  <2>3. OutIsOfUploads'
    BY <1>1, <2>1 DEF OutIsOfUploads
  <2> QED
    BY <2>1, <2>2, <2>3, ServerKept DEF UploadInv
<1> QED
  BY <1>2, <1>3

LEMMA TickKeeps ==
    ASSUME UploadInv, Tick
    PROVE  UploadInv'
<1>1. /\ now < MaxSeconds /\ now' = now + 1
      /\ UNCHANGED <<uploads, out, connected, server, breaks, dirty>>
  BY DEF Tick
<1>2. TypeOK'
  BY <1>1, UploadConstants DEF UploadInv, TypeOK, server
<1>3. OutIsOfUploads'
  BY <1>1 DEF UploadInv, OutIsOfUploads
<1> QED
  BY <1>1, <1>2, <1>3, ServerKept DEF UploadInv

-----------------------------------------------------------------------------
\* The server.

LEMMA AddNewFileKeeps ==
    ASSUME UploadInv, NEW c \in Clients, AddNewFile(c)
    PROVE  UploadInv'
<1> DEFINE p == Head(out[c])
           u == p.upload
           path == <<now, uploads[u].file.name>>
           e == [id |-> p.id, path |-> path, size |-> uploads[u].file.size, data |-> <<>>]
           n == Len(inputFiles) + 1
<1>1. Receive(c, {1}) /\ UNCHANGED announced
  BY DEF AddNewFile
<1>2. /\ TypeOK /\ OutIsOfUploads /\ OneFileEach /\ AnnouncedHasItsSize
      /\ inputFiles \in Seq(FileEntry) /\ disk \in [Paths -> {NoFile} \cup Seq(UploadIds)]
      /\ reused \subseteq Paths /\ refused \subseteq UploadIds /\ breaks \in 0 .. MaxBreaks
      /\ announced \in Seq(Announcement)
      /\ uploads \in Seq(UploadOf) /\ now \in 1 .. MaxSeconds /\ Len(uploads) <= MaxUploads
  BY DEF UploadInv, TypeOK
<1>3. /\ p \in Piece /\ u \in DOMAIN uploads /\ out' \in [Clients -> Seq(Piece)]
      /\ OutIsOfUploads' /\ UNCHANGED <<uploads, connected, now, dirty>>
  BY <1>1, <1>2, ReceiveFacts
<1>4. uploads[u] \in UploadOf /\ uploads[u].file \in Files /\ u \in UploadIds
  <2>1. uploads[u] \in UploadOf
    BY <1>2, <1>3
  <2> QED
    BY <1>3, <2>1 DEF UploadOf, Piece
<1>5. path \in Paths
  BY <1>2, <1>4 DEF Paths, Names
<1>6. e \in FileEntry /\ e.path = path /\ p.id \in Clients
  <2>1. <<>> \in Seq(UploadIds) /\ p.id \in Clients /\ uploads[u].file.size \in 1 .. MaxSize
    BY <1>3, <1>4, UploadConstants DEF Piece
  <2> HIDE DEF p, path, u
  <2> QED
    BY <1>5, <2>1 DEF FileEntry
<1> HIDE DEF e, path, u, p
<1>a. CASE /\ disk' = [disk EXCEPT ![path] = <<>>]
           /\ inputFiles' = Append(inputFiles, e)
           /\ reused' = IF disk[path] = NoFile THEN reused ELSE reused \cup {path}
           /\ UNCHANGED <<refused, breaks>>
  <2>1. /\ inputFiles' \in Seq(FileEntry) /\ DOMAIN inputFiles' = 1 .. n
        /\ DOMAIN inputFiles = 1 .. Len(inputFiles) /\ Len(inputFiles) \in Nat
        /\ inputFiles'[n] = e
        /\ \A i \in DOMAIN inputFiles : inputFiles'[i] = inputFiles[i]
    BY <1>2, <1>6, <1>a
  <2>2. \A i \in DOMAIN inputFiles' : i \in DOMAIN inputFiles \/ i = n
    BY <2>1
  <2> HIDE DEF n
  <2>3. /\ disk' \in [Paths -> {NoFile} \cup Seq(UploadIds)] /\ disk'[path] = <<>>
        /\ \A q \in Paths : q # path => disk'[q] = disk[q]
    BY <1>2, <1>5, <1>a
  <2>4. reused' \subseteq Paths /\ reused \subseteq reused'
    BY <1>2, <1>5, <1>a
  <2>5. TypeOK'
    BY <1>2, <1>3, <1>1, <1>a, <2>1, <2>3, <2>4 DEF TypeOK
  <2>6. disk[path] # NoFile => path \in reused'
    BY <1>a
  <2>7. \A i \in DOMAIN inputFiles : inputFiles[i].path = path => path \in reused'
    <3>1. <<>> # NoFile
      <4>1. <<>> \in Seq(UploadIds)
        OBVIOUS
      <4> QED
        BY <4>1, UploadConstants
    <3> QED
      BY <1>2, <2>4, <2>6, <3>1 DEF OneFileEach
  <2>8. \A k \in DOMAIN announced : announced[k].path = path => path \in reused'
    BY <1>2, <2>4, <2>6 DEF AnnouncedHasItsSize
  <2>9. \A i \in DOMAIN inputFiles : inputFiles[i].path \in Paths
    BY <1>2, EntryTypes
  <2>10. OneFileEach'
    <3>1. ASSUME NEW i \in DOMAIN inputFiles', NEW j \in DOMAIN inputFiles',
                 inputFiles'[i].path = inputFiles'[j].path, inputFiles'[i].path \notin reused'
          PROVE  i = j
      BY <1>2, <1>6, <2>1, <2>2, <2>4, <2>7, <3>1 DEF OneFileEach
    <3>2. ASSUME NEW i \in DOMAIN inputFiles', inputFiles'[i].path \notin reused'
          PROVE  disk'[inputFiles'[i].path] = <<>>
      BY <1>2, <1>6, <2>1, <2>2, <2>3, <2>4, <2>9, <3>2 DEF OneFileEach
    <3>3. ASSUME NEW i \in DOMAIN inputFiles', NEW k \in DOMAIN announced,
                 inputFiles'[i].path = announced[k].path
          PROVE  inputFiles'[i].path \in reused'
      BY <1>2, <1>6, <2>1, <2>2, <2>4, <2>8, <3>3 DEF OneFileEach
    <3> QED
      BY <1>1, <3>1, <3>2, <3>3 DEF OneFileEach
  <2>11. AnnouncedHasItsSize'
    <3>1. \A k \in DOMAIN announced : announced[k].path \in Paths
      BY <1>2, AnnouncedPaths
    <3> QED
      BY <1>1, <1>2, <2>3, <2>4, <2>8, <3>1 DEF AnnouncedHasItsSize
  <2> QED
    BY <1>3, <2>5, <2>10, <2>11 DEF UploadInv
<1>b. CASE /\ breaks < MaxBreaks /\ breaks' = breaks + 1
           /\ refused' = refused \cup {u}
           /\ UNCHANGED <<disk, inputFiles, reused>>
  <2>1. breaks' \in 0 .. MaxBreaks /\ refused' \subseteq UploadIds
    BY <1>2, <1>4, <1>b, UploadConstants
  <2>2. TypeOK'
    BY <1>1, <1>2, <1>3, <1>b, <2>1 DEF TypeOK
  <2>3. OneFileEach' /\ AnnouncedHasItsSize'
    BY <1>1, <1>2, <1>b DEF OneFileEach, AnnouncedHasItsSize
  <2> QED
    BY <1>3, <2>2, <2>3 DEF UploadInv
<1> QED
  BY <1>a, <1>b DEF AddNewFile, e, path, u, p

LEMMA AddDataKeeps ==
    ASSUME UploadInv, NEW c \in Clients, AddData(c)
    PROVE  UploadInv'
<1> DEFINE p == Head(out[c])
<1>1. /\ Receive(c, {2}) /\ inputFiles' = WithData(inputFiles, p)
      /\ UNCHANGED <<disk, announced, reused, refused, breaks>>
  BY DEF AddData
<1>2. TypeOK /\ OutIsOfUploads /\ OneFileEach /\ AnnouncedHasItsSize
      /\ inputFiles \in Seq(FileEntry)
  BY DEF UploadInv, TypeOK
<1>3. /\ p \in Piece /\ out' \in [Clients -> Seq(Piece)]
      /\ OutIsOfUploads' /\ UNCHANGED <<uploads, connected, now, dirty>>
  BY <1>1, <1>2, ReceiveFacts
<1> HIDE DEF p
<1>4. /\ inputFiles' \in Seq(FileEntry) /\ DOMAIN inputFiles' = DOMAIN inputFiles
      /\ \A j \in DOMAIN inputFiles : inputFiles'[j].path = inputFiles[j].path
  BY <1>1, <1>2, <1>3, WithDataFacts
<1>5. TypeOK'
  BY <1>1, <1>2, <1>3, <1>4 DEF TypeOK
<1>6. OneFileEach' /\ AnnouncedHasItsSize'
  BY <1>1, <1>2, <1>4 DEF OneFileEach, AnnouncedHasItsSize
<1> QED
  BY <1>3, <1>5, <1>6 DEF UploadInv

\* What is left on the disk of a file closed.
LEMMA ClosedFacts ==
    ASSUME NEW old \in {NoFile} \cup Seq(UploadIds), NEW data \in Seq(UploadIds)
    PROVE  /\ Closed(old, data) \in {NoFile} \cup Seq(UploadIds)
           /\ old = <<>> => Closed(old, data) = data
<1>0. <<>> \in Seq(UploadIds) /\ <<>> # NoFile
  <2>1. <<>> \in Seq(UploadIds)
    OBVIOUS
  <2> QED
    BY <2>1, UploadConstants
<1>1. CASE old = NoFile
  BY <1>0, <1>1 DEF Closed
<1>2. CASE old \in Seq(UploadIds) /\ old # NoFile
  <2> DEFINE rest == SubSeq(old, Len(data) + 1, Len(old))
  <2>1. rest \in Seq(UploadIds) /\ (old = <<>> => rest = <<>>)
    BY <1>2
  <2>2. Closed(old, data) = data \o rest
    BY <1>2 DEF Closed
  <2> HIDE DEF rest
  <2>3. data \o rest \in Seq(UploadIds) /\ (rest = <<>> => data \o rest = data)
    BY <2>1
  <2> QED
    BY <2>1, <2>2, <2>3
<1> QED
  BY <1>1, <1>2

LEMMA FinalFileInputKeeps ==
    ASSUME UploadInv, NEW c \in Clients, FinalFileInput(c)
    PROVE  UploadInv'
<1> DEFINE p == Head(out[c])
           files == WithData(inputFiles, p)
           i == FirstEntry(files, p.id)
           e == files[i]
           a == [by |-> p.upload, path |-> e.path, size |-> e.size]
<1>1. Receive(c, {3}) /\ UNCHANGED <<reused, refused, breaks>>
  BY DEF FinalFileInput
<1>2. /\ TypeOK /\ OutIsOfUploads /\ OneFileEach /\ AnnouncedHasItsSize
      /\ inputFiles \in Seq(FileEntry) /\ disk \in [Paths -> {NoFile} \cup Seq(UploadIds)]
      /\ announced \in Seq(Announcement)
  BY DEF UploadInv, TypeOK
<1>3. /\ p \in Piece /\ out' \in [Clients -> Seq(Piece)]
      /\ OutIsOfUploads' /\ UNCHANGED <<uploads, connected, now, dirty>>
  BY <1>1, <1>2, ReceiveFacts
<1> HIDE DEF p
<1>4. /\ files \in Seq(FileEntry) /\ Len(files) = Len(inputFiles)
      /\ DOMAIN files = DOMAIN inputFiles
      /\ \A j \in DOMAIN inputFiles : files[j].path = inputFiles[j].path
  BY <1>2, <1>3, WithDataFacts
<1> HIDE DEF files
<1>5. i \in 0 .. Len(files) /\ DOMAIN files = 1 .. Len(files)
  BY <1>4, FirstEntryFacts
<1>6. CASE i = 0 /\ UNCHANGED <<inputFiles, disk, announced>>
  <2>1. TypeOK'
    BY <1>1, <1>2, <1>3, <1>6 DEF TypeOK
  <2>2. OneFileEach' /\ AnnouncedHasItsSize'
    BY <1>1, <1>2, <1>6 DEF OneFileEach, AnnouncedHasItsSize
  <2> QED
    BY <1>3, <2>1, <2>2 DEF UploadInv
<1>7. ASSUME i # 0
      PROVE  /\ i \in DOMAIN files /\ e \in FileEntry /\ e.path \in Paths
             /\ e.size \in 1 .. MaxSize /\ e.data \in Seq(UploadIds) /\ e.data # NoFile
             /\ e.path = inputFiles[i].path /\ i \in DOMAIN inputFiles
  <2>1. i \in DOMAIN files
    BY <1>5, <1>7
  <2> HIDE DEF i
  <2>2. /\ e \in FileEntry /\ e.path \in Paths /\ e.size \in 1 .. MaxSize
        /\ e.data \in Seq(UploadIds)
    BY <1>4, <2>1, EntryTypes
  <2> QED
    BY <1>4, <2>1, <2>2, UploadConstants
<1> HIDE DEF i, e
\* The list without the entry.
<1>8. ASSUME i # 0, inputFiles' = ListWithout(files, i)
      PROVE  /\ inputFiles' \in Seq(FileEntry)
             /\ \A j \in DOMAIN inputFiles' : \E k \in DOMAIN inputFiles :
                    k # i /\ k = (IF j < i THEN j ELSE j + 1)
                    /\ inputFiles'[j].path = inputFiles[k].path
             /\ DOMAIN inputFiles' \subseteq Nat
  <2>1. i \in 1 .. Len(files)
    BY <1>5, <1>8
  <2>2. /\ inputFiles' \in Seq(FileEntry) /\ Len(inputFiles') = Len(files) - 1
        /\ \A j \in 1 .. Len(files) - 1 :
              inputFiles'[j] = IF j < i THEN files[j] ELSE files[j + 1]
    BY <1>4, <1>8, <2>1, ListWithoutElement DEF ListWithout
  <2>3. DOMAIN inputFiles' = 1 .. Len(files) - 1 /\ Len(files) \in Nat
    BY <1>4, <2>2
  <2>4. ASSUME NEW j \in DOMAIN inputFiles'
        PROVE  LET k == IF j < i THEN j ELSE j + 1
               IN  k \in DOMAIN inputFiles /\ k # i
                   /\ inputFiles'[j].path = inputFiles[k].path
    <3>1. j \in 1 .. Len(files) - 1 /\ DOMAIN inputFiles = 1 .. Len(files)
      BY <1>4, <1>5, <2>3
    <3>2. CASE j < i
      BY <1>4, <2>1, <2>2, <3>1, <3>2
    <3>3. CASE ~(j < i)
      BY <1>4, <2>1, <2>2, <3>1, <3>3
    <3> QED
      BY <3>2, <3>3
  <2> QED
    BY <2>2, <2>3, <2>4
<1>9. ASSUME i # 0, inputFiles' = ListWithout(files, i),
             \A q \in Paths : q # e.path => disk'[q] = disk[q],
             \A k \in DOMAIN announced' :
                \/ k \in DOMAIN announced /\ announced'[k] = announced[k]
                \/ announced'[k].path = e.path
      PROVE  OneFileEach'
  <2>1. e.path = inputFiles[i].path /\ i \in DOMAIN inputFiles
    BY <1>7, <1>9
  <2>2. \A j \in DOMAIN inputFiles' :
            inputFiles'[j].path = e.path => inputFiles'[j].path \in reused
    BY <1>2, <1>8, <1>9, <2>1 DEF OneFileEach
  <2>3. ASSUME NEW j \in DOMAIN inputFiles', NEW k \in DOMAIN inputFiles',
               inputFiles'[j].path = inputFiles'[k].path, inputFiles'[j].path \notin reused
        PROVE  j = k
    <3>1. (IF j < i THEN j ELSE j + 1) = (IF k < i THEN k ELSE k + 1)
      BY <1>2, <1>8, <1>9, <2>3 DEF OneFileEach
    <3> QED
      BY <1>5, <1>8, <1>9, <3>1 DEF i
  <2>4. ASSUME NEW j \in DOMAIN inputFiles', inputFiles'[j].path \notin reused
        PROVE  disk'[inputFiles'[j].path] = <<>>
    <3>1. PICK k \in DOMAIN inputFiles : inputFiles'[j].path = inputFiles[k].path
      BY <1>8, <1>9
    <3>2. inputFiles[k].path \in Paths
      BY <1>2, EntryTypes
    <3> QED
      BY <1>2, <1>9, <2>2, <2>4, <3>1, <3>2 DEF OneFileEach
  <2>5. ASSUME NEW j \in DOMAIN inputFiles', NEW k \in DOMAIN announced',
               inputFiles'[j].path = announced'[k].path
        PROVE  inputFiles'[j].path \in reused
    <3>1. CASE announced'[k].path = e.path
      BY <2>2, <2>5, <3>1
    <3>2. CASE k \in DOMAIN announced /\ announced'[k] = announced[k]
      <4>1. PICK m \in DOMAIN inputFiles : inputFiles'[j].path = inputFiles[m].path
        BY <1>8, <1>9, <2>5
      <4> QED
        BY <1>2, <2>5, <3>2, <4>1 DEF OneFileEach
    <3> QED
      BY <1>9, <2>5, <3>1, <3>2
  <2> QED
    BY <1>1, <2>3, <2>4, <2>5 DEF OneFileEach
<1>10. ASSUME i # 0
       PROVE  \A k \in DOMAIN announced : announced[k].path = e.path => e.path \in reused
  BY <1>2, <1>7, <1>10 DEF OneFileEach
<1>11. CASE /\ i # 0
            /\ disk' = [disk EXCEPT ![e.path] = NoFile]
            /\ inputFiles' = ListWithout(files, i)
            /\ UNCHANGED announced
  <2>1. /\ disk' \in [Paths -> {NoFile} \cup Seq(UploadIds)]
        /\ \A q \in Paths : q # e.path => disk'[q] = disk[q]
    BY <1>2, <1>7, <1>11
  <2>2. TypeOK'
    BY <1>1, <1>2, <1>3, <1>8, <1>11, <2>1 DEF TypeOK
  <2>3. AnnouncedHasItsSize'
    <3>1. \A k \in DOMAIN announced : announced[k].path \in Paths
      BY <1>2, AnnouncedPaths
    <3> QED
      BY <1>1, <1>2, <1>10, <1>11, <2>1, <3>1 DEF AnnouncedHasItsSize
  <2> QED
    BY <1>3, <1>9, <1>11, <2>1, <2>2, <2>3 DEF UploadInv
<1>12. CASE /\ i # 0 /\ Len(e.data) = e.size
            /\ disk' = [disk EXCEPT ![e.path] = Closed(@, e.data)]
            /\ announced' = announced \/ announced' = Append(announced, a)
            /\ inputFiles' = ListWithout(files, i)
  <2>1. disk[e.path] \in {NoFile} \cup Seq(UploadIds)
    BY <1>2, <1>7, <1>12
  <2>2. /\ disk' \in [Paths -> {NoFile} \cup Seq(UploadIds)]
        /\ disk'[e.path] = Closed(disk[e.path], e.data)
        /\ \A q \in Paths : q # e.path => disk'[q] = disk[q]
    BY <1>2, <1>7, <1>12, <2>1, ClosedFacts
  <2>3. a \in Announcement /\ a.path = e.path /\ a.size = e.size
    BY <1>3, <1>7, <1>12 DEF Announcement, Piece
  <2> HIDE DEF a
  <2>4. /\ announced' \in Seq(Announcement)
        /\ \A k \in DOMAIN announced' :
              \/ k \in DOMAIN announced /\ announced'[k] = announced[k]
              \/ announced'[k] = a
    <3>1. CASE announced' = announced
      BY <1>2, <3>1
    <3>2. CASE announced' = Append(announced, a)
      BY <1>2, <2>3, <3>2
    <3> QED
      BY <1>12, <3>1, <3>2
  <2>5. TypeOK'
    BY <1>1, <1>2, <1>3, <1>8, <1>12, <2>2, <2>4 DEF TypeOK
  <2>6. OneFileEach'
    BY <1>9, <1>12, <2>2, <2>3, <2>4
  <2>7. e.path \notin reused => disk'[e.path] = e.data /\ e.data # NoFile
    BY <1>2, <1>7, <1>12, <2>1, <2>2, ClosedFacts DEF OneFileEach
  <2>8. AnnouncedHasItsSize'
    <3> SUFFICES ASSUME NEW k \in DOMAIN announced', announced'[k].path \notin reused
                 PROVE  /\ disk'[announced'[k].path] # NoFile
                        /\ Len(disk'[announced'[k].path]) = announced'[k].size
      BY <1>1 DEF AnnouncedHasItsSize
    <3>1. CASE announced'[k] = a
      BY <1>12, <2>3, <2>7, <3>1
    <3>2. CASE k \in DOMAIN announced /\ announced'[k] = announced[k]
      <4>1. announced[k].path \in Paths
        BY <1>2, <3>2, AnnouncedPaths
      <4>2. announced[k].path # e.path
        BY <1>10, <1>12, <3>2
      <4> QED
        BY <1>2, <2>2, <3>2, <4>1, <4>2 DEF AnnouncedHasItsSize
    <3> QED
      BY <2>4, <3>1, <3>2
  <2> QED
    BY <1>3, <2>5, <2>6, <2>8 DEF UploadInv
<1> QED
  BY <1>6, <1>11, <1>12 DEF FinalFileInput, i, e, files, p, a

-----------------------------------------------------------------------------
\* Every behaviour.

LEMMA UploadInit == Init => UploadInv
<1> SUFFICES ASSUME Init
             PROVE  UploadInv
  OBVIOUS
<1>0. \A c \in Clients : out[c] = <<>>
  BY DEF Init
<1>1. /\ uploads \in Seq(UploadOf) /\ inputFiles \in Seq(FileEntry)
      /\ announced \in Seq(Announcement) /\ out \in [Clients -> Seq(Piece)]
      /\ DOMAIN inputFiles = {} /\ DOMAIN announced = {}
      /\ Len(uploads) = 0
  BY DEF Init
<1>2. now \in 1 .. MaxSeconds /\ breaks \in 0 .. MaxBreaks
  BY UploadConstants DEF Init
<1>3. TypeOK
  BY <1>1, <1>2, UploadConstants DEF Init, TypeOK
<1>4. OutIsOfUploads /\ OneFileEach /\ AnnouncedHasItsSize
  BY <1>0, <1>1 DEF OutIsOfUploads, OneFileEach, AnnouncedHasItsSize
<1> QED
  BY <1>3, <1>4 DEF UploadInv

LEMMA UploadNext == UploadInv /\ [Next]_vars => UploadInv'
<1> SUFFICES ASSUME UploadInv, [Next]_vars
             PROVE  UploadInv'
  OBVIOUS
<1>1. CASE UNCHANGED vars
  <2>1. TypeOK' /\ OutIsOfUploads'
    BY <1>1 DEF UploadInv, TypeOK, OutIsOfUploads, vars, server
  <2> QED
    BY <1>1, <2>1, ServerKept DEF vars, UploadInv
<1>2. CASE Next
  BY <1>2, StartUploadKeeps, SendPieceKeeps, ReadFailsKeeps, ConnectionKeeps, TickKeeps,
     AddNewFileKeeps, AddDataKeeps, FinalFileInputKeeps DEF Next
<1> QED
  BY <1>1, <1>2

LEMMA UploadInvariant == Spec => []UploadInv
BY UploadInit, UploadNext, PTL DEF Spec

\* Every variable of the uploads keeps its type.
THEOREM UploadTypes == Spec => []TypeOK
<1>1. UploadInv => TypeOK
  BY DEF UploadInv
<1> QED
  BY <1>1, UploadInvariant, PTL

\* A file announced, whoever's pieces went into it, is on the disk and has the size
\* its sender declared.
THEOREM AnnouncedFilesHaveTheirSize == Spec => []AnnouncedHasItsSize
<1>1. UploadInv => AnnouncedHasItsSize
  BY DEF UploadInv
<1> QED
  BY <1>1, UploadInvariant, PTL

-----------------------------------------------------------------------------
\* Users in order: one file after the other.

LEMMA UploadTyped ==
    ASSUME TypeOK, NEW u \in DOMAIN uploads
    PROVE  /\ uploads[u] \in UploadOf /\ u \in UploadIds /\ uploads[u].client \in Clients
           /\ uploads[u].sent \in Nat /\ uploads[u].file \in Files
           /\ uploads[u].file.length \in Nat \ {0} /\ uploads[u].file.size \in Nat \ {0}
<1>1. uploads[u] \in UploadOf /\ u \in UploadIds
  BY UploadConstants DEF TypeOK, UploadIds
<1>2. uploads[u].file \in Files /\ uploads[u].client \in Clients /\ uploads[u].sent \in Nat
  BY <1>1, UploadConstants DEF UploadOf
<1> QED
  BY <1>1, <1>2, UploadConstants

LEMMA OutTyped ==
    ASSUME TypeOK, NEW c \in Clients
    PROVE  out[c] \in Seq(Piece) /\ Len(out[c]) \in Nat /\ DOMAIN out[c] = 1 .. Len(out[c])
BY DEF TypeOK

\* A list of n numbers that are all u.
LEMMA SameNumbers ==
    ASSUME NEW s \in Seq(UploadIds), NEW u, \A i \in DOMAIN s : s[i] = u
    PROVE  s = [i \in 1 .. Len(s) |-> u]
<1>1. DOMAIN s = 1 .. Len(s)
  OBVIOUS
<1> QED
  BY <1>1

LEMMA OneMore ==
    ASSUME NEW u \in UploadIds, NEW n \in Nat
    PROVE  /\ [i \in 1 .. n |-> u] \in Seq(UploadIds)
           /\ Append([i \in 1 .. n |-> u], u) = [i \in 1 .. n + 1 |-> u]
           /\ Len([i \in 1 .. n |-> u]) = n
<1> DEFINE s == [i \in 1 .. n |-> u]
<1>1. s \in Seq(UploadIds) /\ Len(s) = n
  OBVIOUS
<1>2. /\ Append(s, u) \in Seq(UploadIds) /\ Len(Append(s, u)) = n + 1
      /\ \A i \in DOMAIN Append(s, u) : Append(s, u)[i] = u
  BY <1>1
<1>3. Append(s, u) = [i \in 1 .. Len(Append(s, u)) |-> u]
  BY <1>2, SameNumbers
<1> QED
  BY <1>1, <1>2, <1>3

LEMMA FirstEntryIs ==
    ASSUME NEW files \in Seq(FileEntry), NEW id
    PROVE  /\ FirstEntry(files, id) = 0 => \A j \in DOMAIN files : files[j].id # id
           /\ FirstEntry(files, id) # 0 => /\ FirstEntry(files, id) \in DOMAIN files
                                           /\ files[FirstEntry(files, id)].id = id
<1> DEFINE I == {i \in 1 .. Len(files) : files[i].id = id}
<1>1. FirstEntry(files, id) = IF I # {} THEN Min(I) ELSE 0
  BY DEF FirstEntry, SelectInSeq
<1>2. I \subseteq Nat /\ DOMAIN files = 1 .. Len(files)
  OBVIOUS
<1>3. I # {} => Min(I) \in I
  BY <1>2, LeastNumber
<1>4. 0 \notin I
  OBVIOUS
<1> QED
  BY <1>1, <1>2, <1>3, <1>4

LEMMA WithDataIs ==
    ASSUME NEW files \in Seq(FileEntry), NEW p \in Piece, NEW j \in DOMAIN files
    PROVE  WithData(files, p)[j] =
              IF j = FirstEntry(files, p.id)
              THEN [files[j] EXCEPT !.data = Append(files[j].data, p.upload)]
              ELSE files[j]
<1> DEFINE i == FirstEntry(files, p.id)
<1>1. WithData(files, p) = IF i = 0 THEN files
                           ELSE [files EXCEPT ![i].data = Append(files[i].data, p.upload)]
  BY DEF WithData
<1>2. j # 0
  OBVIOUS
<1> SUFFICES WithData(files, p)[j] =
                IF j = i THEN [files[j] EXCEPT !.data = Append(files[j].data, p.upload)]
                ELSE files[j]
  OBVIOUS
<1> HIDE DEF i
<1>3. CASE i = 0
  BY <1>1, <1>2, <1>3
<1>4. CASE i # 0
  <2>1. WithData(files, p) =
            [files EXCEPT ![i] = [files[i] EXCEPT !.data = Append(files[i].data, p.upload)]]
    BY <1>1, <1>4
  <2> QED
    BY <2>1
<1> QED
  BY <1>3, <1>4

\* A step of which nothing concerns d; the list of entries may lose element x.
LEMMA OthersInOrder ==
    ASSUME NEW d, InOrder(d), \A i \in DOMAIN out[d] : out[d][i].upload \in Of(d),
           Of(d)' = Of(d), \A u \in Of(d) : uploads'[u] = uploads[u],
           out'[d] = out[d], \A u \in Of(d) : u \in refused' <=> u \in refused,
           NEW x \in Nat, DOMAIN inputFiles' \subseteq Nat,
           \A j \in DOMAIN inputFiles' : inputFiles'[j].id = d =>
               \E k \in DOMAIN inputFiles : /\ k = (IF j < x THEN j ELSE j + 1)
                                            /\ k # x /\ inputFiles'[j] = inputFiles[k],
           \A k \in DOMAIN inputFiles : inputFiles[k].id = d =>
               \E j \in DOMAIN inputFiles' : inputFiles'[j] = inputFiles[k],
           \A k \in DOMAIN announced : k \in DOMAIN announced' /\ announced'[k] = announced[k],
           \A k \in DOMAIN announced' : k \in DOMAIN announced \/ announced'[k].by \notin Of(d),
           \A k \in DOMAIN announced : announced[k].path \notin reused' =>
               announced[k].path \notin reused /\ disk'[announced[k].path] = disk[announced[k].path]
    PROVE  InOrder(d)'
<1>1. \A u \in Of(d) : uploads[u].client = d
  BY DEF Of
<1>2. \A u \in Of(d) : (Handled(u)' <=> Handled(u)) /\ Got(u)' = Got(u)
  BY <1>1 DEF Handled, Got
<1>3. \A u \in Of(d) : (ToAnnounce(u)' <=> ToAnnounce(u)) /\ Whole(u)' = Whole(u)
  BY DEF ToAnnounce, Whole
<1>5. InTurn(d)'
  <2>1. \A u \in Of(d)' : ~uploads'[u].cut
    BY DEF InOrder, InTurn
  <2>2. \A u, v \in Of(d)' : ~Handled(u)' /\ ~Handled(v)' => u = v
    BY <1>2 DEF InOrder, InTurn
  <2>3. ASSUME NEW i \in DOMAIN out'[d]
        PROVE  LET u == out'[d][i].upload
                   n == uploads'[u].sent - Len(out'[d])
               IN  n >= 0 /\ out'[d][i].piece = KindOf(uploads'[u].file, n + i - 1)
    <3>1. out[d][i].upload \in Of(d)
      OBVIOUS
    <3> QED
      BY <3>1 DEF InOrder, InTurn
  <2> QED
    BY <2>1, <2>2, <2>3 DEF InTurn
<1>6. EntryIsOfUpload(d)'
  <2>1. ASSUME NEW j \in DOMAIN inputFiles', inputFiles'[j].id = d
        PROVE  \E u \in Of(d) :
                  /\ ~Handled(u) /\ u \notin refused /\ Got(u) >= 1
                  /\ inputFiles'[j].path[2] = uploads[u].file.name
                  /\ inputFiles'[j].size = uploads[u].file.size
                  /\ inputFiles'[j].data = [i \in 1 .. Got(u) - 1 |-> u]
    BY <2>1 DEF InOrder, EntryIsOfUpload
  <2>2. \A i, j \in DOMAIN inputFiles' : inputFiles'[i].id = d /\ inputFiles'[j].id = d => i = j
    <3> SUFFICES ASSUME NEW i \in DOMAIN inputFiles', NEW j \in DOMAIN inputFiles',
                        inputFiles'[i].id = d, inputFiles'[j].id = d
                 PROVE  i = j
      OBVIOUS
    <3>1. (IF i < x THEN i ELSE i + 1) = (IF j < x THEN j ELSE j + 1)
      BY DEF InOrder, EntryIsOfUpload
    <3> QED
      BY <3>1
  <2>3. \A u \in Of(d) :
          Got(u) >= 1 => Handled(u) \/ u \in refused
                         \/ \E j \in DOMAIN inputFiles' : inputFiles'[j].id = d
    BY DEF InOrder, EntryIsOfUpload
  <2>4. \A u \in Of(d) : u \in refused => Got(u) >= 1
    BY DEF InOrder, EntryIsOfUpload
  <2>5. \A j \in DOMAIN inputFiles' :
            inputFiles'[j].id = d =>
                \E u \in Of(d)' :
                    /\ ~Handled(u)' /\ u \notin refused' /\ Got(u)' >= 1
                    /\ inputFiles'[j].path[2] = uploads'[u].file.name
                    /\ inputFiles'[j].size = uploads'[u].file.size
                    /\ inputFiles'[j].data = [i \in 1 .. Got(u)' - 1 |-> u]
    <3> SUFFICES ASSUME NEW j \in DOMAIN inputFiles', inputFiles'[j].id = d
                 PROVE  \E u \in Of(d)' :
                            /\ ~Handled(u)' /\ u \notin refused' /\ Got(u)' >= 1
                            /\ inputFiles'[j].path[2] = uploads'[u].file.name
                            /\ inputFiles'[j].size = uploads'[u].file.size
                            /\ inputFiles'[j].data = [i \in 1 .. Got(u)' - 1 |-> u]
      OBVIOUS
    <3>1. PICK u \in Of(d) :
                  /\ ~Handled(u) /\ u \notin refused /\ Got(u) >= 1
                  /\ inputFiles'[j].path[2] = uploads[u].file.name
                  /\ inputFiles'[j].size = uploads[u].file.size
                  /\ inputFiles'[j].data = [i \in 1 .. Got(u) - 1 |-> u]
      BY <2>1
    <3>2. Got(u)' = Got(u) /\ (Handled(u)' <=> Handled(u)) /\ uploads'[u] = uploads[u]
      BY <1>2
    <3>3. [i \in 1 .. Got(u)' - 1 |-> u] = [i \in 1 .. Got(u) - 1 |-> u]
      BY <3>2
    <3> QED
      BY <3>1, <3>2, <3>3
  <2>6. /\ \A u \in Of(d)' :
              Got(u)' >= 1 => Handled(u)' \/ u \in refused'
                             \/ \E j \in DOMAIN inputFiles' : inputFiles'[j].id = d
        /\ \A u \in Of(d)' : u \in refused' => Got(u)' >= 1
    BY <1>2, <2>3, <2>4
  <2> QED
    BY <2>2, <2>5, <2>6 DEF EntryIsOfUpload
<1>7. ASSUME NEW u \in Of(d)
      PROVE  AnnouncedOnce(u)'
  <2>1. AnnouncedOnce(u)
    BY DEF InOrder
  <2>2. \A k \in DOMAIN announced' : announced'[k].by = u => k \in DOMAIN announced
    OBVIOUS
  <2>3. \A k \in DOMAIN announced' :
            announced'[k].by = u =>
                /\ Handled(u)' /\ ToAnnounce(u)'
                /\ announced'[k].path[2] = uploads'[u].file.name
                /\ announced'[k].path \notin reused' => disk'[announced'[k].path] = Whole(u)'
    BY <1>2, <1>3, <2>1, <2>2 DEF AnnouncedOnce
  <2>4. \A k, l \in DOMAIN announced' : announced'[k].by = u /\ announced'[l].by = u => k = l
    BY <2>1, <2>2 DEF AnnouncedOnce
  <2>5. Handled(u)' /\ ToAnnounce(u)' => \E k \in DOMAIN announced' : announced'[k].by = u
    BY <1>2, <1>3, <2>1 DEF AnnouncedOnce
  <2> QED
    BY <2>3, <2>4, <2>5 DEF AnnouncedOnce
<1> QED
  BY <1>5, <1>6, <1>7 DEF InOrder

\* Nothing of what the server keeps changes, nor what d sends.
LEMMA KeptInOrder ==
    ASSUME TypeOK, OutIsOwn, NEW d \in Clients, InOrder(d), Of(d)' = Of(d),
           \A u \in Of(d) : uploads'[u] = uploads[u], out'[d] = out[d], UNCHANGED server
    PROVE  InOrder(d)'
<1>1. \A i \in DOMAIN out[d] : out[d][i].upload \in Of(d)
  BY DEF OutIsOwn
<1>2. inputFiles' = inputFiles /\ disk' = disk /\ announced' = announced /\ reused' = reused
      /\ refused' = refused
  BY DEF server
<1>3. DOMAIN inputFiles = 1 .. Len(inputFiles) /\ Len(inputFiles) \in Nat
  BY DEF TypeOK
<1>4. \A j \in DOMAIN inputFiles' : inputFiles'[j].id = d =>
          \E k \in DOMAIN inputFiles :
              /\ k = (IF j < Len(inputFiles) + 1 THEN j ELSE j + 1)
              /\ k # Len(inputFiles) + 1 /\ inputFiles'[j] = inputFiles[k]
  BY <1>2, <1>3
<1> DEFINE x == Len(inputFiles) + 1
<1>5. x \in Nat /\ DOMAIN inputFiles' \subseteq Nat
  BY <1>2, <1>3
<1>6. \A j \in DOMAIN inputFiles' : inputFiles'[j].id = d =>
          \E k \in DOMAIN inputFiles : /\ k = (IF j < x THEN j ELSE j + 1)
                                       /\ k # x /\ inputFiles'[j] = inputFiles[k]
  BY <1>4
<1> HIDE DEF x
<1> QED
  BY <1>1, <1>2, <1>5, <1>6, OthersInOrder

\* What is on the connection of a user in order is of one upload, from the piece
\* the server waits for.
LEMMA HeadIs ==
    ASSUME TypeOK, OutIsOwn, OfUploads, NEW c \in Clients, InTurn(c), out[c] # <<>>,
           NEW u, u = Head(out[c]).upload, NEW n, n = uploads[u].sent - Len(out[c])
    PROVE  /\ u \in Of(c) /\ u \in DOMAIN uploads /\ ~Handled(u)
           /\ n \in Nat /\ n <= uploads[u].file.length /\ Got(u) = n
           /\ Head(out[c]).id = c /\ Head(out[c]).piece = KindOf(uploads[u].file, n)
           /\ \A i \in DOMAIN out[c] : out[c][i].upload = u
           /\ \A v \in Of(c) : v # u => Handled(v)
<1>1. /\ out[c] \in Seq(Piece) /\ Len(out[c]) \in Nat \ {0} /\ 1 \in DOMAIN out[c]
      /\ Head(out[c]) = out[c][1] /\ DOMAIN out[c] = 1 .. Len(out[c])
  BY OutTyped
<1>2. u \in Of(c) /\ Head(out[c]).id = c
  BY <1>1 DEF OutIsOwn
<1>3. u \in DOMAIN uploads /\ uploads[u].client = c
  BY <1>2 DEF Of
<1>4. \A i \in DOMAIN out[c] : out[c][i].upload \in Of(c) /\ ~Handled(out[c][i].upload)
  <2> SUFFICES ASSUME NEW i \in DOMAIN out[c]
               PROVE  out[c][i].upload \in Of(c) /\ ~Handled(out[c][i].upload)
    OBVIOUS
  <2>1. out[c][i].upload \in Of(c)
    BY DEF OutIsOwn
  <2>2. uploads[out[c][i].upload].client = c
    BY <2>1 DEF Of
  <2> QED
    BY <2>1, <2>2 DEF Handled
<1>5. ~Handled(u)
  BY <1>1, <1>4
<1>6. /\ \A i \in DOMAIN out[c] : out[c][i].upload = u
      /\ \A v \in Of(c) : v # u => Handled(v)
  BY <1>2, <1>4, <1>5 DEF InTurn
<1>7. uploads[u].sent \in Nat /\ uploads[u].file.length \in Nat
      /\ uploads[u].sent <= uploads[u].file.length + 1
  BY <1>3, UploadTyped DEF OfUploads
<1>8. n \in Int /\ n >= 0 /\ Head(out[c]).piece = KindOf(uploads[u].file, n + 1 - 1)
  BY <1>1, <1>7 DEF InTurn
<1>9. n \in Nat /\ n <= uploads[u].file.length /\ n + 1 - 1 = n
  BY <1>1, <1>7, <1>8
<1>10. Got(u) = n
  BY <1>3, <1>5 DEF Got
<1> QED
  BY <1>2, <1>3, <1>5, <1>6, <1>8, <1>9, <1>10

\* The server takes the first piece of the connection of a user in order.
LEMMA Taken ==
    ASSUME TypeOK, OutIsOwn, OfUploads, NEW c \in Clients, InTurn(c), out[c] # <<>>,
           out'[c] = Tail(out[c]), uploads' = uploads,
           NEW u, u = Head(out[c]).upload, NEW n, n = uploads[u].sent - Len(out[c])
    PROVE  /\ Of(c)' = Of(c) /\ InTurn(c)'
           /\ Got(u)' = n + 1 /\ (Handled(u)' <=> n = uploads[u].file.length)
           /\ \A v \in Of(c) : v # u => Handled(v)' /\ Got(v)' = Got(v)
<1>1. /\ u \in Of(c) /\ u \in DOMAIN uploads /\ ~Handled(u)
      /\ n \in Nat /\ n <= uploads[u].file.length
      /\ \A i \in DOMAIN out[c] : out[c][i].upload = u
      /\ \A v \in Of(c) : v # u => Handled(v)
  BY HeadIs
<1>2. /\ out[c] \in Seq(Piece) /\ Len(out[c]) \in Nat \ {0}
      /\ DOMAIN out'[c] = 1 .. Len(out[c]) - 1 /\ Len(out'[c]) = Len(out[c]) - 1
      /\ DOMAIN out[c] = 1 .. Len(out[c])
      /\ \A i \in DOMAIN out'[c] : i + 1 \in DOMAIN out[c] /\ out'[c][i] = out[c][i + 1]
  BY OutTyped
<1>3. \A v \in Of(c) : uploads[v].client = c /\ v \in DOMAIN uploads
  BY DEF Of
<1>4. Of(c)' = Of(c)
  BY DEF Of
<1>5. uploads[u].sent \in Nat /\ uploads[u].file.length \in Nat
      /\ uploads[u].sent <= uploads[u].file.length + 1
  BY <1>1, UploadTyped DEF OfUploads
<1>6. Handled(u)' <=> n = uploads[u].file.length
  <2>1. Handled(u)' <=> /\ uploads[u].sent = uploads[u].file.length + 1
                        /\ \A i \in DOMAIN out'[c] : out'[c][i].upload # u
    BY <1>1, <1>3 DEF Handled
  <2>2. CASE Len(out[c]) = 1
    <3>1. \A i \in DOMAIN out'[c] : out'[c][i].upload # u
      BY <1>2, <2>2
    <3>2. Handled(u)' <=> uploads[u].sent = uploads[u].file.length + 1
      BY <2>1, <3>1
    <3>3. n = uploads[u].sent - 1
      BY <2>2
    <3>4. \A s, f \in Nat : s = f + 1 <=> s - 1 = f
      OBVIOUS
    <3>5. uploads[u].sent = uploads[u].file.length + 1
              <=> uploads[u].sent - 1 = uploads[u].file.length
      BY <1>5, <3>4
    <3> QED
      BY <3>2, <3>3, <3>5
  <2>3. CASE Len(out[c]) # 1
    <3>1. 1 \in DOMAIN out'[c]
      <4>1. \A l \in Nat \ {0} : l # 1 => 1 \in 1 .. l - 1
        OBVIOUS
      <4> QED
        BY <1>2, <2>3, <4>1
    <3>2. out'[c][1].upload = u
      BY <1>1, <1>2, <3>1
    <3>3. n # uploads[u].file.length
      <4> DEFINE l == Len(out[c])
                 s == uploads[u].sent
                 f == uploads[u].file.length
      <4>1. l \in Nat \ {0} /\ l # 1 /\ s \in Nat /\ f \in Nat /\ s <= f + 1 /\ n = s - l
        BY <1>2, <1>5, <2>3
      <4> HIDE DEF l, s, f
      <4>2. n # f
        BY <4>1
      <4> QED
        BY <4>2 DEF f
    <3> QED
      BY <2>1, <3>1, <3>2, <3>3
  <2> QED
    BY <2>2, <2>3
<1>7. Got(u)' = n + 1
  <2>1. Got(u)' = IF Handled(u)' THEN uploads[u].file.length + 1
                  ELSE uploads[u].sent - Len(out'[c])
    BY <1>1, <1>3 DEF Got
  <2> QED
    BY <1>2, <1>5, <1>6, <2>1
<1>8. \A v \in Of(c) : v # u => Handled(v)' /\ Got(v)' = Got(v)
  <2> SUFFICES ASSUME NEW v \in Of(c), v # u
               PROVE  Handled(v)' /\ Got(v)' = Got(v)
    OBVIOUS
  <2>1. Handled(v) /\ uploads[v].client = c
    BY <1>1, <1>3
  <2>3. \A i \in DOMAIN out'[c] : out'[c][i].upload # v
    BY <1>1, <1>2
  <2>4. Handled(v)'
    BY <2>1, <2>3 DEF Handled
  <2>2. Got(v) = uploads[v].file.length + 1 /\ Got(v)' = uploads[v].file.length + 1
    BY <2>1, <2>4 DEF Got
  <2> QED
    BY <2>2, <2>4
<1>9. InTurn(c)'
  <2>1. \A v \in Of(c)' : ~uploads'[v].cut
    BY <1>4 DEF InTurn
  <2>2. \A v, w \in Of(c)' : ~Handled(v)' /\ ~Handled(w)' => v = w
    BY <1>4, <1>8
  <2>3. ASSUME NEW i \in DOMAIN out'[c]
        PROVE  LET v == out'[c][i].upload
                   m == uploads'[v].sent - Len(out'[c])
               IN  m >= 0 /\ out'[c][i].piece = KindOf(uploads'[v].file, m + i - 1)
    <3>1. out'[c][i].upload = u /\ i + 1 \in DOMAIN out[c] /\ out'[c][i] = out[c][i + 1]
      BY <1>1, <1>2
    <3>2. out[c][i + 1].piece = KindOf(uploads[u].file, n + (i + 1) - 1)
      BY <1>1, <3>1 DEF InTurn
    <3>3. i \in Nat /\ uploads[u].sent - Len(out'[c]) = n + 1
      <4>1. \A a, b \in Nat : a - (b - 1) = (a - b) + 1
        OBVIOUS
      <4>2. uploads[u].sent - Len(out'[c]) = n + 1
        BY <1>2, <1>5, <4>1
      <4> QED
        BY <1>2, <4>2
    <3>4. n + 1 >= 0 /\ (n + 1) + i - 1 = n + (i + 1) - 1
      <4>1. \A a, b \in Nat : a + 1 >= 0 /\ (a + 1) + b - 1 = a + (b + 1) - 1
        OBVIOUS
      <4>2. n \in Nat /\ i \in Nat
        BY <1>1, <3>3
      <4> QED
        BY <4>1, <4>2
    <3> QED
      BY <3>1, <3>2, <3>3, <3>4
  <2> QED
    BY <2>1, <2>2, <2>3 DEF InTurn
<1> QED
  BY <1>4, <1>6, <1>7, <1>8, <1>9

\* What is announced of an upload of which nothing changes.
LEMMA AnnouncedKept ==
    ASSUME NEW v, AnnouncedOnce(v), uploads' = uploads,
           Handled(v)' <=> Handled(v), v \in refused' <=> v \in refused,
           \A k \in DOMAIN announced : k \in DOMAIN announced' /\ announced'[k] = announced[k],
           \A k \in DOMAIN announced' : k \in DOMAIN announced \/ announced'[k].by # v,
           \A k \in DOMAIN announced : announced[k].path \notin reused' =>
               announced[k].path \notin reused /\ disk'[announced[k].path] = disk[announced[k].path]
    PROVE  AnnouncedOnce(v)'
<1>1. (ToAnnounce(v)' <=> ToAnnounce(v)) /\ Whole(v)' = Whole(v)
  BY DEF ToAnnounce, Whole
<1>2. \A k \in DOMAIN announced' : announced'[k].by = v => k \in DOMAIN announced
  OBVIOUS
<1>3. \A k \in DOMAIN announced' :
          announced'[k].by = v =>
              /\ Handled(v)' /\ ToAnnounce(v)'
              /\ announced'[k].path[2] = uploads'[v].file.name
              /\ announced'[k].path \notin reused' => disk'[announced'[k].path] = Whole(v)'
  BY <1>1, <1>2 DEF AnnouncedOnce
<1>4. \A k, l \in DOMAIN announced' : announced'[k].by = v /\ announced'[l].by = v => k = l
  BY <1>2 DEF AnnouncedOnce
<1>5. Handled(v)' /\ ToAnnounce(v)' => \E k \in DOMAIN announced' : announced'[k].by = v
  BY <1>1 DEF AnnouncedOnce
<1> QED
  BY <1>3, <1>4, <1>5 DEF AnnouncedOnce

\* What is announced of an upload that is not over or is not to be announced: nothing.
LEMMA NotAnnounced ==
    ASSUME NEW v, AnnouncedOnce(v), ~Handled(v), ~(Handled(v)' /\ ToAnnounce(v)'),
           \A k \in DOMAIN announced : k \in DOMAIN announced' /\ announced'[k] = announced[k],
           \A k \in DOMAIN announced' : k \in DOMAIN announced \/ announced'[k].by # v
    PROVE  AnnouncedOnce(v)'
<1>1. \A k \in DOMAIN announced' : announced'[k].by # v
  BY DEF AnnouncedOnce
<1> QED
  BY <1>1 DEF AnnouncedOnce

\* The server takes a piece: what stays on the connections, and the other users.
LEMMA ReceiveOwn ==
    ASSUME TypeOK, OutIsOwn, NEW c \in Clients, NEW pieces, Receive(c, pieces)
    PROVE  /\ OutIsOwn'
           /\ out[c] # <<>> /\ out'[c] = Tail(out[c]) /\ uploads' = uploads /\ dirty' = dirty
           /\ Head(out[c]).piece \in pieces
           /\ \A d \in Clients \ {c} : out'[d] = out[d]
           /\ \A d : Of(d)' = Of(d)
           /\ \A d \in Clients : \A j \in DOMAIN out[d] : out[d][j].upload \in Of(d)
<1>1. /\ out \in [Clients -> Seq(Piece)] /\ out[c] \in Seq(Piece) /\ out[c] # <<>>
      /\ out' = [out EXCEPT ![c] = Tail(@)] /\ Head(out[c]).piece \in pieces
      /\ uploads' = uploads /\ dirty' = dirty
  BY DEF TypeOK, Receive
<1>2. /\ DOMAIN Tail(out[c]) = 1 .. Len(out[c]) - 1
      /\ \A i \in DOMAIN Tail(out[c]) : i + 1 \in DOMAIN out[c] /\ Tail(out[c])[i] = out[c][i + 1]
  BY <1>1
<1>3. out'[c] = Tail(out[c]) /\ \A d \in Clients \ {c} : out'[d] = out[d]
  BY <1>1
<1>4. \A d : Of(d)' = Of(d)
  BY <1>1 DEF Of
<1>5. \A d \in Clients : \A j \in DOMAIN out[d] : out[d][j].upload \in Of(d)
  BY DEF OutIsOwn
<1>6. OutIsOwn'
  <2> SUFFICES ASSUME NEW d \in Clients, NEW i \in DOMAIN out'[d]
               PROVE  out'[d][i].id = d /\ out'[d][i].upload \in Of(d)
    BY <1>4 DEF OutIsOwn
  <2>1. CASE d = c
    <3>1. i \in DOMAIN Tail(out[c]) /\ out'[d][i] = Tail(out[c])[i]
      BY <1>3, <2>1
    <3>2. i + 1 \in DOMAIN out[c] /\ out'[d][i] = out[c][i + 1]
      BY <1>2, <3>1
    <3> QED
      BY <2>1, <3>2 DEF OutIsOwn
  <2>2. CASE d # c
    BY <1>3, <2>2 DEF OutIsOwn
  <2> QED
    BY <2>1, <2>2
<1> QED
  BY <1>1, <1>3, <1>4, <1>5, <1>6

LEMMA AppendIs ==
    ASSUME NEW S, NEW s \in Seq(S), NEW x
    PROVE  /\ DOMAIN Append(s, x) = 1 .. Len(s) + 1 /\ Append(s, x)[Len(s) + 1] = x
           /\ \A j \in DOMAIN s : Append(s, x)[j] = s[j]
<1>1. s \in Seq(S \cup {x}) /\ x \in S \cup {x}
  OBVIOUS
<1> QED
  BY <1>1

LEMMA AddNewFileInOrder ==
    ASSUME UploadInv, InOrderInv, NEW c \in Clients, AddNewFile(c),
           NEW p, p = Head(out[c]), NEW u, u = p.upload
    PROVE  InOrderInv'
<1> DEFINE path == <<now, uploads[u].file.name>>
           e == [id |-> p.id, path |-> path, size |-> uploads[u].file.size, data |-> <<>>]
           l == Len(inputFiles) + 1
           n == uploads[u].sent - Len(out[c])
<1>1. Receive(c, {1}) /\ announced' = announced
  BY DEF AddNewFile
<1>2. /\ TypeOK /\ OutIsOwn /\ OfUploads /\ AnnouncedHasItsSize
      /\ inputFiles \in Seq(FileEntry) /\ DOMAIN inputFiles = 1 .. Len(inputFiles)
      /\ Len(inputFiles) \in Nat
  BY DEF UploadInv, InOrderInv, TypeOK
<1>3. /\ OutIsOwn' /\ out[c] # <<>> /\ out'[c] = Tail(out[c]) /\ uploads' = uploads
      /\ dirty' = dirty /\ p.piece = 1
      /\ \A d \in Clients \ {c} : out'[d] = out[d]
      /\ \A d : Of(d)' = Of(d)
      /\ \A d \in Clients : \A j \in DOMAIN out[d] : out[d][j].upload \in Of(d)
  BY <1>1, <1>2, ReceiveOwn
<1>4. u \in Of(c) /\ p.id = c /\ \A d \in Clients \ {c} : u \notin Of(d)
  <2>1. out[c] \in Seq(Piece) /\ 1 \in DOMAIN out[c] /\ p = out[c][1]
    BY <1>2, <1>3, OutTyped
  <2>2. u \in Of(c) /\ p.id = c
    BY <1>2, <2>1 DEF OutIsOwn
  <2> QED
    BY <2>2 DEF Of
<1>5. u \in DOMAIN uploads /\ uploads[u].client = c
  BY <1>4 DEF Of
<1>6. \/ /\ disk' = [disk EXCEPT ![path] = <<>>]
         /\ inputFiles' = Append(inputFiles, e)
         /\ reused' = IF disk[path] = NoFile THEN reused ELSE reused \cup {path}
         /\ refused' = refused
      \/ /\ refused' = refused \cup {u}
         /\ disk' = disk /\ inputFiles' = inputFiles /\ reused' = reused
  BY DEF AddNewFile
<1>7. \/ inputFiles' = inputFiles
      \/ /\ DOMAIN inputFiles' = 1 .. l /\ inputFiles'[l] = e
         /\ \A j \in DOMAIN inputFiles : inputFiles'[j] = inputFiles[j]
  <2> HIDE DEF e
  <2>0. \A x : /\ DOMAIN Append(inputFiles, x) = 1 .. l /\ Append(inputFiles, x)[l] = x
               /\ \A j \in DOMAIN inputFiles : Append(inputFiles, x)[j] = inputFiles[j]
    BY <1>2, AppendIs
  <2>1. CASE inputFiles' = Append(inputFiles, e)
    BY <2>0, <2>1
  <2> QED
    BY <1>6, <2>1
<1>8. e.id = c /\ e.path[2] = uploads[u].file.name /\ e.size = uploads[u].file.size /\ e.data = <<>>
  BY <1>4
<1>9. /\ refused \subseteq refused' /\ refused' \subseteq refused \cup {u}
      /\ \A k \in DOMAIN announced : announced[k].path \notin reused' =>
             announced[k].path \notin reused /\ disk'[announced[k].path] = disk[announced[k].path]
  <2>1. refused \subseteq refused' /\ refused' \subseteq refused \cup {u}
    BY <1>6
  <2>2. ASSUME NEW k \in DOMAIN announced, announced[k].path \notin reused'
        PROVE  announced[k].path \notin reused /\ disk'[announced[k].path] = disk[announced[k].path]
    <3>1. announced[k].path \notin reused
      BY <1>6, <2>2
    <3>2. disk[announced[k].path] # NoFile
      BY <1>2, <3>1 DEF AnnouncedHasItsSize
    <3>3. disk \in [Paths -> {NoFile} \cup Seq(UploadIds)]
      BY <1>2 DEF TypeOK
    <3>4. CASE disk' = disk
      BY <3>1, <3>4
    <3>5. CASE /\ disk' = [disk EXCEPT ![path] = <<>>]
               /\ reused' = IF disk[path] = NoFile THEN reused ELSE reused \cup {path}
      <4>1. announced[k].path # path
        BY <2>2, <3>2, <3>5
      <4> QED
        BY <3>1, <3>5, <4>1
    <3> QED
      BY <1>6, <3>4, <3>5
  <2> QED
    BY <2>1, <2>2
<1> HIDE DEF path, e
<1>10. OfUploads'
  BY <1>1, <1>2, <1>3, <1>5, <1>9 DEF OfUploads
<1>11. ASSUME NEW d \in Clients \ dirty, d # c
       PROVE  InOrder(d)'
  <2>1. InOrder(d) /\ \A v \in Of(d) : v \in refused' <=> v \in refused
    BY <1>4, <1>9, <1>11 DEF InOrderInv
  <2>2. DOMAIN inputFiles' \subseteq Nat /\ l + 1 \in Nat
    BY <1>2, <1>7
  <2>3. /\ \A j \in DOMAIN inputFiles' : inputFiles'[j].id = d =>
              \E k \in DOMAIN inputFiles : /\ k = (IF j < l + 1 THEN j ELSE j + 1)
                                           /\ k # l + 1 /\ inputFiles'[j] = inputFiles[k]
        /\ \A k \in DOMAIN inputFiles : inputFiles[k].id = d =>
               \E j \in DOMAIN inputFiles' : inputFiles'[j] = inputFiles[k]
    BY <1>2, <1>7, <1>8, <1>11
  <2> HIDE DEF l
  <2> QED
    BY <1>1, <1>3, <1>9, <1>11, <2>1, <2>2, <2>3, OthersInOrder
<1>12. ASSUME c \notin dirty
       PROVE  InOrder(c)'
  <2>1. InOrder(c) /\ InTurn(c) /\ EntryIsOfUpload(c)
    BY <1>12 DEF InOrderInv, InOrder
  <2>2. /\ ~Handled(u) /\ n \in Nat /\ Got(u) = n /\ p.piece = KindOf(uploads[u].file, n)
        /\ \A v \in Of(c) : v # u => Handled(v)
    BY <1>2, <1>3, <2>1, HeadIs
  <2>3. n = 0
    <3>1. KindOf(uploads[u].file, n) = 1
      BY <1>3, <2>2
    <3> QED
      BY <3>1 DEF KindOf
  <2>4. uploads[u].file.length \in Nat \ {0}
    BY <1>2, <1>5, UploadTyped
  <2>5. /\ InTurn(c)' /\ Got(u)' = n + 1 /\ (Handled(u)' <=> n = uploads[u].file.length)
        /\ \A v \in Of(c) : v # u => Handled(v)' /\ Got(v)' = Got(v)
    BY <1>2, <1>3, <2>1, Taken
  <2>6. Got(u)' = 1 /\ ~Handled(u)' /\ Got(u) = 0
    BY <2>2, <2>3, <2>4, <2>5
  <2> HIDE DEF n
  <2>7. \A j \in DOMAIN inputFiles : inputFiles[j].id # c
    <3> SUFFICES ASSUME NEW j \in DOMAIN inputFiles, inputFiles[j].id = c
                 PROVE  FALSE
      OBVIOUS
    <3>1. PICK v \in Of(c) : ~Handled(v) /\ Got(v) >= 1
      BY <2>1 DEF EntryIsOfUpload
    <3>2. Got(v) = 0
      BY <2>2, <2>6, <3>1
    <3> QED
      BY <3>1, <3>2
  <2>8. u \notin refused
    BY <1>4, <2>1, <2>6 DEF EntryIsOfUpload
  <2>9. EntryIsOfUpload(c)'
    <3>1. CASE inputFiles' = Append(inputFiles, e) /\ refused' = refused
      <4>1. /\ DOMAIN inputFiles' = 1 .. l /\ inputFiles'[l] = e
            /\ \A j \in DOMAIN inputFiles : inputFiles'[j] = inputFiles[j]
        BY <1>2, <3>1, AppendIs
      <4>2. \A j \in DOMAIN inputFiles' : inputFiles'[j].id = c => j = l
        BY <1>2, <2>7, <4>1
      <4>3. l \in DOMAIN inputFiles' /\ inputFiles'[l].id = c
        BY <1>2, <1>8, <4>1
      <4> HIDE DEF l
      <4>4. <<>> = [i \in 1 .. Got(u)' - 1 |-> u]
        BY <2>6
      <4>5. /\ ~Handled(u)' /\ u \notin refused' /\ Got(u)' >= 1
            /\ inputFiles'[l].path[2] = uploads'[u].file.name
            /\ inputFiles'[l].size = uploads'[u].file.size
            /\ inputFiles'[l].data = [i \in 1 .. Got(u)' - 1 |-> u]
        BY <1>3, <1>8, <2>6, <2>8, <3>1, <4>1, <4>4
      <4>6. \A j \in DOMAIN inputFiles' :
                inputFiles'[j].id = c =>
                    \E v \in Of(c)' :
                        /\ ~Handled(v)' /\ v \notin refused' /\ Got(v)' >= 1
                        /\ inputFiles'[j].path[2] = uploads'[v].file.name
                        /\ inputFiles'[j].size = uploads'[v].file.size
                        /\ inputFiles'[j].data = [i \in 1 .. Got(v)' - 1 |-> v]
        <5> SUFFICES ASSUME NEW j \in DOMAIN inputFiles', inputFiles'[j].id = c
                     PROVE  \E v \in Of(c)' :
                                /\ ~Handled(v)' /\ v \notin refused' /\ Got(v)' >= 1
                                /\ inputFiles'[j].path[2] = uploads'[v].file.name
                                /\ inputFiles'[j].size = uploads'[v].file.size
                                /\ inputFiles'[j].data = [i \in 1 .. Got(v)' - 1 |-> v]
          OBVIOUS
        <5>1. j = l
          BY <4>2
        <5>2. u \in Of(c)'
          BY <1>3, <1>4
        <5> QED
          BY <4>5, <5>1, <5>2
      <4>7. \A v \in Of(c)' :
                Got(v)' >= 1 => Handled(v)' \/ v \in refused'
                               \/ \E j \in DOMAIN inputFiles' : inputFiles'[j].id = c
        BY <4>3
      <4>8. \A v \in Of(c)' : v \in refused' => Got(v)' >= 1
        BY <1>3, <2>1, <2>5, <2>6, <3>1 DEF EntryIsOfUpload
      <4> QED
        BY <4>2, <4>6, <4>7, <4>8 DEF EntryIsOfUpload
    <3>2. CASE inputFiles' = inputFiles /\ refused' = refused \cup {u}
      <4>1. \A j \in DOMAIN inputFiles' : inputFiles'[j].id # c
        BY <2>7, <3>2
      <4>2. \A v \in Of(c)' : Got(v)' >= 1 => Handled(v)' \/ v \in refused'
        BY <1>3, <2>5, <3>2
      <4>3. \A v \in Of(c)' : v \in refused' => Got(v)' >= 1
        BY <1>3, <2>1, <2>5, <2>6, <3>2 DEF EntryIsOfUpload
      <4> QED
        BY <4>1, <4>2, <4>3 DEF EntryIsOfUpload
    <3> QED
      BY <1>6, <3>1, <3>2
  <2>10. ASSUME NEW v \in Of(c)
         PROVE  AnnouncedOnce(v)'
    <3>1. AnnouncedOnce(v)
      BY <2>1 DEF InOrder
    <3>2. CASE v = u
      BY <1>1, <2>2, <2>6, <3>1, <3>2, NotAnnounced
    <3>3. CASE v # u
      <4>1. (Handled(v)' <=> Handled(v)) /\ (v \in refused' <=> v \in refused)
        BY <1>9, <2>2, <2>5, <3>3
      <4> QED
        BY <1>1, <1>3, <1>9, <3>1, <4>1, AnnouncedKept
    <3> QED
      BY <3>2, <3>3
  <2> QED
    BY <1>3, <2>5, <2>9, <2>10 DEF InOrder
<1> QED
  BY <1>3, <1>10, <1>11, <1>12 DEF InOrderInv

\* The one entry of a connection, at i if there is one, is that of upload u, and in
\* files it has the first n of its bytes.
HasBytes(c, u, n, i, files) ==
    /\ \A j \in DOMAIN inputFiles : inputFiles[j].id = c => j = i
    /\ i = 0 <=> u \in refused
    /\ i # 0 => /\ i \in DOMAIN inputFiles
                /\ files[i] = [inputFiles[i] EXCEPT !.data = [k \in 1 .. n |-> u]]
                /\ inputFiles[i].id = c
                /\ inputFiles[i].path[2] = uploads[u].file.name
                /\ inputFiles[i].size = uploads[u].file.size
                /\ inputFiles[i] \in FileEntry

\* The entry of a user in order takes the bytes of its upload.
LEMMA DataOfUpload ==
    ASSUME UploadInv, OutIsOwn, OfUploads, NEW c \in Clients, InOrder(c), out[c] # <<>>,
           NEW p, p = Head(out[c]), NEW u, u = p.upload,
           NEW n, n = uploads[u].sent - Len(out[c]), n >= 1,
           NEW i, i = FirstEntry(inputFiles, c)
    PROVE  HasBytes(c, u, n, i, WithData(inputFiles, p))
<1>1. /\ TypeOK /\ InTurn(c) /\ EntryIsOfUpload(c)
      /\ inputFiles \in Seq(FileEntry) /\ DOMAIN inputFiles = 1 .. Len(inputFiles)
  BY DEF UploadInv, TypeOK, InOrder
<1>2. /\ ~Handled(u) /\ n \in Nat /\ Got(u) = n /\ p.id = c /\ u \in Of(c) /\ u \in DOMAIN uploads
      /\ \A v \in Of(c) : v # u => Handled(v)
  BY <1>1, HeadIs
<1>3. p \in Piece /\ u \in UploadIds
  <2>1. out[c] \in Seq(Piece) /\ 1 \in DOMAIN out[c] /\ p = out[c][1]
    BY <1>1, OutTyped
  <2> QED
    BY <1>1, <1>2, <2>1, UploadTyped
<1>4. /\ i = 0 => \A j \in DOMAIN inputFiles : inputFiles[j].id # c
      /\ i # 0 => i \in DOMAIN inputFiles /\ inputFiles[i].id = c
  BY <1>1, FirstEntryIs
<1>5. \A j \in DOMAIN inputFiles : inputFiles[j].id = c => j = i
  BY <1>1, <1>4 DEF EntryIsOfUpload
<1>6. ASSUME i # 0
      PROVE  /\ u \notin refused
             /\ inputFiles[i].path[2] = uploads[u].file.name
             /\ inputFiles[i].size = uploads[u].file.size
             /\ inputFiles[i].data = [k \in 1 .. n - 1 |-> u]
  <2>1. PICK v \in Of(c) :
                /\ ~Handled(v) /\ v \notin refused /\ Got(v) >= 1
                /\ inputFiles[i].path[2] = uploads[v].file.name
                /\ inputFiles[i].size = uploads[v].file.size
                /\ inputFiles[i].data = [k \in 1 .. Got(v) - 1 |-> v]
    BY <1>1, <1>4, <1>6 DEF EntryIsOfUpload
  <2>2. v = u
    BY <1>2, <2>1
  <2>3. inputFiles[i].data = [k \in 1 .. Got(u) - 1 |-> u]
    BY <2>1, <2>2
  <2>4. inputFiles[i].data = [k \in 1 .. n - 1 |-> u]
    BY <1>2, <2>3
  <2> QED
    BY <2>1, <2>2, <2>4
<1>7. ASSUME i = 0
      PROVE  u \in refused
  BY <1>1, <1>2, <1>4, <1>7 DEF EntryIsOfUpload
<1>8. \A j \in DOMAIN inputFiles :
          WithData(inputFiles, p)[j] =
              IF j = i THEN [inputFiles[j] EXCEPT !.data = Append(inputFiles[j].data, u)]
              ELSE inputFiles[j]
  <2>1. \A j \in DOMAIN inputFiles :
            WithData(inputFiles, p)[j] =
                IF j = FirstEntry(inputFiles, p.id)
                THEN [inputFiles[j] EXCEPT !.data = Append(inputFiles[j].data, p.upload)]
                ELSE inputFiles[j]
    BY <1>1, <1>3, WithDataIs
  <2>2. p.id = c /\ FirstEntry(inputFiles, p.id) = i
    BY <1>2
  <2> QED
    BY <2>1, <2>2
<1>9. ASSUME i # 0
      PROVE  WithData(inputFiles, p)[i] = [inputFiles[i] EXCEPT !.data = [k \in 1 .. n |-> u]]
  <2>1. n - 1 \in Nat /\ n - 1 + 1 = n
    BY <1>2
  <2>2. Append([k \in 1 .. n - 1 |-> u], u) = [k \in 1 .. n - 1 + 1 |-> u]
    BY <1>3, <2>1, OneMore
  <2>3. [k \in 1 .. n - 1 + 1 |-> u] = [k \in 1 .. n |-> u]
    BY <2>1
  <2>4. Append(inputFiles[i].data, u) = [k \in 1 .. n |-> u]
    BY <1>6, <1>9, <2>2, <2>3
  <2> QED
    BY <1>4, <1>8, <1>9, <2>4
<1>10. i # 0 => inputFiles[i] \in FileEntry
  BY <1>1, <1>4
<1> QED
  BY <1>4, <1>5, <1>6, <1>7, <1>9, <1>10 DEF HasBytes

LEMMA AddDataInOrder ==
    ASSUME UploadInv, InOrderInv, NEW c \in Clients, AddData(c),
           NEW p, p = Head(out[c]), NEW u, u = p.upload
    PROVE  InOrderInv'
<1> DEFINE l == Len(inputFiles) + 1
<1>1. /\ Receive(c, {2}) /\ announced' = announced /\ disk' = disk /\ reused' = reused
      /\ refused' = refused /\ inputFiles' = WithData(inputFiles, p)
  BY DEF AddData
<1>2. /\ TypeOK /\ OutIsOwn /\ OfUploads
      /\ inputFiles \in Seq(FileEntry) /\ DOMAIN inputFiles = 1 .. Len(inputFiles)
      /\ Len(inputFiles) \in Nat
  BY DEF UploadInv, InOrderInv, TypeOK
<1>3. /\ OutIsOwn' /\ out[c] # <<>> /\ out'[c] = Tail(out[c]) /\ uploads' = uploads
      /\ dirty' = dirty /\ p.piece = 2
      /\ \A d \in Clients \ {c} : out'[d] = out[d]
      /\ \A d : Of(d)' = Of(d)
      /\ \A d \in Clients : \A j \in DOMAIN out[d] : out[d][j].upload \in Of(d)
  BY <1>1, <1>2, ReceiveOwn
<1>4. p \in Piece /\ p.id = c /\ u \in Of(c) /\ u \in DOMAIN uploads
  <2>1. out[c] \in Seq(Piece) /\ 1 \in DOMAIN out[c] /\ p = out[c][1]
    BY <1>2, <1>3, OutTyped
  <2>2. u \in Of(c) /\ p.id = c
    BY <1>2, <2>1 DEF OutIsOwn
  <2> QED
    BY <2>1, <2>2 DEF Of
<1>5. DOMAIN inputFiles' = DOMAIN inputFiles
  BY <1>1, <1>2, <1>4, WithDataFacts
<1>6. OfUploads'
  BY <1>1, <1>2, <1>3 DEF OfUploads
<1>7. \A j \in DOMAIN inputFiles :
          /\ inputFiles[j].id # c => inputFiles'[j] = inputFiles[j]
          /\ inputFiles'[j].id = inputFiles[j].id
  <2> SUFFICES ASSUME NEW j \in DOMAIN inputFiles
               PROVE  /\ inputFiles[j].id # c => inputFiles'[j] = inputFiles[j]
                      /\ inputFiles'[j].id = inputFiles[j].id
    OBVIOUS
  <2>1. inputFiles'[j] =
            IF j = FirstEntry(inputFiles, c)
            THEN [inputFiles[j] EXCEPT !.data = Append(inputFiles[j].data, p.upload)]
            ELSE inputFiles[j]
    <3>1. WithData(inputFiles, p)[j] =
              IF j = FirstEntry(inputFiles, p.id)
              THEN [inputFiles[j] EXCEPT !.data = Append(inputFiles[j].data, p.upload)]
              ELSE inputFiles[j]
      <4>1. inputFiles \in Seq(FileEntry) /\ p \in Piece /\ j \in DOMAIN inputFiles
        BY <1>2, <1>4
      <4> QED
        BY ONLY <4>1, WithDataIs
    <3>2. p.id = c /\ FirstEntry(inputFiles, p.id) = FirstEntry(inputFiles, c)
      BY <1>4
    <3> QED
      BY <1>1, <3>1, <3>2
  <2>2. j = FirstEntry(inputFiles, c) => inputFiles[j].id = c
    BY <1>2, FirstEntryIs
  <2>3. inputFiles[j] \in FileEntry
    BY <1>2
  <2> QED
    BY <2>1, <2>2, <2>3 DEF FileEntry
<1>8. ASSUME NEW d \in Clients \ dirty, d # c
      PROVE  InOrder(d)'
  <2>1. InOrder(d)
    BY DEF InOrderInv
  <2>2. DOMAIN inputFiles' \subseteq Nat /\ l + 1 \in Nat
    BY <1>2, <1>5
  <2>3. /\ \A j \in DOMAIN inputFiles' : inputFiles'[j].id = d =>
              \E k \in DOMAIN inputFiles : /\ k = (IF j < l + 1 THEN j ELSE j + 1)
                                           /\ k # l + 1 /\ inputFiles'[j] = inputFiles[k]
        /\ \A k \in DOMAIN inputFiles : inputFiles[k].id = d =>
               \E j \in DOMAIN inputFiles' : inputFiles'[j] = inputFiles[k]
    BY <1>2, <1>5, <1>7, <1>8
  <2> HIDE DEF l
  <2> QED
    BY <1>1, <1>3, <1>8, <2>1, <2>2, <2>3, OthersInOrder
<1>9. ASSUME c \notin dirty
      PROVE  InOrder(c)'
  <2> DEFINE n == uploads[u].sent - Len(out[c])
             i == FirstEntry(inputFiles, c)
  <2>1. InOrder(c) /\ InTurn(c) /\ EntryIsOfUpload(c)
    BY <1>9 DEF InOrderInv, InOrder
  <2>2. /\ ~Handled(u) /\ n \in Nat /\ Got(u) = n /\ p.piece = KindOf(uploads[u].file, n)
        /\ \A v \in Of(c) : v # u => Handled(v)
    BY <1>2, <1>3, <2>1, HeadIs
  <2>3. /\ InTurn(c)' /\ Got(u)' = n + 1 /\ (Handled(u)' <=> n = uploads[u].file.length)
        /\ \A v \in Of(c) : v # u => Handled(v)' /\ Got(v)' = Got(v)
    BY <1>2, <1>3, <2>1, Taken
  <2> HIDE DEF n
  <2>4. uploads[u].file.length \in Nat \ {0}
    BY <1>2, <1>4, UploadTyped
  <2>5. n >= 1 /\ n < uploads[u].file.length
    <3>1. KindOf(uploads[u].file, n) = 2
      BY <1>3, <2>2
    <3>2. n # 0 /\ n < uploads[u].file.length
      BY <3>1 DEF KindOf
    <3> QED
      BY <2>2, <3>2
  <2>6. ~Handled(u)'
    BY <2>2, <2>3, <2>4, <2>5
  <2>7. /\ \A j \in DOMAIN inputFiles : inputFiles[j].id = c => j = i
        /\ i = 0 <=> u \in refused
        /\ i # 0 => /\ i \in DOMAIN inputFiles
                    /\ inputFiles'[i] = [inputFiles[i] EXCEPT !.data = [k \in 1 .. n |-> u]]
                    /\ inputFiles[i].id = c
                    /\ inputFiles[i].path[2] = uploads[u].file.name
                    /\ inputFiles[i].size = uploads[u].file.size
                    /\ inputFiles[i] \in FileEntry
    <3>1. HasBytes(c, u, n, i, WithData(inputFiles, p))
      <4>1. n = uploads[u].sent - Len(out[c]) /\ n >= 1
        BY <2>5 DEF n
      <4>2. OutIsOwn /\ OfUploads /\ InOrder(c) /\ out[c] # <<>>
        BY <1>2, <1>3, <2>1
      <4> QED
        BY <4>1, <4>2, DataOfUpload
    <3> QED
      BY <1>1, <3>1 DEF HasBytes
  <2> HIDE DEF i
  <2>8. EntryIsOfUpload(c)'
    <3>1. \A j \in DOMAIN inputFiles' : inputFiles'[j].id = c => j = i /\ i # 0
      BY <1>2, <1>5, <1>7, <2>7
    <3>2. ASSUME i # 0
          PROVE  /\ ~Handled(u)' /\ u \notin refused' /\ Got(u)' >= 1
                 /\ inputFiles'[i].path[2] = uploads'[u].file.name
                 /\ inputFiles'[i].size = uploads'[u].file.size
                 /\ inputFiles'[i].data = [k \in 1 .. Got(u)' - 1 |-> u]
      <4>1. /\ inputFiles'[i].path = inputFiles[i].path /\ inputFiles'[i].size = inputFiles[i].size
            /\ inputFiles'[i].data = [k \in 1 .. n |-> u]
        BY <2>7, <3>2 DEF FileEntry
      <4>2. Got(u)' - 1 = n /\ Got(u)' >= 1
        BY <2>2, <2>3
      <4>3. [k \in 1 .. Got(u)' - 1 |-> u] = [k \in 1 .. n |-> u]
        BY <4>2
      <4> QED
        BY <1>1, <1>3, <2>6, <2>7, <3>2, <4>1, <4>2, <4>3
    <3>3. \A j \in DOMAIN inputFiles' :
              inputFiles'[j].id = c =>
                  \E v \in Of(c)' :
                      /\ ~Handled(v)' /\ v \notin refused' /\ Got(v)' >= 1
                      /\ inputFiles'[j].path[2] = uploads'[v].file.name
                      /\ inputFiles'[j].size = uploads'[v].file.size
                      /\ inputFiles'[j].data = [k \in 1 .. Got(v)' - 1 |-> v]
      <4> SUFFICES ASSUME NEW j \in DOMAIN inputFiles', inputFiles'[j].id = c
                   PROVE  \E v \in Of(c)' :
                              /\ ~Handled(v)' /\ v \notin refused' /\ Got(v)' >= 1
                              /\ inputFiles'[j].path[2] = uploads'[v].file.name
                              /\ inputFiles'[j].size = uploads'[v].file.size
                              /\ inputFiles'[j].data = [k \in 1 .. Got(v)' - 1 |-> v]
        OBVIOUS
      <4>1. j = i /\ i # 0
        BY <3>1
      <4>2. u \in Of(c)'
        BY <1>3, <1>4
      <4> QED
        BY <3>2, <4>1, <4>2
    <3>4. \A v \in Of(c)' :
              Got(v)' >= 1 => Handled(v)' \/ v \in refused'
                             \/ \E j \in DOMAIN inputFiles' : inputFiles'[j].id = c
      <4>1. u \in refused' \/ \E j \in DOMAIN inputFiles' : inputFiles'[j].id = c
        BY <1>1, <1>5, <1>7, <2>7
      <4> QED
        BY <1>3, <2>3, <4>1
    <3>5. \A v \in Of(c)' : v \in refused' => Got(v)' >= 1
      <4>1. Got(u)' >= 1
        BY <2>2, <2>3
      <4> QED
        BY <1>1, <1>3, <2>1, <2>3, <4>1 DEF EntryIsOfUpload
    <3> QED
      BY <3>1, <3>3, <3>4, <3>5 DEF EntryIsOfUpload
  <2>9. ASSUME NEW v \in Of(c)
        PROVE  AnnouncedOnce(v)'
    <3>1. AnnouncedOnce(v)
      BY <2>1 DEF InOrder
    <3>2. CASE v = u
      BY <1>1, <2>2, <2>6, <3>1, <3>2, NotAnnounced
    <3>3. CASE v # u
      <4>1. Handled(v)' <=> Handled(v)
        BY <2>2, <2>3, <3>3
      <4> QED
        BY <1>1, <1>3, <3>1, <4>1, AnnouncedKept
    <3> QED
      BY <3>2, <3>3
  <2> QED
    BY <1>3, <2>3, <2>8, <2>9 DEF InOrder
<1> QED
  BY <1>3, <1>6, <1>8, <1>9 DEF InOrderInv

\* A piece changes no entry of another user.
LEMMA DataKeepsOthers ==
    ASSUME NEW files \in Seq(FileEntry), NEW p \in Piece, NEW j \in DOMAIN files
    PROVE  /\ files[j].id # p.id => WithData(files, p)[j] = files[j]
           /\ WithData(files, p)[j].id = files[j].id /\ WithData(files, p)[j].path = files[j].path
<1>1. WithData(files, p)[j] =
          IF j = FirstEntry(files, p.id)
          THEN [files[j] EXCEPT !.data = Append(files[j].data, p.upload)]
          ELSE files[j]
  BY WithDataIs
<1>2. j = FirstEntry(files, p.id) => files[j].id = p.id
  BY FirstEntryIs
<1>3. files[j] \in FileEntry
  OBVIOUS
<1> QED
  BY <1>1, <1>2, <1>3 DEF FileEntry

LEMMA FinalFileInputInOrder ==
    ASSUME UploadInv, InOrderInv, NEW c \in Clients, FinalFileInput(c),
           NEW p, p = Head(out[c]), NEW u, u = p.upload,
           NEW files, files = WithData(inputFiles, p), NEW i, i = FirstEntry(files, p.id)
    PROVE  InOrderInv'
<1> DEFINE l == Len(inputFiles)
           e == files[i]
           m == [by |-> u, path |-> e.path, size |-> e.size]
<1>1. /\ Receive(c, {3}) /\ reused' = reused /\ refused' = refused
      /\ \/ /\ i = 0
            /\ UNCHANGED <<inputFiles, disk, announced>>
         \/ /\ i # 0 /\ Len(e.data) # e.size
            /\ disk' = [disk EXCEPT ![e.path] = NoFile]
            /\ inputFiles' = RemoveAt(files, i)
            /\ announced' = announced
         \/ /\ i # 0 /\ Len(e.data) = e.size
            /\ disk' = [disk EXCEPT ![e.path] = Closed(disk[e.path], e.data)]
            /\ announced' = IF e.path[2] \in Quoted THEN announced ELSE Append(announced, m)
            /\ inputFiles' = RemoveAt(files, i)
  BY DEF FinalFileInput, ListWithout
<1>2. /\ TypeOK /\ OutIsOwn /\ OfUploads /\ OneFileEach
      /\ inputFiles \in Seq(FileEntry) /\ DOMAIN inputFiles = 1 .. l /\ l \in Nat
      /\ disk \in [Paths -> {NoFile} \cup Seq(UploadIds)] /\ announced \in Seq(Announcement)
      /\ DOMAIN announced = 1 .. Len(announced) /\ Len(announced) \in Nat
  BY DEF UploadInv, InOrderInv, TypeOK
<1>3. /\ OutIsOwn' /\ out[c] # <<>> /\ out'[c] = Tail(out[c]) /\ uploads' = uploads
      /\ dirty' = dirty /\ p.piece = 3
      /\ \A d \in Clients \ {c} : out'[d] = out[d]
      /\ \A d : Of(d)' = Of(d)
      /\ \A d \in Clients : \A j \in DOMAIN out[d] : out[d][j].upload \in Of(d)
  <2>1. Receive(c, {3}) /\ TypeOK /\ OutIsOwn
    BY <1>1, <1>2
  <2> QED
    BY <2>1, ReceiveOwn
<1>4. p \in Piece /\ p.id = c /\ u \in Of(c) /\ u \in DOMAIN uploads
      /\ \A d \in Clients \ {c} : u \notin Of(d)
  <2>1. out[c] \in Seq(Piece) /\ 1 \in DOMAIN out[c] /\ p = out[c][1]
    BY <1>2, <1>3, OutTyped
  <2>2. u \in Of(c) /\ p.id = c
    BY <1>2, <2>1 DEF OutIsOwn
  <2> QED
    BY <2>1, <2>2 DEF Of
<1>5. /\ files \in Seq(FileEntry) /\ Len(files) = l /\ DOMAIN files = DOMAIN inputFiles
      /\ \A j \in DOMAIN inputFiles :
            /\ inputFiles[j].id # c => files[j] = inputFiles[j]
            /\ files[j].id = inputFiles[j].id /\ files[j].path = inputFiles[j].path
  <2>1. /\ files \in Seq(FileEntry) /\ Len(files) = l /\ DOMAIN files = DOMAIN inputFiles
    BY <1>2, <1>4, WithDataFacts
  <2>2. \A j \in DOMAIN inputFiles :
            /\ inputFiles[j].id # p.id => files[j] = inputFiles[j]
            /\ files[j].id = inputFiles[j].id /\ files[j].path = inputFiles[j].path
    BY <1>2, <1>4, DataKeepsOthers
  <2> QED
    BY <1>4, <2>1, <2>2
<1>6. /\ i = 0 => \A j \in DOMAIN files : files[j].id # c
      /\ i # 0 => i \in DOMAIN files /\ e.id = c /\ e.path = inputFiles[i].path /\ e.path \in Paths
                  /\ e.data \in Seq(UploadIds)
  <2>1. /\ i = 0 => \A j \in DOMAIN files : files[j].id # p.id
        /\ i # 0 => i \in DOMAIN files /\ e.id = p.id
    BY <1>5, FirstEntryIs
  <2>2. i # 0 => e.path \in Paths /\ e.data \in Seq(UploadIds)
    BY <1>5, <2>1, EntryTypes
  <2> QED
    BY <1>4, <1>5, <2>1, <2>2
<1>7. i # 0 => /\ DOMAIN inputFiles' = 1 .. l - 1
               /\ \A j \in 1 .. l - 1 : inputFiles'[j] = IF j < i THEN files[j] ELSE files[j + 1]
  <2>1. ASSUME i # 0
        PROVE  i \in 1 .. Len(files)
    BY <1>2, <1>5, <1>6, <2>1
  <2>2. i # 0 => /\ RemoveAt(files, i) \in Seq(FileEntry) /\ Len(RemoveAt(files, i)) = l - 1
                 /\ \A j \in 1 .. l - 1 :
                        RemoveAt(files, i)[j] = IF j < i THEN files[j] ELSE files[j + 1]
    BY <1>5, <2>1, ListWithoutElement
  <2>3. i # 0 => DOMAIN RemoveAt(files, i) = 1 .. l - 1
    BY <2>2
  <2> QED
    BY <1>1, <2>2, <2>3
<1>8. \/ announced' = announced
      \/ /\ i # 0 /\ Len(e.data) = e.size /\ e.path[2] \notin Quoted
         /\ DOMAIN announced' = 1 .. Len(announced) + 1 /\ announced'[Len(announced) + 1] = m
         /\ \A k \in DOMAIN announced : announced'[k] = announced[k]
  <2> HIDE DEF m
  <2>1. /\ DOMAIN Append(announced, m) = 1 .. Len(announced) + 1
        /\ Append(announced, m)[Len(announced) + 1] = m
        /\ \A j \in DOMAIN announced : Append(announced, m)[j] = announced[j]
    BY <1>2, AppendIs
  <2> QED
    BY <1>1, <2>1
<1>9. m.by = u /\ m.path = e.path /\ m.size = e.size
  OBVIOUS
<1> HIDE DEF e, m
<1>10. /\ \A k \in DOMAIN announced : k \in DOMAIN announced' /\ announced'[k] = announced[k]
       /\ \A k \in DOMAIN announced' : k \in DOMAIN announced \/ announced'[k].by = u
  <2>1. CASE announced' = announced
    BY <2>1
  <2>2. CASE /\ DOMAIN announced' = 1 .. Len(announced) + 1
             /\ announced'[Len(announced) + 1] = m
             /\ \A k \in DOMAIN announced : announced'[k] = announced[k]
    BY <1>2, <1>9, <2>2
  <2> QED
    BY <1>8, <2>1, <2>2
<1>11. \A k \in DOMAIN announced : announced[k].path \notin reused' =>
           announced[k].path \notin reused /\ disk'[announced[k].path] = disk[announced[k].path]
  <2> SUFFICES ASSUME NEW k \in DOMAIN announced, announced[k].path \notin reused'
               PROVE  announced[k].path \notin reused /\ disk'[announced[k].path] = disk[announced[k].path]
    OBVIOUS
  <2>1. announced[k].path \notin reused
    BY <1>1
  <2>2. i # 0 => announced[k].path # e.path
    BY <1>2, <1>5, <1>6, <2>1 DEF OneFileEach
  <2>3. announced[k].path \in Paths
    BY <1>2, AnnouncedPaths
  <2>4. CASE i = 0
    BY <1>1, <2>1, <2>4
  <2>5. CASE i # 0
    <3>1. \/ disk' = [disk EXCEPT ![e.path] = NoFile]
          \/ disk' = [disk EXCEPT ![e.path] = Closed(disk[e.path], e.data)]
      BY <1>1, <2>5
    <3> QED
      BY <1>2, <2>1, <2>2, <2>3, <2>5, <3>1
  <2> QED
    BY <2>4, <2>5
<1>12. OfUploads'
  <2>1. \A k \in DOMAIN announced' : announced'[k].by \in DOMAIN uploads
    BY <1>2, <1>4, <1>10 DEF OfUploads
  <2> QED
    BY <1>1, <1>2, <1>3, <2>1 DEF OfUploads
<1>13. ASSUME NEW d \in Clients \ dirty, d # c
       PROVE  InOrder(d)'
  <2>1. InOrder(d) /\ \A k \in DOMAIN announced' : k \in DOMAIN announced \/ announced'[k].by \notin Of(d)
    BY <1>4, <1>10, <1>13 DEF InOrderInv
  <2>2. ASSUME NEW x \in Nat, DOMAIN inputFiles' \subseteq Nat,
               \A j \in DOMAIN inputFiles' : inputFiles'[j].id = d =>
                   \E k \in DOMAIN inputFiles : /\ k = (IF j < x THEN j ELSE j + 1)
                                                /\ k # x /\ inputFiles'[j] = inputFiles[k],
               \A k \in DOMAIN inputFiles : inputFiles[k].id = d =>
                   \E j \in DOMAIN inputFiles' : inputFiles'[j] = inputFiles[k]
        PROVE  InOrder(d)'
    BY <1>1, <1>3, <1>10, <1>11, <1>13, <2>1, <2>2, OthersInOrder
  <2>3. CASE i = 0
    <3>1. l + 1 \in Nat /\ DOMAIN inputFiles' \subseteq Nat /\ inputFiles' = inputFiles
      BY <1>1, <1>2, <2>3
    <3>2. \A j \in DOMAIN inputFiles : j < l + 1 /\ j # l + 1
      BY <1>2
    <3> QED
      BY <2>2, <3>1, <3>2
  <2>4. CASE i # 0
    <3>1. i \in Nat /\ i \in 1 .. l /\ DOMAIN inputFiles' \subseteq Nat /\ DOMAIN inputFiles' = 1 .. l - 1
      BY <1>2, <1>5, <1>6, <1>7, <2>4
    <3>2. ASSUME NEW j \in DOMAIN inputFiles', inputFiles'[j].id = d
          PROVE  \E k \in DOMAIN inputFiles : /\ k = (IF j < i THEN j ELSE j + 1)
                                              /\ k # i /\ inputFiles'[j] = inputFiles[k]
      <4> DEFINE k == IF j < i THEN j ELSE j + 1
      <4>1. k \in 1 .. l /\ k # i /\ j \in 1 .. l - 1
        BY <1>2, <3>1
      <4>2. inputFiles'[j] = files[k]
        BY <1>7, <2>4, <4>1
      <4> HIDE DEF k
      <4>3. inputFiles[k].id = d
        BY <1>2, <1>5, <3>2, <4>1, <4>2
      <4>4. inputFiles'[j] = inputFiles[k]
        BY <1>2, <1>5, <1>13, <4>1, <4>2, <4>3
      <4> QED
        BY <1>2, <4>1, <4>4 DEF k
    <3>3. ASSUME NEW k \in DOMAIN inputFiles, inputFiles[k].id = d
          PROVE  \E j \in DOMAIN inputFiles' : inputFiles'[j] = inputFiles[k]
      <4>1. k # i /\ k \in 1 .. l /\ files[k] = inputFiles[k]
        BY <1>2, <1>5, <1>6, <1>13, <2>4, <3>3 DEF e
      <4>2. CASE k < i
        <5>1. k \in 1 .. l - 1
          BY <3>1, <4>1, <4>2
        <5> QED
          BY <1>7, <2>4, <3>1, <4>1, <4>2, <5>1
      <4>3. CASE ~(k < i)
        <5>1. k - 1 \in 1 .. l - 1 /\ ~(k - 1 < i) /\ k - 1 + 1 = k
          BY <3>1, <4>1, <4>3
        <5>2. inputFiles'[k - 1] = files[k - 1 + 1]
          BY <1>7, <2>4, <5>1
        <5> QED
          BY <3>1, <4>1, <5>1, <5>2
      <4> QED
        BY <4>2, <4>3
    <3> QED
      BY <2>2, <3>1, <3>2, <3>3
  <2> QED
    BY <2>3, <2>4
<1>14. ASSUME c \notin dirty
       PROVE  InOrder(c)'
  <2> DEFINE n == uploads[u].sent - Len(out[c])
             f == FirstEntry(inputFiles, c)
  <2>1. InOrder(c) /\ InTurn(c) /\ EntryIsOfUpload(c)
    BY <1>14 DEF InOrderInv, InOrder
  <2>2. /\ ~Handled(u) /\ n \in Nat /\ Got(u) = n /\ p.piece = KindOf(uploads[u].file, n)
        /\ n <= uploads[u].file.length /\ \A v \in Of(c) : v # u => Handled(v)
    BY <1>2, <1>3, <2>1, HeadIs
  <2>3. /\ InTurn(c)' /\ Got(u)' = n + 1 /\ (Handled(u)' <=> n = uploads[u].file.length)
        /\ \A v \in Of(c) : v # u => Handled(v)' /\ Got(v)' = Got(v)
    BY <1>2, <1>3, <2>1, Taken
  <2>4. n = uploads[u].sent - Len(out[c])
    OBVIOUS
  <2> HIDE DEF n
  <2>5. uploads[u].file.length \in Nat \ {0} /\ uploads[u].file.size \in Nat
    BY <1>2, <1>4, UploadTyped
  <2>6. n >= 1 /\ n = uploads[u].file.length
    <3>1. KindOf(uploads[u].file, n) = 3
      BY <1>3, <2>2
    <3>2. n # 0 /\ ~(n < uploads[u].file.length)
      BY <3>1 DEF KindOf
    <3> QED
      BY <2>2, <2>5, <3>2
  <2>7. Handled(u)'
    BY <2>3, <2>6
  <2>8. /\ \A j \in DOMAIN inputFiles : inputFiles[j].id = c => j = f
        /\ f = 0 <=> u \in refused
        /\ f # 0 => /\ f \in DOMAIN inputFiles
                    /\ files[f] = [inputFiles[f] EXCEPT !.data = [k \in 1 .. n |-> u]]
                    /\ inputFiles[f].id = c
                    /\ inputFiles[f].path[2] = uploads[u].file.name
                    /\ inputFiles[f].size = uploads[u].file.size
                    /\ inputFiles[f] \in FileEntry
    <3>1. HasBytes(c, u, n, f, WithData(inputFiles, p))
      <4>1. OutIsOwn /\ OfUploads /\ InOrder(c) /\ out[c] # <<>> /\ n >= 1
        BY <1>2, <1>3, <2>1, <2>6
      <4> QED
        BY <2>4, <4>1, DataOfUpload
    <3> QED
      BY <3>1 DEF HasBytes
  <2>9. f = i
    <3>1. f # 0 => i # 0
      BY <1>5, <1>6, <2>8
    <3>2. i # 0 => i = f
      BY <1>5, <1>6, <2>8 DEF e
    <3> QED
      BY <3>1, <3>2
  <2> HIDE DEF f
  <2>10. i = 0 => u \in refused
    BY <2>8, <2>9
  <2>11. i # 0 => /\ e.path[2] = uploads[u].file.name /\ e.size = uploads[u].file.size
                  /\ e.data = [k \in 1 .. n |-> u] /\ u \notin refused
    BY <2>8, <2>9 DEF FileEntry, e
  <2>12. \A j \in DOMAIN inputFiles' : inputFiles'[j].id # c
    <3>1. CASE i = 0
      BY <1>1, <1>5, <1>6, <3>1
    <3>2. CASE i # 0
      <4> SUFFICES ASSUME NEW j \in DOMAIN inputFiles', inputFiles'[j].id = c
                   PROVE  FALSE
        OBVIOUS
      <4> DEFINE k == IF j < i THEN j ELSE j + 1
      <4>1. i \in 1 .. l /\ j \in 1 .. l - 1
        BY <1>2, <1>5, <1>6, <1>7, <3>2
      <4>2. k \in 1 .. l /\ k # i
        BY <1>2, <4>1
      <4>3. inputFiles'[j] = files[k]
        BY <1>7, <3>2, <4>1
      <4> HIDE DEF k
      <4>4. inputFiles[k].id = c
        BY <1>2, <1>5, <4>2, <4>3
      <4> QED
        BY <1>2, <2>8, <2>9, <4>2, <4>4
    <3> QED
      BY <3>1, <3>2
  <2>13. EntryIsOfUpload(c)'
    <3>1. \A v \in Of(c)' : Handled(v)'
      BY <1>3, <2>3, <2>7
    <3>2. \A v \in Of(c)' : v \in refused' => Got(v)' >= 1
      <4>1. Got(u)' >= 1
        BY <2>2, <2>3
      <4> QED
        BY <1>1, <1>3, <2>1, <2>3, <4>1 DEF EntryIsOfUpload
    <3> QED
      BY <2>12, <3>1, <3>2 DEF EntryIsOfUpload
  <2>14. AnnouncedOnce(u)'
    <3>1. AnnouncedOnce(u)
      BY <1>4, <2>1 DEF InOrder
    <3>2. ToAnnounce(u)' <=> ToAnnounce(u)
      BY <1>1, <1>3 DEF ToAnnounce
    <3>3. \A k \in DOMAIN announced : announced[k].by # u
      BY <2>2, <3>1 DEF AnnouncedOnce
    <3>4. i # 0 => Len(e.data) = n
      <4>1. u \in UploadIds
        BY <1>2, <1>4, UploadTyped
      <4>2. Len([k \in 1 .. n |-> u]) = n
        BY <2>2, <4>1, OneMore
      <4> QED
        BY <2>11, <4>2
    <3>5. CASE announced' = announced
      <4>1. ~ToAnnounce(u)
        <5>1. CASE i = 0
          BY <2>10, <5>1 DEF ToAnnounce
        <5>2. CASE i # 0 /\ Len(e.data) # e.size
          BY <2>6, <2>11, <3>4, <5>2 DEF ToAnnounce
        <5>3. CASE i # 0 /\ Len(e.data) = e.size
          <6>1. e.path[2] \in Quoted
            <7>1. announced # Append(announced, m)
              <8>1. DOMAIN Append(announced, m) = 1 .. Len(announced) + 1
                BY <1>2, AppendIs
              <8>2. Len(announced) + 1 \in 1 .. Len(announced) + 1
                    /\ Len(announced) + 1 \notin 1 .. Len(announced)
                BY <1>2
              <8> QED
                BY <1>2, <8>1, <8>2
            <7> QED
              BY <1>1, <3>5, <5>3, <7>1
          <6> QED
            BY <2>11, <5>3, <6>1 DEF ToAnnounce
        <5> QED
          BY <5>1, <5>2, <5>3
      <4> QED
        BY <1>10, <2>2, <3>1, <3>2, <3>5, <4>1, NotAnnounced
    <3>6. CASE /\ i # 0 /\ Len(e.data) = e.size /\ e.path[2] \notin Quoted
               /\ DOMAIN announced' = 1 .. Len(announced) + 1
               /\ announced'[Len(announced) + 1] = m
               /\ \A k \in DOMAIN announced : announced'[k] = announced[k]
      <4> DEFINE a == Len(announced) + 1
      <4>1. a \in DOMAIN announced' /\ \A k \in DOMAIN announced' : announced'[k].by = u => k = a
        BY <1>2, <3>3, <3>6
      <4>2. announced'[a].by = u /\ announced'[a].path = e.path
        BY <1>9, <3>6
      <4> HIDE DEF a
      <4>3. ToAnnounce(u)'
        BY <2>6, <2>11, <3>2, <3>4, <3>6 DEF ToAnnounce
      <4>4. e.path \notin reused' => disk'[e.path] = Whole(u)'
        <5>1. disk'[e.path] = Closed(disk[e.path], e.data)
          <6>1. disk' = [disk EXCEPT ![e.path] = Closed(disk[e.path], e.data)]
            BY <1>1, <3>6
          <6> QED
            BY <1>2, <1>6, <3>6, <6>1
        <5>2. e.path \notin reused' => disk[e.path] = <<>>
          BY <1>1, <1>2, <1>5, <1>6, <3>6 DEF OneFileEach
        <5>3. disk[e.path] = <<>> => Closed(disk[e.path], e.data) = e.data
          BY <1>2, <1>6, <3>6, ClosedFacts
        <5>4. Whole(u)' = [k \in 1 .. uploads[u].file.size |-> u]
          BY <1>3 DEF Whole
        <5>5. uploads[u].file.size = n
          BY <2>11, <3>4, <3>6
        <5>6. [k \in 1 .. uploads[u].file.size |-> u] = [k \in 1 .. n |-> u]
          BY <5>5
        <5> QED
          BY <2>11, <3>6, <5>1, <5>2, <5>3, <5>4, <5>6
      <4>5. \A k \in DOMAIN announced' :
                announced'[k].by = u =>
                    /\ Handled(u)' /\ ToAnnounce(u)'
                    /\ announced'[k].path[2] = uploads'[u].file.name
                    /\ announced'[k].path \notin reused' => disk'[announced'[k].path] = Whole(u)'
        BY <1>3, <2>7, <2>11, <3>6, <4>1, <4>2, <4>3, <4>4
      <4> QED
        BY <4>1, <4>2, <4>5 DEF AnnouncedOnce
    <3> QED
      BY <1>8, <3>5, <3>6
  <2>15. ASSUME NEW v \in Of(c), v # u
         PROVE  AnnouncedOnce(v)'
    <3>1. AnnouncedOnce(v)
      BY <2>1 DEF InOrder
    <3>2. (Handled(v)' <=> Handled(v)) /\ (v \in refused' <=> v \in refused)
      BY <1>1, <2>2, <2>3, <2>15
    <3>3. \A k \in DOMAIN announced' : k \in DOMAIN announced \/ announced'[k].by # v
      BY <1>10, <2>15
    <3> QED
      BY <1>3, <1>10, <1>11, <3>1, <3>2, <3>3, AnnouncedKept
  <2> QED
    BY <1>3, <2>3, <2>13, <2>14, <2>15 DEF InOrder
<1> QED
  BY <1>3, <1>12, <1>13, <1>14 DEF InOrderInv

LEMMA StartUploadInOrder ==
    ASSUME UploadInv, InOrderInv, NEW c \in Clients, NEW file \in Files, StartUpload(c, file),
           NEW u, u = Len(uploads) + 1
    PROVE  InOrderInv'
<1> DEFINE r == [client |-> c, file |-> file, sent |-> 0, cut |-> FALSE]
<1>1. /\ uploads' = Append(uploads, r)
      /\ dirty' = (IF Busy(c) THEN dirty \cup {c} ELSE dirty)
      /\ out' = out /\ UNCHANGED server
  BY DEF StartUpload
<1>2. /\ TypeOK /\ OutIsOwn /\ OfUploads /\ uploads \in Seq(UploadOf)
      /\ DOMAIN uploads = 1 .. Len(uploads) /\ Len(uploads) \in Nat
      /\ inputFiles' = inputFiles /\ announced' = announced /\ disk' = disk
      /\ reused' = reused /\ refused' = refused
  BY <1>1 DEF UploadInv, InOrderInv, TypeOK, server
<1>3. r.client = c /\ r.file = file /\ r.sent = 0 /\ r.cut = FALSE
  OBVIOUS
<1> HIDE DEF r
<1>4. /\ DOMAIN uploads' = 1 .. u /\ uploads'[u] = r /\ u \notin DOMAIN uploads
      /\ \A v \in DOMAIN uploads : uploads'[v] = uploads[v]
      /\ DOMAIN uploads' = DOMAIN uploads \cup {u}
  <2>1. /\ DOMAIN uploads' = 1 .. u /\ uploads'[u] = r
        /\ \A v \in DOMAIN uploads : uploads'[v] = uploads[v]
    BY <1>1, <1>2, AppendIs
  <2>2. u \notin 1 .. Len(uploads) /\ 1 .. u = 1 .. Len(uploads) \cup {u}
    BY <1>2
  <2> QED
    BY <1>2, <2>1, <2>2
<1>5. file.length \in Nat \ {0}
  BY UploadConstants
<1>6. Of(c)' = Of(c) \cup {u} /\ \A d \in Clients \ {c} : Of(d)' = Of(d)
  BY <1>3, <1>4 DEF Of
<1>7. \A d : \A v \in Of(d) : v \in DOMAIN uploads /\ uploads'[v] = uploads[v]
  BY <1>4 DEF Of
<1>8. OutIsOwn'
  BY <1>1, <1>2, <1>6 DEF OutIsOwn
<1>9. OfUploads'
  <2>1. \A v \in DOMAIN uploads' : uploads'[v].sent <= uploads'[v].file.length + 1
    BY <1>2, <1>3, <1>4, <1>5 DEF OfUploads
  <2>2. \A k \in DOMAIN announced' : announced'[k].by \in DOMAIN uploads'
    BY <1>2, <1>4 DEF OfUploads
  <2>3. refused' \subseteq DOMAIN uploads'
    BY <1>2, <1>4 DEF OfUploads
  <2> QED
    BY <2>1, <2>2, <2>3 DEF OfUploads
<1>10. ASSUME NEW d \in Clients \ dirty', d # c
       PROVE  InOrder(d)'
  <2>1. d \in Clients \ dirty
    BY <1>1
  <2>2. InOrder(d)
    BY <2>1 DEF InOrderInv
  <2> QED
    BY <1>1, <1>2, <1>6, <1>7, <1>10, <2>2, KeptInOrder
<1>11. ASSUME c \notin dirty'
       PROVE  InOrder(c)'
  <2>1. ~Busy(c) /\ c \notin dirty
    BY <1>1, <1>11
  <2>2. /\ RunningOf(c) = {} /\ out[c] = <<>>
        /\ \A i \in DOMAIN inputFiles : inputFiles[i].id # c
    BY <2>1 DEF Busy
  <2>3. InOrder(c) /\ InTurn(c) /\ EntryIsOfUpload(c)
    BY <2>1 DEF InOrderInv, InOrder
  <2>4. DOMAIN out[c] = {} /\ Len(out[c]) = 0
    BY <2>2
  <2>5. ASSUME NEW v \in Of(c)
        PROVE  Handled(v) /\ Handled(v)' /\ Got(v)' = Got(v)
    <3>1. v \in DOMAIN uploads /\ uploads[v].client = c /\ ~uploads[v].cut
      BY <2>3 DEF Of, InTurn
    <3>2. ~(uploads[v].sent <= uploads[v].file.length)
      BY <2>2, <3>1 DEF RunningOf, Running
    <3>3. uploads[v].sent = uploads[v].file.length + 1
      BY <1>2, <3>1, <3>2, UploadTyped DEF OfUploads
    <3>4. Handled(v)
      BY <2>4, <3>1, <3>3 DEF Handled
    <3>5. uploads'[v] = uploads[v]
      BY <1>4, <3>1
    <3>6. Handled(v)'
      BY <1>1, <2>4, <3>1, <3>3, <3>5 DEF Handled
    <3>7. Got(v) = uploads[v].file.length + 1 /\ Got(v)' = uploads[v].file.length + 1
      BY <3>4, <3>5, <3>6 DEF Got
    <3> QED
      BY <3>4, <3>6, <3>7
  <2>6. ~Handled(u)' /\ Got(u)' = 0
    <3>1. ~Handled(u)'
      BY <1>3, <1>4, <1>5 DEF Handled
    <3> QED
      BY <1>1, <1>3, <1>4, <2>4, <3>1 DEF Got
  <2>7. InTurn(c)'
    <3>1. \A v \in Of(c)' : ~uploads'[v].cut
      BY <1>3, <1>4, <1>6, <1>7, <2>3 DEF InTurn
    <3>2. \A v, w \in Of(c)' : ~Handled(v)' /\ ~Handled(w)' => v = w
      BY <1>6, <2>5
    <3>3. DOMAIN out'[c] = {}
      BY <1>1, <2>4
    <3> QED
      BY <3>1, <3>2, <3>3 DEF InTurn
  <2>8. EntryIsOfUpload(c)'
    <3>1. \A j \in DOMAIN inputFiles' : inputFiles'[j].id # c
      BY <1>2, <2>2
    <3>2. \A v \in Of(c)' : Got(v)' >= 1 => Handled(v)'
      BY <1>6, <2>5, <2>6
    <3>3. u \notin refused'
      BY <1>2, <1>4 DEF OfUploads
    <3>4. \A v \in Of(c)' : v \in refused' => Got(v)' >= 1
      BY <1>2, <1>6, <2>3, <2>5, <3>3 DEF EntryIsOfUpload
    <3> QED
      BY <3>1, <3>2, <3>4 DEF EntryIsOfUpload
  <2>9. ASSUME NEW v \in Of(c)'
        PROVE  AnnouncedOnce(v)'
    <3>1. CASE v = u
      <4>1. \A k \in DOMAIN announced' : announced'[k].by # u
        BY <1>2, <1>4 DEF OfUploads
      <4> QED
        BY <2>6, <3>1, <4>1 DEF AnnouncedOnce
    <3>2. CASE v \in Of(c)
      <4>1. AnnouncedOnce(v)
        BY <2>3, <3>2 DEF InOrder
      <4>2. uploads'[v] = uploads[v] /\ Handled(v) /\ Handled(v)'
        BY <1>7, <2>5, <3>2
      <4>3. (ToAnnounce(v)' <=> ToAnnounce(v)) /\ Whole(v)' = Whole(v)
        BY <1>2, <4>2 DEF ToAnnounce, Whole
      <4>4. \A k \in DOMAIN announced' :
                announced'[k].by = v =>
                    /\ Handled(v)' /\ ToAnnounce(v)'
                    /\ announced'[k].path[2] = uploads'[v].file.name
                    /\ announced'[k].path \notin reused' => disk'[announced'[k].path] = Whole(v)'
        BY <1>2, <4>1, <4>2, <4>3 DEF AnnouncedOnce
      <4>5. \A k, m \in DOMAIN announced' : announced'[k].by = v /\ announced'[m].by = v => k = m
        BY <1>2, <4>1 DEF AnnouncedOnce
      <4>6. Handled(v)' /\ ToAnnounce(v)' => \E k \in DOMAIN announced' : announced'[k].by = v
        BY <1>2, <4>1, <4>2, <4>3 DEF AnnouncedOnce
      <4> QED
        BY <4>4, <4>5, <4>6 DEF AnnouncedOnce
    <3> QED
      BY <1>6, <3>1, <3>2
  <2> QED
    BY <2>7, <2>8, <2>9 DEF InOrder
<1> QED
  BY <1>8, <1>9, <1>10, <1>11 DEF InOrderInv

LEMMA SendPieceInOrder ==
    ASSUME UploadInv, InOrderInv, NEW u \in DOMAIN uploads, SendPiece(u),
           NEW c, c = uploads[u].client, NEW i, i = uploads[u].sent,
           NEW p, p = [piece |-> KindOf(uploads[u].file, i), id |-> c, upload |-> u]
    PROVE  InOrderInv'
<1>1. /\ Running(u)
      /\ uploads' = [uploads EXCEPT ![u].sent = i + 1]
      /\ out' = IF c \in connected THEN [out EXCEPT ![c] = Append(@, p)] ELSE out
      /\ dirty' = IF c \in connected THEN dirty ELSE dirty \cup {c}
      /\ UNCHANGED server
  BY DEF SendPiece
<1>2. /\ TypeOK /\ OutIsOwn /\ OfUploads /\ uploads \in Seq(UploadOf)
      /\ out \in [Clients -> Seq(Piece)] /\ DOMAIN uploads = 1 .. Len(uploads)
      /\ inputFiles' = inputFiles /\ announced' = announced /\ disk' = disk
      /\ reused' = reused /\ refused' = refused
  BY <1>1 DEF UploadInv, InOrderInv, TypeOK, server
<1>3. /\ c \in Clients /\ i \in Nat /\ uploads[u] \in UploadOf
      /\ uploads[u].file.length \in Nat \ {0} /\ i <= uploads[u].file.length /\ ~uploads[u].cut
  BY <1>1, <1>2, UploadTyped DEF Running
<1>4. /\ DOMAIN uploads' = DOMAIN uploads
      /\ \A v \in DOMAIN uploads : v # u => uploads'[v] = uploads[v]
      /\ uploads'[u].client = c /\ uploads'[u].file = uploads[u].file /\ uploads'[u].sent = i + 1
      /\ ~uploads'[u].cut
  <2>1. uploads' = [uploads EXCEPT ![u] = [uploads[u] EXCEPT !.sent = i + 1]]
    BY <1>1
  <2>2. uploads'[u] = [uploads[u] EXCEPT !.sent = i + 1]
    BY <1>2, <2>1
  <2> QED
    BY <1>2, <1>3, <2>1, <2>2 DEF UploadOf
<1>5. \A d : Of(d)' = Of(d)
  BY <1>4 DEF Of
<1>6. u \in Of(c) /\ \A d : d # c => u \notin Of(d)
  BY DEF Of
<1>7. p.piece = KindOf(uploads[u].file, i) /\ p.id = c /\ p.upload = u
  OBVIOUS
<1>8. ASSUME c \in connected
      PROVE  /\ DOMAIN out'[c] = 1 .. Len(out[c]) + 1 /\ out'[c][Len(out[c]) + 1] = p
             /\ \A j \in DOMAIN out[c] : out'[c][j] = out[c][j]
             /\ Len(out'[c]) = Len(out[c]) + 1 /\ Len(out[c]) \in Nat
             /\ DOMAIN out[c] = 1 .. Len(out[c])
             /\ \A d \in Clients : d # c => out'[d] = out[d]
  <2>1. p \in Piece
    <3>1. KindOf(uploads[u].file, i) \in 1 .. 3
      BY DEF KindOf
    <3>2. u \in UploadIds
      BY <1>2, UploadTyped
    <3> QED
      BY <1>3, <3>1, <3>2 DEF Piece
  <2>2. out' = [out EXCEPT ![c] = Append(out[c], p)]
    BY <1>1, <1>8
  <2>3. out'[c] = Append(out[c], p) /\ \A d \in Clients : d # c => out'[d] = out[d]
    BY <1>2, <1>3, <2>2
  <2> QED
    BY <1>2, <1>3, <2>1, <2>3
<1>9. OutIsOwn'
  <2>1. CASE c \in connected
    <3> SUFFICES ASSUME NEW d \in Clients, NEW j \in DOMAIN out'[d]
                 PROVE  out'[d][j].id = d /\ out'[d][j].upload \in Of(d)
      BY <1>5 DEF OutIsOwn
    <3>1. CASE d = c
      <4>1. j \in DOMAIN out[c] \/ j = Len(out[c]) + 1
        BY <1>8, <2>1, <3>1
      <4> QED
        BY <1>2, <1>6, <1>7, <1>8, <2>1, <3>1, <4>1 DEF OutIsOwn
    <3>2. CASE d # c
      BY <1>2, <1>8, <2>1, <3>2 DEF OutIsOwn
    <3> QED
      BY <3>1, <3>2
  <2>2. CASE c \notin connected
    BY <1>1, <1>2, <1>5, <2>2 DEF OutIsOwn
  <2> QED
    BY <2>1, <2>2
<1>10. OfUploads'
  <2>1. \A v \in DOMAIN uploads' : uploads'[v].sent <= uploads'[v].file.length + 1
    <3>1. uploads'[u].sent <= uploads'[u].file.length + 1
      BY <1>3, <1>4
    <3>2. \A v \in DOMAIN uploads : v # u => uploads'[v].sent <= uploads'[v].file.length + 1
      BY <1>2, <1>4 DEF OfUploads
    <3> QED
      BY <1>4, <3>1, <3>2
  <2> QED
    BY <1>2, <1>4, <2>1 DEF OfUploads
<1>11. ASSUME NEW d \in Clients \ dirty', d # c
       PROVE  InOrder(d)'
  <2>1. d \in Clients \ dirty
    BY <1>1
  <2>2. InOrder(d)
    BY <2>1 DEF InOrderInv
  <2>3. out'[d] = out[d]
    BY <1>1, <1>8, <1>11
  <2>4. \A v \in Of(d) : uploads'[v] = uploads[v]
    <3>1. \A v \in Of(d) : v \in DOMAIN uploads
      BY DEF Of
    <3> QED
      BY <1>4, <1>6, <1>11, <3>1
  <2> QED
    BY <1>1, <1>2, <1>5, <1>11, <2>2, <2>3, <2>4, KeptInOrder
<1>12. ASSUME c \notin dirty'
       PROVE  InOrder(c)'
  <2>1. c \notin dirty /\ c \in connected
    BY <1>1, <1>12
  <2>2. InOrder(c) /\ InTurn(c) /\ EntryIsOfUpload(c)
    BY <1>3, <2>1 DEF InOrderInv, InOrder
  <2>3. /\ DOMAIN out'[c] = 1 .. Len(out[c]) + 1 /\ out'[c][Len(out[c]) + 1] = p
        /\ \A j \in DOMAIN out[c] : out'[c][j] = out[c][j]
        /\ Len(out'[c]) = Len(out[c]) + 1 /\ Len(out[c]) \in Nat
        /\ DOMAIN out[c] = 1 .. Len(out[c])
    BY <1>8, <2>1
  <2>4. ~Handled(u) /\ ~Handled(u)'
    <3>1. uploads[u].sent # uploads[u].file.length + 1
      BY <1>3
    <3>2. Len(out[c]) + 1 \in DOMAIN out'[c]
      BY <2>3
    <3>3. ~Handled(u)'
      BY <1>4, <1>7, <2>3, <3>2 DEF Handled
    <3> QED
      BY <3>1, <3>3 DEF Handled
  <2>5. \A v \in Of(c) : v # u => Handled(v)
    BY <1>6, <2>2, <2>4 DEF InTurn
  <2>6. \A v \in Of(c) : uploads[v].client = c /\ v \in DOMAIN uploads
    BY DEF Of
  <2>7. \A j \in DOMAIN out[c] : out[c][j].upload = u
    <3> SUFFICES ASSUME NEW j \in DOMAIN out[c]
                 PROVE  out[c][j].upload = u
      OBVIOUS
    <3>1. out[c][j].upload \in Of(c)
      BY <1>2, <1>3 DEF OutIsOwn
    <3>2. ~Handled(out[c][j].upload)
      BY <2>6, <3>1 DEF Handled
    <3> QED
      BY <2>5, <3>1, <3>2
  <2>8. ASSUME NEW v \in Of(c), v # u
        PROVE  Handled(v)'
    <3>1. uploads'[v] = uploads[v] /\ uploads[v].sent = uploads[v].file.length + 1
      BY <1>4, <2>5, <2>6, <2>8 DEF Handled
    <3>2. \A j \in DOMAIN out'[c] : out'[c][j].upload = u
      <4>1. \A j \in DOMAIN out'[c] : j \in DOMAIN out[c] \/ j = Len(out[c]) + 1
        BY <2>3
      <4> QED
        BY <1>7, <2>3, <2>7, <4>1
    <3> QED
      BY <2>6, <2>8, <3>1, <3>2 DEF Handled
  <2>9. \A v \in Of(c) : (Handled(v)' <=> Handled(v)) /\ Got(v)' = Got(v)
    <3>1. Got(u)' = Got(u)
      <4>1. Got(u) = i - Len(out[c]) /\ Got(u)' = (i + 1) - (Len(out[c]) + 1)
        BY <1>4, <2>3, <2>4 DEF Got
      <4>2. \A l, m \in Nat : l - m = (l + 1) - (m + 1)
        OBVIOUS
      <4> QED
        BY <1>3, <2>3, <4>1, <4>2
    <3>2. ASSUME NEW v \in Of(c), v # u
          PROVE  Got(v)' = Got(v)
      <4>1. uploads'[v] = uploads[v] /\ Handled(v) /\ Handled(v)'
        BY <1>4, <2>5, <2>6, <2>8, <3>2
      <4> QED
        BY <4>1 DEF Got
    <3> QED
      BY <2>4, <2>5, <2>8, <3>1, <3>2
  <2>10. InTurn(c)'
    <3>1. \A v \in Of(c)' : ~uploads'[v].cut
      BY <1>4, <1>5, <2>2, <2>6 DEF InTurn
    <3>2. \A v, w \in Of(c)' : ~Handled(v)' /\ ~Handled(w)' => v = w
      BY <1>5, <2>8
    <3>3. ASSUME NEW j \in DOMAIN out'[c]
          PROVE  LET v == out'[c][j].upload
                     m == uploads'[v].sent - Len(out'[c])
                 IN  m >= 0 /\ out'[c][j].piece = KindOf(uploads'[v].file, m + j - 1)
      <4> DEFINE n == i - Len(out[c])
      <4>1. uploads'[u].sent - Len(out'[c]) = n
        <5>1. uploads'[u].sent = i + 1 /\ Len(out'[c]) = Len(out[c]) + 1
          BY <1>4, <2>3
        <5>2. i \in Nat /\ Len(out[c]) \in Nat
          BY <1>3, <2>3
        <5>3. \A l, k \in Nat : (l + 1) - (k + 1) = l - k
          OBVIOUS
        <5> QED
          BY <5>1, <5>2, <5>3
      <4>2. CASE j \in DOMAIN out[c]
        <5>1. out[c][j].upload = u /\ out'[c][j] = out[c][j]
          BY <2>3, <2>7, <4>2
        <5>2. n >= 0 /\ out[c][j].piece = KindOf(uploads[u].file, n + j - 1)
          BY <2>2, <4>2, <5>1 DEF InTurn
        <5> HIDE DEF n
        <5> QED
          BY <1>4, <4>1, <5>1, <5>2
      <4>3. CASE j = Len(out[c]) + 1
        <5>1. out'[c][j] = p /\ out'[c][j].upload = u
          BY <1>7, <2>3, <4>3
        <5>2. n + j - 1 = i
          BY <1>3, <2>3, <4>3
        <5>3. n >= 0
          <6>1. CASE Len(out[c]) = 0
            BY <1>3, <6>1
          <6>2. CASE Len(out[c]) # 0
            <7>1. 1 \in DOMAIN out[c]
              BY <2>3, <6>2
            <7> QED
              BY <2>2, <2>7, <7>1 DEF InTurn
          <6> QED
            BY <6>1, <6>2
        <5> HIDE DEF n
        <5> QED
          BY <1>4, <1>7, <4>1, <5>1, <5>2, <5>3
      <4> QED
        BY <2>3, <4>2, <4>3
    <3> QED
      BY <3>1, <3>2, <3>3 DEF InTurn
  <2>11. \A v \in Of(c) : uploads'[v].file = uploads[v].file
    BY <1>4, <2>6
  <2>12. EntryIsOfUpload(c)'
    <3>1. ASSUME NEW j \in DOMAIN inputFiles', inputFiles'[j].id = c
          PROVE  \E v \in Of(c)' :
                     /\ ~Handled(v)' /\ v \notin refused' /\ Got(v)' >= 1
                     /\ inputFiles'[j].path[2] = uploads'[v].file.name
                     /\ inputFiles'[j].size = uploads'[v].file.size
                     /\ inputFiles'[j].data = [k \in 1 .. Got(v)' - 1 |-> v]
      <4>1. PICK v \in Of(c) :
                    /\ ~Handled(v) /\ v \notin refused /\ Got(v) >= 1
                    /\ inputFiles[j].path[2] = uploads[v].file.name
                    /\ inputFiles[j].size = uploads[v].file.size
                    /\ inputFiles[j].data = [k \in 1 .. Got(v) - 1 |-> v]
        BY <1>2, <2>2, <3>1 DEF EntryIsOfUpload
      <4>2. Got(v)' = Got(v) /\ ~Handled(v)' /\ uploads'[v].file = uploads[v].file
        BY <2>9, <2>11, <4>1
      <4>3. [k \in 1 .. Got(v)' - 1 |-> v] = [k \in 1 .. Got(v) - 1 |-> v]
        BY <4>2
      <4> QED
        BY <1>2, <1>5, <4>1, <4>2, <4>3
    <3>2. /\ \A j, k \in DOMAIN inputFiles' : inputFiles'[j].id = c /\ inputFiles'[k].id = c => j = k
          /\ \A v \in Of(c)' :
                Got(v)' >= 1 => Handled(v)' \/ v \in refused'
                               \/ \E j \in DOMAIN inputFiles' : inputFiles'[j].id = c
          /\ \A v \in Of(c)' : v \in refused' => Got(v)' >= 1
      BY <1>2, <1>5, <2>2, <2>9 DEF EntryIsOfUpload
    <3> QED
      BY <3>1, <3>2 DEF EntryIsOfUpload
  <2>13. ASSUME NEW v \in Of(c)
         PROVE  AnnouncedOnce(v)'
    <3>1. AnnouncedOnce(v) /\ (Handled(v)' <=> Handled(v)) /\ uploads'[v].file = uploads[v].file
      BY <2>2, <2>9, <2>11 DEF InOrder
    <3>2. (ToAnnounce(v)' <=> ToAnnounce(v)) /\ Whole(v)' = Whole(v)
      BY <1>2, <3>1 DEF ToAnnounce, Whole
    <3>3. \A k \in DOMAIN announced' :
              announced'[k].by = v =>
                  /\ Handled(v)' /\ ToAnnounce(v)'
                  /\ announced'[k].path[2] = uploads'[v].file.name
                  /\ announced'[k].path \notin reused' => disk'[announced'[k].path] = Whole(v)'
      BY <1>2, <3>1, <3>2 DEF AnnouncedOnce
    <3>4. \A k, l \in DOMAIN announced' : announced'[k].by = v /\ announced'[l].by = v => k = l
      BY <1>2, <3>1 DEF AnnouncedOnce
    <3>5. Handled(v)' /\ ToAnnounce(v)' => \E k \in DOMAIN announced' : announced'[k].by = v
      BY <1>2, <3>1, <3>2 DEF AnnouncedOnce
    <3> QED
      BY <3>3, <3>4, <3>5 DEF AnnouncedOnce
  <2> QED
    BY <1>5, <2>10, <2>12, <2>13 DEF InOrder
<1> QED
  BY <1>3, <1>9, <1>10, <1>11, <1>12 DEF InOrderInv

LEMMA ReadFailsInOrder ==
    ASSUME UploadInv, InOrderInv, NEW u \in DOMAIN uploads, ReadFails(u),
           NEW c, c = uploads[u].client
    PROVE  InOrderInv'
<1>1. /\ uploads' = [uploads EXCEPT ![u].cut = TRUE]
      /\ dirty' = dirty \cup {c} /\ out' = out /\ UNCHANGED server
  BY DEF ReadFails
<1>2. /\ TypeOK /\ OutIsOwn /\ OfUploads /\ uploads \in Seq(UploadOf)
      /\ announced' = announced /\ refused' = refused
  BY <1>1 DEF UploadInv, InOrderInv, TypeOK, server
<1>3. /\ DOMAIN uploads' = DOMAIN uploads
      /\ \A v \in DOMAIN uploads : v # u => uploads'[v] = uploads[v]
      /\ \A v \in DOMAIN uploads : /\ uploads'[v].client = uploads[v].client
                                   /\ uploads'[v].file = uploads[v].file
                                   /\ uploads'[v].sent = uploads[v].sent
  <2>1. uploads' = [uploads EXCEPT ![u] = [uploads[u] EXCEPT !.cut = TRUE]]
    BY <1>1
  <2>2. uploads'[u] = [uploads[u] EXCEPT !.cut = TRUE] /\ uploads[u] \in UploadOf
    BY <1>2, <2>1
  <2> QED
    BY <1>2, <2>1, <2>2 DEF UploadOf
<1>4. \A d : Of(d)' = Of(d)
  BY <1>3 DEF Of
<1>5. OutIsOwn' /\ OfUploads'
  BY <1>1, <1>2, <1>3, <1>4 DEF OutIsOwn, OfUploads
<1>6. ASSUME NEW d \in Clients \ dirty'
      PROVE  InOrder(d)'
  <2>1. d \in Clients \ dirty /\ d # c
    BY <1>1
  <2>2. InOrder(d)
    BY <2>1 DEF InOrderInv
  <2>3. \A v \in Of(d) : uploads'[v] = uploads[v]
    BY <1>3, <2>1 DEF Of
  <2> QED
    BY <1>1, <1>2, <1>4, <2>1, <2>2, <2>3, KeptInOrder
<1> QED
  BY <1>5, <1>6 DEF InOrderInv

LEMMA ConnectionInOrder ==
    ASSUME UploadInv, InOrderInv, NEW c \in Clients, Break(c)
    PROVE  InOrderInv'
<1>1. /\ uploads' = uploads /\ out' = [out EXCEPT ![c] = <<>>]
      /\ dirty' = IF Busy(c) THEN dirty \cup {c} ELSE dirty
      /\ UNCHANGED server
  BY DEF Break
<1>2. /\ TypeOK /\ OutIsOwn /\ OfUploads /\ out \in [Clients -> Seq(Piece)]
      /\ announced' = announced /\ refused' = refused
  BY <1>1 DEF UploadInv, InOrderInv, TypeOK, server
<1>3. /\ out'[c] = <<>> /\ \A d \in Clients : d # c => out'[d] = out[d]
      /\ \A d : Of(d)' = Of(d)
  BY <1>1, <1>2 DEF Of
<1>4. OutIsOwn'
  <2> SUFFICES ASSUME NEW d \in Clients, NEW j \in DOMAIN out'[d]
               PROVE  out'[d][j].id = d /\ out'[d][j].upload \in Of(d)
    BY <1>3 DEF OutIsOwn
  <2>1. d # c
    BY <1>3
  <2> QED
    BY <1>2, <1>3, <2>1 DEF OutIsOwn
<1>5. OfUploads'
  BY <1>1, <1>2 DEF OfUploads
<1>6. ASSUME NEW d \in Clients \ dirty'
      PROVE  InOrder(d)'
  <2>1. d \in Clients \ dirty
    BY <1>1
  <2>2. InOrder(d)
    BY <2>1 DEF InOrderInv
  <2>3. out'[d] = out[d]
    <3>1. CASE d = c
      <4>1. ~Busy(c)
        BY <1>1, <3>1
      <4> QED
        BY <1>3, <3>1, <4>1 DEF Busy
    <3> QED
      BY <1>3, <2>1, <3>1
  <2> QED
    BY <1>1, <1>2, <1>3, <2>1, <2>2, <2>3, KeptInOrder
<1> QED
  BY <1>4, <1>5, <1>6 DEF InOrderInv

LEMMA OthersKept ==
    ASSUME UploadInv, InOrderInv, uploads' = uploads, out' = out, dirty' = dirty, UNCHANGED server
    PROVE  InOrderInv'
<1>1. TypeOK /\ OutIsOwn /\ OfUploads
  BY DEF UploadInv, InOrderInv
<1>2. \A d : Of(d)' = Of(d)
  BY DEF Of
<1>3. OutIsOwn' /\ OfUploads'
  BY <1>1, <1>2 DEF OutIsOwn, OfUploads, server
<1>4. ASSUME NEW d \in Clients \ dirty'
      PROVE  InOrder(d)'
  <2>1. InOrder(d)
    BY DEF InOrderInv
  <2> QED
    BY <1>1, <1>2, <2>1, KeptInOrder
<1> QED
  BY <1>3, <1>4 DEF InOrderInv

LEMMA InOrderInit == Init => InOrderInv
<1> SUFFICES ASSUME Init
             PROVE  InOrderInv
  OBVIOUS
<1>1. /\ DOMAIN uploads = {} /\ DOMAIN inputFiles = {} /\ DOMAIN announced = {} /\ refused = {}
      /\ \A c \in Clients : DOMAIN out[c] = {}
  BY DEF Init
<1>2. \A c : Of(c) = {}
  BY <1>1 DEF Of
<1>3. \A c \in Clients : InTurn(c) /\ EntryIsOfUpload(c)
  BY <1>1, <1>2 DEF InTurn, EntryIsOfUpload
<1>4. OutIsOwn /\ OfUploads
  BY <1>1 DEF OutIsOwn, OfUploads
<1> QED
  BY <1>2, <1>3, <1>4 DEF InOrderInv, InOrder

LEMMA InOrderNext == UploadInv /\ InOrderInv /\ [Next]_vars => InOrderInv'
<1> SUFFICES ASSUME UploadInv, InOrderInv, [Next]_vars
             PROVE  InOrderInv'
  OBVIOUS
<1>1. CASE UNCHANGED vars
  BY <1>1, OthersKept DEF vars
<1>2. ASSUME NEW c \in Clients, NEW file \in Files, StartUpload(c, file)
      PROVE  InOrderInv'
  BY <1>2, StartUploadInOrder
<1>3. ASSUME NEW c \in Clients, Break(c)
      PROVE  InOrderInv'
  BY <1>3, ConnectionInOrder
<1>4. ASSUME NEW c \in Clients, Reconnect(c)
      PROVE  InOrderInv'
  BY <1>4, OthersKept DEF Reconnect
<1>5. ASSUME NEW c \in Clients, AddNewFile(c)
      PROVE  InOrderInv'
  BY <1>5, AddNewFileInOrder
<1>6. ASSUME NEW c \in Clients, AddData(c)
      PROVE  InOrderInv'
  BY <1>6, AddDataInOrder
<1>7. ASSUME NEW c \in Clients, FinalFileInput(c)
      PROVE  InOrderInv'
  BY <1>7, FinalFileInputInOrder
<1>8. ASSUME NEW u \in DOMAIN uploads, SendPiece(u)
      PROVE  InOrderInv'
  BY <1>8, SendPieceInOrder
<1>9. ASSUME NEW u \in DOMAIN uploads, ReadFails(u)
      PROVE  InOrderInv'
  BY <1>9, ReadFailsInOrder
<1>10. CASE Tick
  BY <1>10, OthersKept DEF Tick
<1>11. CASE Next
  BY <1>2, <1>3, <1>4, <1>5, <1>6, <1>7, <1>8, <1>9, <1>10, <1>11 DEF Next
<1> QED
  BY <1>1, <1>11

LEMMA InOrderInvariant == Spec => [](UploadInv /\ InOrderInv)
<1>1. Init => UploadInv /\ InOrderInv
  BY UploadInit, InOrderInit
<1>2. UploadInv /\ InOrderInv /\ [Next]_vars => (UploadInv /\ InOrderInv)'
  BY UploadNext, InOrderNext
<1> QED
  BY <1>1, <1>2, PTL DEF Spec

LEMMA InOrderOf ==
    ASSUME TypeOK, InOrderInv, NEW u \in DOMAIN uploads, uploads[u].client \notin dirty
    PROVE  u \in Of(uploads[u].client) /\ InOrder(uploads[u].client) /\ AnnouncedOnce(u)
<1>1. uploads[u].client \in Clients \ dirty
  BY UploadTyped
<1>2. u \in Of(uploads[u].client)
  BY DEF Of
<1> QED
  BY <1>1, <1>2 DEF InOrderInv, InOrder

\* The file a message announces is the one its sender sent, whole and under its name,
\* whatever the other users send meanwhile and however that is cut.
THEOREM AnnouncedFilesAreWhole == Spec => []AnnouncedIsWhole
<1>1. ASSUME TypeOK, InOrderInv, NEW k \in DOMAIN announced,
             uploads[announced[k].by].client \notin dirty, announced[k].path \notin reused
      PROVE  /\ announced[k].path[2] = uploads[announced[k].by].file.name
             /\ disk[announced[k].path] = Whole(announced[k].by)
  <2>1. announced[k].by \in DOMAIN uploads
    BY <1>1 DEF InOrderInv, OfUploads
  <2>2. AnnouncedOnce(announced[k].by)
    BY <1>1, <2>1, InOrderOf
  <2> QED
    BY <1>1, <2>2 DEF AnnouncedOnce
<1>2. UploadInv /\ InOrderInv => AnnouncedIsWhole
  BY <1>1 DEF UploadInv, AnnouncedIsWhole
<1> QED
  BY <1>2, InOrderInvariant, PTL

\* An upload of a user in order whose pieces have all been handled is announced by one
\* message if its file was of the declared size, could be opened and has a name that
\* can be stored, and by none otherwise.
THEOREM EndedUploadsAreAnnounced == Spec => []EndedIsAnnounced
<1>1. ASSUME TypeOK, InOrderInv, NEW u \in DOMAIN uploads, Handled(u),
             uploads[u].client \notin dirty
      PROVE  Cardinality({k \in DOMAIN announced : announced[k].by = u}) =
                IF ToAnnounce(u) THEN 1 ELSE 0
  <2>1. AnnouncedOnce(u)
    BY <1>1, InOrderOf
  <2>2. CASE ToAnnounce(u)
    <3>1. PICK k \in DOMAIN announced : announced[k].by = u
      BY <1>1, <2>1, <2>2 DEF AnnouncedOnce
    <3>2. {l \in DOMAIN announced : announced[l].by = u} = {k}
      BY <2>1, <3>1 DEF AnnouncedOnce
    <3> QED
      BY <2>2, <3>2, FS_Singleton
  <2>3. CASE ~ToAnnounce(u)
    <3>1. {l \in DOMAIN announced : announced[l].by = u} = {}
      BY <2>1, <2>3 DEF AnnouncedOnce
    <3> QED
      BY <2>3, <3>1, FS_EmptySet
  <2> QED
    BY <2>2, <2>3
<1>2. UploadInv /\ InOrderInv => EndedIsAnnounced
  BY <1>1 DEF UploadInv, EndedIsAnnounced, ToAnnounce
<1> QED
  BY <1>2, InOrderInvariant, PTL

\* No entry of a user in order outlives its upload, and there is one at a time.
THEOREM EntriesOfUploadsOnTheWay == Spec => []EntriesAreAwaited
<1>1. ASSUME TypeOK, InOrderInv, NEW i \in DOMAIN inputFiles, NEW j \in DOMAIN inputFiles,
             inputFiles[i].id \notin dirty
      PROVE  /\ inputFiles[j].id = inputFiles[i].id => i = j
             /\ \E u \in DOMAIN uploads : uploads[u].client = inputFiles[i].id /\ ~Handled(u)
  <2>1. inputFiles \in Seq(FileEntry)
    BY <1>1 DEF TypeOK
  <2>2. inputFiles[i].id \in Clients \ dirty
    <3>1. inputFiles[i] \in FileEntry
      BY <2>1, EntryTypes
    <3> QED
      BY <1>1, <3>1 DEF FileEntry
  <2>3. EntryIsOfUpload(inputFiles[i].id)
    BY <1>1, <2>2 DEF InOrderInv, InOrder
  <2>4. \E u \in Of(inputFiles[i].id) : ~Handled(u)
    BY <2>3 DEF EntryIsOfUpload
  <2> QED
    BY <2>3, <2>4 DEF EntryIsOfUpload, Of
<1>2. UploadInv /\ InOrderInv => EntriesAreAwaited
  BY <1>1 DEF UploadInv, EntriesAreAwaited
<1> QED
  BY <1>2, InOrderInvariant, PTL
=============================================================================
