---------------------------- MODULE DownloadProofs ----------------------------
(* Proofs of the invariants of Download, for any files of any length and any   *)
(* number of downloads and faults.                                             *)
EXTENDS Download, SequenceTheorems, WellFoundedInduction, TLAPS

-----------------------------------------------------------------------------
\* What holds besides and makes the invariants inductive.

\* A piece has the number its place in the file gives it.
WellNumbered ==
    \A i \in DOMAIN in :
        \/ in[i].piece = 0 /\ in[i].data = 0
        \/ in[i].data <= Length[in[i].file] /\ in[i] = PieceOf(in[i].file, in[i].data)

SendingOf(f) == {t \in DOMAIN threads : threads[t].file = f /\ Sending(t)}

\* A file not asked for again is asked for, sent or on the way once.
PendingOnce ==
    \A f \in Files \ doubled :
        /\ \A i, j \in DOMAIN requests : requests[i] = f /\ requests[j] = f => i = j
        /\ f \in ToSet(requests) => /\ SendingOf(f) = {}
                                    /\ \A i \in DOMAIN in : in[i].file # f
        /\ \A t, u \in SendingOf(f) : t = u

\* Its pieces come in order, and the thread has sent all that come.
InOrder ==
    \A f \in Files \ doubled :
        /\ \A i, j \in DOMAIN in :
              in[i].file = f /\ in[j].file = f /\ i < j => in[i].data < in[j].data
        /\ \A t \in SendingOf(f), i \in DOMAIN in :
              in[i].file = f => in[i].data < threads[t].sent

\* The client is ready for piece d: it has an entry with the pieces before, or
\* with more, which will make the file too long.
Ready(f, d) ==
    /\ f \notin unsaved => \E i \in DOMAIN inputFiles : inputFiles[i].id = f
    /\ \A i \in DOMAIN inputFiles :
          inputFiles[i].id = f => \/ inputFiles[i].data = FirstPieces(d - 1)
                                  \/ Len(inputFiles[i].data) >= d

\* Piece d at place i comes after piece d - 1, or the client is ready for it.
Follows(f, i, d) ==
    \/ \E j \in 1 .. i - 1 : in[j].file = f /\ in[j].piece # 0 /\ in[j].data = d - 1
    \/ Ready(f, d) /\ \A j \in 1 .. i - 1 : in[j].file # f

\* None of its pieces is left out.
NothingSkipped ==
    \A f \in Files \ doubled :
        /\ \A i \in DOMAIN in, d \in 1 .. Length[f] :
              in[i].file = f /\ in[i].data = d => Follows(f, i, d)
        /\ \A t \in SendingOf(f), i \in {Len(in) + 1}, d \in 1 .. Length[f] :
              threads[t].sent = d => Follows(f, i, d)

OneEntryEach ==
    \A i, j \in DOMAIN inputFiles : inputFiles[i].id = inputFiles[j].id => i = j

\* A last piece of f is to come after place i.
LastToCome(f, i) ==
    \/ \E j \in DOMAIN in : j > i /\ in[j].file = f /\ in[j].piece = 3
    \/ \E t \in SendingOf(f) : threads[t].sent > 0

\* What was begun ends, unless it is cut.
EndsToCome ==
    alive => \A f \in Files \ cut :
        /\ (\E i \in DOMAIN inputFiles : inputFiles[i].id = f) => LastToCome(f, 0)
        /\ \A i \in DOMAIN in : in[i].file = f /\ in[i].piece = 1 => LastToCome(f, i)

DownloadInv ==
    /\ TypeOK /\ WellNumbered /\ PendingOnce /\ InOrder /\ NothingSkipped
    /\ OneEntryEach /\ EndsToCome /\ SavedIsWhole /\ OnlyRacesKill

-----------------------------------------------------------------------------

\* A set of numbers has a least one.
LEMMA LeastNumber ==
    ASSUME NEW S, S \subseteq Nat, S # {}
    PROVE  Min(S) \in S /\ \A y \in S : Min(S) <= y
<1>1. \E x \in S : \A y \in S : <<y, x>> \notin OpToRel(<, Nat)
  BY WFMin, NatLessThanWellFounded
<1>2. PICK x \in S : \A y \in S : ~(y < x)
  BY <1>1 DEF OpToRel
<1>3. \E z \in S : \A y \in S : z <= y
  BY <1>2
<1> QED
  BY <1>3 DEF Min

\* A list without its element i.
LEMMA ListWithoutElement ==
    ASSUME NEW S, NEW s \in Seq(S), NEW i \in 1 .. Len(s)
    PROVE  /\ RemoveAt(s, i) \in Seq(S)
           /\ Len(RemoveAt(s, i)) = Len(s) - 1
           /\ \A j \in 1 .. Len(s) - 1 : RemoveAt(s, i)[j] = IF j < i THEN s[j] ELSE s[j + 1]
<1> DEFINE a == SubSeq(s, 1, i - 1)
           b == SubSeq(s, i + 1, Len(s))
<1>1. a \in Seq(S) /\ Len(a) = i - 1 /\ \A j \in 1 .. i - 1 : a[j] = s[j]
  OBVIOUS
<1>2. b \in Seq(S) /\ Len(b) = Len(s) - i
      /\ \A j \in 1 .. Len(s) - i : b[j] = s[i + j]
  OBVIOUS
<1> HIDE DEF a, b
<1>3. /\ a \o b \in Seq(S) /\ Len(a \o b) = Len(a) + Len(b)
      /\ \A j \in 1 .. Len(a) + Len(b) :
            (a \o b)[j] = IF j <= Len(a) THEN a[j] ELSE b[j - Len(a)]
  BY <1>1, <1>2, ConcatProperties
<1>4. RemoveAt(s, i) = a \o b
  BY DEF RemoveAt, a, b
<1>5. ASSUME NEW j \in 1 .. Len(s) - 1
      PROVE  (a \o b)[j] = IF j < i THEN s[j] ELSE s[j + 1]
  <2>1. CASE j < i
    BY <1>1, <1>2, <1>3, <2>1
  <2>2. CASE ~(j < i)
    <3>1. j - (i - 1) \in 1 .. Len(s) - i /\ i + (j - (i - 1)) = j + 1
      BY <2>2
    <3>2. j \in 1 .. Len(a) + Len(b) /\ ~(j <= Len(a)) /\ Len(a) = i - 1
      BY <1>1, <1>2, <2>2
    <3>3. (a \o b)[j] = b[j - (i - 1)]
      BY <1>3, <3>2
    <3> QED
      BY <1>2, <2>2, <3>1, <3>3
  <2> QED
    BY <2>1, <2>2
<1>6. Len(a) + Len(b) = Len(s) - 1
  BY <1>1, <1>2
<1> QED
  BY <1>3, <1>4, <1>5, <1>6

-----------------------------------------------------------------------------

LEMMA DownloadConstants ==
    /\ Length \in [Files -> Nat \ {0}]
    /\ MaxRequests \in Nat /\ MaxFaults \in Nat
    /\ NoFile \notin Seq(Nat)
BY DownloadAssumption

LEMMA EmptyIsNoFile == <<>> \in Seq(Nat) /\ <<>> # NoFile
<1>1. <<>> \in Seq(Nat)
  OBVIOUS
<1> QED
  BY <1>1, DownloadConstants

\* The entry found is the first of the file, and 0 says that there is none.
LEMMA EntryFacts ==
    ASSUME inputFiles \in Seq(FileEntry), NEW f
    PROVE  /\ EntryOf(f) \in 0 .. Len(inputFiles)
           /\ EntryOf(f) = 0 <=> \A i \in DOMAIN inputFiles : inputFiles[i].id # f
           /\ EntryOf(f) # 0 => EntryOf(f) \in DOMAIN inputFiles
                                /\ inputFiles[EntryOf(f)].id = f
<1> DEFINE I == {i \in 1 .. Len(inputFiles) : inputFiles[i].id = f}
<1>1. EntryOf(f) = IF I # {} THEN Min(I) ELSE 0
  BY DEF EntryOf, SelectInSeq
<1>2. I \subseteq Nat /\ DOMAIN inputFiles = 1 .. Len(inputFiles)
  OBVIOUS
<1>3. CASE I = {}
  <2>1. EntryOf(f) = 0
    BY <1>1, <1>3
  <2> QED
    BY <1>2, <1>3, <2>1
<1>4. CASE I # {}
  <2>1. Min(I) \in I
    BY <1>2, <1>4, LeastNumber
  <2>2. EntryOf(f) = Min(I)
    BY <1>1, <1>4
  <2> HIDE DEF I
  <2>3. EntryOf(f) \in 1 .. Len(inputFiles) /\ inputFiles[EntryOf(f)].id = f
    BY <2>1, <2>2 DEF I
  <2> QED
    BY <1>2, <2>3
<1> QED
  BY <1>3, <1>4

LEMMA EntryFactsAfter ==
    ASSUME inputFiles' \in Seq(FileEntry), NEW f
    PROVE  EntryOf(f)' = 0 <=> \A i \in DOMAIN inputFiles' : inputFiles'[i].id # f
<1> DEFINE I == {i \in 1 .. Len(inputFiles') : inputFiles'[i].id = f}
<1>1. EntryOf(f)' = IF I # {} THEN Min(I) ELSE 0
  BY DEF EntryOf, SelectInSeq
<1>2. I \subseteq Nat /\ DOMAIN inputFiles' = 1 .. Len(inputFiles')
  OBVIOUS
<1>3. CASE I = {}
  <2>1. EntryOf(f)' = 0
    BY <1>1, <1>3
  <2> QED
    BY <1>2, <1>3, <2>1
<1>4. CASE I # {}
  <2>1. Min(I) \in I
    BY <1>2, <1>4, LeastNumber
  <2>2. EntryOf(f)' = Min(I)
    BY <1>1, <1>4
  <2> HIDE DEF I
  <2>3. EntryOf(f)' \in 1 .. Len(inputFiles') /\ inputFiles'[EntryOf(f)'].id = f
    BY <2>1, <2>2 DEF I
  <2> QED
    BY <1>2, <2>3
<1> QED
  BY <1>3, <1>4

\* What comes next is piece 1, 2 or 3, and which one tells its number.
LEMMA PieceFacts ==
    ASSUME NEW f \in Files, NEW i \in Nat, i <= Length[f]
    PROVE  /\ PieceOf(f, i) \in Piece
           /\ PieceOf(f, i).file = f /\ PieceOf(f, i).data = i
           /\ PieceOf(f, i).piece # 0
           /\ PieceOf(f, i).piece = 1 <=> i = 0
           /\ PieceOf(f, i).piece = 3 <=> i = Length[f]
BY DownloadConstants DEF PieceOf, Piece

LEMMA InFacts ==
    ASSUME TypeOK, WellNumbered, NEW i \in DOMAIN in
    PROVE  /\ in[i] \in Piece /\ in[i].file \in Files /\ in[i].data \in Nat
           /\ in[i].piece \in 0 .. 3
           /\ in[i].data <= Length[in[i].file]
           /\ in[i].piece = 0 => in[i].data = 0
           /\ in[i].piece = 1 => in[i].data = 0
           /\ in[i].piece \in {2, 3} => in[i].data > 0
           /\ in[i].piece = 3 <=> in[i].data = Length[in[i].file]
<1>1. in[i] \in Piece /\ in[i].file \in Files /\ in[i].data \in Nat /\ in[i].piece \in 0 .. 3
  <2>1. in \in Seq(Piece)
    BY DEF TypeOK
  <2>2. in[i] \in Piece
    BY <2>1
  <2> QED
    BY <2>2 DEF Piece
<1>2. Length[in[i].file] \in Nat \ {0}
  BY <1>1, DownloadConstants
<1>3. CASE in[i].piece = 0 /\ in[i].data = 0
  BY <1>1, <1>2, <1>3
<1>4. CASE in[i].data <= Length[in[i].file] /\ in[i] = PieceOf(in[i].file, in[i].data)
  BY <1>1, <1>2, <1>4, PieceFacts
<1> QED
  BY <1>1, <1>3, <1>4 DEF WellNumbered

-----------------------------------------------------------------------------
\* Taking the head of the connection.

LEMMA TakeFacts ==
    ASSUME TypeOK, NEW p, Take(p)
    PROVE  /\ alive
           /\ UNCHANGED <<requests, threads, found, asked, doubled, cut>>
           /\ in' \in Seq(Piece) /\ Len(in) \in Nat \ {0} /\ Len(in') = Len(in) - 1
           /\ DOMAIN in = 1 .. Len(in) /\ DOMAIN in' = 1 .. Len(in')
           /\ 1 \in DOMAIN in /\ in[1] = Head(in) /\ in[1].piece = p
           /\ \A i \in DOMAIN in' : i + 1 \in DOMAIN in /\ in'[i] = in[i + 1]
BY DEF Take, TypeOK

LEMMA TakeKeepsOrder ==
    ASSUME DownloadInv, NEW p, Take(p)
    PROVE  WellNumbered' /\ PendingOnce' /\ InOrder'
<1> USE DEF DownloadInv
<1>1. /\ UNCHANGED <<requests, threads, doubled>>
      /\ DOMAIN in = 1 .. Len(in) /\ DOMAIN in' = 1 .. Len(in')
      /\ \A i \in DOMAIN in' : i + 1 \in DOMAIN in /\ in'[i] = in[i + 1]
      /\ Len(in') \in Nat
  BY TakeFacts
<1>2. \A f : SendingOf(f)' = SendingOf(f)
  BY <1>1 DEF SendingOf, Sending
<1>3. WellNumbered'
  <2> SUFFICES ASSUME NEW i \in DOMAIN in'
               PROVE  \/ in'[i].piece = 0 /\ in'[i].data = 0
                      \/ in'[i].data <= Length[in'[i].file]
                         /\ in'[i] = PieceOf(in'[i].file, in'[i].data)
    BY DEF WellNumbered, PieceOf
  <2> QED
    BY <1>1 DEF WellNumbered
<1>4. PendingOnce'
  <2> SUFFICES ASSUME NEW f \in Files \ doubled'
               PROVE  /\ \A i, j \in DOMAIN requests' : requests'[i] = f /\ requests'[j] = f => i = j
                      /\ f \in ToSet(requests') => /\ SendingOf(f)' = {}
                                                   /\ \A i \in DOMAIN in' : in'[i].file # f
                      /\ \A t, u \in SendingOf(f)' : t = u
    BY DEF PendingOnce
  <2> QED
    BY <1>1, <1>2 DEF PendingOnce
<1>5. InOrder'
  <2> SUFFICES ASSUME NEW f \in Files \ doubled'
               PROVE  /\ \A i, j \in DOMAIN in' :
                            in'[i].file = f /\ in'[j].file = f /\ i < j => in'[i].data < in'[j].data
                      /\ \A t \in SendingOf(f)', i \in DOMAIN in' :
                            in'[i].file = f => in'[i].data < threads'[t].sent
    BY DEF InOrder
  <2>1. ASSUME NEW i \in DOMAIN in', NEW j \in DOMAIN in', i < j,
               in'[i].file = f, in'[j].file = f
        PROVE  in'[i].data < in'[j].data
    <3>1. i + 1 \in DOMAIN in /\ j + 1 \in DOMAIN in /\ i + 1 < j + 1
      BY <1>1, <2>1
    <3>2. in'[i] = in[i + 1] /\ in'[j] = in[j + 1]
      BY <1>1, <2>1
    <3> QED
      BY <1>1, <2>1, <3>1, <3>2 DEF InOrder
  <2>2. ASSUME NEW t \in SendingOf(f)', NEW i \in DOMAIN in', in'[i].file = f
        PROVE  in'[i].data < threads'[t].sent
    BY <1>1, <1>2, <2>2 DEF InOrder
  <2> QED
    BY <2>1, <2>2
<1> QED
  BY <1>3, <1>4, <1>5

\* A piece taken leaves the next one first in line, if the client is ready for it.
LEMMA TakeFollows ==
    ASSUME DownloadInv, NEW p, Take(p), NEW f \in Files \ doubled,
           NEW n \in 1 .. Len(in) + 1, NEW d \in 1 .. Length[f], n > 1,
           Follows(f, n, d),
           \A j \in 1 .. n - 1 : in[j].file = f => in[j].data < d,
           Head(in).file # f => (Ready(f, d) => Ready(f, d)'),
           Head(in).file = f /\ p # 0 /\ Head(in).data = d - 1 =>
              ((p = 1 \/ Ready(f, d - 1)) => Ready(f, d)')
    PROVE  Follows(f, n - 1, d)'
<1> USE DEF DownloadInv
<1>1. /\ DOMAIN in = 1 .. Len(in) /\ DOMAIN in' = 1 .. Len(in') /\ Len(in') = Len(in) - 1
      /\ \A i \in DOMAIN in' : i + 1 \in DOMAIN in /\ in'[i] = in[i + 1]
      /\ Len(in) \in Nat \ {0} /\ in[1] = Head(in) /\ in[1].piece = p /\ 1 \in DOMAIN in
  BY TakeFacts
<1>a. /\ f \notin doubled
  OBVIOUS
<1>2. ASSUME NEW j \in 1 .. n - 1, j > 1, in[j].file = f, in[j].piece # 0, in[j].data = d - 1
      PROVE  Follows(f, n - 1, d)'
  <2>1. j - 1 \in 1 .. (n - 1) - 1 /\ j - 1 \in DOMAIN in' /\ in'[j - 1] = in[j]
    <3>1. j - 1 \in DOMAIN in' /\ (j - 1) + 1 = j
      BY <1>1, <1>2
    <3> QED
      BY <1>1, <1>2, <3>1
  <2>2. \E k \in 1 .. (n - 1) - 1 : in'[k].file = f /\ in'[k].piece # 0 /\ in'[k].data = d - 1
    BY <1>2, <2>1
  <2> QED
    BY <2>2 DEF Follows
<1>3. ASSUME in[1].file = f, in[1].piece # 0, in[1].data = d - 1
      PROVE  Follows(f, n - 1, d)'
  <2>1. p = 1 \/ Ready(f, d - 1)
    <3>1. CASE p = 1
      BY <3>1
    <3>2. CASE p # 1
      <4>1. in[1].data > 0
        BY <1>1, <1>3, <3>2, InFacts
      <4>2. d - 1 \in 1 .. Length[f] /\ 1 \in DOMAIN in
        BY <1>1, <1>3, <4>1, DownloadConstants
      <4>3. Follows(f, 1, d - 1)
        BY <1>3, <4>2 DEF NothingSkipped
      <4> QED
        BY <4>3 DEF Follows
    <3> QED
      BY <3>1, <3>2
  <2>2. Ready(f, d)'
    BY <1>1, <1>3, <2>1
  <2>3. \A j \in 1 .. (n - 1) - 1 : in'[j].file # f
    <3> SUFFICES ASSUME NEW j \in 1 .. (n - 1) - 1, in'[j].file = f
                 PROVE  FALSE
      OBVIOUS
    <3>1. j \in DOMAIN in' /\ j + 1 \in DOMAIN in /\ in'[j] = in[j + 1] /\ j + 1 \in 1 .. n - 1
      BY <1>1
    <3>2. in[j + 1].data < d /\ in[j + 1].data \in Nat /\ in[j + 1].file = f
      BY <3>1, InFacts
    <3>3. in[1].data < in[j + 1].data
      <4>1. \A i, k \in DOMAIN in :
               in[i].file = f /\ in[k].file = f /\ i < k => in[i].data < in[k].data
        BY <1>a DEF InOrder
      <4>2. 1 \in DOMAIN in /\ j + 1 \in DOMAIN in /\ 1 < j + 1
        BY <1>1, <3>1
      <4> HIDE DEF DownloadInv
      <4> QED
        BY <1>3, <3>2, <4>1, <4>2
    <3> QED
      BY <1>3, <3>2, <3>3
  <2> QED
    BY <2>2, <2>3 DEF Follows
<1>4. ASSUME Ready(f, d), \A j \in 1 .. n - 1 : in[j].file # f
      PROVE  Follows(f, n - 1, d)'
  <2>1. Ready(f, d)'
    BY <1>1, <1>4
  <2>2. ASSUME NEW j \in 1 .. (n - 1) - 1
        PROVE  in'[j].file # f
    <3>1. j \in DOMAIN in' /\ in'[j] = in[j + 1] /\ j + 1 \in 1 .. n - 1
      BY <1>1
    <3> QED
      BY <1>4, <3>1
  <2> QED
    BY <2>1, <2>2 DEF Follows
<1> QED
  BY <1>1, <1>2, <1>3, <1>4 DEF Follows

LEMMA TakeSkipsNothing ==
    ASSUME DownloadInv, NEW p, Take(p),
           \A f \in Files \ doubled, d \in Nat \ {0} :
              Head(in).file # f => (Ready(f, d) => Ready(f, d)'),
           \A f \in Files \ doubled, d \in Nat \ {0} :
              Head(in).file = f /\ p \in {1, 2} /\ Head(in).data = d - 1 =>
                  ((p = 1 \/ Ready(f, d - 1)) => Ready(f, d)')
    PROVE  NothingSkipped'
<1> USE DEF DownloadInv
<1>1. /\ UNCHANGED <<threads, doubled>>
      /\ DOMAIN in = 1 .. Len(in) /\ DOMAIN in' = 1 .. Len(in') /\ Len(in') = Len(in) - 1
      /\ \A i \in DOMAIN in' : i + 1 \in DOMAIN in /\ in'[i] = in[i + 1]
      /\ Len(in) \in Nat \ {0} /\ in[1] = Head(in) /\ in[1].piece = p /\ 1 \in DOMAIN in
  BY TakeFacts
<1>2. \A f : SendingOf(f)' = SendingOf(f)
  BY <1>1 DEF SendingOf, Sending
<1>3. p \in 0 .. 3 /\ (p = 3 => Head(in).data = Length[Head(in).file])
  BY <1>1, InFacts
<1> SUFFICES ASSUME NEW f \in Files \ doubled
             PROVE  /\ \A i \in DOMAIN in', d \in 1 .. Length[f] :
                          in'[i].file = f /\ in'[i].data = d => Follows(f, i, d)'
                    /\ \A t \in SendingOf(f), k \in {Len(in') + 1}, d \in 1 .. Length[f] :
                          threads[t].sent = d => Follows(f, k, d)'
  BY <1>1, <1>2 DEF NothingSkipped
<1>9. Length[f] \in Nat
  BY DownloadConstants
<1>4. ASSUME NEW d \in Nat \ {0}, d <= Length[f]
      PROVE  Head(in).file = f /\ p # 0 /\ Head(in).data = d - 1 =>
                ((p = 1 \/ Ready(f, d - 1)) => Ready(f, d)')
  <2>1. CASE p = 3
    BY <1>3, <1>4, <2>1, DownloadConstants
  <2>2. CASE p # 3
    BY <1>3, <2>2
  <2> QED
    BY <2>1, <2>2
<1>5. ASSUME NEW i \in DOMAIN in', NEW d \in 1 .. Length[f], in'[i].file = f, in'[i].data = d
      PROVE  Follows(f, i, d)'
  <2>1. i + 1 \in DOMAIN in /\ in'[i] = in[i + 1]
    BY <1>1, <1>5
  <2>2. d \in Nat \ {0} /\ d <= Length[f]
    BY <1>9
  <2>3. Follows(f, i + 1, d)
    BY <1>5, <2>1 DEF NothingSkipped
  <2>4. \A j \in 1 .. (i + 1) - 1 : in[j].file = f => in[j].data < d
    BY <1>1, <1>5, <2>1 DEF InOrder
  <2>5. i + 1 \in 1 .. Len(in) + 1 /\ i + 1 > 1 /\ (i + 1) - 1 = i
    BY <1>1, <1>5, <2>1
  <2>6. Head(in).file # f => (Ready(f, d) => Ready(f, d)')
    BY <2>2
  <2>7. Head(in).file = f /\ p # 0 /\ Head(in).data = d - 1 =>
           ((p = 1 \/ Ready(f, d - 1)) => Ready(f, d)')
    BY <1>4, <2>2
  <2> HIDE DEF DownloadInv
  <2>8. Follows(f, (i + 1) - 1, d)'
    BY <2>3, <2>4, <2>5, <2>6, <2>7, TakeFollows
  <2> QED
    BY <2>5, <2>8
<1>6. ASSUME NEW t \in SendingOf(f), NEW k \in {Len(in') + 1}, NEW d \in 1 .. Length[f],
             threads[t].sent = d
      PROVE  Follows(f, k, d)'
  <2> SUFFICES ASSUME NEW n \in Nat, n = Len(in) + 1
               PROVE  Follows(f, n - 1, d)'
    <3>1. k + 1 \in Nat /\ k + 1 = Len(in) + 1 /\ (k + 1) - 1 = k
      BY <1>1, <1>6
    <3> QED
      BY <3>1
  <2>1. d \in Nat \ {0} /\ d <= Length[f]
    BY <1>9
  <2>2. Follows(f, n, d)
    BY <1>6 DEF NothingSkipped
  <2>3. \A j \in 1 .. n - 1 : in[j].file = f => in[j].data < d
    BY <1>1, <1>6 DEF InOrder
  <2>4. n \in 1 .. Len(in) + 1 /\ n > 1
    BY <1>1
  <2> HIDE DEF DownloadInv
  <2> QED
    BY <1>4, <2>1, <2>2, <2>3, <2>4, TakeFollows
<1> QED
  BY <1>5, <1>6

\* The last piece of every file begun is still to come, if an entry is made by
\* a first piece only and gone with a last one.
LEMMA TakeEnds ==
    ASSUME DownloadInv, NEW p, Take(p),
           alive' => \A f \in Files :
              (\E i \in DOMAIN inputFiles' : inputFiles'[i].id = f) =>
                  /\ \/ \E i \in DOMAIN inputFiles : inputFiles[i].id = f
                     \/ p = 1 /\ Head(in).file = f
                  /\ p = 3 => Head(in).file # f
    PROVE  EndsToCome'
<1> USE DEF DownloadInv
<1>1. /\ alive /\ UNCHANGED <<threads, cut>>
      /\ DOMAIN in = 1 .. Len(in) /\ DOMAIN in' = 1 .. Len(in') /\ Len(in') = Len(in) - 1
      /\ \A i \in DOMAIN in' : i + 1 \in DOMAIN in /\ in'[i] = in[i + 1]
      /\ Len(in) \in Nat \ {0} /\ in[1] = Head(in) /\ in[1].piece = p /\ 1 \in DOMAIN in
  BY TakeFacts
<1>2. \A f : SendingOf(f)' = SendingOf(f)
  BY <1>1 DEF SendingOf, Sending
<1> SUFFICES ASSUME alive', NEW f \in Files \ cut
             PROVE  /\ (\E i \in DOMAIN inputFiles' : inputFiles'[i].id = f) => LastToCome(f, 0)'
                    /\ \A i \in DOMAIN in' :
                          in'[i].file = f /\ in'[i].piece = 1 => LastToCome(f, i)'
  BY <1>1 DEF EndsToCome, LastToCome, SendingOf, Sending
<1>3. ASSUME NEW n \in Nat, LastToCome(f, n + 1)
      PROVE  LastToCome(f, n)'
  <2>1. ASSUME NEW j \in DOMAIN in, j > n + 1, in[j].file = f, in[j].piece = 3
        PROVE  LastToCome(f, n)'
    <3>1. j - 1 \in DOMAIN in' /\ j - 1 > n /\ (j - 1) + 1 = j
      BY <1>1, <2>1
    <3>2. in'[j - 1] = in[j]
      BY <1>1, <3>1
    <3> QED
      BY <2>1, <3>1, <3>2 DEF LastToCome
  <2> QED
    BY <1>1, <1>2, <1>3, <2>1 DEF LastToCome
<1>4. ASSUME \E i \in DOMAIN inputFiles' : inputFiles'[i].id = f
      PROVE  LastToCome(f, 0)'
  <2>1. LastToCome(f, 1)
    <3>1. CASE \E i \in DOMAIN inputFiles : inputFiles[i].id = f
      <4>1. LastToCome(f, 0)
        BY <1>1, <3>1 DEF EndsToCome
      <4>2. \A j \in DOMAIN in : j > 0 /\ in[j].file = f /\ in[j].piece = 3 => j > 1
        BY <1>1, <1>4
      <4> QED
        BY <4>1, <4>2 DEF LastToCome
    <3>2. CASE p = 1 /\ Head(in).file = f
      BY <1>1, <3>2 DEF EndsToCome
    <3> QED
      BY <1>4, <3>1, <3>2
  <2> QED
    BY <1>3, <2>1
<1>5. ASSUME NEW i \in DOMAIN in', in'[i].file = f, in'[i].piece = 1
      PROVE  LastToCome(f, i)'
  <2>1. i \in Nat /\ i + 1 \in DOMAIN in /\ in'[i] = in[i + 1]
    BY <1>1, <1>5
  <2>2. LastToCome(f, i + 1)
    BY <1>1, <1>5, <2>1 DEF EndsToCome
  <2> QED
    BY <1>3, <2>1, <2>2
<1> QED
  BY <1>4, <1>5

-----------------------------------------------------------------------------
\* The steps of the client's input thread.

\* Nothing of the disk and the entries is touched.
LEMMA ClientKept ==
    ASSUME DownloadInv, UNCHANGED <<inputFiles, disk, killer>>,
           doubled \subseteq doubled', unsaved \subseteq unsaved', found' \subseteq found
    PROVE  OneEntryEach' /\ SavedIsWhole' /\ OnlyRacesKill'
<1>1. OneEntryEach' /\ OnlyRacesKill'
  BY DEF DownloadInv, OneEntryEach, OnlyRacesKill, alive
<1>2. \A f : EntryOf(f)' = EntryOf(f)
  BY DEF EntryOf, SelectInSeq
<1>3. SavedIsWhole'
  BY <1>2 DEF DownloadInv, SavedIsWhole, FirstPieces
<1> QED
  BY <1>1, <1>3

LEMMA NotThereKeeps ==
    ASSUME DownloadInv, NotThere
    PROVE  DownloadInv'
<1>1. Take(0) /\ UNCHANGED <<inputFiles, disk, killer, faults, unsaved>>
  BY DEF NotThere
<1>2. TypeOK
  BY DEF DownloadInv
<1>3. in' \in Seq(Piece) /\ UNCHANGED <<requests, threads, found, asked, doubled, cut>>
  BY <1>1, <1>2, TakeFacts
<1>4. TypeOK'
  BY <1>1, <1>2, <1>3 DEF TypeOK
<1>5. WellNumbered' /\ PendingOnce' /\ InOrder'
  BY <1>1, TakeKeepsOrder
<1>6. NothingSkipped'
  <2>1. \A f, d : Ready(f, d)' <=> Ready(f, d)
    BY <1>1 DEF Ready
  <2> QED
    BY <1>1, <2>1, TakeSkipsNothing
<1>7. EndsToCome'
  BY <1>1, TakeEnds
<1>8. OneEntryEach' /\ SavedIsWhole' /\ OnlyRacesKill'
  BY <1>1, <1>3, ClientKept
<1> QED
  BY <1>4, <1>5, <1>6, <1>7, <1>8 DEF DownloadInv

LEMMA StartDownloadingKeeps ==
    ASSUME DownloadInv, StartDownloading
    PROVE  DownloadInv'
<1> DEFINE f == Head(in).file
<1>1. Take(1) /\ UNCHANGED killer
  BY DEF StartDownloading
<1>2. TypeOK /\ WellNumbered
  BY DEF DownloadInv
<1>3. /\ in' \in Seq(Piece) /\ UNCHANGED <<requests, threads, found, asked, doubled, cut>>
      /\ 1 \in DOMAIN in /\ in[1] = Head(in) /\ in[1].piece = 1 /\ alive
  BY <1>1, <1>2, TakeFacts
<1>4. f \in Files /\ Head(in).data = 0
  BY <1>2, <1>3, InFacts
<1>5. inputFiles \in Seq(FileEntry) /\ disk \in [Files -> {NoFile} \cup Seq(Nat)]
      /\ unsaved \subseteq Files /\ faults \in 0 .. MaxFaults
  BY <1>2 DEF TypeOK
<1>6. WellNumbered' /\ PendingOnce' /\ InOrder'
  BY <1>1, TakeKeepsOrder
<1>a. CASE EntryOf(f) # 0 /\ UNCHANGED <<inputFiles, disk, faults, unsaved>>
  <2>1. TypeOK'
    BY <1>1, <1>2, <1>3, <1>a DEF TypeOK
  <2>2. EntryOf(f) \in DOMAIN inputFiles /\ inputFiles[EntryOf(f)].id = f
    BY <1>5, <1>a, EntryFacts
  <2>3. NothingSkipped'
    <3>1. \A g, d : Ready(g, d)' <=> Ready(g, d)
      BY <1>a DEF Ready
    <3>2. Ready(f, 1)
      <4>1. ASSUME NEW i \in DOMAIN inputFiles
            PROVE  inputFiles[i].data = FirstPieces(0) \/ Len(inputFiles[i].data) >= 1
        <5>1. inputFiles[i].data \in Seq(Nat)
          <6>1. inputFiles[i] \in FileEntry
            BY <1>5
          <6> QED
            BY <6>1 DEF FileEntry
        <5>2. CASE inputFiles[i].data = <<>>
          BY <5>2 DEF FirstPieces
        <5>3. CASE inputFiles[i].data # <<>>
          BY <5>1, <5>3
        <5> QED
          BY <5>2, <5>3
      <4> QED
        BY <2>2, <4>1 DEF Ready
    <3> HIDE DEF f
    <3>3. \A d \in Nat \ {0} : Head(in).data = d - 1 => d = 1
      BY <1>4
    <3> QED
      BY <1>1, <3>1, <3>2, <3>3, TakeSkipsNothing DEF f
  <2>4. EndsToCome'
    BY <1>1, <1>a, TakeEnds
  <2>5. OneEntryEach' /\ SavedIsWhole' /\ OnlyRacesKill'
    BY <1>1, <1>3, <1>a, ClientKept
  <2> QED
    BY <1>6, <2>1, <2>3, <2>4, <2>5 DEF DownloadInv
<1>b. CASE /\ EntryOf(f) = 0
           /\ inputFiles' = Append(inputFiles, [id |-> f, data |-> <<>>])
           /\ disk' = [disk EXCEPT ![f] = <<>>]
           /\ UNCHANGED <<faults, unsaved>>
  <2> DEFINE n == Len(inputFiles) + 1
  <2>1. \A i \in DOMAIN inputFiles : inputFiles[i].id # f
    BY <1>5, <1>b, EntryFacts
  <2>2. /\ [id |-> f, data |-> <<>>] \in FileEntry /\ inputFiles' \in Seq(FileEntry)
        /\ DOMAIN inputFiles' = 1 .. n /\ DOMAIN inputFiles = 1 .. n - 1 /\ n \in Nat \ {0}
        /\ inputFiles'[n] = [id |-> f, data |-> <<>>]
        /\ \A i \in 1 .. n - 1 : inputFiles'[i] = inputFiles[i]
    <3>1. [id |-> f, data |-> <<>>] \in FileEntry
      BY <1>4, EmptyIsNoFile DEF FileEntry
    <3> QED
      BY <1>5, <1>b, <3>1
  <2>3. disk' \in [Files -> {NoFile} \cup Seq(Nat)]
    BY <1>4, <1>5, <1>b, EmptyIsNoFile
  <2>4. TypeOK'
    BY <1>1, <1>2, <1>3, <1>b, <2>2, <2>3 DEF TypeOK
  <2> HIDE DEF n
  <2>5. NothingSkipped'
    <3>1. ASSUME NEW g \in Files, NEW d \in Nat \ {0}, g # f, Ready(g, d)
          PROVE  Ready(g, d)'
      <4>1. \A i \in DOMAIN inputFiles' :
               inputFiles'[i].id = g => i \in DOMAIN inputFiles /\ inputFiles'[i] = inputFiles[i]
        BY <2>2, <3>1
      <4>2. \A i \in DOMAIN inputFiles : i \in DOMAIN inputFiles' /\ inputFiles'[i] = inputFiles[i]
        BY <2>2
      <4> QED
        BY <1>b, <3>1, <4>1, <4>2 DEF Ready, FirstPieces
    <3>2. ASSUME NEW g, g = f
          PROVE  Ready(g, 1)'
      <4>1. <<>> = FirstPieces(1 - 1)
        BY DEF FirstPieces
      <4>2. \A i \in DOMAIN inputFiles' : inputFiles'[i].id = g => inputFiles'[i].data = <<>>
        BY <2>1, <2>2, <3>2
      <4>3. \E i \in DOMAIN inputFiles' : inputFiles'[i].id = g
        BY <2>2, <3>2
      <4> QED
        BY <4>1, <4>2, <4>3 DEF Ready, FirstPieces
    <3>3. \A d \in Nat \ {0} : Head(in).data = d - 1 => d = 1
      BY <1>4
    <3> HIDE DEF f
    <3>4. \A g \in Files \ doubled, d \in Nat \ {0} :
            Head(in).file # g => (Ready(g, d) => Ready(g, d)')
      BY <3>1 DEF f
    <3>5. \A g \in Files \ doubled, d \in Nat \ {0} :
            Head(in).file = g /\ Head(in).data = d - 1 => Ready(g, d)'
      BY <3>2, <3>3 DEF f
    <3> QED
      BY <1>1, <3>4, <3>5, TakeSkipsNothing
  <2>6. EndsToCome'
    <3>1. \A g : (\E i \in DOMAIN inputFiles' : inputFiles'[i].id = g) =>
              (\E i \in DOMAIN inputFiles : inputFiles[i].id = g) \/ Head(in).file = g
      BY <2>2
    <3> QED
      BY <1>1, <3>1, TakeEnds
  <2>7. OneEntryEach'
    BY <2>1, <2>2 DEF DownloadInv, OneEntryEach
  <2>8. SavedIsWhole'
    <3> SUFFICES ASSUME NEW g \in Files, EntryOf(g)' = 0, disk'[g] # NoFile
                 PROVE  /\ Len(disk'[g]) = Length[g]
                        /\ g \notin doubled' => disk'[g] = FirstPieces(Length[g])
      BY DEF SavedIsWhole, FirstPieces
    <3>1. \A i \in DOMAIN inputFiles' : inputFiles'[i].id # g
      BY <2>2, EntryFactsAfter
    <3>2. g # f /\ \A i \in DOMAIN inputFiles : inputFiles[i].id # g
      BY <2>2, <3>1
    <3>3. EntryOf(g) = 0 /\ disk'[g] = disk[g]
      BY <1>4, <1>5, <1>b, <3>2, EntryFacts
    <3> QED
      BY <1>3, <3>3 DEF DownloadInv, SavedIsWhole
  <2>9. OnlyRacesKill'
    BY <1>1, <1>3 DEF OnlyRacesKill, alive
  <2> QED
    BY <1>6, <2>4, <2>5, <2>6, <2>7, <2>8, <2>9 DEF DownloadInv
<1>c. CASE /\ EntryOf(f) = 0 /\ Fault
           /\ unsaved' = unsaved \cup {f}
           /\ UNCHANGED <<inputFiles, disk>>
  <2>1. \A i \in DOMAIN inputFiles : inputFiles[i].id # f
    BY <1>5, <1>c, EntryFacts
  <2>2. faults' \in 0 .. MaxFaults /\ unsaved' \subseteq Files
    BY <1>4, <1>5, <1>c, DownloadConstants DEF Fault
  <2>3. TypeOK'
    BY <1>1, <1>2, <1>3, <1>c, <2>2 DEF TypeOK
  <2>4. NothingSkipped'
    <3>1. \A g, d : Ready(g, d) => Ready(g, d)'
      BY <1>c DEF Ready, FirstPieces
    <3>2. \A g, d : g = f => Ready(g, d)'
      BY <1>c, <2>1 DEF Ready
    <3> QED
      BY <1>1, <3>1, <3>2, TakeSkipsNothing
  <2>5. EndsToCome'
    BY <1>1, <1>c, TakeEnds
  <2>6. OneEntryEach' /\ SavedIsWhole' /\ OnlyRacesKill'
    BY <1>1, <1>3, <1>c, ClientKept
  <2> QED
    BY <1>6, <2>3, <2>4, <2>5, <2>6 DEF DownloadInv
<1> QED
  BY <1>a, <1>b, <1>c DEF StartDownloading

LEMMA NextPiece ==
    ASSUME NEW d \in Nat, NEW s \in Seq(Nat), s = FirstPieces(d) \/ Len(s) >= d + 1
    PROVE  Append(s, d + 1) = FirstPieces(d + 1) \/ Len(Append(s, d + 1)) >= d + 2
<1>1. CASE Len(s) >= d + 1
  BY <1>1
<1>2. CASE s = FirstPieces(d)
  <2>1. FirstPieces(d + 1) \in Seq(Nat) /\ Len(FirstPieces(d + 1)) = d + 1
    BY DEF FirstPieces
  <2>2. Len(s) = d /\ \A i \in 1 .. d : s[i] = i
    BY <1>2 DEF FirstPieces
  <2>3. /\ Append(s, d + 1) \in Seq(Nat) /\ Len(Append(s, d + 1)) = d + 1
        /\ \A i \in 1 .. d + 1 : Append(s, d + 1)[i] = FirstPieces(d + 1)[i]
    BY <2>2 DEF FirstPieces
  <2> HIDE DEF FirstPieces
  <2>4. Append(s, d + 1) = FirstPieces(d + 1)
    BY <2>1, <2>3, SeqEqual
  <2> QED
    BY <2>4
<1> QED
  BY <1>1, <1>2

LEMMA AddDataKeeps ==
    ASSUME DownloadInv, AddData
    PROVE  DownloadInv'
<1> DEFINE f == Head(in).file
           k == EntryOf(f)
           n == Head(in).data
<1>1. Take(2) /\ UNCHANGED <<disk, killer, faults, unsaved>>
  BY DEF AddData
<1>2. TypeOK /\ WellNumbered
  BY DEF DownloadInv
<1>3. /\ in' \in Seq(Piece) /\ UNCHANGED <<requests, threads, found, asked, doubled, cut>>
      /\ 1 \in DOMAIN in /\ in[1] = Head(in) /\ in[1].piece = 2 /\ alive
  BY <1>1, <1>2, TakeFacts
<1>4. f \in Files /\ n \in Nat
  BY <1>2, <1>3, InFacts
<1>5. inputFiles \in Seq(FileEntry)
  BY <1>2 DEF TypeOK
<1>6. WellNumbered' /\ PendingOnce' /\ InOrder'
  BY <1>1, TakeKeepsOrder
<1>7. inputFiles' = IF k = 0 THEN inputFiles
                    ELSE [inputFiles EXCEPT ![k].data = Append(@, n)]
  BY DEF AddData
<1>8. k = 0 \/ (k \in DOMAIN inputFiles /\ inputFiles[k].id = f)
  BY <1>5, EntryFacts
<1>9. \A i \in DOMAIN inputFiles :
          /\ inputFiles[i] \in FileEntry
          /\ inputFiles[i].id \in Files /\ inputFiles[i].data \in Seq(Nat)
          /\ Append(inputFiles[i].data, n) \in Seq(Nat)
  <2> SUFFICES ASSUME NEW i \in DOMAIN inputFiles
               PROVE  /\ inputFiles[i] \in FileEntry
                      /\ inputFiles[i].id \in Files /\ inputFiles[i].data \in Seq(Nat)
                      /\ Append(inputFiles[i].data, n) \in Seq(Nat)
    OBVIOUS
  <2>1. inputFiles[i] \in FileEntry
    BY <1>5
  <2> HIDE DEF n
  <2> QED
    BY <1>4, <2>1 DEF FileEntry
<1> HIDE DEF f, k, n
<1>10. /\ inputFiles' \in Seq(FileEntry) /\ DOMAIN inputFiles' = DOMAIN inputFiles
       /\ \A i \in DOMAIN inputFiles :
            /\ inputFiles'[i].id = inputFiles[i].id
            /\ inputFiles'[i].data = IF i = k /\ k # 0 THEN Append(inputFiles[i].data, n)
                                     ELSE inputFiles[i].data
  <2>1. CASE k = 0
    BY <1>5, <1>7, <2>1
  <2>2. CASE k # 0
    <3>1. inputFiles' = [inputFiles EXCEPT ![k] =
                            [inputFiles[k] EXCEPT !.data = Append(inputFiles[k].data, n)]]
      BY <1>7, <2>2
    <3>2. [inputFiles[k] EXCEPT !.data = Append(inputFiles[k].data, n)] \in FileEntry
      BY <1>8, <1>9, <2>2 DEF FileEntry
    <3>3. /\ [inputFiles[k] EXCEPT !.data = Append(inputFiles[k].data, n)].id = inputFiles[k].id
          /\ [inputFiles[k] EXCEPT !.data = Append(inputFiles[k].data, n)].data
                = Append(inputFiles[k].data, n)
      BY <1>8, <1>9, <2>2 DEF FileEntry
    <3> QED
      BY <1>5, <1>8, <2>2, <3>1, <3>2, <3>3
  <2> QED
    BY <2>1, <2>2
<1>11. TypeOK'
  BY <1>1, <1>2, <1>3, <1>10 DEF TypeOK
<1>12. NothingSkipped'
  <2>1. \A g \in Files \ doubled, d \in Nat \ {0} :
           Head(in).file # g => (Ready(g, d) => Ready(g, d)')
    <3> SUFFICES ASSUME NEW g \in Files, NEW d \in Nat \ {0}, f # g, Ready(g, d)
                 PROVE  Ready(g, d)'
      BY DEF f
    <3>1. \A i \in DOMAIN inputFiles : inputFiles[i].id = g => i # k \/ k = 0
      BY <1>8
    <3> QED
      BY <1>1, <1>10, <3>1 DEF Ready, FirstPieces
  <2>2. \A g \in Files \ doubled, d \in Nat \ {0} :
           Head(in).file = g /\ Head(in).data = d - 1 => (Ready(g, d - 1) => Ready(g, d)')
    <3> SUFFICES ASSUME NEW g \in Files \ doubled, NEW d \in Nat \ {0}, f = g, n = d - 1,
                        Ready(g, d - 1)
                 PROVE  Ready(g, d)'
      BY DEF f, n
    <3>1. n > 0
      BY <1>2, <1>3, InFacts DEF n
    <3>2. g \notin unsaved' => \E i \in DOMAIN inputFiles' : inputFiles'[i].id = g
      BY <1>1, <1>10 DEF Ready
    <3>3. ASSUME NEW i \in DOMAIN inputFiles, inputFiles[i].id = g
          PROVE  inputFiles'[i].data = FirstPieces(d - 1) \/ Len(inputFiles'[i].data) >= d
      <4>1. k # 0 /\ i = k
        <5>1. k # 0
          BY <1>5, <3>3, EntryFacts DEF k
        <5> QED
          BY <1>8, <3>3, <5>1 DEF DownloadInv, OneEntryEach
      <4>2. inputFiles[i].data = FirstPieces(n - 1) \/ Len(inputFiles[i].data) >= n
        BY <3>3 DEF Ready
      <4>3. n - 1 \in Nat /\ (n - 1) + 1 = n /\ (n - 1) + 2 = d
        BY <1>4, <3>1
      <4>4. inputFiles[i].data \in Seq(Nat)
        BY <1>9
      <4>5. Append(inputFiles[i].data, n) = FirstPieces(n)
            \/ Len(Append(inputFiles[i].data, n)) >= d
        BY <4>2, <4>3, <4>4, NextPiece
      <4> QED
        BY <1>10, <4>1, <4>5
    <3> QED
      BY <1>10, <3>2, <3>3 DEF Ready, FirstPieces
  <2> QED
    BY <1>1, <2>1, <2>2, TakeSkipsNothing
<1>13. EndsToCome'
  BY <1>1, <1>10, TakeEnds
<1>14. OneEntryEach'
  BY <1>10 DEF DownloadInv, OneEntryEach
<1>15. SavedIsWhole'
  <2> SUFFICES ASSUME NEW g \in Files, EntryOf(g)' = 0, disk'[g] # NoFile
               PROVE  /\ Len(disk'[g]) = Length[g]
                      /\ g \notin doubled' => disk'[g] = FirstPieces(Length[g])
    BY DEF SavedIsWhole, FirstPieces
  <2>1. \A i \in DOMAIN inputFiles' : inputFiles'[i].id # g
    BY <1>10, EntryFactsAfter
  <2>2. EntryOf(g) = 0
    BY <1>5, <1>10, <2>1, EntryFacts
  <2> QED
    BY <1>1, <1>3, <2>2 DEF DownloadInv, SavedIsWhole
<1>16. OnlyRacesKill'
  BY <1>1, <1>3 DEF OnlyRacesKill, alive
<1> QED
  BY <1>6, <1>11, <1>12, <1>13, <1>14, <1>15, <1>16 DEF DownloadInv

LEMMA FinalInputKeeps ==
    ASSUME DownloadInv, FinalInput
    PROVE  DownloadInv'
<1> DEFINE f == Head(in).file
           k == EntryOf(f)
           n == Head(in).data
           data == Append(inputFiles[k].data, n)
<1>1. Take(3) /\ UNCHANGED <<faults, unsaved>>
  BY DEF FinalInput
<1>2. TypeOK /\ WellNumbered
  BY DEF DownloadInv
<1>3. /\ in' \in Seq(Piece) /\ UNCHANGED <<requests, threads, found, asked, doubled, cut>>
      /\ 1 \in DOMAIN in /\ in[1] = Head(in) /\ in[1].piece = 3 /\ alive
  BY <1>1, <1>2, TakeFacts
<1>4. f \in Files /\ n \in Nat \ {0} /\ n = Length[f]
  BY <1>2, <1>3, InFacts
<1>5. inputFiles \in Seq(FileEntry) /\ disk \in [Files -> {NoFile} \cup Seq(Nat)]
      /\ killer = NoFile /\ found \subseteq Files
  BY <1>2, <1>3 DEF TypeOK, alive
<1>6. WellNumbered' /\ PendingOnce' /\ InOrder'
  BY <1>1, TakeKeepsOrder
<1>7. k = 0 \/ (k \in DOMAIN inputFiles /\ inputFiles[k].id = f)
  BY <1>5, EntryFacts
<1>8. f \notin doubled => Ready(f, n)
  <2>1. ASSUME f \notin doubled
        PROVE  Follows(f, 1, n)
    <3>1. n \in 1 .. Length[f]
      BY <1>4
    <3> HIDE DEF n
    <3>2. \A d \in 1 .. Length[f] : in[1].data = d => Follows(f, 1, d)
      BY <1>3, <1>4, <2>1 DEF DownloadInv, NothingSkipped
    <3> QED
      BY <1>3, <3>1, <3>2 DEF n, Follows, Ready
  <2> QED
    BY <2>1 DEF Follows
<1>a. CASE k = 0 /\ killer' = f /\ UNCHANGED <<inputFiles, disk>>
  <2>1. TypeOK'
    BY <1>1, <1>2, <1>3, <1>4, <1>a DEF TypeOK
  <2>2. \A i \in DOMAIN inputFiles : inputFiles[i].id # f
    BY <1>5, <1>a, EntryFacts
  <2>3. NothingSkipped'
    <3>1. \A g, d : Ready(g, d)' <=> Ready(g, d)
      BY <1>1, <1>a DEF Ready
    <3> QED
      BY <1>1, <3>1, TakeSkipsNothing
  <2>4. EndsToCome'
    BY <1>1, <1>a, <2>2, TakeEnds
  <2>5. f \in doubled \cup unsaved
    BY <1>8, <2>2 DEF Ready
  <2>6. OneEntryEach' /\ SavedIsWhole'
    <3>1. \A g : EntryOf(g)' = EntryOf(g)
      BY <1>a DEF EntryOf, SelectInSeq
    <3> QED
      BY <1>3, <1>a, <3>1 DEF DownloadInv, OneEntryEach, SavedIsWhole, FirstPieces
  <2>7. OnlyRacesKill'
    BY <1>1, <1>3, <1>a, <2>5 DEF OnlyRacesKill
  <2> QED
    BY <1>6, <2>1, <2>3, <2>4, <2>6, <2>7 DEF DownloadInv
<1>b. CASE /\ k # 0 /\ inputFiles' = Without(k)
           /\ \/ /\ Len(data) = Length[f]
                 /\ disk' = [disk EXCEPT ![f] = data]
                 /\ killer' = IF f \in Images \ found THEN f ELSE NoFile
              \/ /\ disk' = [disk EXCEPT ![f] = NoFile]
                 /\ UNCHANGED killer
  <2>1. k \in 1 .. Len(inputFiles) /\ inputFiles[k].id = f /\ Len(inputFiles) \in Nat
    BY <1>5, <1>7, <1>b
  <2>2. inputFiles[k].data \in Seq(Nat)
    <3>1. inputFiles[k] \in FileEntry
      BY <1>5, <2>1
    <3> QED
      BY <3>1 DEF FileEntry
  <2>3. data \in Seq(Nat) /\ data # NoFile /\ Len(data) = Len(inputFiles[k].data) + 1
    <3> HIDE DEF n, k
    <3>1. data \in Seq(Nat) /\ Len(data) = Len(inputFiles[k].data) + 1
      BY <1>4, <2>2
    <3> HIDE DEF data
    <3> QED
      BY <3>1, DownloadConstants
  <2>4. /\ inputFiles' \in Seq(FileEntry) /\ Len(inputFiles') = Len(inputFiles) - 1
        /\ DOMAIN inputFiles' = 1 .. Len(inputFiles) - 1
        /\ \A j \in DOMAIN inputFiles' :
              inputFiles'[j] = IF j < k THEN inputFiles[j] ELSE inputFiles[j + 1]
    <3>1. inputFiles' = RemoveAt(inputFiles, k)
      BY <1>b DEF Without
    <3>2. /\ inputFiles' \in Seq(FileEntry) /\ Len(inputFiles') = Len(inputFiles) - 1
          /\ \A j \in 1 .. Len(inputFiles) - 1 :
              inputFiles'[j] = IF j < k THEN inputFiles[j] ELSE inputFiles[j + 1]
      <4> HIDE DEF k
      <4> QED
        BY <1>5, <2>1, <3>1, ListWithoutElement
    <3>3. DOMAIN inputFiles' = 1 .. Len(inputFiles')
      BY <3>2
    <3> QED
      BY <3>2, <3>3
  <2>5. disk' \in [Files -> {NoFile} \cup Seq(Nat)] /\ killer' \in Files \cup {NoFile}
    BY <1>4, <1>5, <1>b, <2>3
  <2>6. TypeOK'
    BY <1>1, <1>2, <1>3, <2>4, <2>5 DEF TypeOK
  <2> HIDE DEF k, data, f, n
  <2>7. /\ \A j \in DOMAIN inputFiles' :
              LET i == IF j < k THEN j ELSE j + 1
              IN  i \in DOMAIN inputFiles /\ i # k /\ inputFiles'[j] = inputFiles[i]
        /\ \A i \in DOMAIN inputFiles : i # k =>
              \E j \in DOMAIN inputFiles' : inputFiles'[j] = inputFiles[i]
    <3>1. ASSUME NEW j \in DOMAIN inputFiles'
          PROVE  LET i == IF j < k THEN j ELSE j + 1
                 IN  i \in DOMAIN inputFiles /\ i # k /\ inputFiles'[j] = inputFiles[i]
      <4>1. DOMAIN inputFiles = 1 .. Len(inputFiles)
        BY <1>5
      <4> QED
        BY <2>1, <2>4, <4>1
    <3>2. ASSUME NEW i \in DOMAIN inputFiles, i # k
          PROVE  \E j \in DOMAIN inputFiles' : inputFiles'[j] = inputFiles[i]
      <4>1. DOMAIN inputFiles = 1 .. Len(inputFiles)
        BY <1>5
      <4>2. CASE i < k
        <5>1. i \in DOMAIN inputFiles' /\ inputFiles'[i] = inputFiles[i]
          BY <2>1, <2>4, <4>1, <4>2
        <5> QED
          BY <5>1
      <4>3. CASE i > k
        <5>1. i - 1 \in DOMAIN inputFiles' /\ ~(i - 1 < k) /\ (i - 1) + 1 = i
          BY <2>1, <2>4, <4>1, <4>3
        <5>2. inputFiles'[i - 1] = inputFiles[i]
          BY <2>4, <5>1
        <5> QED
          BY <5>1, <5>2
      <4> QED
        BY <2>1, <3>2, <4>1, <4>2, <4>3
    <3> QED
      BY <3>1, <3>2
  <2>8. \A j \in DOMAIN inputFiles' : inputFiles'[j].id # f
    BY <2>1, <2>7, <1>5 DEF DownloadInv, OneEntryEach
  <2>9. NothingSkipped'
    <3>1. ASSUME NEW g \in Files, NEW d \in Nat \ {0}, f # g, Ready(g, d)
          PROVE  Ready(g, d)'
      <4>1. \A i \in DOMAIN inputFiles : inputFiles[i].id = g => i # k
        BY <2>1, <3>1
      <4>2. g \notin unsaved' => \E i \in DOMAIN inputFiles' : inputFiles'[i].id = g
        BY <1>1, <2>7, <3>1, <4>1 DEF Ready
      <4>3. \A j \in DOMAIN inputFiles' : inputFiles'[j].id = g =>
                inputFiles'[j].data = FirstPieces(d - 1) \/ Len(inputFiles'[j].data) >= d
        BY <2>7, <3>1 DEF Ready
      <4> QED
        BY <4>2, <4>3 DEF Ready, FirstPieces
    <3>2. \A g \in Files \ doubled, d \in Nat \ {0} :
            Head(in).file # g => (Ready(g, d) => Ready(g, d)')
      BY <3>1 DEF f
    <3> QED
      BY <1>1, <3>2, TakeSkipsNothing
  <2>10. EndsToCome'
    <3>1. \A g : (\E i \in DOMAIN inputFiles' : inputFiles'[i].id = g) =>
              (\E i \in DOMAIN inputFiles : inputFiles[i].id = g) /\ Head(in).file # g
      BY <2>7, <2>8 DEF f
    <3> QED
      BY <1>1, <3>1, TakeEnds
  <2>11. OneEntryEach'
    <3> SUFFICES ASSUME NEW i \in DOMAIN inputFiles', NEW j \in DOMAIN inputFiles',
                        inputFiles'[i].id = inputFiles'[j].id
                 PROVE  i = j
      BY DEF OneEntryEach
    <3>1. (IF i < k THEN i ELSE i + 1) = (IF j < k THEN j ELSE j + 1)
      BY <2>7 DEF DownloadInv, OneEntryEach
    <3>2. i \in Nat /\ j \in Nat /\ k \in Nat
      BY <2>1, <2>4
    <3> QED
      BY <3>1, <3>2
  <2>12. SavedIsWhole'
    <3> SUFFICES ASSUME NEW g \in Files, EntryOf(g)' = 0, disk'[g] # NoFile
                 PROVE  /\ Len(disk'[g]) = Length[g]
                        /\ g \notin doubled' => disk'[g] = FirstPieces(Length[g])
      BY DEF SavedIsWhole, FirstPieces
    <3>1. CASE g # f
      <4>1. \A i \in DOMAIN inputFiles' : inputFiles'[i].id # g
        BY <2>4, EntryFactsAfter
      <4>2. \A i \in DOMAIN inputFiles : inputFiles[i].id # g
        BY <2>1, <2>7, <3>1, <4>1
      <4>3. EntryOf(g) = 0 /\ disk'[g] = disk[g]
        BY <1>4, <1>5, <1>b, <3>1, <4>2, EntryFacts
      <4> QED
        BY <1>3, <4>3 DEF DownloadInv, SavedIsWhole
    <3>2. CASE g = f
      <4>1. Len(data) = Length[f] /\ disk'[f] = data
        BY <1>4, <1>5, <1>b, <3>2
      <4>2. ASSUME f \notin doubled
            PROVE  data = FirstPieces(Length[f])
        <5>1. inputFiles[k].data = FirstPieces(n - 1) \/ Len(inputFiles[k].data) >= n
          BY <1>5, <1>8, <2>1, <4>2 DEF Ready
        <5>2. Len(inputFiles[k].data) \in Nat /\ n - 1 \in Nat /\ (n - 1) + 1 = n
          BY <1>4, <2>2
        <5>3. Append(inputFiles[k].data, n) = FirstPieces(n)
              \/ Len(Append(inputFiles[k].data, n)) >= n + 1
          <6>1. (n - 1) + 2 = n + 1
            BY <5>2
          <6> QED
            BY <2>2, <5>1, <5>2, <6>1, NextPiece
        <5> QED
          BY <1>4, <4>1, <5>3 DEF data
      <4> QED
        BY <1>3, <3>2, <4>1, <4>2
    <3> QED
      BY <3>1, <3>2
  <2>13. OnlyRacesKill'
    BY <1>1, <1>3, <1>5, <1>b DEF OnlyRacesKill, alive
  <2> QED
    BY <1>6, <2>6, <2>9, <2>10, <2>11, <2>12, <2>13 DEF DownloadInv
<1> QED
  BY <1>a, <1>b DEF FinalInput

-----------------------------------------------------------------------------
\* The steps of the user, the server and the network.

LEMMA LoadFileKeeps ==
    ASSUME DownloadInv, NEW f \in Files, LoadFile(f)
    PROVE  DownloadInv'
<1>1. /\ alive /\ requests' = Append(requests, f)
      /\ doubled' = IF Pending(f) THEN doubled \cup {f} ELSE doubled
      /\ asked < MaxRequests /\ asked' = asked + 1
      /\ UNCHANGED <<threads, in, inputFiles, disk, found, killer, faults, unsaved, cut>>
  BY DEF LoadFile
<1>2. TypeOK
  BY DEF DownloadInv
<1>3. requests \in Seq(Files) /\ asked \in 0 .. MaxRequests
  BY <1>2 DEF TypeOK
<1>4. /\ requests' \in Seq(Files) /\ DOMAIN requests' = 1 .. Len(requests) + 1
      /\ DOMAIN requests = 1 .. Len(requests) /\ Len(requests) \in Nat
      /\ requests'[Len(requests) + 1] = f
      /\ \A i \in DOMAIN requests : requests'[i] = requests[i]
  BY <1>1, <1>3
<1>5. asked' \in 0 .. MaxRequests
  BY <1>1, <1>3, DownloadConstants
<1>6. TypeOK'
  BY <1>1, <1>2, <1>4, <1>5 DEF TypeOK
<1>7. \A g : SendingOf(g)' = SendingOf(g)
  BY <1>1 DEF SendingOf, Sending
<1>8. doubled \subseteq doubled'
  BY <1>1
<1>9. WellNumbered' /\ InOrder'
  BY <1>1, <1>7, <1>8 DEF DownloadInv, WellNumbered, PieceOf, InOrder
<1>10. PendingOnce'
  <2> SUFFICES ASSUME NEW g \in Files \ doubled'
               PROVE  /\ \A i, j \in DOMAIN requests' :
                            requests'[i] = g /\ requests'[j] = g => i = j
                      /\ g \in ToSet(requests') => /\ SendingOf(g) = {}
                                                   /\ \A i \in DOMAIN in : in[i].file # g
                      /\ \A t, u \in SendingOf(g) : t = u
    BY <1>1, <1>7 DEF PendingOnce
  <2>1. g \in Files \ doubled
    BY <1>8
  <2>2. g # f => /\ \A i \in DOMAIN requests' : requests'[i] = g => i \in DOMAIN requests
                 /\ g \in ToSet(requests') => g \in ToSet(requests)
    BY <1>4 DEF ToSet
  <2>3. g = f => /\ f \notin ToSet(requests) /\ SendingOf(f) = {}
                 /\ \A i \in DOMAIN in : in[i].file # f
    BY <1>1 DEF Pending, SendingOf
  <2>4. CASE g = f
    <3>1. \A i \in DOMAIN requests' : requests'[i] = f => i = Len(requests) + 1
      BY <1>4, <2>3, <2>4 DEF ToSet
    <3> QED
      BY <2>3, <2>4, <3>1
  <2>5. CASE g # f
    BY <1>4, <2>1, <2>2, <2>5 DEF DownloadInv, PendingOnce
  <2> QED
    BY <2>4, <2>5
<1>11. NothingSkipped'
  <2>1. \A g, i, d : Follows(g, i, d)' <=> Follows(g, i, d)
    BY <1>1 DEF Follows, Ready
  <2> QED
    BY <1>1, <1>7, <1>8, <2>1 DEF DownloadInv, NothingSkipped
<1>12. EndsToCome'
  BY <1>1, <1>7 DEF DownloadInv, EndsToCome, LastToCome, alive
<1>13. OneEntryEach' /\ SavedIsWhole' /\ OnlyRacesKill'
  BY <1>1, <1>8, ClientKept
<1> QED
  BY <1>6, <1>9, <1>10, <1>11, <1>12, <1>13 DEF DownloadInv

LEMMA ForgetKeeps ==
    ASSUME DownloadInv, NEW f \in Files, Forget(f)
    PROVE  DownloadInv'
<1>1. /\ found' = found \ {f}
      /\ UNCHANGED <<requests, threads, in, inputFiles, disk, killer, asked, faults,
                     doubled, unsaved, cut>>
  BY DEF Forget, history
<1>2. TypeOK'
  BY <1>1 DEF DownloadInv, TypeOK
<1>3. \A g : SendingOf(g)' = SendingOf(g)
  BY <1>1 DEF SendingOf, Sending
<1>4. WellNumbered' /\ InOrder' /\ PendingOnce'
  BY <1>1, <1>3 DEF DownloadInv, WellNumbered, PieceOf, InOrder, PendingOnce
<1>5. NothingSkipped'
  <2>1. \A g, i, d : Follows(g, i, d)' <=> Follows(g, i, d)
    BY <1>1 DEF Follows, Ready
  <2> QED
    BY <1>1, <1>3, <2>1 DEF DownloadInv, NothingSkipped
<1>6. EndsToCome'
  BY <1>1, <1>3 DEF DownloadInv, EndsToCome, LastToCome, alive
<1>7. OneEntryEach' /\ SavedIsWhole' /\ OnlyRacesKill'
  BY <1>1, ClientKept
<1> QED
  BY <1>2, <1>4, <1>5, <1>6, <1>7 DEF DownloadInv

LEMMA BreakKeeps ==
    ASSUME DownloadInv, Break
    PROVE  DownloadInv'
<1>1. /\ Fault /\ requests' = <<>> /\ threads' = <<>> /\ in' = <<>>
      /\ cut' = cut \cup {f \in Files : Pending(f)}
      /\ UNCHANGED <<inputFiles, disk, found, killer, asked, doubled, unsaved>>
  BY DEF Break
<1>2. TypeOK /\ faults \in 0 .. MaxFaults /\ cut \subseteq Files
  BY DEF DownloadInv, TypeOK
<1>3. faults' \in 0 .. MaxFaults
  BY <1>1, <1>2, DownloadConstants DEF Fault
<1>4. cut' \subseteq Files
  BY <1>1, <1>2
<1>5. /\ requests' \in Seq(Files) /\ threads' \in Seq(Thread) /\ in' \in Seq(Piece)
      /\ DOMAIN requests' = {} /\ DOMAIN threads' = {} /\ DOMAIN in' = {}
      /\ ToSet(requests') = {}
  BY <1>1 DEF ToSet
<1>6. TypeOK'
  BY <1>1, <1>2, <1>3, <1>4, <1>5 DEF TypeOK
<1>7. \A f : SendingOf(f)' = {}
  BY <1>5 DEF SendingOf
<1>8. WellNumbered' /\ PendingOnce' /\ InOrder' /\ NothingSkipped'
  BY <1>5, <1>7 DEF WellNumbered, PendingOnce, InOrder, NothingSkipped
<1>9. EndsToCome'
  <2> SUFFICES ASSUME alive, NEW f \in Files \ cut',
                      \E i \in DOMAIN inputFiles : inputFiles[i].id = f
               PROVE  FALSE
    BY <1>1, <1>5 DEF EndsToCome, alive
  <2>1. LastToCome(f, 0)
    BY <1>1 DEF DownloadInv, EndsToCome
  <2>2. Pending(f)
    BY <2>1 DEF LastToCome, Pending, SendingOf
  <2> QED
    BY <1>1, <2>2
<1>10. OneEntryEach' /\ SavedIsWhole' /\ OnlyRacesKill'
  BY <1>1, ClientKept
<1> QED
  BY <1>6, <1>8, <1>9, <1>10 DEF DownloadInv

LEMMA ReadFailsKeeps ==
    ASSUME DownloadInv, NEW t \in DOMAIN threads, ReadFails(t)
    PROVE  DownloadInv'
<1>1. /\ Fault /\ threads' = RemoveAt(threads, t)
      /\ cut' = cut \cup {threads[t].file}
      /\ UNCHANGED <<requests, in, inputFiles, disk, found, killer, asked, doubled, unsaved>>
  BY DEF ReadFails
<1>2. TypeOK /\ faults \in 0 .. MaxFaults /\ cut \subseteq Files /\ threads \in Seq(Thread)
  BY DEF DownloadInv, TypeOK
<1>3. faults' \in 0 .. MaxFaults
  BY <1>1, <1>2, DownloadConstants DEF Fault
<1>4. threads[t] \in Thread /\ threads[t].file \in Files
  <2>1. threads[t] \in Thread
    BY <1>2
  <2> QED
    BY <2>1 DEF Thread
<1>5. cut' \subseteq Files
  BY <1>1, <1>2, <1>4
<1>6. /\ threads' \in Seq(Thread) /\ DOMAIN threads' = 1 .. Len(threads) - 1
      /\ DOMAIN threads = 1 .. Len(threads) /\ t \in 1 .. Len(threads)
      /\ \A j \in 1 .. Len(threads) - 1 :
            threads'[j] = IF j < t THEN threads[j] ELSE threads[j + 1]
  BY <1>1, <1>2, ListWithoutElement
\* Each thread that is left was there.
<1> DEFINE Was(u) == IF u < t THEN u ELSE u + 1
<1>7. \A u \in DOMAIN threads' : Was(u) \in DOMAIN threads /\ Was(u) # t
                                 /\ threads'[u] = threads[Was(u)]
  BY <1>6
<1>8. \A u, v \in DOMAIN threads' : Was(u) = Was(v) => u = v
  BY <1>6
<1>9. \A u \in DOMAIN threads : u # t => \E v \in DOMAIN threads' : Was(v) = u
  <2> SUFFICES ASSUME NEW u \in DOMAIN threads, u # t
               PROVE  \E v \in DOMAIN threads' : Was(v) = u
    OBVIOUS
  <2>1. CASE u < t
    BY <1>6, <2>1
  <2>2. CASE u > t
    <3>1. u - 1 \in DOMAIN threads' /\ Was(u - 1) = u
      BY <1>6, <2>2
    <3> QED
      BY <3>1
  <2> QED
    BY <1>6, <2>1, <2>2
<1> HIDE DEF Was
<1>10. TypeOK'
  BY <1>1, <1>2, <1>3, <1>5, <1>6, <1>7 DEF TypeOK
<1>11. \A f : \A u \in SendingOf(f)' : Was(u) \in SendingOf(f)
  BY <1>7 DEF SendingOf, Sending
<1>12. WellNumbered'
  BY <1>1 DEF DownloadInv, WellNumbered, PieceOf
<1>13. PendingOnce'
  BY <1>1, <1>8, <1>11 DEF DownloadInv, PendingOnce, SendingOf
<1>14. InOrder'
  BY <1>1, <1>7, <1>11 DEF DownloadInv, InOrder, SendingOf
<1>15. NothingSkipped'
  <2>1. \A g, i, d : Follows(g, i, d)' <=> Follows(g, i, d)
    BY <1>1 DEF Follows, Ready
  <2> QED
    BY <1>1, <1>7, <1>11, <2>1 DEF DownloadInv, NothingSkipped, SendingOf
<1>16. EndsToCome'
  <2>1. \A f \in Files \ cut' : \A u \in SendingOf(f) : \E v \in SendingOf(f)' : threads'[v] = threads[u]
    <3> SUFFICES ASSUME NEW f \in Files \ cut', NEW u \in SendingOf(f)
                 PROVE  \E v \in SendingOf(f)' : threads'[v] = threads[u]
      OBVIOUS
    <3>1. u \in DOMAIN threads /\ u # t
      BY <1>1 DEF SendingOf
    <3>2. PICK v \in DOMAIN threads' : Was(v) = u
      BY <1>9, <3>1
    <3>3. v \in SendingOf(f)' /\ threads'[v] = threads[u]
      BY <1>7, <3>2 DEF SendingOf, Sending
    <3> QED
      BY <3>3
  <2>2. \A f \in Files \ cut' : \A i : LastToCome(f, i) => LastToCome(f, i)'
    BY <1>1, <2>1 DEF LastToCome
  <2> QED
    BY <1>1, <2>2 DEF DownloadInv, EndsToCome, alive
<1>17. OneEntryEach' /\ SavedIsWhole' /\ OnlyRacesKill'
  BY <1>1, ClientKept
<1> QED
  BY <1>10, <1>12, <1>13, <1>14, <1>15, <1>16, <1>17 DEF DownloadInv

\* What is written on the connection comes after all that is there.
LEMMA PieceWritten ==
    ASSUME in \in Seq(Piece), NEW p \in Piece, in' = Append(in, p)
    PROVE  /\ in' \in Seq(Piece) /\ DOMAIN in' = 1 .. Len(in) + 1 /\ DOMAIN in = 1 .. Len(in)
           /\ Len(in') = Len(in) + 1 /\ Len(in) \in Nat /\ in'[Len(in) + 1] = p
           /\ \A i \in DOMAIN in : i \in DOMAIN in' /\ in'[i] = in[i]
OBVIOUS

LEMMA SendFileKeeps ==
    ASSUME DownloadInv, SendFileFromServer
    PROVE  DownloadInv'
<1> DEFINE f == Head(requests)
<1>1. /\ requests # <<>> /\ requests' = Tail(requests)
      /\ UNCHANGED <<inputFiles, disk, found, killer, asked, faults, doubled, unsaved, cut>>
  BY DEF SendFileFromServer, history
<1>2. TypeOK /\ requests \in Seq(Files) /\ threads \in Seq(Thread) /\ in \in Seq(Piece)
  BY DEF DownloadInv, TypeOK
<1>3. /\ f \in Files /\ requests' \in Seq(Files) /\ 1 \in DOMAIN requests /\ requests[1] = f
      /\ DOMAIN requests' = 1 .. Len(requests) - 1 /\ DOMAIN requests = 1 .. Len(requests)
      /\ \A i \in DOMAIN requests' : i + 1 \in DOMAIN requests
                                     /\ requests'[i] = requests[i + 1]
  BY <1>1, <1>2
<1>4. \A g \in Files \ doubled :
          /\ \A i, j \in DOMAIN requests' : requests'[i] = g /\ requests'[j] = g => i = j
          /\ g \in ToSet(requests') => g # f /\ g \in ToSet(requests)
  <2> SUFFICES ASSUME NEW g \in Files \ doubled
               PROVE  /\ \A i, j \in DOMAIN requests' : requests'[i] = g /\ requests'[j] = g => i = j
                      /\ g \in ToSet(requests') => g # f /\ g \in ToSet(requests)
    OBVIOUS
  <2>1. \A i, j \in DOMAIN requests : requests[i] = g /\ requests[j] = g => i = j
    BY DEF DownloadInv, PendingOnce
  <2>2. \A i, j \in DOMAIN requests' : requests'[i] = g /\ requests'[j] = g => i = j
    BY <1>3, <2>1
  <2>3. ASSUME NEW i \in DOMAIN requests', requests'[i] = g
        PROVE  g # f /\ g \in ToSet(requests)
    <3>1. i + 1 # 1 /\ i + 1 \in DOMAIN requests /\ requests[i + 1] = g
      BY <1>3, <2>3
    <3> QED
      BY <1>3, <2>1, <3>1 DEF ToSet
  <2> QED
    BY <2>2, <2>3 DEF ToSet
<1>5. f \notin doubled => SendingOf(f) = {} /\ \A i \in DOMAIN in : in[i].file # f
  BY <1>3 DEF DownloadInv, PendingOnce, ToSet
<1>6. OneEntryEach' /\ SavedIsWhole' /\ OnlyRacesKill'
  BY <1>1, ClientKept
<1>7. \A g, d : Ready(g, d)' <=> Ready(g, d)
  BY <1>1 DEF Ready
<1> HIDE DEF f
<1>a. CASE in' = Append(in, [piece |-> 0, file |-> f, data |-> 0]) /\ UNCHANGED threads
  <2> DEFINE p == [piece |-> 0, file |-> f, data |-> 0]
             n == Len(in) + 1
  <2>1. p \in Piece /\ p.piece = 0 /\ p.file = f /\ p.data = 0
    BY <1>3 DEF Piece
  <2>2. in' = Append(in, p)
    BY <1>a
  <2> HIDE DEF p
  <2>3. /\ in' \in Seq(Piece) /\ DOMAIN in' = 1 .. n /\ DOMAIN in = 1 .. Len(in)
        /\ Len(in) \in Nat /\ in'[n] = p /\ Len(in') = n
        /\ \A i \in DOMAIN in : i \in DOMAIN in' /\ in'[i] = in[i]
    BY <1>2, <2>1, <2>2, PieceWritten
  <2>4. \A i \in DOMAIN in' : i \in DOMAIN in \/ i = n
    BY <2>3
  <2> HIDE DEF n
  <2>5. TypeOK'
    BY <1>1, <1>2, <1>3, <1>a, <2>3 DEF TypeOK
  <2>6. \A g : SendingOf(g)' = SendingOf(g)
    BY <1>a DEF SendingOf, Sending
  <2>7. WellNumbered'
    BY <2>1, <2>3, <2>4 DEF DownloadInv, WellNumbered, PieceOf
  <2>8. PendingOnce'
    BY <1>1, <1>4, <2>1, <2>3, <2>4, <2>6 DEF DownloadInv, PendingOnce
  <2>9. InOrder'
    <3>1. \A i \in DOMAIN in : \A j : j = n => ~(j < i)
      BY <2>3 DEF n
    <3>2. ~(n < n)
      BY <2>3 DEF n
    <3> QED
      BY <1>1, <1>5, <1>a, <2>1, <2>3, <2>4, <2>6, <3>1, <3>2 DEF DownloadInv, InOrder
  <2>10. NothingSkipped'
    <3> SUFFICES ASSUME NEW g \in Files \ doubled
                 PROVE  /\ \A i \in DOMAIN in', d \in 1 .. Length[g] :
                              in'[i].file = g /\ in'[i].data = d => Follows(g, i, d)'
                        /\ \A t \in SendingOf(g), i \in {Len(in') + 1}, d \in 1 .. Length[g] :
                              threads[t].sent = d => Follows(g, i, d)'
      BY <1>1, <1>a, <2>6 DEF NothingSkipped
    <3>1. ASSUME NEW i \in 1 .. n, NEW d, Follows(g, i, d)
          PROVE  Follows(g, i, d)'
      <4>1. \A j \in 1 .. i - 1 : in'[j] = in[j]
        BY <2>3 DEF n
      <4> QED
        BY <1>7, <3>1, <4>1 DEF Follows
    <3>2. ASSUME NEW i \in DOMAIN in', NEW d \in 1 .. Length[g], in'[i].file = g, in'[i].data = d
          PROVE  Follows(g, i, d)'
      <4>1. i \in DOMAIN in /\ in'[i] = in[i]
        BY <2>1, <2>3, <2>4, <3>2, DownloadConstants
      <4>2. Follows(g, i, d)
        BY <3>2, <4>1 DEF DownloadInv, NothingSkipped
      <4> QED
        BY <2>3, <3>1, <3>2, <4>2
    <3>3. ASSUME NEW t \in SendingOf(g), NEW k \in {Len(in') + 1}, NEW d \in 1 .. Length[g],
                 threads[t].sent = d
          PROVE  Follows(g, k, d)'
      <4>1. g # f
        BY <1>5
      <4>2. \A i \in {Len(in) + 1} : Follows(g, i, d)
        BY <3>3 DEF DownloadInv, NothingSkipped
      <4>3. \A i \in {n} : Follows(g, i, d)
        BY <4>2 DEF n
      <4>4. 1 .. k - 1 = (1 .. n - 1) \cup {n} /\ in'[n].file # g /\ n \in 1 .. n
        BY <2>1, <2>3, <4>1 DEF n
      <4>5. \A j \in 1 .. n - 1 : in'[j] = in[j]
        BY <2>3 DEF n
      <4> QED
        BY <1>7, <4>3, <4>4, <4>5 DEF Follows
    <3> QED
      BY <3>2, <3>3
  <2>11. EndsToCome'
    <3>1. \A g, i : LastToCome(g, i) => LastToCome(g, i)'
      BY <1>a, <2>3, <2>6 DEF LastToCome
    <3> QED
      BY <1>1, <2>1, <2>3, <2>4, <3>1 DEF DownloadInv, EndsToCome, alive
  <2> QED
    BY <1>6, <2>5, <2>7, <2>8, <2>9, <2>10, <2>11 DEF DownloadInv
<1>b. CASE threads' = Append(threads, [file |-> f, sent |-> 0]) /\ UNCHANGED in
  <2> DEFINE n == Len(threads) + 1
  <2>1. /\ threads' \in Seq(Thread) /\ DOMAIN threads' = 1 .. n /\ n \in Nat \ {0}
        /\ DOMAIN threads = 1 .. n - 1
        /\ threads'[n] = [file |-> f, sent |-> 0]
        /\ \A t \in DOMAIN threads : threads'[t] = threads[t]
    <3>1. [file |-> f, sent |-> 0] \in Thread
      BY <1>3 DEF Thread
    <3> QED
      BY <1>2, <1>b, <3>1
  <2>2. \A t \in DOMAIN threads' : t \in DOMAIN threads \/ t = n
    BY <2>1
  <2>3. n \notin DOMAIN threads /\ DOMAIN threads \subseteq DOMAIN threads'
    BY <2>1
  <2> HIDE DEF n
  <2>4. Length[f] \in Nat \ {0}
    BY <1>3, DownloadConstants
  <2>5. TypeOK'
    BY <1>1, <1>2, <1>3, <1>b, <2>1, <2>2, <2>4 DEF TypeOK
  <2>6. \A g \in Files : SendingOf(g)' = IF g = f THEN SendingOf(g) \cup {n} ELSE SendingOf(g)
    <3>1. \A t \in DOMAIN threads : Sending(t)' <=> Sending(t)
      BY <2>1 DEF Sending
    <3>2. \A t : t = n => Sending(t)' /\ threads'[t].file = f
      BY <2>1, <2>4 DEF Sending
    <3>3. ASSUME NEW g \in Files, NEW t
          PROVE  t \in SendingOf(g)' <=> t \in SendingOf(g) \/ (g = f /\ t = n)
      <4>1. CASE t \in DOMAIN threads
        BY <2>1, <2>3, <3>1, <4>1 DEF SendingOf
      <4>2. CASE t \notin DOMAIN threads
        BY <2>2, <2>1, <2>3, <3>2, <4>2 DEF SendingOf
      <4> QED
        BY <4>1, <4>2
    <3> QED
      BY <3>3
  <2>7. \A g : \A t \in SendingOf(g) : threads'[t] = threads[t]
    BY <2>1 DEF SendingOf
  <2>8. WellNumbered'
    BY <1>b DEF DownloadInv, WellNumbered, PieceOf
  <2>9. PendingOnce'
    <3> SUFFICES ASSUME NEW g \in Files \ doubled
                 PROVE  /\ g \in ToSet(requests') => /\ SendingOf(g)' = {}
                                                     /\ \A i \in DOMAIN in : in[i].file # g
                        /\ \A t, u \in SendingOf(g)' : t = u
      BY <1>1, <1>4, <1>b DEF PendingOnce
    <3> QED
      BY <1>4, <1>5, <2>6 DEF DownloadInv, PendingOnce
  <2>10. InOrder'
    <3> SUFFICES ASSUME NEW g \in Files \ doubled
                 PROVE  /\ \A i, j \in DOMAIN in :
                              in[i].file = g /\ in[j].file = g /\ i < j => in[i].data < in[j].data
                        /\ \A t \in SendingOf(g)', i \in DOMAIN in :
                              in[i].file = g => in[i].data < threads'[t].sent
      BY <1>1, <1>b DEF InOrder
    <3>1. CASE g = f
      BY <1>5, <3>1
    <3>2. CASE g # f
      BY <2>6, <2>7, <3>2 DEF DownloadInv, InOrder
    <3> QED
      BY <3>1, <3>2
  <2>11. NothingSkipped'
    <3>1. \A g, i, d : Follows(g, i, d)' <=> Follows(g, i, d)
      BY <1>7, <1>b DEF Follows
    <3>2. \A d \in 1 .. Length[f] : threads'[n].sent # d
      BY <2>1, <2>4
    <3> SUFFICES ASSUME NEW g \in Files \ doubled
                 PROVE  /\ \A i \in DOMAIN in, d \in 1 .. Length[g] :
                              in[i].file = g /\ in[i].data = d => Follows(g, i, d)
                        /\ \A t \in SendingOf(g)', i \in {Len(in) + 1}, d \in 1 .. Length[g] :
                              threads'[t].sent = d => Follows(g, i, d)
      BY <1>1, <1>b, <3>1 DEF NothingSkipped
    <3>3. CASE g = f
      BY <1>5, <2>6, <3>2, <3>3
    <3>4. CASE g # f
      BY <2>6, <2>7, <3>4 DEF DownloadInv, NothingSkipped
    <3> QED
      BY <3>3, <3>4
  <2>12. EndsToCome'
    <3>1. \A g \in Files : \A i : LastToCome(g, i) => LastToCome(g, i)'
      BY <1>b, <2>6, <2>7 DEF LastToCome
    <3> QED
      BY <1>1, <1>b, <3>1 DEF DownloadInv, EndsToCome, alive
  <2> QED
    BY <1>6, <2>5, <2>8, <2>9, <2>10, <2>11, <2>12 DEF DownloadInv
<1> QED
  BY <1>a, <1>b DEF SendFileFromServer, f

LEMMA SendPieceKeeps ==
    ASSUME DownloadInv, NEW t \in DOMAIN threads, SendPiece(t)
    PROVE  DownloadInv'
<1> DEFINE f == threads[t].file
           s == threads[t].sent
           p == PieceOf(f, s)
           n == Len(in) + 1
<1>1. /\ Sending(t) /\ in' = Append(in, p)
      /\ threads' = [threads EXCEPT ![t].sent = @ + 1]
      /\ UNCHANGED <<requests, inputFiles, disk, found, killer, asked, faults,
                     doubled, unsaved, cut>>
  BY DEF SendPiece, history
<1>2. TypeOK /\ threads \in Seq(Thread) /\ in \in Seq(Piece)
  BY DEF DownloadInv, TypeOK
<1>3. threads[t] \in Thread /\ f \in Files /\ s \in Nat /\ s <= Length[f]
  <2>1. threads[t] \in Thread
    BY <1>2
  <2> QED
    BY <1>1, <2>1 DEF Thread, Sending
<1>4. Length[f] \in Nat \ {0}
  BY <1>3, DownloadConstants
<1>5. t \in SendingOf(f)
  BY <1>1 DEF SendingOf
<1> HIDE DEF f, s, p
<1>6. /\ threads' \in Seq(Thread) /\ DOMAIN threads' = DOMAIN threads
      /\ \A u \in DOMAIN threads : threads'[u].file = threads[u].file
      /\ \A u \in DOMAIN threads : u # t => threads'[u].sent = threads[u].sent
      /\ threads'[t].sent = s + 1
  <2>1. threads' = [threads EXCEPT ![t] = [file |-> f, sent |-> s + 1]]
    <3>1. threads' = [threads EXCEPT ![t] = [threads[t] EXCEPT !.sent = s + 1]]
      BY <1>1 DEF s
    <3>2. [threads[t] EXCEPT !.sent = s + 1] = [file |-> f, sent |-> s + 1]
      BY <1>3 DEF Thread, f
    <3> QED
      BY <3>1, <3>2
  <2>2. [file |-> f, sent |-> s + 1] \in Thread
    BY <1>3 DEF Thread
  <2> QED
    BY <1>2, <2>1, <2>2 DEF f
<1>7. /\ p \in Piece /\ p.file = f /\ p.data = s /\ p.piece # 0
      /\ p.piece = 1 <=> s = 0
      /\ p.piece = 3 <=> s = Length[f]
  BY <1>3, PieceFacts DEF p
<1>8. /\ in' \in Seq(Piece) /\ DOMAIN in' = 1 .. n /\ DOMAIN in = 1 .. Len(in)
      /\ Len(in) \in Nat /\ in'[n] = p /\ Len(in') = n
      /\ \A i \in DOMAIN in : i \in DOMAIN in' /\ in'[i] = in[i]
  BY <1>1, <1>2, <1>7, PieceWritten
<1>9. \A i \in DOMAIN in' : i \in DOMAIN in \/ i = n
  BY <1>8
<1>10. n \in Nat /\ \A i \in DOMAIN in : i < n
  BY <1>8
<1> HIDE DEF n
<1>11. TypeOK'
  <2>1. \A u \in DOMAIN threads : threads[u].sent <= Length[threads[u].file] + 1
    BY <1>2 DEF TypeOK
  <2>2. ASSUME NEW u \in DOMAIN threads
        PROVE  threads'[u].sent <= Length[threads'[u].file] + 1
    BY <1>3, <1>4, <1>6, <2>1 DEF f
  <2> QED
    BY <1>1, <1>2, <1>6, <1>8, <2>2 DEF TypeOK
<1>12. \A u \in DOMAIN threads : u # t => (Sending(u)' <=> Sending(u))
  BY <1>6 DEF Sending
<1>13. \A g : SendingOf(g)' \subseteq SendingOf(g)
  <2>1. \A u \in DOMAIN threads : Sending(u)' => Sending(u)
    BY <1>1, <1>12
  <2> QED
    BY <1>6, <2>1 DEF SendingOf
<1>14. WellNumbered'
  BY <1>3, <1>7, <1>8, <1>9 DEF DownloadInv, WellNumbered, PieceOf, p
<1>15. PendingOnce'
  <2>1. f \notin doubled => f \notin ToSet(requests)
    BY <1>3, <1>5 DEF DownloadInv, PendingOnce
  <2> SUFFICES ASSUME NEW g \in Files \ doubled
               PROVE  /\ g \in ToSet(requests) => /\ SendingOf(g)' = {}
                                                  /\ \A i \in DOMAIN in' : in'[i].file # g
                      /\ \A u, v \in SendingOf(g)' : u = v
    BY <1>1 DEF DownloadInv, PendingOnce
  <2> QED
    BY <1>7, <1>8, <1>9, <1>13, <2>1 DEF DownloadInv, PendingOnce
\* The thread of a file asked for once is the only one, and all it sent is behind.
<1>16. f \notin doubled => \A i \in DOMAIN in : in[i].file = f => in[i].data < s
  BY <1>3, <1>5 DEF DownloadInv, InOrder, s
<1>17. f \notin doubled => \A u \in SendingOf(f) : u = t
  BY <1>3, <1>5 DEF DownloadInv, PendingOnce
<1>18. InOrder'
  <2> SUFFICES ASSUME NEW g \in Files \ doubled
               PROVE  /\ \A i, j \in DOMAIN in' :
                            in'[i].file = g /\ in'[j].file = g /\ i < j => in'[i].data < in'[j].data
                      /\ \A u \in SendingOf(g)', i \in DOMAIN in' :
                            in'[i].file = g => in'[i].data < threads'[u].sent
    BY <1>1 DEF InOrder
  <2>1. ASSUME NEW i \in DOMAIN in', NEW j \in DOMAIN in',
               in'[i].file = g, in'[j].file = g, i < j
        PROVE  in'[i].data < in'[j].data
    <3>1. i \in DOMAIN in
      BY <1>8, <1>9, <1>10, <2>1
    <3>2. CASE j \in DOMAIN in
      BY <1>8, <2>1, <3>1, <3>2 DEF DownloadInv, InOrder
    <3>3. CASE j = n
      BY <1>7, <1>8, <1>16, <2>1, <3>1, <3>3
    <3> QED
      BY <1>9, <3>2, <3>3
  <2>2. ASSUME NEW u \in SendingOf(g)', NEW i \in DOMAIN in', in'[i].file = g
        PROVE  in'[i].data < threads'[u].sent
    <3>1. u \in SendingOf(g) /\ u \in DOMAIN threads
      BY <1>13 DEF SendingOf
    <3>2. CASE u = t
      <4>1. g = f
        BY <3>1, <3>2 DEF SendingOf, f
      <4>2. in'[i].data < s \/ in'[i].data = s
        BY <1>7, <1>8, <1>9, <1>16, <2>2, <4>1
      <4>3. in'[i].data \in Nat
        <5>1. in'[i] \in Piece
          BY <1>8
        <5> QED
          BY <5>1 DEF Piece
      <4> QED
        BY <1>3, <1>6, <3>2, <4>2, <4>3
    <3>3. CASE u # t
      <4>1. g # f
        BY <1>17, <3>1, <3>3
      <4>2. i \in DOMAIN in /\ in'[i] = in[i]
        BY <1>7, <1>8, <1>9, <2>2, <4>1
      <4> QED
        BY <1>6, <2>2, <3>1, <3>3, <4>2 DEF DownloadInv, InOrder
    <3> QED
      BY <3>2, <3>3
  <2> QED
    BY <2>1, <2>2
<1>19. \A g, d : Ready(g, d)' <=> Ready(g, d)
  BY <1>1 DEF Ready
<1>20. NothingSkipped'
  <2> SUFFICES ASSUME NEW g \in Files \ doubled
               PROVE  /\ \A i \in DOMAIN in', d \in 1 .. Length[g] :
                            in'[i].file = g /\ in'[i].data = d => Follows(g, i, d)'
                      /\ \A u \in SendingOf(g)', i \in {Len(in') + 1}, d \in 1 .. Length[g] :
                            threads'[u].sent = d => Follows(g, i, d)'
    BY <1>1 DEF NothingSkipped
  <2>1. ASSUME NEW i \in 1 .. n, NEW d, Follows(g, i, d)
        PROVE  Follows(g, i, d)'
    <3>1. \A j \in 1 .. i - 1 : in'[j] = in[j]
      BY <1>8 DEF n
    <3> QED
      BY <1>19, <2>1, <3>1 DEF Follows
  <2>2. ASSUME NEW i \in DOMAIN in', NEW d \in 1 .. Length[g], in'[i].file = g, in'[i].data = d
        PROVE  Follows(g, i, d)'
    <3>1. Follows(g, i, d)
      <4>1. CASE i \in DOMAIN in
        BY <1>8, <2>2, <4>1 DEF DownloadInv, NothingSkipped
      <4>2. CASE i = n
        <5>1. g = f /\ d = s
          BY <1>7, <1>8, <2>2, <4>2
        <5>2. \A k \in {Len(in) + 1} : Follows(f, k, d)
          BY <1>3, <1>5, <5>1 DEF DownloadInv, NothingSkipped, s
        <5> QED
          BY <4>2, <5>1, <5>2 DEF n
      <4> QED
        BY <1>9, <4>1, <4>2
    <3> QED
      BY <1>8, <2>1, <3>1
  <2>3. ASSUME NEW u \in SendingOf(g)', NEW k \in {Len(in') + 1}, NEW d \in 1 .. Length[g],
               threads'[u].sent = d
        PROVE  Follows(g, k, d)'
    <3>1. u \in SendingOf(g) /\ u \in DOMAIN threads
      BY <1>13 DEF SendingOf
    <3>2. CASE u = t
      <4>1. g = f /\ d = s + 1
        BY <1>6, <2>3, <3>1, <3>2 DEF SendingOf, f
      <4>2. n \in 1 .. k - 1 /\ in'[n].file = g /\ in'[n].piece # 0 /\ in'[n].data = d - 1
        BY <1>3, <1>7, <1>8, <1>10, <4>1 DEF n
      <4>3. \E j \in 1 .. k - 1 : in'[j].file = g /\ in'[j].piece # 0 /\ in'[j].data = d - 1
        BY <4>2
      <4> QED
        BY <4>3 DEF Follows
    <3>3. CASE u # t
      <4>1. g # f
        BY <1>17, <3>1, <3>3
      <4>2. \A i \in {Len(in) + 1} : Follows(g, i, d)
        BY <1>6, <2>3, <3>1, <3>3 DEF DownloadInv, NothingSkipped
      <4>3. \A i \in {n} : Follows(g, i, d)
        BY <4>2 DEF n
      <4>4. 1 .. k - 1 = (1 .. n - 1) \cup {n} /\ in'[n].file # g
        BY <1>7, <1>8, <1>10, <4>1 DEF n
      <4>5. \A j \in 1 .. n - 1 : in'[j] = in[j]
        BY <1>8 DEF n
      <4> QED
        BY <1>19, <4>3, <4>4, <4>5 DEF Follows
    <3> QED
      BY <3>2, <3>3
  <2> QED
    BY <2>2, <2>3
<1>21. EndsToCome'
  <2>1. \A i \in DOMAIN in' : i < n \/ i = n
    BY <1>9, <1>10
  <2>2. ASSUME NEW g \in Files, NEW i \in 0 .. n - 1, LastToCome(g, i)
        PROVE  LastToCome(g, i)'
    <3>1. CASE \E j \in DOMAIN in : j > i /\ in[j].file = g /\ in[j].piece = 3
      BY <1>8, <3>1 DEF LastToCome
    <3>2. ASSUME NEW u \in SendingOf(g), threads[u].sent > 0
          PROVE  LastToCome(g, i)'
      <4>1. CASE u = t /\ s = Length[f]
        <5>1. n \in DOMAIN in' /\ n > i /\ in'[n].file = g /\ in'[n].piece = 3
          BY <1>7, <1>8, <1>10, <4>1 DEF SendingOf, f
        <5> QED
          BY <5>1 DEF LastToCome
      <4>2. CASE u = t /\ s # Length[f]
        <5>1. t \in SendingOf(g)' /\ threads'[t].sent > 0
          BY <1>3, <1>4, <1>6, <3>2, <4>2 DEF SendingOf, Sending, f
        <5> QED
          BY <5>1 DEF LastToCome
      <4>3. CASE u # t
        <5>1. u \in SendingOf(g)' /\ threads'[u].sent > 0
          BY <1>6, <1>12, <3>2, <4>3 DEF SendingOf
        <5> QED
          BY <5>1 DEF LastToCome
      <4> QED
        BY <4>1, <4>2, <4>3
    <3> QED
      BY <2>2, <3>1, <3>2 DEF LastToCome
  <2>3. \A g : g = f /\ s = 0 => t \in SendingOf(g)' /\ threads'[t].sent > 0
    BY <1>3, <1>4, <1>5, <1>6 DEF SendingOf, Sending, f
  <2>4. \A g, i : g = f /\ s = 0 => LastToCome(g, i)'
    BY <2>3 DEF LastToCome
  <2> QED
    BY <1>1, <1>7, <1>8, <1>9, <1>10, <2>2, <2>4 DEF DownloadInv, EndsToCome, alive
<1>22. OneEntryEach' /\ SavedIsWhole' /\ OnlyRacesKill'
  BY <1>1, ClientKept
<1> QED
  BY <1>11, <1>14, <1>15, <1>18, <1>20, <1>21, <1>22 DEF DownloadInv

-----------------------------------------------------------------------------
\* Every behaviour.

LEMMA DownloadInit == Init => DownloadInv
<1> SUFFICES ASSUME Init
             PROVE  DownloadInv
  OBVIOUS
<1>1. /\ requests \in Seq(Files) /\ threads \in Seq(Thread) /\ in \in Seq(Piece)
      /\ inputFiles \in Seq(FileEntry)
      /\ DOMAIN requests = {} /\ DOMAIN threads = {} /\ DOMAIN in = {}
      /\ DOMAIN inputFiles = {} /\ ToSet(requests) = {}
  BY DEF Init, ToSet
<1>2. disk \in [Files -> {NoFile} \cup Seq(Nat)] /\ \A f \in Files : disk[f] = NoFile
  BY DEF Init
<1>3. asked \in 0 .. MaxRequests /\ faults \in 0 .. MaxFaults
  BY DownloadConstants DEF Init
<1>4. TypeOK
  BY <1>1, <1>2, <1>3 DEF Init, TypeOK
<1>5. \A f : SendingOf(f) = {}
  BY <1>1 DEF SendingOf
<1>6. WellNumbered /\ PendingOnce /\ InOrder /\ NothingSkipped /\ OneEntryEach /\ EndsToCome
  BY <1>1, <1>5 DEF WellNumbered, PendingOnce, InOrder, NothingSkipped, OneEntryEach, EndsToCome
<1>7. SavedIsWhole /\ OnlyRacesKill
  BY <1>2 DEF Init, SavedIsWhole, OnlyRacesKill, alive
<1> QED
  BY <1>4, <1>6, <1>7 DEF DownloadInv

LEMMA DownloadNext == DownloadInv /\ [Next]_vars => DownloadInv'
<1> SUFFICES ASSUME DownloadInv, [Next]_vars
             PROVE  DownloadInv'
  OBVIOUS
<1>1. CASE UNCHANGED vars
  <2>1. UNCHANGED <<requests, threads, in, inputFiles, disk, found, killer, asked, faults,
                    doubled, unsaved, cut>>
    BY <1>1 DEF vars, history
  <2>2. TypeOK'
    BY <2>1 DEF DownloadInv, TypeOK
  <2>3. \A f : SendingOf(f)' = SendingOf(f)
    BY <2>1 DEF SendingOf, Sending
  <2>4. WellNumbered' /\ InOrder' /\ PendingOnce'
    BY <2>1, <2>3 DEF DownloadInv, WellNumbered, PieceOf, InOrder, PendingOnce
  <2>5. \A f, i, d : Follows(f, i, d)' <=> Follows(f, i, d)
    BY <2>1 DEF Follows, Ready
  <2>6. NothingSkipped' /\ EndsToCome'
    BY <2>1, <2>3, <2>5 DEF DownloadInv, NothingSkipped, EndsToCome, LastToCome, alive
  <2>7. OneEntryEach' /\ SavedIsWhole' /\ OnlyRacesKill'
    BY <2>1, ClientKept
  <2> QED
    BY <2>2, <2>4, <2>6, <2>7 DEF DownloadInv
<1>2. CASE Next
  BY <1>2, LoadFileKeeps, ForgetKeeps, SendFileKeeps, SendPieceKeeps, ReadFailsKeeps,
     BreakKeeps, NotThereKeeps, StartDownloadingKeeps, AddDataKeeps, FinalInputKeeps
     DEF Next, SaveFileInClient
<1> QED
  BY <1>1, <1>2

LEMMA DownloadInvariant == Spec => []DownloadInv
BY DownloadInit, DownloadNext, PTL DEF Spec

\* Every variable of a client's downloads keeps its type.
THEOREM DownloadTypes == Spec => []TypeOK
<1>1. DownloadInv => TypeOK
  BY DEF DownloadInv
<1> QED
  BY <1>1, DownloadInvariant, PTL

\* A file saved has its size, and its pieces in order unless it was asked for again
\* before it was there.
THEOREM DownloadsAreWhole == Spec => []SavedIsWhole
<1>1. DownloadInv => SavedIsWhole
  BY DEF DownloadInv
<1> QED
  BY <1>1, DownloadInvariant, PTL

\* A download makes the client exit only if the file was asked for again, could not
\* be opened, or is an image whose message has gone.
THEOREM DownloadsKillInRaces == Spec => []OnlyRacesKill
<1>1. DownloadInv => OnlyRacesKill
  BY DEF DownloadInv
<1> QED
  BY <1>1, DownloadInvariant, PTL

\* No entry stays in the list once the pieces of its download have come, unless a
\* fault has cut them off.
THEOREM EntriesAreForPending == Spec => []EntriesAreAwaited
<1>1. DownloadInv => EntriesAreAwaited
  <2> SUFFICES ASSUME DownloadInv, alive, NEW i \in DOMAIN inputFiles,
                      inputFiles[i].id \notin cut
               PROVE  Pending(inputFiles[i].id)
    BY DEF EntriesAreAwaited
  <2>1. inputFiles[i].id \in Files
    <3>1. inputFiles \in Seq(FileEntry)
      BY DEF DownloadInv, TypeOK
    <3>2. inputFiles[i] \in FileEntry
      BY <3>1
    <3> QED
      BY <3>2 DEF FileEntry
  <2>2. LastToCome(inputFiles[i].id, 0)
    BY <2>1 DEF DownloadInv, EndsToCome
  <2> QED
    BY <2>2 DEF LastToCome, Pending, SendingOf
<1> QED
  BY <1>1, DownloadInvariant, PTL
=============================================================================
