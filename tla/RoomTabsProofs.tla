---------------------------- MODULE RoomTabsProofs ----------------------------
(* Proofs about RoomTabs, for any rooms and any number of messages.            *)
(*                                                                             *)
(* TabsInv: the list and the notebook are lists in which nothing is twice, and *)
(* what the input thread is in the middle of fits the list.  FollowInv: the    *)
(* positions, those the thread has moved and those it has yet to move, are     *)
(* those of the pages after the functions in the queue.                        *)
EXTENDS RoomTabs, SequenceTheorems, FiniteSetTheorems, WellFoundedInduction, TLAPS

-----------------------------------------------------------------------------
\* What makes the properties inductive.

\* A room is entered while it is not in the list; one that got a message or is left
\* is, and the rooms without a Leave item are never left.
HandledIsListed ==
    handler # NoHandler =>
        /\ handler.type = "ENTER" => handler.room \notin ToSet(list)
        /\ handler.type # "ENTER" => handler.room \in ToSet(list)
        /\ handler.type = "LEAVE" => handler.room \notin Permanent
        /\ handler.type = "MSG" => ~handler.queued
        /\ handler.next \in 1 .. Len(list) + 1
        /\ handler.queued => handler.next = Len(list) + 1

PermanentListed == Permanent \subseteq ToSet(list)

TabsInv == TypeOK /\ HandledIsListed /\ PermanentListed

\* The pages after the queue: those of the rooms in the list, but for the one that is
\* about to be put in or taken out.
RoomsToShow ==
    IF handler = NoHandler \/ ~handler.queued THEN ToSet(list)
    ELSE IF handler.type = "ENTER" THEN ToSet(list) \cup {handler.room}
    ELSE ToSet(list) \ {handler.room}

\* Where a handler has come to room r, with page i of them: it has moved the rooms of
\* the list before next, and of those after only the queue will.
PositionOf(r, i) ==
    IF /\ handler # NoHandler /\ ~handler.queued
       /\ \E j \in DOMAIN list : j < handler.next /\ list[j] = r
    THEN Moved(handler, i - 1)
    ELSE i - 1

FinalPages(final) ==
    /\ final \in Seq(Rooms) /\ IsInjective(final) /\ ToSet(final) = RoomsToShow
    /\ \A i \in DOMAIN final : position[final[i]] = PositionOf(final[i], i)

\* A page that is prepended is turned to, and one that is reordered is there.
NotesFit(after) ==
    \A n \in DOMAIN idle :
        /\ idle[n].call = "prepend" => idle[n].position < Len(after[n])
        /\ idle[n].call = "reorder" => idle[n].room \in ToSet(after[n - 1])

FollowInv ==
    /\ FinalPages(PagesAfter[Len(idle)])
    /\ NotesFit(PagesAfter)
    /\ page = NoRoom => pages = <<>>

-----------------------------------------------------------------------------
\* Lists.

\* A set of numbers has a least one.
LEMMA LeastNumber ==
    ASSUME NEW S, S \subseteq Nat, S # {}
    PROVE  Min(S) \in S /\ \A y \in S : Min(S) <= y
<1>1. \E x \in S : \A y \in S : <<y, x>> \notin OpToRel(<, Nat)
  BY WFMin, NatLessThanWellFounded
<1>2. PICK x \in S : \A y \in S : ~(y < x)
  BY <1>1 DEF OpToRel
<1>3. \E z \in S : \A y \in S : z <= y
  BY <1>2
<1> QED
  BY <1>3 DEF Min

\* A list without its element i.
LEMMA ListWithoutElement ==
    ASSUME NEW S, NEW s \in Seq(S), NEW i \in 1 .. Len(s)
    PROVE  /\ RemoveAt(s, i) \in Seq(S)
           /\ Len(RemoveAt(s, i)) = Len(s) - 1
           /\ \A j \in 1 .. Len(s) - 1 : RemoveAt(s, i)[j] = IF j < i THEN s[j] ELSE s[j + 1]
<1> DEFINE a == SubSeq(s, 1, i - 1)
           b == SubSeq(s, i + 1, Len(s))
<1>1. a \in Seq(S) /\ Len(a) = i - 1 /\ \A j \in 1 .. i - 1 : a[j] = s[j]
  OBVIOUS
<1>2. b \in Seq(S) /\ Len(b) = Len(s) - i
      /\ \A j \in 1 .. Len(s) - i : b[j] = s[i + j]
  OBVIOUS
<1> HIDE DEF a, b
<1>3. /\ a \o b \in Seq(S) /\ Len(a \o b) = Len(a) + Len(b)
      /\ \A j \in 1 .. Len(a) + Len(b) :
            (a \o b)[j] = IF j <= Len(a) THEN a[j] ELSE b[j - Len(a)]
  BY <1>1, <1>2, ConcatProperties
<1>4. RemoveAt(s, i) = a \o b
  BY DEF RemoveAt, a, b
<1>5. ASSUME NEW j \in 1 .. Len(s) - 1
      PROVE  (a \o b)[j] = IF j < i THEN s[j] ELSE s[j + 1]
  <2>1. CASE j < i
    BY <1>1, <1>2, <1>3, <2>1
  <2>2. CASE ~(j < i)
    <3>1. j - (i - 1) \in 1 .. Len(s) - i /\ i + (j - (i - 1)) = j + 1
      BY <2>2
    <3>2. j \in 1 .. Len(a) + Len(b) /\ ~(j <= Len(a)) /\ Len(a) = i - 1
      BY <1>1, <1>2, <2>2
    <3>3. (a \o b)[j] = b[j - (i - 1)]
      BY <1>3, <3>2
    <3> QED
      BY <1>2, <2>2, <3>1, <3>3
  <2> QED
    BY <2>1, <2>2
<1>6. Len(a) + Len(b) = Len(s) - 1
  BY <1>1, <1>2
<1> QED
  BY <1>3, <1>4, <1>5, <1>6

\* A list with e put in at place i.
LEMMA ListWithElement ==
    ASSUME NEW S, NEW s \in Seq(S), NEW i \in 1 .. Len(s) + 1, NEW e \in S
    PROVE  /\ InsertAt(s, i, e) \in Seq(S)
           /\ Len(InsertAt(s, i, e)) = Len(s) + 1
           /\ \A j \in 1 .. Len(s) + 1 : InsertAt(s, i, e)[j] =
                  IF j < i THEN s[j] ELSE IF j = i THEN e ELSE s[j - 1]
<1> DEFINE a == SubSeq(s, 1, i - 1)
           b == SubSeq(s, i, Len(s))
           m == a \o <<e>>
<1>1. a \in Seq(S) /\ Len(a) = i - 1 /\ \A j \in 1 .. i - 1 : a[j] = s[j]
  OBVIOUS
<1>2. b \in Seq(S) /\ Len(b) = Len(s) - i + 1
      /\ \A j \in 1 .. Len(s) - i + 1 : b[j] = s[i - 1 + j]
  OBVIOUS
<1> HIDE DEF a, b
<1>3. m \in Seq(S) /\ Len(m) = i /\ m[i] = e /\ \A j \in 1 .. i - 1 : m[j] = s[j]
  BY <1>1
<1>4. InsertAt(s, i, e) = m \o b
  BY DEF InsertAt, a, b
<1> HIDE DEF m
<1>5. /\ m \o b \in Seq(S) /\ Len(m \o b) = Len(m) + Len(b)
      /\ \A j \in 1 .. Len(m) + Len(b) :
            (m \o b)[j] = IF j <= Len(m) THEN m[j] ELSE b[j - Len(m)]
  BY <1>2, <1>3, ConcatProperties
<1>6. ASSUME NEW j \in 1 .. Len(s) + 1
      PROVE  (m \o b)[j] = IF j < i THEN s[j] ELSE IF j = i THEN e ELSE s[j - 1]
  <2>1. CASE j <= i
    BY <1>2, <1>3, <1>5, <2>1
  <2>2. CASE ~(j <= i)
    <3>1. j - i \in 1 .. Len(s) - i + 1 /\ i - 1 + (j - i) = j - 1
      BY <2>2
    <3> QED
      BY <1>2, <1>3, <1>5, <2>2, <3>1
  <2> QED
    BY <2>1, <2>2
<1> QED
  BY <1>2, <1>3, <1>4, <1>5, <1>6

-----------------------------------------------------------------------------
\* The first place of e in a list, 0 if it is not there.
LEMMA FirstPlace ==
    ASSUME NEW S, NEW s \in Seq(S), NEW e
    PROVE  /\ SelectInSeq(s, LAMBDA v : v = e) \in 0 .. Len(s)
           /\ e \in ToSet(s) => /\ SelectInSeq(s, LAMBDA v : v = e) \in 1 .. Len(s)
                                /\ s[SelectInSeq(s, LAMBDA v : v = e)] = e
           /\ e \notin ToSet(s) => SelectInSeq(s, LAMBDA v : v = e) = 0
<1> DEFINE I == {i \in 1 .. Len(s) : s[i] = e}
           k == SelectInSeq(s, LAMBDA v : v = e)
<1>1. k = IF I # {} THEN Min(I) ELSE 0
  BY DEF SelectInSeq
<1>2. I \subseteq Nat /\ DOMAIN s = 1 .. Len(s) /\ Len(s) \in Nat
  OBVIOUS
<1>3. I # {} => Min(I) \in I
  BY <1>2, LeastNumber
<1>4. e \in ToSet(s) <=> I # {}
  BY <1>2 DEF ToSet
<1> HIDE DEF k
<1>5. CASE I # {}
  <2>1. k \in I
    BY <1>1, <1>3, <1>5
  <2> QED
    BY <1>2, <1>4, <1>5, <2>1 DEF k
<1>6. CASE I = {}
  BY <1>1, <1>2, <1>4, <1>6 DEF k
<1> QED
  BY <1>5, <1>6

\* The first e of a list is the one that is removed.
LEMMA RemovedAt ==
    ASSUME NEW S, NEW s \in Seq(S), NEW e, e \in ToSet(s)
    PROVE  \E k \in 1 .. Len(s) : s[k] = e /\ RemoveFirst(s, e) = RemoveAt(s, k)
<1>1. \E i \in 1 .. Len(s) : s[i] = e
  BY DEF ToSet
<1> DEFINE f == SelectInSeq(s, LAMBDA v : v = e)
<1>2. RemoveFirst(s, e) = RemoveAt(s, f)
  BY <1>1 DEF RemoveFirst
<1>3. f \in 1 .. Len(s) /\ s[f] = e
  BY FirstPlace
<1> HIDE DEF f
<1> QED
  BY <1>2, <1>3

\* A list in which nothing is twice, without e.
LEMMA WithoutElement ==
    ASSUME NEW S, NEW s \in Seq(S), IsInjective(s), NEW e
    PROVE  /\ RemoveFirst(s, e) \in Seq(S) /\ IsInjective(RemoveFirst(s, e))
           /\ ToSet(RemoveFirst(s, e)) = ToSet(s) \ {e}
<1>1. DOMAIN s = 1 .. Len(s) /\ Len(s) \in Nat
  OBVIOUS
<1>2. CASE e \notin ToSet(s)
  BY <1>1, <1>2 DEF RemoveFirst, ToSet
<1>3. CASE e \in ToSet(s)
  <2>1. PICK k \in 1 .. Len(s) : s[k] = e /\ RemoveFirst(s, e) = RemoveAt(s, k)
    BY <1>3, RemovedAt
  <2> DEFINE r == RemoveAt(s, k)
  <2>2. /\ r \in Seq(S) /\ Len(r) = Len(s) - 1
        /\ \A j \in 1 .. Len(s) - 1 : r[j] = IF j < k THEN s[j] ELSE s[j + 1]
    BY ListWithoutElement
  <2> HIDE DEF r
  <2>3. DOMAIN r = 1 .. Len(s) - 1
    BY <2>2
  <2>4. \A j \in DOMAIN r : \E i \in DOMAIN s :
            i = (IF j < k THEN j ELSE j + 1) /\ i # k /\ r[j] = s[i]
    <3> SUFFICES ASSUME NEW j \in DOMAIN r
                 PROVE  LET i == IF j < k THEN j ELSE j + 1
                        IN  i \in DOMAIN s /\ i # k /\ r[j] = s[i]
      OBVIOUS
    <3>1. CASE j < k
      BY <1>1, <2>2, <2>3, <3>1
    <3>2. CASE ~(j < k)
      BY <1>1, <2>2, <2>3, <3>2
    <3> QED
      BY <3>1, <3>2
  <2>5. \A i \in DOMAIN s : i # k => \E j \in DOMAIN r : r[j] = s[i]
    <3> SUFFICES ASSUME NEW i \in DOMAIN s, i # k
                 PROVE  \E j \in DOMAIN r : r[j] = s[i]
      OBVIOUS
    <3>1. CASE i < k
      <4>1. i \in DOMAIN r /\ r[i] = s[i]
        BY <1>1, <2>2, <2>3, <3>1
      <4> QED
        BY <4>1
    <3>2. CASE i > k
      <4>1. i - 1 \in DOMAIN r /\ ~(i - 1 < k) /\ (i - 1) + 1 = i
        BY <1>1, <2>3, <3>2
      <4>2. r[i - 1] = s[i]
        BY <2>2, <2>3, <4>1
      <4> QED
        BY <4>1, <4>2
    <3> QED
      BY <1>1, <3>1, <3>2
  <2>6. \A i \in DOMAIN s : s[i] = e <=> i = k
    BY <1>1, <2>1 DEF IsInjective
  <2>7. ToSet(r) = ToSet(s) \ {e}
    BY <2>4, <2>5, <2>6 DEF ToSet
  <2>8. IsInjective(r)
    <3> SUFFICES ASSUME NEW i \in DOMAIN r, NEW j \in DOMAIN r, r[i] = r[j]
                 PROVE  i = j
      BY DEF IsInjective
    <3>1. (IF i < k THEN i ELSE i + 1) = (IF j < k THEN j ELSE j + 1)
      BY <2>4 DEF IsInjective
    <3> QED
      BY <2>3, <3>1
  <2> QED
    BY <2>1, <2>2, <2>7, <2>8 DEF r
<1> QED
  BY <1>2, <1>3

\* A list in which nothing is twice, with something new put in.
LEMMA WithNew ==
    ASSUME NEW S, NEW s \in Seq(S), IsInjective(s), NEW k \in 1 .. Len(s) + 1,
           NEW e \in S, e \notin ToSet(s)
    PROVE  /\ InsertAt(s, k, e) \in Seq(S) /\ IsInjective(InsertAt(s, k, e))
           /\ ToSet(InsertAt(s, k, e)) = ToSet(s) \cup {e}
<1> DEFINE r == InsertAt(s, k, e)
<1>1. /\ r \in Seq(S) /\ Len(r) = Len(s) + 1
      /\ \A j \in 1 .. Len(s) + 1 :
            r[j] = IF j < k THEN s[j] ELSE IF j = k THEN e ELSE s[j - 1]
  BY ListWithElement
<1>2. DOMAIN s = 1 .. Len(s) /\ Len(s) \in Nat
  OBVIOUS
<1> HIDE DEF r
<1>3. DOMAIN r = 1 .. Len(s) + 1 /\ k \in DOMAIN r /\ r[k] = e
  BY <1>1, <1>2
<1>4. \A j \in DOMAIN r : j # k =>
          \E i \in DOMAIN s : i = (IF j < k THEN j ELSE j - 1) /\ r[j] = s[i]
  <2> SUFFICES ASSUME NEW j \in DOMAIN r, j # k
               PROVE  LET i == IF j < k THEN j ELSE j - 1
                      IN  i \in DOMAIN s /\ r[j] = s[i]
    OBVIOUS
  <2>1. CASE j < k
    BY <1>1, <1>2, <1>3, <2>1
  <2>2. CASE j > k
    BY <1>1, <1>2, <1>3, <2>2
  <2> QED
    BY <1>3, <2>1, <2>2
<1>5. \A i \in DOMAIN s : \E j \in DOMAIN r : r[j] = s[i]
  <2> SUFFICES ASSUME NEW i \in DOMAIN s
               PROVE  \E j \in DOMAIN r : r[j] = s[i]
    OBVIOUS
  <2>1. CASE i < k
    <3>1. i \in DOMAIN r /\ r[i] = s[i]
      BY <1>1, <1>2, <1>3, <2>1
    <3> QED
      BY <3>1
  <2>2. CASE ~(i < k)
    <3>1. i + 1 \in DOMAIN r /\ ~(i + 1 < k) /\ i + 1 # k /\ (i + 1) - 1 = i
      BY <1>2, <1>3, <2>2
    <3>2. r[i + 1] = s[i]
      BY <1>1, <1>3, <3>1
    <3> QED
      BY <3>1, <3>2
  <2> QED
    BY <2>1, <2>2
<1>6. \A i \in DOMAIN s : s[i] # e
  BY DEF ToSet
<1>7. ToSet(r) = ToSet(s) \cup {e}
  BY <1>3, <1>4, <1>5 DEF ToSet
<1>8. IsInjective(r)
  <2> SUFFICES ASSUME NEW i \in DOMAIN r, NEW j \in DOMAIN r, r[i] = r[j]
               PROVE  i = j
    BY DEF IsInjective
  <2>1. CASE i # k /\ j # k
    <3>1. (IF i < k THEN i ELSE i - 1) = (IF j < k THEN j ELSE j - 1)
      BY <1>4, <2>1 DEF IsInjective
    <3> QED
      BY <1>3, <2>1, <3>1
  <2>2. CASE i = k \/ j = k
    BY <1>3, <1>4, <1>6, <2>2
  <2> QED
    BY <2>1, <2>2
<1> QED
  BY <1>1, <1>7, <1>8 DEF r

\* A list in which nothing is twice, with something new at its end.
LEMMA AppendNew ==
    ASSUME NEW S, NEW s \in Seq(S), IsInjective(s), NEW e \in S, e \notin ToSet(s)
    PROVE  /\ Append(s, e) \in Seq(S) /\ IsInjective(Append(s, e))
           /\ ToSet(Append(s, e)) = ToSet(s) \cup {e}
<1>1. /\ Append(s, e) \in Seq(S) /\ DOMAIN Append(s, e) = 1 .. Len(s) + 1
      /\ DOMAIN s = 1 .. Len(s) /\ Len(s) \in Nat /\ Append(s, e)[Len(s) + 1] = e
      /\ \A i \in 1 .. Len(s) : Append(s, e)[i] = s[i]
  OBVIOUS
<1>2. \A i \in DOMAIN Append(s, e) : i \in DOMAIN s \/ i = Len(s) + 1
  BY <1>1
<1>3. \A i \in DOMAIN s : s[i] # e /\ i \in DOMAIN Append(s, e)
  BY <1>1 DEF ToSet
<1>4. Len(s) + 1 \in DOMAIN Append(s, e)
  BY <1>1
<1> QED
  BY <1>1, <1>2, <1>3, <1>4 DEF IsInjective, ToSet

-----------------------------------------------------------------------------

LEMMA TabsConstants ==
    /\ InitialRooms \in Seq(Rooms) /\ IsInjective(InitialRooms)
    /\ MaxHandled \in Nat /\ NoRoom \notin Rooms /\ NoHandler \notin Handler
    /\ Permanent \subseteq ToSet(InitialRooms) /\ Permanent # {}
BY TabsAssumption

\* The new position of a room is a position.
LEMMA MovedFacts ==
    ASSUME position \in [Rooms -> Nat], NEW h \in Handler, NEW p \in Nat
    PROVE  Moved(h, p) \in Nat
<1>1. position[h.room] \in Nat
  BY DEF Handler
<1> QED
  BY <1>1 DEF Moved

-----------------------------------------------------------------------------
\* The places of the others after e has been taken out of a list or put first in it.

LEMMA TakenOut ==
    ASSUME NEW S, NEW s \in Seq(S), IsInjective(s), NEW e, NEW k \in DOMAIN s, s[k] = e
    PROVE  \A j \in DOMAIN RemoveFirst(s, e) : \E i \in DOMAIN s :
              /\ RemoveFirst(s, e)[j] = s[i] /\ s[i] # e
              /\ j = IF i < k THEN i ELSE i - 1
<1>1. DOMAIN s = 1 .. Len(s) /\ Len(s) \in Nat
  OBVIOUS
<1>2. RemoveFirst(s, e) = RemoveAt(s, k)
  <2>1. PICK l \in 1 .. Len(s) : s[l] = e /\ RemoveFirst(s, e) = RemoveAt(s, l)
    <3>1. e \in ToSet(s)
      BY DEF ToSet
    <3> QED
      BY <3>1, RemovedAt
  <2>2. l = k
    BY <1>1, <2>1 DEF IsInjective
  <2> QED
    BY <2>1, <2>2
<1> DEFINE r == RemoveAt(s, k)
<1>3. /\ r \in Seq(S) /\ Len(r) = Len(s) - 1
      /\ \A j \in 1 .. Len(s) - 1 : r[j] = IF j < k THEN s[j] ELSE s[j + 1]
  BY <1>1, ListWithoutElement
<1> HIDE DEF r
<1>4. ASSUME NEW j \in DOMAIN r
      PROVE  \E i \in DOMAIN s : r[j] = s[i] /\ s[i] # e /\ j = IF i < k THEN i ELSE i - 1
  <2>1. j \in 1 .. Len(s) - 1
    BY <1>1, <1>3
  <2>2. PICK i \in DOMAIN s : i = IF j < k THEN j ELSE j + 1
    BY <1>1, <2>1
  <2>3. r[j] = s[i] /\ i # k /\ j = IF i < k THEN i ELSE i - 1
    BY <1>1, <1>3, <2>1, <2>2
  <2>4. s[i] # e
    BY <2>3 DEF IsInjective
  <2> QED
    BY <2>3, <2>4
<1> QED
  BY <1>2, <1>4 DEF r

LEMMA NotThere ==
    ASSUME NEW S, NEW s \in Seq(S), NEW e, e \notin ToSet(s)
    PROVE  RemoveFirst(s, e) = s
<1>1. DOMAIN s = 1 .. Len(s)
  OBVIOUS
<1> QED
  BY <1>1 DEF RemoveFirst, ToSet

\* The room goes to the first tab: all the others if it is new, and those before it if
\* it is not, make place for it.
LEMMA PutFirst ==
    ASSUME NEW p \in Seq(Rooms), IsInjective(p), NEW r \in Rooms
    PROVE  /\ Len(MovedTo(p, r, 0)) \in Nat \ {0}
           /\ \A j \in DOMAIN MovedTo(p, r, 0) :
                 \/ MovedTo(p, r, 0)[j] = r /\ j = 1
                 \/ \E i \in DOMAIN p :
                       /\ MovedTo(p, r, 0)[j] = p[i] /\ p[i] # r
                       /\ r \notin ToSet(p) => j = i + 1
                       /\ \A k \in DOMAIN p :
                             p[k] = r => j = IF i < k THEN i + 1 ELSE i
<1> DEFINE others == RemoveFirst(p, r)
           m == InsertAt(others, 1, r)
<1>1. others \in Seq(Rooms) /\ ToSet(others) = ToSet(p) \ {r}
  BY WithoutElement
<1>2. \A j \in DOMAIN others : \E i \in DOMAIN p :
          /\ others[j] = p[i] /\ p[i] # r
          /\ r \notin ToSet(p) => j = i
          /\ \A k \in DOMAIN p : p[k] = r => j = IF i < k THEN i ELSE i - 1
  <2>1. CASE r \notin ToSet(p)
    <3>1. others = p
      BY <2>1, NotThere
    <3>2. \A k \in DOMAIN p : p[k] # r
      BY <2>1 DEF ToSet
    <3> HIDE DEF others
    <3> QED
      BY <3>1, <3>2
  <2>2. CASE r \in ToSet(p)
    <3>1. PICK k \in DOMAIN p : p[k] = r
      BY <2>2 DEF ToSet
    <3>2. \A l \in DOMAIN p : p[l] = r => l = k
      BY <3>1 DEF IsInjective
    <3>3. \A j \in DOMAIN others : \E i \in DOMAIN p :
              others[j] = p[i] /\ p[i] # r /\ j = IF i < k THEN i ELSE i - 1
      BY <3>1, TakenOut
    <3> HIDE DEF others
    <3> QED
      BY <2>2, <3>2, <3>3
  <2> QED
    BY <2>1, <2>2
<1>3. MovedTo(p, r, 0) = m
  <2>1. Len(others) \in Nat /\ ~(0 > Len(others))
    BY <1>1
  <2> QED
    BY <2>1 DEF MovedTo
<1> HIDE DEF others
<1>4. /\ m \in Seq(Rooms) /\ Len(m) = Len(others) + 1
      /\ \A j \in 1 .. Len(others) + 1 :
            m[j] = IF j < 1 THEN others[j] ELSE IF j = 1 THEN r ELSE others[j - 1]
  <2>1. Len(others) \in Nat /\ 1 \in 1 .. Len(others) + 1
    BY <1>1
  <2> QED
    BY <1>1, <2>1, ListWithElement
<1> HIDE DEF m
<1>5. /\ Len(others) \in Nat /\ DOMAIN others = 1 .. Len(others)
      /\ DOMAIN m = 1 .. Len(others) + 1 /\ DOMAIN p \subseteq Nat
  BY <1>1, <1>4
<1>6. ASSUME NEW j \in DOMAIN m, j # 1
      PROVE  \E i \in DOMAIN p :
                /\ m[j] = p[i] /\ p[i] # r
                /\ r \notin ToSet(p) => j = i + 1
                /\ \A k \in DOMAIN p : p[k] = r => j = IF i < k THEN i + 1 ELSE i
  <2>1. j - 1 \in DOMAIN others /\ m[j] = others[j - 1] /\ j \in Nat
    BY <1>4, <1>5, <1>6
  <2>2. PICK i \in DOMAIN p :
            /\ others[j - 1] = p[i] /\ p[i] # r
            /\ r \notin ToSet(p) => j - 1 = i
            /\ \A k \in DOMAIN p : p[k] = r => j - 1 = IF i < k THEN i ELSE i - 1
    BY <1>2, <2>1
  <2>3. ASSUME NEW k \in DOMAIN p, p[k] = r
        PROVE  j = IF i < k THEN i + 1 ELSE i
    <3>1. j - 1 = IF i < k THEN i ELSE i - 1
      BY <2>2, <2>3
    <3> QED
      BY <1>5, <2>1, <3>1
  <2>4. r \notin ToSet(p) => j = i + 1
    BY <1>5, <2>1, <2>2
  <2> QED
    BY <2>1, <2>2, <2>3, <2>4
<1>7. m[1] = r /\ Len(m) \in Nat \ {0}
  BY <1>4, <1>5
<1> QED
  BY <1>3, <1>6, <1>7

\* Two lists of the same things, none of them twice, are equally long.
LEMMA SameLength ==
    ASSUME NEW S, NEW s \in Seq(S), NEW t \in Seq(S), IsInjective(s), IsInjective(t),
           ToSet(s) = ToSet(t)
    PROVE  Len(s) = Len(t)
<1>1. ASSUME NEW q \in Seq(S), IsInjective(q)
      PROVE  Cardinality(ToSet(q)) = Len(q)
  <2>1. Len(q) \in Nat /\ q \in [1 .. Len(q) -> ToSet(q)] /\ DOMAIN q = 1 .. Len(q)
    BY DEF ToSet
  <2>2. \A x \in ToSet(q) : \E i \in 1 .. Len(q) : q[i] = x
    BY <2>1 DEF ToSet
  <2>3. q \in Bijection(1 .. Len(q), ToSet(q))
    BY <1>1, <2>1, <2>2 DEF Bijection, Injection, Surjection, IsInjective
  <2>4. ExistsBijection(1 .. Len(q), ToSet(q))
    BY <2>3 DEF ExistsBijection
  <2> QED
    BY <2>1, <2>4, FS_CountingElements
<1> QED
  BY <1>1

-----------------------------------------------------------------------------
\* The pages after each of the notes of a queue.

\* f holds p, and what p is after one, two, ... n of the notes of q.
IsRun(f, p, q, n) == f = [k \in 0 .. n |-> IF k = 0 THEN p ELSE AfterNote(f[k - 1], q[k])]

LEMMA RunStep ==
    ASSUME NEW f, NEW p, NEW q, NEW n \in Nat
    PROVE  IsRun(f, p, q, n) =>
               /\ DOMAIN f = 0 .. n /\ f[0] = p
               /\ \A k \in 1 .. n : f[k] = AfterNote(f[k - 1], q[k])
<1> DEFINE Entry(k) == IF k = 0 THEN p ELSE AfterNote(f[k - 1], q[k])
<1> SUFFICES ASSUME f = [k \in 0 .. n |-> Entry(k)]
             PROVE  DOMAIN f = 0 .. n /\ f[0] = p
                    /\ \A k \in 1 .. n : f[k] = AfterNote(f[k - 1], q[k])
  BY DEF IsRun
<1>1. DOMAIN f = 0 .. n /\ \A k \in 0 .. n : f[k] = Entry(k)
  <2> HIDE DEF Entry
  <2> QED
    OBVIOUS
<1>2. 0 \in 0 .. n /\ \A k \in 1 .. n : k \in 0 .. n /\ k # 0
  OBVIOUS
<1> QED
  BY <1>1, <1>2

LEMMA RunByStep ==
    ASSUME NEW f, NEW p, NEW q, NEW n \in Nat,
           f = [k \in 0 .. n |-> f[k]], f[0] = p,
           \A k \in 1 .. n : f[k] = AfterNote(f[k - 1], q[k])
    PROVE  IsRun(f, p, q, n)
<1> DEFINE Entry(k) == IF k = 0 THEN p ELSE AfterNote(f[k - 1], q[k])
<1>1. ASSUME NEW k \in 0 .. n
      PROVE  f[k] = Entry(k)
  <2>1. k # 0 => k \in 1 .. n
    OBVIOUS
  <2> QED
    BY <2>1
<1> HIDE DEF Entry
<1>2. f = [k \in 0 .. n |-> Entry(k)]
  BY <1>1
<1> QED
  BY <1>2 DEF IsRun, Entry

\* There is a run along every queue: no place is the first where there is none.
LEMMA RunExists ==
    ASSUME NEW p, NEW q, NEW n \in Nat
    PROVE  \E f : IsRun(f, p, q, n)
<1> DEFINE B == {m \in Nat : ~ \E f : IsRun(f, p, q, m)}
<1> SUFFICES ASSUME B # {}
             PROVE  FALSE
  OBVIOUS
<1>1. B \subseteq Nat
  OBVIOUS
<1>2. PICK m \in B : \A l \in B : m <= l
  BY <1>1, LeastNumber
<1>3. m \in Nat /\ ~ \E f : IsRun(f, p, q, m)
  OBVIOUS
<1>4. m # 0
  <2> DEFINE f == [k \in 0 .. 0 |-> p]
  <2>1. f = [k \in 0 .. 0 |-> f[k]] /\ f[0] = p /\ 0 \in Nat
    OBVIOUS
  <2> HIDE DEF f
  <2>2. \A k \in 1 .. 0 : f[k] = AfterNote(f[k - 1], q[k])
    OBVIOUS
  <2>3. IsRun(f, p, q, 0)
    BY <2>1, <2>2, RunByStep
  <2> QED
    BY <1>3, <2>3
<1>5. PICK g : IsRun(g, p, q, m - 1)
  <2>1. m - 1 \in Nat /\ ~(m <= m - 1)
    BY <1>3, <1>4
  <2> QED
    BY <1>2, <2>1
<1>6. /\ DOMAIN g = 0 .. m - 1 /\ g[0] = p
      /\ \A k \in 1 .. m - 1 : g[k] = AfterNote(g[k - 1], q[k])
  <2>1. m - 1 \in Nat
    BY <1>3, <1>4
  <2> QED
    BY <1>5, <2>1, RunStep
<1> DEFINE last == AfterNote(g[m - 1], q[m])
<1>7. PICK f : f = [k \in 0 .. m |-> IF k = m THEN last ELSE g[k]]
  OBVIOUS
<1>8. f = [k \in 0 .. m |-> f[k]] /\ \A k \in 0 .. m : f[k] = IF k = m THEN last ELSE g[k]
  <2> HIDE DEF last
  <2> QED
    BY <1>7
<1>9. f[0] = p
  BY <1>3, <1>4, <1>6, <1>8
<1>10. ASSUME NEW k \in 1 .. m
       PROVE  f[k] = AfterNote(f[k - 1], q[k])
  <2>1. k - 1 \in 0 .. m /\ k \in 0 .. m /\ k - 1 # m /\ (k # m => k \in 1 .. m - 1)
    BY <1>3
  <2>2. f[k - 1] = g[k - 1]
    BY <1>8, <2>1
  <2>3. CASE k = m
    BY <1>8, <2>1, <2>2, <2>3
  <2>4. CASE k # m
    <3>1. f[k] = g[k] /\ g[k] = AfterNote(g[k - 1], q[k])
      BY <1>6, <1>8, <2>1, <2>4
    <3> QED
      BY <2>2, <3>1
  <2> QED
    BY <2>3, <2>4
<1>11. IsRun(f, p, q, m)
  BY <1>3, <1>8, <1>9, <1>10, RunByStep
<1> QED
  BY <1>3, <1>11

\* And one only: two runs do not part anywhere.
RunsTo(f, p, q, n) == f[0] = p /\ \A k \in 1 .. n : f[k] = AfterNote(f[k - 1], q[k])

LEMMA RunUnique ==
    ASSUME NEW f, NEW g, NEW p, NEW q, NEW n \in Nat,
           RunsTo(f, p, q, n), RunsTo(g, p, q, n)
    PROVE  \A k \in 0 .. n : f[k] = g[k]
<1> DEFINE B == {k \in 0 .. n : f[k] # g[k]}
<1> SUFFICES ASSUME B # {}
             PROVE  FALSE
  OBVIOUS
<1>1. B \subseteq Nat
  OBVIOUS
<1>2. PICK m \in B : \A l \in B : m <= l
  BY <1>1, LeastNumber
<1>3. m \in 1 .. n /\ m - 1 \in 0 .. n /\ ~(m <= m - 1)
  BY DEF RunsTo
<1>4. f[m - 1] = g[m - 1]
  BY <1>2, <1>3
<1>5. f[m] = g[m]
  BY <1>3, <1>4 DEF RunsTo
<1> QED
  BY <1>5

LEMMA PagesAfterStep ==
    ASSUME NEW n \in Nat, n = Len(idle)
    PROVE  /\ DOMAIN PagesAfter = 0 .. n /\ PagesAfter[0] = pages
           /\ \A k \in 1 .. n : PagesAfter[k] = AfterNote(PagesAfter[k - 1], idle[k])
<1>1. \E f : IsRun(f, pages, idle, n)
  BY RunExists
<1>2. IsRun(PagesAfter, pages, idle, n)
  BY <1>1 DEF IsRun, PagesAfter
<1> QED
  BY <1>2, RunStep

-----------------------------------------------------------------------------
\* The input thread.

LEMMA BeginKeeps ==
    ASSUME TabsInv, NEW r \in Rooms, InputMessage(r) \/ EnterRoom(r) \/ LeaveRoom(r)
    PROVE  TabsInv'
<1>1. PICK type \in {"MSG", "ENTER", "LEAVE"} :
          /\ Begin(type, r)
          /\ type = "ENTER" => r \notin ToSet(list)
          /\ type # "ENTER" => r \in ToSet(list)
          /\ type = "LEAVE" => r \notin Permanent
  BY DEF InputMessage, EnterRoom, LeaveRoom
<1>2. /\ handled < MaxHandled /\ handled' = handled + 1
      /\ handler' = [type |-> type, room |-> r, next |-> 1, queued |-> FALSE]
      /\ UNCHANGED <<list, position, idle, pages, page, currentRoom, crashed>>
  BY <1>1 DEF Begin, window
<1>3. handler' \in Handler
  BY <1>2 DEF Handler
<1>4. handled' \in 0 .. MaxHandled
  BY <1>2, TabsConstants DEF TabsInv, TypeOK
<1>5. TypeOK'
  BY <1>2, <1>3, <1>4 DEF TabsInv, TypeOK
<1>6. HandledIsListed'
  <2>1. Len(list') \in Nat
    BY <1>2 DEF TabsInv, TypeOK
  <2> QED
    BY <1>1, <1>2, <2>1 DEF HandledIsListed
<1>7. PermanentListed'
  BY <1>2 DEF TabsInv, PermanentListed
<1> QED
  BY <1>5, <1>6, <1>7 DEF TabsInv

LEMMA MoveNextKeeps ==
    ASSUME TabsInv, MoveNext
    PROVE  TabsInv'
<1>1. /\ handler \in Handler /\ handler.next <= Len(list)
      /\ position' = [position EXCEPT ![list[handler.next]] = Moved(handler, @)]
      /\ handler' = [handler EXCEPT !.next = @ + 1]
      /\ UNCHANGED <<list, handled, idle, pages, page, currentRoom, crashed>>
  BY DEF MoveNext, TabsInv, TypeOK, window
<1>2. position \in [Rooms -> Nat] /\ list \in Seq(Rooms)
  BY DEF TabsInv, TypeOK
<1>3. position' \in [Rooms -> Nat]
  <2>1. \A r \in Rooms : Moved(handler, position[r]) \in Nat
    BY <1>1, <1>2, MovedFacts
  <2> QED
    BY <1>1, <1>2, <2>1
<1>4. /\ handler' \in Handler /\ handler'.type = handler.type /\ handler'.room = handler.room
      /\ handler'.queued = handler.queued /\ handler'.next = handler.next + 1
  BY <1>1 DEF Handler
<1>5. TypeOK'
  BY <1>1, <1>3, <1>4 DEF TabsInv, TypeOK
<1>6. HandledIsListed'
  <2>1. HandledIsListed /\ handler # NoHandler /\ Len(list) \in Nat
    BY <1>2 DEF TabsInv, MoveNext
  <2>2. handler'.next \in 1 .. Len(list) + 1
    BY <1>1, <1>4, <2>1 DEF HandledIsListed
  <2> QED
    BY <1>1, <1>4, <2>1, <2>2 DEF HandledIsListed
<1>7. PermanentListed'
  BY <1>1 DEF TabsInv, PermanentListed
<1> QED
  BY <1>5, <1>6, <1>7 DEF TabsInv

LEMMA QueueKeeps ==
    ASSUME TabsInv, Queue
    PROVE  TabsInv'
<1> DEFINE r == handler.room
<1>1. /\ handler \in Handler /\ handler # NoHandler
      /\ UNCHANGED <<list, handled, pages, page, currentRoom, crashed>>
  BY DEF Queue, TabsInv, TypeOK, window
<1>2. /\ position \in [Rooms -> Nat] /\ idle \in Seq(Note)
  BY DEF TabsInv, TypeOK
<1>3. r \in Rooms
  BY <1>1 DEF Handler
<1>4. [position EXCEPT ![r] = 0] \in [Rooms -> Nat]
  BY <1>2
<1>5. /\ NoteFor("reorder", r, 0) \in Note /\ NoteFor("prepend", r, 0) \in Note
      /\ NoteFor("detach", r, 0) \in Note
  BY <1>3 DEF NoteFor, Note
<1>6. /\ [handler EXCEPT !.queued = TRUE] \in Handler
      /\ [handler EXCEPT !.queued = TRUE].type = handler.type
      /\ [handler EXCEPT !.queued = TRUE].room = handler.room
      /\ [handler EXCEPT !.queued = TRUE].next = handler.next
  BY <1>1 DEF Handler
<1>7. /\ position' \in [Rooms -> Nat] /\ idle' \in Seq(Note)
      /\ handler' \in {NoHandler, [handler EXCEPT !.queued = TRUE]}
  <2>1. \A n \in Note : Append(idle, n) \in Seq(Note)
    BY <1>2
  <2>2. /\ position' = [position EXCEPT ![r] = 0] \/ position' = position
        /\ \E call \in {"reorder", "prepend", "detach"} : idle' = Append(idle, NoteFor(call, r, 0))
        /\ handler' = NoHandler \/ handler' = [handler EXCEPT !.queued = TRUE]
    BY DEF Queue
  <2> HIDE DEF r
  <2> QED
    BY <1>2, <1>4, <1>5, <2>1, <2>2
<1>8. TypeOK'
  BY <1>1, <1>6, <1>7 DEF TabsInv, TypeOK
<1>9. HandledIsListed'
  <2>1. handler' = [handler EXCEPT !.queued = TRUE] => handler.type # "MSG"
        \/ handler' = NoHandler
    BY DEF Queue
  <2>2. HandledIsListed /\ Len(list) \in Nat
    BY DEF TabsInv, TypeOK
  <2>3. handler.next = Len(list) + 1
    BY <1>1, <2>2 DEF HandledIsListed, Queue
  <2> QED
    BY <1>1, <1>6, <1>7, <2>1, <2>2, <2>3 DEF HandledIsListed
<1>10. PermanentListed'
  BY <1>1 DEF TabsInv, PermanentListed
<1> QED
  BY <1>8, <1>9, <1>10 DEF TabsInv

LEMMA LinkKeeps ==
    ASSUME TabsInv, Link
    PROVE  TabsInv'
<1>1. /\ handler \in Handler /\ handler # NoHandler /\ handler' = NoHandler
      /\ list' = IF handler.type = "ENTER" THEN Append(list, handler.room)
                 ELSE RemoveFirst(list, handler.room)
      /\ UNCHANGED <<position, handled, idle, pages, page, currentRoom, crashed>>
  BY DEF Link, TabsInv, TypeOK, window
<1>2. list \in Seq(Rooms) /\ IsInjective(list)
  BY DEF TabsInv, TypeOK
<1>3. handler.room \in Rooms
  BY <1>1 DEF Handler
<1>4. /\ list' \in Seq(Rooms) /\ IsInjective(list')
      /\ ToSet(list') = IF handler.type = "ENTER" THEN ToSet(list) \cup {handler.room}
                        ELSE ToSet(list) \ {handler.room}
  <2>1. CASE handler.type = "ENTER"
    <3>1. handler.room \notin ToSet(list)
      BY <1>1, <2>1 DEF TabsInv, HandledIsListed
    <3> QED
      BY <1>1, <1>2, <1>3, <2>1, <3>1, AppendNew
  <2>2. CASE handler.type # "ENTER"
    BY <1>1, <1>2, <2>2, WithoutElement
  <2> QED
    BY <2>1, <2>2
<1>5. TypeOK'
  BY <1>1, <1>4 DEF TabsInv, TypeOK
<1>6. HandledIsListed'
  BY <1>1 DEF HandledIsListed
<1>7. PermanentListed'
  <2>1. handler.type # "ENTER" => handler.room \notin Permanent
    <3>1. handler.type \in {"MSG", "ENTER", "LEAVE"} /\ handler.queued
      BY <1>1 DEF Handler, Link
    <3> QED
      BY <1>1, <3>1 DEF TabsInv, HandledIsListed
  <2> QED
    BY <1>4, <2>1 DEF TabsInv, PermanentListed
<1> QED
  BY <1>5, <1>6, <1>7 DEF TabsInv

-----------------------------------------------------------------------------
\* The notebook.

LEMMA TurnedFacts ==
    ASSUME NEW p \in Seq(Rooms), NEW to \in Nat
    PROVE  Turned(to, p) \in ToSet(p) \cup {page}
<1>1. to < Len(p) => to + 1 \in DOMAIN p
  OBVIOUS
<1> QED
  BY <1>1 DEF Turned, ToSet

LEMMA MovedToFacts ==
    ASSUME NEW p \in Seq(Rooms), IsInjective(p), NEW r \in Rooms, NEW to \in Nat
    PROVE  /\ MovedTo(p, r, to) \in Seq(Rooms) /\ IsInjective(MovedTo(p, r, to))
           /\ ToSet(MovedTo(p, r, to)) = ToSet(p) \cup {r}
<1> DEFINE others == RemoveFirst(p, r)
           k == IF to > Len(others) THEN Len(others) + 1 ELSE to + 1
<1>1. others \in Seq(Rooms) /\ IsInjective(others) /\ ToSet(others) = ToSet(p) \ {r}
  BY WithoutElement
<1>2. MovedTo(p, r, to) = InsertAt(others, k, r)
  BY DEF MovedTo
<1> HIDE DEF others
<1>3. k \in 1 .. Len(others) + 1
  BY <1>1
<1> HIDE DEF k
<1> QED
  BY <1>1, <1>2, <1>3, WithNew

LEMMA RunIdleKeeps ==
    ASSUME TabsInv, RunIdle
    PROVE  TabsInv'
<1> DEFINE note == Head(idle)
<1>1. /\ idle # <<>> /\ idle' = Tail(idle)
      /\ pages' = AfterNote(pages, note)
      /\ page' = CASE note.call = "prepend" -> Turned(note.position, pages')
                   [] note.call = "detach" /\ page = note.room -> Neighbour(pages, note.room)
                   [] OTHER -> page
      /\ UNCHANGED <<list, position, handler, handled, currentRoom, crashed>>
  BY DEF RunIdle, inputThread
<1>2. /\ idle \in Seq(Note) /\ pages \in Seq(Rooms) /\ IsInjective(pages)
      /\ page \in ToSet(pages) \cup {NoRoom}
  BY DEF TabsInv, TypeOK
<1>3. idle' \in Seq(Note) /\ note \in Note
  BY <1>1, <1>2
<1> HIDE DEF note
<1>4. note.room \in Rooms /\ note.position \in Nat /\ note.call \in {"prepend", "reorder", "detach"}
  BY <1>3 DEF Note
<1>5. /\ pages' \in Seq(Rooms) /\ IsInjective(pages')
      /\ ToSet(pages') = IF note.call = "detach" THEN ToSet(pages) \ {note.room}
                         ELSE ToSet(pages) \cup {note.room}
  <2>1. CASE note.call = "detach"
    <3>1. pages' = RemoveFirst(pages, note.room)
      BY <1>1, <2>1 DEF AfterNote
    <3> QED
      BY <1>2, <2>1, <3>1, WithoutElement
  <2>2. CASE note.call # "detach"
    <3>1. pages' = MovedTo(pages, note.room, note.position)
      BY <1>1, <1>4, <2>2 DEF AfterNote
    <3> QED
      BY <1>2, <1>4, <2>2, <3>1, MovedToFacts
  <2> QED
    BY <2>1, <2>2
<1>6. page' \in ToSet(pages') \cup {NoRoom}
  <2>1. CASE note.call = "prepend"
    <3>1. page' = Turned(note.position, pages')
      BY <1>1, <2>1
    <3>2. \A p \in Seq(Rooms) : Turned(note.position, p) \in ToSet(p) \cup {page}
      BY <1>4, TurnedFacts
    <3> QED
      BY <1>2, <1>5, <2>1, <3>1, <3>2
  <2>2. CASE note.call = "detach" /\ page = note.room
    <3> DEFINE i == SelectInSeq(pages, LAMBDA q : q = note.room)
    <3>1. page' = Neighbour(pages, note.room)
      BY <1>1, <2>2
    <3>2. note.room \in ToSet(pages)
      BY <1>2, <1>4, <2>2, TabsConstants
    <3>3. i \in 1 .. Len(pages) /\ pages[i] = note.room
      BY <1>2, <3>2, FirstPlace
    <3>4. Neighbour(pages, note.room) =
              CASE i < Len(pages) -> pages[i + 1]
                [] i = Len(pages) /\ i > 1 -> pages[i - 1]
                [] OTHER -> NoRoom
      BY DEF Neighbour
    <3> HIDE DEF i
    <3>5. \A j \in 1 .. Len(pages) : j # i => pages[j] \in ToSet(pages) \ {note.room}
      BY <1>2, <3>3 DEF IsInjective, ToSet
    <3>6. ToSet(pages') = ToSet(pages) \ {note.room}
      BY <1>5, <2>2
    <3>7. Len(pages) \in Nat
      BY <1>2
    <3>8. CASE i < Len(pages)
      BY <3>1, <3>3, <3>4, <3>5, <3>6, <3>7, <3>8
    <3>9. CASE i = Len(pages) /\ i > 1
      BY <3>1, <3>3, <3>4, <3>5, <3>6, <3>7, <3>9
    <3>10. CASE ~(i < Len(pages)) /\ ~(i = Len(pages) /\ i > 1)
      BY <3>1, <3>4, <3>10
    <3> QED
      BY <3>8, <3>9, <3>10
  <2>3. CASE note.call # "prepend" /\ ~(note.call = "detach" /\ page = note.room)
    <3>1. page' = page
      BY <1>1, <2>3
    <3> QED
      BY <1>2, <1>5, <2>3, <3>1
  <2> QED
    BY <2>1, <2>2, <2>3
<1>7. TypeOK'
  BY <1>1, <1>3, <1>5, <1>6 DEF TabsInv, TypeOK
<1>8. (HandledIsListed /\ PermanentListed)'
  BY <1>1 DEF TabsInv, HandledIsListed, PermanentListed
<1> QED
  BY <1>7, <1>8 DEF TabsInv

LEMMA SelectPageKeeps ==
    ASSUME TabsInv, NEW r \in Rooms, SelectPage(r)
    PROVE  TabsInv'
<1>1. /\ page' \in ToSet(pages)
      /\ UNCHANGED <<list, position, handler, handled, idle, pages, currentRoom, crashed>>
  BY DEF SelectPage, inputThread
<1> QED
  BY <1>1 DEF TabsInv, TypeOK, HandledIsListed, PermanentListed

LEMMA ShowRoomKeeps ==
    ASSUME TabsInv, NEW r \in Rooms, ShowRoom(r)
    PROVE  TabsInv'
<1>1. /\ handled < MaxHandled /\ handled' = handled + 1
      /\ page' = Turned(position[r], pages)
      /\ UNCHANGED <<list, position, handler, idle, pages, currentRoom, crashed>>
  BY DEF ShowRoom
<1>2. /\ pages \in Seq(Rooms) /\ position[r] \in Nat /\ handled \in 0 .. MaxHandled
      /\ page \in ToSet(pages) \cup {NoRoom}
  BY DEF TabsInv, TypeOK
<1>3. page' \in ToSet(pages) \cup {NoRoom}
  BY <1>1, <1>2, TurnedFacts
<1>4. handled' \in 0 .. MaxHandled
  BY <1>1, <1>2, TabsConstants
<1>5. TypeOK'
  BY <1>1, <1>3, <1>4 DEF TabsInv, TypeOK
<1>6. (HandledIsListed /\ PermanentListed)'
  BY <1>1 DEF TabsInv, HandledIsListed, PermanentListed
<1> QED
  BY <1>5, <1>6 DEF TabsInv

LEMMA ChooseRoomKeeps ==
    ASSUME TabsInv, ChooseRoom
    PROVE  TabsInv'
<1> DEFINE I == {i \in 1 .. Len(list) : position[list[i]] = PageNumber}
<1>1. FoundAt = IF I # {} THEN Min(I) ELSE 0
  BY DEF FoundAt, SelectInSeq
<1>2. I \subseteq Nat /\ (I # {} => Min(I) \in I)
  BY LeastNumber
<1>3. FoundAt # 0 => FoundAt \in 1 .. Len(list)
  BY <1>1, <1>2
<1>4. /\ UNCHANGED <<list, position, handler, handled, idle, pages, page>>
      /\ \/ crashed' = TRUE /\ UNCHANGED currentRoom
         \/ FoundAt # 0 /\ currentRoom' = list[FoundAt] /\ UNCHANGED crashed
  BY DEF ChooseRoom, inputThread, window
<1>5. list \in Seq(Rooms) /\ crashed \in BOOLEAN /\ currentRoom \in Rooms \cup {NoRoom}
  BY DEF TabsInv, TypeOK
<1> HIDE DEF I
<1>6. crashed' \in BOOLEAN /\ currentRoom' \in Rooms \cup {NoRoom}
  <2>1. crashed' \in BOOLEAN
    BY <1>4, <1>5
  <2>2. FoundAt # 0 => list[FoundAt] \in Rooms
    BY <1>3, <1>5
  <2>3. currentRoom' \in Rooms \cup {NoRoom}
    BY <1>4, <1>5, <2>2
  <2> QED
    BY <2>1, <2>3
<1>7. TypeOK'
  BY <1>4, <1>6 DEF TabsInv, TypeOK
<1>8. (HandledIsListed /\ PermanentListed)'
  BY <1>4 DEF TabsInv, HandledIsListed, PermanentListed
<1> QED
  BY <1>7, <1>8 DEF TabsInv

-----------------------------------------------------------------------------
\* Every behaviour.

LEMMA TabsInit == Init => TabsInv
<1> SUFFICES ASSUME Init
             PROVE  TabsInv
  OBVIOUS
<1>1. list \in Seq(Rooms) /\ IsInjective(list) /\ handler = NoHandler
  BY TabsConstants DEF Init
<1>2. position \in [Rooms -> Nat]
  <2>1. \A r \in Rooms : r \in ToSet(InitialRooms) =>
            SelectInSeq(InitialRooms, LAMBDA q : q = r) - 1 \in Nat
    <3> SUFFICES ASSUME NEW r \in Rooms, r \in ToSet(InitialRooms)
                 PROVE  SelectInSeq(InitialRooms, LAMBDA q : q = r) - 1 \in Nat
      OBVIOUS
    <3> DEFINE i == SelectInSeq(InitialRooms, LAMBDA q : q = r)
    <3>1. InitialRooms \in Seq(Rooms) /\ Len(InitialRooms) \in Nat
      BY TabsConstants
    <3>2. i \in 1 .. Len(InitialRooms)
      <4> DEFINE I == {k \in 1 .. Len(InitialRooms) : InitialRooms[k] = r}
      <4>1. I # {} /\ I \subseteq Nat
        BY <3>1 DEF ToSet
      <4>2. i = Min(I)
        BY <4>1 DEF SelectInSeq
      <4>3. Min(I) \in I
        BY <4>1, LeastNumber
      <4> QED
        BY <4>2, <4>3
    <3> HIDE DEF i
    <3>3. i - 1 \in Nat
      BY <3>1, <3>2
    <3> QED
      BY <3>3 DEF i
  <2> QED
    BY <2>1 DEF Init
<1>3. idle \in Seq(Note)
  <2>1. \A i \in DOMAIN InitialRooms : NoteFor("prepend", InitialRooms[i], i - 1) \in Note
    <3> SUFFICES ASSUME NEW i \in DOMAIN InitialRooms
                 PROVE  NoteFor("prepend", InitialRooms[i], i - 1) \in Note
      OBVIOUS
    <3>1. i - 1 \in Nat /\ InitialRooms[i] \in Rooms
      BY TabsConstants
    <3> QED
      BY <3>1 DEF NoteFor, Note
  <2>2. idle = [i \in 1 .. Len(InitialRooms) |->
                    NoteFor("prepend", InitialRooms[i], i - 1)]
    BY TabsConstants DEF Init
  <2>3. Len(InitialRooms) \in Nat /\ DOMAIN InitialRooms = 1 .. Len(InitialRooms)
    BY TabsConstants
  <2> QED
    BY <2>1, <2>2, <2>3
<1>4. pages \in Seq(Rooms) /\ IsInjective(pages)
  BY DEF Init, IsInjective
<1>5. handled \in 0 .. MaxHandled
  BY TabsConstants DEF Init
<1>6. TypeOK
  BY <1>1, <1>2, <1>3, <1>4, <1>5 DEF Init, TypeOK
<1>7. HandledIsListed /\ PermanentListed
  BY <1>1, TabsConstants DEF Init, HandledIsListed, PermanentListed
<1> QED
  BY <1>6, <1>7 DEF TabsInv

LEMMA TabsNext == TabsInv /\ [Next]_vars => TabsInv'
<1> SUFFICES ASSUME TabsInv, [Next]_vars
             PROVE  TabsInv'
  OBVIOUS
<1>1. CASE UNCHANGED vars
  BY <1>1 DEF TabsInv, TypeOK, HandledIsListed, PermanentListed, vars, inputThread, window
<1>2. CASE Next
  BY <1>2, BeginKeeps, MoveNextKeeps, QueueKeeps, LinkKeeps, RunIdleKeeps, SelectPageKeeps,
     ShowRoomKeeps, ChooseRoomKeeps DEF Next, InputThread
<1> QED
  BY <1>1, <1>2

-----------------------------------------------------------------------------
\* The positions follow the pages after the queue.

LEMMA NextPagesAfterStep ==
    ASSUME NEW n \in Nat, n = Len(idle')
    PROVE  /\ DOMAIN PagesAfter' = 0 .. n /\ PagesAfter'[0] = pages'
           /\ \A k \in 1 .. n : PagesAfter'[k] = AfterNote(PagesAfter'[k - 1], idle'[k])
<1>1. \E f : IsRun(f, pages', idle', n)
  BY RunExists
<1>2. IsRun(PagesAfter', pages', idle', n)
  BY <1>1 DEF IsRun, PagesAfter
<1> QED
  BY <1>2, RunStep

\* A step that leaves the queue and the pages alone.
LEMMA QueueSame ==
    ASSUME FollowInv, UNCHANGED <<idle, pages>>, page' = NoRoom => page = NoRoom,
           NEW p, p = PagesAfter[Len(idle)], FinalPages(p)'
    PROVE  FollowInv'
<1>1. PagesAfter' = PagesAfter
  BY DEF PagesAfter
<1>2. FinalPages(PagesAfter[Len(idle)])'
  BY <1>1
<1>3. NotesFit(PagesAfter)'
  BY <1>1 DEF FollowInv, NotesFit
<1> QED
  BY <1>2, <1>3 DEF FollowInv

LEMMA BeginFollows ==
    ASSUME TabsInv, FollowInv, NEW r \in Rooms, InputMessage(r) \/ EnterRoom(r) \/ LeaveRoom(r)
    PROVE  FollowInv'
<1>1. PICK type \in {"MSG", "ENTER", "LEAVE"} : Begin(type, r)
  BY DEF InputMessage, EnterRoom, LeaveRoom
<1>2. /\ handler = NoHandler
      /\ handler' = [type |-> type, room |-> r, next |-> 1, queued |-> FALSE]
      /\ UNCHANGED <<list, position, idle, pages, page>>
  BY <1>1 DEF Begin, window
<1>3. handler'.next = 1 /\ handler'.queued = FALSE
  BY <1>2
<1>4. RoomsToShow' = RoomsToShow
  BY <1>2, <1>3 DEF RoomsToShow
<1>5. \A q, i : PositionOf(q, i) = i - 1
  BY <1>2 DEF PositionOf
<1>6. list \in Seq(Rooms)
  BY DEF TabsInv, TypeOK
<1>7. \A q, i : PositionOf(q, i)' = i - 1
  <2>1. \A j \in DOMAIN list' : ~(j < handler'.next)
    BY <1>2, <1>3, <1>6
  <2> QED
    BY <2>1 DEF PositionOf
<1>8. PICK p : p = PagesAfter[Len(idle)]
  OBVIOUS
<1>9. FinalPages(p)
  BY <1>8 DEF FollowInv
<1>10. FinalPages(p)'
  BY <1>2, <1>4, <1>5, <1>7, <1>9 DEF FinalPages
<1> QED
  BY <1>2, <1>8, <1>10, QueueSame

LEMMA MoveNextFollows ==
    ASSUME TabsInv, FollowInv, MoveNext
    PROVE  FollowInv'
<1> DEFINE here == list[handler.next]
<1>1. /\ handler \in Handler /\ handler # NoHandler /\ handler.next <= Len(list)
      /\ position' = [position EXCEPT ![here] = Moved(handler, @)]
      /\ handler' = [handler EXCEPT !.next = @ + 1]
      /\ UNCHANGED <<list, idle, pages, page>>
  BY DEF MoveNext, TabsInv, TypeOK, window
<1>2. /\ position \in [Rooms -> Nat] /\ list \in Seq(Rooms) /\ IsInjective(list)
      /\ DOMAIN list = 1 .. Len(list) /\ Len(list) \in Nat
  BY DEF TabsInv, TypeOK
<1>3. /\ handler' \in Handler /\ handler'.type = handler.type /\ handler'.room = handler.room
      /\ handler'.queued = handler.queued /\ handler'.next = handler.next + 1
  BY <1>1 DEF Handler
<1>4. handler' # NoHandler
  BY <1>3, TabsConstants
<1>5. handler.next \in DOMAIN list /\ ~handler.queued
      /\ (handler.type = "ENTER" => handler.room # here)
  <2>1. handler.next \in 1 .. Len(list) + 1 /\ (handler.queued => handler.next = Len(list) + 1)
    BY <1>1 DEF TabsInv, HandledIsListed
  <2>2. handler.next \in DOMAIN list /\ ~handler.queued
    BY <1>1, <1>2, <2>1
  <2>3. here \in ToSet(list)
    BY <2>2 DEF ToSet
  <2> QED
    BY <1>1, <2>2, <2>3 DEF TabsInv, HandledIsListed
<1>6. here \in Rooms /\ handler.room \in Rooms
  BY <1>1, <1>2, <1>5 DEF Handler
<1> HIDE DEF here
<1>7. \A r \in Rooms : r # here => position'[r] = position[r]
  BY <1>1, <1>2
<1>8. position'[here] = Moved(handler, position[here])
  BY <1>1, <1>2, <1>6
<1>9. position'[handler.room] = position[handler.room]
  <2>1. CASE handler.room = here
    <3>1. Moved(handler, position[here]) = position[here]
      <4>1. position[here] \in Nat /\ handler.type # "ENTER"
        BY <1>2, <1>5, <1>6, <2>1
      <4> QED
        BY <2>1, <4>1 DEF Moved
    <3> QED
      BY <1>8, <2>1, <3>1
  <2>2. CASE handler.room # here
    BY <1>6, <1>7, <2>2
  <2> QED
    BY <2>1, <2>2
<1>10. \A n : Moved(handler, n)' = Moved(handler, n)
  BY <1>3, <1>9 DEF Moved
<1>11. PICK p : p = PagesAfter[Len(idle)]
  OBVIOUS
<1>12. /\ p \in Seq(Rooms) /\ IsInjective(p) /\ ToSet(p) = RoomsToShow
       /\ \A i \in DOMAIN p : position[p[i]] = PositionOf(p[i], i)
  BY <1>11 DEF FollowInv, FinalPages
<1>13. RoomsToShow' = RoomsToShow
  BY <1>1, <1>3, <1>5 DEF RoomsToShow
<1>14. ASSUME NEW i \in DOMAIN p
       PROVE  position'[p[i]] = PositionOf(p[i], i)'
  <2> DEFINE r == p[i]
             Passed(n) == \E j \in DOMAIN list : j < n /\ list[j] = r
  <2>1. r \in Rooms
    BY <1>12
  <2>2. PositionOf(r, i) = IF Passed(handler.next) THEN Moved(handler, i - 1) ELSE i - 1
    BY <1>1, <1>5 DEF PositionOf
  <2>3. PositionOf(r, i)' =
            IF Passed(handler.next + 1) THEN Moved(handler, i - 1) ELSE i - 1
    BY <1>1, <1>3, <1>4, <1>5, <1>10 DEF PositionOf
  <2>4. position[r] = PositionOf(r, i)
    BY <1>12
  <2> HIDE DEF r
  <2>5. CASE r = here
    <3>1. ~Passed(handler.next)
      BY <1>2, <1>5, <2>5 DEF here, IsInjective
    <3>2. Passed(handler.next + 1)
      BY <1>2, <1>5, <2>5 DEF here
    <3> QED
      BY <1>8, <2>2, <2>3, <2>4, <2>5, <3>1, <3>2 DEF r
  <2>6. CASE r # here
    <3>1. Passed(handler.next + 1) <=> Passed(handler.next)
      BY <1>2, <1>5, <2>6 DEF here
    <3> QED
      BY <1>7, <2>1, <2>2, <2>3, <2>4, <2>6, <3>1 DEF r
  <2> QED
    BY <2>5, <2>6
<1>15. FinalPages(p)'
  BY <1>12, <1>13, <1>14 DEF FinalPages
<1> QED
  BY <1>1, <1>11, <1>15, QueueSame

LEMMA LinkFollows ==
    ASSUME TabsInv, FollowInv, Link
    PROVE  FollowInv'
<1>1. /\ handler \in Handler /\ handler # NoHandler /\ handler.queued /\ handler' = NoHandler
      /\ list' = IF handler.type = "ENTER" THEN Append(list, handler.room)
                 ELSE RemoveFirst(list, handler.room)
      /\ UNCHANGED <<position, idle, pages, page>>
  BY DEF Link, TabsInv, TypeOK, window
<1>2. /\ list \in Seq(Rooms) /\ IsInjective(list) /\ handler.room \in Rooms
      /\ handler.type = "ENTER" => handler.room \notin ToSet(list)
  BY <1>1 DEF TabsInv, TypeOK, HandledIsListed, Handler
<1>3. ToSet(list') = IF handler.type = "ENTER" THEN ToSet(list) \cup {handler.room}
                     ELSE ToSet(list) \ {handler.room}
  <2>1. CASE handler.type = "ENTER"
    BY <1>1, <1>2, <2>1, AppendNew
  <2>2. CASE handler.type # "ENTER"
    BY <1>1, <1>2, <2>2, WithoutElement
  <2> QED
    BY <2>1, <2>2
<1>4. RoomsToShow' = RoomsToShow
  BY <1>1, <1>3 DEF RoomsToShow
<1>5. \A q, i : PositionOf(q, i)' = PositionOf(q, i)
  BY <1>1 DEF PositionOf
<1>6. PICK p : p = PagesAfter[Len(idle)]
  OBVIOUS
<1>7. FinalPages(p)
  BY <1>6 DEF FollowInv
<1>8. FinalPages(p)'
  BY <1>1, <1>4, <1>5, <1>7 DEF FinalPages
<1> QED
  BY <1>1, <1>6, <1>8, QueueSame

\* A step that leaves the input thread and the queue alone, and turns to a page if
\* anything.
LEMMA ScreenFollows ==
    ASSUME FollowInv, UNCHANGED <<list, position, handler, idle, pages>>,
           page' = NoRoom => page = NoRoom
    PROVE  FollowInv'
<1>1. PICK p : p = PagesAfter[Len(idle)]
  OBVIOUS
<1>2. FinalPages(p)
  BY <1>1 DEF FollowInv
<1>3. FinalPages(p)'
  BY <1>2 DEF FinalPages, RoomsToShow, PositionOf, Moved
<1> QED
  BY <1>1, <1>3, QueueSame

\* The user, or the input thread, turns to a page.
LEMMA TurnFollows ==
    ASSUME TabsInv, FollowInv, NEW r \in Rooms, SelectPage(r) \/ ShowRoom(r)
    PROVE  FollowInv'
<1>1. UNCHANGED <<list, position, handler, idle, pages>>
  BY DEF SelectPage, ShowRoom, inputThread
<1>2. page' = NoRoom => page = NoRoom
  <2>1. pages \in Seq(Rooms) /\ position[r] \in Nat
    BY DEF TabsInv, TypeOK
  <2>2. \A q \in ToSet(pages) : q \in Rooms /\ q # NoRoom
    BY <2>1, TabsConstants DEF ToSet
  <2>3. CASE SelectPage(r)
    BY <2>3, TabsConstants DEF SelectPage
  <2>4. CASE ShowRoom(r)
    BY <2>1, <2>2, <2>4, TurnedFacts DEF ShowRoom
  <2> QED
    BY <2>3, <2>4
<1> QED
  BY <1>1, <1>2, ScreenFollows

\* A step that queues a note: it is run after all the others.
LEMMA QueuedNote ==
    ASSUME TabsInv, FollowInv, NEW note, idle' = Append(idle, note), UNCHANGED <<pages, page>>,
           NEW p, p = AfterNote(PagesAfter[Len(idle)], note), FinalPages(p)',
           note.call = "prepend" => note.position < Len(p),
           note.call = "reorder" => note.room \in ToSet(PagesAfter[Len(idle)])
    PROVE  FollowInv'
<1>1. PICK n \in Nat : n = Len(idle)
  BY DEF TabsInv, TypeOK
<1>2. /\ Len(idle') = n + 1 /\ n + 1 \in Nat /\ idle'[n + 1] = note
      /\ DOMAIN idle = 1 .. n /\ DOMAIN idle' = 1 .. n + 1
      /\ \A k \in 1 .. n : idle'[k] = idle[k]
  BY <1>1 DEF TabsInv, TypeOK
<1>3. /\ PagesAfter[0] = pages
      /\ \A k \in 1 .. n : PagesAfter[k] = AfterNote(PagesAfter[k - 1], idle[k])
  BY <1>1, PagesAfterStep
<1>4. /\ PagesAfter'[0] = pages
      /\ \A k \in 1 .. n + 1 : PagesAfter'[k] = AfterNote(PagesAfter'[k - 1], idle'[k])
  BY <1>2, NextPagesAfterStep
<1>5. \A k \in 0 .. n : PagesAfter'[k] = PagesAfter[k]
  <2>1. PICK f, g, q : f = PagesAfter /\ g = PagesAfter' /\ q = idle
    OBVIOUS
  <2>2. RunsTo(f, pages, q, n)
    BY <1>3, <2>1 DEF RunsTo
  <2>3. RunsTo(g, pages, q, n)
    BY <1>2, <1>4, <2>1 DEF RunsTo
  <2>4. \A k \in 0 .. n : f[k] = g[k]
    BY <2>2, <2>3, RunUnique
  <2> QED
    BY <2>1, <2>4
<1>6. PagesAfter'[n + 1] = p
  <2>1. n + 1 \in 1 .. n + 1 /\ (n + 1) - 1 = n /\ n \in 0 .. n
    OBVIOUS
  <2>2. PagesAfter'[n + 1] = AfterNote(PagesAfter'[n], note)
    BY <1>2, <1>4, <2>1
  <2> QED
    BY <1>1, <1>5, <2>1, <2>2
<1>7. FinalPages(PagesAfter[Len(idle)])'
  BY <1>2, <1>6
<1>8. NotesFit(PagesAfter)'
  <2>1. ASSUME NEW k \in 1 .. n
        PROVE  /\ idle'[k].call = "prepend" => idle'[k].position < Len(PagesAfter'[k])
               /\ idle'[k].call = "reorder" => idle'[k].room \in ToSet(PagesAfter'[k - 1])
    <3>1. PagesAfter'[k] = PagesAfter[k] /\ PagesAfter'[k - 1] = PagesAfter[k - 1]
      <4>1. k \in 0 .. n /\ k - 1 \in 0 .. n
        OBVIOUS
      <4> QED
        BY <1>5, <4>1
    <3>2. /\ idle[k].call = "prepend" => idle[k].position < Len(PagesAfter[k])
          /\ idle[k].call = "reorder" => idle[k].room \in ToSet(PagesAfter[k - 1])
      BY <1>2 DEF FollowInv, NotesFit
    <3>3. idle'[k] = idle[k]
      BY <1>2
    <3> QED
      BY <3>1, <3>2, <3>3
  <2>2. PagesAfter'[n] = PagesAfter[Len(idle)] /\ (n + 1) - 1 = n
    BY <1>1, <1>5
  <2>3. /\ note.call = "prepend" => note.position < Len(PagesAfter'[n + 1])
        /\ note.call = "reorder" => note.room \in ToSet(PagesAfter'[(n + 1) - 1])
    BY <1>6, <2>2
  <2>4. ASSUME NEW k \in DOMAIN idle'
        PROVE  /\ idle'[k].call = "prepend" => idle'[k].position < Len(PagesAfter'[k])
               /\ idle'[k].call = "reorder" => idle'[k].room \in ToSet(PagesAfter'[k - 1])
    <3>1. k \in 1 .. n \/ k = n + 1
      BY <1>2
    <3> QED
      BY <1>2, <2>1, <2>3, <3>1
  <2> QED
    BY <2>4 DEF NotesFit
<1> QED
  BY <1>7, <1>8 DEF FollowInv

LEMMA QueueFollows ==
    ASSUME TabsInv, FollowInv, Queue
    PROVE  FollowInv'
<1>1. PICK r \in Rooms : r = handler.room
  BY DEF TabsInv, TypeOK, Queue, Handler
<1>2. /\ handler \in Handler /\ handler # NoHandler /\ ~handler.queued
      /\ handler.next > Len(list)
      /\ UNCHANGED <<list, pages, page>>
  BY DEF Queue, TabsInv, TypeOK, window
<1>3. /\ position \in [Rooms -> Nat] /\ list \in Seq(Rooms)
      /\ DOMAIN list = 1 .. Len(list) /\ Len(list) \in Nat
  BY DEF TabsInv, TypeOK
<1>4. PICK p : p = PagesAfter[Len(idle)]
  OBVIOUS
<1>5. /\ p \in Seq(Rooms) /\ IsInjective(p) /\ ToSet(p) = RoomsToShow
      /\ \A i \in DOMAIN p : position[p[i]] = PositionOf(p[i], i)
  BY <1>4 DEF FollowInv, FinalPages
<1>6. ToSet(p) = ToSet(list) /\ DOMAIN p = 1 .. Len(p) /\ Len(p) \in Nat
  BY <1>2, <1>5 DEF RoomsToShow
<1>7. \A i \in DOMAIN p : position[p[i]] = Moved(handler, i - 1)
  <2> SUFFICES ASSUME NEW i \in DOMAIN p
               PROVE  position[p[i]] = Moved(handler, i - 1)
    OBVIOUS
  <2>1. p[i] \in ToSet(list)
    BY <1>6 DEF ToSet
  <2>2. \E j \in DOMAIN list : list[j] = p[i]
    BY <2>1 DEF ToSet
  <2>3. handler.next \in Nat
    BY <1>2 DEF Handler
  <2>4. \E j \in DOMAIN list : j < handler.next /\ list[j] = p[i]
    BY <1>2, <1>3, <2>2, <2>3
  <2> QED
    BY <1>2, <1>5, <2>4 DEF PositionOf
<1>8. /\ handler.type = "MSG" \/ handler.type = "LEAVE" => r \in ToSet(p)
      /\ handler.type = "ENTER" => r \notin ToSet(p)
  BY <1>1, <1>2, <1>6 DEF TabsInv, HandledIsListed
<1> DEFINE first == MovedTo(p, r, 0)
<1>9. /\ first \in Seq(Rooms) /\ IsInjective(first) /\ ToSet(first) = ToSet(p) \cup {r}
      /\ Len(first) \in Nat \ {0}
  <2>1. 0 \in Nat
    OBVIOUS
  <2> QED
    BY <1>5, <2>1, MovedToFacts, PutFirst
<1>10. \A j \in DOMAIN first :
          \/ first[j] = r /\ j = 1
          \/ \E i \in DOMAIN p :
                /\ first[j] = p[i] /\ p[i] # r
                /\ r \notin ToSet(p) => j = i + 1
                /\ \A k \in DOMAIN p : p[k] = r => j = IF i < k THEN i + 1 ELSE i
  BY <1>5, PutFirst
<1> HIDE DEF first
<1>11. CASE handler.type = "MSG"
  <2>1. PICK note : note = NoteFor("reorder", r, 0)
    OBVIOUS
  <2>2. /\ position' = [position EXCEPT ![r] = 0] /\ handler' = NoHandler
        /\ idle' = Append(idle, note)
    BY <1>1, <1>11, <2>1 DEF Queue
  <2>3. note.call = "reorder" /\ note.room = r /\ note.position = 0
    BY <2>1 DEF NoteFor
  <2>4. first = AfterNote(p, note)
    BY <2>3 DEF AfterNote, first
  <2>5. PICK k \in DOMAIN p : p[k] = r
    BY <1>8, <1>11 DEF ToSet
  <2>6. RoomsToShow' = ToSet(first)
    BY <1>2, <1>6, <1>8, <1>9, <1>11, <2>2 DEF RoomsToShow
  <2>7. ASSUME NEW j \in DOMAIN first
        PROVE  position'[first[j]] = j - 1
    <3>1. CASE first[j] = r /\ j = 1
      BY <1>3, <2>2, <3>1
    <3>2. CASE ~(first[j] = r /\ j = 1)
      <4>1. PICK i \in DOMAIN p :
                first[j] = p[i] /\ p[i] # r /\ j = IF i < k THEN i + 1 ELSE i
        BY <1>10, <2>5, <3>2
      <4>2. i \in Nat /\ k \in Nat /\ i # k /\ p[i] \in Rooms
        BY <1>5, <1>6, <2>5, <4>1
      <4>3. /\ position[r] = IF k - 1 < position[r] THEN (k - 1) + 1 ELSE k - 1
            /\ position[p[i]] = IF i - 1 < position[r] THEN (i - 1) + 1 ELSE i - 1
        BY <1>1, <1>7, <1>11, <2>5 DEF Moved
      <4>4. position[p[i]] = j - 1
        <5>1. position[r] \in Nat
          BY <1>3
        <5> QED
          BY <4>1, <4>2, <4>3, <5>1
      <4>5. position'[p[i]] = position[p[i]]
        BY <1>3, <2>2, <4>1, <4>2
      <4> QED
        BY <4>1, <4>4, <4>5
    <3> QED
      BY <3>1, <3>2
  <2>8. \A q, i : PositionOf(q, i)' = i - 1
    BY <2>2 DEF PositionOf
  <2>9. FinalPages(first)'
    BY <1>9, <2>6, <2>7, <2>8 DEF FinalPages
  <2>10. note.call # "prepend" /\ note.room \in ToSet(p)
    BY <1>8, <1>11, <2>3
  <2> QED
    BY <1>2, <1>4, <2>2, <2>4, <2>9, <2>10, QueuedNote
<1>12. CASE handler.type = "ENTER"
  <2>1. PICK note : note = NoteFor("prepend", r, 0)
    OBVIOUS
  <2>2. /\ position' = [position EXCEPT ![r] = 0]
        /\ handler' = [handler EXCEPT !.queued = TRUE]
        /\ idle' = Append(idle, note)
    BY <1>1, <1>12, <2>1 DEF Queue
  <2>3. note.call = "prepend" /\ note.room = r /\ note.position = 0
    BY <2>1 DEF NoteFor
  <2>4. first = AfterNote(p, note)
    BY <2>3 DEF AfterNote, first
  <2>5. handler' \in Handler /\ handler'.queued /\ handler'.type = "ENTER" /\ handler'.room = r
    BY <1>1, <1>2, <1>12, <2>2 DEF Handler
  <2>6. RoomsToShow' = ToSet(first)
    <3>1. handler' # NoHandler
      BY <2>5, TabsConstants
    <3> QED
      BY <1>2, <1>6, <1>9, <2>5, <3>1 DEF RoomsToShow
  <2>7. ASSUME NEW j \in DOMAIN first
        PROVE  position'[first[j]] = j - 1
    <3>1. CASE first[j] = r /\ j = 1
      BY <1>3, <2>2, <3>1
    <3>2. CASE ~(first[j] = r /\ j = 1)
      <4>1. PICK i \in DOMAIN p : first[j] = p[i] /\ p[i] # r /\ j = i + 1
        BY <1>8, <1>10, <1>12, <3>2
      <4>2. i \in Nat /\ p[i] \in Rooms
        BY <1>5, <1>6
      <4>3. position[p[i]] = (i - 1) + 1
        BY <1>7, <1>12 DEF Moved
      <4>4. position'[p[i]] = position[p[i]]
        BY <1>3, <2>2, <4>1, <4>2
      <4> QED
        BY <4>1, <4>2, <4>3, <4>4
    <3> QED
      BY <3>1, <3>2
  <2>8. \A q, i : PositionOf(q, i)' = i - 1
    BY <2>5 DEF PositionOf
  <2>9. FinalPages(first)'
    BY <1>9, <2>6, <2>7, <2>8 DEF FinalPages
  <2>10. note.call # "reorder" /\ note.position < Len(first)
    BY <1>9, <2>3
  <2> QED
    BY <1>2, <1>4, <2>2, <2>4, <2>9, <2>10, QueuedNote
<1>13. CASE handler.type = "LEAVE"
  <2>1. PICK note : note = NoteFor("detach", r, 0)
    OBVIOUS
  <2>2. /\ position' = position
        /\ handler' = [handler EXCEPT !.queued = TRUE]
        /\ idle' = Append(idle, note)
    BY <1>1, <1>13, <2>1 DEF Queue
  <2>3. note.call = "detach" /\ note.room = r
    BY <2>1 DEF NoteFor
  <2>4. PICK rest : rest = RemoveFirst(p, r)
    OBVIOUS
  <2>5. rest = AfterNote(p, note)
    BY <2>3, <2>4 DEF AfterNote
  <2>6. handler' \in Handler /\ handler'.queued /\ handler'.type = "LEAVE" /\ handler'.room = r
    BY <1>1, <1>2, <1>13, <2>2 DEF Handler
  <2>7. rest \in Seq(Rooms) /\ IsInjective(rest) /\ ToSet(rest) = ToSet(p) \ {r}
    BY <1>5, <2>4, WithoutElement
  <2>8. RoomsToShow' = ToSet(rest)
    <3>1. handler' # NoHandler
      BY <2>6, TabsConstants
    <3> QED
      BY <1>2, <1>6, <2>6, <2>7, <3>1 DEF RoomsToShow
  <2>9. PICK k \in DOMAIN p : p[k] = r
    BY <1>8, <1>13 DEF ToSet
  <2>10. ASSUME NEW j \in DOMAIN rest
         PROVE  position'[rest[j]] = j - 1
    <3>1. PICK i \in DOMAIN p : rest[j] = p[i] /\ p[i] # r /\ j = IF i < k THEN i ELSE i - 1
      BY <1>5, <2>4, <2>9, TakenOut
    <3>2. i \in Nat /\ k \in Nat /\ i # k
      BY <1>6, <2>9, <3>1
    <3>3. /\ position[r] = IF k - 1 > position[r] THEN (k - 1) - 1 ELSE k - 1
          /\ position[p[i]] = IF i - 1 > position[r] THEN (i - 1) - 1 ELSE i - 1
      BY <1>1, <1>7, <1>13, <2>9 DEF Moved
    <3>4. position[r] \in Nat
      BY <1>3
    <3>5. position[p[i]] = j - 1
      BY <3>1, <3>2, <3>3, <3>4
    <3> QED
      BY <2>2, <3>1, <3>5
  <2>11. \A q, i : PositionOf(q, i)' = i - 1
    BY <2>6 DEF PositionOf
  <2>12. FinalPages(rest)'
    BY <2>7, <2>8, <2>10, <2>11 DEF FinalPages
  <2> QED
    BY <1>2, <1>4, <2>2, <2>3, <2>5, <2>12, QueuedNote
<1> QED
  BY <1>2, <1>11, <1>12, <1>13 DEF Handler

LEMMA RunIdleFollows ==
    ASSUME TabsInv, FollowInv, RunIdle
    PROVE  FollowInv'
<1> DEFINE note == Head(idle)
<1>1. /\ idle # <<>> /\ idle' = Tail(idle)
      /\ pages' = AfterNote(pages, note)
      /\ page' = CASE note.call = "prepend" -> Turned(note.position, pages')
                   [] note.call = "detach" /\ page = note.room -> Neighbour(pages, note.room)
                   [] OTHER -> page
      /\ UNCHANGED <<list, position, handler>>
  BY DEF RunIdle, inputThread
<1>2. /\ idle \in Seq(Note) /\ pages \in Seq(Rooms) /\ IsInjective(pages)
      /\ page \in ToSet(pages) \cup {NoRoom}
  BY DEF TabsInv, TypeOK
<1>3. PICK n \in Nat \ {0} : n = Len(idle)
  <2>1. \A t \in Seq(Note) : Len(t) = 0 => t = <<>>
    OBVIOUS
  <2> QED
    BY <1>1, <1>2, <2>1
<1>4. /\ Len(idle') = n - 1 /\ n - 1 \in Nat /\ note = idle[1]
      /\ DOMAIN idle = 1 .. n /\ DOMAIN idle' = 1 .. n - 1
      /\ \A k \in 1 .. n - 1 : idle'[k] = idle[k + 1]
  BY <1>1, <1>2, <1>3
<1>5. note \in Note
  BY <1>1, <1>2
<1> HIDE DEF note
<1>6. note.room \in Rooms /\ note.position \in Nat /\ note.call \in {"prepend", "reorder", "detach"}
  BY <1>5 DEF Note
<1>7. /\ PagesAfter[0] = pages
      /\ \A k \in 1 .. n : PagesAfter[k] = AfterNote(PagesAfter[k - 1], idle[k])
  BY <1>3, PagesAfterStep
<1>8. PagesAfter[1] = pages'
  <2>1. 1 \in 1 .. n /\ 1 - 1 = 0
    OBVIOUS
  <2>2. PagesAfter[1] = AfterNote(PagesAfter[1 - 1], idle[1])
    BY <1>7, <2>1
  <2> QED
    BY <1>1, <1>4, <1>7, <2>1, <2>2
<1>9. \A k \in 0 .. n - 1 : PagesAfter'[k] = PagesAfter[k + 1]
  <2>1. PICK f, g, p, q : /\ f = [k \in 0 .. n - 1 |-> PagesAfter[k + 1]]
                          /\ g = PagesAfter' /\ p = pages' /\ q = idle'
    OBVIOUS
  <2>2. \A k \in 0 .. n - 1 : f[k] = PagesAfter[k + 1]
    BY <2>1
  <2>3. RunsTo(f, p, q, n - 1)
    <3>1. 0 \in 0 .. n - 1 /\ 0 + 1 = 1
      BY <1>4
    <3>2. f[0] = p
      BY <1>8, <2>1, <2>2, <3>1
    <3>3. ASSUME NEW k \in 1 .. n - 1
          PROVE  f[k] = AfterNote(f[k - 1], q[k])
      <4>1. k \in 0 .. n - 1 /\ k - 1 \in 0 .. n - 1 /\ k + 1 \in 1 .. n
            /\ (k + 1) - 1 = k /\ (k - 1) + 1 = k
        BY <1>4
      <4>2. f[k] = PagesAfter[k + 1] /\ f[k - 1] = PagesAfter[k]
        BY <2>2, <4>1
      <4>3. PagesAfter[k + 1] = AfterNote(PagesAfter[k], idle[k + 1])
        BY <1>7, <4>1
      <4>4. q[k] = idle[k + 1]
        BY <1>4, <2>1
      <4> QED
        BY <4>2, <4>3, <4>4
    <3> QED
      BY <3>2, <3>3 DEF RunsTo
  <2>4. RunsTo(g, p, q, n - 1)
    <3>1. /\ PagesAfter'[0] = pages'
          /\ \A k \in 1 .. n - 1 : PagesAfter'[k] = AfterNote(PagesAfter'[k - 1], idle'[k])
      BY <1>4, NextPagesAfterStep
    <3> QED
      BY <2>1, <3>1 DEF RunsTo
  <2>5. \A k \in 0 .. n - 1 : f[k] = g[k]
    BY <1>4, <2>3, <2>4, RunUnique
  <2> QED
    BY <2>1, <2>2, <2>5
<1>10. FinalPages(PagesAfter[Len(idle)])'
  <2>1. PICK p : p = PagesAfter[Len(idle)]
    OBVIOUS
  <2>2. FinalPages(p)
    BY <2>1 DEF FollowInv
  <2>3. FinalPages(p)'
    BY <1>1, <2>2 DEF FinalPages, RoomsToShow, PositionOf, Moved
  <2>4. n - 1 \in 0 .. n - 1 /\ (n - 1) + 1 = n
    BY <1>4
  <2>5. PagesAfter'[Len(idle')] = p
    BY <1>3, <1>4, <1>9, <2>1, <2>4
  <2> QED
    BY <2>3, <2>5
<1>11. NotesFit(PagesAfter)'
  <2>1. ASSUME NEW k \in 1 .. n - 1
        PROVE  /\ idle'[k].call = "prepend" => idle'[k].position < Len(PagesAfter'[k])
               /\ idle'[k].call = "reorder" => idle'[k].room \in ToSet(PagesAfter'[k - 1])
    <3>1. k \in 0 .. n - 1 /\ k - 1 \in 0 .. n - 1 /\ k + 1 \in 1 .. n
          /\ (k + 1) - 1 = k /\ (k - 1) + 1 = k
      BY <1>4
    <3>2. PagesAfter'[k] = PagesAfter[k + 1] /\ PagesAfter'[k - 1] = PagesAfter[k]
      BY <1>9, <3>1
    <3>3. /\ idle[k + 1].call = "prepend" => idle[k + 1].position < Len(PagesAfter[k + 1])
          /\ idle[k + 1].call = "reorder" => idle[k + 1].room \in ToSet(PagesAfter[(k + 1) - 1])
      BY <1>4, <3>1 DEF FollowInv, NotesFit
    <3>4. idle'[k] = idle[k + 1]
      BY <1>4
    <3> QED
      BY <3>1, <3>2, <3>3, <3>4
  <2> QED
    BY <1>4, <2>1 DEF NotesFit
<1>12. page' = NoRoom => pages' = <<>>
  <2>1. page = NoRoom => pages = <<>>
    BY DEF FollowInv
  <2>2. /\ note.call = "prepend" => note.position < Len(pages')
        /\ note.call = "reorder" => note.room \in ToSet(pages)
    <3>1. 1 \in DOMAIN idle /\ 1 - 1 = 0
      BY <1>4
    <3>2. /\ idle[1].call = "prepend" => idle[1].position < Len(PagesAfter[1])
          /\ idle[1].call = "reorder" => idle[1].room \in ToSet(PagesAfter[1 - 1])
      BY <3>1 DEF FollowInv, NotesFit
    <3> QED
      BY <1>4, <1>7, <1>8, <3>1, <3>2
  <2>3. CASE note.call = "prepend"
    <3>1. pages' \in Seq(Rooms)
      BY <1>1, <1>2, <1>6, <2>3, MovedToFacts DEF AfterNote
    <3>2. note.position + 1 \in 1 .. Len(pages')
      BY <1>6, <2>2, <2>3, <3>1
    <3>3. page' = pages'[note.position + 1]
      BY <1>1, <2>2, <2>3 DEF Turned
    <3>4. pages'[note.position + 1] \in Rooms
      BY <3>1, <3>2
    <3> QED
      BY <3>3, <3>4, TabsConstants
  <2>4. CASE note.call = "reorder"
    <3>1. page' = page /\ pages # <<>>
      BY <1>1, <2>2, <2>4 DEF ToSet
    <3> QED
      BY <2>1, <3>1
  <2>5. CASE note.call = "detach" /\ page # note.room
    <3>1. page' = page /\ pages' = RemoveFirst(pages, note.room)
      BY <1>1, <2>5 DEF AfterNote
    <3>2. ASSUME pages = <<>>
          PROVE  pages' = <<>>
      <4>1. note.room \notin ToSet(pages)
        BY <3>2 DEF ToSet
      <4> QED
        BY <1>2, <3>1, <3>2, <4>1, NotThere
    <3> QED
      BY <2>1, <3>1, <3>2
  <2>6. CASE note.call = "detach" /\ page = note.room
    <3> DEFINE i == SelectInSeq(pages, LAMBDA q : q = note.room)
    <3>1. page' = Neighbour(pages, note.room) /\ pages' = RemoveFirst(pages, note.room)
      BY <1>1, <2>6 DEF AfterNote
    <3>2. note.room \in ToSet(pages)
      BY <1>2, <1>6, <2>6, TabsConstants
    <3>3. i \in 1 .. Len(pages) /\ pages[i] = note.room
      BY <1>2, <3>2, FirstPlace
    <3>4. Neighbour(pages, note.room) =
              CASE i < Len(pages) -> pages[i + 1]
                [] i = Len(pages) /\ i > 1 -> pages[i - 1]
                [] OTHER -> NoRoom
      BY DEF Neighbour
    <3> HIDE DEF i
    <3>5. Len(pages) \in Nat /\ \A j \in 1 .. Len(pages) : pages[j] # NoRoom
      BY <1>2, TabsConstants
    <3>6. CASE i < Len(pages)
      <4>1. i + 1 \in 1 .. Len(pages)
        BY <3>3, <3>5, <3>6
      <4> QED
        BY <3>1, <3>4, <3>5, <3>6, <4>1
    <3>7. CASE i = Len(pages) /\ i > 1
      <4>1. i - 1 \in 1 .. Len(pages) /\ ~(i < Len(pages))
        BY <3>3, <3>5, <3>7
      <4> QED
        BY <3>1, <3>4, <3>5, <3>7, <4>1
    <3>8. CASE ~(i < Len(pages)) /\ ~(i = Len(pages) /\ i > 1)
      <4>1. Len(pages) = 1
        <5>1. i \in Nat /\ i >= 1 /\ i <= Len(pages)
          BY <3>3, <3>5
        <5> QED
          BY <3>5, <3>8, <5>1
      <4>2. PICK k \in 1 .. Len(pages) : pages' = RemoveAt(pages, k)
        BY <1>2, <3>1, <3>2, RemovedAt
      <4>3. pages' \in Seq(Rooms) /\ Len(pages') = 0
        <5>1. RemoveAt(pages, k) \in Seq(Rooms) /\ Len(RemoveAt(pages, k)) = Len(pages) - 1
          BY <1>2, ListWithoutElement
        <5> QED
          BY <4>1, <4>2, <5>1
      <4>4. \A t \in Seq(Rooms) : Len(t) = 0 => t = <<>>
        OBVIOUS
      <4> QED
        BY <4>3, <4>4
    <3> QED
      BY <3>6, <3>7, <3>8
  <2> QED
    BY <1>6, <2>3, <2>4, <2>5, <2>6
<1> QED
  BY <1>10, <1>11, <1>12 DEF FollowInv

\* At the start the functions in the queue build the tabs one by one.
LEMMA TabsBuilt ==
    ASSUME NEW s \in Seq(Rooms), IsInjective(s), NEW k \in 1 .. Len(s)
    PROVE  MovedTo(SubSeq(s, 1, k - 1), s[k], k - 1) = SubSeq(s, 1, k)
<1> DEFINE a == SubSeq(s, 1, k - 1)
           m == InsertAt(a, k, s[k])
<1>1. /\ a \in Seq(Rooms) /\ Len(a) = k - 1 /\ DOMAIN a = 1 .. k - 1
      /\ \A j \in 1 .. k - 1 : a[j] = s[j]
      /\ DOMAIN s = 1 .. Len(s) /\ k \in Nat /\ k \in DOMAIN s
  OBVIOUS
<1>2. /\ SubSeq(s, 1, k) \in Seq(Rooms) /\ Len(SubSeq(s, 1, k)) = k
      /\ \A j \in 1 .. k : SubSeq(s, 1, k)[j] = s[j]
  OBVIOUS
<1> HIDE DEF a
<1>3. s[k] \notin ToSet(a)
  BY <1>1 DEF ToSet, IsInjective
<1>4. MovedTo(a, s[k], k - 1) = m
  <2>1. RemoveFirst(a, s[k]) = a
    BY <1>1, <1>3, NotThere
  <2>2. ~(k - 1 > Len(a)) /\ (k - 1) + 1 = k
    BY <1>1
  <2> QED
    BY <2>1, <2>2 DEF MovedTo
<1>5. /\ m \in Seq(Rooms) /\ Len(m) = k
      /\ \A j \in 1 .. k : m[j] = IF j < k THEN a[j] ELSE IF j = k THEN s[k] ELSE a[j - 1]
  <2>1. k \in 1 .. Len(a) + 1 /\ Len(a) + 1 = k /\ s[k] \in Rooms
    BY <1>1
  <2>2. /\ m \in Seq(Rooms) /\ Len(m) = Len(a) + 1
        /\ \A j \in 1 .. Len(a) + 1 :
              m[j] = IF j < k THEN a[j] ELSE IF j = k THEN s[k] ELSE a[j - 1]
    <3>1. PICK e \in Rooms : e = s[k]
      BY <2>1
    <3>2. /\ InsertAt(a, k, e) \in Seq(Rooms) /\ Len(InsertAt(a, k, e)) = Len(a) + 1
          /\ \A j \in 1 .. Len(a) + 1 : InsertAt(a, k, e)[j] =
                IF j < k THEN a[j] ELSE IF j = k THEN e ELSE a[j - 1]
      <4>1. a \in Seq(Rooms)
        BY <1>1
      <4>2. k \in 1 .. Len(a) + 1
        BY <2>1
      <4> QED
        BY <4>1, <4>2, ListWithElement
    <3> QED
      BY <3>1, <3>2
  <2> HIDE DEF m
  <2> QED
    BY <2>1, <2>2
<1> HIDE DEF m
<1>6. \A j \in 1 .. k : m[j] = s[j]
  BY <1>1, <1>5
<1>7. m = SubSeq(s, 1, k)
  BY <1>2, <1>5, <1>6
<1> QED
  BY <1>4, <1>7 DEF a

LEMMA FollowInit ==
    ASSUME Init
    PROVE  FollowInv
<1>1. PICK s \in Seq(Rooms) : s = InitialRooms
  BY TabsConstants
<1>2. PICK n \in Nat : n = Len(s)
  OBVIOUS
<1>3. IsInjective(s) /\ DOMAIN s = 1 .. n
  BY <1>1, <1>2, TabsConstants
<1>4. /\ list = s /\ handler = NoHandler /\ pages = <<>>
      /\ idle = [i \in 1 .. n |-> NoteFor("prepend", s[i], i - 1)]
      /\ \A r \in ToSet(s) : r \in Rooms =>
             position[r] = SelectInSeq(s, LAMBDA q : q = r) - 1
  BY <1>1, <1>3 DEF Init
<1>5. /\ Len(idle) = n /\ DOMAIN idle = 1 .. n
      /\ \A k \in 1 .. n : idle[k].call = "prepend" /\ idle[k].room = s[k]
                           /\ idle[k].position = k - 1
  BY <1>2, <1>4 DEF NoteFor
<1>6. \A k \in 0 .. n : PagesAfter[k] = SubSeq(s, 1, k)
  <2>1. PICK f, g, p, q : /\ f = [k \in 0 .. n |-> SubSeq(s, 1, k)]
                          /\ g = PagesAfter /\ p = pages /\ q = idle
    OBVIOUS
  <2>2. \A k \in 0 .. n : f[k] = SubSeq(s, 1, k)
    BY <2>1
  <2>3. RunsTo(f, p, q, n)
    <3>1. f[0] = p
      <4>1. SubSeq(s, 1, 0) \in Seq(Rooms) /\ Len(SubSeq(s, 1, 0)) = 0
        BY <1>2
      <4>2. \A t \in Seq(Rooms) : Len(t) = 0 => t = <<>>
        OBVIOUS
      <4>3. 0 \in 0 .. n
        BY <1>2
      <4> QED
        BY <1>4, <2>1, <2>2, <4>1, <4>2, <4>3
    <3>2. ASSUME NEW k \in 1 .. n
          PROVE  f[k] = AfterNote(f[k - 1], q[k])
      <4>1. k \in 0 .. n /\ k - 1 \in 0 .. n
        BY <1>2
      <4>2. f[k] = SubSeq(s, 1, k) /\ f[k - 1] = SubSeq(s, 1, k - 1)
        BY <2>2, <4>1
      <4>3. AfterNote(f[k - 1], q[k]) = MovedTo(f[k - 1], s[k], k - 1)
        BY <1>5, <2>1 DEF AfterNote
      <4>4. MovedTo(SubSeq(s, 1, k - 1), s[k], k - 1) = SubSeq(s, 1, k)
        BY <1>2, <1>3, TabsBuilt
      <4> QED
        BY <4>2, <4>3, <4>4
    <3> QED
      BY <3>1, <3>2 DEF RunsTo
  <2>4. RunsTo(g, p, q, n)
    <3>1. /\ PagesAfter[0] = pages
          /\ \A k \in 1 .. n : PagesAfter[k] = AfterNote(PagesAfter[k - 1], idle[k])
      BY <1>5, PagesAfterStep
    <3> QED
      BY <2>1, <3>1 DEF RunsTo
  <2>5. \A k \in 0 .. n : f[k] = g[k]
    BY <2>3, <2>4, RunUnique
  <2> QED
    BY <2>1, <2>2, <2>5
<1>7. PagesAfter[Len(idle)] = s
  <2>1. n \in 0 .. n
    BY <1>2
  <2>2. SubSeq(s, 1, n) = s
    BY <1>2
  <2> QED
    BY <1>5, <1>6, <2>1, <2>2
<1>8. FinalPages(s)
  <2>1. RoomsToShow = ToSet(s)
    BY <1>4 DEF RoomsToShow
  <2>2. ASSUME NEW i \in DOMAIN s
        PROVE  position[s[i]] = PositionOf(s[i], i)
    <3>1. PICK r \in Rooms : r = s[i]
      BY <1>1
    <3>2. r \in ToSet(s)
      BY <3>1 DEF ToSet
    <3> DEFINE j == SelectInSeq(s, LAMBDA q : q = r)
    <3>3. j \in 1 .. Len(s) /\ s[j] = r
      BY <3>2, FirstPlace
    <3>4. position[r] = j - 1
      BY <1>4, <3>2
    <3> HIDE DEF j
    <3>5. j = i
      BY <1>2, <1>3, <3>1, <3>3 DEF IsInjective
    <3> QED
      BY <1>4, <3>1, <3>4, <3>5 DEF PositionOf
  <2> QED
    BY <1>3, <2>1, <2>2 DEF FinalPages
<1>9. NotesFit(PagesAfter)
  <2>1. ASSUME NEW k \in 1 .. n
        PROVE  idle[k].position < Len(PagesAfter[k]) /\ idle[k].call # "reorder"
    <3>1. k \in 0 .. n /\ Len(SubSeq(s, 1, k)) = k /\ k - 1 < k
      BY <1>2
    <3> QED
      BY <1>5, <1>6, <3>1
  <2> QED
    BY <1>5, <2>1 DEF NotesFit
<1> QED
  BY <1>4, <1>7, <1>8, <1>9 DEF FollowInv

LEMMA FollowNext == TabsInv /\ FollowInv /\ [Next]_vars => FollowInv'
<1> SUFFICES ASSUME TabsInv, FollowInv, [Next]_vars
             PROVE  FollowInv'
  OBVIOUS
<1>1. CASE UNCHANGED vars
  BY <1>1, ScreenFollows DEF vars, inputThread, window
<1>2. CASE InputThread
  BY <1>2, BeginFollows, MoveNextFollows, QueueFollows, LinkFollows DEF InputThread
<1>3. CASE RunIdle
  BY <1>3, RunIdleFollows
<1>4. CASE \E r \in Rooms : SelectPage(r) \/ ShowRoom(r)
  BY <1>4, TurnFollows
<1>5. CASE ChooseRoom
  <2>1. UNCHANGED <<list, position, handler, idle, pages, page>>
    BY <1>5 DEF ChooseRoom, inputThread, window
  <2> QED
    BY <2>1, ScreenFollows
<1> QED
  BY <1>1, <1>2, <1>3, <1>4, <1>5 DEF Next

\* No room is in the list twice, none has two pages, and the page on the screen is
\* one of the notebook.
THEOREM TabsTypes == Spec => []TypeOK
<1>1. Spec => []TabsInv
  BY TabsInit, TabsNext, PTL DEF Spec
<1>2. TabsInv => TypeOK
  BY DEF TabsInv
<1> QED
  BY <1>1, <1>2, PTL

LEMMA FollowAlways == Spec => [](TabsInv /\ FollowInv)
<1>1. Init => TabsInv /\ FollowInv
  BY TabsInit, FollowInit
<1>2. TabsInv /\ FollowInv /\ [Next]_vars => TabsInv' /\ FollowInv'
  BY TabsNext, FollowNext
<1> QED
  BY <1>1, <1>2, PTL DEF Spec

\* Between two messages the positions are those of the pages after the functions in
\* the queue, however many the GTK thread is behind.
THEOREM PagesFollow == Spec => []PagesFollowPositions
<1>1. TabsInv /\ FollowInv => PagesFollowPositions
  <2> SUFFICES ASSUME TabsInv, FollowInv, handler = NoHandler
               PROVE  LET final == PagesAfter[Len(idle)]
                      IN  /\ ToSet(final) = ToSet(list) /\ Len(final) = Len(list)
                          /\ \A i \in DOMAIN final : position[final[i]] = i - 1
    BY DEF PagesFollowPositions
  <2>1. PICK p : p = PagesAfter[Len(idle)]
    OBVIOUS
  <2>2. FinalPages(p)
    BY <2>1 DEF FollowInv
  <2>3. /\ p \in Seq(Rooms) /\ IsInjective(p) /\ ToSet(p) = ToSet(list)
        /\ \A i \in DOMAIN p : position[p[i]] = i - 1
    BY <2>2 DEF FinalPages, RoomsToShow, PositionOf
  <2>4. list \in Seq(Rooms) /\ IsInjective(list)
    BY DEF TabsInv, TypeOK
  <2>5. Len(p) = Len(list)
    BY <2>3, <2>4, SameLength
  <2> QED
    BY <2>1, <2>3, <2>5
<1> QED
  BY <1>1, FollowAlways, PTL

\* While no change of the tabs is under way, the room of the page on the screen is
\* found, and is the only one found.
LEMMA ScreenFound ==
    ASSUME TabsInv, FollowInv, Settled
    PROVE  FoundAt \in 1 .. Len(list) /\ list[FoundAt] = page
<1>1. handler = NoHandler /\ idle = <<>>
  BY DEF Settled
<1>2. /\ list \in Seq(Rooms) /\ DOMAIN list = 1 .. Len(list) /\ Len(list) \in Nat
      /\ pages \in Seq(Rooms) /\ DOMAIN pages = 1 .. Len(pages) /\ Len(pages) \in Nat
      /\ IsInjective(pages) /\ page \in ToSet(pages) \cup {NoRoom}
  BY DEF TabsInv, TypeOK
<1>3. PagesAfter[Len(idle)] = pages
  <2>1. 0 \in Nat /\ Len(idle) = 0
    BY <1>1
  <2> QED
    BY <2>1, PagesAfterStep
<1>4. FinalPages(pages)
  BY <1>3 DEF FollowInv
<1>5. ToSet(pages) = ToSet(list) /\ \A i \in DOMAIN pages : position[pages[i]] = i - 1
  BY <1>1, <1>4 DEF FinalPages, RoomsToShow, PositionOf
<1>6. page \in ToSet(pages)
  <2>1. ToSet(pages) # {}
    BY <1>5, TabsConstants DEF TabsInv, PermanentListed
  <2>2. pages # <<>>
    BY <2>1 DEF ToSet
  <2> QED
    BY <1>2, <2>2 DEF FollowInv
<1>7. PICK k \in DOMAIN pages : pages[k] = page /\ PageNumber = k - 1
  <2> DEFINE f == SelectInSeq(pages, LAMBDA q : q = page)
  <2>1. f \in 1 .. Len(pages) /\ pages[f] = page
    BY <1>2, <1>6, FirstPlace
  <2>2. PageNumber = f - 1
    BY DEF PageNumber
  <2> HIDE DEF f
  <2> QED
    BY <1>2, <2>1, <2>2
<1> DEFINE I == {i \in 1 .. Len(list) : position[list[i]] = PageNumber}
<1>8. FoundAt = IF I # {} THEN Min(I) ELSE 0
  BY DEF FoundAt, SelectInSeq
<1>9. I \subseteq Nat /\ (I # {} => Min(I) \in I)
  BY LeastNumber
<1>10. ASSUME NEW i \in DOMAIN list
       PROVE  position[list[i]] = k - 1 <=> list[i] = page
  <2>1. list[i] \in ToSet(pages)
    BY <1>5 DEF ToSet
  <2>2. PICK j \in DOMAIN pages : pages[j] = list[i]
    BY <2>1 DEF ToSet
  <2>3. position[list[i]] = j - 1 /\ j \in Nat /\ k \in Nat
    BY <1>2, <1>5, <2>2
  <2>4. j = k <=> list[i] = page
    BY <1>2, <1>7, <2>2 DEF IsInjective
  <2> QED
    BY <2>3, <2>4
<1>11. \E i \in DOMAIN list : list[i] = page
  BY <1>5, <1>6 DEF ToSet
<1>12. I # {}
  BY <1>2, <1>7, <1>10, <1>11
<1>13. FoundAt \in I
  BY <1>8, <1>9, <1>12
<1>14. FoundAt \in 1 .. Len(list) /\ position[list[FoundAt]] = k - 1
  BY <1>7, <1>13
<1> QED
  BY <1>2, <1>10, <1>14

\* What the user sends while no change of the tabs is under way goes to the room on
\* the screen, and the client follows no NULL room.
THEOREM SentToScreen == Spec => SentToRoomOnScreen
<1>1. TabsInv /\ FollowInv /\ [Next]_vars =>
          [ChooseRoom /\ Settled => ~crashed' /\ currentRoom' = page]_vars
  <2> SUFFICES ASSUME TabsInv, FollowInv, ChooseRoom, Settled
               PROVE  ~crashed' /\ currentRoom' = page
    OBVIOUS
  <2>1. FoundAt \in 1 .. Len(list) /\ list[FoundAt] = page
    BY ScreenFound
  <2>2. FoundAt # 0
    <3>1. Len(list) \in Nat
      BY DEF TabsInv, TypeOK
    <3> QED
      BY <2>1, <3>1
  <2> QED
    BY <2>1, <2>2 DEF ChooseRoom
<1> QED
  BY <1>1, FollowAlways, PTL DEF Spec, SentToRoomOnScreen
=============================================================================
