----------------------------- MODULE RoomsProofs -----------------------------
(* Proofs of the invariants of Rooms, for any users, rooms and messages and    *)
(* any number of operations.                                                   *)
EXTENDS Rooms, SequenceTheorems, WellFoundedInduction, TLAPS

-----------------------------------------------------------------------------
\* Strengthening of the properties, for their proofs.

Public == {r \in DOMAIN rooms : rooms[r].access = "public"}

\* Only public rooms are joined, no general or direct one is left, and nobody
\* asks for a direct room with itself.
AskedOfRooms(c, q) ==
    /\ q.type = "MSG" => q.room \in DOMAIN rooms
    /\ q.type = "JOIN" => q.room \in Public
    /\ q.type = "LEAVE" => /\ q.room \in DOMAIN rooms
                           /\ rooms[q.room].access \notin {"general", "direct"}
    /\ q.type = "DIRECT" => q.other # c

\* A client is told of rooms there are, and offered the public ones.
SentOfRooms(m) ==
    /\ m.type = "AUTH" => m.rooms \subseteq DOMAIN rooms
    /\ m.type = "SEARCH" => m.rooms \subseteq Public
    /\ m.type \in {"JOIN", "CREATE", "DIRECT"} => m.room \in DOMAIN rooms

OfRooms ==
    /\ \A c \in Clients, r \in RoomIds : rows[c][r] > 0 => r \in DOMAIN rooms
    /\ \A i \in DOMAIN history : history[i].room \in DOMAIN rooms
    /\ \A c \in Clients :
        /\ known[c] \subseteq DOMAIN rooms /\ snap[c].rooms \subseteq DOMAIN rooms
        /\ \A k \in DOMAIN out[c] : AskedOfRooms(c, out[c][k])
        /\ \A k \in DOMAIN in[c] : SentOfRooms(in[c][k])
        /\ \A k \in DOMAIN results[c] : results[c][k] \subseteq Public

\* A direct room is of two users.
DirectOfTwo ==
    \A r \in DOMAIN rooms :
        rooms[r].access = "direct" =>
            rooms[r].first \in Clients /\ rooms[r].second \in Clients \ {rooms[r].first}

RoomsInv == TypeOK /\ OfRooms /\ DirectOfTwo /\ DirectRoomsUnique

\* A client asks for its rooms once, as the last thing it asks for until it is
\* answered; it has a socket until it has signed out.
SignInOrder(c) ==
    LET asks(type) == {k \in DOMAIN out[c] : out[c][k].type = type}
        answers == {k \in DOMAIN in[c] : in[c][k].type = "AUTH"}
    IN  /\ phase[c] = "login" => asks("AUTH") = {} /\ answers = {}
        /\ phase[c] = "waiting" =>
                \/ asks("AUTH") = {Len(out[c])} /\ answers = {}
                \/ out[c] = <<>> /\ c \in online /\ \E k \in DOMAIN in[c] : answers = {k}
        /\ phase[c] \in {"building", "online"} =>
                asks("AUTH") = {} /\ asks("LOGOUT") = {} /\ answers = {} /\ c \in online

\* What the server has sent to c holds the rooms c is to list.
Listening(c) ==
    \/ phase[c] \in {"building", "online"}
    \/ phase[c] = "waiting" /\ \E k \in DOMAIN in[c] : in[c][k].type = "AUTH"

\* When c has handled all that was sent to it, it knows the rooms it has rows of.
MembershipKnown(c) ==
    \A r \in RoomIds : KnownAfter(c, r, Len(in[c])) <=> rows[c][r] > 0

\* Messages of a room are sent while c is to know it, but for those before the
\* answer to AUTH.
ContentKnown(c) ==
    \A k \in DOMAIN in[c] :
        IsOfKnownRoom(in[c][k]) =>
            \/ KnownAfter(c, in[c][k].room, k - 1)
            \/ \E j \in DOMAIN in[c] : j > k /\ in[c][j].type = "AUTH"

View(c) ==
    /\ SignInOrder(c)
    /\ Listening(c) /\ c \notin exposed => MembershipKnown(c) /\ ContentKnown(c)

ViewInv == \A c \in Clients : View(c)

\* What the handlers of c make of room r, of which c has v, when they are given m.
Changed(v, m, c) ==
    LET at == Places(v.list, m.id)
    IN  CASE m.type = "MSG" ->
                [v EXCEPT !.list = Append(@, [id |-> m.id, text |-> m.text, gone |-> FALSE])]
          [] m.type = "EDIT" /\ at # {} ->
                [v EXCEPT !.list = [@ EXCEPT ![First(at)].text = m.text]]
          [] m.type = "DELETE" /\ at # {} ->
                [v EXCEPT !.list = Popped(@, m.id, First(at))]
          [] m.type = "LOAD_MORE" ->
                [v EXCEPT !.list = m.shown \o @]
          [] m.type \in {"JOIN", "CREATE"} /\ m.user = c /\ ~v.known ->
                [known |-> TRUE, list |-> m.shown]
          [] m.type = "DIRECT" /\ ~m.exist /\ ~v.known ->
                [known |-> TRUE, list |-> <<>>]
          [] m.type = "LEAVE" /\ m.user = c ->
                [known |-> FALSE, list |-> <<>>]
          [] OTHER -> v

Applied(v, m, c, r) ==
    IF m.type = "AUTH" THEN [known |-> r \in m.rooms, list |-> m.shown[r]]
    ELSE IF m.type # "SEARCH" /\ m.room = r THEN Changed(v, m, c) ELSE v

\* What c has of r after each of the messages of s.
RunOf(v, s, c, r) ==
    LET f[k \in 0 .. Len(s)] == IF k = 0 THEN v ELSE Applied(f[k - 1], s[k], c, r)
    IN  f

Has(c, r) ==
    IF phase[c] = "building" THEN [known |-> r \in snap[c].rooms, list |-> snap[c].shown[r]]
                             ELSE [known |-> r \in known[c], list |-> shown[c][r]]

WillHave(c, r) == RunOf(Has(c, r), in[c], c, r)[Len(in[c])]

\* A handler given m with v of room r finds what it looks for.
Fits(v, m, r) ==
    m.type \in {"MSG", "EDIT", "DELETE", "LOAD_MORE"} /\ m.room = r =>
        /\ v.known
        /\ m.type \in {"EDIT", "DELETE"} =>
            /\ v.list # <<>>
            /\ \/ m.id < v.list[1].id
               \/ \E i \in DOMAIN v.list : v.list[i].id = m.id /\ ~v.list[i].gone

\* The messages of s from the last answer to AUTH on fit.
Follows(f, s, r) ==
    \A k \in 0 .. Len(s) :
        (\A j \in k + 1 .. Len(s) : s[j].type # "AUTH") =>
            /\ InOrder(f[k].list)
            /\ k < Len(s) => Fits(f[k], s[k + 1], r)

\* v is what a client is to have of r.
IsDue(c, r, v) ==
    /\ v.known <=> rows[c][r] > 0
    /\ IF v.known THEN Agrees(r, v.list) ELSE v.list = <<>>

Talk(c) ==
    \A r \in RoomIds :
        /\ Follows(RunOf(Has(c, r), in[c], c, r), in[c], r)
        /\ IsDue(c, r, WillHave(c, r))

\* One request for history is on its way at a time, or its answer; when it
\* is answered, it still asks for what comes before the first message.
LoadsOf(s) == {k \in DOMAIN s : s[k].type = "LOAD_MORE"}

AsksFromFirst(c, k) ==
    LET r == out[c][k].room
        v == WillHave(c, r)
    IN  /\ v.known /\ v.list # <<>> /\ v.list[1].id = out[c][k].last
        /\ \A j \in 1 .. k - 1 : out[c][j] # [type |-> "LEAVE", room |-> r]

Loads(c) ==
    LET asks == LoadsOf(out[c])
        answers == LoadsOf(in[c])
    IN  /\ phase[c] = "waiting" =>
            \A k \in answers, j \in DOMAIN in[c] : in[c][j].type = "AUTH" => k < j
        /\ phase[c] = "building" => out[c] = <<>> /\ answers = {}
        /\ phase[c] = "online" =>
            /\ canLoad[c] => asks = {} /\ answers = {}
            /\ asks = {} \/ answers = {}
            /\ \A j, k \in asks : j = k
            /\ \A j, k \in answers : j = k
            /\ \A k \in asks : AsksFromFirst(c, k)

\* The messages that clients hold, are sent and ask to be changed are of history.
AllOf(r, s) == \A i \in DOMAIN s : IsOf(r, s[i].id)

SentOfHistory(m) ==
    /\ m.type = "AUTH" => \A r \in RoomIds : AllOf(r, m.shown[r])
    /\ m.type \in {"MSG", "EDIT", "DELETE"} => IsOf(m.room, m.id)
    /\ m.type \in {"LOAD_MORE", "JOIN", "CREATE"} => AllOf(m.room, m.shown)

OfHistory ==
    \A c \in Clients :
        /\ \A r \in RoomIds : AllOf(r, shown[c][r]) /\ AllOf(r, snap[c].shown[r])
        /\ editing[c] # NoEdit => IsOf(editing[c].room, editing[c].id)
        /\ \A k \in DOMAIN out[c] :
            out[c][k].type \in {"EDIT", "DELETE"} => IsOf(out[c][k].room, out[c][k].id)
        /\ \A k \in DOMAIN in[c] : SentOfHistory(in[c][k])

\* Nothing is sent twice to a client that is not exposed.
RowsOnce == \A c \in Clients \ exposed, r \in RoomIds : rows[c][r] <= 1

TalkInv ==
    /\ OfHistory /\ RowsOnce /\ OnlyExposedCrash
    /\ \A c \in Clients \ exposed : (Listening(c) => Talk(c)) /\ Loads(c)

-----------------------------------------------------------------------------
\* Numbers and lists.

\* A set of numbers has a least one.
LEMMA LeastNumber ==
    ASSUME NEW S, S \subseteq Nat, S # {}
    PROVE  \E x \in S : \A y \in S : x <= y
<1>1. \E x \in S : \A y \in S : <<y, x>> \notin OpToRel(<, Nat)
  BY WFMin, NatLessThanWellFounded
<1>2. PICK x \in S : \A y \in S : ~(y < x)
  BY <1>1 DEF OpToRel
<1> QED
  BY <1>2

\* What holds of 0, and of a number whenever of the one before, holds of all up
\* to N: the set T of those it holds of is all of them.
LEMMA UpTo ==
    ASSUME NEW N \in Nat, NEW T, 0 \in T,
           \A n \in 1 .. N : n - 1 \in T => n \in T
    PROVE  \A n \in 0 .. N : n \in T
<1> SUFFICES ASSUME \E n \in 0 .. N : n \notin T
             PROVE  FALSE
  OBVIOUS
<1> DEFINE S == {n \in 0 .. N : n \notin T}
<1>1. PICK x \in S : \A y \in S : x <= y
  <2>1. S \subseteq Nat /\ S # {}
    OBVIOUS
  <2> QED
    BY <2>1, LeastNumber
<1>2. x \in 1 .. N /\ x - 1 \in 0 .. N /\ ~(x <= x - 1)
  OBVIOUS
<1>3. x - 1 \in T
  BY <1>1, <1>2
<1> QED
  BY <1>2, <1>3

\* The element at i is replaced, or removed.
LEMMA ListUpdate ==
    ASSUME NEW S, NEW h \in Seq(S), NEW i, NEW new,
           i \in DOMAIN h => new \in S
    PROVE  /\ [h EXCEPT ![i] = new] \in Seq(S)
           /\ Len([h EXCEPT ![i] = new]) = Len(h)
           /\ DOMAIN [h EXCEPT ![i] = new] = DOMAIN h
           /\ \A j \in DOMAIN h : [h EXCEPT ![i] = new][j] = IF j = i THEN new ELSE h[j]
<1> DEFINE g == [h EXCEPT ![i] = new]
<1>1. DOMAIN h = 1 .. Len(h) /\ Len(h) \in Nat /\ \A j \in DOMAIN h : h[j] \in S
  OBVIOUS
<1>2. DOMAIN g = DOMAIN h /\ \A j \in DOMAIN h : g[j] = IF j = i THEN new ELSE h[j]
  OBVIOUS
<1> HIDE DEF g
<1>3. g \in [1 .. Len(h) -> S]
  <2>1. \A j \in 1 .. Len(h) : g[j] \in S
    BY <1>1, <1>2
  <2>2. g = [j \in DOMAIN g |-> g[j]]
    BY DEF g
  <2> QED
    BY <1>1, <1>2, <2>1, <2>2
<1>4. g \in Seq(S)
  BY <1>1, <1>3 DEF Seq
<1>5. Len(g) = Len(h)
  BY <1>1, <1>2, <1>4
<1> QED
  BY <1>2, <1>4, <1>5 DEF g

LEMMA ListWithoutElement ==
    ASSUME NEW S, NEW s \in Seq(S), NEW i \in 1 .. Len(s)
    PROVE  /\ RemoveAt(s, i) \in Seq(S)
           /\ Len(RemoveAt(s, i)) = Len(s) - 1
           /\ \A j \in 1 .. Len(s) - 1 : RemoveAt(s, i)[j] = IF j < i THEN s[j] ELSE s[j + 1]
<1> DEFINE a == SubSeq(s, 1, i - 1)
           b == SubSeq(s, i + 1, Len(s))
<1>1. a \in Seq(S) /\ Len(a) = i - 1 /\ \A j \in 1 .. i - 1 : a[j] = s[j]
  OBVIOUS
<1>2. b \in Seq(S) /\ Len(b) = Len(s) - i
      /\ \A j \in 1 .. Len(s) - i : b[j] = s[i + j]
  OBVIOUS
<1> HIDE DEF a, b
<1>3. /\ a \o b \in Seq(S) /\ Len(a \o b) = Len(a) + Len(b)
      /\ \A j \in 1 .. Len(a) + Len(b) :
            (a \o b)[j] = IF j <= Len(a) THEN a[j] ELSE b[j - Len(a)]
  BY <1>1, <1>2, ConcatProperties
<1>4. RemoveAt(s, i) = a \o b
  BY DEF RemoveAt, a, b
<1>5. ASSUME NEW j \in 1 .. Len(s) - 1
      PROVE  (a \o b)[j] = IF j < i THEN s[j] ELSE s[j + 1]
  <2>1. CASE j < i
    BY <1>1, <1>2, <1>3, <2>1
  <2>2. CASE ~(j < i)
    <3>1. j - (i - 1) \in 1 .. Len(s) - i /\ i + (j - (i - 1)) = j + 1
      BY <2>2
    <3>2. j \in 1 .. Len(a) + Len(b) /\ ~(j <= Len(a)) /\ Len(a) = i - 1
      BY <1>1, <1>2, <2>2
    <3>3. (a \o b)[j] = b[j - (i - 1)]
      BY <1>3, <3>2
    <3> QED
      BY <1>2, <2>2, <3>1, <3>3
  <2> QED
    BY <2>1, <2>2
<1>6. Len(a) + Len(b) = Len(s) - 1
  BY <1>1, <1>2
<1> QED
  BY <1>3, <1>4, <1>5, <1>6

\* The first of the places of a message.
LEMMA FirstFacts ==
    ASSUME NEW S, S \subseteq Nat, S # {}
    PROVE  First(S) \in S /\ \A j \in S : First(S) <= j
<1>1. \E i \in S : \A j \in S : i <= j
  BY LeastNumber
<1> QED
  BY <1>1 DEF First

\* The list without its last element.
LEMMA FrontFacts ==
    ASSUME NEW S, NEW s \in Seq(S), s # <<>>
    PROVE  /\ Last(s) \in S /\ Last(s) = s[Len(s)] /\ Len(s) \in DOMAIN s
           /\ Front(s) \in Seq(S) /\ Len(Front(s)) = Len(s) - 1
           /\ \A k \in DOMAIN Front(s) : k \in DOMAIN s /\ Front(s)[k] = s[k]
<1>1. Len(s) \in Nat \ {0} /\ DOMAIN s = 1 .. Len(s)
  OBVIOUS
<1> DEFINE t == SubSeq(s, 1, Len(s) - 1)
<1>2. t \in Seq(S) /\ Len(t) = Len(s) - 1 /\ \A k \in 1 .. Len(s) - 1 : t[k] = s[k]
  BY <1>1
<1> HIDE DEF t
<1>3. \A k \in DOMAIN t : k \in DOMAIN s /\ t[k] = s[k]
  BY <1>1, <1>2
<1>4. Front(s) = t
  BY <1>1 DEF Front, t
<1>5. Last(s) = s[Len(s)] /\ Last(s) \in S /\ Len(s) \in DOMAIN s
  BY <1>1 DEF Last
<1> QED
  BY <1>2, <1>3, <1>4, <1>5

-----------------------------------------------------------------------------
\* The messages stored of a room.

Row(i) == [id |-> i, text |-> history[i].text, gone |-> FALSE]

\* One row more.
With(r, below, s, i) == IF IsStored(r, i) /\ i < below THEN Append(s, Row(i)) ELSE s

\* The table read up to n, as a function of n.
Reads(r, below, n, f) ==
    f = [i \in 0 .. n |-> IF i = 0 THEN <<>> ELSE With(r, below, f[i - 1], i)]

LEMMA ReadsExists ==
    ASSUME NEW r, NEW below, NEW N \in Nat
    PROVE  \E f : Reads(r, below, N, f)
<1> DEFINE T == {n \in 0 .. N : \E f : Reads(r, below, n, f)}
<1>1. 0 \in T
  <2> DEFINE f == [i \in 0 .. 0 |-> <<>>]
  <2>1. Reads(r, below, 0, f)
    BY DEF Reads
  <2> QED
    BY <2>1
<1>2. ASSUME NEW n \in 1 .. N, n - 1 \in T
      PROVE  n \in T
  <2>1. PICK g : Reads(r, below, n - 1, g)
    BY <1>2
  <2> DEFINE f == [i \in 0 .. n |-> IF i = n THEN With(r, below, g[n - 1], n) ELSE g[i]]
  <2>2. Reads(r, below, n, f)
    BY <2>1 DEF Reads
  <2> QED
    BY <2>2
<1> HIDE DEF T
<1>3. \A n \in 0 .. N : n \in T
  BY <1>1, <1>2, UpTo
<1> QED
  BY <1>3 DEF T

LEMMA StoredReads ==
    ASSUME Len(history) \in Nat, NEW r, NEW below
    PROVE  \E f : Reads(r, below, Len(history), f) /\ Stored(r, below) = f[Len(history)]
<1> DEFINE f == CHOOSE g : Reads(r, below, Len(history), g)
<1>1. Reads(r, below, Len(history), f)
  BY ReadsExists
<1>2. Stored(r, below) = f[Len(history)]
  BY DEF Stored, Reads, With, Row
<1> QED
  BY <1>1, <1>2

RoomsConstants ==
    /\ MaxRooms \in Nat /\ MaxMessages \in Nat /\ MaxRequests \in Nat
    /\ Recent \in Nat \ {0} /\ Batch \in Nat
    /\ NoUser \notin Clients /\ NoEdit \notin [room : RoomIds, id : MessageIds]

LEMMA Constants == RoomsConstants
BY BoundsAssumption DEF RoomsConstants

LEMMA RowIsEntry ==
    ASSUME history \in Seq(Message), Len(history) <= MaxMessages, NEW i \in DOMAIN history
    PROVE  Row(i) \in Entry /\ i \in MessageIds /\ Row(i).id = i /\ Row(i).gone = FALSE
           /\ Row(i).text = history[i].text /\ history[i].room \in RoomIds
<1>1. history[i] \in Message /\ i \in MessageIds
  BY Constants DEF RoomsConstants, MessageIds
<1> QED
  BY <1>1 DEF Row, Entry, Message

\* What a list of the rows of a room with an id of at most n is.
ListsRows(s, r, below, n) ==
    /\ s \in Seq(Entry)
    /\ \A k \in DOMAIN s : /\ s[k].id \in 1 .. n
                            /\ IsStored(r, s[k].id) /\ s[k].id < below
                            /\ s[k] = Row(s[k].id)
    /\ \A j, k \in DOMAIN s : j < k => s[j].id < s[k].id
    /\ \A i \in 1 .. n : IsStored(r, i) /\ i < below => \E k \in DOMAIN s : s[k].id = i

LEMMA WithRow ==
    ASSUME history \in Seq(Message), Len(history) <= MaxMessages,
           NEW r, NEW below, NEW n \in DOMAIN history, NEW s,
           ListsRows(s, r, below, n - 1)
    PROVE  ListsRows(With(r, below, s, n), r, below, n)
<1>0. n \in Nat \ {0} /\ n - 1 \in Nat
  OBVIOUS
<1>1. CASE ~(IsStored(r, n) /\ n < below)
  <2>1. With(r, below, s, n) = s
    BY <1>1 DEF With
  <2>2. \A k \in DOMAIN s : s[k].id \in 1 .. n
    BY <1>0 DEF ListsRows
  <2>3. \A i \in 1 .. n : i = n \/ i \in 1 .. n - 1
    BY <1>0
  <2> QED
    BY <1>1, <2>1, <2>2, <2>3 DEF ListsRows
<1>2. CASE IsStored(r, n) /\ n < below
  <2> DEFINE t == Append(s, Row(n))
  <2>1. With(r, below, s, n) = t
    BY <1>2 DEF With
  <2>2. Row(n) \in Entry /\ Row(n).id = n
    BY RowIsEntry
  <2>3. /\ s \in Seq(Entry) /\ t \in Seq(Entry) /\ Len(t) = Len(s) + 1
        /\ t[Len(s) + 1] = Row(n) /\ \A k \in DOMAIN s : t[k] = s[k]
        /\ DOMAIN t = DOMAIN s \cup {Len(s) + 1}
        /\ \A k \in DOMAIN s : k \in Nat /\ k < Len(s) + 1
        /\ Len(s) \in Nat
    BY <2>2 DEF ListsRows
  <2> HIDE DEF t
  <2>4. \A k \in DOMAIN s : s[k].id \in 1 .. n /\ s[k].id < n
    BY <1>0 DEF ListsRows
  <2>5. \A k \in DOMAIN t : /\ t[k].id \in 1 .. n
                            /\ IsStored(r, t[k].id) /\ t[k].id < below
                            /\ t[k] = Row(t[k].id)
    <3>1. ASSUME NEW k \in DOMAIN s
          PROVE  /\ t[k].id \in 1 .. n
                 /\ IsStored(r, t[k].id) /\ t[k].id < below
                 /\ t[k] = Row(t[k].id)
      BY <2>3, <2>4 DEF ListsRows
    <3> QED
      BY <1>0, <1>2, <2>2, <2>3, <3>1
  <2>6. \A j, k \in DOMAIN t : j < k => t[j].id < t[k].id
    <3> SUFFICES ASSUME NEW j \in DOMAIN t, NEW k \in DOMAIN t, j < k
                 PROVE  t[j].id < t[k].id
      OBVIOUS
    <3>1. CASE k \in DOMAIN s
      <4>1. j \in DOMAIN s
        BY <2>3, <3>1
      <4> QED
        BY <2>3, <3>1, <4>1 DEF ListsRows
    <3>2. CASE k = Len(s) + 1
      <4>1. j \in DOMAIN s
        BY <2>3, <3>2
      <4> QED
        BY <2>2, <2>3, <2>4, <3>2, <4>1
    <3> QED
      BY <2>3, <3>1, <3>2
  <2>7. \A i \in 1 .. n : IsStored(r, i) /\ i < below => \E k \in DOMAIN t : t[k].id = i
    <3> SUFFICES ASSUME NEW i \in 1 .. n, IsStored(r, i), i < below
                 PROVE  \E k \in DOMAIN t : t[k].id = i
      OBVIOUS
    <3>1. CASE i = n
      BY <2>2, <2>3, <3>1
    <3>2. CASE i \in 1 .. n - 1
      <4>1. PICK k \in DOMAIN s : s[k].id = i
        BY <3>2 DEF ListsRows
      <4> QED
        BY <2>3, <4>1
    <3> QED
      BY <1>0, <3>1, <3>2
  <2> QED
    BY <2>1, <2>3, <2>5, <2>6, <2>7 DEF ListsRows
<1> QED
  BY <1>1, <1>2

LEMMA StoredFacts ==
    ASSUME history \in Seq(Message), Len(history) <= MaxMessages, NEW r, NEW below
    PROVE  ListsRows(Stored(r, below), r, below, Len(history))
<1>1. Len(history) \in Nat /\ DOMAIN history = 1 .. Len(history)
  OBVIOUS
<1>2. PICK f : Reads(r, below, Len(history), f) /\ Stored(r, below) = f[Len(history)]
  BY <1>1, StoredReads
<1> DEFINE T == {n \in 0 .. Len(history) : ListsRows(f[n], r, below, n)}
<1>3. 0 \in T
  <2>1. f[0] = <<>> /\ 0 \in 0 .. Len(history)
    BY <1>1, <1>2 DEF Reads
  <2>2. ListsRows(<<>>, r, below, 0)
    BY DEF ListsRows
  <2> QED
    BY <2>1, <2>2
<1>4. ASSUME NEW n \in 1 .. Len(history), n - 1 \in T
      PROVE  n \in T
  <2>1. f[n] = With(r, below, f[n - 1], n)
    BY <1>1, <1>2 DEF Reads
  <2>2. ListsRows(f[n - 1], r, below, n - 1)
    BY <1>4
  <2>3. n \in DOMAIN history /\ n \in 0 .. Len(history)
    BY <1>1
  <2>4. ListsRows(f[n], r, below, n)
    BY <2>1, <2>2, <2>3, WithRow
  <2> QED
    BY <2>3, <2>4
<1> HIDE DEF T
<1>5. \A n \in 0 .. Len(history) : n \in T
  BY <1>1, <1>3, <1>4, UpTo
<1> QED
  BY <1>1, <1>2, <1>5 DEF T

\* The last n of them.
LEMMA LastOfFacts ==
    ASSUME NEW S, NEW s \in Seq(S), NEW n \in Nat
    PROVE  \E d \in 0 .. Len(s) :
               /\ LastOf(s, n) \in Seq(S)
               /\ Len(LastOf(s, n)) = Len(s) - d
               /\ \A k \in 1 .. Len(s) - d : LastOf(s, n)[k] = s[k + d]
               /\ n > 0 /\ s # <<>> => LastOf(s, n) # <<>>
<1>1. CASE Len(s) <= n
  <2>1. LastOf(s, n) = s
    BY <1>1 DEF LastOf
  <2> QED
    BY <2>1
<1>2. CASE ~(Len(s) <= n)
  <2>1. LastOf(s, n) = SubSeq(s, Len(s) - n + 1, Len(s))
    BY <1>2 DEF LastOf
  <2> DEFINE t == SubSeq(s, Len(s) - n + 1, Len(s))
  <2>2. Len(s) - n \in 0 .. Len(s) /\ Len(s) - n + 1 \in Nat
    BY <1>2
  <2>3. /\ t \in Seq(S) /\ Len(t) = n
        /\ \A k \in 1 .. n : t[k] = s[k + (Len(s) - n)]
    BY <1>2, <2>2
  <2> HIDE DEF t
  <2>4. Len(s) - (Len(s) - n) = n /\ (n > 0 => t # <<>>)
    BY <2>3
  <2> QED
    BY <2>1, <2>2, <2>3, <2>4 DEF t
<1> QED
  BY <1>1, <1>2

-----------------------------------------------------------------------------
\* Messages and connections.

LEMMA RequestFacts ==
    ASSUME NEW q \in Request
    PROVE  /\ q.type \in {"AUTH", "LOGOUT", "SEARCH", "MSG", "EDIT", "DELETE",
                          "LOAD_MORE", "JOIN", "LEAVE", "CREATE", "DIRECT"}
           /\ q.type \in {"MSG", "EDIT", "DELETE", "LOAD_MORE", "JOIN", "LEAVE"} =>
                 q.room \in RoomIds
           /\ q.type \in {"MSG", "EDIT"} => q.text \in Texts
           /\ q.type \in {"EDIT", "DELETE"} => q.id \in MessageIds /\ q \in Reply
           /\ q.type = "LOAD_MORE" => q.last \in MessageIds
           /\ q.type = "CREATE" => q.access \in {"public", "private"}
           /\ q.type = "DIRECT" => q.other \in Clients
<1>1. CASE q \in [type : {"AUTH", "LOGOUT", "SEARCH"}]
  BY <1>1
<1>2. CASE q \in [type : {"MSG"}, room : RoomIds, text : Texts]
  BY <1>2
<1>3. CASE q \in [type : {"EDIT"}, room : RoomIds, id : MessageIds, text : Texts]
  BY <1>3 DEF Reply
<1>4. CASE q \in [type : {"DELETE"}, room : RoomIds, id : MessageIds]
  BY <1>4 DEF Reply
<1>5. CASE q \in [type : {"LOAD_MORE"}, room : RoomIds, last : MessageIds]
  BY <1>5
<1>6. CASE q \in [type : {"JOIN", "LEAVE"}, room : RoomIds]
  BY <1>6
<1>7. CASE q \in [type : {"CREATE"}, access : {"public", "private"}]
  BY <1>7
<1>8. CASE q \in [type : {"DIRECT"}, other : Clients]
  BY <1>8
<1> QED
  BY <1>1, <1>2, <1>3, <1>4, <1>5, <1>6, <1>7, <1>8 DEF Request

LEMMA ReplyFacts ==
    ASSUME NEW m \in Reply
    PROVE  /\ m.type \in {"AUTH", "MSG", "EDIT", "DELETE", "LOAD_MORE", "JOIN",
                          "CREATE", "LEAVE", "DIRECT", "SEARCH"}
           /\ m.type \in {"AUTH", "SEARCH"} => m.rooms \subseteq RoomIds
           /\ m.type = "AUTH" => m.shown \in History
           /\ m.type \notin {"AUTH", "SEARCH"} => m.room \in RoomIds
           /\ m.type \in {"MSG", "EDIT"} => m.text \in Texts
           /\ m.type \in {"MSG", "EDIT", "DELETE"} => m.id \in MessageIds
           /\ m.type \in {"LOAD_MORE", "JOIN", "CREATE"} => m.shown \in Seq(Entry)
           /\ m.type \in {"JOIN", "CREATE", "LEAVE"} => m.user \in Clients
           /\ m.type = "DIRECT" => m.exist \in BOOLEAN
<1>1. CASE m \in [type : {"AUTH"}, rooms : SUBSET RoomIds, shown : History]
  BY <1>1
<1>2. CASE m \in [type : {"MSG"}, room : RoomIds, text : Texts, id : MessageIds]
  BY <1>2
<1>3. CASE m \in {q \in Request : q.type \in {"EDIT", "DELETE"}}
  BY <1>3, RequestFacts
<1>4. CASE m \in [type : {"LOAD_MORE"}, room : RoomIds, shown : Seq(Entry)]
  BY <1>4
<1>5. CASE m \in [type : {"JOIN", "CREATE"}, room : RoomIds, user : Clients, shown : Seq(Entry)]
  BY <1>5
<1>6. CASE m \in [type : {"LEAVE"}, room : RoomIds, user : Clients]
  BY <1>6
<1>7. CASE m \in [type : {"DIRECT"}, room : RoomIds, exist : BOOLEAN]
  BY <1>7
<1>8. CASE m \in [type : {"SEARCH"}, rooms : SUBSET RoomIds]
  BY <1>8
<1> QED
  BY <1>1, <1>2, <1>3, <1>4, <1>5, <1>6, <1>7, <1>8 DEF Reply

\* The messages of old are the first of new, and the others are in M.
Adds(old, new, M) ==
    /\ Len(old) \in Nat /\ Len(new) \in Nat /\ Len(old) <= Len(new)
    /\ DOMAIN old = 1 .. Len(old) /\ DOMAIN new = 1 .. Len(new)
    /\ \A i \in DOMAIN old : new[i] = old[i]
    /\ \A i \in DOMAIN new : i > Len(old) => new[i] \in M

\* The first message of old is taken.
Takes(old, new) ==
    /\ Len(old) \in Nat \ {0} /\ Len(new) = Len(old) - 1
    /\ DOMAIN old = 1 .. Len(old) /\ DOMAIN new = 1 .. Len(new)
    /\ \A i \in DOMAIN new : new[i] = old[i + 1]

LEMMA ConcatAdds ==
    ASSUME NEW S, NEW s \in Seq(S), NEW t \in Seq(S), NEW M, \A i \in DOMAIN t : t[i] \in M
    PROVE  /\ s \o t \in Seq(S) /\ Adds(s, s \o t, M)
           /\ Len(s \o t) = Len(s) + Len(t)
<1>1. /\ s \o t \in Seq(S) /\ Len(s \o t) = Len(s) + Len(t)
      /\ Len(s) \in Nat /\ Len(t) \in Nat /\ DOMAIN t = 1 .. Len(t)
      /\ \A i \in 1 .. Len(s) + Len(t) :
            (s \o t)[i] = IF i <= Len(s) THEN s[i] ELSE t[i - Len(s)]
  BY ConcatProperties
<1>2. ASSUME NEW i \in 1 .. Len(s) + Len(t), i > Len(s)
      PROVE  (s \o t)[i] \in M
  <2>1. i - Len(s) \in 1 .. Len(t) /\ ~(i <= Len(s))
    BY <1>1, <1>2
  <2> QED
    BY <1>1, <2>1
<1>3. DOMAIN s = 1 .. Len(s) /\ DOMAIN (s \o t) = 1 .. Len(s \o t)
  BY <1>1
<1> QED
  BY <1>1, <1>2, <1>3 DEF Adds

LEMMA AppendAdds ==
    ASSUME NEW S, NEW s \in Seq(S), NEW e \in S
    PROVE  Append(s, e) \in Seq(S) /\ Adds(s, Append(s, e), {e}) /\ Len(Append(s, e)) = Len(s) + 1
           /\ Append(s, e)[Len(s) + 1] = e
BY DEF Adds

LEMMA TailTakes ==
    ASSUME NEW S, NEW s \in Seq(S), s # <<>>
    PROVE  Tail(s) \in Seq(S) /\ Takes(s, Tail(s)) /\ Head(s) = s[1] /\ Head(s) \in S
           /\ 1 \in DOMAIN s
BY DEF Takes

LEMMA HandleFacts ==
    ASSUME TypeOK, NEW c \in Clients, NEW type, Handle(c, type)
    PROVE  /\ Head(out[c]) \in Request /\ Head(out[c]) = out[c][1] /\ 1 \in DOMAIN out[c]
           /\ Head(out[c]).type = type
           /\ out' \in [Clients -> Seq(Request)]
           /\ Takes(out[c], out'[c]) /\ out'[c] \in Seq(Request)
           /\ \A d \in Clients : d # c => out'[d] = out[d]
<1>1. out \in [Clients -> Seq(Request)] /\ out[c] \in Seq(Request) /\ out[c] # <<>>
  BY DEF TypeOK, Handle
<1>2. Tail(out[c]) \in Seq(Request) /\ Takes(out[c], Tail(out[c]))
      /\ Head(out[c]) = out[c][1] /\ Head(out[c]) \in Request /\ 1 \in DOMAIN out[c]
  BY <1>1, TailTakes
<1>3. out' = [out EXCEPT ![c] = Tail(out[c])]
  BY DEF Handle
<1> QED
  BY <1>1, <1>2, <1>3 DEF Handle

LEMMA ReceiveFacts ==
    ASSUME TypeOK, NEW c \in Clients, NEW types, Receive(c, types)
    PROVE  /\ Head(in[c]) \in Reply /\ Head(in[c]) = in[c][1] /\ 1 \in DOMAIN in[c]
           /\ Head(in[c]).type \in types
           /\ in' \in [Clients -> Seq(Reply)]
           /\ Takes(in[c], in'[c]) /\ in'[c] \in Seq(Reply)
           /\ \A d \in Clients : d # c => in'[d] = in[d]
<1>1. in \in [Clients -> Seq(Reply)] /\ in[c] \in Seq(Reply) /\ in[c] # <<>>
  BY DEF TypeOK, Receive
<1>2. Tail(in[c]) \in Seq(Reply) /\ Takes(in[c], Tail(in[c]))
      /\ Head(in[c]) = in[c][1] /\ Head(in[c]) \in Reply /\ 1 \in DOMAIN in[c]
  BY <1>1, TailTakes
<1>3. in' = [in EXCEPT ![c] = Tail(in[c])]
  BY DEF Receive
<1> QED
  BY <1>1, <1>2, <1>3 DEF Receive

LEMMA AnswerFacts ==
    ASSUME TypeOK, NEW c \in Clients, NEW m \in Reply, Answer(c, m)
    PROVE  /\ in' \in [Clients -> Seq(Reply)]
           /\ Adds(in[c], in'[c], {m}) /\ Len(in'[c]) = Len(in[c]) + 1
           /\ \A d \in Clients : d # c => in'[d] = in[d]
<1>1. in \in [Clients -> Seq(Reply)] /\ in[c] \in Seq(Reply)
  BY DEF TypeOK
<1>2. in' = [in EXCEPT ![c] = Append(in[c], m)]
  BY DEF Answer
<1>3. Append(in[c], m) \in Seq(Reply) /\ Adds(in[c], Append(in[c], m), {m})
      /\ Len(Append(in[c], m)) = Len(in[c]) + 1
  BY <1>1, AppendAdds
<1> QED
  BY <1>1, <1>2, <1>3

LEMMA AskFacts ==
    ASSUME TypeOK, NEW c \in Clients, NEW use, NEW q \in Request, Ask(c, use, q)
    PROVE  /\ phase[c] = "online" /\ asked' \in 0 .. MaxRequests
           /\ out' \in [Clients -> Seq(Request)]
           /\ Adds(out[c], out'[c], {q}) /\ Len(out'[c]) = Len(out[c]) + 1
           /\ \A d \in Clients : d # c => out'[d] = out[d]
<1>1. out \in [Clients -> Seq(Request)] /\ out[c] \in Seq(Request)
  BY DEF TypeOK
<1>2. out' = [out EXCEPT ![c] = Append(out[c], q)]
  BY DEF Ask
<1>3. Append(out[c], q) \in Seq(Request) /\ Adds(out[c], Append(out[c], q), {q})
      /\ Len(Append(out[c], q)) = Len(out[c]) + 1
  BY <1>1, AppendAdds
<1>4. asked' \in 0 .. MaxRequests
  BY Constants DEF Ask, TypeOK, RoomsConstants
<1> QED
  BY <1>1, <1>2, <1>3, <1>4 DEF Ask

\* What is sent to d for its rows.
Copies(newRows, r, d) == IF d \in online THEN newRows[d][r] ELSE 0

IsSent(newRows, r, m, also, d) ==
    /\ Adds(in[d], in'[d], {m}) /\ Copies(newRows, r, d) \in Nat
    /\ Len(in'[d]) = Len(in[d]) + Copies(newRows, r, d) + (IF d \in also THEN 1 ELSE 0)
    /\ Copies(newRows, r, d) = 0 /\ d \notin also => in'[d] = in[d]

LEMMA BroadcastCopies ==
    ASSUME TypeOK, NEW newRows \in [Clients -> [RoomIds -> Nat]], NEW r \in RoomIds,
           NEW m \in Reply, NEW also, Broadcast(newRows, r, m, also)
    PROVE  /\ in' \in [Clients -> Seq(Reply)]
           /\ \A d \in Clients : IsSent(newRows, r, m, also, d)
<1> DEFINE n(d) == Copies(newRows, r, d)
           copies(d) == [i \in 1 .. n(d) |-> m]
           last(d) == IF d \in also THEN <<m>> ELSE <<>>
<1>1. in' = [d \in Clients |-> in[d] \o copies(d) \o last(d)]
  BY DEF Broadcast, Copies
<1>2. ASSUME NEW d \in Clients
      PROVE  /\ in[d] \o copies(d) \o last(d) \in Seq(Reply)
             /\ Adds(in[d], in[d] \o copies(d) \o last(d), {m})
             /\ Len(in[d] \o copies(d) \o last(d)) =
                    Len(in[d]) + n(d) + (IF d \in also THEN 1 ELSE 0)
             /\ n(d) = 0 /\ d \notin also => in[d] \o copies(d) \o last(d) = in[d]
  <2>1. n(d) \in Nat /\ in[d] \in Seq(Reply) /\ Len(in[d]) \in Nat
    BY DEF TypeOK, Copies
  <2> HIDE DEF n
  <2>2. copies(d) \in Seq(Reply) /\ Len(copies(d)) = n(d)
        /\ \A i \in DOMAIN copies(d) : copies(d)[i] \in {m}
    <3>1. \A k \in Nat : /\ [i \in 1 .. k |-> m] \in Seq(Reply)
                         /\ Len([i \in 1 .. k |-> m]) = k
      OBVIOUS
    <3>2. \A i \in DOMAIN copies(d) : copies(d)[i] \in {m}
      OBVIOUS
    <3> QED
      BY <2>1, <3>1, <3>2
  <2>3. last(d) \in Seq(Reply) /\ Len(last(d)) = (IF d \in also THEN 1 ELSE 0)
        /\ \A i \in DOMAIN last(d) : last(d)[i] \in {m}
    OBVIOUS
  <2>4. n(d) = 0 => copies(d) = <<>>
    BY <2>2
  <2>5. d \notin also => last(d) = <<>>
    OBVIOUS
  <2> HIDE DEF copies, last
  <2>6. LET s == in[d] \o copies(d)
        IN  s \in Seq(Reply) /\ Adds(in[d], s, {m}) /\ Len(s) = Len(in[d]) + n(d)
    BY <2>1, <2>2, ConcatAdds
  <2> DEFINE s == in[d] \o copies(d)
  <2>7. s \o last(d) \in Seq(Reply) /\ Adds(s, s \o last(d), {m})
        /\ Len(s \o last(d)) = Len(s) + Len(last(d))
    BY <2>3, <2>6, ConcatAdds
  <2>8. n(d) = 0 /\ d \notin also => s \o last(d) = in[d]
    BY <2>1, <2>4, <2>5
  <2> HIDE DEF s
  <2>9. Adds(in[d], s \o last(d), {m})
    BY <2>6, <2>7 DEF Adds, s
  <2> QED
    BY <2>1, <2>3, <2>6, <2>7, <2>8, <2>9 DEF s
<1>3. \A d \in Clients : n(d) \in Nat /\ Len(in[d]) \in Nat
  BY DEF TypeOK, Copies
<1>4. ASSUME NEW d \in Clients
      PROVE  /\ in'[d] = in[d] \o copies(d) \o last(d)
             /\ Adds(in[d], in'[d], {m})
             /\ Len(in'[d]) = Len(in[d]) + n(d) + (IF d \in also THEN 1 ELSE 0)
             /\ n(d) = 0 /\ d \notin also => in'[d] = in[d]
  BY <1>1, <1>2
<1>5. in' \in [Clients -> Seq(Reply)]
  BY <1>1, <1>2
<1> QED
  BY <1>3, <1>4, <1>5 DEF IsSent

\* A broadcast reaches each member that has a socket, and those answered besides.
LEMMA BroadcastFacts ==
    ASSUME TypeOK, NEW newRows \in [Clients -> [RoomIds -> Nat]], NEW r \in RoomIds,
           NEW m \in Reply, NEW also, Broadcast(newRows, r, m, also)
    PROVE  /\ in' \in [Clients -> Seq(Reply)]
           /\ \A d \in Clients :
                /\ Adds(in[d], in'[d], {m})
                /\ d \in online /\ newRows[d][r] > 0 => Len(in'[d]) > Len(in[d])
                /\ d \in also => Len(in'[d]) > Len(in[d])
                /\ (d \notin online \/ newRows[d][r] = 0) /\ d \notin also => in'[d] = in[d]
<1>1. in' \in [Clients -> Seq(Reply)]
  BY BroadcastCopies
<1>2. ASSUME NEW d \in Clients
      PROVE  /\ Adds(in[d], in'[d], {m})
             /\ d \in online /\ newRows[d][r] > 0 => Len(in'[d]) > Len(in[d])
             /\ d \in also => Len(in'[d]) > Len(in[d])
             /\ (d \notin online \/ newRows[d][r] = 0) /\ d \notin also => in'[d] = in[d]
  <2>1. newRows[d][r] \in Nat /\ Len(in[d]) \in Nat
    BY DEF TypeOK
  <2>2. IsSent(newRows, r, m, also, d)
    BY BroadcastCopies
  <2>3. /\ Adds(in[d], in'[d], {m}) /\ Copies(newRows, r, d) \in Nat
        /\ Len(in'[d]) = Len(in[d]) + Copies(newRows, r, d) + (IF d \in also THEN 1 ELSE 0)
        /\ Copies(newRows, r, d) = 0 /\ d \notin also => in'[d] = in[d]
    BY <2>2 DEF IsSent
  <2> QED
    BY <2>1, <2>3 DEF Copies
<1> QED
  BY <1>1, <1>2

-----------------------------------------------------------------------------
\* Types.

LEMMA RowsListed ==
    ASSUME TypeOK, NEW r, NEW below, NEW n \in Nat
    PROVE  LastOf(Stored(r, below), n) \in Seq(Entry)
<1>1. Stored(r, below) \in Seq(Entry)
  BY StoredFacts DEF TypeOK, ListsRows
<1> QED
  BY <1>1, LastOfFacts

LEMMA LatestListed ==
    ASSUME TypeOK, NEW r
    PROVE  Latest(r, Recent) \in Seq(Entry)
BY RowsListed, Constants DEF Latest, RoomsConstants

LEMMA RoomsInitTypes == Init => TypeOK
<1> SUFFICES ASSUME Init
             PROVE  TypeOK
  OBVIOUS
<1>1. /\ rooms \in Seq(Room) /\ Len(rooms) <= MaxRooms
      /\ history \in Seq(Message) /\ Len(history) <= MaxMessages
      /\ rows \in [Clients -> [RoomIds -> Nat]]
  BY BoundsAssumption DEF Init
<1>2. NoMessages \in History
  BY DEF NoMessages, History
<1>3. <<>> \in Seq(Request) /\ <<>> \in Seq(Reply) /\ <<>> \in Seq(SUBSET RoomIds)
  OBVIOUS
<1>4. /\ out \in [Clients -> Seq(Request)] /\ in \in [Clients -> Seq(Reply)]
      /\ results \in [Clients -> Seq(SUBSET RoomIds)]
  BY <1>3 DEF Init
<1>5. /\ snap \in [Clients -> [rooms : SUBSET RoomIds, shown : History]]
      /\ shown \in [Clients -> History]
  BY <1>2 DEF Init
<1>6. /\ phase \in [Clients -> Phases] /\ canLoad \in [Clients -> BOOLEAN]
      /\ known \in [Clients -> SUBSET RoomIds]
      /\ editing \in [Clients -> [room : RoomIds, id : MessageIds] \cup {NoEdit}]
  BY DEF Init, Phases
<1>7. online \subseteq Clients /\ exposed \subseteq Clients /\ asked \in 0 .. MaxRequests
  BY Constants DEF Init, RoomsConstants
<1> QED
  BY <1>1, <1>4, <1>5, <1>6, <1>7 DEF TypeOK

\* The types of what a handler of the server changes.
ServerTypes ==
    /\ rooms \in Seq(Room) /\ Len(rooms) <= MaxRooms
    /\ rows \in [Clients -> [RoomIds -> Nat]]
    /\ history \in Seq(Message) /\ Len(history) <= MaxMessages
    /\ online \subseteq Clients
    /\ out \in [Clients -> Seq(Request)] /\ in \in [Clients -> Seq(Reply)]
    /\ exposed \subseteq Clients

LEMMA TypeByServer ==
    ASSUME TypeOK, UNCHANGED userState, ServerTypes'
    PROVE  TypeOK'
BY DEF TypeOK, userState, lists, ServerTypes

\* A number of rows changed.
LEMMA RowsUpdate ==
    ASSUME NEW rs \in [Clients -> [RoomIds -> Nat]], NEW c \in Clients, NEW r \in RoomIds,
           NEW n \in Nat
    PROVE  /\ [rs EXCEPT ![c][r] = n] \in [Clients -> [RoomIds -> Nat]]
           /\ [rs EXCEPT ![c][r] = n][c][r] = n
           /\ \A d \in Clients, q \in RoomIds :
                 d # c \/ q # r => [rs EXCEPT ![c][r] = n][d][q] = rs[d][q]
<1>1. [rs[c] EXCEPT ![r] = n] \in [RoomIds -> Nat]
  OBVIOUS
<1> QED
  BY <1>1

LEMMA HistoryUpdate ==
    ASSUME history \in Seq(Message), NEW i, NEW new, i \in DOMAIN history => new \in Message
    PROVE  /\ [history EXCEPT ![i] = new] \in Seq(Message)
           /\ Len([history EXCEPT ![i] = new]) = Len(history)
           /\ \A j \in DOMAIN history :
                 [history EXCEPT ![i] = new][j] = IF j = i THEN new ELSE history[j]
BY ListUpdate

LEMMA TypeTalkStep ==
    ASSUME TypeOK, NEW c \in Clients,
           \/ Authorization(c) \/ Logout(c) \/ ProcessMessage(c) \/ EditMessage(c)
           \/ DeleteMessage(c) \/ LoadHistory(c) \/ SearchAll(c) \/ EndOfFile(c)
    PROVE  ServerTypes' /\ UNCHANGED userState
<1> DEFINE q == Head(out[c])
<1>0. ServerTypes
  BY DEF TypeOK, ServerTypes
<1>1. CASE Authorization(c)
  <2> DEFINE mine == {r \in 1 .. Len(rooms) : rows[c][r] > 0}
             m == [type |-> "AUTH", rooms |-> mine,
                   shown |-> [r \in RoomIds |-> IF r \in mine THEN Latest(r, Recent) ELSE <<>>]]
  <2>1. mine \subseteq RoomIds
    BY <1>0, Constants DEF ServerTypes, RoomIds, RoomsConstants
  <2>2. [r \in RoomIds |-> IF r \in mine THEN Latest(r, Recent) ELSE <<>>] \in History
    BY LatestListed DEF History
  <2>3. m \in Reply
    BY <2>1, <2>2 DEF Reply
  <2>4. in' \in [Clients -> Seq(Reply)]
    BY <1>1, <2>3, AnswerFacts DEF Authorization
  <2>5. out' \in [Clients -> Seq(Request)]
    BY <1>1, HandleFacts DEF Authorization
  <2> QED
    BY <1>0, <1>1, <2>4, <2>5 DEF Authorization, ServerTypes, tables
<1>2. CASE Logout(c)
  <2>1. out' \in [Clients -> Seq(Request)]
    BY <1>2, HandleFacts DEF Logout
  <2> QED
    BY <1>0, <1>2, <2>1 DEF Logout, ServerTypes, tables
<1>3. CASE ProcessMessage(c)
  <2> DEFINE m == [type |-> "MSG", room |-> q.room, text |-> q.text, id |-> Len(history) + 1]
             row == [room |-> q.room, user |-> c, text |-> q.text, live |-> TRUE]
  <2>1. out' \in [Clients -> Seq(Request)] /\ q \in Request /\ q.type = "MSG"
    BY <1>3, HandleFacts DEF ProcessMessage
  <2>2. q.room \in RoomIds /\ q.text \in Texts
    BY <2>1, RequestFacts
  <2>3. Len(history) + 1 \in MessageIds /\ Len(history) + 1 <= MaxMessages
    BY <1>0, <1>3, Constants DEF ProcessMessage, ServerTypes, MessageIds, RoomsConstants
  <2>4. row \in Message
    BY <2>2 DEF Message
  <2>5. m \in Reply
    BY <2>2, <2>3 DEF Reply
  <2>6. in' \in [Clients -> Seq(Reply)]
    BY <1>0, <1>3, <2>2, <2>5, BroadcastFacts DEF ProcessMessage, ServerTypes
  <2>7. history' = Append(history, row)
    BY <1>3 DEF ProcessMessage
  <2> HIDE DEF row
  <2>8. history' \in Seq(Message) /\ Len(history') <= MaxMessages
    BY <1>0, <2>3, <2>4, <2>7 DEF ServerTypes
  <2> QED
    BY <1>0, <1>3, <2>1, <2>6, <2>8 DEF ProcessMessage, ServerTypes
<1>4. CASE EditMessage(c)
  <2>1. /\ out' \in [Clients -> Seq(Request)] /\ q \in Request /\ q.type = "EDIT"
        /\ UNCHANGED <<rooms, rows, online, userState>>
    BY <1>4, HandleFacts DEF EditMessage
  <2>2. q.room \in RoomIds /\ q.text \in Texts /\ q \in Reply
    BY <2>1, RequestFacts
  <2>3. CASE UNCHANGED <<history, in, exposed>>
    BY <1>0, <2>1, <2>3 DEF ServerTypes
  <2>4. CASE /\ history' = IF history[q.id].live
                            THEN [history EXCEPT ![q.id].text = q.text]
                            ELSE history
             /\ Broadcast(rows, q.room, q, {})
             /\ ExposeMembers(q.id, q.room)
    <3>1. in' \in [Clients -> Seq(Reply)]
      BY <1>0, <2>2, <2>4, BroadcastFacts DEF ServerTypes
    <3>2. [history EXCEPT ![q.id].text = q.text] \in Seq(Message)
          /\ Len([history EXCEPT ![q.id].text = q.text]) = Len(history)
      <4> DEFINE row == [history[q.id] EXCEPT !.text = q.text]
                 edited == [history EXCEPT ![q.id].text = q.text]
      <4>1. q.id \in DOMAIN history => row \in Message
        <5>1. q.id \in DOMAIN history => history[q.id] \in Message
          BY <1>0 DEF ServerTypes
        <5> QED
          BY <2>2, <5>1 DEF Message
      <4>2. edited = [history EXCEPT ![q.id] = row]
        OBVIOUS
      <4> HIDE DEF row, edited
      <4>3. edited \in Seq(Message) /\ Len(edited) = Len(history)
        <5>1. history \in Seq(Message)
          BY <1>0 DEF ServerTypes
        <5> QED
          BY <4>1, <4>2, <5>1, HistoryUpdate
      <4> QED
        BY <4>3 DEF edited
    <3>3. exposed' \subseteq Clients
      BY <1>0, <2>4 DEF ExposeMembers, Members, ServerTypes
    <3> QED
      BY <1>0, <2>1, <2>4, <3>1, <3>2, <3>3 DEF ServerTypes
  <2> QED
    BY <1>4, <2>3, <2>4 DEF EditMessage
<1>5. CASE DeleteMessage(c)
  <2>1. /\ out' \in [Clients -> Seq(Request)] /\ q \in Request /\ q.type = "DELETE"
        /\ UNCHANGED <<rooms, rows, online, userState>>
    BY <1>5, HandleFacts DEF DeleteMessage
  <2>2. q.room \in RoomIds /\ q \in Reply
    BY <2>1, RequestFacts
  <2>3. in' \in [Clients -> Seq(Reply)]
    BY <1>0, <1>5, <2>2, BroadcastFacts DEF DeleteMessage, ServerTypes
  <2>4. history' = [history EXCEPT ![q.id].live = FALSE]
    BY <1>5 DEF DeleteMessage
  <2>5. history' \in Seq(Message) /\ Len(history') = Len(history)
    <3> DEFINE row == [history[q.id] EXCEPT !.live = FALSE]
    <3>1. q.id \in DOMAIN history => row \in Message
      <4>1. q.id \in DOMAIN history => history[q.id] \in Message
        BY <1>0 DEF ServerTypes
      <4> QED
        BY <4>1 DEF Message
    <3>2. history' = [history EXCEPT ![q.id] = row]
      BY <2>4
    <3> HIDE DEF row
    <3> QED
      <4>1. history \in Seq(Message)
        BY <1>0 DEF ServerTypes
      <4> QED
        BY <3>1, <3>2, <4>1, HistoryUpdate
  <2>6. exposed' \subseteq Clients
    BY <1>0, <1>5 DEF DeleteMessage, ExposeMembers, Members, ServerTypes
  <2> QED
    BY <1>0, <2>1, <2>3, <2>5, <2>6 DEF ServerTypes
<1>6. CASE LoadHistory(c)
  <2> DEFINE older == LastOf(Stored(q.room, q.last), Batch)
             m == [type |-> "LOAD_MORE", room |-> q.room, shown |-> older]
  <2>1. out' \in [Clients -> Seq(Request)] /\ q \in Request /\ q.type = "LOAD_MORE"
    BY <1>6, HandleFacts DEF LoadHistory
  <2>2. q.room \in RoomIds
    BY <2>1, RequestFacts
  <2>3. older \in Seq(Entry)
    BY RowsListed, Constants DEF RoomsConstants
  <2>4. m \in Reply
    BY <2>2, <2>3 DEF Reply
  <2>5. in' \in [Clients -> Seq(Reply)]
    BY <1>6, <2>4, AnswerFacts DEF LoadHistory
  <2> QED
    BY <1>0, <1>6, <2>1, <2>5 DEF LoadHistory, ServerTypes, tables
<1>7. CASE SearchAll(c)
  <2> DEFINE m == [type |-> "SEARCH",
                   rooms |-> {r \in 1 .. Len(rooms) : rooms[r].access = "public"}]
  <2>1. m \in Reply
    BY <1>0, Constants DEF ServerTypes, RoomIds, RoomsConstants, Reply
  <2>2. in' \in [Clients -> Seq(Reply)]
    BY <1>7, <2>1, AnswerFacts DEF SearchAll
  <2>3. out' \in [Clients -> Seq(Request)]
    BY <1>7, HandleFacts DEF SearchAll
  <2> QED
    BY <1>0, <1>7, <2>2, <2>3 DEF SearchAll, ServerTypes, tables
<1>8. CASE EndOfFile(c)
  <2>1. out' \in [Clients -> Seq(Request)]
    BY <1>0, <1>8 DEF EndOfFile, ServerTypes
  <2> QED
    BY <1>0, <1>8, <2>1 DEF EndOfFile, ServerTypes, tables
<1> QED
  BY <1>1, <1>2, <1>3, <1>4, <1>5, <1>6, <1>7, <1>8

LEMMA TypeMembersStep ==
    ASSUME TypeOK, NEW c \in Clients,
           JoinRoom(c) \/ CreateRoom(c) \/ LeaveRoom(c) \/ DirectMessage(c)
    PROVE  ServerTypes' /\ UNCHANGED userState
<1> DEFINE q == Head(out[c])
           new == Len(rooms) + 1
<1>0. ServerTypes
  BY DEF TypeOK, ServerTypes
<1>1. CASE JoinRoom(c)
  <2> DEFINE newRows == [rows EXCEPT ![c][q.room] = @ + 1]
             m == [type |-> "JOIN", room |-> q.room, user |-> c,
                   shown |-> Latest(q.room, Recent)]
  <2>1. out' \in [Clients -> Seq(Request)] /\ q \in Request /\ q.type = "JOIN"
    BY <1>1, HandleFacts DEF JoinRoom
  <2>2. q.room \in RoomIds
    BY <2>1, RequestFacts
  <2>3. m \in Reply
    BY <2>2, LatestListed DEF Reply
  <2>4. newRows \in [Clients -> [RoomIds -> Nat]]
    <3>1. rows[c][q.room] + 1 \in Nat
      BY <1>0, <2>2 DEF ServerTypes
    <3> QED
      BY <1>0, <2>2, <3>1, RowsUpdate DEF ServerTypes
  <2>5. in' \in [Clients -> Seq(Reply)]
    BY <1>1, <2>2, <2>3, <2>4, BroadcastFacts DEF JoinRoom
  <2>6. rows' = newRows /\ UNCHANGED <<rooms, history, online, userState>>
    BY <1>1 DEF JoinRoom
  <2>7. exposed' \subseteq Clients
    BY <1>0, <1>1 DEF JoinRoom, ServerTypes
  <2> QED
    BY <1>0, <2>1, <2>4, <2>5, <2>6, <2>7 DEF ServerTypes
<1>2. CASE CreateRoom(c)
  <2>1. /\ out' \in [Clients -> Seq(Request)] /\ q \in Request /\ q.type = "CREATE"
        /\ UNCHANGED <<history, online, userState, exposed>>
    BY <1>2, HandleFacts DEF CreateRoom
  <2>2. CASE UNCHANGED <<rooms, rows, in>>
    BY <1>0, <2>1, <2>2 DEF ServerTypes
  <2>3. CASE /\ new <= MaxRooms
             /\ rooms' = Append(rooms, [access |-> q.access,
                                        first |-> NoUser, second |-> NoUser])
             /\ rows' = [rows EXCEPT ![c][new] = @ + 1]
             /\ Answer(c, [type |-> "CREATE", room |-> new, user |-> c,
                           shown |-> <<>>])
    <3>1. new \in RoomIds
      BY <1>0, <2>3, Constants DEF ServerTypes, RoomIds, RoomsConstants
    <3>2. [access |-> q.access, first |-> NoUser, second |-> NoUser] \in Room
      BY <2>1, RequestFacts DEF Room
    <3>3. rooms' \in Seq(Room) /\ Len(rooms') <= MaxRooms
      BY <1>0, <2>3, <3>2 DEF ServerTypes
    <3>4. rows' \in [Clients -> [RoomIds -> Nat]]
      <4>1. rows[c][new] + 1 \in Nat
        BY <1>0, <3>1 DEF ServerTypes
      <4> QED
        BY <1>0, <2>3, <3>1, <4>1, RowsUpdate DEF ServerTypes
    <3>5. [type |-> "CREATE", room |-> new, user |-> c, shown |-> <<>>] \in Reply
      BY <3>1 DEF Reply
    <3>6. in' \in [Clients -> Seq(Reply)]
      BY <2>3, <3>5, AnswerFacts
    <3> QED
      BY <1>0, <2>1, <3>3, <3>4, <3>6 DEF ServerTypes
  <2> QED
    BY <1>2, <2>2, <2>3 DEF CreateRoom
<1>3. CASE LeaveRoom(c)
  <2> DEFINE newRows == [rows EXCEPT ![c][q.room] = 0]
             m == [type |-> "LEAVE", room |-> q.room, user |-> c]
  <2>1. out' \in [Clients -> Seq(Request)] /\ q \in Request /\ q.type = "LEAVE"
    BY <1>3, HandleFacts DEF LeaveRoom
  <2>2. q.room \in RoomIds
    BY <2>1, RequestFacts
  <2>3. m \in Reply
    BY <2>2 DEF Reply
  <2>4. newRows \in [Clients -> [RoomIds -> Nat]]
    BY <1>0, <2>2, RowsUpdate DEF ServerTypes
  <2>5. in' \in [Clients -> Seq(Reply)]
    BY <1>3, <2>2, <2>3, <2>4, BroadcastFacts DEF LeaveRoom
  <2>6. rows' = newRows /\ UNCHANGED <<rooms, history, online, userState, exposed>>
    BY <1>3 DEF LeaveRoom
  <2> QED
    BY <1>0, <2>1, <2>4, <2>5, <2>6 DEF ServerTypes
<1>4. CASE DirectMessage(c)
  <2> DEFINE d == q.other
             mine == [rows EXCEPT ![c][new] = @ + 1]
             newRows == [mine EXCEPT ![d][new] = @ + 1]
             m == [type |-> "DIRECT", room |-> new, exist |-> FALSE]
  <2>1. /\ out' \in [Clients -> Seq(Request)] /\ q \in Request /\ q.type = "DIRECT"
        /\ UNCHANGED <<history, online, userState, exposed>>
    BY <1>4, HandleFacts DEF DirectMessage
  <2>2. d \in Clients
    BY <2>1, RequestFacts
  <2>3. ASSUME NEW old \in DirectRooms(c, d),
               Answer(c, [type |-> "DIRECT", room |-> old, exist |-> TRUE]),
               UNCHANGED <<rooms, rows>>
        PROVE  ServerTypes'
    <3>1. old \in RoomIds
      BY <1>0, Constants DEF DirectRooms, RoomIds, ServerTypes, RoomsConstants
    <3>2. [type |-> "DIRECT", room |-> old, exist |-> TRUE] \in Reply
      BY <3>1 DEF Reply
    <3>3. in' \in [Clients -> Seq(Reply)]
      BY <2>3, <3>2, AnswerFacts
    <3> QED
      BY <1>0, <2>1, <2>3, <3>3 DEF ServerTypes
  <2>4. CASE /\ new <= MaxRooms
             /\ rooms' = Append(rooms, [access |-> "direct", first |-> c, second |-> d])
             /\ rows' = newRows
             /\ Broadcast(newRows, new, m, {})
    <3>1. new \in RoomIds
      BY <1>0, <2>4, Constants DEF ServerTypes, RoomIds, RoomsConstants
    <3>2. [access |-> "direct", first |-> c, second |-> d] \in Room
      BY <2>2 DEF Room
    <3>3. rooms' \in Seq(Room) /\ Len(rooms') <= MaxRooms
      BY <1>0, <2>4, <3>2 DEF ServerTypes
    <3>4. newRows \in [Clients -> [RoomIds -> Nat]]
      <4>1. rows[c][new] + 1 \in Nat
        BY <1>0, <3>1 DEF ServerTypes
      <4>2. mine \in [Clients -> [RoomIds -> Nat]]
        BY <1>0, <3>1, <4>1, RowsUpdate DEF ServerTypes
      <4> HIDE DEF mine
      <4>3. mine[d][new] + 1 \in Nat
        BY <2>2, <3>1, <4>2
      <4> QED
        BY <2>2, <3>1, <4>2, <4>3, RowsUpdate
    <3>5. m \in Reply
      BY <3>1 DEF Reply
    <3>6. in' \in [Clients -> Seq(Reply)]
      BY <2>4, <3>1, <3>4, <3>5, BroadcastFacts
    <3> QED
      BY <1>0, <2>1, <2>4, <3>3, <3>4, <3>6 DEF ServerTypes
  <2> QED
    BY <1>4, <2>1, <2>3, <2>4 DEF DirectMessage
<1> QED
  BY <1>1, <1>2, <1>3, <1>4

-----------------------------------------------------------------------------
\* Types: what the client does.

LEMMA ShownUpdate ==
    ASSUME shown \in [Clients -> History], NEW c \in Clients, NEW r \in RoomIds,
           NEW s \in Seq(Entry)
    PROVE  /\ [shown EXCEPT ![c][r] = s] \in [Clients -> History]
           /\ [shown EXCEPT ![c][r] = s][c][r] = s
           /\ \A d \in Clients, q \in RoomIds :
                 d # c \/ q # r => [shown EXCEPT ![c][r] = s][d][q] = shown[d][q]
<1>1. [shown[c] EXCEPT ![r] = s] \in History
  BY DEF History
<1> QED
  BY <1>1 DEF History

LEMMA ShownStep ==
    ASSUME TypeOK, NEW c \in Clients, NEW r \in RoomIds, NEW s \in Seq(Entry),
           shown' = [shown EXCEPT ![c][r] = s]
    PROVE  shown' \in [Clients -> History]
BY ShownUpdate DEF TypeOK

LEMMA ShownFacts ==
    ASSUME TypeOK, NEW c \in Clients, NEW r \in RoomIds
    PROVE  /\ shown[c][r] \in Seq(Entry) /\ DOMAIN shown[c][r] = 1 .. Len(shown[c][r])
           /\ Len(shown[c][r]) \in Nat
           /\ \A i \in DOMAIN shown[c][r] :
                 /\ shown[c][r][i] \in Entry /\ shown[c][r][i].id \in MessageIds
                 /\ shown[c][r][i].text \in Texts
           /\ shown[c][r] # <<>> => 1 \in DOMAIN shown[c][r]
<1>1. shown[c][r] \in Seq(Entry)
  BY DEF TypeOK, History
<1>2. \A i \in DOMAIN shown[c][r] : shown[c][r][i] \in Entry
  BY <1>1
<1>3. DOMAIN shown[c][r] = 1 .. Len(shown[c][r]) /\ Len(shown[c][r]) \in Nat
      /\ (shown[c][r] # <<>> => 1 \in DOMAIN shown[c][r])
  BY <1>1
<1> QED
  BY <1>1, <1>2, <1>3 DEF Entry

\* Popping keeps a list of entries.
LEMMA PoppedListed ==
    ASSUME NEW s \in Seq(Entry), NEW id, NEW i \in DOMAIN s
    PROVE  Popped(s, id, i) \in Seq(Entry)
<1> DEFINE e == [s[i] EXCEPT !.gone = TRUE]
           destroyed == [s EXCEPT ![i].gone = TRUE]
           later == Places(s, id) \ {1}
<1>1. s[i] \in Entry
  OBVIOUS
<1>2. e \in Entry
  BY <1>1 DEF Entry
<1>3. destroyed = [s EXCEPT ![i] = e]
  OBVIOUS
<1> HIDE DEF e, destroyed
<1>4. destroyed \in Seq(Entry) /\ Len(destroyed) = Len(s)
  BY <1>2, <1>3, ListUpdate
<1>5. Popped(s, id, i) = IF later = {} THEN destroyed ELSE RemoveAt(destroyed, First(later))
  BY DEF Popped, destroyed
<1>6. CASE later = {}
  BY <1>4, <1>5, <1>6
<1>7. CASE later # {}
  <2>1. DOMAIN s = 1 .. Len(s) /\ later \subseteq DOMAIN s /\ DOMAIN s \subseteq Nat
    BY DEF Places
  <2> HIDE DEF later
  <2>2. First(later) \in 1 .. Len(destroyed)
    BY <1>4, <1>7, <2>1, FirstFacts
  <2> QED
    BY <1>4, <1>5, <1>7, <2>2, ListWithoutElement
<1> QED
  BY <1>6, <1>7

\* What stays as it is when a client asks the server something.
LEMMA TypeByAsking ==
    ASSUME TypeOK, NEW c \in Clients, NEW use, NEW q \in Request, Ask(c, use, q),
           UNCHANGED <<tables, online, in, phase, snap, known, shown>>,
           editing' \in [Clients -> [room : RoomIds, id : MessageIds] \cup {NoEdit}],
           results' \in [Clients -> Seq(SUBSET RoomIds)],
           canLoad' \in [Clients -> BOOLEAN],
           exposed' \subseteq Clients
    PROVE  TypeOK'
<1>1. out' \in [Clients -> Seq(Request)] /\ asked' \in 0 .. MaxRequests
  BY AskFacts
<1> QED
  BY <1>1 DEF TypeOK, tables

LEMMA TypeCallbackStep ==
    ASSUME TypeOK, NEW c \in Clients, Callback(c)
    PROVE  TypeOK'
<1>0. /\ editing \in [Clients -> [room : RoomIds, id : MessageIds] \cup {NoEdit}]
      /\ results \in [Clients -> Seq(SUBSET RoomIds)]
      /\ canLoad \in [Clients -> BOOLEAN] /\ exposed \subseteq Clients
      /\ out \in [Clients -> Seq(Request)] /\ phase \in [Clients -> Phases]
      /\ known \in [Clients -> SUBSET RoomIds]
  BY DEF TypeOK
<1>1. CASE Enter(c)
  <2>1. [type |-> "AUTH"] \in Request
    BY DEF Request
  <2> DEFINE q == [type |-> "AUTH"]
  <2>2. out' = [out EXCEPT ![c] = Append(out[c], q)]
    BY <1>1 DEF Enter
  <2> HIDE DEF q
  <2>3. out' \in [Clients -> Seq(Request)]
    BY <1>0, <2>1, <2>2 DEF q
  <2>4. phase' \in [Clients -> Phases]
    BY <1>0, <1>1 DEF Enter, Phases
  <2> QED
    BY <1>1, <2>3, <2>4 DEF Enter, TypeOK, tables, lists
<1>2. CASE InitGeneral(c)
  <2>1. snap[c].rooms \subseteq RoomIds /\ snap[c].shown \in History
    BY DEF TypeOK
  <2>2. phase' \in [Clients -> Phases] /\ known' \in [Clients -> SUBSET RoomIds]
        /\ canLoad' \in [Clients -> BOOLEAN]
    BY <1>0, <1>2, <2>1 DEF InitGeneral, Phases
  <2>3. shown' \in [Clients -> History]
    BY <1>2, <2>1 DEF InitGeneral, TypeOK
  <2> QED
    BY <1>2, <2>2, <2>3 DEF InitGeneral, TypeOK, tables
<1>3. ASSUME NEW r \in RoomIds, NEW text \in Texts, SendMessage(c, r, text)
      PROVE  TypeOK'
  <2>1. [type |-> "MSG", room |-> r, text |-> text] \in Request
    BY DEF Request
  <2> QED
    BY <1>0, <1>3, <2>1, TypeByAsking DEF SendMessage, chat
<1>4. ASSUME NEW text \in Texts, SendEdit(c, text)
      PROVE  TypeOK'
  <2> DEFINE q == [type |-> "EDIT", room |-> editing[c].room, id |-> editing[c].id,
                   text |-> text]
  <2>1. editing[c] \in [room : RoomIds, id : MessageIds]
    BY <1>0, <1>4 DEF SendEdit
  <2>2. q \in Request
    BY <2>1 DEF Request
  <2>3. Ask(c, "EDIT", q) /\ UNCHANGED <<tables, online, in, phase, snap, lists, results, exposed>>
    BY <1>4 DEF SendEdit
  <2>4. editing' \in [Clients -> [room : RoomIds, id : MessageIds] \cup {NoEdit}]
    BY <1>0, <1>4 DEF SendEdit
  <2> HIDE DEF q
  <2> QED
    BY <1>0, <2>2, <2>3, <2>4, TypeByAsking DEF lists
<1>5. ASSUME NEW r \in RoomIds, Edit(c, r)
      PROVE  TypeOK'
  <2>1. PICK id \in Menu(c, r) : editing' = [editing EXCEPT ![c] = [room |-> r, id |-> id]]
    BY <1>5 DEF Edit
  <2>2. id \in MessageIds
    BY <2>1, ShownFacts DEF Menu
  <2>3. editing' \in [Clients -> [room : RoomIds, id : MessageIds] \cup {NoEdit}]
    BY <1>0, <2>1, <2>2
  <2> QED
    BY <1>5, <2>3 DEF Edit, TypeOK, tables, lists
<1>6. ASSUME NEW r \in RoomIds, Delete(c, r)
      PROVE  TypeOK'
  <2>1. PICK id \in Menu(c, r) : Ask(c, "DELETE", [type |-> "DELETE", room |-> r, id |-> id])
    BY <1>6 DEF Delete
  <2>2. id \in MessageIds
    BY <2>1, ShownFacts DEF Menu
  <2>3. [type |-> "DELETE", room |-> r, id |-> id] \in Request
    BY <2>2 DEF Request
  <2> QED
    BY <1>0, <1>6, <2>1, <2>3, TypeByAsking DEF Delete, chat
<1>7. ASSUME NEW r \in RoomIds, Scroll(c, r)
      PROVE  TypeOK'
  <2> DEFINE q == [type |-> "LOAD_MORE", room |-> r, last |-> shown[c][r][1].id]
  <2>1. q \in Request
    BY <1>7, ShownFacts DEF Scroll, Request
  <2>2. Ask(c, "LOAD_MORE", q)
    BY <1>7 DEF Scroll
  <2> HIDE DEF q
  <2>3. exposed' \subseteq Clients /\ canLoad' \in [Clients -> BOOLEAN]
        /\ UNCHANGED <<tables, online, in, phase, chat, results>>
    BY <1>0, <1>7 DEF Scroll
  <2> QED
    BY <1>0, <2>1, <2>2, <2>3, TypeByAsking DEF chat
<1>8. ASSUME NEW r \in RoomIds, Leave(c, r)
      PROVE  TypeOK'
  <2>1. [type |-> "LEAVE", room |-> r] \in Request
    BY DEF Request
  <2> QED
    BY <1>0, <1>8, <2>1, TypeByAsking DEF Leave, chat
<1>9. CASE CancelEdit(c)
  <2>1. editing' \in [Clients -> [room : RoomIds, id : MessageIds] \cup {NoEdit}]
    BY <1>0, <1>9 DEF CancelEdit
  <2> QED
    BY <1>9, <2>1 DEF CancelEdit, TypeOK, tables, lists
<1>10. CASE Search(c)
  <2>1. [type |-> "SEARCH"] \in Request
    BY DEF Request
  <2> QED
    BY <1>0, <1>10, <2>1, TypeByAsking DEF Search, chat
<1>11. CASE Join(c)
  <2>1. Last(results[c]) \subseteq RoomIds /\ Front(results[c]) \in Seq(SUBSET RoomIds)
    <3>1. results[c] \in Seq(SUBSET RoomIds) /\ results[c] # <<>>
      BY <1>0, <1>11 DEF Join
    <3> QED
      BY <3>1, FrontFacts
  <2>2. PICK r \in Last(results[c]) : Ask(c, "JOIN", [type |-> "JOIN", room |-> r])
    BY <1>11 DEF Join
  <2>3. [type |-> "JOIN", room |-> r] \in Request
    BY <2>1, <2>2 DEF Request
  <2>4. results' \in [Clients -> Seq(SUBSET RoomIds)]
    BY <1>0, <1>11, <2>1 DEF Join
  <2> QED
    BY <1>0, <1>11, <2>2, <2>3, <2>4, TypeByAsking DEF Join, chat
<1>12. CASE Create(c)
  <2>1. PICK access \in {"public", "private"} :
              Ask(c, "CREATE", [type |-> "CREATE", access |-> access])
    BY <1>12 DEF Create
  <2>2. [type |-> "CREATE", access |-> access] \in Request
    BY DEF Request
  <2> QED
    BY <1>0, <1>12, <2>1, <2>2, TypeByAsking DEF Create, chat
<1>13. ASSUME NEW d \in Clients, Direct(c, d)
       PROVE  TypeOK'
  <2>1. [type |-> "DIRECT", other |-> d] \in Request
    BY DEF Request
  <2>2. results[c] # <<>> => Front(results[c]) \in Seq(SUBSET RoomIds)
    BY <1>0, FrontFacts
  <2>3. results' \in [Clients -> Seq(SUBSET RoomIds)]
    BY <1>0, <1>13, <2>2 DEF Direct
  <2> QED
    BY <1>0, <1>13, <2>1, <2>3, TypeByAsking DEF Direct, chat
<1>14. CASE LogoutClient(c)
  <2>1. [type |-> "LOGOUT"] \in Request
    BY DEF Request
  <2>2. results' \in [Clients -> Seq(SUBSET RoomIds)]
    <3>1. <<>> \in Seq(SUBSET RoomIds)
      OBVIOUS
    <3> QED
      BY <1>0, <1>14, <3>1 DEF LogoutClient
  <2>3. phase' \in [Clients -> Phases]
    BY <1>0, <1>14 DEF LogoutClient, Phases
  <2>4. out' \in [Clients -> Seq(Request)] /\ asked' \in 0 .. MaxRequests
    BY <1>14, <2>1, AskFacts DEF LogoutClient
  <2> QED
    BY <1>14, <2>2, <2>3, <2>4 DEF LogoutClient, TypeOK, tables, chat
<1> QED
  BY <1>1, <1>2, <1>3, <1>4, <1>5, <1>6, <1>7, <1>8, <1>9, <1>10, <1>11, <1>12, <1>13, <1>14
     DEF Callback

\* What stays as it is when a client handles a message.
LEMMA TypeByReceiving ==
    ASSUME TypeOK, NEW c \in Clients, NEW types, Receive(c, types),
           UNCHANGED <<tables, online, out, editing, asked>>,
           snap' \in [Clients -> [rooms : SUBSET RoomIds, shown : History]],
           phase' \in [Clients -> Phases],
           known' \in [Clients -> SUBSET RoomIds], shown' \in [Clients -> History],
           canLoad' \in [Clients -> BOOLEAN],
           results' \in [Clients -> Seq(SUBSET RoomIds)], exposed' \subseteq Clients
    PROVE  TypeOK'
<1>1. in' \in [Clients -> Seq(Reply)]
  BY ReceiveFacts
<1> QED
  BY <1>1 DEF TypeOK, tables

\* The changes of the lists.
ListTypes ==
    /\ phase \in [Clients -> Phases]
    /\ known \in [Clients -> SUBSET RoomIds] /\ shown \in [Clients -> History]
    /\ canLoad \in [Clients -> BOOLEAN]

LEMMA ListSteps ==
    ASSUME TypeOK, NEW c \in Clients
    PROVE  /\ UNCHANGED <<phase, lists>> => ListTypes'
           /\ Crash(c) => ListTypes'
           /\ \A r \in RoomIds : \A s \in Seq(Entry) :
                 SetShown(c, r, s) \/ AddRoom(c, r, s) => ListTypes'
<1>1. ListTypes
  BY DEF ListTypes, TypeOK
<1>2. UNCHANGED <<phase, lists>> => ListTypes'
  BY <1>1 DEF ListTypes, lists
<1>3. Crash(c) => ListTypes'
  BY <1>1 DEF ListTypes, Crash, Phases, lists
<1>4. ASSUME NEW r \in RoomIds, NEW s \in Seq(Entry), SetShown(c, r, s) \/ AddRoom(c, r, s)
      PROVE  ListTypes'
  <2>1. shown' \in [Clients -> History]
    BY <1>1, <1>4, ShownUpdate DEF SetShown, AddRoom, ListTypes
  <2>2. known' \in [Clients -> SUBSET RoomIds] /\ UNCHANGED <<phase, canLoad>>
    BY <1>1, <1>4 DEF SetShown, AddRoom, ListTypes
  <2> QED
    BY <1>1, <2>1, <2>2 DEF ListTypes
<1> QED
  BY <1>2, <1>3, <1>4

LEMMA TypeByLists ==
    ASSUME TypeOK, NEW c \in Clients, NEW types, Receive(c, types), ListTypes',
           UNCHANGED clientRest,
           results' = results, exposed' \subseteq Clients
    PROVE  TypeOK'
<1>1. /\ snap' \in [Clients -> [rooms : SUBSET RoomIds, shown : History]]
      /\ results' \in [Clients -> Seq(SUBSET RoomIds)]
  BY DEF TypeOK, clientRest
<1> QED
  BY <1>1, TypeByReceiving DEF ListTypes, clientRest

LEMMA TypeInputStep ==
    ASSUME TypeOK, NEW c \in Clients, ProcessInput(c)
    PROVE  TypeOK'
<1> DEFINE m == Head(in[c])
           s == shown[c][m.room]
           at == Places(s, m.id)
<1>0. exposed \subseteq Clients
  BY DEF TypeOK
<1>1. CASE InputAuthentification(c)
  <2>1. Receive(c, {"AUTH"}) /\ m.rooms \subseteq RoomIds /\ m.shown \in History
    BY <1>1, ReceiveFacts, ReplyFacts DEF InputAuthentification
  <2>2. /\ snap' \in [Clients -> [rooms : SUBSET RoomIds, shown : History]]
        /\ phase' \in [Clients -> Phases]
    BY <1>1, <2>1 DEF InputAuthentification, TypeOK, Phases
  <2>3. /\ known' \in [Clients -> SUBSET RoomIds] /\ shown' \in [Clients -> History]
        /\ canLoad' \in [Clients -> BOOLEAN]
        /\ results' \in [Clients -> Seq(SUBSET RoomIds)] /\ exposed' \subseteq Clients
    BY <1>1 DEF InputAuthentification, TypeOK, lists
  <2> QED
    BY <1>1, <2>1, <2>2, <2>3, TypeByReceiving DEF InputAuthentification
<1>2. CASE InputMessage(c)
  <2> DEFINE e == [id |-> m.id, text |-> m.text, gone |-> FALSE]
  <2>1. Receive(c, {"MSG"}) /\ m.room \in RoomIds /\ e \in Entry
    <3>1. Receive(c, {"MSG"})
      BY <1>2 DEF InputMessage, ReceiveOnline
    <3>2. m \in Reply /\ m.type = "MSG"
      BY <3>1, ReceiveFacts
    <3> QED
      BY <3>1, <3>2, ReplyFacts DEF Entry
  <2> HIDE DEF e
  <2>2. Append(s, e) \in Seq(Entry)
    BY <2>1, ShownFacts
  <2>3. SetShown(c, m.room, Append(s, e)) \/ Crash(c)
    BY <1>2 DEF InputMessage, e
  <2>4. ListTypes'
    BY <2>1, <2>2, <2>3, ListSteps
  <2> QED
    BY <1>0, <1>2, <2>1, <2>4, TypeByLists DEF InputMessage
<1>3. CASE EditMessageClient(c)
  <2> DEFINE i == First(at)
             e == [s[i] EXCEPT !.text = m.text]
             edited == [s EXCEPT ![i].text = m.text]
  <2>1. Receive(c, {"EDIT"}) /\ m.room \in RoomIds /\ m.text \in Texts
    <3>1. Receive(c, {"EDIT"})
      BY <1>3 DEF EditMessageClient, ReceiveOnline
    <3>2. m \in Reply /\ m.type = "EDIT"
      BY <3>1, ReceiveFacts
    <3> QED
      BY <3>1, <3>2, ReplyFacts
  <2>2. at # {} => edited \in Seq(Entry)
    <3>1. at \subseteq DOMAIN s /\ DOMAIN s \subseteq Nat /\ s \in Seq(Entry)
      BY <2>1, ShownFacts DEF Places
    <3>2. at # {} => i \in DOMAIN s
      BY <3>1, FirstFacts
    <3>3. at # {} => e \in Entry
      <4>1. at # {} => s[i] \in Entry
        BY <2>1, <3>2, ShownFacts
      <4> HIDE DEF i, at, s
      <4> QED
        BY <2>1, <4>1 DEF Entry
    <3>4. edited = [s EXCEPT ![i] = e]
      OBVIOUS
    <3> HIDE DEF e, edited, i, at, s
    <3> QED
      BY <3>1, <3>3, <3>4, ListUpdate
  <2>3. UNCHANGED <<phase, lists>> \/ Crash(c) \/ (at # {} /\ SetShown(c, m.room, edited))
    BY <1>3 DEF EditMessageClient
  <2>4. ListTypes'
    BY <2>1, <2>2, <2>3, ListSteps
  <2> QED
    BY <1>0, <1>3, <2>1, <2>4, TypeByLists DEF EditMessageClient
<1>4. CASE DeleteMessageClient(c)
  <2>1. Receive(c, {"DELETE"}) /\ m.room \in RoomIds
    <3>1. Receive(c, {"DELETE"})
      BY <1>4 DEF DeleteMessageClient, ReceiveOnline
    <3>2. m \in Reply /\ m.type = "DELETE"
      BY <3>1, ReceiveFacts
    <3> QED
      BY <3>1, <3>2, ReplyFacts
  <2>2. at # {} => Popped(s, m.id, First(at)) \in Seq(Entry)
    <3>1. at \subseteq DOMAIN s /\ DOMAIN s \subseteq Nat /\ s \in Seq(Entry)
      BY <2>1, ShownFacts DEF Places
    <3>2. at # {} => First(at) \in DOMAIN s
      BY <3>1, FirstFacts
    <3> QED
      BY <3>1, <3>2, PoppedListed
  <2>3. UNCHANGED <<phase, lists>> \/ Crash(c)
        \/ (at # {} /\ SetShown(c, m.room, Popped(s, m.id, First(at))))
    BY <1>4 DEF DeleteMessageClient
  <2>4. ListTypes'
    BY <2>1, <2>2, <2>3, ListSteps
  <2> QED
    BY <1>0, <1>4, <2>1, <2>4, TypeByLists DEF DeleteMessageClient
<1>5. CASE LoadHistoryClient(c)
  <2> DEFINE older == m.shown \o s
  <2>1. Receive(c, {"LOAD_MORE"}) /\ m.room \in RoomIds /\ m.shown \in Seq(Entry)
    <3>1. Receive(c, {"LOAD_MORE"})
      BY <1>5 DEF LoadHistoryClient, ReceiveOnline
    <3>2. m \in Reply /\ m.type = "LOAD_MORE"
      BY <3>1, ReceiveFacts
    <3> QED
      BY <3>1, <3>2, ReplyFacts
  <2>2. older \in Seq(Entry)
    BY <2>1, ShownFacts
  <2>3. CASE Crash(c)
    <3>1. ListTypes'
      BY <2>3, ListSteps
    <3> QED
      BY <1>0, <1>5, <2>1, <3>1, TypeByLists DEF LoadHistoryClient
  <2>4. CASE /\ shown' = [shown EXCEPT ![c][m.room] = m.shown \o @]
             /\ canLoad' = [canLoad EXCEPT ![c] = TRUE]
             /\ UNCHANGED <<phase, known>>
    <3>1. shown' = [shown EXCEPT ![c][m.room] = older]
      BY <2>4
    <3> HIDE DEF older
    <3>2. shown' \in [Clients -> History]
      BY <2>1, <2>2, <3>1, ShownStep
    <3>3. ListTypes'
      BY <2>4, <3>2 DEF ListTypes, TypeOK
    <3> QED
      BY <1>0, <1>5, <2>1, <3>3, TypeByLists DEF LoadHistoryClient
  <2> QED
    BY <1>5, <2>3, <2>4 DEF LoadHistoryClient
<1>6. CASE JoinRoomClient(c)
  <2>1. Receive(c, {"JOIN", "CREATE"}) /\ m.room \in RoomIds /\ m.shown \in Seq(Entry)
    BY <1>6, ReceiveFacts, ReplyFacts DEF JoinRoomClient, ReceiveOnline
  <2>2. AddRoom(c, m.room, m.shown) \/ UNCHANGED <<phase, lists>>
    BY <1>6 DEF JoinRoomClient
  <2>3. ListTypes'
    BY <2>1, <2>2, ListSteps
  <2> QED
    BY <1>0, <1>6, <2>1, <2>3, TypeByLists DEF JoinRoomClient
<1>7. CASE LeaveRoomClient(c)
  <2>1. Receive(c, {"LEAVE"}) /\ m.room \in RoomIds
    BY <1>7, ReceiveFacts, ReplyFacts DEF LeaveRoomClient, ReceiveOnline
  <2>2. CASE /\ known' = [known EXCEPT ![c] = @ \ {m.room}]
             /\ shown' = [shown EXCEPT ![c][m.room] = <<>>]
             /\ UNCHANGED <<phase, canLoad>>
    <3>1. shown' \in [Clients -> History]
      <4>1. <<>> \in Seq(Entry)
        OBVIOUS
      <4> QED
        BY <2>1, <2>2, <4>1, ShownStep
    <3>2. known' \in [Clients -> SUBSET RoomIds]
      BY <2>2 DEF TypeOK
    <3>3. ListTypes'
      BY <2>2, <3>1, <3>2 DEF ListTypes, TypeOK
    <3> QED
      BY <1>0, <1>7, <2>1, <3>3, TypeByLists DEF LeaveRoomClient
  <2>3. CASE UNCHANGED <<phase, lists>>
    <3>1. ListTypes'
      BY <2>3, ListSteps
    <3> QED
      BY <1>0, <1>7, <2>1, <3>1, TypeByLists DEF LeaveRoomClient
  <2> QED
    BY <1>7, <2>2, <2>3 DEF LeaveRoomClient
<1>8. CASE DirectMessageClient(c)
  <2>1. Receive(c, {"DIRECT"}) /\ m.room \in RoomIds /\ <<>> \in Seq(Entry)
    BY <1>8, ReceiveFacts, ReplyFacts DEF DirectMessageClient, ReceiveOnline
  <2>2. AddRoom(c, m.room, <<>>) \/ UNCHANGED <<phase, lists>>
    BY <1>8 DEF DirectMessageClient
  <2>3. ListTypes'
    BY <2>1, <2>2, ListSteps
  <2> QED
    BY <1>0, <1>8, <2>1, <2>3, TypeByLists DEF DirectMessageClient
<1>9. CASE SearchAllClient(c)
  <2> DEFINE found == m.rooms \ known[c]
  <2>1. Receive(c, {"SEARCH"}) /\ found \in SUBSET RoomIds
    BY <1>9, ReceiveFacts, ReplyFacts DEF SearchAllClient, ReceiveOnline
  <2>2. results' = [results EXCEPT ![c] = Append(results[c], found)]
    BY <1>9 DEF SearchAllClient
  <2> HIDE DEF found
  <2>3. results' \in [Clients -> Seq(SUBSET RoomIds)]
    <3>1. results[c] \in Seq(SUBSET RoomIds)
      BY DEF TypeOK
    <3>2. Append(results[c], found) \in Seq(SUBSET RoomIds)
      BY <2>1, <3>1
    <3> QED
      BY <2>2, <3>2 DEF TypeOK
  <2>4. ListTypes'
    BY <1>9, ListSteps DEF SearchAllClient
  <2>5. snap' \in [Clients -> [rooms : SUBSET RoomIds, shown : History]]
        /\ exposed' \subseteq Clients /\ UNCHANGED <<tables, online, out, editing, asked>>
    BY <1>0, <1>9 DEF SearchAllClient, clientRest, TypeOK
  <2> QED
    BY <2>1, <2>3, <2>4, <2>5, TypeByReceiving DEF ListTypes
<1>10. CASE ReceiveWithoutWindow(c)
  <2>1. ListTypes'
    BY <1>10, ListSteps DEF ReceiveWithoutWindow
  <2>2. exposed' \subseteq Clients
    BY <1>0, <1>10 DEF ReceiveWithoutWindow
  <2> QED
    BY <1>10, <2>1, <2>2, TypeByLists DEF ReceiveWithoutWindow
<1> QED
  BY <1>1, <1>2, <1>3, <1>4, <1>5, <1>6, <1>7, <1>8, <1>9, <1>10 DEF ProcessInput

LEMMA TypeServeStep ==
    ASSUME TypeOK, NEW c \in Clients, Serve(c)
    PROVE  TypeOK' /\ ServerTypes' /\ UNCHANGED userState
BY TypeTalkStep, TypeMembersStep, TypeByServer DEF Serve

LEMMA RoomsTypeStep == TypeOK /\ [Next]_vars => TypeOK'
<1> SUFFICES ASSUME TypeOK, [Next]_vars
             PROVE  TypeOK'
  OBVIOUS
<1>1. CASE UNCHANGED vars
  BY <1>1 DEF vars, tables, lists, TypeOK
<1>2. CASE Next
  BY <1>2, TypeServeStep, TypeCallbackStep, TypeInputStep DEF Next
<1> QED
  BY <1>1, <1>2

\* The tables and the lists of every client, the requests and the answers on
\* their connections stay of their types, whatever the users do.
THEOREM RoomsTypes == Spec => []TypeOK
BY RoomsInitTypes, RoomsTypeStep, PTL DEF Spec

-----------------------------------------------------------------------------
\* Rooms there are.

\* A room is never changed or removed.
KeepsRooms ==
    /\ DOMAIN rooms \subseteq DOMAIN rooms'
    /\ \A r \in DOMAIN rooms : rooms'[r] = rooms[r]

\* Each client is sent nothing, or m only.
Sends(m) == \A d \in Clients : in'[d] = in[d] \/ Adds(in[d], in'[d], {m})

\* No request is added.
TakesOnly == \A d \in Clients : \A k \in DOMAIN out'[d] :
                 \E j \in DOMAIN out[d] : out'[d][k] = out[d][j]

LEMMA RoomsNumbered ==
    ASSUME TypeOK
    PROVE  DOMAIN rooms = 1 .. Len(rooms) /\ Len(rooms) \in Nat /\ DOMAIN rooms \subseteq RoomIds
           /\ \A r \in DOMAIN rooms : rooms[r] \in Room
<1>1. rooms \in Seq(Room) /\ Len(rooms) <= MaxRooms
  BY DEF TypeOK
<1>2. DOMAIN rooms = 1 .. Len(rooms) /\ Len(rooms) \in Nat
      /\ \A r \in DOMAIN rooms : rooms[r] \in Room
  BY <1>1
<1> QED
  BY <1>1, <1>2, Constants DEF RoomsConstants, RoomIds

LEMMA AddedRoom ==
    ASSUME TypeOK, NEW room \in Room, rooms' = Append(rooms, room)
    PROVE  /\ KeepsRooms /\ DOMAIN rooms' = DOMAIN rooms \cup {Len(rooms) + 1}
           /\ rooms'[Len(rooms) + 1] = room /\ Len(rooms) + 1 \notin DOMAIN rooms
<1>1. rooms \in Seq(Room)
  BY DEF TypeOK
<1> QED
  BY <1>1 DEF KeepsRooms

\* SentOfRooms of the rooms after the step.
WillBeOfRooms(m) ==
    /\ m.type = "AUTH" => m.rooms \subseteq DOMAIN rooms'
    /\ m.type = "SEARCH" => m.rooms \subseteq Public'
    /\ m.type \in {"JOIN", "CREATE", "DIRECT"} => m.room \in DOMAIN rooms'

LEMMA SentKept ==
    ASSUME KeepsRooms, NEW m, SentOfRooms(m)
    PROVE  WillBeOfRooms(m)
BY DEF KeepsRooms, SentOfRooms, WillBeOfRooms, Public

LEMMA HandleTakes ==
    ASSUME TypeOK, NEW c \in Clients, NEW type, Handle(c, type)
    PROVE  TakesOnly
<1> SUFFICES ASSUME NEW d \in Clients, NEW k \in DOMAIN out'[d]
             PROVE  \E j \in DOMAIN out[d] : out'[d][k] = out[d][j]
  BY DEF TakesOnly
<1>1. CASE d = c
  <2>1. Takes(out[d], out'[d])
    BY <1>1, HandleFacts
  <2>2. k + 1 \in DOMAIN out[d] /\ out'[d][k] = out[d][k + 1]
    BY <2>1 DEF Takes
  <2> QED
    BY <2>2
<1>2. CASE d # c
  BY <1>2, HandleFacts
<1> QED
  BY <1>1, <1>2

LEMMA AnswerSends ==
    ASSUME TypeOK, NEW c \in Clients, NEW m \in Reply, Answer(c, m)
    PROVE  Sends(m)
BY AnswerFacts DEF Sends

LEMMA BroadcastSends ==
    ASSUME TypeOK, NEW newRows \in [Clients -> [RoomIds -> Nat]], NEW r \in RoomIds,
           NEW m \in Reply, NEW also, Broadcast(newRows, r, m, also)
    PROVE  Sends(m)
BY BroadcastFacts DEF Sends

LEMMA OfRoomsByServer ==
    ASSUME OfRooms, KeepsRooms, TakesOnly, UNCHANGED <<known, snap, results>>,
           NEW m, Sends(m), WillBeOfRooms(m),
           \A c \in Clients, r \in RoomIds : rows'[c][r] > 0 => r \in DOMAIN rooms',
           \A i \in DOMAIN history' : history'[i].room \in DOMAIN rooms'
    PROVE  OfRooms'
<1>1. ASSUME NEW c \in Clients
      PROVE  /\ known'[c] \subseteq DOMAIN rooms' /\ snap'[c].rooms \subseteq DOMAIN rooms'
             /\ \A k \in DOMAIN results'[c] : results'[c][k] \subseteq Public'
  <2>1. Public \subseteq Public'
    BY DEF KeepsRooms, Public
  <2> QED
    BY <2>1 DEF OfRooms, KeepsRooms
<1>2. ASSUME NEW c \in Clients, NEW k \in DOMAIN out'[c]
      PROVE  AskedOfRooms(c, out[c][k])'
  <2>1. PICK j \in DOMAIN out[c] : out'[c][k] = out[c][j]
    BY <1>2 DEF TakesOnly
  <2>2. AskedOfRooms(c, out[c][j])
    BY <2>1 DEF OfRooms
  <2> DEFINE q == out[c][j]
  <2> HIDE DEF q
  <2>3. q = out[c][j] /\ AskedOfRooms(c, q)
    BY <2>2 DEF q
  <2> QED
    BY <2>1, <2>3 DEF KeepsRooms, AskedOfRooms, Public
<1>3. ASSUME NEW c \in Clients, NEW k \in DOMAIN in'[c]
      PROVE  SentOfRooms(in[c][k])'
  <2> DEFINE n == in'[c][k]
  <2>1. n = m \/ \E j \in DOMAIN in[c] : n = in[c][j]
    BY <1>3 DEF Sends, Adds
  <2>2. \A j \in DOMAIN in[c] : SentOfRooms(in[c][j])
    BY DEF OfRooms
  <2>3. WillBeOfRooms(n)
    BY <2>1, <2>2, SentKept
  <2> QED
    BY <2>3 DEF WillBeOfRooms, SentOfRooms
<1> QED
  BY <1>1, <1>2, <1>3 DEF OfRooms

\* Requests that change no room and no row of room_user.
LEMMA OfRoomsTalkStep ==
    ASSUME TypeOK, OfRooms, NEW c \in Clients,
           \/ Authorization(c) \/ Logout(c) \/ ProcessMessage(c) \/ EditMessage(c)
           \/ DeleteMessage(c) \/ LoadHistory(c) \/ SearchAll(c) \/ EndOfFile(c)
    PROVE  OfRooms' /\ UNCHANGED <<rooms, rows>>
<1> DEFINE q == Head(out[c])
<1>0. /\ rows \in [Clients -> [RoomIds -> Nat]]
      /\ history \in Seq(Message) /\ Len(history) <= MaxMessages
  BY DEF TypeOK
<1>a. UNCHANGED <<rooms, rows>> /\ KeepsRooms
      /\ UNCHANGED <<known, snap, results>>
  BY DEF Authorization, Logout, ProcessMessage, EditMessage, DeleteMessage, LoadHistory,
         SearchAll, EndOfFile, tables, userState, lists, KeepsRooms
<1>b. \A d \in Clients, r \in RoomIds : rows'[d][r] > 0 => r \in DOMAIN rooms'
  BY <1>a DEF OfRooms
<1>c. history' = history => \A i \in DOMAIN history' : history'[i].room \in DOMAIN rooms'
  BY <1>a DEF OfRooms
<1>d. \A m : m.type \in {"MSG", "EDIT", "DELETE", "LOAD_MORE"} => WillBeOfRooms(m)
  BY DEF WillBeOfRooms
<1>e. ASSUME NEW type, Handle(c, type)
      PROVE  /\ TakesOnly /\ q \in Request /\ q.type = type
             /\ 1 \in DOMAIN out[c] /\ q = out[c][1] /\ AskedOfRooms(c, q)
  <2>1. q \in Request /\ q.type = type /\ 1 \in DOMAIN out[c] /\ q = out[c][1]
    BY <1>e, HandleFacts
  <2> QED
    BY <1>e, <2>1, HandleTakes DEF OfRooms
<1>1. CASE Authorization(c)
  <2> DEFINE mine == {r \in 1 .. Len(rooms) : rows[c][r] > 0}
             m == [type |-> "AUTH", rooms |-> mine,
                   shown |-> [r \in RoomIds |-> IF r \in mine THEN Latest(r, Recent) ELSE <<>>]]
  <2>1. mine \subseteq RoomIds /\ mine \subseteq DOMAIN rooms
    BY RoomsNumbered
  <2>2. [r \in RoomIds |-> IF r \in mine THEN Latest(r, Recent) ELSE <<>>] \in History
    BY LatestListed DEF History
  <2>3. m \in Reply
    BY <2>1, <2>2 DEF Reply
  <2>4. WillBeOfRooms(m)
    BY <1>a, <2>1 DEF WillBeOfRooms
  <2>5. Answer(c, m) /\ TakesOnly /\ history' = history
    BY <1>1, <1>e DEF Authorization, tables
  <2> HIDE DEF m
  <2> QED
    BY <1>a, <1>b, <1>c, <2>3, <2>4, <2>5, AnswerSends, OfRoomsByServer
<1>2. CASE Logout(c)
  <2>1. TakesOnly /\ UNCHANGED <<in, history>>
    BY <1>2, <1>e DEF Logout, tables
  <2> DEFINE m == [type |-> "MSG"]
  <2>2. WillBeOfRooms(m) /\ Sends(m)
    BY <1>d, <2>1 DEF Sends
  <2> HIDE DEF m
  <2> QED
    BY <1>a, <1>b, <1>c, <2>1, <2>2, OfRoomsByServer
<1>3. CASE ProcessMessage(c)
  <2> DEFINE m == [type |-> "MSG", room |-> q.room, text |-> q.text, id |-> Len(history) + 1]
             row == [room |-> q.room, user |-> c, text |-> q.text, live |-> TRUE]
  <2>1. q \in Request /\ q.type = "MSG" /\ AskedOfRooms(c, q) /\ TakesOnly
    BY <1>3, <1>e DEF ProcessMessage
  <2>2. q.room \in RoomIds /\ q.text \in Texts /\ q.room \in DOMAIN rooms
    BY <2>1, RequestFacts DEF AskedOfRooms
  <2>3. Len(history) + 1 \in MessageIds
    BY <1>0, <1>3, Constants DEF ProcessMessage, MessageIds, RoomsConstants
  <2>4. m \in Reply /\ WillBeOfRooms(m)
    BY <1>d, <2>2, <2>3 DEF Reply
  <2>5. Sends(m)
    BY <1>0, <1>3, <2>2, <2>4, BroadcastSends DEF ProcessMessage
  <2>6. /\ history' = Append(history, row) /\ row.room \in DOMAIN rooms'
        /\ row \in Message
    BY <1>3, <1>a, <2>2 DEF ProcessMessage, Message
  <2> HIDE DEF row, m
  <2>7. \A i \in DOMAIN history' : history'[i].room \in DOMAIN rooms'
    <3>1. \A i \in DOMAIN history' : history'[i] = row \/ (i \in DOMAIN history /\ history'[i] = history[i])
      <4>1. history \in Seq(Message)
        BY <1>0
      <4> QED
        BY <2>6, <4>1
    <3> QED
      BY <1>a, <2>6, <3>1 DEF OfRooms
  <2> QED
    BY <1>a, <1>b, <2>1, <2>4, <2>5, <2>7, OfRoomsByServer
<1>4. CASE EditMessage(c)
  <2>1. q \in Request /\ q.type = "EDIT" /\ TakesOnly
    BY <1>4, <1>e DEF EditMessage
  <2>2. q.room \in RoomIds /\ q \in Reply /\ WillBeOfRooms(q)
    BY <1>d, <2>1, RequestFacts
  <2>3. Sends(q)
    <3>1. UNCHANGED in \/ Broadcast(rows, q.room, q, {})
      BY <1>4 DEF EditMessage
    <3>2. UNCHANGED in => Sends(q)
      BY DEF Sends
    <3> QED
      BY <1>0, <2>2, <3>1, <3>2, BroadcastSends
  <2>4. \A i \in DOMAIN history' : history'[i].room \in DOMAIN rooms'
    <3>1. history' = history \/ history' = [history EXCEPT ![q.id].text = q.text]
      BY <1>4 DEF EditMessage
    <3>2. CASE history' = [history EXCEPT ![q.id].text = q.text]
      <4>1. DOMAIN history' = DOMAIN history
        BY <3>2
      <4>2. \A i \in DOMAIN history : history[i] \in Message
        BY <1>0
      <4>3. \A i \in DOMAIN history : history'[i].room = history[i].room
        BY <3>2, <4>2 DEF Message
      <4> QED
        BY <1>a, <4>1, <4>3 DEF OfRooms
    <3> QED
      BY <1>c, <3>1, <3>2
  <2> HIDE DEF q
  <2> QED
    BY <1>a, <1>b, <2>1, <2>2, <2>3, <2>4, OfRoomsByServer
<1>5. CASE DeleteMessage(c)
  <2>1. q \in Request /\ q.type = "DELETE" /\ TakesOnly
    BY <1>5, <1>e DEF DeleteMessage
  <2>2. q.room \in RoomIds /\ q \in Reply /\ WillBeOfRooms(q)
    BY <1>d, <2>1, RequestFacts
  <2>3. Sends(q)
    BY <1>0, <1>5, <2>2, BroadcastSends DEF DeleteMessage
  <2>4. \A i \in DOMAIN history' : history'[i].room \in DOMAIN rooms'
    <3>1. history' = [history EXCEPT ![q.id].live = FALSE]
      BY <1>5 DEF DeleteMessage
    <3>2. \A i \in DOMAIN history : history[i] \in Message
      BY <1>0
    <3>3. DOMAIN history' = DOMAIN history
      BY <3>1
    <3>4. \A i \in DOMAIN history : history'[i].room = history[i].room
      BY <3>1, <3>2 DEF Message
    <3> QED
      BY <1>a, <3>3, <3>4 DEF OfRooms
  <2> HIDE DEF q
  <2> QED
    BY <1>a, <1>b, <2>1, <2>2, <2>3, <2>4, OfRoomsByServer
<1>6. CASE LoadHistory(c)
  <2> DEFINE older == LastOf(Stored(q.room, q.last), Batch)
             m == [type |-> "LOAD_MORE", room |-> q.room, shown |-> older]
  <2>1. q \in Request /\ q.type = "LOAD_MORE" /\ TakesOnly /\ history' = history
    BY <1>6, <1>e DEF LoadHistory, tables
  <2>2. q.room \in RoomIds /\ older \in Seq(Entry)
    BY <2>1, RequestFacts, RowsListed, Constants DEF RoomsConstants
  <2>3. m \in Reply /\ WillBeOfRooms(m)
    BY <1>d, <2>2 DEF Reply
  <2>4. Answer(c, m)
    BY <1>6 DEF LoadHistory
  <2> HIDE DEF m
  <2> QED
    BY <1>a, <1>b, <1>c, <2>1, <2>3, <2>4, AnswerSends, OfRoomsByServer
<1>7. CASE SearchAll(c)
  <2> DEFINE found == {r \in 1 .. Len(rooms) : rooms[r].access = "public"}
             m == [type |-> "SEARCH", rooms |-> found]
  <2>1. found = Public /\ found \subseteq RoomIds
    BY RoomsNumbered DEF Public
  <2>2. m \in Reply /\ WillBeOfRooms(m)
    BY <1>a, <2>1 DEF Reply, WillBeOfRooms, Public
  <2>3. Answer(c, m) /\ TakesOnly /\ history' = history
    BY <1>7, <1>e DEF SearchAll, tables
  <2> HIDE DEF m
  <2> QED
    BY <1>a, <1>b, <1>c, <2>2, <2>3, AnswerSends, OfRoomsByServer
<1>8. CASE EndOfFile(c)
  <2>1. out' = [out EXCEPT ![c] = <<>>] /\ UNCHANGED <<in, history>>
        /\ out \in [Clients -> Seq(Request)]
    BY <1>8 DEF EndOfFile, tables, TypeOK
  <2>2. TakesOnly
    BY <2>1 DEF TakesOnly
  <2> DEFINE m == [type |-> "MSG"]
  <2>3. WillBeOfRooms(m) /\ Sends(m)
    BY <1>d, <2>1 DEF Sends
  <2> HIDE DEF m
  <2> QED
    BY <1>a, <1>b, <1>c, <2>1, <2>2, <2>3, OfRoomsByServer
<1> QED
  BY <1>1, <1>2, <1>3, <1>4, <1>5, <1>6, <1>7, <1>8, <1>a

\* Whatever room is made or row changed, a request leaves both users of a direct
\* room their one row in it, and no two of these rooms have the same users.
DirectInv == DirectOfTwo /\ DirectRoomsUnique

\* Direct rooms stay as they are while the rooms and rows of them do.
LEMMA DirectKept ==
    ASSUME TypeOK, DirectInv, DOMAIN rooms \subseteq DOMAIN rooms',
           \A r \in DOMAIN rooms : rooms'[r] = rooms[r],
           \A r \in DOMAIN rooms' : rooms'[r].access = "direct" => r \in DOMAIN rooms,
           DOMAIN rooms' = 1 .. Len(rooms'),
           \A d \in Clients, r \in DOMAIN rooms : rooms[r].access = "direct" => rows'[d][r] = rows[d][r]
    PROVE  DirectInv'
<1>0. DOMAIN rooms = 1 .. Len(rooms)
  BY RoomsNumbered
<1>1. DirectOfTwo'
  BY DEF DirectInv, DirectOfTwo
<1>2. ASSUME NEW r \in DOMAIN rooms', NEW q \in DOMAIN rooms',
             rooms'[r].access = "direct", rooms'[q].access = "direct"
      PROVE  /\ rows'[rooms'[r].first][r] = 1 /\ rows'[rooms'[r].second][r] = 1
             /\ {rooms'[r].first, rooms'[r].second} = {rooms'[q].first, rooms'[q].second}
                => r = q
  <2>1. r \in DOMAIN rooms /\ q \in DOMAIN rooms /\ rooms'[r] = rooms[r] /\ rooms'[q] = rooms[q]
    BY <1>2
  <2>2. rooms[r].first \in Clients /\ rooms[r].second \in Clients
    BY <1>2, <2>1 DEF DirectInv, DirectOfTwo
  <2>3. /\ rows[rooms[r].first][r] = 1 /\ rows[rooms[r].second][r] = 1
        /\ {rooms[r].first, rooms[r].second} = {rooms[q].first, rooms[q].second} => r = q
    <3>1. rooms[r].access = "direct" /\ rooms[q].access = "direct"
      BY <1>2, <2>1
    <3>2. rows[rooms[r].first][r] = 1 /\ rows[rooms[r].second][r] = 1
      BY <1>0, <2>1, <3>1 DEF DirectInv, DirectRoomsUnique
    <3>3. {rooms[r].first, rooms[r].second} = {rooms[q].first, rooms[q].second} => r = q
      BY <1>0, <2>1, <3>1 DEF DirectInv, DirectRoomsUnique
    <3> QED
      BY <3>2, <3>3
  <2>4. rows'[rooms[r].first][r] = 1 /\ rows'[rooms[r].second][r] = 1
    <3>1. rooms[r].access = "direct"
      BY <1>2, <2>1
    <3>2. /\ rows'[rooms[r].first][r] = rows[rooms[r].first][r]
          /\ rows'[rooms[r].second][r] = rows[rooms[r].second][r]
      BY <2>1, <2>2, <3>1
    <3> QED
      BY <2>3, <3>2
  <2>5. /\ rooms'[r].first = rooms[r].first /\ rooms'[r].second = rooms[r].second
        /\ rooms'[q].first = rooms[q].first /\ rooms'[q].second = rooms[q].second
    BY <2>1
  <2> QED
    BY <2>3, <2>4, <2>5
<1>3. DirectRoomsUnique'
  BY <1>2 DEF DirectRoomsUnique
<1> QED
  BY <1>1, <1>3 DEF DirectInv

LEMMA OfRoomsMembersStep ==
    ASSUME TypeOK, OfRooms, DirectInv, NEW c \in Clients,
           JoinRoom(c) \/ CreateRoom(c) \/ LeaveRoom(c) \/ DirectMessage(c)
    PROVE  OfRooms' /\ DirectInv'
<1> DEFINE q == Head(out[c])
           new == Len(rooms) + 1
<1>0. rows \in [Clients -> [RoomIds -> Nat]] /\ DOMAIN rooms = 1 .. Len(rooms)
      /\ DOMAIN rooms \subseteq RoomIds
  BY RoomsNumbered DEF TypeOK
<1>a. UNCHANGED <<known, snap, results, history>>
  BY DEF JoinRoom, CreateRoom, LeaveRoom, DirectMessage, userState, lists
<1>b. KeepsRooms => \A i \in DOMAIN history' : history'[i].room \in DOMAIN rooms'
  BY <1>a DEF OfRooms, KeepsRooms
<1>d. \A m : m.type \in {"LEAVE"} => WillBeOfRooms(m)
  BY DEF WillBeOfRooms
<1>e. ASSUME NEW type, Handle(c, type)
      PROVE  /\ TakesOnly /\ q \in Request /\ q.type = type
             /\ 1 \in DOMAIN out[c] /\ q = out[c][1] /\ AskedOfRooms(c, q)
  <2>1. q \in Request /\ q.type = type /\ 1 \in DOMAIN out[c] /\ q = out[c][1]
    BY <1>e, HandleFacts
  <2> QED
    BY <1>e, <2>1, HandleTakes DEF OfRooms
<1>f. \A d \in Clients, r \in RoomIds : rows[d][r] > 0 => r \in DOMAIN rooms
  BY DEF OfRooms
<1>g. \A d \in Clients, r \in RoomIds : rows[d][r] \in Nat
  BY <1>0
<1>1. CASE JoinRoom(c)
  <2> DEFINE r == q.room
             newRows == [rows EXCEPT ![c][r] = rows[c][r] + 1]
             m == [type |-> "JOIN", room |-> r, user |-> c, shown |-> Latest(r, Recent)]
  <2>1. q \in Request /\ q.type = "JOIN" /\ AskedOfRooms(c, q) /\ TakesOnly
    BY <1>1, <1>e DEF JoinRoom
  <2>2. r \in RoomIds /\ r \in DOMAIN rooms /\ rooms[r].access = "public"
    BY <2>1, RequestFacts DEF AskedOfRooms, Public
  <2>3. rooms' = rooms /\ rows' = newRows /\ Broadcast(newRows, r, m, {})
    BY <1>1 DEF JoinRoom
  <2>4. m \in Reply /\ WillBeOfRooms(m) /\ KeepsRooms
    BY <2>2, <2>3, LatestListed DEF Reply, WillBeOfRooms, KeepsRooms
  <2>5. /\ newRows \in [Clients -> [RoomIds -> Nat]]
        /\ \A d \in Clients, p \in RoomIds : d # c \/ p # r => newRows[d][p] = rows[d][p]
    <3>1. rows[c][r] + 1 \in Nat
      BY <1>g, <2>2
    <3> QED
      BY <1>0, <2>2, <3>1, RowsUpdate
  <2> HIDE DEF newRows, m, r
  <2>6. Sends(m)
    BY <2>2, <2>3, <2>4, <2>5, BroadcastSends
  <2>7. \A d \in Clients, p \in RoomIds : rows'[d][p] > 0 => p \in DOMAIN rooms'
    BY <1>f, <2>2, <2>3, <2>5
  <2>8. OfRooms'
    BY <1>a, <1>b, <2>1, <2>4, <2>6, <2>7, OfRoomsByServer
  <2>9. \A d \in Clients, p \in DOMAIN rooms :
            rooms[p].access = "direct" => rows'[d][p] = rows[d][p]
    BY <1>0, <2>2, <2>3, <2>5
  <2>10. DirectInv'
    BY <1>0, <2>3, <2>9, DirectKept
  <2> QED
    BY <2>8, <2>10
<1>2. CASE CreateRoom(c)
  <2>1. q \in Request /\ q.type = "CREATE" /\ TakesOnly
    BY <1>2, <1>e DEF CreateRoom
  <2>2. CASE UNCHANGED <<rooms, rows, in>>
    <3> DEFINE m == [type |-> "LEAVE"]
    <3>1. WillBeOfRooms(m) /\ Sends(m) /\ KeepsRooms
      BY <1>d, <2>2 DEF Sends, KeepsRooms
    <3> HIDE DEF m
    <3>2. \A d \in Clients, p \in RoomIds : rows'[d][p] > 0 => p \in DOMAIN rooms'
      BY <1>f, <2>2
    <3>3. OfRooms'
      BY <1>a, <1>b, <2>1, <3>1, <3>2, OfRoomsByServer
    <3>4. DirectInv'
      BY <1>0, <2>2, DirectKept
    <3> QED
      BY <3>3, <3>4
  <2>3. CASE /\ new <= MaxRooms
             /\ rooms' = Append(rooms, [access |-> q.access,
                                        first |-> NoUser, second |-> NoUser])
             /\ rows' = [rows EXCEPT ![c][new] = @ + 1]
             /\ Answer(c, [type |-> "CREATE", room |-> new, user |-> c,
                           shown |-> <<>>])
    <3> DEFINE room == [access |-> q.access, first |-> NoUser, second |-> NoUser]
               m == [type |-> "CREATE", room |-> new, user |-> c, shown |-> <<>>]
    <3>1. new \in RoomIds
      BY <1>0, <2>3, RoomsNumbered, Constants DEF RoomIds, RoomsConstants
    <3>2. room \in Room /\ room.access # "direct" /\ m \in Reply
      BY <2>1, <3>1, RequestFacts DEF Room, Reply
    <3>3. rooms' = Append(rooms, room)
      BY <2>3
    <3> HIDE DEF room
    <3>4. /\ KeepsRooms /\ DOMAIN rooms' = DOMAIN rooms \cup {new}
          /\ rooms'[new] = room /\ new \notin DOMAIN rooms
      BY <3>2, <3>3, AddedRoom
    <3>5. rows[c][new] + 1 \in Nat
      BY <1>g, <3>1
    <3>6. \A d \in Clients, p \in RoomIds : d # c \/ p # new => rows'[d][p] = rows[d][p]
      BY <1>0, <2>3, <3>1, <3>5, RowsUpdate
    <3>7. WillBeOfRooms(m) /\ Sends(m)
      BY <2>3, <3>2, <3>4, AnswerSends DEF WillBeOfRooms
    <3> HIDE DEF m, new
    <3>8. \A d \in Clients, p \in RoomIds : rows'[d][p] > 0 => p \in DOMAIN rooms'
      BY <1>f, <3>4, <3>6
    <3>9. OfRooms'
      BY <1>a, <1>b, <2>1, <3>4, <3>7, <3>8, OfRoomsByServer
    <3>10. \A d \in Clients, p \in DOMAIN rooms : rows'[d][p] = rows[d][p]
      BY <1>0, <3>4, <3>6
    <3>11. DOMAIN rooms' = 1 .. Len(rooms')
      BY RoomsNumbered, TypeMembersStep DEF ServerTypes
    <3>12. DirectInv'
      BY <3>2, <3>4, <3>10, <3>11, DirectKept DEF KeepsRooms
    <3> QED
      BY <3>9, <3>12
  <2> QED
    BY <1>2, <2>2, <2>3 DEF CreateRoom
<1>3. CASE LeaveRoom(c)
  <2> DEFINE r == q.room
             newRows == [rows EXCEPT ![c][r] = 0]
             m == [type |-> "LEAVE", room |-> r, user |-> c]
  <2>1. q \in Request /\ q.type = "LEAVE" /\ AskedOfRooms(c, q) /\ TakesOnly
    BY <1>3, <1>e DEF LeaveRoom
  <2>2. r \in RoomIds /\ r \in DOMAIN rooms /\ rooms[r].access # "direct"
    BY <2>1, RequestFacts DEF AskedOfRooms
  <2>3. rooms' = rooms /\ rows' = newRows /\ Broadcast(newRows, r, m, {c})
    BY <1>3 DEF LeaveRoom
  <2>4. m \in Reply /\ WillBeOfRooms(m) /\ KeepsRooms
    BY <1>d, <2>2, <2>3 DEF Reply, KeepsRooms
  <2>5. /\ newRows \in [Clients -> [RoomIds -> Nat]]
        /\ newRows[c][r] = 0
        /\ \A d \in Clients, p \in RoomIds : d # c \/ p # r => newRows[d][p] = rows[d][p]
    BY <1>0, <2>2, RowsUpdate
  <2> HIDE DEF newRows, m, r
  <2>6. Sends(m)
    BY <2>2, <2>3, <2>4, <2>5, BroadcastSends
  <2>7. \A d \in Clients, p \in RoomIds : rows'[d][p] > 0 => p \in DOMAIN rooms'
    BY <1>f, <2>2, <2>3, <2>5
  <2>8. OfRooms'
    BY <1>a, <1>b, <2>1, <2>4, <2>6, <2>7, OfRoomsByServer
  <2>9. \A d \in Clients, p \in DOMAIN rooms :
            rooms[p].access = "direct" => rows'[d][p] = rows[d][p]
    BY <1>0, <2>2, <2>3, <2>5
  <2>10. DirectInv'
    BY <1>0, <2>3, <2>9, DirectKept
  <2> QED
    BY <2>8, <2>10
<1>4. CASE DirectMessage(c)
  <2> DEFINE d == q.other
             mine == [rows EXCEPT ![c][new] = rows[c][new] + 1]
             newRows == [mine EXCEPT ![d][new] = mine[d][new] + 1]
  <2>1. q \in Request /\ q.type = "DIRECT" /\ AskedOfRooms(c, q) /\ TakesOnly
    BY <1>4, <1>e DEF DirectMessage
  <2>2. d \in Clients /\ d # c
    BY <2>1, RequestFacts DEF AskedOfRooms
  <2>3. ASSUME NEW old \in DirectRooms(c, d),
               Answer(c, [type |-> "DIRECT", room |-> old, exist |-> TRUE]),
               UNCHANGED <<rooms, rows>>
        PROVE  OfRooms' /\ DirectInv'
    <3> DEFINE m == [type |-> "DIRECT", room |-> old, exist |-> TRUE]
    <3>1. old \in RoomIds /\ old \in DOMAIN rooms
      BY <1>0 DEF DirectRooms
    <3>2. m \in Reply /\ WillBeOfRooms(m) /\ KeepsRooms
      BY <2>3, <3>1 DEF Reply, WillBeOfRooms, KeepsRooms
    <3>3. Sends(m)
      BY <2>3, <3>2, AnswerSends
    <3> HIDE DEF m
    <3>4. \A u \in Clients, p \in RoomIds : rows'[u][p] > 0 => p \in DOMAIN rooms'
      BY <1>f, <2>3
    <3>5. OfRooms'
      BY <1>a, <1>b, <2>1, <3>2, <3>3, <3>4, OfRoomsByServer
    <3>6. DirectInv'
      BY <1>0, <2>3, DirectKept
    <3> QED
      BY <3>5, <3>6
  <2>4. CASE /\ DirectRooms(c, d) = {}
             /\ new <= MaxRooms
             /\ rooms' = Append(rooms, [access |-> "direct", first |-> c, second |-> d])
             /\ rows' = newRows
             /\ Broadcast(newRows, new, [type |-> "DIRECT", room |-> new, exist |-> FALSE], {})
    <3> DEFINE room == [access |-> "direct", first |-> c, second |-> d]
               m == [type |-> "DIRECT", room |-> new, exist |-> FALSE]
    <3>1. new \in RoomIds
      BY <1>0, <2>4, RoomsNumbered, Constants DEF RoomIds, RoomsConstants
    <3>2. /\ room \in Room /\ room.access = "direct" /\ room.first = c /\ room.second = d
          /\ m \in Reply
      BY <2>2, <3>1 DEF Room, Reply
    <3>3. rooms' = Append(rooms, room)
      BY <2>4
    <3> HIDE DEF room
    <3>4. /\ KeepsRooms /\ DOMAIN rooms' = DOMAIN rooms \cup {new}
          /\ rooms'[new] = room /\ new \notin DOMAIN rooms
      BY <3>2, <3>3, AddedRoom
    <3>5. \A u \in Clients : rows[u][new] = 0
      BY <1>f, <1>g, <3>1, <3>4
    <3>6. /\ mine \in [Clients -> [RoomIds -> Nat]] /\ mine[c][new] = 1 /\ mine[d][new] = 0
          /\ \A u \in Clients, p \in RoomIds : p # new => mine[u][p] = rows[u][p]
      <4>1. rows[c][new] + 1 = 1 /\ 1 \in Nat
        BY <3>5
      <4> QED
        BY <1>0, <2>2, <3>1, <3>5, <4>1, RowsUpdate
    <3> HIDE DEF mine
    <3>7. /\ newRows \in [Clients -> [RoomIds -> Nat]] /\ newRows[c][new] = 1 /\ newRows[d][new] = 1
          /\ \A u \in Clients, p \in RoomIds : p # new => newRows[u][p] = rows[u][p]
      <4>1. mine[d][new] + 1 = 1 /\ 1 \in Nat
        BY <3>6
      <4> QED
        BY <2>2, <3>1, <3>6, <4>1, RowsUpdate
    <3>8. Broadcast(newRows, new, m, {}) /\ rows' = newRows
      BY <2>4
    <3> HIDE DEF newRows
    <3>9. WillBeOfRooms(m) /\ Sends(m)
      BY <3>1, <3>2, <3>4, <3>7, <3>8, BroadcastSends DEF WillBeOfRooms
    <3> HIDE DEF m, new
    <3>10. \A u \in Clients, p \in RoomIds : rows'[u][p] > 0 => p \in DOMAIN rooms'
      BY <1>f, <3>4, <3>7, <3>8
    <3>11. OfRooms'
      BY <1>a, <1>b, <2>1, <3>4, <3>9, <3>10, OfRoomsByServer
    <3>12. DirectOfTwo'
      BY <2>2, <3>2, <3>4 DEF DirectInv, DirectOfTwo, KeepsRooms
    <3>13. \A u \in Clients, p \in DOMAIN rooms : rows'[u][p] = rows[u][p]
      BY <1>0, <3>4, <3>7, <3>8
    <3>14. ASSUME NEW r \in DOMAIN rooms, rooms[r].access = "direct"
           PROVE  /\ rooms[r].first \in Clients /\ rooms[r].second \in Clients
                  /\ {rooms[r].first, rooms[r].second} # {c, d}
      <4>1. rooms[r].first \in Clients /\ rooms[r].second \in Clients \ {rooms[r].first}
        BY <3>14 DEF DirectInv, DirectOfTwo
      <4>2. <<rooms[r].first, rooms[r].second>> \notin {<<c, d>>, <<d, c>>}
        BY <1>0, <2>4, <3>14 DEF DirectRooms
      <4> QED
        BY <4>1, <4>2
    <3>15. ASSUME NEW r \in DOMAIN rooms', NEW p \in DOMAIN rooms',
                  rooms'[r].access = "direct", rooms'[p].access = "direct"
           PROVE  /\ rows'[rooms'[r].first][r] = 1 /\ rows'[rooms'[r].second][r] = 1
                  /\ {rooms'[r].first, rooms'[r].second} = {rooms'[p].first, rooms'[p].second}
                     => r = p
      <4>1. \A i \in DOMAIN rooms' : i = new \/ (i \in DOMAIN rooms /\ rooms'[i] = rooms[i])
        BY <3>4, Zenon DEF KeepsRooms
      <4>2. CASE r = new
        BY <3>2, <3>4, <3>7, <3>8, <3>14, <3>15, <4>1, <4>2
      <4>3. CASE r \in DOMAIN rooms /\ rooms'[r] = rooms[r]
        <5>1. rows[rooms[r].first][r] = 1 /\ rows[rooms[r].second][r] = 1
          BY <1>0, <3>15, <4>3 DEF DirectInv, DirectRoomsUnique
        <5>2. rows'[rooms'[r].first][r] = 1 /\ rows'[rooms'[r].second][r] = 1
          BY <3>13, <3>14, <3>15, <4>3, <5>1
        <5>3. CASE p = new
          BY <3>2, <3>4, <3>14, <3>15, <4>3, <5>2, <5>3
        <5>4. CASE p \in DOMAIN rooms /\ rooms'[p] = rooms[p]
          BY <1>0, <3>15, <4>3, <5>2, <5>4 DEF DirectInv, DirectRoomsUnique
        <5> QED
          BY <4>1, <5>3, <5>4
      <4> QED
        BY <4>1, <4>2, <4>3
    <3>16. DOMAIN rooms' = 1 .. Len(rooms')
      BY RoomsNumbered, TypeMembersStep DEF ServerTypes
    <3>17. DirectRoomsUnique'
      BY <3>15, <3>16 DEF DirectRoomsUnique
    <3> QED
      BY <3>11, <3>12, <3>17 DEF DirectInv
  <2> QED
    BY <1>4, <2>3, <2>4 DEF DirectMessage
<1> QED
  BY <1>1, <1>2, <1>3, <1>4

\* A client asks for no room there is not, and lists none.
KnownOf == \A c \in Clients : known[c] \subseteq DOMAIN rooms
SnapOf == \A c \in Clients : snap[c].rooms \subseteq DOMAIN rooms
AskedOf == \A c \in Clients : \A k \in DOMAIN out[c] : AskedOfRooms(c, out[c][k])
SentOf == \A c \in Clients : \A k \in DOMAIN in[c] : SentOfRooms(in[c][k])
ResultsOf == \A c \in Clients : \A k \in DOMAIN results[c] : results[c][k] \subseteq Public

LEMMA OfRoomsByClient ==
    ASSUME OfRooms, UNCHANGED tables, KnownOf', SnapOf', AskedOf', SentOf', ResultsOf'
    PROVE  OfRooms'
BY DEF OfRooms, tables, KnownOf, SnapOf, AskedOf, SentOf, ResultsOf

\* What a step leaves alone keeps its part.
LEMMA OfRoomsKept ==
    ASSUME OfRooms, UNCHANGED tables
    PROVE  /\ known' = known => KnownOf'
           /\ snap' = snap => SnapOf'
           /\ out' = out => AskedOf'
           /\ in' = in => SentOf'
           /\ results' = results => ResultsOf'
BY DEF OfRooms, tables, KnownOf, SnapOf, AskedOf, SentOf, ResultsOf, AskedOfRooms,
       SentOfRooms, Public

LEMMA OfRoomsByAsking ==
    ASSUME TypeOK, OfRooms, NEW c \in Clients, NEW use, NEW q \in Request, Ask(c, use, q),
           AskedOfRooms(c, q), UNCHANGED <<tables, in, known, snap>>, ResultsOf'
    PROVE  OfRooms'
<1>1. ASSUME NEW d \in Clients, NEW k \in DOMAIN out'[d]
      PROVE  AskedOfRooms(d, out'[d][k])
  <2>1. CASE d = c
    <3>1. Adds(out[c], out'[c], {q})
      BY AskFacts
    <3>2. out'[c][k] = q \/ (k \in DOMAIN out[c] /\ out'[c][k] = out[c][k])
      BY <1>1, <2>1, <3>1 DEF Adds
    <3> QED
      BY <2>1, <3>2 DEF OfRooms
  <2>2. CASE d # c
    <3>1. out'[d] = out[d]
      BY <2>2, AskFacts
    <3> QED
      BY <1>1, <3>1 DEF OfRooms
  <2> QED
    BY <2>1, <2>2
<1>2. AskedOf'
  BY <1>1 DEF AskedOf, AskedOfRooms, Public, tables
<1>3. KnownOf' /\ SnapOf' /\ SentOf'
  BY OfRoomsKept
<1> QED
  BY <1>2, <1>3, OfRoomsByClient

LEMMA OfRoomsCallbackStep ==
    ASSUME TypeOK, OfRooms, NEW c \in Clients, Callback(c)
    PROVE  OfRooms' /\ UNCHANGED <<rooms, rows>>
<1>0. /\ \A d \in Clients :
            /\ known[d] \subseteq DOMAIN rooms /\ snap[d].rooms \subseteq DOMAIN rooms
            /\ \A k \in DOMAIN out[d] : AskedOfRooms(d, out[d][k])
            /\ \A k \in DOMAIN in[d] : SentOfRooms(in[d][k])
            /\ \A k \in DOMAIN results[d] : results[d][k] \subseteq Public
      /\ results \in [Clients -> Seq(SUBSET RoomIds)]
      /\ known \in [Clients -> SUBSET RoomIds]
  BY DEF OfRooms, TypeOK
<1>1. UNCHANGED tables
  BY DEF Callback, Enter, InitGeneral, SendMessage, SendEdit, Edit, Delete, Scroll, Leave,
         CancelEdit, Search, Join, Create, LogoutClient, Direct
<1> SUFFICES OfRooms'
  BY <1>1 DEF tables
<1>a. /\ known' = known => KnownOf'
      /\ snap' = snap => SnapOf'
      /\ out' = out => AskedOf'
      /\ in' = in => SentOf'
      /\ results' = results => ResultsOf'
  BY <1>1, OfRoomsKept
<1>2. CASE Enter(c)
  <2> DEFINE q == [type |-> "AUTH"]
  <2>1. out' = [out EXCEPT ![c] = Append(out[c], q)] /\ q \in Request
    BY <1>2 DEF Enter, Request
  <2>2. AskedOfRooms(c, q)
    BY DEF AskedOfRooms
  <2> HIDE DEF q
  <2>3. \A d \in Clients : \A k \in DOMAIN out'[d] :
            (d = c /\ out'[d][k] = q) \/ (k \in DOMAIN out[d] /\ out'[d][k] = out[d][k])
    <3>1. Adds(out[c], Append(out[c], q), {q})
      BY <2>1, AppendAdds DEF TypeOK
    <3> QED
      BY <2>1, <3>1 DEF TypeOK, Adds
  <2>4. UNCHANGED <<in, known, snap, results>>
    BY <1>2 DEF Enter, lists
  <2>5. \A d \in Clients : \A k \in DOMAIN out'[d] : AskedOfRooms(d, out'[d][k])
    BY <1>0, <2>2, <2>3
  <2>6. AskedOf'
    BY <1>1, <2>5 DEF AskedOf, AskedOfRooms, Public, tables
  <2> QED
    BY <1>a, <1>1, <2>4, <2>6, OfRoomsByClient
<1>3. CASE InitGeneral(c)
  <2>1. UNCHANGED <<in, out, snap, results>> /\ known' = [known EXCEPT ![c] = snap[c].rooms]
    BY <1>3 DEF InitGeneral
  <2>2. KnownOf'
    BY <1>0, <1>1, <2>1 DEF KnownOf, tables
  <2> QED
    BY <1>a, <1>1, <2>1, <2>2, OfRoomsByClient
<1>4. ASSUME NEW r \in RoomIds, NEW text \in Texts, SendMessage(c, r, text)
      PROVE  OfRooms'
  <2> DEFINE q == [type |-> "MSG", room |-> r, text |-> text]
  <2>1. q \in Request
    BY DEF Request
  <2>2. AskedOfRooms(c, q)
    BY <1>0, <1>4 DEF SendMessage, AskedOfRooms
  <2>3. Ask(c, "MSG", q) /\ UNCHANGED <<in, known, snap, results>>
    BY <1>4 DEF SendMessage, chat
  <2> HIDE DEF q
  <2> QED
    BY <1>a, <1>1, <2>1, <2>2, <2>3, OfRoomsByAsking
<1>5. ASSUME NEW text \in Texts, SendEdit(c, text)
      PROVE  OfRooms'
  <2> DEFINE q == [type |-> "EDIT", room |-> editing[c].room, id |-> editing[c].id,
                   text |-> text]
  <2>1. editing[c] \in [room : RoomIds, id : MessageIds]
    BY <1>5 DEF SendEdit, TypeOK
  <2>2. q \in Request /\ AskedOfRooms(c, q)
    BY <2>1 DEF Request, AskedOfRooms
  <2>3. Ask(c, "EDIT", q) /\ UNCHANGED <<in, known, snap, results>>
    BY <1>5 DEF SendEdit, lists
  <2> HIDE DEF q
  <2> QED
    BY <1>a, <1>1, <2>2, <2>3, OfRoomsByAsking
<1>6. ASSUME NEW r \in RoomIds, Edit(c, r)
      PROVE  OfRooms'
  <2>1. UNCHANGED <<in, out, known, snap, results>>
    BY <1>6 DEF Edit, lists
  <2> QED
    BY <1>a, <1>1, <2>1, OfRoomsByClient
<1>7. ASSUME NEW r \in RoomIds, Delete(c, r)
      PROVE  OfRooms'
  <2>1. PICK id \in Menu(c, r) : Ask(c, "DELETE", [type |-> "DELETE", room |-> r, id |-> id])
    BY <1>7 DEF Delete
  <2> DEFINE q == [type |-> "DELETE", room |-> r, id |-> id]
  <2>2. id \in MessageIds
    BY <2>1, ShownFacts DEF Menu
  <2>3. q \in Request /\ AskedOfRooms(c, q)
    BY <2>2 DEF Request, AskedOfRooms
  <2>4. Ask(c, "DELETE", q) /\ UNCHANGED <<in, known, snap, results>>
    BY <1>7, <2>1 DEF Delete, chat
  <2> HIDE DEF q
  <2> QED
    BY <1>a, <1>1, <2>3, <2>4, OfRoomsByAsking
<1>8. ASSUME NEW r \in RoomIds, Scroll(c, r)
      PROVE  OfRooms'
  <2> DEFINE q == [type |-> "LOAD_MORE", room |-> r, last |-> shown[c][r][1].id]
  <2>1. q \in Request /\ AskedOfRooms(c, q)
    BY <1>8, ShownFacts DEF Scroll, Request, AskedOfRooms
  <2>2. Ask(c, "LOAD_MORE", q) /\ UNCHANGED <<in, known, snap, results>>
    BY <1>8 DEF Scroll, chat
  <2> HIDE DEF q
  <2> QED
    BY <1>a, <1>1, <2>1, <2>2, OfRoomsByAsking
<1>9. ASSUME NEW r \in RoomIds, Leave(c, r)
      PROVE  OfRooms'
  <2> DEFINE q == [type |-> "LEAVE", room |-> r]
  <2>1. q \in Request
    BY DEF Request
  <2>2. AskedOfRooms(c, q)
    BY <1>0, <1>9 DEF Leave, AskedOfRooms
  <2>3. Ask(c, "LEAVE", q) /\ UNCHANGED <<in, known, snap, results>>
    BY <1>9 DEF Leave, chat
  <2> HIDE DEF q
  <2> QED
    BY <1>a, <1>1, <2>1, <2>2, <2>3, OfRoomsByAsking
<1>10. CASE Search(c)
  <2> DEFINE q == [type |-> "SEARCH"]
  <2>1. q \in Request /\ AskedOfRooms(c, q)
    BY DEF Request, AskedOfRooms
  <2>2. Ask(c, "JOIN", q) /\ UNCHANGED <<in, known, snap, results>>
    BY <1>10 DEF Search, chat
  <2> HIDE DEF q
  <2> QED
    BY <1>a, <1>1, <2>1, <2>2, OfRoomsByAsking
<1>11. CASE Join(c)
  <2>1. results[c] \in Seq(SUBSET RoomIds) /\ results[c] # <<>>
    BY <1>0, <1>11 DEF Join
  <2>2. /\ Last(results[c]) \subseteq RoomIds /\ Last(results[c]) \subseteq Public
        /\ \A k \in DOMAIN Front(results[c]) : Front(results[c])[k] \subseteq Public
    <3>1. /\ Last(results[c]) \in SUBSET RoomIds /\ Last(results[c]) = results[c][Len(results[c])]
          /\ Len(results[c]) \in DOMAIN results[c]
          /\ \A k \in DOMAIN Front(results[c]) :
                k \in DOMAIN results[c] /\ Front(results[c])[k] = results[c][k]
      BY <2>1, FrontFacts
    <3> QED
      BY <1>0, <3>1
  <2>3. PICK r \in Last(results[c]) : Ask(c, "JOIN", [type |-> "JOIN", room |-> r])
    BY <1>11 DEF Join
  <2> DEFINE q == [type |-> "JOIN", room |-> r]
  <2>4. q \in Request /\ AskedOfRooms(c, q)
    BY <2>2, <2>3 DEF Request, AskedOfRooms
  <2>5. Ask(c, "JOIN", q) /\ UNCHANGED <<in, known, snap>>
    BY <1>11, <2>3 DEF Join, chat
  <2>6. ResultsOf'
    <3>1. results' = [results EXCEPT ![c] = Front(results[c])]
      BY <1>11 DEF Join
    <3>2. \A d \in Clients : \A k \in DOMAIN results'[d] : results'[d][k] \subseteq Public
      BY <1>0, <2>2, <3>1
    <3> QED
      BY <1>1, <3>2 DEF ResultsOf, Public, tables
  <2> HIDE DEF q
  <2> QED
    BY <1>1, <2>4, <2>5, <2>6, OfRoomsByAsking
<1>12. CASE Create(c)
  <2>1. PICK access \in {"public", "private"} :
              Ask(c, "CREATE", [type |-> "CREATE", access |-> access])
    BY <1>12 DEF Create
  <2> DEFINE q == [type |-> "CREATE", access |-> access]
  <2>2. q \in Request /\ AskedOfRooms(c, q)
    BY DEF Request, AskedOfRooms
  <2>3. Ask(c, "CREATE", q) /\ UNCHANGED <<in, known, snap, results>>
    BY <1>12, <2>1 DEF Create, chat
  <2> HIDE DEF q
  <2> QED
    BY <1>a, <1>1, <2>2, <2>3, OfRoomsByAsking
<1>13. ASSUME NEW d \in Clients, Direct(c, d)
       PROVE  OfRooms'
  <2> DEFINE q == [type |-> "DIRECT", other |-> d]
  <2>1. q \in Request /\ AskedOfRooms(c, q)
    BY <1>13 DEF Direct, Request, AskedOfRooms
  <2>2. Ask(c, "DIRECT", q) /\ UNCHANGED <<in, known, snap>>
    BY <1>13 DEF Direct, chat
  <2>3. results[c] # <<>> =>
            \A k \in DOMAIN Front(results[c]) : Front(results[c])[k] \subseteq Public
    <3>1. results[c] \in Seq(SUBSET RoomIds)
      BY <1>0
    <3>2. results[c] # <<>> => \A k \in DOMAIN Front(results[c]) :
              k \in DOMAIN results[c] /\ Front(results[c])[k] = results[c][k]
      BY <3>1, FrontFacts
    <3> QED
      BY <1>0, <3>2
  <2>4. ResultsOf'
    <3> DEFINE left == IF results[c] = <<>> THEN results[c] ELSE Front(results[c])
    <3>1. results' = [results EXCEPT ![c] = left]
      BY <1>13 DEF Direct
    <3>2. \A k \in DOMAIN left : left[k] \subseteq Public
      BY <1>0, <2>3
    <3> HIDE DEF left
    <3>3. \A u \in Clients : \A k \in DOMAIN results'[u] : results'[u][k] \subseteq Public
      BY <1>0, <3>1, <3>2
    <3> QED
      BY <1>1, <3>3 DEF ResultsOf, Public, tables
  <2> HIDE DEF q
  <2> QED
    BY <1>1, <2>1, <2>2, <2>4, OfRoomsByAsking
<1>14. CASE LogoutClient(c)
  <2> DEFINE q == [type |-> "LOGOUT"]
  <2>1. q \in Request /\ AskedOfRooms(c, q)
    BY DEF Request, AskedOfRooms
  <2>2. Ask(c, "LOGOUT", q) /\ UNCHANGED <<in, known, snap>>
    BY <1>14 DEF LogoutClient, chat
  <2>3. ResultsOf'
    <3>1. results' = [results EXCEPT ![c] = <<>>]
      BY <1>14 DEF LogoutClient
    <3>2. \A d \in Clients : \A k \in DOMAIN results'[d] : results'[d][k] \subseteq Public
      BY <1>0, <3>1
    <3> QED
      BY <1>1, <3>2 DEF ResultsOf, Public, tables
  <2> HIDE DEF q
  <2> QED
    BY <1>1, <2>1, <2>2, <2>3, OfRoomsByAsking
<1>15. CASE CancelEdit(c)
  <2>1. UNCHANGED <<in, out, known, snap, results>>
    BY <1>15 DEF CancelEdit, lists
  <2> QED
    BY <1>a, <1>1, <2>1, OfRoomsByClient
<1> QED
  BY <1>2, <1>3, <1>4, <1>5, <1>6, <1>7, <1>8, <1>9, <1>10, <1>11, <1>12, <1>13, <1>14, <1>15
     DEF Callback

LEMMA OfRoomsInputStep ==
    ASSUME TypeOK, OfRooms, NEW c \in Clients, ProcessInput(c)
    PROVE  OfRooms' /\ UNCHANGED <<rooms, rows>>
<1> DEFINE m == Head(in[c])
<1>0. /\ \A d \in Clients :
            /\ known[d] \subseteq DOMAIN rooms /\ snap[d].rooms \subseteq DOMAIN rooms
            /\ \A k \in DOMAIN out[d] : AskedOfRooms(d, out[d][k])
            /\ \A k \in DOMAIN in[d] : SentOfRooms(in[d][k])
            /\ \A k \in DOMAIN results[d] : results[d][k] \subseteq Public
      /\ results \in [Clients -> Seq(SUBSET RoomIds)]
      /\ known \in [Clients -> SUBSET RoomIds]
      /\ snap \in [Clients -> [rooms : SUBSET RoomIds, shown : History]]
  BY DEF OfRooms, TypeOK
<1>1. UNCHANGED <<tables, out>>
  BY DEF ProcessInput, InputAuthentification, InputMessage, EditMessageClient,
         DeleteMessageClient, LoadHistoryClient, JoinRoomClient, LeaveRoomClient,
         DirectMessageClient, SearchAllClient, ReceiveWithoutWindow, clientRest
<1>2. PICK types : Receive(c, types)
  BY DEF ProcessInput, InputAuthentification, InputMessage, EditMessageClient,
         DeleteMessageClient, LoadHistoryClient, JoinRoomClient, LeaveRoomClient,
         DirectMessageClient, SearchAllClient, ReceiveWithoutWindow, ReceiveOnline
<1>3. SentOfRooms(m) /\ m \in Reply
  BY <1>0, <1>2, ReceiveFacts
<1>4. ASSUME NEW d \in Clients, NEW k \in DOMAIN in'[d]
      PROVE  SentOfRooms(in'[d][k])
  <2>1. d # c => in'[d] = in[d]
    BY <1>2, ReceiveFacts
  <2>2. Takes(in[c], in'[c])
    BY <1>2, ReceiveFacts
  <2>3. d = c => k + 1 \in DOMAIN in[d] /\ in'[d][k] = in[d][k + 1]
    BY <1>4, <2>2 DEF Takes
  <2> QED
    BY <1>0, <1>4, <2>1, <2>3
<1>5. \A d \in Clients :
          /\ known'[d] \subseteq DOMAIN rooms /\ snap'[d].rooms \subseteq DOMAIN rooms
          /\ \A k \in DOMAIN results'[d] : results'[d][k] \subseteq Public
  <2>1. CASE InputAuthentification(c)
    <3>1. /\ snap' = [snap EXCEPT ![c] = [rooms |-> m.rooms, shown |-> m.shown]]
          /\ UNCHANGED <<known, results>> /\ m.rooms \subseteq DOMAIN rooms
      <4>1. m.type = "AUTH"
        BY <2>1, ReceiveFacts DEF InputAuthentification
      <4> QED
        BY <1>3, <2>1, <4>1 DEF InputAuthentification, lists, SentOfRooms
    <3> QED
      BY <1>0, <3>1
  <2>2. CASE InputMessage(c) \/ EditMessageClient(c) \/ DeleteMessageClient(c)
             \/ LoadHistoryClient(c) \/ ReceiveWithoutWindow(c)
    <3>1. UNCHANGED <<known, snap, results>>
      BY <2>2 DEF InputMessage, EditMessageClient, DeleteMessageClient, LoadHistoryClient,
                  ReceiveWithoutWindow, clientRest, SetShown, Crash, lists
    <3> QED
      BY <1>0, <3>1
  <2>3. CASE JoinRoomClient(c) \/ DirectMessageClient(c)
    <3>1. Receive(c, {"JOIN", "CREATE"}) \/ Receive(c, {"DIRECT"})
      BY <2>3 DEF JoinRoomClient, DirectMessageClient, ReceiveOnline
    <3>2. m.type \in {"JOIN", "CREATE", "DIRECT"}
      BY <3>1, ReceiveFacts
    <3>3. m.room \in DOMAIN rooms
      BY <1>3, <3>2 DEF SentOfRooms
    <3>4. /\ UNCHANGED <<snap, results>>
          /\ known' = known \/ known' = [known EXCEPT ![c] = @ \cup {m.room}]
      BY <2>3 DEF JoinRoomClient, DirectMessageClient, AddRoom, clientRest, lists
    <3>5. \A d \in Clients : known'[d] \subseteq DOMAIN rooms
      <4>1. CASE known' = known
        BY <1>0, <4>1
      <4>2. CASE known' = [known EXCEPT ![c] = @ \cup {m.room}]
        BY <1>0, <3>3, <4>2
      <4> QED
        BY <3>4, <4>1, <4>2
    <3> QED
      BY <1>0, <3>4, <3>5
  <2>4. CASE LeaveRoomClient(c)
    <3>1. /\ UNCHANGED <<snap, results>>
          /\ known' = known \/ known' = [known EXCEPT ![c] = @ \ {m.room}]
      BY <2>4 DEF LeaveRoomClient, clientRest, lists
    <3> QED
      BY <1>0, <3>1
  <2>5. CASE SearchAllClient(c)
    <3> DEFINE found == m.rooms \ known[c]
    <3>1. /\ UNCHANGED <<known, snap>>
          /\ results' = [results EXCEPT ![c] = Append(results[c], found)]
      BY <2>5 DEF SearchAllClient, clientRest, lists
    <3>2. m.type = "SEARCH"
      BY <2>5, ReceiveFacts DEF SearchAllClient, ReceiveOnline
    <3>3. found \subseteq Public /\ found \in SUBSET RoomIds /\ results[c] \in Seq(SUBSET RoomIds)
      BY <1>0, <1>3, <3>2, ReplyFacts DEF SentOfRooms
    <3> HIDE DEF found
    <3>4. \A k \in DOMAIN Append(results[c], found) :
              \/ Append(results[c], found)[k] = found
              \/ k \in DOMAIN results[c] /\ Append(results[c], found)[k] = results[c][k]
      BY <3>3
    <3> QED
      BY <1>0, <3>1, <3>3, <3>4
  <2> QED
    BY <2>1, <2>2, <2>3, <2>4, <2>5 DEF ProcessInput
<1>6. OfRooms'
  <2>1. AskedOf'
    BY <1>1, OfRoomsKept
  <2>2. SentOf'
    BY <1>1, <1>4 DEF SentOf, SentOfRooms, Public, tables
  <2>3. KnownOf' /\ SnapOf' /\ ResultsOf'
    BY <1>1, <1>5 DEF KnownOf, SnapOf, ResultsOf, Public, tables
  <2> QED
    BY <1>1, <2>1, <2>2, <2>3, OfRoomsByClient
<1> QED
  BY <1>1, <1>6 DEF tables

LEMMA RoomsInit == Init => RoomsInv
<1> SUFFICES ASSUME Init
             PROVE  RoomsInv
  OBVIOUS
<1>1. TypeOK
  BY RoomsInitTypes
<1>2. OfRooms
  BY TablesAssumption DEF Init, OfRooms
<1>3. ASSUME NEW r \in DOMAIN rooms, rooms[r].access = "direct"
      PROVE  /\ rooms[r].first \in Clients /\ rooms[r].second \in Clients
             /\ rooms[r].first # rooms[r].second
             /\ rows[rooms[r].first][r] = 1 /\ rows[rooms[r].second][r] = 1
             /\ \A q \in DOMAIN rooms :
                    /\ rooms[q].access = "direct"
                    /\ {rooms[r].first, rooms[r].second} = {rooms[q].first, rooms[q].second}
                    => r = q
  BY <1>3, TablesAssumption DEF Init
<1>4. DOMAIN rooms = 1 .. Len(rooms)
  BY <1>1, RoomsNumbered
<1>5. DirectOfTwo
  BY <1>3 DEF DirectOfTwo
<1>6. DirectRoomsUnique
  BY <1>3, <1>4 DEF DirectRoomsUnique
<1> QED
  BY <1>1, <1>2, <1>5, <1>6 DEF RoomsInv

LEMMA RoomsStep == RoomsInv /\ [Next]_vars => RoomsInv'
<1> SUFFICES ASSUME RoomsInv, [Next]_vars
             PROVE  RoomsInv'
  OBVIOUS
<1>0. TypeOK /\ OfRooms /\ DirectInv
  BY DEF RoomsInv, DirectInv
<1>1. TypeOK'
  BY <1>0, RoomsTypeStep
<1>2. UNCHANGED <<rooms, rows>> => DirectInv'
  BY <1>0, RoomsNumbered, DirectKept
<1>3. OfRooms' /\ DirectInv'
  <2>1. CASE UNCHANGED vars
    <3>1. OfRooms'
      BY <1>0, <2>1 DEF vars, tables, lists, OfRooms, AskedOfRooms, SentOfRooms, Public
    <3> QED
      BY <1>2, <2>1, <3>1 DEF vars, tables
  <2>2. ASSUME NEW c \in Clients, Serve(c)
        PROVE  OfRooms' /\ DirectInv'
    BY <1>0, <1>2, <2>2, OfRoomsTalkStep, OfRoomsMembersStep DEF Serve
  <2>3. ASSUME NEW c \in Clients, Callback(c) \/ ProcessInput(c)
        PROVE  OfRooms' /\ DirectInv'
    BY <1>0, <1>2, <2>3, OfRoomsCallbackStep, OfRoomsInputStep
  <2> QED
    BY <2>1, <2>2, <2>3 DEF Next
<1> QED
  BY <1>1, <1>3 DEF RoomsInv, DirectInv

LEMMA RoomsInvariant == Spec => []RoomsInv
BY RoomsInit, RoomsStep, PTL DEF Spec

\* Two users never share two direct rooms, whoever asks and in whichever order
\* mx_direct_message meets the requests, and each has one row in theirs.
THEOREM OneDirectRoom == Spec => []DirectRoomsUnique
<1>1. RoomsInv => DirectRoomsUnique
  BY DEF RoomsInv
<1> QED
  BY <1>1, RoomsInvariant, PTL

-----------------------------------------------------------------------------
\* What a client knows when it has handled the first messages of a list s, from
\* a set of rooms base.

KnownIn(base, s, c, r, k) ==
    \E j \in 0 .. k :
        /\ IF j = 0 THEN r \in base ELSE Gets(s[j], c, r)
        /\ \A i \in j + 1 .. k : ~Loses(s[i], c, r)

LEMMA KnownAfterIs ==
    \A c, r, k : KnownAfter(c, r, k) <=> KnownIn(Listed(c), in[c], c, r, k)
BY DEF KnownAfter, KnownIn

\* The messages after the first k do not matter.
LEMMA KnownPrefix ==
    ASSUME NEW base, NEW s, NEW t, NEW c, NEW r, NEW k \in Nat, \A i \in 1 .. k : t[i] = s[i]
    PROVE  KnownIn(base, t, c, r, k) <=> KnownIn(base, s, c, r, k)
<1>1. \A j \in 0 .. k : \A i \in j + 1 .. k : t[i] = s[i]
  OBVIOUS
<1>2. \A j \in 0 .. k : j = 0 \/ t[j] = s[j]
  OBVIOUS
<1> QED
  BY <1>1, <1>2 DEF KnownIn

\* Messages that are all m, added to the list.
LEMMA KnownStays ==
    ASSUME NEW base, NEW s, NEW t, NEW m, Adds(s, t, {m}), NEW c, NEW r,
           KnownIn(base, s, c, r, Len(s)), ~Loses(m, c, r), NEW k \in Len(s) .. Len(t)
    PROVE  KnownIn(base, t, c, r, k)
<1>0. /\ Len(s) \in Nat /\ Len(t) \in Nat /\ k \in Nat
      /\ \A i \in 1 .. Len(s) : t[i] = s[i]
      /\ \A i \in 1 .. Len(t) : i > Len(s) => t[i] = m
  BY DEF Adds
<1>1. PICK j \in 0 .. Len(s) : /\ IF j = 0 THEN r \in base ELSE Gets(s[j], c, r)
                              /\ \A i \in j + 1 .. Len(s) : ~Loses(s[i], c, r)
  BY DEF KnownIn
<1>2. j \in 0 .. k /\ (j = 0 \/ t[j] = s[j])
  BY <1>0
<1>3. ASSUME NEW i \in j + 1 .. k
      PROVE  ~Loses(t[i], c, r)
  <2>1. CASE i <= Len(s)
    BY <1>0, <1>1, <2>1
  <2>2. CASE i > Len(s)
    <3>1. i \in 1 .. Len(t)
      BY <1>0, <1>1
    <3> QED
      BY <1>0, <2>2, <3>1
  <2> QED
    BY <1>0, <2>1, <2>2
<1> QED
  BY <1>1, <1>2, <1>3 DEF KnownIn

LEMMA KnownAdded ==
    ASSUME NEW base, NEW s, NEW t, NEW m, Adds(s, t, {m}), Len(t) > Len(s),
           NEW c, NEW r
    PROVE  KnownIn(base, t, c, r, Len(t)) <=>
               Gets(m, c, r) \/ (KnownIn(base, s, c, r, Len(s)) /\ ~Loses(m, c, r))
<1>0. /\ Len(s) \in Nat /\ Len(t) \in Nat /\ Len(t) > Len(s)
      /\ \A i \in 1 .. Len(s) : t[i] = s[i]
      /\ \A i \in 1 .. Len(t) : i > Len(s) => t[i] = m
  BY DEF Adds
<1>1. t[Len(t)] = m /\ Len(t) \in 0 .. Len(t) /\ Len(t) # 0
  BY <1>0
<1>2. ASSUME Gets(m, c, r)
      PROVE  KnownIn(base, t, c, r, Len(t))
  <2>1. \A i \in Len(t) + 1 .. Len(t) : ~Loses(t[i], c, r)
    BY <1>0
  <2> QED
    BY <1>1, <1>2, <2>1 DEF KnownIn
<1>3. ASSUME KnownIn(base, s, c, r, Len(s)), ~Loses(m, c, r)
      PROVE  KnownIn(base, t, c, r, Len(t))
  <2>1. Len(t) \in Len(s) .. Len(t)
    BY <1>0
  <2> QED
    BY <1>3, <2>1, KnownStays
<1>4. ASSUME KnownIn(base, t, c, r, Len(t)), ~Gets(m, c, r)
      PROVE  KnownIn(base, s, c, r, Len(s)) /\ ~Loses(m, c, r)
  <2>1. PICK j \in 0 .. Len(t) : /\ IF j = 0 THEN r \in base ELSE Gets(t[j], c, r)
                                 /\ \A i \in j + 1 .. Len(t) : ~Loses(t[i], c, r)
    BY <1>4 DEF KnownIn
  <2>2. j \in 0 .. Len(s)
    <3>1. CASE j > Len(s)
      <4>1. j # 0 /\ j \in 1 .. Len(t)
        BY <1>0, <3>1
      <4>2. t[j] = m
        BY <1>0, <3>1, <4>1
      <4> QED
        BY <1>4, <2>1, <4>1, <4>2
    <3>2. CASE ~(j > Len(s))
      BY <1>0, <3>2
    <3> QED
      BY <3>1, <3>2
  <2>3. (j = 0 \/ t[j] = s[j]) /\ \A i \in j + 1 .. Len(s) : i \in j + 1 .. Len(t) /\ t[i] = s[i]
    BY <1>0, <2>2
  <2>4. Len(t) \in j + 1 .. Len(t)
    BY <1>0, <2>2
  <2> QED
    BY <1>1, <2>1, <2>2, <2>3, <2>4 DEF KnownIn
<1> QED
  BY <1>2, <1>3, <1>4

\* The first message of s is handled, and makes rest of base.
LEMMA KnownTaken ==
    ASSUME NEW base, NEW rest, NEW s, NEW t, Takes(s, t), NEW c, NEW r,
           r \in rest <=> Gets(s[1], c, r) \/ (r \in base /\ ~Loses(s[1], c, r)),
           NEW k \in 0 .. Len(t)
    PROVE  KnownIn(rest, t, c, r, k) <=> KnownIn(base, s, c, r, k + 1)
<1>0. Len(t) \in Nat /\ k \in Nat /\ \A i \in 1 .. k : t[i] = s[i + 1]
  BY DEF Takes
<1>1. ASSUME KnownIn(rest, t, c, r, k)
      PROVE  KnownIn(base, s, c, r, k + 1)
  <2>1. PICK j \in 0 .. k : /\ IF j = 0 THEN r \in rest ELSE Gets(t[j], c, r)
                            /\ \A i \in j + 1 .. k : ~Loses(t[i], c, r)
    BY <1>1 DEF KnownIn
  <2>2. \A i \in j + 2 .. k + 1 : ~Loses(s[i], c, r)
    <3> SUFFICES ASSUME NEW i \in j + 2 .. k + 1
                 PROVE  ~Loses(s[i], c, r)
      OBVIOUS
    <3>1. i - 1 \in j + 1 .. k /\ i - 1 \in 1 .. k /\ (i - 1) + 1 = i
      BY <1>0
    <3> QED
      BY <1>0, <2>1, <3>1
  <2>3. CASE j # 0 \/ Gets(s[1], c, r)
    <3>1. j + 1 \in 0 .. k + 1 /\ j + 1 # 0 /\ Gets(s[j + 1], c, r)
      BY <1>0, <2>1, <2>3
    <3>2. \A i \in (j + 1) + 1 .. k + 1 : ~Loses(s[i], c, r)
      BY <1>0, <2>2
    <3> QED
      BY <3>1, <3>2 DEF KnownIn
  <2>4. CASE j = 0 /\ ~Gets(s[1], c, r)
    <3>1. r \in base /\ ~Loses(s[1], c, r)
      BY <2>1, <2>4
    <3>2. 0 \in 0 .. k + 1 /\ \A i \in 0 + 1 .. k + 1 : i = 1 \/ i \in j + 2 .. k + 1
      BY <1>0, <2>4
    <3> QED
      BY <2>2, <3>1, <3>2 DEF KnownIn
  <2> QED
    BY <2>3, <2>4
<1>2. ASSUME KnownIn(base, s, c, r, k + 1)
      PROVE  KnownIn(rest, t, c, r, k)
  <2>1. PICK j \in 0 .. k + 1 : /\ IF j = 0 THEN r \in base ELSE Gets(s[j], c, r)
                                /\ \A i \in j + 1 .. k + 1 : ~Loses(s[i], c, r)
    BY <1>2 DEF KnownIn
  <2>2. \A i \in 1 .. k : i >= j => ~Loses(t[i], c, r)
    <3> SUFFICES ASSUME NEW i \in 1 .. k, i >= j
                 PROVE  ~Loses(t[i], c, r)
      OBVIOUS
    <3>1. i + 1 \in j + 1 .. k + 1
      BY <1>0
    <3> QED
      BY <1>0, <2>1, <3>1
  <2>3. CASE j <= 1
    <3>1. r \in rest
      <4>1. CASE j = 0
        <5>1. 1 \in j + 1 .. k + 1
          BY <1>0, <4>1
        <5> QED
          BY <2>1, <4>1, <5>1
      <4>2. CASE j = 1
        BY <2>1, <4>2
      <4> QED
        BY <2>3, <4>1, <4>2
    <3>2. \A i \in 0 + 1 .. k : i >= j /\ i \in 1 .. k
      BY <1>0, <2>3
    <3> QED
      BY <1>0, <2>2, <3>1, <3>2 DEF KnownIn
  <2>4. CASE j > 1
    <3>1. j - 1 \in 0 .. k /\ j - 1 # 0 /\ Gets(t[j - 1], c, r)
      BY <1>0, <2>1, <2>4
    <3>2. \A i \in (j - 1) + 1 .. k : i >= j /\ i \in 1 .. k
      BY <1>0, <2>4
    <3> QED
      BY <2>2, <3>1, <3>2 DEF KnownIn
  <2> QED
    BY <2>3, <2>4
<1> QED
  BY <1>1, <1>2

-----------------------------------------------------------------------------
\* What each client is to know: steps of the server.

Answers(c) == {k \in DOMAIN in[c] : in[c][k].type = "AUTH"}
Asks(c, type) == {k \in DOMAIN out[c] : out[c][k].type = type}

LEMMA SignInIs ==
    \A c : SignInOrder(c) <=>
        /\ phase[c] = "login" => Asks(c, "AUTH") = {} /\ Answers(c) = {}
        /\ phase[c] = "waiting" =>
                \/ Asks(c, "AUTH") = {Len(out[c])} /\ Answers(c) = {}
                \/ out[c] = <<>> /\ c \in online /\ \E k \in DOMAIN in[c] : Answers(c) = {k}
        /\ phase[c] \in {"building", "online"} =>
                Asks(c, "AUTH") = {} /\ Asks(c, "LOGOUT") = {} /\ Answers(c) = {}
                /\ c \in online
BY DEF SignInOrder, Answers, Asks

\* d is sent m, once or more, or nothing.
Gained(d, m) ==
    \/ in'[d] = in[d]
    \/ Adds(in[d], in'[d], {m}) /\ Len(in'[d]) > Len(in[d])

LEMMA AnswersKept ==
    ASSUME NEW d, NEW m, m.type # "AUTH", Gained(d, m)
    PROVE  Answers(d)' = Answers(d) /\ DOMAIN in[d] \subseteq DOMAIN in'[d]
           /\ (in[d] # <<>> => in'[d] # <<>> \/ DOMAIN in[d] = {})
<1>1. CASE in'[d] = in[d]
  BY <1>1 DEF Answers
<1>2. CASE Adds(in[d], in'[d], {m}) /\ Len(in'[d]) > Len(in[d])
  <2>1. /\ DOMAIN in[d] \subseteq DOMAIN in'[d]
        /\ \A k \in DOMAIN in[d] : in'[d][k] = in[d][k]
        /\ \A k \in DOMAIN in'[d] : k \in DOMAIN in[d] \/ in'[d][k] = m
    BY <1>2 DEF Adds
  <2> QED
    BY <2>1 DEF Answers
<1> QED
  BY <1>1, <1>2 DEF Gained

\* The requests of d are as before, or one that is no AUTH is taken.
LEMMA SignInKept ==
    ASSUME TypeOK, NEW d \in Clients, SignInOrder(d), phase'[d] = phase[d],
           NEW m, m.type # "AUTH", Gained(d, m),
           \/ out'[d] = out[d] /\ (d \in online => d \in online')
           \/ /\ Takes(out[d], out'[d]) /\ out[d][1].type # "AUTH"
              /\ out[d][1].type # "LOGOUT" => (d \in online => d \in online')
    PROVE  SignInOrder(d)'
<1>1. Answers(d)' = Answers(d) /\ DOMAIN in[d] \subseteq DOMAIN in'[d]
  BY AnswersKept
<1>2. CASE out'[d] = out[d] /\ (d \in online => d \in online')
  <2>1. \A type : Asks(d, type)' = Asks(d, type)
    BY <1>2 DEF Asks
  <2> QED
    BY <1>1, <1>2, <2>1, SignInIs DEF SignInOrder, Answers, Asks
<1>3. CASE /\ Takes(out[d], out'[d]) /\ out[d][1].type # "AUTH"
           /\ out[d][1].type # "LOGOUT" => (d \in online => d \in online')
  <2>1. /\ out[d] \in Seq(Request) /\ 1 \in DOMAIN out[d] /\ out[d] # <<>>
        /\ DOMAIN out[d] = 1 .. Len(out[d]) /\ Len(out[d]) \in Nat \ {0}
        /\ Len(out'[d]) = Len(out[d]) - 1 /\ DOMAIN out'[d] = 1 .. Len(out'[d])
        /\ \A k \in DOMAIN out'[d] : out'[d][k] = out[d][k + 1] /\ k + 1 \in DOMAIN out[d]
    <3>1. out[d] \in Seq(Request)
      BY DEF TypeOK
    <3>2. /\ DOMAIN out[d] = 1 .. Len(out[d]) /\ Len(out[d]) \in Nat \ {0}
          /\ Len(out'[d]) = Len(out[d]) - 1 /\ DOMAIN out'[d] = 1 .. Len(out'[d])
          /\ \A k \in DOMAIN out'[d] : out'[d][k] = out[d][k + 1]
      BY <1>3 DEF Takes
    <3>3. out[d] # <<>> /\ 1 \in DOMAIN out[d]
      BY <3>1, <3>2
    <3>4. \A k \in DOMAIN out'[d] : k + 1 \in DOMAIN out[d]
      BY <3>2
    <3> QED
      BY <3>1, <3>2, <3>3, <3>4
  <2>2. \A k \in DOMAIN out'[d] : \A type : out'[d][k].type = type => Asks(d, type) # {}
    BY <2>1 DEF Asks
  <2>3. CASE phase[d] = "login"
    <3>1. Asks(d, "AUTH") = {} /\ Answers(d) = {}
      BY <2>3 DEF SignInOrder, Answers, Asks
    <3> QED
      BY <1>1, <2>2, <2>3, <3>1 DEF SignInOrder, Answers
  <2>4. CASE phase[d] = "waiting"
    <3>1. Asks(d, "AUTH") = {Len(out[d])} /\ Answers(d) = {}
      BY <2>1, <2>4 DEF SignInOrder, Answers, Asks
    <3>2. Len(out[d]) # 1
      BY <1>3, <2>1, <3>1 DEF Asks
    <3>3. /\ Len(out[d]) \in DOMAIN out[d] /\ out[d][Len(out[d])].type = "AUTH"
          /\ \A k \in DOMAIN out[d] : out[d][k].type = "AUTH" => k = Len(out[d])
      BY <3>1 DEF Asks
    <3>4. {k \in DOMAIN out'[d] : out'[d][k].type = "AUTH"} = {Len(out'[d])}
      <4>1. Len(out'[d]) \in DOMAIN out'[d] /\ Len(out'[d]) + 1 = Len(out[d])
        <5>1. Len(out[d]) \in Nat \ {0} /\ Len(out[d]) # 1
              /\ Len(out'[d]) = Len(out[d]) - 1
          BY <2>1, <3>2
        <5>2. Len(out'[d]) \in Nat \ {0} /\ Len(out'[d]) + 1 = Len(out[d])
          BY <5>1
        <5>3. DOMAIN out'[d] = 1 .. Len(out'[d])
          BY <2>1
        <5> QED
          BY <5>2, <5>3
      <4>2. out'[d][Len(out'[d])].type = "AUTH"
        BY <2>1, <3>3, <4>1
      <4>3. ASSUME NEW k \in DOMAIN out'[d], out'[d][k].type = "AUTH"
            PROVE  k = Len(out'[d])
        <5>1. k + 1 = Len(out[d])
          BY <2>1, <3>3, <4>3
        <5>2. k \in Int /\ Len(out'[d]) \in Int
          BY <2>1, <4>1, <4>3
        <5> QED
          BY <4>1, <5>1, <5>2
      <4> QED
        BY <4>1, <4>2, <4>3
    <3> QED
      BY <1>1, <2>4, <3>1, <3>4 DEF SignInOrder, Answers
  <2>5. CASE phase[d] \in {"building", "online"}
    <3>1. /\ Asks(d, "AUTH") = {} /\ Asks(d, "LOGOUT") = {} /\ Answers(d) = {}
          /\ d \in online
      BY <2>5 DEF SignInOrder, Answers, Asks
    <3>2. out[d][1].type # "LOGOUT"
      BY <2>1, <3>1 DEF Asks
    <3>3. d \in online'
      BY <1>3, <3>1, <3>2
    <3> QED
      BY <1>1, <2>2, <2>5, <3>1, <3>3 DEF SignInOrder, Answers
  <2>6. CASE phase[d] = "crashed"
    BY <2>6 DEF SignInOrder
  <2> QED
    BY <2>3, <2>4, <2>5, <2>6 DEF TypeOK, Phases
<1> QED
  BY <1>2, <1>3

\* d, which is not exposed, has rows for the rooms it had before m and m gives it,
\* but for those m takes, and is sent m of a room it has a row of.
LEMMA ViewKept ==
    ASSUME TypeOK, NEW d \in Clients, View(d), SignInOrder(d)',
           phase'[d] = phase[d], snap'[d] = snap[d], known'[d] = known[d],
           exposed \subseteq exposed',
           NEW m \in Reply, m.type # "AUTH", Gained(d, m),
           Listening(d) =>
              \A r \in RoomIds :
                  rows'[d][r] > 0 <=>
                      IF in'[d] = in[d] THEN rows[d][r] > 0
                      ELSE Gets(m, d, r) \/ (rows[d][r] > 0 /\ ~Loses(m, d, r)),
           Listening(d) /\ in'[d] # in[d] /\ IsOfKnownRoom(m) => rows[d][m.room] > 0
    PROVE  View(d)'
<1> SUFFICES ASSUME Listening(d)', d \notin exposed'
             PROVE  MembershipKnown(d)' /\ ContentKnown(d)'
  BY DEF View
<1>0. /\ in[d] \in Seq(Reply) /\ Len(in[d]) \in Nat /\ DOMAIN in[d] = 1 .. Len(in[d])
      /\ m.room \in RoomIds \/ m.type = "SEARCH"
  BY ReplyFacts DEF TypeOK
<1>1. Answers(d)' = Answers(d) /\ DOMAIN in[d] \subseteq DOMAIN in'[d]
  BY AnswersKept
<1>2. Listening(d)
  <2>1. phase[d] = "waiting" => Answers(d)' # {}
    BY DEF Listening, Answers
  <2>2. phase[d] = "waiting" => \E k \in DOMAIN in[d] : in[d][k].type = "AUTH"
    BY <1>1, <2>1 DEF Answers
  <2> QED
    BY <2>2 DEF Listening
<1>3. MembershipKnown(d) /\ ContentKnown(d)
  BY <1>2 DEF View
<1> DEFINE base == Listed(d)
           K(s, r, k) == KnownIn(base, s, d, r, k)
<1>4. \A r, k : KnownAfter(d, r, k) <=> K(in[d], r, k)
  BY KnownAfterIs
<1>5. \A r, k : KnownAfter(d, r, k)' <=> K(in'[d], r, k)
  BY DEF KnownAfter, KnownIn, Listed
<1>a. Listed(d)' = base
  BY DEF Listed
<1> HIDE DEF base
<1>6. \A r \in RoomIds : K(in[d], r, Len(in[d])) <=> rows[d][r] > 0
  BY <1>3, <1>4 DEF MembershipKnown
<1>7. CASE in'[d] = in[d]
  <2>1. MembershipKnown(d)'
    BY <1>2, <1>5, <1>6, <1>7 DEF MembershipKnown
  <2>2. ContentKnown(d)'
    BY <1>3, <1>4, <1>5, <1>7 DEF ContentKnown
  <2> QED
    BY <2>1, <2>2
<1>8. CASE in'[d] # in[d] /\ Adds(in[d], in'[d], {m}) /\ Len(in'[d]) > Len(in[d])
  <2>1. \A r : K(in'[d], r, Len(in'[d])) <=>
                  Gets(m, d, r) \/ (K(in[d], r, Len(in[d])) /\ ~Loses(m, d, r))
    BY <1>8, KnownAdded
  <2>2. MembershipKnown(d)'
    BY <1>2, <1>5, <1>6, <1>8, <2>1 DEF MembershipKnown
  <2>3. ASSUME NEW k \in DOMAIN in'[d], IsOfKnownRoom(in'[d][k])
        PROVE  \/ KnownIn(Listed(d)', in'[d], d, in'[d][k].room, k - 1)
               \/ \E j \in DOMAIN in'[d] : j > k /\ in'[d][j].type = "AUTH"
    <3>0. /\ DOMAIN in'[d] = 1 .. Len(in'[d]) /\ Len(in'[d]) \in Nat
          /\ \A i \in 1 .. Len(in[d]) : in'[d][i] = in[d][i]
      BY <1>8 DEF Adds
    <3>1. CASE k \in DOMAIN in[d]
      <4>1. in'[d][k] = in[d][k]
        BY <1>0, <3>0, <3>1
      <4>2. CASE KnownAfter(d, in[d][k].room, k - 1)
        <5>1. k - 1 \in Nat /\ \A i \in 1 .. k - 1 : in'[d][i] = in[d][i]
          BY <1>0, <3>0, <3>1
        <5>2. K(in[d], in[d][k].room, k - 1)
          BY <1>4, <4>2
        <5>3. K(in'[d], in[d][k].room, k - 1)
          BY <5>1, <5>2, KnownPrefix
        <5> QED
          BY <1>a, <4>1, <5>3
      <4>3. CASE \E j \in DOMAIN in[d] : j > k /\ in[d][j].type = "AUTH"
        BY <1>0, <1>1, <3>0, <4>3
      <4> QED
        BY <1>3, <2>3, <3>1, <4>1, <4>2, <4>3 DEF ContentKnown
    <3>2. CASE k > Len(in[d])
      <4>1. in'[d][k] = m
        BY <1>8, <2>3, <3>2 DEF Adds
      <4>2. IsOfKnownRoom(m) /\ m.room \in RoomIds
        BY <1>0, <2>3, <4>1 DEF IsOfKnownRoom
      <4>3. K(in[d], m.room, Len(in[d])) /\ ~Loses(m, d, m.room)
        BY <1>2, <1>6, <1>8, <4>2 DEF IsOfKnownRoom, Loses
      <4>4. k - 1 \in Len(in[d]) .. Len(in'[d])
        BY <1>0, <3>0, <3>2
      <4>5. K(in'[d], m.room, k - 1)
        BY <1>8, <4>3, <4>4, KnownStays
      <4> QED
        BY <1>a, <4>1, <4>5
    <3> QED
      BY <1>0, <3>0, <3>1, <3>2
  <2>4. ContentKnown(d)'
    BY <2>3 DEF ContentKnown, KnownAfter, KnownIn
  <2> QED
    BY <2>2, <2>4
<1> QED
  BY <1>7, <1>8 DEF Gained

LEMMA ListenerOnline ==
    ASSUME NEW d \in Clients, SignInOrder(d), Listening(d)
    PROVE  d \in online
<1>1. CASE phase[d] \in {"building", "online"}
  BY <1>1 DEF SignInOrder
<1>2. CASE phase[d] = "waiting" /\ \E k \in DOMAIN in[d] : in[d][k].type = "AUTH"
  <2>1. Answers(d) # {}
    BY <1>2 DEF Answers
  <2> QED
    BY <1>2, <2>1, SignInIs
<1> QED
  BY <1>1, <1>2 DEF Listening

\* A request of c other than AUTH, answered with m.
LEMMA ViewByServer ==
    ASSUME TypeOK, ViewInv, NEW c \in Clients, NEW type, type # "AUTH", Handle(c, type),
           UNCHANGED userState, exposed \subseteq exposed',
           type # "LOGOUT" => online' = online,
           \A d \in Clients : d # c /\ d \in online => d \in online',
           NEW m \in Reply, m.type # "AUTH", \A d \in Clients : Gained(d, m),
           \A d \in Clients : Listening(d) =>
              \A r \in RoomIds :
                  rows'[d][r] > 0 <=>
                      IF in'[d] = in[d] THEN rows[d][r] > 0
                      ELSE Gets(m, d, r) \/ (rows[d][r] > 0 /\ ~Loses(m, d, r)),
           \A d \in Clients :
              Listening(d) /\ in'[d] # in[d] /\ IsOfKnownRoom(m) => rows[d][m.room] > 0
    PROVE  ViewInv'
<1> SUFFICES ASSUME NEW d \in Clients
             PROVE  View(d)'
  BY DEF ViewInv
<1>1. View(d) /\ SignInOrder(d)
  BY DEF ViewInv, View
<1>2. phase'[d] = phase[d] /\ snap'[d] = snap[d] /\ known'[d] = known[d]
  BY DEF userState, lists
<1>3. SignInOrder(d)'
  <2>1. CASE d = c
    <3>1. Takes(out[d], out'[d]) /\ out[d][1].type = type
      BY <2>1, HandleFacts
    <3> QED
      BY <1>1, <1>2, <3>1, SignInKept
  <2>2. CASE d # c
    <3>1. out'[d] = out[d]
      BY <2>2, HandleFacts
    <3> QED
      BY <1>1, <1>2, <2>2, <3>1, SignInKept
  <2> QED
    BY <2>1, <2>2
<1> QED
  BY <1>1, <1>2, <1>3, ViewKept

LEMMA BroadcastGains ==
    ASSUME TypeOK, NEW newRows \in [Clients -> [RoomIds -> Nat]], NEW r \in RoomIds,
           NEW m \in Reply, NEW also, Broadcast(newRows, r, m, also)
    PROVE  \A d \in Clients :
              /\ Gained(d, m)
              /\ in'[d] # in[d] <=> (d \in online /\ newRows[d][r] > 0) \/ d \in also
<1> SUFFICES ASSUME NEW d \in Clients
             PROVE  /\ Gained(d, m)
                    /\ in'[d] # in[d] <=> (d \in online /\ newRows[d][r] > 0) \/ d \in also
  OBVIOUS
<1>1. newRows[d][r] \in Nat /\ Len(in[d]) \in Nat
  BY DEF TypeOK
<1>2. /\ Adds(in[d], in'[d], {m})
      /\ d \in online /\ newRows[d][r] > 0 => Len(in'[d]) > Len(in[d])
      /\ d \in also => Len(in'[d]) > Len(in[d])
      /\ (d \notin online \/ newRows[d][r] = 0) /\ d \notin also => in'[d] = in[d]
  BY BroadcastFacts
<1>3. CASE (d \in online /\ newRows[d][r] > 0) \/ d \in also
  BY <1>1, <1>2, <1>3 DEF Gained
<1>4. CASE ~((d \in online /\ newRows[d][r] > 0) \/ d \in also)
  BY <1>1, <1>2, <1>4 DEF Gained
<1> QED
  BY <1>3, <1>4

LEMMA AnswerGains ==
    ASSUME TypeOK, NEW c \in Clients, NEW m \in Reply, Answer(c, m)
    PROVE  \A d \in Clients : Gained(d, m) /\ (in'[d] # in[d] <=> d = c)
<1>1. Len(in[c]) \in Nat
  BY DEF TypeOK
<1>2. /\ Adds(in[c], in'[c], {m}) /\ Len(in'[c]) = Len(in[c]) + 1
      /\ \A d \in Clients : d # c => in'[d] = in[d]
  BY AnswerFacts
<1>3. Len(in'[c]) > Len(in[c]) /\ in'[c] # in[c]
  BY <1>1, <1>2
<1> QED
  BY <1>2, <1>3 DEF Gained

\* A message that is in no way about the list of rooms.
LEMMA NoRoomChange ==
    ASSUME NEW m \in Reply,
           m.type \in {"MSG", "EDIT", "DELETE", "LOAD_MORE", "SEARCH"} \/ (m.type = "DIRECT" /\ m.exist)
    PROVE  \A d, r : ~Gets(m, d, r) /\ ~Loses(m, d, r)
BY ReplyFacts DEF Gets, Loses

LEMMA ViewTalkStep ==
    ASSUME TypeOK, ViewInv, NEW c \in Clients,
           \/ Logout(c) \/ ProcessMessage(c) \/ EditMessage(c) \/ DeleteMessage(c)
           \/ LoadHistory(c) \/ SearchAll(c)
    PROVE  ViewInv'
<1> DEFINE q == Head(out[c])
           nothing == [type |-> "SEARCH", rooms |-> {}]
<1>0. /\ rows \in [Clients -> [RoomIds -> Nat]] /\ rows' = rows
      /\ UNCHANGED userState /\ \A d \in Clients : d # c /\ d \in online => d \in online'
      /\ nothing \in Reply /\ nothing.type # "AUTH"
  <2>1. rows' = rows /\ UNCHANGED userState
    BY DEF Logout, ProcessMessage, EditMessage, DeleteMessage, LoadHistory, SearchAll, tables
  <2>2. online' = online \/ online' = online \ {c}
    BY DEF Logout, ProcessMessage, EditMessage, DeleteMessage, LoadHistory, SearchAll, tables
  <2>3. nothing \in Reply /\ nothing.type # "AUTH"
    BY DEF Reply
  <2>4. \A d \in Clients : d # c /\ d \in online => d \in online'
    BY <2>2
  <2>5. rows \in [Clients -> [RoomIds -> Nat]]
    BY DEF TypeOK
  <2> QED
    BY <2>1, <2>3, <2>4, <2>5
<1>1. CASE Logout(c)
  <2>1. in' = in /\ exposed' = exposed /\ Handle(c, "LOGOUT")
    BY <1>1 DEF Logout
  <2>2. \A d \in Clients : Gained(d, nothing)
    BY <2>1 DEF Gained
  <2> HIDE DEF nothing
  <2> QED
    BY <1>0, <2>1, <2>2, ViewByServer
<1>2. ASSUME NEW type, type \in {"MSG", "EDIT", "DELETE"}, Handle(c, type), NEW r \in RoomIds,
             NEW m \in Reply, m.type = type, m.room = r, Broadcast(rows, r, m, {}),
             online' = online, exposed \subseteq exposed'
      PROVE  ViewInv'
  <2>1. \A d \in Clients : Gained(d, m) /\ (in'[d] # in[d] => rows[d][r] > 0)
    BY <1>0, <1>2, BroadcastGains
  <2>2. \A d, p : ~Gets(m, d, p) /\ ~Loses(m, d, p)
    BY <1>2, NoRoomChange
  <2>3. type # "AUTH" /\ m.type # "AUTH"
    BY <1>2
  <2> QED
    BY <1>0, <1>2, <2>1, <2>2, <2>3, ViewByServer
<1>3. ASSUME NEW type, type \in {"LOAD_MORE", "SEARCH"}, Handle(c, type),
             NEW m \in Reply, m.type = type, Answer(c, m),
             online' = online, exposed' = exposed
      PROVE  ViewInv'
  <2>1. \A d \in Clients : Gained(d, m)
    BY <1>3, AnswerGains
  <2>2. \A d, p : ~Gets(m, d, p) /\ ~Loses(m, d, p)
    BY <1>3, NoRoomChange
  <2>3. type # "AUTH" /\ m.type # "AUTH" /\ ~IsOfKnownRoom(m)
    BY <1>3 DEF IsOfKnownRoom
  <2> QED
    BY <1>0, <1>3, <2>1, <2>2, <2>3, ViewByServer
<1>4. CASE ProcessMessage(c)
  <2> DEFINE m == [type |-> "MSG", room |-> q.room, text |-> q.text, id |-> Len(history) + 1]
  <2>1. Handle(c, "MSG") /\ online' = online /\ exposed' = exposed
        /\ Broadcast(rows, q.room, m, {})
    BY <1>4 DEF ProcessMessage
  <2>2. q \in Request /\ q.type = "MSG"
    BY <2>1, HandleFacts
  <2>3. q.room \in RoomIds /\ q.text \in Texts
    BY <2>2, RequestFacts
  <2>4. Len(history) + 1 \in MessageIds
    BY <1>4, Constants DEF ProcessMessage, MessageIds, RoomsConstants, TypeOK
  <2>5. m \in Reply /\ m.type = "MSG" /\ m.room = q.room
    BY <2>3, <2>4 DEF Reply
  <2> HIDE DEF m
  <2> QED
    BY <1>2, <2>1, <2>3, <2>5
<1>5. CASE EditMessage(c)
  <2>1. Handle(c, "EDIT") /\ online' = online
    BY <1>5 DEF EditMessage
  <2>2. q \in Request /\ q.type = "EDIT"
    BY <2>1, HandleFacts
  <2>3. q.room \in RoomIds /\ q \in Reply
    BY <2>2, RequestFacts
  <2>4. CASE UNCHANGED <<history, in, exposed>>
    <3>1. \A d \in Clients : Gained(d, nothing)
      BY <2>4 DEF Gained
    <3>2. in' = in /\ exposed' = exposed
      BY <2>4
    <3> HIDE DEF nothing, q
    <3> QED
      BY <1>0, <2>1, <3>1, <3>2, ViewByServer
  <2>5. CASE Broadcast(rows, q.room, q, {}) /\ ExposeMembers(q.id, q.room)
    <3>1. exposed \subseteq exposed'
      BY <2>5 DEF ExposeMembers
    <3> HIDE DEF q
    <3> QED
      BY <1>2, <2>1, <2>2, <2>3, <2>5, <3>1
  <2> QED
    BY <1>5, <2>4, <2>5 DEF EditMessage
<1>6. CASE DeleteMessage(c)
  <2>1. Handle(c, "DELETE") /\ online' = online /\ Broadcast(rows, q.room, q, {})
        /\ exposed \subseteq exposed'
    BY <1>6 DEF DeleteMessage, ExposeMembers
  <2>2. q \in Request /\ q.type = "DELETE"
    BY <2>1, HandleFacts
  <2>3. q.room \in RoomIds /\ q \in Reply
    BY <2>2, RequestFacts
  <2> HIDE DEF q
  <2> QED
    BY <1>2, <2>1, <2>2, <2>3
<1>7. CASE LoadHistory(c)
  <2> DEFINE older == LastOf(Stored(q.room, q.last), Batch)
             m == [type |-> "LOAD_MORE", room |-> q.room, shown |-> older]
  <2>1. Handle(c, "LOAD_MORE") /\ online' = online /\ exposed' = exposed /\ Answer(c, m)
    BY <1>7 DEF LoadHistory
  <2>2. q \in Request /\ q.type = "LOAD_MORE"
    BY <2>1, HandleFacts
  <2>3. q.room \in RoomIds /\ older \in Seq(Entry)
    BY <2>2, RequestFacts, RowsListed, Constants DEF RoomsConstants
  <2>4. m \in Reply /\ m.type = "LOAD_MORE"
    BY <2>3 DEF Reply
  <2> HIDE DEF m
  <2> QED
    BY <1>3, <2>1, <2>4
<1>8. CASE SearchAll(c)
  <2> DEFINE m == [type |-> "SEARCH",
                   rooms |-> {r \in 1 .. Len(rooms) : rooms[r].access = "public"}]
  <2>1. Handle(c, "SEARCH") /\ online' = online /\ exposed' = exposed /\ Answer(c, m)
    BY <1>8 DEF SearchAll
  <2>2. m \in Reply /\ m.type = "SEARCH"
    BY RoomsNumbered DEF Reply
  <2> HIDE DEF m
  <2> QED
    BY <1>3, <2>1, <2>2
<1> QED
  BY <1>1, <1>4, <1>5, <1>6, <1>7, <1>8

LEMMA ViewMembersStep ==
    ASSUME RoomsInv, ViewInv, NEW c \in Clients,
           JoinRoom(c) \/ CreateRoom(c) \/ LeaveRoom(c) \/ DirectMessage(c)
    PROVE  ViewInv'
<1> DEFINE q == Head(out[c])
           new == Len(rooms) + 1
           nothing == [type |-> "SEARCH", rooms |-> {}]
<1>0. /\ TypeOK /\ OfRooms /\ DirectInv
      /\ rows \in [Clients -> [RoomIds -> Nat]] /\ DOMAIN rooms = 1 .. Len(rooms)
      /\ \A d \in Clients, r \in RoomIds : rows[d][r] \in Nat
      /\ \A d \in Clients : Listening(d) => d \in online
  <2>1. TypeOK /\ OfRooms /\ DirectInv
    BY DEF RoomsInv, DirectInv
  <2>2. rows \in [Clients -> [RoomIds -> Nat]] /\ DOMAIN rooms = 1 .. Len(rooms)
    BY <2>1, RoomsNumbered DEF TypeOK
  <2>3. \A d \in Clients, r \in RoomIds : rows[d][r] \in Nat
    BY <2>2
  <2>4. \A d \in Clients : Listening(d) => d \in online
    BY ListenerOnline DEF ViewInv, View
  <2> QED
    BY <2>1, <2>2, <2>3, <2>4
<1>a. /\ UNCHANGED userState /\ online' = online /\ exposed \subseteq exposed'
      /\ nothing \in Reply /\ nothing.type # "AUTH"
  <2>1. UNCHANGED userState /\ online' = online /\ exposed \subseteq exposed'
    BY DEF JoinRoom, CreateRoom, LeaveRoom, DirectMessage
  <2>2. nothing \in Reply /\ nothing.type # "AUTH"
    BY DEF Reply
  <2> QED
    BY <2>1, <2>2
<1>b. \A d \in Clients, r \in RoomIds : rows[d][r] > 0 => r \in DOMAIN rooms
  BY <1>0 DEF OfRooms
<1>e. ASSUME NEW type, Handle(c, type)
      PROVE  q \in Request /\ q.type = type /\ AskedOfRooms(c, q)
  <2>1. q \in Request /\ q.type = type /\ 1 \in DOMAIN out[c] /\ q = out[c][1]
    BY <1>0, <1>e, HandleFacts
  <2> QED
    BY <1>0, <2>1 DEF OfRooms
<1>1. CASE JoinRoom(c)
  <2> DEFINE r == q.room
             newRows == [rows EXCEPT ![c][r] = rows[c][r] + 1]
             m == [type |-> "JOIN", room |-> r, user |-> c, shown |-> Latest(r, Recent)]
  <2>1. Handle(c, "JOIN") /\ rows' = newRows /\ Broadcast(newRows, r, m, {})
    BY <1>1 DEF JoinRoom
  <2>2. r \in RoomIds
    BY <1>e, <2>1, RequestFacts
  <2>3. m \in Reply /\ m.type = "JOIN" /\ m.room = r /\ m.user = c
    BY <1>0, <2>2, LatestListed DEF Reply
  <2>4. /\ newRows \in [Clients -> [RoomIds -> Nat]] /\ newRows[c][r] > 0
        /\ \A d \in Clients, p \in RoomIds : d # c \/ p # r => newRows[d][p] = rows[d][p]
    <3>1. rows[c][r] + 1 \in Nat /\ rows[c][r] + 1 > 0
      BY <1>0, <2>2
    <3> QED
      BY <1>0, <2>2, <3>1, RowsUpdate
  <2>5. \A d, p : /\ Gets(m, d, p) <=> d = c /\ p = r
                  /\ ~Loses(m, d, p)
    BY <2>3 DEF Gets, Loses
  <2> HIDE DEF newRows, m, r, q
  <2>6. \A d \in Clients : Gained(d, m)
                           /\ (in'[d] # in[d] <=> d \in online /\ newRows[d][r] > 0)
    BY <1>0, <2>1, <2>2, <2>3, <2>4, BroadcastGains
  <2>7. ASSUME NEW d \in Clients, Listening(d), NEW p \in RoomIds
        PROVE  rows'[d][p] > 0 <=>
                   IF in'[d] = in[d] THEN rows[d][p] > 0
                   ELSE Gets(m, d, p) \/ (rows[d][p] > 0 /\ ~Loses(m, d, p))
    <3>1. CASE d = c /\ p = r
      <4>1. in'[d] # in[d]
        BY <1>0, <2>4, <2>6, <2>7, <3>1
      <4> QED
        BY <2>1, <2>4, <2>5, <3>1, <4>1
    <3>2. CASE d # c \/ p # r
      BY <2>1, <2>4, <2>5, <3>2
    <3> QED
      BY <3>1, <3>2
  <2>8. ~IsOfKnownRoom(m) /\ "JOIN" # "AUTH" /\ m.type # "AUTH"
    BY <2>3 DEF IsOfKnownRoom
  <2> QED
    BY <1>0, <1>a, <2>1, <2>3, <2>6, <2>7, <2>8, ViewByServer
<1>2. CASE CreateRoom(c)
  <2>1. Handle(c, "CREATE")
    BY <1>2 DEF CreateRoom
  <2>2. CASE UNCHANGED <<rooms, rows, in>>
    <3>1. \A d \in Clients : Gained(d, nothing)
      BY <2>2 DEF Gained
    <3>2. in' = in /\ rows' = rows
      BY <2>2
    <3> HIDE DEF nothing, q
    <3> QED
      BY <1>0, <1>a, <2>1, <3>1, <3>2, ViewByServer
  <2>3. CASE /\ new <= MaxRooms
             /\ rows' = [rows EXCEPT ![c][new] = @ + 1]
             /\ Answer(c, [type |-> "CREATE", room |-> new, user |-> c, shown |-> <<>>])
    <3> DEFINE m == [type |-> "CREATE", room |-> new, user |-> c, shown |-> <<>>]
    <3>1. new \in RoomIds
      BY <1>0, <2>3, RoomsNumbered, Constants DEF RoomIds, RoomsConstants
    <3>2. m \in Reply /\ m.type = "CREATE" /\ m.room = new /\ m.user = c
      BY <3>1 DEF Reply
    <3>3. /\ rows'[c][new] > 0
          /\ \A d \in Clients, p \in RoomIds : d # c \/ p # new => rows'[d][p] = rows[d][p]
      <4>1. rows[c][new] + 1 \in Nat /\ rows[c][new] + 1 > 0
        BY <1>0, <3>1
      <4> QED
        BY <1>0, <2>3, <3>1, <4>1, RowsUpdate
    <3>4. \A d, p : /\ Gets(m, d, p) <=> d = c /\ p = new
                    /\ ~Loses(m, d, p)
      BY <3>2 DEF Gets, Loses
    <3>5. Answer(c, m)
      BY <2>3
    <3> HIDE DEF m, new, q
    <3>6. \A d \in Clients : Gained(d, m) /\ (in'[d] # in[d] <=> d = c)
      BY <1>0, <3>2, <3>5, AnswerGains
    <3>7. \A d \in Clients : Listening(d) => \A p \in RoomIds :
              rows'[d][p] > 0 <=>
                   IF in'[d] = in[d] THEN rows[d][p] > 0
                   ELSE Gets(m, d, p) \/ (rows[d][p] > 0 /\ ~Loses(m, d, p))
      BY <3>3, <3>4, <3>6
    <3>8. ~IsOfKnownRoom(m) /\ "CREATE" # "AUTH" /\ m.type # "AUTH"
      BY <3>2 DEF IsOfKnownRoom
    <3> QED
      BY <1>0, <1>a, <2>1, <3>2, <3>6, <3>7, <3>8, ViewByServer
  <2> QED
    BY <1>2, <2>2, <2>3 DEF CreateRoom
<1>3. CASE LeaveRoom(c)
  <2> DEFINE r == q.room
             newRows == [rows EXCEPT ![c][r] = 0]
             m == [type |-> "LEAVE", room |-> r, user |-> c]
  <2>1. Handle(c, "LEAVE") /\ rows' = newRows /\ Broadcast(newRows, r, m, {c})
    BY <1>3 DEF LeaveRoom
  <2>2. r \in RoomIds
    BY <1>e, <2>1, RequestFacts
  <2>3. m \in Reply /\ m.type = "LEAVE" /\ m.room = r /\ m.user = c
    BY <2>2 DEF Reply
  <2>4. /\ newRows \in [Clients -> [RoomIds -> Nat]] /\ newRows[c][r] = 0
        /\ \A d \in Clients, p \in RoomIds : d # c \/ p # r => newRows[d][p] = rows[d][p]
    BY <1>0, <2>2, RowsUpdate
  <2>5. \A d, p : /\ Loses(m, d, p) <=> d = c /\ p = r
                  /\ ~Gets(m, d, p)
    BY <2>3 DEF Gets, Loses
  <2> HIDE DEF newRows, m, r, q
  <2>6. \A d \in Clients : Gained(d, m) /\ (d = c => in'[d] # in[d])
    BY <1>0, <2>1, <2>2, <2>3, <2>4, BroadcastGains
  <2>7. \A d \in Clients : Listening(d) => \A p \in RoomIds :
            rows'[d][p] > 0 <=>
                 IF in'[d] = in[d] THEN rows[d][p] > 0
                 ELSE Gets(m, d, p) \/ (rows[d][p] > 0 /\ ~Loses(m, d, p))
    BY <2>1, <2>4, <2>5, <2>6
  <2>8. ~IsOfKnownRoom(m) /\ "LEAVE" # "AUTH" /\ m.type # "AUTH"
    BY <2>3 DEF IsOfKnownRoom
  <2> QED
    BY <1>0, <1>a, <2>1, <2>3, <2>6, <2>7, <2>8, ViewByServer
<1>4. CASE DirectMessage(c)
  <2> DEFINE d == q.other
             mine == [rows EXCEPT ![c][new] = rows[c][new] + 1]
             newRows == [mine EXCEPT ![d][new] = mine[d][new] + 1]
  <2>1. Handle(c, "DIRECT")
    BY <1>4 DEF DirectMessage
  <2>2. d \in Clients /\ d # c
    BY <1>e, <2>1, RequestFacts DEF AskedOfRooms
  <2>3. ASSUME NEW old \in DirectRooms(c, d),
               Answer(c, [type |-> "DIRECT", room |-> old, exist |-> TRUE]),
               UNCHANGED <<rooms, rows>>
        PROVE  ViewInv'
    <3> DEFINE m == [type |-> "DIRECT", room |-> old, exist |-> TRUE]
    <3>1. /\ old \in DOMAIN rooms /\ old \in RoomIds /\ rooms[old].access = "direct"
          /\ <<rooms[old].first, rooms[old].second>> \in {<<c, d>>, <<d, c>>}
      BY <1>0, RoomsNumbered DEF DirectRooms
    <3>2. rows[rooms[old].first][old] = 1 /\ rows[rooms[old].second][old] = 1
      BY <1>0, <3>1 DEF DirectInv, DirectRoomsUnique
    <3>3. rooms[old].first = c \/ rooms[old].second = c
      BY <3>1
    <3>4. rows[c][old] > 0
      BY <3>2, <3>3
    <3>5. m \in Reply /\ m.type = "DIRECT" /\ m.exist /\ m.room = old
      BY <3>1 DEF Reply
    <3>6. Answer(c, m) /\ rows' = rows
      BY <2>3
    <3> HIDE DEF m, q, d
    <3>7. \A u \in Clients : Gained(u, m) /\ (in'[u] # in[u] <=> u = c)
      BY <1>0, <3>5, <3>6, AnswerGains
    <3>8. \A u, p : ~Gets(m, u, p) /\ ~Loses(m, u, p)
      BY <3>5, NoRoomChange
    <3>9. m.type # "AUTH" /\ "DIRECT" # "AUTH"
      BY <3>5
    <3> QED
      BY <1>0, <1>a, <2>1, <3>4, <3>5, <3>6, <3>7, <3>8, <3>9, ViewByServer
  <2>4. CASE /\ new <= MaxRooms
             /\ rows' = newRows
             /\ Broadcast(newRows, new, [type |-> "DIRECT", room |-> new, exist |-> FALSE], {})
    <3> DEFINE m == [type |-> "DIRECT", room |-> new, exist |-> FALSE]
    <3>1. new \in RoomIds /\ new \notin DOMAIN rooms
      BY <1>0, <2>4, RoomsNumbered, Constants DEF RoomIds, RoomsConstants
    <3>2. m \in Reply /\ m.type = "DIRECT" /\ ~m.exist /\ m.room = new
      BY <3>1 DEF Reply
    <3>3. \A u \in Clients : rows[u][new] = 0
      BY <1>0, <1>b, <3>1
    <3>4. /\ mine \in [Clients -> [RoomIds -> Nat]] /\ mine[c][new] = 1
          /\ \A u \in Clients, p \in RoomIds : u # c \/ p # new => mine[u][p] = rows[u][p]
      <4>1. rows[c][new] + 1 = 1 /\ 1 \in Nat
        BY <3>3
      <4> QED
        BY <1>0, <2>2, <3>1, <4>1, RowsUpdate
    <3>5. mine[d][new] = 0
      BY <2>2, <3>1, <3>3, <3>4
    <3> HIDE DEF mine
    <3>6. /\ newRows \in [Clients -> [RoomIds -> Nat]] /\ newRows[d][new] = 1
          /\ \A u \in Clients, p \in RoomIds : u # d \/ p # new => newRows[u][p] = mine[u][p]
      <4>1. mine[d][new] + 1 = 1 /\ 1 \in Nat
        BY <3>5
      <4> QED
        BY <2>2, <3>1, <3>4, <4>1, RowsUpdate
    <3>7. /\ \A u \in Clients, p \in RoomIds : p # new => newRows[u][p] = rows[u][p]
          /\ \A u \in Clients : newRows[u][new] = IF u \in {c, d} THEN 1 ELSE 0
      <4>1. \A u \in Clients, p \in RoomIds : p # new => newRows[u][p] = rows[u][p]
        BY <3>4, <3>6
      <4>2. newRows[c][new] = 1 /\ newRows[d][new] = 1
        BY <2>2, <3>1, <3>4, <3>6
      <4>3. \A u \in Clients : u # c /\ u # d => newRows[u][new] = 0
        BY <3>1, <3>3, <3>4, <3>6
      <4> QED
        BY <4>1, <4>2, <4>3
    <3>8. Broadcast(newRows, new, m, {}) /\ rows' = newRows
      BY <2>4
    <3>9. \A u, p : /\ Gets(m, u, p) <=> p = new
                    /\ ~Loses(m, u, p)
      BY <3>2 DEF Gets, Loses
    <3> HIDE DEF newRows, m, new, q, d
    <3>10. \A u \in Clients : /\ Gained(u, m)
                              /\ (in'[u] # in[u] <=> u \in online /\ newRows[u][new] > 0)
      <4>1. /\ TypeOK /\ newRows \in [Clients -> [RoomIds -> Nat]] /\ new \in RoomIds
            /\ m \in Reply /\ Broadcast(newRows, new, m, {})
        BY <1>0, <3>1, <3>2, <3>6, <3>8
      <4>2. \A u \in Clients :
                /\ Gained(u, m)
                /\ in'[u] # in[u] <=> (u \in online /\ newRows[u][new] > 0) \/ u \in {}
        BY ONLY <4>1, BroadcastGains
      <4> QED
        BY <4>2
    <3>11. ASSUME NEW u \in Clients, Listening(u), NEW p \in RoomIds
           PROVE  rows'[u][p] > 0 <=>
                      IF in'[u] = in[u] THEN rows[u][p] > 0
                      ELSE Gets(m, u, p) \/ (rows[u][p] > 0 /\ ~Loses(m, u, p))
      <4>1. CASE p = new
        <5>1. in'[u] # in[u] <=> newRows[u][new] > 0
          BY <1>0, <3>10, <3>11
        <5> QED
          BY <3>3, <3>8, <3>9, <4>1, <5>1
      <4>2. CASE p # new
        BY <3>7, <3>8, <3>9, <4>2
      <4> QED
        BY <4>1, <4>2
    <3>12. ~IsOfKnownRoom(m) /\ "DIRECT" # "AUTH" /\ m.type # "AUTH"
      BY <3>2 DEF IsOfKnownRoom
    <3> QED
      BY <1>0, <1>a, <2>1, <3>2, <3>10, <3>11, <3>12, ViewByServer
  <2> QED
    BY <1>4, <2>3, <2>4 DEF DirectMessage
<1> QED
  BY <1>1, <1>2, <1>3, <1>4

\* A client that neither sends nor is sent anything.
LEMMA ViewUntouched ==
    ASSUME NEW d, View(d), phase'[d] = phase[d], snap'[d] = snap[d], known'[d] = known[d],
           in'[d] = in[d], out'[d] = out[d], d \in online => d \in online',
           exposed \subseteq exposed', rows' = rows
    PROVE  View(d)'
BY DEF View, SignInOrder, Listening, MembershipKnown, ContentKnown, KnownAfter, Listed

LEMMA ViewSignInStep ==
    ASSUME RoomsInv, ViewInv, NEW c \in Clients, Authorization(c) \/ EndOfFile(c)
    PROVE  ViewInv'
<1>0. TypeOK /\ OfRooms /\ UNCHANGED <<tables, userState, exposed>>
  BY DEF RoomsInv, Authorization, EndOfFile
<1>1. ASSUME NEW d \in Clients, d # c
      PROVE  View(d)'
  <2>1. out'[d] = out[d] /\ in'[d] = in[d] /\ (d \in online => d \in online')
    <3>1. CASE Authorization(c)
      <4>1. Handle(c, "AUTH") /\ \E m : in' = [in EXCEPT ![c] = Append(@, m)]
        BY <3>1 DEF Authorization, Answer
      <4>2. out'[d] = out[d]
        BY <1>0, <1>1, <4>1, HandleFacts
      <4>3. in'[d] = in[d]
        BY <1>0, <1>1, <4>1 DEF TypeOK
      <4>4. d \in online => d \in online'
        BY <3>1 DEF Authorization
      <4> QED
        BY <4>2, <4>3, <4>4
    <3>2. CASE EndOfFile(c)
      BY <1>0, <1>1, <3>2 DEF EndOfFile, TypeOK
    <3> QED
      BY <3>1, <3>2
  <2> QED
    BY <1>0, <2>1, ViewUntouched DEF ViewInv, userState, lists, tables
<1>2. View(c)'
  <2>1. CASE EndOfFile(c)
    <3>1. phase'[c] = "crashed"
      BY <1>0, <2>1 DEF EndOfFile, userState
    <3> QED
      BY <3>1 DEF View, SignInOrder, Listening
  <2>2. CASE Authorization(c)
    <3> DEFINE mine == {r \in 1 .. Len(rooms) : rows[c][r] > 0}
               m == [type |-> "AUTH", rooms |-> mine,
                     shown |-> [r \in RoomIds |-> IF r \in mine THEN Latest(r, Recent) ELSE <<>>]]
    <3>1. Handle(c, "AUTH") /\ c \in online' /\ Answer(c, m)
      BY <2>2 DEF Authorization
    <3>2. m \in Reply
      <4>1. mine \subseteq RoomIds
        BY <1>0, RoomsNumbered
      <4>2. [r \in RoomIds |-> IF r \in mine THEN Latest(r, Recent) ELSE <<>>] \in History
        BY <1>0, LatestListed DEF History
      <4> QED
        BY <4>1, <4>2 DEF Reply
    <3>3. \A r \in RoomIds : Gets(m, c, r) <=> rows[c][r] > 0
      BY <1>0, RoomsNumbered DEF Gets, OfRooms
    <3>4. m.type = "AUTH" /\ ~IsOfKnownRoom(m) /\ \A r : Loses(m, c, r)
      BY DEF IsOfKnownRoom, Loses
    <3> HIDE DEF m
    <3>5. /\ Adds(in[c], in'[c], {m}) /\ Len(in'[c]) = Len(in[c]) + 1 /\ Len(in[c]) \in Nat
          /\ DOMAIN in[c] = 1 .. Len(in[c])
      <4>1. in[c] \in Seq(Reply) /\ Len(in[c]) \in Nat /\ DOMAIN in[c] = 1 .. Len(in[c])
        BY <1>0 DEF TypeOK
      <4>2. Adds(in[c], in'[c], {m}) /\ Len(in'[c]) = Len(in[c]) + 1
        BY <1>0, <3>1, <3>2, AnswerFacts
      <4> QED
        BY <4>1, <4>2
    <3>6. /\ out[c][1].type = "AUTH" /\ 1 \in DOMAIN out[c] /\ Takes(out[c], out'[c])
          /\ out'[c] \in Seq(Request)
      BY <1>0, <3>1, HandleFacts
    <3>7. 1 \in Asks(c, "AUTH") /\ out[c] # <<>>
      BY <3>6 DEF Asks, Takes
    <3>8. /\ SignInOrder(c) /\ phase'[c] = phase[c] /\ phase[c] \in Phases
          /\ rows' = rows /\ exposed' = exposed
      BY <1>0 DEF ViewInv, View, userState, tables, TypeOK
    <3>9. phase[c] \in {"waiting", "crashed"}
      BY <3>7, <3>8, SignInIs DEF Phases
    <3>10. CASE phase[c] = "crashed"
      BY <3>8, <3>10 DEF View, SignInOrder, Listening
    <3>11. CASE phase[c] = "waiting"
      <4>1. Asks(c, "AUTH") = {Len(out[c])} /\ Answers(c) = {}
        BY <3>7, <3>8, <3>11, SignInIs
      <4>2. Len(out[c]) = 1
        BY <3>7, <4>1
      <4>3. out'[c] = <<>>
        BY <3>6, <4>2 DEF Takes
      <4>4. /\ \A k \in DOMAIN in'[c] : in'[c][k].type = "AUTH" <=> k = Len(in'[c])
            /\ Len(in'[c]) \in DOMAIN in'[c] /\ in'[c][Len(in'[c])] = m
        <5>1. \A k \in DOMAIN in[c] : in'[c][k] = in[c][k] /\ in[c][k].type # "AUTH"
          BY <3>5, <4>1 DEF Adds, Answers
        <5>2. DOMAIN in'[c] = 1 .. Len(in'[c]) /\ Len(in'[c]) \in Nat
          BY <3>5 DEF Adds
        <5>3. in'[c][Len(in'[c])] = m
          BY <3>5, <5>2 DEF Adds
        <5>4. \A k \in DOMAIN in'[c] : k \in DOMAIN in[c] \/ k = Len(in'[c])
          BY <3>5, <5>2
        <5>5. \A k \in DOMAIN in[c] : k # Len(in'[c])
          BY <3>5
        <5>6. Len(in'[c]) \in DOMAIN in'[c]
          BY <3>5, <5>2
        <5> QED
          BY <3>4, <5>1, <5>3, <5>4, <5>5, <5>6
      <4>5. \E k \in DOMAIN in'[c] : {i \in DOMAIN in'[c] : in'[c][i].type = "AUTH"} = {k}
        BY <4>4
      <4>6. SignInOrder(c)'
        BY <3>1, <3>8, <3>11, <4>3, <4>5 DEF SignInOrder
      <4>7. MembershipKnown(c)'
        <5>1. \A r : KnownIn(Listed(c)', in'[c], c, r, Len(in'[c])) <=> Gets(m, c, r)
          <6>1. Len(in'[c]) > Len(in[c])
            BY <3>5
          <6> QED
            BY <3>4, <3>5, <6>1, KnownAdded
        <5>2. \A r \in RoomIds : KnownIn(Listed(c)', in'[c], c, r, Len(in'[c])) <=> rows'[c][r] > 0
          BY <3>3, <3>8, <5>1
        <5> QED
          BY <5>2 DEF MembershipKnown, KnownAfter, KnownIn
      <4>8. ContentKnown(c)'
        <5>1. ASSUME NEW k \in DOMAIN in'[c], IsOfKnownRoom(in'[c][k])
              PROVE  \E j \in DOMAIN in'[c] : j > k /\ in'[c][j].type = "AUTH"
          <6>1. k # Len(in'[c])
            BY <3>4, <4>4, <5>1
          <6>2. DOMAIN in'[c] = 1 .. Len(in'[c]) /\ Len(in'[c]) \in Nat
            BY <3>5 DEF Adds
          <6>3. Len(in'[c]) > k
            BY <6>1, <6>2
          <6> QED
            BY <4>4, <6>3
        <5> QED
          BY <5>1 DEF ContentKnown
      <4> QED
        BY <4>6, <4>7, <4>8 DEF View
    <3> QED
      BY <3>9, <3>10, <3>11
  <2> QED
    BY <2>1, <2>2
<1> QED
  BY <1>1, <1>2 DEF ViewInv

\* A request of a signed-in client that stays so.
AsksMore(c) ==
    \E use \in Uses, q \in Request :
        q.type \notin {"AUTH", "LOGOUT"} /\ Ask(c, use, q)

LEMMA CallbackKinds ==
    ASSUME TypeOK, NEW c \in Clients, Callback(c)
    PROVE  /\ UNCHANGED <<rows, online, in, snap>> /\ exposed \subseteq exposed'
           /\ \/ Enter(c)
              \/ InitGeneral(c)
              \/ LogoutClient(c) /\ known' = known
              \/ UNCHANGED <<phase, known, out>>
              \/ UNCHANGED <<phase, known>> /\ AsksMore(c)
<1>0. UNCHANGED <<rows, online, in, snap>> /\ exposed \subseteq exposed'
  BY DEF Callback, Enter, InitGeneral, SendMessage, SendEdit, Edit, Delete, Scroll, Leave,
         CancelEdit, Search, Join, Create, LogoutClient, Direct, tables, chat
<1>1. ASSUME NEW use, NEW q \in Request, Ask(c, use, q), q.type \notin {"AUTH", "LOGOUT"}
      PROVE  AsksMore(c)
  BY <1>1 DEF AsksMore, Ask
<1>2. CASE Enter(c) \/ InitGeneral(c)
  BY <1>0, <1>2
<1>3. CASE LogoutClient(c)
  BY <1>0, <1>3 DEF LogoutClient, chat
<1>4. CASE CancelEdit(c) \/ \E r \in RoomIds : Edit(c, r)
  BY <1>0, <1>4 DEF CancelEdit, Edit, lists
<1>5. CASE \E r \in RoomIds, text \in Texts : SendMessage(c, r, text)
  <2>1. PICK r \in RoomIds, text \in Texts : SendMessage(c, r, text)
    BY <1>5
  <2> DEFINE q == [type |-> "MSG", room |-> r, text |-> text]
  <2>2. q \in Request /\ q.type = "MSG" /\ Ask(c, "MSG", q) /\ UNCHANGED <<phase, known>>
    BY <2>1 DEF SendMessage, chat, Request
  <2> HIDE DEF q
  <2> QED
    BY <1>0, <1>1, <2>2
<1>6. CASE \E text \in Texts : SendEdit(c, text)
  <2>1. PICK text \in Texts : SendEdit(c, text)
    BY <1>6
  <2> DEFINE q == [type |-> "EDIT", room |-> editing[c].room, id |-> editing[c].id,
                   text |-> text]
  <2>2. editing[c] \in [room : RoomIds, id : MessageIds]
    BY <2>1 DEF SendEdit, TypeOK
  <2>3. q \in Request /\ q.type = "EDIT"
    BY <2>2 DEF Request
  <2>4. Ask(c, "EDIT", q) /\ UNCHANGED <<phase, known>>
    BY <2>1 DEF SendEdit, lists
  <2> HIDE DEF q
  <2> QED
    BY <1>0, <1>1, <2>3, <2>4
<1>7. CASE \E r \in RoomIds : Delete(c, r)
  <2>1. PICK r \in RoomIds : Delete(c, r)
    BY <1>7
  <2>2. PICK id \in Menu(c, r) : Ask(c, "DELETE", [type |-> "DELETE", room |-> r, id |-> id])
    BY <2>1 DEF Delete
  <2> DEFINE q == [type |-> "DELETE", room |-> r, id |-> id]
  <2>3. id \in MessageIds
    BY <2>2, ShownFacts DEF Menu
  <2>4. q \in Request /\ q.type = "DELETE"
    BY <2>3 DEF Request
  <2>5. Ask(c, "DELETE", q) /\ UNCHANGED <<phase, known>>
    BY <2>1, <2>2 DEF Delete, chat
  <2> HIDE DEF q
  <2> QED
    BY <1>0, <1>1, <2>4, <2>5
<1>8. CASE \E r \in RoomIds : Scroll(c, r)
  <2>1. PICK r \in RoomIds : Scroll(c, r)
    BY <1>8
  <2> DEFINE q == [type |-> "LOAD_MORE", room |-> r, last |-> shown[c][r][1].id]
  <2>2. q \in Request /\ q.type = "LOAD_MORE"
    BY <2>1, ShownFacts DEF Scroll, Request
  <2>3. Ask(c, "LOAD_MORE", q) /\ UNCHANGED <<phase, known>>
    BY <2>1 DEF Scroll, chat
  <2> HIDE DEF q
  <2> QED
    BY <1>0, <1>1, <2>2, <2>3
<1>9. CASE \E r \in RoomIds : Leave(c, r)
  <2>1. PICK r \in RoomIds : Leave(c, r)
    BY <1>9
  <2> DEFINE q == [type |-> "LEAVE", room |-> r]
  <2>2. q \in Request /\ q.type = "LEAVE" /\ Ask(c, "LEAVE", q) /\ UNCHANGED <<phase, known>>
    BY <2>1 DEF Leave, chat, Request
  <2> HIDE DEF q
  <2> QED
    BY <1>0, <1>1, <2>2
<1>10. CASE Search(c)
  <2> DEFINE q == [type |-> "SEARCH"]
  <2>1. q \in Request /\ q.type = "SEARCH" /\ Ask(c, "JOIN", q) /\ UNCHANGED <<phase, known>>
    BY <1>10 DEF Search, chat, Request
  <2> HIDE DEF q
  <2> QED
    BY <1>0, <1>1, <2>1
<1>11. CASE Join(c)
  <2>1. Last(results[c]) \in SUBSET RoomIds
    <3>1. results[c] \in Seq(SUBSET RoomIds) /\ results[c] # <<>>
      BY <1>11 DEF Join, TypeOK
    <3> QED
      BY <3>1, FrontFacts
  <2>2. PICK r \in Last(results[c]) : Ask(c, "JOIN", [type |-> "JOIN", room |-> r])
    BY <1>11 DEF Join
  <2> DEFINE q == [type |-> "JOIN", room |-> r]
  <2>3. q \in Request /\ q.type = "JOIN"
    BY <2>1, <2>2 DEF Request
  <2>4. Ask(c, "JOIN", q) /\ UNCHANGED <<phase, known>>
    BY <1>11, <2>2 DEF Join, chat
  <2> HIDE DEF q
  <2> QED
    BY <1>0, <1>1, <2>3, <2>4
<1>12. CASE Create(c)
  <2>1. PICK access \in {"public", "private"} :
              Ask(c, "CREATE", [type |-> "CREATE", access |-> access])
    BY <1>12 DEF Create
  <2> DEFINE q == [type |-> "CREATE", access |-> access]
  <2>2. q \in Request /\ q.type = "CREATE"
    BY DEF Request
  <2>3. Ask(c, "CREATE", q) /\ UNCHANGED <<phase, known>>
    BY <1>12, <2>1 DEF Create, chat
  <2> HIDE DEF q
  <2> QED
    BY <1>0, <1>1, <2>2, <2>3
<1>13. CASE \E d \in Clients : Direct(c, d)
  <2>1. PICK d \in Clients : Direct(c, d)
    BY <1>13
  <2> DEFINE q == [type |-> "DIRECT", other |-> d]
  <2>2. q \in Request /\ q.type = "DIRECT" /\ Ask(c, "DIRECT", q) /\ UNCHANGED <<phase, known>>
    BY <2>1 DEF Direct, chat, Request
  <2> HIDE DEF q
  <2> QED
    BY <1>0, <1>1, <2>2
<1> QED
  BY <1>2, <1>3, <1>4, <1>5, <1>6, <1>7, <1>8, <1>9, <1>10, <1>11, <1>12, <1>13 DEF Callback

LEMMA ViewCallbackStep ==
    ASSUME TypeOK, ViewInv, NEW c \in Clients, Callback(c)
    PROVE  ViewInv'
<1>0. /\ UNCHANGED <<rows, online, in, snap>> /\ exposed \subseteq exposed'
      /\ out[c] \in Seq(Request) /\ Len(out[c]) \in Nat /\ DOMAIN out[c] = 1 .. Len(out[c])
  BY CallbackKinds DEF TypeOK
<1>1. View(c) /\ SignInOrder(c)
  BY DEF ViewInv, View
<1>2. CASE Enter(c)
  <2>1. /\ phase[c] = "login" /\ phase'[c] = "waiting" /\ known' = known
        /\ \A d \in Clients : d # c => phase'[d] = phase[d]
    BY <1>2 DEF Enter, lists, TypeOK
  <2>2. \A d \in Clients : d # c => out'[d] = out[d]
    BY <1>2 DEF Enter, TypeOK
  <2>3. out'[c] = Append(out[c], [type |-> "AUTH"])
    BY <1>2 DEF Enter, TypeOK
  <2>4. Asks(c, "AUTH") = {} /\ Answers(c) = {}
    BY <1>1, <2>1, SignInIs
  <2>5. /\ \A k \in DOMAIN out'[c] : out'[c][k].type = "AUTH" <=> k = Len(out'[c])
        /\ Len(out'[c]) \in DOMAIN out'[c]
    <3>1. [type |-> "AUTH"] \in Request
      BY DEF Request
    <3>2. /\ DOMAIN out'[c] = 1 .. Len(out[c]) + 1 /\ Len(out'[c]) = Len(out[c]) + 1
          /\ \A k \in DOMAIN out[c] : out'[c][k] = out[c][k]
          /\ out'[c][Len(out[c]) + 1] = [type |-> "AUTH"]
      BY <1>0, <2>3, <3>1
    <3>3. \A k \in DOMAIN out[c] : out[c][k].type # "AUTH"
      BY <2>4 DEF Asks
    <3> QED
      BY <1>0, <3>2, <3>3
  <2>6. Asks(c, "AUTH")' = {Len(out'[c])} /\ Answers(c)' = {}
    BY <1>0, <2>4, <2>5 DEF Asks, Answers
  <2>7. View(c)'
    BY <2>1, <2>6 DEF View, SignInOrder, Listening, Asks, Answers
  <2>8. \A d \in Clients : d # c => View(d)'
    BY <1>0, <2>1, <2>2, ViewUntouched DEF ViewInv
  <2> QED
    BY <2>7, <2>8 DEF ViewInv
<1>3. CASE InitGeneral(c)
  <2>1. /\ phase[c] = "building" /\ phase'[c] = "online" /\ out' = out
        /\ known'[c] = snap[c].rooms
        /\ \A d \in Clients : d # c => phase'[d] = phase[d] /\ known'[d] = known[d]
    BY <1>3 DEF InitGeneral, TypeOK
  <2>2. Listed(c)' = Listed(c)
    BY <2>1 DEF Listed
  <2>3. Listening(c) /\ SignInOrder(c)'
    BY <1>0, <1>1, <2>1 DEF Listening, SignInOrder
  <2>4. \A r, k : KnownAfter(c, r, k)' <=> KnownAfter(c, r, k)
    BY <1>0, <2>2 DEF KnownAfter
  <2>5. View(c)'
    BY <1>0, <1>1, <2>3, <2>4 DEF View, MembershipKnown, ContentKnown
  <2>6. \A d \in Clients : d # c => View(d)'
    BY <1>0, <2>1, ViewUntouched DEF ViewInv
  <2> QED
    BY <2>5, <2>6 DEF ViewInv
<1>4. CASE LogoutClient(c) /\ known' = known
  <2>1. Ask(c, "LOGOUT", [type |-> "LOGOUT"]) /\ [type |-> "LOGOUT"] \in Request
    BY <1>4 DEF LogoutClient, Request
  <2>2. /\ phase[c] = "online" /\ Adds(out[c], out'[c], {[type |-> "LOGOUT"]})
        /\ \A d \in Clients : d # c => out'[d] = out[d]
    BY <2>1, AskFacts
  <2>3. phase'[c] = "login" /\ \A d \in Clients : d # c => phase'[d] = phase[d]
    BY <1>4 DEF LogoutClient, TypeOK
  <2>4. Asks(c, "AUTH") = {} /\ Answers(c) = {}
    BY <1>1, <2>2, SignInIs
  <2>5. Asks(c, "AUTH")' = {} /\ Answers(c)' = {}
    BY <1>0, <2>2, <2>4 DEF Asks, Answers, Adds
  <2>6. View(c)'
    BY <2>3, <2>5 DEF View, SignInOrder, Listening, Asks, Answers
  <2>7. \A d \in Clients : d # c => View(d)'
    BY <1>0, <1>4, <2>2, <2>3, ViewUntouched DEF ViewInv
  <2> QED
    BY <2>6, <2>7 DEF ViewInv
<1>5. CASE UNCHANGED <<phase, known, out>>
  BY <1>0, <1>5, ViewUntouched DEF ViewInv
<1>6. CASE UNCHANGED <<phase, known>> /\ AsksMore(c)
  <2>1. PICK use \in Uses, q \in Request :
              q.type \notin {"AUTH", "LOGOUT"} /\ Ask(c, use, q)
    BY <1>6 DEF AsksMore
  <2>2. /\ phase[c] = "online" /\ Adds(out[c], out'[c], {q})
        /\ \A d \in Clients : d # c => out'[d] = out[d]
    BY <2>1, AskFacts
  <2>3. /\ Asks(c, "AUTH") = {} /\ Asks(c, "LOGOUT") = {} /\ Answers(c) = {}
        /\ c \in online
    BY <1>1, <2>2, SignInIs
  <2>4. Asks(c, "AUTH")' = {} /\ Asks(c, "LOGOUT")' = {} /\ Answers(c)' = {}
    BY <1>0, <2>1, <2>2, <2>3 DEF Asks, Answers, Adds
  <2>5. SignInOrder(c)'
    BY <1>0, <1>6, <2>2, <2>3, <2>4 DEF SignInOrder, Asks, Answers
  <2>6. View(c)'
    BY <1>0, <1>1, <1>6, <2>5
       DEF View, Listening, MembershipKnown, ContentKnown, KnownAfter, Listed
  <2>7. \A d \in Clients : d # c => View(d)'
    BY <1>0, <1>6, <2>2, ViewUntouched DEF ViewInv
  <2> QED
    BY <2>6, <2>7 DEF ViewInv
<1> QED
  BY <1>2, <1>3, <1>4, <1>5, <1>6, CallbackKinds

\* The first message of c is handled and is no answer to AUTH.
LEMMA SignInTaken ==
    ASSUME NEW c, SignInOrder(c), Takes(in[c], in'[c]), in[c][1].type # "AUTH",
           phase'[c] = phase[c], out'[c] = out[c], online' = online
    PROVE  SignInOrder(c)'
<1>1. /\ DOMAIN in'[c] = 1 .. Len(in'[c]) /\ DOMAIN in[c] = 1 .. Len(in[c])
      /\ Len(in[c]) \in Nat \ {0} /\ Len(in'[c]) = Len(in[c]) - 1
      /\ \A k \in DOMAIN in'[c] : in'[c][k] = in[c][k + 1]
  BY DEF Takes
<1>2. \A k \in DOMAIN in'[c] : k \in Int /\ k + 1 \in DOMAIN in[c]
  BY <1>1
<1>3. \A k \in DOMAIN in[c] : k # 1 => k - 1 \in DOMAIN in'[c] /\ (k - 1) + 1 = k
  BY <1>1
<1>4. Answers(c) = {} => Answers(c)' = {}
  BY <1>1, <1>2 DEF Answers
<1>5. ASSUME NEW k \in DOMAIN in[c], Answers(c) = {k}
      PROVE  \E i \in DOMAIN in'[c] : Answers(c)' = {i}
  <2>1. in[c][k].type = "AUTH" /\ k # 1
    BY <1>5 DEF Answers
  <2>2. k - 1 \in DOMAIN in'[c] /\ in'[c][k - 1].type = "AUTH"
    BY <1>1, <1>3, <2>1
  <2>3. ASSUME NEW i \in DOMAIN in'[c], in'[c][i].type = "AUTH"
        PROVE  i = k - 1
    <3>1. i + 1 \in Answers(c)
      BY <1>1, <1>2, <2>3 DEF Answers
    <3>2. i + 1 = k
      BY <1>5, <3>1
    <3> QED
      BY <1>2, <3>2
  <2>4. Answers(c)' = {k - 1}
    BY <2>2, <2>3 DEF Answers
  <2> QED
    BY <2>2, <2>4
<1>6. \A type : Asks(c, type)' = Asks(c, type)
  BY DEF Asks
<1>7. Asks(c, "AUTH")' = Asks(c, "AUTH") /\ Asks(c, "LOGOUT")' = Asks(c, "LOGOUT")
  BY DEF Asks
<1>8. phase[c] = "login" => Asks(c, "AUTH")' = {} /\ Answers(c)' = {}
  BY <1>4, <1>7, SignInIs
<1>9. phase[c] = "waiting" =>
          \/ Asks(c, "AUTH")' = {Len(out[c])} /\ Answers(c)' = {}
          \/ out[c] = <<>> /\ c \in online /\ \E i \in DOMAIN in'[c] : Answers(c)' = {i}
  BY <1>4, <1>5, <1>7, SignInIs
<1>10. phase[c] \in {"building", "online"} =>
          /\ Asks(c, "AUTH")' = {} /\ Asks(c, "LOGOUT")' = {} /\ Answers(c)' = {}
          /\ c \in online
  BY <1>4, <1>7, SignInIs
<1> QED
  BY <1>8, <1>9, <1>10 DEF SignInOrder, Asks, Answers

\* The list of rooms changes as the first message says.
LEMMA ViewTaken ==
    ASSUME TypeOK, NEW c \in Clients, View(c), SignInOrder(c)', Takes(in[c], in'[c]),
           rows' = rows, exposed \subseteq exposed', Listening(c)' => Listening(c),
           Listening(c)' /\ c \notin exposed' =>
               \A r \in RoomIds : r \in Listed(c)' <=>
                   Gets(in[c][1], c, r) \/ (r \in Listed(c) /\ ~Loses(in[c][1], c, r))
    PROVE  View(c)'
<1> SUFFICES ASSUME Listening(c)', c \notin exposed'
             PROVE  MembershipKnown(c)' /\ ContentKnown(c)'
  BY DEF View
<1>0. MembershipKnown(c) /\ ContentKnown(c)
  BY DEF View
<1> DEFINE base == Listed(c)
           rest == Listed(c)'
<1>1. /\ DOMAIN in'[c] = 1 .. Len(in'[c]) /\ DOMAIN in[c] = 1 .. Len(in[c])
      /\ Len(in[c]) \in Nat /\ Len(in'[c]) \in Nat /\ Len(in'[c]) + 1 = Len(in[c])
      /\ \A k \in DOMAIN in'[c] : in'[c][k] = in[c][k + 1]
  BY DEF Takes
<1>2. \A r, k : KnownAfter(c, r, k) <=> KnownIn(base, in[c], c, r, k)
  BY KnownAfterIs
<1>3. \A r, k : KnownAfter(c, r, k)' <=> KnownIn(rest, in'[c], c, r, k)
  BY DEF KnownAfter, KnownIn
<1> HIDE DEF base, rest
<1>4. \A r \in RoomIds : r \in rest <=>
          Gets(in[c][1], c, r) \/ (r \in base /\ ~Loses(in[c][1], c, r))
  BY DEF base, rest
<1>5. \A r \in RoomIds : \A k \in 0 .. Len(in'[c]) :
          KnownIn(rest, in'[c], c, r, k) <=> KnownIn(base, in[c], c, r, k + 1)
  BY <1>4, KnownTaken
<1>6. MembershipKnown(c)'
  <2>1. Len(in'[c]) \in 0 .. Len(in'[c])
    BY <1>1
  <2>2. \A r \in RoomIds : KnownIn(rest, in'[c], c, r, Len(in'[c])) <=> rows[c][r] > 0
    BY <1>0, <1>1, <1>2, <1>5, <2>1 DEF MembershipKnown
  <2> QED
    BY <1>3, <2>2 DEF MembershipKnown
<1>7. ASSUME NEW k \in DOMAIN in'[c], IsOfKnownRoom(in'[c][k])
      PROVE  \/ KnownIn(rest, in'[c], c, in'[c][k].room, k - 1)
             \/ \E j \in DOMAIN in'[c] : j > k /\ in'[c][j].type = "AUTH"
  <2>1. k + 1 \in DOMAIN in[c] /\ in'[c][k] = in[c][k + 1] /\ k \in Nat
    BY <1>1
  <2>2. in[c][k + 1] \in Reply
    BY <2>1 DEF TypeOK
  <2>3. in[c][k + 1].room \in RoomIds
    BY <1>7, <2>1, <2>2, ReplyFacts DEF IsOfKnownRoom
  <2>4. \/ KnownAfter(c, in[c][k + 1].room, (k + 1) - 1)
        \/ \E j \in DOMAIN in[c] : j > k + 1 /\ in[c][j].type = "AUTH"
    BY <1>0, <1>7, <2>1 DEF ContentKnown
  <2>5. CASE KnownAfter(c, in[c][k + 1].room, (k + 1) - 1)
    <3>1. k - 1 \in 0 .. Len(in'[c]) /\ (k - 1) + 1 = (k + 1) - 1
      BY <1>1, <2>1
    <3>2. KnownIn(base, in[c], c, in[c][k + 1].room, (k - 1) + 1)
      BY <1>2, <2>5, <3>1
    <3> QED
      BY <1>5, <2>1, <2>3, <3>1, <3>2
  <2>6. CASE \E j \in DOMAIN in[c] : j > k + 1 /\ in[c][j].type = "AUTH"
    <3>1. PICK j \in DOMAIN in[c] : j > k + 1 /\ in[c][j].type = "AUTH"
      BY <2>6
    <3>2. j - 1 \in DOMAIN in'[c] /\ j - 1 > k /\ (j - 1) + 1 = j
      BY <1>1, <2>1, <3>1
    <3>3. in'[c][j - 1].type = "AUTH"
      BY <1>1, <3>1, <3>2
    <3> QED
      BY <3>2, <3>3
  <2> QED
    BY <2>4, <2>5, <2>6
<1>8. ContentKnown(c)'
  BY <1>3, <1>7 DEF ContentKnown
<1> QED
  BY <1>6, <1>8

\* What a handler of the input thread does to the list of rooms.
LEMMA InputKinds ==
    ASSUME TypeOK, NEW c \in Clients, ProcessInput(c)
    PROVE  /\ UNCHANGED <<rows, online, out>> /\ exposed \subseteq exposed'
           /\ Takes(in[c], in'[c]) /\ in[c][1] \in Reply
           /\ \A d \in Clients : d # c => /\ in'[d] = in[d] /\ phase'[d] = phase[d]
                                          /\ known'[d] = known[d] /\ snap'[d] = snap[d]
           /\ \/ /\ in[c][1].type = "AUTH" /\ phase[c] = "waiting" /\ phase'[c] = "building"
                 /\ snap'[c].rooms = in[c][1].rooms
              \/ phase'[c] = "crashed"
              \/ /\ in[c][1].type # "AUTH" /\ phase' = phase /\ snap' = snap
                 /\ known' = known /\ c \in exposed'
              \/ /\ in[c][1].type # "AUTH" /\ phase' = phase /\ phase[c] = "online"
                 /\ \A r \in RoomIds : r \in known'[c] <=>
                        Gets(in[c][1], c, r) \/ (r \in known[c] /\ ~Loses(in[c][1], c, r))
<1> DEFINE m == Head(in[c])
<1>0. /\ known \in [Clients -> SUBSET RoomIds] /\ phase \in [Clients -> Phases]
      /\ snap \in [Clients -> [rooms : SUBSET RoomIds, shown : History]]
  BY DEF TypeOK
<1>1. UNCHANGED <<rows, online, out>> /\ exposed \subseteq exposed'
  BY DEF ProcessInput, InputAuthentification, InputMessage, EditMessageClient,
         DeleteMessageClient, LoadHistoryClient, JoinRoomClient, LeaveRoomClient,
         DirectMessageClient, SearchAllClient, ReceiveWithoutWindow, clientRest, tables
<1>2. PICK types : Receive(c, types)
  BY DEF ProcessInput, InputAuthentification, InputMessage, EditMessageClient,
         DeleteMessageClient, LoadHistoryClient, JoinRoomClient, LeaveRoomClient,
         DirectMessageClient, SearchAllClient, ReceiveWithoutWindow, ReceiveOnline
<1>3. /\ Takes(in[c], in'[c]) /\ m = in[c][1] /\ m \in Reply
      /\ \A d \in Clients : d # c => in'[d] = in[d]
  BY <1>2, ReceiveFacts
<1>4. CASE InputAuthentification(c)
  <2>1. m.type = "AUTH"
    BY <1>4, ReceiveFacts DEF InputAuthentification
  <2>2. /\ phase[c] = "waiting" /\ phase' = [phase EXCEPT ![c] = "building"] /\ known' = known
        /\ snap' = [snap EXCEPT ![c] = [rooms |-> m.rooms, shown |-> m.shown]]
    BY <1>4 DEF InputAuthentification, lists
  <2> HIDE DEF m
  <2>3. /\ phase'[c] = "building" /\ snap'[c].rooms = m.rooms
        /\ \A d \in Clients : d # c => phase'[d] = phase[d] /\ snap'[d] = snap[d]
    BY <1>0, <2>2
  <2> QED
    BY <1>1, <1>3, <2>1, <2>2, <2>3
<1>5. ASSUME Crash(c), snap' = snap
      PROVE  /\ phase'[c] = "crashed" /\ known' = known /\ snap' = snap
             /\ \A d \in Clients : d # c => phase'[d] = phase[d]
  BY <1>0, <1>5 DEF Crash, lists
<1>6. ASSUME phase' = phase, snap' = snap, phase[c] = "online", m.type # "AUTH",
             \/ known' = known
             \/ known' = [known EXCEPT ![c] = @ \cup {m.room}]
             \/ known' = [known EXCEPT ![c] = @ \ {m.room}],
             \A r \in RoomIds : r \in known'[c] <=>
                   Gets(m, c, r) \/ (r \in known[c] /\ ~Loses(m, c, r))
      PROVE  /\ \A d \in Clients : d # c => known'[d] = known[d]
             /\ m.type # "AUTH" /\ phase' = phase /\ snap' = snap /\ phase[c] = "online"
             /\ \A r \in RoomIds : r \in known'[c] <=>
                    Gets(m, c, r) \/ (r \in known[c] /\ ~Loses(m, c, r))
  BY <1>0, <1>6
<1>7. CASE InputMessage(c) \/ EditMessageClient(c) \/ DeleteMessageClient(c)
           \/ LoadHistoryClient(c) \/ SearchAllClient(c)
  <2>1. phase[c] = "online" /\ m.type \in {"MSG", "EDIT", "DELETE", "LOAD_MORE", "SEARCH"}
    <3>1. /\ phase[c] = "online"
          /\ \E type \in {"MSG", "EDIT", "DELETE", "LOAD_MORE", "SEARCH"} : Receive(c, {type})
      BY <1>7 DEF InputMessage, EditMessageClient, DeleteMessageClient, LoadHistoryClient,
                  SearchAllClient, ReceiveOnline
    <3>2. PICK type \in {"MSG", "EDIT", "DELETE", "LOAD_MORE", "SEARCH"} : Receive(c, {type})
      BY <3>1
    <3>3. m.type \in {type}
      BY <3>2, ReceiveFacts
    <3> QED
      BY <3>1, <3>3
  <2>2. \A r : ~Gets(m, c, r) /\ ~Loses(m, c, r)
    BY <1>3, <2>1, NoRoomChange
  <2>3. snap' = snap /\ (Crash(c) \/ (phase' = phase /\ known' = known))
    BY <1>7 DEF InputMessage, EditMessageClient, DeleteMessageClient, LoadHistoryClient,
                SearchAllClient, SetShown, lists, clientRest
  <2> HIDE DEF m
  <2>4. CASE Crash(c)
    BY <1>1, <1>3, <1>5, <2>3, <2>4
  <2>5. CASE phase' = phase /\ known' = known
    <3>1. m.type # "AUTH"
      BY <2>1
    <3>2. \A r \in RoomIds : r \in known'[c] <=>
              Gets(m, c, r) \/ (r \in known[c] /\ ~Loses(m, c, r))
      BY <2>2, <2>5
    <3> QED
      BY <1>1, <1>3, <2>1, <2>3, <2>5, <3>1, <3>2
  <2> QED
    BY <2>3, <2>4, <2>5
<1>8. CASE JoinRoomClient(c)
  <2>1. phase[c] = "online" /\ m.type \in {"JOIN", "CREATE"}
    BY <1>8, ReceiveFacts DEF JoinRoomClient, ReceiveOnline
  <2>2. /\ snap' = snap /\ phase' = phase
        /\ known' = IF m.user = c /\ m.room \notin known[c]
                    THEN [known EXCEPT ![c] = @ \cup {m.room}] ELSE known
    BY <1>8 DEF JoinRoomClient, AddRoom, lists, clientRest
  <2> HIDE DEF m
  <2>3. \A r : (Gets(m, c, r) <=> m.room = r /\ m.user = c) /\ ~Loses(m, c, r)
    BY <2>1 DEF Gets, Loses
  <2>4. known'[c] = IF m.user = c THEN known[c] \cup {m.room} ELSE known[c]
    BY <1>0, <2>2
  <2>5. \A r \in RoomIds : r \in known'[c] <=>
            Gets(m, c, r) \/ (r \in known[c] /\ ~Loses(m, c, r))
    BY <2>3, <2>4
  <2> QED
    BY <1>1, <1>3, <1>6, <2>1, <2>2, <2>5
<1>9. CASE LeaveRoomClient(c)
  <2>1. phase[c] = "online" /\ m.type = "LEAVE"
    BY <1>9, ReceiveFacts DEF LeaveRoomClient, ReceiveOnline
  <2>2. /\ snap' = snap /\ phase' = phase
        /\ known' = IF m.user = c THEN [known EXCEPT ![c] = @ \ {m.room}] ELSE known
    BY <1>9 DEF LeaveRoomClient, lists, clientRest
  <2> HIDE DEF m
  <2>3. \A r : ~Gets(m, c, r) /\ (Loses(m, c, r) <=> m.room = r /\ m.user = c)
    BY <2>1 DEF Gets, Loses
  <2>4. known'[c] = IF m.user = c THEN known[c] \ {m.room} ELSE known[c]
    BY <1>0, <2>2
  <2>5. \A r \in RoomIds : r \in known'[c] <=>
            Gets(m, c, r) \/ (r \in known[c] /\ ~Loses(m, c, r))
    BY <2>3, <2>4
  <2> QED
    BY <1>1, <1>3, <1>6, <2>1, <2>2, <2>5
<1>10. CASE DirectMessageClient(c)
  <2>1. phase[c] = "online" /\ m.type = "DIRECT"
    BY <1>10, ReceiveFacts DEF DirectMessageClient, ReceiveOnline
  <2>2. /\ snap' = snap /\ phase' = phase
        /\ known' = IF ~m.exist /\ m.room \notin known[c]
                    THEN [known EXCEPT ![c] = @ \cup {m.room}] ELSE known
    BY <1>10 DEF DirectMessageClient, AddRoom, lists, clientRest
  <2> HIDE DEF m
  <2>3. \A r : (Gets(m, c, r) <=> m.room = r /\ ~m.exist) /\ ~Loses(m, c, r)
    BY <2>1 DEF Gets, Loses
  <2>4. known'[c] = IF ~m.exist THEN known[c] \cup {m.room} ELSE known[c]
    BY <1>0, <2>2
  <2>5. \A r \in RoomIds : r \in known'[c] <=>
            Gets(m, c, r) \/ (r \in known[c] /\ ~Loses(m, c, r))
    BY <2>3, <2>4
  <2> QED
    BY <1>1, <1>3, <1>6, <2>1, <2>2, <2>5
<1>11. CASE ReceiveWithoutWindow(c)
  <2>1. m.type # "AUTH"
    BY <1>11, ReceiveFacts DEF ReceiveWithoutWindow
  <2>2. snap' = snap /\ c \in exposed' /\ (Crash(c) \/ (phase' = phase /\ known' = known))
    BY <1>11 DEF ReceiveWithoutWindow, clientRest, lists
  <2> HIDE DEF m
  <2> QED
    BY <1>1, <1>3, <1>5, <2>1, <2>2
<1> QED
  BY <1>4, <1>7, <1>8, <1>9, <1>10, <1>11 DEF ProcessInput

LEMMA ViewInputStep ==
    ASSUME TypeOK, ViewInv, NEW c \in Clients, ProcessInput(c)
    PROVE  ViewInv'
<1>0. /\ UNCHANGED <<rows, online, out>> /\ exposed \subseteq exposed'
      /\ Takes(in[c], in'[c]) /\ in[c][1] \in Reply
      /\ DOMAIN in[c] = 1 .. Len(in[c]) /\ 1 \in DOMAIN in[c]
  BY InputKinds DEF Takes
<1>1. \A d \in Clients : d # c => View(d)'
  BY <1>0, InputKinds, ViewUntouched DEF ViewInv
<1>2. View(c) /\ SignInOrder(c)
  BY DEF ViewInv, View
<1>3. CASE /\ in[c][1].type = "AUTH" /\ phase[c] = "waiting" /\ phase'[c] = "building"
           /\ snap'[c].rooms = in[c][1].rooms
  <2>1. 1 \in Answers(c)
    BY <1>0, <1>3 DEF Answers
  <2>2. out[c] = <<>> /\ c \in online /\ \E k \in DOMAIN in[c] : Answers(c) = {k}
    BY <1>2, <1>3, <2>1, SignInIs
  <2>3. Answers(c) = {1}
    BY <2>1, <2>2
  <2>4. \A k \in DOMAIN in'[c] : in'[c][k].type # "AUTH"
    <3> SUFFICES ASSUME NEW k \in DOMAIN in'[c], in'[c][k].type = "AUTH"
                 PROVE  FALSE
      OBVIOUS
    <3>1. k + 1 \in DOMAIN in[c] /\ k + 1 # 1 /\ in'[c][k] = in[c][k + 1]
      BY <1>0 DEF Takes
    <3> QED
      BY <2>3, <3>1 DEF Answers
  <2>5. Answers(c)' = {} /\ \A type : Asks(c, type)' = {}
    BY <1>0, <2>2, <2>4 DEF Answers, Asks
  <2>6. Asks(c, "AUTH")' = {} /\ Asks(c, "LOGOUT")' = {} /\ c \in online'
    BY <1>0, <2>2 DEF Asks
  <2>7. SignInOrder(c)'
    BY <1>3, <2>5, <2>6 DEF SignInOrder, Answers, Asks
  <2>8. Listening(c)
    BY <1>0, <1>3 DEF Listening
  <2>9. Listed(c)' = in[c][1].rooms
    BY <1>3 DEF Listed
  <2>10. \A r \in RoomIds : r \in Listed(c)' <=>
             Gets(in[c][1], c, r) \/ (r \in Listed(c) /\ ~Loses(in[c][1], c, r))
    BY <1>3, <2>9 DEF Gets, Loses
  <2>11. View(c)'
    BY <1>0, <1>2, <2>7, <2>8, <2>10, ViewTaken
  <2> QED
    BY <1>1, <2>11 DEF ViewInv
<1>4. CASE phase'[c] = "crashed"
  <2>1. View(c)'
    BY <1>4 DEF View, SignInOrder, Listening
  <2> QED
    BY <1>1, <2>1 DEF ViewInv
<1>5. CASE /\ in[c][1].type # "AUTH" /\ phase' = phase /\ snap' = snap
           /\ known' = known /\ c \in exposed'
  <2>1. SignInOrder(c)'
    BY <1>0, <1>2, <1>5, SignInTaken
  <2>2. View(c)'
    BY <1>5, <2>1 DEF View
  <2> QED
    BY <1>1, <2>2 DEF ViewInv
<1>6. CASE /\ in[c][1].type # "AUTH" /\ phase' = phase /\ phase[c] = "online"
           /\ \A r \in RoomIds : r \in known'[c] <=>
                  Gets(in[c][1], c, r) \/ (r \in known[c] /\ ~Loses(in[c][1], c, r))
  <2>1. SignInOrder(c)'
    BY <1>0, <1>2, <1>6, SignInTaken
  <2>2. Listening(c) /\ Listed(c) = known[c] /\ Listed(c)' = known'[c]
    BY <1>6 DEF Listening, Listed
  <2>3. View(c)'
    BY <1>0, <1>2, <1>6, <2>1, <2>2, ViewTaken
  <2> QED
    BY <1>1, <2>3 DEF ViewInv
<1> QED
  BY <1>3, <1>4, <1>5, <1>6, InputKinds

LEMMA ViewInit == Init => ViewInv
<1> SUFFICES ASSUME Init, NEW c \in Clients
             PROVE  View(c)
  BY DEF ViewInv
<1>1. phase[c] = "login" /\ in[c] = <<>> /\ out[c] = <<>>
  BY DEF Init
<1>2. DOMAIN in[c] = {} /\ DOMAIN out[c] = {}
  BY <1>1
<1>3. Asks(c, "AUTH") = {} /\ Answers(c) = {}
  BY <1>2 DEF Asks, Answers
<1> QED
  BY <1>1, <1>3 DEF View, SignInOrder, Listening, Asks, Answers

LEMMA ViewStep == RoomsInv /\ ViewInv /\ [Next]_vars => ViewInv'
<1> SUFFICES ASSUME RoomsInv, ViewInv, [Next]_vars
             PROVE  ViewInv'
  OBVIOUS
<1>0. TypeOK
  BY DEF RoomsInv
<1>1. CASE UNCHANGED vars
  <2>1. UNCHANGED <<phase, snap, known, in, out, online, exposed, rows>>
    BY <1>1 DEF vars, tables, lists
  <2> QED
    BY <2>1, ViewUntouched DEF ViewInv
<1>2. ASSUME NEW c \in Clients, Serve(c)
      PROVE  ViewInv'
  <2>1. CASE \/ Logout(c) \/ ProcessMessage(c) \/ EditMessage(c) \/ DeleteMessage(c)
             \/ LoadHistory(c) \/ SearchAll(c)
    BY <1>0, <2>1, ViewTalkStep
  <2>2. CASE JoinRoom(c) \/ CreateRoom(c) \/ LeaveRoom(c) \/ DirectMessage(c)
    BY <2>2, ViewMembersStep
  <2>3. CASE Authorization(c) \/ EndOfFile(c)
    BY <2>3, ViewSignInStep
  <2> QED
    BY <1>2, <2>1, <2>2, <2>3 DEF Serve
<1>3. ASSUME NEW c \in Clients, Callback(c) \/ ProcessInput(c)
      PROVE  ViewInv'
  BY <1>0, <1>3, ViewCallbackStep, ViewInputStep
<1> QED
  BY <1>1, <1>2, <1>3 DEF Next

LEMMA ViewInvariant == Spec => []ViewInv
BY ViewInit, ViewStep, RoomsInvariant, PTL DEF Spec

\* The room of every message the server broadcasts is in the list of rooms of a
\* signed-in client when its handler looks for it, whatever joins, leaves and
\* sign-ins of whichever users the message was sent between; excepted are clients
\* that met one of the races the handlers do not guard.
THEOREM RoomsMetKnown == Spec => []NoUnknownRoom
<1>1. ViewInv => NoUnknownRoom
  <2> SUFFICES ASSUME ViewInv, NEW c \in Clients, phase[c] \in {"building", "online"},
                      NEW k \in DOMAIN in[c], IsOfKnownRoom(in[c][k]), c \notin exposed
               PROVE  KnownAfter(c, in[c][k].room, k - 1)
    BY DEF NoUnknownRoom
  <2>1. View(c) /\ Listening(c)
    BY DEF ViewInv, Listening
  <2>2. ContentKnown(c) /\ SignInOrder(c)
    BY <2>1 DEF View
  <2>3. Answers(c) = {}
    BY <2>2, SignInIs
  <2> QED
    BY <2>2, <2>3 DEF ContentKnown, Answers
<1> QED
  BY <1>1, ViewInvariant, PTL

-----------------------------------------------------------------------------
\* What a client has of a room after each message of a list.

Had == [known : BOOLEAN, list : Seq(Entry)]

\* f holds what is had of r after each of the first n messages of s, v at first.
IsRun(f, v, s, c, r, n) ==
    f = [k \in 0 .. n |-> IF k = 0 THEN v ELSE Applied(f[k - 1], s[k], c, r)]

LEMMA RunExists ==
    ASSUME NEW s, Len(s) \in Nat, NEW v, NEW c, NEW r
    PROVE  IsRun(RunOf(v, s, c, r), v, s, c, r, Len(s))
<1> DEFINE T == {n \in 0 .. Len(s) : \E f : IsRun(f, v, s, c, r, n)}
<1>1. 0 \in T
  <2> DEFINE f == [k \in 0 .. 0 |-> v]
  <2>1. IsRun(f, v, s, c, r, 0)
    BY DEF IsRun
  <2> QED
    BY <2>1
<1>2. ASSUME NEW n \in 1 .. Len(s), n - 1 \in T
      PROVE  n \in T
  <2>1. PICK g : IsRun(g, v, s, c, r, n - 1)
    BY <1>2
  <2> DEFINE f == [k \in 0 .. n |-> IF k = n THEN Applied(g[n - 1], s[n], c, r) ELSE g[k]]
  <2>2. IsRun(f, v, s, c, r, n)
    BY <2>1 DEF IsRun
  <2> QED
    BY <2>2
<1> HIDE DEF T
<1>3. \A n \in 0 .. Len(s) : n \in T
  BY <1>1, <1>2, UpTo
<1>4. \E f : IsRun(f, v, s, c, r, Len(s))
  BY <1>3 DEF T
<1> QED
  BY <1>4 DEF IsRun, RunOf

LEMMA RunSteps ==
    ASSUME NEW s, Len(s) \in Nat, NEW v, NEW c, NEW r
    PROVE  /\ RunOf(v, s, c, r)[0] = v
           /\ \A k \in 1 .. Len(s) :
                  RunOf(v, s, c, r)[k] = Applied(RunOf(v, s, c, r)[k - 1], s[k], c, r)
<1> DEFINE f == RunOf(v, s, c, r)
<1>1. IsRun(f, v, s, c, r, Len(s))
  BY RunExists
<1> HIDE DEF f
<1>2. f[0] = v /\ \A k \in 1 .. Len(s) : f[k] = Applied(f[k - 1], s[k], c, r)
  BY <1>1 DEF IsRun
<1> QED
  BY <1>2 DEF f

\* A list with the same first messages.
LEMMA RunPrefix ==
    ASSUME NEW s, Len(s) \in Nat, NEW t, Len(t) \in Nat, Len(s) <= Len(t),
           \A k \in 1 .. Len(s) : t[k] = s[k], NEW v, NEW c, NEW r
    PROVE  \A k \in 0 .. Len(s) : RunOf(v, t, c, r)[k] = RunOf(v, s, c, r)[k]
<1> DEFINE f == RunOf(v, s, c, r)
           g == RunOf(v, t, c, r)
           T == {k \in 0 .. Len(s) : g[k] = f[k]}
<1>1. /\ f[0] = v /\ \A k \in 1 .. Len(s) : f[k] = Applied(f[k - 1], s[k], c, r)
      /\ g[0] = v /\ \A k \in 1 .. Len(t) : g[k] = Applied(g[k - 1], t[k], c, r)
  BY RunSteps
<1> HIDE DEF f, g
<1>2. 0 \in T
  BY <1>1
<1>3. ASSUME NEW k \in 1 .. Len(s), k - 1 \in T
      PROVE  k \in T
  <2>1. g[k - 1] = f[k - 1] /\ k \in 1 .. Len(t) /\ t[k] = s[k]
    BY <1>3
  <2> QED
    BY <1>1, <2>1
<1> HIDE DEF T
<1>4. \A k \in 0 .. Len(s) : k \in T
  BY <1>2, <1>3, UpTo
<1> QED
  BY <1>4 DEF T, f, g

\* The first message is taken.
LEMMA RunRest ==
    ASSUME NEW s, NEW t, Takes(s, t), NEW v, NEW c, NEW r
    PROVE  \A k \in 0 .. Len(t) :
               RunOf(Applied(v, s[1], c, r), t, c, r)[k] = RunOf(v, s, c, r)[k + 1]
<1> DEFINE w == Applied(v, s[1], c, r)
           f == RunOf(v, s, c, r)
           g == RunOf(w, t, c, r)
           T == {k \in 0 .. Len(t) : g[k] = f[k + 1]}
<1>0. /\ Len(s) \in Nat /\ Len(t) \in Nat /\ Len(s) = Len(t) + 1
      /\ \A k \in 1 .. Len(t) : t[k] = s[k + 1]
  BY DEF Takes
<1>1. /\ f[0] = v /\ \A k \in 1 .. Len(s) : f[k] = Applied(f[k - 1], s[k], c, r)
      /\ g[0] = w /\ \A k \in 1 .. Len(t) : g[k] = Applied(g[k - 1], t[k], c, r)
  BY <1>0, RunSteps
<1> HIDE DEF f, g
<1>2. 0 \in T
  <2>1. f[1] = Applied(f[1 - 1], s[1], c, r)
    BY <1>0, <1>1
  <2> QED
    BY <1>0, <1>1, <2>1
<1>3. ASSUME NEW k \in 1 .. Len(t), k - 1 \in T
      PROVE  k \in T
  <2>1. g[k - 1] = f[k] /\ k + 1 \in 1 .. Len(s) /\ (k + 1) - 1 = k /\ t[k] = s[k + 1]
    BY <1>0, <1>3
  <2>2. f[k + 1] = Applied(f[(k + 1) - 1], s[k + 1], c, r)
    BY <1>1, <2>1
  <2> QED
    BY <1>1, <2>1, <2>2
<1> HIDE DEF T
<1>4. \A k \in 0 .. Len(t) : k \in T
  BY <1>0, <1>2, <1>3, UpTo
<1> QED
  BY <1>4 DEF T, f, g

-----------------------------------------------------------------------------
\* Lists of messages.

LEMMA EntryFacts ==
    ASSUME NEW s \in Seq(Entry)
    PROVE  /\ DOMAIN s = 1 .. Len(s) /\ Len(s) \in Nat
           /\ \A i \in DOMAIN s : s[i] \in Entry /\ s[i].id \in MessageIds /\ s[i].id \in Nat
                                  /\ s[i].text \in Texts /\ s[i].gone \in BOOLEAN
           /\ s # <<>> => 1 \in DOMAIN s
<1>1. \A i \in DOMAIN s : s[i] \in Entry
  OBVIOUS
<1>2. MessageIds \subseteq Nat
  BY DEF MessageIds
<1>3. DOMAIN s = 1 .. Len(s) /\ Len(s) \in Nat /\ (s # <<>> => 1 \in DOMAIN s)
  OBVIOUS
<1> QED
  BY <1>1, <1>2, <1>3 DEF Entry

\* A message has one place in a list that is in order.
LEMMA PlaceInOrder ==
    ASSUME NEW s \in Seq(Entry), InOrder(s), NEW i \in DOMAIN s
    PROVE  Places(s, s[i].id) = {i} /\ First(Places(s, s[i].id)) = i
<1>1. ASSUME NEW j \in DOMAIN s, s[j].id = s[i].id
      PROVE  j = i
  <2>1. i \in Nat /\ j \in Nat /\ s[i].id \in Nat /\ s[j].id \in Nat
    BY EntryFacts
  <2>2. ~(i < j) /\ ~(j < i)
    BY <1>1, <2>1 DEF InOrder
  <2> QED
    BY <2>1, <2>2
<1>2. Places(s, s[i].id) = {i}
  BY <1>1 DEF Places
<1>3. i \in Nat
  BY EntryFacts
<1>4. First({i}) = i
  <2>1. {i} \subseteq Nat /\ {i} # {}
    BY <1>3
  <2>2. First({i}) \in {i}
    BY <2>1, FirstFacts
  <2> QED
    BY <2>2
<1> QED
  BY <1>2, <1>4

\* The first message is the one with the least id.
LEMMA FirstIsLeast ==
    ASSUME NEW s \in Seq(Entry), InOrder(s), NEW i \in DOMAIN s
    PROVE  1 \in DOMAIN s /\ s[1].id <= s[i].id /\ (i # 1 => s[1].id < s[i].id)
<1>1. /\ i \in Nat /\ i > 0 /\ 1 \in DOMAIN s /\ s[1].id \in Nat /\ s[i].id \in Nat
  BY EntryFacts
<1>2. CASE i = 1
  BY <1>1, <1>2
<1>3. CASE i # 1
  <2>1. 1 < i
    BY <1>1, <1>3
  <2>2. s[1].id < s[i].id
    BY <1>1, <2>1 DEF InOrder
  <2> QED
    BY <1>1, <1>3, <2>2
<1> QED
  BY <1>2, <1>3

\* The text at i is changed.
Edited(s, i, text) == [s EXCEPT ![i].text = text]

LEMMA EditedFacts ==
    ASSUME NEW s \in Seq(Entry), NEW i \in DOMAIN s, NEW text \in Texts, NEW e,
           e = Edited(s, i, text)
    PROVE  /\ e \in Seq(Entry) /\ DOMAIN e = DOMAIN s /\ Len(e) = Len(s)
           /\ \A j \in DOMAIN s : /\ e[j].id = s[j].id /\ e[j].gone = s[j].gone
                                  /\ e[j].text = IF j = i THEN text ELSE s[j].text
<1> DEFINE new == [s[i] EXCEPT !.text = text]
<1>1. s[i] \in Entry
  OBVIOUS
<1>2. new \in Entry /\ new.id = s[i].id /\ new.gone = s[i].gone /\ new.text = text
  BY <1>1 DEF Entry
<1>3. e = [s EXCEPT ![i] = new]
  BY DEF Edited
<1> HIDE DEF new
<1>4. /\ e \in Seq(Entry) /\ Len(e) = Len(s) /\ DOMAIN e = DOMAIN s
      /\ \A j \in DOMAIN s : e[j] = IF j = i THEN new ELSE s[j]
  BY <1>2, <1>3, ListUpdate
<1> QED
  BY <1>2, <1>4

\* The message at i is destroyed: it is gone, or no longer there, and the first
\* one is.
IsPopped(p, s, id, i) ==
    /\ p \in Seq(Entry) /\ p # <<>> /\ p[1].id = s[1].id /\ InOrder(p)
    /\ \A k \in DOMAIN p :
          \/ p[k].id = id /\ p[k].gone
          \/ \E j \in DOMAIN s : j # i /\ p[k] = s[j]
    /\ \A j \in DOMAIN s : j # i => \E k \in DOMAIN p : p[k] = s[j]

LEMMA PoppedFacts ==
    ASSUME NEW s \in Seq(Entry), InOrder(s), NEW i \in DOMAIN s, NEW id, id = s[i].id,
           NEW p, p = Popped(s, id, i)
    PROVE  IsPopped(p, s, id, i)
<1> DEFINE e == [s[i] EXCEPT !.gone = TRUE]
           destroyed == [s EXCEPT ![i].gone = TRUE]
           later == Places(s, id) \ {1}
<1>0. /\ DOMAIN s = 1 .. Len(s) /\ Len(s) \in Nat /\ s[i] \in Entry /\ i \in Nat
      /\ 1 \in DOMAIN s /\ \A j \in DOMAIN s : s[j].id \in Nat
  BY EntryFacts
<1>1. e \in Entry /\ e.id = id /\ e.gone
  BY <1>0 DEF Entry
<1>2. destroyed = [s EXCEPT ![i] = e]
  OBVIOUS
<1>3. Places(s, id) = {i}
  BY PlaceInOrder
<1>4. p = IF later = {} THEN destroyed ELSE RemoveAt(destroyed, First(later))
  BY DEF Popped
<1> HIDE DEF destroyed, later
<1>5. /\ destroyed \in Seq(Entry) /\ Len(destroyed) = Len(s) /\ DOMAIN destroyed = DOMAIN s
      /\ \A j \in DOMAIN s : destroyed[j] = IF j = i THEN e ELSE s[j]
  <2> HIDE DEF e
  <2> QED
    BY <1>1, <1>2, ListUpdate
<1> HIDE DEF e
<1>6. CASE i = 1
  <2>1. later = {}
    BY <1>3, <1>6 DEF later
  <2>2. p = destroyed
    BY <1>4, <2>1
  <2>3. \A j \in DOMAIN s : p[j].id = s[j].id
    BY <1>1, <1>5, <2>2
  <2>4. InOrder(p)
    BY <1>5, <2>2, <2>3 DEF InOrder
  <2>5. p \in Seq(Entry) /\ p # <<>> /\ p[1].id = s[1].id
    BY <1>0, <1>5, <2>2, <2>3
  <2>6. \A k \in DOMAIN p : \/ p[k].id = id /\ p[k].gone
                            \/ \E j \in DOMAIN s : j # i /\ p[k] = s[j]
    BY <1>1, <1>5, <2>2
  <2>7. \A j \in DOMAIN s : j # i => \E k \in DOMAIN p : p[k] = s[j]
    BY <1>5, <2>2
  <2> QED
    BY <2>4, <2>5, <2>6, <2>7 DEF IsPopped
<1>7. CASE i # 1
  <2>1. later = {i} /\ First({i}) = i
    BY <1>3, <1>7, PlaceInOrder DEF later
  <2>2. p = RemoveAt(destroyed, i)
    BY <1>4, <2>1
  <2>3. i \in 1 .. Len(destroyed)
    BY <1>0, <1>5
  <2>4. /\ p \in Seq(Entry) /\ Len(p) = Len(s) - 1
        /\ \A j \in 1 .. Len(s) - 1 : p[j] = IF j < i THEN destroyed[j] ELSE destroyed[j + 1]
    BY <1>5, <2>2, <2>3, ListWithoutElement
  <2>5. DOMAIN p = 1 .. Len(s) - 1
    BY <2>4
  <2>6. ASSUME NEW k \in DOMAIN p
        PROVE  IF k < i THEN k \in DOMAIN s /\ p[k] = s[k]
                        ELSE k + 1 \in DOMAIN s /\ p[k] = s[k + 1]
    <3>0. k \in 1 .. Len(s) - 1 /\ k \in DOMAIN s /\ k + 1 \in DOMAIN s /\ k \in Nat
      BY <1>0, <2>5
    <3>1. p[k] = IF k < i THEN destroyed[k] ELSE destroyed[k + 1]
      BY <2>4, <3>0
    <3>2. k < i => k # i
      BY <1>0, <3>0
    <3>3. ~(k < i) => k + 1 # i
      BY <1>0, <3>0
    <3> QED
      BY <1>5, <3>0, <3>1, <3>2, <3>3
  <2>7. \A k \in DOMAIN p : \E j \in DOMAIN s : j # i /\ p[k] = s[j]
    <3> SUFFICES ASSUME NEW k \in DOMAIN p
                 PROVE  \E j \in DOMAIN s : j # i /\ p[k] = s[j]
      OBVIOUS
    <3>1. CASE k < i
      BY <1>0, <2>5, <2>6, <3>1
    <3>2. CASE ~(k < i)
      <4>1. k + 1 # i
        BY <1>0, <2>5, <3>2
      <4> QED
        BY <2>6, <3>2, <4>1
    <3> QED
      BY <3>1, <3>2
  <2>8. \A j \in DOMAIN s : j # i => \E k \in DOMAIN p : p[k] = s[j]
    <3> SUFFICES ASSUME NEW j \in DOMAIN s, j # i
                 PROVE  \E k \in DOMAIN p : p[k] = s[j]
      OBVIOUS
    <3>1. CASE j < i
      <4>1. j \in DOMAIN p
        BY <1>0, <2>5, <3>1
      <4> QED
        BY <2>6, <3>1, <4>1
    <3>2. CASE j > i
      <4>1. j - 1 \in DOMAIN p /\ ~(j - 1 < i) /\ (j - 1) + 1 = j
        BY <1>0, <2>5, <3>2
      <4>2. p[j - 1] = s[(j - 1) + 1]
        BY <2>6, <4>1
      <4> QED
        BY <4>1, <4>2
    <3> QED
      BY <1>0, <3>1, <3>2
  <2>9. InOrder(p)
    <3> SUFFICES ASSUME NEW j \in DOMAIN p, NEW k \in DOMAIN p, j < k
                 PROVE  p[j].id < p[k].id
      BY DEF InOrder
    <3> DEFINE at(n) == IF n < i THEN n ELSE n + 1
    <3>1. \A n \in DOMAIN p : at(n) \in DOMAIN s /\ p[n] = s[at(n)]
      BY <2>6
    <3>2. at(j) < at(k)
      BY <1>0, <2>5
    <3> HIDE DEF at
    <3> QED
      BY <3>1, <3>2 DEF InOrder
  <2>10. p # <<>> /\ p[1] = s[1]
    <3>1. 1 \in DOMAIN p /\ 1 < i
      BY <1>0, <1>7, <2>5
    <3> QED
      BY <2>4, <2>6, <3>1
  <2> QED
    BY <2>4, <2>7, <2>8, <2>9, <2>10 DEF IsPopped
<1> QED
  BY <1>6, <1>7

-----------------------------------------------------------------------------
\* Lists that agree with a table h of messages.

Stands(h, r, id) == id \in DOMAIN h /\ h[id].live /\ h[id].room = r

AgreesWith(h, r, s) ==
    /\ InOrder(s)
    /\ \A i \in DOMAIN s :
        /\ s[i].id \in DOMAIN h /\ h[s[i].id].room = r
        /\ s[i].gone <=> ~h[s[i].id].live
        /\ ~s[i].gone => s[i].text = h[s[i].id].text
    /\ \A id \in DOMAIN h :
        Stands(h, r, id) /\ (s # <<>> => id >= s[1].id) => \E i \in DOMAIN s : s[i].id = id

Due(n, h, r, v) ==
    /\ v.known <=> n > 0
    /\ IF v.known THEN AgreesWith(h, r, v.list) ELSE v.list = <<>>

LEMMA AgreesIs ==
    /\ \A r, s : Agrees(r, s) <=> AgreesWith(history, r, s)
    /\ \A r, s : Agrees(r, s)' <=> AgreesWith(history', r, s)
BY DEF Agrees, AgreesWith, IsOf, IsStored, Stands, Places

LEMMA DueIs ==
    /\ \A c, r, v : IsDue(c, r, v) <=> Due(rows[c][r], history, r, v)
    /\ \A c, r, v : IsDue(c, r, v)' <=> Due(rows'[c][r], history', r, v)
BY AgreesIs DEF IsDue, Due

\* A message of another room, or none, is changed.
LEMMA AgreesStill ==
    ASSUME NEW h, NEW g, NEW r, NEW s, AgreesWith(h, r, s),
           DOMAIN h \subseteq DOMAIN g,
           \A id \in DOMAIN h : /\ g[id].room = h[id].room
                                /\ h[id].room = r => g[id] = h[id],
           \A id \in DOMAIN g : id \notin DOMAIN h => g[id].room # r
    PROVE  AgreesWith(g, r, s)
<1>1. \A i \in DOMAIN s :
        /\ s[i].id \in DOMAIN g /\ g[s[i].id].room = r
        /\ s[i].gone <=> ~g[s[i].id].live
        /\ ~s[i].gone => s[i].text = g[s[i].id].text
  BY DEF AgreesWith
<1>2. \A id \in DOMAIN g : Stands(g, r, id) => Stands(h, r, id)
  BY DEF Stands
<1>3. \A id \in DOMAIN g :
        Stands(g, r, id) /\ (s # <<>> => id >= s[1].id) => \E i \in DOMAIN s : s[i].id = id
  BY <1>2 DEF AgreesWith, Stands
<1> QED
  BY <1>1, <1>3 DEF AgreesWith

\* A message is stored and shown last.
LEMMA AgreesAppended ==
    ASSUME NEW h \in Seq(Message), NEW r, NEW s \in Seq(Entry), AgreesWith(h, r, s),
           NEW msg \in Message, msg.room = r, msg.live,
           NEW e \in Entry, e.id = Len(h) + 1, e.text = msg.text, ~e.gone
    PROVE  AgreesWith(Append(h, msg), r, Append(s, e))
<1> DEFINE g == Append(h, msg)
           t == Append(s, e)
           n == Len(h) + 1
<1>1. /\ DOMAIN h = 1 .. Len(h) /\ Len(h) \in Nat /\ DOMAIN g = DOMAIN h \cup {n}
      /\ g[n] = msg /\ n \notin DOMAIN h
      /\ \A id \in DOMAIN h : g[id] = h[id] /\ id < n /\ id \in Nat
  OBVIOUS
<1>2. /\ DOMAIN s = 1 .. Len(s) /\ Len(s) \in Nat /\ DOMAIN t = DOMAIN s \cup {Len(s) + 1}
      /\ t[Len(s) + 1] = e /\ \A i \in DOMAIN s : t[i] = s[i] /\ i < Len(s) + 1
  OBVIOUS
<1> HIDE DEF g, t, n
<1>3. e.id = n
  BY DEF n
<1>4. InOrder(t)
  <2> SUFFICES ASSUME NEW i \in DOMAIN t, NEW j \in DOMAIN t, i < j
               PROVE  t[i].id < t[j].id
    BY DEF InOrder
  <2>1. CASE j \in DOMAIN s
    <3>1. i \in DOMAIN s
      BY <1>2, <2>1
    <3> QED
      BY <1>2, <2>1, <3>1 DEF AgreesWith, InOrder
  <2>2. CASE j = Len(s) + 1
    <3>1. i \in DOMAIN s
      BY <1>2, <2>2
    <3>2. s[i].id \in DOMAIN h
      BY <3>1 DEF AgreesWith
    <3> QED
      BY <1>1, <1>2, <1>3, <2>2, <3>1, <3>2
  <2> QED
    BY <1>2, <2>1, <2>2
<1>5. ASSUME NEW i \in DOMAIN t
      PROVE  /\ t[i].id \in DOMAIN g /\ g[t[i].id].room = r
             /\ t[i].gone <=> ~g[t[i].id].live
             /\ ~t[i].gone => t[i].text = g[t[i].id].text
  <2>1. CASE i \in DOMAIN s
    BY <1>1, <1>2, <2>1 DEF AgreesWith
  <2>2. CASE i = Len(s) + 1
    BY <1>1, <1>2, <1>3, <2>2
  <2> QED
    BY <1>2, <2>1, <2>2
<1>6. ASSUME NEW id \in DOMAIN g, Stands(g, r, id), t # <<>> => id >= t[1].id
      PROVE  \E i \in DOMAIN t : t[i].id = id
  <2>1. CASE id = n
    BY <1>2, <1>3, <2>1
  <2>2. CASE id \in DOMAIN h
    <3>1. Stands(h, r, id)
      BY <1>1, <1>6, <2>2 DEF Stands
    <3>2. s # <<>> => 1 \in DOMAIN s /\ t # <<>> /\ t[1] = s[1]
      <4>1. s # <<>> => 1 \in DOMAIN s
        BY EntryFacts
      <4>2. t # <<>>
        BY DEF t
      <4> QED
        BY <1>2, <4>1, <4>2
    <3>3. PICK i \in DOMAIN s : s[i].id = id
      BY <1>6, <2>2, <3>1, <3>2 DEF AgreesWith
    <3> QED
      BY <1>2, <3>3
  <2> QED
    BY <1>1, <2>1, <2>2
<1> QED
  BY <1>4, <1>5, <1>6 DEF AgreesWith, g, t

\* The text of a stored message is changed, in the table and in the list.
LEMMA AgreesEdited ==
    ASSUME NEW h \in Seq(Message), NEW r, NEW s \in Seq(Entry), AgreesWith(h, r, s),
           NEW id \in DOMAIN h, h[id].live, NEW text \in Texts, NEW g,
           DOMAIN g = DOMAIN h,
           \A k \in DOMAIN h : /\ g[k].room = h[k].room /\ g[k].live = h[k].live
                               /\ g[k].text = IF k = id THEN text ELSE h[k].text
    PROVE  /\ \A i \in DOMAIN s : s[i].id = id => AgreesWith(g, r, Edited(s, i, text))
           /\ id \notin {s[i].id : i \in DOMAIN s} => AgreesWith(g, r, s)
<1>0. InOrder(s)
  BY DEF AgreesWith
<1>1. ASSUME NEW i \in DOMAIN s, s[i].id = id
      PROVE  AgreesWith(g, r, Edited(s, i, text))
  <2>1. PICK e : e = Edited(s, i, text)
    OBVIOUS
  <2>2. /\ e \in Seq(Entry) /\ DOMAIN e = DOMAIN s /\ Len(e) = Len(s)
        /\ \A j \in DOMAIN s : /\ e[j].id = s[j].id /\ e[j].gone = s[j].gone
                               /\ e[j].text = IF j = i THEN text ELSE s[j].text
    BY <2>1, EditedFacts
  <2>3. \A j \in DOMAIN s : s[j].id = id => j = i
    <3>1. Places(s, id) = {i}
      BY <1>0, <1>1, PlaceInOrder
    <3> QED
      BY <3>1 DEF Places
  <2>4. InOrder(e)
    BY <1>0, <2>2 DEF InOrder
  <2>5. \A j \in DOMAIN e :
            /\ e[j].id \in DOMAIN g /\ g[e[j].id].room = r
            /\ e[j].gone <=> ~g[e[j].id].live
            /\ ~e[j].gone => e[j].text = g[e[j].id].text
    BY <1>1, <2>2, <2>3 DEF AgreesWith
  <2>6. \A k \in DOMAIN g : Stands(g, r, k) => Stands(h, r, k)
    BY DEF Stands
  <2>7. e # <<>> => s # <<>> /\ e[1].id = s[1].id
    BY <2>2, EntryFacts
  <2>8. ASSUME NEW k \in DOMAIN g, Stands(g, r, k), e # <<>> => k >= e[1].id
        PROVE  \E j \in DOMAIN e : e[j].id = k
    <3>1. s # <<>> => k >= s[1].id
      <4>1. s # <<>> => e # <<>>
        BY <2>2
      <4> QED
        BY <2>7, <2>8, <4>1
    <3>2. PICK j \in DOMAIN s : s[j].id = k
      BY <2>6, <2>8, <3>1 DEF AgreesWith
    <3> QED
      BY <2>2, <3>2
  <2> QED
    BY <2>1, <2>4, <2>5, <2>8 DEF AgreesWith
<1>2. ASSUME id \notin {s[i].id : i \in DOMAIN s}
      PROVE  AgreesWith(g, r, s)
  <2>1. \A j \in DOMAIN s :
            /\ s[j].id \in DOMAIN g /\ g[s[j].id].room = r
            /\ s[j].gone <=> ~g[s[j].id].live
            /\ ~s[j].gone => s[j].text = g[s[j].id].text
    <3> TAKE j \in DOMAIN s
    <3>1. s[j].id # id
      BY <1>2
    <3>2. /\ s[j].id \in DOMAIN h /\ h[s[j].id].room = r
          /\ s[j].gone <=> ~h[s[j].id].live
          /\ ~s[j].gone => s[j].text = h[s[j].id].text
      BY DEF AgreesWith
    <3> QED
      BY <3>1, <3>2
  <2>2. \A k \in DOMAIN g : Stands(g, r, k) => Stands(h, r, k)
    BY DEF Stands
  <2>3. \A k \in DOMAIN g : Stands(g, r, k) /\ (s # <<>> => k >= s[1].id) =>
            \E j \in DOMAIN s : s[j].id = k
    BY <2>2 DEF AgreesWith
  <2> QED
    BY <1>0, <2>1, <2>3 DEF AgreesWith
<1> QED
  BY <1>1, <1>2

\* A stored message is deleted, in the table and in the list.
LEMMA AgreesDeleted ==
    ASSUME NEW h \in Seq(Message), NEW r, NEW s \in Seq(Entry), AgreesWith(h, r, s),
           NEW id \in DOMAIN h, NEW g, DOMAIN g = DOMAIN h, ~g[id].live,
           \A k \in DOMAIN h : /\ g[k].room = h[k].room /\ g[k].text = h[k].text
                               /\ k # id => g[k].live = h[k].live
    PROVE  /\ \A i \in DOMAIN s : s[i].id = id => AgreesWith(g, r, Popped(s, id, i))
           /\ id \notin {s[i].id : i \in DOMAIN s} => AgreesWith(g, r, s)
<1>0. InOrder(s)
  BY DEF AgreesWith
<1>a. \A k \in DOMAIN g : Stands(g, r, k) => Stands(h, r, k) /\ k # id
  BY DEF Stands
<1>1. ASSUME NEW i \in DOMAIN s, s[i].id = id
      PROVE  AgreesWith(g, r, Popped(s, id, i))
  <2>1. PICK p : p = Popped(s, id, i)
    OBVIOUS
  <2>2. /\ p \in Seq(Entry) /\ p # <<>> /\ p[1].id = s[1].id /\ InOrder(p)
        /\ \A k \in DOMAIN p :
              \/ p[k].id = id /\ p[k].gone
              \/ \E j \in DOMAIN s : j # i /\ p[k] = s[j]
        /\ \A j \in DOMAIN s : j # i => \E k \in DOMAIN p : p[k] = s[j]
    <3>1. IsPopped(p, s, id, i)
      BY <1>0, <1>1, <2>1, PoppedFacts
    <3> QED
      BY <3>1 DEF IsPopped
  <2>3. \A j \in DOMAIN s : j # i => s[j].id # id
    <3>1. Places(s, id) = {i}
      BY <1>0, <1>1, PlaceInOrder
    <3> QED
      BY <3>1 DEF Places
  <2>4. ASSUME NEW k \in DOMAIN p
        PROVE  /\ p[k].id \in DOMAIN g /\ g[p[k].id].room = r
               /\ p[k].gone <=> ~g[p[k].id].live
               /\ ~p[k].gone => p[k].text = g[p[k].id].text
    <3>1. CASE p[k].id = id /\ p[k].gone
      BY <1>1, <3>1 DEF AgreesWith
    <3>2. CASE \E j \in DOMAIN s : j # i /\ p[k] = s[j]
      <4>1. PICK j \in DOMAIN s : j # i /\ p[k] = s[j]
        BY <3>2
      <4>2. s[j].id # id
        BY <2>3, <4>1
      <4>3. /\ s[j].id \in DOMAIN h /\ h[s[j].id].room = r
            /\ s[j].gone <=> ~h[s[j].id].live
            /\ ~s[j].gone => s[j].text = h[s[j].id].text
        BY <4>1 DEF AgreesWith
      <4>4. /\ g[s[j].id].room = h[s[j].id].room /\ g[s[j].id].text = h[s[j].id].text
            /\ g[s[j].id].live = h[s[j].id].live
        BY <4>2, <4>3
      <4>5. s[j].gone <=> ~g[s[j].id].live
        BY <4>3, <4>4
      <4> QED
        BY <4>1, <4>3, <4>4, <4>5
    <3> QED
      BY <1>1, <2>2, <3>1, <3>2
  <2>5. ASSUME NEW k \in DOMAIN g, Stands(g, r, k), p # <<>> => k >= p[1].id
        PROVE  \E j \in DOMAIN p : p[j].id = k
    <3>1. PICK j \in DOMAIN s : s[j].id = k
      BY <1>a, <2>2, <2>5 DEF AgreesWith
    <3>2. j # i
      BY <1>1, <1>a, <2>5, <3>1
    <3> QED
      BY <2>2, <3>1, <3>2
  <2> QED
    BY <1>1, <2>1, <2>2, <2>4, <2>5 DEF AgreesWith
<1>2. ASSUME id \notin {s[i].id : i \in DOMAIN s}
      PROVE  AgreesWith(g, r, s)
  <2>1. \A j \in DOMAIN s :
            /\ s[j].id \in DOMAIN g /\ g[s[j].id].room = r
            /\ s[j].gone <=> ~g[s[j].id].live
            /\ ~s[j].gone => s[j].text = g[s[j].id].text
    BY <1>2 DEF AgreesWith
  <2>3. \A k \in DOMAIN g : Stands(g, r, k) /\ (s # <<>> => k >= s[1].id) =>
            \E j \in DOMAIN s : s[j].id = k
    BY <1>a DEF AgreesWith
  <2> QED
    BY <1>0, <2>1, <2>3 DEF AgreesWith
<1> QED
  BY <1>1, <1>2

\* What the server sends of a room: the last rows with an id less than below.
AreRows(t, r, below) ==
    /\ t \in Seq(Entry) /\ InOrder(t)
    /\ \A i \in DOMAIN t : /\ Stands(history, r, t[i].id) /\ t[i].id < below
                            /\ ~t[i].gone /\ t[i].text = history[t[i].id].text
    /\ \A id \in DOMAIN history :
          Stands(history, r, id) /\ id < below /\ t # <<>> /\ id >= t[1].id =>
              \E i \in DOMAIN t : t[i].id = id

LEMMA LastRows ==
    ASSUME TypeOK, NEW r, NEW below, NEW n \in Nat
    PROVE  /\ AreRows(LastOf(Stored(r, below), n), r, below)
           /\ n > 0 /\ LastOf(Stored(r, below), n) = <<>> =>
                 \A id \in DOMAIN history : ~(Stands(history, r, id) /\ id < below)
<1>1. PICK s : s = Stored(r, below)
  OBVIOUS
<1>2. history \in Seq(Message) /\ Len(history) <= MaxMessages
  BY DEF TypeOK
<1>a. Len(history) \in Nat /\ DOMAIN history = 1 .. Len(history)
  BY <1>2
<1>3. ListsRows(s, r, below, Len(history))
  BY <1>1, <1>2, StoredFacts
<1>4. /\ s \in Seq(Entry)
      /\ \A k \in DOMAIN s : /\ s[k].id \in DOMAIN history
                              /\ Stands(history, r, s[k].id) /\ s[k].id < below
                              /\ ~s[k].gone /\ s[k].text = history[s[k].id].text
      /\ InOrder(s)
      /\ \A id \in DOMAIN history : Stands(history, r, id) /\ id < below =>
             \E k \in DOMAIN s : s[k].id = id
  <2>1. \A k \in DOMAIN s : s[k] = Row(s[k].id) /\ s[k].id \in DOMAIN history
                            /\ IsStored(r, s[k].id) /\ s[k].id < below
    BY <1>3, <1>a DEF ListsRows
  <2>2. \A i : Row(i).gone = FALSE /\ Row(i).text = history[i].text
    BY DEF Row
  <2>3. \A k \in DOMAIN s : ~s[k].gone /\ s[k].text = history[s[k].id].text
    BY <2>1, <2>2
  <2> QED
    BY <1>a, <1>3, <2>1, <2>3 DEF ListsRows, InOrder, Stands, IsStored
<1>b. s \in Seq(Entry)
  BY <1>4
<1> HIDE <1>3
<1>5. PICK t : t = LastOf(s, n)
  OBVIOUS
<1>6. PICK d \in 0 .. Len(s) :
          /\ t \in Seq(Entry) /\ Len(t) = Len(s) - d
          /\ \A k \in 1 .. Len(s) - d : t[k] = s[k + d]
          /\ n > 0 /\ s # <<>> => t # <<>>
  BY <1>5, <1>b, LastOfFacts
<1>7. /\ DOMAIN s = 1 .. Len(s) /\ Len(s) \in Nat /\ d \in Nat /\ DOMAIN t = 1 .. Len(s) - d
      /\ \A k \in DOMAIN s : s[k].id \in Nat
  BY <1>4, <1>6, EntryFacts
<1>8. \A k \in DOMAIN t : k + d \in DOMAIN s /\ t[k] = s[k + d] /\ k \in Nat
  BY <1>6, <1>7
<1>9. InOrder(t)
  <2>1. \A j, k \in DOMAIN t : j < k => j + d < k + d
    BY <1>7, <1>8
  <2> QED
    BY <1>4, <1>8, <2>1 DEF InOrder
<1>10. ASSUME NEW id \in DOMAIN history, Stands(history, r, id), id < below,
              t # <<>>, id >= t[1].id
       PROVE  \E i \in DOMAIN t : t[i].id = id
  <2>1. PICK k \in DOMAIN s : s[k].id = id
    BY <1>4, <1>10
  <2>2. 1 \in DOMAIN t /\ 1 + d \in DOMAIN s /\ t[1] = s[1 + d]
    <3>1. 1 \in DOMAIN t
      BY <1>6, <1>10, EntryFacts
    <3> QED
      BY <1>8, <3>1
  <2>3. ~(k < 1 + d)
    <3>1. k < 1 + d => s[k].id < s[1 + d].id
      BY <1>4, <2>1, <2>2 DEF InOrder
    <3>2. s[k].id \in Nat /\ s[1 + d].id \in Nat /\ s[k].id >= s[1 + d].id
      BY <1>7, <1>10, <2>1, <2>2
    <3> QED
      BY <3>1, <3>2
  <2>4. k - d \in DOMAIN t /\ (k - d) + d = k
    BY <1>7, <2>1, <2>3
  <2> QED
    BY <1>8, <2>1, <2>4
<1>11. AreRows(t, r, below)
  BY <1>4, <1>6, <1>8, <1>9, <1>10 DEF AreRows
<1>12. n > 0 /\ t = <<>> =>
           \A id \in DOMAIN history : ~(Stands(history, r, id) /\ id < below)
  <2>1. n > 0 /\ t = <<>> => s = <<>>
    BY <1>6
  <2>2. s = <<>> => \A k \in DOMAIN s : FALSE
    OBVIOUS
  <2> QED
    BY <1>4, <2>1, <2>2
<1> QED
  BY <1>1, <1>5, <1>11, <1>12

\* mx_authorization and mx_join_room: the last messages.
LEMMA LatestAgrees ==
    ASSUME TypeOK, NEW r
    PROVE  AgreesWith(history, r, Latest(r, Recent))
<1>1. PICK below : below = Len(history) + 1
  OBVIOUS
<1>2. PICK t : t = LastOf(Stored(r, below), Recent)
  OBVIOUS
<1>3. Recent \in Nat /\ Recent > 0
  BY Constants DEF RoomsConstants
<1>4. AreRows(t, r, below)
  BY <1>2, <1>3, LastRows
<1>5. t = <<>> => \A id \in DOMAIN history : ~(Stands(history, r, id) /\ id < below)
  BY <1>2, <1>3, LastRows
<1>6. \A id \in DOMAIN history : id < below
  <2>1. Len(history) \in Nat /\ DOMAIN history = 1 .. Len(history)
    BY DEF TypeOK
  <2> QED
    BY <1>1, <2>1
<1>7. \A id \in DOMAIN history :
        Stands(history, r, id) /\ (t # <<>> => id >= t[1].id) => \E i \in DOMAIN t : t[i].id = id
  BY <1>4, <1>5, <1>6 DEF AreRows
<1>8. AgreesWith(history, r, t)
  BY <1>4, <1>7 DEF AreRows, AgreesWith, Stands
<1> QED
  BY <1>1, <1>2, <1>8 DEF Latest

\* mx_load_history: what comes before the first message.
LEMMA OlderAgrees ==
    ASSUME TypeOK, NEW r, NEW s \in Seq(Entry), s # <<>>, AgreesWith(history, r, s),
           NEW t, AreRows(t, r, s[1].id)
    PROVE  AgreesWith(history, r, t \o s)
<1>1. /\ t \in Seq(Entry) /\ DOMAIN t = 1 .. Len(t) /\ Len(t) \in Nat
      /\ DOMAIN s = 1 .. Len(s) /\ Len(s) \in Nat /\ 1 \in DOMAIN s
      /\ \A i \in DOMAIN s : s[i].id \in Nat
      /\ \A i \in DOMAIN t : t[i].id \in Nat
  BY EntryFacts DEF AreRows
<1>2. PICK x : x = t \o s
  OBVIOUS
<1>3. /\ x \in Seq(Entry) /\ DOMAIN x = 1 .. Len(t) + Len(s)
      /\ \A k \in DOMAIN x : x[k] = IF k <= Len(t) THEN t[k] ELSE s[k - Len(t)]
  BY <1>1, <1>2, ConcatProperties
<1>n. \A k \in DOMAIN x : k \in Nat /\ k > 0
  BY <1>1, <1>3
<1>a. \A k \in DOMAIN x : k <= Len(t) => k \in DOMAIN t
  BY <1>1, <1>3
<1>b. \A k \in DOMAIN x : ~(k <= Len(t)) => k - Len(t) \in DOMAIN s
  BY <1>1, <1>3
<1>4. ASSUME NEW k \in DOMAIN x
      PROVE  /\ k <= Len(t) => k \in DOMAIN t /\ x[k] = t[k]
             /\ ~(k <= Len(t)) => k - Len(t) \in DOMAIN s /\ x[k] = s[k - Len(t)]
  BY <1>3, <1>a, <1>b
<1>5. \A k \in DOMAIN t : k \in DOMAIN x /\ x[k] = t[k]
  BY <1>1, <1>3
<1>6. ASSUME NEW k \in DOMAIN s
      PROVE  k + Len(t) \in DOMAIN x /\ x[k + Len(t)] = s[k]
  <2>1. k + Len(t) \in DOMAIN x /\ ~(k + Len(t) <= Len(t)) /\ (k + Len(t)) - Len(t) = k
    BY <1>1, <1>3
  <2>2. x[k + Len(t)] = s[(k + Len(t)) - Len(t)]
    BY <1>4, <2>1
  <2> QED
    BY <2>1, <2>2
<1>7. \A i \in DOMAIN t : t[i].id < s[1].id
  BY DEF AreRows
<1>8. \A i \in DOMAIN s : s[1].id <= s[i].id
  BY FirstIsLeast DEF AgreesWith
<1>9. InOrder(x)
  <2> SUFFICES ASSUME NEW j \in DOMAIN x, NEW k \in DOMAIN x, j < k
               PROVE  x[j].id < x[k].id
    BY DEF InOrder
  <2>1. CASE k <= Len(t)
    <3>1. j <= Len(t)
      BY <1>1, <1>n, <2>1
    <3>2. x[j] = t[j] /\ x[k] = t[k] /\ j \in DOMAIN t /\ k \in DOMAIN t
      BY <1>4, <2>1, <3>1
    <3> QED
      BY <3>2 DEF AreRows, InOrder
  <2>2. CASE j <= Len(t) /\ ~(k <= Len(t))
    <3>1. x[j] = t[j] /\ j \in DOMAIN t /\ x[k] = s[k - Len(t)] /\ k - Len(t) \in DOMAIN s
      BY <1>4, <2>2
    <3>2. t[j].id < s[1].id /\ s[1].id <= s[k - Len(t)].id
      BY <1>7, <1>8, <3>1
    <3> QED
      BY <1>1, <3>1, <3>2
  <2>3. CASE ~(j <= Len(t)) /\ ~(k <= Len(t))
    <3>1. /\ x[j] = s[j - Len(t)] /\ j - Len(t) \in DOMAIN s
          /\ x[k] = s[k - Len(t)] /\ k - Len(t) \in DOMAIN s
      BY <1>4, <2>3
    <3>2. j - Len(t) < k - Len(t)
      BY <1>1, <1>n
    <3> QED
      BY <3>1, <3>2 DEF AgreesWith, InOrder
  <2>4. j <= Len(t) \/ ~(k <= Len(t))
    BY <1>1, <1>n
  <2> QED
    BY <2>1, <2>2, <2>3, <2>4
<1>10. ASSUME NEW k \in DOMAIN x
       PROVE  /\ x[k].id \in DOMAIN history /\ history[x[k].id].room = r
              /\ x[k].gone <=> ~history[x[k].id].live
              /\ ~x[k].gone => x[k].text = history[x[k].id].text
  <2>1. CASE k <= Len(t)
    <3>1. x[k] = t[k] /\ k \in DOMAIN t
      BY <1>4, <2>1
    <3> QED
      BY <3>1 DEF AreRows, Stands
  <2>2. CASE ~(k <= Len(t))
    <3>1. PICK i : i = k - Len(t)
      OBVIOUS
    <3>2. x[k] = s[i] /\ i \in DOMAIN s
      BY <1>4, <2>2, <3>1
    <3> QED
      BY <3>2 DEF AgreesWith
  <2> QED
    BY <2>1, <2>2
<1>11. ASSUME NEW id \in DOMAIN history, Stands(history, r, id), x # <<>> => id >= x[1].id
       PROVE  \E k \in DOMAIN x : x[k].id = id
  <2>0. x # <<>> /\ 1 \in DOMAIN x /\ id \in Nat
    <3>1. 1 \in DOMAIN x
      BY <1>1, <1>3
    <3>2. id \in Nat
      BY DEF TypeOK
    <3> QED
      BY <3>1, <3>2
  <2>1. CASE id >= s[1].id
    <3>1. PICK k \in DOMAIN s : s[k].id = id
      BY <1>11, <2>1 DEF AgreesWith
    <3> QED
      BY <1>6, <3>1
  <2>2. CASE ~(id >= s[1].id)
    <3>1. id < s[1].id
      BY <1>1, <2>0, <2>2
    <3>2. t # <<>>
      <4>1. CASE t = <<>>
        <5>1. ~(1 <= Len(t)) /\ 1 - Len(t) = 1
          BY <4>1
        <5>2. x[1] = s[1]
          BY <1>4, <2>0, <5>1
        <5> QED
          BY <1>11, <2>0, <2>2, <5>2
      <4> QED
        BY <4>1
    <3>3. 1 \in DOMAIN t /\ x[1] = t[1]
      BY <1>1, <1>5, <3>2, EntryFacts
    <3>4. PICK k \in DOMAIN t : t[k].id = id
      BY <1>11, <2>0, <3>1, <3>2, <3>3 DEF AreRows
    <3> QED
      BY <1>5, <3>4
  <2> QED
    BY <2>1, <2>2
<1>12. AgreesWith(history, r, x)
  BY <1>9, <1>10, <1>11 DEF AgreesWith
<1> QED
  BY <1>2, <1>12

-----------------------------------------------------------------------------
\* What the handlers make of a room.

IsApplied(w, v, m, c, r) ==
    /\ m.type = "AUTH" => w = [known |-> r \in m.rooms, list |-> m.shown[r]]
    /\ m.type = "SEARCH" \/ (m.type # "AUTH" /\ m.room # r) => w = v
    /\ m.room = r =>
         /\ m.type = "MSG" =>
               w = [known |-> v.known, list |-> Append(v.list,
                       [id |-> m.id, text |-> m.text, gone |-> FALSE])]
         /\ m.type \in {"EDIT", "DELETE"} /\ Places(v.list, m.id) = {} => w = v
         /\ m.type = "EDIT" /\ Places(v.list, m.id) # {} =>
               w = [known |-> v.known,
                    list |-> Edited(v.list, First(Places(v.list, m.id)), m.text)]
         /\ m.type = "DELETE" /\ Places(v.list, m.id) # {} =>
               w = [known |-> v.known,
                    list |-> Popped(v.list, m.id, First(Places(v.list, m.id)))]
         /\ m.type = "LOAD_MORE" => w = [known |-> v.known, list |-> m.shown \o v.list]
         /\ m.type \in {"JOIN", "CREATE"} =>
               w = IF m.user = c /\ ~v.known THEN [known |-> TRUE, list |-> m.shown] ELSE v
         /\ m.type = "DIRECT" =>
               w = IF ~m.exist /\ ~v.known THEN [known |-> TRUE, list |-> <<>>] ELSE v
         /\ m.type = "LEAVE" =>
               w = IF m.user = c THEN [known |-> FALSE, list |-> <<>>] ELSE v

LEMMA AppliedFacts ==
    ASSUME NEW v \in Had, NEW m \in Reply, NEW c, NEW r, NEW w, w = Applied(v, m, c, r)
    PROVE  IsApplied(w, v, m, c, r)
<1>1. m.type = "AUTH" => w = [known |-> r \in m.rooms, list |-> m.shown[r]]
  BY DEF Applied
<1>2. m.type = "SEARCH" \/ (m.type # "AUTH" /\ m.room # r) => w = v
  BY DEF Applied
<1>3. m.room = r /\ m.type \notin {"AUTH", "SEARCH"} => w = Changed(v, m, c)
  BY DEF Applied
<1>4. v = [known |-> v.known, list |-> v.list]
  BY DEF Had
<1>6. m.room = r /\ m.type = "MSG" =>
          w = [known |-> v.known, list |-> Append(v.list,
                              [id |-> m.id, text |-> m.text, gone |-> FALSE])]
  BY <1>3, <1>4 DEF Changed
<1>7. m.room = r /\ m.type \in {"EDIT", "DELETE"} /\ Places(v.list, m.id) = {} => w = v
  BY <1>3 DEF Changed
<1>8. m.room = r /\ m.type = "EDIT" /\ Places(v.list, m.id) # {} =>
          w = [known |-> v.known,
               list |-> Edited(v.list, First(Places(v.list, m.id)), m.text)]
  BY <1>3, <1>4 DEF Changed, Edited
<1>9. m.room = r /\ m.type = "DELETE" /\ Places(v.list, m.id) # {} =>
          w = [known |-> v.known,
               list |-> Popped(v.list, m.id, First(Places(v.list, m.id)))]
  BY <1>3, <1>4 DEF Changed
<1>10. m.room = r /\ m.type = "LOAD_MORE" => w = [known |-> v.known, list |-> m.shown \o v.list]
  BY <1>3, <1>4 DEF Changed
<1>11. m.room = r /\ m.type \in {"JOIN", "CREATE"} =>
          w = IF m.user = c /\ ~v.known THEN [known |-> TRUE, list |-> m.shown] ELSE v
  BY <1>3 DEF Changed
<1>12. m.room = r /\ m.type = "DIRECT" =>
          w = IF ~m.exist /\ ~v.known THEN [known |-> TRUE, list |-> <<>>] ELSE v
  BY <1>3 DEF Changed
<1>13. m.room = r /\ m.type = "LEAVE" =>
          w = IF m.user = c THEN [known |-> FALSE, list |-> <<>>] ELSE v
  BY <1>3 DEF Changed
<1> QED
  BY <1>1, <1>2, <1>6, <1>7, <1>8, <1>9, <1>10, <1>11, <1>12, <1>13 DEF IsApplied

LEMMA AppliedTypes ==
    ASSUME NEW v \in Had, NEW m \in Reply, NEW c, NEW r \in RoomIds
    PROVE  Applied(v, m, c, r) \in Had
<1>1. PICK w : w = Applied(v, m, c, r)
  OBVIOUS
<1>a. IsApplied(w, v, m, c, r)
  BY <1>1, AppliedFacts
<1>2. v.known \in BOOLEAN /\ v.list \in Seq(Entry)
  BY DEF Had
<1>3. \A k \in BOOLEAN, s \in Seq(Entry) : [known |-> k, list |-> s] \in Had
  BY DEF Had
<1>4. CASE m.type = "AUTH"
  <2>1. m.shown[r] \in Seq(Entry) /\ (r \in m.rooms) \in BOOLEAN
    BY <1>4, ReplyFacts DEF History
  <2>2. w = [known |-> r \in m.rooms, list |-> m.shown[r]]
    BY <1>1, <1>4, <1>a DEF IsApplied
  <2> QED
    BY <1>1, <1>3, <2>1, <2>2
<1>5. CASE m.type = "SEARCH" \/ (m.type # "AUTH" /\ m.room # r)
  BY <1>1, <1>5, <1>a DEF IsApplied
<1>6. CASE m.room = r /\ m.type = "MSG"
  <2> DEFINE e == [id |-> m.id, text |-> m.text, gone |-> FALSE]
  <2>1. e \in Entry
    BY <1>6, ReplyFacts DEF Entry
  <2>2. w = [known |-> v.known, list |-> Append(v.list, e)]
    BY <1>1, <1>6, <1>a DEF IsApplied
  <2> HIDE DEF e
  <2>3. Append(v.list, e) \in Seq(Entry)
    BY <1>2, <2>1
  <2> QED
    BY <1>1, <1>2, <1>3, <2>2, <2>3
<1>7. CASE m.room = r /\ m.type \in {"EDIT", "DELETE"}
  <2>1. CASE Places(v.list, m.id) = {}
    BY <1>1, <1>7, <2>1, <1>a DEF IsApplied
  <2>2. CASE Places(v.list, m.id) # {}
    <3>1. PICK i : i = First(Places(v.list, m.id))
      OBVIOUS
    <3>2. i \in DOMAIN v.list
      <4>1. Places(v.list, m.id) \subseteq DOMAIN v.list
        BY DEF Places
      <4>2. DOMAIN v.list \subseteq Nat
        BY <1>2, EntryFacts
      <4> QED
        BY <2>2, <3>1, <4>1, <4>2, FirstFacts
    <3>3. CASE m.type = "EDIT"
      <4>1. m.text \in Texts
        BY <3>3, ReplyFacts
      <4>2. Edited(v.list, i, m.text) \in Seq(Entry)
        BY <1>2, <3>2, <4>1, EditedFacts
      <4>3. w = [known |-> v.known, list |-> Edited(v.list, i, m.text)]
        BY <1>1, <1>7, <2>2, <3>1, <3>3, <1>a DEF IsApplied
      <4> QED
        BY <1>1, <1>2, <1>3, <4>2, <4>3
    <3>4. CASE m.type = "DELETE"
      <4>1. Popped(v.list, m.id, i) \in Seq(Entry)
        BY <1>2, <3>2, PoppedListed
      <4>2. w = [known |-> v.known, list |-> Popped(v.list, m.id, i)]
        BY <1>1, <1>7, <2>2, <3>1, <3>4, <1>a DEF IsApplied
      <4> QED
        BY <1>1, <1>2, <1>3, <4>1, <4>2
    <3> QED
      BY <1>7, <3>3, <3>4
  <2> QED
    BY <2>1, <2>2
<1>8. CASE m.room = r /\ m.type = "LOAD_MORE"
  <2>1. m.shown \o v.list \in Seq(Entry)
    <3>1. m.shown \in Seq(Entry)
      BY <1>8, ReplyFacts
    <3> QED
      BY <1>2, <3>1, ConcatProperties
  <2>2. w = [known |-> v.known, list |-> m.shown \o v.list]
    BY <1>1, <1>8, <1>a DEF IsApplied
  <2> QED
    BY <1>1, <1>2, <1>3, <2>1, <2>2
<1>9. CASE m.room = r /\ m.type \in {"JOIN", "CREATE", "DIRECT", "LEAVE"}
  <2>1. m.type \in {"JOIN", "CREATE"} => m.shown \in Seq(Entry)
    BY ReplyFacts
  <2>2. /\ [known |-> TRUE, list |-> <<>>] \in Had /\ [known |-> FALSE, list |-> <<>>] \in Had
        /\ m.type \in {"JOIN", "CREATE"} => [known |-> TRUE, list |-> m.shown] \in Had
    BY <2>1 DEF Had
  <2>3. CASE m.type \in {"JOIN", "CREATE"}
    <3>1. w = IF m.user = c /\ ~v.known THEN [known |-> TRUE, list |-> m.shown] ELSE v
      BY <1>1, <1>9, <2>3, <1>a DEF IsApplied
    <3> QED
      BY <1>1, <2>2, <2>3, <3>1
  <2>4. CASE m.type = "DIRECT"
    <3>1. w = IF ~m.exist /\ ~v.known THEN [known |-> TRUE, list |-> <<>>] ELSE v
      BY <1>1, <1>9, <2>4, <1>a DEF IsApplied
    <3> QED
      BY <1>1, <2>2, <3>1
  <2>5. CASE m.type = "LEAVE"
    <3>1. w = IF m.user = c THEN [known |-> FALSE, list |-> <<>>] ELSE v
      BY <1>1, <1>9, <2>5, <1>a DEF IsApplied
    <3> QED
      BY <1>1, <2>2, <3>1
  <2> QED
    BY <1>9, <2>3, <2>4, <2>5
<1> QED
  BY <1>4, <1>5, <1>6, <1>7, <1>8, <1>9, ReplyFacts

\* The first message shown of a room stays the first.
KeepsHead(m, c, r) ==
    /\ m.type # "AUTH"
    /\ m.type \in {"LOAD_MORE", "LEAVE"} => m.room # r \/ (m.type = "LEAVE" /\ m.user # c)

HeadIs(v, id) == v.known /\ v.list # <<>> /\ v.list[1].id = id

LEMMA HeadStays ==
    ASSUME NEW v \in Had, InOrder(v.list), NEW m \in Reply, NEW c, NEW r, KeepsHead(m, c, r),
           NEW id, HeadIs(v, id), NEW w, w = Applied(v, m, c, r)
    PROVE  HeadIs(w, id)
<1>a. IsApplied(w, v, m, c, r)
  BY AppliedFacts
<1>2. v.known /\ v.list # <<>> /\ v.list[1].id = id /\ v.list \in Seq(Entry)
  BY DEF Had, HeadIs
<1>3. \A s : s # <<>> /\ s[1].id = id => HeadIs([known |-> v.known, list |-> s], id)
  BY <1>2 DEF HeadIs
<1>5. CASE m.type = "SEARCH" \/ m.room # r
  BY <1>5, <1>a DEF IsApplied, KeepsHead
<1>6. CASE m.room = r /\ m.type = "MSG"
  <2>1. PICK e : e = [id |-> m.id, text |-> m.text, gone |-> FALSE]
    OBVIOUS
  <2>2. w = [known |-> v.known, list |-> Append(v.list, e)]
    BY <1>6, <2>1, <1>a DEF IsApplied
  <2>3. Append(v.list, e) # <<>> /\ Append(v.list, e)[1] = v.list[1]
    BY <1>2, EntryFacts
  <2> QED
    BY <1>2, <1>3, <2>2, <2>3
<1>7. CASE m.room = r /\ m.type \in {"EDIT", "DELETE"}
  <2>1. CASE Places(v.list, m.id) = {}
    BY <1>7, <2>1, <1>a DEF IsApplied
  <2>2. CASE Places(v.list, m.id) # {}
    <3>1. PICK i : i = First(Places(v.list, m.id))
      OBVIOUS
    <3>2. i \in DOMAIN v.list /\ v.list[i].id = m.id
      <4>1. Places(v.list, m.id) \subseteq DOMAIN v.list
        BY DEF Places
      <4>2. DOMAIN v.list \subseteq Nat
        BY <1>2, EntryFacts
      <4>3. i \in Places(v.list, m.id)
        BY <2>2, <3>1, <4>1, <4>2, FirstFacts
      <4> QED
        BY <4>3 DEF Places
    <3>3. CASE m.type = "EDIT"
      <4>1. m.text \in Texts
        BY <3>3, ReplyFacts
      <4>2. PICK e : e = Edited(v.list, i, m.text)
        OBVIOUS
      <4>3. e \in Seq(Entry) /\ DOMAIN e = DOMAIN v.list /\ \A j \in DOMAIN v.list : e[j].id = v.list[j].id
        BY <1>2, <3>2, <4>1, <4>2, EditedFacts
      <4>4. e # <<>> /\ e[1].id = v.list[1].id
        BY <1>2, <4>3, EntryFacts
      <4>5. w = [known |-> v.known, list |-> e]
        BY <1>7, <2>2, <3>1, <3>3, <4>2, <1>a DEF IsApplied
      <4> QED
        BY <1>2, <1>3, <4>4, <4>5
    <3>4. CASE m.type = "DELETE"
      <4>1. PICK p : p = Popped(v.list, m.id, i)
        OBVIOUS
      <4>2. IsPopped(p, v.list, m.id, i)
        BY <1>2, <3>2, <4>1, PoppedFacts
      <4>3. p # <<>> /\ p[1].id = v.list[1].id
        BY <4>2 DEF IsPopped
      <4>4. w = [known |-> v.known, list |-> p]
        BY <1>7, <2>2, <3>1, <3>4, <4>1, <1>a DEF IsApplied
      <4> QED
        BY <1>2, <1>3, <4>3, <4>4
    <3> QED
      BY <1>7, <3>3, <3>4
  <2> QED
    BY <2>1, <2>2
<1>9. CASE m.room = r /\ m.type \in {"JOIN", "CREATE", "DIRECT", "LEAVE"}
  <2>1. w = v
    <3>1. CASE m.type \in {"JOIN", "CREATE"}
      BY <1>2, <1>9, <3>1, <1>a DEF IsApplied
    <3>2. CASE m.type = "DIRECT"
      BY <1>2, <1>9, <3>2, <1>a DEF IsApplied
    <3>3. CASE m.type = "LEAVE"
      BY <1>9, <3>3, <1>a DEF IsApplied, KeepsHead
    <3> QED
      BY <1>9, <3>1, <3>2, <3>3
  <2> QED
    BY <2>1
<1> QED
  BY <1>5, <1>6, <1>7, <1>9, ReplyFacts DEF KeepsHead

-----------------------------------------------------------------------------
\* What a client has of a room, and will have.

LEMMA RunTypes ==
    ASSUME NEW s, Len(s) \in Nat, \A k \in 1 .. Len(s) : s[k] \in Reply,
           NEW v \in Had, NEW c, NEW r \in RoomIds
    PROVE  \A k \in 0 .. Len(s) : RunOf(v, s, c, r)[k] \in Had
<1> DEFINE f == RunOf(v, s, c, r)
           T == {k \in 0 .. Len(s) : f[k] \in Had}
<1>1. f[0] = v /\ \A k \in 1 .. Len(s) : f[k] = Applied(f[k - 1], s[k], c, r)
  BY RunSteps
<1> HIDE DEF f
<1>2. 0 \in T
  BY <1>1
<1>3. ASSUME NEW k \in 1 .. Len(s), k - 1 \in T
      PROVE  k \in T
  <2>1. f[k - 1] \in Had /\ s[k] \in Reply
    BY <1>3
  <2>2. Applied(f[k - 1], s[k], c, r) \in Had
    BY <2>1, AppliedTypes
  <2> QED
    BY <1>1, <2>2
<1> HIDE DEF T
<1>4. \A k \in 0 .. Len(s) : k \in T
  BY <1>2, <1>3, UpTo
<1> QED
  BY <1>4 DEF T, f

TalkOf(v, s, c, r, n, h) ==
    /\ Follows(RunOf(v, s, c, r), s, r)
    /\ Due(n, h, r, RunOf(v, s, c, r)[Len(s)])

LEMMA DueInOrder ==
    ASSUME NEW n, NEW h, NEW r, NEW v, Due(n, h, r, v)
    PROVE  InOrder(v.list)
<1>1. CASE v.known
  BY <1>1 DEF Due, AgreesWith
<1>2. CASE ~v.known
  BY <1>2 DEF Due, InOrder
<1> QED
  BY <1>1, <1>2

\* Without an answer to AUTH on the way, all that is sent fits.
LEMMA AllFollow ==
    ASSUME NEW f, NEW s, NEW r, Follows(f, s, r), \A j \in 1 .. Len(s) : s[j].type # "AUTH",
           Len(s) \in Nat, NEW k \in 0 .. Len(s)
    PROVE  InOrder(f[k].list) /\ (k < Len(s) => Fits(f[k], s[k + 1], r))
<1>1. \A j \in k + 1 .. Len(s) : s[j].type # "AUTH"
  <2>1. \A j \in k + 1 .. Len(s) : j \in 1 .. Len(s)
    OBVIOUS
  <2> QED
    BY <2>1
<1> QED
  BY <1>1 DEF Follows

AddsOne(s, t, m) == Adds(s, t, {m}) /\ Len(t) = Len(s) + 1

LEMMA RunAdded ==
    ASSUME NEW s, NEW t, NEW m, AddsOne(s, t, m), NEW v, NEW c, NEW r
    PROVE  /\ \A k \in 0 .. Len(s) : RunOf(v, t, c, r)[k] = RunOf(v, s, c, r)[k]
           /\ RunOf(v, t, c, r)[Len(t)] = Applied(RunOf(v, s, c, r)[Len(s)], m, c, r)
           /\ t[Len(t)] = m
<1>1. /\ Len(s) \in Nat /\ Len(t) \in Nat /\ Len(s) <= Len(t) /\ DOMAIN s = 1 .. Len(s)
      /\ DOMAIN t = 1 .. Len(t) /\ \A k \in 1 .. Len(s) : t[k] = s[k]
      /\ Len(t) = Len(s) + 1
  BY DEF AddsOne, Adds
<1>2. Len(t) \in DOMAIN t /\ Len(t) > Len(s) /\ Len(t) - 1 = Len(s) /\ Len(s) \in 0 .. Len(s)
      /\ Len(t) \in 1 .. Len(t)
  BY <1>1
<1>3. t[Len(t)] = m
  BY <1>2 DEF AddsOne, Adds
<1>4. \A k \in 0 .. Len(s) : RunOf(v, t, c, r)[k] = RunOf(v, s, c, r)[k]
  BY <1>1, RunPrefix
<1>5. RunOf(v, t, c, r)[Len(t)] = Applied(RunOf(v, t, c, r)[Len(t) - 1], t[Len(t)], c, r)
  BY <1>1, <1>2, RunSteps
<1> QED
  BY <1>2, <1>3, <1>4, <1>5

LEMMA TalkAdded ==
    ASSUME NEW s, NEW t, NEW m, AddsOne(s, t, m), m.type # "AUTH",
           NEW v, NEW c, NEW r, NEW n, NEW h, TalkOf(v, s, c, r, n, h),
           NEW w, w = RunOf(v, s, c, r)[Len(s)], Fits(w, m, r),
           NEW x, x = Applied(w, m, c, r), NEW p, NEW g, Due(p, g, r, x)
    PROVE  TalkOf(v, t, c, r, p, g)
<1> DEFINE f == RunOf(v, s, c, r)
           e == RunOf(v, t, c, r)
<1>0. /\ \A k \in 0 .. Len(s) : RunOf(v, t, c, r)[k] = RunOf(v, s, c, r)[k]
      /\ RunOf(v, t, c, r)[Len(t)] = Applied(RunOf(v, s, c, r)[Len(s)], m, c, r)
      /\ t[Len(t)] = m
  BY RunAdded
<1>1. /\ \A k \in 0 .. Len(s) : e[k] = f[k]
      /\ e[Len(t)] = x /\ t[Len(t)] = m
  BY <1>0
<1>2. /\ Len(s) \in Nat /\ Len(t) \in Nat /\ Len(t) = Len(s) + 1
      /\ \A k \in 1 .. Len(s) : t[k] = s[k]
  BY DEF AddsOne, Adds
<1>3. Follows(f, s, r) /\ w = f[Len(s)]
  BY DEF TalkOf
<1> HIDE DEF e, f
<1>4. ASSUME NEW k \in 0 .. Len(t), \A j \in k + 1 .. Len(t) : t[j].type # "AUTH"
      PROVE  InOrder(e[k].list) /\ (k < Len(t) => Fits(e[k], t[k + 1], r))
  <2>1. CASE k = Len(t)
    <3>1. InOrder(x.list)
      BY DueInOrder
    <3> QED
      BY <1>1, <2>1, <3>1
  <2>2. CASE k # Len(t)
    <3>1. k \in 0 .. Len(s) /\ e[k] = f[k]
      BY <1>1, <1>2, <2>2
    <3>2. \A j \in k + 1 .. Len(s) : s[j].type # "AUTH"
      <4>1. \A j \in k + 1 .. Len(s) : j \in k + 1 .. Len(t) /\ j \in 1 .. Len(s)
        BY <1>2, <3>1
      <4> QED
        BY <1>2, <1>4, <4>1
    <3>3. InOrder(f[k].list) /\ (k < Len(s) => Fits(f[k], s[k + 1], r))
      BY <1>3, <3>1, <3>2 DEF Follows
    <3>4. CASE k = Len(s)
      <4>1. t[k + 1] = m /\ e[k] = w
        BY <1>1, <1>2, <1>3, <3>1, <3>4
      <4> QED
        BY <3>1, <3>3, <4>1
    <3>5. CASE k # Len(s)
      <4>1. k < Len(s) /\ k + 1 \in 1 .. Len(s)
        BY <1>2, <3>1, <3>5
      <4>2. t[k + 1] = s[k + 1]
        BY <1>2, <4>1
      <4> QED
        BY <3>1, <3>3, <4>1, <4>2
    <3> QED
      BY <3>4, <3>5
  <2> QED
    BY <2>1, <2>2
<1>5. Follows(e, t, r)
  BY <1>4 DEF Follows
<1>6. Due(p, g, r, e[Len(t)])
  BY <1>1
<1> QED
  BY <1>5, <1>6 DEF TalkOf, e

\* The answer to AUTH.
LEMMA TalkAnswered ==
    ASSUME NEW s, NEW t, NEW m, AddsOne(s, t, m), m.type = "AUTH",
           NEW v, NEW c, NEW r, NEW x, x = [known |-> r \in m.rooms, list |-> m.shown[r]],
           NEW p, NEW g, Due(p, g, r, x)
    PROVE  TalkOf(v, t, c, r, p, g)
<1> DEFINE e == RunOf(v, t, c, r)
<1>0. /\ RunOf(v, t, c, r)[Len(t)] = Applied(RunOf(v, s, c, r)[Len(s)], m, c, r)
      /\ t[Len(t)] = m
  BY RunAdded
<1>1. e[Len(t)] = x /\ t[Len(t)] = m
  BY <1>0 DEF Applied
<1>2. Len(t) \in Nat
  BY DEF AddsOne, Adds
<1> HIDE DEF e
<1>4. ASSUME NEW k \in 0 .. Len(t), \A j \in k + 1 .. Len(t) : t[j].type # "AUTH"
      PROVE  InOrder(e[k].list) /\ (k < Len(t) => Fits(e[k], t[k + 1], r))
  <2>1. CASE k = Len(t)
    <3>1. InOrder(x.list)
      BY DueInOrder
    <3> QED
      BY <1>1, <2>1, <3>1
  <2>2. CASE k # Len(t)
    <3>1. Len(t) \in k + 1 .. Len(t)
      BY <1>2, <2>2
    <3> QED
      BY <1>1, <1>4, <3>1
  <2> QED
    BY <2>1, <2>2
<1>5. Follows(e, t, r)
  BY <1>4 DEF Follows
<1>6. Due(p, g, r, e[Len(t)])
  BY <1>1
<1> QED
  BY <1>5, <1>6 DEF TalkOf, e

\* The first message is handled.
LEMMA TalkTaken ==
    ASSUME NEW s, NEW t, Takes(s, t), NEW v, NEW c, NEW r, NEW n, NEW h,
           TalkOf(v, s, c, r, n, h), NEW w, w = Applied(v, s[1], c, r)
    PROVE  /\ TalkOf(w, t, c, r, n, h)
           /\ RunOf(w, t, c, r)[Len(t)] = RunOf(v, s, c, r)[Len(s)]
<1> DEFINE f == RunOf(v, s, c, r)
           e == RunOf(w, t, c, r)
<1>1. \A k \in 0 .. Len(t) : e[k] = f[k + 1]
  BY RunRest
<1>2. /\ Len(s) \in Nat /\ Len(t) \in Nat /\ Len(t) + 1 = Len(s)
      /\ \A k \in 1 .. Len(t) : t[k] = s[k + 1]
  BY DEF Takes
<1>3. Follows(f, s, r) /\ Due(n, h, r, f[Len(s)])
  BY DEF TalkOf
<1> HIDE DEF e, f
<1>4. ASSUME NEW k \in 0 .. Len(t), \A j \in k + 1 .. Len(t) : t[j].type # "AUTH"
      PROVE  InOrder(e[k].list) /\ (k < Len(t) => Fits(e[k], t[k + 1], r))
  <2>1. e[k] = f[k + 1] /\ k + 1 \in 0 .. Len(s)
    BY <1>1, <1>2
  <2>2. ASSUME NEW j \in (k + 1) + 1 .. Len(s)
        PROVE  s[j].type # "AUTH"
    <3>1. j - 1 \in k + 1 .. Len(t) /\ j - 1 \in 1 .. Len(t) /\ (j - 1) + 1 = j
      BY <1>2
    <3>2. t[j - 1] = s[j]
      BY <1>2, <3>1
    <3> QED
      BY <1>4, <3>1, <3>2
  <2>3. InOrder(f[k + 1].list) /\ (k + 1 < Len(s) => Fits(f[k + 1], s[(k + 1) + 1], r))
    BY <1>3, <2>1, <2>2 DEF Follows
  <2>4. k < Len(t) => k + 1 < Len(s) /\ t[k + 1] = s[(k + 1) + 1]
    BY <1>2
  <2> QED
    BY <2>1, <2>3, <2>4
<1>5. Follows(e, t, r)
  BY <1>4 DEF Follows
<1>6. e[Len(t)] = f[Len(s)]
  BY <1>1, <1>2
<1> QED
  BY <1>3, <1>5, <1>6 DEF TalkOf, e, f

\* The first message shown stays the first while c handles what it was sent.
LEMMA RunHead ==
    ASSUME NEW s, Len(s) \in Nat, \A k \in 1 .. Len(s) : s[k] \in Reply,
           NEW v \in Had, NEW c, NEW r \in RoomIds, Follows(RunOf(v, s, c, r), s, r),
           \A k \in 1 .. Len(s) : KeepsHead(s[k], c, r), NEW id, HeadIs(v, id)
    PROVE  HeadIs(RunOf(v, s, c, r)[Len(s)], id)
<1> DEFINE f == RunOf(v, s, c, r)
           T == {k \in 0 .. Len(s) : HeadIs(f[k], id)}
<1>1. f[0] = v /\ \A k \in 1 .. Len(s) : f[k] = Applied(f[k - 1], s[k], c, r)
  BY RunSteps
<1>2. \A k \in 0 .. Len(s) : f[k] \in Had
  BY RunTypes
<1>3. \A k \in 0 .. Len(s) : InOrder(f[k].list)
  <2>1. \A k \in 1 .. Len(s) : s[k].type # "AUTH"
    BY DEF KeepsHead
  <2> QED
    BY <2>1, AllFollow
<1> HIDE DEF f
<1>4. 0 \in T
  BY <1>1
<1>5. ASSUME NEW k \in 1 .. Len(s), k - 1 \in T
      PROVE  k \in T
  <2>1. k - 1 \in 0 .. Len(s) /\ HeadIs(f[k - 1], id)
    BY <1>5
  <2>2. f[k - 1] \in Had /\ InOrder(f[k - 1].list) /\ s[k] \in Reply /\ KeepsHead(s[k], c, r)
    BY <1>2, <1>3, <2>1
  <2>3. PICK w : w = Applied(f[k - 1], s[k], c, r)
    OBVIOUS
  <2>4. HeadIs(w, id)
    BY <2>1, <2>2, <2>3, HeadStays
  <2> QED
    BY <1>1, <2>3, <2>4
<1> HIDE DEF T
<1>6. \A k \in 0 .. Len(s) : k \in T
  BY <1>4, <1>5, UpTo
<1>7. Len(s) \in T
  BY <1>6
<1> QED
  BY <1>7 DEF T, f

-----------------------------------------------------------------------------
\* What is due of a room after a message of it, or of another one.

\* The table is changed from h to g, but not the messages of r.
Untouched(h, g, r) ==
    /\ DOMAIN h \subseteq DOMAIN g
    /\ \A id \in DOMAIN h : g[id].room = h[id].room /\ (h[id].room = r => g[id] = h[id])
    /\ \A id \in DOMAIN g : id \notin DOMAIN h => g[id].room # r

LEMMA DueStill ==
    ASSUME NEW n, NEW h, NEW r, NEW v, Due(n, h, r, v), NEW p, p > 0 <=> n > 0,
           NEW g, n > 0 => Untouched(h, g, r)
    PROVE  Due(p, g, r, v)
<1>1. CASE v.known
  <2>1. Untouched(h, g, r) /\ AgreesWith(h, r, v.list)
    BY <1>1 DEF Due
  <2>2. AgreesWith(g, r, v.list)
    BY <2>1, AgreesStill DEF Untouched
  <2> QED
    BY <1>1, <2>2 DEF Due
<1>2. CASE ~v.known
  BY <1>2 DEF Due
<1> QED
  BY <1>1, <1>2

\* Not about the room, or not about what is had of it.
Idle(v, m, c, r) == Fits(v, m, r) /\ Applied(v, m, c, r) = v

LEMMA IdleFacts ==
    ASSUME NEW v \in Had, NEW m \in Reply, NEW c, NEW r,
           \/ m.type = "SEARCH"
           \/ m.type # "AUTH" /\ m.room # r
           \/ m.type \in {"JOIN", "CREATE", "LEAVE"} /\ m.user # c
           \/ m.type = "DIRECT" /\ m.exist
    PROVE  Idle(v, m, c, r)
<1>1. PICK w : w = Applied(v, m, c, r)
  OBVIOUS
<1>2. IsApplied(w, v, m, c, r)
  BY <1>1, AppliedFacts
<1>3. w = v
  <2>1. CASE m.type = "SEARCH" \/ (m.type # "AUTH" /\ m.room # r)
    BY <1>2, <2>1 DEF IsApplied
  <2>2. CASE m.room = r /\ m.type \in {"JOIN", "CREATE"} /\ m.user # c
    BY <1>2, <2>2 DEF IsApplied
  <2>3. CASE m.room = r /\ m.type = "LEAVE" /\ m.user # c
    BY <1>2, <2>3 DEF IsApplied
  <2>4. CASE m.room = r /\ m.type = "DIRECT" /\ m.exist
    BY <1>2, <2>4 DEF IsApplied
  <2> QED
    BY <2>1, <2>2, <2>3, <2>4
<1>4. Fits(v, m, r)
  BY DEF Fits
<1> QED
  BY <1>1, <1>3, <1>4 DEF Idle

\* A message is fit for v, and what it makes of it is due.
Keeps(v, m, c, r, n, h) ==
    /\ Fits(v, m, r)
    /\ Due(n, h, r, Applied(v, m, c, r))

LEMMA DueSent ==
    ASSUME NEW v \in Had, NEW m \in Reply, m.type = "MSG", NEW c, NEW r, m.room = r,
           NEW n, n > 0, NEW h \in Seq(Message), Due(n, h, r, v),
           NEW msg \in Message, msg.room = r, msg.live, m.text = msg.text, m.id = Len(h) + 1
    PROVE  Keeps(v, m, c, r, n, Append(h, msg))
<1>1. PICK w : w = Applied(v, m, c, r)
  OBVIOUS
<1>2. IsApplied(w, v, m, c, r)
  BY <1>1, AppliedFacts
<1>3. PICK e : e = [id |-> m.id, text |-> m.text, gone |-> FALSE]
  OBVIOUS
<1>4. w = [known |-> v.known, list |-> Append(v.list, e)]
  BY <1>2, <1>3 DEF IsApplied
<1>5. v.known /\ AgreesWith(h, r, v.list) /\ v.list \in Seq(Entry)
  BY DEF Due, Had
<1>6. e \in Entry /\ e.id = m.id /\ e.text = msg.text /\ ~e.gone
  BY <1>3, ReplyFacts DEF Entry
<1>7. AgreesWith(Append(h, msg), r, Append(v.list, e))
  BY <1>5, <1>6, AgreesAppended
<1>8. Due(n, Append(h, msg), r, w)
  BY <1>4, <1>5, <1>7 DEF Due
<1>9. Fits(v, m, r)
  BY <1>5 DEF Fits
<1> QED
  BY <1>1, <1>8, <1>9 DEF Keeps

\* An edit or a deletion of a stored message finds it, or comes before the first.
LEMMA ChangeFits ==
    ASSUME NEW v \in Had, NEW m \in Reply, m.type \in {"EDIT", "DELETE"}, NEW r, m.room = r,
           NEW h \in Seq(Message), v.known, AgreesWith(h, r, v.list), Stands(h, r, m.id)
    PROVE  Fits(v, m, r)
<1>1. v.list \in Seq(Entry) /\ m.id \in Nat /\ m.id \in DOMAIN h
  BY DEF Had, Stands
<1>2. v.list # <<>>
  <2>1. CASE v.list = <<>>
    <3>1. \E i \in DOMAIN v.list : v.list[i].id = m.id
      BY <1>1, <2>1 DEF AgreesWith
    <3> QED
      BY <2>1, <3>1
  <2> QED
    BY <2>1
<1>3. v.list[1].id \in Nat
  BY <1>1, <1>2, EntryFacts
<1>4. CASE m.id >= v.list[1].id
  <2>1. PICK i \in DOMAIN v.list : v.list[i].id = m.id
    BY <1>1, <1>4 DEF AgreesWith
  <2>2. v.list[i].gone <=> ~h[m.id].live
    BY <2>1 DEF AgreesWith
  <2>3. ~v.list[i].gone
    BY <2>2 DEF Stands
  <2> QED
    BY <1>2, <2>1, <2>3 DEF Fits
<1>5. CASE m.id < v.list[1].id
  BY <1>2, <1>5 DEF Fits
<1> QED
  BY <1>1, <1>3, <1>4, <1>5

LEMMA PlacesFacts ==
    ASSUME NEW s \in Seq(Entry), NEW id
    PROVE  /\ Places(s, id) = {} => id \notin {s[i].id : i \in DOMAIN s}
           /\ Places(s, id) # {} => /\ First(Places(s, id)) \in DOMAIN s
                                    /\ s[First(Places(s, id))].id = id
<1>1. Places(s, id) \subseteq DOMAIN s /\ DOMAIN s \subseteq Nat
  BY EntryFacts DEF Places
<1>2. Places(s, id) # {} => First(Places(s, id)) \in Places(s, id)
  BY <1>1, FirstFacts
<1>3. Places(s, id) = {} => id \notin {s[i].id : i \in DOMAIN s}
  BY DEF Places
<1> QED
  BY <1>2, <1>3 DEF Places

LEMMA DueEdited ==
    ASSUME NEW v \in Had, NEW m \in Reply, m.type = "EDIT", NEW c, NEW r, m.room = r,
           NEW n, n > 0, NEW h \in Seq(Message), Due(n, h, r, v), Stands(h, r, m.id)
    PROVE  Keeps(v, m, c, r, n, [h EXCEPT ![m.id].text = m.text])
<1>1. PICK w : w = Applied(v, m, c, r)
  OBVIOUS
<1>2. IsApplied(w, v, m, c, r)
  BY <1>1, AppliedFacts
<1>3. PICK g : g = [h EXCEPT ![m.id].text = m.text]
  OBVIOUS
<1>4. PICK id : id = m.id
  OBVIOUS
<1>5. v.known /\ AgreesWith(h, r, v.list) /\ v.list \in Seq(Entry) /\ id \in DOMAIN h
      /\ m.text \in Texts
  BY <1>4, ReplyFacts DEF Due, Had, Stands
<1>a. h[id].live
  BY <1>4 DEF Stands
<1>6. /\ DOMAIN g = DOMAIN h
      /\ \A k \in DOMAIN h : /\ g[k].room = h[k].room /\ g[k].live = h[k].live
                             /\ g[k].text = IF k = id THEN m.text ELSE h[k].text
  <2>1. \A k \in DOMAIN h : h[k] \in Message
    OBVIOUS
  <2> QED
    BY <1>3, <1>4, <1>5, <2>1 DEF Message
<1>7. AgreesWith(g, r, w.list) /\ w.known
  <2>1. CASE Places(v.list, id) = {}
    <3>1. w = v
      BY <1>2, <1>4, <2>1 DEF IsApplied
    <3>2. id \notin {v.list[i].id : i \in DOMAIN v.list}
      BY <1>5, <2>1, PlacesFacts
    <3> QED
      BY <1>a, <1>5, <1>6, <3>1, <3>2, AgreesEdited
  <2>2. CASE Places(v.list, id) # {}
    <3>1. PICK i : i = First(Places(v.list, id))
      OBVIOUS
    <3>2. i \in DOMAIN v.list /\ v.list[i].id = id
      BY <1>5, <2>2, <3>1, PlacesFacts
    <3>3. w = [known |-> v.known, list |-> Edited(v.list, i, m.text)]
      BY <1>2, <1>4, <2>2, <3>1 DEF IsApplied
    <3>4. AgreesWith(g, r, Edited(v.list, i, m.text))
      BY <1>a, <1>5, <1>6, <3>2, AgreesEdited
    <3> QED
      BY <1>5, <3>3, <3>4
  <2> QED
    BY <2>1, <2>2
<1>8. Due(n, g, r, w)
  BY <1>7 DEF Due
<1>9. Fits(v, m, r)
  BY <1>5, ChangeFits
<1> QED
  BY <1>1, <1>3, <1>8, <1>9 DEF Keeps

LEMMA DueDeleted ==
    ASSUME NEW v \in Had, NEW m \in Reply, m.type = "DELETE", NEW c, NEW r, m.room = r,
           NEW n, n > 0, NEW h \in Seq(Message), Due(n, h, r, v), Stands(h, r, m.id)
    PROVE  Keeps(v, m, c, r, n, [h EXCEPT ![m.id].live = FALSE])
<1>1. PICK w : w = Applied(v, m, c, r)
  OBVIOUS
<1>2. IsApplied(w, v, m, c, r)
  BY <1>1, AppliedFacts
<1>3. PICK g : g = [h EXCEPT ![m.id].live = FALSE]
  OBVIOUS
<1>4. PICK id : id = m.id
  OBVIOUS
<1>5. v.known /\ AgreesWith(h, r, v.list) /\ v.list \in Seq(Entry) /\ id \in DOMAIN h
  BY <1>4 DEF Due, Had, Stands
<1>6. /\ DOMAIN g = DOMAIN h /\ ~g[id].live
      /\ \A k \in DOMAIN h : /\ g[k].room = h[k].room /\ g[k].text = h[k].text
                             /\ k # id => g[k].live = h[k].live
  <2>1. \A k \in DOMAIN h : h[k] \in Message
    OBVIOUS
  <2> QED
    BY <1>3, <1>4, <1>5, <2>1 DEF Message
<1>7. AgreesWith(g, r, w.list) /\ w.known
  <2>1. CASE Places(v.list, id) = {}
    <3>1. w = v
      BY <1>2, <1>4, <2>1 DEF IsApplied
    <3>2. id \notin {v.list[i].id : i \in DOMAIN v.list}
      BY <1>5, <2>1, PlacesFacts
    <3> QED
      BY <1>5, <1>6, <3>1, <3>2, AgreesDeleted
  <2>2. CASE Places(v.list, id) # {}
    <3>1. PICK i : i = First(Places(v.list, id))
      OBVIOUS
    <3>2. i \in DOMAIN v.list /\ v.list[i].id = id
      BY <1>5, <2>2, <3>1, PlacesFacts
    <3>3. w = [known |-> v.known, list |-> Popped(v.list, id, i)]
      BY <1>2, <1>4, <2>2, <3>1 DEF IsApplied
    <3>4. AgreesWith(g, r, Popped(v.list, id, i))
      BY <1>5, <1>6, <3>2, AgreesDeleted
    <3> QED
      BY <1>5, <3>3, <3>4
  <2> QED
    BY <2>1, <2>2
<1>8. Due(n, g, r, w)
  BY <1>7 DEF Due
<1>9. Fits(v, m, r)
  BY <1>5, ChangeFits
<1> QED
  BY <1>1, <1>3, <1>8, <1>9 DEF Keeps

LEMMA DueOlder ==
    ASSUME TypeOK, NEW v \in Had, NEW m \in Reply, m.type = "LOAD_MORE", NEW c, NEW r, m.room = r,
           NEW n, Due(n, history, r, v), NEW id, HeadIs(v, id), AreRows(m.shown, r, id)
    PROVE  Keeps(v, m, c, r, n, history)
<1>1. PICK w : w = Applied(v, m, c, r)
  OBVIOUS
<1>2. IsApplied(w, v, m, c, r)
  BY <1>1, AppliedFacts
<1>4. w = [known |-> v.known, list |-> m.shown \o v.list]
  BY <1>2 DEF IsApplied
<1>5. v.known /\ v.list # <<>> /\ v.list[1].id = id /\ v.list \in Seq(Entry)
      /\ AgreesWith(history, r, v.list)
  BY DEF Due, Had, HeadIs
<1>6. AgreesWith(history, r, m.shown \o v.list)
  BY <1>5, OlderAgrees
<1>7. Due(n, history, r, w)
  BY <1>4, <1>5, <1>6 DEF Due
<1>8. Fits(v, m, r)
  BY <1>5 DEF Fits
<1> QED
  BY <1>1, <1>7, <1>8 DEF Keeps

\* c is in the room from now on.
LEMMA DueEntered ==
    ASSUME NEW v \in Had, NEW m \in Reply, NEW c, NEW r, m.room = r, ~v.known,
           NEW n, n > 0, NEW h, NEW s, AgreesWith(h, r, s),
           \/ m.type \in {"JOIN", "CREATE"} /\ m.user = c /\ m.shown = s
           \/ m.type = "DIRECT" /\ ~m.exist /\ s = <<>>
    PROVE  Keeps(v, m, c, r, n, h)
<1>1. PICK w : w = Applied(v, m, c, r)
  OBVIOUS
<1>2. IsApplied(w, v, m, c, r)
  BY <1>1, AppliedFacts
<1>3. w = [known |-> TRUE, list |-> s]
  <2>1. CASE m.type \in {"JOIN", "CREATE"} /\ m.user = c /\ m.shown = s
    BY <1>2, <2>1 DEF IsApplied
  <2>2. CASE m.type = "DIRECT" /\ ~m.exist /\ s = <<>>
    BY <1>2, <2>2 DEF IsApplied
  <2> QED
    BY <2>1, <2>2
<1>4. Due(n, h, r, w)
  BY <1>3 DEF Due
<1>5. Fits(v, m, r)
  BY DEF Fits
<1> QED
  BY <1>1, <1>4, <1>5 DEF Keeps

LEMMA DueLeft ==
    ASSUME NEW v \in Had, NEW m \in Reply, NEW c, NEW r, m.room = r,
           m.type = "LEAVE", m.user = c, NEW h
    PROVE  Keeps(v, m, c, r, 0, h)
<1>1. PICK w : w = Applied(v, m, c, r)
  OBVIOUS
<1>2. IsApplied(w, v, m, c, r)
  BY <1>1, AppliedFacts
<1>3. w = [known |-> FALSE, list |-> <<>>]
  BY <1>2 DEF IsApplied
<1>4. Due(0, h, r, w)
  BY <1>3 DEF Due
<1>5. Fits(v, m, r)
  BY DEF Fits
<1> QED
  BY <1>1, <1>4, <1>5 DEF Keeps

-----------------------------------------------------------------------------
\* Talk of a client, while messages are sent to it and taken by it.

LEMMA TalkIs ==
    /\ \A c : Talk(c) <=> \A r \in RoomIds :
                             TalkOf(Has(c, r), in[c], c, r, rows[c][r], history)
    /\ \A c : Talk(c)' <=> \A r \in RoomIds :
                             TalkOf(Has(c, r)', in'[c], c, r, rows'[c][r], history')
<1>1. ASSUME NEW c
      PROVE  Talk(c) <=> \A r \in RoomIds :
                             TalkOf(Has(c, r), in[c], c, r, rows[c][r], history)
  <2>1. \A r : IsDue(c, r, WillHave(c, r)) <=> Due(rows[c][r], history, r, WillHave(c, r))
    BY DueIs
  <2> QED
    BY <2>1 DEF Talk, TalkOf, WillHave
<1>2. ASSUME NEW c
      PROVE  Talk(c)' <=> \A r \in RoomIds :
                             TalkOf(Has(c, r)', in'[c], c, r, rows'[c][r], history')
  <2>1. \A r : IsDue(c, r, WillHave(c, r))' <=> Due(rows'[c][r], history', r, WillHave(c, r)')
    BY DueIs DEF IsDue
  <2> QED
    BY <2>1 DEF Talk, TalkOf, WillHave
<1> QED
  BY <1>1, <1>2

LEMMA HasTypes ==
    ASSUME TypeOK, NEW c \in Clients, NEW r \in RoomIds
    PROVE  /\ Has(c, r) \in Had /\ WillHave(c, r) \in Had
           /\ Len(in[c]) \in Nat /\ \A k \in 1 .. Len(in[c]) : in[c][k] \in Reply
<1>1. /\ snap[c].shown[r] \in Seq(Entry) /\ shown[c][r] \in Seq(Entry)
      /\ (r \in snap[c].rooms) \in BOOLEAN /\ (r \in known[c]) \in BOOLEAN
  BY DEF TypeOK, History
<1>2. Has(c, r) \in Had
  BY <1>1 DEF Has, Had
<1>3. in[c] \in Seq(Reply)
  BY DEF TypeOK
<1>4. Len(in[c]) \in Nat /\ \A k \in 1 .. Len(in[c]) : in[c][k] \in Reply
  BY <1>3
<1>5. Len(in[c]) \in 0 .. Len(in[c])
  BY <1>4
<1>6. \A k \in 0 .. Len(in[c]) : RunOf(Has(c, r), in[c], c, r)[k] \in Had
  BY <1>2, <1>4, RunTypes
<1> QED
  BY <1>2, <1>4, <1>5, <1>6 DEF WillHave

\* Client d has been sent one message, or nothing.
SentOne(d, m) == in'[d] = in[d] \/ AddsOne(in[d], in'[d], m)

WithSent(d, m, r) ==
    IF in'[d] = in[d] THEN WillHave(d, r) ELSE Applied(WillHave(d, r), m, d, r)

KeepsSent(d, m, r) ==
    IF in'[d] = in[d] THEN Due(rows'[d][r], history', r, WillHave(d, r))
                      ELSE Keeps(WillHave(d, r), m, d, r, rows'[d][r], history')

LEMMA WillHaveGains ==
    ASSUME NEW d, NEW m, SentOne(d, m), NEW r, Has(d, r)' = Has(d, r)
    PROVE  WillHave(d, r)' = WithSent(d, m, r)
<1>1. PICK v : v = Has(d, r)
  OBVIOUS
<1>2. PICK s : s = in[d]
  OBVIOUS
<1>3. PICK t : t = in'[d]
  OBVIOUS
<1>4. /\ WillHave(d, r)' = RunOf(v, t, d, r)[Len(t)]
      /\ WillHave(d, r) = RunOf(v, s, d, r)[Len(s)]
  BY <1>1, <1>2, <1>3 DEF WillHave
<1>5. CASE t = s
  BY <1>2, <1>3, <1>4, <1>5 DEF WithSent
<1>6. CASE AddsOne(s, t, m) /\ t # s
  <2>1. RunOf(v, t, d, r)[Len(t)] = Applied(RunOf(v, s, d, r)[Len(s)], m, d, r)
    BY <1>6, RunAdded
  <2> QED
    BY <1>2, <1>3, <1>4, <1>6, <2>1 DEF WithSent
<1> QED
  BY <1>2, <1>3, <1>5, <1>6 DEF SentOne

LEMMA TalkGains ==
    ASSUME NEW d, Talk(d), NEW m, m.type # "AUTH", SentOne(d, m),
           \A r \in RoomIds : Has(d, r)' = Has(d, r) /\ KeepsSent(d, m, r)
    PROVE  Talk(d)'
<1> SUFFICES ASSUME NEW r \in RoomIds
             PROVE  TalkOf(Has(d, r)', in'[d], d, r, rows'[d][r], history')
  BY TalkIs
<1>1. PICK v : v = Has(d, r)
  OBVIOUS
<1>2. PICK s : s = in[d]
  OBVIOUS
<1>3. PICK t : t = in'[d]
  OBVIOUS
<1>4. PICK p : p = rows'[d][r]
  OBVIOUS
<1>5. PICK g : g = history'
  OBVIOUS
<1>6. PICK n, h : TalkOf(v, s, d, r, n, h)
  BY <1>1, <1>2, TalkIs
<1>7. PICK w : w = RunOf(v, s, d, r)[Len(s)]
  OBVIOUS
<1>8. WillHave(d, r) = w
  BY <1>1, <1>2, <1>7 DEF WillHave
<1>9. TalkOf(v, t, d, r, p, g)
  <2>1. CASE t = s
    <3>1. Due(p, g, r, w)
      BY <1>2, <1>3, <1>4, <1>5, <1>8, <2>1 DEF KeepsSent
    <3> QED
      BY <1>6, <1>7, <2>1, <3>1 DEF TalkOf
  <2>2. CASE AddsOne(s, t, m) /\ t # s
    <3>1. Keeps(w, m, d, r, p, g)
      BY <1>2, <1>3, <1>4, <1>5, <1>8, <2>2 DEF KeepsSent
    <3>2. PICK x : x = Applied(w, m, d, r)
      OBVIOUS
    <3>3. Fits(w, m, r) /\ Due(p, g, r, x)
      BY <3>1, <3>2 DEF Keeps
    <3> QED
      BY <1>6, <1>7, <2>2, <3>2, <3>3, TalkAdded
  <2> QED
    BY <1>2, <1>3, <2>1, <2>2 DEF SentOne
<1>10. Has(d, r)' = v
  BY <1>1
<1> QED
  BY <1>3, <1>4, <1>5, <1>9, <1>10

LEMMA TalkTakenBy ==
    ASSUME NEW c, Talk(c), Takes(in[c], in'[c]), rows' = rows, history' = history,
           \A r \in RoomIds : Has(c, r)' = Applied(Has(c, r), in[c][1], c, r)
    PROVE  Talk(c)' /\ \A r \in RoomIds : WillHave(c, r)' = WillHave(c, r)
<1>1. ASSUME NEW r \in RoomIds
      PROVE  /\ TalkOf(Has(c, r)', in'[c], c, r, rows'[c][r], history')
             /\ WillHave(c, r)' = WillHave(c, r)
  <2>1. PICK v : v = Has(c, r)
    OBVIOUS
  <2>2. PICK s : s = in[c]
    OBVIOUS
  <2>3. PICK t : t = in'[c]
    OBVIOUS
  <2>4. PICK w : w = Applied(v, s[1], c, r)
    OBVIOUS
  <2>5. PICK n : n = rows[c][r]
    OBVIOUS
  <2>6. PICK h : h = history
    OBVIOUS
  <2>7. TalkOf(v, s, c, r, n, h)
    BY <2>1, <2>2, <2>5, <2>6, TalkIs
  <2>8. /\ TalkOf(w, t, c, r, n, h)
        /\ RunOf(w, t, c, r)[Len(t)] = RunOf(v, s, c, r)[Len(s)]
    BY <2>2, <2>3, <2>4, <2>7, TalkTaken
  <2>9. Has(c, r)' = w
    BY <2>1, <2>2, <2>4
  <2> QED
    BY <2>1, <2>2, <2>3, <2>5, <2>6, <2>8, <2>9 DEF WillHave
<1> QED
  BY <1>1, TalkIs

\* Nothing of it changes.
LEMMA TalkUntouched ==
    ASSUME NEW d, in'[d] = in[d], rows'[d] = rows[d], history' = history,
           \A r \in RoomIds : Has(d, r)' = Has(d, r)
    PROVE  /\ Talk(d) => Talk(d)'
           /\ \A r \in RoomIds : WillHave(d, r)' = WillHave(d, r)
BY TalkIs DEF WillHave

-----------------------------------------------------------------------------
\* Requests for history and their answers.

\* Request k of asks asks for what comes before the first message.
FromFirst(asks, k, will) ==
    /\ HeadIs(will[asks[k].room], asks[k].last)
    /\ \A j \in 1 .. k - 1 : asks[j] # [type |-> "LEAVE", room |-> asks[k].room]

\* What Loads says of a client in phase ph that has asked asks and been sent sent.
LoadsOk(ph, can, asks, sent, will) ==
    /\ ph = "waiting" =>
        \A k \in LoadsOf(sent), j \in DOMAIN sent : sent[j].type = "AUTH" => k < j
    /\ ph = "building" => asks = <<>> /\ LoadsOf(sent) = {}
    /\ ph = "online" =>
        /\ can => LoadsOf(asks) = {} /\ LoadsOf(sent) = {}
        /\ LoadsOf(asks) = {} \/ LoadsOf(sent) = {}
        /\ \A j, k \in LoadsOf(asks) : j = k
        /\ \A j, k \in LoadsOf(sent) : j = k
        /\ \A k \in LoadsOf(asks) : FromFirst(asks, k, will)

AllHave(c) == [r \in RoomIds |-> WillHave(c, r)]

LEMMA AsksOfRoom ==
    ASSUME NEW asks \in Seq(Request), NEW k \in LoadsOf(asks)
    PROVE  asks[k].room \in RoomIds /\ k \in 1 .. Len(asks) /\ asks[k].type = "LOAD_MORE"
<1>1. k \in DOMAIN asks /\ asks[k].type = "LOAD_MORE"
  BY DEF LoadsOf
<1>2. asks[k] \in Request /\ k \in 1 .. Len(asks)
  BY <1>1
<1> QED
  BY <1>1, <1>2, RequestFacts

LEMMA LoadsIs ==
    ASSUME out \in [Clients -> Seq(Request)], NEW c \in Clients
    PROVE  Loads(c) <=> LoadsOk(phase[c], canLoad[c], out[c], in[c], AllHave(c))
<1>1. out[c] \in Seq(Request)
  OBVIOUS
<1>2. \A k \in LoadsOf(out[c]) : AsksFromFirst(c, k) <=> FromFirst(out[c], k, AllHave(c))
  BY <1>1, AsksOfRoom DEF AsksFromFirst, FromFirst, AllHave, HeadIs
<1> QED
  BY <1>2 DEF Loads, LoadsOk

LEMMA LoadsWillBe ==
    ASSUME out' \in [Clients -> Seq(Request)], NEW c \in Clients
    PROVE  Loads(c)' <=> LoadsOk(phase'[c], canLoad'[c], out'[c], in'[c], AllHave(c)')
<1>1. out'[c] \in Seq(Request)
  OBVIOUS
<1>2. \A k \in LoadsOf(out'[c]) : AsksFromFirst(c, k)' <=> FromFirst(out'[c], k, AllHave(c)')
  BY <1>1, AsksOfRoom DEF AsksFromFirst, FromFirst, AllHave, HeadIs
<1> QED
  BY <1>2 DEF Loads, LoadsOk

\* The client is sent something else.
LEMMA LoadsSent ==
    ASSUME NEW ph, NEW can, NEW asks, NEW s, NEW w, LoadsOk(ph, can, asks, s, w),
           NEW t, NEW m, m.type \notin {"AUTH", "LOAD_MORE"}, t = s \/ AddsOne(s, t, m),
           NEW x, \A k \in LoadsOf(asks) :
                      ph = "online" /\ FromFirst(asks, k, w) => FromFirst(asks, k, x)
    PROVE  LoadsOk(ph, can, asks, t, x)
<1>1. /\ LoadsOf(t) = LoadsOf(s)
      /\ \A j \in DOMAIN t : t[j].type = "AUTH" => j \in DOMAIN s /\ s[j].type = "AUTH"
  <2>1. CASE t = s
    BY <2>1
  <2>2. CASE AddsOne(s, t, m)
    <3>1. /\ DOMAIN s \subseteq DOMAIN t /\ \A i \in DOMAIN s : t[i] = s[i]
          /\ \A i \in DOMAIN t : i \notin DOMAIN s => t[i] = m
      BY <2>2 DEF AddsOne, Adds
    <3> QED
      BY <3>1 DEF LoadsOf
  <2> QED
    BY <2>1, <2>2
<1> QED
  BY <1>1 DEF LoadsOk

\* Another request is served.
LEMMA LoadsServed ==
    ASSUME NEW ph, NEW can, NEW a, NEW s, NEW w, LoadsOk(ph, can, a, s, w),
           NEW b, Takes(a, b), a[1].type # "LOAD_MORE"
    PROVE  LoadsOk(ph, can, b, s, w)
<1>0. /\ Len(a) \in Nat /\ Len(b) \in Nat /\ Len(b) = Len(a) - 1
      /\ DOMAIN a = 1 .. Len(a) /\ DOMAIN b = 1 .. Len(b)
      /\ \A i \in DOMAIN b : b[i] = a[i + 1]
  BY DEF Takes
<1>1. \A k \in LoadsOf(b) : k \in Nat /\ k + 1 \in LoadsOf(a) /\ b[k] = a[k + 1] /\ k \in DOMAIN b
  <2>1. \A k \in DOMAIN b : k \in Nat /\ k + 1 \in DOMAIN a
    BY <1>0
  <2> QED
    BY <1>0, <2>1 DEF LoadsOf
<1>2. ph = "online" => \A j, k \in LoadsOf(b) : j = k
  <2> SUFFICES ASSUME ph = "online", NEW j \in LoadsOf(b), NEW k \in LoadsOf(b)
               PROVE  j = k
    OBVIOUS
  <2>1. j + 1 = k + 1
    BY <1>1 DEF LoadsOk
  <2> QED
    BY <1>1, <2>1
<1>3. ph = "online" => \A k \in LoadsOf(b) : FromFirst(b, k, w)
  <2> SUFFICES ASSUME ph = "online", NEW k \in LoadsOf(b)
               PROVE  FromFirst(b, k, w)
    OBVIOUS
  <2>1. FromFirst(a, k + 1, w)
    BY <1>1 DEF LoadsOk
  <2>2. HeadIs(w[b[k].room], b[k].last)
    BY <1>1, <2>1 DEF FromFirst
  <2>3. ASSUME NEW j \in 1 .. k - 1
        PROVE  b[j] # [type |-> "LEAVE", room |-> b[k].room]
    <3>1. j \in DOMAIN b /\ j + 1 \in 1 .. (k + 1) - 1
      BY <1>0, <1>1
    <3> QED
      BY <1>0, <1>1, <2>1, <3>1 DEF FromFirst
  <2> QED
    BY <2>2, <2>3 DEF FromFirst
<1>4. LoadsOf(a) = {} => LoadsOf(b) = {}
  BY <1>1
<1>5. a # <<>>
  BY DEF Takes
<1> QED
  BY <1>2, <1>3, <1>4, <1>5 DEF LoadsOk

\* A request for history is served.
LEMMA LoadsAnswered ==
    ASSUME NEW ph, NEW can, NEW a, NEW s, NEW w, LoadsOk(ph, can, a, s, w),
           NEW b, Takes(a, b), a[1].type = "LOAD_MORE",
           ph = "waiting" => \A j \in DOMAIN s : s[j].type # "AUTH",
           NEW t, NEW m, m.type = "LOAD_MORE", AddsOne(s, t, m), NEW x
    PROVE  LoadsOk(ph, can, b, t, x)
<1>0. /\ Len(a) \in Nat /\ Len(b) \in Nat /\ Len(b) = Len(a) - 1
      /\ DOMAIN a = 1 .. Len(a) /\ DOMAIN b = 1 .. Len(b) /\ 1 \in DOMAIN a
      /\ \A i \in DOMAIN b : b[i] = a[i + 1]
  BY DEF Takes
<1>1. 1 \in LoadsOf(a) /\ a # <<>>
  BY <1>0 DEF LoadsOf
<1>2. /\ DOMAIN s \subseteq DOMAIN t /\ \A i \in DOMAIN s : t[i] = s[i]
      /\ \A i \in DOMAIN t : i \notin DOMAIN s => t[i] = m /\ i = Len(t)
  BY DEF AddsOne, Adds
<1>3. ph = "waiting" => \A j \in DOMAIN t : t[j].type # "AUTH"
  BY <1>2
<1>4. CASE ph = "online"
  <2>1. LoadsOf(s) = {} /\ ~can
    BY <1>1, <1>4 DEF LoadsOk
  <2>2. LoadsOf(b) = {}
    <3> SUFFICES ASSUME NEW k \in LoadsOf(b)
                 PROVE  FALSE
      OBVIOUS
    <3>1. k \in DOMAIN b /\ b[k].type = "LOAD_MORE"
      BY DEF LoadsOf
    <3>2. k \in Nat /\ k > 0 /\ k + 1 \in DOMAIN a /\ b[k] = a[k + 1]
      BY <1>0, <3>1
    <3>3. k + 1 \in LoadsOf(a)
      BY <3>1, <3>2 DEF LoadsOf
    <3>4. k + 1 = 1
      BY <1>1, <1>4, <3>3 DEF LoadsOk
    <3> QED
      BY <3>2, <3>4
  <2>3. \A j, k \in LoadsOf(t) : j = k
    BY <1>2, <2>1 DEF LoadsOf
  <2> QED
    BY <1>4, <2>1, <2>2, <2>3 DEF LoadsOk
<1>5. CASE ph # "online"
  <2>1. ph # "building"
    BY <1>1 DEF LoadsOk
  <2> QED
    BY <1>3, <1>5, <2>1 DEF LoadsOk
<1> QED
  BY <1>4, <1>5

\* A client asks for something else.
LEMMA LoadsAsking ==
    ASSUME NEW can, NEW a, NEW s, NEW w, LoadsOk("online", can, a, s, w),
           NEW b, NEW q, AddsOne(a, b, q), q.type # "LOAD_MORE"
    PROVE  LoadsOk("online", can, b, s, w)
<1>1. /\ DOMAIN a \subseteq DOMAIN b /\ \A i \in DOMAIN a : b[i] = a[i]
      /\ \A i \in DOMAIN b : i \notin DOMAIN a => b[i] = q
      /\ DOMAIN a = 1 .. Len(a) /\ Len(a) \in Nat
  BY DEF AddsOne, Adds
<1>2. LoadsOf(b) = LoadsOf(a)
  BY <1>1 DEF LoadsOf
<1>3. ASSUME NEW k \in LoadsOf(a)
      PROVE  FromFirst(b, k, w)
  <2>1. FromFirst(a, k, w) /\ k \in DOMAIN a
    BY DEF LoadsOk, LoadsOf
  <2>2. \A j \in 1 .. k - 1 : j \in DOMAIN a
    BY <1>1, <2>1
  <2> QED
    BY <1>1, <2>1, <2>2 DEF FromFirst
<1> QED
  BY <1>2, <1>3 DEF LoadsOk

\* It has not asked to leave r.
StaysIn(asks, r) == \A j \in DOMAIN asks : asks[j] # [type |-> "LEAVE", room |-> r]

\* A client asks for history.
LEMMA LoadsBegun ==
    ASSUME NEW a, NEW s, NEW w, LoadsOk("online", TRUE, a, s, w),
           NEW b, NEW q, AddsOne(a, b, q), q.type = "LOAD_MORE",
           HeadIs(w[q.room], q.last), StaysIn(a, q.room)
    PROVE  LoadsOk("online", FALSE, b, s, w)
<1>1. /\ DOMAIN a \subseteq DOMAIN b /\ \A i \in DOMAIN a : b[i] = a[i]
      /\ \A i \in DOMAIN b : i \notin DOMAIN a => b[i] = q /\ i = Len(b)
      /\ DOMAIN a = 1 .. Len(a) /\ Len(a) \in Nat /\ Len(b) = Len(a) + 1
  BY DEF AddsOne, Adds
<1>2. LoadsOf(a) = {} /\ LoadsOf(s) = {}
  BY DEF LoadsOk
<1>3. \A k \in LoadsOf(b) : k = Len(b) /\ b[k] = q
  BY <1>1, <1>2 DEF LoadsOf
<1>4. ASSUME NEW k \in LoadsOf(b)
      PROVE  FromFirst(b, k, w)
  <2>1. \A j \in 1 .. k - 1 : j \in DOMAIN a
    BY <1>1, <1>3
  <2> QED
    BY <1>1, <1>3, <2>1 DEF FromFirst, StaysIn
<1> QED
  BY <1>2, <1>3, <1>4 DEF LoadsOk

\* Something else is handled.
LEMMA LoadsTaken ==
    ASSUME NEW can, NEW asks, NEW s, NEW w, LoadsOk("online", can, asks, s, w),
           NEW t, Takes(s, t)
    PROVE  /\ LoadsOk("online", can, asks, t, w)
           /\ s[1].type = "LOAD_MORE" => LoadsOk("online", TRUE, asks, t, w)
<1>0. /\ Len(s) \in Nat /\ Len(t) \in Nat /\ Len(t) = Len(s) - 1
      /\ DOMAIN s = 1 .. Len(s) /\ DOMAIN t = 1 .. Len(t) /\ 1 \in DOMAIN s
      /\ \A i \in DOMAIN t : t[i] = s[i + 1]
  BY DEF Takes
<1>1. \A k \in LoadsOf(t) : k \in Nat /\ k > 0 /\ k + 1 \in LoadsOf(s)
  <2>1. \A k \in DOMAIN t : k \in Nat /\ k > 0 /\ k + 1 \in DOMAIN s
    BY <1>0
  <2> QED
    BY <1>0, <2>1 DEF LoadsOf
<1>2. \A j, k \in LoadsOf(t) : j = k
  <2> SUFFICES ASSUME NEW j \in LoadsOf(t), NEW k \in LoadsOf(t)
               PROVE  j = k
    OBVIOUS
  <2>1. j + 1 = k + 1
    BY <1>1 DEF LoadsOk
  <2> QED
    BY <1>1, <2>1
<1>3. LoadsOf(s) = {} => LoadsOf(t) = {}
  BY <1>1
<1>4. LoadsOk("online", can, asks, t, w)
  BY <1>2, <1>3 DEF LoadsOk
<1>5. ASSUME s[1].type = "LOAD_MORE"
      PROVE  LoadsOf(t) = {} /\ LoadsOf(asks) = {}
  <2>1. 1 \in LoadsOf(s)
    BY <1>0, <1>5 DEF LoadsOf
  <2>2. LoadsOf(asks) = {}
    BY <2>1 DEF LoadsOk
  <2>3. ASSUME NEW k \in LoadsOf(t)
        PROVE  FALSE
    <3>1. k + 1 = 1
      BY <1>1, <2>1 DEF LoadsOk
    <3> QED
      BY <1>1, <3>1
  <2> QED
    BY <2>2, <2>3
<1> QED
  BY <1>4, <1>5 DEF LoadsOk

LEMMA ConcatParts ==
    ASSUME NEW s \in Seq(Entry), NEW t \in Seq(Entry), NEW x, x = s \o t
    PROVE  \A k \in DOMAIN x : \/ \E i \in DOMAIN s : x[k] = s[i]
                               \/ \E i \in DOMAIN t : x[k] = t[i]
<1>1. /\ DOMAIN s = 1 .. Len(s) /\ Len(s) \in Nat /\ DOMAIN t = 1 .. Len(t) /\ Len(t) \in Nat
      /\ DOMAIN x = 1 .. Len(s) + Len(t)
      /\ \A k \in DOMAIN x : x[k] = IF k <= Len(s) THEN s[k] ELSE t[k - Len(s)]
  BY ConcatProperties
<1> SUFFICES ASSUME NEW k \in DOMAIN x
             PROVE  \/ \E i \in DOMAIN s : x[k] = s[i]
                    \/ \E i \in DOMAIN t : x[k] = t[i]
  OBVIOUS
<1>2. k <= Len(s) => k \in DOMAIN s
  BY <1>1
<1>3. ~(k <= Len(s)) => k - Len(s) \in DOMAIN t
  BY <1>1
<1> QED
  BY <1>1, <1>2, <1>3

LEMMA PoppedIds ==
    ASSUME NEW s \in Seq(Entry), NEW id, NEW i \in DOMAIN s, NEW p, p = Popped(s, id, i)
    PROVE  \A k \in DOMAIN p : \E j \in DOMAIN s : p[k].id = s[j].id
<1> DEFINE e == [s[i] EXCEPT !.gone = TRUE]
           destroyed == [s EXCEPT ![i].gone = TRUE]
           later == Places(s, id) \ {1}
<1>1. s[i] \in Entry /\ DOMAIN s = 1 .. Len(s) /\ Len(s) \in Nat
  BY EntryFacts
<1>2. e \in Entry /\ e.id = s[i].id
  BY <1>1 DEF Entry
<1>3. destroyed = [s EXCEPT ![i] = e]
  OBVIOUS
<1>4. p = IF later = {} THEN destroyed ELSE RemoveAt(destroyed, First(later))
  BY DEF Popped
<1>5. later \subseteq DOMAIN s
  BY DEF Places
<1> HIDE DEF destroyed, later, e
<1>6. /\ destroyed \in Seq(Entry) /\ Len(destroyed) = Len(s) /\ DOMAIN destroyed = DOMAIN s
      /\ \A j \in DOMAIN s : destroyed[j] = IF j = i THEN e ELSE s[j]
  BY <1>2, <1>3, ListUpdate
<1>7. \A j \in DOMAIN s : destroyed[j].id = s[j].id
  BY <1>2, <1>6
<1>8. CASE later = {}
  BY <1>4, <1>6, <1>7, <1>8
<1>9. CASE later # {}
  <2>1. PICK n : n = First(later)
    OBVIOUS
  <2>2. n \in 1 .. Len(destroyed)
    <3>1. later \subseteq Nat
      BY <1>1, <1>5
    <3>2. n \in later
      BY <1>9, <2>1, <3>1, FirstFacts
    <3> QED
      BY <1>1, <1>5, <1>6, <3>2
  <2>3. p = RemoveAt(destroyed, n)
    BY <1>4, <1>9, <2>1
  <2>4. /\ p \in Seq(Entry) /\ Len(p) = Len(s) - 1
        /\ \A j \in 1 .. Len(s) - 1 : p[j] = IF j < n THEN destroyed[j] ELSE destroyed[j + 1]
    <3>1. destroyed \in Seq(Entry)
      BY <1>6
    <3>2. /\ RemoveAt(destroyed, n) \in Seq(Entry)
          /\ Len(RemoveAt(destroyed, n)) = Len(destroyed) - 1
          /\ \A j \in 1 .. Len(destroyed) - 1 :
                RemoveAt(destroyed, n)[j] = IF j < n THEN destroyed[j] ELSE destroyed[j + 1]
      BY <2>2, <3>1, ListWithoutElement
    <3> QED
      BY <1>6, <2>3, <3>2
  <2>5. DOMAIN p = 1 .. Len(s) - 1
    BY <2>4
  <2>6. \A k \in DOMAIN p : k \in DOMAIN s /\ k + 1 \in DOMAIN s
    BY <1>1, <1>6, <2>5
  <2>7. \A k \in DOMAIN p : p[k] = destroyed[k] \/ p[k] = destroyed[k + 1]
    BY <2>4, <2>5
  <2> QED
    BY <1>7, <2>6, <2>7
<1> QED
  BY <1>8, <1>9

-----------------------------------------------------------------------------
\* Messages of history.

AllIn(h, r, s) == \A i \in DOMAIN s : s[i].id \in DOMAIN h /\ h[s[i].id].room = r

SentIn(h, m) ==
    /\ m.type = "AUTH" => \A r \in RoomIds : AllIn(h, r, m.shown[r])
    /\ m.type \in {"MSG", "EDIT", "DELETE"} => m.id \in DOMAIN h /\ h[m.id].room = m.room
    /\ m.type \in {"LOAD_MORE", "JOIN", "CREATE"} => AllIn(h, m.room, m.shown)

\* Messages are added, none is moved to another room.
Grows(h, g) == DOMAIN h \subseteq DOMAIN g /\ \A id \in DOMAIN h : g[id].room = h[id].room

LEMMA HistoryIs ==
    /\ \A r, s : AllOf(r, s) <=> AllIn(history, r, s)
    /\ \A r, s : AllOf(r, s)' <=> AllIn(history', r, s)
    /\ \A m : SentOfHistory(m) <=> SentIn(history, m)
    /\ \A m : SentOfHistory(m)' <=> SentIn(history', m)
BY DEF AllOf, AllIn, IsOf, SentOfHistory, SentIn

ShownOf == \A c \in Clients, r \in RoomIds :
               AllOf(r, shown[c][r]) /\ AllOf(r, snap[c].shown[r])
EditingOf == \A c \in Clients : editing[c] # NoEdit => IsOf(editing[c].room, editing[c].id)
ChangesOf == \A c \in Clients : \A k \in DOMAIN out[c] :
                 out[c][k].type \in {"EDIT", "DELETE"} => IsOf(out[c][k].room, out[c][k].id)
AllSentOf == \A c \in Clients : \A k \in DOMAIN in[c] : SentOfHistory(in[c][k])

LEMMA OfHistoryIs ==
    /\ OfHistory <=> ShownOf /\ EditingOf /\ ChangesOf /\ AllSentOf
    /\ OfHistory' <=> ShownOf' /\ EditingOf' /\ ChangesOf' /\ AllSentOf'
BY DEF OfHistory, ShownOf, EditingOf, ChangesOf, AllSentOf

LEMMA GrowsKeeps ==
    ASSUME NEW h, NEW g, Grows(h, g)
    PROVE  /\ \A r, s : AllIn(h, r, s) => AllIn(g, r, s)
           /\ \A m : SentIn(h, m) => SentIn(g, m)
<1>1. \A r, s : AllIn(h, r, s) => AllIn(g, r, s)
  BY DEF Grows, AllIn
<1>2. \A m : m.type \in {"MSG", "EDIT", "DELETE"} /\ SentIn(h, m) =>
                m.id \in DOMAIN g /\ g[m.id].room = m.room
  BY DEF Grows, SentIn
<1> QED
  BY <1>1, <1>2 DEF SentIn

\* What the handlers make of a room are messages of it.
LEMMA AppliedOf ==
    ASSUME NEW h, NEW v \in Had, NEW m \in Reply, NEW c, NEW r \in RoomIds,
           AllIn(h, r, v.list), SentIn(h, m), NEW w, w = Applied(v, m, c, r)
    PROVE  AllIn(h, r, w.list)
<1>a. IsApplied(w, v, m, c, r)
  BY AppliedFacts
<1>2. v.list \in Seq(Entry)
  BY DEF Had
<1>3. AllIn(h, r, <<>>)
  BY DEF AllIn
<1>4. CASE m.type = "AUTH"
  BY <1>4, <1>a DEF IsApplied, SentIn
<1>5. CASE m.type = "SEARCH" \/ (m.type # "AUTH" /\ m.room # r)
  BY <1>5, <1>a DEF IsApplied
<1>6. CASE m.room = r /\ m.type = "MSG"
  <2>1. PICK e : e = [id |-> m.id, text |-> m.text, gone |-> FALSE]
    OBVIOUS
  <2>2. w.list = Append(v.list, e)
    BY <1>6, <1>a, <2>1 DEF IsApplied
  <2>3. e.id \in DOMAIN h /\ h[e.id].room = r
    BY <1>6, <2>1 DEF SentIn
  <2>4. /\ DOMAIN w.list = DOMAIN v.list \cup {Len(v.list) + 1}
        /\ w.list[Len(v.list) + 1] = e /\ \A i \in DOMAIN v.list : w.list[i] = v.list[i]
    BY <1>2, <2>2
  <2> QED
    BY <2>3, <2>4 DEF AllIn
<1>7. CASE m.room = r /\ m.type \in {"EDIT", "DELETE"}
  <2>1. CASE Places(v.list, m.id) = {}
    BY <1>7, <1>a, <2>1 DEF IsApplied
  <2>2. CASE Places(v.list, m.id) # {}
    <3>1. PICK i : i = First(Places(v.list, m.id))
      OBVIOUS
    <3>2. i \in DOMAIN v.list
      BY <1>2, <2>2, <3>1, PlacesFacts
    <3>3. CASE m.type = "EDIT"
      <4>1. m.text \in Texts
        BY <3>3, ReplyFacts
      <4>2. PICK e : e = Edited(v.list, i, m.text)
        OBVIOUS
      <4>3. DOMAIN e = DOMAIN v.list /\ \A j \in DOMAIN v.list : e[j].id = v.list[j].id
        BY <1>2, <3>2, <4>1, <4>2, EditedFacts
      <4>4. w.list = e
        BY <1>7, <1>a, <2>2, <3>1, <3>3, <4>2 DEF IsApplied
      <4> QED
        BY <4>3, <4>4 DEF AllIn
    <3>4. CASE m.type = "DELETE"
      <4>1. PICK p : p = Popped(v.list, m.id, i)
        OBVIOUS
      <4>2. \A k \in DOMAIN p : \E j \in DOMAIN v.list : p[k].id = v.list[j].id
        BY <1>2, <3>2, <4>1, PoppedIds
      <4>3. w.list = p
        BY <1>7, <1>a, <2>2, <3>1, <3>4, <4>1 DEF IsApplied
      <4> QED
        BY <4>2, <4>3 DEF AllIn
    <3> QED
      BY <1>7, <3>3, <3>4
  <2> QED
    BY <2>1, <2>2
<1>8. CASE m.room = r /\ m.type = "LOAD_MORE"
  <2>1. PICK s : s = m.shown
    OBVIOUS
  <2>2. PICK t : t = v.list
    OBVIOUS
  <2>3. PICK x : x = s \o t
    OBVIOUS
  <2>4. s \in Seq(Entry) /\ AllIn(h, r, s)
    BY <1>8, <2>1, ReplyFacts DEF SentIn
  <2>5. w = [known |-> v.known, list |-> x]
    BY <1>8, <1>a, <2>1, <2>2, <2>3 DEF IsApplied
  <2>6. \A k \in DOMAIN x : \/ \E i \in DOMAIN s : x[k] = s[i]
                            \/ \E i \in DOMAIN t : x[k] = t[i]
    BY <1>2, <2>2, <2>3, <2>4, ConcatParts
  <2>7. AllIn(h, r, x)
    BY <2>2, <2>4, <2>6 DEF AllIn
  <2> QED
    BY <2>5, <2>7
<1>9. CASE m.room = r /\ m.type \in {"JOIN", "CREATE", "DIRECT", "LEAVE"}
  <2>3. CASE m.type \in {"JOIN", "CREATE"}
    <3>1. w.list = m.shown \/ w = v
      BY <1>9, <1>a, <2>3 DEF IsApplied
    <3> QED
      BY <1>9, <2>3, <3>1 DEF SentIn
  <2>4. CASE m.type = "DIRECT"
    <3>1. w.list = <<>> \/ w = v
      BY <1>9, <1>a, <2>4 DEF IsApplied
    <3> QED
      BY <1>3, <3>1
  <2>5. CASE m.type = "LEAVE"
    <3>1. w.list = <<>> \/ w = v
      BY <1>9, <1>a, <2>5 DEF IsApplied
    <3> QED
      BY <1>3, <3>1
  <2> QED
    BY <1>9, <2>3, <2>4, <2>5
<1> QED
  BY <1>4, <1>5, <1>6, <1>7, <1>8, <1>9, ReplyFacts

-----------------------------------------------------------------------------
\* A step of the server.

Told(d) == (Listening(d) => Talk(d)) /\ Loads(d)

LEMMA TalkInvIs ==
    /\ TalkInv <=> OfHistory /\ RowsOnce /\ OnlyExposedCrash
                   /\ \A d \in Clients \ exposed : Told(d)
    /\ TalkInv' <=> OfHistory' /\ RowsOnce' /\ OnlyExposedCrash'
                    /\ \A d \in Clients \ exposed' : Told(d)'
BY DEF TalkInv, Told

LEMMA OfHistoryByServer ==
    ASSUME OfHistory, Grows(history, history'), TakesOnly, UNCHANGED userState,
           NEW m, Sends(m), SentIn(history', m)
    PROVE  OfHistory'
<1>1. ShownOf /\ EditingOf /\ ChangesOf /\ AllSentOf
  BY OfHistoryIs
<1>2. shown' = shown /\ snap' = snap /\ editing' = editing
  BY DEF userState, lists
<1>3. \A r, id : IsOf(r, id) => IsOf(r, id)'
  BY DEF Grows, IsOf
<1>4. /\ \A r, s : AllOf(r, s) => AllOf(r, s)'
      /\ \A n : SentOfHistory(n) => SentOfHistory(n)'
  BY GrowsKeeps, HistoryIs
<1>5. ShownOf'
  BY <1>1, <1>2, <1>4 DEF ShownOf
<1>6. EditingOf'
  BY <1>1, <1>2, <1>3 DEF EditingOf
<1>7. ChangesOf'
  BY <1>1, <1>3 DEF ChangesOf, TakesOnly
<1>8. AllSentOf'
  <2>1. \A c \in Clients : \A k \in DOMAIN in'[c] :
            \/ k \in DOMAIN in[c] /\ in'[c][k] = in[c][k]
            \/ in'[c][k] = m
    BY DEF Sends, Adds
  <2>2. \A c \in Clients : \A k \in DOMAIN in'[c] : SentIn(history', in'[c][k])
    <3>1. \A n : SentIn(history, n) => SentIn(history', n)
      BY GrowsKeeps
    <3>2. \A c \in Clients : \A k \in DOMAIN in[c] : SentIn(history, in[c][k])
      BY <1>1, HistoryIs DEF AllSentOf
    <3> QED
      BY <2>1, <3>1, <3>2
  <2> QED
    BY <2>2, HistoryIs DEF AllSentOf
<1> QED
  BY <1>5, <1>6, <1>7, <1>8, OfHistoryIs

\* d listened already.
LEMMA ListeningBack ==
    ASSUME NEW d, phase'[d] = phase[d], NEW m, m.type # "AUTH", SentOne(d, m), Listening(d)'
    PROVE  Listening(d)
<1>1. CASE phase[d] \in {"building", "online"}
  BY <1>1 DEF Listening
<1>2. CASE phase[d] = "waiting"
  <2>1. PICK k \in DOMAIN in'[d] : in'[d][k].type = "AUTH"
    BY <1>2 DEF Listening
  <2>2. k \in DOMAIN in[d] /\ in[d][k].type = "AUTH"
    BY <2>1 DEF SentOne, AddsOne, Adds
  <2> QED
    BY <1>2, <2>2 DEF Listening
<1>3. phase[d] \in {"building", "online"} \/ phase[d] = "waiting"
  BY DEF Listening
<1> QED
  BY <1>1, <1>2, <1>3

LEMMA HasKept ==
    ASSUME NEW d, phase'[d] = phase[d], snap'[d] = snap[d], known'[d] = known[d],
           shown'[d] = shown[d]
    PROVE  \A r \in RoomIds : Has(d, r)' = Has(d, r)
BY DEF Has

\* Client d neither sends nor is sent anything.
LEMMA ToldUntouched ==
    ASSUME TypeOK, out' \in [Clients -> Seq(Request)], NEW d \in Clients, Told(d),
           in'[d] = in[d], out'[d] = out[d], rows'[d] = rows[d], history' = history,
           phase'[d] = phase[d], snap'[d] = snap[d], known'[d] = known[d],
           shown'[d] = shown[d], canLoad'[d] = canLoad[d]
    PROVE  Told(d)'
<1>1. \A r \in RoomIds : Has(d, r)' = Has(d, r)
  BY HasKept
<1>2. (Talk(d) => Talk(d)') /\ \A r \in RoomIds : WillHave(d, r)' = WillHave(d, r)
  BY <1>1, TalkUntouched
<1>3. Listening(d)' => Listening(d)
  BY DEF Listening
<1>4. AllHave(d)' = AllHave(d)
  BY <1>2 DEF AllHave
<1>5. Loads(d)'
  <2>1. LoadsOk(phase[d], canLoad[d], out[d], in[d], AllHave(d))
    BY LoadsIs DEF Told, TypeOK
  <2>2. LoadsOk(phase'[d], canLoad'[d], out'[d], in'[d], AllHave(d)')
    BY <1>4, <2>1
  <2> QED
    BY <2>2, LoadsWillBe
<1> QED
  BY <1>2, <1>3, <1>5 DEF Told

\* Client d is sent at most one m, which is neither an answer to AUTH nor history.
LEMMA ToldBySending ==
    ASSUME TypeOK, NEW c \in Clients, NEW type, type \notin {"AUTH", "LOAD_MORE"}, Handle(c, type),
           UNCHANGED userState, NEW m \in Reply, m.type \notin {"AUTH", "LOAD_MORE"},
           m.type = "LEAVE" => m.user = c /\ out[c][1] = [type |-> "LEAVE", room |-> m.room],
           NEW d \in Clients, Told(d), SentOne(d, m),
           Listening(d) => \A r \in RoomIds : KeepsSent(d, m, r)
    PROVE  Told(d)'
<1>1. /\ phase'[d] = phase[d] /\ snap'[d] = snap[d] /\ known'[d] = known[d]
      /\ shown'[d] = shown[d] /\ canLoad'[d] = canLoad[d]
  BY DEF userState, lists
<1>2. \A r \in RoomIds : Has(d, r)' = Has(d, r)
  BY <1>1, HasKept
<1>3. Listening(d)' => Listening(d)
  BY <1>1, ListeningBack
<1>4. Listening(d) => Talk(d)'
  BY <1>2, TalkGains DEF Told
<1>5. Loads(d)'
  <2> DEFINE w == AllHave(d)
             x == AllHave(d)'
  <2>1. LoadsOk(phase[d], canLoad[d], out[d], in[d], w)
    BY LoadsIs DEF Told, TypeOK
  <2>2. \A k \in LoadsOf(out[d]) :
            phase[d] = "online" /\ FromFirst(out[d], k, w) => FromFirst(out[d], k, x)
    <3> SUFFICES ASSUME NEW k \in LoadsOf(out[d]), phase[d] = "online", FromFirst(out[d], k, w)
                 PROVE  FromFirst(out[d], k, x)
      OBVIOUS
    <3>1. PICK r : r = out[d][k].room
      OBVIOUS
    <3>2. PICK id : id = out[d][k].last
      OBVIOUS
    <3>3. r \in RoomIds /\ k \in 1 .. Len(out[d]) /\ out[d][k].type = "LOAD_MORE"
          /\ Len(out[d]) \in Nat
      <4>1. out[d] \in Seq(Request)
        BY DEF TypeOK
      <4> QED
        BY <3>1, <4>1, AsksOfRoom
    <3>4. /\ HeadIs(WillHave(d, r), id)
          /\ \A j \in 1 .. k - 1 : out[d][j] # [type |-> "LEAVE", room |-> r]
      BY <3>1, <3>2, <3>3 DEF FromFirst, AllHave
    <3>5. WillHave(d, r)' = WithSent(d, m, r)
      BY <1>2, <3>3, WillHaveGains
    <3>6. HeadIs(WithSent(d, m, r), id)
      <4>1. PICK v : v = WillHave(d, r)
        OBVIOUS
      <4>2. v \in Had
        BY <3>3, <4>1, HasTypes
      <4>3. InOrder(v.list)
        <5>1. Talk(d)
          BY DEF Told, Listening
        <5>2. Due(rows[d][r], history, r, v)
          BY <3>3, <4>1, <5>1, DueIs DEF Talk
        <5> QED
          BY <5>2, DueInOrder
      <4>4. KeepsHead(m, d, r)
        <5>1. CASE m.type = "LEAVE" /\ m.user = d /\ m.room = r
          <6>1. d = c /\ out[d][1] = [type |-> "LEAVE", room |-> r]
            BY <5>1
          <6>2. k # 1
            BY <3>3, <6>1
          <6>3. 1 \in 1 .. k - 1
            BY <3>3, <6>2
          <6> QED
            BY <3>4, <6>1, <6>3
        <5>2. CASE ~(m.type = "LEAVE" /\ m.user = d /\ m.room = r)
          BY <5>2 DEF KeepsHead
        <5> QED
          BY <5>1, <5>2
      <4>5. PICK y : y = Applied(v, m, d, r)
        OBVIOUS
      <4>6. HeadIs(y, id)
        BY <3>4, <4>1, <4>2, <4>3, <4>4, <4>5, HeadStays
      <4> QED
        BY <3>4, <4>1, <4>5, <4>6 DEF WithSent
    <3>7. HeadIs(x[r], id)
      BY <3>3, <3>5, <3>6 DEF AllHave
    <3> HIDE DEF x
    <3> QED
      BY <3>1, <3>2, <3>4, <3>7 DEF FromFirst
  <2> HIDE DEF w, x
  <2>3. LoadsOk(phase[d], canLoad[d], out[d], in'[d], x)
    BY <2>1, <2>2, LoadsSent DEF SentOne
  <2>4. LoadsOk(phase[d], canLoad[d], out'[d], in'[d], x)
    <3>1. CASE d = c
      <4>1. Takes(out[d], out'[d]) /\ out[d][1].type # "LOAD_MORE"
        BY <3>1, HandleFacts
      <4> QED
        BY <2>3, <4>1, LoadsServed
    <3>2. CASE d # c
      <4>1. out'[d] = out[d]
        BY <3>2, HandleFacts
      <4> QED
        BY <2>3, <4>1
    <3> QED
      BY <3>1, <3>2
  <2>5. out' \in [Clients -> Seq(Request)]
    BY HandleFacts
  <2> QED
    BY <1>1, <2>4, <2>5, LoadsWillBe DEF x
<1> QED
  BY <1>3, <1>4, <1>5 DEF Told

LEMMA TalkByServer ==
    ASSUME TypeOK, TalkInv, NEW c \in Clients,
           NEW type, type \notin {"AUTH", "LOAD_MORE"}, Handle(c, type),
           UNCHANGED userState, exposed \subseteq exposed', RowsOnce',
           NEW m \in Reply, m.type \notin {"AUTH", "LOAD_MORE"}, Sends(m),
           Grows(history, history'), SentIn(history', m),
           m.type = "LEAVE" => m.user = c /\ out[c][1] = [type |-> "LEAVE", room |-> m.room],
           \A d \in Clients \ exposed' :
               /\ SentOne(d, m)
               /\ Listening(d) => \A r \in RoomIds : KeepsSent(d, m, r)
    PROVE  TalkInv'
<1>1. OfHistory'
  BY HandleTakes, OfHistoryByServer, TalkInvIs
<1>2. OnlyExposedCrash'
  BY TalkInvIs DEF OnlyExposedCrash, userState
<1>3. \A d \in Clients \ exposed' : Told(d)'
  <2> SUFFICES ASSUME NEW d \in Clients \ exposed'
               PROVE  Told(d)'
    OBVIOUS
  <2>1. Told(d)
    BY TalkInvIs
  <2> QED
    BY <2>1, ToldBySending
<1> QED
  BY <1>1, <1>2, <1>3, TalkInvIs

\* One row, or the answer to the one who left.
LEMMA BroadcastOnce ==
    ASSUME TypeOK, NEW newRows \in [Clients -> [RoomIds -> Nat]], NEW r \in RoomIds,
           NEW m \in Reply, NEW also, Broadcast(newRows, r, m, also),
           NEW d \in Clients, newRows[d][r] <= 1, d \in also => newRows[d][r] = 0
    PROVE  SentOne(d, m)
<1>1. newRows[d][r] \in Nat /\ Len(in[d]) \in Nat
  BY DEF TypeOK
<1>a. IsSent(newRows, r, m, also, d)
  BY BroadcastCopies
<1>2. /\ Adds(in[d], in'[d], {m}) /\ Copies(newRows, r, d) \in Nat
      /\ Len(in'[d]) = Len(in[d]) + Copies(newRows, r, d) + (IF d \in also THEN 1 ELSE 0)
      /\ Copies(newRows, r, d) = 0 /\ d \notin also => in'[d] = in[d]
  BY <1>a DEF IsSent
<1>3. Copies(newRows, r, d) <= 1 /\ (d \in also => Copies(newRows, r, d) = 0)
  BY <1>1 DEF Copies
<1>4. CASE Copies(newRows, r, d) = 0 /\ d \notin also
  BY <1>2, <1>4 DEF SentOne
<1>5. CASE Copies(newRows, r, d) = 1 /\ d \notin also
  BY <1>1, <1>2, <1>5 DEF SentOne, AddsOne
<1>6. CASE d \in also
  BY <1>1, <1>2, <1>3, <1>6 DEF SentOne, AddsOne
<1> QED
  BY <1>2, <1>3, <1>4, <1>5, <1>6

IsReached(newRows, r, m, also, d) ==
    /\ newRows[d][r] <= 1 => SentOne(d, m)
    /\ in'[d] # in[d] <=> (d \in online /\ newRows[d][r] > 0) \/ d \in also

\* A broadcast to members only.
LEMMA ToldOnce ==
    ASSUME TypeOK, NEW newRows \in [Clients -> [RoomIds -> Nat]], NEW r \in RoomIds,
           NEW m \in Reply, Broadcast(newRows, r, m, {}), NEW d \in Clients
    PROVE  IsReached(newRows, r, m, {}, d)
<1>1. PICK also : also = {}
  OBVIOUS
<1>2. Broadcast(newRows, r, m, also) /\ d \notin also
  BY <1>1
<1>3. newRows[d][r] <= 1 => SentOne(d, m)
  BY <1>2, BroadcastOnce
<1>4. \A u \in Clients :
          /\ Gained(u, m)
          /\ in'[u] # in[u] <=> (u \in online /\ newRows[u][r] > 0) \/ u \in also
  BY <1>2, BroadcastGains
<1> QED
  BY <1>1, <1>3, <1>4 DEF IsReached

\* The one who leaves is answered.
LEMMA LeaverTold ==
    ASSUME TypeOK, NEW newRows \in [Clients -> [RoomIds -> Nat]], NEW r \in RoomIds,
           NEW m \in Reply, NEW c \in Clients, Broadcast(newRows, r, m, {c}), newRows[c][r] = 0
    PROVE  \A d \in Clients : IsReached(newRows, r, m, {c}, d)
<1>1. PICK also : also = {c}
  OBVIOUS
<1>2. Broadcast(newRows, r, m, also) /\ c \in also /\ \A d \in also : newRows[d][r] = 0
  BY <1>1
<1>3. \A d \in Clients : newRows[d][r] <= 1 => SentOne(d, m)
  BY <1>2, BroadcastOnce
<1>4. \A u \in Clients :
          /\ Gained(u, m)
          /\ in'[u] # in[u] <=> (u \in online /\ newRows[u][r] > 0) \/ u \in also
  BY <1>2, BroadcastGains
<1> QED
  BY <1>1, <1>3, <1>4 DEF IsReached

LEMMA AnswerOnce ==
    ASSUME TypeOK, NEW c \in Clients, NEW m \in Reply, Answer(c, m)
    PROVE  \A d \in Clients : SentOne(d, m)
<1>1. /\ Adds(in[c], in'[c], {m}) /\ Len(in'[c]) = Len(in[c]) + 1
      /\ \A d \in Clients : d # c => in'[d] = in[d]
  BY AnswerFacts
<1> QED
  BY <1>1 DEF SentOne, AddsOne

\* What d has is due, with the rows and messages there are.
LEMMA DueNow ==
    ASSUME TypeOK, TalkInv, NEW d \in Clients \ exposed, Listening(d), NEW r \in RoomIds
    PROVE  /\ Due(rows[d][r], history, r, WillHave(d, r))
           /\ WillHave(d, r) \in Had /\ rows[d][r] \in Nat /\ rows[d][r] <= 1
<1>1. Talk(d) /\ RowsOnce
  BY TalkInvIs DEF Told
<1>2. Due(rows[d][r], history, r, WillHave(d, r))
  BY <1>1, DueIs DEF Talk
<1>3. WillHave(d, r) \in Had /\ rows[d][r] \in Nat
  BY HasTypes DEF TypeOK
<1> QED
  BY <1>1, <1>2, <1>3 DEF RowsOnce

\* Nothing in it for d.
LEMMA IdleKeeps ==
    ASSUME NEW d, NEW m, NEW r, Idle(WillHave(d, r), m, d, r) \/ in'[d] = in[d],
           Due(rows'[d][r], history', r, WillHave(d, r))
    PROVE  KeepsSent(d, m, r)
BY DEF KeepsSent, Keeps, Idle

LEMMA RowsOnceKept ==
    ASSUME TalkInv, rows' = rows, exposed \subseteq exposed'
    PROVE  RowsOnce'
BY TalkInvIs DEF RowsOnce

\* Nothing about rooms is sent.
LEMMA TalkByIdling ==
    ASSUME TypeOK, TalkInv, NEW c \in Clients, NEW type, type \notin {"AUTH", "LOAD_MORE"},
           Handle(c, type), UNCHANGED userState, UNCHANGED exposed, rows' = rows, history' = history,
           NEW m \in Reply, m.type = "SEARCH" \/ (m.type = "DIRECT" /\ m.exist),
           in' = in \/ Answer(c, m)
    PROVE  TalkInv'
<1>1. Sends(m)
  BY AnswerSends DEF Sends
<1>2. Grows(history, history') /\ SentIn(history', m)
  BY DEF Grows, SentIn
<1>3. RowsOnce' /\ exposed \subseteq exposed'
  BY RowsOnceKept
<1>4. m.type \notin {"AUTH", "LOAD_MORE", "LEAVE"}
  OBVIOUS
<1>5. ASSUME NEW d \in Clients \ exposed'
      PROVE  /\ SentOne(d, m)
             /\ Listening(d) => \A r \in RoomIds : KeepsSent(d, m, r)
  <2>1. SentOne(d, m)
    BY AnswerOnce DEF SentOne
  <2>2. ASSUME Listening(d), NEW r \in RoomIds
        PROVE  KeepsSent(d, m, r)
    <3>1. Due(rows[d][r], history, r, WillHave(d, r)) /\ WillHave(d, r) \in Had
      BY <1>3, <2>2, DueNow
    <3>2. Due(rows'[d][r], history', r, WillHave(d, r))
      BY <3>1
    <3>3. Idle(WillHave(d, r), m, d, r)
      BY <3>1, IdleFacts
    <3> QED
      BY <3>2, <3>3, IdleKeeps
  <2> QED
    BY <2>1, <2>2
<1> QED
  BY <1>1, <1>2, <1>3, <1>4, <1>5, TalkByServer

\* A message of a room is sent or changed, and the members are told.
LEMMA TalkByTelling ==
    ASSUME TypeOK, ViewInv, TalkInv, NEW c \in Clients, NEW type \in {"MSG", "EDIT", "DELETE"},
           Handle(c, type), UNCHANGED userState, exposed \subseteq exposed', rows' = rows,
           NEW m \in Reply, m.type = type, NEW r \in RoomIds, m.room = r,
           Broadcast(rows, r, m, {}), Grows(history, history'), SentIn(history', m),
           \A p \in RoomIds : p # r => Untouched(history, history', p),
           \A d \in Clients \ exposed' : Listening(d) /\ rows[d][r] > 0 =>
               Keeps(WillHave(d, r), m, d, r, rows[d][r], history')
    PROVE  TalkInv'
<1>1. rows \in [Clients -> [RoomIds -> Nat]]
  BY DEF TypeOK
<1>2. Sends(m)
  BY <1>1, BroadcastSends
<1>3. RowsOnce' /\ RowsOnce
  BY RowsOnceKept, TalkInvIs
<1>4. m.type \notin {"AUTH", "LOAD_MORE", "LEAVE"}
  OBVIOUS
<1>5. ASSUME NEW d \in Clients \ exposed'
      PROVE  /\ SentOne(d, m)
             /\ Listening(d) => \A p \in RoomIds : KeepsSent(d, m, p)
  <2>0. IsReached(rows, r, m, {}, d)
    BY <1>1, ToldOnce
  <2>1. SentOne(d, m)
    BY <1>3, <2>0 DEF RowsOnce, IsReached
  <2>2. ASSUME Listening(d), NEW p \in RoomIds
        PROVE  KeepsSent(d, m, p)
    <3>1. Due(rows[d][p], history, p, WillHave(d, p)) /\ WillHave(d, p) \in Had
      BY <2>2, DueNow
    <3>2. p # r \/ ~(rows[d][p] > 0) => Due(rows'[d][p], history', p, WillHave(d, p))
      BY <3>1, DueStill
    <3>3. CASE p # r
      <4>1. Idle(WillHave(d, p), m, d, p)
        BY <1>4, <3>1, <3>3, IdleFacts
      <4> QED
        BY <3>2, <3>3, <4>1, IdleKeeps
    <3>4. CASE p = r /\ ~(rows[d][r] > 0)
      <4>1. in'[d] = in[d]
        BY <2>0, <3>4 DEF IsReached
      <4> QED
        BY <3>2, <3>4, <4>1, IdleKeeps
    <3>5. CASE p = r /\ rows[d][r] > 0
      <4>1. d \in online
        BY <2>2, ListenerOnline DEF ViewInv, View
      <4>2. in'[d] # in[d]
        BY <2>0, <3>5, <4>1 DEF IsReached
      <4>3. Keeps(WillHave(d, r), m, d, r, rows'[d][r], history')
        BY <2>2, <3>5
      <4> QED
        BY <3>5, <4>2, <4>3 DEF KeepsSent
    <3> QED
      BY <3>3, <3>4, <3>5
  <2> QED
    BY <2>1, <2>2
<1> QED
  BY <1>2, <1>3, <1>4, <1>5, TalkByServer

LEMMA TalkTalkStep ==
    ASSUME TypeOK, ViewInv, TalkInv, NEW c \in Clients,
           Logout(c) \/ ProcessMessage(c) \/ EditMessage(c) \/ DeleteMessage(c) \/ SearchAll(c)
    PROVE  TalkInv'
<1>0. /\ UNCHANGED userState /\ rows' = rows /\ exposed \subseteq exposed'
      /\ history \in Seq(Message) /\ DOMAIN history = 1 .. Len(history) /\ Len(history) \in Nat
      /\ \A k \in DOMAIN out[c] :
             out[c][k].type \in {"EDIT", "DELETE"} =>
                 out[c][k].id \in DOMAIN history /\ history[out[c][k].id].room = out[c][k].room
  <2>1. UNCHANGED userState /\ rows' = rows /\ exposed \subseteq exposed'
    BY DEF Logout, ProcessMessage, EditMessage, DeleteMessage, SearchAll, tables, ExposeMembers
  <2>2. history \in Seq(Message) /\ DOMAIN history = 1 .. Len(history) /\ Len(history) \in Nat
    BY DEF TypeOK
  <2>3. ChangesOf
    BY OfHistoryIs, TalkInvIs
  <2> QED
    BY <2>1, <2>2, <2>3 DEF ChangesOf, IsOf
<1>1. CASE Logout(c) \/ SearchAll(c)
  <2>1. PICK m : m = [type |-> "SEARCH",
                      rooms |-> {r \in 1 .. Len(rooms) : rooms[r].access = "public"}]
    OBVIOUS
  <2>2. m \in Reply /\ m.type = "SEARCH"
    BY <2>1, RoomsNumbered DEF Reply
  <2>3. UNCHANGED exposed /\ history' = history /\ (in' = in \/ Answer(c, m))
    BY <1>1, <2>1 DEF Logout, SearchAll, tables
  <2>4. PICK type \in {"LOGOUT", "SEARCH"} : Handle(c, type)
    BY <1>1 DEF Logout, SearchAll
  <2> QED
    BY <1>0, <2>2, <2>3, <2>4, TalkByIdling
<1>2. CASE ProcessMessage(c)
  <2>1. PICK q : q = Head(out[c])
    OBVIOUS
  <2>2. PICK m : m = [type |-> "MSG", room |-> q.room, text |-> q.text, id |-> Len(history) + 1]
    OBVIOUS
  <2>3. PICK msg : msg = [room |-> q.room, user |-> c, text |-> q.text, live |-> TRUE]
    OBVIOUS
  <2>4. PICK r : r = q.room
    OBVIOUS
  <2>5. PICK g : g = Append(history, msg)
    OBVIOUS
  <2>6. Handle(c, "MSG") /\ history' = g /\ Broadcast(rows, r, m, {})
    BY <1>2, <2>1, <2>2, <2>3, <2>4, <2>5 DEF ProcessMessage
  <2>7. q \in Request /\ q.type = "MSG"
    BY <2>1, <2>6, HandleFacts
  <2>8. r \in RoomIds /\ q.text \in Texts
    BY <2>4, <2>7, RequestFacts
  <2>9. Len(history) + 1 \in MessageIds
    BY <1>0, <1>2, Constants DEF ProcessMessage, MessageIds, RoomsConstants
  <2>10. m \in Reply /\ m.type = "MSG" /\ m.room = r /\ m.id = Len(history) + 1 /\ m.text = q.text
    BY <2>2, <2>4, <2>8, <2>9 DEF Reply
  <2>11. msg \in Message /\ msg.room = r /\ msg.live /\ msg.text = q.text
    BY <2>3, <2>4, <2>8 DEF Message
  <2>12. /\ DOMAIN g = 1 .. Len(history) + 1 /\ g[Len(history) + 1] = msg
         /\ \A id \in DOMAIN history : g[id] = history[id]
    BY <1>0, <2>5, <2>11
  <2>13. Grows(history, history')
    BY <1>0, <2>6, <2>12 DEF Grows
  <2>14. SentIn(history', m)
    BY <1>0, <2>6, <2>10, <2>11, <2>12 DEF SentIn
  <2>15. \A p \in RoomIds : p # r => Untouched(history, history', p)
    BY <1>0, <2>6, <2>11, <2>12 DEF Untouched
  <2>16. ASSUME NEW d \in Clients \ exposed', Listening(d), rows[d][r] > 0
         PROVE  Keeps(WillHave(d, r), m, d, r, rows[d][r], history')
    <3>1. Due(rows[d][r], history, r, WillHave(d, r)) /\ WillHave(d, r) \in Had
      BY <1>0, <2>8, <2>16, DueNow
    <3>2. PICK v : v = WillHave(d, r)
      OBVIOUS
    <3>3. PICK n : n = rows[d][r]
      OBVIOUS
    <3>4. Keeps(v, m, d, r, n, Append(history, msg))
      BY <1>0, <2>10, <2>11, <2>16, <3>1, <3>2, <3>3, DueSent
    <3> QED
      BY <2>5, <2>6, <3>2, <3>3, <3>4
  <2> QED
    BY <1>0, <2>6, <2>8, <2>10, <2>13, <2>14, <2>15, <2>16, TalkByTelling
<1>3. ASSUME NEW type \in {"EDIT", "DELETE"}, Handle(c, type), NEW m, m = Head(out[c]),
             Broadcast(rows, m.room, m, {}), ExposeMembers(m.id, m.room),
             IF type = "EDIT" /\ ~history[m.id].live THEN history' = history
             ELSE history' = IF type = "EDIT" THEN [history EXCEPT ![m.id].text = m.text]
                                              ELSE [history EXCEPT ![m.id].live = FALSE]
      PROVE  TalkInv'
  <2>1. /\ m \in Request /\ m \in Reply /\ m.type = type /\ m.room \in RoomIds
        /\ m.id \in DOMAIN history /\ history[m.id].room = m.room
    <3>1. m \in Request /\ m.type = type /\ 1 \in DOMAIN out[c] /\ m = out[c][1]
      BY <1>3, HandleFacts
    <3> QED
      BY <1>0, <3>1, RequestFacts
  <2>2. PICK id : id = m.id
    OBVIOUS
  <2>3. PICK r : r = m.room
    OBVIOUS
  <2>4. /\ DOMAIN history' = DOMAIN history
        /\ \A i \in DOMAIN history : i # id => history'[i] = history[i]
        /\ history'[id].room = history[id].room
    <3>1. id \in DOMAIN history /\ history[id] \in Message
      BY <1>0, <2>1, <2>2
    <3>2. DOMAIN history[id] = {"room", "user", "text", "live"}
      BY <3>1 DEF Message
    <3> QED
      BY <1>3, <2>2, <3>1, <3>2
  <2>5. Grows(history, history')
    BY <2>4 DEF Grows
  <2>6. SentIn(history', m)
    BY <2>1, <2>2, <2>4 DEF SentIn
  <2>7. \A p \in RoomIds : p # r => Untouched(history, history', p)
    BY <2>1, <2>2, <2>3, <2>4 DEF Untouched
  <2>8. ASSUME NEW d \in Clients \ exposed', Listening(d), rows[d][r] > 0
        PROVE  Keeps(WillHave(d, r), m, d, r, rows[d][r], history')
    <3>1. Due(rows[d][r], history, r, WillHave(d, r)) /\ WillHave(d, r) \in Had
      BY <1>0, <2>1, <2>3, <2>8, DueNow
    <3>2. history[id].live
      <4>1. d \in online
        BY <2>8, ListenerOnline DEF ViewInv, View
      <4>2. d \in Members(r)
        BY <2>8 DEF Members
      <4> QED
        BY <1>3, <2>2, <2>3, <2>8, <4>1, <4>2 DEF ExposeMembers
    <3>3. Stands(history, r, id)
      BY <2>1, <2>2, <2>3, <3>2 DEF Stands
    <3>4. PICK v : v = WillHave(d, r)
      OBVIOUS
    <3>5. PICK n : n = rows[d][r]
      OBVIOUS
    <3>6. CASE type = "EDIT"
      <4>1. Keeps(v, m, d, r, n, [history EXCEPT ![m.id].text = m.text])
        BY <1>0, <2>1, <2>2, <2>3, <2>8, <3>1, <3>3, <3>4, <3>5, <3>6, DueEdited
      <4>2. history' = [history EXCEPT ![m.id].text = m.text]
        BY <1>3, <2>2, <3>2, <3>6
      <4> QED
        BY <3>4, <3>5, <4>1, <4>2
    <3>7. CASE type = "DELETE"
      <4>1. Keeps(v, m, d, r, n, [history EXCEPT ![m.id].live = FALSE])
        BY <1>0, <2>1, <2>2, <2>3, <2>8, <3>1, <3>3, <3>4, <3>5, <3>7, DueDeleted
      <4>2. history' = [history EXCEPT ![m.id].live = FALSE]
        BY <1>3, <3>7
      <4> QED
        BY <3>4, <3>5, <4>1, <4>2
    <3> QED
      BY <1>3, <3>6, <3>7
  <2>9. type \in {"MSG", "EDIT", "DELETE"} /\ r \in RoomIds /\ Broadcast(rows, r, m, {})
    BY <1>3, <2>1, <2>3
  <2> QED
    BY <1>0, <1>3, <2>1, <2>3, <2>5, <2>6, <2>7, <2>8, <2>9, TalkByTelling
<1>4. CASE EditMessage(c)
  <2>1. Handle(c, "EDIT")
    BY <1>4 DEF EditMessage
  <2>2. CASE UNCHANGED <<history, in, exposed>>
    <3>1. PICK m : m = [type |-> "SEARCH", rooms |-> {}]
      OBVIOUS
    <3>2. m \in Reply /\ m.type = "SEARCH"
      BY <3>1 DEF Reply
    <3>3. UNCHANGED exposed /\ history' = history /\ in' = in
      BY <2>2
    <3> QED
      BY <1>0, <2>1, <3>2, <3>3, TalkByIdling
  <2>3. PICK m : m = Head(out[c])
    OBVIOUS
  <2>4. CASE /\ history' = IF history[m.id].live THEN [history EXCEPT ![m.id].text = m.text]
                                                 ELSE history
             /\ Broadcast(rows, m.room, m, {})
             /\ ExposeMembers(m.id, m.room)
    BY <1>3, <2>1, <2>3, <2>4
  <2> QED
    BY <1>4, <2>2, <2>3, <2>4 DEF EditMessage
<1>5. CASE DeleteMessage(c)
  <2>1. PICK m : m = Head(out[c])
    OBVIOUS
  <2>2. /\ Handle(c, "DELETE") /\ history' = [history EXCEPT ![m.id].live = FALSE]
        /\ Broadcast(rows, m.room, m, {}) /\ ExposeMembers(m.id, m.room)
    BY <1>5, <2>1 DEF DeleteMessage
  <2> QED
    BY <1>3, <2>1, <2>2
<1> QED
  BY <1>1, <1>2, <1>4, <1>5

LEMMA LeaveRequest ==
    ASSUME NEW q \in Request, q.type = "LEAVE"
    PROVE  q = [type |-> "LEAVE", room |-> q.room]
BY DEF Request

\* A room whose members stay the same.
LEMMA KeepsElsewhere ==
    ASSUME TypeOK, TalkInv, NEW d \in Clients \ exposed, Listening(d), NEW p \in RoomIds,
           NEW m \in Reply, m.type \in {"JOIN", "CREATE", "LEAVE", "DIRECT"},
           m.room # p \/ (m.type # "DIRECT" /\ m.user # d) \/ in'[d] = in[d],
           rows'[d][p] > 0 <=> rows[d][p] > 0, history' = history
    PROVE  KeepsSent(d, m, p)
<1>1. Due(rows[d][p], history, p, WillHave(d, p)) /\ WillHave(d, p) \in Had
  BY DueNow
<1>2. Untouched(history, history, p)
  BY DEF Untouched
<1>3. Due(rows'[d][p], history', p, WillHave(d, p))
  BY <1>1, <1>2, DueStill
<1>4. CASE in'[d] = in[d]
  BY <1>3, <1>4, IdleKeeps
<1>5. CASE m.room # p \/ (m.type # "DIRECT" /\ m.user # d)
  <2>1. Idle(WillHave(d, p), m, d, p)
    BY <1>1, <1>5, IdleFacts
  <2> QED
    BY <1>3, <2>1, IdleKeeps
<1> QED
  BY <1>4, <1>5

\* A room that d enters.
LEMMA KeepsEntered ==
    ASSUME TypeOK, TalkInv, NEW d \in Clients \ exposed, Listening(d), NEW p \in RoomIds,
           NEW m \in Reply, m.room = p, ~(rows[d][p] > 0), rows'[d][p] > 0, history' = history,
           in'[d] # in[d], NEW s, AgreesWith(history, p, s),
           \/ m.type \in {"JOIN", "CREATE"} /\ m.user = d /\ m.shown = s
           \/ m.type = "DIRECT" /\ ~m.exist /\ s = <<>>
    PROVE  KeepsSent(d, m, p)
<1>1. Due(rows[d][p], history, p, WillHave(d, p)) /\ WillHave(d, p) \in Had
  BY DueNow
<1>2. PICK v : v = WillHave(d, p)
  OBVIOUS
<1>3. v \in Had /\ ~v.known
  BY <1>1, <1>2 DEF Due
<1>4. PICK n : n = rows'[d][p]
  OBVIOUS
<1>5. Keeps(v, m, d, p, n, history)
  BY <1>3, <1>4, DueEntered
<1> QED
  BY <1>2, <1>4, <1>5 DEF KeepsSent

\* A room that is to be created has no messages.
LEMMA NewRoomEmpty ==
    ASSUME OfRooms, NEW r, r \notin DOMAIN rooms
    PROVE  AgreesWith(history, r, <<>>)
BY DEF OfRooms, AgreesWith, Stands, InOrder

LEMMA TalkMembersStep ==
    ASSUME RoomsInv, ViewInv, TalkInv, NEW c \in Clients,
           JoinRoom(c) \/ CreateRoom(c) \/ LeaveRoom(c) \/ DirectMessage(c)
    PROVE  TalkInv'
<1>0. /\ TypeOK /\ OfRooms /\ rows \in [Clients -> [RoomIds -> Nat]]
      /\ \A d \in Clients, r \in RoomIds : rows[d][r] \in Nat
      /\ \A d \in Clients : Listening(d) => d \in online
      /\ \A d \in Clients \ exposed, r \in RoomIds : rows[d][r] <= 1
      /\ Len(rooms) \in Nat /\ DOMAIN rooms = 1 .. Len(rooms)
  <2>1. TypeOK /\ OfRooms
    BY DEF RoomsInv
  <2>2. rows \in [Clients -> [RoomIds -> Nat]]
    BY <2>1 DEF TypeOK
  <2>3. \A d \in Clients : Listening(d) => d \in online
    BY ListenerOnline DEF ViewInv, View
  <2>4. RowsOnce
    BY TalkInvIs
  <2>5. Len(rooms) \in Nat /\ DOMAIN rooms = 1 .. Len(rooms)
    BY <2>1, RoomsNumbered
  <2> QED
    BY <2>1, <2>2, <2>3, <2>4, <2>5 DEF RowsOnce
<1>a. /\ UNCHANGED userState /\ exposed \subseteq exposed' /\ history' = history
      /\ Grows(history, history')
  <2>1. UNCHANGED userState /\ exposed \subseteq exposed' /\ history' = history
    BY DEF JoinRoom, CreateRoom, LeaveRoom, DirectMessage
  <2> QED
    BY <2>1 DEF Grows
<1>e. ASSUME NEW type, Handle(c, type), NEW q, q = Head(out[c])
      PROVE  q \in Request /\ q.type = type /\ q = out[c][1] /\ AskedOfRooms(c, q)
  <2>1. q \in Request /\ q.type = type /\ 1 \in DOMAIN out[c] /\ q = out[c][1]
    BY <1>0, <1>e, HandleFacts
  <2> QED
    BY <1>0, <2>1 DEF OfRooms
<1>1. CASE JoinRoom(c)
  <2>1. PICK r : r = Head(out[c]).room
    OBVIOUS
  <2>2. PICK s : s = Latest(r, Recent)
    OBVIOUS
  <2>3. PICK m : m = [type |-> "JOIN", room |-> r, user |-> c, shown |-> s]
    OBVIOUS
  <2>4. PICK new : new = [rows EXCEPT ![c][r] = rows[c][r] + 1]
    OBVIOUS
  <2>5. /\ Handle(c, "JOIN") /\ rows' = new /\ Broadcast(new, r, m, {})
        /\ exposed' = IF rows[c][r] > 0 THEN exposed \cup {c} ELSE exposed
    BY <1>1, <2>1, <2>2, <2>3, <2>4 DEF JoinRoom
  <2>6. r \in RoomIds
    BY <1>e, <2>1, <2>5, RequestFacts
  <2>7. m \in Reply /\ m.type = "JOIN" /\ m.room = r /\ m.user = c /\ m.shown = s
    BY <1>0, <2>2, <2>3, <2>6, LatestListed DEF Reply
  <2>8. /\ new \in [Clients -> [RoomIds -> Nat]] /\ new[c][r] = rows[c][r] + 1
        /\ \A d \in Clients, p \in RoomIds : d # c \/ p # r => new[d][p] = rows[d][p]
    <3>1. rows[c][r] + 1 \in Nat
      BY <1>0, <2>6
    <3> QED
      BY <1>0, <2>4, <2>6, <3>1, RowsUpdate
  <2>9. AgreesWith(history, r, s)
    BY <1>0, <2>2, LatestAgrees
  <2>10. SentIn(history', m)
    BY <1>a, <2>7, <2>9 DEF SentIn, AllIn, AgreesWith
  <2>11. \A d \in Clients \ exposed', p \in RoomIds : rows'[d][p] <= 1
    <3> SUFFICES ASSUME NEW d \in Clients \ exposed', NEW p \in RoomIds
                 PROVE  rows'[d][p] <= 1
      OBVIOUS
    <3>1. CASE d # c \/ p # r
      BY <1>0, <1>a, <2>5, <2>8, <3>1
    <3>2. CASE d = c /\ p = r
      <4>1. ~(rows[c][r] > 0)
        BY <2>5, <3>2
      <4>2. rows[c][r] = 0
        BY <1>0, <2>6, <4>1
      <4> QED
        BY <2>5, <2>8, <3>2, <4>2
    <3> QED
      BY <3>1, <3>2
  <2>12. Sends(m)
    BY <1>0, <2>5, <2>6, <2>7, <2>8, BroadcastSends
  <2>13. ASSUME NEW d \in Clients \ exposed'
         PROVE  /\ SentOne(d, m)
                /\ Listening(d) => \A p \in RoomIds : KeepsSent(d, m, p)
    <3>0. IsReached(new, r, m, {}, d)
      BY <1>0, <2>5, <2>6, <2>7, <2>8, ToldOnce
    <3>1. SentOne(d, m)
      BY <2>5, <2>6, <2>11, <3>0 DEF IsReached
    <3>2. ASSUME Listening(d), NEW p \in RoomIds
          PROVE  KeepsSent(d, m, p)
      <4>0. d \in Clients \ exposed
        BY <1>a
      <4>1. CASE d # c \/ p # r
        <5>1. rows'[d][p] > 0 <=> rows[d][p] > 0
          BY <2>5, <2>8, <4>1
        <5>2. m.room # p \/ (m.type # "DIRECT" /\ m.user # d)
          BY <2>7, <4>1
        <5> QED
          BY <1>0, <1>a, <2>7, <3>2, <4>0, <5>1, <5>2, KeepsElsewhere
      <4>2. CASE d = c /\ p = r
        <5>1. ~(rows[d][p] > 0)
          BY <2>5, <4>2
        <5>2. rows'[d][p] = 1
          <6>1. rows[c][r] = 0
            BY <1>0, <2>6, <4>2, <5>1
          <6> QED
            BY <2>5, <2>8, <4>2, <6>1
        <5>3. in'[d] # in[d]
          <6>1. d \in online /\ new[d][r] > 0
            BY <1>0, <2>5, <3>2, <4>2, <5>2
          <6> QED
            BY <3>0, <6>1 DEF IsReached
        <5>4. m.type \in {"JOIN", "CREATE"} /\ m.user = d /\ m.shown = s /\ m.room = p
          BY <2>7, <4>2
        <5>5. rows'[d][p] > 0 /\ AgreesWith(history, p, s)
          BY <2>9, <4>2, <5>2
        <5> QED
          BY <1>0, <1>a, <2>7, <3>2, <4>0, <5>1, <5>3, <5>4, <5>5, KeepsEntered
      <4> QED
        BY <4>1, <4>2
    <3> QED
      BY <3>1, <3>2
  <2>14. RowsOnce'
    BY <2>11 DEF RowsOnce
  <2>15. m.type \notin {"AUTH", "LOAD_MORE", "LEAVE"} /\ "JOIN" \notin {"AUTH", "LOAD_MORE"}
    BY <2>7
  <2> QED
    BY <1>0, <1>a, <2>5, <2>7, <2>10, <2>12, <2>13, <2>14, <2>15, TalkByServer
<1>2. CASE LeaveRoom(c)
  <2>1. PICK q : q = Head(out[c])
    OBVIOUS
  <2>2. PICK r : r = q.room
    OBVIOUS
  <2>3. PICK m : m = [type |-> "LEAVE", room |-> r, user |-> c]
    OBVIOUS
  <2>4. PICK new : new = [rows EXCEPT ![c][r] = 0]
    OBVIOUS
  <2>5. Handle(c, "LEAVE") /\ rows' = new /\ Broadcast(new, r, m, {c})
    BY <1>2, <2>1, <2>2, <2>3, <2>4 DEF LeaveRoom
  <2>6. q \in Request /\ q.type = "LEAVE" /\ q = out[c][1]
    BY <1>e, <2>1, <2>5
  <2>7. r \in RoomIds /\ out[c][1] = [type |-> "LEAVE", room |-> r]
    BY <2>2, <2>6, RequestFacts, LeaveRequest
  <2>8. m \in Reply /\ m.type = "LEAVE" /\ m.room = r /\ m.user = c
    BY <2>3, <2>7 DEF Reply
  <2>9. /\ new \in [Clients -> [RoomIds -> Nat]] /\ new[c][r] = 0
        /\ \A d \in Clients, p \in RoomIds : d # c \/ p # r => new[d][p] = rows[d][p]
    BY <1>0, <2>4, <2>7, RowsUpdate
  <2>10. SentIn(history', m)
    BY <2>8 DEF SentIn
  <2>11. \A d \in Clients \ exposed', p \in RoomIds : rows'[d][p] <= 1
    <3> SUFFICES ASSUME NEW d \in Clients \ exposed', NEW p \in RoomIds
                 PROVE  rows'[d][p] <= 1
      OBVIOUS
    <3>1. d \in Clients \ exposed /\ rows[d][p] <= 1
      BY <1>0, <1>a
    <3>2. rows'[d][p] = 0 \/ rows'[d][p] = rows[d][p]
      BY <2>5, <2>9
    <3> QED
      BY <3>1, <3>2
  <2>12. Sends(m)
    BY <1>0, <2>5, <2>7, <2>8, <2>9, BroadcastSends
  <2>13. ASSUME NEW d \in Clients \ exposed'
         PROVE  /\ SentOne(d, m)
                /\ Listening(d) => \A p \in RoomIds : KeepsSent(d, m, p)
    <3>0. IsReached(new, r, m, {c}, d)
      BY <1>0, <2>5, <2>7, <2>8, <2>9, LeaverTold
    <3>1. SentOne(d, m)
      BY <2>5, <2>7, <2>11, <3>0 DEF IsReached
    <3>2. ASSUME Listening(d), NEW p \in RoomIds
          PROVE  KeepsSent(d, m, p)
      <4>0. d \in Clients \ exposed
        BY <1>a
      <4>1. CASE d # c \/ p # r
        <5>1. rows'[d][p] > 0 <=> rows[d][p] > 0
          BY <2>5, <2>9, <4>1
        <5>2. m.room # p \/ (m.type # "DIRECT" /\ m.user # d)
          BY <2>8, <4>1
        <5> QED
          BY <1>0, <1>a, <2>8, <3>2, <4>0, <5>1, <5>2, KeepsElsewhere
      <4>2. CASE d = c /\ p = r
        <5>1. in'[d] # in[d]
          BY <3>0, <4>2 DEF IsReached
        <5>2. WillHave(d, p) \in Had
          BY <1>0, <3>2, <4>0, DueNow
        <5>3. PICK v : v = WillHave(d, p)
          OBVIOUS
        <5>4. m.room = p /\ m.user = d /\ v \in Had /\ rows'[d][p] = 0
          BY <2>5, <2>8, <2>9, <4>2, <5>2, <5>3
        <5>5. Keeps(v, m, d, p, 0, history)
          BY <2>8, <5>4, DueLeft
        <5> QED
          BY <1>a, <5>1, <5>3, <5>4, <5>5 DEF KeepsSent
      <4> QED
        BY <4>1, <4>2
    <3> QED
      BY <3>1, <3>2
  <2>14. RowsOnce'
    BY <2>11 DEF RowsOnce
  <2>15. m.type \notin {"AUTH", "LOAD_MORE"} /\ "LEAVE" \notin {"AUTH", "LOAD_MORE"}
         /\ m.user = c /\ out[c][1] = [type |-> "LEAVE", room |-> m.room]
    BY <2>7, <2>8
  <2> QED
    BY <1>0, <1>a, <2>5, <2>8, <2>10, <2>12, <2>13, <2>14, <2>15, TalkByServer
<1>3. CASE CreateRoom(c)
  <2>1. Handle(c, "CREATE")
    BY <1>3 DEF CreateRoom
  <2>2. CASE UNCHANGED <<rooms, rows, in>>
    <3>1. PICK m : m = [type |-> "SEARCH", rooms |-> {}]
      OBVIOUS
    <3>2. m \in Reply /\ m.type = "SEARCH"
      BY <3>1 DEF Reply
    <3>3. UNCHANGED exposed /\ rows' = rows /\ in' = in
      BY <1>3, <2>2 DEF CreateRoom
    <3> QED
      BY <1>0, <1>a, <2>1, <3>2, <3>3, TalkByIdling
  <2>3. PICK r : r = Len(rooms) + 1
    OBVIOUS
  <2>4. PICK m : m = [type |-> "CREATE", room |-> r, user |-> c, shown |-> <<>>]
    OBVIOUS
  <2>5. CASE /\ r <= MaxRooms
             /\ rows' = [rows EXCEPT ![c][r] = @ + 1]
             /\ Answer(c, m)
    <3>1. r \in RoomIds /\ r \notin DOMAIN rooms
      BY <1>0, <2>3, <2>5, Constants DEF RoomIds, RoomsConstants
    <3>2. m \in Reply /\ m.type = "CREATE" /\ m.room = r /\ m.user = c /\ m.shown = <<>>
      BY <2>4, <3>1 DEF Reply
    <3>3. rows[c][r] = 0
      <4>1. ~(rows[c][r] > 0)
        BY <1>0, <3>1 DEF OfRooms
      <4> QED
        BY <1>0, <3>1, <4>1
    <3>4. /\ rows'[c][r] = 1
          /\ \A d \in Clients, p \in RoomIds : d # c \/ p # r => rows'[d][p] = rows[d][p]
      <4>1. rows[c][r] + 1 \in Nat /\ rows[c][r] + 1 = 1
        BY <3>3
      <4> QED
        BY <1>0, <2>5, <3>1, <4>1, RowsUpdate
    <3>5. AgreesWith(history, r, <<>>)
      BY <1>0, <3>1, NewRoomEmpty
    <3>6. SentIn(history', m)
      BY <3>2 DEF SentIn, AllIn
    <3>7. RowsOnce'
      BY <1>0, <1>a, <3>4 DEF RowsOnce
    <3>8. Sends(m)
      BY <1>0, <2>5, <3>2, AnswerSends
    <3>9. ASSUME NEW d \in Clients \ exposed'
          PROVE  /\ SentOne(d, m)
                 /\ Listening(d) => \A p \in RoomIds : KeepsSent(d, m, p)
      <4>1. SentOne(d, m)
        BY <1>0, <2>5, <3>2, AnswerOnce
      <4>2. ASSUME Listening(d), NEW p \in RoomIds
            PROVE  KeepsSent(d, m, p)
        <5>0. d \in Clients \ exposed
          BY <1>a
        <5>1. CASE d # c \/ p # r
          <6>1. rows'[d][p] > 0 <=> rows[d][p] > 0
            BY <3>4, <5>1
          <6>2. m.room # p \/ (m.type # "DIRECT" /\ m.user # d)
            BY <3>2, <5>1
          <6> QED
            BY <1>0, <1>a, <3>2, <4>2, <5>0, <6>1, <6>2, KeepsElsewhere
        <5>2. CASE d = c /\ p = r
          <6>1. ~(rows[d][p] > 0) /\ rows'[d][p] > 0 /\ AgreesWith(history, p, <<>>)
            BY <3>3, <3>4, <3>5, <5>2
          <6>2. in'[d] # in[d]
            BY <1>0, <2>5, <3>2, <5>2, AnswerGains
          <6>3. m.type \in {"JOIN", "CREATE"} /\ m.user = d /\ m.shown = <<>> /\ m.room = p
            BY <3>2, <5>2
          <6> QED
            BY <1>0, <1>a, <3>2, <4>2, <5>0, <6>1, <6>2, <6>3, KeepsEntered
        <5> QED
          BY <5>1, <5>2
      <4> QED
        BY <4>1, <4>2
    <3>10. m.type \notin {"AUTH", "LOAD_MORE", "LEAVE"} /\ "CREATE" \notin {"AUTH", "LOAD_MORE"}
      BY <3>2
    <3> QED
      BY <1>0, <1>a, <2>1, <3>2, <3>6, <3>7, <3>8, <3>9, <3>10, TalkByServer
  <2> QED
    BY <1>3, <2>2, <2>3, <2>4, <2>5 DEF CreateRoom
<1>4. CASE DirectMessage(c)
  <2>1. PICK q : q = Head(out[c])
    OBVIOUS
  <2>2. PICK d : d = q.other
    OBVIOUS
  <2>3. PICK r : r = Len(rooms) + 1
    OBVIOUS
  <2>4. PICK mine : mine = [rows EXCEPT ![c][r] = rows[c][r] + 1]
    OBVIOUS
  <2>5. PICK new : new = [mine EXCEPT ![d][r] = mine[d][r] + 1]
    OBVIOUS
  <2>6. PICK m : m = [type |-> "DIRECT", room |-> r, exist |-> FALSE]
    OBVIOUS
  <2>7. Handle(c, "DIRECT") /\ UNCHANGED exposed
    BY <1>4 DEF DirectMessage
  <2>8. d \in Clients /\ d # c
    BY <1>e, <2>1, <2>2, <2>7, RequestFacts DEF AskedOfRooms
  <2>9. ASSUME NEW old \in DirectRooms(c, d), NEW n, n = [type |-> "DIRECT", room |-> old, exist |-> TRUE],
               Answer(c, n), UNCHANGED <<rooms, rows>>
        PROVE  TalkInv'
    <3>1. old \in RoomIds
      BY <1>0, RoomsNumbered DEF DirectRooms
    <3>2. n \in Reply /\ n.type = "DIRECT" /\ n.exist
      BY <2>9, <3>1 DEF Reply
    <3>3. rows' = rows
      BY <2>9
    <3>4. "DIRECT" \notin {"AUTH", "LOAD_MORE"}
      OBVIOUS
    <3> QED
      BY <1>0, <1>a, <2>7, <2>9, <3>2, <3>3, <3>4, TalkByIdling
  <2>10. CASE /\ r <= MaxRooms
              /\ rows' = new
              /\ Broadcast(new, r, m, {})
    <3>1. r \in RoomIds /\ r \notin DOMAIN rooms
      BY <1>0, <2>3, <2>10, Constants DEF RoomIds, RoomsConstants
    <3>2. m \in Reply /\ m.type = "DIRECT" /\ ~m.exist /\ m.room = r
      BY <2>6, <3>1 DEF Reply
    <3>3. \A u \in Clients : rows[u][r] = 0
      <4>1. \A u \in Clients : ~(rows[u][r] > 0)
        BY <1>0, <3>1 DEF OfRooms
      <4> QED
        BY <1>0, <3>1, <4>1
    <3>4. /\ mine \in [Clients -> [RoomIds -> Nat]] /\ mine[c][r] = 1
          /\ \A u \in Clients, p \in RoomIds : u # c \/ p # r => mine[u][p] = rows[u][p]
      <4>1. rows[c][r] + 1 = 1 /\ 1 \in Nat
        BY <3>3
      <4> QED
        BY <1>0, <2>4, <3>1, <4>1, RowsUpdate
    <3>5. mine[d][r] = 0
      BY <2>8, <3>1, <3>3, <3>4
    <3>6. /\ new \in [Clients -> [RoomIds -> Nat]] /\ new[d][r] = 1
          /\ \A u \in Clients, p \in RoomIds : u # d \/ p # r => new[u][p] = mine[u][p]
      <4>1. mine[d][r] + 1 = 1 /\ 1 \in Nat
        BY <3>5
      <4> QED
        BY <2>5, <2>8, <3>1, <3>4, <4>1, RowsUpdate
    <3>7. /\ \A u \in Clients, p \in RoomIds : p # r => new[u][p] = rows[u][p]
          /\ \A u \in Clients : new[u][r] \in {0, 1}
      <4>1. \A u \in Clients, p \in RoomIds : p # r => new[u][p] = rows[u][p]
        BY <3>4, <3>6
      <4>2. \A u \in Clients : u # d => new[u][r] = mine[u][r]
        BY <3>1, <3>6
      <4>3. \A u \in Clients : u # c => mine[u][r] = 0
        BY <3>1, <3>3, <3>4
      <4> QED
        BY <3>4, <3>6, <4>1, <4>2, <4>3
    <3>8. AgreesWith(history, r, <<>>)
      BY <1>0, <3>1, NewRoomEmpty
    <3>9. SentIn(history', m)
      BY <3>2 DEF SentIn
    <3>10. RowsOnce'
      <4> SUFFICES ASSUME NEW u \in Clients \ exposed', NEW p \in RoomIds
                   PROVE  rows'[u][p] <= 1
        BY DEF RowsOnce
      <4>1. rows'[u][p] = rows[u][p] \/ rows'[u][p] \in {0, 1}
        BY <2>10, <3>7
      <4>2. rows[u][p] <= 1
        BY <1>0, <1>a
      <4> QED
        BY <4>1, <4>2
    <3>11. Sends(m)
      BY <1>0, <2>10, <3>1, <3>2, <3>6, BroadcastSends
    <3>12. ASSUME NEW u \in Clients \ exposed'
           PROVE  /\ SentOne(u, m)
                  /\ Listening(u) => \A p \in RoomIds : KeepsSent(u, m, p)
      <4>1. SentOne(u, m) /\ (in'[u] # in[u] <=> u \in online /\ new[u][r] > 0)
        <5>1. new[u][r] <= 1
          BY <3>7
        <5>2. IsReached(new, r, m, {}, u)
          BY <1>0, <2>10, <3>1, <3>2, <3>6, ToldOnce
        <5> QED
          BY <5>1, <5>2 DEF IsReached
      <4>2. ASSUME Listening(u), NEW p \in RoomIds
            PROVE  KeepsSent(u, m, p)
        <5>0. u \in Clients \ exposed
          BY <1>a
        <5>1. CASE p # r \/ ~(new[u][r] > 0)
          <6>1. rows'[u][p] > 0 <=> rows[u][p] > 0
            BY <2>10, <3>3, <3>7, <5>1
          <6>2. m.room # p \/ in'[u] = in[u]
            BY <3>2, <4>1, <5>1
          <6> QED
            BY <1>0, <1>a, <3>2, <4>2, <5>0, <6>1, <6>2, KeepsElsewhere
        <5>2. CASE p = r /\ new[u][r] > 0
          <6>1. ~(rows[u][p] > 0) /\ rows'[u][p] > 0 /\ AgreesWith(history, p, <<>>)
            BY <2>10, <3>3, <3>8, <5>2
          <6>2. in'[u] # in[u]
            BY <1>0, <4>1, <4>2, <5>2
          <6>3. m.type = "DIRECT" /\ ~m.exist /\ m.room = p
            BY <3>2, <5>2
          <6> QED
            BY <1>0, <1>a, <3>2, <4>2, <5>0, <6>1, <6>2, <6>3, KeepsEntered
        <5> QED
          BY <5>1, <5>2
      <4> QED
        BY <4>1, <4>2
    <3>13. m.type \notin {"AUTH", "LOAD_MORE", "LEAVE"} /\ "DIRECT" \notin {"AUTH", "LOAD_MORE"}
      BY <3>2
    <3> QED
      BY <1>0, <1>a, <2>7, <3>2, <3>9, <3>10, <3>11, <3>12, <3>13, TalkByServer
  <2> QED
    BY <1>4, <2>1, <2>2, <2>3, <2>4, <2>5, <2>6, <2>9, <2>10 DEF DirectMessage
<1> QED
  BY <1>1, <1>2, <1>3, <1>4

\* Rows of history are messages of their room.
LEMMA RowsAreOf ==
    ASSUME NEW t, NEW r, NEW below, AreRows(t, r, below)
    PROVE  AllIn(history, r, t)
BY DEF AreRows, AllIn, Stands

LEMMA TalkLoadStep ==
    ASSUME TypeOK, ViewInv, TalkInv, NEW c \in Clients, LoadHistory(c)
    PROVE  TalkInv'
<1>1. PICK q : q = Head(out[c])
  OBVIOUS
<1>2. PICK r : r = q.room
  OBVIOUS
<1>3. PICK id : id = q.last
  OBVIOUS
<1>4. PICK t : t = LastOf(Stored(r, id), Batch)
  OBVIOUS
<1>5. PICK m : m = [type |-> "LOAD_MORE", room |-> r, shown |-> t]
  OBVIOUS
<1>6. /\ Handle(c, "LOAD_MORE") /\ Answer(c, m) /\ UNCHANGED userState /\ rows' = rows
      /\ history' = history /\ exposed' = exposed
  BY <1>1, <1>2, <1>3, <1>4, <1>5 DEF LoadHistory, tables
<1>7. /\ q \in Request /\ q.type = "LOAD_MORE" /\ q = out[c][1] /\ 1 \in DOMAIN out[c]
      /\ out' \in [Clients -> Seq(Request)] /\ Takes(out[c], out'[c])
      /\ \A d \in Clients : d # c => out'[d] = out[d]
  BY <1>1, <1>6, HandleFacts
<1>8. r \in RoomIds
  BY <1>2, <1>7, RequestFacts
<1>9. AreRows(t, r, id) /\ t \in Seq(Entry)
  <2>1. Batch \in Nat
    BY Constants DEF RoomsConstants
  <2>2. AreRows(t, r, id)
    BY <1>4, <2>1, LastRows
  <2> QED
    BY <2>2 DEF AreRows
<1>10. m \in Reply /\ m.type = "LOAD_MORE" /\ m.room = r /\ m.shown = t
  BY <1>5, <1>8, <1>9 DEF Reply
<1>11. Sends(m) /\ SentOne(c, m) /\ \A d \in Clients : d # c => in'[d] = in[d]
  BY <1>6, <1>10, AnswerSends, AnswerOnce, AnswerFacts
<1>12. OfHistory'
  <2>1. AllIn(history, r, t)
    BY <1>9, RowsAreOf
  <2>2. SentIn(history', m)
    BY <1>6, <1>10, <2>1 DEF SentIn
  <2>3. Grows(history, history')
    BY <1>6 DEF Grows
  <2>4. TakesOnly
    BY <1>6, HandleTakes
  <2> QED
    BY <1>6, <1>11, <2>2, <2>3, <2>4, OfHistoryByServer, TalkInvIs
<1>13. RowsOnce' /\ OnlyExposedCrash'
  BY <1>6, TalkInvIs DEF RowsOnce, OnlyExposedCrash, userState
<1>14. ASSUME NEW d \in Clients \ exposed', d # c
       PROVE  Told(d)'
  <2>1. Told(d)
    BY <1>6, <1>14, TalkInvIs
  <2> QED
    BY <1>6, <1>7, <1>11, <1>14, <2>1, ToldUntouched DEF userState, lists
<1>15. ASSUME c \notin exposed'
       PROVE  Told(c)'
  <2>0. /\ Told(c) /\ c \in Clients \ exposed /\ out[c] # <<>>
        /\ phase'[c] = phase[c] /\ canLoad'[c] = canLoad[c]
        /\ LoadsOk(phase[c], canLoad[c], out[c], in[c], AllHave(c))
    <3>1. Told(c)
      BY <1>6, <1>15, TalkInvIs
    <3> QED
      BY <1>6, <1>7, <1>15, <3>1, LoadsIs DEF Told, userState, lists, TypeOK
  <2>1. /\ phase[c] = "waiting" => \A j \in DOMAIN in[c] : in[c][j].type # "AUTH"
        /\ phase[c] # "building"
    <3>1. SignInOrder(c)
      BY DEF ViewInv, View
    <3>2. phase[c] = "waiting" => Answers(c) = {}
      BY <2>0, <3>1, SignInIs
    <3>3. phase[c] # "building"
      BY <2>0 DEF LoadsOk
    <3> QED
      BY <3>2, <3>3 DEF Answers
  <2>2. Listening(c)' => phase[c] = "online" /\ Listening(c)
    <3>1. Listening(c)' => Listening(c)
      BY <1>10, <1>11, <2>0, ListeningBack
    <3> QED
      BY <2>1, <3>1 DEF Listening
  <2>3. Listening(c)' => Talk(c)'
    <3> SUFFICES ASSUME phase[c] = "online", Listening(c)
                 PROVE  Talk(c)'
      BY <2>2
    <3>1. HeadIs(WillHave(c, r), id)
      <4>1. 1 \in LoadsOf(out[c])
        BY <1>7 DEF LoadsOf
      <4>2. FromFirst(out[c], 1, AllHave(c))
        BY <2>0, <4>1 DEF LoadsOk
      <4> QED
        BY <1>2, <1>3, <1>7, <1>8, <4>2 DEF FromFirst, AllHave
    <3>2. ASSUME NEW p \in RoomIds
          PROVE  Has(c, p)' = Has(c, p) /\ KeepsSent(c, m, p)
      <4>1. Has(c, p)' = Has(c, p)
        BY <1>6, HasKept DEF userState, lists
      <4>2. Due(rows[c][p], history, p, WillHave(c, p)) /\ WillHave(c, p) \in Had
        BY <2>0, DueNow
      <4>3. PICK v : v = WillHave(c, p)
        OBVIOUS
      <4>4. PICK n : n = rows[c][p]
        OBVIOUS
      <4>5. Due(rows'[c][p], history', p, WillHave(c, p))
        BY <1>6, <4>2
      <4>6. CASE p # r
        <5>1. Idle(WillHave(c, p), m, c, p)
          BY <1>10, <4>2, <4>6, IdleFacts
        <5> QED
          BY <4>1, <4>5, <5>1, IdleKeeps
      <4>7. CASE p = r
        <5>1. HeadIs(v, id) /\ v \in Had /\ Due(n, history, p, v) /\ m.room = p
              /\ AreRows(m.shown, p, id)
          BY <1>9, <1>10, <3>1, <4>2, <4>3, <4>4, <4>7
        <5>2. Keeps(v, m, c, p, n, history)
          BY <1>10, <5>1, DueOlder
        <5>3. Keeps(WillHave(c, p), m, c, p, rows'[c][p], history')
          BY <1>6, <4>3, <4>4, <5>2
        <5> QED
          BY <4>1, <4>5, <5>3 DEF KeepsSent
      <4> QED
        BY <4>6, <4>7
    <3>3. Talk(c) /\ m.type # "AUTH"
      BY <1>10, <2>0 DEF Told
    <3> QED
      BY <1>11, <3>2, <3>3, TalkGains
  <2>4. Loads(c)'
    <3>1. AddsOne(in[c], in'[c], m)
      BY <1>6, <1>10, AnswerFacts DEF AddsOne
    <3>2. out[c][1].type = "LOAD_MORE"
      BY <1>7
    <3>3. PICK x : x = AllHave(c)'
      OBVIOUS
    <3>4. LoadsOk(phase[c], canLoad[c], out'[c], in'[c], x)
      BY <1>7, <1>10, <2>0, <2>1, <3>1, <3>2, LoadsAnswered
    <3> QED
      BY <1>7, <2>0, <3>3, <3>4, LoadsWillBe
  <2> QED
    BY <2>3, <2>4 DEF Told
<1> QED
  BY <1>12, <1>13, <1>14, <1>15, TalkInvIs

LEMMA TalkSignInStep ==
    ASSUME RoomsInv, ViewInv, TalkInv, NEW c \in Clients, Authorization(c)
    PROVE  TalkInv'
<1>0. TypeOK /\ OfRooms /\ DOMAIN rooms = 1 .. Len(rooms)
  BY RoomsNumbered DEF RoomsInv
<1>1. PICK mine : mine = {r \in 1 .. Len(rooms) : rows[c][r] > 0}
  OBVIOUS
<1>2. PICK s : s = [r \in RoomIds |-> IF r \in mine THEN Latest(r, Recent) ELSE <<>>]
  OBVIOUS
<1>3. PICK m : m = [type |-> "AUTH", rooms |-> mine, shown |-> s]
  OBVIOUS
<1>4. /\ Handle(c, "AUTH") /\ Answer(c, m) /\ UNCHANGED userState /\ rows' = rows
      /\ history' = history /\ exposed' = exposed
  BY <1>1, <1>2, <1>3 DEF Authorization, tables
<1>5. mine \subseteq RoomIds
  BY <1>0, <1>1, RoomsNumbered
<1>6. s \in History /\ \A r \in RoomIds : s[r] = IF r \in mine THEN Latest(r, Recent) ELSE <<>>
  BY <1>0, <1>2, LatestListed DEF History
<1>7. m \in Reply /\ m.type = "AUTH" /\ m.rooms = mine /\ m.shown = s
  BY <1>3, <1>5, <1>6 DEF Reply
<1>8. /\ out[c][1].type = "AUTH" /\ 1 \in DOMAIN out[c]
      /\ out' \in [Clients -> Seq(Request)] /\ \A d \in Clients : d # c => out'[d] = out[d]
  BY <1>0, <1>4, HandleFacts
<1>9. AddsOne(in[c], in'[c], m) /\ \A d \in Clients : d # c => in'[d] = in[d]
  BY <1>0, <1>4, <1>7, AnswerFacts DEF AddsOne
<1>10. ASSUME NEW r \in RoomIds
       PROVE  /\ r \in mine <=> rows[c][r] > 0
              /\ r \in mine => AgreesWith(history, r, s[r])
              /\ r \notin mine => s[r] = <<>>
              /\ AllIn(history, r, s[r])
  <2>1. r \in mine <=> rows[c][r] > 0
    BY <1>0, <1>1 DEF OfRooms
  <2>2. r \in mine => AgreesWith(history, r, s[r])
    BY <1>0, <1>6, LatestAgrees
  <2>3. r \notin mine => s[r] = <<>>
    BY <1>6
  <2>4. AllIn(history, r, <<>>)
    BY DEF AllIn
  <2>5. r \in mine => AllIn(history, r, s[r])
    BY <2>2 DEF AgreesWith, AllIn
  <2> QED
    BY <2>1, <2>2, <2>3, <2>4, <2>5
<1>11. OfHistory'
  <2>1. SentIn(history', m)
    BY <1>4, <1>7, <1>10 DEF SentIn
  <2>2. Grows(history, history')
    BY <1>4 DEF Grows
  <2>3. TakesOnly /\ Sends(m)
    BY <1>0, <1>4, <1>7, HandleTakes, AnswerSends
  <2> QED
    BY <1>4, <2>1, <2>2, <2>3, OfHistoryByServer, TalkInvIs
<1>12. RowsOnce' /\ OnlyExposedCrash'
  BY <1>4, TalkInvIs DEF RowsOnce, OnlyExposedCrash, userState
<1>13. ASSUME NEW d \in Clients \ exposed', d # c
       PROVE  Told(d)'
  <2>1. Told(d)
    BY <1>4, <1>13, TalkInvIs
  <2> QED
    BY <1>0, <1>4, <1>8, <1>9, <1>13, <2>1, ToldUntouched DEF userState, lists
<1>14. ASSUME c \notin exposed'
       PROVE  Told(c)'
  <2>1. phase[c] = "waiting" /\ Answers(c) = {}
    <3>1. SignInOrder(c)
      BY DEF ViewInv, View
    <3>2. Asks(c, "AUTH") # {} /\ out[c] # <<>>
      BY <1>8 DEF Asks
    <3>3. phase[c] # "crashed"
      BY <1>4, <1>14, TalkInvIs DEF OnlyExposedCrash
    <3>4. phase[c] \in Phases
      BY <1>0 DEF TypeOK
    <3> QED
      BY <3>1, <3>2, <3>3, <3>4, SignInIs DEF Phases
  <2>2. Talk(c)'
    <3> SUFFICES ASSUME NEW r \in RoomIds
                 PROVE  TalkOf(Has(c, r)', in'[c], c, r, rows'[c][r], history')
      BY TalkIs
    <3>1. PICK x : x = [known |-> r \in m.rooms, list |-> m.shown[r]]
      OBVIOUS
    <3>2. x.known = (r \in mine) /\ x.list = s[r]
      BY <1>7, <3>1
    <3>3. Due(rows'[c][r], history', r, x)
      BY <1>4, <1>10, <3>2 DEF Due
    <3> QED
      BY <1>7, <1>9, <3>1, <3>3, TalkAnswered
  <2>3. Loads(c)'
    <3>1. \A j \in DOMAIN in'[c] : in'[c][j].type = "AUTH" => j = Len(in'[c])
      BY <1>9, <2>1 DEF Answers, AddsOne, Adds
    <3>2. \A k \in LoadsOf(in'[c]) : k \in 1 .. Len(in'[c]) /\ k # Len(in'[c])
      BY <1>7, <1>9 DEF LoadsOf, AddsOne, Adds
    <3>3. Len(in'[c]) \in Nat
      BY <1>9 DEF AddsOne, Adds
    <3>4. \A k \in LoadsOf(in'[c]), j \in DOMAIN in'[c] : in'[c][j].type = "AUTH" => k < j
      BY <3>1, <3>2, <3>3
    <3>5. phase'[c] = "waiting"
      BY <1>4, <2>1 DEF userState
    <3>6. LoadsOk(phase'[c], canLoad'[c], out'[c], in'[c], AllHave(c)')
      BY <3>4, <3>5 DEF LoadsOk
    <3> QED
      BY <1>8, <3>6, LoadsWillBe
  <2> QED
    BY <2>2, <2>3 DEF Told
<1> QED
  BY <1>11, <1>12, <1>13, <1>14, TalkInvIs

LEMMA TalkCrashedStep ==
    ASSUME TypeOK, TalkInv, NEW c \in Clients, EndOfFile(c)
    PROVE  TalkInv'
<1>1. /\ UNCHANGED userState /\ rows' = rows /\ history' = history /\ exposed' = exposed
      /\ in' = in /\ out' = [out EXCEPT ![c] = <<>>] /\ phase[c] = "crashed"
  BY DEF EndOfFile, tables
<1>2. out \in [Clients -> Seq(Request)]
  BY DEF TypeOK
<1>3. /\ out' \in [Clients -> Seq(Request)] /\ out'[c] = <<>>
      /\ \A d \in Clients : d # c => out'[d] = out[d]
  BY <1>1, <1>2
<1>4. c \in exposed
  BY <1>1, TalkInvIs DEF OnlyExposedCrash
<1>5. OfHistory'
  <2>1. PICK m : m = [type |-> "SEARCH", rooms |-> {}]
    OBVIOUS
  <2>2. SentIn(history', m)
    BY <2>1 DEF SentIn
  <2>3. Grows(history, history') /\ Sends(m)
    BY <1>1 DEF Grows, Sends
  <2>4. TakesOnly
    BY <1>3 DEF TakesOnly
  <2> QED
    BY <1>1, <2>2, <2>3, <2>4, OfHistoryByServer, TalkInvIs
<1>6. RowsOnce' /\ OnlyExposedCrash'
  BY <1>1, TalkInvIs DEF RowsOnce, OnlyExposedCrash, userState
<1>7. ASSUME NEW d \in Clients \ exposed'
      PROVE  Told(d)'
  <2>1. Told(d) /\ d # c
    BY <1>1, <1>4, <1>7, TalkInvIs
  <2> QED
    BY <1>1, <1>3, <2>1, ToldUntouched DEF userState, lists
<1> QED
  BY <1>5, <1>6, <1>7, TalkInvIs

-----------------------------------------------------------------------------
\* A step of a client.

\* Nothing of d is changed.
IsLeft(d) == /\ out'[d] = out[d] /\ in'[d] = in[d] /\ phase'[d] = phase[d] /\ snap'[d] = snap[d]
             /\ known'[d] = known[d] /\ shown'[d] = shown[d] /\ canLoad'[d] = canLoad[d]

LEMMA TalkByClient ==
    ASSUME TypeOK, TalkInv, TypeOK', NEW c \in Clients, OfHistory', rows' = rows,
           history' = history, exposed \subseteq exposed',
           \A d \in Clients : d # c => IsLeft(d),
           phase'[c] = "crashed" => phase[c] = "crashed" \/ c \in exposed',
           c \notin exposed' => Told(c)'
    PROVE  TalkInv'
<1>1. RowsOnce'
  BY TalkInvIs DEF RowsOnce
<1>2. OnlyExposedCrash'
  BY TalkInvIs DEF OnlyExposedCrash, IsLeft
<1>3. ASSUME NEW d \in Clients \ exposed'
      PROVE  Told(d)'
  <2>1. CASE d = c
    BY <1>3, <2>1
  <2>2. CASE d # c
    <3>1. Told(d) /\ IsLeft(d)
      BY <1>3, <2>2, TalkInvIs
    <3>2. out' \in [Clients -> Seq(Request)]
      BY DEF TypeOK
    <3> QED
      BY <3>1, <3>2, ToldUntouched DEF IsLeft
  <2> QED
    BY <2>1, <2>2
<1> QED
  BY <1>1, <1>2, <1>3, TalkInvIs

LEMMA OfHistoryKept ==
    ASSUME history' = history,
           \A d \in Clients, r \in RoomIds :
               AllOf(r, shown'[d][r]) /\ AllOf(r, snap'[d].shown[r]),
           \A d \in Clients : editing'[d] # NoEdit => IsOf(editing'[d].room, editing'[d].id),
           \A d \in Clients : \A k \in DOMAIN out'[d] :
               out'[d][k].type \in {"EDIT", "DELETE"} => IsOf(out'[d][k].room, out'[d][k].id),
           \A d \in Clients : \A k \in DOMAIN in'[d] : SentOfHistory(in'[d][k])
    PROVE  OfHistory'
<1>1. /\ \A r, id : IsOf(r, id)' <=> IsOf(r, id)
      /\ \A r, s : AllOf(r, s)' <=> AllOf(r, s)
      /\ \A m : SentOfHistory(m)' <=> SentOfHistory(m)
  BY DEF IsOf, AllOf, SentOfHistory
<1>2. ShownOf' /\ EditingOf' /\ ChangesOf' /\ AllSentOf'
  BY <1>1 DEF ShownOf, EditingOf, ChangesOf, AllSentOf
<1> QED
  BY <1>2, OfHistoryIs

\* A client asks for q.
LEMMA OfHistoryAsking ==
    ASSUME TypeOK, TalkInv, NEW c \in Clients, NEW use, NEW q \in Request, Ask(c, use, q),
           UNCHANGED <<history, in, snap, shown>>,
           \A d \in Clients : editing'[d] \in {editing[d], NoEdit},
           q.type \in {"EDIT", "DELETE"} => IsOf(q.room, q.id)
    PROVE  OfHistory'
<1>1. ShownOf /\ EditingOf /\ ChangesOf /\ AllSentOf
  BY OfHistoryIs, TalkInvIs
<1>2. \A d \in Clients, r \in RoomIds :
          AllOf(r, shown'[d][r]) /\ AllOf(r, snap'[d].shown[r])
  BY <1>1 DEF ShownOf
<1>3. \A d \in Clients : editing'[d] # NoEdit => IsOf(editing'[d].room, editing'[d].id)
  BY <1>1 DEF EditingOf
<1>4. ASSUME NEW d \in Clients, NEW k \in DOMAIN out'[d],
             out'[d][k].type \in {"EDIT", "DELETE"}
      PROVE  IsOf(out'[d][k].room, out'[d][k].id)
  <2>1. CASE d = c
    <3>1. Adds(out[c], out'[c], {q})
      BY AskFacts
    <3>2. (k \in DOMAIN out[c] /\ out'[c][k] = out[c][k]) \/ out'[c][k] = q
      BY <1>4, <2>1, <3>1 DEF Adds
    <3> QED
      BY <1>1, <1>4, <2>1, <3>2 DEF ChangesOf
  <2>2. CASE d # c
    <3>1. out'[d] = out[d]
      BY <2>2, AskFacts
    <3> QED
      BY <1>1, <1>4, <3>1 DEF ChangesOf
  <2> QED
    BY <2>1, <2>2
<1>5. \A d \in Clients : \A k \in DOMAIN in'[d] : SentOfHistory(in'[d][k])
  BY <1>1 DEF AllSentOf
<1> QED
  BY <1>2, <1>3, <1>4, <1>5, OfHistoryKept

LEMMA TalkByAsking ==
    ASSUME TypeOK, TypeOK', TalkInv, NEW c \in Clients, NEW use, NEW q \in Request,
           Ask(c, use, q), q.type # "LOAD_MORE",
           UNCHANGED <<tables, in, phase, snap, lists, exposed>>,
           \A d \in Clients : editing'[d] \in {editing[d], NoEdit},
           q.type \in {"EDIT", "DELETE"} => IsOf(q.room, q.id)
    PROVE  TalkInv'
<1>0. UNCHANGED <<rows, history, in, snap, known, shown, canLoad, phase, exposed>>
  BY DEF tables, lists
<1>1. OfHistory'
  BY <1>0, OfHistoryAsking
<1>2. \A d \in Clients : d # c => IsLeft(d)
  BY <1>0, AskFacts DEF IsLeft
<1>3. ASSUME c \notin exposed'
      PROVE  Told(c)'
  <2>1. Told(c) /\ phase[c] = "online"
    BY <1>0, <1>3, TalkInvIs, AskFacts
  <2>2. \A r \in RoomIds : Has(c, r)' = Has(c, r)
    BY <1>0, HasKept
  <2>3. Talk(c)' /\ \A r \in RoomIds : WillHave(c, r)' = WillHave(c, r)
    BY <1>0, <2>1, <2>2, TalkUntouched DEF Told, Listening
  <2>4. Loads(c)'
    <3>1. LoadsOk("online", canLoad[c], out[c], in[c], AllHave(c))
      BY <2>1, LoadsIs DEF Told, TypeOK
    <3>2. AddsOne(out[c], out'[c], q)
      BY AskFacts DEF AddsOne
    <3>3. LoadsOk("online", canLoad[c], out'[c], in[c], AllHave(c))
      BY <3>1, <3>2, LoadsAsking
    <3>4. AllHave(c)' = AllHave(c)
      BY <2>3 DEF AllHave
    <3>5. LoadsOk(phase'[c], canLoad'[c], out'[c], in'[c], AllHave(c)')
      BY <1>0, <2>1, <3>3, <3>4
    <3>6. out' \in [Clients -> Seq(Request)]
      BY DEF TypeOK
    <3> QED
      BY <3>5, <3>6, LoadsWillBe
  <2> QED
    BY <2>3, <2>4 DEF Told
<1>4. phase'[c] # "crashed"
  BY <1>0, AskFacts
<1> QED
  BY <1>0, <1>1, <1>2, <1>3, <1>4, TalkByClient

\* No request, and the editing does not begin.
LEMMA OfHistorySame ==
    ASSUME TalkInv, UNCHANGED <<history, in, snap>>,
           \A d \in Clients : shown'[d] = shown[d] \/ shown'[d] = snap[d].shown,
           \A d \in Clients : editing'[d] # NoEdit =>
               editing'[d] = editing[d] \/ IsOf(editing'[d].room, editing'[d].id),
           \A d \in Clients : \A k \in DOMAIN out'[d] :
               \/ k \in DOMAIN out[d] /\ out'[d][k] = out[d][k]
               \/ out'[d][k].type \notin {"EDIT", "DELETE"}
    PROVE  OfHistory'
<1>1. ShownOf /\ EditingOf /\ ChangesOf /\ AllSentOf
  BY OfHistoryIs, TalkInvIs
<1>2. \A d \in Clients, r \in RoomIds :
          AllOf(r, shown'[d][r]) /\ AllOf(r, snap'[d].shown[r])
  BY <1>1 DEF ShownOf
<1>3. \A d \in Clients : editing'[d] # NoEdit => IsOf(editing'[d].room, editing'[d].id)
  BY <1>1 DEF EditingOf
<1>4. \A d \in Clients : \A k \in DOMAIN out'[d] :
          out'[d][k].type \in {"EDIT", "DELETE"} => IsOf(out'[d][k].room, out'[d][k].id)
  BY <1>1 DEF ChangesOf
<1>5. \A d \in Clients : \A k \in DOMAIN in'[d] : SentOfHistory(in'[d][k])
  BY <1>1 DEF AllSentOf
<1> QED
  BY <1>2, <1>3, <1>4, <1>5, OfHistoryKept

\* The menu is of messages of the room.
LEMMA MenuOf ==
    ASSUME TalkInv, NEW c \in Clients, NEW r \in RoomIds, NEW id \in Menu(c, r)
    PROVE  IsOf(r, id)
<1>1. ShownOf
  BY OfHistoryIs, TalkInvIs
<1> QED
  BY <1>1 DEF ShownOf, AllOf, Menu

LEMMA TalkEnterStep ==
    ASSUME TypeOK, TypeOK', ViewInv, TalkInv, NEW c \in Clients, Enter(c)
    PROVE  TalkInv'
<1>0. /\ UNCHANGED <<rows, history, in, snap, known, shown, canLoad, editing, exposed>>
      /\ phase' = [phase EXCEPT ![c] = "waiting"] /\ phase[c] = "login"
      /\ out' = [out EXCEPT ![c] = Append(out[c], [type |-> "AUTH"])]
  BY DEF Enter, tables, lists
<1>1. out \in [Clients -> Seq(Request)] /\ phase \in [Clients -> Phases] /\ out[c] \in Seq(Request)
      /\ out' \in [Clients -> Seq(Request)]
  BY DEF TypeOK
<1>2. PICK q : q = [type |-> "AUTH"]
  OBVIOUS
<1>3. q \in Request /\ q.type = "AUTH"
  BY <1>2 DEF Request
<1>4. Adds(out[c], Append(out[c], q), {q})
  BY <1>1, <1>3, AppendAdds
<1>5. Adds(out[c], out'[c], {q}) /\ \A d \in Clients : d # c => out'[d] = out[d]
  BY <1>0, <1>1, <1>2, <1>4
<1>6. OfHistory'
  <2>1. \A d \in Clients : \A k \in DOMAIN out'[d] :
               \/ k \in DOMAIN out[d] /\ out'[d][k] = out[d][k]
               \/ out'[d][k].type \notin {"EDIT", "DELETE"}
    BY <1>3, <1>5 DEF Adds
  <2> QED
    BY <1>0, <2>1, OfHistorySame
<1>7. \A d \in Clients : d # c => IsLeft(d)
  BY <1>0, <1>1, <1>5 DEF IsLeft
<1>8. phase'[c] = "waiting"
  BY <1>0, <1>1
<1>9. Told(c)'
  <2>1. Answers(c) = {}
    <3>1. SignInOrder(c)
      BY DEF ViewInv, View
    <3> QED
      BY <1>0, <3>1, SignInIs
  <2>2. \A k \in DOMAIN in'[c] : in'[c][k].type # "AUTH"
    BY <1>0, <2>1 DEF Answers
  <2>3. ~Listening(c)'
    BY <1>8, <2>2 DEF Listening
  <2>4. LoadsOk(phase'[c], canLoad'[c], out'[c], in'[c], AllHave(c)')
    BY <1>8, <2>2 DEF LoadsOk
  <2>5. Loads(c)'
    BY <1>1, <2>4, LoadsWillBe
  <2> QED
    BY <2>3, <2>5 DEF Told
<1> QED
  BY <1>0, <1>6, <1>7, <1>8, <1>9, TalkByClient

LEMMA TalkShowStep ==
    ASSUME TypeOK, TypeOK', TalkInv, NEW c \in Clients, InitGeneral(c)
    PROVE  TalkInv'
<1>0. /\ UNCHANGED <<rows, history, in, out, snap, editing, exposed>>
      /\ phase' = [phase EXCEPT ![c] = "online"] /\ phase[c] = "building"
      /\ known' = [known EXCEPT ![c] = snap[c].rooms]
      /\ shown' = [shown EXCEPT ![c] = snap[c].shown]
      /\ canLoad' = [canLoad EXCEPT ![c] = TRUE]
  BY DEF InitGeneral, tables
<1>1. /\ phase \in [Clients -> Phases] /\ known \in [Clients -> SUBSET RoomIds]
      /\ shown \in [Clients -> History] /\ canLoad \in [Clients -> BOOLEAN]
      /\ out \in [Clients -> Seq(Request)]
  BY DEF TypeOK
<1>2. /\ phase'[c] = "online" /\ known'[c] = snap[c].rooms /\ shown'[c] = snap[c].shown
      /\ canLoad'[c] = TRUE
      /\ \A d \in Clients : d # c => /\ phase'[d] = phase[d] /\ known'[d] = known[d]
                                     /\ shown'[d] = shown[d] /\ canLoad'[d] = canLoad[d]
  BY <1>0, <1>1
<1>3. OfHistory'
  <2>1. \A d \in Clients : shown'[d] = shown[d] \/ shown'[d] = snap[d].shown
    BY <1>2
  <2> QED
    BY <1>0, <2>1, OfHistorySame
<1>4. \A d \in Clients : d # c => IsLeft(d)
  BY <1>0, <1>2 DEF IsLeft
<1>5. ASSUME c \notin exposed'
      PROVE  Told(c)'
  <2>1. Told(c) /\ Listening(c)
    BY <1>0, <1>5, TalkInvIs DEF Listening
  <2>2. \A r \in RoomIds : Has(c, r)' = Has(c, r)
    BY <1>0, <1>2 DEF Has
  <2>3. Talk(c)'
    BY <1>0, <2>1, <2>2, TalkUntouched DEF Told
  <2>4. LoadsOk("building", canLoad[c], out[c], in[c], AllHave(c))
    BY <1>0, <1>1, <2>1, LoadsIs DEF Told
  <2>5. LoadsOf(in[c]) = {} /\ LoadsOf(out[c]) = {}
    BY <2>4 DEF LoadsOk, LoadsOf
  <2>6. LoadsOf(in'[c]) = {} /\ LoadsOf(out'[c]) = {}
    BY <1>0, <2>5
  <2>7. LoadsOk(phase'[c], canLoad'[c], out'[c], in'[c], AllHave(c)')
    BY <1>2, <2>6 DEF LoadsOk
  <2>8. Loads(c)'
    BY <1>0, <1>1, <2>7, LoadsWillBe
  <2> QED
    BY <2>3, <2>8 DEF Told
<1>6. phase'[c] # "crashed"
  BY <1>2
<1> QED
  BY <1>0, <1>3, <1>4, <1>5, <1>6, TalkByClient

LEMMA TalkSignOutStep ==
    ASSUME TypeOK, TypeOK', TalkInv, NEW c \in Clients, LogoutClient(c)
    PROVE  TalkInv'
<1>1. PICK q : q = [type |-> "LOGOUT"]
  OBVIOUS
<1>2. q \in Request /\ q.type = "LOGOUT"
  BY <1>1 DEF Request
<1>3. /\ UNCHANGED <<rows, history, in, snap, known, shown, canLoad, editing, exposed>>
      /\ Ask(c, "LOGOUT", q) /\ phase' = [phase EXCEPT ![c] = "login"]
  BY <1>1 DEF LogoutClient, tables, chat
<1>4. phase'[c] = "login" /\ \A d \in Clients : d # c => phase'[d] = phase[d]
  BY <1>3 DEF TypeOK
<1>5. OfHistory'
  BY <1>2, <1>3, OfHistoryAsking
<1>6. \A d \in Clients : d # c => IsLeft(d)
  BY <1>2, <1>3, <1>4, AskFacts DEF IsLeft
<1>7. Told(c)'
  <2>1. ~Listening(c)'
    BY <1>4 DEF Listening
  <2>2. LoadsOk(phase'[c], canLoad'[c], out'[c], in'[c], AllHave(c)')
    BY <1>4 DEF LoadsOk
  <2>3. out' \in [Clients -> Seq(Request)]
    BY DEF TypeOK
  <2>4. Loads(c)'
    BY <2>2, <2>3, LoadsWillBe
  <2> QED
    BY <2>1, <2>4 DEF Told
<1>8. phase'[c] # "crashed"
  BY <1>4
<1> QED
  BY <1>3, <1>5, <1>6, <1>7, <1>8, TalkByClient

LEMMA TalkEditStep ==
    ASSUME TypeOK, TypeOK', TalkInv, NEW c \in Clients,
           CancelEdit(c) \/ \E r \in RoomIds : Edit(c, r)
    PROVE  TalkInv'
<1>0. UNCHANGED <<rows, history, in, out, snap, known, shown, canLoad, phase, exposed>>
  BY DEF CancelEdit, Edit, tables, lists
<1>1. \A d \in Clients : IsLeft(d)
  BY <1>0 DEF IsLeft
<1>2. \A d \in Clients : editing'[d] # NoEdit =>
          editing'[d] = editing[d] \/ IsOf(editing'[d].room, editing'[d].id)
  <2>1. CASE CancelEdit(c)
    BY <2>1 DEF CancelEdit, TypeOK
  <2>2. CASE \E r \in RoomIds : Edit(c, r)
    <3>1. PICK r \in RoomIds : Edit(c, r)
      BY <2>2
    <3>2. PICK id \in Menu(c, r) : editing' = [editing EXCEPT ![c] = [room |-> r, id |-> id]]
      BY <3>1 DEF Edit
    <3>3. IsOf(r, id)
      BY <3>2, MenuOf
    <3> QED
      BY <3>2, <3>3 DEF TypeOK
  <2> QED
    BY <2>1, <2>2
<1>3. OfHistory'
  BY <1>0, <1>2, OfHistorySame
<1>4. c \notin exposed' => Told(c)'
  <2>1. out' \in [Clients -> Seq(Request)]
    BY DEF TypeOK
  <2>2. c \notin exposed' => Told(c)
    BY <1>0, TalkInvIs
  <2> QED
    BY <1>0, <2>1, <2>2, ToldUntouched
<1> QED
  BY <1>0, <1>1, <1>3, <1>4, TalkByClient

\* Who leaves a room has asked for it, or the answer is on its way.
LEMMA NotLeaving ==
    ASSUME TypeOK, NEW c \in Clients, NEW r \in RoomIds, ~Leaving(c, r)
    PROVE  /\ \A j \in DOMAIN out[c] : out[c][j] # [type |-> "LEAVE", room |-> r]
           /\ \A k \in DOMAIN in[c] :
                 ~(in[c][k].type = "LEAVE" /\ in[c][k].room = r /\ in[c][k].user = c)
<1>1. \A j \in DOMAIN out[c] : out[c][j] # [type |-> "LEAVE", room |-> r]
  BY DEF Leaving, Range
<1>2. ASSUME NEW k \in DOMAIN in[c],
             in[c][k].type = "LEAVE", in[c][k].room = r, in[c][k].user = c
      PROVE  FALSE
  <2>1. in[c][k] \in Reply
    BY DEF TypeOK
  <2>2. in[c][k] \in [type : {"LEAVE"}, room : RoomIds, user : Clients]
    BY <1>2, <2>1 DEF Reply, Request
  <2>3. in[c][k] = [type |-> "LEAVE", room |-> r, user |-> c]
    BY <1>2, <2>2
  <2> QED
    BY <2>3 DEF Leaving, Range
<1> QED
  BY <1>1, <1>2

LEMMA TalkScrollStep ==
    ASSUME TypeOK, TypeOK', ViewInv, TalkInv, NEW c \in Clients, NEW r \in RoomIds, Scroll(c, r)
    PROVE  TalkInv'
<1>1. PICK id : id = shown[c][r][1].id
  OBVIOUS
<1>2. PICK q : q = [type |-> "LOAD_MORE", room |-> r, last |-> id]
  OBVIOUS
<1>3. q \in Request /\ q.type = "LOAD_MORE" /\ q.room = r /\ q.last = id
  BY <1>1, <1>2, ShownFacts DEF Scroll, Request
<1>4. /\ UNCHANGED <<rows, history, in, snap, known, shown, phase, editing>>
      /\ exposed \subseteq exposed' /\ (Leaving(c, r) => c \in exposed')
      /\ Ask(c, "LOAD_MORE", q) /\ canLoad[c] /\ r \in known[c] /\ shown[c][r] # <<>>
      /\ canLoad' = [canLoad EXCEPT ![c] = FALSE]
  BY <1>1, <1>2 DEF Scroll, tables, chat
<1>5. /\ phase[c] = "online" /\ AddsOne(out[c], out'[c], q)
      /\ \A d \in Clients : d # c => out'[d] = out[d]
  BY <1>3, <1>4, AskFacts DEF AddsOne
<1>6. canLoad[c] = TRUE /\ canLoad'[c] = FALSE /\ \A d \in Clients : d # c => canLoad'[d] = canLoad[d]
  BY <1>4 DEF TypeOK
<1>7. OfHistory'
  <2>1. \A d \in Clients : editing'[d] \in {editing[d], NoEdit}
    BY <1>4
  <2>2. q.type \in {"EDIT", "DELETE"} => IsOf(q.room, q.id)
    BY <1>3
  <2> QED
    BY <1>3, <1>4, <2>1, <2>2, OfHistoryAsking
<1>8. \A d \in Clients : d # c => IsLeft(d)
  BY <1>4, <1>5, <1>6 DEF IsLeft
<1>9. ASSUME c \notin exposed'
      PROVE  Told(c)'
  <2>1. Told(c) /\ ~Leaving(c, r) /\ Listening(c)
    BY <1>4, <1>5, <1>9, TalkInvIs DEF Listening
  <2>2. \A p \in RoomIds : Has(c, p)' = Has(c, p)
    BY <1>4, HasKept
  <2>3. Talk(c)' /\ \A p \in RoomIds : WillHave(c, p)' = WillHave(c, p)
    BY <1>4, <2>1, <2>2, TalkUntouched DEF Told
  <2>4. LoadsOk("online", TRUE, out[c], in[c], AllHave(c))
    <3>1. LoadsOk(phase[c], canLoad[c], out[c], in[c], AllHave(c))
      BY <2>1, LoadsIs DEF Told, TypeOK
    <3> QED
      BY <1>5, <1>6, <3>1
  <2>5. HeadIs(WillHave(c, r), id)
    <3>1. PICK v : v = Has(c, r)
      OBVIOUS
    <3>2. PICK s : s = in[c]
      OBVIOUS
    <3>3. v \in Had
      BY <3>1, HasTypes
    <3>4. HeadIs(v, id)
      BY <1>1, <1>4, <1>5, <3>1 DEF HeadIs, Has
    <3>5. s \in Seq(Reply) /\ Len(s) \in Nat /\ DOMAIN s = 1 .. Len(s)
          /\ \A k \in 1 .. Len(s) : s[k] \in Reply
      BY <3>2 DEF TypeOK
    <3>6. Follows(RunOf(v, s, c, r), s, r)
      BY <2>1, <3>1, <3>2 DEF Told, Talk
    <3>7. ASSUME NEW k \in 1 .. Len(s)
          PROVE  KeepsHead(s[k], c, r)
      <4>1. s[k].type # "LOAD_MORE"
        BY <2>4, <3>2, <3>5 DEF LoadsOk, LoadsOf
      <4>2. s[k].type # "AUTH"
        <5>1. SignInOrder(c)
          BY DEF ViewInv, View
        <5>2. Answers(c) = {}
          BY <1>5, <5>1, SignInIs
        <5> QED
          BY <3>2, <3>5, <5>2 DEF Answers
      <4>3. ~(s[k].type = "LEAVE" /\ s[k].room = r /\ s[k].user = c)
        BY <2>1, <3>2, <3>5, NotLeaving
      <4> QED
        BY <4>1, <4>2, <4>3 DEF KeepsHead
    <3>8. HeadIs(RunOf(v, s, c, r)[Len(s)], id)
      BY <3>3, <3>4, <3>5, <3>6, <3>7, RunHead
    <3> QED
      BY <3>1, <3>2, <3>8 DEF WillHave
  <2>6. HeadIs(AllHave(c)[q.room], q.last)
    BY <1>3, <2>5 DEF AllHave
  <2>7. StaysIn(out[c], q.room)
    BY <1>3, <2>1, NotLeaving DEF StaysIn
  <2>8. PICK w : w = AllHave(c)
    OBVIOUS
  <2>9. LoadsOk("online", FALSE, out'[c], in[c], w)
    <3>1. LoadsOk("online", TRUE, out[c], in[c], w) /\ HeadIs(w[q.room], q.last)
      BY <2>4, <2>6, <2>8
    <3>2. PICK b : b = out'[c]
      OBVIOUS
    <3>3. AddsOne(out[c], b, q) /\ q.type = "LOAD_MORE"
      BY <1>3, <1>5, <3>2
    <3>4. LoadsOk("online", FALSE, b, in[c], w)
      BY <2>7, <3>1, <3>3, LoadsBegun
    <3> QED
      BY <3>2, <3>4
  <2>10. AllHave(c)' = w
    BY <2>3, <2>8 DEF AllHave
  <2>11. LoadsOk(phase'[c], canLoad'[c], out'[c], in'[c], AllHave(c)')
    BY <1>4, <1>5, <1>6, <2>9, <2>10
  <2>12. out' \in [Clients -> Seq(Request)]
    BY DEF TypeOK
  <2>13. Loads(c)'
    BY <2>11, <2>12, LoadsWillBe
  <2> QED
    BY <2>3, <2>13 DEF Told
<1>10. phase'[c] # "crashed"
  BY <1>4, <1>5
<1> QED
  BY <1>4, <1>7, <1>8, <1>9, <1>10, TalkByClient

LEMMA TalkCallbackStep ==
    ASSUME TypeOK, TypeOK', ViewInv, TalkInv, NEW c \in Clients, Callback(c)
    PROVE  TalkInv'
<1>1. CASE Enter(c)
  BY <1>1, TalkEnterStep
<1>2. CASE InitGeneral(c)
  BY <1>2, TalkShowStep
<1>3. CASE LogoutClient(c)
  BY <1>3, TalkSignOutStep
<1>4. CASE CancelEdit(c) \/ \E r \in RoomIds : Edit(c, r)
  BY <1>4, TalkEditStep
<1>5. CASE \E r \in RoomIds : Scroll(c, r)
  BY <1>5, TalkScrollStep
<1>a. ASSUME NEW use, NEW q \in Request, Ask(c, use, q), q.type # "LOAD_MORE",
             q.type \notin {"EDIT", "DELETE"}, UNCHANGED <<tables, in, phase, chat, canLoad, exposed>>
      PROVE  TalkInv'
  <2>1. UNCHANGED <<tables, in, phase, snap, lists, exposed>> /\ editing' = editing
    BY <1>a DEF chat, lists
  <2> QED
    BY <1>a, <2>1, TalkByAsking
<1>6. CASE \E r \in RoomIds, text \in Texts : SendMessage(c, r, text)
  <2>1. PICK r \in RoomIds, text \in Texts : SendMessage(c, r, text)
    BY <1>6
  <2>2. PICK q : q = [type |-> "MSG", room |-> r, text |-> text]
    OBVIOUS
  <2>3. q \in Request /\ q.type = "MSG"
    BY <2>2 DEF Request
  <2>4. Ask(c, "MSG", q) /\ UNCHANGED <<tables, in, phase, chat, canLoad, exposed>>
    BY <2>1, <2>2 DEF SendMessage
  <2> QED
    BY <1>a, <2>3, <2>4
<1>7. CASE \E text \in Texts : SendEdit(c, text)
  <2>1. PICK text \in Texts : SendEdit(c, text)
    BY <1>7
  <2>2. PICK q : q = [type |-> "EDIT", room |-> editing[c].room, id |-> editing[c].id,
                      text |-> text]
    OBVIOUS
  <2>3. editing[c] \in [room : RoomIds, id : MessageIds] /\ editing[c] # NoEdit
    BY <2>1 DEF SendEdit, TypeOK
  <2>4. q \in Request /\ q.type = "EDIT" /\ q.room = editing[c].room /\ q.id = editing[c].id
    BY <2>2, <2>3 DEF Request
  <2>5. Ask(c, "EDIT", q) /\ editing' = [editing EXCEPT ![c] = NoEdit]
        /\ UNCHANGED <<tables, in, phase, snap, lists, exposed>>
    BY <2>1, <2>2 DEF SendEdit
  <2>6. IsOf(q.room, q.id)
    BY <2>3, <2>4, OfHistoryIs, TalkInvIs DEF EditingOf
  <2>7. \A d \in Clients : editing'[d] \in {editing[d], NoEdit}
    BY <2>5 DEF TypeOK
  <2>8. q.type # "LOAD_MORE"
    BY <2>4
  <2> QED
    BY <2>4, <2>5, <2>6, <2>7, <2>8, TalkByAsking
<1>8. CASE \E r \in RoomIds : Delete(c, r)
  <2>1. PICK r \in RoomIds : Delete(c, r)
    BY <1>8
  <2>2. PICK id \in Menu(c, r) : Ask(c, "DELETE", [type |-> "DELETE", room |-> r, id |-> id])
    BY <2>1 DEF Delete
  <2>3. PICK q : q = [type |-> "DELETE", room |-> r, id |-> id]
    OBVIOUS
  <2>4. id \in MessageIds
    BY <2>2, ShownFacts DEF Menu
  <2>5. q \in Request /\ q.type = "DELETE" /\ q.room = r /\ q.id = id
    BY <2>3, <2>4 DEF Request
  <2>6. UNCHANGED <<tables, in, phase, snap, lists, exposed>> /\ editing' = editing
    BY <2>1 DEF Delete, chat, lists
  <2>7. IsOf(q.room, q.id)
    BY <2>2, <2>5, MenuOf
  <2>8. Ask(c, "DELETE", q) /\ \A d \in Clients : editing'[d] \in {editing[d], NoEdit}
    BY <2>2, <2>3, <2>6
  <2>9. q.type # "LOAD_MORE"
    BY <2>5
  <2> QED
    BY <2>5, <2>6, <2>7, <2>8, <2>9, TalkByAsking
<1>9. CASE \E r \in RoomIds : Leave(c, r)
  <2>1. PICK r \in RoomIds : Leave(c, r)
    BY <1>9
  <2>2. PICK q : q = [type |-> "LEAVE", room |-> r]
    OBVIOUS
  <2>3. q \in Request /\ q.type = "LEAVE"
    BY <2>2 DEF Request
  <2>4. Ask(c, "LEAVE", q) /\ UNCHANGED <<tables, in, phase, chat, canLoad, exposed>>
    BY <2>1, <2>2 DEF Leave
  <2> QED
    BY <1>a, <2>3, <2>4
<1>10. CASE Search(c)
  <2>1. PICK q : q = [type |-> "SEARCH"]
    OBVIOUS
  <2>2. q \in Request /\ q.type = "SEARCH"
    BY <2>1 DEF Request
  <2>3. Ask(c, "JOIN", q) /\ UNCHANGED <<tables, in, phase, chat, canLoad, exposed>>
    BY <1>10, <2>1 DEF Search
  <2> QED
    BY <1>a, <2>2, <2>3
<1>11. CASE Join(c)
  <2>1. Last(results[c]) \in SUBSET RoomIds
    <3>1. results[c] \in Seq(SUBSET RoomIds) /\ results[c] # <<>>
      BY <1>11 DEF Join, TypeOK
    <3> QED
      BY <3>1, FrontFacts
  <2>2. PICK r \in Last(results[c]) : Ask(c, "JOIN", [type |-> "JOIN", room |-> r])
    BY <1>11 DEF Join
  <2>3. PICK q : q = [type |-> "JOIN", room |-> r]
    OBVIOUS
  <2>4. q \in Request /\ q.type = "JOIN"
    BY <2>1, <2>2, <2>3 DEF Request
  <2>5. Ask(c, "JOIN", q) /\ UNCHANGED <<tables, in, phase, chat, canLoad, exposed>>
    BY <1>11, <2>2, <2>3 DEF Join
  <2> QED
    BY <1>a, <2>4, <2>5
<1>12. CASE Create(c)
  <2>1. PICK access \in {"public", "private"} :
              Ask(c, "CREATE", [type |-> "CREATE", access |-> access])
    BY <1>12 DEF Create
  <2>2. PICK q : q = [type |-> "CREATE", access |-> access]
    OBVIOUS
  <2>3. q \in Request /\ q.type = "CREATE"
    BY <2>2 DEF Request
  <2>4. Ask(c, "CREATE", q) /\ UNCHANGED <<tables, in, phase, chat, canLoad, exposed>>
    BY <1>12, <2>1, <2>2 DEF Create
  <2> QED
    BY <1>a, <2>3, <2>4
<1>13. CASE \E d \in Clients : Direct(c, d)
  <2>1. PICK d \in Clients : Direct(c, d)
    BY <1>13
  <2>2. PICK q : q = [type |-> "DIRECT", other |-> d]
    OBVIOUS
  <2>3. q \in Request /\ q.type = "DIRECT"
    BY <2>2 DEF Request
  <2>4. Ask(c, "DIRECT", q) /\ UNCHANGED <<tables, in, phase, chat, canLoad, exposed>>
    BY <2>1, <2>2 DEF Direct
  <2> QED
    BY <1>a, <2>3, <2>4
<1> QED
  BY <1>1, <1>2, <1>3, <1>4, <1>5, <1>6, <1>7, <1>8, <1>9, <1>10, <1>11, <1>12, <1>13 DEF Callback

-----------------------------------------------------------------------------
\* The handlers of a client whose window is there.

\* It makes of each room what the message says.
Handles(c) ==
    /\ phase'[c] = "online"
    /\ \A r \in RoomIds : Has(c, r)' = Applied(Has(c, r), in[c][1], c, r)

\* It is given a message that it is not ready for.
Misses(c) ==
    /\ shown'[c] = shown[c]
    /\ \E r \in RoomIds : ~(InOrder(Has(c, r).list) /\ Fits(Has(c, r), in[c][1], r))

LEMMA AppliedIs ==
    ASSUME NEW v \in Had, NEW m \in Reply, NEW c, NEW r, NEW w, IsApplied(w, v, m, c, r)
    PROVE  w = Applied(v, m, c, r)
<1>1. PICK x : x = Applied(v, m, c, r)
  OBVIOUS
<1>2. IsApplied(x, v, m, c, r)
  BY <1>1, AppliedFacts
<1>3. CASE m.type \in {"AUTH", "SEARCH"} \/ m.room # r
  BY <1>1, <1>2, <1>3 DEF IsApplied
<1>4. CASE m.room = r /\ m.type \in {"MSG", "LOAD_MORE"}
  BY <1>1, <1>2, <1>4 DEF IsApplied
<1>5. CASE m.room = r /\ m.type = "EDIT"
  BY <1>1, <1>2, <1>5 DEF IsApplied
<1>6. CASE m.room = r /\ m.type = "DELETE"
  BY <1>1, <1>2, <1>6 DEF IsApplied
<1>7. CASE m.room = r /\ m.type \in {"JOIN", "CREATE", "DIRECT", "LEAVE"}
  BY <1>1, <1>2, <1>7 DEF IsApplied
<1> QED
  BY <1>3, <1>4, <1>5, <1>6, <1>7, ReplyFacts

\* t is what c shows of the room of m, and nothing else has changed.
OneShown(c, m, t) ==
    /\ shown'[c][m.room] = t
    /\ \A q \in RoomIds : q # m.room => shown'[c][q] = shown[c][q]

LEMMA SetShownFacts ==
    ASSUME TypeOK, NEW c \in Clients, NEW m, m.room \in RoomIds, NEW t \in Seq(Entry),
           shown' = [shown EXCEPT ![c][m.room] = t]
    PROVE  OneShown(c, m, t)
<1>1. shown \in [Clients -> History]
  BY DEF TypeOK
<1>2. PICK r : r = m.room
  OBVIOUS
<1>3. PICK new : new = [shown EXCEPT ![c][r] = t]
  OBVIOUS
<1>4. new[c][r] = t /\ \A q \in RoomIds : q # r => new[c][q] = shown[c][q]
  BY <1>1, <1>2, <1>3, ShownUpdate
<1>5. shown' = new
  BY <1>2, <1>3
<1> QED
  BY <1>2, <1>4, <1>5 DEF OneShown

OneChanged(c, m) ==
    \A r \in RoomIds : r # m.room =>
        shown'[c][r] = shown[c][r] /\ (r \in known'[c] <=> r \in known[c])

\* The room of the message, of which c had v, is the only one changed.
LEMMA RoomHandled ==
    ASSUME TypeOK, NEW c \in Clients, phase[c] = "online", phase' = phase,
           NEW m \in Reply, m = in[c][1], m.type \notin {"AUTH", "SEARCH"},
           NEW v, v = [known |-> m.room \in known[c], list |-> shown[c][m.room]],
           NEW w, w = [known |-> m.room \in known'[c], list |-> shown'[c][m.room]],
           IsApplied(w, v, m, c, m.room), OneChanged(c, m)
    PROVE  Handles(c)
<1>1. \A r \in RoomIds : /\ Has(c, r) = [known |-> r \in known[c], list |-> shown[c][r]]
                         /\ Has(c, r)' = [known |-> r \in known'[c], list |-> shown'[c][r]]
  BY DEF Has
<1>2. \A r \in RoomIds : Has(c, r) \in Had
  BY HasTypes
<1>3. m.room \in RoomIds
  BY ReplyFacts
<1>4. w = Applied(v, m, c, m.room)
  BY <1>1, <1>2, <1>3, AppliedIs
<1>5. ASSUME NEW r \in RoomIds, r # m.room
      PROVE  Has(c, r)' = Applied(Has(c, r), m, c, r)
  <2>1. Has(c, r)' = Has(c, r)
    BY <1>1, <1>5 DEF OneChanged
  <2>2. Applied(Has(c, r), m, c, r) = Has(c, r)
    BY <1>5 DEF Applied
  <2> QED
    BY <2>1, <2>2
<1>6. ASSUME NEW r \in RoomIds
      PROVE  Has(c, r)' = Applied(Has(c, r), m, c, r)
  <2>1. CASE r = m.room
    <3>1. Has(c, r)' = w /\ Has(c, r) = v
      BY <1>1, <2>1
    <3> QED
      BY <1>4, <2>1, <3>1
  <2>2. CASE r # m.room
    BY <1>5, <2>2
  <2> QED
    BY <2>1, <2>2
<1> QED
  BY <1>6 DEF Handles

\* The message changes nothing.
LEMMA NothingHandled ==
    ASSUME TypeOK, NEW c \in Clients, phase[c] = "online", UNCHANGED <<phase, known, shown>>,
           NEW m \in Reply, m = in[c][1],
           \A r \in RoomIds : Applied(Has(c, r), m, c, r) = Has(c, r)
    PROVE  Handles(c)
BY DEF Handles, Has

\* The room of the message, and what c has of it.
LEMMA RoomOfMessage ==
    ASSUME TypeOK, NEW c \in Clients, phase[c] = "online", NEW m \in Reply,
           m.type \notin {"AUTH", "SEARCH"},
           NEW v, v = [known |-> m.room \in known[c], list |-> shown[c][m.room]]
    PROVE  /\ m.room \in RoomIds /\ Has(c, m.room) = v /\ v \in Had
           /\ v.list \in Seq(Entry) /\ v.list = shown[c][m.room]
           /\ v.known <=> m.room \in known[c]
<1>1. m.room \in RoomIds
  BY ReplyFacts
<1>2. Has(c, m.room) = v
  BY DEF Has
<1>3. v \in Had
  BY <1>1, <1>2, HasTypes
<1>4. v.list \in Seq(Entry)
  BY <1>3 DEF Had
<1>5. v.list = shown[c][m.room] /\ (v.known <=> m.room \in known[c])
  OBVIOUS
<1> QED
  BY <1>1, <1>2, <1>3, <1>4, <1>5

LEMMA MessageHandled ==
    ASSUME TypeOK, NEW c \in Clients, InputMessage(c)
    PROVE  Handles(c) \/ Misses(c)
<1>1. PICK m : m = in[c][1]
  OBVIOUS
<1>2. /\ m \in Reply /\ m.type = "MSG" /\ Head(in[c]) = m /\ phase[c] = "online"
  <2>1. Receive(c, {"MSG"}) /\ phase[c] = "online"
    BY DEF InputMessage, ReceiveOnline
  <2>2. Head(in[c]) \in Reply /\ Head(in[c]) = in[c][1] /\ Head(in[c]).type \in {"MSG"}
    BY <2>1, ReceiveFacts
  <2> QED
    BY <1>1, <2>1, <2>2
<1>3. PICK v : v = [known |-> m.room \in known[c], list |-> shown[c][m.room]]
  OBVIOUS
<1>4. /\ m.room \in RoomIds /\ Has(c, m.room) = v /\ v.list \in Seq(Entry)
      /\ v.list = shown[c][m.room] /\ (v.known <=> m.room \in known[c])
  BY <1>2, <1>3, RoomOfMessage
<1>5. PICK e : e = [id |-> m.id, text |-> m.text, gone |-> FALSE]
  OBVIOUS
<1>6. PICK t : t = Append(v.list, e)
  OBVIOUS
<1>7. CASE m.room \in known[c]
  <2>1. shown' = [shown EXCEPT ![c][m.room] = t] /\ UNCHANGED <<phase, known>>
    BY <1>2, <1>4, <1>5, <1>6, <1>7 DEF InputMessage, SetShown
  <2>2. t \in Seq(Entry)
    <3>1. e \in Entry
      BY <1>2, <1>5, ReplyFacts DEF Entry
    <3> QED
      BY <1>4, <1>6, <3>1
  <2>3. OneShown(c, m, t)
    BY <1>4, <2>1, <2>2, SetShownFacts
  <2>4. PICK w : w = [known |-> m.room \in known'[c], list |-> shown'[c][m.room]]
    OBVIOUS
  <2>5. w = [known |-> v.known, list |-> t]
    BY <1>3, <2>1, <2>3, <2>4 DEF OneShown
  <2>6. IsApplied(w, v, m, c, m.room)
    BY <1>2, <1>5, <1>6, <2>5 DEF IsApplied
  <2>7. m.type \notin {"AUTH", "SEARCH"}
    BY <1>2
  <2>c. OneChanged(c, m)
    BY <2>1, <2>3 DEF OneChanged, OneShown
  <2> QED
    BY <1>1, <1>2, <1>3, <2>1, <2>3, <2>4, <2>6, <2>7, <2>c, RoomHandled
<1>8. CASE m.room \notin known[c]
  <2>1. shown' = shown
    BY <1>2, <1>8 DEF InputMessage, Crash, lists
  <2>2. ~Fits(Has(c, m.room), m, m.room)
    BY <1>2, <1>4, <1>8 DEF Fits
  <2> QED
    BY <1>1, <1>4, <2>1, <2>2 DEF Misses
<1> QED
  BY <1>7, <1>8

\* A message of a list in order that is there, or comes before it, is found where
\* it is looked for.
LEMMA SearchFacts ==
    ASSUME NEW s \in Seq(Entry), InOrder(s), NEW id \in MessageIds, s # <<>>,
           \/ id < s[1].id
           \/ \E i \in DOMAIN s : s[i].id = id /\ ~s[i].gone
    PROVE  /\ id < s[1].id => Places(s, id) = {}
           /\ id >= s[1].id => Places(s, id) # {} /\ ~s[First(Places(s, id))].gone
<1>1. 1 \in DOMAIN s /\ s[1].id \in Nat /\ id \in Nat
  BY EntryFacts DEF MessageIds
<1>2. ASSUME id < s[1].id
      PROVE  Places(s, id) = {}
  <2>1. ASSUME NEW i \in DOMAIN s, s[i].id = id
        PROVE  FALSE
    <3>1. s[1].id <= s[i].id
      BY FirstIsLeast
    <3> QED
      BY <1>1, <1>2, <2>1, <3>1
  <2> QED
    BY <2>1 DEF Places
<1>3. ASSUME id >= s[1].id
      PROVE  Places(s, id) # {} /\ ~s[First(Places(s, id))].gone
  <2>1. PICK i \in DOMAIN s : s[i].id = id /\ ~s[i].gone
    BY <1>1, <1>3
  <2>2. Places(s, s[i].id) = {i} /\ First(Places(s, s[i].id)) = i
    BY PlaceInOrder
  <2> QED
    BY <2>1, <2>2
<1> QED
  BY <1>2, <1>3

LEMMA EditOutcomes ==
    ASSUME NEW c, EditMessageClient(c), NEW m, Head(in[c]) = m,
           NEW s, shown[c][m.room] = s, NEW at, Places(s, m.id) = at,
           NEW t, [s EXCEPT ![First(at)].text = m.text] = t
    PROVE  /\ ReceiveOnline(c, {"EDIT"})
           /\ \/ m.room \notin known[c] /\ UNCHANGED <<phase, lists>>
              \/ m.room \in known[c] /\ s = <<>> /\ Crash(c)
              \/ /\ m.room \in known[c] /\ s # <<>>
                 /\ \/ (m.id < s[1].id \/ at = {}) /\ UNCHANGED <<phase, lists>>
                    \/ /\ m.id >= s[1].id /\ at # {}
                       /\ \/ SetShown(c, m.room, t)
                          \/ s[First(at)].gone /\ Crash(c)
<1> DEFINE n == Head(in[c])
           list == shown[c][n.room]
           places == Places(list, n.id)
           edited == [list EXCEPT ![First(places)].text = n.text]
<1>1. /\ ReceiveOnline(c, {"EDIT"})
      /\ \/ n.room \notin known[c] /\ UNCHANGED <<phase, lists>>
         \/ n.room \in known[c] /\ list = <<>> /\ Crash(c)
         \/ /\ n.room \in known[c] /\ list # <<>>
            /\ \/ (n.id < list[1].id \/ places = {}) /\ UNCHANGED <<phase, lists>>
               \/ /\ n.id >= list[1].id /\ places # {}
                  /\ \/ SetShown(c, n.room, edited)
                     \/ list[First(places)].gone /\ Crash(c)
  BY Zenon DEF EditMessageClient
<1>2. n = m
  OBVIOUS
<1>3. list = s /\ places = at
  BY <1>2
<1>4. edited = t
  BY <1>2, <1>3
<1> HIDE DEF n, list, places, edited
<1> QED
  BY <1>1, <1>2, <1>3, <1>4

LEMMA EditHandled ==
    ASSUME TypeOK, NEW c \in Clients, EditMessageClient(c)
    PROVE  Handles(c) \/ Misses(c)
<1>1. PICK m : m = in[c][1]
  OBVIOUS
<1>2. /\ m \in Reply /\ m.type = "EDIT" /\ Head(in[c]) = m /\ phase[c] = "online"
      /\ m.id \in MessageIds
  <2>1. Receive(c, {"EDIT"}) /\ phase[c] = "online"
    BY EditOutcomes DEF ReceiveOnline
  <2>2. Head(in[c]) \in Reply /\ Head(in[c]) = in[c][1] /\ Head(in[c]).type \in {"EDIT"}
    BY <2>1, ReceiveFacts
  <2> QED
    BY <1>1, <2>1, <2>2, ReplyFacts
<1>3. PICK v : v = [known |-> m.room \in known[c], list |-> shown[c][m.room]]
  OBVIOUS
<1>a. m.type \notin {"AUTH", "SEARCH"}
  BY <1>2
<1>4. /\ m.room \in RoomIds /\ Has(c, m.room) = v /\ v.list \in Seq(Entry)
      /\ v.list = shown[c][m.room] /\ (v.known <=> m.room \in known[c])
  BY <1>2, <1>3, <1>a, RoomOfMessage
<1>5. PICK s : s = v.list
  OBVIOUS
<1>6. PICK at : at = Places(s, m.id)
  OBVIOUS
<1>7. /\ s = shown[c][m.room] /\ s \in Seq(Entry)
      /\ shown[c][m.room] = s /\ Places(shown[c][m.room], m.id) = at
  BY <1>4, <1>5, <1>6
<1>8. PICK w : w = [known |-> m.room \in known'[c], list |-> shown'[c][m.room]]
  OBVIOUS
<1>9. CASE ~(InOrder(v.list) /\ Fits(v, m, m.room)) /\ shown' = shown
  BY <1>1, <1>4, <1>9 DEF Misses
<1>b. InOrder(v.list) /\ Fits(v, m, m.room) =>
          /\ m.room \in known[c] /\ s # <<>>
          /\ m.id < s[1].id => at = {}
          /\ m.id >= s[1].id => at # {} /\ ~s[First(at)].gone
  <2> SUFFICES ASSUME InOrder(v.list), Fits(v, m, m.room)
               PROVE  /\ m.room \in known[c] /\ s # <<>>
                      /\ m.id < s[1].id => at = {}
                      /\ m.id >= s[1].id => at # {} /\ ~s[First(at)].gone
    OBVIOUS
  <2>1. /\ m.room \in known[c] /\ s # <<>> /\ InOrder(s)
        /\ \/ m.id < s[1].id
           \/ \E i \in DOMAIN s : s[i].id = m.id /\ ~s[i].gone
    BY <1>2, <1>4, <1>5 DEF Fits
  <2> QED
    BY <1>2, <1>6, <1>7, <2>1, SearchFacts
<1>c. CASE shown' = shown /\ UNCHANGED <<phase, known>> /\ at = {}
  <2>1. w = v
    BY <1>3, <1>8, <1>c
  <2>2. IsApplied(w, v, m, c, m.room)
    BY <1>2, <1>5, <1>6, <1>c, <2>1 DEF IsApplied
  <2>c. OneChanged(c, m)
    BY <1>c DEF OneChanged
  <2> QED
    BY <1>1, <1>2, <1>3, <1>8, <1>a, <1>c, <2>2, <2>c, RoomHandled
<1>t. PICK t : t = Edited(s, First(at), m.text)
  OBVIOUS
<1>d. CASE at # {} /\ SetShown(c, m.room, t)
  <2>2. t \in Seq(Entry)
    <3>1. First(at) \in DOMAIN s
      BY <1>6, <1>7, <1>d, PlacesFacts
    <3>2. m.text \in Texts
      BY <1>2, ReplyFacts
    <3> QED
      BY <1>7, <1>t, <3>1, <3>2, EditedFacts
  <2>3. shown' = [shown EXCEPT ![c][m.room] = t] /\ UNCHANGED <<phase, known>>
    BY <1>d DEF SetShown
  <2>4. OneShown(c, m, t)
    BY <1>4, <2>2, <2>3, SetShownFacts
  <2>5. w = [known |-> v.known, list |-> t]
    BY <1>3, <1>8, <2>3, <2>4 DEF OneShown
  <2>6. IsApplied(w, v, m, c, m.room)
    BY <1>2, <1>5, <1>6, <1>d, <1>t, <2>5 DEF IsApplied
  <2>c. OneChanged(c, m)
    BY <2>3, <2>4 DEF OneChanged, OneShown
  <2> QED
    BY <1>1, <1>2, <1>3, <1>8, <1>a, <2>3, <2>4, <2>6, <2>c, RoomHandled
<1>e. \/ m.room \notin known[c] /\ UNCHANGED <<phase, lists>>
      \/ m.room \in known[c] /\ s = <<>> /\ Crash(c)
      \/ /\ m.room \in known[c] /\ s # <<>>
         /\ \/ (m.id < s[1].id \/ at = {}) /\ UNCHANGED <<phase, lists>>
            \/ /\ m.id >= s[1].id /\ at # {}
               /\ \/ SetShown(c, m.room, t)
                  \/ s[First(at)].gone /\ Crash(c)
  BY <1>2, <1>7, <1>t, EditOutcomes DEF Edited
<1>f. /\ UNCHANGED <<phase, lists>> => shown' = shown /\ UNCHANGED <<phase, known>>
      /\ Crash(c) => shown' = shown
  BY DEF Crash, lists
<1> QED
  BY <1>9, <1>b, <1>c, <1>d, <1>e, <1>f

LEMMA DeleteHandled ==
    ASSUME TypeOK, NEW c \in Clients, DeleteMessageClient(c)
    PROVE  Handles(c) \/ Misses(c)
<1>1. PICK m : m = in[c][1]
  OBVIOUS
<1>2. /\ m \in Reply /\ m.type = "DELETE" /\ Head(in[c]) = m /\ phase[c] = "online"
      /\ m.id \in MessageIds
  <2>1. Receive(c, {"DELETE"}) /\ phase[c] = "online"
    BY DEF DeleteMessageClient, ReceiveOnline
  <2>2. Head(in[c]) \in Reply /\ Head(in[c]) = in[c][1] /\ Head(in[c]).type \in {"DELETE"}
    BY <2>1, ReceiveFacts
  <2> QED
    BY <1>1, <2>1, <2>2, ReplyFacts
<1>3. PICK v : v = [known |-> m.room \in known[c], list |-> shown[c][m.room]]
  OBVIOUS
<1>a. m.type \notin {"AUTH", "SEARCH"}
  BY <1>2
<1>4. /\ m.room \in RoomIds /\ Has(c, m.room) = v /\ v.list \in Seq(Entry)
      /\ v.list = shown[c][m.room] /\ (v.known <=> m.room \in known[c])
  BY <1>2, <1>3, <1>a, RoomOfMessage
<1>5. PICK s : s = v.list
  OBVIOUS
<1>6. PICK at : at = Places(s, m.id)
  OBVIOUS
<1>7. /\ s = shown[c][m.room] /\ s \in Seq(Entry)
      /\ shown[c][m.room] = s /\ Places(shown[c][m.room], m.id) = at
  BY <1>4, <1>5, <1>6
<1>8. PICK w : w = [known |-> m.room \in known'[c], list |-> shown'[c][m.room]]
  OBVIOUS
<1>9. CASE ~(InOrder(v.list) /\ Fits(v, m, m.room)) /\ shown' = shown
  BY <1>1, <1>4, <1>9 DEF Misses
<1>b. InOrder(v.list) /\ Fits(v, m, m.room) =>
          /\ m.room \in known[c] /\ s # <<>>
          /\ m.id < s[1].id => at = {}
          /\ m.id >= s[1].id => at # {} /\ ~s[First(at)].gone
  <2> SUFFICES ASSUME InOrder(v.list), Fits(v, m, m.room)
               PROVE  /\ m.room \in known[c] /\ s # <<>>
                      /\ m.id < s[1].id => at = {}
                      /\ m.id >= s[1].id => at # {} /\ ~s[First(at)].gone
    OBVIOUS
  <2>1. /\ m.room \in known[c] /\ s # <<>> /\ InOrder(s)
        /\ \/ m.id < s[1].id
           \/ \E i \in DOMAIN s : s[i].id = m.id /\ ~s[i].gone
    BY <1>2, <1>4, <1>5 DEF Fits
  <2> QED
    BY <1>2, <1>6, <1>7, <2>1, SearchFacts
<1>c. CASE shown' = shown /\ UNCHANGED <<phase, known>> /\ at = {}
  <2>1. w = v
    BY <1>3, <1>8, <1>c
  <2>2. IsApplied(w, v, m, c, m.room)
    BY <1>2, <1>5, <1>6, <1>c, <2>1 DEF IsApplied
  <2>c. OneChanged(c, m)
    BY <1>c DEF OneChanged
  <2> QED
    BY <1>1, <1>2, <1>3, <1>8, <1>a, <1>c, <2>2, <2>c, RoomHandled
<1>d. CASE at # {} /\ SetShown(c, m.room, Popped(s, m.id, First(at)))
  <2>1. PICK t : t = Popped(s, m.id, First(at))
    OBVIOUS
  <2>2. t \in Seq(Entry)
    <3>1. First(at) \in DOMAIN s
      BY <1>6, <1>7, <1>d, PlacesFacts
    <3> QED
      BY <1>7, <2>1, <3>1, PoppedListed
  <2>3. shown' = [shown EXCEPT ![c][m.room] = t] /\ UNCHANGED <<phase, known>>
    BY <1>d, <2>1 DEF SetShown
  <2>4. OneShown(c, m, t)
    BY <1>4, <2>2, <2>3, SetShownFacts
  <2>5. w = [known |-> v.known, list |-> t]
    BY <1>3, <1>8, <2>3, <2>4 DEF OneShown
  <2>6. IsApplied(w, v, m, c, m.room)
    BY <1>2, <1>5, <1>6, <1>d, <2>1, <2>5 DEF IsApplied
  <2>c. OneChanged(c, m)
    BY <2>3, <2>4 DEF OneChanged, OneShown
  <2> QED
    BY <1>1, <1>2, <1>3, <1>8, <1>a, <2>3, <2>4, <2>6, <2>c, RoomHandled
<1>e. \/ (m.room \notin known[c] \/ s = <<>>) /\ Crash(c)
      \/ /\ m.room \in known[c] /\ s # <<>>
         /\ \/ m.id < s[1].id /\ UNCHANGED <<phase, lists>>
            \/ m.id >= s[1].id /\ at = {} /\ Crash(c)
            \/ /\ m.id >= s[1].id /\ at # {}
               /\ \/ SetShown(c, m.room, Popped(s, m.id, First(at)))
                  \/ s[First(at)].gone /\ Crash(c)
  BY <1>2, <1>7 DEF DeleteMessageClient
<1>f. /\ UNCHANGED <<phase, lists>> => shown' = shown /\ UNCHANGED <<phase, known>>
      /\ Crash(c) => shown' = shown
  BY DEF Crash, lists
<1> QED
  BY <1>9, <1>b, <1>c, <1>d, <1>e, <1>f

LEMMA LoadHandled ==
    ASSUME TypeOK, NEW c \in Clients, LoadHistoryClient(c)
    PROVE  (Handles(c) /\ canLoad'[c] = TRUE) \/ Misses(c)
<1>1. PICK m : m = in[c][1]
  OBVIOUS
<1>2. /\ m \in Reply /\ m.type \in {"LOAD_MORE"} /\ Head(in[c]) = m /\ phase[c] = "online"
  <2>1. Receive(c, {"LOAD_MORE"}) /\ phase[c] = "online"
    BY DEF LoadHistoryClient, ReceiveOnline
  <2>2. Head(in[c]) \in Reply /\ Head(in[c]) = in[c][1] /\ Head(in[c]).type \in {"LOAD_MORE"}
    BY <2>1, ReceiveFacts
  <2> QED
    BY <1>1, <2>1, <2>2
<1>3. PICK v : v = [known |-> m.room \in known[c], list |-> shown[c][m.room]]
  OBVIOUS
<1>a. m.type \notin {"AUTH", "SEARCH"}
  BY <1>2
<1>4. /\ m.room \in RoomIds /\ Has(c, m.room) = v /\ v.list \in Seq(Entry)
      /\ v.list = shown[c][m.room] /\ (v.known <=> m.room \in known[c])
  BY <1>2, <1>3, <1>a, RoomOfMessage
<1>5. PICK w : w = [known |-> m.room \in known'[c], list |-> shown'[c][m.room]]
  OBVIOUS
<1>6. known \in [Clients -> SUBSET RoomIds] /\ phase \in [Clients -> Phases]
  BY DEF TypeOK
<1>b. m.shown \in Seq(Entry)
  BY <1>2, ReplyFacts
<1>c. PICK t : t = m.shown \o v.list
  OBVIOUS
<1>7. CASE /\ shown' = [shown EXCEPT ![c][m.room] = m.shown \o @]
           /\ canLoad' = [canLoad EXCEPT ![c] = TRUE] /\ UNCHANGED <<phase, known>>
  <2>1. shown' = [shown EXCEPT ![c][m.room] = t]
    BY <1>4, <1>7, <1>c
  <2>2. t \in Seq(Entry)
    BY <1>4, <1>b, <1>c
  <2>3. OneShown(c, m, t)
    BY <1>4, <2>1, <2>2, SetShownFacts
  <2>4. w = [known |-> v.known, list |-> t]
    BY <1>3, <1>5, <1>7, <2>3 DEF OneShown
  <2>a. m.type = "LOAD_MORE"
    BY <1>2
  <2>5. IsApplied(w, v, m, c, m.room)
    BY <1>c, <2>4, <2>a DEF IsApplied
  <2>b. UNCHANGED <<phase, known>>
    BY <1>7
  <2>6. Handles(c)
    <3>1. OneChanged(c, m)
      BY <2>3, <2>5, <2>b DEF OneChanged, OneShown
    <3> QED
      BY <1>1, <1>2, <1>3, <1>5, <1>a, <2>3, <2>5, <2>b, <3>1, RoomHandled
  <2>7. canLoad'[c] = TRUE
    BY <1>7 DEF TypeOK
  <2> QED
    BY <2>6, <2>7
<1>8. CASE m.room \notin known[c] /\ Crash(c)
  <2>1. shown' = shown
    BY <1>8 DEF Crash, lists
  <2>2. ~Fits(Has(c, m.room), m, m.room)
    BY <1>2, <1>4, <1>8 DEF Fits
  <2> QED
    BY <1>1, <1>4, <2>1, <2>2 DEF Misses
<1> QED
  BY <1>2, <1>7, <1>8 DEF LoadHistoryClient

LEMMA JoinHandled ==
    ASSUME TypeOK, NEW c \in Clients, JoinRoomClient(c)
    PROVE  Handles(c)
<1>1. PICK m : m = in[c][1]
  OBVIOUS
<1>2. /\ m \in Reply /\ m.type \in {"JOIN", "CREATE"} /\ Head(in[c]) = m /\ phase[c] = "online"
  <2>1. Receive(c, {"JOIN", "CREATE"}) /\ phase[c] = "online"
    BY DEF JoinRoomClient, ReceiveOnline
  <2>2. Head(in[c]) \in Reply /\ Head(in[c]) = in[c][1] /\ Head(in[c]).type \in {"JOIN", "CREATE"}
    BY <2>1, ReceiveFacts
  <2> QED
    BY <1>1, <2>1, <2>2
<1>3. PICK v : v = [known |-> m.room \in known[c], list |-> shown[c][m.room]]
  OBVIOUS
<1>a. m.type \notin {"AUTH", "SEARCH"}
  BY <1>2
<1>4. /\ m.room \in RoomIds /\ Has(c, m.room) = v /\ v.list \in Seq(Entry)
      /\ v.list = shown[c][m.room] /\ (v.known <=> m.room \in known[c])
  BY <1>2, <1>3, <1>a, RoomOfMessage
<1>5. PICK w : w = [known |-> m.room \in known'[c], list |-> shown'[c][m.room]]
  OBVIOUS
<1>6. known \in [Clients -> SUBSET RoomIds] /\ phase \in [Clients -> Phases]
  BY DEF TypeOK
<1>b. m.shown \in Seq(Entry)
  BY <1>2, ReplyFacts
<1>7. CASE AddRoom(c, m.room, m.shown) /\ m.user = c /\ m.room \notin known[c]
  <2>0. PICK t : t = m.shown
    OBVIOUS
  <2>1. /\ t \in Seq(Entry) /\ shown' = [shown EXCEPT ![c][m.room] = t] /\ phase' = phase
        /\ known' = [known EXCEPT ![c] = @ \cup {m.room}]
    BY <1>7, <1>b, <2>0 DEF AddRoom
  <2>2. OneShown(c, m, t)
    BY <1>4, <2>1, SetShownFacts
  <2>3. known'[c] = known[c] \cup {m.room}
    BY <1>6, <2>1
  <2>4. m.room \in known'[c] /\ \A q \in RoomIds : q # m.room => (q \in known'[c] <=> q \in known[c])
    BY <2>3
  <2>5. w = [known |-> TRUE, list |-> m.shown]
    BY <1>5, <2>0, <2>2, <2>4 DEF OneShown
  <2>6. IsApplied(w, v, m, c, m.room)
    BY <1>2, <1>4, <1>7, <2>5 DEF IsApplied
  <2>c. OneChanged(c, m)
    BY <2>2, <2>4 DEF OneChanged, OneShown
  <2>b. phase' = phase
    BY <2>1
  <2> QED
    BY <1>1, <1>2, <1>3, <1>5, <1>a, <2>6, <2>b, <2>c, RoomHandled
<1>8. CASE UNCHANGED <<phase, lists>> /\ ~(m.user = c /\ m.room \notin known[c])
  <2>1. UNCHANGED <<phase, known, shown>>
    BY <1>8 DEF lists
  <2>2. w = v
    BY <1>3, <1>5, <2>1
  <2>3. IsApplied(w, v, m, c, m.room)
    BY <1>2, <1>4, <1>8, <2>2 DEF IsApplied
  <2>c. OneChanged(c, m)
    BY <2>1, <2>3 DEF OneChanged
  <2> QED
    BY <1>1, <1>2, <1>3, <1>5, <1>a, <2>1, <2>3, <2>c, RoomHandled
<1> QED
  BY <1>2, <1>7, <1>8 DEF JoinRoomClient

LEMMA LeaveHandled ==
    ASSUME TypeOK, NEW c \in Clients, LeaveRoomClient(c)
    PROVE  Handles(c)
<1>1. PICK m : m = in[c][1]
  OBVIOUS
<1>2. /\ m \in Reply /\ m.type \in {"LEAVE"} /\ Head(in[c]) = m /\ phase[c] = "online"
  <2>1. Receive(c, {"LEAVE"}) /\ phase[c] = "online"
    BY DEF LeaveRoomClient, ReceiveOnline
  <2>2. Head(in[c]) \in Reply /\ Head(in[c]) = in[c][1] /\ Head(in[c]).type \in {"LEAVE"}
    BY <2>1, ReceiveFacts
  <2> QED
    BY <1>1, <2>1, <2>2
<1>3. PICK v : v = [known |-> m.room \in known[c], list |-> shown[c][m.room]]
  OBVIOUS
<1>a. m.type \notin {"AUTH", "SEARCH"}
  BY <1>2
<1>4. /\ m.room \in RoomIds /\ Has(c, m.room) = v /\ v.list \in Seq(Entry)
      /\ v.list = shown[c][m.room] /\ (v.known <=> m.room \in known[c])
  BY <1>2, <1>3, <1>a, RoomOfMessage
<1>5. PICK w : w = [known |-> m.room \in known'[c], list |-> shown'[c][m.room]]
  OBVIOUS
<1>6. known \in [Clients -> SUBSET RoomIds] /\ phase \in [Clients -> Phases]
  BY DEF TypeOK
<1>7. CASE /\ known' = [known EXCEPT ![c] = @ \ {m.room}]
           /\ shown' = [shown EXCEPT ![c][m.room] = <<>>]
           /\ phase' = phase /\ m.user = c
  <2>1. PICK t : t = <<>>
    OBVIOUS
  <2>2. t \in Seq(Entry) /\ shown' = [shown EXCEPT ![c][m.room] = t]
    BY <1>7, <2>1
  <2>3. OneShown(c, m, t)
    BY <1>4, <2>2, SetShownFacts
  <2>4. known'[c] = known[c] \ {m.room}
    BY <1>6, <1>7
  <2>5. m.room \notin known'[c] /\ \A q \in RoomIds : q # m.room => (q \in known'[c] <=> q \in known[c])
    BY <2>4
  <2>a. (m.room \in known'[c]) = FALSE
    BY <2>5
  <2>6. w = [known |-> FALSE, list |-> <<>>]
    BY <1>5, <2>1, <2>3, <2>a DEF OneShown
  <2>7. IsApplied(w, v, m, c, m.room)
    BY <1>2, <1>7, <2>6 DEF IsApplied
  <2>c. OneChanged(c, m)
    BY <2>3, <2>5 DEF OneChanged, OneShown
  <2>b. phase' = phase
    BY <1>7
  <2> QED
    BY <1>1, <1>2, <1>3, <1>5, <1>a, <2>7, <2>b, <2>c, RoomHandled
<1>8. CASE UNCHANGED <<phase, lists>> /\ m.user # c
  <2>1. UNCHANGED <<phase, known, shown>>
    BY <1>8 DEF lists
  <2>2. w = v
    BY <1>3, <1>5, <2>1
  <2>3. IsApplied(w, v, m, c, m.room)
    BY <1>2, <1>4, <1>8, <2>2 DEF IsApplied
  <2>c. OneChanged(c, m)
    BY <2>1, <2>3 DEF OneChanged
  <2> QED
    BY <1>1, <1>2, <1>3, <1>5, <1>a, <2>1, <2>3, <2>c, RoomHandled
<1> QED
  BY <1>2, <1>7, <1>8 DEF LeaveRoomClient

LEMMA DirectHandled ==
    ASSUME TypeOK, NEW c \in Clients, DirectMessageClient(c)
    PROVE  Handles(c)
<1>1. PICK m : m = in[c][1]
  OBVIOUS
<1>2. /\ m \in Reply /\ m.type \in {"DIRECT"} /\ Head(in[c]) = m /\ phase[c] = "online"
  <2>1. Receive(c, {"DIRECT"}) /\ phase[c] = "online"
    BY DEF DirectMessageClient, ReceiveOnline
  <2>2. Head(in[c]) \in Reply /\ Head(in[c]) = in[c][1] /\ Head(in[c]).type \in {"DIRECT"}
    BY <2>1, ReceiveFacts
  <2> QED
    BY <1>1, <2>1, <2>2
<1>3. PICK v : v = [known |-> m.room \in known[c], list |-> shown[c][m.room]]
  OBVIOUS
<1>a. m.type \notin {"AUTH", "SEARCH"}
  BY <1>2
<1>4. /\ m.room \in RoomIds /\ Has(c, m.room) = v /\ v.list \in Seq(Entry)
      /\ v.list = shown[c][m.room] /\ (v.known <=> m.room \in known[c])
  BY <1>2, <1>3, <1>a, RoomOfMessage
<1>5. PICK w : w = [known |-> m.room \in known'[c], list |-> shown'[c][m.room]]
  OBVIOUS
<1>6. known \in [Clients -> SUBSET RoomIds] /\ phase \in [Clients -> Phases]
  BY DEF TypeOK
<1>7. CASE AddRoom(c, m.room, <<>>) /\ ~m.exist /\ m.room \notin known[c]
  <2>0. PICK t : t = <<>>
    OBVIOUS
  <2>1. /\ t \in Seq(Entry) /\ shown' = [shown EXCEPT ![c][m.room] = t] /\ phase' = phase
        /\ known' = [known EXCEPT ![c] = @ \cup {m.room}]
    BY <1>7, <2>0 DEF AddRoom
  <2>2. OneShown(c, m, t)
    BY <1>4, <2>1, SetShownFacts
  <2>3. known'[c] = known[c] \cup {m.room}
    BY <1>6, <2>1
  <2>4. m.room \in known'[c] /\ \A q \in RoomIds : q # m.room => (q \in known'[c] <=> q \in known[c])
    BY <2>3
  <2>5. w = [known |-> TRUE, list |-> <<>>]
    BY <1>5, <2>0, <2>2, <2>4 DEF OneShown
  <2>6. IsApplied(w, v, m, c, m.room)
    BY <1>2, <1>4, <1>7, <2>5 DEF IsApplied
  <2>c. OneChanged(c, m)
    BY <2>2, <2>4 DEF OneChanged, OneShown
  <2>b. phase' = phase
    BY <2>1
  <2> QED
    BY <1>1, <1>2, <1>3, <1>5, <1>a, <2>6, <2>b, <2>c, RoomHandled
<1>8. CASE UNCHANGED <<phase, lists>> /\ ~(~m.exist /\ m.room \notin known[c])
  <2>1. UNCHANGED <<phase, known, shown>>
    BY <1>8 DEF lists
  <2>2. w = v
    BY <1>3, <1>5, <2>1
  <2>3. IsApplied(w, v, m, c, m.room)
    BY <1>2, <1>4, <1>8, <2>2 DEF IsApplied
  <2>c. OneChanged(c, m)
    BY <2>1, <2>3 DEF OneChanged
  <2> QED
    BY <1>1, <1>2, <1>3, <1>5, <1>a, <2>1, <2>3, <2>c, RoomHandled
<1> QED
  BY <1>2, <1>7, <1>8 DEF DirectMessageClient

LEMMA SearchHandled ==
    ASSUME TypeOK, NEW c \in Clients, SearchAllClient(c)
    PROVE  Handles(c)
<1>1. PICK m : m = in[c][1]
  OBVIOUS
<1>2. m \in Reply /\ m.type = "SEARCH" /\ phase[c] = "online"
  <2>1. Receive(c, {"SEARCH"}) /\ phase[c] = "online"
    BY DEF SearchAllClient, ReceiveOnline
  <2>2. Head(in[c]) \in Reply /\ Head(in[c]) = in[c][1] /\ Head(in[c]).type \in {"SEARCH"}
    BY <2>1, ReceiveFacts
  <2> QED
    BY <1>1, <2>1, <2>2
<1>3. UNCHANGED <<phase, known, shown>>
  BY DEF SearchAllClient, lists
<1>4. \A r \in RoomIds : Applied(Has(c, r), m, c, r) = Has(c, r)
  BY <1>2 DEF Applied
<1> QED
  BY <1>1, <1>2, <1>3, <1>4, NothingHandled

\* Nobody else has anything changed by a handler of c.
LEMMA OthersLeft ==
    ASSUME TypeOK, NEW c \in Clients, ProcessInput(c)
    PROVE  \A d \in Clients : d # c => IsLeft(d)
<1>1. out' = out /\ \A d \in Clients : d # c => /\ in'[d] = in[d] /\ phase'[d] = phase[d]
                                                /\ known'[d] = known[d] /\ snap'[d] = snap[d]
  BY InputKinds
<1>2. shown \in [Clients -> History] /\ canLoad \in [Clients -> BOOLEAN]
  BY DEF TypeOK
<1>3. CASE InputAuthentification(c)
  <2>1. \A d \in Clients : d # c => shown'[d] = shown[d] /\ canLoad'[d] = canLoad[d]
    BY <1>2, <1>3 DEF InputAuthentification, lists
  <2> QED
    BY <1>1, <2>1 DEF IsLeft
<1>4. CASE InputMessage(c)
  <2>1. \A d \in Clients : d # c => shown'[d] = shown[d] /\ canLoad'[d] = canLoad[d]
    BY <1>2, <1>4 DEF InputMessage, SetShown, Crash, lists
  <2> QED
    BY <1>1, <2>1 DEF IsLeft
<1>5. CASE DeleteMessageClient(c)
  <2>1. \A d \in Clients : d # c => shown'[d] = shown[d] /\ canLoad'[d] = canLoad[d]
    BY <1>2, <1>5 DEF DeleteMessageClient, SetShown, Crash, lists
  <2> QED
    BY <1>1, <2>1 DEF IsLeft
<1>6. CASE LoadHistoryClient(c)
  <2>1. \A d \in Clients : d # c => shown'[d] = shown[d] /\ canLoad'[d] = canLoad[d]
    BY <1>2, <1>6 DEF LoadHistoryClient, Crash, lists
  <2> QED
    BY <1>1, <2>1 DEF IsLeft
<1>7. CASE JoinRoomClient(c)
  <2>1. \A d \in Clients : d # c => shown'[d] = shown[d] /\ canLoad'[d] = canLoad[d]
    BY <1>2, <1>7 DEF JoinRoomClient, AddRoom, lists
  <2> QED
    BY <1>1, <2>1 DEF IsLeft
<1>8. CASE LeaveRoomClient(c)
  <2>1. \A d \in Clients : d # c => shown'[d] = shown[d] /\ canLoad'[d] = canLoad[d]
    BY <1>2, <1>8 DEF LeaveRoomClient, lists
  <2> QED
    BY <1>1, <2>1 DEF IsLeft
<1>9. CASE DirectMessageClient(c)
  <2>1. \A d \in Clients : d # c => shown'[d] = shown[d] /\ canLoad'[d] = canLoad[d]
    BY <1>2, <1>9 DEF DirectMessageClient, AddRoom, lists
  <2> QED
    BY <1>1, <2>1 DEF IsLeft
<1>10. CASE SearchAllClient(c)
  <2>1. \A d \in Clients : d # c => shown'[d] = shown[d] /\ canLoad'[d] = canLoad[d]
    BY <1>2, <1>10 DEF SearchAllClient, lists
  <2> QED
    BY <1>1, <2>1 DEF IsLeft
<1>11. CASE ReceiveWithoutWindow(c)
  <2>1. \A d \in Clients : d # c => shown'[d] = shown[d] /\ canLoad'[d] = canLoad[d]
    BY <1>2, <1>11 DEF ReceiveWithoutWindow, Crash, lists
  <2> QED
    BY <1>1, <2>1 DEF IsLeft
<1>12. CASE EditMessageClient(c)
  <2>1. PICK t : SetShown(c, Head(in[c]).room, t) \/ Crash(c) \/ UNCHANGED <<phase, lists>>
    BY <1>12, EditOutcomes
  <2>2. \A d \in Clients : d # c => shown'[d] = shown[d] /\ canLoad'[d] = canLoad[d]
    BY <1>2, <2>1 DEF SetShown, Crash, lists
  <2> QED
    BY <1>1, <2>2 DEF IsLeft
<1> QED
  BY <1>3, <1>4, <1>5, <1>6, <1>7, <1>8, <1>9, <1>10, <1>11, <1>12 DEF ProcessInput

\* canLoad is set when history has come.
LEMMA OnlineInput ==
    ASSUME TypeOK, NEW c \in Clients, ProcessInput(c), phase[c] = "online"
    PROVE  /\ UNCHANGED <<rows, history, out, snap, editing, exposed>>
           /\ \/ Handles(c) /\ canLoad'[c] = canLoad[c]
              \/ Handles(c) /\ canLoad'[c] = TRUE /\ in[c][1].type = "LOAD_MORE"
              \/ Misses(c)
<1>1. CASE InputMessage(c)
  <2>1. UNCHANGED <<rows, history, out, snap, editing, exposed, canLoad>>
    BY <1>1 DEF InputMessage, SetShown, Crash, lists, clientRest, tables
  <2> QED
    BY <1>1, <2>1, MessageHandled
<1>2. CASE EditMessageClient(c)
  <2>1. PICK t : SetShown(c, Head(in[c]).room, t) \/ Crash(c) \/ UNCHANGED <<phase, lists>>
    BY <1>2, EditOutcomes
  <2>2. canLoad' = canLoad
    BY <2>1 DEF SetShown, Crash, lists
  <2>3. UNCHANGED <<clientRest, exposed>>
    BY <1>2, Zenon DEF EditMessageClient
  <2>4. UNCHANGED <<rows, history, out, snap, editing, exposed>>
    BY <2>3 DEF clientRest, tables
  <2> QED
    BY <1>2, <2>2, <2>4, EditHandled
<1>3. CASE DeleteMessageClient(c)
  <2>1. UNCHANGED <<rows, history, out, snap, editing, exposed, canLoad>>
    BY <1>3 DEF DeleteMessageClient, SetShown, Crash, lists, clientRest, tables
  <2> QED
    BY <1>3, <2>1, DeleteHandled
<1>4. CASE LoadHistoryClient(c)
  <2>1. UNCHANGED <<rows, history, out, snap, editing, exposed>>
    BY <1>4 DEF LoadHistoryClient, clientRest, tables
  <2>2. in[c][1].type = "LOAD_MORE"
    BY <1>4, ReceiveFacts DEF LoadHistoryClient, ReceiveOnline
  <2> QED
    BY <1>4, <2>1, <2>2, LoadHandled
<1>5. CASE JoinRoomClient(c)
  <2>1. UNCHANGED <<rows, history, out, snap, editing, exposed, canLoad>>
    BY <1>5 DEF JoinRoomClient, AddRoom, lists, clientRest, tables
  <2> QED
    BY <1>5, <2>1, JoinHandled
<1>6. CASE LeaveRoomClient(c)
  <2>1. UNCHANGED <<rows, history, out, snap, editing, exposed, canLoad>>
    BY <1>6 DEF LeaveRoomClient, lists, clientRest, tables
  <2> QED
    BY <1>6, <2>1, LeaveHandled
<1>7. CASE DirectMessageClient(c)
  <2>1. UNCHANGED <<rows, history, out, snap, editing, exposed, canLoad>>
    BY <1>7 DEF DirectMessageClient, AddRoom, lists, clientRest, tables
  <2> QED
    BY <1>7, <2>1, DirectHandled
<1>8. CASE SearchAllClient(c)
  <2>1. UNCHANGED <<rows, history, out, snap, editing, exposed, canLoad>>
    BY <1>8 DEF SearchAllClient, lists, clientRest, tables
  <2> QED
    BY <1>8, <2>1, SearchHandled
<1>9. ~InputAuthentification(c) /\ ~ReceiveWithoutWindow(c)
  BY DEF InputAuthentification, ReceiveWithoutWindow
<1> QED
  BY <1>1, <1>2, <1>3, <1>4, <1>5, <1>6, <1>7, <1>8, <1>9 DEF ProcessInput

\* A client that follows what it was sent is ready for the next message.
LEMMA NextFits ==
    ASSUME TypeOK, ViewInv, NEW c \in Clients, phase[c] = "online", Talk(c),
           Takes(in[c], in'[c])
    PROVE  ~Misses(c)
<1>1. SignInOrder(c)
  BY DEF ViewInv, View
<1>2. Answers(c) = {}
  BY <1>1, SignInIs
<1>3. /\ Len(in[c]) \in Nat /\ Len(in[c]) > 0 /\ DOMAIN in[c] = 1 .. Len(in[c])
  BY DEF Takes
<1>4. ASSUME NEW r \in RoomIds
      PROVE  InOrder(Has(c, r).list) /\ Fits(Has(c, r), in[c][1], r)
  <2>1. PICK s : s = in[c]
    OBVIOUS
  <2>2. PICK v : v = Has(c, r)
    OBVIOUS
  <2>3. PICK f : f = RunOf(v, s, c, r)
    OBVIOUS
  <2>4. Follows(f, s, r)
    BY <2>1, <2>2, <2>3 DEF Talk
  <2>5. \A j \in 1 .. Len(s) : s[j].type # "AUTH"
    BY <1>2, <1>3, <2>1 DEF Answers
  <2>6. Len(s) \in Nat /\ 0 \in 0 .. Len(s) /\ 0 < Len(s) /\ 0 + 1 = 1
    BY <1>3, <2>1
  <2>7. InOrder(f[0].list) /\ (0 < Len(s) => Fits(f[0], s[0 + 1], r))
    BY <2>4, <2>5, <2>6, AllFollow
  <2>8. f[0] = v
    BY <2>3, <2>6, RunSteps
  <2> QED
    BY <2>1, <2>2, <2>6, <2>7, <2>8
<1> QED
  BY <1>4 DEF Misses

\* c takes a message, and what it holds then is of history.
LEMMA OfHistoryTaking ==
    ASSUME TalkInv, NEW c \in Clients, Takes(in[c], in'[c]), UNCHANGED <<history, out, editing>>,
           \A d \in Clients : d # c => IsLeft(d),
           \A r \in RoomIds : AllOf(r, shown'[c][r]) /\ AllOf(r, snap'[c].shown[r])
    PROVE  OfHistory'
<1>1. ShownOf /\ EditingOf /\ ChangesOf /\ AllSentOf
  BY OfHistoryIs, TalkInvIs
<1>2. ASSUME NEW d \in Clients, NEW r \in RoomIds
      PROVE  AllOf(r, shown'[d][r]) /\ AllOf(r, snap'[d].shown[r])
  <2>1. CASE d = c
    BY <2>1
  <2>2. CASE d # c
    BY <1>1, <2>2 DEF ShownOf, IsLeft
  <2> QED
    BY <2>1, <2>2
<1>3. \A d \in Clients : editing'[d] # NoEdit => IsOf(editing'[d].room, editing'[d].id)
  BY <1>1 DEF EditingOf
<1>4. \A d \in Clients : \A k \in DOMAIN out'[d] :
          out'[d][k].type \in {"EDIT", "DELETE"} => IsOf(out'[d][k].room, out'[d][k].id)
  BY <1>1 DEF ChangesOf
<1>5. ASSUME NEW d \in Clients, NEW k \in DOMAIN in'[d]
      PROVE  SentOfHistory(in'[d][k])
  <2>1. CASE d = c
    <3>1. k + 1 \in DOMAIN in[c] /\ in'[c][k] = in[c][k + 1]
      BY <1>5, <2>1 DEF Takes
    <3> QED
      BY <1>1, <2>1, <3>1 DEF AllSentOf
  <2>2. CASE d # c
    BY <1>1, <1>5, <2>2 DEF AllSentOf, IsLeft
  <2> QED
    BY <2>1, <2>2
<1> QED
  BY <1>2, <1>3, <1>4, <1>5, OfHistoryKept

\* The handlers make lists of messages of history.
LEMMA HandledOf ==
    ASSUME TypeOK, TalkInv, NEW c \in Clients, Handles(c), phase[c] = "online",
           Takes(in[c], in'[c]), in[c][1] \in Reply
    PROVE  \A r \in RoomIds : AllOf(r, shown'[c][r])
<1> SUFFICES ASSUME NEW r \in RoomIds
             PROVE  AllOf(r, shown'[c][r])
  OBVIOUS
<1>1. ShownOf /\ AllSentOf
  BY OfHistoryIs, TalkInvIs
<1>2. PICK m : m = in[c][1]
  OBVIOUS
<1>3. PICK h : h = history
  OBVIOUS
<1>4. PICK v : v = Has(c, r)
  OBVIOUS
<1>5. PICK w : w = Applied(v, m, c, r)
  OBVIOUS
<1>6. v \in Had /\ v.list = shown[c][r]
  BY <1>4, HasTypes DEF Has
<1>7. AllIn(h, r, v.list)
  <2>1. AllOf(r, shown[c][r])
    BY <1>1 DEF ShownOf
  <2> QED
    BY <1>3, <1>6, <2>1, HistoryIs
<1>8. SentIn(h, m)
  <2>1. 1 \in DOMAIN in[c]
    BY DEF Takes
  <2>2. SentOfHistory(in[c][1])
    BY <1>1, <2>1 DEF AllSentOf
  <2> QED
    BY <1>2, <1>3, <2>2, HistoryIs
<1>9. AllIn(h, r, w.list)
  BY <1>2, <1>5, <1>6, <1>7, <1>8, AppliedOf
<1>10. Has(c, r)' = w
  BY <1>2, <1>4, <1>5 DEF Handles
<1>11. Has(c, r)' = [known |-> r \in known'[c], list |-> shown'[c][r]]
  BY DEF Has, Handles
<1>12. w.list = shown'[c][r]
  BY <1>10, <1>11
<1> QED
  BY <1>3, <1>9, <1>12, HistoryIs

\* A handler does what the message says to a client that is not exposed.
LEMMA TalkOnlineStep ==
    ASSUME TypeOK, TypeOK', ViewInv, TalkInv, NEW c \in Clients, ProcessInput(c),
           phase[c] = "online"
    PROVE  TalkInv'
<1>1. /\ UNCHANGED <<rows, history, out, snap, editing, exposed>>
      /\ \/ Handles(c) /\ canLoad'[c] = canLoad[c]
         \/ Handles(c) /\ canLoad'[c] = TRUE /\ in[c][1].type = "LOAD_MORE"
         \/ Misses(c)
  BY OnlineInput
<1>2. Takes(in[c], in'[c]) /\ in[c][1] \in Reply /\ \A d \in Clients : d # c => IsLeft(d)
  BY InputKinds, OthersLeft
<1>3. OfHistory'
  <2>1. ShownOf
    BY OfHistoryIs, TalkInvIs
  <2>2. \A r \in RoomIds : AllOf(r, snap'[c].shown[r])
    BY <1>1, <2>1 DEF ShownOf
  <2>3. \A r \in RoomIds : AllOf(r, shown'[c][r])
    <3>1. CASE Handles(c)
      BY <1>2, <3>1, HandledOf
    <3>2. CASE Misses(c)
      BY <2>1, <3>2 DEF Misses, ShownOf
    <3> QED
      BY <1>1, <3>1, <3>2
  <2> QED
    BY <1>1, <1>2, <2>2, <2>3, OfHistoryTaking
<1>4. ASSUME c \notin exposed'
      PROVE  phase'[c] # "crashed" /\ Told(c)'
  <2>1. Told(c) /\ Listening(c)
    BY <1>1, <1>4, TalkInvIs DEF Listening
  <2>2. Talk(c) /\ Loads(c)
    BY <2>1 DEF Told
  <2>3. ~Misses(c)
    BY <1>2, <2>2, NextFits
  <2>4. Handles(c)
    BY <1>1, <2>3
  <2>5. phase'[c] = "online"
    BY <2>4 DEF Handles
  <2>6. \A r \in RoomIds : Has(c, r)' = Applied(Has(c, r), in[c][1], c, r)
    BY <2>4 DEF Handles
  <2>7. Talk(c)' /\ \A r \in RoomIds : WillHave(c, r)' = WillHave(c, r)
    BY <1>1, <1>2, <2>2, <2>6, TalkTakenBy
  <2>8. AllHave(c)' = AllHave(c)
    BY <2>7 DEF AllHave
  <2>9. out \in [Clients -> Seq(Request)] /\ out' \in [Clients -> Seq(Request)]
    BY DEF TypeOK
  <2>10. LoadsOk("online", canLoad[c], out[c], in[c], AllHave(c))
    BY <2>2, <2>9, LoadsIs
  <2>11. PICK can, asks, s, t, w : /\ can = canLoad[c] /\ asks = out[c] /\ s = in[c]
                                   /\ t = in'[c] /\ w = AllHave(c)
    OBVIOUS
  <2>12. LoadsOk("online", can, asks, s, w) /\ Takes(s, t)
    BY <1>2, <2>10, <2>11
  <2>13. /\ LoadsOk("online", can, asks, t, w)
         /\ s[1].type = "LOAD_MORE" => LoadsOk("online", TRUE, asks, t, w)
    BY <2>12, LoadsTaken
  <2>14. LoadsOk("online", canLoad'[c], asks, t, w)
    BY <1>1, <2>3, <2>11, <2>13
  <2>15. LoadsOk(phase'[c], canLoad'[c], out'[c], in'[c], AllHave(c)')
    BY <1>1, <2>5, <2>8, <2>11, <2>14
  <2>16. Loads(c)'
    BY <2>9, <2>15, LoadsWillBe
  <2> QED
    BY <2>5, <2>7, <2>16 DEF Told
<1> QED
  BY <1>1, <1>2, <1>3, <1>4, TalkByClient

\* The answer to AUTH is the list the client starts from.
LEMMA TalkSignedInStep ==
    ASSUME TypeOK, TypeOK', ViewInv, TalkInv, NEW c \in Clients, InputAuthentification(c)
    PROVE  TalkInv'
<1>1. PICK m : m = in[c][1]
  OBVIOUS
<1>2. /\ Receive(c, {"AUTH"}) /\ phase[c] = "waiting"
      /\ phase' = [phase EXCEPT ![c] = "building"]
      /\ UNCHANGED <<rows, history, out, known, shown, canLoad, editing, exposed>>
      /\ snap' = [snap EXCEPT ![c] = [rooms |-> Head(in[c]).rooms, shown |-> Head(in[c]).shown]]
  BY DEF InputAuthentification, tables, lists
<1>3. /\ m \in Reply /\ Head(in[c]) = m /\ m.type = "AUTH" /\ Takes(in[c], in'[c])
      /\ \A d \in Clients : d # c => in'[d] = in[d]
  <2>1. /\ Head(in[c]) \in Reply /\ Head(in[c]) = in[c][1] /\ Head(in[c]).type \in {"AUTH"}
        /\ Takes(in[c], in'[c]) /\ \A d \in Clients : d # c => in'[d] = in[d]
    BY <1>2, ReceiveFacts
  <2> QED
    BY <1>1, <2>1
<1>4. /\ phase \in [Clients -> Phases]
      /\ snap \in [Clients -> [rooms : SUBSET RoomIds, shown : History]]
      /\ out \in [Clients -> Seq(Request)] /\ out' \in [Clients -> Seq(Request)]
  BY DEF TypeOK
<1>5. /\ phase'[c] = "building" /\ snap'[c] = [rooms |-> m.rooms, shown |-> m.shown]
      /\ \A d \in Clients : d # c => phase'[d] = phase[d] /\ snap'[d] = snap[d]
  BY <1>2, <1>3, <1>4
<1>6. \A d \in Clients : d # c => IsLeft(d)
  BY <1>2, <1>3, <1>5 DEF IsLeft
<1>7. 1 \in DOMAIN in[c] /\ in[c][1].type = "AUTH"
  BY <1>1, <1>3 DEF Takes
<1>8. OfHistory'
  <2>1. ShownOf /\ AllSentOf
    BY OfHistoryIs, TalkInvIs
  <2>2. \A r \in RoomIds : AllOf(r, shown'[c][r])
    BY <1>2, <2>1 DEF ShownOf
  <2>3. SentOfHistory(m)
    BY <1>1, <1>7, <2>1 DEF AllSentOf
  <2>4. \A r \in RoomIds : AllOf(r, m.shown[r])
    BY <1>3, <2>3 DEF SentOfHistory
  <2>5. snap'[c].shown = m.shown
    BY <1>5
  <2>6. \A r \in RoomIds : AllOf(r, snap'[c].shown[r])
    BY <2>4, <2>5
  <2> QED
    BY <1>2, <1>3, <1>6, <2>2, <2>6, OfHistoryTaking
<1>9. ASSUME c \notin exposed'
      PROVE  Told(c)'
  <2>1. Told(c) /\ Listening(c)
    BY <1>2, <1>7, <1>9, TalkInvIs DEF Listening
  <2>2. Talk(c) /\ Loads(c)
    BY <2>1 DEF Told
  <2>3. ASSUME NEW r \in RoomIds
        PROVE  Has(c, r)' = Applied(Has(c, r), in[c][1], c, r)
    <3>1. Has(c, r)' = [known |-> r \in m.rooms, list |-> m.shown[r]]
      BY <1>5 DEF Has
    <3>2. Applied(Has(c, r), m, c, r) = [known |-> r \in m.rooms, list |-> m.shown[r]]
      BY <1>3 DEF Applied
    <3> QED
      BY <1>1, <3>1, <3>2
  <2>4. Talk(c)'
    BY <1>2, <1>3, <2>2, <2>3, TalkTakenBy
  <2>5. out[c] = <<>>
    <3>1. SignInOrder(c)
      BY DEF ViewInv, View
    <3>2. 1 \in Answers(c)
      BY <1>7 DEF Answers
    <3> QED
      BY <1>2, <3>1, <3>2, SignInIs
  <2>6. LoadsOf(in'[c]) = {}
    <3>1. ASSUME NEW k \in LoadsOf(in'[c])
          PROVE  FALSE
      <4>1. k \in Nat /\ k + 1 \in DOMAIN in[c] /\ in'[c][k] = in[c][k + 1]
        BY <1>3 DEF LoadsOf, Takes
      <4>2. k + 1 \in LoadsOf(in[c])
        BY <4>1 DEF LoadsOf
      <4>3. k + 1 < 1
        BY <1>2, <1>7, <2>2, <4>2 DEF Loads
      <4> QED
        BY <4>1, <4>3
    <3> QED
      BY <3>1
  <2>7. LoadsOk(phase'[c], canLoad'[c], out'[c], in'[c], AllHave(c)')
    BY <1>2, <1>5, <2>5, <2>6 DEF LoadsOk
  <2>8. Loads(c)'
    BY <1>4, <2>7, LoadsWillBe
  <2> QED
    BY <2>4, <2>8 DEF Told
<1> QED
  BY <1>2, <1>5, <1>6, <1>8, <1>9, TalkByClient

\* What is handled while the window is not there exposes the client.
LEMMA TalkUnseenStep ==
    ASSUME TypeOK, TypeOK', TalkInv, NEW c \in Clients, ReceiveWithoutWindow(c)
    PROVE  TalkInv'
<1>1. /\ UNCHANGED <<rows, history, out, snap, editing, shown>>
      /\ exposed' = exposed \cup {c}
  BY DEF ReceiveWithoutWindow, Crash, clientRest, tables, lists
<1>2. Takes(in[c], in'[c]) /\ \A d \in Clients : d # c => IsLeft(d)
  BY InputKinds, OthersLeft DEF ProcessInput
<1>3. OfHistory'
  <2>1. ShownOf
    BY OfHistoryIs, TalkInvIs
  <2>2. \A r \in RoomIds : AllOf(r, shown'[c][r]) /\ AllOf(r, snap'[c].shown[r])
    BY <1>1, <2>1 DEF ShownOf
  <2> QED
    BY <1>1, <1>2, <2>2, OfHistoryTaking
<1> QED
  BY <1>1, <1>2, <1>3, TalkByClient

LEMMA TalkInputStep ==
    ASSUME TypeOK, TypeOK', ViewInv, TalkInv, NEW c \in Clients, ProcessInput(c)
    PROVE  TalkInv'
<1>1. CASE InputAuthentification(c)
  BY <1>1, TalkSignedInStep
<1>2. CASE ReceiveWithoutWindow(c)
  BY <1>2, TalkUnseenStep
<1>3. CASE phase[c] = "online"
  BY <1>3, TalkOnlineStep
<1>4. EditMessageClient(c) => phase[c] = "online"
  BY EditOutcomes DEF ReceiveOnline
<1>5. /\ InputMessage(c) => phase[c] = "online"
      /\ LoadHistoryClient(c) => phase[c] = "online"
      /\ SearchAllClient(c) => phase[c] = "online"
  BY DEF InputMessage, LoadHistoryClient, SearchAllClient, ReceiveOnline
<1>6. DeleteMessageClient(c) => phase[c] = "online"
  BY DEF DeleteMessageClient, ReceiveOnline
<1>7. /\ JoinRoomClient(c) => phase[c] = "online"
      /\ LeaveRoomClient(c) => phase[c] = "online"
      /\ DirectMessageClient(c) => phase[c] = "online"
  BY DEF JoinRoomClient, LeaveRoomClient, DirectMessageClient, ReceiveOnline
<1> QED
  BY <1>1, <1>2, <1>3, <1>4, <1>5, <1>6, <1>7 DEF ProcessInput

-----------------------------------------------------------------------------
\* The invariant.

LEMMA TalkInit == Init => TalkInv
<1> SUFFICES ASSUME Init
             PROVE  TalkInv
  OBVIOUS
<1>0. TypeOK
  BY RoomsInitTypes
<1>1. \A c \in Clients : /\ phase[c] = "login" /\ in[c] = <<>> /\ out[c] = <<>>
                         /\ editing[c] = NoEdit /\ shown[c] = NoMessages
                         /\ snap[c].shown = NoMessages
  BY DEF Init
<1>2. OfHistory
  <2>1. \A r \in RoomIds : NoMessages[r] = <<>>
    BY DEF NoMessages
  <2>2. \A r : AllOf(r, <<>>)
    BY DEF AllOf
  <2>3. ShownOf
    BY <1>1, <2>1, <2>2 DEF ShownOf
  <2>4. EditingOf /\ ChangesOf /\ AllSentOf
    BY <1>1 DEF EditingOf, ChangesOf, AllSentOf
  <2> QED
    BY <2>3, <2>4, OfHistoryIs
<1>3. RowsOnce
  <2> SUFFICES ASSUME NEW c \in Clients \ exposed, NEW r \in RoomIds
               PROVE  rows[c][r] <= 1
    BY DEF RowsOnce
  <2>1. rows[c][r] \in Nat
    BY <1>0 DEF TypeOK
  <2>2. ~(rows[c][r] > 1)
    BY DEF Init
  <2> QED
    BY <2>1, <2>2
<1>4. OnlyExposedCrash
  BY <1>1 DEF OnlyExposedCrash
<1>5. \A c \in Clients : Told(c)
  BY <1>1 DEF Told, Listening, Loads
<1> QED
  BY <1>2, <1>3, <1>4, <1>5, TalkInvIs

LEMMA TalkStep == RoomsInv /\ ViewInv /\ TalkInv /\ [Next]_vars => TalkInv'
<1> SUFFICES ASSUME RoomsInv, ViewInv, TalkInv, [Next]_vars
             PROVE  TalkInv'
  OBVIOUS
<1>0. TypeOK /\ TypeOK'
  <2>1. TypeOK
    BY DEF RoomsInv
  <2> QED
    BY <2>1, RoomsTypeStep
<1>1. CASE UNCHANGED vars
  <2>1. UNCHANGED <<rows, history, out, in, phase, snap, known, shown, canLoad, editing,
                    exposed>>
    BY <1>1 DEF vars, tables, lists
  <2>2. OfHistory'
    BY <2>1, OfHistorySame, OfHistoryIs, TalkInvIs DEF ChangesOf
  <2>3. RowsOnce' /\ OnlyExposedCrash'
    BY <2>1, TalkInvIs DEF RowsOnce, OnlyExposedCrash
  <2>4. out' \in [Clients -> Seq(Request)]
    BY <1>0 DEF TypeOK
  <2>5. ASSUME NEW d \in Clients \ exposed'
        PROVE  Told(d)'
    <3>1. Told(d)
      BY <2>1, <2>5, TalkInvIs
    <3> QED
      BY <1>0, <2>1, <2>4, <3>1, ToldUntouched
  <2> QED
    BY <2>2, <2>3, <2>5, TalkInvIs
<1>2. ASSUME NEW c \in Clients, Serve(c)
      PROVE  TalkInv'
  <2>1. CASE \/ Logout(c) \/ ProcessMessage(c) \/ EditMessage(c) \/ DeleteMessage(c)
             \/ SearchAll(c)
    BY <1>0, <2>1, TalkTalkStep
  <2>2. CASE JoinRoom(c) \/ CreateRoom(c) \/ LeaveRoom(c) \/ DirectMessage(c)
    BY <2>2, TalkMembersStep
  <2>3. CASE LoadHistory(c)
    BY <1>0, <2>3, TalkLoadStep
  <2>4. CASE Authorization(c)
    BY <2>4, TalkSignInStep
  <2>5. CASE EndOfFile(c)
    BY <1>0, <2>5, TalkCrashedStep
  <2> QED
    BY <1>2, <2>1, <2>2, <2>3, <2>4, <2>5 DEF Serve
<1>3. ASSUME NEW c \in Clients, Callback(c) \/ ProcessInput(c)
      PROVE  TalkInv'
  BY <1>0, <1>3, TalkCallbackStep, TalkInputStep
<1> QED
  BY <1>1, <1>2, <1>3 DEF Next

LEMMA TalkInvariant == Spec => [](TypeOK /\ ViewInv /\ TalkInv)
<1>1. RoomsInv => TypeOK
  BY DEF RoomsInv
<1> QED
  BY <1>1, TalkInit, TalkStep, RoomsInvariant, ViewInvariant, PTL DEF Spec

\* A client that has handled all that was sent to it lists exactly the rooms it has
\* rows of, and shows of each, in the order of their ids and with their present text,
\* all the stored messages from the first shown on: whatever was sent, edited,
\* deleted, joined, left and scrolled for by whichever users meanwhile, in whichever
\* order the server and the threads of the clients came to it.  Excepted are the
\* clients that met one of the races the code does not guard.
THEOREM CaughtUpAgree == Spec => []CaughtUpClientsAgree
<1>1. TypeOK /\ ViewInv /\ TalkInv => CaughtUpClientsAgree
  <2> SUFFICES ASSUME TypeOK, TalkInv, NEW c \in Clients \ exposed, phase[c] = "online",
                      in[c] = <<>>
               PROVE  /\ known[c] = {r \in RoomIds : rows[c][r] > 0}
                      /\ \A r \in known[c] : Agrees(r, shown[c][r])
    BY DEF CaughtUpClientsAgree
  <2>1. Talk(c)
    BY TalkInvIs DEF Told, Listening
  <2>2. ASSUME NEW r \in RoomIds
        PROVE  /\ r \in known[c] <=> rows[c][r] > 0
               /\ r \in known[c] => Agrees(r, shown[c][r])
    <3>1. PICK s : s = in[c]
      OBVIOUS
    <3>2. Len(s) = 0
      BY <3>1
    <3>3. RunOf(Has(c, r), s, c, r)[0] = Has(c, r)
      BY <3>2, RunSteps
    <3>4. WillHave(c, r) = Has(c, r)
      BY <3>1, <3>2, <3>3 DEF WillHave
    <3>5. IsDue(c, r, Has(c, r))
      BY <2>1, <3>4 DEF Talk
    <3>6. PICK v : v = Has(c, r)
      OBVIOUS
    <3>7. /\ v.known <=> rows[c][r] > 0
          /\ v.known => Agrees(r, v.list)
      BY <3>5, <3>6 DEF IsDue
    <3>8. (v.known <=> r \in known[c]) /\ v.list = shown[c][r]
      BY <3>6 DEF Has
    <3> QED
      BY <3>7, <3>8
  <2>3. known[c] \subseteq RoomIds
    BY DEF TypeOK
  <2> QED
    BY <2>2, <2>3
<1> QED
  BY <1>1, TalkInvariant, PTL

\* The messages of a room are shown in the order of their ids, none of them twice,
\* at any moment: older messages come before the first one shown, new ones after the
\* last, whichever of them are on their way together.
THEOREM ListsInOrder == Spec => []ShownInOrder
<1>1. TypeOK /\ ViewInv /\ TalkInv => ShownInOrder
  <2> SUFFICES ASSUME TypeOK, ViewInv, TalkInv, NEW c \in Clients \ exposed, NEW r \in RoomIds,
                      phase[c] = "online"
               PROVE  InOrder(shown[c][r])
    BY DEF ShownInOrder
  <2>1. Talk(c)
    BY TalkInvIs DEF Told, Listening
  <2>2. SignInOrder(c)
    BY DEF ViewInv, View
  <2>3. Answers(c) = {}
    BY <2>2, SignInIs
  <2>4. PICK s : s = in[c]
    OBVIOUS
  <2>5. PICK v : v = Has(c, r)
    OBVIOUS
  <2>6. PICK f : f = RunOf(v, s, c, r)
    OBVIOUS
  <2>7. Follows(f, s, r)
    BY <2>1, <2>4, <2>5, <2>6 DEF Talk
  <2>8. Len(s) \in Nat /\ DOMAIN s = 1 .. Len(s)
    <3>1. in[c] \in Seq(Reply)
      BY DEF TypeOK
    <3> QED
      BY <2>4, <3>1
  <2>9. \A j \in 1 .. Len(s) : s[j].type # "AUTH"
    BY <2>3, <2>4, <2>8 DEF Answers
  <2>10. 0 \in 0 .. Len(s)
    BY <2>8
  <2>11. InOrder(f[0].list)
    BY <2>7, <2>8, <2>9, <2>10, AllFollow
  <2>12. f[0] = v
    BY <2>6, <2>8, RunSteps
  <2>13. v.list = shown[c][r]
    BY <2>5 DEF Has
  <2> QED
    BY <2>11, <2>12, <2>13
<1> QED
  BY <1>1, TalkInvariant, PTL

\* The handlers of a client follow no null pointer and touch no widget that is gone,
\* unless the client met one of the races: what the server sends it always finds its
\* room, and its message or a list that begins after it.
THEOREM CrashesAreExposed == Spec => []OnlyExposedCrash
<1>1. TalkInv => OnlyExposedCrash
  BY DEF TalkInv
<1> QED
  BY <1>1, TalkInvariant, PTL

=============================================================================
