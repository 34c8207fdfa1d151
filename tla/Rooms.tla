------------------------------- MODULE Rooms -------------------------------
(***************************************************************************)
(* Rooms, members and messages: what the server keeps in rooms, room_user, *)
(* direct_rooms and msg_history, what it broadcasts, and the lists of      *)
(* rooms and messages each client builds from what it receives.            *)
(*                                                                         *)
(* One connection per client that is not broken unless the client crashes  *)
(* (module Sessions has the outages).  A connection is a FIFO in each      *)
(* direction, out[c] to the server and in[c] from it; a client is the user *)
(* it signs in as.  A handler of the server is one action; a client has    *)
(* two threads, the GTK thread of the callbacks and the input thread of    *)
(* the handlers, and a step of either is an action.                        *)
(***************************************************************************)
EXTENDS Integers, Sequences, FiniteSets, SequencesExt

CONSTANTS
    Clients,
    Texts,           \* texts of messages
    Recent,          \* messages of a room sent when it is opened: 5
    Batch,           \* messages of one "load more": 15
    Uses,            \* bound: the operations the users perform
    MaxRooms,        \* bound: rooms ever created
    MaxMessages,     \* bound: messages ever sent
    MaxRequests,     \* bound: user actions in one behaviour
    InitialRooms, InitialRows, InitialHistory,   \* the database at the start
    NoUser, NoEdit

RoomIds == 1 .. MaxRooms
MessageIds == 1 .. MaxMessages

\* direct rooms carry the row of direct_rooms that has their id
Room == [access : {"general", "public", "private", "direct"},
         first : Clients \cup {NoUser}, second : Clients \cup {NoUser}]
Message == [room : RoomIds, user : Clients, text : Texts, live : BOOLEAN]

\* A t_message of a client; gone when its widget has been destroyed.
Entry == [id : MessageIds, text : Texts, gone : BOOLEAN]

History == [RoomIds -> Seq(Entry)]

\* Requests of clients.
Request ==
    [type : {"AUTH", "LOGOUT", "SEARCH"}]
    \cup [type : {"MSG"}, room : RoomIds, text : Texts]
    \cup [type : {"EDIT"}, room : RoomIds, id : MessageIds, text : Texts]
    \cup [type : {"DELETE"}, room : RoomIds, id : MessageIds]
    \cup [type : {"LOAD_MORE"}, room : RoomIds, last : MessageIds]
    \cup [type : {"JOIN", "LEAVE"}, room : RoomIds]
    \cup [type : {"CREATE"}, access : {"public", "private"}]
    \cup [type : {"DIRECT"}, other : Clients]

\* What the server sends; it passes an EDIT and a DELETE on as they are.
Reply ==
    [type : {"AUTH"}, rooms : SUBSET RoomIds, shown : History]
    \cup [type : {"MSG"}, room : RoomIds, text : Texts, id : MessageIds]
    \cup {q \in Request : q.type \in {"EDIT", "DELETE"}}
    \cup [type : {"LOAD_MORE"}, room : RoomIds, shown : Seq(Entry)]
    \cup [type : {"JOIN", "CREATE"}, room : RoomIds, user : Clients, shown : Seq(Entry)]
    \cup [type : {"LEAVE"}, room : RoomIds, user : Clients]
    \cup [type : {"DIRECT"}, room : RoomIds, exist : BOOLEAN]
    \cup [type : {"SEARCH"}, rooms : SUBSET RoomIds]

Phases == {"login", "waiting", "building", "online", "crashed"}

Operations == {"MSG", "EDIT", "DELETE", "LOAD_MORE", "JOIN", "CREATE", "LEAVE",
               "DIRECT", "LOGOUT"}

ASSUME BoundsAssumption ==
    /\ {Recent, Batch, MaxRooms, MaxMessages, MaxRequests} \subseteq Nat
    /\ Recent > 0
    /\ Uses \subseteq Operations
    /\ NoUser \notin Clients /\ NoEdit \notin [room : RoomIds, id : MessageIds]
    /\ InitialRooms \in Seq(Room) /\ Len(InitialRooms) <= MaxRooms
    /\ InitialHistory \in Seq(Message) /\ Len(InitialHistory) <= MaxMessages
    /\ InitialRows \in [Clients -> [RoomIds -> Nat]]

\* The tables of an earlier run of the server: rows and messages are of rooms
\* there are, a direct room is of two users, with a row each, who have no other.
ASSUME TablesAssumption ==
    /\ \A c \in Clients, r \in RoomIds :
            InitialRows[c][r] > 0 => r \in DOMAIN InitialRooms
    /\ \A i \in DOMAIN InitialHistory : InitialHistory[i].room \in DOMAIN InitialRooms
    /\ \A r, q \in {i \in DOMAIN InitialRooms : InitialRooms[i].access = "direct"} :
            LET one == InitialRooms[r].first
                two == InitialRooms[r].second
            IN  /\ {one, two} \subseteq Clients /\ one # two
                /\ InitialRows[one][r] = 1 /\ InitialRows[two][r] = 1
                /\ {one, two} = {InitialRooms[q].first, InitialRooms[q].second} => r = q

VARIABLES
    rooms,      \* table rooms joined with direct_rooms, by id
    rows,       \* table room_user: how many rows a client has for a room
    history,    \* table msg_history by id; a deleted row is not live
    online,     \* clients whose row of users has a socket
    out, in,    \* connections: requests, and what the server has sent
    phase,      \* what the windows of a client show
    snap,       \* client -> info->rooms, the rooms of the AUTH reply
    known,      \* client -> ids in info->data->rooms
    shown,      \* client -> room -> the messages of the t_room
    canLoad,    \* client -> info->can_load
    editing,    \* client -> info->editing_room and info->editing, or NoEdit
    results,    \* client -> search results on screen: rooms with a Join button
    exposed,    \* history: clients that met a race their handlers do not guard
    asked       \* counts what MaxRequests bounds

tables == <<rooms, rows, history>>
lists == <<known, shown, canLoad>>
vars == <<tables, online, out, in, phase, snap, lists, editing, results,
          exposed, asked>>

NoMessages == [r \in RoomIds |-> <<>>]

TypeOK ==
    /\ rooms \in Seq(Room) /\ Len(rooms) <= MaxRooms
    /\ rows \in [Clients -> [RoomIds -> Nat]]
    /\ history \in Seq(Message) /\ Len(history) <= MaxMessages
    /\ online \subseteq Clients
    /\ out \in [Clients -> Seq(Request)] /\ in \in [Clients -> Seq(Reply)]
    /\ snap \in [Clients -> [rooms : SUBSET RoomIds, shown : History]]
    /\ phase \in [Clients -> Phases]
    /\ known \in [Clients -> SUBSET RoomIds]
    /\ shown \in [Clients -> History]
    /\ editing \in [Clients -> [room : RoomIds, id : MessageIds] \cup {NoEdit}]
    /\ results \in [Clients -> Seq(SUBSET RoomIds)]
    /\ canLoad \in [Clients -> BOOLEAN]
    /\ exposed \subseteq Clients
    /\ asked \in 0 .. MaxRequests

-----------------------------------------------------------------------------
\* The database.

IsStored(r, i) == history[i].live /\ history[i].room = r

\* The rows "where room_id = r and id < below", oldest first.
Stored(r, below) ==
    LET upTo[i \in 0 .. Len(history)] ==
            IF i = 0 THEN <<>>
            ELSE IF IsStored(r, i) /\ i < below
                 THEN Append(upTo[i - 1],
                             [id |-> i, text |-> history[i].text, gone |-> FALSE])
                 ELSE upTo[i - 1]
    IN  upTo[Len(history)]

LastOf(s, n) == IF Len(s) <= n THEN s ELSE SubSeq(s, Len(s) - n + 1, Len(s))

\* "order by msg_history.id desc limit n", which the client prepends one by one
Latest(r, n) == LastOf(Stored(r, Len(history) + 1), n)

Members(r) == {c \in Clients : rows[c][r] > 0}

\* mx_send_json_to_all_in_room: one send for each row of a member that has a
\* socket.  also: clients answered on the connection of the request as well.
Broadcast(newRows, r, m, also) ==
    in' = [c \in Clients |->
              in[c] \o [i \in 1 .. (IF c \in online THEN newRows[c][r] ELSE 0) |-> m]
                    \o (IF c \in also THEN <<m>> ELSE <<>>)]

Answer(c, m) == in' = [in EXCEPT ![c] = Append(@, m)]

\* The next request of c, taken from its connection.
Handle(c, type) ==
    /\ out[c] # <<>>
    /\ Head(out[c]).type = type
    /\ out' = [out EXCEPT ![c] = Tail(@)]

userState == <<phase, snap, lists, editing, results, asked>>

-----------------------------------------------------------------------------
\* The server.

\* mx_authorization, the part after mx_check_client: the rooms of the user with
\* their last messages.
Authorization(c) ==
    /\ Handle(c, "AUTH")
    /\ online' = online \cup {c}
    /\ LET mine == {r \in 1 .. Len(rooms) : rows[c][r] > 0}
       IN  Answer(c, [type |-> "AUTH", rooms |-> mine,
                      shown |-> [r \in RoomIds |->
                                    IF r \in mine THEN Latest(r, Recent) ELSE <<>>]])
    /\ UNCHANGED <<tables, userState, exposed>>

Logout(c) ==
    /\ Handle(c, "LOGOUT")
    /\ online' = online \ {c}
    /\ UNCHANGED <<tables, in, userState, exposed>>

\* Mutant of ProcessMessage: mx_get_data has not stored the id of the row.
ProcessMessageUnnumbered(c) ==
    /\ Handle(c, "MSG")
    /\ Len(history) < MaxMessages
    /\ LET q == Head(out[c])
       IN  /\ history' = Append(history, [room |-> q.room, user |-> c,
                                          text |-> q.text, live |-> TRUE])
           /\ Broadcast(rows, q.room,
                        [type |-> "MSG", room |-> q.room, text |-> q.text,
                         id |-> 0], {})
    /\ UNCHANGED <<rooms, rows, online, userState, exposed>>

\* mx_process_message_in_server: no test that the sender is a member.
ProcessMessage(c) ==
    /\ Handle(c, "MSG")
    /\ Len(history) < MaxMessages
    /\ LET q == Head(out[c])
       IN  /\ history' = Append(history, [room |-> q.room, user |-> c,
                                          text |-> q.text, live |-> TRUE])
           /\ Broadcast(rows, q.room,
                        [type |-> "MSG", room |-> q.room, text |-> q.text,
                         id |-> Len(history) + 1], {})
    /\ UNCHANGED <<rooms, rows, online, userState, exposed>>

\* A change of a message that is no longer stored reaches the members all the
\* same.
ExposeMembers(id, r) ==
    exposed' = IF history[id].live THEN exposed
                                   ELSE exposed \cup (Members(r) \cap online)

\* mx_edit_message; a text with a quote breaks the UPDATE and nothing is sent.
EditMessage(c) ==
    /\ Handle(c, "EDIT")
    /\ LET q == Head(out[c])
       IN  \/ UNCHANGED <<history, in, exposed>>
           \/ /\ history' = IF history[q.id].live
                            THEN [history EXCEPT ![q.id].text = q.text]
                            ELSE history
              /\ Broadcast(rows, q.room, q, {})
              /\ ExposeMembers(q.id, q.room)
    /\ UNCHANGED <<rooms, rows, online, userState>>

\* mx_delete_message
DeleteMessage(c) ==
    /\ Handle(c, "DELETE")
    /\ LET q == Head(out[c])
       IN  /\ history' = [history EXCEPT ![q.id].live = FALSE]
           /\ Broadcast(rows, q.room, q, {})
           /\ ExposeMembers(q.id, q.room)
    /\ UNCHANGED <<rooms, rows, online, userState>>

\* Mutant of LoadHistory: the message asked from is sent again.
LoadHistoryFromLast(c) ==
    /\ Handle(c, "LOAD_MORE")
    /\ LET q == Head(out[c])
       IN  Answer(c, [type |-> "LOAD_MORE", room |-> q.room,
                      shown |-> LastOf(Stored(q.room, q.last + 1), Batch)])
    /\ UNCHANGED <<tables, online, userState, exposed>>

\* mx_load_history.  History of a room the user has left in the meantime is
\* sent too.
LoadHistory(c) ==
    /\ Handle(c, "LOAD_MORE")
    /\ LET q == Head(out[c])
       IN  Answer(c, [type |-> "LOAD_MORE", room |-> q.room,
                      shown |-> LastOf(Stored(q.room, q.last), Batch)])
    /\ UNCHANGED <<tables, online, userState, exposed>>

\* Mutant of JoinRoom: the members are told before the row is there.
JoinRoomToldFirst(c) ==
    /\ Handle(c, "JOIN")
    /\ LET r == Head(out[c]).room
       IN  /\ rows' = [rows EXCEPT ![c][r] = @ + 1]
           /\ Broadcast(rows, r, [type |-> "JOIN", room |-> r, user |-> c,
                                  shown |-> Latest(r, Recent)], {})
    /\ UNCHANGED <<rooms, history, online, userState, exposed>>

\* mx_join_room: a row is inserted whether or not the user has one; with two,
\* everything is sent to it twice.
JoinRoom(c) ==
    /\ Handle(c, "JOIN")
    /\ LET r == Head(out[c]).room
           newRows == [rows EXCEPT ![c][r] = @ + 1]
       IN  /\ rows' = newRows
           /\ Broadcast(newRows, r, [type |-> "JOIN", room |-> r, user |-> c,
                                     shown |-> Latest(r, Recent)], {})
           /\ exposed' = IF rows[c][r] > 0 THEN exposed \cup {c} ELSE exposed
    /\ UNCHANGED <<rooms, history, online, userState>>

\* mx_create_room_server; a name with a quote breaks the INSERT.
CreateRoom(c) ==
    /\ Handle(c, "CREATE")
    /\ \/ UNCHANGED <<rooms, rows, in>>
       \/ LET r == Len(rooms) + 1
          IN  /\ r <= MaxRooms
              /\ rooms' = Append(rooms, [access |-> Head(out[c]).access,
                                         first |-> NoUser, second |-> NoUser])
              /\ rows' = [rows EXCEPT ![c][r] = @ + 1]
              /\ Answer(c, [type |-> "CREATE", room |-> r, user |-> c,
                            shown |-> <<>>])
    /\ UNCHANGED <<history, online, userState, exposed>>

\* Mutant of LeaveRoom: the requester is answered but keeps its row.
LeaveRoomKeepsRow(c) ==
    /\ Handle(c, "LEAVE")
    /\ LET q == Head(out[c])
       IN  Broadcast(rows, q.room, [type |-> "LEAVE", room |-> q.room, user |-> c],
                     {c})
    /\ UNCHANGED <<tables, online, userState, exposed>>

\* mx_leave_room: every row goes, the members that stay are told, and the
\* requester on its own connection.
LeaveRoom(c) ==
    /\ Handle(c, "LEAVE")
    /\ LET r == Head(out[c]).room
           newRows == [rows EXCEPT ![c][r] = 0]
       IN  /\ rows' = newRows
           /\ Broadcast(newRows, r, [type |-> "LEAVE", room |-> r, user |-> c], {c})
    /\ UNCHANGED <<rooms, history, online, userState, exposed>>

\* The ids the SELECT of mx_direct_message finds for c and d; the mutant looks
\* for one order of the two users only.
DirectRoomsAsAsked(c, d) ==
    {r \in 1 .. Len(rooms) : rooms[r].access = "direct"
                             /\ <<rooms[r].first, rooms[r].second>> = <<c, d>>}

DirectRooms(c, d) ==
    {r \in 1 .. Len(rooms) :
        /\ rooms[r].access = "direct"
        /\ <<rooms[r].first, rooms[r].second>> \in {<<c, d>>, <<d, c>>}}

\* mx_direct_message and mx_init_direct
DirectMessage(c) ==
    /\ Handle(c, "DIRECT")
    /\ LET d == Head(out[c]).other
           found == DirectRooms(c, d)
           r == Len(rooms) + 1
           withMine == [rows EXCEPT ![c][r] = @ + 1]
           newRows == [withMine EXCEPT ![d][r] = @ + 1]
       IN  \/ /\ found # {}
              /\ \E old \in found :
                    Answer(c, [type |-> "DIRECT", room |-> old, exist |-> TRUE])
              /\ UNCHANGED <<rooms, rows>>
           \/ /\ found = {}
              /\ r <= MaxRooms
              /\ rooms' = Append(rooms, [access |-> "direct", first |-> c,
                                         second |-> d])
              /\ rows' = newRows
              /\ Broadcast(newRows, r,
                           [type |-> "DIRECT", room |-> r, exist |-> FALSE], {})
    /\ UNCHANGED <<history, online, userState, exposed>>

\* mx_search_all, of which only the rooms that can be joined matter.
SearchAll(c) ==
    /\ Handle(c, "SEARCH")
    /\ Answer(c, [type |-> "SEARCH",
                  rooms |-> {r \in 1 .. Len(rooms) : rooms[r].access = "public"}])
    /\ UNCHANGED <<tables, online, userState, exposed>>

\* work_with_client on the end of file a crashed client leaves.
EndOfFile(c) ==
    /\ phase[c] = "crashed"
    /\ c \in online
    /\ online' = online \ {c}
    /\ out' = [out EXCEPT ![c] = <<>>]
    /\ UNCHANGED <<tables, in, userState, exposed>>

\* server_loop
Serve(c) ==
    \/ Authorization(c) \/ Logout(c)
    \/ ProcessMessage(c) \/ EditMessage(c) \/ DeleteMessage(c) \/ LoadHistory(c)
    \/ JoinRoom(c) \/ CreateRoom(c) \/ LeaveRoom(c) \/ DirectMessage(c)
    \/ SearchAll(c) \/ EndOfFile(c)

-----------------------------------------------------------------------------
\* The clients: callbacks of the GTK thread.

chat == <<snap, known, shown, editing>>

\* tls_send; the user of c acts on the main window.
Ask(c, use, q) ==
    /\ phase[c] = "online"
    /\ use \in Uses
    /\ asked < MaxRequests
    /\ asked' = asked + 1
    /\ out' = [out EXCEPT ![c] = Append(@, q)]

\* mx_enter_callback: the GTK thread waits for the answer.
Enter(c) ==
    /\ phase[c] = "login"
    /\ phase' = [phase EXCEPT ![c] = "waiting"]
    /\ out' = [out EXCEPT ![c] = Append(@, [type |-> "AUTH"])]
    /\ UNCHANGED <<tables, online, in, snap, lists, editing, results, exposed, asked>>

\* mx_init_general: the list of rooms is emptied, then filled from info->rooms.
\* Until it is, the input thread works on the list of the last sign-in, or on
\* what malloc left there.
InitGeneral(c) ==
    /\ phase[c] = "building"
    /\ phase' = [phase EXCEPT ![c] = "online"]
    /\ known' = [known EXCEPT ![c] = snap[c].rooms]
    /\ shown' = [shown EXCEPT ![c] = snap[c].shown]
    /\ canLoad' = [canLoad EXCEPT ![c] = TRUE]
    /\ UNCHANGED <<tables, online, out, in, snap, editing, results, exposed, asked>>

\* mx_send_callback: a message to the current room, or the edit in progress.
SendMessage(c, r, text) ==
    /\ editing[c] = NoEdit
    /\ r \in known[c]
    /\ Ask(c, "MSG", [type |-> "MSG", room |-> r, text |-> text])
    /\ UNCHANGED <<tables, online, in, phase, chat, canLoad, results, exposed>>

SendEdit(c, text) ==
    /\ editing[c] # NoEdit
    /\ Ask(c, "EDIT", [type |-> "EDIT", room |-> editing[c].room,
                       id |-> editing[c].id, text |-> text])
    /\ editing' = [editing EXCEPT ![c] = NoEdit]
    /\ UNCHANGED <<tables, online, in, phase, snap, lists, results, exposed>>

\* The menu of a message: its author's, while the widget is there.
Menu(c, r) ==
    {id \in {shown[c][r][i].id : i \in {j \in DOMAIN shown[c][r] :
                                           ~shown[c][r][j].gone}} :
        history[id].user = c}

\* mx_edit_callback and mx_edit_cancel_callback
Edit(c, r) ==
    /\ phase[c] = "online"
    /\ "EDIT" \in Uses
    /\ \E id \in Menu(c, r) :
            editing' = [editing EXCEPT ![c] = [room |-> r, id |-> id]]
    /\ UNCHANGED <<tables, online, out, in, phase, snap, lists, results, exposed,
                   asked>>

CancelEdit(c) ==
    /\ phase[c] = "online"
    /\ editing[c] # NoEdit
    /\ editing' = [editing EXCEPT ![c] = NoEdit]
    /\ UNCHANGED <<tables, online, out, in, phase, snap, lists, results, exposed,
                   asked>>

\* mx_delete_callback
Delete(c, r) ==
    /\ \E id \in Menu(c, r) :
            Ask(c, "DELETE", [type |-> "DELETE", room |-> r, id |-> id])
    /\ UNCHANGED <<tables, online, in, phase, chat, canLoad, results, exposed>>

\* c has asked to leave r and has not handled the answer.
Leaving(c, r) ==
    \/ [type |-> "LEAVE", room |-> r] \in Range(out[c])
    \/ [type |-> "LEAVE", room |-> r, user |-> c] \in Range(in[c])

\* mx_scroll_callback
Scroll(c, r) ==
    /\ canLoad[c]
    /\ r \in known[c]
    /\ shown[c][r] # <<>>
    /\ exposed' = IF Leaving(c, r) THEN exposed \cup {c} ELSE exposed
    /\ Ask(c, "LOAD_MORE", [type |-> "LOAD_MORE", room |-> r,
                            last |-> shown[c][r][1].id])
    /\ canLoad' = [canLoad EXCEPT ![c] = FALSE]
    /\ UNCHANGED <<tables, online, in, phase, chat, results>>

\* mx_search_callback
Search(c) ==
    /\ Ask(c, "JOIN", [type |-> "SEARCH"])
    /\ UNCHANGED <<tables, online, in, phase, chat, canLoad, results, exposed>>

\* mx_join_callback, on the results on top, which it hides.
Join(c) ==
    /\ results[c] # <<>>
    /\ \E r \in Last(results[c]) : Ask(c, "JOIN", [type |-> "JOIN", room |-> r])
    /\ results' = [results EXCEPT ![c] = Front(@)]
    /\ UNCHANGED <<tables, online, in, phase, chat, canLoad, exposed>>

\* mx_create_room_callback
Create(c) ==
    /\ \E access \in {"public", "private"} :
            Ask(c, "CREATE", [type |-> "CREATE", access |-> access])
    /\ UNCHANGED <<tables, online, in, phase, chat, canLoad, results, exposed>>

\* mx_leave_callback, in the menu mx_init_room_menu makes
Leave(c, r) ==
    /\ r \in known[c]
    /\ rooms[r].access \notin {"general", "direct"}
    /\ Ask(c, "LEAVE", [type |-> "LEAVE", room |-> r])
    /\ UNCHANGED <<tables, online, in, phase, chat, canLoad, results, exposed>>

\* message_callback, in the profile of another user
Direct(c, d) ==
    /\ d # c
    /\ Ask(c, "DIRECT", [type |-> "DIRECT", other |-> d])
    /\ results' = [results EXCEPT ![c] = IF @ = <<>> THEN @ ELSE Front(@)]
    /\ UNCHANGED <<tables, online, in, phase, chat, canLoad, exposed>>

\* mx_logout_callback: the window goes, info->data->rooms stays.
LogoutClient(c) ==
    /\ Ask(c, "LOGOUT", [type |-> "LOGOUT"])
    /\ phase' = [phase EXCEPT ![c] = "login"]
    /\ results' = [results EXCEPT ![c] = <<>>]
    /\ UNCHANGED <<tables, online, in, chat, canLoad, exposed>>

Callback(c) ==
    \/ Enter(c) \/ InitGeneral(c)
    \/ \E r \in RoomIds, text \in Texts : SendMessage(c, r, text)
    \/ \E text \in Texts : SendEdit(c, text)
    \/ \E r \in RoomIds : Edit(c, r) \/ Delete(c, r) \/ Scroll(c, r) \/ Leave(c, r)
    \/ CancelEdit(c) \/ Search(c) \/ Join(c) \/ Create(c) \/ LogoutClient(c)
    \/ \E d \in Clients : Direct(c, d)

-----------------------------------------------------------------------------
\* The clients: handlers of the input thread.

Receive(c, types) ==
    /\ phase[c] # "crashed"
    /\ in[c] # <<>>
    /\ Head(in[c]).type \in types
    /\ in' = [in EXCEPT ![c] = Tail(@)]

\* The window is there, so is the list of its rooms.
ReceiveOnline(c, types) == phase[c] = "online" /\ Receive(c, types)

\* A null pointer is followed: the process is gone.
Crash(c) ==
    /\ phase' = [phase EXCEPT ![c] = "crashed"]
    /\ UNCHANGED lists

SetShown(c, r, s) ==
    /\ shown' = [shown EXCEPT ![c][r] = s]
    /\ UNCHANGED <<phase, known, canLoad>>

clientRest == <<tables, online, out, snap, editing, asked>>

\* mx_input_authentification: AUTH_V while nobody is signed in.
InputAuthentification(c) ==
    /\ Receive(c, {"AUTH"})
    /\ phase[c] = "waiting"
    /\ phase' = [phase EXCEPT ![c] = "building"]
    /\ snap' = [snap EXCEPT ![c] = [rooms |-> Head(in[c]).rooms,
                                    shown |-> Head(in[c]).shown]]
    /\ UNCHANGED <<tables, online, out, lists, editing, results, exposed, asked>>

\* mx_input_message
InputMessage(c) ==
    /\ ReceiveOnline(c, {"MSG"})
    /\ LET m == Head(in[c])
       IN  IF m.room \in known[c]
           THEN SetShown(c, m.room,
                         Append(shown[c][m.room],
                                [id |-> m.id, text |-> m.text, gone |-> FALSE]))
           ELSE Crash(c)
    /\ UNCHANGED <<clientRest, results, exposed>>

\* mx_find_message: the places of a message in a list, first one first
Places(s, id) == {i \in DOMAIN s : s[i].id = id}
First(S) == CHOOSE i \in S : \A j \in S : i <= j

\* mx_edit_message_client.  An empty list of a room is read all the same, and
\* the widgets of a message that is gone are used: a crash or nothing.
EditMessageClient(c) ==
    /\ ReceiveOnline(c, {"EDIT"})
    /\ LET m == Head(in[c])
           s == shown[c][m.room]
           at == Places(s, m.id)
       IN  \/ m.room \notin known[c] /\ UNCHANGED <<phase, lists>>
           \/ m.room \in known[c] /\ s = <<>> /\ Crash(c)
           \/ /\ m.room \in known[c] /\ s # <<>>
              /\ \/ (m.id < s[1].id \/ at = {}) /\ UNCHANGED <<phase, lists>>
                 \/ /\ m.id >= s[1].id /\ at # {}
                    /\ \/ SetShown(c, m.room, [s EXCEPT ![First(at)].text = m.text])
                       \/ s[First(at)].gone /\ Crash(c)
    /\ UNCHANGED <<clientRest, results, exposed>>

\* The list after the widget at place i is destroyed and pop_message_id has
\* looked past the head for the message.
Popped(s, id, i) ==
    LET destroyed == [s EXCEPT ![i].gone = TRUE]
        later == Places(s, id) \ {1}
    IN  IF later = {} THEN destroyed ELSE RemoveAt(destroyed, First(later))

\* Mutant of DeleteMessageClient: messages before the first shown are looked
\* for as well.
DeleteAnyMessageClient(c) ==
    /\ ReceiveOnline(c, {"DELETE"})
    /\ LET m == Head(in[c])
           s == shown[c][m.room]
           at == Places(s, m.id)
       IN  \/ (m.room \notin known[c] \/ at = {}) /\ Crash(c)
           \/ /\ m.room \in known[c] /\ at # {}
              /\ SetShown(c, m.room, Popped(s, m.id, First(at)))
    /\ UNCHANGED <<clientRest, results, exposed>>

\* Mutant of DeleteMessageClient: > in the test against the first one shown.
DeleteLaterMessageClient(c) ==
    /\ ReceiveOnline(c, {"DELETE"})
    /\ LET m == Head(in[c])
           s == shown[c][m.room]
           at == Places(s, m.id)
       IN  \/ (m.room \notin known[c] \/ s = <<>>) /\ Crash(c)
           \/ /\ m.room \in known[c] /\ s # <<>>
              /\ \/ m.id <= s[1].id /\ UNCHANGED <<phase, lists>>
                 \/ m.id > s[1].id /\ at = {} /\ Crash(c)
                 \/ /\ m.id > s[1].id /\ at # {}
                    /\ \/ SetShown(c, m.room, Popped(s, m.id, First(at)))
                       \/ s[First(at)].gone /\ Crash(c)
    /\ UNCHANGED <<clientRest, results, exposed>>

\* mx_delete_message_client.  A room that is unknown, an empty list and a
\* message that is not found are followed; the widgets of a message that is gone
\* are destroyed again: a crash or nothing.
DeleteMessageClient(c) ==
    /\ ReceiveOnline(c, {"DELETE"})
    /\ LET m == Head(in[c])
           s == shown[c][m.room]
           at == Places(s, m.id)
       IN  \/ (m.room \notin known[c] \/ s = <<>>) /\ Crash(c)
           \/ /\ m.room \in known[c] /\ s # <<>>
              /\ \/ m.id < s[1].id /\ UNCHANGED <<phase, lists>>
                 \/ m.id >= s[1].id /\ at = {} /\ Crash(c)
                 \/ /\ m.id >= s[1].id /\ at # {}
                    /\ \/ SetShown(c, m.room, Popped(s, m.id, First(at)))
                       \/ s[First(at)].gone /\ Crash(c)
    /\ UNCHANGED <<clientRest, results, exposed>>

\* mx_load_history_client
LoadHistoryClient(c) ==
    /\ ReceiveOnline(c, {"LOAD_MORE"})
    /\ LET m == Head(in[c])
       IN  IF m.room \in known[c] \/ m.shown = <<>>
           THEN /\ shown' = [shown EXCEPT ![c][m.room] = m.shown \o @]
                /\ canLoad' = [canLoad EXCEPT ![c] = TRUE]
                /\ UNCHANGED <<phase, known>>
           ELSE Crash(c)
    /\ UNCHANGED <<clientRest, results, exposed>>

AddRoom(c, r, s) ==
    /\ known' = [known EXCEPT ![c] = @ \cup {r}]
    /\ shown' = [shown EXCEPT ![c][r] = s]
    /\ UNCHANGED <<phase, canLoad>>

\* mx_join_room_client, for a JOIN and for a CREATE; what it shows of the
\* arrival of another user is left out.
JoinRoomClient(c) ==
    /\ ReceiveOnline(c, {"JOIN", "CREATE"})
    /\ LET m == Head(in[c])
       IN  IF m.user = c /\ m.room \notin known[c]
           THEN AddRoom(c, m.room, m.shown)
           ELSE UNCHANGED <<phase, lists>>
    /\ UNCHANGED <<clientRest, results, exposed>>

\* mx_leave_room_client
LeaveRoomClient(c) ==
    /\ ReceiveOnline(c, {"LEAVE"})
    /\ LET m == Head(in[c])
       IN  IF m.user = c
           THEN /\ known' = [known EXCEPT ![c] = @ \ {m.room}]
                /\ shown' = [shown EXCEPT ![c][m.room] = <<>>]
                /\ UNCHANGED <<phase, canLoad>>
           ELSE UNCHANGED <<phase, lists>>
    /\ UNCHANGED <<clientRest, results, exposed>>

\* mx_direct_message_client
DirectMessageClient(c) ==
    /\ ReceiveOnline(c, {"DIRECT"})
    /\ LET m == Head(in[c])
       IN  IF ~m.exist /\ m.room \notin known[c]
           THEN AddRoom(c, m.room, <<>>)
           ELSE UNCHANGED <<phase, lists>>
    /\ UNCHANGED <<clientRest, results, exposed>>

\* mx_search_all_client: a room in the list gets no Join button.
SearchAllClient(c) ==
    /\ ReceiveOnline(c, {"SEARCH"})
    /\ results' = [results EXCEPT ![c] = Append(@, Head(in[c]).rooms \ known[c])]
    /\ UNCHANGED <<clientRest, phase, lists, exposed>>

\* Anything but the answer to AUTH that is handled while the main window is not
\* there works on a stale list and on widgets that are gone: a crash, or no
\* trace of it in the window that is to come.
ReceiveWithoutWindow(c) ==
    /\ phase[c] \in {"login", "waiting", "building"}
    /\ Receive(c, {"MSG", "EDIT", "DELETE", "LOAD_MORE", "JOIN", "CREATE",
                   "LEAVE", "DIRECT", "SEARCH"})
    /\ exposed' = exposed \cup {c}
    /\ \/ Crash(c)
       \/ UNCHANGED <<phase, lists>>
    /\ UNCHANGED <<clientRest, results>>

ProcessInput(c) ==
    \/ InputAuthentification(c)
    \/ InputMessage(c) \/ EditMessageClient(c) \/ DeleteMessageClient(c)
    \/ LoadHistoryClient(c) \/ JoinRoomClient(c) \/ LeaveRoomClient(c)
    \/ DirectMessageClient(c) \/ SearchAllClient(c) \/ ReceiveWithoutWindow(c)

-----------------------------------------------------------------------------
Init ==
    /\ rooms = InitialRooms
    /\ rows = InitialRows
    /\ history = InitialHistory
    /\ online = {}
    /\ out = [c \in Clients |-> <<>>]
    /\ in = [c \in Clients |-> <<>>]
    /\ phase = [c \in Clients |-> "login"]
    /\ snap = [c \in Clients |-> [rooms |-> {}, shown |-> NoMessages]]
    /\ known = [c \in Clients |-> {}]
    /\ shown = [c \in Clients |-> NoMessages]
    /\ canLoad = [c \in Clients |-> TRUE]
    /\ editing = [c \in Clients |-> NoEdit]
    /\ results = [c \in Clients |-> <<>>]
    /\ exposed = {c \in Clients : \E r \in RoomIds : rows[c][r] > 1}
    /\ asked = 0

Next == \E c \in Clients : Serve(c) \/ Callback(c) \/ ProcessInput(c)

Spec == Init /\ [][Next]_vars

-----------------------------------------------------------------------------
\* Properties.

\* Two users share at most one direct room whoever asks, in whichever order the
\* requests meet, and both have exactly one row in it, so neither gets its
\* messages twice.
DirectRoomsUnique ==
    \A r, q \in {i \in 1 .. Len(rooms) : rooms[i].access = "direct"} :
        /\ rows[rooms[r].first][r] = 1 /\ rows[rooms[r].second][r] = 1
        /\ {rooms[r].first, rooms[r].second} = {rooms[q].first, rooms[q].second}
           => r = q

\* A message that puts r in the list of c, and one that takes it out.  The
\* answer to AUTH stands for the list that is made from it.
Gets(m, c, r) ==
    \/ m.type = "AUTH" /\ r \in m.rooms
    \/ m.type \in {"JOIN", "CREATE"} /\ m.room = r /\ m.user = c
    \/ m.type = "DIRECT" /\ m.room = r /\ ~m.exist

Loses(m, c, r) ==
    \/ m.type = "AUTH"
    \/ m.type = "LEAVE" /\ m.room = r /\ m.user = c

Listed(c) == IF phase[c] = "building" THEN snap[c].rooms ELSE known[c]

\* Whether c knows room r when it has handled the first k messages of in[c].
KnownAfter(c, r, k) ==
    \E j \in 0 .. k :
        /\ IF j = 0 THEN r \in Listed(c) ELSE Gets(in[c][j], c, r)
        /\ \A i \in j + 1 .. k : ~Loses(in[c][i], c, r)

IsOfKnownRoom(m) ==
    \/ m.type \in {"MSG", "EDIT", "DELETE"}
    \/ m.type = "DIRECT" /\ m.exist

\* What the server sends a signed-in client about a room, it sends between the
\* answer that makes the client know the room and the one that makes it forget
\* it: no handler meets an unknown room, and an answer that a direct room exists
\* finds it in the list.
NoUnknownRoom ==
    \A c \in Clients :
        phase[c] \in {"building", "online"} =>
            \A k \in DOMAIN in[c] :
                IsOfKnownRoom(in[c][k])
                => KnownAfter(c, in[c][k].room, k - 1) \/ c \in exposed

\* A client that has handled all that was sent to it lists the rooms it is a
\* member of, and shows of each, in the order of their ids and with its present
\* text, every stored message from the first shown on, all of them when it shows
\* none; what else it holds are messages whose widgets are gone.  Excepted are
\* clients that met an unguarded race.
InOrder(s) == \A i, j \in DOMAIN s : i < j => s[i].id < s[j].id

IsOf(r, id) == id \in DOMAIN history /\ history[id].room = r

Agrees(r, s) ==
    /\ InOrder(s)
    /\ \A i \in DOMAIN s :
        /\ IsOf(r, s[i].id)
        /\ s[i].gone <=> ~history[s[i].id].live
        /\ ~s[i].gone => s[i].text = history[s[i].id].text
    /\ \A id \in DOMAIN history :
        IsStored(r, id) /\ (s # <<>> => id >= s[1].id) => Places(s, id) # {}

CaughtUpClientsAgree ==
    \A c \in Clients \ exposed :
        phase[c] = "online" /\ in[c] = <<>> =>
            /\ known[c] = {r \in RoomIds : rows[c][r] > 0}
            /\ \A r \in known[c] : Agrees(r, shown[c][r])

\* The messages of a room stay in the order of their ids, and none is shown
\* twice except to a client that met one of the races.
ShownInOrder ==
    \A c \in Clients \ exposed, r \in RoomIds :
        phase[c] = "online" => InOrder(shown[c][r])

\* The null pointers of the handlers are met only by clients that are exposed:
\* they got something while the main window was not there, asked for history of a
\* room they had asked to leave, or were sent a change of a deleted message.
OnlyExposedCrash == \A c \in Clients : phase[c] = "crashed" => c \in exposed
=============================================================================
