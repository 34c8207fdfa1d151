------------------------------ MODULE Sessions ------------------------------
(***************************************************************************)
(* Connections, accounts and sign-in of the chat system.                   *)
(*                                                                         *)
(* The server is one thread around kevent(): every handler below runs to   *)
(* its end before the next event is taken, so one handler is one action.   *)
(* A user is "online" when the column users.socket of server_db.bin holds  *)
(* the descriptor of a connection; the server survives in that file only,  *)
(* descriptors are reused, and a client whose tls_read fails opens a new   *)
(* connection while the server may not yet have seen the end of the old.   *)
(*                                                                         *)
(* link[fd] stands for an accepted connection together with its element of *)
(* the socket tree (module SocketTree); inq[fd] are the requests sent on   *)
(* it and not yet handled, each whole (the splitting of the byte stream    *)
(* into JSON objects is not part of this module).                          *)
(***************************************************************************)
EXTENDS Integers, Sequences

CONSTANTS
    Clients,       \* client processes
    Logins,        \* login names
    Passwords,     \* passwords, as sent (a hash or plain text)
    Fds,           \* descriptors accept() may return
    MaxId,         \* bound: rows ever inserted into users
    MaxFaults,     \* bound: broken connections, server stops, client exits
    QueueLen,      \* bound: unhandled requests of one connection
    InitialUsers,  \* the users table before the first start
    NoRow, NoLink, NoHash, NoLogin,
    NoFd           \* the 0 of users.socket: offline

Ids == 1 .. MaxId

Row == [login : Logins, pw : Passwords, socket : Fds \cup {NoFd}, notif : BOOLEAN]
Link == [client : Clients, up : BOOLEAN]

Request ==
    [type : {"AUTH", "RECONNECTION", "REG"},
     login : Logins \cup {NoLogin}, pw : Passwords]
    \cup [type : {"LOGOUT", "DELETE_ACCOUNT"}, id : Ids \cup {0}]

Reply == [type : {"AUTH_V", "AUTH_NV"}, id : Ids \cup {0}]

Phases == {"start", "login", "waiting", "online", "gone"}

ASSUME ConstantsAssumption ==
    /\ MaxId \in Nat
    /\ MaxFaults \in Nat
    /\ QueueLen \in Nat
    /\ NoFd \notin Fds
    /\ NoRow \notin Row
    /\ NoLink \notin Link
    /\ NoHash \notin Passwords
    /\ NoLogin \notin Logins
    /\ InitialUsers \in [Ids -> Row \cup {NoRow}]
    /\ \A id \in Ids : InitialUsers[id] # NoRow =>
            InitialUsers[id].socket = NoFd /\ InitialUsers[id].notif
    /\ \A i, j \in Ids :
            InitialUsers[i] # NoRow /\ InitialUsers[j] # NoRow
            /\ InitialUsers[i].login = InitialUsers[j].login => i = j
    \* the values that stand for no password in the mapping to Presence
    /\ "no account" \notin Passwords
    /\ "any password" \notin Passwords

VARIABLES
    running,   \* the server process is up
    users,     \* table users, with "has a user_notifications row" as notif
    lastId,    \* sqlite's AUTOINCREMENT counter of users
    link,      \* fd -> accepted connection and socket_list element
    inq,       \* fd -> requests not yet handled
    phase,     \* client -> what its windows show
    conn,      \* client -> the descriptor its tls context is connected to, or NoFd
    login,     \* client -> info->login of the last sign-in attempt
    hash,      \* client -> the static digest buffer info->password points to
    uid,       \* client -> info->id
    inbox,     \* client -> replies received and not yet handled
    typed,     \* history: client -> passwords its user has typed
    late,      \* history: clients of which the server handled a request from
               \* a connection the client had already given up
    faults     \* counts what MaxFaults bounds

serverVars == <<running, users, lastId, link, inq>>
clientVars == <<phase, conn, login, hash, uid, inbox, typed>>
vars == <<serverVars, clientVars, late, faults>>

TypeOK ==
    /\ running \in BOOLEAN
    /\ users \in [Ids -> Row \cup {NoRow}]
    /\ lastId \in 0 .. MaxId
    /\ link \in [Fds -> Link \cup {NoLink}]
    /\ inq \in [Fds -> Seq(Request)]
    /\ phase \in [Clients -> Phases]
    /\ conn \in [Clients -> Fds \cup {NoFd}]
    /\ login \in [Clients -> Logins \cup {NoLogin}]
    /\ hash \in [Clients -> Passwords \cup {NoHash}]
    /\ uid \in [Clients -> Ids \cup {0}]
    /\ inbox \in [Clients -> Seq(Reply)]
    /\ typed \in [Clients -> SUBSET Passwords]
    /\ late \subseteq Clients
    /\ faults \in 0 .. MaxFaults

-----------------------------------------------------------------------------
\* Rows and connections.

Rows(l) == {id \in Ids : users[id] # NoRow /\ users[id].login = l}

\* UPDATE users SET socket=s WHERE id IN ids
SetSocket(ids, s) ==
    users' = [id \in Ids |-> IF id \in ids THEN [users[id] EXCEPT !.socket = s]
                                           ELSE users[id]]

\* c's tls context is connected: what it sends still reaches the server.
Connected(c) ==
    /\ conn[c] \in Fds
    /\ link[conn[c]] # NoLink
    /\ link[conn[c]].client = c
    /\ link[conn[c]].up

\* tls_send: what is written to a connection that is lost is lost.
Send(c, requests) ==
    IF Connected(c)
    THEN /\ Len(inq[conn[c]]) + Len(requests) <= QueueLen
         /\ inq' = [inq EXCEPT ![conn[c]] = @ \o requests]
    ELSE inq' = inq

\* mx_save_send on the connection fd of the request.
Answer(fd, reply) ==
    LET c == link[fd].client
    IN  inbox' = IF conn[c] = fd /\ link[fd].up
                 THEN [inbox EXCEPT ![c] = Append(@, reply)]
                 ELSE inbox

Fault == faults < MaxFaults /\ faults' = faults + 1

-----------------------------------------------------------------------------
\* The server process.

\* main_server.c: the sockets left in the file by an earlier run are zeroed.
StartServer ==
    /\ ~running
    /\ running' = TRUE
    /\ SetSocket({id \in Ids : users[id] # NoRow}, NoFd)
    /\ UNCHANGED <<lastId, link, inq, clientVars, late, faults>>

\* The kernel closes every descriptor of the server, the file keeps the sockets.
ProcessEnds ==
    /\ running' = FALSE
    /\ link' = [fd \in Fds |-> NoLink]
    /\ inq' = [fd \in Fds |-> <<>>]

\* server_loop ends (a failed accept or handshake breaks it) or the process dies.
StopServer ==
    /\ running
    /\ Fault
    /\ ProcessEnds
    /\ UNCHANGED <<users, lastId, clientVars, late>>

\* The descriptor is closed or reset at the other end, or the path is lost.
ConnectionFails(fd) ==
    /\ link[fd] # NoLink
    /\ link[fd].up
    /\ Fault
    /\ link' = [link EXCEPT ![fd].up = FALSE]
    /\ UNCHANGED <<running, users, lastId, inq, clientVars, late>>

\* Mutant of EndOfFile: the row keeps its socket (no mx_drop_socket).
EndOfFileKeepsRows(fd) ==
    /\ link[fd] # NoLink
    /\ ~link[fd].up
    /\ link' = [link EXCEPT ![fd] = NoLink]
    /\ inq' = [inq EXCEPT ![fd] = <<>>]
    /\ UNCHANGED <<running, users, lastId, clientVars, late, faults>>

\* work_with_client on EV_EOF: mx_drop_socket, then mx_delete_socket_elem,
\* which closes the descriptor.  Requests still unread are never read.
EndOfFile(fd) ==
    /\ link[fd] # NoLink
    /\ ~link[fd].up
    /\ SetSocket({id \in Ids : users[id] # NoRow /\ users[id].socket = fd}, NoFd)
    /\ link' = [link EXCEPT ![fd] = NoLink]
    /\ inq' = [inq EXCEPT ![fd] = <<>>]
    /\ UNCHANGED <<running, lastId, clientVars, late, faults>>

\* The first request of a connection that the server still reads.
HasRequest(fd, types) ==
    /\ link[fd] # NoLink
    /\ inq[fd] # <<>>
    /\ Head(inq[fd]).type \in types

\* Notes a request of a connection that its client has given up.
NoteLate(fd) ==
    late' = IF conn[link[fd].client] = fd THEN late
                                         ELSE late \cup {link[fd].client}

TakeRequest(fd) ==
    /\ inq' = [inq EXCEPT ![fd] = Tail(@)]
    /\ NoteLate(fd)

\* Mutant of CheckClient: a login in use is not refused (no check_socket).
CheckPasswordOnly(l, p) ==
    /\ Rows(l) # {}
    /\ \A id \in Rows(l) : users[id].notif => users[id].pw = p

\* mx_check_client: refused while a row of the login has a socket; the
\* password is compared in the callback of a join with user_notifications, so
\* a row without a notification row is never compared.
CheckClient(l, p) ==
    /\ Rows(l) # {}
    /\ \A id \in Rows(l) : users[id].socket = NoFd
    /\ \A id \in Rows(l) : users[id].notif => users[id].pw = p

\* The id the callback stored in the reply, 0 when it never ran.
SignedInId(l) ==
    LET compared == {id \in Rows(l) : users[id].notif}
    IN  IF compared = {} THEN 0 ELSE CHOOSE id \in compared : TRUE

\* Mutant of Authorization: a refusal is not answered.
AuthorizationSilent(fd) ==
    /\ HasRequest(fd, {"AUTH"})
    /\ LET r == Head(inq[fd])
       IN  IF CheckClient(r.login, r.pw)
           THEN /\ SetSocket(Rows(r.login), fd)
                /\ Answer(fd, [type |-> "AUTH_V", id |-> SignedInId(r.login)])
           ELSE UNCHANGED <<users, inbox>>
    /\ TakeRequest(fd)
    /\ UNCHANGED <<running, lastId, link, phase, conn, login, hash, uid, typed,
                   faults>>

\* mx_authorization, but for the case below.
Authorization(fd) ==
    /\ HasRequest(fd, {"AUTH"})
    /\ LET r == Head(inq[fd])
       IN  IF CheckClient(r.login, r.pw)
           THEN /\ SignedInId(r.login) # 0
                /\ SetSocket(Rows(r.login), fd)
                /\ Answer(fd, [type |-> "AUTH_V", id |-> SignedInId(r.login)])
           ELSE /\ users' = users
                /\ Answer(fd, [type |-> "AUTH_NV", id |-> 0])
    /\ TakeRequest(fd)
    /\ UNCHANGED <<running, lastId, link, phase, conn, login, hash, uid, typed,
                   faults>>

\* Signing in to a row without a notifications row.  The answer has no user_id, so
\* the SELECT of mx_email_notify finds nothing; mx_init_struct_mail copies the
\* address NULL, and the process dies with the answer sent.
AuthorizationDies(fd) ==
    /\ HasRequest(fd, {"AUTH"})
    /\ LET r == Head(inq[fd])
       IN  /\ CheckClient(r.login, r.pw)
           /\ SignedInId(r.login) = 0
           /\ SetSocket(Rows(r.login), fd)
    /\ Answer(fd, [type |-> "AUTH_V", id |-> 0])
    /\ ProcessEnds
    /\ NoteLate(fd)
    /\ UNCHANGED <<lastId, phase, conn, login, hash, uid, typed, faults>>

\* Mutant of Reconnection: the row is found by login only.
ReconnectionByLogin(fd) ==
    /\ HasRequest(fd, {"RECONNECTION"})
    /\ SetSocket(Rows(Head(inq[fd]).login), fd)
    /\ TakeRequest(fd)
    /\ UNCHANGED <<running, lastId, link, clientVars, faults>>

\* mx_reconnection: no test of the old socket, and no answer.
Reconnection(fd) ==
    /\ HasRequest(fd, {"RECONNECTION"})
    /\ LET r == Head(inq[fd])
           matching == {id \in Rows(r.login) : users[id].pw = r.pw}
       IN  \/ matching = {} /\ users' = users
           \/ \E id \in matching : SetSocket({id}, fd)
    /\ TakeRequest(fd)
    /\ UNCHANGED <<running, lastId, link, clientVars, faults>>

\* Mutant of Registration: the login is not looked up first.
RegistrationUnchecked(fd) ==
    /\ HasRequest(fd, {"REG"})
    /\ lastId < MaxId
    /\ lastId' = lastId + 1
    /\ users' = [users EXCEPT ![lastId + 1] =
                    [login |-> Head(inq[fd]).login, pw |-> Head(inq[fd]).pw,
                     socket |-> NoFd, notif |-> TRUE]]
    /\ TakeRequest(fd)
    /\ UNCHANGED <<running, link, clientVars, faults>>

\* mx_registration: the login is looked up, then mx_add_to_db makes three
\* inserts of their own (users, room_user, user_notifications) and returns at
\* the first that fails; the answer says valid in every case and the client
\* ignores it.  notif is FALSE when only a prefix of the inserts was made.
Registration(fd) ==
    /\ HasRequest(fd, {"REG"})
    /\ LET r == Head(inq[fd])
       IN  \/ UNCHANGED <<users, lastId>>
           \/ /\ r.login \in Logins
              /\ Rows(r.login) = {}
              /\ lastId < MaxId
              /\ lastId' = lastId + 1
              /\ \E complete \in BOOLEAN :
                    users' = [users EXCEPT ![lastId + 1] =
                                [login |-> r.login, pw |-> r.pw,
                                 socket |-> NoFd, notif |-> complete]]
    /\ TakeRequest(fd)
    /\ UNCHANGED <<running, link, clientVars, faults>>

\* mx_logout, by row id and whatever connection it came from.
Logout(fd) ==
    /\ HasRequest(fd, {"LOGOUT"})
    /\ SetSocket({id \in Ids : id = Head(inq[fd]).id /\ users[id] # NoRow}, NoFd)
    /\ TakeRequest(fd)
    /\ UNCHANGED <<running, lastId, link, clientVars, faults>>

\* mx_delete_acc: the row goes, its id is never given again.
DeleteAccount(fd) ==
    /\ HasRequest(fd, {"DELETE_ACCOUNT"})
    /\ users' = [id \in Ids |-> IF id = Head(inq[fd]).id THEN NoRow
                                                         ELSE users[id]]
    /\ TakeRequest(fd)
    /\ UNCHANGED <<running, lastId, link, clientVars, faults>>

\* One event of server_loop on a client's descriptor.
WorkWithClient(fd) ==
    \/ EndOfFile(fd)
    \/ Authorization(fd)
    \/ Reconnection(fd)
    \/ Registration(fd)
    \/ Logout(fd)
    \/ DeleteAccount(fd)

-----------------------------------------------------------------------------
\* The client processes.  The GTK thread runs the callbacks, the input thread
\* mx_process_input_from_server; they share the record info.

\* A connect, its accept (add_new_client) and the handshake, which blocks the
\* server thread.  The first connection of a process asks for nothing.
FirstConnect(c, fd) ==
    /\ running
    /\ phase[c] = "start"
    /\ link[fd] = NoLink
    /\ link' = [link EXCEPT ![fd] = [client |-> c, up |-> TRUE]]
    /\ conn' = [conn EXCEPT ![c] = fd]
    /\ phase' = [phase EXCEPT ![c] = "login"]
    /\ UNCHANGED <<running, users, lastId, inq, login, hash, uid, inbox, typed,
                   late, faults>>

\* mx_process_input_from_server: tls_read returns -1, at the end of the connection
\* or later, when something was written to it.
NoticeLoss(c) ==
    /\ conn[c] # NoFd
    /\ ~Connected(c)
    /\ conn' = [conn EXCEPT ![c] = NoFd]
    /\ inbox' = [inbox EXCEPT ![c] = <<>>]
    /\ UNCHANGED <<serverVars, phase, login, hash, uid, typed, late, faults>>

\* What info->login reads as: on the login screen it points into the text of
\* the entry, which the user may have emptied or retyped since.
LoginText(c) ==
    IF phase[c] = "login" THEN Logins \cup {NoLogin} ELSE {login[c]}

\* Mutant of Reconnect: the session is not asked for again.
ReconnectSilent(c, fd) ==
    /\ running
    /\ phase[c] \in {"login", "waiting", "online"}
    /\ conn[c] = NoFd
    /\ hash[c] # NoHash
    /\ link[fd] = NoLink
    /\ link' = [link EXCEPT ![fd] = [client |-> c, up |-> TRUE]]
    /\ conn' = [conn EXCEPT ![c] = fd]
    /\ UNCHANGED <<running, users, lastId, inq, phase, login, hash, uid, inbox,
                   typed, late, faults>>

\* mx_reconnect_client and reconnection_socket.
Reconnect(c, fd) ==
    /\ running
    /\ phase[c] \in {"login", "waiting", "online"}
    /\ conn[c] = NoFd
    /\ hash[c] # NoHash
    /\ link[fd] = NoLink
    /\ link' = [link EXCEPT ![fd] = [client |-> c, up |-> TRUE]]
    /\ conn' = [conn EXCEPT ![c] = fd]
    /\ \E l \in LoginText(c) :
            inq' = [inq EXCEPT ![fd] =
                      <<[type |-> "RECONNECTION", login |-> l, pw |-> hash[c]]>>]
    /\ UNCHANGED <<running, users, lastId, phase, login, hash, uid, inbox,
                   typed, late, faults>>

\* reconnection_socket before any sign-in: mx_js_n_str(NULL) is a crash; the
\* connection it has just opened ends with the process.
ReconnectWithoutLogin(c, fd) ==
    /\ running
    /\ phase[c] = "login"
    /\ conn[c] = NoFd
    /\ hash[c] = NoHash
    /\ link[fd] = NoLink
    /\ link' = [link EXCEPT ![fd] = [client |-> c, up |-> FALSE]]
    /\ phase' = [phase EXCEPT ![c] = "gone"]
    /\ UNCHANGED <<running, users, lastId, inq, conn, login, hash, uid, inbox,
                   typed, late, faults>>

\* The window is closed or the process is killed.
Quit(c) ==
    /\ phase[c] \in {"login", "waiting", "online"}
    /\ Fault
    /\ phase' = [phase EXCEPT ![c] = "gone"]
    /\ link' = IF Connected(c) THEN [link EXCEPT ![conn[c]].up = FALSE] ELSE link
    /\ conn' = [conn EXCEPT ![c] = NoFd]
    /\ inbox' = [inbox EXCEPT ![c] = <<>>]
    /\ UNCHANGED <<running, users, lastId, inq, login, hash, uid, typed, late>>

\* main_client.c: a new process, info zeroed.
Launch(c) ==
    /\ phase[c] = "gone"
    /\ phase' = [phase EXCEPT ![c] = "start"]
    /\ login' = [login EXCEPT ![c] = NoLogin]
    /\ hash' = [hash EXCEPT ![c] = NoHash]
    /\ uid' = [uid EXCEPT ![c] = 0]
    /\ UNCHANGED <<serverVars, conn, inbox, typed, late, faults>>

\* mx_enter_callback: AUTH is sent and the GTK thread spins until an answer.
Enter(c, l, p) ==
    /\ phase[c] = "login"
    /\ Send(c, <<[type |-> "AUTH", login |-> l, pw |-> p]>>)
    /\ phase' = [phase EXCEPT ![c] = "waiting"]
    /\ login' = [login EXCEPT ![c] = l]
    /\ hash' = [hash EXCEPT ![c] = p]
    /\ typed' = [typed EXCEPT ![c] = @ \cup {p}]
    /\ UNCHANGED <<running, users, lastId, link, conn, uid, inbox, late, faults>>

\* mx_send_data_callback: both entries are hashed into the same static buffer,
\* so the two pointers that are compared are equal and the text of the second
\* entry is what is sent; info->password points to that buffer too.
Register(c, l, password, repeat) ==
    /\ phase[c] = "login"
    /\ Send(c, <<[type |-> "REG", login |-> l, pw |-> repeat]>>)
    /\ hash' = [hash EXCEPT ![c] = IF @ = NoHash THEN @ ELSE repeat]
    /\ typed' = [typed EXCEPT ![c] = @ \cup {password, repeat}]
    /\ UNCHANGED <<running, users, lastId, link, phase, conn, login, uid, inbox,
                   late, faults>>

\* mx_input_authentification, and mx_enter_callback after its wait.
ReceiveAnswer(c) ==
    /\ inbox[c] # <<>>
    /\ LET r == Head(inbox[c])
       IN  IF phase[c] \in {"login", "waiting"} /\ r.type = "AUTH_V"
           THEN /\ uid' = [uid EXCEPT ![c] = r.id]
                /\ phase' = [phase EXCEPT ![c] = "online"]
           ELSE /\ uid' = uid
                /\ phase' = [phase EXCEPT ![c] =
                               IF @ = "waiting" THEN "login" ELSE @]
    /\ inbox' = [inbox EXCEPT ![c] = Tail(@)]
    /\ UNCHANGED <<serverVars, conn, login, hash, typed, late, faults>>

\* mx_logout_callback; mx_yep_callback sends DELETE_ACCOUNT before.
LogoutCallback(c, requests) ==
    /\ phase[c] = "online"
    /\ Send(c, requests)
    /\ phase' = [phase EXCEPT ![c] = "login"]
    /\ UNCHANGED <<running, users, lastId, link, conn, login, hash, uid, inbox,
                   typed, late, faults>>

PressLogout(c) ==
    LogoutCallback(c, <<[type |-> "LOGOUT", id |-> uid[c]]>>)

PressDelete(c) ==
    LogoutCallback(c, <<[type |-> "DELETE_ACCOUNT", id |-> uid[c]],
                        [type |-> "LOGOUT", id |-> uid[c]]>>)

-----------------------------------------------------------------------------
Init ==
    /\ running = FALSE
    /\ users = InitialUsers
    /\ lastId \in {n \in 0 .. MaxId :
                     \A id \in Ids : id > n => InitialUsers[id] = NoRow}
    /\ link = [fd \in Fds |-> NoLink]
    /\ inq = [fd \in Fds |-> <<>>]
    /\ phase = [c \in Clients |-> "start"]
    /\ conn = [c \in Clients |-> NoFd]
    /\ login = [c \in Clients |-> NoLogin]
    /\ hash = [c \in Clients |-> NoHash]
    /\ uid = [c \in Clients |-> 0]
    /\ inbox = [c \in Clients |-> <<>>]
    /\ typed = [c \in Clients |-> {}]
    /\ late = {}
    /\ faults = 0

ClientStep(c) ==
    \/ \E fd \in Fds : FirstConnect(c, fd)
    \/ \E fd \in Fds : Reconnect(c, fd)
    \/ \E fd \in Fds : ReconnectWithoutLogin(c, fd)
    \/ NoticeLoss(c)
    \/ Quit(c)
    \/ Launch(c)
    \/ \E l \in Logins, p \in Passwords : Enter(c, l, p)
    \/ \E l \in Logins, p, r \in Passwords : Register(c, l, p, r)
    \/ ReceiveAnswer(c)
    \/ PressLogout(c)
    \/ PressDelete(c)

Next ==
    \/ StartServer
    \/ StopServer
    \/ \E fd \in Fds : ConnectionFails(fd)
    \/ \E fd \in Fds : WorkWithClient(fd)
    \/ \E fd \in Fds : AuthorizationDies(fd)
    \/ \E c \in Clients : ClientStep(c)

Spec == Init /\ [][Next]_vars

\* server_loop never stops polling, and a client's input thread handles what it
\* has read: an event that stays pending is handled.  That a client notices a lost
\* connection is not assumed (see InputThread: after the end of one tls_read
\* returns 0, for good).
FairSpec ==
    /\ Spec
    /\ \A fd \in Fds : WF_vars(WorkWithClient(fd) \/ AuthorizationDies(fd))
    /\ \A c \in Clients : WF_vars(ReceiveAnswer(c))

-----------------------------------------------------------------------------
\* Properties.

\* The socket a row holds is the descriptor of an open connection, so that a
\* broadcast finds an element of the socket tree and never a descriptor that
\* was closed and given to somebody else.
SocketIsOpen ==
    running => \A id \in Ids :
        users[id] # NoRow /\ users[id].socket # NoFd
            => link[users[id].socket] # NoLink

\* mx_registration never makes a second row of a login, also when accounts
\* are deleted and registered again between two requests.
OneRowPerLogin ==
    \A i, j \in Ids :
        users[i] # NoRow /\ users[j] # NoRow /\ users[i].login = users[j].login
            => i = j

\* What a descriptor and a row say about who holds an account.
RowAccount(id) ==
    IF users[id] = NoRow THEN "no account"
    ELSE IF users[id].notif THEN users[id].pw ELSE "any password"

RowHolder(id) ==
    IF users[id] = NoRow THEN "nobody"
    ELSE IF users[id].socket = NoFd THEN "nobody"
    ELSE IF link[users[id].socket] = NoLink THEN "nobody"
    ELSE link[users[id].socket].client

P == INSTANCE Presence WITH
        NoAccount <- "no account",
        AnyPassword <- "any password",
        Nobody <- "nobody",
        account <- [id \in Ids |-> RowAccount(id)],
        holder <- [id \in Ids |-> RowHolder(id)]

\* Sessions implements Presence: accept, descriptor reuse, lost connections,
\* restarts and re-registration change who gets the messages of an account
\* only the way Presence allows.
ImplementsPresence == P!PresenceSpec

\* Only a client whose user typed the password of the account gets the
\* messages of an account, whatever becomes of descriptors in between.
HolderKnowsPassword == P!HolderKnows

\* An account in use passes from one connection to another only by a
\* reconnection, never by a second sign-in.
MovedOnlyByReconnection ==
    [][\A id \in Ids :
          (/\ users[id] # NoRow /\ users'[id] # NoRow
           /\ users[id].socket # NoFd
           /\ users'[id].socket \notin {NoFd, users[id].socket})
          => /\ HasRequest(users'[id].socket, {"RECONNECTION"})
             /\ inq'[users'[id].socket] = Tail(inq[users'[id].socket])]_vars

\* A client that shows the chat window on a live connection, with nothing left
\* for the server to handle, gets the messages of its account: the row names
\* its descriptor.  Excepted are accounts whose password another client knows
\* too, and clients of which the server has handled a request that was sent on
\* a connection given up since (it moves or ends the session of the new one).
SoleUser(c, id) == \A d \in Clients \ {c} : users[id].pw \notin typed[d]

OnlineIsReachable ==
    \A c \in Clients \ late :
        (/\ phase[c] = "online" /\ Connected(c) /\ inq[conn[c]] = <<>>
         /\ uid[c] # 0 /\ users[uid[c]] # NoRow /\ SoleUser(c, uid[c]))
        => users[uid[c]].socket = conn[c]

\* A row does not keep the socket of a connection that has ended.
StaleSocketCleared ==
    \A id \in Ids, fd \in Fds :
        (/\ users[id] # NoRow /\ users[id].socket = fd
         /\ running /\ link[fd] # NoLink /\ ~link[fd].up)
        ~> (~running \/ users[id] = NoRow \/ users[id].socket # fd)

\* The wait of mx_enter_callback ends, unless the connection is lost.
SignInAnswered ==
    \A c \in Clients, fd \in Fds :
        (phase[c] = "waiting" /\ conn[c] = fd /\ Connected(c)
         /\ \E i \in 1 .. Len(inq[fd]) : inq[fd][i].type = "AUTH")
        ~> (phase[c] # "waiting" \/ conn[c] # fd \/ ~Connected(c))

\* "Passwords do not match" (validation in callbacks6.c): two different entries
\* on the registration form are not sent.  Read off a client's first form: the
\* passwords typed so far are the two entries.
RepeatIsCompared ==
    [][\A c \in Clients :
          typed[c] = {} /\ (\E x, y \in typed'[c] : x # y)
          => inq' = inq]_vars
=============================================================================
