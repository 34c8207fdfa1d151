--------------------------- MODULE SessionsProofs ---------------------------
(***************************************************************************)
(* Proofs about module Sessions, for any numbers of clients, logins,       *)
(* passwords, descriptors, rows, faults and pending requests.              *)
(***************************************************************************)
EXTENDS Sessions, TLAPS

-----------------------------------------------------------------------------
\* What makes the properties inductive: every password
\* and row id that is in flight was typed by, or given to, the client on that
\* connection, and the ids not given out yet have no row.

LinksNeedServer == ~running => \A fd \in Fds : link[fd] = NoLink

NothingSentUnlinked == \A fd \in Fds : link[fd] = NoLink => inq[fd] = <<>>

IdsGivenOnce == \A id \in Ids : id > lastId => users[id] = NoRow

KnowsRow(c, id) ==
    /\ id <= lastId
    /\ (users[id] # NoRow /\ users[id].notif => users[id].pw \in typed[c])

KnownRequest(c) ==
    {r \in Request :
        IF r.type \in {"LOGOUT", "DELETE_ACCOUNT"}
        THEN r.id # 0 => KnowsRow(c, r.id)
        ELSE r.pw \in typed[c]}

KnownReply(c) == {r \in Reply : r.id # 0 => KnowsRow(c, r.id)}

InFlightKnown ==
    /\ \A fd \in Fds :
            link[fd] # NoLink
            => inq[fd] \in Seq(KnownRequest(link[fd].client))
    /\ \A c \in Clients : inbox[c] \in Seq(KnownReply(c))

ClientKnows ==
    \A c \in Clients : /\ (hash[c] # NoHash => hash[c] \in typed[c])
                        /\ (uid[c] # 0 => KnowsRow(c, uid[c]))

HoldersKnow ==
    \A id \in Ids :
        (/\ users[id] # NoRow /\ users[id].socket # NoFd /\ users[id].notif
         /\ link[users[id].socket] # NoLink)
        => users[id].pw \in typed[link[users[id].socket].client]

SessionInv ==
    /\ TypeOK
    /\ LinksNeedServer
    /\ NothingSentUnlinked
    /\ IdsGivenOnce
    /\ SocketIsOpen
    /\ OneRowPerLogin
    /\ InFlightKnown
    /\ ClientKnows
    /\ HoldersKnow

-----------------------------------------------------------------------------
\* What makes OnlineIsReachable inductive: a client c and the connection it has.

Reconnecting(c) == [type |-> "RECONNECTION", login |-> login[c], pw |-> hash[c]]

\* A process that has not begun or has ended has no connection.  An answer is
\* handled while the GTK thread waits for it, and it is the only one.
AnswerAwaited(c) ==
    /\ phase[c] \in {"start", "gone"} => conn[c] = NoFd
    /\ inbox[c] # <<>> => /\ Len(inbox[c]) = 1
                          /\ phase[c] = "waiting" /\ conn[c] # NoFd

\* Of what the server has not read from c, an AUTH is that of the attempt under way
\* and the last; with the chat window on the screen there is at most the reconnection.
AskedInTurn(c) ==
    Connected(c) =>
        LET unread == inq[conn[c]]
        IN  /\ \A i \in DOMAIN unread : unread[i].type = "AUTH" =>
                    /\ phase[c] = "waiting" /\ i = Len(unread)
                    /\ unread[i].login = login[c] /\ unread[i].pw = hash[c]
            /\ inbox[c] # <<>> => unread = <<>>
            /\ phase[c] = "online" => unread \in {<<>>, <<Reconnecting(c)>>}

\* The rows c has signed in to, or is being told it has.
SignedIn(c) ==
    (IF phase[c] = "online" THEN {uid[c]} ELSE {})
    \cup (IF inbox[c] # <<>> /\ Head(inbox[c]).type = "AUTH_V"
          THEN {Head(inbox[c]).id} ELSE {})

\* They are those a reconnection of c asks for.
OwnRow(c, id) ==
    id # 0 /\ users[id] # NoRow
    => users[id].login = login[c] /\ users[id].pw = hash[c] /\ users[id].notif

Reachable(c, id) ==
    id # 0 /\ users[id] # NoRow /\ Connected(c) /\ SoleUser(c, id)
    => \/ users[id].socket = conn[c]
       \/ phase[c] = "online" /\ inq[conn[c]] = <<Reconnecting(c)>>

ClientInv(c) ==
    /\ AnswerAwaited(c)
    /\ AskedInTurn(c)
    /\ \A id \in SignedIn(c) : OwnRow(c, id)
    /\ c \notin late => \A id \in SignedIn(c) : Reachable(c, id)

ReachableInv == \A c \in Clients : ClientInv(c)

-----------------------------------------------------------------------------

\* What SetSocket writes is a users table again.
LEMMA SetSocketType ==
    ASSUME TypeOK, NEW ids, NEW s \in Fds \cup {NoFd},
           \A id \in ids \cap Ids : users[id] # NoRow,
           SetSocket(ids, s)
    PROVE  users' \in [Ids -> Row \cup {NoRow}]
<1>1. ASSUME NEW id \in Ids, id \in ids
      PROVE  [users[id] EXCEPT !.socket = s] \in Row
  <2>1. users[id] \in Row
    BY <1>1 DEF TypeOK
  <2> QED
    BY <2>1 DEF Row
<1> QED
  BY <1>1 DEF SetSocket, TypeOK

\* mx_save_send appends a reply to an inbox or loses it.
LEMMA AnswerType ==
    ASSUME TypeOK, NEW fd \in Fds, link[fd] # NoLink, NEW r \in Reply, Answer(fd, r)
    PROVE  inbox' \in [Clients -> Seq(Reply)]
<1>1. link[fd].client \in Clients
  BY DEF TypeOK, Link
<1> QED
  BY <1>1 DEF Answer, TypeOK

\* tls_send appends requests to the queue of the connection or loses them.
LEMMA SendType ==
    ASSUME TypeOK, NEW c \in Clients, NEW rs \in Seq(Request), Send(c, rs)
    PROVE  inq' \in [Fds -> Seq(Request)]
<1>1. CASE Connected(c)
  <2>1. conn[c] \in Fds
    BY <1>1 DEF Connected
  <2>2. inq[conn[c]] \o rs \in Seq(Request)
    BY <2>1 DEF TypeOK
  <2> QED
    BY <1>1, <2>1, <2>2 DEF Send, TypeOK
<1>2. CASE ~Connected(c)
  BY <1>2 DEF Send, TypeOK
<1> QED
  BY <1>1, <1>2

\* The request a handler takes is one the clients send, and the rest stays.
LEMMA TakeType ==
    ASSUME TypeOK, NEW fd \in Fds, NEW types, HasRequest(fd, types), TakeRequest(fd)
    PROVE  /\ link[fd] \in Link
           /\ Head(inq[fd]) \in Request
           /\ Head(inq[fd]).type \in types
           /\ inq' \in [Fds -> Seq(Request)]
           /\ late' \subseteq Clients
<1>1. link[fd] \in Link /\ link[fd].client \in Clients
  BY DEF HasRequest, TypeOK, Link
<1>2. inq[fd] \in Seq(Request) /\ inq[fd] # <<>>
  BY DEF HasRequest, TypeOK
<1>3. Head(inq[fd]) \in Request /\ Tail(inq[fd]) \in Seq(Request)
  BY <1>2
<1>4. inq' \in [Fds -> Seq(Request)]
  BY <1>3 DEF TakeRequest, TypeOK
<1> QED
  BY <1>1, <1>3, <1>4 DEF TakeRequest, NoteLate, TypeOK, HasRequest

\* A connection that breaks keeps its client.
LEMMA BreakType ==
    ASSUME TypeOK, NEW fd \in Fds, link[fd] # NoLink,
           link' = [link EXCEPT ![fd].up = FALSE]
    PROVE  /\ link' \in [Fds -> Link \cup {NoLink}]
           /\ \A g \in Fds : link'[g] = NoLink <=> link[g] = NoLink
           /\ \A g \in Fds : link[g] # NoLink => link'[g].client = link[g].client
<1>1. link[fd] \in Link /\ NoLink \notin Link
  BY ConstantsAssumption DEF TypeOK
<1>2. /\ [link[fd] EXCEPT !.up = FALSE] \in Link
      /\ [link[fd] EXCEPT !.up = FALSE].client = link[fd].client
  BY <1>1 DEF Link
<1> QED
  BY <1>1, <1>2 DEF TypeOK

\* Of the clients' steps none touches the database.
LEMMA ClientStepRows ==
    ASSUME NEW c \in Clients, ClientStep(c)
    PROVE  UNCHANGED <<running, users, lastId>>
BY DEF ClientStep, FirstConnect, Reconnect, ReconnectWithoutLogin, NoticeLoss,
   Quit, Launch, Enter, Register, ReceiveAnswer, PressLogout, PressDelete,
   LogoutCallback, serverVars

LEMMA LastIdType ==
    ASSUME TypeOK
    PROVE  lastId \in Nat /\ lastId <= MaxId /\ MaxId \in Nat
<1>1. MaxId \in Nat
  BY ConstantsAssumption
<1>2. lastId \in 0 .. MaxId
  BY DEF TypeOK
<1> QED
  BY <1>1, <1>2

LEMMA FaultType ==
    ASSUME TypeOK, Fault
    PROVE  faults' \in 0 .. MaxFaults
<1>1. MaxFaults \in Nat
  BY ConstantsAssumption
<1>2. faults \in 0 .. MaxFaults
  BY DEF TypeOK
<1> QED
  BY <1>1, <1>2 DEF Fault

-----------------------------------------------------------------------------
\* A step of the server's own on one descriptor keeps the types.
LEMMA TypeWorkWithClient ==
    ASSUME TypeOK, NEW fd \in Fds, WorkWithClient(fd)
    PROVE  TypeOK'
<1>1. CASE EndOfFile(fd)
  <2>1. users' \in [Ids -> Row \cup {NoRow}]
    BY <1>1, SetSocketType DEF EndOfFile
  <2> QED
    BY <1>1, <2>1 DEF EndOfFile, TypeOK, clientVars
<1>2. CASE Authorization(fd)
  <2> DEFINE r == Head(inq[fd])
  <2>1. /\ link[fd] \in Link /\ link[fd] # NoLink
        /\ r \in Request
        /\ inq' \in [Fds -> Seq(Request)]
        /\ late' \subseteq Clients
    BY <1>2, TakeType DEF Authorization, HasRequest
  <2>2. SignedInId(r.login) \in Ids \cup {0}
    <3>1. ASSUME NEW T \in SUBSET Ids, T # {}
          PROVE  (CHOOSE id \in T : TRUE) \in Ids
      BY <3>1
    <3> QED
      BY <3>1 DEF SignedInId, Rows
  <2>3. /\ [type |-> "AUTH_V", id |-> SignedInId(r.login)] \in Reply
        /\ [type |-> "AUTH_NV", id |-> 0] \in Reply
    BY <2>2 DEF Reply
  <2>4. inbox' \in [Clients -> Seq(Reply)]
    <3>1. CASE CheckClient(r.login, r.pw)
      BY <1>2, <2>1, <2>3, <3>1, AnswerType DEF Authorization
    <3>2. CASE ~CheckClient(r.login, r.pw)
      BY <1>2, <2>1, <2>3, <3>2, AnswerType DEF Authorization
    <3> QED
      BY <3>1, <3>2
  <2>5. users' \in [Ids -> Row \cup {NoRow}]
    <3>1. CASE CheckClient(r.login, r.pw)
      BY <1>2, <3>1, SetSocketType DEF Authorization, Rows
    <3>2. CASE ~CheckClient(r.login, r.pw)
      BY <1>2, <3>2 DEF Authorization, TypeOK
    <3> QED
      BY <3>1, <3>2
  <2> QED
    BY <1>2, <2>1, <2>4, <2>5 DEF Authorization, TypeOK
<1>3. CASE Reconnection(fd)
  <2>1. inq' \in [Fds -> Seq(Request)] /\ late' \subseteq Clients
    BY <1>3, TakeType DEF Reconnection
  <2>2. users' \in [Ids -> Row \cup {NoRow}]
    <3>1. CASE users' = users
      BY <3>1 DEF TypeOK
    <3>2. ASSUME NEW id \in Rows(Head(inq[fd]).login), SetSocket({id}, fd)
          PROVE  users' \in [Ids -> Row \cup {NoRow}]
      BY <3>2, SetSocketType DEF Rows
    <3> QED
      BY <1>3, <3>1, <3>2 DEF Reconnection
  <2> QED
    BY <1>3, <2>1, <2>2 DEF Reconnection, TypeOK, clientVars
<1>4. CASE Registration(fd)
  <2> DEFINE r == Head(inq[fd])
  <2>1. /\ r \in Request /\ r.type = "REG"
        /\ inq' \in [Fds -> Seq(Request)] /\ late' \subseteq Clients
    BY <1>4, TakeType DEF Registration
  <2>2. /\ users' \in [Ids -> Row \cup {NoRow}]
        /\ lastId' \in 0 .. MaxId
    <3>1. CASE UNCHANGED <<users, lastId>>
      BY <3>1 DEF TypeOK
    <3>2. ASSUME r.login \in Logins, lastId < MaxId, lastId' = lastId + 1,
                 NEW complete \in BOOLEAN,
                 users' = [users EXCEPT ![lastId + 1] =
                             [login |-> r.login, pw |-> r.pw,
                              socket |-> NoFd, notif |-> complete]]
          PROVE  /\ users' \in [Ids -> Row \cup {NoRow}]
                 /\ lastId' \in 0 .. MaxId
      <4>1. r.pw \in Passwords
        BY <2>1 DEF Request
      <4>2. [login |-> r.login, pw |-> r.pw, socket |-> NoFd,
             notif |-> complete] \in Row
        BY <3>2, <4>1 DEF Row
      <4>3. MaxId \in Nat /\ lastId \in 0 .. MaxId
        BY ConstantsAssumption DEF TypeOK
      <4> QED
        BY <3>2, <4>2, <4>3 DEF TypeOK, Ids
    <3> QED
      BY <1>4, <3>1, <3>2 DEF Registration
  <2> QED
    BY <1>4, <2>1, <2>2 DEF Registration, TypeOK, clientVars
<1>5. CASE Logout(fd)
  <2>1. inq' \in [Fds -> Seq(Request)] /\ late' \subseteq Clients
    BY <1>5, TakeType DEF Logout
  <2>2. users' \in [Ids -> Row \cup {NoRow}]
    BY <1>5, SetSocketType DEF Logout
  <2> QED
    BY <1>5, <2>1, <2>2 DEF Logout, TypeOK, clientVars
<1>6. CASE DeleteAccount(fd)
  <2>1. inq' \in [Fds -> Seq(Request)] /\ late' \subseteq Clients
    BY <1>6, TakeType DEF DeleteAccount
  <2>2. users' \in [Ids -> Row \cup {NoRow}]
    BY <1>6 DEF DeleteAccount, TypeOK
  <2> QED
    BY <1>6, <2>1, <2>2 DEF DeleteAccount, TypeOK, clientVars
<1> QED
  BY <1>1, <1>2, <1>3, <1>4, <1>5, <1>6 DEF WorkWithClient

\* So does a step of a client.
LEMMA TypeClientStep ==
    ASSUME TypeOK, NEW c \in Clients, ClientStep(c)
    PROVE  TypeOK'
<1>1. ASSUME NEW fd \in Fds, NEW b \in BOOLEAN,
             link' = [link EXCEPT ![fd] = [client |-> c, up |-> b]]
      PROVE  link' \in [Fds -> Link \cup {NoLink}]
  BY <1>1 DEF TypeOK, Link
<1>2. ASSUME NEW fd \in Fds, FirstConnect(c, fd)
      PROVE  TypeOK'
  BY <1>1, <1>2 DEF FirstConnect, TypeOK, Phases
<1>3. ASSUME NEW fd \in Fds, Reconnect(c, fd)
      PROVE  TypeOK'
  <2>1. PICK l \in LoginText(c) :
            inq' = [inq EXCEPT ![fd] =
                      <<[type |-> "RECONNECTION", login |-> l, pw |-> hash[c]]>>]
    BY <1>3 DEF Reconnect
  <2>2. l \in Logins \cup {NoLogin} /\ hash[c] \in Passwords
    BY <1>3 DEF Reconnect, LoginText, TypeOK
  <2>3. [type |-> "RECONNECTION", login |-> l, pw |-> hash[c]] \in Request
    BY <2>2 DEF Request
  <2>4. inq' \in [Fds -> Seq(Request)]
    BY <2>1, <2>3 DEF TypeOK
  <2> QED
    BY <1>1, <1>3, <2>4 DEF Reconnect, TypeOK
<1>4. ASSUME NEW fd \in Fds, ReconnectWithoutLogin(c, fd)
      PROVE  TypeOK'
  BY <1>1, <1>4 DEF ReconnectWithoutLogin, TypeOK, Phases
<1>5. CASE NoticeLoss(c)
  BY <1>5 DEF NoticeLoss, TypeOK, serverVars
<1>6. CASE Quit(c)
  <2>1. link' \in [Fds -> Link \cup {NoLink}]
    BY <1>6, BreakType DEF Quit, Connected, TypeOK
  <2>2. faults' \in 0 .. MaxFaults
    BY <1>6, FaultType DEF Quit
  <2>3. inbox' \in [Clients -> Seq(Reply)]
    BY <1>6 DEF Quit, TypeOK
  <2> QED
    BY <1>6, <2>1, <2>2, <2>3 DEF Quit, TypeOK, Phases
<1>7. CASE Launch(c)
  BY <1>7 DEF Launch, TypeOK, Phases, serverVars
<1>8. ASSUME NEW l \in Logins, NEW p \in Passwords, Enter(c, l, p)
      PROVE  TypeOK'
  <2>1. <<[type |-> "AUTH", login |-> l, pw |-> p]>> \in Seq(Request)
    BY DEF Request
  <2>2. inq' \in [Fds -> Seq(Request)]
    BY <1>8, <2>1, SendType DEF Enter
  <2> QED
    BY <1>8, <2>2 DEF Enter, TypeOK, Phases
<1>9. ASSUME NEW l \in Logins, NEW p \in Passwords, NEW r \in Passwords,
             Register(c, l, p, r)
      PROVE  TypeOK'
  <2>1. <<[type |-> "REG", login |-> l, pw |-> r]>> \in Seq(Request)
    BY DEF Request
  <2>2. inq' \in [Fds -> Seq(Request)]
    BY <1>9, <2>1, SendType DEF Register
  <2> QED
    BY <1>9, <2>2 DEF Register, TypeOK
<1>10. CASE ReceiveAnswer(c)
  <2>1. inbox[c] \in Seq(Reply) /\ inbox[c] # <<>>
    BY <1>10 DEF ReceiveAnswer, TypeOK
  <2>2. Head(inbox[c]) \in Reply /\ Tail(inbox[c]) \in Seq(Reply)
    BY <2>1
  <2>3. Head(inbox[c]).id \in Ids \cup {0}
    BY <2>2 DEF Reply
  <2>4. inbox' \in [Clients -> Seq(Reply)]
    BY <1>10, <2>2 DEF ReceiveAnswer, TypeOK
  <2> QED
    BY <1>10, <2>3, <2>4 DEF ReceiveAnswer, TypeOK, Phases, serverVars
<1>11. ASSUME NEW rs \in Seq(Request), LogoutCallback(c, rs)
       PROVE  TypeOK'
  <2>1. inq' \in [Fds -> Seq(Request)]
    BY <1>11, SendType DEF LogoutCallback
  <2> QED
    BY <1>11, <2>1 DEF LogoutCallback, TypeOK, Phases
<1>12. uid[c] \in Ids \cup {0}
  BY DEF TypeOK
<1>13. /\ [type |-> "LOGOUT", id |-> uid[c]] \in Request
       /\ [type |-> "DELETE_ACCOUNT", id |-> uid[c]] \in Request
  BY <1>12 DEF Request
<1>14. CASE PressLogout(c)
  <2> DEFINE rs == <<[type |-> "LOGOUT", id |-> uid[c]]>>
  <2>1. rs \in Seq(Request)
    BY <1>13
  <2>2. LogoutCallback(c, rs)
    BY <1>14 DEF PressLogout
  <2> HIDE DEF rs
  <2> QED
    BY <1>11, <2>1, <2>2
<1>15. CASE PressDelete(c)
  <2> DEFINE rs == <<[type |-> "DELETE_ACCOUNT", id |-> uid[c]],
                     [type |-> "LOGOUT", id |-> uid[c]]>>
  <2>1. rs \in Seq(Request)
    BY <1>13
  <2>2. LogoutCallback(c, rs)
    BY <1>15 DEF PressDelete
  <2> HIDE DEF rs
  <2> QED
    BY <1>11, <2>1, <2>2
<1> QED
  BY <1>2, <1>3, <1>4, <1>5, <1>6, <1>7, <1>8, <1>9, <1>10, <1>14, <1>15
     DEF ClientStep

LEMMA TypeStep == TypeOK /\ [Next]_vars => TypeOK'
<1> SUFFICES ASSUME TypeOK, [Next]_vars
             PROVE  TypeOK'
  OBVIOUS
<1>1. CASE StartServer
  <2>1. users' \in [Ids -> Row \cup {NoRow}]
    BY <1>1, SetSocketType DEF StartServer
  <2> QED
    BY <1>1, <2>1 DEF StartServer, TypeOK, clientVars
<1>2. CASE StopServer
  <2>1. faults' \in 0 .. MaxFaults
    BY <1>2, FaultType DEF StopServer, ProcessEnds
  <2>2. inq' \in [Fds -> Seq(Request)] /\ link' \in [Fds -> Link \cup {NoLink}]
    BY <1>2 DEF StopServer, ProcessEnds
  <2> QED
    BY <1>2, <2>1, <2>2 DEF StopServer, ProcessEnds, TypeOK, clientVars
<1>3. ASSUME NEW fd \in Fds, ConnectionFails(fd)
      PROVE  TypeOK'
  <2>1. faults' \in 0 .. MaxFaults
    BY <1>3, FaultType DEF ConnectionFails
  <2>2. link' \in [Fds -> Link \cup {NoLink}]
    BY <1>3, BreakType DEF ConnectionFails
  <2> QED
    BY <1>3, <2>1, <2>2 DEF ConnectionFails, TypeOK, clientVars
<1>4. ASSUME NEW fd \in Fds, WorkWithClient(fd)
      PROVE  TypeOK'
  BY <1>4, TypeWorkWithClient
<1>5. ASSUME NEW c \in Clients, ClientStep(c)
      PROVE  TypeOK'
  BY <1>5, TypeClientStep
<1>6. CASE UNCHANGED vars
  BY <1>6 DEF TypeOK, vars, serverVars, clientVars
<1>7. ASSUME NEW fd \in Fds, AuthorizationDies(fd)
      PROVE  TypeOK'
  <2>1. link[fd] \in Link /\ link[fd] # NoLink /\ link[fd].client \in Clients
    BY <1>7 DEF AuthorizationDies, HasRequest, TypeOK, Link
  <2>2. users' \in [Ids -> Row \cup {NoRow}]
    BY <1>7, SetSocketType DEF AuthorizationDies, Rows
  <2>3. inbox' \in [Clients -> Seq(Reply)]
    <3>1. [type |-> "AUTH_V", id |-> 0] \in Reply
      BY DEF Reply
    <3> QED
      BY <1>7, <2>1, <3>1, AnswerType DEF AuthorizationDies
  <2>4. late' \subseteq Clients
    BY <1>7, <2>1 DEF AuthorizationDies, NoteLate, TypeOK
  <2>5. inq' \in [Fds -> Seq(Request)] /\ link' \in [Fds -> Link \cup {NoLink}]
    BY <1>7 DEF AuthorizationDies, ProcessEnds
  <2> QED
    BY <1>7, <2>2, <2>3, <2>4, <2>5 DEF AuthorizationDies, ProcessEnds, TypeOK
<1> QED
  BY <1>1, <1>2, <1>3, <1>4, <1>5, <1>6, <1>7 DEF Next

LEMMA TypeInit == Init => TypeOK
<1>1. InitialUsers \in [Ids -> Row \cup {NoRow}] /\ MaxFaults \in Nat
  BY ConstantsAssumption
<1>2. Init => inq \in [Fds -> Seq(Request)] /\ inbox \in [Clients -> Seq(Reply)]
  BY DEF Init
<1>3. Init => faults \in 0 .. MaxFaults /\ lastId \in 0 .. MaxId
  BY <1>1 DEF Init
<1>4. Init => /\ running \in BOOLEAN
              /\ users \in [Ids -> Row \cup {NoRow}]
              /\ link \in [Fds -> Link \cup {NoLink}]
              /\ typed \in [Clients -> SUBSET Passwords]
              /\ late \subseteq Clients
  BY <1>1 DEF Init
<1>5. Init => /\ phase \in [Clients -> Phases]
              /\ conn \in [Clients -> Fds \cup {NoFd}]
              /\ login \in [Clients -> Logins \cup {NoLogin}]
              /\ hash \in [Clients -> Passwords \cup {NoHash}]
              /\ uid \in [Clients -> Ids \cup {0}]
  BY DEF Init, Phases
<1> QED
  BY <1>2, <1>3, <1>4, <1>5 DEF TypeOK

\* Every variable keeps its type: no handler stores a descriptor where an id
\* belongs, and the ids given out stay within the rows.
THEOREM TypeCorrect == Spec => []TypeOK
BY TypeInit, TypeStep, PTL DEF Spec

-----------------------------------------------------------------------------
\* How a step may change the accounts.  SameRows: at most sockets change.
SameRow(id) ==
    /\ users'[id] = NoRow <=> users[id] = NoRow
    /\ users[id] # NoRow => /\ users'[id].login = users[id].login
                            /\ users'[id].pw = users[id].pw
                            /\ users'[id].notif = users[id].notif

SameRows == \A id \in Ids : SameRow(id)

\* What was known stays known: a row that has its id keeps its password until
\* it is deleted, ids are given out once, and nobody forgets a password.
Evolves ==
    /\ lastId <= lastId'
    /\ \A c \in Clients : typed[c] \subseteq typed'[c]
    /\ \A id \in Ids : id <= lastId /\ users'[id] # NoRow
                       => users[id] # NoRow /\ SameRow(id)

LEMMA SetSocketEffect ==
    ASSUME TypeOK, NEW ids, NEW s \in Fds \cup {NoFd},
           \A id \in ids \cap Ids : users[id] # NoRow,
           SetSocket(ids, s)
    PROVE  /\ SameRows
           /\ \A id \in Ids : users[id] # NoRow =>
                users'[id].socket = IF id \in ids THEN s ELSE users[id].socket
<1> SUFFICES ASSUME NEW id \in Ids
             PROVE  /\ SameRow(id)
                    /\ users[id] # NoRow =>
                         users'[id].socket = IF id \in ids THEN s
                                             ELSE users[id].socket
  BY DEF SameRows
<1>1. NoRow \notin Row
  BY ConstantsAssumption
<1>2. CASE id \in ids
  <2>1. users[id] \in Row
    BY <1>2 DEF TypeOK
  <2>2. users'[id] = [users[id] EXCEPT !.socket = s]
    BY <1>2 DEF SetSocket
  <2>3. /\ users'[id] \in Row
        /\ users'[id].login = users[id].login
        /\ users'[id].pw = users[id].pw
        /\ users'[id].notif = users[id].notif
        /\ users'[id].socket = s
    BY <2>1, <2>2 DEF Row
  <2> QED
    BY <1>1, <1>2, <2>1, <2>3 DEF SameRow
<1>3. CASE id \notin ids
  BY <1>3 DEF SetSocket, SameRow
<1> QED
  BY <1>2, <1>3

LEMMA UnchangedRows ==
    ASSUME users' = users
    PROVE  SameRows
BY DEF SameRows, SameRow

\* What a handler other than those that make or delete a row does to the rows.
LEMMA RowsOfStep ==
    ASSUME TypeOK, NEW fd \in Fds,
           \/ StartServer
           \/ EndOfFile(fd) \/ Authorization(fd) \/ Reconnection(fd) \/ Logout(fd)
    PROVE  SameRows
<1>1. CASE StartServer
  BY <1>1, SetSocketEffect DEF StartServer
<1>2. CASE EndOfFile(fd)
  BY <1>2, SetSocketEffect DEF EndOfFile
<1>3. CASE Authorization(fd)
  <2> DEFINE r == Head(inq[fd])
  <2>1. CASE CheckClient(r.login, r.pw)
    BY <1>3, <2>1, SetSocketEffect DEF Authorization, Rows
  <2>2. CASE ~CheckClient(r.login, r.pw)
    BY <1>3, <2>2, UnchangedRows DEF Authorization
  <2> QED
    BY <2>1, <2>2
<1>4. CASE Reconnection(fd)
  <2>1. CASE users' = users
    BY <2>1, UnchangedRows
  <2>2. ASSUME NEW id \in Rows(Head(inq[fd]).login), SetSocket({id}, fd)
        PROVE  SameRows
    BY <2>2, SetSocketEffect DEF Rows
  <2> QED
    BY <1>4, <2>1, <2>2 DEF Reconnection
<1>5. CASE Logout(fd)
  BY <1>5, SetSocketEffect DEF Logout
<1> QED
  BY <1>1, <1>2, <1>3, <1>4, <1>5

\* What is left when the process dies of a sign-in.
LEMMA DyingEffect ==
    ASSUME TypeOK, NEW fd \in Fds, AuthorizationDies(fd)
    PROVE  /\ SameRows
           /\ UNCHANGED <<lastId, hash, uid, typed>>
           /\ ~running'
           /\ \A f \in Fds : link'[f] = NoLink /\ inq'[f] = <<>>
<1>1. SameRows
  BY SetSocketEffect DEF AuthorizationDies, Rows
<1> QED
  BY <1>1 DEF AuthorizationDies, ProcessEnds

\* A registration either changes no row or fills the next one.
LEMMA RegistrationEffect ==
    ASSUME TypeOK, IdsGivenOnce, NEW fd \in Fds, Registration(fd)
    PROVE  \/ UNCHANGED <<users, lastId>>
           \/ LET r == Head(inq[fd])
              IN  /\ Rows(r.login) = {}
                  /\ lastId + 1 \in Ids /\ lastId' = lastId + 1
                  /\ users[lastId + 1] = NoRow
                  /\ users'[lastId + 1] \in Row
                  /\ users'[lastId + 1].login = r.login
                  /\ users'[lastId + 1].socket = NoFd
                  /\ \A id \in Ids \ {lastId + 1} : users'[id] = users[id]
<1> DEFINE r == Head(inq[fd])
<1>1. r \in Request /\ r.type = "REG"
  BY TakeType DEF Registration
<1>2. r.pw \in Passwords
  BY <1>1 DEF Request
<1>3. MaxId \in Nat /\ lastId \in 0 .. MaxId
  BY ConstantsAssumption DEF TypeOK
<1>4. ASSUME r.login \in Logins, Rows(r.login) = {}, lastId < MaxId,
             lastId' = lastId + 1, NEW complete \in BOOLEAN,
             users' = [users EXCEPT ![lastId + 1] =
                         [login |-> r.login, pw |-> r.pw,
                          socket |-> NoFd, notif |-> complete]]
      PROVE  /\ lastId + 1 \in Ids
             /\ users[lastId + 1] = NoRow
             /\ users'[lastId + 1] \in Row
             /\ users'[lastId + 1].login = r.login
             /\ users'[lastId + 1].socket = NoFd
             /\ \A id \in Ids \ {lastId + 1} : users'[id] = users[id]
  <2>1. lastId + 1 \in Ids /\ lastId + 1 > lastId
    BY <1>3, <1>4 DEF Ids
  <2>2. users[lastId + 1] = NoRow
    BY <2>1 DEF IdsGivenOnce
  <2>3. users'[lastId + 1] = [login |-> r.login, pw |-> r.pw,
                              socket |-> NoFd, notif |-> complete]
    BY <1>4, <2>1 DEF TypeOK
  <2>4. users'[lastId + 1] \in Row
    BY <1>2, <1>4, <2>3 DEF Row
  <2>5. \A id \in Ids \ {lastId + 1} : users'[id] = users[id]
    BY <1>4 DEF TypeOK
  <2> QED
    BY <2>1, <2>2, <2>3, <2>4, <2>5
<1> QED
  BY <1>4 DEF Registration

LEMMA EvolvesOfSameRows ==
    ASSUME TypeOK, SameRows, lastId' = lastId,
           \A c \in Clients : typed[c] \subseteq typed'[c]
    PROVE  Evolves
BY DEF SameRows, SameRow, Evolves, TypeOK

LEMMA EvolvesStep ==
    ASSUME SessionInv, [Next]_vars
    PROVE  Evolves
<1> USE DEF SessionInv
<1>1. ASSUME users' = users, lastId' = lastId,
             \A c \in Clients : typed[c] \subseteq typed'[c]
      PROVE  Evolves
  BY <1>1, UnchangedRows, EvolvesOfSameRows
<1>2. CASE StartServer
  <2>1. SameRows
    BY <1>2, SetSocketEffect DEF StartServer
  <2> QED
    BY <1>2, <2>1, EvolvesOfSameRows DEF StartServer, clientVars
<1>3. CASE StopServer
  BY <1>1, <1>3 DEF StopServer, ProcessEnds, clientVars
<1>4. ASSUME NEW fd \in Fds, ConnectionFails(fd)
      PROVE  Evolves
  BY <1>1, <1>4 DEF ConnectionFails, clientVars
<1>5. ASSUME NEW fd \in Fds,
             EndOfFile(fd) \/ Authorization(fd) \/ Reconnection(fd) \/ Logout(fd)
      PROVE  Evolves
  <2>1. SameRows
    BY <1>5, RowsOfStep
  <2>2. lastId' = lastId /\ typed' = typed
    BY <1>5 DEF EndOfFile, Authorization, Reconnection, Logout, clientVars
  <2> QED
    BY <2>1, <2>2, EvolvesOfSameRows
<1>6. ASSUME NEW fd \in Fds, Registration(fd)
      PROVE  Evolves
  <2>1. typed' = typed
    BY <1>6 DEF Registration, clientVars
  <2>2. CASE UNCHANGED <<users, lastId>>
    BY <1>1, <2>1, <2>2
  <2>3. CASE ~UNCHANGED <<users, lastId>>
    <3>1. /\ lastId' = lastId + 1
          /\ \A id \in Ids \ {lastId + 1} : users'[id] = users[id]
      BY <1>6, <2>3, RegistrationEffect
    <3>2. lastId \in Nat
      BY LastIdType
    <3> QED
      BY <2>1, <3>1, <3>2 DEF Evolves, SameRow, Ids
  <2> QED
    BY <2>2, <2>3
<1>7. ASSUME NEW fd \in Fds, DeleteAccount(fd)
      PROVE  Evolves
  <2>1. lastId' = lastId /\ typed' = typed
    BY <1>7 DEF DeleteAccount, clientVars
  <2>2. \A id \in Ids : users'[id] = NoRow \/ users'[id] = users[id]
    BY <1>7 DEF DeleteAccount
  <2> QED
    BY <2>1, <2>2 DEF Evolves, SameRow, TypeOK
<1>8. ASSUME NEW c \in Clients, ClientStep(c)
      PROVE  Evolves
  <2>1. users' = users /\ lastId' = lastId
    BY <1>8, ClientStepRows
  <2>2. \A d \in Clients : typed[d] \subseteq typed'[d]
    <3>1. CASE typed' = typed
      BY <3>1
    <3>2. ASSUME NEW ps, typed' = [typed EXCEPT ![c] = @ \cup ps]
          PROVE  \A d \in Clients : typed[d] \subseteq typed'[d]
      BY <3>2 DEF TypeOK
    <3> QED
      BY <1>8, <3>1, <3>2 DEF ClientStep, FirstConnect, Reconnect,
        ReconnectWithoutLogin, NoticeLoss, Quit, Launch, Enter, Register,
        ReceiveAnswer, PressLogout, PressDelete, LogoutCallback
  <2> QED
    BY <1>1, <2>1, <2>2
<1>9. CASE UNCHANGED vars
  BY <1>1, <1>9 DEF vars, serverVars, clientVars
<1>10. ASSUME NEW fd \in Fds, AuthorizationDies(fd)
       PROVE  Evolves
  BY <1>10, DyingEffect, EvolvesOfSameRows
<1> QED
  BY <1>2, <1>3, <1>4, <1>5, <1>6, <1>7, <1>8, <1>9, <1>10
     DEF Next, WorkWithClient

\* What the requests and replies in flight tell stays known.
LEMMA KnownGrows ==
    ASSUME TypeOK, TypeOK', Evolves, NEW c \in Clients
    PROVE  /\ \A id \in Ids : KnowsRow(c, id) => KnowsRow(c, id)'
           /\ KnownRequest(c) \subseteq KnownRequest(c)'
           /\ KnownReply(c) \subseteq KnownReply(c)'
<1>1. lastId \in Int /\ lastId' \in Int
  <2>1. MaxId \in Nat
    BY ConstantsAssumption
  <2>2. lastId \in 0 .. MaxId /\ lastId' \in 0 .. MaxId
    BY DEF TypeOK
  <2> QED
    BY <2>1, <2>2
<1>2. ASSUME NEW id \in Ids, KnowsRow(c, id)
      PROVE  KnowsRow(c, id)'
  <2>1. id \in Int
    BY DEF Ids
  <2>2. id <= lastId /\ lastId <= lastId' /\ id <= lastId'
    BY <1>1, <1>2, <2>1 DEF KnowsRow, Evolves
  <2>3. ASSUME users'[id] # NoRow, users'[id].notif
        PROVE  users'[id].pw \in typed'[c]
    <3>1. users[id] # NoRow /\ SameRow(id)
      BY <2>2, <2>3 DEF Evolves
    <3>2. users[id].notif /\ users'[id].pw = users[id].pw
      BY <2>3, <3>1, Zenon DEF SameRow
    <3> QED
      BY <1>2, <3>1, <3>2 DEF KnowsRow, Evolves
  <2> QED
    BY <2>2, <2>3 DEF KnowsRow
<1>3. KnownRequest(c) \subseteq KnownRequest(c)'
  <2>1. ASSUME NEW r \in KnownRequest(c)
        PROVE  r \in KnownRequest(c)'
    <3>1. r \in Request
      BY DEF KnownRequest
    <3>2. CASE r.type \in {"LOGOUT", "DELETE_ACCOUNT"}
      <4>1. r.id \in Ids \cup {0}
        BY <3>1, <3>2 DEF Request
      <4> QED
        BY <1>2, <3>1, <3>2, <4>1 DEF KnownRequest
    <3>3. CASE r.type \notin {"LOGOUT", "DELETE_ACCOUNT"}
      BY <3>1, <3>3 DEF KnownRequest, Evolves
    <3> QED
      BY <3>2, <3>3
  <2> QED
    BY <2>1
<1>4. KnownReply(c) \subseteq KnownReply(c)'
  <2>1. ASSUME NEW r \in KnownReply(c)
        PROVE  r \in KnownReply(c)'
    <3>1. r \in Reply /\ r.id \in Ids \cup {0}
      BY DEF KnownReply, Reply
    <3> QED
      BY <1>2, <3>1 DEF KnownReply
  <2> QED
    BY <2>1
<1> QED
  BY <1>2, <1>3, <1>4

-----------------------------------------------------------------------------
\* The conjuncts of SessionInv, one lemma for each.

LEMMA LinksStep ==
    ASSUME SessionInv, [Next]_vars
    PROVE  LinksNeedServer' /\ NothingSentUnlinked'
<1> USE DEF SessionInv, LinksNeedServer, NothingSentUnlinked
<1>1. ASSUME link' = link, inq' = inq, running' = running \/ running' = TRUE
      PROVE  LinksNeedServer' /\ NothingSentUnlinked'
  BY <1>1
<1>2. CASE StartServer
  BY <1>1, <1>2 DEF StartServer
<1>3. CASE StopServer
  BY <1>3 DEF StopServer, ProcessEnds
<1>4. ASSUME NEW fd \in Fds, ConnectionFails(fd)
      PROVE  LinksNeedServer' /\ NothingSentUnlinked'
  BY <1>4, BreakType DEF ConnectionFails
<1>5. ASSUME NEW fd \in Fds, EndOfFile(fd)
      PROVE  LinksNeedServer' /\ NothingSentUnlinked'
  BY <1>5 DEF EndOfFile, TypeOK
<1>6. ASSUME NEW fd \in Fds, NEW types, HasRequest(fd, types), TakeRequest(fd),
             link' = link, running' = running
      PROVE  LinksNeedServer' /\ NothingSentUnlinked'
  BY <1>6 DEF HasRequest, TakeRequest, TypeOK
<1>7. ASSUME NEW fd \in Fds, WorkWithClient(fd)
      PROVE  LinksNeedServer' /\ NothingSentUnlinked'
  BY <1>5, <1>6, <1>7 DEF WorkWithClient, Authorization, Reconnection,
     Registration, Logout, DeleteAccount
<1>8. ASSUME NEW c \in Clients, NEW fd \in Fds,
             FirstConnect(c, fd) \/ Reconnect(c, fd) \/ ReconnectWithoutLogin(c, fd)
      PROVE  LinksNeedServer' /\ NothingSentUnlinked'
  <2>1. running /\ running' = running
    BY <1>8 DEF FirstConnect, Reconnect, ReconnectWithoutLogin
  <2>2. \A f \in Fds : f # fd => link'[f] = link[f] /\ inq'[f] = inq[f]
    BY <1>8 DEF FirstConnect, Reconnect, ReconnectWithoutLogin, TypeOK
  <2>3. ASSUME NEW b \in BOOLEAN
        PROVE  [client |-> c, up |-> b] # NoLink
    <3>1. NoLink \notin Link
      BY ConstantsAssumption
    <3> QED
      BY <3>1 DEF Link
  <2>4. link'[fd] # NoLink
    BY <1>8, <2>3 DEF FirstConnect, Reconnect, ReconnectWithoutLogin, TypeOK
  <2> QED
    BY <2>1, <2>2, <2>4
<1>9. ASSUME NEW c \in Clients, NEW rs, Send(c, rs), link' = link,
             running' = running
      PROVE  LinksNeedServer' /\ NothingSentUnlinked'
  BY <1>9 DEF Send, Connected, TypeOK
<1>10. ASSUME NEW c \in Clients, Quit(c)
       PROVE  LinksNeedServer' /\ NothingSentUnlinked'
  <2>1. CASE Connected(c)
    BY <1>10, <2>1, BreakType DEF Quit, Connected
  <2>2. CASE ~Connected(c)
    BY <1>1, <1>10, <2>2 DEF Quit
  <2> QED
    BY <2>1, <2>2
<1>11. ASSUME NEW c \in Clients, NoticeLoss(c) \/ Launch(c) \/ ReceiveAnswer(c)
       PROVE  LinksNeedServer' /\ NothingSentUnlinked'
  BY <1>1, <1>11 DEF NoticeLoss, Launch, ReceiveAnswer, serverVars
<1>12. ASSUME NEW c \in Clients, ClientStep(c)
       PROVE  LinksNeedServer' /\ NothingSentUnlinked'
  BY <1>8, <1>9, <1>10, <1>11, <1>12 DEF ClientStep, Enter, Register,
     PressLogout, PressDelete, LogoutCallback
<1>13. CASE UNCHANGED vars
  BY <1>1, <1>13 DEF vars, serverVars
<1>14. ASSUME NEW fd \in Fds, AuthorizationDies(fd)
       PROVE  LinksNeedServer' /\ NothingSentUnlinked'
  BY <1>14, DyingEffect
<1> QED
  BY <1>2, <1>3, <1>4, <1>7, <1>12, <1>13, <1>14 DEF Next

LEMMA IdsStep ==
    ASSUME SessionInv, [Next]_vars, TypeOK'
    PROVE  IdsGivenOnce'
<1> USE DEF SessionInv
<1>1. lastId \in Nat
  BY LastIdType
<1>2. ASSUME SameRows, lastId' = lastId
      PROVE  IdsGivenOnce'
  BY <1>2 DEF IdsGivenOnce, SameRows, SameRow
<1>3. CASE StartServer
  BY <1>2, <1>3, SetSocketEffect DEF StartServer
<1>4. ASSUME NEW fd \in Fds,
             EndOfFile(fd) \/ Authorization(fd) \/ Reconnection(fd) \/ Logout(fd)
      PROVE  IdsGivenOnce'
  BY <1>2, <1>4, RowsOfStep DEF EndOfFile, Authorization, Reconnection, Logout
<1>5. ASSUME NEW fd \in Fds, Registration(fd)
      PROVE  IdsGivenOnce'
  <2>1. CASE UNCHANGED <<users, lastId>>
    BY <1>2, <2>1, UnchangedRows
  <2>2. CASE ~UNCHANGED <<users, lastId>>
    <3>1. /\ lastId' = lastId + 1
          /\ \A id \in Ids \ {lastId + 1} : users'[id] = users[id]
      BY <1>5, <2>2, RegistrationEffect
    <3> QED
      BY <1>1, <3>1 DEF IdsGivenOnce, Ids
  <2> QED
    BY <2>1, <2>2
<1>6. ASSUME NEW fd \in Fds, DeleteAccount(fd)
      PROVE  IdsGivenOnce'
  BY <1>6 DEF DeleteAccount, IdsGivenOnce
<1>7. CASE UNCHANGED <<users, lastId>>
  BY <1>2, <1>7, UnchangedRows
<1>8. CASE StopServer \/ UNCHANGED vars \/ \E fd \in Fds : ConnectionFails(fd)
  BY <1>7, <1>8 DEF StopServer, ProcessEnds, ConnectionFails, vars, serverVars
<1>9. ASSUME NEW c \in Clients, ClientStep(c)
      PROVE  UNCHANGED <<users, lastId>>
  BY <1>9, ClientStepRows
<1>10. ASSUME NEW fd \in Fds, AuthorizationDies(fd)
       PROVE  IdsGivenOnce'
  BY <1>2, <1>10, DyingEffect
<1> QED
  BY <1>3, <1>4, <1>5, <1>6, <1>7, <1>8, <1>9, <1>10 DEF Next, WorkWithClient

\* A queue over a set: its head, its tail, and the same queue over a larger set.
LEMMA QueueParts ==
    ASSUME NEW S, NEW s \in Seq(S), s # <<>>
    PROVE  Head(s) \in S /\ Tail(s) \in Seq(S)
OBVIOUS

LEMMA QueueOver ==
    ASSUME NEW S, NEW T, S \subseteq T, NEW s \in Seq(S)
    PROVE  s \in Seq(T)
OBVIOUS

\* The request the server takes next is one the client knew the password or
\* the row for.
LEMMA HeadKnown ==
    ASSUME SessionInv, NEW fd \in Fds, NEW types, HasRequest(fd, types)
    PROVE  /\ Head(inq[fd]) \in KnownRequest(link[fd].client)
           /\ Tail(inq[fd]) \in Seq(KnownRequest(link[fd].client))
<1>1. inq[fd] \in Seq(KnownRequest(link[fd].client)) /\ inq[fd] # <<>>
  BY DEF SessionInv, InFlightKnown, HasRequest
<1> QED
  BY <1>1, QueueParts

LEMMA RowSocket ==
    ASSUME TypeOK, NEW id \in Ids, users[id] # NoRow
    PROVE  users[id].socket \in Fds \cup {NoFd} /\ users[id].notif \in BOOLEAN
BY DEF TypeOK, Row

\* Rows keep their sockets or lose them, and links stay.
LEMMA HoldersOnSockets ==
    ASSUME SessionInv, TypeOK', Evolves, SameRows, running' = running,
           \A id \in Ids : users[id] # NoRow =>
              users'[id].socket \in {users[id].socket, NoFd},
           \A fd \in Fds : link[fd] # NoLink =>
              \/ link'[fd] # NoLink /\ link'[fd].client = link[fd].client
              \/ \A id \in Ids : users[id] # NoRow => users'[id].socket # fd,
           \A fd \in Fds : link[fd] = NoLink => link'[fd] = NoLink \/ running
    PROVE  SocketIsOpen' /\ HoldersKnow'
<1> SUFFICES ASSUME NEW id \in Ids, users'[id] # NoRow, users'[id].socket # NoFd
             PROVE  /\ running' => link'[users'[id].socket] # NoLink
                    /\ users'[id].notif /\ link'[users'[id].socket] # NoLink
                       => users'[id].pw \in typed'[link'[users'[id].socket].client]
  BY DEF SocketIsOpen, HoldersKnow
<1>1. /\ users[id] # NoRow
      /\ users'[id].pw = users[id].pw
      /\ users'[id].notif = users[id].notif
      /\ users'[id].socket = users[id].socket
  BY Zenon DEF SameRows, SameRow
<1>2. users[id].socket \in Fds /\ users[id].socket # NoFd
  BY <1>1, RowSocket DEF SessionInv
<1> DEFINE fd == users[id].socket
<1>3. running' => link'[fd] # NoLink
  BY <1>1, <1>2 DEF SessionInv, SocketIsOpen
<1>4. ASSUME users[id].notif, link'[fd] # NoLink
      PROVE  users[id].pw \in typed'[link'[fd].client]
  <2>1. link[fd] # NoLink
    BY <1>1, <1>2, <1>4 DEF SessionInv, SocketIsOpen
  <2>2. link'[fd].client = link[fd].client
    BY <1>1, <1>2, <2>1
  <2>3. users[id].pw \in typed[link[fd].client]
    BY <1>1, <1>2, <1>4, <2>1 DEF SessionInv, HoldersKnow
  <2>4. link[fd].client \in Clients
    BY <1>2, <2>1 DEF SessionInv, TypeOK, Link
  <2> QED
    BY <2>2, <2>3, <2>4 DEF Evolves
<1> QED
  BY <1>1, <1>3, <1>4

\* A client takes accounts over on its connection.
LEMMA HoldersOnTaking ==
    ASSUME SessionInv, TypeOK', NEW fd \in Fds, link[fd] # NoLink, NEW ids,
           \A id \in ids \cap Ids : users[id] # NoRow,
           SetSocket(ids, fd), UNCHANGED <<running, link, typed>>,
           \A id \in ids \cap Ids :
              users[id].notif => users[id].pw \in typed[link[fd].client]
    PROVE  SocketIsOpen' /\ HoldersKnow'
<1>1. /\ SameRows
      /\ \A id \in Ids : users[id] # NoRow =>
             users'[id].socket = IF id \in ids THEN fd ELSE users[id].socket
  BY SetSocketEffect DEF SessionInv
<1> SUFFICES ASSUME NEW id \in Ids, users'[id] # NoRow, users'[id].socket # NoFd
             PROVE  /\ running' => link'[users'[id].socket] # NoLink
                    /\ users'[id].notif /\ link'[users'[id].socket] # NoLink
                       => users'[id].pw \in typed'[link'[users'[id].socket].client]
  BY DEF SocketIsOpen, HoldersKnow
<1>2. /\ users[id] # NoRow
      /\ users'[id].pw = users[id].pw
      /\ users'[id].notif = users[id].notif
      /\ users'[id].socket = IF id \in ids THEN fd ELSE users[id].socket
  BY <1>1, Zenon DEF SameRows, SameRow
<1>3. CASE id \in ids
  BY <1>2, <1>3
<1>4. CASE id \notin ids
  BY <1>2, <1>4 DEF SessionInv, SocketIsOpen, HoldersKnow
<1> QED
  BY <1>3, <1>4

LEMMA HoldersStep ==
    ASSUME SessionInv, [Next]_vars, TypeOK', Evolves
    PROVE  SocketIsOpen' /\ HoldersKnow'
<1> USE DEF SessionInv
<1> DEFINE Goal == SocketIsOpen' /\ HoldersKnow'
           SameLink(fd) ==
              link'[fd] # NoLink /\ link'[fd].client = link[fd].client
<1>1. ASSUME UNCHANGED <<running, users>>,
             \A fd \in Fds : link[fd] # NoLink => SameLink(fd),
             \A fd \in Fds : link[fd] = NoLink => link'[fd] = NoLink \/ running
      PROVE  Goal
  <2>1. SameRows /\ \A id \in Ids : users[id] # NoRow =>
                       users'[id].socket \in {users[id].socket, NoFd}
    BY <1>1, UnchangedRows
  <2> QED
    BY <1>1, <2>1, HoldersOnSockets
<1>2. CASE StartServer
  <2>1. SameRows /\ \A id \in Ids : users[id] # NoRow => users'[id].socket = NoFd
    BY <1>2, SetSocketEffect DEF StartServer
  <2> QED
    BY <2>1 DEF SocketIsOpen, HoldersKnow, SameRows, SameRow
<1>3. CASE StopServer
  BY <1>3 DEF StopServer, ProcessEnds, SocketIsOpen, HoldersKnow, TypeOK, Row
<1>4. ASSUME NEW fd \in Fds, ConnectionFails(fd)
      PROVE  Goal
  BY <1>1, <1>4, BreakType DEF ConnectionFails
<1>5. ASSUME NEW fd \in Fds, EndOfFile(fd)
      PROVE  Goal
  <2>1. /\ SameRows
        /\ \A id \in Ids : users[id] # NoRow =>
             users'[id].socket = IF users[id].socket = fd THEN NoFd
                                                     ELSE users[id].socket
    BY <1>5, SetSocketEffect DEF EndOfFile
  <2>2. running' = running /\ NoFd # fd
    BY <1>5, ConstantsAssumption DEF EndOfFile
  <2>3. \A f \in Fds : link[f] # NoLink =>
           SameLink(f) \/ \A id \in Ids : users[id] # NoRow => users'[id].socket # f
    BY <1>5, <2>1, <2>2 DEF EndOfFile, TypeOK
  <2>4. \A f \in Fds : link[f] = NoLink => link'[f] = NoLink
    BY <1>5 DEF EndOfFile, TypeOK
  <2> QED
    BY <2>1, <2>2, <2>3, <2>4, HoldersOnSockets
<1>6. ASSUME NEW fd \in Fds, Authorization(fd)
      PROVE  Goal
  <2> DEFINE r == Head(inq[fd])
  <2>1. /\ r \in KnownRequest(link[fd].client) /\ r.type = "AUTH"
        /\ link[fd] # NoLink
    BY <1>6, HeadKnown DEF Authorization, HasRequest
  <2>2. r.pw \in typed[link[fd].client]
    BY <2>1 DEF KnownRequest
  <2>3. CASE CheckClient(r.login, r.pw)
    <3>1. SetSocket(Rows(r.login), fd) /\ UNCHANGED <<running, link, typed>>
      BY <1>6, <2>3 DEF Authorization
    <3>2. \A id \in Rows(r.login) :
             users[id].notif => users[id].pw \in typed[link[fd].client]
      BY <2>2, <2>3 DEF CheckClient
    <3> QED
      BY <2>1, <3>1, <3>2, HoldersOnTaking DEF Rows
  <2>4. CASE ~CheckClient(r.login, r.pw)
    BY <1>1, <1>6, <2>4 DEF Authorization
  <2> QED
    BY <2>3, <2>4
<1>7. ASSUME NEW fd \in Fds, Reconnection(fd)
      PROVE  Goal
  <2> DEFINE r == Head(inq[fd])
  <2>1. /\ r \in KnownRequest(link[fd].client) /\ r.type = "RECONNECTION"
        /\ link[fd] # NoLink
    BY <1>7, HeadKnown DEF Reconnection, HasRequest
  <2>2. r.pw \in typed[link[fd].client]
    BY <2>1 DEF KnownRequest
  <2>3. UNCHANGED <<running, link, typed>>
    BY <1>7 DEF Reconnection, clientVars
  <2>4. CASE users' = users
    BY <1>1, <2>3, <2>4
  <2>5. ASSUME NEW id \in Rows(r.login), users[id].pw = r.pw, SetSocket({id}, fd)
        PROVE  Goal
    BY <2>1, <2>2, <2>3, <2>5, HoldersOnTaking DEF Rows
  <2> QED
    BY <1>7, <2>4, <2>5 DEF Reconnection
<1>8. ASSUME NEW fd \in Fds, Registration(fd)
      PROVE  Goal
  <2>1. UNCHANGED <<running, link, typed>>
    BY <1>8 DEF Registration, clientVars
  <2>2. CASE UNCHANGED <<users, lastId>>
    BY <1>1, <2>1, <2>2
  <2>3. CASE ~UNCHANGED <<users, lastId>>
    <3>1. /\ users'[lastId + 1].socket = NoFd
          /\ \A id \in Ids \ {lastId + 1} : users'[id] = users[id]
      BY <1>8, <2>3, RegistrationEffect
    <3> QED
      BY <2>1, <3>1 DEF SocketIsOpen, HoldersKnow
  <2> QED
    BY <2>2, <2>3
<1>9. ASSUME NEW fd \in Fds, Logout(fd)
      PROVE  Goal
  <2>1. /\ SameRows
        /\ \A id \in Ids : users[id] # NoRow =>
             users'[id].socket \in {users[id].socket, NoFd}
    BY <1>9, SetSocketEffect DEF Logout
  <2> QED
    BY <1>9, <2>1, HoldersOnSockets DEF Logout
<1>10. ASSUME NEW fd \in Fds, DeleteAccount(fd)
       PROVE  Goal
  <2>1. /\ UNCHANGED <<running, link, typed>>
        /\ \A id \in Ids : users'[id] = NoRow \/ users'[id] = users[id]
    BY <1>10 DEF DeleteAccount, clientVars
  <2> QED
    BY <2>1 DEF SocketIsOpen, HoldersKnow
<1>11. ASSUME NEW c \in Clients, NEW fd \in Fds,
              FirstConnect(c, fd) \/ Reconnect(c, fd) \/ ReconnectWithoutLogin(c, fd)
       PROVE  Goal
  <2>1. /\ UNCHANGED <<running, users>> /\ running /\ link[fd] = NoLink
        /\ \A f \in Fds : f # fd => link'[f] = link[f]
    BY <1>11 DEF FirstConnect, Reconnect, ReconnectWithoutLogin, TypeOK
  <2> QED
    BY <1>1, <2>1
<1>12. ASSUME NEW c \in Clients, Quit(c)
       PROVE  Goal
  <2>1. CASE Connected(c)
    BY <1>1, <1>12, <2>1, BreakType DEF Quit, Connected
  <2>2. CASE ~Connected(c)
    BY <1>1, <1>12, <2>2 DEF Quit
  <2> QED
    BY <2>1, <2>2
<1>13. CASE UNCHANGED <<running, users, link>>
  BY <1>1, <1>13
<1>14. ASSUME NEW c \in Clients, ClientStep(c)
       PROVE  Goal
  BY <1>11, <1>12, <1>13, <1>14 DEF ClientStep, NoticeLoss, Launch, Enter,
     Register, ReceiveAnswer, PressLogout, PressDelete, LogoutCallback, serverVars
<1>15. CASE UNCHANGED vars
  BY <1>13, <1>15 DEF vars, serverVars
<1>16. ASSUME NEW fd \in Fds, AuthorizationDies(fd)
       PROVE  Goal
  <2>1. ~running' /\ \A f \in Fds : link'[f] = NoLink
    BY <1>16, DyingEffect
  <2> QED
    BY <2>1 DEF SocketIsOpen, HoldersKnow, TypeOK, Row
<1> QED
  BY <1>2, <1>3, <1>4, <1>5, <1>6, <1>7, <1>8, <1>9, <1>10, <1>14, <1>15, <1>16
     DEF Next, WorkWithClient

LEMMA OneRowStep ==
    ASSUME SessionInv, [Next]_vars
    PROVE  OneRowPerLogin'
<1> USE DEF SessionInv
<1>1. ASSUME SameRows
      PROVE  OneRowPerLogin'
  BY <1>1 DEF SameRows, SameRow, OneRowPerLogin
<1>2. CASE StartServer
  BY <1>1, <1>2, SetSocketEffect DEF StartServer
<1>3. ASSUME NEW fd \in Fds,
             EndOfFile(fd) \/ Authorization(fd) \/ Reconnection(fd) \/ Logout(fd)
      PROVE  OneRowPerLogin'
  BY <1>1, <1>3, RowsOfStep
<1>4. ASSUME NEW fd \in Fds, Registration(fd)
      PROVE  OneRowPerLogin'
  <2> DEFINE l == Head(inq[fd]).login
  <2>1. CASE UNCHANGED <<users, lastId>>
    BY <1>1, <2>1, UnchangedRows
  <2>2. CASE ~UNCHANGED <<users, lastId>>
    <3>1. /\ Rows(l) = {}
          /\ users'[lastId + 1].login = l
          /\ \A id \in Ids \ {lastId + 1} : users'[id] = users[id]
      BY <1>4, <2>2, RegistrationEffect
    <3>2. \A id \in Ids : users[id] # NoRow => users[id].login # l
      BY <3>1 DEF Rows
    <3> QED
      BY <3>1, <3>2 DEF OneRowPerLogin
  <2> QED
    BY <2>1, <2>2
<1>5. ASSUME NEW fd \in Fds, DeleteAccount(fd)
      PROVE  OneRowPerLogin'
  <2>1. \A id \in Ids : users'[id] = NoRow \/ users'[id] = users[id]
    BY <1>5 DEF DeleteAccount
  <2> QED
    BY <2>1 DEF OneRowPerLogin
<1>6. CASE users' = users
  BY <1>1, <1>6, UnchangedRows
<1>7. CASE StopServer \/ UNCHANGED vars \/ \E fd \in Fds : ConnectionFails(fd)
  BY <1>6, <1>7 DEF StopServer, ProcessEnds, ConnectionFails, vars, serverVars
<1>8. ASSUME NEW c \in Clients, ClientStep(c)
      PROVE  users' = users
  BY <1>8, ClientStepRows
<1>9. ASSUME NEW fd \in Fds, AuthorizationDies(fd)
      PROVE  OneRowPerLogin'
  BY <1>1, <1>9, DyingEffect
<1> QED
  BY <1>2, <1>3, <1>4, <1>5, <1>6, <1>7, <1>8, <1>9 DEF Next, WorkWithClient

-----------------------------------------------------------------------------
\* What is known of one queue, and of the client's own variables.
QueueKnown(fd) ==
    link[fd] # NoLink => inq[fd] \in Seq(KnownRequest(link[fd].client))

\* A queue that stays, loses its head or its connection.
LEMMA QueueShrinks ==
    ASSUME SessionInv, TypeOK', Evolves, NEW fd \in Fds,
           link'[fd] # NoLink => /\ link[fd] # NoLink
                                 /\ link'[fd].client = link[fd].client
                                 /\ \/ inq'[fd] = inq[fd]
                                    \/ inq[fd] # <<>> /\ inq'[fd] = Tail(inq[fd])
    PROVE  QueueKnown(fd)'
<1>1. CASE link'[fd] = NoLink
  BY <1>1 DEF QueueKnown
<1>2. CASE link'[fd] # NoLink
  <2>1. link[fd] # NoLink /\ link[fd].client \in Clients
    BY <1>2 DEF SessionInv, TypeOK, Link
  <2>2. PICK c \in Clients : c = link[fd].client
    BY <2>1
  <2>3. link'[fd].client = c
    BY <1>2, <2>2
  <2>4. inq[fd] \in Seq(KnownRequest(c))
    BY <2>1, <2>2 DEF SessionInv, InFlightKnown
  <2>5. inq'[fd] \in Seq(KnownRequest(c))
    BY <1>2, <2>4, QueueParts
  <2>6. KnownRequest(c) \subseteq KnownRequest(c)'
    BY KnownGrows DEF SessionInv
  <2>7. inq'[fd] \in Seq(KnownRequest(c)')
    BY <2>5, <2>6, QueueOver
  <2> QED
    BY <2>3, <2>7 DEF QueueKnown
<1> QED
  BY <1>1, <1>2

\* A client sends what it knows.
LEMMA QueueGrows ==
    ASSUME SessionInv, TypeOK', Evolves, NEW c \in Clients, NEW rs,
           rs \in Seq(KnownRequest(c)'), Send(c, rs), link' = link, NEW fd \in Fds
    PROVE  QueueKnown(fd)'
<1>1. CASE Connected(c) /\ fd = conn[c]
  <2>1. link[fd] # NoLink /\ link[fd].client = c
    BY <1>1 DEF Connected
  <2>2. inq[fd] \in Seq(KnownRequest(c))
    BY <2>1 DEF SessionInv, InFlightKnown
  <2>3. KnownRequest(c) \subseteq KnownRequest(c)'
    BY KnownGrows DEF SessionInv
  <2>4. inq[fd] \in Seq(KnownRequest(c)')
    BY <2>2, <2>3, QueueOver
  <2>5. inq'[fd] = inq[fd] \o rs
    BY <1>1 DEF Send, SessionInv, TypeOK
  <2> DEFINE K == KnownRequest(c)'
  <2>6. inq[fd] \o rs \in Seq(K)
    <3>1. inq[fd] \in Seq(K) /\ rs \in Seq(K)
      BY <2>4
    <3> HIDE DEF K
    <3> QED
      BY <3>1
  <2> QED
    BY <2>1, <2>5, <2>6 DEF QueueKnown
<1>2. CASE ~(Connected(c) /\ fd = conn[c])
  <2>1. inq'[fd] = inq[fd]
    BY <1>2 DEF Send, SessionInv, TypeOK
  <2> QED
    BY <2>1, QueueShrinks
<1> QED
  BY <1>1, <1>2

\* Every queue after a step.
LEMMA QueuesStep ==
    ASSUME SessionInv, [Next]_vars, TypeOK', Evolves, NEW f \in Fds
    PROVE  QueueKnown(f)'
<1> USE DEF SessionInv
<1>1. CASE UNCHANGED <<link, inq>>
  BY <1>1, QueueShrinks
<1>2. CASE StopServer
  BY <1>2, QueueShrinks DEF StopServer, ProcessEnds
<1>3. ASSUME NEW fd \in Fds, ConnectionFails(fd)
      PROVE  QueueKnown(f)'
  BY <1>3, BreakType, QueueShrinks DEF ConnectionFails
<1>4. ASSUME NEW fd \in Fds, EndOfFile(fd)
      PROVE  QueueKnown(f)'
  BY <1>4, QueueShrinks DEF EndOfFile, TypeOK
<1>5. ASSUME NEW fd \in Fds, NEW types, HasRequest(fd, types), TakeRequest(fd),
             link' = link
      PROVE  QueueKnown(f)'
  BY <1>5, QueueShrinks DEF HasRequest, TakeRequest, TypeOK
<1>6. ASSUME NEW fd \in Fds, WorkWithClient(fd)
      PROVE  QueueKnown(f)'
  BY <1>4, <1>5, <1>6 DEF WorkWithClient, Authorization, Reconnection,
     Registration, Logout, DeleteAccount
<1>7. ASSUME NEW c \in Clients, NEW fd \in Fds,
             FirstConnect(c, fd) \/ ReconnectWithoutLogin(c, fd)
      PROVE  QueueKnown(f)'
  <2>1. CASE f = fd
    <3>1. inq'[fd] = <<>>
      BY <1>7 DEF FirstConnect, ReconnectWithoutLogin, NothingSentUnlinked
    <3> QED
      BY <2>1, <3>1 DEF QueueKnown
  <2>2. CASE f # fd
    BY <1>7, <2>2, QueueShrinks DEF FirstConnect, ReconnectWithoutLogin, TypeOK
  <2> QED
    BY <2>1, <2>2
<1>8. ASSUME NEW c \in Clients, NEW fd \in Fds, Reconnect(c, fd)
      PROVE  QueueKnown(f)'
  <2>1. CASE f = fd
    <3>1. PICK l \in LoginText(c) :
            inq' = [inq EXCEPT ![fd] =
                      <<[type |-> "RECONNECTION", login |-> l, pw |-> hash[c]]>>]
      BY <1>8 DEF Reconnect
    <3> DEFINE r == [type |-> "RECONNECTION", login |-> l, pw |-> hash[c]]
    <3>2. inq'[fd] = <<r>> /\ link'[fd].client = c
      BY <1>8, <3>1 DEF Reconnect, TypeOK
    <3>3. l \in Logins \cup {NoLogin} /\ hash[c] \in Passwords
      BY <1>8 DEF Reconnect, LoginText, TypeOK
    <3>4. hash[c] \in typed'[c]
      BY <1>8 DEF Reconnect, ClientKnows
    <3>5. r \in Request
      BY <3>3 DEF Request
    <3>6. r \in KnownRequest(c)'
      BY <3>4, <3>5 DEF KnownRequest
    <3>7. <<r>> \in Seq(KnownRequest(c)')
      BY <3>6
    <3> QED
      BY <2>1, <3>2, <3>7 DEF QueueKnown
  <2>2. CASE f # fd
    BY <1>8, <2>2, QueueShrinks DEF Reconnect, TypeOK
  <2> QED
    BY <2>1, <2>2
<1>9. ASSUME NEW c \in Clients, Quit(c)
      PROVE  QueueKnown(f)'
  <2>1. CASE Connected(c)
    BY <1>9, <2>1, BreakType, QueueShrinks DEF Quit, Connected
  <2>2. CASE ~Connected(c)
    BY <1>1, <1>9, <2>2 DEF Quit
  <2> QED
    BY <2>1, <2>2
<1>10. ASSUME NEW c \in Clients, NEW l \in Logins, NEW p \in Passwords,
              Enter(c, l, p)
       PROVE  QueueKnown(f)'
  <2> DEFINE r == [type |-> "AUTH", login |-> l, pw |-> p]
  <2>1. p \in typed'[c] /\ r \in Request
    BY <1>10 DEF Enter, TypeOK, Request
  <2>2. r \in KnownRequest(c)'
    BY <2>1 DEF KnownRequest
  <2>3. <<r>> \in Seq(KnownRequest(c)')
    BY <2>2
  <2> QED
    BY <1>10, <2>3, QueueGrows DEF Enter
<1>11. ASSUME NEW c \in Clients, NEW l \in Logins, NEW p \in Passwords,
              NEW q \in Passwords, Register(c, l, p, q)
       PROVE  QueueKnown(f)'
  <2> DEFINE r == [type |-> "REG", login |-> l, pw |-> q]
  <2>1. q \in typed'[c] /\ r \in Request
    BY <1>11 DEF Register, TypeOK, Request
  <2>2. r \in KnownRequest(c)'
    BY <2>1 DEF KnownRequest
  <2>3. <<r>> \in Seq(KnownRequest(c)')
    BY <2>2
  <2> QED
    BY <1>11, <2>3, QueueGrows DEF Register
<1>12. ASSUME NEW c \in Clients, PressLogout(c) \/ PressDelete(c)
       PROVE  QueueKnown(f)'
  <2> DEFINE r == [type |-> "LOGOUT", id |-> uid[c]]
             d == [type |-> "DELETE_ACCOUNT", id |-> uid[c]]
  <2>1. uid[c] \in Ids \cup {0} /\ (uid[c] # 0 => KnowsRow(c, uid[c]))
    BY DEF TypeOK, ClientKnows
  <2>2. r \in KnownRequest(c) /\ d \in KnownRequest(c)
    BY <2>1 DEF KnownRequest, Request
  <2>3. KnownRequest(c) \subseteq KnownRequest(c)'
    BY KnownGrows
  <2>4. <<r>> \in Seq(KnownRequest(c)) /\ <<d, r>> \in Seq(KnownRequest(c))
    BY <2>2
  <2>5. <<r>> \in Seq(KnownRequest(c)') /\ <<d, r>> \in Seq(KnownRequest(c)')
    BY <2>3, <2>4, QueueOver
  <2>6. (Send(c, <<r>>) \/ Send(c, <<d, r>>)) /\ link' = link
    BY <1>12 DEF PressLogout, PressDelete, LogoutCallback
  <2> HIDE DEF r, d
  <2> QED
    BY <2>5, <2>6, QueueGrows
<1>13. ASSUME NEW c \in Clients, ClientStep(c)
       PROVE  QueueKnown(f)'
  BY <1>1, <1>7, <1>8, <1>9, <1>10, <1>11, <1>12, <1>13 DEF ClientStep,
     NoticeLoss, Launch, ReceiveAnswer, serverVars
<1>14. CASE StartServer \/ UNCHANGED vars
  BY <1>1, <1>14 DEF StartServer, vars, serverVars
<1>15. ASSUME NEW fd \in Fds, AuthorizationDies(fd)
       PROVE  QueueKnown(f)'
  BY <1>15, DyingEffect, QueueShrinks
<1> QED
  BY <1>2, <1>3, <1>6, <1>13, <1>14, <1>15 DEF Next

\* The id in a positive answer belongs to the password it was compared with.
LEMMA SignedInIdKnown ==
    ASSUME SessionInv, NEW c \in Clients, NEW l, NEW p \in typed[c],
           CheckClient(l, p)
    PROVE  [type |-> "AUTH_V", id |-> SignedInId(l)] \in KnownReply(c)
<1> USE DEF SessionInv
<1> DEFINE compared == {id \in Rows(l) : users[id].notif}
<1>1. CASE compared = {}
  <2>1. SignedInId(l) = 0
    BY <1>1 DEF SignedInId
  <2> QED
    BY <2>1 DEF KnownReply, Reply
<1>2. CASE compared # {}
  <2>1. SignedInId(l) = CHOOSE id \in compared : TRUE
    BY <1>2 DEF SignedInId
  <2>2. SignedInId(l) \in compared
    BY <1>2, <2>1
  <2>3. PICK id \in Ids : id = SignedInId(l) /\ id \in compared
    BY <2>2 DEF Rows
  <2>4. users[id] # NoRow /\ users[id].notif /\ users[id].pw = p
    BY <2>3 DEF Rows, CheckClient
  <2>5. id <= lastId
    <3>1. lastId \in Nat /\ id \in Int
      BY LastIdType DEF Ids
    <3> QED
      BY <2>4, <3>1 DEF IdsGivenOnce
  <2>6. KnowsRow(c, id)
    BY <2>4, <2>5 DEF KnowsRow
  <2>7. [type |-> "AUTH_V", id |-> id] \in Reply
    BY DEF Reply
  <2> QED
    BY <2>3, <2>6, <2>7 DEF KnownReply
<1> QED
  BY <1>1, <1>2

LEMMA InboxKeeps ==
    ASSUME SessionInv, TypeOK', Evolves, NEW c \in Clients,
           \/ inbox'[c] \in {inbox[c], <<>>}
           \/ inbox[c] # <<>> /\ inbox'[c] = Tail(inbox[c])
    PROVE  inbox'[c] \in Seq(KnownReply(c)')
<1>1. inbox[c] \in Seq(KnownReply(c))
  BY DEF SessionInv, InFlightKnown
<1>2. inbox'[c] \in Seq(KnownReply(c))
  <2>1. CASE inbox'[c] = inbox[c]
    BY <1>1, <2>1
  <2>2. CASE inbox'[c] = <<>>
    BY <2>2
  <2>3. CASE inbox[c] # <<>> /\ inbox'[c] = Tail(inbox[c])
    BY <1>1, <2>3, QueueParts
  <2> QED
    BY <2>1, <2>2, <2>3
<1>3. KnownReply(c) \subseteq KnownReply(c)'
  BY KnownGrows DEF SessionInv
<1> QED
  BY <1>2, <1>3, QueueOver

\* mx_save_send adds a reply that its receiver may know.
LEMMA AnswerKnown ==
    ASSUME SessionInv, TypeOK', Evolves, NEW c \in Clients, NEW d \in Clients,
           NEW fd \in Fds, d = link[fd].client,
           NEW reply \in KnownReply(d), Answer(fd, reply)
    PROVE  inbox'[c] \in Seq(KnownReply(c)')
<1>1. CASE inbox'[c] = inbox[c]
  BY <1>1, InboxKeeps
<1>2. CASE inbox'[c] # inbox[c]
  <2>1. c = d /\ inbox'[c] = Append(inbox[c], reply)
    BY <1>2 DEF Answer, SessionInv, TypeOK
  <2>2. inbox[c] \in Seq(KnownReply(c))
    BY DEF SessionInv, InFlightKnown
  <2> DEFINE K == KnownReply(c)
  <2>3. inbox'[c] \in Seq(K)
    <3>1. inbox[c] \in Seq(K) /\ reply \in K
      BY <2>1, <2>2
    <3> HIDE DEF K
    <3> QED
      BY <2>1, <3>1
  <2>4. KnownReply(c) \subseteq KnownReply(c)'
    BY KnownGrows DEF SessionInv
  <2> QED
    BY <2>3, <2>4, QueueOver
<1> QED
  BY <1>1, <1>2

LEMMA InboxesStep ==
    ASSUME SessionInv, [Next]_vars, TypeOK', Evolves, NEW c \in Clients
    PROVE  inbox'[c] \in Seq(KnownReply(c)')
<1> USE DEF SessionInv
<1>1. CASE inbox' = inbox
  BY <1>1, InboxKeeps
<1>2. ASSUME NEW fd \in Fds, Authorization(fd)
      PROVE  inbox'[c] \in Seq(KnownReply(c)')
  <2> DEFINE r == Head(inq[fd])
  <2>1. PICK d \in Clients : d = link[fd].client
    BY <1>2 DEF Authorization, HasRequest, TypeOK, Link
  <2>2. r \in KnownRequest(link[fd].client) /\ r.type = "AUTH"
    BY <1>2, HeadKnown DEF Authorization, HasRequest
  <2>3. r.pw \in typed[d]
    BY <2>1, <2>2 DEF KnownRequest
  <2>4. ASSUME NEW reply \in KnownReply(d), Answer(fd, reply)
        PROVE  inbox'[c] \in Seq(KnownReply(c)')
    BY <2>1, <2>4, AnswerKnown
  <2>5. CASE CheckClient(r.login, r.pw)
    <3>1. Answer(fd, [type |-> "AUTH_V", id |-> SignedInId(r.login)])
      BY <1>2, <2>5 DEF Authorization
    <3> QED
      BY <2>3, <2>4, <2>5, <3>1, SignedInIdKnown
  <2>6. CASE ~CheckClient(r.login, r.pw)
    <3>1. Answer(fd, [type |-> "AUTH_NV", id |-> 0])
      BY <1>2, <2>6 DEF Authorization
    <3>2. [type |-> "AUTH_NV", id |-> 0] \in KnownReply(d)
      BY DEF KnownReply, Reply
    <3> QED
      BY <2>4, <3>1, <3>2
  <2> QED
    BY <2>5, <2>6
<1>3. ASSUME NEW fd \in Fds, WorkWithClient(fd)
      PROVE  inbox'[c] \in Seq(KnownReply(c)')
  BY <1>1, <1>2, <1>3 DEF WorkWithClient, EndOfFile, Reconnection,
     Registration, Logout, DeleteAccount, clientVars
<1>4. ASSUME NEW d \in Clients, NoticeLoss(d) \/ Quit(d) \/ ReceiveAnswer(d)
      PROVE  inbox'[c] \in Seq(KnownReply(c)')
  BY <1>4, InboxKeeps DEF NoticeLoss, Quit, ReceiveAnswer, TypeOK
<1>5. ASSUME NEW d \in Clients, ClientStep(d)
      PROVE  inbox'[c] \in Seq(KnownReply(c)')
  BY <1>1, <1>4, <1>5 DEF ClientStep, FirstConnect, Reconnect,
     ReconnectWithoutLogin, Launch, Enter, Register, PressLogout, PressDelete,
     LogoutCallback
<1>6. CASE \/ StartServer \/ StopServer \/ UNCHANGED vars
           \/ \E fd \in Fds : ConnectionFails(fd)
  BY <1>1, <1>6 DEF StartServer, StopServer, ProcessEnds, ConnectionFails,
     vars, clientVars
<1>7. ASSUME NEW fd \in Fds, AuthorizationDies(fd)
      PROVE  inbox'[c] \in Seq(KnownReply(c)')
  <2>1. PICK d \in Clients : d = link[fd].client
    BY <1>7 DEF AuthorizationDies, HasRequest, TypeOK, Link
  <2>2. [type |-> "AUTH_V", id |-> 0] \in KnownReply(d)
    BY DEF KnownReply, Reply
  <2>3. Answer(fd, [type |-> "AUTH_V", id |-> 0])
    BY <1>7 DEF AuthorizationDies
  <2> QED
    BY <2>1, <2>2, <2>3, AnswerKnown
<1> QED
  BY <1>3, <1>5, <1>6, <1>7 DEF Next

LEMMA ClientKnowsStep ==
    ASSUME SessionInv, [Next]_vars, TypeOK', Evolves
    PROVE  ClientKnows'
<1> USE DEF SessionInv
<1> SUFFICES ASSUME NEW c \in Clients
             PROVE  /\ hash'[c] # NoHash => hash'[c] \in typed'[c]
                    /\ uid'[c] # 0 => KnowsRow(c, uid[c])'
  BY DEF ClientKnows
<1>1. ASSUME hash'[c] \in {hash[c], NoHash}
      PROVE  hash'[c] # NoHash => hash'[c] \in typed'[c]
  BY <1>1 DEF ClientKnows, Evolves
<1>2. ASSUME uid'[c] \in {uid[c], 0}
      PROVE  uid'[c] # 0 => KnowsRow(c, uid[c])'
  <2>1. CASE uid'[c] = 0
    BY <2>1
  <2>2. CASE uid'[c] # 0
    <3>1. PICK id \in Ids : id = uid[c] /\ id = uid'[c]
      BY <1>2, <2>2 DEF TypeOK
    <3>2. KnowsRow(c, id)
      BY <1>2, <2>2, <3>1 DEF ClientKnows
    <3>3. KnowsRow(c, id)'
      BY <3>2, KnownGrows
    <3> QED
      BY <3>1, <3>3 DEF KnowsRow
  <2> QED
    BY <2>1, <2>2
<1>3. CASE hash' = hash /\ uid' = uid
  BY <1>1, <1>2, <1>3
<1>4. ASSUME NEW d \in Clients, Launch(d)
      PROVE  hash'[c] \in {hash[c], NoHash} /\ uid'[c] \in {uid[c], 0}
  BY <1>4 DEF Launch, TypeOK
<1>5. ASSUME NEW d \in Clients,
             \/ \E l \in Logins, p \in Passwords : Enter(d, l, p)
             \/ \E l \in Logins, p, r \in Passwords : Register(d, l, p, r)
      PROVE  /\ hash'[c] # NoHash => hash'[c] \in typed'[c]
             /\ uid' = uid
  <2>1. ASSUME NEW l \in Logins, NEW p \in Passwords, Enter(d, l, p)
        PROVE  /\ hash'[c] # NoHash => hash'[c] \in typed'[c]
               /\ uid' = uid
    <3>1. CASE c = d
      BY <2>1, <3>1 DEF Enter, TypeOK
    <3>2. CASE c # d
      BY <1>1, <2>1, <3>2 DEF Enter, TypeOK
    <3> QED
      BY <3>1, <3>2
  <2>2. ASSUME NEW l \in Logins, NEW p \in Passwords, NEW r \in Passwords,
               Register(d, l, p, r)
        PROVE  /\ hash'[c] # NoHash => hash'[c] \in typed'[c]
               /\ uid' = uid
    <3>1. CASE c = d
      BY <2>2, <3>1 DEF Register, TypeOK
    <3>2. CASE c # d
      BY <1>1, <2>2, <3>2 DEF Register, TypeOK
    <3> QED
      BY <3>1, <3>2
  <2> QED
    BY <1>5, <2>1, <2>2
<1>6. ASSUME NEW d \in Clients, ReceiveAnswer(d)
      PROVE  /\ hash' = hash
             /\ uid'[c] # 0 => KnowsRow(c, uid[c])'
  <2>1. hash' = hash
    BY <1>6 DEF ReceiveAnswer
  <2>2. CASE uid'[c] = uid[c]
    BY <1>2, <2>1, <2>2
  <2>3. CASE uid'[c] # uid[c]
    <3>1. c = d /\ uid'[c] = Head(inbox[c]).id /\ inbox[c] # <<>>
      BY <1>6, <2>3 DEF ReceiveAnswer, TypeOK
    <3>2. Head(inbox[c]) \in KnownReply(c)
      BY <3>1, QueueParts DEF InFlightKnown
    <3>3. PICK id \in Ids \cup {0} : id = uid'[c]
      BY DEF TypeOK
    <3>4. id # 0 => KnowsRow(c, id)
      BY <3>1, <3>2, <3>3 DEF KnownReply
    <3>5. id # 0 => KnowsRow(c, id)'
      BY <3>4, KnownGrows
    <3> QED
      BY <2>1, <3>3, <3>5 DEF KnowsRow
  <2> QED
    BY <2>2, <2>3
<1>7. ASSUME NEW d \in Clients, ClientStep(d)
      PROVE  /\ hash'[c] # NoHash => hash'[c] \in typed'[c]
             /\ uid'[c] # 0 => KnowsRow(c, uid[c])'
  BY <1>1, <1>2, <1>3, <1>4, <1>5, <1>6, <1>7 DEF ClientStep, FirstConnect,
     Reconnect, ReconnectWithoutLogin, NoticeLoss, Quit, PressLogout,
     PressDelete, LogoutCallback
<1>8. ASSUME NEW fd \in Fds, WorkWithClient(fd)
      PROVE  hash' = hash /\ uid' = uid
  BY <1>8 DEF WorkWithClient, EndOfFile, Authorization, Reconnection,
     Registration, Logout, DeleteAccount, clientVars
<1>9. CASE \/ StartServer \/ StopServer \/ UNCHANGED vars
           \/ \E fd \in Fds : ConnectionFails(fd)
  BY <1>3, <1>9 DEF StartServer, StopServer, ProcessEnds, ConnectionFails,
     vars, clientVars
<1>10. ASSUME NEW fd \in Fds, AuthorizationDies(fd)
       PROVE  hash' = hash /\ uid' = uid
  BY <1>10, DyingEffect
<1> QED
  BY <1>3, <1>7, <1>8, <1>9, <1>10 DEF Next

-----------------------------------------------------------------------------
\* The inductive invariant.

LEMMA SessionInit == Init => SessionInv
<1> SUFFICES ASSUME Init
             PROVE  SessionInv
  OBVIOUS
<1>1. TypeOK
  BY TypeInit
<1>2. LinksNeedServer /\ NothingSentUnlinked
  BY DEF Init, LinksNeedServer, NothingSentUnlinked
<1>3. IdsGivenOnce
  BY DEF Init, IdsGivenOnce
<1>4. SocketIsOpen
  BY DEF Init, SocketIsOpen
<1>5. OneRowPerLogin
  <2>1. \A i, j \in Ids :
            InitialUsers[i] # NoRow /\ InitialUsers[j] # NoRow
            /\ InitialUsers[i].login = InitialUsers[j].login => i = j
    BY ConstantsAssumption
  <2> QED
    BY <2>1 DEF Init, OneRowPerLogin
<1>6. InFlightKnown
  BY DEF Init, InFlightKnown
<1>7. ClientKnows
  BY DEF Init, ClientKnows
<1>8. HoldersKnow
  <2>1. \A fd \in Fds : link[fd] = NoLink
    BY DEF Init
  <2> QED
    BY <1>1, <2>1, RowSocket DEF HoldersKnow
<1> QED
  BY <1>1, <1>2, <1>3, <1>4, <1>5, <1>6, <1>7, <1>8 DEF SessionInv

LEMMA SessionStep == SessionInv /\ [Next]_vars => SessionInv'
<1> SUFFICES ASSUME SessionInv, [Next]_vars
             PROVE  SessionInv'
  OBVIOUS
<1>1. TypeOK'
  BY TypeStep DEF SessionInv
<1>2. Evolves
  BY EvolvesStep
<1>3. LinksNeedServer' /\ NothingSentUnlinked'
  BY LinksStep
<1>4. IdsGivenOnce'
  BY <1>1, IdsStep
<1>5. SocketIsOpen' /\ HoldersKnow'
  BY <1>1, <1>2, HoldersStep
<1>6. OneRowPerLogin'
  BY OneRowStep
<1>7. InFlightKnown'
  <2>1. \A fd \in Fds : QueueKnown(fd)'
    BY <1>1, <1>2, QueuesStep
  <2>2. \A c \in Clients : inbox'[c] \in Seq(KnownReply(c)')
    BY <1>1, <1>2, InboxesStep
  <2> QED
    BY <2>1, <2>2 DEF InFlightKnown, QueueKnown
<1>8. ClientKnows'
  BY <1>1, <1>2, ClientKnowsStep
<1> QED
  BY <1>1, <1>3, <1>4, <1>5, <1>6, <1>7, <1>8 DEF SessionInv

LEMMA SessionInvariant == Spec => []SessionInv
BY SessionInit, SessionStep, PTL DEF Spec

\* A broadcast that reads a socket from the users table finds the element of
\* an open connection for it, whatever descriptors were closed and reused.
THEOREM SocketsAreOpen == Spec => []SocketIsOpen
<1>1. SessionInv => SocketIsOpen
  BY DEF SessionInv
<1> QED
  BY <1>1, SessionInvariant, PTL

\* The users table never holds two rows of a login.
THEOREM OneRowEach == Spec => []OneRowPerLogin
<1>1. SessionInv => OneRowPerLogin
  BY DEF SessionInv
<1> QED
  BY <1>1, SessionInvariant, PTL

\* Messages of an account go only to a client whose user typed its password
\* (or to nobody, or the account lacks its notifications row).
THEOREM HoldersKnowPasswords == Spec => []HolderKnowsPassword
<1>1. SessionInv => HolderKnowsPassword
  BY DEF SessionInv, HoldersKnow, HolderKnowsPassword, P!HolderKnows, P!Knows,
     RowAccount, RowHolder
<1> QED
  BY <1>1, SessionInvariant, PTL

-----------------------------------------------------------------------------
\* Sessions implements Presence: the mapped variables of a step.

Accounts == [id \in Ids |-> RowAccount(id)]
Holders == [id \in Ids |-> RowHolder(id)]

LEMMA AccountsStay ==
    ASSUME SameRows
    PROVE  Accounts' = Accounts
<1>1. ASSUME NEW id \in Ids
      PROVE  RowAccount(id)' = RowAccount(id)
  <2>1. SameRow(id)
    BY DEF SameRows
  <2>2. CASE users[id] = NoRow
    BY <2>1, <2>2 DEF RowAccount, SameRow
  <2>3. CASE users[id] # NoRow
    BY <2>1, <2>3, Zenon DEF RowAccount, SameRow
  <2> QED
    BY <2>2, <2>3
<1> QED
  BY <1>1 DEF Accounts

\* Steps that change no row, and move, open or close no link of a holder.
LEMMA HoldersStay ==
    ASSUME SessionInv, SessionInv', users' = users,
           \A fd \in Fds : link[fd] # NoLink =>
              link'[fd] # NoLink /\ link'[fd].client = link[fd].client,
           \A fd \in Fds : link[fd] = NoLink => link'[fd] = NoLink \/ running
    PROVE  Accounts' = Accounts /\ Holders' = Holders
<1>1. Accounts' = Accounts
  BY UnchangedRows, AccountsStay
<1>2. ASSUME NEW id \in Ids
      PROVE  RowHolder(id)' = RowHolder(id)
  <2>1. CASE users[id] = NoRow
    BY <2>1 DEF RowHolder
  <2>2. CASE users[id] # NoRow /\ users[id].socket \in Fds
    BY <2>2 DEF RowHolder, SessionInv, SocketIsOpen
  <2>3. CASE users[id] # NoRow /\ users[id].socket = NoFd
    BY <2>3 DEF RowHolder
  <2> QED
    BY <2>1, <2>2, <2>3, RowSocket DEF SessionInv
<1> QED
  BY <1>1, <1>2 DEF Holders

\* The accounts ids pass to the client of the link fd, or to nobody.
LEMMA HoldersMove ==
    ASSUME SessionInv, SessionInv', NEW ids \in SUBSET Ids,
           NEW s \in Fds \cup {NoFd},
           \A id \in ids : users[id] # NoRow, SetSocket(ids, s), link' = link
    PROVE  /\ Accounts' = Accounts
           /\ s \in Fds /\ link[s] # NoLink =>
                Holders' = [id \in Ids |-> IF id \in ids THEN link[s].client
                                                         ELSE Holders[id]]
           /\ s = NoFd =>
                Holders' = [id \in Ids |-> IF id \in ids THEN "nobody"
                                                         ELSE Holders[id]]
<1>1. /\ SameRows
      /\ \A id \in Ids : users[id] # NoRow =>
             users'[id].socket = IF id \in ids THEN s ELSE users[id].socket
  BY SetSocketEffect DEF SessionInv
<1>2. Accounts' = Accounts
  BY <1>1, AccountsStay
<1>3. NoFd \notin Fds
  BY ConstantsAssumption
<1>4. ASSUME NEW id \in Ids, id \notin ids
      PROVE  RowHolder(id)' = RowHolder(id)
  BY <1>4 DEF SetSocket, RowHolder
<1>5. ASSUME NEW id \in ids, s \in Fds, link[s] # NoLink
      PROVE  RowHolder(id)' = link[s].client
  BY <1>1, <1>3, <1>5 DEF RowHolder, SameRows, SameRow
<1>6. ASSUME NEW id \in ids, s = NoFd
      PROVE  RowHolder(id)' = "nobody"
  BY <1>1, <1>6 DEF RowHolder
<1> QED
  BY <1>2, <1>4, <1>5, <1>6 DEF Holders

\* What the client of a request can do with a row that it knows.
LEMMA KnowsAccount ==
    ASSUME SessionInv, NEW c \in Clients, NEW id \in Ids,
           users[id].notif => users[id].pw \in typed[c], users[id] # NoRow
    PROVE  P!Knows(c, id) /\ Accounts[id] # "no account"
<1>1. users[id].pw \in Passwords /\ users[id].notif \in BOOLEAN
  BY DEF SessionInv, TypeOK, Row
<1>2. "no account" \notin Passwords
  BY ConstantsAssumption
<1> QED
  BY <1>1, <1>2 DEF P!Knows, RowAccount, Accounts

LEMMA PresenceStutter ==
    ASSUME Accounts' = Accounts, Holders' = Holders, typed' = typed
    PROVE  UNCHANGED P!presenceVars
BY DEF P!presenceVars, Accounts, Holders

\* A client takes an account whose password it knows.
LEMMA PresenceHold ==
    ASSUME SessionInv, SessionInv', NEW fd \in Fds, link[fd] # NoLink,
           NEW id \in Ids, users[id] # NoRow,
           users[id].notif => users[id].pw \in typed[link[fd].client],
           SetSocket({id}, fd), UNCHANGED <<link, typed>>
    PROVE  P!PresenceNext
<1>1. PICK c \in Clients : c = link[fd].client
  BY DEF SessionInv, TypeOK, Link
<1>2. P!Knows(c, id) /\ Accounts[id] # "no account"
  BY <1>1, KnowsAccount
<1>3. /\ Accounts' = Accounts
      /\ Holders' = [i \in Ids |-> IF i \in {id} THEN c ELSE Holders[i]]
  BY <1>1, HoldersMove
<1>4. Holders' = [Holders EXCEPT ![id] = c]
  BY <1>3 DEF Holders
<1>5. P!Hold(c, id)
  BY <1>2, <1>3, <1>4 DEF P!Hold, Accounts, Holders
<1> QED
  BY <1>5 DEF P!PresenceNext

LEMMA PresenceServerStep ==
    ASSUME SessionInv, SessionInv', NEW fd \in Fds, WorkWithClient(fd)
    PROVE  [P!PresenceNext]_(P!presenceVars)
<1> USE DEF SessionInv
<1>1. ASSUME UNCHANGED <<users, link, typed>>
      PROVE  UNCHANGED P!presenceVars
  BY <1>1, HoldersStay, PresenceStutter
<1>2. CASE EndOfFile(fd)
  <2> DEFINE ids == {id \in Ids : users[id] # NoRow /\ users[id].socket = fd}
             c == link[fd].client
  <2>1. c \in Clients /\ link[fd] # NoLink /\ typed' = typed
    BY <1>2 DEF EndOfFile, TypeOK, Link, clientVars
  <2>2. SetSocket(ids, NoFd) /\ link' = [link EXCEPT ![fd] = NoLink]
    BY <1>2 DEF EndOfFile
  <2>3. /\ SameRows
        /\ \A id \in Ids : users[id] # NoRow =>
             users'[id].socket = IF id \in ids THEN NoFd ELSE users[id].socket
    BY <2>2, SetSocketEffect
  <2>4. Accounts' = Accounts
    BY <2>3, AccountsStay
  <2>5. ASSUME NEW id \in Ids
        PROVE  RowHolder(id)' = IF id \in ids THEN "nobody" ELSE RowHolder(id)
    <3>1. CASE id \in ids
      BY <2>3, <3>1 DEF RowHolder
    <3>2. CASE id \notin ids
      <4>1. users'[id] = users[id]
        BY <2>2, <3>2 DEF SetSocket
      <4>2. users[id] # NoRow /\ users[id].socket # NoFd =>
               link'[users[id].socket] = link[users[id].socket]
        BY <2>2, <3>2, RowSocket DEF TypeOK
      <4> QED
        BY <3>2, <4>1, <4>2 DEF RowHolder
    <3> QED
      BY <3>1, <3>2
  <2>6. ids \in SUBSET {id \in Ids : Holders[id] = c}
    <3>1. NoFd # fd
      BY ConstantsAssumption
    <3> QED
      BY <2>1, <3>1 DEF Holders, RowHolder
  <2>7. Holders' = [id \in Ids |-> IF id \in ids THEN "nobody" ELSE Holders[id]]
    BY <2>5 DEF Holders
  <2>8. P!Release(ids)
    BY <2>1, <2>4, <2>7 DEF P!Release, Accounts, Holders
  <2>9. P!Disconnect(c)
    BY <2>6, <2>8 DEF P!Disconnect, Holders
  <2> QED
    BY <2>1, <2>9 DEF P!PresenceNext
<1>3. CASE Authorization(fd)
  <2> DEFINE r == Head(inq[fd])
  <2>1. /\ r \in KnownRequest(link[fd].client) /\ r.type = "AUTH"
        /\ link[fd] # NoLink /\ UNCHANGED <<link, typed>>
    BY <1>3, HeadKnown DEF Authorization, HasRequest
  <2>2. r.pw \in typed[link[fd].client]
    BY <2>1 DEF KnownRequest
  <2>3. CASE CheckClient(r.login, r.pw)
    <3>1. PICK id \in Rows(r.login) : TRUE
      BY <2>3 DEF CheckClient
    <3>2. Rows(r.login) = {id}
      BY <3>1 DEF Rows, OneRowPerLogin
    <3>3. SetSocket({id}, fd)
      BY <1>3, <2>3, <3>2 DEF Authorization
    <3>4. id \in Ids /\ users[id] # NoRow
      BY <3>1 DEF Rows
    <3>5. users[id].notif => users[id].pw \in typed[link[fd].client]
      BY <2>2, <2>3, <3>1 DEF CheckClient
    <3> QED
      BY <2>1, <3>3, <3>4, <3>5, PresenceHold
  <2>4. CASE ~CheckClient(r.login, r.pw)
    BY <1>1, <1>3, <2>1, <2>4 DEF Authorization
  <2> QED
    BY <2>3, <2>4
<1>4. CASE Reconnection(fd)
  <2> DEFINE r == Head(inq[fd])
  <2>1. /\ r \in KnownRequest(link[fd].client) /\ r.type = "RECONNECTION"
        /\ link[fd] # NoLink
    BY <1>4, HeadKnown DEF Reconnection, HasRequest
  <2>2. r.pw \in typed[link[fd].client]
    BY <2>1 DEF KnownRequest
  <2>3. UNCHANGED <<link, typed>>
    BY <1>4 DEF Reconnection, clientVars
  <2>4. CASE users' = users
    BY <1>1, <2>3, <2>4
  <2>5. ASSUME NEW id \in Rows(r.login), users[id].pw = r.pw, SetSocket({id}, fd)
        PROVE  P!PresenceNext
    BY <2>1, <2>2, <2>3, <2>5, PresenceHold DEF Rows
  <2> QED
    BY <1>4, <2>4, <2>5 DEF Reconnection
<1>5. CASE Registration(fd)
  <2>1. UNCHANGED <<link, typed>>
    BY <1>5 DEF Registration, clientVars
  <2>2. CASE UNCHANGED <<users, lastId>>
    BY <1>1, <2>1, <2>2
  <2>3. CASE ~UNCHANGED <<users, lastId>>
    <3>1. PICK id \in Ids : id = lastId + 1
      BY <1>5, <2>3, RegistrationEffect
    <3>2. /\ users[id] = NoRow /\ users'[id] \in Row /\ users'[id].socket = NoFd
          /\ \A i \in Ids \ {id} : users'[i] = users[i]
      BY <1>5, <2>3, <3>1, RegistrationEffect
    <3>3. NoRow \notin Row
      BY ConstantsAssumption
    <3> DEFINE v == RowAccount(id)'
    <3>4. v \in Passwords \cup {"any password"}
      BY <3>2, <3>3 DEF RowAccount, Row
    <3>5. \A i \in Ids \ {id} : /\ RowAccount(i)' = RowAccount(i)
                                /\ RowHolder(i)' = RowHolder(i)
      BY <2>1, <3>2 DEF RowAccount, RowHolder
    <3>6. RowHolder(id) = "nobody" /\ RowHolder(id)' = "nobody"
      BY <3>2 DEF RowHolder
    <3>7. Holders' = Holders
      BY <3>5, <3>6 DEF Holders
    <3>8. Accounts[id] = "no account"
      BY <3>2 DEF Accounts, RowAccount
    <3>9. Accounts' = [Accounts EXCEPT ![id] = v]
      BY <3>5 DEF Accounts
    <3>10. P!OpenAccount(id, v)
      BY <2>1, <3>7, <3>8, <3>9 DEF P!OpenAccount, Accounts, Holders
    <3> QED
      BY <3>4, <3>10 DEF P!PresenceNext
  <2> QED
    BY <2>2, <2>3
<1>6. ASSUME NEW types, types \subseteq {"LOGOUT", "DELETE_ACCOUNT"},
             HasRequest(fd, types), Head(inq[fd]).id \in Ids,
             users[Head(inq[fd]).id] # NoRow
      PROVE  \E c \in Clients, id \in Ids :
                id = Head(inq[fd]).id /\ P!Knows(c, id)
  <2> DEFINE r == Head(inq[fd])
  <2>1. PICK c \in Clients : c = link[fd].client
    BY <1>6 DEF HasRequest, TypeOK, Link
  <2>2. r \in KnownRequest(c) /\ r.type \in {"LOGOUT", "DELETE_ACCOUNT"}
    BY <1>6, <2>1, HeadKnown DEF HasRequest
  <2>3. r.id # 0
    BY <1>6 DEF Ids
  <2>4. KnowsRow(c, r.id)
    BY <2>2, <2>3 DEF KnownRequest
  <2>5. PICK id \in Ids : id = r.id
    BY <1>6
  <2>6. users[id].notif => users[id].pw \in typed[c]
    BY <1>6, <2>4, <2>5 DEF KnowsRow
  <2>7. P!Knows(c, id)
    BY <1>6, <2>5, <2>6, KnowsAccount
  <2> QED
    BY <2>5, <2>7
<1>7. CASE Logout(fd)
  <2> DEFINE ids == {id \in Ids : id = Head(inq[fd]).id /\ users[id] # NoRow}
  <2>1. SetSocket(ids, NoFd) /\ UNCHANGED <<link, typed>>
    BY <1>7 DEF Logout, clientVars
  <2>2. /\ Accounts' = Accounts
        /\ Holders' = [i \in Ids |-> IF i \in ids THEN "nobody" ELSE Holders[i]]
    BY <2>1, HoldersMove
  <2>3. CASE ids = {}
    <3>1. Holders' = Holders
      BY <2>2, <2>3 DEF Holders
    <3> QED
      BY <2>1, <2>2, <3>1, PresenceStutter
  <2>4. CASE ids # {}
    <3>1. PICK c \in Clients, id \in Ids :
                id = Head(inq[fd]).id /\ P!Knows(c, id)
      BY <1>6, <1>7, <2>4 DEF Logout
    <3>2. Holders' = [Holders EXCEPT ![id] = "nobody"]
      BY <2>2, <2>4, <3>1 DEF Holders
    <3>3. P!SignOut(c, id)
      BY <2>1, <2>2, <3>1, <3>2 DEF P!SignOut, Accounts, Holders
    <3> QED
      BY <3>3 DEF P!PresenceNext
  <2> QED
    BY <2>3, <2>4
<1>8. CASE DeleteAccount(fd)
  <2> DEFINE n == Head(inq[fd]).id
  <2>1. /\ users' = [id \in Ids |-> IF id = n THEN NoRow ELSE users[id]]
        /\ UNCHANGED <<link, typed>>
    BY <1>8 DEF DeleteAccount, clientVars
  <2>2. CASE n \notin Ids \/ users[n] = NoRow
    <3>1. users' = users
      BY <2>1, <2>2 DEF TypeOK
    <3> QED
      BY <1>1, <2>1, <3>1
  <2>3. CASE n \in Ids /\ users[n] # NoRow
    <3>1. PICK c \in Clients, id \in Ids : id = n /\ P!Knows(c, id)
      BY <1>6, <1>8, <2>3 DEF DeleteAccount
    <3>2. \A i \in Ids \ {id} : /\ RowAccount(i)' = RowAccount(i)
                                /\ RowHolder(i)' = RowHolder(i)
      BY <2>1, <3>1 DEF RowAccount, RowHolder
    <3>3. RowAccount(id)' = "no account" /\ RowHolder(id)' = "nobody"
      BY <2>1, <3>1 DEF RowAccount, RowHolder
    <3>4. /\ Accounts' = [Accounts EXCEPT ![id] = "no account"]
          /\ Holders' = [Holders EXCEPT ![id] = "nobody"]
      BY <3>2, <3>3 DEF Accounts, Holders
    <3>5. RowAccount(id) # "no account"
      <4>1. users[id].pw \in Passwords
        BY <2>3, <3>1 DEF TypeOK, Row
      <4> QED
        BY <2>3, <3>1, <4>1, ConstantsAssumption DEF RowAccount
    <3>6. Accounts[id] # "no account"
      BY <3>5 DEF Accounts
    <3>7. P!CloseAccount(c, id)
      BY <2>1, <3>1, <3>4, <3>6 DEF P!CloseAccount, Accounts, Holders
    <3> QED
      BY <3>7 DEF P!PresenceNext
  <2> QED
    BY <2>2, <2>3
<1> QED
  BY <1>2, <1>3, <1>4, <1>5, <1>7, <1>8 DEF WorkWithClient

LEMMA PresenceClientStep ==
    ASSUME SessionInv, SessionInv', NEW c \in Clients, ClientStep(c)
    PROVE  [P!PresenceNext]_(P!presenceVars)
<1> USE DEF SessionInv
<1>1. UNCHANGED <<running, users>>
  BY ClientStepRows
<1>2. Accounts' = Accounts /\ Holders' = Holders
  <2>1. CASE link' = link
    BY <1>1, <2>1, HoldersStay
  <2>2. ASSUME NEW fd \in Fds,
               FirstConnect(c, fd) \/ Reconnect(c, fd) \/ ReconnectWithoutLogin(c, fd)
        PROVE  Accounts' = Accounts /\ Holders' = Holders
    <3>1. /\ running /\ link[fd] = NoLink
          /\ \A f \in Fds : f # fd => link'[f] = link[f]
      BY <2>2 DEF FirstConnect, Reconnect, ReconnectWithoutLogin, TypeOK
    <3> QED
      BY <1>1, <3>1, HoldersStay
  <2>3. CASE Quit(c)
    <3>1. CASE Connected(c)
      BY <1>1, <2>3, <3>1, BreakType, HoldersStay DEF Quit, Connected
    <3>2. CASE ~Connected(c)
      BY <2>1, <2>3, <3>2 DEF Quit
    <3> QED
      BY <3>1, <3>2
  <2> QED
    BY <2>1, <2>2, <2>3 DEF ClientStep, NoticeLoss, Launch, Enter, Register,
       ReceiveAnswer, PressLogout, PressDelete, LogoutCallback, serverVars
<1>3. CASE typed' = typed
  BY <1>2, <1>3, PresenceStutter
<1>4. ASSUME NEW typing \in SUBSET Passwords,
             typed' = [typed EXCEPT ![c] = @ \cup typing]
      PROVE  P!PresenceNext
  <2>1. P!TypePassword(c, typing)
    BY <1>2, <1>4 DEF P!TypePassword, Accounts, Holders
  <2> QED
    BY <2>1 DEF P!PresenceNext
<1>5. ASSUME NEW l \in Logins, NEW p \in Passwords, Enter(c, l, p)
      PROVE  P!PresenceNext
  <2>1. {p} \in SUBSET Passwords /\ typed' = [typed EXCEPT ![c] = @ \cup {p}]
    BY <1>5 DEF Enter
  <2> QED
    BY <1>4, <2>1
<1>6. ASSUME NEW l \in Logins, NEW p \in Passwords, NEW r \in Passwords,
             Register(c, l, p, r)
      PROVE  P!PresenceNext
  <2>1. {p, r} \in SUBSET Passwords /\ typed' = [typed EXCEPT ![c] = @ \cup {p, r}]
    BY <1>6 DEF Register
  <2> QED
    BY <1>4, <2>1
<1> QED
  BY <1>3, <1>5, <1>6 DEF ClientStep, FirstConnect, Reconnect,
     ReconnectWithoutLogin, NoticeLoss, Quit, Launch, ReceiveAnswer,
     PressLogout, PressDelete, LogoutCallback

LEMMA PresenceStep ==
    SessionInv /\ SessionInv' /\ [Next]_vars => [P!PresenceNext]_(P!presenceVars)
<1> SUFFICES ASSUME SessionInv, SessionInv', [Next]_vars
             PROVE  [P!PresenceNext]_(P!presenceVars)
  OBVIOUS
<1> USE DEF SessionInv
<1>1. CASE StartServer
  <2>1. SameRows /\ typed' = typed /\ link' = link
    BY <1>1, SetSocketEffect DEF StartServer, clientVars
  <2>2. ASSUME NEW id \in Ids
        PROVE  RowHolder(id) = "nobody" /\ RowHolder(id)' = "nobody"
    <3>1. \A fd \in Fds : link[fd] = NoLink
      BY <1>1 DEF StartServer, LinksNeedServer
    <3>2. RowHolder(id) = "nobody"
      BY <3>1, RowSocket DEF RowHolder
    <3>3. users[id] # NoRow => users'[id].socket = NoFd
      BY <1>1, SetSocketEffect DEF StartServer
    <3>4. users[id] = NoRow => users'[id] = NoRow
      BY <2>1 DEF SameRows, SameRow
    <3>5. RowHolder(id)' = "nobody"
      BY <3>3, <3>4 DEF RowHolder
    <3> QED
      BY <3>2, <3>5
  <2>3. Accounts' = Accounts /\ Holders' = Holders
    BY <2>1, <2>2, AccountsStay DEF Holders
  <2> QED
    BY <2>1, <2>3, PresenceStutter
<1>2. CASE StopServer
  <2>1. users' = users /\ typed' = typed /\ \A fd \in Fds : link'[fd] = NoLink
    BY <1>2 DEF StopServer, ProcessEnds, clientVars
  <2>2. Accounts' = Accounts
    BY <2>1, UnchangedRows, AccountsStay
  <2>3. \A id \in Ids : RowHolder(id)' = "nobody"
    BY <2>1, RowSocket DEF RowHolder
  <2>4. Holders' = [id \in Ids |-> IF id \in Ids THEN "nobody" ELSE Holders[id]]
    BY <2>3 DEF Holders
  <2>5. P!Restart
    BY <2>1, <2>2, <2>4 DEF P!Restart, P!Release, Accounts, Holders
  <2> QED
    BY <2>5 DEF P!PresenceNext
<1>3. ASSUME NEW fd \in Fds, ConnectionFails(fd)
      PROVE  [P!PresenceNext]_(P!presenceVars)
  <2>1. users' = users /\ typed' = typed
    BY <1>3 DEF ConnectionFails, clientVars
  <2>2. Accounts' = Accounts /\ Holders' = Holders
    BY <1>3, <2>1, BreakType, HoldersStay DEF ConnectionFails
  <2> QED
    BY <2>1, <2>2, PresenceStutter
<1>4. CASE UNCHANGED vars
  <2>1. users' = users /\ link' = link /\ typed' = typed
    BY <1>4 DEF vars, serverVars, clientVars
  <2> QED
    BY <2>1, HoldersStay, PresenceStutter
<1>5. ASSUME NEW fd \in Fds, AuthorizationDies(fd)
      PROVE  [P!PresenceNext]_(P!presenceVars)
  <2>1. SameRows /\ typed' = typed /\ \A f \in Fds : link'[f] = NoLink
    BY <1>5, DyingEffect
  <2>2. Accounts' = Accounts
    BY <2>1, AccountsStay
  <2>3. ASSUME NEW id \in Ids
        PROVE  RowHolder(id)' = "nobody"
    <3>1. users'[id] = NoRow \/ users'[id].socket \in Fds \cup {NoFd}
      BY DEF TypeOK, Row
    <3> QED
      BY <2>1, <3>1 DEF RowHolder
  <2>4. Holders' = [id \in Ids |-> IF id \in Ids THEN "nobody" ELSE Holders[id]]
    BY <2>3 DEF Holders
  <2>5. P!Restart
    BY <2>1, <2>2, <2>4 DEF P!Restart, P!Release, Accounts, Holders
  <2> QED
    BY <2>5 DEF P!PresenceNext
<1> QED
  BY <1>1, <1>2, <1>3, <1>4, <1>5, PresenceServerStep, PresenceClientStep
     DEF Next

LEMMA PresenceInitial == Init => P!PresenceInit
<1> SUFFICES ASSUME Init
             PROVE  P!PresenceInit
  OBVIOUS
<1>1. InitialUsers \in [Ids -> Row \cup {NoRow}]
  BY ConstantsAssumption
<1>2. \A id \in Ids : InitialUsers[id] # NoRow =>
            InitialUsers[id].socket = NoFd /\ InitialUsers[id].notif
  BY ConstantsAssumption
<1>3. \A id \in Ids : RowHolder(id) = "nobody"
  BY <1>2 DEF Init, RowHolder
<1>4. \A id \in Ids : RowAccount(id) \in Passwords \cup {"no account"}
  BY <1>1, <1>2 DEF Init, RowAccount, Row
<1> QED
  BY <1>3, <1>4 DEF Init, P!PresenceInit

\* Sessions implements Presence: an account passes to a client only by a
\* sign-in or reconnection with its password, is signed out or deleted only from
\* a client that knows its password, and is otherwise released only when the
\* connection of its holder ends or the server restarts.
THEOREM SessionsImplementPresence == Spec => ImplementsPresence
<1>1. Init => P!PresenceInit
  BY PresenceInitial
<1>2. SessionInv /\ SessionInv' /\ [Next]_vars => [P!PresenceNext]_(P!presenceVars)
  BY PresenceStep
<1> QED
  BY <1>1, <1>2, SessionInvariant, PTL DEF Spec, ImplementsPresence, P!PresenceSpec

\* An account in use passes from one connection to another only by a
\* RECONNECTION request, never by a second AUTH.
THEOREM AccountsMoveByReconnection == Spec => MovedOnlyByReconnection
<1> DEFINE Moved(id) == /\ users[id] # NoRow /\ users'[id] # NoRow
                        /\ users[id].socket # NoFd
                        /\ users'[id].socket \notin {NoFd, users[id].socket}
           Taken(fd) == /\ HasRequest(fd, {"RECONNECTION"})
                        /\ inq'[fd] = Tail(inq[fd])
<1>1. ASSUME SessionInv, [Next]_vars, NEW id \in Ids, Moved(id)
      PROVE  Taken(users'[id].socket)
  <2> USE DEF SessionInv
  <2>1. ASSUME NEW ids, NEW s \in Fds \cup {NoFd},
               \A i \in ids \cap Ids : users[i] # NoRow, SetSocket(ids, s)
        PROVE  id \in ids /\ users'[id].socket = s /\ s # NoFd
    BY <1>1, <2>1, SetSocketEffect
  <2>2. users'[id] # users[id]
    BY <1>1
  <2>3. ~StartServer
    BY <2>1 DEF StartServer
  <2>4. ASSUME NEW fd \in Fds, WorkWithClient(fd)
        PROVE  Taken(users'[id].socket)
    <3>1. ~EndOfFile(fd) /\ ~Logout(fd)
      BY <2>1 DEF EndOfFile, Logout
    <3>2. ~DeleteAccount(fd)
      BY <1>1, <2>2 DEF DeleteAccount
    <3>3. ~Registration(fd)
      BY <1>1, <2>2, RegistrationEffect
    <3>4. ASSUME Authorization(fd)
          PROVE  FALSE
      <4> DEFINE r == Head(inq[fd])
      <4>1. CheckClient(r.login, r.pw)
        BY <2>2, <3>4 DEF Authorization
      <4>2. id \in Rows(r.login)
        BY <2>1, <3>4, <4>1 DEF Authorization, Rows
      <4> QED
        BY <1>1, <4>1, <4>2 DEF CheckClient
    <3>5. ASSUME Reconnection(fd)
          PROVE  Taken(users'[id].socket)
      <4>1. users'[id].socket = fd
        BY <2>1, <2>2, <3>5 DEF Reconnection, Rows
      <4>2. Taken(fd)
        <5>1. fd \in Fds /\ inq \in [Fds -> Seq(Request)]
          BY <1>1 DEF TypeOK
        <5>2. inq' = [inq EXCEPT ![fd] = Tail(@)]
          BY <3>5 DEF Reconnection, TakeRequest
        <5>3. HasRequest(fd, {"RECONNECTION"})
          BY <3>5 DEF Reconnection
        <5> QED
          BY <5>1, <5>2, <5>3
      <4> QED
        BY <4>1, <4>2
    <3> QED
      BY <2>4, <3>1, <3>2, <3>3, <3>4, <3>5 DEF WorkWithClient
  <2>5. ASSUME NEW c \in Clients, ClientStep(c)
        PROVE  FALSE
    BY <2>2, <2>5, ClientStepRows
  <2>6. ASSUME NEW fd \in Fds, AuthorizationDies(fd)
        PROVE  FALSE
    <3> DEFINE l == Head(inq[fd]).login
    <3>1. SetSocket(Rows(l), fd) /\ \A i \in Rows(l) : users[i].socket = NoFd
      BY <2>6 DEF AuthorizationDies, CheckClient
    <3>2. id \in Rows(l)
      BY <2>1, <3>1 DEF Rows
    <3> QED
      BY <1>1, <3>1, <3>2
  <2> QED
    BY <1>1, <2>2, <2>3, <2>4, <2>5, <2>6 DEF Next, StopServer, ProcessEnds,
       ConnectionFails, vars, serverVars
<1>2. SessionInv /\ [Next]_vars => (\A id \in Ids : Moved(id) => Taken(users'[id].socket))
  BY <1>1
<1>3. SessionInv /\ [Next]_vars =>
        [\A id \in Ids : Moved(id) => Taken(users'[id].socket)]_vars
  BY <1>2
<1> QED
  BY <1>3, SessionInvariant, PTL DEF Spec, MovedOnlyByReconnection

-----------------------------------------------------------------------------
\* ReachableInv.  Lemmas for a client c that a step leaves as it is.

ClientKept(c) ==
    /\ phase'[c] = phase[c] /\ conn'[c] = conn[c] /\ inbox'[c] = inbox[c]
    /\ login'[c] = login[c] /\ hash'[c] = hash[c] /\ uid'[c] = uid[c]

\* The connection of c, if it has one still, keeps what is unread on it.
UnreadKept(c) == Connected(c)' => Connected(c) /\ inq'[conn[c]] = inq[conn[c]]

LEMMA DialogueStays ==
    ASSUME NEW c \in Clients, AnswerAwaited(c), AskedInTurn(c),
           ClientKept(c), UnreadKept(c)
    PROVE  AnswerAwaited(c)' /\ AskedInTurn(c)'
<1>1. AnswerAwaited(c)'
  BY DEF AnswerAwaited, ClientKept
<1>2. Reconnecting(c)' = Reconnecting(c)
  BY DEF Reconnecting, ClientKept
<1>3. ASSUME Connected(c)'
      PROVE  /\ Connected(c)
             /\ inq'[conn'[c]] = inq[conn[c]]
  BY <1>3 DEF UnreadKept, ClientKept
<1>4. AskedInTurn(c)'
  BY <1>2, <1>3 DEF AskedInTurn, ClientKept
<1> QED
  BY <1>1, <1>4

LEMMA SignedInStays ==
    ASSUME NEW c \in Clients, ClientKept(c)
    PROVE  SignedIn(c)' = SignedIn(c)
BY DEF SignedIn, ClientKept

\* The rows a client has signed in to were given out.
LEMMA SignedInIsGiven ==
    ASSUME SessionInv, NEW c \in Clients, NEW id \in SignedIn(c), id # 0
    PROVE  id \in Ids /\ id <= lastId
<1> USE DEF SessionInv
<1>1. CASE phase[c] = "online" /\ id = uid[c]
  <2>1. id \in Ids
    BY <1>1 DEF TypeOK
  <2> QED
    BY <1>1, <2>1 DEF ClientKnows, KnowsRow
<1>2. CASE inbox[c] # <<>> /\ id = Head(inbox[c]).id
  <2>1. inbox[c] \in Seq(KnownReply(c))
    BY DEF InFlightKnown
  <2>2. Head(inbox[c]) \in KnownReply(c)
    BY <1>2, <2>1, QueueParts
  <2>3. id \in Ids \cup {0} /\ KnowsRow(c, id)
    BY <1>2, <2>2 DEF KnownReply, Reply
  <2>4. id \in Ids
    BY <2>3
  <2> QED
    BY <2>3, <2>4 DEF KnowsRow
<1> QED
  BY <1>1, <1>2 DEF SignedIn

\* A row keeps all but its socket.
LEMMA OwnRowStays ==
    ASSUME SessionInv, [Next]_vars, NEW c \in Clients, NEW id \in SignedIn(c),
           OwnRow(c, id), login'[c] = login[c], hash'[c] = hash[c]
    PROVE  OwnRow(c, id)'
<1>1. CASE id = 0
  BY <1>1 DEF OwnRow
<1>2. CASE id # 0
  <2>1. id \in Ids /\ id <= lastId
    BY <1>2, SignedInIsGiven
  <2>2. users'[id] # NoRow => users[id] # NoRow /\ SameRow(id)
    BY <2>1, EvolvesStep DEF Evolves
  <2> QED
    BY <2>2, Zenon DEF OwnRow, SameRow
<1> QED
  BY <1>1, <1>2

\* Whoever could know the password of a row could before.
LEMMA SoleUserWas ==
    ASSUME SessionInv, [Next]_vars, NEW c \in Clients, NEW id \in SignedIn(c),
           id # 0, users'[id] # NoRow, SoleUser(c, id)'
    PROVE  id \in Ids /\ users[id] # NoRow /\ SoleUser(c, id)
<1>1. id \in Ids /\ id <= lastId
  BY SignedInIsGiven
<1>2. users[id] # NoRow /\ SameRow(id)
  BY <1>1, EvolvesStep DEF Evolves
<1>3. users'[id].pw = users[id].pw
  BY <1>2 DEF SameRow
<1>4. \A d \in Clients : typed[d] \subseteq typed'[d]
  BY EvolvesStep DEF Evolves
<1>5. ASSUME NEW d \in Clients \ {c}
      PROVE  users[id].pw \notin typed[d]
  BY <1>3, <1>4 DEF SoleUser
<1> QED
  BY <1>1, <1>2, <1>5 DEF SoleUser

-----------------------------------------------------------------------------
\* The steps of the server.

\* A request that names a row whose password only c knows is from c, and from the
\* connection c has if none of c's was late.
LEMMA OwnRequest ==
    ASSUME SessionInv, NEW c \in Clients, NEW id \in Ids, users[id] # NoRow,
           users[id].notif, SoleUser(c, id),
           NEW fd \in Fds, NEW types, HasRequest(fd, types), NoteLate(fd),
           c \notin late',
           \/ types = {"RECONNECTION"} /\ Head(inq[fd]).pw = users[id].pw
           \/ types = {"LOGOUT"} /\ Head(inq[fd]).id = id
    PROVE  link[fd].client = c /\ conn[c] = fd
<1> DEFINE r == Head(inq[fd])
           d == link[fd].client
<1>1. r \in KnownRequest(d) /\ r.type \in types
  BY HeadKnown DEF HasRequest
<1>2. d \in Clients
  BY DEF HasRequest, SessionInv, TypeOK, Link
<1>3. users[id].pw \in typed[d]
  <2>1. CASE types = {"RECONNECTION"} /\ r.pw = users[id].pw
    BY <1>1, <2>1 DEF KnownRequest
  <2>2. CASE types = {"LOGOUT"} /\ r.id = id
    <3>1. id # 0
      BY DEF Ids
    <3>2. KnowsRow(d, id)
      BY <1>1, <2>2, <3>1 DEF KnownRequest
    <3> QED
      BY <3>2 DEF KnowsRow
  <2> QED
    BY <2>1, <2>2
<1>4. d = c
  BY <1>2, <1>3 DEF SoleUser
<1> QED
  BY <1>4 DEF NoteLate

\* With the socket of a row c has signed in to, a handler of the server that leaves
\* c connected does nothing.
LEMMA SocketStays ==
    ASSUME SessionInv, NEW c \in Clients, NEW id \in SignedIn(c), id \in Ids,
           users[id] # NoRow, users[id].notif, SoleUser(c, id),
           AskedInTurn(c), AnswerAwaited(c),
           users[id].socket = conn[c], Connected(c), Connected(c)', c \notin late',
           users'[id] # NoRow, conn' = conn,
           NEW fd \in Fds, WorkWithClient(fd)
    PROVE  users'[id].socket = conn[c]
<1> USE DEF SessionInv
<1>1. conn[c] \in Fds /\ conn[c] # NoFd
  BY ConstantsAssumption DEF Connected
<1>2. ASSUME NEW ids, NEW s \in Fds \cup {NoFd}, \A i \in ids \cap Ids : users[i] # NoRow,
             SetSocket(ids, s), id \in ids => s = conn[c]
      PROVE  users'[id].socket = conn[c]
  BY <1>2, SetSocketEffect
<1>3. CASE EndOfFile(fd)
  <2>1. fd # conn[c]
    <3>1. link'[fd] = NoLink
      BY <1>3 DEF EndOfFile, TypeOK
    <3> QED
      BY <3>1 DEF Connected
  <2>2. id \notin {i \in Ids : users[i] # NoRow /\ users[i].socket = fd}
    BY <2>1
  <2> QED
    BY <1>2, <1>3, <2>2 DEF EndOfFile
<1>4. CASE Authorization(fd)
  <2> DEFINE r == Head(inq[fd])
  <2>1. CASE CheckClient(r.login, r.pw)
    <3>1. id \notin Rows(r.login)
      BY <1>1, <2>1 DEF CheckClient
    <3>2. \A i \in Rows(r.login) \cap Ids : users[i] # NoRow
      BY DEF Rows
    <3>3. SetSocket(Rows(r.login), fd)
      BY <1>4, <2>1 DEF Authorization
    <3> QED
      BY <1>2, <3>1, <3>2, <3>3
  <2>2. CASE ~CheckClient(r.login, r.pw)
    BY <1>4, <2>2 DEF Authorization
  <2> QED
    BY <2>1, <2>2
<1>5. CASE Reconnection(fd)
  <2> DEFINE r == Head(inq[fd])
  <2>1. ASSUME NEW i \in Rows(r.login), users[i].pw = r.pw, SetSocket({i}, fd)
        PROVE  users'[id].socket = conn[c]
    <3>1. HasRequest(fd, {"RECONNECTION"}) /\ NoteLate(fd)
      BY <1>5 DEF Reconnection, TakeRequest
    <3>2. i = id => fd = conn[c]
      BY <2>1, <3>1, OwnRequest
    <3>3. \A j \in {i} \cap Ids : users[j] # NoRow
      BY DEF Rows
    <3> QED
      BY <1>2, <2>1, <3>2, <3>3
  <2> QED
    BY <1>5, <2>1 DEF Reconnection
<1>6. CASE Registration(fd)
  <2>1. users' = users \/ \E n : users[n] = NoRow /\ \A i \in Ids \ {n} : users'[i] = users[i]
    BY <1>6, RegistrationEffect
  <2> QED
    BY <2>1
<1>7. CASE Logout(fd)
  <2>1. HasRequest(fd, {"LOGOUT"}) /\ NoteLate(fd)
    BY <1>7 DEF Logout, TakeRequest
  <2>2. Head(inq[fd]).id # id
    <3>1. SUFFICES ASSUME Head(inq[fd]).id = id
                   PROVE  FALSE
      OBVIOUS
    <3>2. fd = conn[c]
      BY <2>1, <3>1, OwnRequest
    <3>3. inq[fd] # <<>> /\ Head(inq[fd]).type = "LOGOUT"
      BY <2>1 DEF HasRequest
    <3>4. inbox[c] = <<>>
      BY <3>2, <3>3 DEF AskedInTurn
    <3>5. phase[c] = "online"
      BY <3>4 DEF SignedIn
    <3>6. inq[fd] = <<Reconnecting(c)>>
      BY <3>2, <3>3, <3>5 DEF AskedInTurn
    <3>7. Head(inq[fd]).type = "RECONNECTION"
      BY <3>6 DEF Reconnecting
    <3> QED
      BY <3>3, <3>7
  <2>3. id \notin {i \in Ids : i = Head(inq[fd]).id /\ users[i] # NoRow}
    BY <2>2
  <2> QED
    BY <1>2, <1>7, <2>3 DEF Logout
<1>8. CASE DeleteAccount(fd)
  BY <1>8 DEF DeleteAccount
<1> QED
  BY <1>3, <1>4, <1>5, <1>6, <1>7, <1>8 DEF WorkWithClient

\* The reconnection of a client that shows the chat gives it its row back.
LEMMA ReconnectionServes ==
    ASSUME SessionInv, NEW c \in Clients, NEW id \in Ids, users[id] # NoRow,
           OwnRow(c, id), conn[c] \in Fds,
           Head(inq[conn[c]]) = Reconnecting(c), Reconnection(conn[c])
    PROVE  users'[id].socket = conn[c]
<1> USE DEF SessionInv
<1> DEFINE matching == {i \in Rows(login[c]) : users[i].pw = hash[c]}
<1>1. id # 0
  BY DEF Ids
<1>2. id \in matching
  BY <1>1 DEF OwnRow, Rows
<1>3. \A i \in matching : i = id
  BY <1>2 DEF OneRowPerLogin, Rows
<1>4. Head(inq[conn[c]]).login = login[c] /\ Head(inq[conn[c]]).pw = hash[c]
  BY DEF Reconnecting
<1>5. matching = {} \/ \E i \in matching : SetSocket({i}, conn[c])
  BY <1>4 DEF Reconnection
<1>6. SetSocket({id}, conn[c])
  BY <1>2, <1>3, <1>5
<1> QED
  BY <1>6, SetSocketEffect

\* Handling a request of c's connection that is no AUTH.
LEMMA HandledInTurn ==
    ASSUME SessionInv, NEW c \in Clients, AnswerAwaited(c), AskedInTurn(c),
           ClientKept(c), Connected(c), Connected(c)' ,
           inq[conn[c]] # <<>>, inq'[conn[c]] = Tail(inq[conn[c]])
    PROVE  AnswerAwaited(c)' /\ AskedInTurn(c)'
<1> DEFINE q == inq[conn[c]]
<1>1. q \in Seq(Request) /\ q # <<>> /\ Len(q) \in Nat
  BY DEF SessionInv, TypeOK, Connected
<1>2. /\ Len(Tail(q)) = Len(q) - 1
      /\ \A i \in DOMAIN Tail(q) : i + 1 \in DOMAIN q /\ Tail(q)[i] = q[i + 1]
      /\ DOMAIN Tail(q) \subseteq Nat
  BY <1>1
<1>3. AnswerAwaited(c)'
  BY DEF AnswerAwaited, ClientKept
<1>4. inbox'[c] = <<>>
  BY DEF AskedInTurn, ClientKept
<1>5. inq'[conn'[c]] = Tail(q)
  BY DEF ClientKept
<1>6. ASSUME NEW i \in DOMAIN Tail(q), Tail(q)[i].type = "AUTH"
      PROVE  /\ phase'[c] = "waiting" /\ i = Len(Tail(q))
             /\ Tail(q)[i].login = login'[c] /\ Tail(q)[i].pw = hash'[c]
  <2>1. /\ phase[c] = "waiting" /\ i + 1 = Len(q)
        /\ q[i + 1].login = login[c] /\ q[i + 1].pw = hash[c]
    BY <1>2, <1>6 DEF AskedInTurn
  <2>2. i = Len(Tail(q))
    BY <1>1, <1>2, <1>6, <2>1
  <2> QED
    BY <1>2, <1>6, <2>1, <2>2 DEF ClientKept
<1>7. phase'[c] = "online" => Tail(q) = <<>>
  <2>1. phase[c] = "online" => q = <<Reconnecting(c)>>
    BY <1>1 DEF AskedInTurn
  <2>2. q = <<Reconnecting(c)>> => Tail(q) = <<>>
    OBVIOUS
  <2> QED
    BY <2>1, <2>2 DEF ClientKept
<1>8. AskedInTurn(c)'
  BY <1>4, <1>5, <1>6, <1>7 DEF AskedInTurn
<1> QED
  BY <1>3, <1>8

\* The rows of c after a step of the server that leaves c as it is: they keep its socket,
\* or its reconnection.
LEMMA ReachableStays ==
    ASSUME SessionInv, [Next]_vars, NEW c \in Clients, NEW id \in SignedIn(c),
           AnswerAwaited(c), AskedInTurn(c), OwnRow(c, id),
           c \notin late => Reachable(c, id), c \notin late',
           ClientKept(c), conn' = conn, Connected(c)' => Connected(c),
           NEW fd \in Fds, WorkWithClient(fd)
    PROVE  Reachable(c, id)'
<1> USE DEF SessionInv
<1>1. SUFFICES ASSUME id # 0, users'[id] # NoRow, Connected(c)', SoleUser(c, id)',
                      users'[id].socket # conn[c]
               PROVE  phase'[c] = "online" /\ inq'[conn[c]] = <<Reconnecting(c)'>>
  BY DEF Reachable
<1>2. Connected(c) /\ conn[c] \in Fds /\ Reconnecting(c)' = Reconnecting(c)
  BY <1>1 DEF Connected, Reconnecting, ClientKept
<1>3. id \in Ids /\ users[id] # NoRow /\ SoleUser(c, id) /\ users[id].notif
  <2>1. id \in Ids /\ users[id] # NoRow /\ SoleUser(c, id)
    BY <1>1, SoleUserWas
  <2> QED
    BY <1>1, <2>1 DEF OwnRow
<1>4. c \notin late
  BY DEF WorkWithClient, EndOfFile, Authorization, Reconnection, Registration, Logout,
     DeleteAccount, TakeRequest, NoteLate
<1>5. users[id].socket # conn[c]
  BY <1>1, <1>2, <1>3, SocketStays
<1>6. phase[c] = "online" /\ inq[conn[c]] = <<Reconnecting(c)>>
  BY <1>1, <1>2, <1>3, <1>4, <1>5 DEF Reachable
<1>7. Head(inq[conn[c]]) = Reconnecting(c) /\ inq[conn[c]] # <<>>
  BY <1>6
<1>8. ~Reconnection(conn[c])
  BY <1>1, <1>2, <1>3, <1>7, ReconnectionServes
<1>9. inq'[conn[c]] = inq[conn[c]]
  <2>1. CASE fd = conn[c]
    <3>1. ~EndOfFile(fd)
      BY <1>2, <2>1 DEF EndOfFile, Connected
    <3>2. HasRequest(fd, {"AUTH"}) \/ HasRequest(fd, {"REG"}) \/ HasRequest(fd, {"LOGOUT"})
          \/ HasRequest(fd, {"DELETE_ACCOUNT"})
      BY <1>8, <2>1, <3>1 DEF WorkWithClient, Authorization, Registration, Logout,
         DeleteAccount
    <3> QED
      BY <1>7, <2>1, <3>2 DEF HasRequest, Reconnecting
  <2>2. CASE fd # conn[c]
    <3>1. CASE EndOfFile(fd)
      BY <1>2, <2>2, <3>1 DEF EndOfFile, TypeOK
    <3>2. CASE ~EndOfFile(fd)
      <4>1. inq' = [inq EXCEPT ![fd] = Tail(@)]
        BY <3>2 DEF WorkWithClient, Authorization, Reconnection, Registration, Logout,
           DeleteAccount, TakeRequest
      <4> QED
        BY <1>2, <2>2, <4>1 DEF TypeOK
    <3> QED
      BY <3>1, <3>2
  <2> QED
    BY <2>1, <2>2
<1> QED
  BY <1>2, <1>6, <1>9 DEF ClientKept

\* What a step of the server leaves of c and its requests, but for the handling of an
\* AUTH, which answers.
LEMMA ServerStepKeeps ==
    ASSUME SessionInv, NEW c \in Clients, NEW fd \in Fds, WorkWithClient(fd),
           ~(Authorization(fd) /\ Connected(c) /\ fd = conn[c])
    PROVE  /\ ClientKept(c) /\ conn' = conn
           /\ Connected(c)' => Connected(c)
           /\ \/ UnreadKept(c)
              \/ inq[conn[c]] # <<>> /\ inq'[conn[c]] = Tail(inq[conn[c]])
<1> USE DEF SessionInv
<1>1. UNCHANGED <<phase, conn, login, hash, uid>>
  BY DEF WorkWithClient, EndOfFile, Authorization, Reconnection, Registration, Logout,
     DeleteAccount, clientVars
<1>2. inbox'[c] = inbox[c]
  <2>1. CASE Authorization(fd)
    <3>1. ASSUME NEW r, Answer(fd, r)
          PROVE  inbox'[c] = inbox[c]
      <4>1. link[fd].client = c /\ conn[c] = fd => ~link[fd].up
        BY <2>1 DEF Authorization, HasRequest, Connected
      <4> QED
        BY <3>1, <4>1 DEF Answer, TypeOK
    <3> QED
      BY <2>1, <3>1 DEF Authorization
  <2>2. CASE ~Authorization(fd)
    BY <2>2 DEF WorkWithClient, EndOfFile, Reconnection, Registration, Logout,
       DeleteAccount, clientVars
  <2> QED
    BY <2>1, <2>2
<1>3. CASE EndOfFile(fd)
  <2>1. \A f \in Fds : f # fd => link'[f] = link[f] /\ inq'[f] = inq[f]
    BY <1>3 DEF EndOfFile, TypeOK
  <2>2. link'[fd] = NoLink
    BY <1>3 DEF EndOfFile, TypeOK
  <2>3. Connected(c)' => Connected(c) /\ conn[c] # fd
    BY <1>1, <2>1, <2>2 DEF Connected
  <2>4. UnreadKept(c)
    BY <2>1, <2>3 DEF UnreadKept, Connected
  <2> QED
    BY <1>1, <1>2, <2>3, <2>4 DEF ClientKept
<1>4. CASE ~EndOfFile(fd)
  <2>1. link' = link /\ inq[fd] # <<>> /\ inq' = [inq EXCEPT ![fd] = Tail(@)]
    BY <1>4 DEF WorkWithClient, Authorization, Reconnection, Registration, Logout,
       DeleteAccount, TakeRequest, HasRequest
  <2>2. Connected(c)' => Connected(c)
    BY <1>1, <2>1 DEF Connected
  <2>3. /\ \A f \in Fds : f # fd => inq'[f] = inq[f]
        /\ inq'[fd] = Tail(inq[fd])
    BY <2>1 DEF TypeOK
  <2>4. UnreadKept(c) \/ fd = conn[c]
    BY <2>2, <2>3 DEF UnreadKept, Connected
  <2> QED
    BY <1>1, <1>2, <2>1, <2>2, <2>3, <2>4 DEF ClientKept
<1> QED
  BY <1>3, <1>4

\* An AUTH is answered by at most one row, which then has the connection's socket.
LEMMA SignedInRow ==
    ASSUME SessionInv, NEW l, NEW p, NEW fd \in Fds,
           CheckClient(l, p), SignedInId(l) # 0, SetSocket(Rows(l), fd)
    PROVE  LET id == SignedInId(l)
           IN  /\ id \in Ids
               /\ users'[id].login = l /\ users'[id].pw = p /\ users'[id].notif
               /\ users'[id].socket = fd
<1> USE DEF SessionInv
<1> DEFINE id == SignedInId(l)
           compared == {i \in Rows(l) : users[i].notif}
<1>1. id \in compared
  <2>1. compared # {}
    BY DEF SignedInId
  <2>2. (CHOOSE i \in compared : TRUE) \in compared
    BY <2>1
  <2> QED
    BY <2>1, <2>2 DEF SignedInId
<1>2. /\ id \in Ids /\ id \in Rows(l) /\ users[id] # NoRow
      /\ users[id].login = l /\ users[id].notif /\ users[id].pw = p
  BY <1>1 DEF Rows, CheckClient
<1>3. \A i \in Rows(l) \cap Ids : users[i] # NoRow
  BY DEF Rows
<1>4. SameRow(id) /\ users'[id].socket = fd
  BY <1>2, <1>3, SetSocketEffect DEF SameRows
<1> QED
  BY <1>2, <1>4, Zenon DEF SameRow

LEMMA TailOfOne ==
    ASSUME NEW S, NEW s \in Seq(S), Len(s) = 1
    PROVE  Tail(s) = <<>>
<1>1. Tail(s) \in Seq(S) /\ Len(Tail(s)) = 0
  OBVIOUS
<1>2. \A t \in Seq(S) : Len(t) = 0 => t = <<>>
  OBVIOUS
<1> QED
  BY <1>1, <1>2

\* mx_authorization for c: what it answers is what it did.
LEMMA AuthorizationServes ==
    ASSUME SessionInv, NEW c \in Clients, AnswerAwaited(c), AskedInTurn(c), Connected(c),
           Authorization(conn[c])
    PROVE  /\ AnswerAwaited(c)' /\ AskedInTurn(c)'
           /\ \A id \in SignedIn(c)' : OwnRow(c, id)' /\ Reachable(c, id)'
<1> USE DEF SessionInv
<1> DEFINE fd == conn[c]
           r == Head(inq[fd])
<1>1. fd \in Fds /\ fd # NoFd /\ inq[fd] \in Seq(Request) /\ inq[fd] # <<>> /\ r.type = "AUTH"
  BY ConstantsAssumption DEF Connected, Authorization, HasRequest, TypeOK
<1>2. /\ UNCHANGED <<phase, conn, login, hash, uid, link>>
      /\ inq' = [inq EXCEPT ![fd] = Tail(@)]
  BY DEF Authorization, TakeRequest
<1>3. /\ phase[c] = "waiting" /\ Len(inq[fd]) = 1
      /\ r.login = login[c] /\ r.pw = hash[c]
  <2>1. 1 \in DOMAIN inq[fd] /\ inq[fd][1] = r
    BY <1>1
  <2> QED
    BY <1>1, <2>1 DEF AskedInTurn
<1>4. Tail(inq[fd]) = <<>>
  BY <1>1, <1>3, TailOfOne
<1>5. inq'[fd] = <<>>
  BY <1>1, <1>2, <1>4 DEF TypeOK
<1>6. inbox[c] = <<>>
  BY <1>1 DEF AskedInTurn
<1>7. ASSUME NEW reply, Answer(fd, reply)
      PROVE  inbox'[c] = <<reply>>
  <2>1. inbox' = [inbox EXCEPT ![c] = Append(@, reply)]
    BY <1>7 DEF Answer, Connected
  <2> QED
    BY <1>6, <2>1 DEF TypeOK
<1>8. CASE CheckClient(r.login, r.pw)
  <2>0. PICK id : id = SignedInId(r.login)
    OBVIOUS
  <2>1. id # 0 /\ SetSocket(Rows(r.login), fd)
    BY <1>8, <2>0 DEF Authorization
  <2>2. inbox'[c] = <<[type |-> "AUTH_V", id |-> id]>>
    BY <1>7, <1>8, <2>0 DEF Authorization
  <2>3. /\ users'[id].login = login[c] /\ users'[id].pw = hash[c] /\ users'[id].notif
        /\ users'[id].socket = fd
    BY <1>1, <1>3, <1>8, <2>1, <2>0, SignedInRow
  <2>4. Len(inbox'[c]) = 1 /\ Head(inbox'[c]) = [type |-> "AUTH_V", id |-> id]
    BY <2>2
  <2>5. AnswerAwaited(c)'
    BY <1>1, <1>2, <1>3, <2>4 DEF AnswerAwaited
  <2>6. AskedInTurn(c)'
    BY <1>2, <1>3, <1>5 DEF AskedInTurn
  <2>7. \A i \in SignedIn(c)' : i = id
    BY <1>2, <1>3, <2>4 DEF SignedIn
  <2>8. OwnRow(c, id)' /\ Reachable(c, id)'
    BY <1>2, <2>3 DEF OwnRow, Reachable
  <2> QED
    BY <2>5, <2>6, <2>7, <2>8
<1>9. CASE ~CheckClient(r.login, r.pw)
  <2>1. inbox'[c] = <<[type |-> "AUTH_NV", id |-> 0]>>
    BY <1>7, <1>9 DEF Authorization
  <2>2. Len(inbox'[c]) = 1 /\ Head(inbox'[c]).type = "AUTH_NV"
    BY <2>1
  <2>3. AnswerAwaited(c)'
    BY <1>1, <1>2, <1>3, <2>2 DEF AnswerAwaited
  <2>4. AskedInTurn(c)'
    BY <1>2, <1>3, <1>5 DEF AskedInTurn
  <2>5. SignedIn(c)' = {}
    BY <1>2, <1>3, <2>2 DEF SignedIn
  <2> QED
    BY <2>3, <2>4, <2>5
<1> QED
  BY <1>8, <1>9

\* An event of server_loop and a client.
LEMMA ClientInvServerStep ==
    ASSUME SessionInv, [Next]_vars, NEW c \in Clients, ClientInv(c),
           NEW fd \in Fds, WorkWithClient(fd)
    PROVE  ClientInv(c)'
<1>1. CASE Authorization(fd) /\ Connected(c) /\ fd = conn[c]
  <2>1. /\ AnswerAwaited(c)' /\ AskedInTurn(c)'
        /\ \A id \in SignedIn(c)' : OwnRow(c, id)' /\ Reachable(c, id)'
    BY <1>1, AuthorizationServes DEF ClientInv
  <2> QED
    BY <2>1 DEF ClientInv
<1>2. CASE ~(Authorization(fd) /\ Connected(c) /\ fd = conn[c])
  <2>1. /\ ClientKept(c) /\ conn' = conn
        /\ Connected(c)' => Connected(c)
        /\ UnreadKept(c) \/ (inq[conn[c]] # <<>> /\ inq'[conn[c]] = Tail(inq[conn[c]]))
    BY <1>2, ServerStepKeeps
  <2>2. AnswerAwaited(c)' /\ AskedInTurn(c)'
    <3>1. CASE UnreadKept(c)
      BY <2>1, <3>1, DialogueStays DEF ClientInv
    <3>2. CASE ~UnreadKept(c)
      BY <2>1, <3>2, HandledInTurn DEF ClientInv, UnreadKept
    <3> QED
      BY <3>1, <3>2
  <2>3. SignedIn(c)' = SignedIn(c)
    BY <2>1, SignedInStays
  <2>4. ASSUME NEW id \in SignedIn(c)
        PROVE  OwnRow(c, id)' /\ (c \notin late' => Reachable(c, id)')
    <3>1. OwnRow(c, id)'
      BY <2>1, OwnRowStays DEF ClientInv, ClientKept
    <3>2. c \notin late' => Reachable(c, id)'
      BY <2>1, ReachableStays DEF ClientInv
    <3> QED
      BY <3>1, <3>2
  <2> QED
    BY <2>2, <2>3, <2>4 DEF ClientInv
<1> QED
  BY <1>1, <1>2

-----------------------------------------------------------------------------
\* The other steps that leave c as it is.

LEMMA ClientInvStays ==
    ASSUME SessionInv, [Next]_vars, NEW c \in Clients, ClientInv(c),
           ClientKept(c), UnreadKept(c), late \subseteq late',
           ~Connected(c)' \/ users' = users
    PROVE  ClientInv(c)'
<1>1. AnswerAwaited(c)' /\ AskedInTurn(c)'
  BY DialogueStays DEF ClientInv
<1>2. SignedIn(c)' = SignedIn(c)
  BY SignedInStays
<1>3. ASSUME NEW id \in SignedIn(c), c \notin late'
      PROVE  Reachable(c, id)'
  <2>1. SUFFICES ASSUME id # 0, users'[id] # NoRow, Connected(c)', SoleUser(c, id)'
                 PROVE  \/ users'[id].socket = conn'[c]
                        \/ phase'[c] = "online" /\ inq'[conn'[c]] = <<Reconnecting(c)'>>
    BY DEF Reachable
  <2>2. users[id] # NoRow /\ SoleUser(c, id)
    BY <2>1, SoleUserWas
  <2>3. Connected(c) /\ inq'[conn[c]] = inq[conn[c]] /\ Reconnecting(c)' = Reconnecting(c)
    BY <2>1 DEF UnreadKept, Reconnecting, ClientKept
  <2>4. Reachable(c, id)
    BY <1>3 DEF ClientInv
  <2> QED
    BY <2>1, <2>2, <2>3, <2>4 DEF Reachable, ClientKept
<1>4. ASSUME NEW id \in SignedIn(c)
      PROVE  OwnRow(c, id)'
  BY OwnRowStays DEF ClientInv, ClientKept
<1> QED
  BY <1>1, <1>2, <1>3, <1>4 DEF ClientInv

\* The process dies of a sign-in, after the answer.
LEMMA ClientInvDying ==
    ASSUME SessionInv, [Next]_vars, NEW c \in Clients, ClientInv(c),
           NEW fd \in Fds, AuthorizationDies(fd)
    PROVE  ClientInv(c)'
<1> USE DEF SessionInv
<1>1. /\ UNCHANGED <<phase, conn, login, hash, uid>>
      /\ late \subseteq late'
      /\ Answer(fd, [type |-> "AUTH_V", id |-> 0])
  BY DEF AuthorizationDies, NoteLate
<1>2. ~Connected(c)'
  BY DyingEffect DEF Connected
<1>3. CASE link[fd].client = c /\ conn[c] = fd /\ link[fd].up
  <2>1. Connected(c) /\ inq[fd] \in Seq(Request) /\ inq[fd] # <<>> /\ Head(inq[fd]).type = "AUTH"
    BY <1>3 DEF AuthorizationDies, HasRequest, Connected, TypeOK
  <2>2. 1 \in DOMAIN inq[fd] /\ inq[fd][1].type = "AUTH"
    BY <2>1
  <2>3. phase[c] = "waiting" /\ inbox[c] = <<>>
    BY <1>3, <2>1, <2>2 DEF ClientInv, AskedInTurn
  <2>4. inbox'[c] = <<[type |-> "AUTH_V", id |-> 0]>>
    BY <1>1, <1>3, <2>3 DEF Answer, TypeOK
  <2>5. Len(inbox'[c]) = 1 /\ Head(inbox'[c]) = [type |-> "AUTH_V", id |-> 0]
    BY <2>4
  <2>6. conn'[c] # NoFd
    BY <1>1, <2>1, ConstantsAssumption DEF Connected
  <2>7. AnswerAwaited(c)' /\ AskedInTurn(c)'
    BY <1>1, <1>2, <2>3, <2>5, <2>6 DEF AnswerAwaited, AskedInTurn
  <2>8. SignedIn(c)' \subseteq {0}
    BY <1>1, <2>3, <2>5 DEF SignedIn
  <2>9. \A id \in SignedIn(c)' : OwnRow(c, id)' /\ Reachable(c, id)'
    BY <2>8 DEF OwnRow, Reachable
  <2> QED
    BY <2>7, <2>9 DEF ClientInv
<1>4. CASE ~(link[fd].client = c /\ conn[c] = fd /\ link[fd].up)
  <2>1. inbox'[c] = inbox[c]
    BY <1>1, <1>4 DEF Answer, TypeOK
  <2>2. ClientKept(c) /\ UnreadKept(c)
    BY <1>1, <1>2, <2>1 DEF ClientKept, UnreadKept
  <2> QED
    BY <1>1, <1>2, <2>2, ClientInvStays
<1> QED
  BY <1>3, <1>4

\* A step of another client.
LEMMA ClientInvOthers ==
    ASSUME SessionInv, [Next]_vars, NEW c \in Clients, ClientInv(c),
           NEW d \in Clients \ {c}, ClientStep(d)
    PROVE  ClientInv(c)'
<1> USE DEF SessionInv
<1>1. users' = users /\ late' = late
  BY ClientStepRows DEF ClientStep, FirstConnect, Reconnect, ReconnectWithoutLogin,
     NoticeLoss, Quit, Launch, Enter, Register, ReceiveAnswer, PressLogout, PressDelete,
     LogoutCallback
<1>2. ClientKept(c)
  <2>1. ASSUME NEW fd \in Fds,
               FirstConnect(d, fd) \/ Reconnect(d, fd) \/ ReconnectWithoutLogin(d, fd)
        PROVE  ClientKept(c)
    BY <2>1 DEF FirstConnect, Reconnect, ReconnectWithoutLogin, ClientKept, TypeOK
  <2>2. CASE NoticeLoss(d) \/ Quit(d) \/ Launch(d)
    BY <2>2 DEF NoticeLoss, Quit, Launch, ClientKept, TypeOK
  <2>3. ASSUME NEW l \in Logins, NEW p \in Passwords, NEW r \in Passwords,
               Enter(d, l, p) \/ Register(d, l, p, r)
        PROVE  ClientKept(c)
    BY <2>3 DEF Enter, Register, ClientKept, TypeOK
  <2>4. CASE ReceiveAnswer(d)
    BY <2>4 DEF ReceiveAnswer, LogoutCallback, ClientKept, TypeOK
  <2>5. CASE PressLogout(d) \/ PressDelete(d)
    BY <2>5 DEF PressLogout, PressDelete, LogoutCallback, ClientKept, TypeOK
  <2> QED
    BY <2>1, <2>2, <2>3, <2>4, <2>5 DEF ClientStep
<1>3. UnreadKept(c)
  <2>1. CASE link' = link /\ inq' = inq
    BY <1>2, <2>1 DEF UnreadKept, Connected, ClientKept
  <2>2. ASSUME NEW fd \in Fds,
               FirstConnect(d, fd) \/ Reconnect(d, fd) \/ ReconnectWithoutLogin(d, fd)
        PROVE  UnreadKept(c)
    <3>1. /\ \A f \in Fds : f # fd => link'[f] = link[f] /\ inq'[f] = inq[f]
          /\ link'[fd].client = d
      BY <2>2 DEF FirstConnect, Reconnect, ReconnectWithoutLogin, TypeOK
    <3> QED
      BY <1>2, <3>1 DEF UnreadKept, Connected, ClientKept
  <2>3. ASSUME NEW rs, Send(d, rs), link' = link
        PROVE  UnreadKept(c)
    <3>1. CASE Connected(d)
      <4>1. \A f \in Fds : f # conn[d] => inq'[f] = inq[f]
        BY <2>3, <3>1 DEF Send, TypeOK
      <4> QED
        BY <1>2, <2>3, <3>1, <4>1 DEF UnreadKept, Connected, ClientKept
    <3>2. CASE ~Connected(d)
      BY <2>1, <2>3, <3>2 DEF Send
    <3> QED
      BY <3>1, <3>2
  <2>4. CASE Quit(d)
    <3>1. CASE Connected(d)
      <4>1. inq' = inq /\ \A f \in Fds : f # conn[d] => link'[f] = link[f]
        BY <2>4, <3>1 DEF Quit, TypeOK
      <4>2. link'[conn[d]].client = d
        BY <2>4, <3>1, BreakType DEF Quit, Connected
      <4> QED
        BY <1>2, <4>1, <4>2 DEF UnreadKept, Connected, ClientKept
    <3>2. CASE ~Connected(d)
      BY <2>1, <2>4, <3>2 DEF Quit
    <3> QED
      BY <3>1, <3>2
  <2> QED
    BY <2>1, <2>2, <2>3, <2>4 DEF ClientStep, NoticeLoss, Launch, Enter, Register,
       ReceiveAnswer, PressLogout, PressDelete, LogoutCallback, serverVars
<1> QED
  BY <1>1, <1>2, <1>3, ClientInvStays

-----------------------------------------------------------------------------
\* The steps of c itself.

\* Without the chat window and an answer there is nothing to reach.
LEMMA NotSignedIn ==
    ASSUME NEW c \in Clients, AnswerAwaited(c)', AskedInTurn(c)',
           phase'[c] # "online", inbox'[c] = <<>>
    PROVE  ClientInv(c)'
<1>1. SignedIn(c)' = {}
  BY DEF SignedIn
<1> QED
  BY <1>1 DEF ClientInv

LEMMA Unconnected ==
    ASSUME NEW c \in Clients, conn'[c] = NoFd, inbox'[c] = <<>>
    PROVE  AnswerAwaited(c)' /\ AskedInTurn(c)' /\ ~Connected(c)'
<1>1. ~Connected(c)'
  BY ConstantsAssumption DEF Connected
<1> QED
  BY <1>1 DEF AnswerAwaited, AskedInTurn

\* What c sends outside of mx_enter_callback's wait.
LEMMA SentInTurn ==
    ASSUME SessionInv, NEW c \in Clients, ClientInv(c), phase[c] \in {"login", "online"},
           NEW rs \in Seq(Request), Send(c, rs),
           link' = link, conn' = conn, inbox' = inbox,
           phase'[c] \in {"login", "waiting"},
           \A i \in DOMAIN rs : rs[i].type = "AUTH" =>
                /\ i = Len(rs) /\ phase'[c] = "waiting"
                /\ rs[i].login = login'[c] /\ rs[i].pw = hash'[c]
    PROVE  ClientInv(c)'
<1>1. inbox'[c] = <<>>
  BY DEF ClientInv, AnswerAwaited
<1>2. AnswerAwaited(c)'
  BY <1>1 DEF AnswerAwaited
<1>3. ASSUME Connected(c)
      PROVE  AskedInTurn(c)'
  <2> DEFINE q == inq[conn[c]]
  <2>1. q \in Seq(Request) /\ conn[c] \in Fds
    BY <1>3 DEF SessionInv, TypeOK, Connected
  <2>2. inq'[conn'[c]] = q \o rs
    BY <1>3, <2>1 DEF Send, SessionInv, TypeOK
  <2>3. \A i \in DOMAIN q : q[i].type # "AUTH"
    BY <1>3 DEF ClientInv, AskedInTurn
  <2>4. ASSUME NEW i \in DOMAIN (q \o rs), (q \o rs)[i].type = "AUTH"
        PROVE  /\ phase'[c] = "waiting" /\ i = Len(q \o rs)
               /\ (q \o rs)[i].login = login'[c] /\ (q \o rs)[i].pw = hash'[c]
    <3>1. /\ Len(q \o rs) = Len(q) + Len(rs) /\ i \in 1 .. Len(q) + Len(rs)
          /\ Len(q) \in Nat /\ Len(rs) \in Nat
      BY <2>1
    <3>2. CASE i <= Len(q)
      <4>1. i \in DOMAIN q /\ (q \o rs)[i] = q[i]
        BY <2>1, <3>1, <3>2
      <4> QED
        BY <2>3, <2>4, <4>1
    <3>3. CASE i > Len(q)
      <4>1. i - Len(q) \in DOMAIN rs /\ (q \o rs)[i] = rs[i - Len(q)]
        BY <2>1, <3>1, <3>3
      <4>2. i - Len(q) = Len(rs)
        BY <2>4, <4>1
      <4>3. i = Len(q \o rs)
        BY <3>1, <4>2
      <4> QED
        BY <2>4, <4>1, <4>3
    <3> QED
      BY <2>1, <3>1, <3>2, <3>3
  <2> QED
    BY <1>1, <2>2, <2>4 DEF AskedInTurn
<1>4. ASSUME ~Connected(c)
      PROVE  AskedInTurn(c)'
  <2>1. ~Connected(c)'
    BY <1>4 DEF Connected
  <2> QED
    BY <2>1 DEF AskedInTurn
<1> QED
  BY <1>1, <1>2, <1>3, <1>4, NotSignedIn

LEMMA ClientInvReconnect ==
    ASSUME SessionInv, [Next]_vars, NEW c \in Clients, ClientInv(c),
           NEW fd \in Fds, Reconnect(c, fd)
    PROVE  ClientInv(c)'
<1> USE DEF SessionInv
<1>1. PICK l \in LoginText(c) :
          inq' = [inq EXCEPT ![fd] = <<[type |-> "RECONNECTION", login |-> l, pw |-> hash[c]]>>]
  BY DEF Reconnect
<1> DEFINE r == [type |-> "RECONNECTION", login |-> l, pw |-> hash[c]]
<1>2. /\ UNCHANGED <<users, phase, login, hash, uid, inbox, typed, late>>
      /\ phase[c] # "start" /\ phase[c] # "gone"
      /\ inbox[c] = <<>>
  BY DEF Reconnect, ClientInv, AnswerAwaited
<1>3. conn'[c] = fd /\ inq'[fd] = <<r>>
  BY <1>1 DEF Reconnect, TypeOK
<1>4. phase[c] = "online" => r = Reconnecting(c)
  BY DEF LoginText, Reconnecting
<1>5. Reconnecting(c)' = Reconnecting(c)
  BY <1>2 DEF Reconnecting
<1>6. \A i \in DOMAIN <<r>> : <<r>>[i].type = "RECONNECTION"
  OBVIOUS
<1> HIDE DEF r
<1>7. AnswerAwaited(c)'
  BY <1>2 DEF AnswerAwaited
<1>8. AskedInTurn(c)'
  BY <1>2, <1>3, <1>4, <1>5, <1>6 DEF AskedInTurn
<1>9. SignedIn(c)' = SignedIn(c)
  BY <1>2 DEF SignedIn
<1>10. ASSUME NEW id \in SignedIn(c)
       PROVE  OwnRow(c, id)' /\ Reachable(c, id)'
  <2>1. OwnRow(c, id)'
    BY <1>2, OwnRowStays DEF ClientInv
  <2>2. phase[c] = "online"
    BY <1>2 DEF SignedIn
  <2>3. Reachable(c, id)'
    BY <1>2, <1>3, <1>4, <1>5, <2>2 DEF Reachable
  <2> QED
    BY <2>1, <2>3
<1> QED
  BY <1>7, <1>8, <1>9, <1>10 DEF ClientInv

LEMMA ClientInvAnswer ==
    ASSUME SessionInv, [Next]_vars, NEW c \in Clients, ClientInv(c), ReceiveAnswer(c)
    PROVE  ClientInv(c)'
<1> USE DEF SessionInv
<1> DEFINE r == Head(inbox[c])
<1>1. inbox[c] \in Seq(Reply) /\ Len(inbox[c]) = 1 /\ phase[c] = "waiting" /\ conn[c] # NoFd
  BY DEF ReceiveAnswer, ClientInv, AnswerAwaited, TypeOK
<1>2. Tail(inbox[c]) = <<>> /\ r \in Reply
  BY <1>1, TailOfOne DEF ReceiveAnswer
<1>3. inbox'[c] = <<>>
  BY <1>2 DEF ReceiveAnswer, TypeOK
<1>4. UNCHANGED <<users, link, inq, conn, login, hash, typed, late>>
  BY DEF ReceiveAnswer, serverVars
<1>5. Connected(c)' = Connected(c) /\ Reconnecting(c)' = Reconnecting(c)
  BY <1>4 DEF Connected, Reconnecting
<1>6. Connected(c) => inq'[conn'[c]] = <<>>
  BY <1>4 DEF ReceiveAnswer, ClientInv, AskedInTurn
<1>7. phase'[c] \in {"online", "login"}
  BY <1>1 DEF ReceiveAnswer, TypeOK
<1>8. AnswerAwaited(c)'
  BY <1>3, <1>7 DEF AnswerAwaited
<1>9. AskedInTurn(c)'
  BY <1>3, <1>5, <1>6 DEF AskedInTurn
<1>10. CASE r.type # "AUTH_V"
  <2>1. phase'[c] # "online"
    BY <1>1, <1>10 DEF ReceiveAnswer, TypeOK
  <2> QED
    BY <1>3, <1>8, <1>9, <2>1, NotSignedIn
<1>11. CASE r.type = "AUTH_V"
  <2>1. uid'[c] = r.id
    BY <1>1, <1>11 DEF ReceiveAnswer, TypeOK
  <2>2. r.id \in SignedIn(c) /\ SignedIn(c)' \subseteq {r.id}
    BY <1>3, <1>11, <2>1 DEF SignedIn, ReceiveAnswer
  <2>3. OwnRow(c, r.id) /\ (c \notin late => Reachable(c, r.id))
    BY <2>2 DEF ClientInv
  <2>4. ASSUME NEW id, id = r.id
        PROVE  OwnRow(c, id)' /\ (c \notin late' => Reachable(c, id)')
    BY <1>1, <1>4, <1>5, <2>3, <2>4 DEF OwnRow, Reachable, SoleUser
  <2> QED
    BY <1>8, <1>9, <2>2, <2>4 DEF ClientInv
<1> QED
  BY <1>10, <1>11

LEMMA ClientInvOwn ==
    ASSUME SessionInv, [Next]_vars, NEW c \in Clients, ClientInv(c), ClientStep(c)
    PROVE  ClientInv(c)'
<1> USE DEF SessionInv
<1>1. ASSUME NEW fd \in Fds, FirstConnect(c, fd)
      PROVE  ClientInv(c)'
  <2>1. inbox'[c] = <<>> /\ phase'[c] = "login"
    BY <1>1 DEF FirstConnect, ClientInv, AnswerAwaited, TypeOK
  <2>2. conn'[c] = fd /\ inq'[fd] = <<>>
    BY <1>1 DEF FirstConnect, TypeOK, NothingSentUnlinked
  <2>3. AnswerAwaited(c)' /\ AskedInTurn(c)'
    BY <2>1, <2>2 DEF AnswerAwaited, AskedInTurn
  <2> QED
    BY <2>1, <2>3, NotSignedIn
<1>2. ASSUME NEW fd \in Fds, Reconnect(c, fd)
      PROVE  ClientInv(c)'
  BY <1>2, ClientInvReconnect
<1>3. ASSUME NEW fd \in Fds, ReconnectWithoutLogin(c, fd)
      PROVE  ClientInv(c)'
  <2>1. conn'[c] = NoFd /\ inbox'[c] = <<>> /\ phase'[c] = "gone"
    BY <1>3 DEF ReconnectWithoutLogin, ClientInv, AnswerAwaited, TypeOK
  <2> QED
    BY <2>1, Unconnected, NotSignedIn
<1>4. CASE NoticeLoss(c)
  <2>1. conn'[c] = NoFd /\ inbox'[c] = <<>>
    BY <1>4 DEF NoticeLoss, TypeOK
  <2>2. AnswerAwaited(c)' /\ AskedInTurn(c)' /\ ~Connected(c)'
    BY <2>1, Unconnected
  <2>3. SignedIn(c)' \subseteq SignedIn(c) /\ login' = login /\ hash' = hash
    BY <1>4, <2>1 DEF NoticeLoss, SignedIn
  <2>4. \A id \in SignedIn(c) : OwnRow(c, id)'
    BY <2>3, OwnRowStays DEF ClientInv
  <2>5. \A id \in SignedIn(c)' : Reachable(c, id)'
    BY <2>2 DEF Reachable
  <2> QED
    BY <2>2, <2>3, <2>4, <2>5 DEF ClientInv
<1>5. CASE Quit(c)
  <2>1. conn'[c] = NoFd /\ inbox'[c] = <<>> /\ phase'[c] = "gone"
    BY <1>5 DEF Quit, TypeOK
  <2> QED
    BY <2>1, Unconnected, NotSignedIn
<1>6. CASE Launch(c)
  <2>1. conn'[c] = NoFd /\ inbox'[c] = <<>> /\ phase'[c] = "start"
    BY <1>6 DEF Launch, ClientInv, AnswerAwaited, TypeOK, serverVars
  <2> QED
    BY <2>1, Unconnected, NotSignedIn
<1>7. ASSUME NEW l \in Logins, NEW p \in Passwords, Enter(c, l, p)
      PROVE  ClientInv(c)'
  <2> DEFINE a == [type |-> "AUTH", login |-> l, pw |-> p]
  <2>1. <<a>> \in Seq(Request)
    BY DEF Request
  <2>2. login'[c] = l /\ hash'[c] = p /\ phase'[c] = "waiting"
    BY <1>7 DEF Enter, TypeOK
  <2>3. \A i \in DOMAIN <<a>> : i = Len(<<a>>) /\ <<a>>[i].login = l /\ <<a>>[i].pw = p
    OBVIOUS
  <2>4. /\ phase[c] = "login" /\ Send(c, <<a>>)
        /\ link' = link /\ conn' = conn /\ inbox' = inbox
    BY <1>7 DEF Enter
  <2> HIDE DEF a
  <2> DEFINE rs == <<a>>
  <2>5. rs \in Seq(Request) /\ Send(c, rs)
        /\ \A i \in DOMAIN rs : i = Len(rs) /\ rs[i].login = login'[c] /\ rs[i].pw = hash'[c]
    BY <2>1, <2>2, <2>3, <2>4
  <2> HIDE DEF rs
  <2> QED
    BY <2>2, <2>4, <2>5, SentInTurn
<1>8. ASSUME NEW rs \in Seq(Request), Send(c, rs), phase[c] \in {"login", "online"},
             phase'[c] = "login", link' = link, conn' = conn, inbox' = inbox,
             \A i \in DOMAIN rs : rs[i].type # "AUTH"
      PROVE  ClientInv(c)'
  BY <1>8, SentInTurn
<1>9. ASSUME NEW l \in Logins, NEW p \in Passwords, NEW r \in Passwords,
             Register(c, l, p, r)
      PROVE  ClientInv(c)'
  <2>1. <<[type |-> "REG", login |-> l, pw |-> r]>> \in Seq(Request)
    BY DEF Request
  <2>2. \A i \in DOMAIN <<[type |-> "REG", login |-> l, pw |-> r]>> :
            <<[type |-> "REG", login |-> l, pw |-> r]>>[i].type # "AUTH"
    OBVIOUS
  <2> QED
    BY <1>8, <1>9, <2>1, <2>2 DEF Register
<1>10. ASSUME NEW rs \in Seq(Request), LogoutCallback(c, rs),
              \A i \in DOMAIN rs : rs[i].type # "AUTH"
       PROVE  ClientInv(c)'
  BY <1>8, <1>10 DEF LogoutCallback, TypeOK
<1>11. CASE PressLogout(c)
  <2>1. PICK rs : rs = <<[type |-> "LOGOUT", id |-> uid[c]]>>
    OBVIOUS
  <2>2. uid[c] \in Ids \cup {0}
    BY DEF TypeOK
  <2>3. rs \in Seq(Request)
    BY <2>1, <2>2 DEF Request
  <2>4. \A i \in DOMAIN rs : rs[i].type # "AUTH"
    BY <2>1
  <2> QED
    BY <1>10, <1>11, <2>1, <2>3, <2>4 DEF PressLogout
<1>12. CASE PressDelete(c)
  <2>1. PICK rs : rs = <<[type |-> "DELETE_ACCOUNT", id |-> uid[c]],
                         [type |-> "LOGOUT", id |-> uid[c]]>>
    OBVIOUS
  <2>2. uid[c] \in Ids \cup {0}
    BY DEF TypeOK
  <2>3. rs \in Seq(Request)
    BY <2>1, <2>2 DEF Request
  <2>4. \A i \in DOMAIN rs : rs[i].type # "AUTH"
    BY <2>1
  <2> QED
    BY <1>10, <1>12, <2>1, <2>3, <2>4 DEF PressDelete
<1>13. CASE ReceiveAnswer(c)
  BY <1>13, ClientInvAnswer
<1> QED
  BY <1>1, <1>2, <1>3, <1>4, <1>5, <1>6, <1>7, <1>9, <1>11, <1>12, <1>13 DEF ClientStep

LEMMA ReachableInit == Init => ReachableInv
<1> SUFFICES ASSUME Init, NEW c \in Clients
             PROVE  ClientInv(c)
  BY DEF ReachableInv
<1>1. phase[c] = "start" /\ conn[c] = NoFd /\ inbox[c] = <<>>
  BY DEF Init
<1>2. ~Connected(c)
  BY <1>1, ConstantsAssumption DEF Connected
<1>3. SignedIn(c) = {}
  BY <1>1 DEF SignedIn
<1> QED
  BY <1>1, <1>2, <1>3 DEF ClientInv, AnswerAwaited, AskedInTurn

LEMMA ReachableStep == SessionInv /\ ReachableInv /\ [Next]_vars => ReachableInv'
<1> SUFFICES ASSUME SessionInv, ReachableInv, [Next]_vars, NEW c \in Clients
             PROVE  ClientInv(c)'
  BY DEF ReachableInv
<1> USE DEF SessionInv
<1>1. ClientInv(c)
  BY DEF ReachableInv
<1>2. ASSUME UNCHANGED clientVars, late' = late, UnreadKept(c),
             ~Connected(c)' \/ users' = users
      PROVE  ClientInv(c)'
  <2>1. ClientKept(c)
    BY <1>2 DEF ClientKept, clientVars
  <2> QED
    BY <1>1, <1>2, <2>1, ClientInvStays
<1>3. CASE StartServer
  <2>1. UNCHANGED clientVars /\ late' = late /\ link' = link /\ ~running
    BY <1>3 DEF StartServer
  <2>2. ~Connected(c)'
    BY <2>1 DEF Connected, LinksNeedServer
  <2> QED
    BY <1>2, <2>1, <2>2 DEF UnreadKept
<1>4. CASE StopServer
  <2>1. UNCHANGED clientVars /\ late' = late /\ \A fd \in Fds : link'[fd] = NoLink
    BY <1>4 DEF StopServer, ProcessEnds
  <2>2. ~Connected(c)'
    BY <2>1 DEF Connected
  <2> QED
    BY <1>2, <2>1, <2>2 DEF UnreadKept
<1>5. ASSUME NEW fd \in Fds, ConnectionFails(fd)
      PROVE  ClientInv(c)'
  <2>1. UNCHANGED clientVars /\ late' = late /\ inq' = inq /\ users' = users
    BY <1>5 DEF ConnectionFails
  <2>2. /\ \A f \in Fds : f # fd => link'[f] = link[f]
        /\ link[fd] # NoLink /\ link[fd].up
    BY <1>5 DEF ConnectionFails, TypeOK
  <2>3. /\ \A g \in Fds : link'[g] = NoLink <=> link[g] = NoLink
        /\ \A g \in Fds : link[g] # NoLink => link'[g].client = link[g].client
    BY <1>5, BreakType DEF ConnectionFails
  <2>4. Connected(c)' => Connected(c)
    BY <2>1, <2>2, <2>3 DEF Connected, clientVars
  <2> QED
    BY <1>2, <2>1, <2>4 DEF UnreadKept
<1>6. ASSUME NEW fd \in Fds, WorkWithClient(fd)
      PROVE  ClientInv(c)'
  BY <1>1, <1>6, ClientInvServerStep
<1>7. ASSUME NEW fd \in Fds, AuthorizationDies(fd)
      PROVE  ClientInv(c)'
  BY <1>1, <1>7, ClientInvDying
<1>8. ASSUME NEW d \in Clients, ClientStep(d)
      PROVE  ClientInv(c)'
  BY <1>1, <1>8, ClientInvOthers, ClientInvOwn
<1>9. CASE UNCHANGED vars
  <2>1. UNCHANGED <<clientVars, late, link, inq, users>>
    BY <1>9 DEF vars, serverVars
  <2>2. UnreadKept(c)
    BY <2>1 DEF UnreadKept, Connected, clientVars
  <2> QED
    BY <1>2, <2>1, <2>2
<1> QED
  BY <1>3, <1>4, <1>5, <1>6, <1>7, <1>8, <1>9 DEF Next

\* A client that shows the chat on a live connection, with nothing of it unread, gets
\* the messages of its account, unless another client knows the password or a request
\* of an earlier connection came late: through any outages, restarts, sign-ins,
\* log-outs and deletions of all clients.
THEOREM OnlineAreReachable == Spec => []OnlineIsReachable
<1>1. SessionInv /\ ReachableInv => OnlineIsReachable
  <2> SUFFICES ASSUME ReachableInv, NEW c \in Clients \ late,
                      phase[c] = "online", Connected(c), inq[conn[c]] = <<>>,
                      uid[c] # 0, users[uid[c]] # NoRow, SoleUser(c, uid[c])
               PROVE  users[uid[c]].socket = conn[c]
    BY DEF OnlineIsReachable
  <2>1. uid[c] \in SignedIn(c)
    BY DEF SignedIn
  <2>2. Reachable(c, uid[c])
    BY <2>1 DEF ReachableInv, ClientInv
  <2> QED
    BY <2>2 DEF Reachable
<1> QED
  BY <1>1, ReachableInit, ReachableStep, SessionInvariant, PTL DEF Spec
=============================================================================
