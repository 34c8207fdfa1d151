----------------------------- MODULE ServerLoop -----------------------------
(***************************************************************************)
(* The server's only thread: server_loop takes one kevent at a time and    *)
(* accepts a connection, drops one, or reads from one.  Below it lie two   *)
(* buffers.  Every request is written as one TLS record, so the socket     *)
(* holds whole records, but for the last, which may still be arriving.     *)
(* tls_read gives at most 1024 bytes, of one record: the rest of a larger  *)
(* one stays inside libtls, where kevent does not see it.                  *)
(*                                                                         *)
(* Requests are numbers.  A record is worth 1 .. MaxReads calls of         *)
(* tls_read; only pieces of a file take more than one.  What the handlers  *)
(* do is the matter of the other modules; here a handler writes to some    *)
(* connections, and that of AUTH may talk to the mail host.                *)
(***************************************************************************)
EXTENDS Naturals, Sequences, FiniteSets, SequencesExt

CONSTANTS
    Conns,      \* connections made while the server runs
    MaxSent,    \* bound: connection -> requests sent on it
    MaxReads,   \* calls of tls_read the largest piece takes
    MaxFds,     \* descriptors the process may open for connections
    None

Types == {"AUTH", "FILE", "EMPTY", "GET", "OTHER"}
Request == [n : Nat, type : Types, reads : 1 .. MaxReads]
Record == [n : Nat, type : Types, reads : 1 .. MaxReads, arrived : BOOLEAN]
Residue == [by : Conns, n : Nat, type : Types]

ASSUME ServerLoopAssumption ==
    /\ MaxSent \in [Conns -> Nat]
    /\ {MaxReads, MaxFds} \subseteq Nat \ {0}
    /\ IsFiniteSet(Conns)
    /\ MaxFds > Cardinality(Conns)
    /\ None \notin Conns \cup Request

VARIABLES
    phase,      \* connection -> where it stands with the server
    up,         \* connection -> "up", or how its client left it: "fin", "reset"
    kernel,     \* connection -> records in the socket's buffer
    tail,       \* connection -> the request libtls holds the rest of, or None
    uploading,  \* connections on which a file is being sent
    sent,       \* connection -> number of the last request sent
    handled,    \* connection -> requests run in its name, <<sender, number>>
    sending,    \* connections a file-sending thread writes to
    pc, at,     \* what server_loop is at, and with which connection
    input,      \* the request the last read left in the buffer input[1024]
    fds,        \* descriptors in use
    mails       \* history: mail dialogues begun

clients == <<phase, up, kernel, uploading, sent>>
vars == <<clients, tail, handled, sending, pc, at, input, fds, mails>>

TypeOK ==
    /\ phase \in [Conns -> {"off", "backlog", "handshake", "open", "closed"}]
    /\ up \in [Conns -> {"up", "fin", "reset"}]
    /\ kernel \in [Conns -> Seq(Record)]
    /\ tail \in [Conns -> Request \cup {None}]
    /\ uploading \subseteq Conns
    /\ sent \in [Conns -> Nat] /\ \A c \in Conns : sent[c] <= MaxSent[c]
    /\ handled \in [Conns -> Seq(Conns \X Nat)]
    /\ sending \subseteq Conns
    /\ pc \in {"poll", "handshake", "read", "mail", "stopped"}
    /\ at \in Conns \cup {None}
    /\ input \in Residue \cup {None}
    /\ fds \in 0 .. MaxFds
    /\ mails \in Nat

Init ==
    /\ phase = [c \in Conns |-> "off"]
    /\ up = [c \in Conns |-> "up"]
    /\ kernel = [c \in Conns |-> <<>>]
    /\ tail = [c \in Conns |-> None]
    /\ uploading = {}
    /\ sent = [c \in Conns |-> 0]
    /\ handled = [c \in Conns |-> <<>>]
    /\ sending = {}
    /\ pc = "poll" /\ at = None
    /\ input = None
    /\ fds = 0 /\ mails = 0

Running == pc # "stopped"

-----------------------------------------------------------------------------
\* The clients and the network.

\* connect() succeeds when the kernel has queued the connection.
Connect(c) ==
    /\ Running
    /\ phase[c] = "off"
    /\ phase' = [phase EXCEPT ![c] = "backlog"]
    /\ UNCHANGED <<up, kernel, uploading, sent, tail, handled, sending, pc, at, input, fds, mails>>

\* tls_send writes a request as one record, the end of which may be late.
Write(c, type, reads) ==
    /\ Running
    /\ phase[c] = "open" /\ up[c] = "up"
    /\ sent[c] < MaxSent[c]
    /\ kernel[c] # <<>> => Last(kernel[c]).arrived
    /\ sent' = [sent EXCEPT ![c] = @ + 1]
    /\ \E arrived \in BOOLEAN :
           kernel' = [kernel EXCEPT ![c] = Append(@,
               [n |-> sent[c] + 1, type |-> type, reads |-> reads, arrived |-> arrived])]
    /\ UNCHANGED <<phase, up, tail, handled, sending, pc, at, input, fds, mails>>

\* A button's callback sends a request; the bound leaves room for SendEmpty.
SendRequest(c) ==
    /\ c \in uploading => sent[c] + 1 < MaxSent[c]
    /\ \E type \in {"AUTH", "GET", "OTHER"} : Write(c, type, 1)
    /\ UNCHANGED uploading

\* mx_send_file_from_client sends a piece ...
SendPiece(c) ==
    /\ sent[c] + 1 < MaxSent[c]
    /\ \E reads \in 1 .. MaxReads : Write(c, "FILE", reads)
    /\ uploading' = uploading \cup {c}

\* Mutant of SendEmpty: the upload ends with its last piece.
SendNoEmpty(c) ==
    /\ c \in uploading
    /\ uploading' = uploading \ {c}
    /\ UNCHANGED <<phase, up, kernel, sent, tail, handled, sending, pc, at, input, fds, mails>>

\* ... and, after the last one, an empty request.
SendEmpty(c) ==
    /\ c \in uploading
    /\ uploading' = uploading \ {c}
    /\ Write(c, "EMPTY", 1)

\* The rest of the last record is there.
Arrive(c) ==
    /\ Running
    /\ up[c] = "up"
    /\ kernel[c] # <<>> /\ ~Last(kernel[c]).arrived
    /\ kernel' = [kernel EXCEPT ![c][Len(kernel[c])].arrived = TRUE]
    /\ UNCHANGED <<phase, up, uploading, sent, tail, handled, sending, pc, at, input, fds, mails>>

\* The client exits, its last record perhaps cut.
Leave(c) ==
    /\ Running
    /\ phase[c] \in {"backlog", "handshake", "open"} /\ up[c] = "up"
    /\ up' = [up EXCEPT ![c] = "fin"]
    /\ UNCHANGED <<phase, kernel, uploading, sent, tail, handled, sending, pc, at, input, fds, mails>>

\* The client's host resets the connection; what has arrived stays in the buffer,
\* a record perhaps cut.
Reset(c) ==
    /\ Running
    /\ phase[c] \in {"backlog", "handshake", "open"} /\ up[c] # "reset"
    /\ up' = [up EXCEPT ![c] = "reset"]
    /\ UNCHANGED <<phase, kernel, uploading, sent, tail, handled, sending, pc, at, input, fds, mails>>

-----------------------------------------------------------------------------
\* server_loop

\* add_new_client up to tls_handshake.  accept fails when the process has no
\* descriptor left, and with that the loop ends.
Accept(c) ==
    /\ pc = "poll"
    /\ phase[c] = "backlog"
    /\ \/ /\ fds < MaxFds
          /\ fds' = fds + 1
          /\ phase' = [phase EXCEPT ![c] = "handshake"]
          /\ pc' = "handshake" /\ at' = c
       \/ /\ fds = MaxFds
          /\ pc' = "stopped" /\ at' = None
          /\ UNCHANGED <<phase, fds>>
    /\ UNCHANGED <<up, kernel, uploading, sent, tail, handled, sending, input, mails>>

\* tls_handshake blocks until the client has answered.
Handshake ==
    /\ pc = "handshake"
    /\ up[at] = "up"
    /\ phase' = [phase EXCEPT ![at] = "open"]
    /\ pc' = "poll" /\ at' = None
    /\ UNCHANGED <<up, kernel, uploading, sent, tail, handled, sending, input, fds, mails>>

\* A handshake that fails ends the loop too.
HandshakeFails ==
    /\ pc = "handshake"
    /\ up[at] # "up"
    /\ pc' = "stopped" /\ at' = None
    /\ UNCHANGED <<clients, tail, handled, sending, input, fds, mails>>

\* kevent sees the socket's buffer only.
Readable(c) == phase[c] = "open" /\ kernel[c] # <<>>

\* An event without EV_EOF: mx_tls_worker is called.
ReadEvent(c) ==
    /\ pc = "poll"
    /\ Readable(c) /\ up[c] = "up"
    /\ pc' = "read" /\ at' = c
    /\ UNCHANGED <<clients, tail, handled, sending, input, fds, mails>>

Closing == fds - 1

\* EV_EOF: the connection is dropped with everything not read from it.
EofEvent(c) ==
    /\ pc = "poll"
    /\ phase[c] = "open" /\ up[c] # "up"
    /\ phase' = [phase EXCEPT ![c] = "closed"]
    /\ kernel' = [kernel EXCEPT ![c] = <<>>]
    /\ tail' = [tail EXCEPT ![c] = None]
    /\ uploading' = uploading \ {c}
    /\ sending' = sending \ {c}
    /\ fds' = Closing
    /\ UNCHANGED <<up, sent, handled, pc, at, input, mails>>

\* Whom the handler of a request of connection c answers.
Answered(c, type) ==
    CASE type \in {"EMPTY", "GET"} -> {{}}
      [] type = "AUTH" -> {{c}}
      [] OTHER -> SUBSET {d \in Conns : phase[d] = "open"}

\* mx_run_function_type: the handler of request <<by, n>> runs in the name of
\* connection c, with rest still in the sockets' buffers.  What it writes to a
\* client that has exited is answered by a reset; a write after the reset fails,
\* or kills the process, for nobody handles SIGPIPE.
RunRequest(c, by, n, type, rest) ==
    \E who \in Answered(c, type) :
        LET gone == {d \in who : up[d] = "fin"}
            lost == \E d \in who : up[d] = "reset"
        IN  /\ handled' = [handled EXCEPT ![c] = Append(@, <<by, n>>)]
            /\ up' = [d \in Conns |-> IF d \in gone THEN "reset" ELSE up[d]]
            /\ kernel' = rest
            /\ sending' = IF type = "GET" THEN sending \cup {c} ELSE sending
            /\ \/ pc' = "poll" /\ at' = None
               \/ type = "AUTH" /\ pc' = "mail" /\ at' = c
               \/ lost /\ pc' = "stopped" /\ at' = None
            /\ UNCHANGED <<phase, uploading, sent, fds, mails>>

\* tls_read takes from libtls what it holds, then the next record.
Unread ==
    IF tail[at] # None THEN tail[at]
    ELSE LET r == Head(kernel[at]) IN [n |-> r.n, type |-> r.type, reads |-> r.reads]

\* Mutant of Rest: a read takes all that is there, and the tokener stops after
\* the first object.
RestIsLost ==
    IF tail[at] # None THEN kernel ELSE [kernel EXCEPT ![at] = <<>>]

Rest ==
    IF tail[at] # None THEN kernel ELSE [kernel EXCEPT ![at] = Tail(@)]

\* It waits for a record to be whole.
Readable1024 ==
    \/ tail[at] # None
    \/ kernel[at] # <<>> /\ Head(kernel[at]).arrived

\* mx_tls_worker, with a part of a request that is not its last.
ReadPart ==
    /\ pc = "read"
    /\ Readable1024
    /\ Unread.reads > 1
    /\ tail' = [tail EXCEPT ![at] = [Unread EXCEPT !.reads = @ - 1]]
    /\ kernel' = Rest
    /\ input' = None
    /\ pc' = "poll" /\ at' = None
    /\ UNCHANGED <<phase, up, uploading, sent, handled, sending, fds, mails>>

\* mx_tls_worker, with the end of a request: the tokener has an object.
ReadRequest ==
    /\ pc = "read"
    /\ Readable1024
    /\ Unread.reads = 1
    /\ tail' = [tail EXCEPT ![at] = None]
    /\ input' = IF tail[at] = None THEN [by |-> at, n |-> Unread.n, type |-> Unread.type]
                ELSE None
    /\ RunRequest(at, at, Unread.n, Unread.type, Rest)

\* The client has exited within a record: tls_read returns 0.
ReadNothing ==
    /\ pc = "read"
    /\ ~Readable1024 /\ up[at] = "fin"
    /\ pc' = "poll" /\ at' = None
    /\ UNCHANGED <<clients, tail, handled, sending, input, fds, mails>>

\* The connection was reset within a record: tls_read returns -1,
\* which as a size_t is > 0, and json_tokener_parse_ex parses what earlier calls
\* left in the buffer: nothing that makes an object, or the last request read.
ReadFailed ==
    /\ pc = "read"
    /\ ~Readable1024 /\ up[at] = "reset"
    /\ \/ /\ pc' = "poll" /\ at' = None
          /\ UNCHANGED <<clients, handled, sending, fds, mails>>
       \/ /\ input # None
          /\ RunRequest(at, input.by, input.n, input.type, kernel)
    /\ UNCHANGED <<tail, input>>

Read == ReadPart \/ ReadRequest \/ ReadNothing \/ ReadFailed

\* Mutant of MailNotSent: the socket is made before the host is looked up.
MailNotSentOpen ==
    /\ pc = "mail"
    /\ fds' = IF fds < MaxFds THEN fds + 1 ELSE fds
    /\ pc' = "poll" /\ at' = None
    /\ UNCHANGED <<clients, tail, handled, sending, input, mails>>

\* mx_email_notify has nobody to write to, or mx_connect_to_server gets no socket.
MailNotSent ==
    /\ pc = "mail"
    /\ pc' = "poll" /\ at' = None
    /\ UNCHANGED <<clients, tail, handled, sending, input, fds, mails>>

\* mx_send_mail made a socket and lost that many descriptors.
MailLoses(n) ==
    /\ pc = "mail"
    /\ fds' = fds + n
    /\ mails' = mails + 1
    /\ pc' = "poll" /\ at' = None
    /\ UNCHANGED <<clients, tail, handled, sending, input>>

\* The whole dialogue closes its socket; the file with the letter stays open.
MailSent ==
    /\ fds + 2 <= MaxFds
    /\ MailLoses(1)

\* Any answer but the expected one, or none, makes mx_send_mail return with the
\* socket open, and the file too once the letter has been read.
MailBreaksOff ==
    \E n \in {1, 2} :
        /\ fds + n <= MaxFds
        /\ MailLoses(n)

Mail == MailNotSent \/ MailSent \/ MailBreaksOff

\* A thread of mx_send_file_from_server writes its pieces beside the loop, to a
\* client that may have left.  Once the connection is dropped, its context is
\* freed: what the thread then meets is the matter of module SocketTree.
SendingThread(c) ==
    /\ Running
    /\ c \in sending
    /\ \/ sending' = sending \ {c} /\ UNCHANGED <<up, pc, at>>
       \/ /\ up[c] = "fin"
          /\ up' = [up EXCEPT ![c] = "reset"]
          /\ UNCHANGED <<sending, pc, at>>
       \/ /\ up[c] = "reset"
          /\ pc' = "stopped" /\ at' = None
          /\ UNCHANGED <<sending, up>>
    /\ UNCHANGED <<phase, kernel, uploading, sent, tail, handled, input, fds, mails>>

ClientStep(c) ==
    \/ Connect(c) \/ SendRequest(c) \/ SendPiece(c) \/ SendEmpty(c)
    \/ Arrive(c) \/ Leave(c) \/ Reset(c)

Event(c) == Accept(c) \/ ReadEvent(c) \/ EofEvent(c)

Next ==
    \/ \E c \in Conns : ClientStep(c) \/ Event(c) \/ SendingThread(c)
    \/ Handshake \/ HandshakeFails \/ Read \/ Mail

Spec == Init /\ [][Next]_vars

\* kqueue gives its events in turn, so that one which is there again and again is
\* taken (strong fairness); the thread does not stop between two calls that can
\* return; bytes sent arrive while the connection is up, and the client's loop
\* that sends a file goes on to its end.  Nothing is assumed of a peer's
\* handshake, nor of the mail host.
FairSpec ==
    /\ Spec
    /\ WF_vars(Read)
    /\ \A c \in Conns : SF_vars(Event(c)) /\ WF_vars(Arrive(c)) /\ WF_vars(SendEmpty(c))

-----------------------------------------------------------------------------
\* Properties.

\* The rest of a request that waits in libtls, where kevent does not see it, is
\* never left there: more is in the socket, or a file is being sent and the empty
\* request after it is to come, or the connection is over.
TailHasFollower ==
    \A c \in Conns :
        tail[c] # None /\ kernel[c] = <<>> => c \in uploading \/ up[c] # "up"

\* The loop ends only when a client has left a connection the server still holds,
\* or when mail dialogues, which lose at most two each, have used up the descriptors.
OnlyBrokenPeersStop ==
    pc = "stopped" =>
        \/ \E c \in Conns : phase[c] # "closed" /\ up[c] # "up"
        \/ 2 * mails + Cardinality(Conns) > MaxFds

\* What the server promises of its connections.
Channel == INSTANCE RequestChannel WITH
    closed <- {c \in Conns : phase[c] = "closed"},
    broken <- {c \in Conns : up[c] = "reset"}

ImplementsChannel == Channel!Spec

\* As long as the loop comes back to kevent, that is unless a peer does not answer
\* in its handshake or the mail host falls silent, every request is run, however
\* it was cut into parts, unless its connection ends first.
RequestIsRun ==
    []<>(pc = "poll") =>
        \A c \in Conns : \A n \in 1 .. MaxSent[c] :
            sent[c] >= n ~> <<c, n>> \in ToSet(handled[c]) \/ up[c] # "up"
=============================================================================
