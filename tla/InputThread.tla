----------------------------- MODULE InputThread -----------------------------
(***************************************************************************)
(* The way from the server to one client.  On the server, the loop and a   *)
(* file-sending thread write messages with mx_save_send: a message of more *)
(* than 16384 bytes goes out as several TLS records, here two, and a mutex *)
(* keeps other messages from coming between them.  In the client, the      *)
(* input thread reads for ever: what tls_read gives goes to one tokener,   *)
(* made once, and when tls_read fails mx_reconnect_client replaces         *)
(* info->tls_client, which the callbacks of the GTK thread write to.       *)
(*                                                                         *)
(* Connections are numbered; the messages of a connection too, in the      *)
(* order their writers got the mutex.                                      *)
(***************************************************************************)
EXTENDS Naturals, Sequences, FiniteSets, SequencesExt

CONSTANTS
    Writers,      \* the server's threads that write to this client
    MaxConns,     \* bound: connections made
    MaxMessages,  \* bound: messages begun on a connection
    MaxTries,     \* handshakes mx_reconnect_client tries before it returns
    None

Links == 1 .. MaxConns
Part == [n : 1 .. MaxMessages, first : BOOLEAN, last : BOOLEAN]
Job == [n : 1 .. MaxMessages, left : 1 .. 2, first : BOOLEAN]

ASSUME InputThreadAssumption ==
    /\ {MaxConns, MaxMessages, MaxTries} \subseteq Nat \ {0}
    /\ None \notin Writers \cup Job

VARIABLES
    running,    \* the server process
    link,       \* number of the connection info->socket stands for
    peer,       \* its state: "none", "up", "fin" or "reset"
    writing,    \* writer -> the message it is in the middle of, or None
    mutex,      \* the writer that has locked it, or None
    begun,      \* connection -> messages begun on it
    stream,     \* records on their way
    pc,         \* the input thread
    tries,      \* handshakes tried by this call of mx_reconnect_client
    tok,        \* what the tokener is in: "fresh", "mid", or "stuck" on an error
    heard,      \* connection -> messages whose handler ran
    ctx,        \* what info->tls_client points to
    gtk,        \* the callback that writes: "idle", "writing", or "dangling"
    alive,      \* the client process
    cut         \* history: a connection was given up in the middle of a message

server == <<running, writing, mutex, begun>>
client == <<pc, tries, tok, heard, ctx, alive>>
vars == <<server, link, peer, stream, client, gtk, cut>>

TypeOK ==
    /\ running \in BOOLEAN /\ alive \in BOOLEAN /\ cut \in BOOLEAN
    /\ link \in Links
    /\ peer \in {"none", "up", "fin", "reset"}
    /\ writing \in [Writers -> Job \cup {None}]
    /\ mutex \in Writers \cup {None}
    /\ begun \in [Links -> 0 .. MaxMessages]
    /\ stream \in Seq(Part)
    /\ pc \in {"read", "free", "config", "connect", "handshake", "announce", "ended"}
    /\ tries \in 0 .. MaxTries
    /\ tok \in {"fresh", "mid", "stuck"}
    /\ heard \in [Links -> Seq(Links \X (1 .. MaxMessages))]
    /\ ctx \in {"ready", "freed", "new", "connecting"}
    /\ gtk \in {"idle", "writing", "dangling"}

\* mx_start_client has connected, shaken hands and started the input thread.
Init ==
    /\ running = TRUE /\ alive = TRUE /\ cut = FALSE
    /\ link = 1 /\ peer = "up"
    /\ writing = [w \in Writers |-> None]
    /\ mutex = None
    /\ begun = [k \in Links |-> 0]
    /\ stream = <<>>
    /\ pc = "read" /\ tries = 0
    /\ tok = "fresh"
    /\ heard = [k \in Links |-> <<>>]
    /\ ctx = "ready" /\ gtk = "idle"

-----------------------------------------------------------------------------
\* The server's writers.

\* Mutant of Lock: mx_save_send does without the mutex.
NoLock(w) == UNCHANGED mutex

Lock(w) ==
    /\ mutex = None
    /\ mutex' = w

\* mx_save_send begins a message of one record or of two.
BeginMessage(w) ==
    /\ running /\ alive
    /\ peer = "up" /\ ctx = "ready"
    /\ writing[w] = None
    /\ begun[link] < MaxMessages
    /\ Lock(w)
    /\ begun' = [begun EXCEPT ![link] = @ + 1]
    /\ \E parts \in 1 .. 2 :
           writing' = [writing EXCEPT ![w] =
               [n |-> begun[link] + 1, left |-> parts, first |-> TRUE]]
    /\ UNCHANGED <<running, link, peer, stream, client, gtk, cut>>

\* Mutant of PartsLeft: one call of tls_write, which writes one record.
PartsLeftOnce(job) == 0

PartsLeft(job) == job.left - 1

\* One tls_write; the mutex is released after the last.
WriteRecord(w) ==
    /\ running /\ alive
    /\ writing[w] # None
    /\ LET job == writing[w]
           left == PartsLeft(job)
       IN  /\ stream' = IF peer = "up"
                        THEN Append(stream, [n |-> job.n, first |-> job.first, last |-> job.left = 1])
                        ELSE stream
           /\ writing' = [writing EXCEPT ![w] =
                  IF left = 0 THEN None ELSE [n |-> job.n, left |-> left, first |-> FALSE]]
           /\ mutex' = IF left = 0 THEN None ELSE mutex
    /\ UNCHANGED <<running, begun, link, peer, client, gtk, cut>>

Forgotten == [w \in Writers |-> None]

\* The server process ends: a FIN follows what was written, or a reset if the
\* server had not read all it was sent.  Nobody sends a close_notify before it.
ServerExits ==
    /\ alive
    /\ running
    /\ running' = FALSE
    /\ \/ peer = "up" /\ peer' \in {"fin", "reset"}
       \/ peer # "up" /\ UNCHANGED peer
    /\ writing' = Forgotten /\ mutex' = None
    /\ UNCHANGED <<begun, link, stream, client, gtk, cut>>

ServerStarts ==
    /\ alive
    /\ ~running
    /\ running' = TRUE
    /\ UNCHANGED <<writing, mutex, begun, link, peer, stream, client, gtk, cut>>

\* The network or the server's host resets the connection; a part of what was
\* on its way is lost with it.
LinkBreaks ==
    /\ alive
    /\ peer = "up"
    /\ peer' = "reset"
    /\ writing' = Forgotten /\ mutex' = None
    /\ \E i \in 0 .. Len(stream) : stream' = SubSeq(stream, 1, i)
    /\ UNCHANGED <<running, begun, link, client, gtk, cut>>

-----------------------------------------------------------------------------
\* mx_process_input_from_server

InputAt(place) == alive /\ pc = place

\* What a record of message n does to the tokener: a fresh one begins with the
\* first, and one in the middle of an object ends with the last.  Anything else is
\* an error, after which the tokener is never reset: all that follows is in error.
Parsed(part) ==
    IF tok = "stuck" \/ (tok = "fresh") # part.first THEN "stuck"
    ELSE IF part.last THEN "fresh" ELSE "mid"

\* tls_read returned bytes: the tokener goes on, and the handler of a whole object
\* runs.
ReadRecord ==
    /\ InputAt("read")
    /\ ctx = "ready" /\ stream # <<>>
    /\ tok' = Parsed(Head(stream))
    /\ heard' = IF tok' = "fresh" THEN [heard EXCEPT ![link] = Append(@, <<link, Head(stream).n>>)]
                ELSE heard
    /\ stream' = Tail(stream)
    /\ UNCHANGED <<server, link, peer, pc, tries, ctx, alive, gtk, cut>>

\* Mutant of ReadFails: a context without a handshake is read for ever.
ReadFailsOnReset ==
    /\ InputAt("read")
    /\ ctx = "ready" /\ peer = "reset" /\ stream = <<>>
    /\ pc' = "free" /\ tries' = 0
    /\ cut' = (cut \/ tok = "mid")
    /\ UNCHANGED <<server, link, peer, stream, tok, heard, ctx, alive, gtk>>

\* tls_read returned -1.  At the end of the stream (a FIN) it returns 0, again and
\* again, and the loop turns without doing anything.
ReadFails ==
    /\ InputAt("read")
    /\ \/ peer = "reset" /\ stream = <<>>
       \/ ctx # "ready"
    /\ pc' = "free" /\ tries' = 0
    /\ cut' = (cut \/ tok = "mid")
    /\ UNCHANGED <<server, link, peer, stream, tok, heard, ctx, alive, gtk>>

\* mx_reconnect_client: tls_close, tls_free.
FreeContext ==
    /\ InputAt("free")
    /\ ctx' = "freed"
    /\ gtk' = IF gtk = "writing" THEN "dangling" ELSE gtk
    /\ pc' = "config"
    /\ UNCHANGED <<server, link, peer, stream, tries, tok, heard, alive, cut>>

\* mx_tls_config_client
NewContext ==
    /\ InputAt("config")
    /\ ctx' = "new"
    /\ pc' = "connect"
    /\ UNCHANGED <<server, link, peer, stream, tries, tok, heard, alive, gtk, cut>>

\* mx_connect_client.  While nobody listens it tries with longer and longer waits,
\* and when it gives up the input thread ends.
ConnectToServer ==
    /\ InputAt("connect")
    /\ \/ /\ running
          /\ link < MaxConns
          /\ link' = link + 1
          /\ peer' = "up" /\ stream' = <<>>
          /\ ctx' = "connecting"
          /\ pc' = "handshake"
       \/ /\ ~running
          /\ pc' = "ended"
          /\ UNCHANGED <<link, peer, stream, ctx>>
    /\ UNCHANGED <<server, tries, tok, heard, alive, gtk, cut>>

\* mx_make_tls_connect_client
Handshake ==
    /\ InputAt("handshake")
    /\ peer = "up"
    /\ ctx' = "ready"
    /\ pc' = "announce"
    /\ UNCHANGED <<server, link, peer, stream, tries, tok, heard, alive, gtk, cut>>

\* Where mx_reconnect_client goes when a handshake has failed: to another attempt,
\* or, after the last, back to the reading loop, to be called again.
AfterFailure == IF tries + 1 < MaxTries THEN "free" ELSE "read"

HandshakeFails ==
    /\ InputAt("handshake")
    /\ peer # "up"
    /\ pc' = AfterFailure
    /\ tries' = tries + 1
    /\ UNCHANGED <<server, link, peer, stream, tok, heard, ctx, alive, gtk, cut>>

\* What a write to the connection can do: a FIN that came before is followed by a
\* reset, and after a reset a write fails or raises SIGPIPE, which nobody handles.
Send ==
    \/ peer = "up" /\ UNCHANGED <<peer, alive>>
    \/ peer = "fin" /\ peer' = "reset" /\ UNCHANGED alive
    \/ peer = "reset" /\ alive' \in BOOLEAN /\ UNCHANGED peer

\* reconnection_socket
Announce ==
    /\ InputAt("announce")
    /\ Send
    /\ pc' = "read"
    /\ UNCHANGED <<server, link, stream, tries, tok, heard, ctx, gtk, cut>>

InputStep ==
    \/ ReadRecord \/ ReadFails \/ FreeContext \/ NewContext
    \/ ConnectToServer \/ Handshake \/ HandshakeFails \/ Announce

-----------------------------------------------------------------------------
\* A callback of the GTK thread: tls_send(info->tls_client, ...).

BeginSend ==
    /\ alive
    /\ gtk = "idle"
    /\ gtk' = IF ctx = "freed" THEN "dangling" ELSE "writing"
    /\ UNCHANGED <<server, link, peer, stream, client, cut>>

\* tls_write on a context that has been freed, or while the input thread is in its
\* handshake with it, can do anything: here, kill the process or not.
EndSend ==
    /\ alive
    /\ gtk # "idle"
    /\ gtk' = "idle"
    /\ \/ gtk = "writing" /\ ctx = "ready" /\ Send
       \/ gtk = "writing" /\ ctx = "new" /\ UNCHANGED <<peer, alive>>
       \/ /\ gtk = "dangling" \/ ctx = "connecting"
          /\ alive' \in BOOLEAN
          /\ UNCHANGED peer
    /\ UNCHANGED <<server, link, stream, pc, tries, tok, heard, ctx, cut>>

Next ==
    \/ \E w \in Writers : BeginMessage(w) \/ WriteRecord(w)
    \/ ServerExits \/ ServerStarts \/ LinkBreaks
    \/ InputStep
    \/ BeginSend \/ EndSend

Spec == Init /\ [][Next]_vars

\* The input thread goes on whenever the call it is in can return: it reads what
\* has arrived, and a server that runs answers its handshake.
FairSpec == Spec /\ WF_vars(InputStep)

-----------------------------------------------------------------------------
\* Properties.

\* What the server's threads write arrives as the messages they wrote: each once,
\* whole, in the order the mutex was taken, none on a later connection.
Channel == INSTANCE RequestChannel WITH
    Conns <- Links,
    sent <- begun,
    handled <- heard,
    closed <- 1 .. link - 1,
    broken <- {}

ImplementsChannel == Channel!Spec

\* The tokener is never in error, and the client so never deaf, unless some
\* connection ended between the parts of one message.
DeafOnlyAfterCut == tok = "stuck" => cut

\* A reset is got over, however many handshakes fail: the client reads from a new
\* connection, unless no server runs when it tries, or it dies in a write.
Reconnects ==
    peer = "reset" ~>
        \/ peer \in {"up", "fin"} /\ pc = "read" /\ ctx = "ready"
        \/ pc = "ended" \/ ~alive \/ link = MaxConns
=============================================================================
