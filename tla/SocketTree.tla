----------------------------- MODULE SocketTree -----------------------------
(***************************************************************************)
(* The server's list of client sockets, a binary search tree ordered by    *)
(* descriptor, and the threads that send files to clients.                 *)
(*                                                                         *)
(* The tree belongs to the server thread, which alone adds, deletes and    *)
(* looks up.  A file-sending thread keeps the TLS context and the address  *)
(* of the mutex of the tree node it was started for, and deleteNode frees  *)
(* nodes and moves their contents under it.  Addresses are reused by       *)
(* malloc.  A thread that uses freed memory ends what can be said:         *)
(* undefined is set and nothing follows.                                   *)
(***************************************************************************)
EXTENDS Naturals, FiniteSets

CONSTANTS
    Sockets,          \* descriptors accept can return, ordered
    Addresses,        \* addresses malloc can return for a node
    Senders,          \* file-sending threads: a bound
    MaxConnections,   \* bound: connections accepted in one behaviour
    Nil, Nobody, Server, NoConnection

Connections == 1 .. MaxConnections
Threads == Senders \cup {Server}

\* t_socket_list; lock is who holds its mutex
Node == [socket : Sockets, tls : Connections,
         left : Addresses \cup {Nil}, right : Addresses \cup {Nil},
         lock : Threads \cup {Nobody}]

ASSUME TreeAssumption ==
    /\ Sockets \subseteq Nat
    /\ MaxConnections \in Nat
    /\ Server \notin Senders /\ Nobody \notin Senders \cup {Server}
    /\ Nil \notin Addresses \cup Node
    /\ NoConnection \notin Connections

\* A thread in mx_save_send: the node whose mutex it takes and the context it
\* writes to.  A sender keeps both while it runs.
Sending == [at : {"idle", "waiting", "writing"},
            node : Addresses \cup {Nil}, tls : Connections \cup {NoConnection}]

VARIABLES
    heap,        \* address -> Node, or Nil when it is not allocated
    head,        \* info->socket_list
    open,        \* socket -> connection the kernel has on it, or NoConnection
    last,        \* connections are numbered as they are accepted
    thread,      \* what each thread is sending
    exposed,     \* history: senders whose node or context may be gone
    undefined    \* a thread has used freed memory

treeVars == <<heap, head, open, last, thread, exposed, undefined>>

Resting == [at |-> "idle", node |-> Nil, tls |-> NoConnection]

TreeTypeOK ==
    /\ heap \in [Addresses -> Node \cup {Nil}]
    /\ head \in Addresses \cup {Nil}
    /\ open \in [Sockets -> Connections \cup {NoConnection}]
    /\ last \in 0 .. MaxConnections
    /\ thread \in [Threads -> Sending]
    /\ exposed \subseteq Senders
    /\ undefined \in BOOLEAN

TreeInit ==
    /\ heap = [a \in Addresses |-> Nil]
    /\ head = Nil
    /\ open = [s \in Sockets |-> NoConnection]
    /\ last = 0
    /\ thread = [t \in Threads |-> Resting]
    /\ exposed = {}
    /\ undefined = FALSE

-----------------------------------------------------------------------------
\* The tree.

Allocated(h) == {a \in Addresses : h[a] # Nil}

\* Where a loop stops that comes from x to next[x] until that is no node.
Stop(r, next) ==
    LET f[x \in DOMAIN next] == IF next[x] \in DOMAIN next THEN f[next[x]] ELSE x
    IN  f[r]

Child(n, s) == IF s < n.socket THEN n.left ELSE n.right

\* The way down to the node of s, or to the node s would hang from.
Search(h, s) ==
    [a \in Allocated(h) |-> IF h[a].socket = s THEN Nil ELSE Child(h[a], s)]

\* mx_find_socket_elem
Find(h, r, s) ==
    IF r # Nil /\ h[Stop(r, Search(h, s))].socket = s THEN Stop(r, Search(h, s)) ELSE Nil

\* The node mx_add_socket_elem hangs s from, which is not in the tree.
Above(h, r, s) == Stop(r, Search(h, s))

\* mx_get_min_socket_elem
Leftward(h) == [a \in Allocated(h) |-> h[a].left]

MinNode(h, r) == Stop(r, Leftward(h))

\* The child of p on the way to s is c.
SetChild(h, p, s, c) ==
    [h EXCEPT ![p] = IF s < @.socket THEN [@ EXCEPT !.left = c]
                                     ELSE [@ EXCEPT !.right = c]]

\* mx_create_socket_elem; the mutant forgets pthread_mutex_init.
NewNodeUnlocked(s, k) ==
    [socket |-> s, tls |-> k, left |-> Nil, right |-> Nil, lock |-> Nil]

NewNode(s, k) ==
    [socket |-> s, tls |-> k, left |-> Nil, right |-> Nil, lock |-> Nobody]

\* What deleteNode copies over a node with two children, mutex included; the
\* mutant leaves the context out.
TakeOverKeepsContext(node, min, right) ==
    [min EXCEPT !.left = node.left, !.right = right, !.tls = node.tls]

TakeOver(node, min, right) == [min EXCEPT !.left = node.left, !.right = right]

\* The node a of s gives way to c in the tree at r: the pointer on which the way to s
\* ends once a is freed.
Unlink(h, r, a, s, c) ==
    LET freed == [h EXCEPT ![a] = Nil]
    IN  IF a = r THEN [heap |-> freed, root |-> c]
        ELSE [heap |-> SetChild(freed, Above(freed, r, s), s, c), root |-> r]

OnlyChild(n) == IF n.left = Nil THEN n.right ELSE n.left

\* A node with one child at most gives way to that child; the mutant copies the
\* child over it and frees the child's memory.
SpliceByCopying(h, r, a, s) ==
    LET child == OnlyChild(h[a])
    IN  IF child = Nil THEN Unlink(h, r, a, s, Nil)
        ELSE [heap |-> [h EXCEPT ![a] = h[child], ![child] = Nil], root |-> r]

Splice(h, r, a, s) == Unlink(h, r, a, s, OnlyChild(h[a]))

\* deleteNode: the heap without the node of s in the tree at r, and the new root.
\* A node with two children takes over the contents of the smallest node on its
\* right, which has no left child, and that node is deleted in its place.  (Each
\* pointer on the way is written again, all but one with what it holds.)
Deleted(h, r, s) ==
    LET a == Find(h, r, s)
    IN  IF a = Nil THEN [heap |-> h, root |-> r]
        ELSE IF Nil \in {h[a].left, h[a].right} THEN Splice(h, r, a, s)
        ELSE LET m == MinNode(h, h[a].right)
                 d == Splice(h, h[a].right, m, h[m].socket)
             IN  [heap |-> [d.heap EXCEPT ![a] = TakeOver(h[a], h[m], d.root)],
                  root |-> r]

-----------------------------------------------------------------------------
\* The server thread.

ServerReady == ~undefined /\ thread[Server] = Resting

\* add_new_client, for a client whose handshake succeeds
AddNewClient(s) ==
    /\ ServerReady
    /\ open[s] = NoConnection
    /\ last < MaxConnections
    /\ last' = last + 1
    /\ open' = [open EXCEPT ![s] = last + 1]
    /\ \E a \in Addresses \ Allocated(heap) :
        LET added == [heap EXCEPT ![a] = NewNode(s, last + 1)]
        IN  IF head = Nil
            THEN heap' = added /\ head' = a
            ELSE /\ heap' = SetChild(added, Above(heap, head, s), s, a)
                 /\ UNCHANGED head
    /\ UNCHANGED <<thread, exposed, undefined>>

\* The descriptor of a thread's connection while the connection is open.
SocketOf(k) == {s \in Sockets : open[s] = k}

\* Closing s frees its context and node, and may move the contents of the node
\* of the next larger descriptor.
Disturbed(s) ==
    LET above == {r \in Sockets : r > s /\ open[r] # NoConnection}
        next == {r \in above : \A q \in above : r <= q}
    IN  {t \in Senders : /\ thread[t] # Resting
                         /\ SocketOf(thread[t].tls) \cap ({s} \cup next) # {}}

\* work_with_client on an end of file: mx_delete_socket_elem
DeleteSocketElem(s) ==
    /\ ServerReady
    /\ open[s] # NoConnection
    /\ LET d == Deleted(heap, head, s)
       IN  heap' = d.heap /\ head' = d.root
    /\ open' = [open EXCEPT ![s] = NoConnection]
    /\ exposed' = exposed \cup Disturbed(s)
    /\ UNCHANGED <<last, thread, undefined>>

\* mx_save_send on the connection a table row or a request names; nothing is
\* sent when the descriptor is not in the tree.
ServerSend(s) ==
    /\ ServerReady
    /\ LET a == Find(heap, head, s)
       IN  /\ a # Nil
           /\ thread' = [thread EXCEPT ![Server] =
                            [at |-> "waiting", node |-> a, tls |-> heap[a].tls]]
    /\ UNCHANGED <<heap, head, open, last, exposed, undefined>>

\* mx_send_file_from_server: a detached thread gets the addresses.
StartSender(s, t) ==
    /\ ServerReady
    /\ thread[t] = Resting
    /\ t \notin exposed
    /\ LET a == Find(heap, head, s)
       IN  /\ a # Nil
           /\ thread' = [thread EXCEPT ![t] =
                            [at |-> "waiting", node |-> a, tls |-> heap[a].tls]]
    /\ UNCHANGED <<heap, head, open, last, exposed, undefined>>

-----------------------------------------------------------------------------
\* mx_save_send, on any thread.

UseFreed(t) ==
    /\ thread' = [thread EXCEPT ![t] = Resting]
    /\ undefined' = TRUE
    /\ UNCHANGED <<heap, head, open, last, exposed>>

\* Mutant of Lock: the mutex is not taken.
LockNothing(t) ==
    /\ ~undefined
    /\ thread[t].at = "waiting"
    /\ thread' = [thread EXCEPT ![t].at = "writing"]
    /\ UNCHANGED <<heap, head, open, last, exposed, undefined>>

\* pthread_mutex_lock: waits while somebody holds the mutex.
Lock(t) ==
    /\ ~undefined
    /\ thread[t].at = "waiting"
    /\ LET a == thread[t].node
       IN  \/ /\ heap[a] = Nil
              /\ UseFreed(t)
           \/ /\ heap[a] # Nil
              /\ heap[a].lock = Nobody
              /\ heap' = [heap EXCEPT ![a].lock = t]
              /\ thread' = [thread EXCEPT ![t].at = "writing"]
              /\ UNCHANGED <<head, open, last, exposed, undefined>>

\* Where a thread goes after a send: the server back to its loop, a sender to
\* the next piece of its file or, after the last, nowhere.
AfterSend(t) ==
    IF t = Server THEN {Resting}
                  ELSE {Resting, [thread[t] EXCEPT !.at = "waiting"]}

\* Mutant of WriteUnlock: a failed tls_write returns without unlocking.
WriteMaybeUnlock(t) ==
    /\ ~undefined
    /\ thread[t].at = "writing"
    /\ \E then \in AfterSend(t) : thread' = [thread EXCEPT ![t] = then]
    /\ UNCHANGED <<heap, head, open, last, exposed, undefined>>

\* tls_write and pthread_mutex_unlock
WriteUnlock(t) ==
    /\ ~undefined
    /\ thread[t].at = "writing"
    /\ LET a == thread[t].node
           freed == heap[a] = Nil \/ SocketOf(thread[t].tls) = {}
       IN  \/ freed /\ UseFreed(t)
           \/ /\ ~freed
              /\ heap' = [heap EXCEPT ![a].lock = Nobody]
              /\ \E then \in AfterSend(t) : thread' = [thread EXCEPT ![t] = then]
              /\ UNCHANGED <<head, open, last, exposed, undefined>>

TreeNext ==
    \/ \E s \in Sockets : AddNewClient(s) \/ DeleteSocketElem(s) \/ ServerSend(s)
    \/ \E s \in Sockets, t \in Senders : StartSender(s, t)
    \/ \E t \in Threads : Lock(t) \/ WriteUnlock(t)

TreeSpec == TreeInit /\ [][TreeNext]_treeVars

-----------------------------------------------------------------------------
\* Properties.

\* Through every order of accepts and disconnects, looking a descriptor up
\* (mx_find_socket_elem, mx_find_tls_socket) gives the connection that is open
\* on it, though deleteNode copies nodes over one another.
Registry ==
    INSTANCE SocketRegistry WITH
        registered <- [s \in Sockets |->
                          LET a == Find(heap, head, s)
                          IN  IF a = Nil THEN NoConnection ELSE heap[a].tls],
        accepted <- 1 .. last

ImplementsRegistry == Registry!RegistrySpec

\* Two threads never write to one TLS context at once (libtls contexts are not
\* thread safe; the mutex of mx_save_send is there for that), as long as no
\* disconnect has pulled a node from under a running sender.
WritersTakeTurns ==
    exposed = {} =>
        \A t, u \in Threads :
            /\ t # u
            /\ thread[t].at = "writing"
            /\ thread[u].at = "writing"
            => thread[t].tls # thread[u].tls

\* A thread uses freed memory only if it is a sender and its own client, or the client
\* with the next smaller descriptor, has disconnected while it was sending: closing
\* any other connection leaves its node where it is.
FreedMemoryNotUsed ==
    [][undefined' # undefined => \E t \in exposed : thread'[t] # thread[t]]_treeVars

\* The same for the mutexes: one that is locked has a thread inside mx_save_send
\* that will unlock it, so the server thread never waits for good.
LocksAreReleased ==
    exposed = {} =>
        \A a \in Addresses :
            /\ heap[a] # Nil
            /\ heap[a].lock # Nobody
            => thread[heap[a].lock].at = "writing" /\ thread[heap[a].lock].node = a
=============================================================================
