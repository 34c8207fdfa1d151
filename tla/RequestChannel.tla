--------------------------- MODULE RequestChannel ---------------------------
(***************************************************************************)
(* What the server promises of its connections, whatever lies between: the *)
(* requests of a client are run in the order they were sent, each once and *)
(* whole, and none after the connection has been dropped.  Once a peer has *)
(* reset its connection the code promises less: a request that was run     *)
(* before may be run again in that connection's name.                      *)
(***************************************************************************)
EXTENDS Naturals, Sequences, FiniteSets, SequencesExt

CONSTANT Conns

VARIABLES
    sent,      \* connection -> how many requests its client has sent
    handled,   \* connection -> the requests run in its name, <<sender, number>>
    closed,    \* connections dropped
    broken     \* connections reset by their peer

vars == <<sent, handled, closed, broken>>

Init ==
    /\ sent = [c \in Conns |-> 0]
    /\ handled = [c \in Conns |-> <<>>]
    /\ closed = {} /\ broken = {}

\* How many requests of c itself were run.
OwnHandled(c) == Cardinality({i \in DOMAIN handled[c] : handled[c][i][1] = c})

Send(c) ==
    /\ c \notin closed \cup broken
    /\ sent' = [sent EXCEPT ![c] = @ + 1]
    /\ UNCHANGED <<handled, closed, broken>>

\* Running a request answers others, and an answer to a client that has left is
\* itself answered by a reset.
AnswerMayBreak ==
    /\ broken \subseteq broken'
    /\ broken' \in SUBSET Conns
    /\ broken' \cap closed = broken \cap closed

Handle(c) ==
    /\ c \notin closed
    /\ OwnHandled(c) < sent[c]
    /\ handled' = [handled EXCEPT ![c] = Append(@, <<c, OwnHandled(c) + 1>>)]
    /\ AnswerMayBreak
    /\ UNCHANGED <<sent, closed>>

HandleAgain(c) ==
    /\ c \in broken \ closed
    /\ \E d \in Conns : \E r \in ToSet(handled[d]) :
           handled' = [handled EXCEPT ![c] = Append(@, r)]
    /\ AnswerMayBreak
    /\ UNCHANGED <<sent, closed>>

Break(c) ==
    /\ c \notin closed
    /\ broken' = broken \cup {c}
    /\ UNCHANGED <<sent, handled, closed>>

Close(c) ==
    /\ closed' = closed \cup {c}
    /\ UNCHANGED <<sent, handled, broken>>

Next == \E c \in Conns :
    Send(c) \/ Handle(c) \/ HandleAgain(c) \/ Break(c) \/ Close(c)

Spec == Init /\ [][Next]_vars
=============================================================================
