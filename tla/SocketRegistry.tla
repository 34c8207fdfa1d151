--------------------------- MODULE SocketRegistry ---------------------------
(***************************************************************************)
(* What the server's list of client sockets promises: for every open       *)
(* socket descriptor, the TLS connection accepted on it and no other,      *)
(* whatever has been opened and closed since.  Module SocketTree           *)
(* implements it.                                                          *)
(***************************************************************************)
EXTENDS Naturals

CONSTANTS Sockets, Connections, NoConnection

VARIABLES
    registered,   \* socket -> the connection on it, or NoConnection
    accepted      \* connections accepted so far

registryVars == <<registered, accepted>>

RegistryInit ==
    /\ registered = [s \in Sockets |-> NoConnection]
    /\ accepted = {}

\* A connection is accepted once, on a descriptor that is not in use.
Register(s, k) ==
    /\ registered[s] = NoConnection
    /\ k \in Connections \ accepted
    /\ registered' = [registered EXCEPT ![s] = k]
    /\ accepted' = accepted \cup {k}

Unregister(s) ==
    /\ registered[s] # NoConnection
    /\ registered' = [registered EXCEPT ![s] = NoConnection]
    /\ UNCHANGED accepted

RegistryNext ==
    \E s \in Sockets : Unregister(s) \/ \E k \in Connections : Register(s, k)

RegistrySpec == RegistryInit /\ [][RegistryNext]_registryVars
=============================================================================
