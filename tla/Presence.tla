------------------------------ MODULE Presence ------------------------------
(***************************************************************************)
(* What the session handling of the chat server promises, without file     *)
(* descriptors, requests, crashes or the order in which events arrive:     *)
(* an account is either held by one client or by nobody, and whoever holds *)
(* it has typed its password.  Module Sessions implements this one.        *)
(***************************************************************************)

CONSTANTS
    Clients,      \* the running chat clients
    Ids,          \* row ids of table users
    Passwords,    \* the passwords the users type
    NoAccount,    \* no row with this id
    AnyPassword,  \* the row lacks its user_notifications row (see Sessions)
    Nobody        \* the account is offline

VARIABLES
    account,      \* id -> its password, NoAccount or AnyPassword
    typed,        \* client -> the passwords its user has typed so far
    holder        \* id -> the client that gets the messages of this account

presenceVars == <<account, typed, holder>>

PresenceTypeOK ==
    /\ account \in [Ids -> Passwords \cup {NoAccount, AnyPassword}]
    /\ typed \in [Clients -> SUBSET Passwords]
    /\ holder \in [Ids -> Clients \cup {Nobody}]

Knows(c, id) == account[id] = AnyPassword \/ account[id] \in typed[c]

PresenceInit ==
    /\ account \in [Ids -> Passwords \cup {NoAccount}]
    /\ typed = [c \in Clients |-> {}]
    /\ holder = [id \in Ids |-> Nobody]

\* The user of c types a password, on the login or on the registration form.
TypePassword(c, typing) ==
    /\ typing \subseteq Passwords
    /\ typed' = [typed EXCEPT ![c] = @ \cup typing]
    /\ UNCHANGED <<account, holder>>

OpenAccount(id, value) ==
    /\ account[id] = NoAccount
    /\ account' = [account EXCEPT ![id] = value]
    /\ UNCHANGED <<typed, holder>>

\* An account is closed from a client whose user knows its password.
CloseAccount(c, id) ==
    /\ account[id] # NoAccount
    /\ Knows(c, id)
    /\ account' = [account EXCEPT ![id] = NoAccount]
    /\ holder' = [holder EXCEPT ![id] = Nobody]
    /\ UNCHANGED typed

\* A sign-in or a reconnection: c takes an account whose password it knows.
Hold(c, id) ==
    /\ account[id] # NoAccount
    /\ Knows(c, id)
    /\ holder' = [holder EXCEPT ![id] = c]
    /\ UNCHANGED <<account, typed>>

\* So is it signed out, perhaps not from the client that holds it.
SignOut(c, id) ==
    /\ Knows(c, id)
    /\ holder' = [holder EXCEPT ![id] = Nobody]
    /\ UNCHANGED <<account, typed>>

Release(ids) ==
    /\ holder' = [id \in Ids |-> IF id \in ids THEN Nobody ELSE holder[id]]
    /\ UNCHANGED <<account, typed>>

\* A connection of c ends, and with it c's hold on the accounts it was used for.
Disconnect(c) ==
    \E ids \in SUBSET {id \in Ids : holder[id] = c} : Release(ids)

Restart == Release(Ids)

PresenceNext ==
    \/ \E c \in Clients, typing \in SUBSET Passwords : TypePassword(c, typing)
    \/ \E id \in Ids, v \in Passwords \cup {AnyPassword} : OpenAccount(id, v)
    \/ \E c \in Clients, id \in Ids :
            CloseAccount(c, id) \/ Hold(c, id) \/ SignOut(c, id)
    \/ \E c \in Clients : Disconnect(c)
    \/ Restart

PresenceSpec == PresenceInit /\ [][PresenceNext]_presenceVars

\* Messages of an account go only to a client whose user has typed the
\* password of that account.
HolderKnows ==
    \A id \in Ids : holder[id] # Nobody => Knows(holder[id], id)
=============================================================================
