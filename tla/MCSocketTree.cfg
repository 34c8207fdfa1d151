SPECIFICATION TreeSpec
CONSTANTS
    Sockets <- MCSockets
    Addresses = {a1, a2, a3, a4}
    Senders = {t1}
    MaxConnections = 5
    Nil = Nil
    Nobody = Nobody
    Server = Server
    NoConnection = NoConnection
SYMMETRY Interchangeable
CHECK_DEADLOCK FALSE
INVARIANTS
    TreeTypeOK
    WritersTakeTurns
    LocksAreReleased
PROPERTIES
    FreedMemoryNotUsed
    ImplementsRegistry
