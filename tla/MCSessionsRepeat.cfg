SPECIFICATION Spec
CONSTANTS
    c1 = c1
    c2 = c2
    ann = ann
    bob = bob
    p = p
    q = q
    Clients = {c1, c2}
    Logins = {ann}
    Passwords = {p, q}
    f1 = f1
    f2 = f2
    Fds = {f1, f2}
    NoFd = NoFd
    MaxId = 2
    MaxFaults = 1
    QueueLen = 2
    InitialUsers <- OneUser
    NoRow = NoRow
    NoLink = NoLink
    NoHash = NoHash
    NoLogin = NoLogin
PROPERTIES RepeatIsCompared
CHECK_DEADLOCK FALSE
