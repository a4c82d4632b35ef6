CONSTANTS
    a = a
    b = b
    la = la
    lb = lb
    r1 = r1
    c1 = c1
    r2 = r2
    d1 = d1
    nil = nil
    Calls = {r1, c1, r2, d1}
    Drivers = {a, b}
    Peer <- MCPeer
    Server <- MCServer
    Parent <- MCParent
    LockChoices <- MCLockChoices
SPECIFICATION Spec
PROPERTY CallbacksReturn
CHECK_DEADLOCK FALSE
