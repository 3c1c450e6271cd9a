SPECIFICATION Spec
CHECK_DEADLOCK FALSE
CONSTANTS
    b1 = b1
    b2 = b2
    r1 = r1
    r2 = r2
    r3 = r3
    w1 = w1
    w2 = w2
    n1 = n1
    n2 = n2
    fA = fA
    fB = fB
    Bridge = {b1, b2}
    Reader = {r1, r2, r3}
    Writer = {w1, w2}
    Name = {n1, n2}
    readerName <- MCNames
    FName = {fA, fB, none}
    NoFunction = none
    Resolved = {fA}
    DynReader = {r1, r3}
    DynWriter = {w1}
    Connector <- MCConnectors
    NoBridge = NoBridge
    MaxMessages = 2

PROPERTY RelaySpec
INVARIANT Tables
