SPECIFICATION Spec
CHECK_DEADLOCK FALSE
CONSTANTS
    b1 = b1
    b2 = b2
    r1 = r1
    r2 = r2
    r3 = r3
    w1 = w1
    w2 = w2
    w3 = w3
    n1 = n1
    n2 = n2
    fA = fA
    fB = fB
    Bridge = {b1, b2}
    Reader = {r1, r2, r3}
    Writer = {w1, w3}
    Name = {n1, n2}
    readerName <- MCNames
    FName = {fA, fB, none}
    NoFunction = none
    Resolved = {fA}
    DynReader = {r3}
    DynWriter = {w3}
    Connector <- MCShared
    NoBridge = NoBridge
    MaxMessages = 2
INVARIANTS TypeOK IInv Entries OwnershipAgrees FreedExactlyOnce OnlyConfiguredForms
PROPERTIES Amplification SilentAfterTermination
