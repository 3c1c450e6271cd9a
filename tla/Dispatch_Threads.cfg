SPECIFICATION Spec
CHECK_DEADLOCK FALSE
CONSTANTS
    r1 = r1
    r2 = r2
    r3 = r3
    w1 = w1
    w2 = w2
    n1 = n1
    n2 = n2
    n3 = n3
    fA = fA
    fB = fB
    Reader = {r1, r2, r3}
    Writer = {w1, w2}
    Name = {n1, n2, n3}
    FName = {fA, fB, none}
    NoFunction = none
    Bridges <- MCBridges
    Resolved = {fA, fB}
    Generic = {w1}
    DynamicType = {w2}
    Null = Null
INVARIANTS TypeOK DispatchInv DeliveredInOrder NeverTwice OneLateWrite NoCircularWait
PROPERTIES EveryMessageReturns
