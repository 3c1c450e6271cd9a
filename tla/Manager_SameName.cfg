SPECIFICATION Spec
CHECK_DEADLOCK FALSE
CONSTANTS
    p1 = p1
    p2 = p2
    proto = proto
    c1 = c1
    c2 = c2
    c3 = c3
    c4 = c4
    s = s
    t = t
    Prefix = {p1, p2, proto, c1, c2, c3, c4}
    Name = {s, t}
    EndPointName <- MCEndPointName
    getEndPointName <- MCgetEndPointName
    Null = Null
    Documents <- MCSameName
    MaxElements = 3
    MaxFailures = 0
INVARIANT EveryBridgeTerminated
