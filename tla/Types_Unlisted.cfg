SPECIFICATION Spec
CHECK_DEADLOCK FALSE
CONSTANTS
    p1 = p1
    p2 = p2
    ta = ta
    tb = tb
    own = own
    pack = pack
    broken = broken
    Part = {p1, p2}
    Type = {ta, tb}
    Lib = {own, pack, broken}
    Null = Null
    Xml = Xml
    Generic = Generic
    Exports = {own, pack}
    defines <- MCdefines
    Documents <- MCUnlisted
    MaxElements = 3
    MaxFailures = 0
INVARIANT DefaultLibrariesServe
