SPECIFICATION Spec
CHECK_DEADLOCK FALSE
CONSTANTS
    a = a
    b = b
    text = text
    other = other
    Program = {a, b}
    Arguments <- MCArguments
    Files <- MCFiles
    Participant = {1, 2}
    Domain = {0, 5}
    Topic = {text, other}
    TextTopic = text
    PublisherDomain = 0
    SubscriberDomain = 5
    MaxSent = 2
    MaxLost = 1
INVARIANTS TypeOK ServiceInv NothingDeletedInUse GoneOnlyInNameOrder CrashesOnlyWhileLoading WiredInTime OnlyThroughTheService FlowInv
PROPERTIES ShutdownEnds Communicates
