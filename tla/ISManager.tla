------------------------------- MODULE ISManager -------------------------------
(***************************************************************************)
(* ISManager (src/ISManager.cpp): the constructor reads a configuration    *)
(* file from top to bottom, creating participants, endpoints and bridges   *)
(* and wiring connectors as it meets them, and the destructor takes it all *)
(* down again.                                                             *)
(*                                                                         *)
(* A file is a sequence of elements, an <is> element being followed by the *)
(* bridges and the connectors in it.  Objects are known by the position of *)
(* the element that made them.  Fast RTPS may refuse to create a           *)
(* participant, a subscriber or a publisher.  What wiring a connector does *)
(* to a bridge is the subject of module ISBridge: here it is one entry of  *)
(* wired.                                                                  *)
(***************************************************************************)
EXTENDS Naturals, Sequences, FiniteSets, Functions

CONSTANTS
    Prefix,             \* participant profiles, names of bridges and connectors
    Name,               \* endpoint profiles, names of custom endpoints
    EndPointName,       \* names the manager knows endpoints by
    getEndPointName,    \* Prefix \X Name -> EndPointName, joining with a dot
    Null,               \* a null pointer, or an attribute that is not there
    Documents,          \* the files considered
    MaxElements,        \* bound: elements of a file
    MaxFailures         \* bound: objects Fast RTPS refuses to create

\* An end of a connector: participant_profile, bridge_name, and the attribute
\* that goes with them (subscriber_profile, reader_name and so on).
Ref == [part : Prefix \cup {Null}, bridge : Prefix \cup {Null}, name : Name \cup {Null}]

Element ==
    [tag : {"is"}, profiles : BOOLEAN]
    \cup [tag : {"bridge"}, name : Prefix, library : BOOLEAN,
          makes : SUBSET {"reader", "writer"},  \* what its library can create
          reader : SUBSET Name, writer : SUBSET Name]
    \cup [tag : {"connector"}, name : Prefix, reader : Ref, writer : Ref]

\* An <is> element has its bridges before its connectors, wherever they are in
\* the text: that is the order in which they are loaded.
InOrder(d) ==
    \A i \in DOMAIN d :
        /\ i = 1 => d[i].tag = "is"
        /\ i > 1 /\ d[i].tag = "bridge" => d[i - 1].tag # "connector"

\* An endpoint, by its kind, the position of its element and its name there.
Object == {"reader", "writer"} \X (1..MaxElements) \X Name

ASSUME ISManagerAssumption ==
    /\ getEndPointName \in [Prefix \X Name -> EndPointName]
    /\ \A p \in Prefix, m, n \in Name :
            getEndPointName[<<p, m>>] = getEndPointName[<<p, n>>] => m = n
    /\ Null \notin Prefix \cup Name \cup EndPointName \cup Object \cup (1..MaxElements)
    /\ MaxElements \in Nat /\ MaxFailures \in Nat
    /\ \A d \in Documents :
            d \in Seq(Element) /\ Len(d) <= MaxElements /\ InOrder(d)

VARIABLES
    document,           \* the file
    at,                 \* the position of the element being loaded
    pc,                 \* where the manager is
    bridges,            \* name -> bridge, by the position that made it
    readers, writers,   \* endpoint name -> endpoint
    rtps_participants,  \* profile -> "none", "up", "null" or "removed"
    active,
    subName, pubName,   \* locals of loadConnector
    subscribed,         \* readers with a subscription Fast RTPS may call back
    wired,              \* what addReader, addWriter and addFunction were called
                        \* for, in order
    m_bTerminating,     \* endpoints whose onTerminate has run
    destroyed,          \* bridges whose destructor has run
    freed,              \* how often each endpoint has been deleted
    failures            \* objects Fast RTPS has refused to create

maps   == <<bridges, readers, writers, active>>
rtps   == <<rtps_participants, subscribed, failures>>
locals == <<at, pc, subName, pubName>>
ending == <<m_bTerminating, destroyed, freed>>
vars   == <<document, maps, rtps, locals, wired, ending>>

-------------------------------------------------------------------------------
Known(map) == Range(map) \ {Null}

Init ==
    /\ document \in Documents
    /\ at = 1
    /\ pc = "element"
    /\ bridges = [p \in Prefix |-> Null]
    /\ readers = [e \in EndPointName |-> Null]
    /\ writers = [e \in EndPointName |-> Null]
    /\ rtps_participants = [p \in Prefix |-> "none"]
    /\ active = FALSE
    /\ subName = Null
    /\ pubName = Null
    /\ subscribed = {}
    /\ wired = <<>>
    /\ m_bTerminating = {}
    /\ destroyed = {}
    /\ freed = [o \in Object |-> 0]
    /\ failures = 0

element == document[at]
Meets(tag) == pc = "element" /\ at <= Len(document) /\ element.tag = tag
Advance == pc' = "element" /\ at' = at + 1

-------------------------------------------------------------------------------
(* The constructor *)

\* An <is> element without profiles ends loading: what is there so far stays.
loadIS ==
    /\ Meets("is")
    /\ at' = IF element.profiles THEN at + 1 ELSE Len(document) + 1
    /\ UNCHANGED <<document, pc, subName, pubName, maps, rtps, wired, ending>>

\* Endpoints of a custom bridge go under the bridge's name and theirs.
addEndPoints(map, kind, names) ==
    [e \in EndPointName |->
        IF \E n \in names : e = getEndPointName[<<element.name, n>>]
        THEN <<kind, at, CHOOSE n \in names : e = getEndPointName[<<element.name, n>>]>>
        ELSE map[e]]

\* Seeded bug for addBridge: the bridge is not stored.
addNoBridge(name) == active' = TRUE /\ UNCHANGED bridges

addBridge(name) ==
    /\ bridges' = [bridges EXCEPT ![name] = at]
    /\ active' = TRUE

\* A create_reader or create_writer that is missing, or that returns null, is
\* used all the same.
CannotMake ==
    \/ element.reader # {} /\ "reader" \notin element.makes
    \/ element.writer # {} /\ "writer" \notin element.makes

loadBridge ==
    /\ Meets("bridge")
    /\ element.library
    /\ ~CannotMake
    /\ addBridge(element.name)
    /\ readers' = addEndPoints(readers, "reader", element.reader)
    /\ writers' = addEndPoints(writers, "writer", element.writer)
    /\ Advance
    /\ UNCHANGED <<document, subName, pubName, rtps, wired, ending>>

crashBridge ==
    /\ Meets("bridge")
    /\ element.library
    /\ CannotMake
    /\ pc' = "crashed"
    /\ UNCHANGED <<document, at, subName, pubName, maps, rtps, wired, ending>>

\* No library element: the exception ends loadBridge before it has done a thing.
skipBridge ==
    /\ Meets("bridge")
    /\ ~element.library
    /\ Advance
    /\ UNCHANGED <<document, subName, pubName, maps, rtps, wired, ending>>

\* loadConnector begins by checking the attributes of both ends.
Complete(ref) == (ref.part = Null) # (ref.bridge = Null) /\ ref.name # Null

checkConnector ==
    /\ Meets("connector")
    /\ IF Complete(element.reader) /\ Complete(element.writer)
       THEN pc' = "readerParticipant" /\ UNCHANGED at
       ELSE Advance
    /\ UNCHANGED <<document, subName, pubName, maps, rtps, wired, ending>>

\* The name is neither a bridge's nor that of a participant asked for before.
IsNew(p) == p # Null /\ bridges[p] = Null /\ rtps_participants[p] = "none"

\* getParticipant: a participant that could not be created is remembered as null.
getParticipant(p) ==
    \/ /\ ~IsNew(p)
       /\ UNCHANGED <<rtps_participants, failures>>
    \/ /\ IsNew(p)
       /\ rtps_participants' = [rtps_participants EXCEPT ![p] = "up"]
       /\ UNCHANGED failures
    \/ /\ IsNew(p)
       /\ failures < MaxFailures
       /\ rtps_participants' = [rtps_participants EXCEPT ![p] = "null"]
       /\ failures' = failures + 1

\* What getParticipant has just returned is not null.
HasParticipant(p) == bridges[p] = Null /\ rtps_participants[p] = "up"

getReaderParticipant ==
    /\ pc = "readerParticipant"
    /\ getParticipant(element.reader.part)
    /\ pc' = "reader"
    /\ UNCHANGED <<document, at, subName, pubName, subscribed, maps, wired, ending>>

\* The name an end is looked up by; it stays empty without a participant.
lookupName(ref) ==
    IF ref.part = Null THEN getEndPointName[<<ref.bridge, ref.name>>]
    ELSE IF HasParticipant(ref.part) THEN getEndPointName[<<ref.part, ref.name>>]
    ELSE Null

\* createReader, when the reader is a participant's.  A refused subscriber is
\* reported, and the lookup goes ahead with its name.
createReader ==
    /\ pc = "reader"
    /\ subName' = lookupName(element.reader)
    /\ LET ref == element.reader
           new == <<"reader", at, ref.name>>
           creates == ref.part # Null /\ HasParticipant(ref.part)
       IN  \/ /\ ~creates
              /\ UNCHANGED <<readers, subscribed, failures>>
           \/ /\ creates
              /\ readers' = [readers EXCEPT ![subName'] = new]
              /\ subscribed' = subscribed \cup {new}
              /\ UNCHANGED failures
           \/ /\ creates
              /\ failures < MaxFailures
              /\ failures' = failures + 1
              /\ UNCHANGED <<readers, subscribed>>
    /\ pc' = "writerParticipant"
    /\ UNCHANGED <<document, at, pubName, bridges, writers, active,
                   rtps_participants, wired, ending>>

getWriterParticipant ==
    /\ pc = "writerParticipant"
    /\ getParticipant(element.writer.part)
    /\ pc' = "writer"
    /\ UNCHANGED <<document, at, subName, pubName, subscribed, maps, wired, ending>>

\* createWriter reads the attributes of the publisher before it checks that
\* there is one.
createWriter ==
    /\ pc = "writer"
    /\ pubName' = lookupName(element.writer)
    /\ LET ref == element.writer
           creates == ref.part # Null /\ HasParticipant(ref.part)
       IN  \/ /\ ~creates
              /\ pc' = "connect"
              /\ UNCHANGED <<writers, failures>>
           \/ /\ creates
              /\ pc' = "connect"
              /\ writers' = [writers EXCEPT ![pubName'] = <<"writer", at, ref.name>>]
              /\ UNCHANGED failures
           \/ /\ creates
              /\ failures < MaxFailures
              /\ failures' = failures + 1
              /\ pc' = "crashed"
              /\ UNCHANGED writers
    /\ UNCHANGED <<document, at, subName, bridges, readers, active,
                   rtps_participants, subscribed, wired, ending>>

\* Seeded bug for Found: the end of the map is not checked for.
FoundUnchecked(map, name) == name # Null

Found(map, name) == name # Null /\ map[name] # Null

\* The custom bridge an end names, if it is one.
customBridge(ref) == IF ref.bridge = Null THEN Null ELSE bridges[ref.bridge]

\* Seeded bug for bridgeOf: the writer's custom bridge is left out.
bridgeOfReader(i) ==
    IF customBridge(document[i].reader) # Null THEN customBridge(document[i].reader)
    ELSE i

\* A connector has a bridge of its own unless one of its ends has one.
bridgeOf(i) ==
    IF customBridge(document[i].reader) # Null THEN customBridge(document[i].reader)
    ELSE IF customBridge(document[i].writer) # Null THEN customBridge(document[i].writer)
    ELSE i

connect ==
    /\ pc = "connect"
    /\ Found(readers, subName) /\ Found(writers, pubName)
    /\ customBridge(element.reader) = Null \/ customBridge(element.writer) = Null
    /\ IF bridgeOf(at) = at THEN addBridge(element.name)
                            ELSE UNCHANGED <<bridges, active>>
    /\ wired' = Append(wired, [bridge |-> bridgeOf(at),
                               reader |-> readers[subName],
                               writer |-> writers[pubName]])
    /\ Advance
    /\ UNCHANGED <<document, subName, pubName, readers, writers, rtps, ending>>

refuseConnector ==
    /\ pc = "connect"
    /\ \/ ~Found(readers, subName)
       \/ ~Found(writers, pubName)
       \/ customBridge(element.reader) # Null /\ customBridge(element.writer) # Null
    /\ Advance
    /\ UNCHANGED <<document, subName, pubName, maps, rtps, wired, ending>>

-------------------------------------------------------------------------------
(* The destructor, when main ends: at once if the manager is not active, and *)
(* after a key has been pressed if it is.                                    *)

onTerminate ==
    /\ pc = "element"
    /\ at > Len(document)
    /\ m_bTerminating' =
            UNION { {c.reader, c.writer} :
                        c \in {c \in Range(wired) : c.bridge \in Known(bridges)} }
    /\ pc' = "terminated"
    /\ UNCHANGED <<document, at, subName, pubName, maps, rtps, wired, destroyed, freed>>

participantOf(r) == document[r[2]].reader.part

\* Fast RTPS deletes the participant's subscribers and calls their listeners
\* no more.
removeParticipant(p) ==
    /\ pc = "terminated"
    /\ rtps_participants[p] = "up"
    /\ rtps_participants' = [rtps_participants EXCEPT ![p] = "removed"]
    /\ subscribed' = {r \in subscribed : participantOf(r) # p}
    /\ UNCHANGED <<document, maps, failures, locals, wired, ending>>

\* The endpoints a bridge deletes: every reader added to it, and the writers it
\* was the last to be given (OwnershipAgrees of module ISBridge).
Owned(b) ==
    { c.reader : c \in {c \in Range(wired) : c.bridge = b} }
    \cup { wired[i].writer : i \in {i \in DOMAIN wired :
            /\ wired[i].bridge = b
            /\ \A j \in DOMAIN wired :
                    wired[j].writer = wired[i].writer => j <= i} }

\* Seeded bug for deleteBridge: the participants are still there.
deleteLiveBridge(b) ==
    /\ pc = "terminated"
    /\ b \notin destroyed
    /\ destroyed' = destroyed \cup {b}
    /\ freed' = [o \in Object |-> freed[o] + IF o \in Owned(b) THEN 1 ELSE 0]
    /\ UNCHANGED <<document, maps, rtps, locals, wired, m_bTerminating>>

deleteBridge(b) ==
    /\ pc = "terminated"
    /\ "up" \notin Range(rtps_participants)
    /\ b \notin destroyed
    /\ destroyed' = destroyed \cup {b}
    /\ freed' = [o \in Object |-> freed[o] + IF o \in Owned(b) THEN 1 ELSE 0]
    /\ UNCHANGED <<document, maps, rtps, locals, wired, m_bTerminating>>

clear ==
    /\ pc = "terminated"
    /\ "up" \notin Range(rtps_participants)
    /\ Known(bridges) \subseteq destroyed
    /\ bridges' = [p \in Prefix |-> Null]
    /\ readers' = [e \in EndPointName |-> Null]
    /\ writers' = [e \in EndPointName |-> Null]
    /\ pc' = "ended"
    /\ UNCHANGED <<document, at, subName, pubName, active, rtps, wired, ending>>

-------------------------------------------------------------------------------
loadConnector ==
    \/ checkConnector
    \/ getReaderParticipant \/ createReader
    \/ getWriterParticipant \/ createWriter
    \/ connect \/ refuseConnector

Next ==
    \/ loadIS
    \/ loadBridge \/ crashBridge \/ skipBridge
    \/ loadConnector
    \/ onTerminate
    \/ \E p \in Prefix : removeParticipant(p)
    \/ \E b \in Known(bridges) : deleteBridge(b)
    \/ clear

Spec == Init /\ [][Next]_vars

-------------------------------------------------------------------------------
(* Properties *)

\* The types of the fields.
TypeOK ==
    /\ document \in Documents
    /\ at \in 1..(MaxElements + 1)
    /\ pc \in {"element", "readerParticipant", "reader", "writerParticipant",
               "writer", "connect", "crashed", "terminated", "ended"}
    /\ bridges \in [Prefix -> (1..MaxElements) \cup {Null}]
    /\ readers \in [EndPointName -> Object \cup {Null}]
    /\ writers \in [EndPointName -> Object \cup {Null}]
    /\ rtps_participants \in [Prefix -> {"none", "up", "null", "removed"}]
    /\ active \in BOOLEAN
    /\ {subName, pubName} \subseteq EndPointName \cup {Null}
    /\ subscribed \subseteq Object
    /\ wired \in Seq([bridge : 1..MaxElements, reader : Object, writer : Object])
    /\ m_bTerminating \subseteq Object
    /\ destroyed \subseteq 1..MaxElements
    /\ freed \in [Object -> Nat]
    /\ failures \in 0..MaxFailures

\* The positions of the elements with a tag that loading can get to.
Positions(tag) ==
    { i \in DOMAIN document :
        /\ document[i].tag = tag
        /\ \A j \in 1..(i - 1) : document[j].tag = "is" => document[j].profiles }

\* A file as resource/config.xml shows it: bridges, connectors and participants
\* have names of their own, an end with a bridge_name names a bridge of the file,
\* and no two endpoint names read alike once joined.
Ends(i) == {document[i].reader, document[i].writer}
Parts == {ref.part : ref \in UNION {Ends(i) : i \in Positions("connector")}} \ {Null}
BridgeNames == { document[i].name : i \in Positions("bridge") }

Documented ==
    /\ \A i, j \in Positions("bridge") \cup Positions("connector") :
            document[i].name = document[j].name => i = j
    /\ \A i \in Positions("bridge") \cup Positions("connector") :
            document[i].name \notin Parts
    /\ \A i \in Positions("connector") : \A ref \in Ends(i) :
            ref.bridge \in BridgeNames \cup {Null}
    /\ IsInjective(getEndPointName)

\* What the file asks for, in terms of the file alone: an end is the endpoint of
\* the connector's own participant, or the custom endpoint that an earlier bridge
\* element declares; a connector joins two ends of which at most one is custom,
\* over the custom end's bridge if there is one.
Declares(j, i, kind, ref) ==
    /\ j \in Positions("bridge") /\ j < i
    /\ document[j].library /\ document[j].name = ref.bridge
    /\ ref.name \in document[j][kind]

Makes(i, kind, ref) ==
    IF ref.part # Null THEN {i} ELSE {j \in DOMAIN document : Declares(j, i, kind, ref)}

AskedOf(i) ==
    LET d == document[i]
        made == Makes(i, "reader", d.reader) \X Makes(i, "writer", d.writer)
    IN  { [bridge |-> IF m[1] # i THEN m[1] ELSE m[2],
           reader |-> <<"reader", m[1], d.reader.name>>,
           writer |-> <<"writer", m[2], d.writer.name>>] :
          m \in {m \in made : i \in {m[1], m[2]}} }

\* The connectors that are complete.
Connectors ==
    {i \in Positions("connector") : Complete(document[i].reader) /\ Complete(document[i].writer)}

Asked == UNION {AskedOf(i) : i \in Connectors}

Loaded == pc = "element" /\ at > Len(document)

\* A file in the documented form gets what it asks for, connector by connector
\* and endpoint by endpoint, when Fast RTPS refuses nothing; and the manager is
\* active exactly when there is something to terminate.
LoadsWhatIsAsked ==
    /\ Loaded /\ Documented /\ failures = 0 => Range(wired) = Asked
    /\ pc \notin {"crashed", "ended"} => (active <=> Known(bridges) # {})

\* Every endpoint of every connector is told to terminate before participants
\* are removed, and deleted once, when the file has the documented form and Fast
\* RTPS has refused no subscriber; a refused one is looked up all the same, and
\* an older reader of the same name may then be found in its place.
TakenDownOnce ==
    Documented /\ failures = 0 =>
        /\ \A o \in Object : freed[o] <= 1
        /\ pc \in {"terminated", "ended"} =>
                \A c \in Range(wired) : {c.reader, c.writer} \subseteq m_bTerminating
        /\ pc = "ended" =>
                \A c \in Range(wired) : freed[c.reader] = 1 /\ freed[c.writer] = 1

\* Whatever the file and whatever fails, no reader is deleted while Fast RTPS may
\* still call it back: the participants are gone before the bridges are deleted.
NoLiveListenerDeleted == \A r \in subscribed : freed[r] = 0

\* Why the three hold, an inductive invariant.  Loading is at an element that can be
\* got to, and begins a connector only if it is complete;
Connecting == {"readerParticipant", "reader", "writerParticipant", "writer", "connect"}
Ending == {"terminated", "ended"}

Placed ==
    /\ at \in 1..(Len(document) + 1)
    /\ at \in DOMAIN document =>
            \A j \in 1..(at - 1) : document[j].tag = "is" => document[j].profiles
    /\ pc \in Connecting => at \in Connectors

\* a subscription is in a participant that is up, and participants go last;
Subscribed ==
    /\ \A r \in subscribed :
            participantOf(r) \in Prefix /\ rtps_participants[participantOf(r)] = "up"
    /\ pc \notin Ending => "removed" \notin Range(rtps_participants) /\ destroyed = {}
    /\ destroyed # {} => "up" \notin Range(rtps_participants)
    /\ \A o \in Object : freed[o] # 0 => destroyed # {}
    /\ failures = 0 => "null" \notin Range(rtps_participants)

\* bridges and endpoints are found under the names of the elements they come from;
prefixOf(o) ==
    LET d == document[o[2]]
    IN  IF d.tag = "bridge" THEN d.name
        ELSE IF o[1] = "reader" THEN d.reader.part ELSE d.writer.part

ComesFrom(e, o, kind) ==
    /\ o[1] = kind
    /\ \/ o[2] \in Positions("connector")
       \/ /\ o[2] \in Positions("bridge") /\ o[2] < at
          /\ document[o[2]].library /\ o[3] \in document[o[2]][kind]
    /\ prefixOf(o) \in Prefix
    /\ e = getEndPointName[<<prefixOf(o), o[3]>>]

Origins ==
    /\ \A p \in Prefix : bridges[p] # Null =>
            /\ bridges[p] \in Positions("bridge") \cup Positions("connector")
            /\ document[bridges[p]].name = p
    /\ \A e \in EndPointName :
            /\ readers[e] # Null => ComesFrom(e, readers[e], "reader")
            /\ writers[e] # Null => ComesFrom(e, writers[e], "writer")
    /\ pc # "ended" => (active <=> Known(bridges) # {})

\* in a file of the documented form, what a custom bridge declares stays where it
\* is, and the ends of a connector are found between createReader and the lookup;
Kept ==
    pc # "ended" => \A i \in Positions("bridge") : i < at /\ document[i].library =>
        /\ bridges[document[i].name] = i
        /\ \A n \in document[i].reader :
                readers[getEndPointName[<<document[i].name, n>>]] = <<"reader", i, n>>
        /\ \A n \in document[i].writer :
                writers[getEndPointName[<<document[i].name, n>>]] = <<"writer", i, n>>

LooksUp(map, name, kind, ref) ==
    IF ref.part = Null THEN name = getEndPointName[<<ref.bridge, ref.name>>]
    ELSE /\ name = getEndPointName[<<ref.part, ref.name>>]
         /\ map[name] = <<kind, at, ref.name>>

LookedUp ==
    /\ pc = "reader" /\ element.reader.part # Null =>
            rtps_participants[element.reader.part] = "up"
    /\ pc = "writer" /\ element.writer.part # Null =>
            rtps_participants[element.writer.part] = "up"
    /\ pc \in {"writerParticipant", "writer", "connect"} =>
            LooksUp(readers, subName, "reader", element.reader)
    /\ pc = "connect" => LooksUp(writers, pubName, "writer", element.writer)

\* what is wired is what has been asked for so far, over bridges that are known to
\* the destructor, which deletes each of them and each of their endpoints once.
WiredSoFar ==
    /\ Range(wired) = UNION {AskedOf(i) : i \in {i \in Connectors : i < at}}
    /\ pc # "ended" => \A c \in Range(wired) : c.bridge \in Known(bridges)

LastOf(i) == \A j \in DOMAIN wired : wired[j].writer = wired[i].writer => j <= i

DeletedSoFar ==
    /\ \A i \in DOMAIN wired : \E k \in DOMAIN wired :
            wired[k].writer = wired[i].writer /\ LastOf(k)
    /\ \A o \in Object : freed[o] = IF \E b \in destroyed : o \in Owned(b) THEN 1 ELSE 0
    /\ pc \in Ending => \A c \in Range(wired) : {c.reader, c.writer} \subseteq m_bTerminating
    /\ pc = "ended" => \A c \in Range(wired) : c.bridge \in destroyed

ManagerInv ==
    /\ TypeOK /\ Placed /\ Subscribed /\ Origins
    /\ Documented /\ failures = 0 => Kept /\ LookedUp /\ WiredSoFar /\ DeletedSoFar

\* What the comment on ISBridge::onTerminate says, that ISManager calls it when
\* the execution of the bridge ends (ISBridge.h, line 77): when the destructor
\* has called it, every bridge with a connector has been told.
EveryBridgeTerminated ==
    pc = "terminated" =>
        \A c \in Range(wired) : {c.reader, c.writer} \subseteq m_bTerminating

\* What the check at the end of createWriter is for (line 422): a publisher that
\* cannot be created is reported and the rest of the file is loaded.
RefusedPublisherReported == pc = "crashed" => element.tag = "bridge"
===============================================================================
