--------------------------- MODULE ISManagerProofs ----------------------------
(* Theorems about the loading and the end of the manager in module ISManager,  *)
(* for every file and every name, however often Fast RTPS refuses an object.   *)
EXTENDS ISManager, TLAPS

-------------------------------------------------------------------------------
(* Files *)

\* The elements of a file, and the names in those of its connectors that are
\* complete.
LEMMA Elements ==
    ASSUME document \in Documents
    PROVE  /\ document \in Seq(Element) /\ Len(document) \in Nat /\ Len(document) <= MaxElements
           /\ DOMAIN document = 1..Len(document)
           /\ \A i \in DOMAIN document : document[i] \in Element /\ i \in 1..MaxElements
    BY ISManagerAssumption

LEMMA Bridges ==
    ASSUME document \in Documents, NEW i \in Positions("bridge")
    PROVE  /\ i \in DOMAIN document /\ document[i].tag = "bridge"
           /\ document[i].name \in Prefix
           /\ document[i].reader \subseteq Name /\ document[i].writer \subseteq Name
    BY Elements DEF Positions, Element

LEMMA CompleteConnectors ==
    ASSUME document \in Documents, NEW i \in Positions("connector")
    PROVE  /\ i \in DOMAIN document /\ document[i].tag = "connector"
           /\ document[i].name \in Prefix
           /\ document[i].reader \in Ref /\ document[i].writer \in Ref
           /\ \A ref \in Ref : Complete(ref) =>
                /\ ref.name \in Name
                /\ ref.part = Null => ref.bridge \in Prefix
                /\ ref.part # Null => ref.part \in Prefix /\ ref.bridge = Null
    BY Elements DEF Positions, Element, Ref, Complete

\* What a file says of itself stays the same.
LEMMA FileStays ==
    ASSUME document' = document
    PROVE  /\ \A tag : Positions(tag)' = Positions(tag)
           /\ Connectors' = Connectors
           /\ \A i : AskedOf(i)' = AskedOf(i)
           /\ Documented' = Documented
           /\ \A r : participantOf(r)' = participantOf(r)
           /\ \A o : prefixOf(o)' = prefixOf(o)
<1> USE DEF Positions
<1>1. Connectors' = Connectors
    BY DEF Connectors
<1>2. ASSUME NEW i PROVE AskedOf(i)' = AskedOf(i)
    BY DEF AskedOf, Makes, Declares
<1>3. Documented' = Documented
    BY DEF Documented, Parts, Ends, BridgeNames
<1> QED
    BY <1>1, <1>2, <1>3 DEF participantOf, prefixOf

LEMMA NextKeepsDocument ==
    ASSUME [Next]_vars
    PROVE  document' = document
    BY DEF Next, vars, loadIS, loadBridge, crashBridge, skipBridge, loadConnector, checkConnector,
        getReaderParticipant, createReader, getWriterParticipant, createWriter, connect,
        refuseConnector, onTerminate, removeParticipant, deleteBridge, clear

-------------------------------------------------------------------------------
(* Types, and the place of loading *)

\* What a step of loading a connector knows about the connector.
LEMMA Connector ==
    ASSUME TypeOK, Placed, pc \in Connecting
    PROVE  /\ at \in 1..MaxElements /\ at \in 1..Len(document)
           /\ at \in Connectors /\ at \in Positions("connector")
           /\ element.name \in Prefix /\ element.tag = "connector"
           /\ \A ref \in {element.reader, element.writer} :
                /\ ref \in Ref /\ Complete(ref) /\ ref.name \in Name
                /\ ref.part = Null => ref.bridge \in Prefix
                /\ ref.part # Null => ref.part \in Prefix /\ ref.bridge = Null
<1>1. at \in Connectors
    BY DEF Placed
<1>2. at \in Positions("connector") /\ Complete(element.reader) /\ Complete(element.writer)
    BY <1>1 DEF Connectors, element
<1> QED
    BY <1>1, <1>2, CompleteConnectors, Elements DEF TypeOK, element

LEMMA LookupType ==
    ASSUME TypeOK, NEW ref \in Ref, Complete(ref), ref.name \in Name,
           ref.part = Null => ref.bridge \in Prefix,
           ref.part # Null => ref.part \in Prefix
    PROVE  /\ lookupName(ref) \in EndPointName \cup {Null}
           /\ HasParticipant(ref.part) => lookupName(ref) \in EndPointName
    BY ISManagerAssumption DEF lookupName, TypeOK

LEMMA Wires ==
    ASSUME TypeOK
    PROVE  /\ Len(wired) \in Nat /\ DOMAIN wired = 1..Len(wired)
           /\ \A i \in DOMAIN wired : wired[i] \in Range(wired)
           /\ \A c \in Range(wired) :
                c.bridge \in 1..MaxElements /\ c.reader \in Object /\ c.writer \in Object
<1> DEFINE Wire == [bridge : 1..MaxElements, reader : Object, writer : Object]
<1>1. wired \in Seq(Wire)
    BY DEF TypeOK
<1>2. \A c \in Wire : c.bridge \in 1..MaxElements /\ c.reader \in Object /\ c.writer \in Object
    OBVIOUS
<1> HIDE DEF Wire
<1> QED
    BY <1>1, <1>2 DEF Range

LEMMA TypesKept ==
    ASSUME TypeOK, Placed, Next
    PROVE  TypeOK'
<1> USE DEF TypeOK, maps, rtps, locals, ending
<1>a. /\ MaxElements \in Nat /\ MaxFailures \in Nat /\ document' = document
      /\ Len(document) \in Nat /\ Len(document) <= MaxElements
      /\ document \in Seq(Element)
    BY ISManagerAssumption, NextKeepsDocument, Elements
<1>b. pc = "element" /\ at <= Len(document) => at \in 1..MaxElements /\ at + 1 \in 1..(MaxElements + 1)
    BY <1>a
<1>1. CASE loadIS
    BY <1>1, <1>a, <1>b DEF loadIS, Meets
<1>2. CASE loadBridge
    <2>1. at \in 1..MaxElements /\ element \in Element /\ element.tag = "bridge"
        BY <1>2, <1>a, <1>b, Elements DEF loadBridge, Meets, element
    <2>2. element.name \in Prefix /\ element.reader \subseteq Name /\ element.writer \subseteq Name
        BY <2>1 DEF Element
    <2>3. ASSUME NEW kind \in {"reader", "writer"}, NEW names \in SUBSET Name, NEW map,
                 map \in [EndPointName -> Object \cup {Null}]
          PROVE  addEndPoints(map, kind, names) \in [EndPointName -> Object \cup {Null}]
        BY <2>1, <2>3 DEF addEndPoints, Object
    <2>4. readers' \in [EndPointName -> Object \cup {Null}]
        BY <1>2, <2>2, <2>3 DEF loadBridge
    <2>5. writers' \in [EndPointName -> Object \cup {Null}]
        BY <1>2, <2>2, <2>3 DEF loadBridge
    <2>6. bridges' \in [Prefix -> (1..MaxElements) \cup {Null}] /\ active' \in BOOLEAN
        BY <1>2, <2>1, <2>2 DEF loadBridge, addBridge
    <2> QED
        BY <1>2, <2>4, <2>5, <2>6, <1>a, <1>b DEF loadBridge, Meets, Advance
<1>3. CASE crashBridge
    BY <1>3, <1>a DEF crashBridge
<1>4. CASE skipBridge
    BY <1>4, <1>a, <1>b DEF skipBridge, Meets, Advance
<1>5. CASE checkConnector
    BY <1>5, <1>a, <1>b DEF checkConnector, Meets, Advance
<1>6. CASE getReaderParticipant
    BY <1>6, <1>a DEF getReaderParticipant, getParticipant
<1>7. CASE createReader
    <2> DEFINE ref == element.reader
               new == <<"reader", at, ref.name>>
    <2>1. pc \in Connecting
        BY <1>7 DEF createReader, Connecting
    <2>2. new \in Object /\ lookupName(ref) \in EndPointName \cup {Null}
        BY <2>1, Connector, LookupType DEF Object
    <2>3. HasParticipant(ref.part) => lookupName(ref) \in EndPointName
        BY <2>1, Connector, LookupType
    <2> HIDE DEF ref, new
    <2>4. subName' = lookupName(ref)
        BY <1>7 DEF createReader, ref
    <2>5. \/ UNCHANGED <<readers, subscribed>>
          \/ /\ HasParticipant(ref.part)
             /\ readers' = [readers EXCEPT ![subName'] = new]
             /\ subscribed' = subscribed \cup {new}
        BY <1>7 DEF createReader, ref, new
    <2>6. readers' \in [EndPointName -> Object \cup {Null}] /\ subscribed' \subseteq Object
        BY <2>2, <2>3, <2>4, <2>5
    <2>7. failures' \in 0..MaxFailures
        BY <1>7, <1>a DEF createReader
    <2> QED
        BY <1>7, <1>a, <2>2, <2>4, <2>6, <2>7 DEF createReader
<1>8. CASE getWriterParticipant
    BY <1>8, <1>a DEF getWriterParticipant, getParticipant
<1>9. CASE createWriter
    <2> DEFINE ref == element.writer
               new == <<"writer", at, ref.name>>
    <2>1. pc \in Connecting
        BY <1>9 DEF createWriter, Connecting
    <2>2. new \in Object /\ lookupName(ref) \in EndPointName \cup {Null}
        BY <2>1, Connector, LookupType DEF Object
    <2>3. HasParticipant(ref.part) => lookupName(ref) \in EndPointName
        BY <2>1, Connector, LookupType
    <2> HIDE DEF ref, new
    <2>4. pubName' = lookupName(ref)
        BY <1>9 DEF createWriter, ref
    <2>5. \/ UNCHANGED writers
          \/ /\ HasParticipant(ref.part)
             /\ writers' = [writers EXCEPT ![pubName'] = new]
        BY <1>9 DEF createWriter, ref, new
    <2>6. writers' \in [EndPointName -> Object \cup {Null}]
        BY <2>2, <2>3, <2>4, <2>5
    <2>7. pc' \in {"connect", "crashed"} /\ failures' \in 0..MaxFailures
        BY <1>9, <1>a DEF createWriter
    <2> QED
        BY <1>9, <1>a, <2>2, <2>4, <2>6, <2>7 DEF createWriter
<1>10. CASE connect
    <2>1. pc \in Connecting
        BY <1>10 DEF connect, Connecting
    <2>2. at \in 1..MaxElements /\ element.name \in Prefix
        BY <2>1, Connector
    <2>3. bridgeOf(at) \in 1..MaxElements
        BY <2>1, <2>2, Connector DEF bridgeOf, customBridge, element, Ref
    <2>4. readers[subName] \in Object /\ writers[pubName] \in Object
        BY <1>10 DEF connect, Found
    <2> DEFINE entry == [bridge |-> bridgeOf(at), reader |-> readers[subName],
                         writer |-> writers[pubName]]
    <2>5. entry \in [bridge : 1..MaxElements, reader : Object, writer : Object]
        BY <2>3, <2>4
    <2> HIDE DEF entry
    <2>6. wired' = Append(wired, entry)
        BY <1>10 DEF connect, entry
    <2>7. wired' \in Seq([bridge : 1..MaxElements, reader : Object, writer : Object])
        BY <2>5, <2>6
    <2>8. bridges' \in [Prefix -> (1..MaxElements) \cup {Null}] /\ active' \in BOOLEAN
        BY <1>10, <2>2 DEF connect, addBridge
    <2>9. at' \in 1..(MaxElements + 1) /\ pc' = "element"
        BY <1>10, <1>a, <2>2 DEF connect, Advance
    <2> QED
        BY <1>10, <1>a, <2>7, <2>8, <2>9 DEF connect
<1>11. CASE refuseConnector
    BY <1>11, <1>a, Connector DEF refuseConnector, Advance, Connecting
<1>12. CASE onTerminate
    <2>1. \A c \in Range(wired) : c.reader \in Object /\ c.writer \in Object
        BY Wires
    <2>2. m_bTerminating' \subseteq Object
        BY <1>12, <2>1 DEF onTerminate
    <2> QED
        BY <1>12, <1>a, <2>2 DEF onTerminate
<1>13. CASE \E p \in Prefix : removeParticipant(p)
    BY <1>13, <1>a DEF removeParticipant
<1>14. CASE \E b \in Known(bridges) : deleteBridge(b)
    <2>1. PICK b \in Known(bridges) : deleteBridge(b)
        BY <1>14
    <2>2. b \in 1..MaxElements
        BY DEF Known, Range
    <2>3. freed' \in [Object -> Nat]
        BY <2>1 DEF deleteBridge
    <2> QED
        BY <2>1, <2>2, <2>3, <1>a DEF deleteBridge
<1>15. CASE clear
    BY <1>15, <1>a DEF clear
<1> QED
    BY <1>1, <1>2, <1>3, <1>4, <1>5, <1>6, <1>7, <1>8, <1>9, <1>10, <1>11, <1>12, <1>13,
        <1>14, <1>15 DEF Next, loadConnector

LEMMA PlaceKept ==
    ASSUME TypeOK, Placed, Next
    PROVE  Placed'
<1>1. document' = document /\ Connectors' = Connectors
    BY NextKeepsDocument, FileStays
<1>2. document \in Seq(Element) /\ Len(document) \in Nat /\ DOMAIN document = 1..Len(document)
    BY Elements DEF TypeOK
<1>3. CASE checkConnector
    <2>1. at \in 1..Len(document) /\ element.tag = "connector"
        BY <1>2, <1>3 DEF checkConnector, Meets, Placed
    <2>2. at \in Positions("connector")
        BY <1>2, <2>1 DEF Positions, Placed, element
    <2>3. CASE Complete(element.reader) /\ Complete(element.writer)
        <3>1. at \in Connectors
            BY <2>2, <2>3 DEF Connectors, element
        <3> QED
            BY <1>1, <1>2, <1>3, <2>3, <3>1 DEF checkConnector, Placed
    <2>4. CASE ~(Complete(element.reader) /\ Complete(element.writer))
        BY <1>1, <1>2, <1>3, <2>1, <2>4 DEF checkConnector, Placed, Advance, Connecting, element
    <2> QED
        BY <2>3, <2>4
<1>4. CASE pc \in Connecting
    <2>1. at \in Connectors /\ at \in 1..Len(document) /\ document[at].tag = "connector"
        BY <1>4, Connector DEF element
    <2>2. \/ at' = at
          \/ at' = at + 1 /\ pc' = "element"
        BY <1>4 DEF Next, loadIS, loadBridge, crashBridge, skipBridge, loadConnector,
            checkConnector, getReaderParticipant, createReader, getWriterParticipant,
            createWriter, connect, refuseConnector, onTerminate, removeParticipant, deleteBridge,
            clear, Meets, Advance, Connecting, locals
    <2>3. CASE at' = at
        BY <1>1, <1>2, <2>1, <2>3 DEF Placed
    <2>4. CASE at' = at + 1 /\ pc' = "element"
        BY <1>1, <1>2, <2>1, <2>4 DEF Placed, Connecting
    <2> QED
        BY <2>2, <2>3, <2>4
<1>5. CASE pc \notin Connecting /\ ~checkConnector
    <2>1. CASE loadIS
        BY <1>1, <1>2, <2>1 DEF loadIS, Meets, Placed, element, Connecting
    <2>2. CASE loadBridge \/ skipBridge
        BY <1>1, <1>2, <2>2 DEF loadBridge, skipBridge, Meets, Placed, element, Advance, Connecting
    <2>3. CASE crashBridge
        BY <1>1, <1>2, <2>3 DEF crashBridge, Meets, Placed, element, Connecting
    <2>4. CASE \/ onTerminate \/ clear
               \/ \E p \in Prefix : removeParticipant(p)
               \/ \E b \in Known(bridges) : deleteBridge(b)
        BY <1>1, <1>2, <2>4 DEF onTerminate, clear, removeParticipant, deleteBridge, Placed,
            Connecting, locals
    <2> QED
        BY <1>5, <2>1, <2>2, <2>3, <2>4 DEF Next, loadConnector, getReaderParticipant, createReader,
            getWriterParticipant, createWriter, connect, refuseConnector, Connecting
<1> QED
    BY <1>3, <1>4, <1>5

-------------------------------------------------------------------------------
(* Participants and endpoints *)

\* A participant that a connector uses is up, and stays up while files are loaded.
LEMMA SubscribedKept ==
    ASSUME TypeOK, Placed, Subscribed, Next
    PROVE  Subscribed'
<1>1. document' = document /\ \A r : participantOf(r)' = participantOf(r)
    BY NextKeepsDocument, FileStays
<1> USE DEF Ending, Range, maps, rtps, locals, ending
<1>3. CASE getReaderParticipant \/ getWriterParticipant
    <2>1. /\ pc \in Connecting /\ pc \notin Ending /\ pc' \notin Ending
          /\ UNCHANGED <<subscribed, destroyed, freed>>
        BY <1>3 DEF getReaderParticipant, getWriterParticipant, Connecting
    <2>2. PICK p : getParticipant(p) /\ (p # Null => p \in Prefix)
        BY <1>3, <2>1, Connector DEF getReaderParticipant, getWriterParticipant, Ref
    <2>3. CASE UNCHANGED <<rtps_participants, failures>>
        BY <1>1, <2>1, <2>3 DEF Subscribed
    <2>4. CASE IsNew(p) /\ rtps_participants' = [rtps_participants EXCEPT ![p] = "up"]
               /\ UNCHANGED failures
        BY <1>1, <2>1, <2>2, <2>4 DEF IsNew, Subscribed, TypeOK
    <2>5. CASE IsNew(p) /\ rtps_participants' = [rtps_participants EXCEPT ![p] = "null"]
               /\ failures' = failures + 1
        BY <1>1, <2>1, <2>2, <2>5 DEF IsNew, Subscribed, TypeOK
    <2> QED
        BY <2>2, <2>3, <2>4, <2>5 DEF getParticipant
<1>4. CASE createReader
    <2>1. pc \in Connecting /\ pc' \notin Ending /\ pc \notin Ending
        BY <1>4 DEF createReader, Connecting
    <2>2. /\ UNCHANGED <<rtps_participants, destroyed, freed>>
          /\ failures' = failures \/ failures' = failures + 1
        BY <1>4 DEF createReader
    <2>3. ASSUME NEW r \in subscribed', r \notin subscribed
          PROVE  participantOf(r) \in Prefix /\ rtps_participants[participantOf(r)] = "up"
        <3>1. r = <<"reader", at, element.reader.name>> /\ HasParticipant(element.reader.part)
              /\ element.reader.part # Null
            BY <1>4, <2>3 DEF createReader
        <3> QED
            BY <2>1, <3>1, Connector DEF participantOf, HasParticipant, element
    <2>4. failures' = 0 => failures = 0
        BY <2>2 DEF TypeOK
    <2>5. \A r \in subscribed' :
            participantOf(r) \in Prefix /\ rtps_participants[participantOf(r)] = "up"
        BY <2>3 DEF Subscribed
    <2> QED
        BY <1>1, <2>1, <2>2, <2>4, <2>5 DEF Subscribed
<1>5. CASE createWriter
    <2>1. /\ UNCHANGED <<subscribed, rtps_participants, destroyed, freed>>
          /\ pc \notin Ending /\ pc' \notin Ending
          /\ failures' = failures \/ failures' = failures + 1
        BY <1>5 DEF createWriter
    <2>2. failures' = 0 => failures = 0
        BY <2>1 DEF TypeOK
    <2> QED
        BY <1>1, <2>1, <2>2 DEF Subscribed
<1>6. CASE \E p \in Prefix : removeParticipant(p)
    BY <1>1, <1>6 DEF removeParticipant, Subscribed, TypeOK
<1>7. CASE \E b \in Known(bridges) : deleteBridge(b)
    BY <1>1, <1>7 DEF deleteBridge, Subscribed, TypeOK
<1>8. CASE \/ loadIS \/ loadBridge \/ crashBridge \/ skipBridge \/ checkConnector
           \/ connect \/ refuseConnector \/ onTerminate \/ clear
    BY <1>1, <1>8 DEF loadIS, loadBridge, crashBridge, skipBridge, checkConnector, connect,
        refuseConnector, onTerminate, clear, Subscribed, TypeOK, Advance, Meets
<1> QED
    BY <1>3, <1>4, <1>5, <1>6, <1>7, <1>8 DEF Next, loadConnector

\* Loading goes on through the file.
LEMMA Onward ==
    ASSUME TypeOK, Placed, Next
    PROVE  at' \in Nat /\ at \in Nat /\ at' >= at
<1>1. Len(document) \in Nat /\ at \in 1..(Len(document) + 1)
    BY Elements DEF TypeOK, Placed
<1> QED
    BY <1>1 DEF Next, loadIS, loadBridge, crashBridge, skipBridge, loadConnector, checkConnector,
        getReaderParticipant, createReader, getWriterParticipant, createWriter, connect,
        refuseConnector, onTerminate, removeParticipant, deleteBridge, clear, Advance, locals, Meets

LEMMA OriginStays ==
    ASSUME TypeOK, Placed, Next, NEW e, NEW o \in Object, NEW kind, ComesFrom(e, o, kind)
    PROVE  ComesFrom(e, o, kind)'
<1>1. document' = document /\ prefixOf(o)' = prefixOf(o)
      /\ \A tag : Positions(tag)' = Positions(tag)
    BY NextKeepsDocument, FileStays
<1>2. o[2] \in Nat
    BY ISManagerAssumption DEF Object
<1> QED
    BY <1>1, <1>2, Onward DEF ComesFrom

LEMMA LoadedBridge ==
    ASSUME TypeOK, Placed, loadBridge
    PROVE  /\ at \in Positions("bridge") /\ at \in 1..MaxElements /\ element.tag = "bridge"
           /\ element.name \in Prefix /\ element.reader \subseteq Name /\ element.writer \subseteq Name
           /\ element.library /\ at' = at + 1
<1>1. at \in 1..Len(document) /\ element.tag = "bridge" /\ element.library /\ at' = at + 1
    BY Elements DEF loadBridge, Meets, Advance, Placed, TypeOK
<1>2. at \in Positions("bridge")
    BY <1>1, Elements DEF Positions, Placed, TypeOK, element
<1> QED
    BY <1>1, <1>2, Bridges, Elements DEF TypeOK, element

\* The endpoints a custom bridge declares come from it.
LEMMA CustomOrigins ==
    ASSUME TypeOK, Placed, Next, loadBridge,
           NEW map, map \in [EndPointName -> Object \cup {Null}],
           NEW kind \in {"reader", "writer"},
           \A e \in EndPointName : map[e] # Null => ComesFrom(e, map[e], kind),
           NEW e \in EndPointName, NEW o \in Object,
           o = addEndPoints(map, kind, element[kind])[e]
    PROVE  ComesFrom(e, o, kind)'
<1> DEFINE names == element[kind]
<1>1. /\ at \in Positions("bridge") /\ element.library /\ at' = at + 1 /\ at \in 1..MaxElements
      /\ element.name \in Prefix /\ names \subseteq Name /\ element.tag = "bridge"
    BY LoadedBridge
<1>2. CASE \E n \in names : e = getEndPointName[<<element.name, n>>]
    <2>1. PICK n \in names : /\ e = getEndPointName[<<element.name, n>>]
                             /\ o = <<kind, at, n>>
        BY <1>2 DEF addEndPoints
    <2>2. o \in Object /\ prefixOf(o) = element.name
        BY <1>1, <2>1 DEF Object, prefixOf, element
    <2>3. document' = document /\ prefixOf(o)' = prefixOf(o)
          /\ Positions("bridge")' = Positions("bridge")
        BY NextKeepsDocument, FileStays
    <2> QED
        BY <1>1, <2>1, <2>2, <2>3 DEF ComesFrom, element
<1>3. CASE ~\E n \in names : e = getEndPointName[<<element.name, n>>]
    <2>1. o = map[e]
        BY <1>3 DEF addEndPoints
    <2> QED
        BY <2>1, OriginStays, ISManagerAssumption
<1> QED
    BY <1>2, <1>3

\* The endpoints of a participant come from their connector.
LEMMA ConnectorOrigins ==
    ASSUME TypeOK, Placed, Next, pc \in Connecting,
           NEW kind \in {"reader", "writer"}, NEW ref,
           ref = IF kind = "reader" THEN element.reader ELSE element.writer,
           ref.part # Null,
           NEW o, o = <<kind, at, ref.name>>,
           NEW e, e = getEndPointName[<<ref.part, ref.name>>]
    PROVE  o \in Object /\ ComesFrom(e, o, kind)'
<1>1. /\ at \in 1..MaxElements /\ at \in Positions("connector") /\ element.tag = "connector"
      /\ ref.part \in Prefix /\ ref.name \in Name
    BY Connector
<1>2. o \in Object /\ prefixOf(o) = ref.part
    BY <1>1 DEF Object, prefixOf, element
<1>3. prefixOf(o)' = prefixOf(o) /\ Positions("connector")' = Positions("connector")
    BY NextKeepsDocument, FileStays
<1> QED
    BY <1>1, <1>2, <1>3 DEF ComesFrom

LEMMA OriginsKept ==
    ASSUME TypeOK, Placed, Origins, Next
    PROVE  Origins'
<1>1. document' = document /\ \A tag : Positions(tag)' = Positions(tag)
    BY NextKeepsDocument, FileStays
<1>2. TypeOK'
    BY TypesKept
<1>3. ASSUME NEW p \in Prefix, bridges'[p] # Null
      PROVE  /\ bridges'[p] \in Positions("bridge") \cup Positions("connector")
             /\ document[bridges'[p]].name = p
    <2>1. CASE bridges' = bridges
        BY <1>3, <2>1 DEF Origins
    <2>2. CASE loadBridge
        <3>1. at \in Positions("bridge")
            BY <2>2, Elements DEF loadBridge, Meets, Placed, TypeOK, Positions, element
        <3> QED
            BY <1>3, <2>2, <3>1 DEF loadBridge, addBridge, Origins, TypeOK, element
    <2>3. CASE connect
        <3>1. at \in Positions("connector")
            BY <2>3, Connector DEF connect, Connecting
        <3> QED
            BY <1>3, <2>3, <3>1 DEF connect, addBridge, Origins, TypeOK, element
    <2>4. CASE clear
        BY <1>3, <2>4 DEF clear
    <2> QED
        BY <2>1, <2>2, <2>3, <2>4 DEF Next, maps, loadIS, crashBridge, skipBridge, loadConnector,
            checkConnector, getReaderParticipant, createReader, getWriterParticipant,
            createWriter, refuseConnector, onTerminate, removeParticipant, deleteBridge
<1>4. ASSUME NEW e \in EndPointName, NEW o, o = readers'[e], o # Null
      PROVE  ComesFrom(e, o, "reader")'
    <2>0. o \in Object
        BY <1>2, <1>4 DEF TypeOK
    <2>1. CASE readers' = readers
        BY <1>4, <2>0, <2>1, OriginStays DEF Origins
    <2>2. CASE loadBridge
        <3>1. readers \in [EndPointName -> Object \cup {Null}]
              /\ \A f \in EndPointName : readers[f] # Null => ComesFrom(f, readers[f], "reader")
            BY DEF TypeOK, Origins
        <3>2. o = addEndPoints(readers, "reader", element["reader"])[e]
            BY <1>4, <2>2 DEF loadBridge
        <3> QED
            BY <2>0, <2>2, <3>1, <3>2, CustomOrigins
    <2>3. CASE createReader /\ readers' # readers
        <3>1. /\ HasParticipant(element.reader.part) /\ element.reader.part # Null
              /\ readers' = [readers EXCEPT ![lookupName(element.reader)] =
                                <<"reader", at, element.reader.name>>]
            BY <2>3 DEF createReader
        <3>2. lookupName(element.reader) =
                    getEndPointName[<<element.reader.part, element.reader.name>>]
            BY <3>1 DEF lookupName
        <3>3. CASE e = lookupName(element.reader)
            <4>1. o = <<"reader", at, element.reader.name>>
                BY <1>4, <3>1, <3>3 DEF TypeOK
            <4> QED
                BY <2>3, <3>1, <3>2, <3>3, <4>1, ConnectorOrigins DEF createReader, Connecting
        <3>4. CASE e # lookupName(element.reader)
            BY <1>4, <2>0, <3>1, <3>4, OriginStays DEF TypeOK, Origins
        <3> QED
            BY <3>3, <3>4
    <2>4. CASE clear
        BY <1>4, <2>4 DEF clear
    <2> QED
        BY <2>1, <2>2, <2>3, <2>4 DEF Next, maps, loadIS, crashBridge, skipBridge, loadConnector,
            checkConnector, getReaderParticipant, getWriterParticipant, connect,
            createWriter, refuseConnector, onTerminate, removeParticipant, deleteBridge
<1>5. ASSUME NEW e \in EndPointName, NEW o, o = writers'[e], o # Null
      PROVE  ComesFrom(e, o, "writer")'
    <2>0. o \in Object
        BY <1>2, <1>5 DEF TypeOK
    <2>1. CASE writers' = writers
        BY <1>5, <2>0, <2>1, OriginStays DEF Origins
    <2>2. CASE loadBridge
        <3>1. writers \in [EndPointName -> Object \cup {Null}]
              /\ \A f \in EndPointName : writers[f] # Null => ComesFrom(f, writers[f], "writer")
            BY DEF TypeOK, Origins
        <3>2. o = addEndPoints(writers, "writer", element["writer"])[e]
            BY <1>5, <2>2 DEF loadBridge
        <3> QED
            BY <2>0, <2>2, <3>1, <3>2, CustomOrigins
    <2>3. CASE createWriter /\ writers' # writers
        <3>1. /\ HasParticipant(element.writer.part) /\ element.writer.part # Null
              /\ writers' = [writers EXCEPT ![lookupName(element.writer)] =
                                <<"writer", at, element.writer.name>>]
            BY <2>3 DEF createWriter
        <3>2. lookupName(element.writer) =
                    getEndPointName[<<element.writer.part, element.writer.name>>]
            BY <3>1 DEF lookupName
        <3>3. CASE e = lookupName(element.writer)
            <4>1. o = <<"writer", at, element.writer.name>>
                BY <1>5, <3>1, <3>3 DEF TypeOK
            <4> QED
                BY <2>3, <3>1, <3>2, <3>3, <4>1, ConnectorOrigins DEF createWriter, Connecting
        <3>4. CASE e # lookupName(element.writer)
            BY <1>5, <2>0, <3>1, <3>4, OriginStays DEF TypeOK, Origins
        <3> QED
            BY <3>3, <3>4
    <2>4. CASE clear
        BY <1>5, <2>4 DEF clear
    <2> QED
        BY <2>1, <2>2, <2>3, <2>4 DEF Next, maps, loadIS, crashBridge, skipBridge, loadConnector,
            checkConnector, getReaderParticipant, getWriterParticipant, connect,
            createReader, refuseConnector, onTerminate, removeParticipant, deleteBridge
<1>6. pc' # "ended" => (active' <=> Known(bridges') # {})
    <2>1. CASE bridges' = bridges /\ active' = active
        BY <2>1 DEF Origins, Next, loadIS, loadBridge, crashBridge, skipBridge,
            loadConnector, checkConnector, getReaderParticipant, createReader,
            getWriterParticipant, createWriter, connect, refuseConnector, onTerminate,
            removeParticipant, deleteBridge, clear, Meets, Known, locals
    <2>2. CASE at \in 1..MaxElements /\ \E name \in Prefix : addBridge(name)
        <3>1. PICK name \in Prefix : addBridge(name)
            BY <2>2
        <3>2. bridges'[name] = at /\ name \in DOMAIN bridges' /\ at # Null
            BY <2>2, <3>1, ISManagerAssumption DEF addBridge, TypeOK
        <3> QED
            BY <3>1, <3>2 DEF addBridge, Known, Range
    <2>3. CASE loadBridge
        <3>1. element.name \in Prefix /\ at \in 1..MaxElements
            BY <2>3, Elements DEF loadBridge, Meets, TypeOK, element, Element
        <3> QED
            BY <2>2, <2>3, <3>1 DEF loadBridge
    <2>4. CASE connect
        <3>1. element.name \in Prefix /\ at \in 1..MaxElements
            BY <2>4, Connector DEF connect, Connecting
        <3> QED
            BY <2>1, <2>2, <2>4, <3>1 DEF connect
    <2>5. CASE clear
        BY <2>5 DEF clear
    <2> QED
        BY <2>1, <2>3, <2>4, <2>5 DEF Next, maps, loadIS, crashBridge, skipBridge, loadConnector,
            checkConnector, getReaderParticipant, createReader, getWriterParticipant,
            createWriter, refuseConnector, onTerminate, removeParticipant, deleteBridge
<1> QED
    BY <1>3, <1>4, <1>5, <1>6, <1>1 DEF Origins

-------------------------------------------------------------------------------
(* Files of the documented form *)

LEMMA DocumentedForm ==
    ASSUME TypeOK, Documented
    PROVE  /\ \A i, j \in Positions("bridge") \cup Positions("connector") :
                document[i].name = document[j].name => i = j
           /\ \A c \in Positions("connector") :
              \A ref \in {document[c].reader, document[c].writer} :
                /\ \A i \in Positions("bridge") \cup Positions("connector") :
                        ref.part # Null => document[i].name # ref.part
                /\ ref.bridge # Null =>
                        \E i \in Positions("bridge") : document[i].name = ref.bridge
           /\ \A p, q \in Prefix, m, n \in Name :
                getEndPointName[<<p, m>>] = getEndPointName[<<q, n>>] => p = q /\ m = n
<1>1. \A p, q \in Prefix, m, n \in Name :
        getEndPointName[<<p, m>>] = getEndPointName[<<q, n>>] => p = q /\ m = n
    BY ISManagerAssumption DEF Documented, IsInjective
<1>2. \A i, j \in Positions("bridge") \cup Positions("connector") :
        document[i].name = document[j].name => i = j
    BY DEF Documented
<1>3. ASSUME NEW c \in Positions("connector"), NEW end \in {document[c].reader, document[c].writer}
      PROVE  /\ \A i \in Positions("bridge") \cup Positions("connector") :
                    end.part # Null => document[i].name # end.part
             /\ end.bridge # Null => \E i \in Positions("bridge") : document[i].name = end.bridge
    <2>1. end \in Ends(c)
        BY DEF Ends
    <2>2. end.part # Null => end.part \in Parts
        <3>1. end \in UNION {Ends(i) : i \in Positions("connector")}
            BY <2>1
        <3> QED
            BY <3>1 DEF Parts
    <2>3. \A i \in Positions("bridge") \cup Positions("connector") : document[i].name \notin Parts
        BY DEF Documented
    <2>4. end.bridge \in BridgeNames \cup {Null}
        BY <2>1 DEF Documented
    <2> QED
        BY <2>2, <2>3, <2>4 DEF BridgeNames
<1> QED
    BY <1>1, <1>2, <1>3

\* The steps that leave a bridge or a connector behind.
LEMMA Passed ==
    ASSUME TypeOK, Placed, Next,
           NEW i \in Positions("bridge") \cup Positions("connector"), i < at', ~(i < at)
    PROVE  /\ i = at
           /\ \/ loadBridge \/ skipBridge \/ connect \/ refuseConnector
              \/ checkConnector /\ at \notin Connectors
<1>1. /\ Len(document) \in Nat /\ at \in 1..(Len(document) + 1)
      /\ i \in 1..Len(document) /\ document[i].tag \in {"bridge", "connector"}
      /\ \A j \in 1..(i - 1) : document[j].tag = "is" => document[j].profiles
    BY Elements DEF TypeOK, Placed, Positions
<1>2. CASE loadIS
    BY <1>1, <1>2 DEF loadIS, Meets, element
<1>3. CASE loadBridge \/ skipBridge \/ connect \/ refuseConnector
    BY <1>1, <1>3 DEF loadBridge, skipBridge, connect, refuseConnector, Advance
<1>4. CASE checkConnector
    BY <1>1, <1>4 DEF checkConnector, Advance, Connectors, element
<1>5. CASE at' = at
    BY <1>1, <1>5
<1> QED
    BY <1>2, <1>3, <1>4, <1>5 DEF Next, loadConnector, crashBridge, getReaderParticipant,
        createReader, getWriterParticipant, createWriter, onTerminate, removeParticipant,
        deleteBridge, clear, locals

LEMMA AddedEndPoints ==
    ASSUME TypeOK, loadBridge, Placed,
           NEW map, map \in [EndPointName -> Object \cup {Null}],
           NEW kind \in {"reader", "writer"}, NEW e \in EndPointName
    PROVE  /\ \A n \in element[kind] : e = getEndPointName[<<element.name, n>>] =>
                addEndPoints(map, kind, element[kind])[e] = <<kind, at, n>>
           /\ (\A n \in element[kind] : e # getEndPointName[<<element.name, n>>]) =>
                addEndPoints(map, kind, element[kind])[e] = map[e]
<1>1. element.name \in Prefix /\ element[kind] \subseteq Name
    BY Elements DEF loadBridge, Meets, TypeOK, element, Element
<1>2. ASSUME NEW n \in element[kind], e = getEndPointName[<<element.name, n>>]
      PROVE  n = CHOOSE m \in element[kind] : e = getEndPointName[<<element.name, m>>]
    BY <1>1, <1>2, ISManagerAssumption
<1> QED
    BY <1>2 DEF addEndPoints

\* What a custom bridge declares is not taken from it by another bridge or by the
\* endpoint of a participant.
LEMMA CustomKept ==
    ASSUME TypeOK, Placed, Origins, Documented, Kept, Next, pc' # "ended",
           NEW i \in Positions("bridge"), i < at', document[i].library
    PROVE  bridges'[document[i].name] = i
<1>1. TypeOK' /\ i \in 1..MaxElements /\ document[i].name \in Prefix /\ document[i].tag = "bridge"
    BY TypesKept, Bridges, Elements DEF TypeOK
<1>2. pc # "ended"
    BY DEF Next, loadIS, loadBridge, crashBridge, skipBridge, loadConnector, checkConnector,
        getReaderParticipant, createReader, getWriterParticipant, createWriter, connect,
        refuseConnector, onTerminate, removeParticipant, deleteBridge, clear, Meets
<1>3. CASE i < at
    <2>1. bridges[document[i].name] = i
        BY <1>2, <1>3 DEF Kept
    <2>2. CASE bridges' = bridges
        BY <2>1, <2>2
    <2>3. CASE loadBridge
        <3>1. at \in Positions("bridge")
            BY <2>3, LoadedBridge
        <3>2. at # i
            BY <1>1, <1>3
        <3>3. document[at].name # document[i].name
            BY <3>1, <3>2, DocumentedForm
        <3> QED
            BY <1>1, <2>1, <2>3, <3>3 DEF loadBridge, addBridge, TypeOK, element
    <2>4. CASE connect
        <3>1. at \in Positions("connector") /\ document[at].name # document[i].name
            BY <1>3, <2>4, Connector, DocumentedForm DEF connect, Connecting, TypeOK
        <3> QED
            BY <1>1, <2>1, <2>4, <3>1 DEF connect, addBridge, TypeOK, element
    <2>5. CASE clear
        BY <2>5 DEF clear
    <2> QED
        BY <2>2, <2>3, <2>4, <2>5 DEF Next, maps, loadIS, crashBridge, skipBridge, loadConnector,
            checkConnector, getReaderParticipant, createReader, getWriterParticipant,
            createWriter, refuseConnector, onTerminate, removeParticipant, deleteBridge
<1>4. CASE ~(i < at)
    <2>1. loadBridge /\ i = at
        BY <1>1, <1>4, Passed, Connector DEF skipBridge, connect, refuseConnector, checkConnector,
            Meets, Connecting, element
    <2> QED
        BY <1>1, <2>1 DEF loadBridge, addBridge, TypeOK, element
<1> QED
    BY <1>3, <1>4

LEMMA CustomReadersKept ==
    ASSUME TypeOK, Placed, Origins, Documented, Kept, Next, pc' # "ended",
           NEW i \in Positions("bridge"), i < at', document[i].library,
           NEW n \in document[i].reader
    PROVE  readers'[getEndPointName[<<document[i].name, n>>]] = <<"reader", i, n>>
<1> DEFINE e == getEndPointName[<<document[i].name, n>>]
<1>1. /\ i \in 1..MaxElements /\ document[i].name \in Prefix /\ document[i].tag = "bridge"
      /\ n \in Name /\ e \in EndPointName
    BY Bridges, Elements, ISManagerAssumption DEF TypeOK
<1>2. pc # "ended" /\ readers \in [EndPointName -> Object \cup {Null}]
    BY DEF Next, loadIS, loadBridge, crashBridge, skipBridge, loadConnector, checkConnector,
        getReaderParticipant, createReader, getWriterParticipant, createWriter, connect,
        refuseConnector, onTerminate, removeParticipant, deleteBridge, clear, Meets, TypeOK
<1>3. CASE i < at
    <2>1. readers[e] = <<"reader", i, n>>
        BY <1>2, <1>3 DEF Kept
    <2>2. CASE readers' = readers
        BY <2>1, <2>2
    <2>3. CASE loadBridge
        <3>1. at \in Positions("bridge") /\ at # i /\ element.name \in Prefix
              /\ element.reader \subseteq Name
            BY <1>1, <1>3, <2>3, LoadedBridge
        <3>2. element.name # document[i].name
            BY <3>1, DocumentedForm DEF element
        <3>3. \A m \in element["reader"] : e # getEndPointName[<<element.name, m>>]
            BY <1>1, <3>1, <3>2, DocumentedForm
        <3>4. readers' = addEndPoints(readers, "reader", element["reader"])
            BY <2>3 DEF loadBridge
        <3> QED
            BY <1>1, <1>2, <2>1, <2>3, <3>3, <3>4, AddedEndPoints
    <2>4. CASE createReader /\ readers' # readers
        <3>1. /\ element.reader.part # Null
              /\ readers' = [readers EXCEPT ![lookupName(element.reader)] =
                                <<"reader", at, element.reader.name>>]
              /\ HasParticipant(element.reader.part)
            BY <2>4 DEF createReader
        <3>2. lookupName(element.reader) =
                    getEndPointName[<<element.reader.part, element.reader.name>>]
            BY <3>1 DEF lookupName
        <3>3. at \in Positions("connector") /\ element.reader.part \in Prefix
              /\ element.reader.name \in Name
            BY <2>4, <3>1, Connector DEF createReader, Connecting
        <3>4. document[i].name # element.reader.part
            BY <3>1, <3>3, DocumentedForm DEF element
        <3>5. e # lookupName(element.reader)
            BY <1>1, <3>2, <3>3, <3>4, DocumentedForm
        <3> QED
            BY <1>1, <1>2, <2>1, <3>1, <3>5
    <2>5. CASE clear
        BY <2>5 DEF clear
    <2> QED
        BY <2>2, <2>3, <2>4, <2>5 DEF Next, maps, loadIS, crashBridge, skipBridge, loadConnector,
            checkConnector, getReaderParticipant, getWriterParticipant, connect,
            createWriter, refuseConnector, onTerminate, removeParticipant, deleteBridge
<1>4. CASE ~(i < at)
    <2>1. loadBridge /\ i = at
        BY <1>1, <1>4, Passed, Connector DEF skipBridge, connect, refuseConnector, checkConnector,
            Meets, Connecting, element
    <2>2. readers' = addEndPoints(readers, "reader", element["reader"])
        BY <2>1 DEF loadBridge
    <2> QED
        BY <1>1, <1>2, <2>1, <2>2, AddedEndPoints DEF element
<1> QED
    BY <1>3, <1>4

LEMMA CustomWritersKept ==
    ASSUME TypeOK, Placed, Origins, Documented, Kept, Next, pc' # "ended",
           NEW i \in Positions("bridge"), i < at', document[i].library,
           NEW n \in document[i].writer
    PROVE  writers'[getEndPointName[<<document[i].name, n>>]] = <<"writer", i, n>>
<1> DEFINE e == getEndPointName[<<document[i].name, n>>]
<1>1. /\ i \in 1..MaxElements /\ document[i].name \in Prefix /\ document[i].tag = "bridge"
      /\ n \in Name /\ e \in EndPointName
    BY Bridges, Elements, ISManagerAssumption DEF TypeOK
<1>2. pc # "ended" /\ writers \in [EndPointName -> Object \cup {Null}]
    BY DEF Next, loadIS, loadBridge, crashBridge, skipBridge, loadConnector, checkConnector,
        getReaderParticipant, createWriter, getWriterParticipant, createReader, connect,
        refuseConnector, onTerminate, removeParticipant, deleteBridge, clear, Meets, TypeOK
<1>3. CASE i < at
    <2>1. writers[e] = <<"writer", i, n>>
        BY <1>2, <1>3 DEF Kept
    <2>2. CASE writers' = writers
        BY <2>1, <2>2
    <2>3. CASE loadBridge
        <3>1. at \in Positions("bridge") /\ at # i /\ element.name \in Prefix
              /\ element.writer \subseteq Name
            BY <1>1, <1>3, <2>3, LoadedBridge
        <3>2. element.name # document[i].name
            BY <3>1, DocumentedForm DEF element
        <3>3. \A m \in element["writer"] : e # getEndPointName[<<element.name, m>>]
            BY <1>1, <3>1, <3>2, DocumentedForm
        <3>4. writers' = addEndPoints(writers, "writer", element["writer"])
            BY <2>3 DEF loadBridge
        <3> QED
            BY <1>1, <1>2, <2>1, <2>3, <3>3, <3>4, AddedEndPoints
    <2>4. CASE createWriter /\ writers' # writers
        <3>1. /\ element.writer.part # Null
              /\ writers' = [writers EXCEPT ![lookupName(element.writer)] =
                                <<"writer", at, element.writer.name>>]
              /\ HasParticipant(element.writer.part)
            BY <2>4 DEF createWriter
        <3>2. lookupName(element.writer) =
                    getEndPointName[<<element.writer.part, element.writer.name>>]
            BY <3>1 DEF lookupName
        <3>3. at \in Positions("connector") /\ element.writer.part \in Prefix
              /\ element.writer.name \in Name
            BY <2>4, <3>1, Connector DEF createWriter, Connecting
        <3>4. document[i].name # element.writer.part
            BY <3>1, <3>3, DocumentedForm DEF element
        <3>5. e # lookupName(element.writer)
            BY <1>1, <3>2, <3>3, <3>4, DocumentedForm
        <3> QED
            BY <1>1, <1>2, <2>1, <3>1, <3>5
    <2>5. CASE clear
        BY <2>5 DEF clear
    <2> QED
        BY <2>2, <2>3, <2>4, <2>5 DEF Next, maps, loadIS, crashBridge, skipBridge, loadConnector,
            checkConnector, getReaderParticipant, getWriterParticipant, connect,
            createReader, refuseConnector, onTerminate, removeParticipant, deleteBridge
<1>4. CASE ~(i < at)
    <2>1. loadBridge /\ i = at
        BY <1>1, <1>4, Passed, Connector DEF skipBridge, connect, refuseConnector, checkConnector,
            Meets, Connecting, element
    <2>2. writers' = addEndPoints(writers, "writer", element["writer"])
        BY <2>1 DEF loadBridge
    <2> QED
        BY <1>1, <1>2, <2>1, <2>2, AddedEndPoints DEF element
<1> QED
    BY <1>3, <1>4

LEMMA KeptKept ==
    ASSUME TypeOK, Placed, Origins, Documented, Kept, Next
    PROVE  Kept'
<1>1. document' = document /\ Positions("bridge")' = Positions("bridge")
    BY NextKeepsDocument, FileStays
<1> QED
    BY <1>1, CustomKept, CustomReadersKept, CustomWritersKept DEF Kept

\* A connector's own participants are there when it asks for them.
LEMMA PartIsNoBridge ==
    ASSUME TypeOK, Placed, Origins, Documented, pc \in Connecting,
           NEW ref \in {element.reader, element.writer}, ref.part # Null
    PROVE  ref.part \in Prefix /\ bridges[ref.part] = Null
<1>1. at \in Positions("connector") /\ ref.part \in Prefix
    BY Connector
<1>2. ref \in {document[at].reader, document[at].writer}
    BY DEF element
<1>3. \A i \in Positions("bridge") \cup Positions("connector") : document[i].name # ref.part
    BY <1>1, <1>2, DocumentedForm
<1> QED
    BY <1>1, <1>3 DEF Origins

LEMMA PartIsUp ==
    ASSUME TypeOK, Placed, Subscribed, Origins, Documented, failures = 0, failures' = 0,
           pc \in Connecting,
           NEW ref \in {element.reader, element.writer}, ref.part # Null, getParticipant(ref.part)
    PROVE  rtps_participants'[ref.part] = "up"
<1>1. ref.part \in Prefix /\ bridges[ref.part] = Null
    BY PartIsNoBridge
<1>2. CASE IsNew(ref.part)
    BY <1>1, <1>2 DEF getParticipant, TypeOK
<1>3. CASE ~IsNew(ref.part)
    <2>1. rtps_participants' = rtps_participants /\ rtps_participants[ref.part] # "none"
        BY <1>1, <1>3 DEF getParticipant, IsNew
    <2>2. rtps_participants[ref.part] \notin {"null", "removed"}
        BY <1>1 DEF Subscribed, Connecting, Ending, Range, TypeOK
    <2> QED
        BY <1>1, <2>1, <2>2 DEF TypeOK
<1> QED
    BY <1>2, <1>3

LEMMA LookedUpKept ==
    ASSUME TypeOK, Placed, Subscribed, Origins, LookedUp, Documented, Next,
           failures = 0, failures' = 0
    PROVE  LookedUp'
<1>1. document' = document
    BY NextKeepsDocument
<1>2. CASE getReaderParticipant
    <2>1. pc \in Connecting /\ pc' = "reader" /\ element' = element
        BY <1>1, <1>2 DEF getReaderParticipant, Connecting, element
    <2>2. element.reader.part # Null => rtps_participants'[element.reader.part] = "up"
        BY <1>2, <2>1, PartIsUp DEF getReaderParticipant
    <2> QED
        BY <2>1, <2>2 DEF LookedUp
<1>3. CASE createReader
    <2> DEFINE ref == element.reader
    <2>1. /\ pc \in Connecting /\ pc' = "writerParticipant" /\ element' = element /\ at' = at
          /\ subName' = lookupName(ref)
        BY <1>1, <1>3 DEF createReader, Connecting, element
    <2>2. CASE ref.part = Null
        BY <2>1, <2>2 DEF LookedUp, LooksUp, lookupName
    <2>3. CASE ref.part # Null
        <3>1. HasParticipant(ref.part)
            BY <1>3, <2>1, <2>3, PartIsNoBridge DEF LookedUp, HasParticipant, createReader
        <3>2. readers' = [readers EXCEPT ![subName'] = <<"reader", at, ref.name>>]
            BY <1>3, <2>3, <3>1 DEF createReader, TypeOK
        <3>3. subName' = getEndPointName[<<ref.part, ref.name>>] /\ subName' \in EndPointName
            BY <2>1, <2>3, <3>1, Connector, ISManagerAssumption DEF lookupName
        <3>4. readers'[subName'] = <<"reader", at, ref.name>>
            BY <3>2, <3>3 DEF TypeOK
        <3> QED
            BY <2>1, <2>3, <3>3, <3>4 DEF LookedUp, LooksUp
    <2> QED
        BY <2>2, <2>3
<1>4. CASE getWriterParticipant
    <2>1. /\ pc \in Connecting /\ pc' = "writer" /\ element' = element
          /\ UNCHANGED <<at, subName, readers>> /\ pc = "writerParticipant"
        BY <1>1, <1>4 DEF getWriterParticipant, Connecting, element, maps
    <2>2. element.writer.part # Null => rtps_participants'[element.writer.part] = "up"
        BY <1>4, <2>1, PartIsUp DEF getWriterParticipant
    <2> QED
        BY <2>1, <2>2 DEF LookedUp, LooksUp
<1>5. CASE createWriter
    <2> DEFINE ref == element.writer
    <2>1. /\ pc \in Connecting /\ pc = "writer" /\ element' = element
          /\ UNCHANGED <<at, subName, readers>>
          /\ pubName' = lookupName(ref) /\ pc' \in {"connect", "crashed"}
        BY <1>1, <1>5 DEF createWriter, Connecting, element
    <2>2. LooksUp(readers, subName, "reader", element.reader)'
        BY <2>1 DEF LookedUp, LooksUp
    <2>3. CASE ref.part = Null
        BY <2>1, <2>2, <2>3 DEF LookedUp, LooksUp, lookupName
    <2>4. CASE ref.part # Null
        <3>1. HasParticipant(ref.part)
            BY <2>1, <2>4, PartIsNoBridge DEF LookedUp, HasParticipant
        <3>2. writers' = [writers EXCEPT ![pubName'] = <<"writer", at, ref.name>>]
            BY <1>5, <2>4, <3>1 DEF createWriter, TypeOK
        <3>3. pubName' = getEndPointName[<<ref.part, ref.name>>] /\ pubName' \in EndPointName
            BY <2>1, <2>4, <3>1, Connector, ISManagerAssumption DEF lookupName
        <3>4. writers'[pubName'] = <<"writer", at, ref.name>>
            BY <3>2, <3>3 DEF TypeOK
        <3> QED
            BY <2>1, <2>2, <2>4, <3>3, <3>4 DEF LookedUp, LooksUp
    <2> QED
        BY <2>3, <2>4
<1>6. CASE pc' \notin Connecting \/ pc' = "readerParticipant"
    BY <1>6 DEF LookedUp, Connecting
<1> QED
    BY <1>2, <1>3, <1>4, <1>5, <1>6 DEF Next, loadIS, loadBridge, crashBridge, skipBridge,
        loadConnector, checkConnector, connect, refuseConnector, onTerminate, removeParticipant,
        deleteBridge, clear, Advance, Meets, Connecting, locals

-------------------------------------------------------------------------------
(* What is wired is what is asked for *)

\* A lookup finds an endpoint exactly when the file has it there, and finds that one.
LEMMA Lookup ==
    ASSUME TypeOK, Placed, Documented, Origins, pc = "connect",
           NEW map, map \in [EndPointName -> Object \cup {Null}],
           NEW kind \in {"reader", "writer"}, NEW name,
           NEW ref \in {element.reader, element.writer},
           \A e \in EndPointName : map[e] # Null => ComesFrom(e, map[e], kind),
           \A i \in Positions("bridge") : i < at /\ document[i].library =>
                /\ bridges[document[i].name] = i
                /\ \A n \in document[i][kind] :
                        map[getEndPointName[<<document[i].name, n>>]] = <<kind, i, n>>,
           LooksUp(map, name, kind, ref)
    PROVE  \/ ~Found(map, name) /\ Makes(at, kind, ref) = {}
           \/ /\ ref.part # Null /\ customBridge(ref) = Null
              /\ Found(map, name) /\ map[name] = <<kind, at, ref.name>>
              /\ Makes(at, kind, ref) = {at}
           \/ /\ ref.part = Null /\ customBridge(ref) \in DOMAIN document /\ customBridge(ref) # at
              /\ customBridge(ref) # Null
              /\ Found(map, name) /\ map[name] = <<kind, customBridge(ref), ref.name>>
              /\ Makes(at, kind, ref) = {customBridge(ref)}
<1>1. /\ at \in Positions("connector") /\ at \in 1..MaxElements
      /\ element.tag = "connector" /\ Complete(ref) /\ ref.name \in Name
      /\ ref.part = Null => ref.bridge \in Prefix
      /\ ref.part # Null => ref.part \in Prefix /\ ref.bridge = Null
      /\ ref \in {document[at].reader, document[at].writer}
    BY Connector DEF Connecting, element
<1>2. CASE ref.part # Null
    <2>1. name \in EndPointName /\ map[name] = <<kind, at, ref.name>>
        BY <1>1, <1>2, ISManagerAssumption DEF LooksUp
    <2>2. map[name] \in Object
        BY <1>1, <2>1 DEF Object
    <2>3. Found(map, name)
        BY <2>1, <2>2, ISManagerAssumption DEF Found
    <2> QED
        BY <1>1, <1>2, <2>1, <2>3 DEF Makes, customBridge
<1>3. CASE ref.part = Null
    <2>1. /\ name = getEndPointName[<<ref.bridge, ref.name>>] /\ name \in EndPointName
          /\ name # Null /\ ref.bridge \in Prefix /\ ref.bridge # Null
        BY <1>1, <1>3, ISManagerAssumption DEF LooksUp
    <2>2. ASSUME NEW j \in Makes(at, kind, ref)
          PROVE  /\ bridges[ref.bridge] = j /\ map[name] = <<kind, j, ref.name>>
                 /\ j \in DOMAIN document
        BY <1>3, <2>1, <2>2, Bridges DEF Makes, Declares, TypeOK
    <2>3. ASSUME map[name] # Null
          PROVE  map[name][2] \in Makes(at, kind, ref)
        <3> DEFINE o == map[name]
        <3>1. ComesFrom(name, o, kind) /\ o \in Object
            BY <2>1, <2>3
        <3> HIDE DEF o
        <3>2. o[3] \in Name /\ prefixOf(o) \in Prefix
            BY <3>1 DEF Object, ComesFrom
        <3>3. prefixOf(o) = ref.bridge /\ o[3] = ref.name
            <4>1. \A p, q \in Prefix, m, n \in Name :
                    getEndPointName[<<p, m>>] = getEndPointName[<<q, n>>] => p = q /\ m = n
                BY DocumentedForm
            <4>2. getEndPointName[<<prefixOf(o), o[3]>>] = getEndPointName[<<ref.bridge, ref.name>>]
                BY <2>1, <3>1 DEF ComesFrom
            <4> QED
                BY <1>1, <2>1, <3>2, <4>1, <4>2
        <3>4. o[2] \notin Positions("connector")
            <4>1. SUFFICES ASSUME o[2] \in Positions("connector") PROVE FALSE
                OBVIOUS
            <4>2. document[o[2]].tag = "connector"
                BY <4>1, CompleteConnectors DEF TypeOK
            <4>3. \E end \in {document[o[2]].reader, document[o[2]].writer} : end.part = ref.bridge
                BY <3>3, <4>2 DEF prefixOf
            <4>4. \E i \in Positions("bridge") : document[i].name = ref.bridge
                BY <1>1, <2>1, DocumentedForm
            <4> QED
                BY <2>1, <4>1, <4>3, <4>4, DocumentedForm
        <3>5. /\ o[2] \in Positions("bridge") /\ o[2] < at /\ document[o[2]].library
              /\ ref.name \in document[o[2]][kind]
            BY <3>1, <3>3, <3>4 DEF ComesFrom
        <3>6. document[o[2]].name = ref.bridge
            BY <3>3, <3>5, Bridges DEF prefixOf, TypeOK
        <3> QED
            BY <1>3, <3>5, <3>6, Elements DEF Makes, Declares, o, Positions, TypeOK
    <2>4. CASE Makes(at, kind, ref) = {}
        BY <2>3, <2>4 DEF Found
    <2>5. CASE Makes(at, kind, ref) # {}
        <3>1. PICK j \in Makes(at, kind, ref) : TRUE
            BY <2>5
        <3>2. /\ bridges[ref.bridge] = j /\ map[name] = <<kind, j, ref.name>>
              /\ j \in DOMAIN document /\ customBridge(ref) = j
            BY <2>1, <2>2 DEF customBridge
        <3>3. Makes(at, kind, ref) = {j}
            BY <2>2, <3>2
        <3>4. map[name] \in Object /\ j # Null
            BY <1>1, <3>2, Elements, ISManagerAssumption DEF Object, TypeOK
        <3>5. Found(map, name) /\ j # at
            BY <1>1, <1>3, <2>1, <3>1, <3>4, ISManagerAssumption, Bridges
                DEF Found, Makes, Declares, TypeOK, element
        <3> QED
            BY <1>3, <3>2, <3>3, <3>4, <3>5
    <2> QED
        BY <2>4, <2>5
<1> QED
    BY <1>2, <1>3

\* A connector wires what is asked of it, or nothing when nothing is.
LEMMA ConnectorAsked ==
    ASSUME TypeOK, Placed, Documented, Origins, Kept, LookedUp, pc = "connect"
    PROVE  /\ connect => AskedOf(at) = {[bridge |-> bridgeOf(at), reader |-> readers[subName],
                                         writer |-> writers[pubName]]}
           /\ refuseConnector => AskedOf(at) = {}
<1> DEFINE r == element.reader
           w == element.writer
           j == customBridge(r)
           k == customBridge(w)
<1>1. /\ readers \in [EndPointName -> Object \cup {Null}]
      /\ writers \in [EndPointName -> Object \cup {Null}]
      /\ \A e \in EndPointName : readers[e] # Null => ComesFrom(e, readers[e], "reader")
      /\ \A e \in EndPointName : writers[e] # Null => ComesFrom(e, writers[e], "writer")
    BY DEF TypeOK, Origins
<1>2. \A i \in Positions("bridge") : i < at /\ document[i].library =>
        /\ bridges[document[i].name] = i
        /\ \A n \in document[i]["reader"] :
                readers[getEndPointName[<<document[i].name, n>>]] = <<"reader", i, n>>
        /\ \A n \in document[i]["writer"] :
                writers[getEndPointName[<<document[i].name, n>>]] = <<"writer", i, n>>
    BY DEF Kept
<1>3. LooksUp(readers, subName, "reader", r) /\ LooksUp(writers, pubName, "writer", w)
    BY DEF LookedUp
<1>4. \/ ~Found(readers, subName) /\ Makes(at, "reader", r) = {}
      \/ /\ r.part # Null /\ j = Null
         /\ Found(readers, subName) /\ readers[subName] = <<"reader", at, r.name>>
         /\ Makes(at, "reader", r) = {at}
      \/ /\ r.part = Null /\ j # at /\ j # Null
         /\ Found(readers, subName) /\ readers[subName] = <<"reader", j, r.name>>
         /\ Makes(at, "reader", r) = {j}
    BY <1>1, <1>2, <1>3, Lookup
<1>5. \/ ~Found(writers, pubName) /\ Makes(at, "writer", w) = {}
      \/ /\ w.part # Null /\ k = Null
         /\ Found(writers, pubName) /\ writers[pubName] = <<"writer", at, w.name>>
         /\ Makes(at, "writer", w) = {at}
      \/ /\ w.part = Null /\ k # at /\ k # Null
         /\ Found(writers, pubName) /\ writers[pubName] = <<"writer", k, w.name>>
         /\ Makes(at, "writer", w) = {k}
    BY <1>1, <1>2, <1>3, Lookup
<1>6. /\ document[at].reader = r /\ document[at].writer = w
      /\ bridgeOf(at) = IF j # Null THEN j ELSE IF k # Null THEN k ELSE at
    BY DEF element, bridgeOf
<1>7. ASSUME NEW m1, NEW m2, Makes(at, "reader", r) = {m1}, Makes(at, "writer", w) = {m2}
      PROVE  /\ at \in {m1, m2} => AskedOf(at) =
                    {[bridge |-> IF m1 # at THEN m1 ELSE m2, reader |-> <<"reader", m1, r.name>>,
                      writer |-> <<"writer", m2, w.name>>]}
             /\ at \notin {m1, m2} => AskedOf(at) = {}
    <2> DEFINE made == Makes(at, "reader", r) \X Makes(at, "writer", w)
               end == {m \in made : at \in {m[1], m[2]}}
               wire(m) == [bridge |-> IF m[1] # at THEN m[1] ELSE m[2],
                           reader |-> <<"reader", m[1], r.name>>,
                           writer |-> <<"writer", m[2], w.name>>]
    <2>1. made = {<<m1, m2>>}
        BY <1>7
    <2>2. /\ at \in {m1, m2} => end = {<<m1, m2>>}
          /\ at \notin {m1, m2} => end = {}
        BY <2>1
    <2>3. AskedOf(at) = {wire(m) : m \in end}
        BY <1>6 DEF AskedOf
    <2>4. wire(<<m1, m2>>) = [bridge |-> IF m1 # at THEN m1 ELSE m2,
                              reader |-> <<"reader", m1, r.name>>,
                              writer |-> <<"writer", m2, w.name>>]
        OBVIOUS
    <2> HIDE DEF made, end, wire
    <2>5. CASE at \in {m1, m2}
        BY <2>2, <2>3, <2>4, <2>5
    <2>6. CASE at \notin {m1, m2}
        BY <2>2, <2>3, <2>6
    <2> QED
        BY <2>5, <2>6
<1>8. Makes(at, "reader", r) = {} \/ Makes(at, "writer", w) = {} => AskedOf(at) = {}
    BY <1>6 DEF AskedOf
<1> HIDE DEF r, w, j, k
<1>9. connect => Found(readers, subName) /\ Found(writers, pubName) /\ (j = Null \/ k = Null)
    BY DEF connect, r, w, j, k
<1>10. refuseConnector =>
        ~Found(readers, subName) \/ ~Found(writers, pubName) \/ (j # Null /\ k # Null)
    BY DEF refuseConnector, r, w, j, k
<1>11. at # Null
    BY Connector, ISManagerAssumption DEF Connecting
<1> QED
    BY <1>4, <1>5, <1>6, <1>7, <1>8, <1>9, <1>10, <1>11

LEMMA RangeOfAppend ==
    ASSUME NEW S, NEW s \in Seq(S), NEW e \in S
    PROVE  Range(Append(s, e)) = Range(s) \cup {e}
<1> DEFINE t == Append(s, e)
<1>1. /\ Len(t) = Len(s) + 1 /\ DOMAIN t = 1..Len(t) /\ DOMAIN s = 1..Len(s) /\ Len(s) \in Nat
      /\ t[Len(s) + 1] = e /\ \A i \in 1..Len(s) : t[i] = s[i]
    OBVIOUS
<1> HIDE DEF t
<1>2. ASSUME NEW x \in Range(t) PROVE x \in Range(s) \cup {e}
    BY <1>1 DEF Range
<1>3. ASSUME NEW x \in Range(s) \cup {e} PROVE x \in Range(t)
    BY <1>1 DEF Range
<1> QED
    BY <1>2, <1>3 DEF t

\* A bridge that is known stays known until the maps are cleared.
LEMMA BridgeStays ==
    ASSUME TypeOK, Placed, Origins, Documented, Next, pc' # "ended", NEW b \in Known(bridges)
    PROVE  b \in Known(bridges')
<1>1. PICK p \in Prefix : bridges[p] = b /\ b # Null
    BY DEF Known, Range, TypeOK
<1>2. TypeOK'
    BY TypesKept
<1>3. b \in Positions("bridge") \cup Positions("connector") /\ document[b].name = p
    BY <1>1 DEF Origins
<1>4. ASSUME NEW i \in Positions("bridge") \cup Positions("connector"), i = at,
             addBridge(document[i].name)
      PROVE  bridges'[p] = b
    <2>1. i = b => bridges'[p] = b
        BY <1>1, <1>3, <1>4 DEF addBridge, TypeOK
    <2>2. i # b => document[i].name # p
        BY <1>3, DocumentedForm
    <2> QED
        BY <1>1, <1>4, <2>1, <2>2 DEF addBridge, TypeOK
<1>5. bridges'[p] = b
    <2>1. CASE bridges' = bridges
        BY <1>1, <2>1
    <2>2. CASE loadBridge
        BY <1>4, <2>2, LoadedBridge DEF loadBridge, element
    <2>3. CASE connect
        BY <1>1, <1>4, <2>3, Connector DEF connect, Connecting, element
    <2>4. CASE clear
        BY <2>4 DEF clear
    <2> QED
        BY <2>1, <2>2, <2>3, <2>4 DEF Next, maps, loadIS, crashBridge, skipBridge, loadConnector,
            checkConnector, getReaderParticipant, createReader, getWriterParticipant,
            createWriter, refuseConnector, onTerminate, removeParticipant, deleteBridge
<1> QED
    BY <1>1, <1>2, <1>5 DEF Known, Range, TypeOK

LEMMA WiredKept ==
    ASSUME TypeOK, Placed, Origins, Documented, Kept, LookedUp, WiredSoFar, Next
    PROVE  WiredSoFar'
<1> DEFINE entry == [bridge |-> bridgeOf(at), reader |-> readers[subName],
                     writer |-> writers[pubName]]
           Before(n) == {i \in Connectors : i < n}
<1>1. Connectors' = Connectors /\ \A i : AskedOf(i)' = AskedOf(i)
    BY NextKeepsDocument, FileStays
<1>2. at' \in Nat /\ at \in Nat /\ at' >= at /\ \A i \in Connectors : i \in Nat
    BY Onward, Elements DEF Connectors, Positions, TypeOK
<1>3. CASE connect
    <2>1. pc = "connect" /\ pc \in Connecting /\ wired' = Append(wired, entry) /\ at' = at + 1
        BY <1>3 DEF connect, Connecting, Advance
    <2>2. entry \in [bridge : 1..MaxElements, reader : Object, writer : Object]
        <3>1. bridgeOf(at) \in 1..MaxElements
            BY <2>1, Connector DEF bridgeOf, customBridge, element, Ref, TypeOK
        <3>2. readers[subName] \in Object /\ writers[pubName] \in Object
            BY <1>3 DEF connect, Found, TypeOK
        <3> QED
            BY <3>1, <3>2
    <2>3. Range(wired') = Range(wired) \cup {entry}
        <3> DEFINE Wire == [bridge : 1..MaxElements, reader : Object, writer : Object]
        <3>1. wired \in Seq(Wire)
            BY DEF TypeOK
        <3> HIDE DEF Wire, entry
        <3>2. entry \in Wire
            BY <2>2 DEF Wire
        <3> QED
            BY <2>1, <3>1, <3>2, RangeOfAppend
    <2>4. AskedOf(at) = {entry}
        BY <1>3, <2>1, ConnectorAsked
    <2>5. Before(at') = Before(at) \cup {at}
        BY <1>2, <2>1, Connector
    <2> HIDE DEF entry, Before
    <2>6. Range(wired') = UNION {AskedOf(i) : i \in Before(at')}
        BY <2>3, <2>4, <2>5 DEF WiredSoFar, Before
    <2>7. bridgeOf(at) \in Known(bridges')
        <3>1. CASE bridgeOf(at) = at
            <4>1. bridges'[element.name] = at /\ element.name \in DOMAIN bridges' /\ at # Null
                BY <1>3, <2>1, <3>1, Connector, ISManagerAssumption DEF connect, addBridge, TypeOK
            <4> QED
                BY <3>1, <4>1 DEF Known, Range
        <3>2. CASE bridgeOf(at) # at
            <4>1. bridges' = bridges
                BY <1>3, <3>2 DEF connect
            <4> QED
                BY <2>1, <3>2, <4>1, Connector DEF bridgeOf, customBridge, Known, Range, TypeOK,
                    Ref, element
        <3> QED
            BY <3>1, <3>2
    <2>8. pc' # "ended"
        BY <1>3 DEF connect, Advance
    <2>9. \A c \in Range(wired') : c.bridge \in Known(bridges')
        BY <2>1, <2>3, <2>7, <2>8, BridgeStays DEF WiredSoFar, entry
    <2> QED
        BY <1>1, <2>6, <2>9 DEF WiredSoFar, Before
<1>4. CASE ~connect
    <2>1. wired' = wired
        BY <1>4 DEF Next, loadIS, loadBridge, crashBridge, skipBridge, loadConnector,
            checkConnector, getReaderParticipant, createReader, getWriterParticipant,
            createWriter, refuseConnector, onTerminate, removeParticipant, deleteBridge, clear
    <2>2. \A i \in Before(at) : i \in Before(at')
        BY <1>2
    <2>3. ASSUME NEW i \in Before(at'), i \notin Before(at)
          PROVE  AskedOf(i) = {}
        <3>1. i \in Positions("connector") /\ i < at' /\ ~(i < at) /\ i \in Connectors
            BY <2>3 DEF Connectors
        <3>2. i = at /\ document[i].tag = "connector"
            BY <3>1, Passed, CompleteConnectors DEF TypeOK
        <3>3. refuseConnector
            BY <1>4, <3>1, <3>2, Passed DEF loadBridge, skipBridge, Meets, element
        <3> QED
            BY <3>2, <3>3, ConnectorAsked DEF refuseConnector
    <2> HIDE DEF Before
    <2>4. UNION {AskedOf(i) : i \in Before(at')} = UNION {AskedOf(i) : i \in Before(at)}
        BY <2>2, <2>3
    <2>5. pc' # "ended" => pc # "ended"
        BY DEF Next, loadIS, loadBridge, crashBridge, skipBridge, loadConnector, checkConnector,
            getReaderParticipant, createReader, getWriterParticipant, createWriter, connect,
            refuseConnector, onTerminate, removeParticipant, deleteBridge, clear, Meets, locals
    <2>6. pc' # "ended" => \A c \in Range(wired) : c.bridge \in Known(bridges')
        BY <2>5, BridgeStays DEF WiredSoFar
    <2> QED
        BY <1>1, <2>1, <2>4, <2>6 DEF WiredSoFar, Before
<1> QED
    BY <1>3, <1>4

-------------------------------------------------------------------------------
(* The end *)

\* Only one declaration is made for the end of a connector.
LEMMA MadeOnce ==
    ASSUME TypeOK, Documented, NEW i \in Positions("connector"), NEW kind, NEW ref,
           NEW j \in Makes(i, kind, ref)
    PROVE  /\ document[j].tag = "connector" => j = i
           /\ document[j].tag # "connector" => j # i
           /\ \A k \in Makes(i, kind, ref) : k = j
<1>1. document[i].tag = "connector"
    BY CompleteConnectors DEF TypeOK
<1>2. CASE ref.part # Null
    BY <1>1, <1>2 DEF Makes
<1>3. CASE ref.part = Null
    <2>1. \A k \in Makes(i, kind, ref) : k \in Positions("bridge") /\ document[k].name = ref.bridge
        BY <1>3 DEF Makes, Declares
    <2>2. \A k \in Makes(i, kind, ref) : document[k].tag = "bridge"
        BY <2>1, Bridges DEF TypeOK
    <2>3. \A k \in Makes(i, kind, ref) : k = j
        BY <2>1, DocumentedForm
    <2> QED
        BY <1>1, <2>2, <2>3
<1> QED
    BY <1>2, <1>3

\* What AskedOf means for each of its entries.
LEMMA WireOf ==
    ASSUME WiredSoFar, NEW c \in Range(wired)
    PROVE  \E i, m1, m2 :
                /\ i \in Connectors /\ i < at /\ i \in {m1, m2}
                /\ m1 \in Makes(i, "reader", document[i].reader)
                /\ m2 \in Makes(i, "writer", document[i].writer)
                /\ c.bridge = IF m1 # i THEN m1 ELSE m2
                /\ c.reader = <<"reader", m1, document[i].reader.name>>
                /\ c.writer = <<"writer", m2, document[i].writer.name>>
<1>1. PICK i \in Connectors : i < at /\ c \in AskedOf(i)
    BY DEF WiredSoFar
<1> QED
    BY <1>1 DEF AskedOf

\* The ends of a connector are not of one kind, and the connectors of a reader go
\* over one bridge.
LEMMA WiredEnds ==
    ASSUME TypeOK, Documented, WiredSoFar
    PROVE  /\ \A c \in Range(wired) : c.reader[1] = "reader" /\ c.writer[1] = "writer"
           /\ \A c, d \in Range(wired) : c.reader = d.reader => c.bridge = d.bridge
<1>1. ASSUME NEW c \in Range(wired) PROVE c.reader[1] = "reader" /\ c.writer[1] = "writer"
    BY WireOf
<1>2. ASSUME NEW c \in Range(wired), NEW d \in Range(wired), c.reader = d.reader
      PROVE  c.bridge = d.bridge
    <2>1. PICK i, m1, m2 :
            /\ i \in Connectors
            /\ m1 \in Makes(i, "reader", document[i].reader)
            /\ m2 \in Makes(i, "writer", document[i].writer)
            /\ c.bridge = IF m1 # i THEN m1 ELSE m2
            /\ c.reader = <<"reader", m1, document[i].reader.name>>
        BY WireOf
    <2>2. PICK k, n1, n2 :
            /\ k \in Connectors
            /\ n1 \in Makes(k, "reader", document[k].reader)
            /\ n2 \in Makes(k, "writer", document[k].writer)
            /\ d.bridge = IF n1 # k THEN n1 ELSE n2
            /\ d.reader = <<"reader", n1, document[k].reader.name>>
        BY WireOf
    <2>3. n1 = m1 /\ i \in Positions("connector") /\ k \in Positions("connector")
        <3>1. c.reader[2] = m1 /\ d.reader[2] = n1
            BY <2>1, <2>2
        <3>2. i \in Positions("connector") /\ k \in Positions("connector")
            BY <2>1, <2>2 DEF Connectors
        <3> QED
            BY <1>2, <3>1, <3>2
    <2>4. CASE document[m1].tag = "connector"
        <3>1. m1 = i /\ m1 = k
            BY <2>1, <2>2, <2>3, <2>4, MadeOnce
        <3>2. m2 = n2
            BY <2>1, <2>2, <2>3, <3>1, MadeOnce
        <3> QED
            BY <2>1, <2>2, <2>3, <3>1, <3>2
    <2>5. CASE document[m1].tag # "connector"
        <3>1. m1 # i /\ m1 # k
            BY <2>1, <2>2, <2>3, <2>5, MadeOnce
        <3> QED
            BY <2>1, <2>2, <2>3, <3>1
    <2> QED
        BY <2>4, <2>5
<1> QED
    BY <1>1, <1>2

\* No endpoint is deleted by two bridges.
LEMMA OwnedOnce ==
    ASSUME TypeOK, Documented, WiredSoFar, NEW o, NEW b1, NEW b2, o \in Owned(b1), o \in Owned(b2)
    PROVE  b1 = b2
<1>1. ASSUME NEW b, o \in Owned(b)
      PROVE  \/ o[1] = "reader" /\ \E c \in Range(wired) : c.bridge = b /\ c.reader = o
             \/ /\ o[1] = "writer"
                /\ \E i \in DOMAIN wired :
                        wired[i].bridge = b /\ wired[i].writer = o /\ LastOf(i)
    BY <1>1, WiredEnds, Wires DEF Owned, LastOf
<1>2. CASE o[1] = "reader"
    BY <1>1, <1>2, WiredEnds
<1>3. CASE o[1] = "writer"
    <2>1. PICK i \in DOMAIN wired : wired[i].bridge = b1 /\ wired[i].writer = o /\ LastOf(i)
        BY <1>1, <1>3
    <2>2. PICK j \in DOMAIN wired : wired[j].bridge = b2 /\ wired[j].writer = o /\ LastOf(j)
        BY <1>1, <1>3
    <2>3. i = j
        BY <2>1, <2>2, Wires DEF LastOf
    <2> QED
        BY <2>1, <2>2, <2>3
<1> QED
    BY <1>1, <1>2, <1>3

\* A writer has a connector that was the last to be wired to it.
LEMMA LastStays ==
    ASSUME TypeOK, Next,
           \A i \in DOMAIN wired : \E k \in DOMAIN wired :
                wired[k].writer = wired[i].writer /\ LastOf(k)
    PROVE  \A i \in DOMAIN wired' : \E k \in DOMAIN wired' :
                wired'[k].writer = wired'[i].writer /\ LastOf(k)'
<1>1. CASE wired' = wired
    BY <1>1 DEF LastOf
<1>2. CASE connect
    <2> DEFINE Wire == [bridge : 1..MaxElements, reader : Object, writer : Object]
               n == Len(wired) + 1
               t == wired'
    <2>1. wired \in Seq(Wire) /\ \E e : t = Append(wired, e)
        BY <1>2 DEF TypeOK, connect
    <2> HIDE DEF Wire
    <2>2. /\ DOMAIN t = 1..n /\ DOMAIN wired = 1..(n - 1) /\ n \in Nat /\ n > 0
          /\ \A i \in DOMAIN wired : t[i] = wired[i]
        BY <2>1
    <2> HIDE DEF n, t
    <2>3. ASSUME NEW i \in DOMAIN t
          PROVE  \E k \in DOMAIN t :
                    t[k].writer = t[i].writer
                    /\ \A j \in DOMAIN t : t[j].writer = t[k].writer => j <= k
        <3>1. CASE t[i].writer = t[n].writer
            <4>1. n \in DOMAIN t /\ \A j \in DOMAIN t : j <= n
                BY <2>2
            <4> QED
                BY <3>1, <4>1
        <3>2. CASE t[i].writer # t[n].writer
            <4>1. i \in DOMAIN wired
                BY <2>2, <2>3, <3>2
            <4>2. PICK k \in DOMAIN wired : wired[k].writer = wired[i].writer /\ LastOf(k)
                BY <4>1
            <4>3. k \in DOMAIN t /\ t[k].writer = t[i].writer
                BY <2>2, <4>1, <4>2
            <4>4. ASSUME NEW j \in DOMAIN t, t[j].writer = t[k].writer PROVE j <= k
                <5>1. j # n
                    BY <3>2, <4>3, <4>4
                <5>2. j \in DOMAIN wired
                    BY <2>2, <5>1
                <5> QED
                    BY <2>2, <4>2, <4>4, <5>2 DEF LastOf
            <4> QED
                BY <4>3, <4>4
        <3> QED
            BY <3>1, <3>2
    <2> QED
        BY <2>3 DEF LastOf, t
<1> QED
    BY <1>1, <1>2 DEF Next, loadIS, loadBridge, crashBridge, skipBridge, loadConnector,
        checkConnector, getReaderParticipant, createReader, getWriterParticipant, createWriter,
        refuseConnector, onTerminate, removeParticipant, deleteBridge, clear

LEMMA DeletedKept ==
    ASSUME TypeOK, Placed, Subscribed, Documented, WiredSoFar, DeletedSoFar, Next
    PROVE  DeletedSoFar'
<1>1. TypeOK' /\ Subscribed'
    BY TypesKept, SubscribedKept
<1>2. \A i \in DOMAIN wired' : \E k \in DOMAIN wired' :
            wired'[k].writer = wired'[i].writer /\ LastOf(k)'
    BY LastStays DEF DeletedSoFar
<1>3. CASE pc' \notin Ending
    <2>1. destroyed' = {} /\ \A o \in Object : freed'[o] = 0
        BY <1>1, <1>3 DEF Subscribed
    <2>2. pc' # "ended"
        BY <1>3 DEF Ending
    <2> QED
        BY <1>2, <1>3, <2>1, <2>2 DEF DeletedSoFar
<1>4. CASE onTerminate
    <2>1. /\ wired' = wired /\ pc' = "terminated" /\ pc \notin Ending
          /\ UNCHANGED <<destroyed, freed>>
        BY <1>4 DEF onTerminate, Ending
    <2>2. destroyed' = {} /\ \A o \in Object : freed'[o] = 0
        BY <2>1 DEF Subscribed
    <2>3. \A c \in Range(wired) : {c.reader, c.writer} \subseteq m_bTerminating'
        BY <1>4, Elements DEF onTerminate, WiredSoFar, TypeOK
    <2> QED
        BY <1>2, <2>1, <2>2, <2>3 DEF DeletedSoFar
<1>5. CASE \E b \in Known(bridges) : deleteBridge(b)
    <2>1. PICK b \in Known(bridges) : deleteBridge(b)
        BY <1>5
    <2>2. /\ wired' = wired /\ pc = "terminated" /\ pc' = pc /\ b \notin destroyed
          /\ destroyed' = destroyed \cup {b} /\ m_bTerminating' = m_bTerminating
          /\ \A o \in Object : freed'[o] = freed[o] + IF o \in Owned(b) THEN 1 ELSE 0
        BY <2>1 DEF deleteBridge, locals
    <2>3. ASSUME NEW o \in Object
          PROVE  freed'[o] = IF \E c \in destroyed' : o \in Owned(c) THEN 1 ELSE 0
        <3>1. CASE o \in Owned(b)
            <4>1. \A c \in destroyed : o \notin Owned(c)
                BY <2>2, <3>1, OwnedOnce
            <4>2. freed[o] = 0
                BY <4>1 DEF DeletedSoFar
            <4> QED
                BY <2>2, <3>1, <4>2
        <3>2. CASE o \notin Owned(b)
            BY <2>2, <3>2 DEF DeletedSoFar
        <3> QED
            BY <3>1, <3>2
    <2>4. \A c : Owned(c)' = Owned(c)
        BY <2>2 DEF Owned
    <2> QED
        BY <1>2, <2>2, <2>3, <2>4 DEF DeletedSoFar, Ending
<1>6. CASE clear \/ \E p \in Prefix : removeParticipant(p)
    <2>1. /\ UNCHANGED <<wired, destroyed, freed, m_bTerminating>> /\ pc \in Ending
          /\ pc' = "ended" => \A c \in Range(wired) : c.bridge \in destroyed
        BY <1>6 DEF clear, removeParticipant, ending, locals, Ending, WiredSoFar
    <2>2. \A c : Owned(c)' = Owned(c)
        BY <2>1 DEF Owned
    <2> QED
        BY <1>2, <2>1, <2>2 DEF DeletedSoFar
<1> QED
    BY <1>3, <1>4, <1>5, <1>6 DEF Next, loadIS, loadBridge, crashBridge, skipBridge, loadConnector,
        checkConnector, getReaderParticipant, createReader, getWriterParticipant, createWriter,
        connect, refuseConnector, Advance, Ending, Meets

-------------------------------------------------------------------------------
\* ManagerInv holds in every state, whatever the file and whatever fails
\* (src/ISManager.cpp, lines 51 to 190 and 756 to 797).
THEOREM ManagerInvariance == Spec => []ManagerInv
<1>1. Init => ManagerInv
    <2> SUFFICES ASSUME Init PROVE ManagerInv
        OBVIOUS
    <2>1. document \in Documents /\ Len(document) \in Nat /\ Len(document) <= MaxElements
        BY Elements DEF Init
    <2>2. TypeOK
        <3>1. at \in 1..(MaxElements + 1) /\ failures \in 0..MaxFailures
            BY ISManagerAssumption DEF Init
        <3>2. freed \in [Object -> Nat]
            BY DEF Init
        <3>3. wired \in Seq([bridge : 1..MaxElements, reader : Object, writer : Object])
            BY DEF Init
        <3>4. /\ bridges \in [Prefix -> (1..MaxElements) \cup {Null}]
              /\ readers \in [EndPointName -> Object \cup {Null}]
              /\ writers \in [EndPointName -> Object \cup {Null}]
              /\ rtps_participants \in [Prefix -> {"none", "up", "null", "removed"}]
            BY DEF Init
        <3>5. /\ document \in Documents /\ pc = "element" /\ active \in BOOLEAN
              /\ subName = Null /\ pubName = Null
              /\ subscribed = {} /\ m_bTerminating = {} /\ destroyed = {}
            BY DEF Init
        <3> QED
            BY <3>1, <3>2, <3>3, <3>4, <3>5 DEF TypeOK
    <2>3. Placed
        BY <2>1, Elements DEF Init, Placed, Connecting
    <2>4. Subscribed /\ Origins
        BY DEF Init, Subscribed, Origins, Ending, Known, Range
    <2>5. Kept /\ LookedUp
        <3>1. \A i \in Positions("bridge") : ~(i < 1)
            BY <2>1, Elements DEF Positions
        <3> QED
            BY <3>1 DEF Init, Kept, LookedUp
    <2>6. WiredSoFar
        <3>1. \A i \in Connectors : ~(i < 1)
            BY <2>1, Elements DEF Connectors, Positions
        <3>2. Range(wired) = {}
            BY DEF Init, Range
        <3> QED
            BY <3>1, <3>2 DEF Init, WiredSoFar
    <2>7. DeletedSoFar
        BY DEF Init, DeletedSoFar, Ending, Range
    <2> QED
        BY <2>2, <2>3, <2>4, <2>5, <2>6, <2>7 DEF ManagerInv
<1>2. ManagerInv /\ [Next]_vars => ManagerInv'
    <2> SUFFICES ASSUME ManagerInv, [Next]_vars PROVE ManagerInv'
        OBVIOUS
    <2>1. CASE Next
        <3>1. TypeOK' /\ Placed' /\ Subscribed' /\ Origins'
            BY <2>1, TypesKept, PlaceKept, SubscribedKept, OriginsKept DEF ManagerInv
        <3>2. Documented' = Documented
            BY NextKeepsDocument, FileStays
        <3>3. failures' = 0 => failures = 0
            <4>1. failures' = failures \/ failures' = failures + 1
                BY <2>1 DEF Next, loadIS, loadBridge, crashBridge, skipBridge, loadConnector,
                    checkConnector, getReaderParticipant, createReader, getWriterParticipant,
                    createWriter, connect, refuseConnector, onTerminate, removeParticipant,
                    deleteBridge, clear, getParticipant, rtps
            <4> QED
                BY <4>1 DEF ManagerInv, TypeOK
        <3>4. Documented /\ failures' = 0 => Kept' /\ LookedUp' /\ WiredSoFar' /\ DeletedSoFar'
            BY <2>1, <3>3, KeptKept, LookedUpKept, WiredKept, DeletedKept DEF ManagerInv
        <3> QED
            BY <3>1, <3>2, <3>4 DEF ManagerInv
    <2>2. CASE UNCHANGED vars
        <3> USE <2>2 DEF vars, maps, rtps, locals, ending
        <3>1. /\ \A tag : Positions(tag)' = Positions(tag)
              /\ Connectors' = Connectors /\ Documented' = Documented
              /\ \A i : AskedOf(i)' = AskedOf(i)
              /\ \A o : participantOf(o)' = participantOf(o) /\ prefixOf(o)' = prefixOf(o)
            BY FileStays
        <3>2. TypeOK'
            BY DEF ManagerInv, TypeOK
        <3>3. Placed' /\ Subscribed'
            BY <3>1 DEF ManagerInv, Placed, Subscribed
        <3>4. Origins'
            BY <3>1 DEF ManagerInv, Origins, ComesFrom, Known
        <3>5. (Kept => Kept') /\ (LookedUp => LookedUp') /\ (WiredSoFar => WiredSoFar')
            BY <3>1 DEF Kept, LookedUp, LooksUp, WiredSoFar, element, Known
        <3>6. DeletedSoFar => DeletedSoFar'
            BY DEF DeletedSoFar, LastOf, Owned
        <3> QED
            BY <3>1, <3>2, <3>3, <3>4, <3>5, <3>6 DEF ManagerInv
    <2> QED
        BY <2>1, <2>2
<1> QED
    BY <1>1, <1>2, PTL DEF Spec

\* The manager's fields only ever hold values of the right kind.
THEOREM TypeCorrect == Spec => []TypeOK
<1>1. ManagerInv => TypeOK
    BY DEF ManagerInv
<1> QED
    BY <1>1, ManagerInvariance, PTL

\* In a file of the documented form, with nothing refused, every connector gets what
\* it asks for and nothing else is wired; and main waits for a key exactly when there
\* is something to terminate (loadConnector, and isActive).
THEOREM LoadingIsRight == Spec => []LoadsWhatIsAsked
<1>1. ManagerInv => LoadsWhatIsAsked
    <2> SUFFICES ASSUME ManagerInv PROVE LoadsWhatIsAsked
        OBVIOUS
    <2>1. pc \notin {"crashed", "ended"} => (active <=> Known(bridges) # {})
        BY DEF ManagerInv, Origins
    <2>2. ASSUME Loaded, Documented, failures = 0
          PROVE  Range(wired) = Asked
        <3>1. \A i \in Connectors : i < at
            BY <2>2, Elements DEF ManagerInv, TypeOK, Loaded, Connectors, Positions, Placed
        <3>2. {i \in Connectors : i < at} = Connectors
            BY <3>1
        <3> QED
            BY <2>2, <3>2 DEF ManagerInv, WiredSoFar, Asked
    <2> QED
        BY <2>1, <2>2 DEF LoadsWhatIsAsked
<1> QED
    BY <1>1, ManagerInvariance, PTL

\* In a file of the documented form, with nothing refused, the destructor tells every
\* endpoint of every connector to terminate and deletes it once, whatever the
\* connectors share (src/ISManager.cpp, lines 756 to 797).
THEOREM TakenDown == Spec => []TakenDownOnce
<1>1. ManagerInv => TakenDownOnce
    <2> SUFFICES ASSUME ManagerInv, Documented, failures = 0
                 PROVE  /\ \A o \in Object : freed[o] <= 1
                        /\ pc \in {"terminated", "ended"} =>
                                \A c \in Range(wired) : {c.reader, c.writer} \subseteq m_bTerminating
                        /\ pc = "ended" =>
                                \A c \in Range(wired) : freed[c.reader] = 1 /\ freed[c.writer] = 1
        BY DEF TakenDownOnce
    <2>1. DeletedSoFar /\ TypeOK
        BY DEF ManagerInv
    <2>2. \A o \in Object : freed[o] <= 1
        BY <2>1 DEF DeletedSoFar
    <2>3. ASSUME pc = "ended", NEW c \in Range(wired)
          PROVE  freed[c.reader] = 1 /\ freed[c.writer] = 1
        <3>1. c.reader \in Object /\ c.writer \in Object
            BY <2>1, Wires
        <3>2. c.bridge \in destroyed /\ c.reader \in Owned(c.bridge)
            BY <2>1, <2>3 DEF DeletedSoFar, Owned
        <3>3. PICK i \in DOMAIN wired : wired[i] = c
            BY DEF Range
        <3>4. PICK k \in DOMAIN wired : wired[k].writer = c.writer /\ LastOf(k)
            BY <2>1, <3>3 DEF DeletedSoFar
        <3>5. wired[k].bridge \in destroyed
            BY <2>1, <2>3, Wires DEF DeletedSoFar
        <3>6. c.writer \in Owned(wired[k].bridge)
            BY <3>4 DEF Owned, LastOf
        <3> QED
            BY <2>1, <3>1, <3>2, <3>5, <3>6 DEF DeletedSoFar
    <2> QED
        BY <2>1, <2>2, <2>3 DEF DeletedSoFar, Ending
<1> QED
    BY <1>1, ManagerInvariance, PTL

\* Whatever the file and whatever fails, no reader is deleted while Fast RTPS may still
\* call it back (the order of the destructor).
THEOREM NoListenerDeleted == Spec => []NoLiveListenerDeleted
<1>1. ManagerInv => NoLiveListenerDeleted
    <2> SUFFICES ASSUME ManagerInv, NEW r \in subscribed PROVE freed[r] = 0
        BY DEF NoLiveListenerDeleted
    <2>1. r \in Object
        BY DEF ManagerInv, TypeOK
    <2>2. "up" \in Range(rtps_participants)
        BY DEF ManagerInv, TypeOK, Subscribed, Range
    <2> QED
        BY <2>1, <2>2 DEF ManagerInv, Subscribed
<1> QED
    BY <1>1, ManagerInvariance, PTL
===============================================================================
