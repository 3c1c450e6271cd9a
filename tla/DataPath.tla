------------------------------- MODULE DataPath --------------------------------
(***************************************************************************)
(* What becomes of a sample on its way from a subscriber to the writers of *)
(* one route: the three ways RTPSSubscriber takes it, the transformations  *)
(* of the dynamic_types example, the two write overloads of RTPSPublisher  *)
(* and the FileWriter of the helloworld_to_file example, with the buffers, *)
(* payloads and outputs that each of them keeps from one sample to the     *)
(* next, over several executions of the program.                           *)
(*                                                                         *)
(* One callback is one step: how callbacks interleave is in module         *)
(* Dispatch, and which writers a route has in module ISBridge.             *)
(***************************************************************************)
EXTENDS Codec, FiniteSets

CONSTANTS
    Configurations,     \* the routes considered
    Inputs,             \* type -> the samples its publishers send
    FileName,
    DefaultFile,        \* "output.txt"
    Null,
    MaxSamples,         \* bound: callbacks
    MaxExecutions       \* bound: executions of the program

\* A property of a custom writer; the name or the value may not be there.
Property == [name : {"filename", "format", "append", Null},
             value : FileName \cup {"txt", "true", "false", Null}]

\* The kind of an endpoint's TopicDataType, or a FileWriter.
Kind == {"generic", "provided", "dynamic"}
Writer ==
    [kind : Kind, type : Types]
    \cup [kind : {"file"}, type : {"HelloWorld"}, properties : Seq(Property)]

Function == {"none", "KeyToHelloWorld", "HelloWorldToKey"}
InputOf == [KeyToHelloWorld |-> "sample", HelloWorldToKey |-> "HelloWorld"]
OutputOf == [KeyToHelloWorld |-> "HelloWorld", HelloWorldToKey |-> "sample"]

\* A transformation reads the type it was written for, and the writers of payloads
\* have the type the payload is of: what the bytes of one type read as in another
\* is left out.
ASSUME DataPathAssumption ==
    /\ \A c \in Configurations :
            /\ c.kind \in Kind /\ c.type \in Types /\ c.function \in Function
            /\ c.writers \in Seq(Writer)
            /\ c.function # "none" => c.type = InputOf[c.function]
            /\ c.kind # "dynamic" => \A i \in DOMAIN c.writers : c.writers[i].type =
                    IF c.function = "none" THEN c.type ELSE OutputOf[c.function]
    /\ DOMAIN Inputs = Types
    /\ \A T \in Types : \A d \in Inputs[T] : d \in Samples(T)
    /\ DefaultFile \in FileName
    /\ MaxSamples \in Nat /\ MaxExecutions \in Nat \ {0}

VARIABLES
    config,             \* the route
    execution,          \* which execution of the program this is
    m_buffer,           \* RTPSSubscriber: the object samples are taken into,
    m_payload,          \* the payload handed to the bridge,
    m_dynData,          \* and the dynamic data handed to it
    mm_staticPayload,   \* ISBridge: the output of the key, a payload
    mm_dynamicData,     \* or dynamic data, with its type
    buffers,            \* RTPSPublisher::m_buffer of each writer
    published,          \* what left each writer in the last callback
    files,              \* the lines in each file
    given,              \* the sample the last callback was for
    received,           \* the samples received, in all executions
    earlier,            \* how many of them came in earlier executions
    crashed             \* an exception has left a callback

reader == <<m_buffer, m_payload, m_dynData>>
bridge == <<mm_staticPayload, mm_dynamicData>>
vars   == <<config, execution, reader, bridge, buffers, published, files, given,
            received, earlier, crashed>>

W == DOMAIN config.writers
Has(kind) == {w \in W : config.writers[w].kind = kind}

-------------------------------------------------------------------------------
(* FileWriter: its properties and its file *)

\* ISManager::parseProperties leaves out what lacks a name or a value.
parseProperties(elements) ==
    SelectSeq(elements, LAMBDA e : e.name # Null /\ e.value # Null)

\* The last property of a name counts.
Setting(properties, name, default) ==
    LET at == {i \in DOMAIN properties : properties[i].name = name}
    IN  IF at = {} THEN default
        ELSE properties[CHOOSE i \in at : \A j \in at : j <= i].value

outputFile(w) == Setting(parseProperties(w.properties), "filename", DefaultFile)

append(w) == Setting(parseProperties(w.properties), "append", "false") = "true"

\* Two writers that write over each other's lines are left out.
ASSUME OneWriterOrAppended ==
    \A c \in Configurations : \A v, w \in DOMAIN c.writers :
        /\ v # w /\ c.writers[v].kind = "file" /\ c.writers[w].kind = "file"
        /\ outputFile(c.writers[v]) = outputFile(c.writers[w])
        => append(c.writers[v])

\* The writers of a file, and what is in the file when they have opened it.
WritersOf(f) == {w \in Has("file") : outputFile(config.writers[w]) = f}

\* Seeded bug for Opened: append is not consulted.
OpenedAnew(contents) == [f \in FileName |-> IF WritersOf(f) # {} THEN <<>> ELSE contents[f]]

Opened(contents) ==
    [f \in FileName |->
        IF \E w \in WritersOf(f) : ~append(config.writers[w]) THEN <<>> ELSE contents[f]]

-------------------------------------------------------------------------------
Init ==
    /\ config \in Configurations
    /\ execution = 1
    /\ m_buffer = Null /\ m_payload = Null /\ m_dynData = Null
    /\ mm_staticPayload = Null /\ mm_dynamicData = Null
    /\ buffers = [w \in W |-> Null]
    /\ published = [w \in W |-> Null]
    /\ files = [f \in FileName |-> <<>>]
    /\ given = Null
    /\ received = <<>>
    /\ earlier = 0
    /\ crashed = FALSE

\* The program is started again, after it has ended in any way.
Restart ==
    /\ execution < MaxExecutions
    /\ execution' = execution + 1
    /\ m_buffer' = Null /\ m_payload' = Null /\ m_dynData' = Null
    /\ mm_staticPayload' = Null /\ mm_dynamicData' = Null
    /\ buffers' = [w \in W |-> Null]
    /\ published' = [w \in W |-> Null]
    /\ files' = Opened(files)
    /\ given' = Null
    /\ earlier' = Len(received)
    /\ crashed' = FALSE
    /\ UNCHANGED <<config, received>>

-------------------------------------------------------------------------------
(* The transformations *)

\* Seeded bug for HelloWorldToKey: the index is not cut to an octet.
HelloWorldToWideKey(d) == <<d[1], d[1]>>

KeyToHelloWorld(d) == <<d[1], 9>>       \* "Transform"
HelloWorldToKey(d) == <<d[1] % 256, d[1] % 256>>

Transformed(f, d) == IF f = "KeyToHelloWorld" THEN KeyToHelloWorld(d) ELSE HelloWorldToKey(d)

\* What the static functions read their input into.
Input(f, data) == deserialize(InputOf[f], data, createData(InputOf[f]))

\* Seeded bug for Transform: the output is not given room.
TransformInPlace(f, data, output) ==
    serialize(OutputOf[f], Transformed(f, Input(f, data)), output)

\* function(data, output) for payloads.
Transform(f, data, output) ==
    LET out == Transformed(f, Input(f, data))
    IN  serialize(OutputOf[f], out,
                  reserve(output, getSerializedSizeProvider(OutputOf[f], out)))

\* function(data, output) for dynamic data.  The message is not set, and a setter
\* refuses a member that is not of its type.
TransformDynamic(f, d, output) ==
    [output EXCEPT !.data =
        IF output.type # OutputOf[f] THEN @
        ELSE IF f = "KeyToHelloWorld" THEN [@ EXCEPT ![1] = d[1]]
        ELSE HelloWorldToKey(d)]

-------------------------------------------------------------------------------
(* The writers *)

Or(object, new) == IF object = Null THEN new ELSE object

\* RTPSPublisher::write, and FileWriter::write, deserialize a payload unless it
\* goes out as it is: into m_buffer, or into an object of its own.
deserialized(w, p) ==
    LET T == config.writers[w].type
    IN  IF w \in Has("file") THEN deserialize(T, p, createData(T))
                            ELSE deserialize(T, p, Or(buffers[w], createData(T)))

Throws(w, p) ==
    /\ w \notin Has("generic")
    /\ \/ DeserializeThrows(p)
       \/ w \notin Has("file") /\ GetKeyThrows(config.writers[w].type, deserialized(w, p))

\* What leaves a writer; a subscriber cannot make sense of a payload that lacks
\* a member.
written(w, p) ==
    LET T == config.writers[w].type
    IN  [type |-> T,
         data |-> IF w \notin Has("generic") THEN deserialized(w, p)
                  ELSE IF Readable(T, p) THEN p.sample ELSE Null]

\* write(SerializedPayload_t*) of one writer after the other; the first exception
\* is the last thing that happens.
writePayload(p) ==
    LET done == {w \in W : \A v \in 1..w : ~Throws(v, p)}
    IN  /\ published' = [w \in W |-> IF w \in done THEN written(w, p) ELSE Null]
        /\ buffers' = [w \in W |-> IF w \in done \ (Has("generic") \cup Has("file"))
                                   THEN deserialized(w, p) ELSE buffers[w]]
        /\ files' = [f \in FileName |->
                files[f] \o [i \in 1..Cardinality(WritersOf(f) \cap done) |->
                                written(CHOOSE w \in WritersOf(f) : TRUE, p).data]]
        /\ crashed' = (done # W)

\* write(DynamicData*): a publisher passes it on whatever its type is, which has
\* no meaning unless it is dynamic; a FileWriter does nothing with it.
writeDynamic(type, d) ==
    LET wrong == Has("generic") \cup Has("provided")
    IN  /\ \/ /\ wrong # {}
              /\ crashed' = TRUE
           \/ UNCHANGED crashed
        /\ published' = [w \in W |->
                CASE w \in wrong -> [type |-> config.writers[w].type, data |-> Null]
                  [] w \in Has("dynamic") -> [type |-> type, data |-> d]
                  [] w \in Has("file") -> Null]
        /\ UNCHANGED <<buffers, files>>

writeNothing ==
    /\ published' = [w \in W |-> Null]
    /\ UNCHANGED <<buffers, files, crashed>>

-------------------------------------------------------------------------------
(* ISBridge::on_received_data *)

\* A transformation is a function on payloads if the writer of its connector is
\* not dynamic, and one on dynamic data if it is.
Static == config.function # "none" /\ Has("dynamic") # W
Dynamic == config.function # "none" /\ Has("dynamic") # {}

on_received_payload(p) ==
    IF config.function = "none" THEN
        /\ writePayload(p)
        /\ UNCHANGED bridge
    ELSE IF ~Static THEN writeNothing /\ UNCHANGED bridge
    ELSE IF DeserializeThrows(p) THEN
        /\ crashed' = TRUE
        /\ published' = [w \in W |-> Null]
        /\ UNCHANGED <<bridge, buffers, files>>
    ELSE
        /\ mm_staticPayload' = Transform(config.function, p, Or(mm_staticPayload, NewPayload(0)))
        /\ writePayload(mm_staticPayload')
        /\ UNCHANGED mm_dynamicData

\* The output is made from the type of the first writer that is dynamic.
NewOutput ==
    LET T == config.writers[CHOOSE w \in Has("dynamic") : \A v \in Has("dynamic") : w <= v].type
    IN  [type |-> T, data |-> createData(T)]

on_received_dynamic(d) ==
    IF config.function = "none" THEN
        /\ writeDynamic(config.type, d)
        /\ UNCHANGED bridge
    ELSE IF ~Dynamic THEN writeNothing /\ UNCHANGED bridge
    ELSE
        /\ mm_dynamicData' =
                TransformDynamic(config.function, d, IF mm_dynamicData = Null THEN NewOutput
                                                     ELSE mm_dynamicData)
        /\ published' = [w \in W |-> IF w \in Has("dynamic") THEN mm_dynamicData' ELSE Null]
        /\ UNCHANGED <<mm_staticPayload, buffers, files, crashed>>

-------------------------------------------------------------------------------
(* RTPSSubscriber::onNewDataMessage *)

Receive(d) ==
    /\ ~crashed
    /\ Len(received) < MaxSamples
    /\ given' = d
    /\ received' = Append(received, d)
    /\ UNCHANGED <<config, execution, earlier>>

TakeGeneric(d) ==
    /\ config.kind = "generic"
    /\ Receive(d)
    /\ m_payload' = copy(Or(m_payload, NewPayload(0)), Received(config.type, d))
    /\ on_received_payload(m_payload')
    /\ UNCHANGED <<m_buffer, m_dynData>>

TakeDynamic(d) ==
    /\ config.kind = "dynamic"
    /\ Receive(d)
    /\ m_dynData' = d
    /\ on_received_dynamic(d)
    /\ UNCHANGED <<m_buffer, m_payload>>

\* The payload that serialize leaves is handed on, whatever serialize returns.
TakeProvided(d) ==
    /\ config.kind = "provided"
    /\ Receive(d)
    /\ m_buffer' = d
    /\ m_payload' = serialize(config.type, d,
                        Or(m_payload, NewPayload(PubSubType(config.type).m_typeSize)))
    /\ on_received_payload(m_payload')
    /\ UNCHANGED m_dynData

\* The callback finds no sample, or one that says that an instance is gone.
TakeNothing ==
    LET T == config.type
    IN  /\ ~crashed
        /\ given' = Null
        /\ m_buffer' = IF config.kind = "provided" THEN Or(m_buffer, createData(T)) ELSE m_buffer
        /\ m_payload' =
                CASE config.kind = "generic" -> Or(m_payload, NewPayload(0))
                  [] config.kind = "provided" ->
                        serialize(T, m_buffer', Or(m_payload, NewPayload(PubSubType(T).m_typeSize)))
                  [] config.kind = "dynamic" -> m_payload
        /\ m_dynData' = IF config.kind = "dynamic" THEN createData(T) ELSE m_dynData
        /\ writeNothing
        /\ UNCHANGED <<config, execution, bridge, received, earlier>>

Next ==
    \/ \E d \in Inputs[config.type] : TakeGeneric(d) \/ TakeDynamic(d) \/ TakeProvided(d)
    \/ TakeNothing
    \/ Restart

Spec == Init /\ [][Next]_vars

-------------------------------------------------------------------------------
(* Properties *)

IsPayload(p) ==
    /\ p.max_size \in Nat /\ p.length \in Nat
    /\ p.members \subseteq DOMAIN p.sample
    /\ p.sample = <<>> \/ \E T \in Types : p.sample \in Samples(T)

\* The types of the buffers and payloads, and of what leaves a writer: an octet of
\* a key, in particular, is an octet.
TypeOK ==
    /\ config \in Configurations
    /\ execution \in 1..MaxExecutions
    /\ m_buffer = Null \/ m_buffer \in Samples(config.type)
    /\ m_payload # Null => IsPayload(m_payload)
    /\ m_dynData = Null \/ m_dynData \in Samples(config.type)
    /\ mm_staticPayload # Null => IsPayload(mm_staticPayload)
    /\ mm_dynamicData # Null => mm_dynamicData.data \in Samples(mm_dynamicData.type)
    /\ \A w \in W :
            /\ buffers[w] = Null \/ buffers[w] \in Samples(config.writers[w].type)
            /\ published[w] # Null =>
                    published[w].data = Null \/ published[w].data \in Samples(published[w].type)
    /\ crashed \in BOOLEAN

\* The ends of the route go together: data is dynamic on both sides or on none,
\* and all writers have the type that the transformation makes.
Consistent ==
    /\ IF config.kind = "dynamic" THEN Has("dynamic") = W
       ELSE config.function = "none" \/ Static
    /\ \A w \in W : config.writers[w].type =
            IF config.function = "none" THEN config.type ELSE OutputOf[config.function]

\* The strings of the sample are within what the types reckon with, 255 characters,
\* where the route has one that does: a payload of that size, or a key.
String(T, d) == CASE T = "Text" -> d[1] [] T = "HelloWorld" -> d[2]
                  [] T = "sample" -> 0 [] T = "ShapeType" -> d[1]

Suits(d) ==
    String(config.type, d) > 255 =>
        /\ config.kind # "provided"
        /\ config.kind = "generic" /\ config.type = "ShapeType" => Has("generic") = W

\* What the writers are meant to publish for a sample.
Image(d) ==
    CASE config.function = "none" -> d
      [] config.function = "HelloWorldToKey" -> HelloWorldToKey(d)
      [] config.function = "KeyToHelloWorld" ->
            IF config.kind = "dynamic" THEN <<d[1], 0>> ELSE KeyToHelloWorld(d)

\* A sample that suits its route leaves every writer as what it is meant to be,
\* whatever came before it: not even a sample that did not fit the reused payload,
\* whose half-done serialization RTPSSubscriber hands on all the same, leaves
\* anything behind in the payloads, outputs and buffers of the path.
Faithful ==
    Consistent /\ given # Null /\ Suits(given) =>
        /\ ~crashed
        /\ \A w \in W : published[w] =
                [type |-> config.writers[w].type, data |-> Image(given)]

\* What examples/helloworld_to_file/README.rst says of append: with it, the lines
\* of each execution are added to those of the earlier ones; without it, a file
\* has the lines of this execution.
FileKeepsLines ==
    Consistent /\ (\A i \in DOMAIN received : Suits(received[i])) =>
        \A f \in FileName :
            LET n == Cardinality(WritersOf(f))
                all == \A w \in WritersOf(f) : append(config.writers[w])
                skipped == IF all THEN 0 ELSE earlier
            IN  files[f] = [i \in 1..(n * (Len(received) - skipped)) |->
                                Image(received[skipped + ((i - 1) \div n) + 1])]
===============================================================================
