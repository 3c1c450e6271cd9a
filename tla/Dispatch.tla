------------------------------- MODULE Dispatch -------------------------------
(***************************************************************************)
(* ISBridge::on_received_data, for serialized payloads and for dynamic     *)
(* data, statement by statement, as the threads of several readers of one  *)
(* bridge run it at once (include/ISBridge.h, lines 149 to 274), with      *)
(* RTPSPublisher::write underneath (src/RTPSPublisher.cpp, lines 48 to     *)
(* 70).                                                                    *)
(*                                                                         *)
(* Fast RTPS calls the listener of one subscriber from one thread at a     *)
(* time, so a reader is a thread.  The connectors are all wired: nothing is *)
(* added to the routing tables (module ISBridge says how they come about)  *)
(* but the entries without names and without writers that the threads'     *)
(* own look-ups insert.                                                    *)
(* A message is its reader and its number; data in a payload or buffer is  *)
(* the message it was made from and the transformation that made it.       *)
(***************************************************************************)
EXTENDS Naturals, Sequences, Functions

CONSTANTS
    Reader, Writer, Name, FName, NoFunction,
    Bridges,            \* the wired bridges considered
    Resolved,           \* function names bound to a non-null function
    Generic,            \* writers whose output_type is a GenericPubSubType
    DynamicType,        \* and those whose output_type is a DynamicPubSubType
    Null

Key == Name \X FName

\* What a copy of the list under a key holds.
Listed(entry) == IF entry = Null THEN <<>> ELSE entry

\* A wired bridge: its routing tables, where Null is no entry and an empty list an
\* entry that an earlier look-up left, the names of its readers and those of them
\* that hand over dynamic data, the keys that earlier messages have been through,
\* and a bound on the messages that each reader hands over from now on.
\* One connector per route: what repeated entries do is a matter of counting, and
\* is counted in module ISBridge.
WiredBridge(b) ==
    /\ b.readerName \in [Reader -> Name]
    /\ b.dynamic \subseteq Reader
    /\ b.mm_functions \in [Name -> Seq(FName) \cup {Null}]
    /\ b.mm_dynFunctions \in [Name -> Seq(FName) \cup {Null}]
    /\ b.mm_writer \in [Key -> Seq(Writer) \cup {Null}]
    /\ b.Used \subseteq Key
    /\ b.MaxMessages \in [Reader -> Nat]
    /\ \A n \in Name : /\ IsInjective(Listed(b.mm_functions[n]))
                       /\ IsInjective(Listed(b.mm_dynFunctions[n]))
    /\ \A k \in Key : IsInjective(Listed(b.mm_writer[k]))

ASSUME DispatchAssumption ==
    /\ \A b \in Bridges : WiredBridge(b)
    /\ NoFunction \in FName
    /\ Resolved \subseteq FName \ {NoFunction}
    /\ Generic \subseteq Writer /\ DynamicType \subseteq Writer
    /\ Null \notin Reader \cup (Key \X Reader)
    /\ Null \notin Seq(FName) \cup Seq(Writer)

VARIABLES
    bridge,             \* the bridge
    pc,                 \* where each thread is
    msg,                \* the number of the message each thread is at
    funcNames, pubs,    \* its copies of the lists of functions and of writers
    fi, wi,             \* its positions in them
    mutex, output,      \* its local pointers
    mm_functions,       \* the bridge's routing tables, of the functions on payloads,
    mm_dynFunctions,    \* of those on dynamic data,
    mm_writer,          \* and of the writers
    mm_mutex,           \* its mutex of each key,
    mm_staticPayload,   \* its output payload of each key,
    mm_dynamicData,     \* and its dynamic output
    owner,              \* which thread has locked each mutex
    payload,            \* the data in each output
    m_bufferMutex,      \* which thread has locked each writer's buffer
    m_buffer,           \* the data in each writer's buffer
    m_bTerminating,     \* the writers whose onTerminate has run
    sent,               \* what left each writer: message numbers in order, by
                        \* reader and form
    late                \* messages each thread sent through a writer after
                        \* its onTerminate

lists   == <<funcNames, pubs>>
threads == <<pc, msg, lists, fi, wi, mutex, output>>
routes  == <<mm_functions, mm_dynFunctions, mm_writer>>
tables  == <<bridge, routes, mm_mutex, mm_staticPayload, mm_dynamicData>>
locks   == <<owner, m_bufferMutex>>
data    == <<payload, m_buffer>>
ends    == <<sent, late>>
vars    == <<threads, tables, locks, data, ends, m_bTerminating>>

-------------------------------------------------------------------------------
\* A mutex or an output is named after its key and the thread that made it.
Object == Key \X Reader

readerName(t) == bridge.readerName[t]
IsDynamic(t) == t \in bridge.dynamic

\* The objects that earlier messages of some readers left behind for the keys that
\* have been used.
Left(k, readers) ==
    LET makers == {r \in readers : readerName(r) = k[1]}
    IN  IF k \in bridge.Used /\ makers # {} THEN <<k, CHOOSE r \in makers : TRUE>> ELSE Null

Init ==
    /\ bridge \in Bridges
    /\ pc = [t \in Reader |-> "idle"]
    /\ msg = [t \in Reader |-> 0]
    /\ funcNames = [t \in Reader |-> <<>>]
    /\ pubs = [t \in Reader |-> <<>>]
    /\ fi = [t \in Reader |-> 1]
    /\ wi = [t \in Reader |-> 1]
    /\ mutex = [t \in Reader |-> Null]
    /\ output = [t \in Reader |-> Null]
    /\ mm_functions = bridge.mm_functions
    /\ mm_dynFunctions = bridge.mm_dynFunctions
    /\ mm_writer = bridge.mm_writer
    /\ mm_mutex = [k \in Key |-> Left(k, Reader)]
    /\ mm_staticPayload = [k \in Key |-> Left(k, Reader \ bridge.dynamic)]
    /\ mm_dynamicData = [k \in Key |-> Left(k, bridge.dynamic)]
    /\ owner = [o \in Object |-> Null]
    /\ payload = [o \in Object |-> Null]
    /\ m_bufferMutex = [w \in Writer |-> Null]
    /\ m_buffer = [w \in Writer |-> Null]
    /\ m_bTerminating = {}
    /\ sent = [w \in Writer |-> [r \in Reader |-> [f \in FName |-> <<>>]]]
    /\ late = [w \in Writer |-> [t \in Reader |-> 0]]

\* A name without dynamic functions has its dynamic data sent on the route without
\* a function.
OrNoFunction(dynamic, list) == IF dynamic /\ list = <<>> THEN <<NoFunction>> ELSE list

fName(t) == funcNames[t][fi[t]]
keyPub(t) == <<readerName(t), fName(t)>>
pub(t) == pubs[t][wi[t]]
Transforms(t) == fName(t) \in Resolved

\* The tables for the thread's kind of data: of functions, and of outputs.
functions(t) == IF IsDynamic(t) THEN mm_dynFunctions ELSE mm_functions
outputs(t) == IF IsDynamic(t) THEN mm_dynamicData ELSE mm_staticPayload

\* What the thread gives to write: the output, or its own message.
given(t) == IF Transforms(t) THEN payload[output[t]]
                             ELSE [from |-> t, num |-> msg[t], form |-> NoFunction]

\* Dynamic data is published as it is, and so is a payload by a generic writer.
Direct(t) == IsDynamic(t) \/ pub(t) \in Generic

At(t, place) == pc[t] = place
Go(t, place) == pc' = [pc EXCEPT ![t] = place]

\* Operator [] of std::map adds the key when it is missing, so that a call of it
\* on a key without an entry changes the tree under every other thread: the
\* maps are shared by all keys of the bridge and no lock protects them.  A search
\* may then miss an entry, and an insertion be lost.  The tables of functions and
\* of writers are changed by the first look-up of a name without functions, or of a
\* route without writers; mm_functionsNames and mm_dynFunctionsNames have every name
\* that is looked up in them.
ChangesFunctions(u, t) ==
    /\ pc[u] = "findFunctions" /\ IsDynamic(u) = IsDynamic(t)
    /\ functions(u)[readerName(u)] = Null
ChangesWriters(u) == pc[u] = "findWriters" /\ mm_writer[keyPub(u)] = Null
ChangesMutexes(u) ==
    pc[u] \in {"findMutex", "newMutex"} /\ mm_mutex[keyPub(u)] = Null
ChangesOutputs(u, t) ==
    /\ pc[u] \in {"findOutput", "newOutput"} /\ IsDynamic(u) = IsDynamic(t)
    /\ outputs(u)[keyPub(u)] = Null

-------------------------------------------------------------------------------
Receive(t) ==
    /\ At(t, "idle")
    /\ msg[t] < bridge.MaxMessages[t]
    /\ msg' = [msg EXCEPT ![t] = @ + 1]
    /\ fi' = [fi EXCEPT ![t] = 1]
    /\ Go(t, "findFunctions")
    /\ UNCHANGED <<wi, mutex, output, lists, tables, locks, data, ends, m_bTerminating>>

\* funcNames = mm_functions[sub->getName()], or mm_dynFunctions.
FindFunctions(t) ==
    LET name == readerName(t)
        others == {u \in Reader \ {t} : ChangesFunctions(u, t)}
    IN  /\ At(t, "findFunctions")
        /\ \E entry \in {functions(t)[name]} \cup {Null : u \in others} :
              /\ funcNames' = [funcNames EXCEPT ![t] = OrNoFunction(IsDynamic(t), Listed(entry))]
              /\ \/ /\ entry # Null \/ others # {}
                    /\ UNCHANGED <<mm_functions, mm_dynFunctions>>
                 \/ /\ entry = Null /\ ~IsDynamic(t)
                    /\ mm_functions' = [mm_functions EXCEPT ![name] = <<>>]
                    /\ UNCHANGED mm_dynFunctions
                 \/ /\ entry = Null /\ IsDynamic(t)
                    /\ mm_dynFunctions' = [mm_dynFunctions EXCEPT ![name] = <<>>]
                    /\ UNCHANGED mm_functions
        /\ Go(t, "functions")
        /\ UNCHANGED <<msg, pubs, fi, wi, mutex, output, bridge, mm_writer, mm_mutex,
                       mm_staticPayload, mm_dynamicData, locks, data, ends, m_bTerminating>>

\* The head of the loop over funcNames.
Return(t) ==
    /\ At(t, "functions")
    /\ fi[t] > Len(funcNames[t])
    /\ Go(t, "idle")
    /\ UNCHANGED <<msg, fi, wi, mutex, output, lists, tables, locks, data, ends, m_bTerminating>>

\* A payload is transformed once for all writers, dynamic data for each of them.
AtFunction(t) == IF Transforms(t) /\ ~IsDynamic(t) THEN "findMutex" ELSE "findWriters"

\* Seeded bug for EnterFunction: the position in pubs starts at zero.
EnterAtZero(t) ==
    /\ At(t, "functions")
    /\ fi[t] <= Len(funcNames[t])
    /\ wi' = [wi EXCEPT ![t] = 0]
    /\ Go(t, AtFunction(t))
    /\ UNCHANGED <<msg, fi, mutex, output, lists, tables, locks, data, ends, m_bTerminating>>

EnterFunction(t) ==
    /\ At(t, "functions")
    /\ fi[t] <= Len(funcNames[t])
    /\ wi' = [wi EXCEPT ![t] = 1]
    /\ Go(t, AtFunction(t))
    /\ UNCHANGED <<msg, fi, mutex, output, lists, tables, locks, data, ends, m_bTerminating>>

\* std::mutex* mutex = mm_mutex[keyPub].  While another thread changes the tree
\* the search may miss the entry.
FindMutex(t) ==
    /\ At(t, "findMutex")
    /\ \E m \in {mm_mutex[keyPub(t)]} \cup
                {Null : u \in {u \in Reader \ {t} : ChangesMutexes(u)}} :
            /\ mutex' = [mutex EXCEPT ![t] = m]
            /\ Go(t, IF m = Null THEN "newMutex" ELSE "lock")
    /\ UNCHANGED <<msg, fi, wi, output, lists, tables, locks, data, ends, m_bTerminating>>

\* mm_mutex[keyPub] = mutex, which is lost if another change wins.
NewMutex(t) ==
    /\ At(t, "newMutex")
    /\ mutex' = [mutex EXCEPT ![t] = <<keyPub(t), t>>]
    /\ \/ mm_mutex' = [mm_mutex EXCEPT ![keyPub(t)] = <<keyPub(t), t>>]
       \/ /\ \E u \in Reader \ {t} : ChangesMutexes(u)
          /\ UNCHANGED mm_mutex
    /\ Go(t, "lock")
    /\ UNCHANGED <<msg, fi, wi, output, lists, bridge, routes, mm_staticPayload,
                   mm_dynamicData, locks, data, ends, m_bTerminating>>

\* Seeded bug for Lock: the mutex is not waited for.
LockAtOnce(t) ==
    /\ At(t, "lock")
    /\ owner' = [owner EXCEPT ![mutex[t]] = t]
    /\ Go(t, "findOutput")
    /\ UNCHANGED <<msg, fi, wi, mutex, output, lists, tables, m_bufferMutex, data, ends, m_bTerminating>>

\* std::unique_lock<std::mutex> scopedLock(*mutex)
Lock(t) ==
    /\ At(t, "lock")
    /\ owner[mutex[t]] = Null
    /\ owner' = [owner EXCEPT ![mutex[t]] = t]
    /\ Go(t, "findOutput")
    /\ UNCHANGED <<msg, fi, wi, mutex, output, lists, tables, m_bufferMutex, data, ends, m_bTerminating>>

\* The search of mm_staticPayload or mm_dynamicData, and the insertion.
FindOutput(t) ==
    /\ At(t, "findOutput")
    /\ \E o \in {outputs(t)[keyPub(t)]} \cup
                {Null : u \in {u \in Reader \ {t} : ChangesOutputs(u, t)}} :
            /\ output' = [output EXCEPT ![t] = o]
            /\ Go(t, IF o = Null THEN "newOutput" ELSE "transform")
    /\ UNCHANGED <<msg, fi, wi, mutex, lists, tables, locks, data, ends, m_bTerminating>>

Insert(t, table) == [table EXCEPT ![keyPub(t)] = <<keyPub(t), t>>]

NewOutput(t) ==
    /\ At(t, "newOutput")
    /\ output' = [output EXCEPT ![t] = <<keyPub(t), t>>]
    /\ \/ /\ ~IsDynamic(t)
          /\ mm_staticPayload' = Insert(t, mm_staticPayload)
          /\ UNCHANGED mm_dynamicData
       \/ /\ IsDynamic(t)
          /\ mm_dynamicData' = Insert(t, mm_dynamicData)
          /\ UNCHANGED mm_staticPayload
       \/ /\ \E u \in Reader \ {t} : ChangesOutputs(u, t)
          /\ UNCHANGED <<mm_staticPayload, mm_dynamicData>>
    /\ Go(t, "transform")
    /\ UNCHANGED <<msg, fi, wi, mutex, lists, bridge, routes, mm_mutex, locks, data, ends,
                   m_bTerminating>>

\* function(data, output)
Transform(t) ==
    /\ At(t, "transform")
    /\ payload' = [payload EXCEPT ![output[t]] =
            [from |-> t, num |-> msg[t], form |-> fName(t)]]
    /\ Go(t, IF IsDynamic(t) THEN "publish" ELSE "findWriters")
    /\ UNCHANGED <<msg, fi, wi, mutex, output, lists, tables, locks, m_buffer, ends, m_bTerminating>>

\* pubs = mm_writer[keyPub]
FindWriters(t) ==
    LET others == {u \in Reader \ {t} : ChangesWriters(u)}
    IN  /\ At(t, "findWriters")
        /\ \E entry \in {mm_writer[keyPub(t)]} \cup {Null : u \in others} :
              /\ pubs' = [pubs EXCEPT ![t] = Listed(entry)]
              /\ \/ /\ entry # Null \/ others # {}
                    /\ UNCHANGED mm_writer
                 \/ /\ entry = Null
                    /\ mm_writer' = [mm_writer EXCEPT ![keyPub(t)] = <<>>]
        /\ Go(t, "writers")
        /\ UNCHANGED <<msg, funcNames, fi, wi, mutex, output, bridge, mm_functions,
                       mm_dynFunctions, mm_mutex, mm_staticPayload, mm_dynamicData, locks, data,
                       ends, m_bTerminating>>

\* Seeded bug for LeaveFunction: the lock is not released.
LeaveLocked(t) ==
    /\ At(t, "writers")
    /\ wi[t] > Len(pubs[t])
    /\ fi' = [fi EXCEPT ![t] = @ + 1]
    /\ Go(t, "functions")
    /\ UNCHANGED <<msg, wi, mutex, output, lists, tables, locks, data, ends, m_bTerminating>>

\* The scope of scopedLock: the loop over pubs for payloads, the turn of one writer
\* for dynamic data.
Unlock(t) == IF Transforms(t) THEN [owner EXCEPT ![mutex[t]] = Null] ELSE owner

\* The head of the loop over pubs.
LeaveFunction(t) ==
    /\ At(t, "writers")
    /\ wi[t] > Len(pubs[t])
    /\ fi' = [fi EXCEPT ![t] = @ + 1]
    /\ owner' = IF IsDynamic(t) THEN owner ELSE Unlock(t)
    /\ Go(t, "functions")
    /\ UNCHANGED <<msg, wi, mutex, output, lists, tables, m_bufferMutex, data, ends, m_bTerminating>>

\* A writer that is terminating is passed over, and so is one that is not of a
\* dynamic type when a function on dynamic data is to be called.
WrongKind(t) == IsDynamic(t) /\ Transforms(t) /\ pub(t) \notin DynamicType
Skipped(t) == pub(t) \in m_bTerminating \/ WrongKind(t)

SkipWriter(t) ==
    /\ At(t, "writers")
    /\ wi[t] <= Len(pubs[t])
    /\ Skipped(t)
    /\ wi' = [wi EXCEPT ![t] = @ + 1]
    /\ Go(t, "writers")
    /\ UNCHANGED <<msg, fi, mutex, output, lists, tables, locks, data, ends, m_bTerminating>>

\* What comes after isTerminating: a transformation of dynamic data, or write.
AtWriter(t) ==
    IF IsDynamic(t) /\ Transforms(t) THEN "findMutex"
    ELSE IF Direct(t) THEN "publish" ELSE "lockBuffer"

\* Seeded bug for CallWrite: isTerminating is not consulted.
CallAnyWrite(t) ==
    /\ At(t, "writers")
    /\ wi[t] <= Len(pubs[t])
    /\ ~WrongKind(t)
    /\ Go(t, AtWriter(t))
    /\ UNCHANGED <<msg, fi, wi, mutex, output, lists, tables, locks, data, ends, m_bTerminating>>

CallWrite(t) ==
    /\ At(t, "writers")
    /\ wi[t] <= Len(pubs[t])
    /\ ~Skipped(t)
    /\ Go(t, AtWriter(t))
    /\ UNCHANGED <<msg, fi, wi, mutex, output, lists, tables, locks, data, ends, m_bTerminating>>

-------------------------------------------------------------------------------
(* RTPSPublisher::write *)

\* Seeded bug for LockBuffer: the buffer's mutex is not waited for.
LockBufferAtOnce(t) ==
    /\ At(t, "lockBuffer")
    /\ m_bufferMutex' = [m_bufferMutex EXCEPT ![pub(t)] = t]
    /\ Go(t, "deserialize")
    /\ UNCHANGED <<msg, fi, wi, mutex, output, lists, tables, owner, data, ends, m_bTerminating>>

LockBuffer(t) ==
    /\ At(t, "lockBuffer")
    /\ m_bufferMutex[pub(t)] = Null
    /\ m_bufferMutex' = [m_bufferMutex EXCEPT ![pub(t)] = t]
    /\ Go(t, "deserialize")
    /\ UNCHANGED <<msg, fi, wi, mutex, output, lists, tables, owner, data, ends, m_bTerminating>>

Deserialize(t) ==
    /\ At(t, "deserialize")
    /\ m_buffer' = [m_buffer EXCEPT ![pub(t)] = given(t)]
    /\ Go(t, "publish")
    /\ UNCHANGED <<msg, fi, wi, mutex, output, lists, tables, locks, payload, ends, m_bTerminating>>

\* mp_publisher->write, and out of write and on to the next writer.
Publish(t) ==
    LET w == pub(t)
        d == IF Direct(t) THEN given(t) ELSE m_buffer[w]
    IN  /\ At(t, "publish")
        /\ sent' = [sent EXCEPT ![w][d.from][d.form] = Append(@, d.num)]
        /\ late' = IF w \in m_bTerminating THEN [late EXCEPT ![w][t] = @ + 1] ELSE late
        /\ m_bufferMutex' = IF Direct(t) THEN m_bufferMutex
                                         ELSE [m_bufferMutex EXCEPT ![w] = Null]
        /\ owner' = IF IsDynamic(t) THEN Unlock(t) ELSE owner
        /\ wi' = [wi EXCEPT ![t] = @ + 1]
        /\ Go(t, "writers")
        /\ UNCHANGED <<msg, fi, mutex, output, lists, tables, data, m_bTerminating>>

\* ISBridge::onTerminate reaches the writer, in ISManager's thread.
onTerminate(w) ==
    /\ m_bTerminating' = m_bTerminating \cup {w}
    /\ UNCHANGED <<threads, tables, locks, data, ends>>

-------------------------------------------------------------------------------
\* One statement of a thread that is handling a message.
Step(t) ==
    \/ FindFunctions(t) \/ Return(t) \/ EnterFunction(t)
    \/ FindMutex(t) \/ NewMutex(t) \/ Lock(t)
    \/ FindOutput(t) \/ NewOutput(t) \/ Transform(t)
    \/ FindWriters(t) \/ LeaveFunction(t) \/ SkipWriter(t) \/ CallWrite(t)
    \/ LockBuffer(t) \/ Deserialize(t) \/ Publish(t)

Next ==
    \/ \E t \in Reader : Receive(t) \/ Step(t)
    \/ \E w \in Writer : onTerminate(w)

\* Every thread in the middle of a message keeps running; nothing is assumed of
\* when messages arrive or of when the bridge terminates.
Fairness == \A t \in Reader : WF_vars(Step(t))

Spec == Init /\ [][Next]_vars /\ Fairness

-------------------------------------------------------------------------------
(* Properties *)

Datum == [from : Reader, num : Nat, form : FName]

\* The types of the fields and of the threads' locals.
TypeOK ==
    /\ bridge \in Bridges
    /\ pc \in [Reader -> {"idle", "findFunctions", "functions", "findMutex", "newMutex",
                          "lock", "findOutput", "newOutput", "transform", "findWriters",
                          "writers", "lockBuffer", "deserialize", "publish"}]
    /\ msg \in [Reader -> Nat]
    /\ funcNames \in [Reader -> Seq(FName)]
    /\ pubs \in [Reader -> Seq(Writer)]
    /\ fi \in [Reader -> Nat \ {0}]
    /\ wi \in [Reader -> Nat \ {0}]
    /\ mutex \in [Reader -> Object \cup {Null}]
    /\ output \in [Reader -> Object \cup {Null}]
    /\ mm_functions \in [Name -> Seq(FName) \cup {Null}]
    /\ mm_dynFunctions \in [Name -> Seq(FName) \cup {Null}]
    /\ mm_writer \in [Key -> Seq(Writer) \cup {Null}]
    /\ mm_mutex \in [Key -> Object \cup {Null}]
    /\ mm_staticPayload \in [Key -> Object \cup {Null}]
    /\ mm_dynamicData \in [Key -> Object \cup {Null}]
    /\ owner \in [Object -> Reader \cup {Null}]
    /\ payload \in [Object -> Datum \cup {Null}]
    /\ m_bufferMutex \in [Writer -> Reader \cup {Null}]
    /\ m_buffer \in [Writer -> Datum \cup {Null}]
    /\ m_bTerminating \subseteq Writer
    /\ sent \in [Writer -> [Reader -> [FName -> Seq(Nat)]]]
    /\ late \in [Writer -> [Reader -> Nat]]

\* The form in which a function leaves data, the lists that a wired bridge has for a
\* reader and for a key, and the positions in them at which a reader's messages go
\* to a writer in a form.
Form(f) == IF f \in Resolved THEN f ELSE NoFunction

functionsEntry(b, t) ==
    IF t \in b.dynamic THEN b.mm_dynFunctions[b.readerName[t]] ELSE b.mm_functions[b.readerName[t]]

functionsOf(b, t) == OrNoFunction(t \in b.dynamic, Listed(functionsEntry(b, t)))
writersOf(b, t, f) == Listed(b.mm_writer[<<b.readerName[t], f>>])

Route(r, w, v, i, j) ==
    /\ i \in DOMAIN functionsOf(bridge, r)
    /\ LET f == functionsOf(bridge, r)[i]
           ws == writersOf(bridge, r, f)
       IN  /\ v = Form(f)
           /\ j \in DOMAIN ws /\ ws[j] = w
           /\ IsDynamic(r) /\ f \in Resolved => w \in DynamicType

Routed(r, w, v) ==
    \E i \in DOMAIN functionsOf(bridge, r) :
        \E j \in DOMAIN writersOf(bridge, r, functionsOf(bridge, r)[i]) : Route(r, w, v, i, j)

\* The bridges on which threads do not meet in one output by different mutexes:
\* different readers use keys that are theirs alone, or that have all been used; on
\* which two functions that are not there do not lead to one writer;
Warm(b) ==
    \A t \in Reader : \A f \in Range(functionsOf(b, t)) \cap Resolved : <<b.readerName[t], f>> \in b.Used

OwnOutputs(b) == IsInjective(b.readerName) \/ Warm(b)

OneRoute(b) ==
    \A n \in Name : \A f, g \in FName \ Resolved :
        f # g => Range(Listed(b.mm_writer[<<n, f>>])) \cap Range(Listed(b.mm_writer[<<n, g>>])) = {}

\* and on which no thread inserts an entry in a routing table that another thread
\* searches: two readers of one kind of data both have an entry in the table of
\* functions (a reader of dynamic data without a function gets one with its first
\* message), and the routes of two readers one in the table of writers.
Undisturbed(b) ==
    \A t, u \in Reader : t # u =>
        /\ (t \in b.dynamic <=> u \in b.dynamic) => functionsEntry(b, t) # Null
        /\ \A f \in Range(functionsOf(b, t)) : b.mm_writer[<<b.readerName[t], f>>] # Null

Settled(b) == OwnOutputs(b) /\ Undisturbed(b)

\* On a settled bridge with one route for each form, however the threads interleave
\* in the shared payloads and buffers, a writer sends the messages of each reader
\* whole, once per route, in the order they came, and nothing else; and a message
\* has left every open writer when on_received_data returns.
DeliveredInOrder ==
    Settled(bridge) /\ OneRoute(bridge) =>
    \A r \in Reader, w \in Writer, v \in FName :
        LET s == sent[w][r][v]
        IN  /\ \A i \in DOMAIN s : s[i] = i
            /\ Len(s) <= msg[r]
            /\ ~Routed(r, w, v) => s = <<>>
            /\ Routed(r, w, v) /\ w \notin m_bTerminating /\ pc[r] = "idle"
                    => Len(s) = msg[r]

\* Where look-ups of one thread do disturb the searches of another, a message may miss
\* a route, or be sent without the transformation; it is still sent once at most in
\* one form, and after the messages that came before it.
NeverTwice ==
    OwnOutputs(bridge) /\ OneRoute(bridge) =>
    \A r \in Reader, w \in Writer, v \in FName :
        LET s == sent[w][r][v]
        IN  \A i \in DOMAIN s : s[i] <= msg[r] /\ \A j \in 1..(i - 1) : s[j] < s[i]

\* The check of isTerminating and the write are two steps, so a message may
\* leave a writer after its onTerminate; each thread sends one at most, the one
\* it had checked for.
OneLateWrite == \A w \in Writer, t \in Reader : late[w][t] <= 1

\* The mutex of a key is held while the mutex of a buffer is waited for, and the
\* threads of all readers meet at both: a thread that waits waits for one that can
\* go on, or for one that waits for one that can go on.  So no set of threads waits
\* for itself, and no thread waits for a lock that was left locked.
Waits(t) ==
    \/ pc[t] = "lock" /\ owner[mutex[t]] # Null
    \/ pc[t] = "lockBuffer" /\ m_bufferMutex[pub(t)] # Null

Runs(t) == pc[t] # "idle" /\ ~Waits(t)

Holder(t) == IF pc[t] = "lock" THEN owner[mutex[t]] ELSE m_bufferMutex[pub(t)]

NoCircularWait ==
    \A t \in Reader : Waits(t) =>
        \/ Runs(Holder(t))
        \/ Waits(Holder(t)) /\ Runs(Holder(Holder(t)))

\* Why these hold: an inductive invariant.
\* A thread is at positions of its two loops: in one of its functions, and past the
\* check of a writer;
Writes == {"lockBuffer", "deserialize", "publish"}
Makes == {"findMutex", "newMutex", "lock", "findOutput", "newOutput", "transform"}

InFunction(t) == pc[t] \notin {"idle", "findFunctions", "functions"}
BeforeWriters(t) == pc[t] = "findWriters" \/ (~IsDynamic(t) /\ pc[t] \in Makes)
AtRoute(t) == pc[t] \in Writes \/ (IsDynamic(t) /\ pc[t] \in Makes)

LocatedAt(t) ==
    /\ InFunction(t) => fi[t] \in DOMAIN funcNames[t]
    /\ pc[t] \in Makes => Transforms(t)
    /\ BeforeWriters(t) => wi[t] = 1
    /\ AtRoute(t) => wi[t] \in DOMAIN pubs[t] /\ ~WrongKind(t)
    /\ pc[t] \in {"lockBuffer", "deserialize"} => ~Direct(t)

\* it holds the mutex of its key while it uses the output of the key, which has
\* been filled, and the buffer's mutex while it uses the buffer;
Given(t) ==
    /\ pc[t] \in (IF IsDynamic(t) THEN {"publish"} ELSE Writes \cup {"findWriters", "writers"})
    /\ Transforms(t)
Holds(t) == pc[t] \in {"findOutput", "newOutput", "transform"} \/ Given(t)
InBuffer(t) == pc[t] = "publish" /\ ~Direct(t)

LockedAt(t) ==
    /\ pc[t] = "lock" \/ Holds(t) => mutex[t] \in Object /\ mutex[t][1] = keyPub(t)
    /\ Holds(t) => owner[mutex[t]] = t
    /\ pc[t] = "transform" \/ Given(t) => output[t] \in Object /\ output[t][1] = keyPub(t)
    /\ pc[t] = "deserialize" \/ InBuffer(t) => m_bufferMutex[pub(t)] = t
    /\ Given(t) => payload[output[t]] \in Datum
    /\ InBuffer(t) => m_buffer[pub(t)] \in Datum

\* and it has released every other lock;
ReleasedAt(t) ==
    /\ \A o \in Object : owner[o] = t => Holds(t) /\ mutex[t] = o
    /\ \A w \in Writer : m_bufferMutex[w] = t =>
            (pc[t] = "deserialize" \/ InBuffer(t)) /\ pub(t) = w

Tables ==
    \A k \in Key :
        /\ mm_mutex[k] # Null => mm_mutex[k][1] = k
        /\ mm_staticPayload[k] # Null => mm_staticPayload[k][1] = k
        /\ mm_dynamicData[k] # Null => mm_dynamicData[k][1] = k

\* of the routing tables it has copied the entries that the bridge was wired with, or
\* empty lists in their place, and on an undisturbed bridge no other entries;
Copy(entry, first) == entry = first \/ entry = <<>>

Routes ==
    /\ \A n \in Name : /\ Copy(mm_functions[n], bridge.mm_functions[n])
                       /\ Copy(mm_dynFunctions[n], bridge.mm_dynFunctions[n])
    /\ \A k \in Key : Copy(mm_writer[k], bridge.mm_writer[k])

NoFunctions(t) == OrNoFunction(IsDynamic(t), <<>>)

CopiedAt(t) ==
    /\ pc[t] \notin {"idle", "findFunctions"}
            => funcNames[t] \in {functionsOf(bridge, t), NoFunctions(t)}
    /\ InFunction(t) /\ ~BeforeWriters(t)
            => pubs[t] \in {writersOf(bridge, t, fName(t)), <<>>}

SameRoutes ==
    /\ \A n \in Name : /\ Listed(mm_functions[n]) = Listed(bridge.mm_functions[n])
                       /\ Listed(mm_dynFunctions[n]) = Listed(bridge.mm_dynFunctions[n])
                       /\ mm_functions[n] = Null => bridge.mm_functions[n] = Null
                       /\ mm_dynFunctions[n] = Null => bridge.mm_dynFunctions[n] = Null
    /\ \A k \in Key : /\ Listed(mm_writer[k]) = Listed(bridge.mm_writer[k])
                      /\ mm_writer[k] = Null => bridge.mm_writer[k] = Null

SameAt(t) ==
    /\ pc[t] \notin {"idle", "findFunctions"} => funcNames[t] = functionsOf(bridge, t)
    /\ InFunction(t) /\ ~BeforeWriters(t) => pubs[t] = writersOf(bridge, t, fName(t))

\* of a key that several threads use there is one mutex;
SharedAt(t) ==
    /\ \A f \in Range(functionsOf(bridge, t)) \cap Resolved :
            LET k == <<readerName(t), f>> IN mm_mutex[k] # Null /\ outputs(t)[k] # Null
    /\ pc[t] \notin {"newMutex", "newOutput"}
    /\ pc[t] = "lock" \/ Holds(t) => mutex[t] = mm_mutex[keyPub(t)]

\* so what a thread publishes is its own;
Own(t) == [from |-> t, num |-> msg[t], form |-> Form(fName(t))]

WholeAt(t) ==
    /\ Given(t) => payload[output[t]] = Own(t)
    /\ InBuffer(t) => m_buffer[pub(t)] = Own(t)

\* a message that has left a writer left it on a route that the thread has passed, so
\* that it does not leave it again;
Passed(r, i, j) ==
    \/ pc[r] = "idle"
    \/ fi[r] > i
    \/ fi[r] = i /\ InFunction(r) /\ wi[r] > j

Took(r, w, v, i, j) ==
    /\ Form(funcNames[r][i]) = v
    /\ writersOf(bridge, r, funcNames[r][i])[j] = w
    /\ Passed(r, i, j)

OnceOf(r, w, v) ==
    LET s == sent[w][r][v]
    IN  /\ \A n \in DOMAIN s : s[n] <= msg[r] /\ \A m \in 1..(n - 1) : s[m] < s[n]
        /\ msg[r] \in Range(s) /\ pc[r] # "idle" =>
            /\ pc[r] # "findFunctions"
            /\ \E i \in DOMAIN funcNames[r] :
               \E j \in DOMAIN writersOf(bridge, r, funcNames[r][i]) : Took(r, w, v, i, j)

\* and where all look-ups find what was wired, a message has left every writer whose
\* turn has come.
ProgressOf(r, w, v) ==
    /\ \A n \in DOMAIN sent[w][r][v] : sent[w][r][v][n] = n
    /\ Len(sent[w][r][v]) <= msg[r]
    /\ ~Routed(r, w, v) => sent[w][r][v] = <<>>
    /\ \A i \in DOMAIN functionsOf(bridge, r) :
       \A j \in DOMAIN writersOf(bridge, r, functionsOf(bridge, r)[i]) :
          /\ Route(r, w, v, i, j)
          /\ w \notin m_bTerminating \/ (fi[r] = i /\ wi[r] = j /\ AtRoute(r))
          => Len(sent[w][r][v]) = IF Passed(r, i, j) THEN msg[r] ELSE msg[r] - 1

LateSoFar ==
    \A w \in Writer, t \in Reader :
        /\ late[w][t] <= 1
        /\ late[w][t] # 0 => w \in m_bTerminating
        /\ AtRoute(t) /\ pub(t) = w => late[w][t] = 0

DispatchInv ==
    /\ TypeOK /\ Tables /\ Routes /\ LateSoFar
    /\ \A t \in Reader : LocatedAt(t) /\ LockedAt(t) /\ ReleasedAt(t) /\ CopiedAt(t)
    /\ OwnOutputs(bridge) =>
        /\ IsInjective(bridge.readerName) \/ \A t \in Reader : SharedAt(t)
        /\ \A t \in Reader : WholeAt(t)
    /\ Undisturbed(bridge) => SameRoutes /\ \A t \in Reader : SameAt(t)
    /\ OwnOutputs(bridge) /\ OneRoute(bridge) =>
        \A r \in Reader, w \in Writer, v \in FName : OnceOf(r, w, v)
    /\ Settled(bridge) /\ OneRoute(bridge) =>
        \A r \in Reader, w \in Writer, v \in FName : ProgressOf(r, w, v)

\* A thread that has taken a message returns from on_received_data: no order of
\* the bridge's locks and the writers' locks blocks the threads for good, and
\* every lock is released on every path.
EveryMessageReturns == \A t \in Reader : pc[t] # "idle" ~> pc[t] = "idle"

\* What the comment on mm_mutex says, "Key is the writer" (ISBridge.h, line 47):
\* the mutex taken for a transformation is one for each writer, so two threads
\* that hold it are never inside the write of one writer at the same time.
Writing(t) == pc[t] \in {"deserialize", "publish"} /\ Transforms(t)

OneThreadPerWriter ==
    \A t, u \in Reader : t # u /\ Writing(t) /\ Writing(u) => pub(t) # pub(u)
===============================================================================
