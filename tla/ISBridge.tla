------------------------------- MODULE ISBridge -------------------------------
(***************************************************************************)
(* The routing core of the Integration Service: the ISBridge objects, the  *)
(* ISReaders that feed them and the ISWriters they feed                    *)
(* (include/ISBridge.h, ISReader.h, ISWriter.h, ISBaseClass.h), driven the *)
(* way ISManager drives them: connectors are wired one after the other     *)
(* while readers may already be receiving, then every bridge is            *)
(* terminated, then destroyed.                                             *)
(*                                                                         *)
(* A message is abstracted to the form in which it leaves a writer: the    *)
(* name of the transformation applied to it, or NoFunction when the bridge *)
(* forwards it as it came.  Each call of addReader, addWriter, addFunction *)
(* and on_received_data is one step here; Dispatch opens up the last of    *)
(* them statement by statement, and Service what it can meet when it runs  *)
(* during one of the others.                                               *)
(***************************************************************************)
EXTENDS Naturals, Sequences, FiniteSets, Functions

CONSTANTS
    Bridge, Reader, Writer,     \* the objects
    Name, readerName,           \* getName() of a reader; bridges route by it
    FName, NoFunction,          \* function names; NoFunction is the name ""
    Resolved,                   \* names whose symbol the library exports
    DynReader, DynWriter,       \* readers that hand over DynamicData, writers
                                \* whose output_type is a DynamicPubSubType
    Connector,                  \* what loadConnector is asked to wire
    NoBridge,                   \* the null mb_bridge of a new writer
    MaxMessages                 \* bound: messages received per reader

ASSUME ISBridgeAssumption ==
    /\ NoFunction \in FName
    /\ NoBridge \notin Bridge
    /\ readerName \in [Reader -> Name]
    /\ DynReader \subseteq Reader
    /\ DynWriter \subseteq Writer
    /\ Resolved \subseteq FName \ {NoFunction}
    /\ Connector \subseteq [bridge : Bridge, reader : Reader,
                            writer : Writer, fname : FName]
    /\ Reader \cap Writer = {}
    /\ MaxMessages \in Nat

VARIABLES
    mv_bridges,             \* ISReader: the bridges it feeds, in order
    mb_bridge,              \* ISWriter: the bridge it belongs to
    mv_reader,              \* ISBridge: its readers
    mm_functions,           \* ISBridge: reader name -> static function names
    mm_dynFunctions,        \* ISBridge: reader name -> dynamic function names
    mm_functionsNames,      \* ISBridge: names bound to a non-null userf_t
    mm_dynFunctionsNames,   \* ISBridge: names bound to a non-null userdynf_t
    mm_writer,              \* ISBridge: <<reader name, function>> -> writers
    ms_subpubs,             \* ISBridge: the endpoints its destructor deletes
    m_bTerminating,         \* the endpoints whose onTerminate has run
    wiring,                 \* the connector loadConnector is at, if any
    pc,                     \* the next call of loadConnector
    connected,              \* the connectors wired completely
    terminated,             \* the bridges whose onTerminate has run
    destroyed,              \* the bridges whose destructor has run
    freed,                  \* how often each endpoint has been deleted
    received,               \* messages each reader has handed over
    written                 \* copies each writer has sent, by form

routing == <<mv_bridges, mb_bridge, mv_reader, mm_functions, mm_dynFunctions,
             mm_functionsNames, mm_dynFunctionsNames, mm_writer, ms_subpubs>>
loading == <<wiring, pc, connected>>
ending  == <<m_bTerminating, terminated, destroyed, freed>>
traffic == <<received, written>>
vars    == <<routing, loading, ending, traffic>>

-------------------------------------------------------------------------------
Endpoint == Reader \cup Writer
Key == Name \X FName            \* generateKeyWriter(reader name, function name)
Idle == "idle"

\* The function pointer loadConnector ends up with is a userdynf_t only when the
\* writer's type is dynamic and the symbol exists; otherwise it registers a
\* userf_t, which is null when there is no transformation or no symbol.
IsDynFunction(c) == c.writer \in DynWriter /\ c.fname \in Resolved

Init ==
    /\ mv_bridges = [r \in Reader |-> <<>>]
    /\ mb_bridge = [w \in Writer |-> NoBridge]
    /\ mv_reader = [b \in Bridge |-> <<>>]
    /\ mm_functions = [b \in Bridge |-> [n \in Name |-> <<>>]]
    /\ mm_dynFunctions = [b \in Bridge |-> [n \in Name |-> <<>>]]
    /\ mm_functionsNames = [b \in Bridge |-> {}]
    /\ mm_dynFunctionsNames = [b \in Bridge |-> {}]
    /\ mm_writer = [b \in Bridge |-> [k \in Key |-> <<>>]]
    /\ ms_subpubs = [b \in Bridge |-> {}]
    /\ m_bTerminating = {}
    /\ wiring = {}
    /\ pc = Idle
    /\ connected = {}
    /\ terminated = {}
    /\ destroyed = {}
    /\ freed = [o \in Endpoint |-> 0]
    /\ received = [r \in Reader |-> 0]
    /\ written = [w \in Writer |-> [f \in FName |-> 0]]

-------------------------------------------------------------------------------
(* Wiring a connector: the three calls at the end of loadConnector.  The    *)
(* reader is live already, so messages arrive between the calls.            *)

addReader(c) ==
    /\ pc = Idle
    /\ c \notin connected
    /\ terminated = {}
    /\ mv_reader' = [mv_reader EXCEPT ![c.bridge] = Append(@, c.reader)]
    /\ ms_subpubs' = [ms_subpubs EXCEPT ![c.bridge] = @ \cup {c.reader}]
    /\ mv_bridges' = [mv_bridges EXCEPT ![c.reader] = Append(@, c.bridge)]
    /\ wiring' = {c}
    /\ pc' = "addWriter"
    /\ UNCHANGED <<mb_bridge, mm_functions, mm_dynFunctions, mm_functionsNames,
                   mm_dynFunctionsNames, mm_writer, connected, ending, traffic>>

\* Seeded bug for removeWriter: the old bridge keeps owning the writer.
removeNothing(subpubs, w, old) == subpubs

\* ISBridge::removeWriter: it erases the writer from a copy of the route, so
\* that only the ownership goes (and mm_inv_writer, which has no other reader).
removeWriter(subpubs, w, old) == [subpubs EXCEPT ![old] = @ \ {w}]

\* Seeded bug for setBridge: the old bridge is not compared with the new one.
setAnyBridge(subpubs, w, b) ==
    IF mb_bridge[w] = NoBridge THEN subpubs
                               ELSE removeWriter(subpubs, w, mb_bridge[w])

\* ISWriter::setBridge: what it does to the owners when w becomes b's.
setBridge(subpubs, w, b) ==
    IF mb_bridge[w] \in {NoBridge, b} THEN subpubs
                                      ELSE removeWriter(subpubs, w, mb_bridge[w])

addWriter(c) ==
    LET b == c.bridge
        w == c.writer
        k == <<readerName[c.reader], c.fname>>
    IN  /\ pc = "addWriter"
        /\ wiring = {c}
        /\ mm_writer' = [mm_writer EXCEPT ![b][k] = Append(@, w)]
        /\ mb_bridge' = [mb_bridge EXCEPT ![w] = b]
        /\ ms_subpubs' = setBridge([ms_subpubs EXCEPT ![b] = @ \cup {w}], w, b)
        /\ pc' = "addFunction"
        /\ UNCHANGED <<mv_bridges, mv_reader, mm_functions, mm_dynFunctions,
                       mm_functionsNames, mm_dynFunctionsNames, wiring,
                       connected, ending, traffic>>

\* Seeded bug for addStaticFunction: the pointer is not stored by name.
addUnnamedFunction(c) ==
    /\ ~IsDynFunction(c)
    /\ mm_functions' = [mm_functions EXCEPT ![c.bridge][readerName[c.reader]] =
            Append(@, c.fname)]
    /\ UNCHANGED <<mm_functionsNames, mm_dynFunctions, mm_dynFunctionsNames>>

\* Seeded bug for addStaticFunction: a null pointer is taken for a function.
addNullFunction(c) ==
    /\ ~IsDynFunction(c)
    /\ mm_functionsNames' = [mm_functionsNames EXCEPT ![c.bridge] = @ \cup {c.fname}]
    /\ mm_functions' = [mm_functions EXCEPT ![c.bridge][readerName[c.reader]] =
            Append(@, c.fname)]
    /\ UNCHANGED <<mm_dynFunctions, mm_dynFunctionsNames>>

\* ISBridge::addFunction for a userf_t.
addStaticFunction(c) ==
    /\ ~IsDynFunction(c)
    /\ mm_functionsNames' = [mm_functionsNames EXCEPT ![c.bridge] =
            IF c.fname \in Resolved THEN @ \cup {c.fname} ELSE @ \ {c.fname}]
    /\ mm_functions' = [mm_functions EXCEPT ![c.bridge][readerName[c.reader]] =
            Append(@, c.fname)]
    /\ UNCHANGED <<mm_dynFunctions, mm_dynFunctionsNames>>

\* Seeded bug for addDynFunction: the pointer is not stored by name.
addUnnamedDynFunction(c) ==
    /\ IsDynFunction(c)
    /\ mm_dynFunctions' = [mm_dynFunctions EXCEPT
            ![c.bridge][readerName[c.reader]] = Append(@, c.fname)]
    /\ UNCHANGED <<mm_functions, mm_functionsNames, mm_dynFunctionsNames>>

\* Seeded bug for addDynFunction: the userf_t overload has run before it.
addBothFunctions(c) ==
    /\ IsDynFunction(c)
    /\ mm_dynFunctionsNames' = [mm_dynFunctionsNames EXCEPT ![c.bridge] =
            @ \cup {c.fname}]
    /\ mm_dynFunctions' = [mm_dynFunctions EXCEPT
            ![c.bridge][readerName[c.reader]] = Append(@, c.fname)]
    /\ mm_functions' = [mm_functions EXCEPT
            ![c.bridge][readerName[c.reader]] = Append(@, c.fname)]
    /\ UNCHANGED mm_functionsNames

\* ISBridge::addFunction for a userdynf_t.
addDynFunction(c) ==
    /\ IsDynFunction(c)
    /\ mm_dynFunctionsNames' = [mm_dynFunctionsNames EXCEPT ![c.bridge] =
            @ \cup {c.fname}]
    /\ mm_dynFunctions' = [mm_dynFunctions EXCEPT
            ![c.bridge][readerName[c.reader]] = Append(@, c.fname)]
    /\ UNCHANGED <<mm_functions, mm_functionsNames>>

addFunction(c) ==
    /\ pc = "addFunction"
    /\ wiring = {c}
    /\ addStaticFunction(c) \/ addDynFunction(c)
    /\ wiring' = {}
    /\ pc' = Idle
    /\ connected' = connected \cup {c}
    /\ UNCHANGED <<mv_bridges, mb_bridge, mv_reader, mm_writer, ms_subpubs,
                   ending, traffic>>

-------------------------------------------------------------------------------
(* A message: ISReader::on_received_data hands it to every bridge in        *)
(* mv_bridges, and the bridge loops over function names, then writers.      *)

\* Seeded bug for funcNames: dynamic data without a function has no route.
noFallback(b, r) ==
    IF r \in DynReader THEN mm_dynFunctions[b][readerName[r]]
                       ELSE mm_functions[b][readerName[r]]

\* The function names the bridge loops over.  The DynamicData overload falls
\* back on the key of the empty name when the reader has no dynamic function.
funcNames(b, r) ==
    LET n == readerName[r]
    IN  IF r \notin DynReader THEN mm_functions[b][n]
        ELSE IF mm_dynFunctions[b][n] = <<>> THEN <<NoFunction>>
        ELSE mm_dynFunctions[b][n]

\* The name is bound to a non-null pointer in the overload's own map.
HasFunction(b, r, f) ==
    f \in IF r \in DynReader THEN mm_dynFunctionsNames[b]
                             ELSE mm_functionsNames[b]

\* The writers of one function name.
pubs(b, r, f) == mm_writer[b][<<readerName[r], f>>]

\* The writes one message of r makes, each by its position in the three loops.
Paths(r) ==
    UNION { UNION { { <<i, j, k>> :
        k \in DOMAIN pubs(mv_bridges[r][i], r, funcNames(mv_bridges[r][i], r)[j]) } :
        j \in DOMAIN funcNames(mv_bridges[r][i], r) } :
        i \in DOMAIN mv_bridges[r] }

\* Seeded bug for Sends: isTerminating is not consulted.
SendsAlways(r, w, v, p) ==
    LET b == mv_bridges[r][p[1]]
        f == funcNames(b, r)[p[2]]
    IN  /\ w = pubs(b, r, f)[p[3]]
        /\ v = IF HasFunction(b, r, f) THEN f ELSE NoFunction
        /\ r \in DynReader /\ HasFunction(b, r, f) => w \in DynWriter

\* A writer is skipped once it terminates, and by the DynamicData overload
\* when it would be given transformed data its type is not made for.
Sends(r, w, v, p) ==
    LET b == mv_bridges[r][p[1]]
        f == funcNames(b, r)[p[2]]
    IN  /\ w = pubs(b, r, f)[p[3]]
        /\ v = IF HasFunction(b, r, f) THEN f ELSE NoFunction
        /\ w \notin m_bTerminating
        /\ r \in DynReader /\ HasFunction(b, r, f) => w \in DynWriter

Copies(r, w, v) == Cardinality({p \in Paths(r) : Sends(r, w, v, p)})

\* Any time until the endpoints are deleted: readers of the bridge keep
\* receiving while connectors are wired and while bridges are terminated.
on_received_data(r) ==
    /\ destroyed = {}
    /\ received[r] < MaxMessages
    /\ received' = [received EXCEPT ![r] = @ + 1]
    /\ written' = [w \in Writer |->
            [v \in FName |-> written[w][v] + Copies(r, w, v)]]
    /\ UNCHANGED <<routing, loading, ending>>

-------------------------------------------------------------------------------
(* The end: ISManager's destructor terminates every bridge, then deletes    *)
(* every bridge.                                                            *)

\* Seeded bug for Terminated: only the endpoints the bridge owns are told.
OwnedOnly(b) == Range(mv_reader[b]) \cup ms_subpubs[b]

\* The endpoints ISBridge::onTerminate calls onTerminate on.
Terminated(b) ==
    Range(mv_reader[b]) \cup (UNION {Range(mm_writer[b][k]) : k \in Key})
        \cup ms_subpubs[b]

onTerminate(b) ==
    /\ pc = Idle
    /\ b \notin terminated
    /\ m_bTerminating' = m_bTerminating \cup Terminated(b)
    /\ terminated' = terminated \cup {b}
    /\ UNCHANGED <<routing, loading, traffic, destroyed, freed>>

Destroy(b) ==
    /\ terminated = Bridge
    /\ b \notin destroyed
    /\ freed' = [o \in Endpoint |->
            freed[o] + IF o \in ms_subpubs[b] THEN 1 ELSE 0]
    /\ destroyed' = destroyed \cup {b}
    /\ UNCHANGED <<routing, loading, traffic, m_bTerminating, terminated>>

-------------------------------------------------------------------------------
Next ==
    \/ \E c \in Connector : addReader(c) \/ addWriter(c) \/ addFunction(c)
    \/ \E r \in Reader : on_received_data(r)
    \/ \E b \in Bridge : onTerminate(b) \/ Destroy(b)

Spec == Init /\ [][Next]_vars

-------------------------------------------------------------------------------
(* Properties *)

\* The types of the fields: every map only holds objects of the right kind.
TypeOK ==
    /\ mv_bridges \in [Reader -> Seq(Bridge)]
    /\ mb_bridge \in [Writer -> Bridge \cup {NoBridge}]
    /\ mv_reader \in [Bridge -> Seq(Reader)]
    /\ mm_functions \in [Bridge -> [Name -> Seq(FName)]]
    /\ mm_dynFunctions \in [Bridge -> [Name -> Seq(FName)]]
    /\ mm_functionsNames \in [Bridge -> SUBSET Resolved]
    /\ mm_dynFunctionsNames \in [Bridge -> SUBSET Resolved]
    /\ mm_writer \in [Bridge -> [Key -> Seq(Writer)]]
    /\ ms_subpubs \in [Bridge -> SUBSET Endpoint]
    /\ m_bTerminating \subseteq Endpoint
    /\ wiring \in SUBSET Connector
    /\ pc \in {Idle, "addWriter", "addFunction"}
    /\ connected \subseteq Connector
    /\ terminated \subseteq Bridge
    /\ destroyed \subseteq Bridge
    /\ freed \in [Endpoint -> Nat]
    /\ received \in [Reader -> Nat]
    /\ written \in [Writer -> [FName -> Nat]]

\* What a writer knows of its bridge and what the bridges know of it agree: a
\* writer is among the endpoints a bridge deletes exactly when its mb_bridge is
\* that bridge, however often connectors have moved it (setBridge and
\* removeWriter, lines 122 to 147 and 310 to 319 of ISBridge.h).
OwnershipAgrees ==
    \A w \in Writer, b \in Bridge : w \in ms_subpubs[b] <=> mb_bridge[w] = b

OneBridgePerReader ==
    \A c1, c2 \in Connector : c1.reader = c2.reader => c1.bridge = c2.bridge

\* No sequence of connectors makes two bridge destructors delete one endpoint,
\* and when every bridge is gone, so is every endpoint a connector has wired.
\* It is stated for configurations that use each reader on one bridge only,
\* since nothing takes a reader away from the bridge that had it first.
FreedExactlyOnce ==
    OneBridgePerReader =>
       /\ \A o \in Endpoint : freed[o] <= 1
       /\ destroyed = Bridge =>
            \A c \in connected : freed[c.reader] = 1 /\ freed[c.writer] = 1

\* A writer only ever sends what some connector configured for it: a message
\* that some reader of the connector's name received, transformed by the
\* connector's function when that function exists, as it came otherwise.  It
\* holds while connectors are being wired too: nothing slips through
\* untransformed before addFunction.
OnlyConfiguredForms ==
    \A w \in Writer, v \in FName : written[w][v] > 0 =>
        \E c \in connected \cup wiring :
            /\ c.writer = w
            /\ v = IF c.fname \in Resolved THEN c.fname ELSE NoFunction
            /\ \E r \in Reader : /\ readerName[r] = readerName[c.reader]
                                 /\ received[r] > 0

\* How many copies of a message leave a writer in a given form, in terms of the
\* configuration alone, when no connector is half wired.  There is one for each
\* triple of connectors on one bridge such that the first put the bridge in the
\* reader's list, the second registered, for the reader's name, a function of the
\* kind (static or dynamic) the reader's data has, and the third routed that name
\* and function to the writer; and, for a reader of dynamic data whose name has
\* no dynamic function on a bridge, one for each pair of a connector that put
\* that bridge in its list and one that routed the name without a function.
\* Transformed dynamic data only goes to writers of dynamic types.
SameRoute(c, r) == readerName[c.reader] = readerName[r]

Selected(r, b) ==
    { c \in connected : /\ c.bridge = b
                        /\ SameRoute(c, r)
                        /\ IsDynFunction(c) <=> r \in DynReader }

Triples(r, w, v) ==
    { t \in connected \X connected \X connected :
        /\ t[1].reader = r
        /\ t[2] \in Selected(r, t[1].bridge)
        /\ t[3].bridge = t[1].bridge /\ SameRoute(t[3], r)
        /\ t[2].fname = t[3].fname
        /\ t[3].writer = w
        /\ v = IF t[2].fname \in Resolved THEN t[2].fname ELSE NoFunction
        /\ r \in DynReader => w \in DynWriter }

Fallbacks(r, w, v) ==
    { t \in connected \X connected :
        /\ r \in DynReader /\ v = NoFunction
        /\ t[1].reader = r
        /\ Selected(r, t[1].bridge) = {}
        /\ t[2].bridge = t[1].bridge /\ SameRoute(t[2], r)
        /\ t[2].fname = NoFunction
        /\ t[2].writer = w }

Amplification ==
    [][ \A r \in Reader, w \in Writer \ m_bTerminating, v \in FName :
            received'[r] # received[r] /\ pc = Idle
            => written'[w][v] = written[w][v]
                    + Cardinality(Triples(r, w, v))
                    + Cardinality(Fallbacks(r, w, v)) ]_vars

\* What README.md promises of a connector, "Mapping between different data
\* types": once it is wired, a message its reader hands over leaves its writer,
\* whatever the kinds of the two types.
EveryConnectorForwards ==
    [][ \A c \in connected :
            /\ received'[c.reader] # received[c.reader]
            /\ pc = Idle /\ c.writer \notin m_bTerminating
            => \E v \in FName : written'[c.writer][v] > written[c.writer][v] ]_vars

\* Once a bridge has been terminated, no writer it still has a route to sends
\* anything, whichever bridge the message goes through, even a writer that has
\* since been moved to another bridge.
SilentAfterTermination ==
    [][ \A b \in terminated, w \in Writer :
            (\E k \in Key : w \in Range(mm_writer[b][k]))
            => written'[w] = written[w] ]_vars

-------------------------------------------------------------------------------
(* The inductive invariant the proofs of ISBridgeProofs rest on. *)

Started == connected \cup wiring

\* Loading ends before termination starts, and that before destruction starts.
Stages ==
    /\ pc = Idle => wiring = {}
    /\ terminated # {} => pc = Idle
    /\ destroyed # {} => terminated = Bridge

\* Every endpoint a bridge will delete was wired to it, and every endpoint of a
\* connector is owned by some bridge.
Owned ==
    /\ \A b \in Bridge : \A r \in Reader : r \in ms_subpubs[b] =>
            \E c \in Started : c.bridge = b /\ c.reader = r
    /\ \A c \in Started : c.reader \in ms_subpubs[c.bridge]
    /\ \A c \in Started : c \in connected \/ pc = "addFunction"
            => mb_bridge[c.writer] \in Bridge

\* Every route was asked for by a connector, and every function name a bridge
\* loops over is bound to a function exactly when its symbol exists.
Configured ==
    /\ \A b \in Bridge, n \in Name, f \in FName, w \in Writer :
            w \in Range(mm_writer[b][<<n, f>>]) =>
                \E c \in Started : /\ c.bridge = b
                                   /\ readerName[c.reader] = n
                                   /\ c.fname = f
                                   /\ c.writer = w
    /\ \A b \in Bridge, n \in Name :
            /\ Range(mm_functions[b][n]) \cap Resolved \subseteq mm_functionsNames[b]
            /\ Range(mm_dynFunctions[b][n]) \subseteq mm_dynFunctionsNames[b]

\* The writers a terminated bridge has a route to are all terminating.
Silenced ==
    \A b \in terminated, k \in Key : Range(mm_writer[b][k]) \subseteq m_bTerminating

\* The connectors that have a route.
Routed == connected \cup {c \in wiring : pc = "addFunction"}

\* The connectors of a bridge whose readers have one name.
Sharing(b, n) == {c \in Connector : c.bridge = b /\ readerName[c.reader] = n}

\* The entries of a list are the fields of a set of connectors, one for each.
Lists(entries, C, field) ==
    \E from \in Bijection(DOMAIN entries, C) :
        \A i \in DOMAIN entries : entries[i] = from[i][field]

\* Every entry of the lists a message is routed by is there because of one
\* connector of its own: a connector is in the list of its reader's bridges from
\* addReader on, has a route from addWriter on, and its function is in the list of
\* its kind from addFunction on.  No entry is lost, merged with an equal one or
\* left over (addReader, addWriter and addFunction of ISBridge.h).
Entries ==
    /\ wiring \cap connected = {}
    /\ \A r \in Reader : Lists(mv_bridges[r], {c \in Started : c.reader = r}, "bridge")
    /\ \A b \in Bridge, n \in Name :
        /\ Lists(mm_functions[b][n],
                 {c \in Sharing(b, n) \cap connected : ~IsDynFunction(c)}, "fname")
        /\ Lists(mm_dynFunctions[b][n],
                 {c \in Sharing(b, n) \cap connected : IsDynFunction(c)}, "fname")
        /\ \A f \in FName :
                Lists(mm_writer[b][<<n, f>>],
                     {c \in Sharing(b, n) \cap Routed : c.fname = f}, "writer")

IInv == TypeOK /\ OwnershipAgrees /\ Stages /\ Owned /\ Configured /\ Silenced

\* With readers on one bridge only, an endpoint has been deleted once when the
\* bridge that owns it has been destroyed, and never otherwise.
FreedCount ==
    \A o \in Endpoint : freed[o] =
        IF \E b \in destroyed : o \in ms_subpubs[b] THEN 1 ELSE 0
===============================================================================
