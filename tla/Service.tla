-------------------------------- MODULE Service --------------------------------
(***************************************************************************)
(* The life of the process, from the first connector to the end of the     *)
(* destructor, in the main thread, and the listener threads of Fast RTPS   *)
(* that run next to it from the moment a subscriber exists until its       *)
(* participant is gone (src/main.cpp, src/ISManager.cpp,                   *)
(* src/RTPSSubscriber.cpp).                                                *)
(*                                                                         *)
(* Every connector has endpoints and a bridge of its own: sharing is the   *)
(* subject of module ISBridge, and refusals and malformed files of module  *)
(* ISManager.  Participants are numbered in the order of their names.  A   *)
(* file has a connector: without one the manager is not active and the     *)
(* program ends at once.                                                   *)
(***************************************************************************)
EXTENDS Naturals, Sequences, FiniteSets

CONSTANTS
    Files,              \* the configuration files considered
    Participant,        \* participant profiles, as numbers
    Domain,             \* the domains they may be in
    Topic

\* A connector: the participants of its reader and writer, their topic, whether the
\* reader hands over dynamic data, and its transformation: none, or a function on
\* payloads or on dynamic data.
Connector == [reader : Participant, writer : Participant, topic : Topic,
              dynamic : BOOLEAN, transform : {"none", "static", "dynamic"}]

ASSUME ServiceAssumption ==
    /\ Participant \subseteq Nat /\ IsFiniteSet(Participant)
    /\ \A f \in Files : /\ f.connectors \in Seq(Connector) \ {<<>>}
                       /\ f.domain \in [Participant -> Domain]

VARIABLES
    file,               \* the file
    pc,                 \* where the main thread is
    at,                 \* the connector it is loading
    participants,       \* those that are up
    closing,            \* those being removed: no callback begins any more
    subscribed,         \* connectors whose subscriber exists,
    input_type,         \* whose reader has its input_type,
    mv_bridges,         \* how far the reader's list of bridges has got,
    mm_writer,          \* the lists of writers of the bridge's keys,
    mm_functions,       \* and its list of functions, in the table for their kind
    m_bTerminating,     \* connectors whose endpoints have been told to terminate
    deleted,            \* connectors whose bridge and endpoints are deleted
    thread,             \* where the listener of each connector is
    sample,             \* the sample it is at
    crashed,            \* the program has used a null or torn pointer
    gone,               \* connectors that wrote through a removed publisher
    early               \* connectors called before they were wired

main   == <<file, pc, at>>
wiring == <<subscribed, input_type, mv_bridges, mm_writer, mm_functions>>
ending == <<closing, m_bTerminating, deleted>>
calls  == <<thread, sample>>
fate   == <<crashed, gone, early>>
serviceVars == <<main, participants, wiring, ending, calls, fate>>

C == DOMAIN file.connectors
readerPart(c) == file.connectors[c].reader
writerPart(c) == file.connectors[c].writer
dynamic(c) == file.connectors[c].dynamic
transform(c) == file.connectors[c].transform

\* The key of the connector's writer, with the function's name or without; the
\* connector's listener looks for the function in the table of its kind of data.
Key == {"function", "none"}
RouteKey(c) == <<c, IF transform(c) = "none" THEN "none" ELSE "function">>
Looks(c) == dynamic(c) <=> transform(c) = "dynamic"

\* An entry of a table: push_back stores the two ends of a list one after the other.
Entry == {"missing", "empty", "growing", "one"}

ServiceInit ==
    /\ file \in Files
    /\ pc = "createReader"
    /\ at = 1
    /\ participants = {}
    /\ closing = {}
    /\ subscribed = {}
    /\ input_type = {}
    /\ mv_bridges = [c \in C |-> "empty"]
    /\ mm_writer = [k \in C \X Key |-> "missing"]
    /\ mm_functions = [c \in C |-> "missing"]
    /\ m_bTerminating = {}
    /\ deleted = {}
    /\ thread = [c \in C |-> "idle"]
    /\ sample = [c \in C |-> <<>>]
    /\ crashed = FALSE
    /\ gone = {}
    /\ early = {}

\* The key that a callback is about to look up, and the callbacks that are about to
\* add a key to a tree, as operator [] of std::map does when it is missing.  No
\* lock protects the trees, so that when the main thread and a callback both add to
\* one, one of the two may be lost.
Looked(c) == IF thread[c] = "route" THEN RouteKey(c) ELSE <<c, "none">>
ChangesFunctions(c) == thread[c] = "functions" /\ Looks(c) /\ mm_functions[c] = "missing"
ChangesWriters(c) == thread[c] \in {"route", "fallback"} /\ mm_writer[Looked(c)] = "missing"

\* The entry after the main thread's [] and the beginning of its push_back, and
\* after the end; an entry whose addition is lost is not the one pushed to.
Begun(entry, lost) == {"growing"} \cup {e \in {"missing"} : entry = e /\ lost}
Pushed(entry) == IF entry = "growing" THEN "one" ELSE entry

\* The entry after a callback's [].
LookedUp(entry, lost) ==
    IF entry = "missing" THEN {"empty"} \cup {e \in {"missing"} : lost} ELSE {entry}

-------------------------------------------------------------------------------
(* The main thread *)

Main(from, to) == ~crashed /\ pc = from /\ pc' = to

\* getParticipant and createReader, up to createSubscriber: the listener can be
\* called from here on.
createReader ==
    /\ Main("createReader", "associateType")
    /\ participants' = participants \cup {readerPart(at)}
    /\ subscribed' = subscribed \cup {at}
    /\ UNCHANGED <<file, at, input_type, mv_bridges, mm_writer, mm_functions,
                   ending, calls, fate>>

\* Seeded bug for associateType: the reader does not get its type.
associateNoType ==
    /\ Main("associateType", "createWriter")
    /\ UNCHANGED <<file, at, participants, wiring, ending, calls, fate>>

\* listener->input_type = data_types[idx], at the end of createReader.
associateType ==
    /\ Main("associateType", "createWriter")
    /\ input_type' = input_type \cup {at}
    /\ UNCHANGED <<file, at, participants, subscribed, mv_bridges, mm_writer,
                   mm_functions, ending, calls, fate>>

createWriter ==
    /\ Main("createWriter", "addReader")
    /\ participants' = participants \cup {writerPart(at)}
    /\ UNCHANGED <<file, at, wiring, ending, calls, fate>>

\* sub->addBridge: the beginning of push_back, and its end.
addReader ==
    /\ Main("addReader", "addBridge")
    /\ mv_bridges' = [mv_bridges EXCEPT ![at] = "growing"]
    /\ UNCHANGED <<file, at, participants, subscribed, input_type, mm_writer,
                   mm_functions, ending, calls, fate>>

addBridge ==
    /\ Main("addBridge", "addWriter")
    /\ mv_bridges' = [mv_bridges EXCEPT ![at] = "one"]
    /\ UNCHANGED <<file, at, participants, subscribed, input_type, mm_writer,
                   mm_functions, ending, calls, fate>>

addWriter ==
    /\ Main("addWriter", "pushWriter")
    /\ \E entry \in Begun(mm_writer[RouteKey(at)], ChangesWriters(at)) :
            mm_writer' = [mm_writer EXCEPT ![RouteKey(at)] = entry]
    /\ UNCHANGED <<file, at, participants, subscribed, input_type, mv_bridges,
                   mm_functions, ending, calls, fate>>

pushWriter ==
    /\ Main("pushWriter", "addFunction")
    /\ mm_writer' = [mm_writer EXCEPT ![RouteKey(at)] = Pushed(@)]
    /\ UNCHANGED <<file, at, participants, subscribed, input_type, mv_bridges,
                   mm_functions, ending, calls, fate>>

\* Seeded bug for addFunction: the function is stored under another name.
addFunctionElsewhere ==
    /\ Main("addFunction", "pushFunction")
    /\ UNCHANGED <<file, at, participants, wiring, ending, calls, fate>>

addFunction ==
    /\ Main("addFunction", "pushFunction")
    /\ \E entry \in Begun(mm_functions[at], ChangesFunctions(at)) :
            mm_functions' = [mm_functions EXCEPT ![at] = entry]
    /\ UNCHANGED <<file, at, participants, subscribed, input_type, mv_bridges, mm_writer,
                   ending, calls, fate>>

\* The last step of a connector; after the last connector main waits for a key.
pushFunction ==
    /\ Main("pushFunction", IF at < Len(file.connectors) THEN "createReader" ELSE "running")
    /\ mm_functions' = [mm_functions EXCEPT ![at] = Pushed(@)]
    /\ at' = at + 1
    /\ UNCHANGED <<file, participants, subscribed, input_type, mv_bridges, mm_writer,
                   ending, calls, fate>>

\* std::cin.ignore() returns and the destructor begins.
pressKey ==
    /\ Main("running", "onTerminate")
    /\ UNCHANGED <<file, at, participants, wiring, ending, calls, fate>>

\* ISBridge::onTerminate of one connector's bridge.
onTerminate(c) ==
    /\ Main("onTerminate", "onTerminate")
    /\ c \notin m_bTerminating
    /\ m_bTerminating' = m_bTerminating \cup {c}
    /\ UNCHANGED <<file, at, participants, wiring, closing, deleted, calls, fate>>

allTerminated ==
    /\ Main("onTerminate", "removeParticipants")
    /\ m_bTerminating = C
    /\ UNCHANGED <<file, at, participants, wiring, ending, calls, fate>>

\* Seeded bug for removeParticipant: the participants are removed in any order.
removeAnyParticipant(p) ==
    /\ Main("removeParticipants", "removeParticipants")
    /\ p \in participants \ closing
    /\ closing = {} \/ closing \cap participants = {}
    /\ closing' = closing \cup {p}
    /\ UNCHANGED <<file, at, participants, wiring, m_bTerminating, deleted, calls, fate>>

\* Domain::removeParticipant, from the last name to the first: no callback of
\* its subscribers begins any more, and it returns when those that run have
\* returned.
removeParticipant(p) ==
    /\ Main("removeParticipants", "removeParticipants")
    /\ p \in participants \ closing
    /\ \A q \in participants : q <= p
    /\ closing' = closing \cup {p}
    /\ UNCHANGED <<file, at, participants, wiring, m_bTerminating, deleted, calls, fate>>

\* Seeded bug for participantRemoved: the running callbacks are not waited for.
participantDropped(p) ==
    /\ Main("removeParticipants", "removeParticipants")
    /\ p \in participants \cap closing
    /\ participants' = participants \ {p}
    /\ subscribed' = {c \in subscribed : readerPart(c) # p}
    /\ UNCHANGED <<file, at, input_type, mv_bridges, mm_writer, mm_functions,
                   ending, calls, fate>>

participantRemoved(p) ==
    /\ Main("removeParticipants", "removeParticipants")
    /\ p \in participants \cap closing
    /\ \A c \in C : readerPart(c) = p => thread[c] = "idle"
    /\ participants' = participants \ {p}
    /\ subscribed' = {c \in subscribed : readerPart(c) # p}
    /\ UNCHANGED <<file, at, input_type, mv_bridges, mm_writer, mm_functions,
                   ending, calls, fate>>

\* The bridges are deleted, with their readers and writers; then the types.
deleteBridges ==
    /\ Main("removeParticipants", "ended")
    /\ participants = {}
    /\ deleted' = C
    /\ UNCHANGED <<file, at, participants, wiring, closing, m_bTerminating, calls, fate>>

-------------------------------------------------------------------------------
(* The listener threads *)

Listener(c, from, to) ==
    /\ ~crashed
    /\ thread[c] = from
    /\ thread' = [thread EXCEPT ![c] = to]

CanBeCalled(c) ==
    ~crashed /\ c \in subscribed /\ readerPart(c) \notin closing /\ thread[c] = "idle"

\* Fast RTPS calls onNewDataMessage.
onNewDataMessage(c, s) ==
    /\ CanBeCalled(c)
    /\ Listener(c, "idle", "take")
    /\ sample' = [sample EXCEPT ![c] = s]
    /\ early' = IF c = at THEN early \cup {c} ELSE early
    /\ UNCHANGED <<main, participants, wiring, ending, crashed, gone>>

\* The sample is taken in the way the input_type asks for; a null one is used as
\* if it were a provided type.
takeNextData(c) ==
    /\ Listener(c, "take", "bridges")
    /\ crashed' = (c \notin input_type)
    /\ UNCHANGED <<main, participants, wiring, ending, sample, gone, early>>

\* A list is read by its two ends.  If one of them is read before and one after they
\* change, the callback goes through memory that is not a list; otherwise it sees
\* the old list or the new one.
Reads(c, entry, none, some) ==
    \/ /\ entry # "one"
       /\ Listener(c, thread[c], none)
       /\ UNCHANGED crashed
    \/ /\ entry \in {"growing", "one"}
       /\ Listener(c, thread[c], some)
       /\ UNCHANGED crashed
    \/ /\ entry = "growing"
       /\ Listener(c, thread[c], "idle")
       /\ crashed' = TRUE

\* ISReader::on_received_data, over the list of bridges.
on_received_data(c) ==
    /\ thread[c] = "bridges"
    /\ Reads(c, mv_bridges[c], "idle", "functions")
    /\ UNCHANGED <<main, participants, wiring, ending, sample, gone, early>>

\* ISBridge::on_received_data: the functions of the name in the table for the
\* data's kind, or for dynamic data the route without a function.
findFunction(c) ==
    /\ thread[c] = "functions"
    /\ Reads(c, IF Looks(c) THEN mm_functions[c] ELSE "empty",
             IF dynamic(c) THEN "fallback" ELSE "idle", "route")
    /\ IF Looks(c)
       THEN \E entry \in LookedUp(mm_functions[c], c = at /\ pc = "addFunction") :
                mm_functions' = [mm_functions EXCEPT ![c] = entry]
       ELSE UNCHANGED mm_functions
    /\ UNCHANGED <<main, participants, subscribed, input_type, mv_bridges, mm_writer, ending,
                   sample, gone, early>>

\* And the writers of the key.
findWriters(c) ==
    /\ thread[c] \in {"route", "fallback"}
    /\ Reads(c, mm_writer[Looked(c)], "idle", "isTerminating")
    /\ \E entry \in LookedUp(mm_writer[Looked(c)], c = at /\ pc = "addWriter") :
            mm_writer' = [mm_writer EXCEPT ![Looked(c)] = entry]
    /\ UNCHANGED <<main, participants, subscribed, input_type, mv_bridges, mm_functions, ending,
                   sample, gone, early>>

\* Seeded bug for isTerminating: the loop does not go on to the next writer.
isTerminatingStays(c) ==
    /\ Listener(c, "isTerminating", IF c \in m_bTerminating THEN "isTerminating" ELSE "write")
    /\ UNCHANGED <<main, participants, wiring, ending, sample, fate>>

isTerminating(c) ==
    /\ Listener(c, "isTerminating", IF c \in m_bTerminating THEN "idle" ELSE "write")
    /\ UNCHANGED <<main, participants, wiring, ending, sample, fate>>

\* RTPSPublisher::write, through a publisher that may have gone with its
\* participant.
write(c) ==
    /\ Listener(c, "write", "idle")
    /\ gone' = IF writerPart(c) \in participants THEN gone ELSE gone \cup {c}
    /\ UNCHANGED <<main, participants, wiring, ending, sample, crashed, early>>

-------------------------------------------------------------------------------
\* What the main thread does unasked.
MainStep ==
    \/ createReader \/ associateType \/ createWriter
    \/ addReader \/ addBridge \/ addWriter \/ pushWriter \/ addFunction \/ pushFunction
    \/ allTerminated \/ deleteBridges
    \/ \E c \in C : onTerminate(c)
    \/ \E p \in Participant : removeParticipant(p) \/ participantRemoved(p)

\* What a listener does in a callback, short of the write.
ListenerStep(c) ==
    \/ takeNextData(c) \/ on_received_data(c)
    \/ findFunction(c) \/ findWriters(c) \/ isTerminating(c)

-------------------------------------------------------------------------------
(* Properties *)

\* While the connector is wired its reader and its writer exist.
Wiring == {"addReader", "addBridge", "addWriter", "pushWriter", "addFunction", "pushFunction"}
Loading == {"createReader", "associateType", "createWriter"} \cup Wiring
Removing == {"removeParticipants", "ended"}

ServiceTypeOK ==
    /\ file \in Files
    /\ pc \in Loading \cup {"running", "onTerminate"} \cup Removing
    /\ at \in 1..(Len(file.connectors) + 1)
    /\ participants \subseteq Participant
    /\ closing \subseteq Participant
    /\ subscribed \subseteq C /\ input_type \subseteq C
    /\ mv_bridges \in [C -> Entry]
    /\ mm_writer \in [C \X Key -> Entry] /\ mm_functions \in [C -> Entry]
    /\ m_bTerminating \subseteq C /\ deleted \subseteq C
    /\ thread \in [C -> {"idle", "take", "bridges", "functions", "route", "fallback",
                         "isTerminating", "write"}]
    /\ crashed \in BOOLEAN
    /\ gone \subseteq C /\ early \subseteq C

\* Whichever participants the connectors use and however far a callback has got,
\* no reader, writer or bridge is deleted under it: all participants have been
\* removed, and their callbacks have returned, by then.
NothingDeletedInUse == \A c \in deleted : thread[c] = "idle"

\* A callback writes through a publisher that is gone only if the publisher's
\* participant is removed before the subscriber's, that is, if its name is the
\* later one of the two: as in the domain_change example, and not when a
\* connector's ends are in one participant or the other way round.
GoneOnlyInNameOrder == \A c \in gone : readerPart(c) < writerPart(c)

\* A callback meets a null input_type or a torn list of bridges, writers or functions
\* only while its own connector is being loaded: the program that waits for a key
\* does not crash.
CrashesOnlyWhileLoading ==
    crashed => /\ at \in C
               /\ pc \in {"associateType", "addBridge", "pushWriter", "pushFunction"}

\* The tables lead the connector's listener to its writer.  They do once it is wired
\* if its function is in the table that the listener looks in, and unless a callback
\* came while it was being wired, whose look-ups may cost it an entry for good.
Forwards(c) ==
    /\ mm_writer[RouteKey(c)] = "one"
    /\ IF Looks(c) THEN mm_functions[c] = "one" ELSE dynamic(c) /\ transform(c) = "none"

InTime(c) == c \notin early /\ (Looks(c) \/ transform(c) = "none")

WiredInTime == \A c \in C : c < at /\ InTime(c) => Forwards(c)

\* Why the four hold, an inductive invariant.  Loading goes through the connectors
\* one by one, and wires each of them from the reader to the function;
Wired ==
    /\ pc \in Loading <=> at \in C
    /\ \A c \in C : c < at => c \in input_type
    /\ pc \in Loading \ {"createReader", "associateType"} => at \in input_type
    /\ \A c \in subscribed : c < at \/ (c = at /\ pc # "createReader")
    /\ \A c \in C : mv_bridges[c] = "growing" => c = at /\ pc = "addBridge"

\* its entries grow in the steps that push to them, and none of them is lost if no
\* callback was in the way;
Entries ==
    /\ \A c \in C : mm_functions[c] = "growing" => c = at /\ pc = "pushFunction"
    /\ \A k \in C \X Key : /\ mm_writer[k] = "growing" => pc = "pushWriter" /\ k = RouteKey(at)
                           /\ mm_writer[k] = "one" => k[1] < at \/ (k[1] = at /\ pc \in Wiring)
    /\ \A c \in C \ early :
        /\ c < at => mm_writer[RouteKey(c)] = "one" /\ mm_functions[c] = "one"
        /\ c = at => /\ pc = "pushWriter" => mm_writer[RouteKey(c)] = "growing"
                     /\ pc \in {"addFunction", "pushFunction"} => mm_writer[RouteKey(c)] = "one"
                     /\ pc = "pushFunction" => mm_functions[c] = "growing"

\* a callback runs for a subscriber that exists in a participant that is up;
Called ==
    /\ \A c \in C : thread[c] # "idle" => c \in subscribed /\ (c < at \/ c \in early)
    /\ \A c \in subscribed : readerPart(c) \in participants
    /\ \A c \in C : thread[c] \in {"isTerminating", "write"} => c < at \/ (c = at /\ pc \in Wiring)

\* participants go in the order of their names, the last one first, and everything
\* else goes after them.
TakenDown ==
    /\ closing # {} => pc \in Removing
    /\ \A p \in closing \cap participants : \A q \in participants : q <= p
    /\ \A c \in C : (c < at \/ (c = at /\ pc \in Wiring))
            => \/ writerPart(c) \in participants
               \/ /\ pc \in Removing
                  /\ \A q \in participants : q < writerPart(c)
    /\ deleted # {} => pc = "ended" /\ participants = {}

ServiceInv ==
    /\ ServiceTypeOK
    /\ Wired /\ Entries /\ Called /\ TakenDown
    /\ NothingDeletedInUse /\ GoneOnlyInNameOrder /\ CrashesOnlyWhileLoading /\ WiredInTime

\* Once a key has been pressed the program ends, whatever callbacks are running.
ShutdownEnds == pc = "onTerminate" ~> pc = "ended"
===============================================================================
