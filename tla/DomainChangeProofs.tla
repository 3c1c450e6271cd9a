-------------------------- MODULE DomainChangeProofs --------------------------
(* Theorems about the service in module DomainChange, for every set of files,  *)
(* participants and programs around it.                                        *)
EXTENDS DomainChange, FiniteSetTheorems, TLAPS

-------------------------------------------------------------------------------
\* The connectors of a file are numbered from 1, and join participants, which are
\* numbers.
LEMMA ConnectorsOfFile ==
    ASSUME file \in Files
    PROVE  /\ Len(file.connectors) \in Nat \ {0}
           /\ C = 1..Len(file.connectors)
           /\ \A c \in C : readerPart(c) \in Participant /\ writerPart(c) \in Participant
           /\ Participant \subseteq Nat
<1>1. file.connectors \in Seq(Connector) \ {<<>>} /\ Participant \subseteq Nat
    BY ServiceAssumption
<1>2. \A c \in C : file.connectors[c] \in Connector
    BY <1>1 DEF C
<1> QED
    BY <1>1, <1>2 DEF C, readerPart, writerPart, Connector

\* The steps of the service, and of nothing else.
ServiceNext ==
    \/ MainStep \/ pressKey
    \/ \E c \in C : ListenerStep(c) \/ write(c) \/ \E s : onNewDataMessage(c, s)

\* Whatever else happens, the service only moves by its own steps.
LEMMA NextIsServiceNext ==
    ASSUME [Next]_vars
    PROVE  [ServiceNext]_serviceVars
<1>1. CASE Next
    BY <1>1 DEF Next, ServiceNext, TheMainThread, TheUser, InCallback, Forward, Arrive,
        ArriveOther, Match, Unmatch, Lose, init, wait, send, command, stop, takeText
<1>2. CASE UNCHANGED vars
    BY <1>2 DEF vars
<1> QED
    BY <1>1, <1>2

\* No step changes the file.
LEMMA FileStays == ASSUME [Next]_vars PROVE file' = file
<1>1. CASE ServiceNext
    BY <1>1 DEF ServiceNext, MainStep, ListenerStep, createReader, associateType,
        createWriter, addReader, addBridge, addWriter, pushWriter, addFunction, pushFunction,
        allTerminated, deleteBridges, onTerminate, removeParticipant, participantRemoved,
        pressKey, takeNextData, on_received_data, findFunction, findWriters, isTerminating,
        write, onNewDataMessage, main
<1>2. CASE UNCHANGED serviceVars
    BY <1>2 DEF serviceVars, main
<1> QED
    BY <1>1, <1>2, NextIsServiceNext

-------------------------------------------------------------------------------
\* ServiceInv holds in the first state, and every step keeps it.
LEMMA ServiceInvHoldsAtFirst == Init => ServiceInv
<1> SUFFICES ASSUME Init PROVE ServiceInv
    OBVIOUS
<1> USE DEF Init, ServiceInit
<1>1. at = 1 /\ at \in C /\ \A c \in C : ~(c < at)
    BY ConnectorsOfFile
<1>2. ServiceTypeOK
    <2>1. file \in Files /\ at \in 1..(Len(file.connectors) + 1)
        BY ConnectorsOfFile
    <2> QED
        BY <2>1 DEF ServiceTypeOK, Entry, Loading
<1>3. Wired /\ Entries /\ Called /\ TakenDown
    BY <1>1, ConnectorsOfFile DEF Wired, Entries, Called, TakenDown, Loading, Wiring, Removing
<1>4. NothingDeletedInUse /\ GoneOnlyInNameOrder /\ CrashesOnlyWhileLoading /\ WiredInTime
    BY <1>1 DEF NothingDeletedInUse, GoneOnlyInNameOrder, CrashesOnlyWhileLoading, WiredInTime
<1> QED
    BY <1>2, <1>3, <1>4 DEF ServiceInv

\* ServiceInv without the entries of the tables, which few steps change.
CoreInv ==
    /\ ServiceTypeOK /\ Wired /\ Called /\ TakenDown
    /\ NothingDeletedInUse /\ GoneOnlyInNameOrder /\ CrashesOnlyWhileLoading

LEMMA EntriesLead == ASSUME CoreInv', Entries' PROVE ServiceInv'
<1>1. WiredInTime'
    <2> SUFFICES ASSUME NEW c \in C', (c < at)', InTime(c)' PROVE Forwards(c)'
        BY DEF WiredInTime
    <2>1. mm_writer'[RouteKey(c)'] = "one" /\ mm_functions'[c] = "one"
        BY DEF Entries, InTime
    <2> QED
        BY <2>1 DEF InTime, Forwards, Looks, dynamic, transform
<1> QED
    BY <1>1 DEF CoreInv, ServiceInv

\* The steps that push to no list keep the entries.
LEMMA EntriesStay ==
    ASSUME Entries, UNCHANGED <<file, at, mm_writer, mm_functions>>, early \subseteq early',
           \/ pc' = pc
           \/ /\ {pc, pc'} \cap {"pushWriter", "addFunction", "pushFunction"} = {}
              /\ pc \in Wiring => pc' \in Wiring
    PROVE  Entries'
<1>1. /\ C' = C /\ \A c : RouteKey(c)' = RouteKey(c)
    BY DEF C, RouteKey, transform
<1> QED
    BY <1>1 DEF Entries

\* The key of a connector's writer is its own.
LEMMA RouteKeys ==
    ASSUME NEW c \in C
    PROVE  RouteKey(c) \in C \X Key /\ RouteKey(c)[1] = c
BY DEF RouteKey, Key

\* The steps of the main thread that wire connectors keep ServiceInv.
LEMMA LoadingKeepsServiceInv ==
    ASSUME ServiceInv,
           \/ createReader \/ associateType \/ createWriter
           \/ addReader \/ addBridge \/ addWriter \/ pushWriter
           \/ addFunction \/ pushFunction
    PROVE  ServiceInv'
<1>1. CoreInv'
    <2> USE ConnectorsOfFile DEF CoreInv, ServiceInv, ServiceTypeOK, Wired, Called, TakenDown,
            Loading, Wiring, Removing, NothingDeletedInUse, GoneOnlyInNameOrder,
            CrashesOnlyWhileLoading, Main, C, readerPart, writerPart, main, wiring, ending,
            calls, fate
    <2>1. CASE createReader
        BY <2>1 DEF createReader
    <2>2. CASE associateType
        BY <2>2 DEF associateType
    <2>3. CASE createWriter
        BY <2>3 DEF createWriter
    <2>4. CASE addReader
        BY <2>4 DEF addReader, Entry
    <2>5. CASE addBridge
        BY <2>5 DEF addBridge, Entry
    <2>6. CASE addWriter
        <3>1. mm_writer' \in [C \X Key -> Entry]
            BY <2>6, RouteKeys DEF addWriter, Begun, Entry
        <3> QED
            BY <2>6, <3>1 DEF addWriter
    <2>7. CASE pushWriter
        <3>1. mm_writer' \in [C \X Key -> Entry]
            BY <2>7, RouteKeys DEF pushWriter, Pushed, Entry
        <3> QED
            BY <2>7, <3>1 DEF pushWriter
    <2>8. CASE addFunction
        <3>1. mm_functions' \in [C -> Entry]
            BY <2>8 DEF addFunction, Begun, Entry
        <3> QED
            BY <2>8, <3>1 DEF addFunction
    <2>9. CASE pushFunction
        <3>1. mm_functions' \in [C -> Entry]
            BY <2>9 DEF pushFunction, Pushed, Entry
        <3>2. /\ pc = "pushFunction" /\ at' = at + 1 /\ at \in C
              /\ pc' = IF at < Len(file.connectors) THEN "createReader" ELSE "running"
            BY <2>9 DEF pushFunction
        <3>3. /\ \A c \in C : c < at' <=> c < at \/ c = at
              /\ pc' \in Loading <=> at' \in C
            BY <3>2
        <3>4. Wired' /\ Called' /\ TakenDown'
            BY <2>9, <3>1, <3>2, <3>3 DEF pushFunction
        <3> QED
            BY <2>9, <3>1, <3>2, <3>4 DEF pushFunction
    <2> QED
        BY <2>1, <2>2, <2>3, <2>4, <2>5, <2>6, <2>7, <2>8, <2>9
<1>2. Entries'
    <2>1. /\ ServiceTypeOK /\ Wired /\ Entries /\ Called /\ UNCHANGED <<file, early, thread>>
          /\ at \in C /\ C \subseteq Nat /\ C' = C
          /\ \A c \in C : /\ RouteKey(c) \in C \X Key /\ RouteKey(c)[1] = c
                          /\ RouteKey(c)' = RouteKey(c)
        <3>1. /\ ServiceTypeOK /\ Wired /\ Entries /\ Called
              /\ UNCHANGED <<file, early, thread>> /\ pc \in Loading
            BY DEF ServiceInv, createReader, associateType, createWriter, addReader, addBridge,
                addWriter, pushWriter, addFunction, pushFunction, Main, Loading, Wiring, fate,
                calls
        <3> QED
            BY <3>1, ConnectorsOfFile, RouteKeys DEF Wired, ServiceTypeOK, C, RouteKey, transform
    <2>2. at \notin early => ~ChangesWriters(at) /\ ~ChangesFunctions(at)
        BY <2>1 DEF Called, ChangesWriters, ChangesFunctions
    <2>3. CASE createReader \/ associateType \/ createWriter \/ addReader \/ addBridge
        BY <2>1, <2>3, EntriesStay DEF createReader, associateType, createWriter, addReader,
            addBridge, Main, Wiring, wiring, fate
    <2>4. CASE addWriter
        <3>1. /\ pc = "addWriter" /\ pc' = "pushWriter" /\ at' = at
              /\ mm_functions' = mm_functions
            BY <2>4 DEF addWriter, Main
        <3>2. PICK entry \in Begun(mm_writer[RouteKey(at)], ChangesWriters(at)) :
                    mm_writer' = [mm_writer EXCEPT ![RouteKey(at)] = entry]
            BY <2>4 DEF addWriter
        <3>3. entry \in {"missing", "growing"} /\ (at \notin early => entry = "growing")
            BY <2>2, <3>2 DEF Begun
        <3>4. \A k \in C \X Key : mm_writer'[k] = IF k = RouteKey(at) THEN entry ELSE mm_writer[k]
            BY <3>2 DEF ServiceTypeOK, ServiceInv
        <3> QED
            BY <2>1, <3>1, <3>3, <3>4 DEF Entries, Wiring
    <2>5. CASE pushWriter
        <3>1. /\ pc = "pushWriter" /\ pc' = "addFunction" /\ at' = at
              /\ mm_functions' = mm_functions
            BY <2>5 DEF pushWriter, Main
        <3>2. \A k \in C \X Key : mm_writer'[k] = IF k = RouteKey(at) THEN Pushed(mm_writer[k])
                                                                   ELSE mm_writer[k]
            BY <2>1, <2>5 DEF pushWriter, ServiceTypeOK
        <3> QED
            BY <2>1, <3>1, <3>2 DEF Entries, Wiring, Pushed
    <2>6. CASE addFunction
        <3>1. /\ pc = "addFunction" /\ pc' = "pushFunction" /\ at' = at
              /\ mm_writer' = mm_writer
            BY <2>6 DEF addFunction, Main
        <3>2. PICK entry \in Begun(mm_functions[at], ChangesFunctions(at)) :
                    mm_functions' = [mm_functions EXCEPT ![at] = entry]
            BY <2>6 DEF addFunction
        <3>3. entry \in {"missing", "growing"} /\ (at \notin early => entry = "growing")
            BY <2>2, <3>2 DEF Begun
        <3>4. \A c \in C : mm_functions'[c] = IF c = at THEN entry ELSE mm_functions[c]
            BY <2>1, <3>2 DEF ServiceTypeOK
        <3> QED
            BY <2>1, <3>1, <3>3, <3>4 DEF Entries, Wiring
    <2>7. CASE pushFunction
        <3>1. /\ pc = "pushFunction" /\ pc' \notin Wiring /\ at' = at + 1
              /\ mm_writer' = mm_writer
            BY <2>7 DEF pushFunction, Main, Wiring
        <3>2. \A c \in C : mm_functions'[c] = IF c = at THEN Pushed(mm_functions[c])
                                                        ELSE mm_functions[c]
            BY <2>1, <2>7 DEF pushFunction, ServiceTypeOK
        <3>3. \A c \in C : c < at' <=> c < at \/ c = at
            BY <2>1, <3>1
        <3>4. \A c \in C : mm_functions'[c] # "growing"
            BY <2>1, <3>1, <3>2 DEF Entries, Pushed
        <3>5. \A k \in C \X Key :
                /\ mm_writer'[k] # "growing"
                /\ mm_writer'[k] = "one" => k[1] < at'
            BY <2>1, <3>1, <3>3 DEF Entries
        <3>6. \A c \in C \ early :
                c < at' => mm_writer[RouteKey(c)] = "one" /\ mm_functions'[c] = "one"
            BY <2>1, <3>1, <3>2, <3>3 DEF Entries, Pushed
        <3> QED
            BY <2>1, <3>1, <3>4, <3>5, <3>6 DEF Entries, Wiring
    <2> QED
        BY <2>3, <2>4, <2>5, <2>6, <2>7
<1> QED
    BY <1>1, <1>2, EntriesLead

\* So do those that end the program.
LEMMA EndingKeepsServiceInv ==
    ASSUME ServiceInv,
           \/ pressKey \/ allTerminated \/ deleteBridges
           \/ \E c \in C : onTerminate(c)
           \/ \E p \in Participant : removeParticipant(p) \/ participantRemoved(p)
    PROVE  ServiceInv'
<1>1. CoreInv'
    <2> USE ConnectorsOfFile DEF CoreInv, ServiceInv, ServiceTypeOK, Wired, Called, TakenDown,
            Loading, Wiring, Removing, NothingDeletedInUse, GoneOnlyInNameOrder,
            CrashesOnlyWhileLoading, Main, C, readerPart, writerPart, main, wiring, ending,
            calls, fate
    <2>1. CASE pressKey
        BY <2>1 DEF pressKey
    <2>2. CASE \E c \in C : onTerminate(c)
        BY <2>2 DEF onTerminate
    <2>3. CASE allTerminated
        BY <2>3 DEF allTerminated
    <2>4. CASE \E p \in Participant : removeParticipant(p)
        BY <2>4 DEF removeParticipant
    <2>5. CASE \E p \in Participant : participantRemoved(p)
        BY <2>5 DEF participantRemoved
    <2>6. CASE deleteBridges
        BY <2>6 DEF deleteBridges
    <2> QED
        BY <2>1, <2>2, <2>3, <2>4, <2>5, <2>6
<1>2. Entries'
    BY EntriesStay DEF ServiceInv, pressKey, allTerminated, deleteBridges, onTerminate,
        removeParticipant, participantRemoved, Main, wiring, fate, Wiring
<1> QED
    BY <1>1, <1>2, EntriesLead

\* What a callback's look-up does to an entry, and to the callback.
LEMMA LookUps ==
    ASSUME NEW e \in Entry, NEW missed, NEW after \in LookedUp(e, missed)
    PROVE  /\ after \in Entry
           /\ \A full \in {"growing", "one"} : (after = full <=> e = full)
BY DEF LookedUp, Entry

\* A callback that goes on, short of the write, keeps CoreInv if it only gets to the
\* check of a writer by an entry of the table, and if it crashes in the steps that
\* push to the list it reads.
Places == {"idle", "take", "bridges", "functions", "route", "fallback", "isTerminating", "write"}
Pushes == {"associateType", "addBridge", "pushWriter", "pushFunction"}

LEMMA CallbackGoes ==
    ASSUME CoreInv, NEW c \in C, thread[c] # "idle", ~crashed,
           NEW to \in Places, thread' = [thread EXCEPT ![c] = to],
           UNCHANGED <<file, pc, at, participants, subscribed, input_type, mv_bridges, ending,
                       gone, early>>,
           mm_writer' \in [C \X Key -> Entry], mm_functions' \in [C -> Entry],
           crashed' \in BOOLEAN, crashed' => c = at /\ pc \in Pushes,
           to \in {"isTerminating", "write"} => c < at \/ (c = at /\ pc \in Wiring)
    PROVE  CoreInv'
<1>1. thread' \in [C -> Places] /\ \A d \in C : thread'[d] = IF d = c THEN to ELSE thread[d]
    BY DEF CoreInv, ServiceTypeOK, Places
<1>2. /\ C' = C
      /\ \A d \in C : readerPart(d)' = readerPart(d) /\ writerPart(d)' = writerPart(d)
    BY DEF C, readerPart, writerPart
<1>3. ServiceTypeOK'
    BY <1>1, <1>2 DEF CoreInv, ServiceTypeOK, Places, ending
<1>4. Wired'
    BY <1>2 DEF CoreInv, Wired
<1>5. Called'
    BY <1>1, <1>2 DEF CoreInv, Called, ServiceTypeOK
<1>6. TakenDown'
    BY <1>2 DEF CoreInv, TakenDown, ending
<1>7. NothingDeletedInUse' /\ GoneOnlyInNameOrder' /\ CrashesOnlyWhileLoading'
    BY <1>1, <1>2 DEF CoreInv, ServiceTypeOK, NothingDeletedInUse, GoneOnlyInNameOrder,
        CrashesOnlyWhileLoading, Pushes, ending
<1> QED
    BY <1>3, <1>4, <1>5, <1>6, <1>7 DEF CoreInv

LEMMA CallbackReads ==
    ASSUME CoreInv, NEW c \in C, thread[c] # "idle",
           NEW entry, NEW none \in Places, NEW some \in Places, Reads(c, entry, none, some),
           none \notin {"isTerminating", "write"},
           UNCHANGED <<file, pc, at, participants, subscribed, input_type, mv_bridges, ending,
                       gone, early>>,
           mm_writer' \in [C \X Key -> Entry], mm_functions' \in [C -> Entry],
           entry = "growing" => c = at /\ pc \in Pushes,
           entry \in {"growing", "one"} /\ some \in {"isTerminating", "write"}
                => c < at \/ (c = at /\ pc \in Wiring)
    PROVE  CoreInv'
<1>1. ~crashed /\ crashed' \in BOOLEAN /\ (crashed' => entry = "growing")
    <2>1. ~crashed /\ crashed = FALSE
        BY DEF Reads, Listener, CoreInv, ServiceTypeOK
    <2>2. crashed' = FALSE \/ (crashed' = TRUE /\ entry = "growing")
        BY <2>1 DEF Reads
    <2> QED
        BY <2>1, <2>2
<1>2. PICK to \in Places :
        /\ thread' = [thread EXCEPT ![c] = to]
        /\ to \in {"isTerminating", "write"} => to = some /\ entry \in {"growing", "one"}
    BY DEF Reads, Listener, Places
<1> QED
    BY <1>1, <1>2, CallbackGoes

\* And so do the listeners, while either is going on.
LEMMA ListenersKeepServiceInv ==
    ASSUME ServiceInv, NEW c \in C,
           ListenerStep(c) \/ write(c) \/ \E s : onNewDataMessage(c, s)
    PROVE  ServiceInv'
<1>1. /\ \A after \in LookedUp(mm_functions[c], c = at /\ pc = "addFunction") :
            /\ after \in Entry
            /\ \A full \in {"growing", "one"} : (after = full <=> mm_functions[c] = full)
      /\ Looked(c) \in C \X Key /\ Looked(c)[1] = c
      /\ \A after \in LookedUp(mm_writer[Looked(c)], c = at /\ pc = "addWriter") :
            /\ after \in Entry
            /\ \A full \in {"growing", "one"} : (after = full <=> mm_writer[Looked(c)] = full)
    <2>1. Looked(c) \in C \X Key /\ Looked(c)[1] = c
        BY RouteKeys DEF Looked, Key
    <2>2. mm_functions[c] \in Entry /\ mm_writer[Looked(c)] \in Entry
        BY <2>1 DEF ServiceInv, ServiceTypeOK
    <2> QED
        BY <2>1, <2>2, LookUps
<1>2. /\ mm_writer' \in [C \X Key -> Entry] /\ mm_functions' \in [C -> Entry]
      /\ \A full \in {"growing", "one"} :
            /\ \A k \in C \X Key : mm_writer'[k] = full <=> mm_writer[k] = full
            /\ \A d \in C : mm_functions'[d] = full <=> mm_functions[d] = full
    <2>1. mm_writer \in [C \X Key -> Entry] /\ mm_functions \in [C -> Entry]
        BY DEF ServiceInv, ServiceTypeOK
    <2>2. CASE findFunction(c)
        BY <1>1, <2>1, <2>2 DEF findFunction
    <2>3. CASE findWriters(c)
        BY <1>1, <2>1, <2>3 DEF findWriters
    <2>4. CASE ~findFunction(c) /\ ~findWriters(c)
        BY <2>1, <2>4 DEF ListenerStep, write, onNewDataMessage, takeNextData, on_received_data,
            isTerminating, wiring
    <2> QED
        BY <2>2, <2>3, <2>4
<1>3. CoreInv'
    <2>1. /\ mm_functions[c] = "growing" => c = at /\ pc \in Pushes
          /\ mm_writer[Looked(c)] = "growing" => c = at /\ pc = "pushWriter"
          /\ mm_writer[Looked(c)] = "one" => c < at \/ (c = at /\ pc \in Wiring)
        BY <1>1 DEF ServiceInv, Entries, RouteKey, Pushes
    <2>2. mm_writer[Looked(c)] \in Entry /\ mm_functions[c] \in Entry
        BY <1>1 DEF ServiceInv, ServiceTypeOK
    <2>3. CoreInv /\ thread \in [C -> Places]
        BY DEF ServiceInv, CoreInv, ServiceTypeOK, Places
    <2>4. CASE \E s : onNewDataMessage(c, s)
        BY <2>4, ConnectorsOfFile DEF onNewDataMessage, CanBeCalled, Listener, CoreInv, ServiceInv,
            ServiceTypeOK, Wired, Called, TakenDown, Loading, Wiring, Removing,
            NothingDeletedInUse, GoneOnlyInNameOrder, CrashesOnlyWhileLoading, C, readerPart,
            writerPart, main, wiring, ending
    <2>5. CASE takeNextData(c)
        <3>1. crashed' => c = at /\ pc = "associateType"
            BY <2>3, <2>5 DEF takeNextData, Listener, CoreInv, Called, Wired, Loading, Wiring, C
        <3> QED
            BY <1>2, <2>3, <2>5, <3>1, CallbackGoes DEF takeNextData, Listener, main, wiring, Places,
                Pushes
    <2>6. CASE on_received_data(c)
        <3>1. mv_bridges[c] = "growing" => c = at /\ pc = "addBridge"
            BY <2>3 DEF CoreInv, Wired
        <3> QED
            BY <1>2, <2>3, <2>6, <3>1, CallbackReads DEF on_received_data, main, wiring, Places,
                Pushes
    <2>7. CASE findFunction(c)
        BY <1>2, <2>1, <2>3, <2>7, CallbackReads DEF findFunction, main, Places
    <2>8. CASE findWriters(c)
        BY <1>2, <2>1, <2>2, <2>3, <2>8, CallbackReads DEF findWriters, main, Places, Pushes, Wiring
    <2>9. CASE isTerminating(c)
        BY <1>2, <2>3, <2>9, CallbackGoes DEF isTerminating, Listener, main, wiring, fate, Places,
            CoreInv, ServiceTypeOK, Called
    <2>10. CASE write(c)
        BY <2>10, ConnectorsOfFile DEF write, Listener, CoreInv, ServiceInv,
            ServiceTypeOK, Wired, Called, TakenDown, Loading, Wiring, Removing,
            NothingDeletedInUse, GoneOnlyInNameOrder, CrashesOnlyWhileLoading, C, readerPart,
            writerPart, main, wiring, ending
    <2> QED
        BY <2>4, <2>5, <2>6, <2>7, <2>8, <2>9, <2>10 DEF ListenerStep
<1>4. Entries'
    <2>1. UNCHANGED <<file, at, pc>> /\ early \subseteq early'
        BY DEF ListenerStep, write, onNewDataMessage, takeNextData, on_received_data,
            findFunction, findWriters, isTerminating, main, fate
    <2>2. /\ C' = C /\ \A d : RouteKey(d)' = RouteKey(d)
          /\ \A d \in C : RouteKey(d) \in C \X Key
        BY <2>1, RouteKeys DEF C, RouteKey, transform
    <2> QED
        BY <1>2, <2>1, <2>2 DEF ServiceInv, Entries
<1> QED
    BY <1>3, <1>4, EntriesLead

-------------------------------------------------------------------------------
\* Whatever the files and the participants, and whoever sends when: ServiceInv holds
\* in every state of the process (src/ISManager.cpp, src/RTPSSubscriber.cpp).
THEOREM ServiceInvariance == Spec => []ServiceInv
<1>1. ServiceInv /\ [Next]_vars => ServiceInv'
    <2> SUFFICES ASSUME ServiceInv, [ServiceNext]_serviceVars PROVE ServiceInv'
        BY NextIsServiceNext
    <2>1. CASE ServiceNext
        BY <2>1, LoadingKeepsServiceInv, EndingKeepsServiceInv, ListenersKeepServiceInv
            DEF ServiceNext, MainStep
    <2>2. CASE UNCHANGED serviceVars
        <3>1. CoreInv'
            BY <2>2 DEF serviceVars, main, wiring, ending, calls, fate, CoreInv, ServiceInv,
                ServiceTypeOK, Wired, Called, TakenDown, NothingDeletedInUse,
                GoneOnlyInNameOrder, CrashesOnlyWhileLoading, C, readerPart, writerPart
        <3>2. Entries'
            BY <2>2, EntriesStay DEF serviceVars, main, wiring, fate, ServiceInv
        <3> QED
            BY <3>1, <3>2, EntriesLead
    <2> QED
        BY <2>1, <2>2
<1> QED
    BY <1>1, ServiceInvHoldsAtFirst, PTL DEF Spec

\* No reader, writer or bridge is deleted under a callback (the destructor of
\* ISManager).
THEOREM NoUseAfterDelete == Spec => []NothingDeletedInUse
<1>1. ServiceInv => NothingDeletedInUse
    BY DEF ServiceInv
<1> QED
    BY <1>1, ServiceInvariance, PTL

\* A callback writes through a removed publisher only if the publisher's participant
\* has the later name of the two (the order of the destructor's loop).
THEOREM LateWritesFollowNames == Spec => []GoneOnlyInNameOrder
<1>1. ServiceInv => GoneOnlyInNameOrder
    BY DEF ServiceInv
<1> QED
    BY <1>1, ServiceInvariance, PTL

\* A callback meets a null type or a torn list only while its connector is loaded
\* (the end of createReader, and the push_backs of ISReader::addBridge,
\* ISBridge::addWriter and addFunction).
THEOREM SafeOnceLoaded == Spec => []CrashesOnlyWhileLoading
<1>1. ServiceInv => CrashesOnlyWhileLoading
    BY DEF ServiceInv
<1> QED
    BY <1>1, ServiceInvariance, PTL

\* A connector that was wired before its first callback forwards, if its listener looks
\* where its function is (ISBridge::addWriter and addFunction against the look-ups of
\* on_received_data).
THEOREM WiredForGood == Spec => []WiredInTime
<1>1. ServiceInv => WiredInTime
    BY DEF ServiceInv
<1> QED
    BY <1>1, ServiceInvariance, PTL

-------------------------------------------------------------------------------
(* The matches of the programs *)

MatchesOf(g, S) == {m \in S : g \in Range(m)}

\* What a program knows of its matches; before it is up there are none.
ProgramsInv ==
    /\ argument \in Arguments[file]
    /\ ppc \in [Program -> {"start", "waiting", "sending", "command", "input", "ended"}]
    /\ IsFiniteSet(matched)
    /\ \A g \in Program :
            /\ Up(g) => n_matched[g] = Cardinality(MatchesOf(g, matched))
            /\ ppc[g] = "start" => n_matched[g] = 0 /\ MatchesOf(g, matched) = {}
    /\ msgsent \in [Program -> 0..MaxSent]
    /\ lost \in 0..MaxLost

LEMMA RangeOfMatch ==
    ASSUME NEW w, NEW r
    PROVE  Range(<<w, r>>) = {w, r}
BY DEF Range

\* One match more, or one less, of either end.
LEMMA MatchAdded ==
    ASSUME NEW S, IsFiniteSet(S), NEW w, NEW r, <<w, r>> \notin S, NEW g
    PROVE  /\ IsFiniteSet(S \cup {<<w, r>>})
           /\ g \in {w, r} => /\ Cardinality(MatchesOf(g, S)) \in Nat
                              /\ Cardinality(MatchesOf(g, S \cup {<<w, r>>}))
                                    = Cardinality(MatchesOf(g, S)) + 1
           /\ g \notin {w, r} => MatchesOf(g, S \cup {<<w, r>>}) = MatchesOf(g, S)
<1>1. IsFiniteSet(S \cup {<<w, r>>})
    BY FS_AddElement
<1>2. IsFiniteSet(MatchesOf(g, S)) /\ <<w, r>> \notin MatchesOf(g, S)
    BY FS_Subset DEF MatchesOf
<1>3. ASSUME g \in {w, r}
      PROVE  MatchesOf(g, S \cup {<<w, r>>}) = MatchesOf(g, S) \cup {<<w, r>>}
    BY <1>3, RangeOfMatch DEF MatchesOf
<1>4. ASSUME g \notin {w, r}
      PROVE  MatchesOf(g, S \cup {<<w, r>>}) = MatchesOf(g, S)
    BY <1>4, RangeOfMatch DEF MatchesOf
<1>5. ASSUME g \in {w, r}
      PROVE  /\ Cardinality(MatchesOf(g, S)) \in Nat
             /\ Cardinality(MatchesOf(g, S \cup {<<w, r>>}))
                    = Cardinality(MatchesOf(g, S)) + 1
    BY <1>2, <1>3, <1>5, FS_AddElement, FS_CardinalityType
<1> QED
    BY <1>1, <1>4, <1>5

LEMMA MatchRemoved ==
    ASSUME NEW S, IsFiniteSet(S), NEW w, NEW r, <<w, r>> \in S, NEW g
    PROVE  /\ IsFiniteSet(S \ {<<w, r>>})
           /\ g \in {w, r} => Cardinality(MatchesOf(g, S \ {<<w, r>>}))
                                    = Cardinality(MatchesOf(g, S)) - 1
           /\ g \notin {w, r} => MatchesOf(g, S \ {<<w, r>>}) = MatchesOf(g, S)
<1> DEFINE T == S \ {<<w, r>>}
<1>1. IsFiniteSet(T) /\ <<w, r>> \notin T /\ T \cup {<<w, r>>} = S
    BY FS_Subset
<1> HIDE DEF T
<1>2. g \in {w, r} => /\ Cardinality(MatchesOf(g, T)) \in Nat
                      /\ Cardinality(MatchesOf(g, S)) = Cardinality(MatchesOf(g, T)) + 1
    BY <1>1, MatchAdded
<1>3. g \notin {w, r} => MatchesOf(g, S) = MatchesOf(g, T)
    BY <1>1, MatchAdded
<1> QED
    BY <1>1, <1>2, <1>3 DEF T

LEMMA InitPrograms == Init => ProgramsInv
<1> SUFFICES ASSUME Init PROVE ProgramsInv
    OBVIOUS
<1>1. IsFiniteSet(matched) /\ \A g \in Program : MatchesOf(g, matched) = {}
    BY FS_EmptySet DEF Init, MatchesOf
<1> QED
    BY <1>1, DomainChangeAssumption DEF Init, ProgramsInv, Up

\* A step that matches nobody and ends nobody's match: programs only come up from
\* their start, where they have none.
LEMMA ProgramMoves ==
    ASSUME ProgramsInv, argument' = argument, file' = file, matched' = matched,
           n_matched' = n_matched,
           NEW g \in Program, NEW to \in {"waiting", "sending", "command", "input", "ended"},
           ppc' = [ppc EXCEPT ![g] = to], Up(g) \/ ppc[g] = "start",
           msgsent' \in [Program -> 0..MaxSent], lost' = lost
    PROVE  ProgramsInv'
<1>1. \A h \in Program : ppc'[h] = IF h = g THEN to ELSE ppc[h]
    BY DEF ProgramsInv
<1>2. ppc' \in [Program -> {"start", "waiting", "sending", "command", "input", "ended"}]
    BY DEF ProgramsInv
<1>3. ASSUME NEW h \in Program
      PROVE  /\ Up(h)' => n_matched'[h] = Cardinality(MatchesOf(h, matched'))
             /\ ppc'[h] = "start" => n_matched'[h] = 0 /\ MatchesOf(h, matched') = {}
    <2>1. CASE h = g
        <3>1. ppc'[h] # "start"
            BY <1>1, <2>1
        <3>2. n_matched[h] = Cardinality(MatchesOf(h, matched))
            BY <2>1, FS_EmptySet DEF ProgramsInv
        <3> QED
            BY <3>1, <3>2
    <2>2. CASE h # g
        <3>1. ppc'[h] = ppc[h] /\ Up(h)' = Up(h)
            BY <1>1, <2>2 DEF Up
        <3> QED
            BY <3>1 DEF ProgramsInv
    <2> QED
        BY <2>1, <2>2
<1> QED
    BY <1>2, <1>3 DEF ProgramsInv

LEMMA ProgramsStay ==
    ASSUME ProgramsInv, argument' = argument, file' = file, matched' = matched,
           n_matched' = n_matched,
           ppc' = ppc, msgsent' = msgsent, lost' \in 0..MaxLost
    PROVE  ProgramsInv'
BY DEF ProgramsInv, Up

LEMMA MatchPrograms ==
    ASSUME ProgramsInv, file' = file, NEW w, NEW r, Match(w, r)
    PROVE  ProgramsInv'
<1>1. /\ <<w, r>> \notin matched /\ IsWriter(w) /\ IsReader(r)
      /\ matched' = matched \cup {<<w, r>>}
      /\ n_matched' = [g \in Program |->
                IF g \in {w, r} THEN n_matched[g] + 1 ELSE n_matched[g]]
      /\ argument' = argument /\ ppc' = ppc /\ msgsent' = msgsent /\ lost' = lost
    BY DEF Match, Matching
<1>2. IsFiniteSet(matched')
    BY <1>1, MatchAdded DEF ProgramsInv
<1>3. ASSUME NEW g \in Program
      PROVE  /\ Up(g)' => n_matched'[g] = Cardinality(MatchesOf(g, matched'))
             /\ ppc'[g] = "start" => n_matched'[g] = 0 /\ MatchesOf(g, matched') = {}
    <2>1. Up(g)' = Up(g)
        BY <1>1 DEF Up
    <2>2. CASE g \in {w, r}
        <3>1. Up(g) /\ ppc[g] # "start"
            BY <1>1, <2>2 DEF IsWriter, IsReader, Up
        <3>2. /\ n_matched[g] = Cardinality(MatchesOf(g, matched))
              /\ n_matched'[g] = n_matched[g] + 1
            BY <1>1, <2>2, <3>1 DEF ProgramsInv
        <3>3. Cardinality(MatchesOf(g, matched')) = Cardinality(MatchesOf(g, matched)) + 1
            BY <1>1, <2>2, MatchAdded DEF ProgramsInv
        <3> QED
            BY <1>1, <3>1, <3>2, <3>3
    <2>3. CASE g \notin {w, r}
        <3>1. MatchesOf(g, matched') = MatchesOf(g, matched) /\ n_matched'[g] = n_matched[g]
            BY <1>1, <2>3, MatchAdded DEF ProgramsInv
        <3> QED
            BY <1>1, <2>1, <3>1 DEF ProgramsInv
    <2> QED
        BY <2>2, <2>3
<1> QED
    BY <1>1, <1>2, <1>3 DEF ProgramsInv

LEMMA UnmatchPrograms ==
    ASSUME ProgramsInv, file' = file, NEW w, NEW r, Unmatch(w, r)
    PROVE  ProgramsInv'
<1>1. /\ <<w, r>> \in matched /\ matched' = matched \ {<<w, r>>}
      /\ n_matched' = [g \in Program |->
                IF g \in {w, r} /\ Up(g) THEN n_matched[g] - 1 ELSE n_matched[g]]
      /\ argument' = argument /\ ppc' = ppc /\ msgsent' = msgsent /\ lost' = lost
    BY DEF Unmatch
<1>2. IsFiniteSet(matched')
    BY <1>1, MatchRemoved DEF ProgramsInv
<1>3. ASSUME NEW g \in Program
      PROVE  /\ Up(g)' => n_matched'[g] = Cardinality(MatchesOf(g, matched'))
             /\ ppc'[g] = "start" => n_matched'[g] = 0 /\ MatchesOf(g, matched') = {}
    <2>1. Up(g)' = Up(g)
        BY <1>1 DEF Up
    <2>2. ASSUME Up(g), g \in {w, r}
          PROVE  n_matched'[g] = Cardinality(MatchesOf(g, matched'))
        BY <1>1, <2>2, MatchRemoved DEF ProgramsInv
    <2>3. ASSUME Up(g), g \notin {w, r}
          PROVE  n_matched'[g] = Cardinality(MatchesOf(g, matched'))
        BY <1>1, <2>3, MatchRemoved DEF ProgramsInv
    <2>4. ASSUME ppc[g] = "start"
          PROVE  n_matched'[g] = 0 /\ MatchesOf(g, matched') = {}
        <3>1. ~Up(g) /\ n_matched[g] = 0 /\ MatchesOf(g, matched) = {}
            BY <2>4 DEF ProgramsInv, Up
        <3> QED
            BY <1>1, <3>1 DEF MatchesOf
    <2> QED
        BY <1>1, <2>1, <2>2, <2>3, <2>4
<1> QED
    BY <1>1, <1>2, <1>3 DEF ProgramsInv

LEMMA ProgramSteps ==
    ASSUME ProgramsInv, file' = file, NEW g \in Program,
           init(g) \/ wait(g) \/ send(g) \/ command(g) \/ stop(g)
    PROVE  ProgramsInv'
<1>1. msgsent \in [Program -> 0..MaxSent] /\ MaxSent \in Nat
    BY DomainChangeAssumption DEF ProgramsInv
<1>2. /\ argument' = argument /\ matched' = matched /\ n_matched' = n_matched /\ lost' = lost
      /\ Up(g) \/ ppc[g] = "start"
      /\ \E to \in {"waiting", "sending", "command", "input", "ended"} :
            ppc' = [ppc EXCEPT ![g] = to]
    BY DEF init, wait, send, command, stop, Goes, Up, network
<1>3. msgsent' \in [Program -> 0..MaxSent]
    <2>1. CASE send(g)
        <3>1. msgsent[g] < MaxSent /\ msgsent' = [msgsent EXCEPT ![g] = @ + 1]
            BY <2>1 DEF send
        <3> QED
            BY <1>1, <3>1
    <2>2. CASE init(g) \/ wait(g) \/ command(g) \/ stop(g)
        BY <1>1, <2>2 DEF init, wait, command, stop
    <2> QED
        BY <2>1, <2>2
<1> QED
    BY <1>2, <1>3, ProgramMoves

LEMMA OthersStay ==
    ASSUME ProgramsInv, file' = file,
           \/ TheMainThread \/ TheUser
           \/ \E c \in C : InCallback(c) \/ Forward(c) \/ ArriveOther(c)
                           \/ \E w \in Writer : Arrive(w, c)
           \/ \E w \in Writer, r \in Reader : Lose(<<w, r>>)
           \/ \E g \in Program, w \in Writer : takeText(w, g)
           \/ UNCHANGED vars
    PROVE  ProgramsInv'
<1>1. /\ argument' = argument /\ matched' = matched /\ n_matched' = n_matched
      /\ ppc' = ppc /\ msgsent' = msgsent
    BY DEF TheMainThread, TheUser, InCallback, Forward, ArriveOther, Arrive, Lose, takeText,
        vars, programs, network
<1>2. lost' \in 0..MaxLost
    <2>1. lost \in 0..MaxLost /\ MaxLost \in Nat
        BY DomainChangeAssumption DEF ProgramsInv
    <2>2. lost' = lost \/ (lost < MaxLost /\ lost' = lost + 1)
        BY DEF TheMainThread, TheUser, InCallback, Forward, ArriveOther, Arrive, Lose,
            takeText, vars, network
    <2> QED
        BY <2>1, <2>2
<1> QED
    BY <1>1, <1>2, ProgramsStay

\* TypeOK: a program that is up knows how many others Fast RTPS has matched it with,
\* however they and the service come and go (PubListener and SubListener of
\* domain_change).
THEOREM MatchesCounted == Spec => []TypeOK
<1>1. ProgramsInv /\ [Next]_vars => ProgramsInv'
    <2> SUFFICES ASSUME ProgramsInv, [Next]_vars, file' = file PROVE ProgramsInv'
        BY FileStays
    <2>1. CASE \E w \in Writer, r \in Reader : Match(w, r) \/ Unmatch(w, r)
        BY <2>1, MatchPrograms, UnmatchPrograms
    <2>2. CASE \E g \in Program : init(g) \/ wait(g) \/ send(g) \/ command(g) \/ stop(g)
        BY <2>2, ProgramSteps
    <2>3. CASE \/ TheMainThread \/ TheUser
               \/ \E c \in C : InCallback(c) \/ Forward(c) \/ ArriveOther(c)
                               \/ \E w \in Writer : Arrive(w, c)
               \/ \E w \in Writer, r \in Reader : Lose(<<w, r>>)
               \/ \E g \in Program, w \in Writer : takeText(w, g)
               \/ UNCHANGED vars
        BY <2>3, OthersStay
    <2> QED
        BY <2>1, <2>2, <2>3 DEF Next
<1>2. ServiceInv /\ ProgramsInv => TypeOK
    BY DEF ServiceInv, ProgramsInv, TypeOK, MatchesOf
<1> QED
    BY <1>1, <1>2, InitPrograms, ServiceInvariance, PTL DEF Spec
===============================================================================
