---------------------------- MODULE DispatchProofs ----------------------------
(***************************************************************************)
(* The inductive invariant of module Dispatch, for every set of readers,   *)
(* writers and names and every wired bridge.                               *)
(***************************************************************************)
EXTENDS Dispatch, TLAPS

-------------------------------------------------------------------------------
(* Where a thread is *)

\* What a copy of an entry is, and the tables of a wired bridge for a reader.
LEMMA ListedTyped ==
    ASSUME NEW S, NEW entry \in Seq(S) \cup {Null}
    PROVE  Listed(entry) \in Seq(S)
BY DEF Listed

LEMMA Wired ==
    ASSUME bridge \in Bridges
    PROVE  /\ bridge.readerName \in [Reader -> Name]
           /\ bridge.mm_functions \in [Name -> Seq(FName) \cup {Null}]
           /\ bridge.mm_dynFunctions \in [Name -> Seq(FName) \cup {Null}]
           /\ bridge.mm_writer \in [Key -> Seq(Writer) \cup {Null}]
BY DispatchAssumption DEF WiredBridge

LEMMA Places ==
    ASSUME bridge \in Bridges, NEW t \in Reader
    PROVE  /\ readerName(t) \in Name
           /\ functionsOf(bridge, t) \in Seq(FName)
           /\ IsInjective(functionsOf(bridge, t))
           /\ \A f \in FName : /\ <<readerName(t), f>> \in Key
                               /\ writersOf(bridge, t, f) \in Seq(Writer)
                               /\ IsInjective(writersOf(bridge, t, f))
<1>1. WiredBridge(bridge)  BY DispatchAssumption
<1>2. readerName(t) \in Name /\ readerName(t) = bridge.readerName[t]
  BY <1>1 DEF WiredBridge, readerName
<1>3. /\ Listed(functionsEntry(bridge, t)) \in Seq(FName)
      /\ IsInjective(Listed(functionsEntry(bridge, t)))
  <2>1. functionsEntry(bridge, t) \in Seq(FName) \cup {Null}
    BY <1>1, <1>2 DEF WiredBridge, functionsEntry
  <2>2. IsInjective(Listed(functionsEntry(bridge, t)))
    BY <1>1, <1>2 DEF WiredBridge, functionsEntry
  <2> QED  BY <2>1, <2>2, ListedTyped
<1>4. <<NoFunction>> \in Seq(FName) /\ IsInjective(<<NoFunction>>)
  BY DispatchAssumption DEF IsInjective
<1>5. functionsOf(bridge, t) \in Seq(FName) /\ IsInjective(functionsOf(bridge, t))
  BY <1>3, <1>4 DEF functionsOf, OrNoFunction
<1>6. ASSUME NEW f \in FName
      PROVE  /\ <<readerName(t), f>> \in Key
             /\ writersOf(bridge, t, f) \in Seq(Writer)
             /\ IsInjective(writersOf(bridge, t, f))
  <2> DEFINE k == <<readerName(t), f>>
  <2>1. k \in Key  BY <1>2 DEF Key
  <2>2. writersOf(bridge, t, f) = Listed(bridge.mm_writer[k])  BY <1>2 DEF writersOf
  <2> HIDE DEF k
  <2>3. bridge.mm_writer[k] \in Seq(Writer) \cup {Null} /\ IsInjective(Listed(bridge.mm_writer[k]))
    BY <1>1, <2>1 DEF WiredBridge
  <2>4. Listed(bridge.mm_writer[k]) \in Seq(Writer)  BY <2>3, ListedTyped
  <2> QED  BY <2>1, <2>2, <2>3, <2>4 DEF k
<1> QED  BY <1>2, <1>5, <1>6

\* What a thread inside a function of its loop refers to.
LEMMA Here ==
    ASSUME TypeOK, NEW t \in Reader
    PROVE  /\ fi[t] \in DOMAIN funcNames[t]
                => /\ fName(t) \in FName
                   /\ keyPub(t) \in Key
                   /\ keyPub(t)[1] = readerName(t) /\ keyPub(t)[2] = fName(t)
           /\ wi[t] \in DOMAIN pubs[t] => pub(t) \in Writer
<1>1. fi[t] \in DOMAIN funcNames[t] => fName(t) \in FName
  BY DEF fName, TypeOK
<1>2. readerName(t) \in Name  BY Places DEF TypeOK
<1>3. wi[t] \in DOMAIN pubs[t] => pub(t) \in Writer  BY DEF pub, TypeOK
<1> QED  BY <1>1, <1>2, <1>3 DEF keyPub, Key

\* A step of one thread leaves the others where they are.
Same(u) ==
    /\ pc'[u] = pc[u] /\ msg'[u] = msg[u] /\ fi'[u] = fi[u] /\ wi'[u] = wi[u]
    /\ funcNames'[u] = funcNames[u] /\ pubs'[u] = pubs[u]
    /\ mutex'[u] = mutex[u] /\ output'[u] = output[u]
    /\ bridge' = bridge

LEMMA OthersStay ==
    ASSUME TypeOK, NEW t \in Reader, Receive(t) \/ Step(t)
    PROVE  bridge' = bridge /\ \A u \in Reader \ {t} : Same(u)
<1> USE DEF TypeOK, Same, Go, tables, threads, lists
<1>1. CASE Receive(t)  BY <1>1 DEF Receive
<1>2. CASE Return(t)  BY <1>2 DEF Return
<1>3. CASE EnterFunction(t)  BY <1>3 DEF EnterFunction
<1>4. CASE FindMutex(t)  BY <1>4 DEF FindMutex
<1>5. CASE NewMutex(t)  BY <1>5 DEF NewMutex
<1>6. CASE Lock(t)  BY <1>6 DEF Lock
<1>7. CASE FindOutput(t)  BY <1>7 DEF FindOutput
<1>8. CASE NewOutput(t)  BY <1>8 DEF NewOutput
<1>9. CASE Transform(t)  BY <1>9 DEF Transform
<1>10. CASE LeaveFunction(t)  BY <1>10 DEF LeaveFunction
<1>11. CASE SkipWriter(t)  BY <1>11 DEF SkipWriter
<1>12. CASE CallWrite(t)  BY <1>12 DEF CallWrite
<1>13. CASE LockBuffer(t)  BY <1>13 DEF LockBuffer
<1>14. CASE Deserialize(t)  BY <1>14 DEF Deserialize
<1>15. CASE Publish(t)  BY <1>15 DEF Publish
<1>16. CASE FindFunctions(t)  BY <1>16 DEF FindFunctions
<1>17. CASE FindWriters(t)  BY <1>17 DEF FindWriters
<1> QED
  BY <1>1, <1>2, <1>3, <1>4, <1>5, <1>6, <1>7, <1>8, <1>9, <1>10, <1>11, <1>12,
     <1>13, <1>14, <1>15, <1>16, <1>17 DEF Step

\* What depends on the bridge alone, on the position in funcNames, and on both
\* positions.
LEMMA SameReader ==
    ASSUME bridge' = bridge, NEW u
    PROVE  /\ readerName(u)' = readerName(u)
           /\ functionsOf(bridge, u)' = functionsOf(bridge, u)
           /\ \A f : writersOf(bridge, u, f)' = writersOf(bridge, u, f)
           /\ IsDynamic(u)' <=> IsDynamic(u)
           /\ NoFunctions(u)' = NoFunctions(u)
BY DEF readerName, functionsOf, functionsEntry, writersOf, IsDynamic, NoFunctions, OrNoFunction

LEMMA SameFunction ==
    ASSUME bridge' = bridge, NEW u, fi'[u] = fi[u], funcNames'[u] = funcNames[u]
    PROVE  /\ fName(u)' = fName(u) /\ keyPub(u)' = keyPub(u)
           /\ Transforms(u)' <=> Transforms(u)
<1>1. fName(u)' = fName(u)  BY DEF fName
<1> QED  BY <1>1, SameReader DEF keyPub, Transforms

LEMMA SameWriter ==
    ASSUME bridge' = bridge, NEW u, fi'[u] = fi[u], wi'[u] = wi[u],
           funcNames'[u] = funcNames[u], pubs'[u] = pubs[u]
    PROVE  /\ pub(u)' = pub(u)
           /\ Direct(u)' <=> Direct(u)
           /\ WrongKind(u)' <=> WrongKind(u)
<1>1. pub(u)' = pub(u)  BY DEF pub
<1> QED  BY <1>1, SameReader, SameFunction DEF Direct, WrongKind

\* The steps that copy a list, and the others, which keep the lists they are at.
LEMMA ListsKept ==
    ASSUME TypeOK, NEW t \in Reader, Receive(t) \/ Step(t)
    PROVE  /\ ~FindFunctions(t) => funcNames' = funcNames
           /\ ~FindWriters(t) => pubs' = pubs
           /\ ~FindFunctions(t) /\ ~FindWriters(t) => UNCHANGED routes
BY DEF Step, Receive, FindFunctions, Return, EnterFunction, FindMutex, NewMutex, Lock, FindOutput,
    NewOutput, Transform, FindWriters, LeaveFunction, SkipWriter, CallWrite, LockBuffer,
    Deserialize, Publish, lists, tables, routes

LEMMA FindsFunctions ==
    ASSUME TypeOK, NEW t \in Reader, FindFunctions(t)
    PROVE  /\ pc[t] = "findFunctions" /\ pc'[t] = "functions"
           /\ pc' = [pc EXCEPT ![t] = "functions"]
           /\ UNCHANGED <<msg, pubs, fi, wi, mutex, output, mm_writer, mm_mutex, mm_staticPayload,
                          mm_dynamicData, locks, data, ends, m_bTerminating>>
BY DEF FindFunctions, At, Go, TypeOK

LEMMA FindsWriters ==
    ASSUME TypeOK, NEW t \in Reader, FindWriters(t)
    PROVE  /\ pc[t] = "findWriters" /\ pc'[t] = "writers"
           /\ pc' = [pc EXCEPT ![t] = "writers"]
           /\ UNCHANGED <<msg, funcNames, fi, wi, mutex, output, mm_functions, mm_dynFunctions,
                          mm_mutex, mm_staticPayload, mm_dynamicData, locks, data, ends,
                          m_bTerminating>>
BY DEF FindWriters, At, Go, TypeOK

\* A thread comes to its functions and to its writers by these steps alone.
LEMMA Arrives ==
    ASSUME TypeOK, NEW t \in Reader, Receive(t) \/ Step(t), ~FindFunctions(t), ~FindWriters(t)
    PROVE  /\ pc[t] \in {"idle", "findFunctions"} => pc'[t] \in {"idle", "findFunctions"}
           /\ InFunction(t)' /\ ~BeforeWriters(t)'
                  => InFunction(t) /\ ~BeforeWriters(t) /\ fi'[t] = fi[t]
<1>1. IsDynamic(t)' <=> IsDynamic(t)  BY OthersStay, SameReader
<1> USE <1>1 DEF At, Go, TypeOK, InFunction, BeforeWriters, Makes
<1>2. CASE Receive(t)  BY <1>2 DEF Receive
<1>3. CASE Return(t)  BY <1>3 DEF Return
<1>4. CASE EnterFunction(t)  BY <1>4 DEF EnterFunction, AtFunction
<1>5. CASE FindMutex(t)  BY <1>5 DEF FindMutex
<1>6. CASE NewMutex(t)  BY <1>6 DEF NewMutex
<1>7. CASE Lock(t)  BY <1>7 DEF Lock
<1>8. CASE FindOutput(t)  BY <1>8 DEF FindOutput
<1>9. CASE NewOutput(t)  BY <1>9 DEF NewOutput
<1>10. CASE Transform(t)  BY <1>10 DEF Transform
<1>11. CASE LeaveFunction(t)  BY <1>11 DEF LeaveFunction
<1>12. CASE SkipWriter(t)  BY <1>12 DEF SkipWriter
<1>13. CASE CallWrite(t)  BY <1>13 DEF CallWrite
<1>14. CASE LockBuffer(t)  BY <1>14 DEF LockBuffer
<1>15. CASE Deserialize(t)  BY <1>15 DEF Deserialize
<1>16. CASE Publish(t)  BY <1>16 DEF Publish
<1> QED
  BY <1>2, <1>3, <1>4, <1>5, <1>6, <1>7, <1>8, <1>9, <1>10, <1>11, <1>12, <1>13,
     <1>14, <1>15, <1>16 DEF Step

LEMMA SameThread ==
    ASSUME NEW u, Same(u)
    PROVE  /\ InFunction(u)' <=> InFunction(u)
           /\ AtRoute(u)' <=> AtRoute(u)
           /\ BeforeWriters(u)' <=> BeforeWriters(u)
           /\ Given(u)' <=> Given(u)
           /\ Holds(u)' <=> Holds(u)
           /\ InBuffer(u)' <=> InBuffer(u)
           /\ Own(u)' = Own(u)
<1> USE DEF Same
<1>1. /\ InFunction(u)' <=> InFunction(u)
      /\ AtRoute(u)' <=> AtRoute(u)
      /\ BeforeWriters(u)' <=> BeforeWriters(u)
  BY SameReader DEF InFunction, AtRoute, BeforeWriters
<1>2. Given(u)' <=> Given(u)  BY SameReader, SameFunction DEF Given
<1>3. Holds(u)' <=> Holds(u)  BY <1>2 DEF Holds
<1>4. InBuffer(u)' <=> InBuffer(u)  BY SameWriter DEF InBuffer
<1>5. Own(u)' = Own(u)  BY SameFunction DEF Own, Form
<1> QED  BY <1>1, <1>2, <1>3, <1>4, <1>5

-------------------------------------------------------------------------------
(* Positions and locks *)

LEMMA SameLocated ==
    ASSUME NEW u, Same(u), LocatedAt(u)
    PROVE  LocatedAt(u)'
BY SameReader, SameFunction, SameWriter, SameThread DEF Same, LocatedAt

LEMMA LocatedKept ==
    ASSUME TypeOK, NEW t \in Reader, LocatedAt(t), Receive(t) \/ Step(t)
    PROVE  LocatedAt(t)'
<1> USE DEF TypeOK, Go, At, LocatedAt, InFunction, AtRoute, BeforeWriters, Writes, Makes
<1>1. bridge' = bridge  BY OthersStay
<1>2. IsDynamic(t)' <=> IsDynamic(t)  BY <1>1, SameReader
<1>3. /\ ~FindFunctions(t) => funcNames' = funcNames
      /\ ~FindWriters(t) => pubs' = pubs
      /\ funcNames[t] \in Seq(FName)
  BY ListsKept
<1>4. CASE Receive(t)  BY <1>4 DEF Receive
<1>5. CASE Return(t)  BY <1>5 DEF Return
<1>6. CASE EnterFunction(t)
  <2>1. funcNames' = funcNames  BY <1>6 DEF EnterFunction, lists
  <2>2. Transforms(t)' <=> Transforms(t)  BY <1>1, <1>6, <2>1, SameFunction DEF EnterFunction
  <2> QED  BY <1>2, <1>3, <1>6, <2>1, <2>2 DEF EnterFunction, AtFunction
<1>7. CASE FindMutex(t) \/ NewMutex(t) \/ Lock(t) \/ FindOutput(t) \/ NewOutput(t)
           \/ Transform(t) \/ CallWrite(t) \/ LockBuffer(t) \/ Deserialize(t)
  <2>1. fi' = fi /\ wi' = wi /\ UNCHANGED lists
    BY <1>7 DEF FindMutex, NewMutex, Lock, FindOutput, NewOutput, Transform, CallWrite,
        LockBuffer, Deserialize
  <2>2. /\ funcNames' = funcNames /\ pubs' = pubs
        /\ Transforms(t)' <=> Transforms(t)
        /\ Direct(t)' <=> Direct(t)
        /\ WrongKind(t)' <=> WrongKind(t)
    BY <1>1, <2>1, SameFunction, SameWriter DEF lists
  <2> USE <1>2, <1>3, <2>1, <2>2
  <2>3. CASE FindMutex(t)  BY <2>3 DEF FindMutex
  <2>4. CASE NewMutex(t)  BY <2>4 DEF NewMutex
  <2>5. CASE Lock(t)  BY <2>5 DEF Lock
  <2>6. CASE FindOutput(t)  BY <2>6 DEF FindOutput
  <2>7. CASE NewOutput(t)  BY <2>7 DEF NewOutput
  <2>8. CASE Transform(t)  BY <2>8 DEF Transform
  <2>9. CASE CallWrite(t)
    <3>1. wi[t] \in DOMAIN pubs[t]  BY <2>9, Here DEF CallWrite
    <3> QED  BY <2>9, <3>1 DEF CallWrite, AtWriter, Skipped, Direct
  <2>10. CASE LockBuffer(t)  BY <2>10 DEF LockBuffer
  <2>11. CASE Deserialize(t)  BY <2>11 DEF Deserialize
  <2> QED  BY <1>7, <2>3, <2>4, <2>5, <2>6, <2>7, <2>8, <2>9, <2>10, <2>11
<1>8. CASE LeaveFunction(t)  BY <1>8 DEF LeaveFunction
<1>9. CASE SkipWriter(t) \/ Publish(t) \/ FindWriters(t)
  <2>1. /\ pc'[t] = "writers" /\ fi' = fi /\ funcNames' = funcNames
        /\ pc[t] \in {"findWriters", "writers", "publish"}
    BY <1>9 DEF SkipWriter, Publish, FindWriters, lists
  <2> QED  BY <1>3, <2>1
<1>10. CASE FindFunctions(t)  BY <1>10, FindsFunctions
<1> QED
  BY <1>4, <1>5, <1>6, <1>7, <1>8, <1>9, <1>10 DEF Step

\* A message leaves a writer after its onTerminate only from a thread that was
\* already past the check, and that thread is stopped by the next check.
LEMMA LateKept ==
    ASSUME TypeOK, NEW t \in Reader, LocatedAt(t), LateSoFar, Receive(t) \/ Step(t)
    PROVE  LateSoFar'
<1> SUFFICES ASSUME NEW w \in Writer, NEW u \in Reader
             PROVE  /\ late'[w][u] <= 1
                    /\ late'[w][u] # 0 => w \in m_bTerminating'
                    /\ AtRoute(u)' /\ pub(u)' = w => late'[w][u] = 0
  BY DEF LateSoFar
<1>1. bridge' = bridge /\ (u # t => Same(u))  BY OthersStay
<1>2. u # t => (AtRoute(u)' <=> AtRoute(u)) /\ pub(u)' = pub(u)
  BY <1>1, SameThread, SameWriter DEF Same
<1>3. /\ late[w][u] <= 1
      /\ late[w][u] # 0 => w \in m_bTerminating
      /\ AtRoute(u) /\ pub(u) = w => late[w][u] = 0
  BY DEF LateSoFar
<1>4. CASE Publish(t)
  <2>1. AtRoute(t) /\ ~AtRoute(t)'
    BY <1>4 DEF Publish, AtRoute, At, Go, Writes, Makes, TypeOK
  <2>2. m_bTerminating' = m_bTerminating
    BY <1>4 DEF Publish
  <2>3. CASE pub(t) = w /\ u = t /\ w \in m_bTerminating
    <3>1. late[w][u] = 0  BY <1>3, <2>1, <2>3
    <3>2. late'[w][u] = 1  BY <1>4, <2>3, <3>1 DEF Publish, TypeOK
    <3> QED  BY <2>1, <2>2, <2>3, <3>2
  <2>4. CASE ~(pub(t) = w /\ u = t /\ w \in m_bTerminating)
    <3>1. late'[w][u] = late[w][u]  BY <1>4, <2>4 DEF Publish, TypeOK
    <3> QED  BY <1>2, <1>3, <2>1, <2>2, <3>1
  <2> QED  BY <2>3, <2>4
<1>5. CASE CallWrite(t)
  <2>1. late' = late /\ m_bTerminating' = m_bTerminating
    BY <1>5 DEF CallWrite, ends
  <2>2. pub(t)' = pub(t)  BY <1>1, <1>5, SameWriter DEF CallWrite, lists
  <2>3. pub(t) \notin m_bTerminating  BY <1>5 DEF CallWrite, Skipped
  <2> QED  BY <1>2, <1>3, <2>1, <2>2, <2>3
<1>6. CASE ~Publish(t) /\ ~CallWrite(t)
  <2>1. late' = late /\ m_bTerminating' = m_bTerminating
    BY <1>6 DEF Step, FindFunctions, FindWriters, Receive, Return, EnterFunction, FindMutex,
        NewMutex, Lock, FindOutput, NewOutput, Transform, LeaveFunction, SkipWriter, LockBuffer,
        Deserialize, ends
  <2>2. AtRoute(t)' => /\ AtRoute(t) /\ fi'[t] = fi[t] /\ wi'[t] = wi[t]
                       /\ funcNames'[t] = funcNames[t] /\ pubs'[t] = pubs[t]
    <3> USE <1>1, <1>6, SameReader DEF AtRoute, At, Go, Writes, Makes, TypeOK, lists
    <3>1. CASE Receive(t) \/ Return(t) \/ LeaveFunction(t) \/ SkipWriter(t)
      BY <3>1 DEF Receive, Return, LeaveFunction, SkipWriter
    <3>2. CASE EnterFunction(t)  BY <3>2 DEF EnterFunction, AtFunction
    <3>3. CASE FindMutex(t) \/ NewMutex(t) \/ Lock(t) \/ FindOutput(t) \/ NewOutput(t)
      BY <3>3 DEF FindMutex, NewMutex, Lock, FindOutput, NewOutput
    <3>4. CASE Transform(t)  BY <3>4 DEF Transform
    <3>5. CASE LockBuffer(t) \/ Deserialize(t)  BY <3>5 DEF LockBuffer, Deserialize
    <3>6. CASE FindFunctions(t) \/ FindWriters(t)  BY <3>6, FindsFunctions, FindsWriters
    <3> QED  BY <3>1, <3>2, <3>3, <3>4, <3>5, <3>6 DEF Step
  <2>3. AtRoute(t)' => pub(t)' = pub(t)  BY <1>1, <2>2, SameWriter
  <2> QED  BY <1>2, <1>3, <2>1, <2>2, <2>3
<1> QED  BY <1>4, <1>5, <1>6

\* What write is given has been made.
LEMMA GivesData ==
    ASSUME TypeOK, NEW t \in Reader, LocatedAt(t), LockedAt(t), pc[t] \in {"deserialize", "publish"}
    PROVE  /\ pub(t) \in Writer
           /\ given(t) \in Datum
           /\ InBuffer(t) => m_buffer[pub(t)] \in Datum
           /\ Transforms(t) => Given(t)
<1>1. fi[t] \in DOMAIN funcNames[t] /\ wi[t] \in DOMAIN pubs[t]
  BY DEF LocatedAt, InFunction, AtRoute, Writes
<1>2. pub(t) \in Writer /\ fName(t) \in FName  BY <1>1, Here
<1>3. pc[t] = "deserialize" => ~IsDynamic(t)  BY DEF LocatedAt, Direct
<1>4. Transforms(t) => Given(t)  BY <1>3 DEF Given, Writes
<1>5. [from |-> t, num |-> msg[t], form |-> NoFunction] \in Datum
  BY DispatchAssumption DEF TypeOK, Datum
<1>6. given(t) \in Datum  BY <1>4, <1>5 DEF given, LockedAt
<1> QED  BY <1>2, <1>4, <1>6 DEF LockedAt

LEMMA SentTyped ==
    ASSUME NEW s \in [Writer -> [Reader -> [FName -> Seq(Nat)]]],
           NEW w \in Writer, NEW r \in Reader, NEW f \in FName, NEW n \in Nat
    PROVE  [s EXCEPT ![w][r][f] = Append(@, n)] \in [Writer -> [Reader -> [FName -> Seq(Nat)]]]
<1>1. Append(s[w][r][f], n) \in Seq(Nat)  OBVIOUS
<1>2. [s[w][r] EXCEPT ![f] = Append(s[w][r][f], n)] \in [FName -> Seq(Nat)]  BY <1>1
<1>3. [s[w] EXCEPT ![r] = [s[w][r] EXCEPT ![f] = Append(s[w][r][f], n)]]
        \in [Reader -> [FName -> Seq(Nat)]]
  BY <1>2
<1> QED  BY <1>3

LEMMA LateTyped ==
    ASSUME TypeOK, NEW t \in Reader, pub(t) \in Writer, Publish(t)
    PROVE  late' \in [Writer -> [Reader -> Nat]]
<1> DEFINE w == pub(t)
<1>1. late \in [Writer -> [Reader -> Nat]]  BY DEF TypeOK
<1>2. late' = late \/ late' = [late EXCEPT ![w][t] = @ + 1]  BY DEF Publish
<1> HIDE DEF w
<1>3. w \in Writer  BY DEF w
<1>4. [late[w] EXCEPT ![t] = late[w][t] + 1] \in [Reader -> Nat]  BY <1>1, <1>3
<1> QED  BY <1>1, <1>2, <1>3, <1>4

LEMMA InsertedTyped ==
    ASSUME NEW D, NEW S, NEW table \in [D -> Seq(S) \cup {Null}], NEW d
    PROVE  [table EXCEPT ![d] = <<>>] \in [D -> Seq(S) \cup {Null}]
<1>1. <<>> \in Seq(S)  OBVIOUS
<1> QED  BY <1>1

\* The routing tables after a look-up.
LEMMA RoutesTyped ==
    ASSUME TypeOK, NEW t \in Reader
    PROVE  /\ FindFunctions(t) => /\ mm_functions' \in [Name -> Seq(FName) \cup {Null}]
                                  /\ mm_dynFunctions' \in [Name -> Seq(FName) \cup {Null}]
           /\ FindWriters(t) => mm_writer' \in [Key -> Seq(Writer) \cup {Null}]
<1> DEFINE name == readerName(t)
           key == keyPub(t)
<1>1. /\ mm_functions \in [Name -> Seq(FName) \cup {Null}]
      /\ mm_dynFunctions \in [Name -> Seq(FName) \cup {Null}]
      /\ mm_writer \in [Key -> Seq(Writer) \cup {Null}]
  BY DEF TypeOK
<1>2. /\ FindFunctions(t) =>
            /\ mm_functions' = mm_functions \/ mm_functions' = [mm_functions EXCEPT ![name] = <<>>]
            /\ \/ mm_dynFunctions' = mm_dynFunctions
               \/ mm_dynFunctions' = [mm_dynFunctions EXCEPT ![name] = <<>>]
      /\ FindWriters(t) =>
            mm_writer' = mm_writer \/ mm_writer' = [mm_writer EXCEPT ![key] = <<>>]
  BY DEF FindFunctions, FindWriters
<1>3. /\ [mm_functions EXCEPT ![name] = <<>>] \in [Name -> Seq(FName) \cup {Null}]
      /\ [mm_dynFunctions EXCEPT ![name] = <<>>] \in [Name -> Seq(FName) \cup {Null}]
      /\ [mm_writer EXCEPT ![key] = <<>>] \in [Key -> Seq(Writer) \cup {Null}]
  BY <1>1, InsertedTyped
<1> HIDE DEF name, key
<1> QED  BY <1>1, <1>2, <1>3

LEMMA TypesKept ==
    ASSUME TypeOK, NEW t \in Reader, LocatedAt(t), LockedAt(t), Receive(t) \/ Step(t)
    PROVE  TypeOK'
<1> USE DEF TypeOK, Go, At, lists, routes, threads, tables, locks, data, ends
<1>1. InFunction(t) => fName(t) \in FName /\ keyPub(t) \in Key
  BY Here DEF LocatedAt
<1>2. CASE Receive(t)  BY <1>2 DEF Receive
<1>3. CASE Return(t)  BY <1>3 DEF Return
<1>4. CASE EnterFunction(t)  BY <1>4 DEF EnterFunction, AtFunction
<1>5. CASE FindMutex(t)
  <2>1. mm_mutex[keyPub(t)] \in Object \cup {Null}
    BY <1>1, <1>5 DEF FindMutex, InFunction
  <2>2. PICK m \in Object \cup {Null} : mutex' = [mutex EXCEPT ![t] = m]
    BY <1>5, <2>1 DEF FindMutex
  <2>3. mutex' \in [Reader -> Object \cup {Null}]  BY <2>2
  <2> QED  BY <1>5, <2>3 DEF FindMutex
<1>6. CASE NewMutex(t)
  <2>1. <<keyPub(t), t>> \in Object  BY <1>1, <1>6 DEF NewMutex, InFunction, Object
  <2> QED  BY <1>6, <2>1 DEF NewMutex
<1>7. CASE Lock(t)  BY <1>7 DEF Lock
<1>8. CASE FindOutput(t)
  <2>1. outputs(t)[keyPub(t)] \in Object \cup {Null}
    BY <1>1, <1>8 DEF FindOutput, InFunction, outputs
  <2> QED  BY <1>8, <2>1 DEF FindOutput
<1>9. CASE NewOutput(t)
  <2>1. <<keyPub(t), t>> \in Object  BY <1>1, <1>9 DEF NewOutput, InFunction, Object
  <2> QED  BY <1>9, <2>1 DEF NewOutput, Insert
<1>10. CASE Transform(t)
  <2>1. [from |-> t, num |-> msg[t], form |-> fName(t)] \in Datum
    BY <1>1, <1>10 DEF Transform, InFunction, Datum
  <2> QED  BY <1>10, <2>1 DEF Transform
<1>11. CASE LeaveFunction(t)
  <2>1. owner' \in [Object -> Reader \cup {Null}]  BY <1>11 DEF LeaveFunction, Unlock
  <2>2. fi' \in [Reader -> Nat \ {0}] /\ pc' = [pc EXCEPT ![t] = "functions"]
    BY <1>11 DEF LeaveFunction
  <2> QED  BY <1>11, <2>1, <2>2 DEF LeaveFunction
<1>12. CASE SkipWriter(t)  BY <1>12 DEF SkipWriter
<1>13. CASE CallWrite(t)  BY <1>13 DEF CallWrite, AtWriter
<1>14. CASE LockBuffer(t)  BY <1>14 DEF LockBuffer
<1>15. CASE Deserialize(t)  BY <1>15, GivesData DEF Deserialize
<1>16. CASE Publish(t)
  <2> DEFINE w == pub(t)
             d == IF Direct(t) THEN given(t) ELSE m_buffer[w]
  <2>1. d \in Datum  BY <1>16, GivesData DEF Publish, InBuffer
  <2>2. sent' = [sent EXCEPT ![w][d.from][d.form] = Append(@, d.num)]  BY <1>16 DEF Publish
  <2> HIDE DEF w, d
  <2>3. d.from \in Reader /\ d.form \in FName /\ d.num \in Nat  BY <2>1 DEF Datum
  <2>4. w \in Writer  BY <1>16, GivesData DEF Publish, w
  <2>5. sent' \in [Writer -> [Reader -> [FName -> Seq(Nat)]]]
    BY <2>2, <2>3, <2>4, SentTyped
  <2>6. late' \in [Writer -> [Reader -> Nat]]
    <3>1. pub(t) \in Writer  BY <2>4 DEF w
    <3> QED  BY <1>16, <3>1, LateTyped
  <2>7. owner' \in [Object -> Reader \cup {Null}]  BY <1>16 DEF Publish, Unlock
  <2>8. m_bufferMutex' \in [Writer -> Reader \cup {Null}]  BY <1>16 DEF Publish
  <2>9. wi' \in [Reader -> Nat \ {0}] /\ pc' = [pc EXCEPT ![t] = "writers"]
    BY <1>16 DEF Publish
  <2> QED  BY <1>16, <2>5, <2>6, <2>7, <2>8, <2>9 DEF Publish
<1>17. CASE FindFunctions(t)
  <2> DEFINE Entry == Seq(FName) \cup {Null}
  <2>1. readerName(t) \in Name  BY Places
  <2>2. PICK entry \in Entry :
            funcNames' = [funcNames EXCEPT ![t] = OrNoFunction(IsDynamic(t), Listed(entry))]
    BY <1>17, <2>1 DEF FindFunctions, functions
  <2>3. OrNoFunction(IsDynamic(t), Listed(entry)) \in Seq(FName)
    <3>1. Listed(entry) \in Seq(FName) /\ <<NoFunction>> \in Seq(FName)
      BY ListedTyped, DispatchAssumption
    <3> QED  BY <3>1 DEF OrNoFunction
  <2>4. funcNames' \in [Reader -> Seq(FName)]  BY <2>2, <2>3
  <2>5. mm_functions' \in [Name -> Entry] /\ mm_dynFunctions' \in [Name -> Entry]
    BY <1>17, RoutesTyped
  <2>6. /\ pc' = [pc EXCEPT ![t] = "functions"] /\ bridge' = bridge
        /\ UNCHANGED <<msg, pubs, fi, wi, mutex, output, mm_writer, mm_mutex, mm_staticPayload,
                       mm_dynamicData, owner, m_bufferMutex, payload, m_buffer, sent, late,
                       m_bTerminating>>
    BY <1>17, FindsFunctions, OthersStay
  <2> QED  BY <2>4, <2>5, <2>6
<1>18. CASE FindWriters(t)
  <2> DEFINE Entry == Seq(Writer) \cup {Null}
  <2>1. keyPub(t) \in Key  BY <1>1, <1>18 DEF FindWriters, InFunction
  <2>2. PICK entry \in Entry : pubs' = [pubs EXCEPT ![t] = Listed(entry)]
    BY <1>18, <2>1 DEF FindWriters
  <2>3. pubs' \in [Reader -> Seq(Writer)]  BY <2>2, ListedTyped
  <2>4. mm_writer' \in [Key -> Entry]
    BY <1>18, RoutesTyped
  <2>5. /\ pc' = [pc EXCEPT ![t] = "writers"] /\ bridge' = bridge
        /\ UNCHANGED <<msg, funcNames, fi, wi, mutex, output, mm_functions, mm_dynFunctions,
                       mm_mutex, mm_staticPayload, mm_dynamicData, owner, m_bufferMutex, payload,
                       m_buffer, sent, late, m_bTerminating>>
    BY <1>18, FindsWriters, OthersStay
  <2> QED  BY <2>3, <2>4, <2>5
<1> QED
  BY <1>2, <1>3, <1>4, <1>5, <1>6, <1>7, <1>8, <1>9, <1>10, <1>11, <1>12, <1>13,
     <1>14, <1>15, <1>16, <1>17, <1>18 DEF Step

LEMMA TablesKept ==
    ASSUME TypeOK, NEW t \in Reader, LocatedAt(t), Tables, Receive(t) \/ Step(t)
    PROVE  Tables'
<1> USE DEF Tables
<1>1. CASE NewMutex(t)  BY <1>1 DEF NewMutex, TypeOK
<1>2. CASE NewOutput(t)  BY <1>2 DEF NewOutput, Insert, TypeOK
<1>3. CASE ~NewMutex(t) /\ ~NewOutput(t)
  <2>1. UNCHANGED <<mm_mutex, mm_staticPayload, mm_dynamicData>>
    BY <1>3 DEF Step, FindFunctions, FindWriters, Receive, Return, EnterFunction, FindMutex,
        Lock, FindOutput, Transform, LeaveFunction, SkipWriter, CallWrite, LockBuffer,
        Deserialize, Publish, tables
  <2> QED  BY <2>1
<1> QED  BY <1>1, <1>2, <1>3

\* A mutex changes hands only through its owner.
LEMMA OwnersChange ==
    ASSUME TypeOK, NEW t \in Reader, LocatedAt(t), LockedAt(t), Receive(t) \/ Step(t)
    PROVE  \/ owner' = owner
           \/ /\ pc[t] = "lock" /\ owner[mutex[t]] = Null
              /\ owner' = [owner EXCEPT ![mutex[t]] = t]
           \/ /\ owner[mutex[t]] = t
              /\ owner' = [owner EXCEPT ![mutex[t]] = Null]
<1>1. CASE Lock(t)  BY <1>1 DEF Lock, At
<1>2. CASE LeaveFunction(t)
  <2>1. ~IsDynamic(t) /\ Transforms(t) => owner[mutex[t]] = t
    BY <1>2 DEF LeaveFunction, At, LockedAt, Holds, Given
  <2> QED  BY <1>2, <2>1 DEF LeaveFunction, Unlock
<1>3. CASE Publish(t)
  <2>1. IsDynamic(t) /\ Transforms(t) => owner[mutex[t]] = t
    BY <1>3 DEF Publish, At, LockedAt, Holds, Given
  <2> QED  BY <1>3, <2>1 DEF Publish, Unlock
<1>4. CASE ~Lock(t) /\ ~LeaveFunction(t) /\ ~Publish(t)
  BY <1>4 DEF Step, FindFunctions, FindWriters, Receive, Return, EnterFunction, FindMutex,
      NewMutex, FindOutput, NewOutput, Transform, SkipWriter, CallWrite, LockBuffer, Deserialize,
      locks
<1> QED  BY <1>1, <1>2, <1>3, <1>4

LEMMA BuffersChange ==
    ASSUME TypeOK, NEW t \in Reader, LocatedAt(t), LockedAt(t), Receive(t) \/ Step(t)
    PROVE  /\ \/ m_bufferMutex' = m_bufferMutex
              \/ /\ m_bufferMutex[pub(t)] = Null
                 /\ m_bufferMutex' = [m_bufferMutex EXCEPT ![pub(t)] = t]
              \/ /\ m_bufferMutex[pub(t)] = t
                 /\ m_bufferMutex' = [m_bufferMutex EXCEPT ![pub(t)] = Null]
           /\ \/ m_buffer' = m_buffer
              \/ /\ m_bufferMutex[pub(t)] = t
                 /\ m_buffer' = [m_buffer EXCEPT ![pub(t)] = given(t)]
                 /\ given(t) \in Datum
           /\ \/ payload' = payload
              \/ /\ pc[t] = "transform"
                 /\ payload' = [payload EXCEPT ![output[t]] =
                                    [from |-> t, num |-> msg[t], form |-> fName(t)]]
                 /\ [from |-> t, num |-> msg[t], form |-> fName(t)] \in Datum
<1> USE DEF At, locks, data
<1>1. CASE LockBuffer(t)  BY <1>1 DEF LockBuffer
<1>2. CASE Publish(t)  BY <1>2 DEF Publish, LockedAt, InBuffer
<1>3. CASE Deserialize(t)  BY <1>3, GivesData DEF Deserialize, LockedAt
<1>4. CASE Transform(t)
  <2>1. fName(t) \in FName  BY <1>4, Here DEF Transform, LocatedAt, InFunction
  <2> QED  BY <1>4, <2>1 DEF Transform, Datum, TypeOK
<1>5. CASE ~LockBuffer(t) /\ ~Publish(t) /\ ~Deserialize(t) /\ ~Transform(t)
  BY <1>5 DEF Step, FindFunctions, FindWriters, Receive, Return, EnterFunction, FindMutex,
      NewMutex, Lock, FindOutput, NewOutput, LeaveFunction, SkipWriter, CallWrite
<1> QED  BY <1>1, <1>2, <1>3, <1>4, <1>5

LEMMA SameLocked ==
    ASSUME TypeOK, NEW t \in Reader, LocatedAt(t), LockedAt(t), Receive(t) \/ Step(t),
           NEW u \in Reader \ {t}, LocatedAt(u), LockedAt(u)
    PROVE  LockedAt(u)'
<1>1. Same(u) /\ bridge' = bridge  BY OthersStay
<1>2. keyPub(u)' = keyPub(u) /\ pub(u)' = pub(u)  BY <1>1, SameFunction, SameWriter DEF Same
<1>3. /\ Given(u)' <=> Given(u)
      /\ Holds(u)' <=> Holds(u)
      /\ InBuffer(u)' <=> InBuffer(u)
  BY <1>1, SameThread
<1>4. pc[u] = "deserialize" \/ InBuffer(u) => pub(u) \in Writer
  BY GivesData DEF InBuffer
<1>5. Null \notin Reader  BY DispatchAssumption
<1>6. Holds(u) => owner'[mutex[u]] = u
  BY <1>5, OwnersChange DEF LockedAt, TypeOK
<1>7. /\ pc[u] = "deserialize" \/ InBuffer(u) => m_bufferMutex'[pub(u)] = u
      /\ InBuffer(u) => m_buffer'[pub(u)] \in Datum
  <2>1. pc[u] = "deserialize" \/ InBuffer(u) => m_bufferMutex[pub(u)] = u
    BY DEF LockedAt
  <2>2. InBuffer(u) => m_buffer[pub(u)] \in Datum  BY DEF LockedAt
  <2>3. \/ m_bufferMutex' = m_bufferMutex
        \/ /\ m_bufferMutex[pub(t)] \in {t, Null}
           /\ m_bufferMutex' = [m_bufferMutex EXCEPT ![pub(t)] = t]
        \/ /\ m_bufferMutex[pub(t)] \in {t, Null}
           /\ m_bufferMutex' = [m_bufferMutex EXCEPT ![pub(t)] = Null]
    BY BuffersChange
  <2>4. pc[u] = "deserialize" \/ InBuffer(u) => m_bufferMutex'[pub(u)] = u
    BY <1>4, <1>5, <2>1, <2>3 DEF TypeOK
  <2>5. InBuffer(u) => m_buffer'[pub(u)] \in Datum
    BY <1>4, <2>1, <2>2, BuffersChange DEF TypeOK
  <2> QED  BY <2>4, <2>5
<1>8. Given(u) => payload'[output[u]] \in Datum
  BY BuffersChange DEF LockedAt, TypeOK
<1> QED  BY <1>1, <1>2, <1>3, <1>6, <1>7, <1>8 DEF LockedAt, Same

LEMMA LockedKept ==
    ASSUME TypeOK, Tables, NEW t \in Reader, LocatedAt(t), LockedAt(t), Receive(t) \/ Step(t)
    PROVE  LockedAt(t)'
<1>1. bridge' = bridge  BY OthersStay
<1>2. /\ IsDynamic(t)' <=> IsDynamic(t)
      /\ InFunction(t) => keyPub(t) \in Key
  BY <1>1, SameReader, Here DEF LocatedAt
<1>3. CASE Receive(t) \/ FindFunctions(t) \/ Return(t) \/ LeaveFunction(t)
  <2>1. pc'[t] \in {"findFunctions", "functions", "idle"}
    BY <1>3, FindsFunctions DEF Receive, Return, LeaveFunction, Go, TypeOK
  <2>2. ~Holds(t)' /\ ~Given(t)' /\ ~InBuffer(t)'
    BY <2>1, <1>2 DEF Holds, Given, InBuffer, Writes
  <2> QED  BY <2>1, <2>2 DEF LockedAt
<1>4. CASE ~(Receive(t) \/ FindFunctions(t) \/ Return(t) \/ LeaveFunction(t))
  <2>1. fi' = fi /\ funcNames' = funcNames
    BY <1>4, ListsKept DEF Step, FindWriters, EnterFunction, FindMutex, NewMutex, Lock,
        FindOutput, NewOutput, Transform, SkipWriter, CallWrite, LockBuffer, Deserialize, Publish
  <2>2. keyPub(t)' = keyPub(t) /\ (Transforms(t)' <=> Transforms(t))
    BY <1>1, <2>1, SameFunction
  <2>3. wi' = wi /\ pubs' = pubs => pub(t)' = pub(t) /\ (Direct(t)' <=> Direct(t))
    BY <1>1, <2>1, SameWriter
  <2> USE <1>2, <2>1, <2>2, <2>3
        DEF LockedAt, Holds, Given, InBuffer, Writes, At, Go, TypeOK, lists, tables, locks, data
  <2>4. CASE EnterFunction(t)
    <3>1. pc'[t] \in {"findMutex", "findWriters"}
          /\ (pc'[t] = "findWriters" => ~(Transforms(t) /\ ~IsDynamic(t)))
      BY <2>4 DEF EnterFunction, AtFunction
    <3> QED  BY <3>1
  <2>5. CASE FindMutex(t)
    <3>1. PICK m \in {mm_mutex[keyPub(t)], Null} :
              mutex' = [mutex EXCEPT ![t] = m] /\ Go(t, IF m = Null THEN "newMutex" ELSE "lock")
      BY <2>5 DEF FindMutex
    <3>2. m # Null => m \in Object /\ m[1] = keyPub(t)
      BY <2>5, <3>1 DEF FindMutex, InFunction, Tables
    <3> QED  BY <3>1, <3>2
  <2>6. CASE NewMutex(t)
    <3>1. <<keyPub(t), t>> \in Object  BY <2>6 DEF NewMutex, InFunction, Object
    <3>2. mutex'[t] = <<keyPub(t), t>> /\ pc'[t] = "lock"  BY <2>6 DEF NewMutex
    <3> QED  BY <3>1, <3>2
  <2>7. CASE Lock(t)
    <3>1. mutex[t] \in Object /\ mutex[t][1] = keyPub(t)  BY <2>7 DEF Lock
    <3>2. owner'[mutex[t]] = t /\ mutex' = mutex /\ pc'[t] = "findOutput"
      BY <2>7, <3>1 DEF Lock
    <3> QED  BY <3>1, <3>2
  <2>8. CASE FindOutput(t)
    <3>1. PICK o \in {outputs(t)[keyPub(t)], Null} :
              output' = [output EXCEPT ![t] = o] /\ Go(t, IF o = Null THEN "newOutput" ELSE "transform")
      BY <2>8 DEF FindOutput
    <3>2. o # Null => o \in Object /\ o[1] = keyPub(t)
      BY <2>8, <3>1 DEF FindOutput, InFunction, Tables, outputs
    <3>3. mutex' = mutex /\ owner' = owner /\ pc[t] = "findOutput"
      BY <2>8 DEF FindOutput
    <3> QED  BY <3>1, <3>2, <3>3
  <2>9. CASE NewOutput(t)
    <3>1. <<keyPub(t), t>> \in Object  BY <2>9 DEF NewOutput, InFunction, Object
    <3>2. output'[t] = <<keyPub(t), t>> /\ pc'[t] = "transform"  BY <2>9 DEF NewOutput
    <3>3. mutex' = mutex /\ owner' = owner /\ pc[t] = "newOutput"
      BY <2>9 DEF NewOutput
    <3> QED  BY <3>1, <3>2, <3>3
  <2>10. CASE Transform(t)
    <3>1. pc'[t] = (IF IsDynamic(t) THEN "publish" ELSE "findWriters") /\ pc[t] = "transform"
      BY <2>10 DEF Transform
    <3>2. mutex' = mutex /\ owner' = owner /\ output' = output  BY <2>10 DEF Transform
    <3>3. payload'[output[t]] \in Datum
      <4>1. fName(t) \in FName  BY <2>10, Here DEF Transform, LocatedAt, InFunction
      <4> QED  BY <2>10, <4>1 DEF Transform, Datum
    <3>4. wi' = wi /\ pubs' = pubs  BY <2>10 DEF Transform
    <3>5. ~InBuffer(t)'  BY <3>1, <3>4 DEF Direct
    <3> QED  BY <3>1, <3>2, <3>3, <3>5
  <2>11. CASE SkipWriter(t)  BY <2>11 DEF SkipWriter
  <2>12. CASE CallWrite(t)
    <3>1. pc'[t] = AtWriter(t) /\ pc[t] = "writers" /\ wi' = wi /\ pubs' = pubs
      BY <2>12 DEF CallWrite
    <3>2. ~InBuffer(t)'  BY <3>1 DEF AtWriter, Direct
    <3>3. Given(t)' => Given(t)  BY <3>1 DEF AtWriter
    <3>4. UNCHANGED <<mutex, output, owner, payload>>  BY <2>12 DEF CallWrite
    <3>5. pc'[t] \in {"findMutex", "publish", "lockBuffer"}  BY <3>1 DEF AtWriter
    <3> QED  BY <3>2, <3>3, <3>4, <3>5
  <2>13. CASE LockBuffer(t)
    <3>1. pub(t) \in Writer
      BY <2>13, Here DEF LockBuffer, LocatedAt, InFunction, AtRoute
    <3> QED  BY <2>13, <3>1 DEF LockBuffer
  <2>14. CASE Deserialize(t)
    <3>1. pub(t) \in Writer /\ given(t) \in Datum  BY <2>14, GivesData DEF Deserialize
    <3>2. pc'[t] = "publish" /\ pc[t] = "deserialize" /\ wi' = wi /\ pubs' = pubs
      BY <2>14 DEF Deserialize
    <3>3. m_buffer'[pub(t)] \in Datum  BY <2>14, <3>1 DEF Deserialize
    <3>4. ~IsDynamic(t)  BY <3>2 DEF LocatedAt, Direct
    <3>5. UNCHANGED <<mutex, output, owner, m_bufferMutex, payload>>  BY <2>14 DEF Deserialize
    <3> QED  BY <3>2, <3>3, <3>4, <3>5
  <2>15. CASE Publish(t)
    <3>1. pc'[t] = "writers" /\ pc[t] = "publish"  BY <2>15 DEF Publish
    <3>2. UNCHANGED <<mutex, output, payload>>  BY <2>15 DEF Publish
    <3>3. ~IsDynamic(t) => owner' = owner  BY <2>15 DEF Publish
    <3> QED  BY <3>1, <3>2, <3>3
  <2>16. CASE FindWriters(t)
    <3>1. pc'[t] = "writers" /\ pc[t] = "findWriters" /\ UNCHANGED <<mutex, output, owner, payload>>
      BY <2>16, FindsWriters
    <3> QED  BY <3>1
  <2> QED
    BY <1>4, <2>4, <2>5, <2>6, <2>7, <2>8, <2>9, <2>10, <2>11, <2>12, <2>13, <2>14, <2>15,
       <2>16 DEF Step
<1> QED  BY <1>3, <1>4

\* A step of another thread takes no lock from a thread and gives it none.
LEMMA SameReleased ==
    ASSUME TypeOK, NEW t \in Reader, LocatedAt(t), LockedAt(t), Receive(t) \/ Step(t),
           NEW u \in Reader \ {t}, ReleasedAt(u)
    PROVE  ReleasedAt(u)'
<1>1. Same(u) /\ bridge' = bridge  BY OthersStay
<1>2. /\ pub(u)' = pub(u)
      /\ Holds(u)' <=> Holds(u)
      /\ InBuffer(u)' <=> InBuffer(u)
  BY <1>1, SameThread, SameWriter DEF Same
<1>3. Null \notin Reader  BY DispatchAssumption
<1>4. ASSUME NEW o \in Object, owner'[o] = u
      PROVE  owner[o] = u
  BY <1>3, <1>4, OwnersChange DEF TypeOK
<1>5. ASSUME NEW w \in Writer, m_bufferMutex'[w] = u
      PROVE  m_bufferMutex[w] = u
  <2>1. \/ m_bufferMutex' = m_bufferMutex
        \/ m_bufferMutex' = [m_bufferMutex EXCEPT ![pub(t)] = t]
        \/ m_bufferMutex' = [m_bufferMutex EXCEPT ![pub(t)] = Null]
    BY BuffersChange
  <2> QED  BY <1>3, <1>5, <2>1 DEF TypeOK
<1> QED  BY <1>1, <1>2, <1>4, <1>5 DEF ReleasedAt, Same

\* A thread has no lock but those of its place, wherever it goes.
LEMMA ReleasedKept ==
    ASSUME TypeOK, NEW t \in Reader, LocatedAt(t), LockedAt(t), ReleasedAt(t),
           Receive(t) \/ Step(t)
    PROVE  ReleasedAt(t)'
<1>1. bridge' = bridge /\ Null \notin Reader  BY OthersStay, DispatchAssumption
<1>2. IsDynamic(t)' <=> IsDynamic(t)  BY <1>1, SameReader
<1>3. /\ fi'[t] = fi[t] /\ funcNames' = funcNames => (Transforms(t)' <=> Transforms(t))
      /\ fi'[t] = fi[t] /\ wi'[t] = wi[t] /\ UNCHANGED lists
            => pub(t)' = pub(t) /\ (Direct(t)' <=> Direct(t))
  BY <1>1, SameFunction, SameWriter DEF lists
<1> USE DEF Holds, Given, InBuffer, Writes, At, Go, TypeOK, locks, lists
<1>4. \A o \in Object : owner'[o] = t => Holds(t)' /\ mutex'[t] = o
  <2>1. \A o \in Object : owner[o] = t => Holds(t) /\ mutex[t] = o  BY DEF ReleasedAt
  <2>2. CASE Receive(t)  BY <2>1, <2>2 DEF Receive
  <2>3. CASE Return(t)  BY <2>1, <2>3 DEF Return
  <2>4. CASE EnterFunction(t)  BY <2>1, <2>4 DEF EnterFunction
  <2>5. CASE FindMutex(t)  BY <2>1, <2>5 DEF FindMutex
  <2>6. CASE NewMutex(t)  BY <2>1, <2>6 DEF NewMutex
  <2>7. CASE Lock(t)
    <3>1. ~Holds(t) /\ Holds(t)' /\ mutex' = mutex  BY <2>7 DEF Lock
    <3> QED  BY <2>1, <2>7, <3>1 DEF Lock
  <2>8. CASE FindOutput(t)  BY <2>1, <2>8 DEF FindOutput
  <2>9. CASE NewOutput(t)  BY <2>1, <2>9 DEF NewOutput
  <2>10. CASE Transform(t)
    <3>1. Transforms(t)  BY <2>10 DEF Transform, LocatedAt, Makes
    <3> QED  BY <1>2, <1>3, <2>1, <2>10, <3>1 DEF Transform
  <2>11. CASE LeaveFunction(t)
    <3>1. CASE IsDynamic(t) \/ ~Transforms(t)
      BY <2>1, <2>11, <3>1 DEF LeaveFunction, Unlock
    <3>2. CASE ~IsDynamic(t) /\ Transforms(t)
      BY <1>1, <2>1, <2>11, <3>2 DEF LeaveFunction, Unlock
    <3> QED  BY <3>1, <3>2
  <2>12. CASE SkipWriter(t)  BY <1>2, <1>3, <2>1, <2>12 DEF SkipWriter
  <2>13. CASE CallWrite(t)
    <3>1. Given(t) => Given(t)'
      BY <1>2, <1>3, <2>13 DEF CallWrite, AtWriter
    <3> QED  BY <2>1, <2>13, <3>1 DEF CallWrite
  <2>14. CASE LockBuffer(t)  BY <1>2, <1>3, <2>1, <2>14 DEF LockBuffer
  <2>15. CASE Deserialize(t)
    <3>1. ~IsDynamic(t)  BY <2>15 DEF Deserialize, LocatedAt, Direct
    <3> QED  BY <1>2, <1>3, <2>1, <2>15, <3>1 DEF Deserialize
  <2>16. CASE Publish(t)
    <3>1. CASE IsDynamic(t) /\ Transforms(t)
      BY <1>1, <2>1, <2>16, <3>1 DEF Publish, Unlock
    <3>2. CASE IsDynamic(t) /\ ~Transforms(t)
      BY <2>1, <2>16, <3>2 DEF Publish, Unlock
    <3>3. CASE ~IsDynamic(t)
      BY <1>2, <1>3, <2>1, <2>16, <3>3 DEF Publish
    <3> QED  BY <3>1, <3>2, <3>3
  <2>17. CASE FindFunctions(t)  BY <2>1, <2>17, FindsFunctions
  <2>18. CASE FindWriters(t)
    <3>1. funcNames' = funcNames  BY <2>18, FindsWriters
    <3> QED  BY <1>2, <1>3, <2>1, <2>18, <3>1, FindsWriters
  <2> QED
    BY <2>2, <2>3, <2>4, <2>5, <2>6, <2>7, <2>8, <2>9, <2>10, <2>11, <2>12, <2>13, <2>14,
       <2>15, <2>16, <2>17, <2>18 DEF Step
<1>5. \A w \in Writer : m_bufferMutex'[w] = t =>
            (pc'[t] = "deserialize" \/ InBuffer(t)') /\ pub(t)' = w
  <2>1. \A w \in Writer : m_bufferMutex[w] = t =>
            (pc[t] = "deserialize" \/ InBuffer(t)) /\ pub(t) = w
    BY DEF ReleasedAt
  <2>2. CASE LockBuffer(t)  BY <1>3, <2>1, <2>2 DEF LockBuffer
  <2>3. CASE Deserialize(t)
    <3>1. ~Direct(t)  BY <2>3 DEF Deserialize, LocatedAt
    <3> QED  BY <1>3, <2>1, <2>3, <3>1 DEF Deserialize
  <2>4. CASE Publish(t)
    <3>1. CASE Direct(t)  BY <2>1, <2>4, <3>1 DEF Publish
    <3>2. CASE ~Direct(t)  BY <1>1, <2>1, <2>4, <3>2 DEF Publish
    <3> QED  BY <3>1, <3>2
  <2>5. CASE ~LockBuffer(t) /\ ~Deserialize(t) /\ ~Publish(t)
    <3>1. m_bufferMutex' = m_bufferMutex /\ pc[t] \notin {"deserialize", "publish"}
      BY <2>5 DEF Step, FindFunctions, FindWriters, Receive, Return, EnterFunction, FindMutex,
          NewMutex, Lock, FindOutput, NewOutput, Transform, LeaveFunction, SkipWriter, CallWrite
    <3> QED  BY <2>1, <3>1
  <2> QED  BY <2>2, <2>3, <2>4, <2>5
<1> QED  BY <1>4, <1>5 DEF ReleasedAt

-------------------------------------------------------------------------------
(* The routing tables and the threads' copies *)

LEMMA RoutesKept ==
    ASSUME TypeOK, Routes, NEW t \in Reader, LocatedAt(t), Receive(t) \/ Step(t)
    PROVE  Routes'
<1>1. bridge' = bridge  BY OthersStay
<1>2. CASE FindFunctions(t)
  <2>1. /\ mm_functions' \in {mm_functions, [mm_functions EXCEPT ![readerName(t)] = <<>>]}
        /\ mm_dynFunctions' \in {mm_dynFunctions, [mm_dynFunctions EXCEPT ![readerName(t)] = <<>>]}
        /\ mm_writer' = mm_writer
    BY <1>2 DEF FindFunctions
  <2> QED  BY <1>1, <2>1 DEF Routes, Copy, TypeOK
<1>3. CASE FindWriters(t)
  <2>1. /\ mm_writer' \in {mm_writer, [mm_writer EXCEPT ![keyPub(t)] = <<>>]}
        /\ mm_functions' = mm_functions /\ mm_dynFunctions' = mm_dynFunctions
    BY <1>3 DEF FindWriters
  <2> QED  BY <1>1, <2>1 DEF Routes, Copy, TypeOK
<1>4. CASE ~FindFunctions(t) /\ ~FindWriters(t)
  BY <1>1, <1>4, ListsKept DEF routes, Routes
<1> QED  BY <1>2, <1>3, <1>4

LEMMA SameCopied ==
    ASSUME bridge' = bridge, NEW u, Same(u)
    PROVE  /\ CopiedAt(u) => CopiedAt(u)'
           /\ SameAt(u) => SameAt(u)'
<1>1. fName(u)' = fName(u)  BY SameFunction DEF Same
<1> QED  BY <1>1, SameReader, SameThread DEF CopiedAt, SameAt, Same

\* What a thread copies is what the tables have for it, unless another thread inserts
\* an entry, and then it may be nothing.
LEMMA CopiesFunctions ==
    ASSUME TypeOK, NEW t \in Reader, FindFunctions(t),
           NEW others, others = {u \in Reader \ {t} : ChangesFunctions(u, t)}
    PROVE  \E entry \in {functions(t)[readerName(t)]} \cup {Null : u \in others} :
               funcNames'[t] = OrNoFunction(IsDynamic(t), Listed(entry))
BY DEF FindFunctions, TypeOK

LEMMA CopiesWriters ==
    ASSUME TypeOK, NEW t \in Reader, FindWriters(t),
           NEW others, others = {u \in Reader \ {t} : ChangesWriters(u)}
    PROVE  \E entry \in {mm_writer[keyPub(t)]} \cup {Null : u \in others} :
               pubs'[t] = Listed(entry)
BY DEF FindWriters, TypeOK

\* The entries of a reader in the bridge's tables.
LEMMA Entries ==
    ASSUME bridge \in Bridges, NEW t \in Reader
    PROVE  /\ functionsEntry(bridge, t) =
                  (IF IsDynamic(t) THEN bridge.mm_dynFunctions[readerName(t)]
                                   ELSE bridge.mm_functions[readerName(t)])
           /\ functionsOf(bridge, t) = OrNoFunction(IsDynamic(t), Listed(functionsEntry(bridge, t)))
           /\ \A f : writersOf(bridge, t, f) = Listed(bridge.mm_writer[<<readerName(t), f>>])
BY DEF functionsEntry, functionsOf, writersOf, IsDynamic, readerName

LEMMA CopiedKept ==
    ASSUME TypeOK, Routes, NEW t \in Reader, LocatedAt(t), CopiedAt(t), Receive(t) \/ Step(t)
    PROVE  CopiedAt(t)'
<1>1. bridge' = bridge /\ bridge \in Bridges  BY OthersStay DEF TypeOK
<1>2. /\ functionsOf(bridge, t)' = functionsOf(bridge, t)
      /\ \A f : writersOf(bridge, t, f)' = writersOf(bridge, t, f)
      /\ IsDynamic(t)' <=> IsDynamic(t)
      /\ NoFunctions(t)' = NoFunctions(t)
  BY <1>1, SameReader
<1>3. CASE FindFunctions(t)
  <2>1. PICK entry \in {functions(t)[readerName(t)], Null} :
            funcNames'[t] = OrNoFunction(IsDynamic(t), Listed(entry))
    BY <1>3, CopiesFunctions
  <2>2. Listed(entry) \in {Listed(functionsEntry(bridge, t)), <<>>}
    <3>1. readerName(t) \in Name  BY <1>1, Places
    <3>2. Copy(functions(t)[readerName(t)], functionsEntry(bridge, t))
      BY <1>1, <3>1, Entries DEF Routes, functions
    <3> QED  BY <2>1, <3>2, DispatchAssumption DEF Copy, Listed
  <2>3. funcNames'[t] \in {functionsOf(bridge, t), NoFunctions(t)}
    BY <1>1, <2>1, <2>2, Entries DEF NoFunctions
  <2> QED  BY <1>2, <1>3, <2>3, FindsFunctions DEF CopiedAt, InFunction
<1>4. CASE FindWriters(t)
  <2>1. PICK entry \in {mm_writer[keyPub(t)], Null} : pubs'[t] = Listed(entry)
    BY <1>4, CopiesWriters
  <2>2. pc[t] = "findWriters" /\ pc'[t] = "writers" /\ fi' = fi /\ funcNames' = funcNames
    BY <1>4, FindsWriters
  <2>3. fName(t)' = fName(t)  BY <1>1, <2>2, SameFunction
  <2>4. pubs'[t] \in {writersOf(bridge, t, fName(t)), <<>>}
    <3>1. keyPub(t) \in Key  BY <2>2, Here DEF LocatedAt, InFunction
    <3>2. Copy(mm_writer[keyPub(t)], bridge.mm_writer[keyPub(t)])  BY <3>1 DEF Routes
    <3>3. writersOf(bridge, t, fName(t)) = Listed(bridge.mm_writer[keyPub(t)])
      BY <1>1, Entries DEF keyPub
    <3> QED  BY <2>1, <3>2, <3>3, DispatchAssumption DEF Copy, Listed
  <2>5. funcNames[t] \in {functionsOf(bridge, t), NoFunctions(t)}
    BY <2>2 DEF CopiedAt
  <2> QED  BY <1>2, <2>2, <2>3, <2>4, <2>5 DEF CopiedAt
<1>5. CASE ~FindFunctions(t) /\ ~FindWriters(t)
  <2>1. funcNames' = funcNames /\ pubs' = pubs  BY <1>5, ListsKept
  <2>2. pc'[t] \notin {"idle", "findFunctions"} => pc[t] \notin {"idle", "findFunctions"}
    BY <1>5, Arrives DEF TypeOK
  <2>3. InFunction(t)' /\ ~BeforeWriters(t)'
            => InFunction(t) /\ ~BeforeWriters(t) /\ fi'[t] = fi[t]
    BY <1>5, Arrives
  <2>4. fi'[t] = fi[t] => fName(t)' = fName(t)  BY <1>1, <2>1, SameFunction
  <2> QED  BY <1>2, <2>1, <2>2, <2>3, <2>4 DEF CopiedAt
<1> QED  BY <1>3, <1>4, <1>5

-------------------------------------------------------------------------------
(* What holds of every wired bridge *)

BaseInv ==
    /\ TypeOK /\ Tables /\ Routes /\ LateSoFar
    /\ \A t \in Reader : LocatedAt(t) /\ LockedAt(t) /\ ReleasedAt(t) /\ CopiedAt(t)

\* The objects that earlier messages left are of the key they are found under.
LEMMA LeftBehind ==
    ASSUME NEW k \in Key, NEW readers \in SUBSET Reader
    PROVE  /\ Left(k, readers) \in Object \cup {Null}
           /\ Left(k, readers) # Null => Left(k, readers)[1] = k
           /\ k \in bridge.Used /\ (\E r \in readers : readerName(r) = k[1])
                => Left(k, readers) # Null
<1> DEFINE makers == {r \in readers : readerName(r) = k[1]}
<1>1. CASE k \in bridge.Used /\ makers # {}
  <2> DEFINE m == CHOOSE r \in makers : TRUE
  <2>1. m \in makers  BY <1>1
  <2>2. m \in Reader  BY <2>1
  <2>3. Left(k, readers) = <<k, m>>  BY <1>1 DEF Left
  <2> HIDE DEF m
  <2>4. <<k, m>> \in Key \X Reader  BY <2>2
  <2> QED  BY <2>3, <2>4, DispatchAssumption DEF Object
<1>2. CASE ~(k \in bridge.Used /\ makers # {})  BY <1>2 DEF Left
<1> QED  BY <1>1, <1>2

LEMMA BaseAtFirst == Init => BaseInv
<1> SUFFICES ASSUME Init PROVE BaseInv
  OBVIOUS
<1>1. Reader \in SUBSET Reader /\ Reader \ bridge.dynamic \in SUBSET Reader
      /\ bridge.dynamic \in SUBSET Reader
  BY DispatchAssumption DEF Init, WiredBridge
<1>2. /\ \A k \in Key : mm_mutex[k] = Left(k, Reader)
      /\ \A k \in Key : mm_staticPayload[k] = Left(k, Reader \ bridge.dynamic)
      /\ \A k \in Key : mm_dynamicData[k] = Left(k, bridge.dynamic)
  BY DEF Init
<1>3. TypeOK
  <2>1. /\ mm_mutex \in [Key -> Object \cup {Null}]
        /\ mm_staticPayload \in [Key -> Object \cup {Null}]
        /\ mm_dynamicData \in [Key -> Object \cup {Null}]
    BY <1>1, LeftBehind DEF Init
  <2>2. <<>> \in Seq(Nat)  OBVIOUS
  <2>3. sent \in [Writer -> [Reader -> [FName -> Seq(Nat)]]]  BY <2>2 DEF Init
  <2>4. /\ bridge \in Bridges
        /\ funcNames \in [Reader -> Seq(FName)] /\ pubs \in [Reader -> Seq(Writer)]
        /\ msg \in [Reader -> Nat] /\ fi \in [Reader -> Nat \ {0}] /\ wi \in [Reader -> Nat \ {0}]
        /\ late \in [Writer -> [Reader -> Nat]]
    BY DEF Init
  <2>5. /\ mm_functions \in [Name -> Seq(FName) \cup {Null}]
        /\ mm_dynFunctions \in [Name -> Seq(FName) \cup {Null}]
        /\ mm_writer \in [Key -> Seq(Writer) \cup {Null}]
    BY Wired DEF Init
  <2> QED  BY <2>1, <2>3, <2>4, <2>5 DEF Init, TypeOK
<1>4. Tables  BY <1>1, <1>2, LeftBehind DEF Tables
<1>5. ASSUME NEW t \in Reader
      PROVE  LocatedAt(t) /\ LockedAt(t) /\ ReleasedAt(t) /\ CopiedAt(t) /\ ~AtRoute(t)
  <2>1. pc[t] = "idle"  BY DEF Init
  <2>2. /\ ~Holds(t) /\ ~Given(t) /\ ~InBuffer(t) /\ ~AtRoute(t)
        /\ ~InFunction(t) /\ ~BeforeWriters(t)
    BY <2>1 DEF Holds, Given, InBuffer, AtRoute, InFunction, BeforeWriters, Writes, Makes
  <2>3. ReleasedAt(t)  BY DispatchAssumption DEF Init, ReleasedAt
  <2> QED  BY <2>1, <2>2, <2>3 DEF LocatedAt, LockedAt, CopiedAt, Makes
<1>6. LateSoFar  BY <1>5 DEF Init, LateSoFar
<1>7. Routes  BY DEF Init, Routes, Copy
<1> QED  BY <1>3, <1>4, <1>5, <1>6, <1>7 DEF BaseInv

\* onTerminate of a writer disturbs no thread.
LEMMA TerminatingKeepsThreads ==
    ASSUME NEW w \in Writer, onTerminate(w), NEW u
    PROVE  /\ Same(u)
           /\ LocatedAt(u)' <=> LocatedAt(u)
           /\ LockedAt(u)' <=> LockedAt(u)
           /\ ReleasedAt(u)' <=> ReleasedAt(u)
           /\ WholeAt(u)' <=> WholeAt(u)
           /\ SharedAt(u)' <=> SharedAt(u)
           /\ CopiedAt(u)' <=> CopiedAt(u)
           /\ SameAt(u)' <=> SameAt(u)
<1> USE DEF onTerminate, lists, routes, threads, tables, locks, data, ends
<1>1. Same(u) /\ bridge' = bridge  BY DEF Same
<1>2. /\ readerName(u)' = readerName(u) /\ funcNames' = funcNames /\ pubs' = pubs
      /\ functionsOf(bridge, u)' = functionsOf(bridge, u)
      /\ \A f : writersOf(bridge, u, f)' = writersOf(bridge, u, f)
      /\ IsDynamic(u)' <=> IsDynamic(u)
      /\ NoFunctions(u)' = NoFunctions(u)
      /\ fName(u)' = fName(u) /\ keyPub(u)' = keyPub(u) /\ pub(u)' = pub(u)
      /\ Transforms(u)' <=> Transforms(u)
      /\ Direct(u)' <=> Direct(u)
      /\ WrongKind(u)' <=> WrongKind(u)
  BY <1>1, SameReader, SameFunction, SameWriter DEF Same
<1>3. /\ InFunction(u)' <=> InFunction(u)
      /\ AtRoute(u)' <=> AtRoute(u)
      /\ BeforeWriters(u)' <=> BeforeWriters(u)
      /\ Given(u)' <=> Given(u)
      /\ Holds(u)' <=> Holds(u)
      /\ InBuffer(u)' <=> InBuffer(u)
      /\ Own(u)' = Own(u)
  BY <1>1, SameThread
<1>4. outputs(u)' = outputs(u)  BY <1>2 DEF outputs
<1>5. /\ LocatedAt(u)' <=> LocatedAt(u)
      /\ CopiedAt(u)' <=> CopiedAt(u)
      /\ SameAt(u)' <=> SameAt(u)
  BY <1>1, <1>2, <1>3 DEF LocatedAt, CopiedAt, SameAt
<1> QED  BY <1>1, <1>2, <1>3, <1>4, <1>5 DEF LockedAt, ReleasedAt, WholeAt, SharedAt

LEMMA BaseKept == BaseInv /\ [Next]_vars => BaseInv'
<1> SUFFICES ASSUME BaseInv, [Next]_vars PROVE BaseInv'
  OBVIOUS
<1> USE DEF BaseInv
<1>1. ASSUME NEW t \in Reader, Receive(t) \/ Step(t)
      PROVE  BaseInv'
  <2>1. TypeOK' /\ Tables' /\ Routes' /\ LateSoFar'
    BY <1>1, TypesKept, TablesKept, RoutesKept, LateKept
  <2>2. ASSUME NEW u \in Reader
        PROVE  LocatedAt(u)' /\ LockedAt(u)' /\ ReleasedAt(u)' /\ CopiedAt(u)'
    <3>1. CASE u = t  BY <1>1, <3>1, LocatedKept, LockedKept, ReleasedKept, CopiedKept
    <3>2. CASE u # t
      <4>1. u \in Reader \ {t} /\ Same(u) /\ bridge' = bridge  BY <1>1, <3>2, OthersStay
      <4> QED  BY <1>1, <4>1, SameLocated, SameLocked, SameReleased, SameCopied
    <3> QED  BY <3>1, <3>2
  <2> QED  BY <2>1, <2>2
<1>2. ASSUME NEW w \in Writer, onTerminate(w)
      PROVE  BaseInv'
  <2>1. TypeOK' /\ Tables' /\ Routes'
    BY <1>2 DEF onTerminate, lists, routes, threads, tables, locks, data, ends, TypeOK, Tables,
        Routes
  <2>2. \A u \in Reader : LocatedAt(u)' /\ LockedAt(u)' /\ ReleasedAt(u)' /\ CopiedAt(u)'
    BY <1>2, TerminatingKeepsThreads
  <2>3. \A u \in Reader : (AtRoute(u)' <=> AtRoute(u)) /\ pub(u)' = pub(u)
    BY <1>2, TerminatingKeepsThreads, SameThread, SameWriter DEF Same
  <2>4. LateSoFar'  BY <1>2, <2>3 DEF onTerminate, ends, LateSoFar
  <2> QED  BY <2>1, <2>2, <2>4
<1>3. CASE UNCHANGED vars
  <2> USE <1>3 DEF vars, lists, routes, threads, tables, locks, data, ends
  <2>1. TypeOK' /\ Tables' /\ Routes'  BY DEF TypeOK, Tables, Routes
  <2>2. ASSUME NEW u \in Reader
        PROVE  /\ LocatedAt(u)' /\ LockedAt(u)' /\ ReleasedAt(u)' /\ CopiedAt(u)'
               /\ AtRoute(u)' <=> AtRoute(u)
               /\ pub(u)' = pub(u)
    <3>1. Same(u)  BY DEF Same
    <3>2. /\ keyPub(u)' = keyPub(u) /\ pub(u)' = pub(u)
          /\ AtRoute(u)' <=> AtRoute(u)
          /\ Given(u)' <=> Given(u)
          /\ Holds(u)' <=> Holds(u)
          /\ InBuffer(u)' <=> InBuffer(u)
      BY <3>1, SameFunction, SameWriter, SameThread DEF Same
    <3>3. LockedAt(u) /\ ReleasedAt(u)  OBVIOUS
    <3>4. LockedAt(u)' /\ ReleasedAt(u)'  BY <3>2, <3>3 DEF LockedAt, ReleasedAt
    <3>5. bridge' = bridge /\ CopiedAt(u)  OBVIOUS
    <3> QED  BY <3>1, <3>2, <3>4, <3>5, SameLocated, SameCopied
  <2>3. LateSoFar'  BY <2>2 DEF LateSoFar
  <2> QED  BY <2>1, <2>2, <2>3
<1> QED  BY <1>1, <1>2, <1>3 DEF Next

\* A thread sends at most one message through a writer after its onTerminate: the
\* one it had already checked isTerminating for (ISBridge.h, lines 177 to 231).
THEOREM OneLate == Spec => []OneLateWrite
<1>1. BaseInv => OneLateWrite  BY DEF BaseInv, LateSoFar, OneLateWrite
<1> QED  BY <1>1, BaseAtFirst, BaseKept, PTL DEF Spec

\* On every wired bridge, with any number of threads, a thread that waits for the
\* mutex of a key or of a buffer waits for one that can go on, at most one thread
\* further (ISBridge.h, line 165, and RTPSPublisher.cpp, line 56).
THEOREM LocksAreOrdered == Spec => []NoCircularWait
<1>1. BaseInv => NoCircularWait
  <2> SUFFICES ASSUME BaseInv, NEW t \in Reader, Waits(t)
               PROVE  \/ Runs(Holder(t))
                      \/ Waits(Holder(t)) /\ Runs(Holder(Holder(t)))
    BY DEF NoCircularWait
  <2> USE DEF BaseInv, TypeOK
  <2>1. ASSUME NEW u \in Reader, pc[u] = "lockBuffer", Waits(u)
        PROVE  Runs(Holder(u))
    <3>1. fi[u] \in DOMAIN funcNames[u] /\ wi[u] \in DOMAIN pubs[u]
      BY <2>1 DEF LocatedAt, InFunction, AtRoute, Writes
    <3>2. pub(u) \in Writer  BY <3>1, Here
    <3> DEFINE v == m_bufferMutex[pub(u)]
    <3>3. v \in Reader  BY <2>1, <3>2 DEF Waits
    <3>4. pc[v] \in {"deserialize", "publish"}  BY <3>2, <3>3 DEF ReleasedAt, InBuffer
    <3> QED  BY <2>1, <3>4 DEF Runs, Waits, Holder
  <2>2. CASE pc[t] = "lockBuffer"  BY <2>1, <2>2
  <2>3. CASE pc[t] = "lock"
    <3> DEFINE u == owner[mutex[t]]
    <3>1. mutex[t] \in Object  BY <2>3 DEF LockedAt
    <3>2. u \in Reader /\ Holds(u)  BY <2>3, <3>1 DEF Waits, ReleasedAt
    <3>3. pc[u] \notin {"idle", "lock"}  BY <3>2 DEF Holds, Given, Writes
    <3>4. Holder(t) = u  BY <2>3 DEF Holder
    <3>5. Waits(u) => pc[u] = "lockBuffer"  BY <3>3 DEF Waits
    <3> QED  BY <2>1, <3>2, <3>3, <3>4, <3>5 DEF Runs
  <2> QED  BY <2>2, <2>3 DEF Waits
<1> QED  BY <1>1, BaseAtFirst, BaseKept, PTL DEF Spec

-------------------------------------------------------------------------------
(* On an undisturbed bridge every look-up finds what was wired *)

RoutesInv == SameRoutes /\ \A t \in Reader : SameAt(t)

\* No other thread inserts an entry.
LEMMA NobodyInserts ==
    ASSUME BaseInv, RoutesInv, Undisturbed(bridge), NEW t \in Reader, NEW u \in Reader \ {t}
    PROVE  ~ChangesFunctions(u, t) /\ ~ChangesWriters(u)
<1>1. bridge \in Bridges /\ readerName(u) \in Name /\ readerName(u) = bridge.readerName[u]
  BY Places DEF BaseInv, TypeOK, readerName
<1>2. ~ChangesFunctions(u, t)
  <2> SUFFICES ASSUME ChangesFunctions(u, t) PROVE FALSE
    OBVIOUS
  <2>1. functionsEntry(bridge, u) = Null
    BY <1>1, Entries DEF ChangesFunctions, functions, RoutesInv, SameRoutes
  <2>2. (u \in bridge.dynamic) <=> (t \in bridge.dynamic)
    BY DEF ChangesFunctions, IsDynamic
  <2> QED  BY <2>1, <2>2 DEF Undisturbed
<1>3. ~ChangesWriters(u)
  <2> SUFFICES ASSUME ChangesWriters(u) PROVE FALSE
    OBVIOUS
  <2>1. fi[u] \in DOMAIN funcNames[u] /\ pc[u] = "findWriters"
    BY DEF ChangesWriters, BaseInv, LocatedAt, InFunction
  <2>2. keyPub(u) \in Key  BY <2>1, Here DEF BaseInv
  <2>3. bridge.mm_writer[keyPub(u)] = Null
    BY <2>2 DEF ChangesWriters, RoutesInv, SameRoutes
  <2>4. fName(u) \in Range(functionsOf(bridge, u))
    <3>1. funcNames[u] = functionsOf(bridge, u)  BY <2>1 DEF RoutesInv, SameAt
    <3> QED  BY <2>1, <3>1 DEF fName, Range
  <2>5. bridge.mm_writer[<<bridge.readerName[u], fName(u)>>] # Null
    BY <2>4 DEF Undisturbed
  <2> QED  BY <1>1, <2>3, <2>5 DEF keyPub
<1> QED  BY <1>2, <1>3

LEMMA RoutesInvKept ==
    ASSUME BaseInv, RoutesInv, Undisturbed(bridge), NEW t \in Reader, Receive(t) \/ Step(t)
    PROVE  RoutesInv'
<1>1. TypeOK /\ LocatedAt(t) /\ SameAt(t) /\ bridge' = bridge /\ bridge \in Bridges
  BY OthersStay DEF BaseInv, RoutesInv, TypeOK
<1>2. /\ functionsOf(bridge, t)' = functionsOf(bridge, t)
      /\ \A f : writersOf(bridge, t, f)' = writersOf(bridge, t, f)
      /\ IsDynamic(t)' <=> IsDynamic(t)
  BY <1>1, SameReader
<1>3. Null # <<>> /\ Listed(<<>>) = <<>> /\ Listed(Null) = <<>>
  <2>1. <<>> \in Seq(FName)  OBVIOUS
  <2> QED  BY <2>1, DispatchAssumption DEF Listed
<1>4. CASE FindFunctions(t)
  <2> DEFINE name == readerName(t)
             others == {u \in Reader \ {t} : ChangesFunctions(u, t)}
  <2>1. others = {} /\ name \in Name  BY <1>1, NobodyInserts, Places
  <2>2. Listed(functions(t)[name]) = Listed(functionsEntry(bridge, t))
    BY <1>1, <2>1, Entries DEF functions, RoutesInv, SameRoutes
  <2>3. funcNames'[t] = functionsOf(bridge, t)
    <3>1. PICK entry \in {functions(t)[name]} \cup {Null : u \in others} :
              funcNames'[t] = OrNoFunction(IsDynamic(t), Listed(entry))
      BY <1>1, <1>4, CopiesFunctions
    <3>2. entry = functions(t)[name]  BY <2>1, <3>1
    <3> QED  BY <1>1, <2>2, <3>1, <3>2, Entries
  <2>4. SameAt(t)'  BY <1>1, <1>2, <1>4, <2>3, FindsFunctions DEF SameAt, InFunction
  <2>5. /\ \/ mm_functions' = mm_functions
           \/ mm_functions[name] = Null /\ mm_functions' = [mm_functions EXCEPT ![name] = <<>>]
        /\ \/ mm_dynFunctions' = mm_dynFunctions
           \/ /\ mm_dynFunctions[name] = Null
              /\ mm_dynFunctions' = [mm_dynFunctions EXCEPT ![name] = <<>>]
        /\ mm_writer' = mm_writer
    BY <1>4, <2>1 DEF FindFunctions, functions
  <2>6. SameRoutes'
    BY <1>1, <1>3, <2>1, <2>5 DEF RoutesInv, SameRoutes, TypeOK
  <2>7. \A u \in Reader \ {t} : SameAt(u)'
    BY <1>1, <1>4, OthersStay, SameCopied DEF RoutesInv
  <2> QED  BY <2>4, <2>6, <2>7 DEF RoutesInv
<1>5. CASE FindWriters(t)
  <2> DEFINE others == {u \in Reader \ {t} : ChangesWriters(u)}
  <2>1. others = {} /\ pc[t] = "findWriters"
    BY <1>1, <1>5, NobodyInserts, FindsWriters
  <2>2. keyPub(t) \in Key  BY <1>1, <2>1, Here DEF LocatedAt, InFunction
  <2>3. Listed(mm_writer[keyPub(t)]) = writersOf(bridge, t, fName(t))
    BY <1>1, <2>2, Entries DEF keyPub, RoutesInv, SameRoutes
  <2>4. pubs'[t] = writersOf(bridge, t, fName(t))
    <3>1. PICK entry \in {mm_writer[keyPub(t)]} \cup {Null : u \in others} :
              pubs'[t] = Listed(entry)
      BY <1>1, <1>5, CopiesWriters
    <3> QED  BY <2>1, <2>3, <3>1
  <2>5. SameAt(t)'
    <3>1. /\ pc'[t] = "writers" /\ funcNames' = funcNames /\ fi' = fi
          /\ funcNames[t] = functionsOf(bridge, t)
      BY <1>1, <1>5, <2>1, FindsWriters DEF SameAt
    <3>2. fName(t)' = fName(t)  BY <1>1, <3>1, SameFunction
    <3> QED  BY <1>2, <2>4, <3>1, <3>2 DEF SameAt
  <2>6. /\ \/ mm_writer' = mm_writer
           \/ mm_writer[keyPub(t)] = Null /\ mm_writer' = [mm_writer EXCEPT ![keyPub(t)] = <<>>]
        /\ mm_functions' = mm_functions /\ mm_dynFunctions' = mm_dynFunctions
    BY <1>5, <2>1 DEF FindWriters
  <2>7. SameRoutes'
    BY <1>1, <1>3, <2>2, <2>6 DEF RoutesInv, SameRoutes, TypeOK
  <2>8. \A u \in Reader \ {t} : SameAt(u)'
    BY <1>1, <1>5, OthersStay, SameCopied DEF RoutesInv
  <2> QED  BY <2>5, <2>7, <2>8 DEF RoutesInv
<1>6. CASE ~FindFunctions(t) /\ ~FindWriters(t)
  <2>1. UNCHANGED <<funcNames, pubs, routes>>  BY <1>1, <1>6, ListsKept
  <2>2. SameRoutes'  BY <1>1, <2>1 DEF routes, RoutesInv, SameRoutes
  <2>3. SameAt(t)'
    <3>1. pc'[t] \notin {"idle", "findFunctions"} => pc[t] \notin {"idle", "findFunctions"}
      BY <1>1, <1>6, Arrives DEF TypeOK
    <3>2. InFunction(t)' /\ ~BeforeWriters(t)'
              => InFunction(t) /\ ~BeforeWriters(t) /\ fi'[t] = fi[t]
      BY <1>1, <1>6, Arrives
    <3>3. fi'[t] = fi[t] => fName(t)' = fName(t)  BY <1>1, <2>1, SameFunction
    <3> QED  BY <1>1, <1>2, <2>1, <3>1, <3>2, <3>3 DEF SameAt
  <2>4. \A u \in Reader \ {t} : SameAt(u)'
    BY <1>1, OthersStay, SameCopied DEF RoutesInv
  <2> QED  BY <2>2, <2>3, <2>4 DEF RoutesInv
<1> QED  BY <1>4, <1>5, <1>6

-------------------------------------------------------------------------------
(* Nothing of one message is lost to another *)

\* A thread that needs the mutex of its key after a step, other than the two that
\* find it, needed it before; the same of the key's output and of the buffer.
LEMMA HeldBefore ==
    ASSUME TypeOK, NEW t \in Reader, LocatedAt(t), Receive(t) \/ Step(t)
    PROVE  /\ (pc'[t] = "lock" \/ Holds(t)') /\ ~FindMutex(t) /\ ~NewMutex(t)
                => /\ pc[t] = "lock" \/ Holds(t)
                   /\ keyPub(t)' = keyPub(t) /\ mutex'[t] = mutex[t]
           /\ Given(t)' /\ ~Transform(t)
                => /\ Given(t) /\ Own(t)' = Own(t)
                   /\ output'[t] = output[t] /\ payload' = payload
           /\ InBuffer(t)' => Deserialize(t)
<1>1. bridge' = bridge /\ (IsDynamic(t)' <=> IsDynamic(t))  BY OthersStay, SameReader
<1>2. CASE Receive(t) \/ FindFunctions(t) \/ Return(t) \/ LeaveFunction(t)
  <2>1. pc'[t] \in {"findFunctions", "functions", "idle"}
    BY <1>2, FindsFunctions DEF Receive, Return, LeaveFunction, Go, TypeOK
  <2> QED  BY <2>1, <1>1 DEF Holds, Given, InBuffer, Writes
<1>3. CASE ~(Receive(t) \/ FindFunctions(t) \/ Return(t) \/ LeaveFunction(t))
  <2>1. fi' = fi /\ msg' = msg /\ funcNames' = funcNames
    BY <1>3, ListsKept DEF Step, FindWriters, EnterFunction, FindMutex, NewMutex, Lock,
        FindOutput, NewOutput, Transform, SkipWriter, CallWrite, LockBuffer, Deserialize, Publish
  <2>2. keyPub(t)' = keyPub(t) /\ (Transforms(t)' <=> Transforms(t)) /\ Own(t)' = Own(t)
    BY <1>1, <2>1, SameFunction DEF Own, Form
  <2>3. wi' = wi /\ pubs' = pubs => (Direct(t)' <=> Direct(t))
    BY <1>1, <2>1, SameWriter
  <2> USE <1>1, <2>1, <2>2, <2>3 DEF LocatedAt, Holds, Given, InBuffer, Writes, Makes,
        At, Go, TypeOK, lists, tables, locks, data
  <2>4. CASE EnterFunction(t)
    <3>1. pc'[t] \in {"findMutex", "findWriters"}
          /\ (pc'[t] = "findWriters" => ~(Transforms(t) /\ ~IsDynamic(t)))
      BY <2>4 DEF EnterFunction, AtFunction
    <3> QED  BY <3>1
  <2>5. CASE FindMutex(t) \/ NewMutex(t)
    <3>1. pc'[t] \in {"newMutex", "lock"}  BY <2>5 DEF FindMutex, NewMutex
    <3> QED  BY <2>5, <3>1
  <2>6. CASE Lock(t)  BY <2>6 DEF Lock
  <2>7. CASE FindOutput(t)
    <3>1. pc'[t] \in {"newOutput", "transform"} /\ pc[t] = "findOutput" /\ mutex' = mutex
      BY <2>7 DEF FindOutput
    <3> QED  BY <3>1
  <2>8. CASE NewOutput(t)
    <3>1. pc'[t] = "transform" /\ pc[t] = "newOutput" /\ mutex' = mutex
      BY <2>8 DEF NewOutput
    <3> QED  BY <3>1
  <2>9. CASE Transform(t)
    <3>1. pc'[t] = (IF IsDynamic(t) THEN "publish" ELSE "findWriters") /\ pc[t] = "transform"
          /\ mutex' = mutex /\ wi' = wi /\ pubs' = pubs
      BY <2>9 DEF Transform
    <3> QED  BY <2>9, <3>1 DEF Direct
  <2>10. CASE SkipWriter(t)  BY <2>10 DEF SkipWriter
  <2>11. CASE CallWrite(t)
    <3>1. pc'[t] = AtWriter(t) /\ pc[t] = "writers" /\ wi' = wi /\ pubs' = pubs
          /\ UNCHANGED <<mutex, output, payload>>
      BY <2>11 DEF CallWrite
    <3>2. pc'[t] \in {"findMutex", "publish", "lockBuffer"}  BY <3>1 DEF AtWriter
    <3>3. ~InBuffer(t)' /\ (Given(t)' => Given(t))  BY <3>1 DEF AtWriter, Direct
    <3> QED  BY <3>1, <3>2, <3>3
  <2>12. CASE LockBuffer(t)  BY <2>12 DEF LockBuffer
  <2>13. CASE Deserialize(t)
    <3>1. pc'[t] = "publish" /\ pc[t] = "deserialize" /\ UNCHANGED <<mutex, output, payload>>
      BY <2>13 DEF Deserialize
    <3>2. ~IsDynamic(t)  BY <3>1 DEF Direct
    <3> QED  BY <2>13, <3>1, <3>2
  <2>14. CASE Publish(t)
    <3>1. pc'[t] = "writers" /\ pc[t] = "publish" /\ UNCHANGED <<mutex, output, payload>>
      BY <2>14 DEF Publish
    <3> QED  BY <3>1
  <2>15. CASE FindWriters(t)
    <3>1. pc'[t] = "writers" /\ pc[t] = "findWriters" /\ UNCHANGED <<mutex, output, payload>>
      BY <2>15, FindsWriters
    <3> QED  BY <3>1
  <2> QED
    BY <1>3, <2>4, <2>5, <2>6, <2>7, <2>8, <2>9, <2>10, <2>11, <2>12, <2>13, <2>14, <2>15 DEF Step
<1> QED  BY <1>2, <1>3

SharedInv == IsInjective(bridge.readerName) \/ \A t \in Reader : SharedAt(t)

\* When every key has been used before, no thread finds its entries missing.
LEMMA NothingMissing ==
    ASSUME BaseInv, NEW t \in Reader, SharedAt(t)
    PROVE  /\ InFunction(t) /\ Transforms(t)
                => mm_mutex[keyPub(t)] # Null /\ outputs(t)[keyPub(t)] # Null
           /\ ~ChangesMutexes(t) /\ \A u \in Reader : ~ChangesOutputs(t, u)
<1>1. LocatedAt(t) /\ bridge \in Bridges  BY DEF BaseInv, TypeOK
<1>2. ASSUME InFunction(t), Transforms(t)
      PROVE  mm_mutex[keyPub(t)] # Null /\ outputs(t)[keyPub(t)] # Null
  <2>1. fi[t] \in DOMAIN funcNames[t] /\ CopiedAt(t)
    BY <1>1, <1>2 DEF LocatedAt, BaseInv
  <2>2. fName(t) \in Resolved /\ fName(t) # NoFunction
    BY <1>2, DispatchAssumption DEF Transforms
  <2>3. funcNames[t] = functionsOf(bridge, t)
    <3>1. funcNames[t] \in {functionsOf(bridge, t), NoFunctions(t)}
      BY <1>2, <2>1 DEF CopiedAt, InFunction
    <3>2. NoFunctions(t) \in {<<>>, <<NoFunction>>}  BY DEF NoFunctions, OrNoFunction
    <3> QED  BY <2>1, <2>2, <3>1, <3>2 DEF fName
  <2>4. fName(t) \in Range(functionsOf(bridge, t))
    BY <2>1, <2>3 DEF fName, Range
  <2> QED  BY <2>2, <2>4 DEF SharedAt, keyPub
<1>3. pc[t] \in Makes => InFunction(t) /\ Transforms(t)
  BY <1>1 DEF LocatedAt, InFunction, Makes
<1> QED  BY <1>2, <1>3 DEF ChangesMutexes, ChangesOutputs, Makes

LEMMA SharedKept ==
    ASSUME BaseInv, \A u \in Reader : SharedAt(u), NEW t \in Reader, Receive(t) \/ Step(t)
    PROVE  \A u \in Reader : SharedAt(u)'
<1>1. TypeOK /\ LocatedAt(t) /\ bridge' = bridge  BY OthersStay DEF BaseInv
<1>2. UNCHANGED <<mm_mutex, mm_staticPayload, mm_dynamicData>>
  <2>1. ~NewMutex(t) /\ ~NewOutput(t)  BY DEF SharedAt, NewMutex, NewOutput, At
  <2> QED
    BY <2>1 DEF Step, FindFunctions, FindWriters, Receive, Return, EnterFunction, FindMutex,
        Lock, FindOutput, Transform, LeaveFunction, SkipWriter, CallWrite, LockBuffer, Deserialize,
        Publish, tables
<1>3. FindMutex(t) => /\ mutex'[t] = mm_mutex[keyPub(t)] /\ pc'[t] = "lock"
                      /\ keyPub(t)' = keyPub(t)
  <2> SUFFICES ASSUME FindMutex(t)
               PROVE  /\ mutex'[t] = mm_mutex[keyPub(t)] /\ pc'[t] = "lock"
                      /\ keyPub(t)' = keyPub(t)
    OBVIOUS
  <2>1. mm_mutex[keyPub(t)] # Null
    BY <1>1, NothingMissing DEF FindMutex, At, LocatedAt, Makes, InFunction
  <2>2. {Null : u \in {u \in Reader \ {t} : ChangesMutexes(u)}} = {}  BY NothingMissing
  <2>3. keyPub(t)' = keyPub(t)  BY <1>1, SameFunction DEF FindMutex, lists
  <2> QED  BY <1>1, <2>1, <2>2, <2>3 DEF FindMutex, Go, TypeOK
<1>4. FindOutput(t) => pc'[t] = "transform"
  <2> SUFFICES ASSUME FindOutput(t) PROVE pc'[t] = "transform"
    OBVIOUS
  <2>1. outputs(t)[keyPub(t)] # Null
    BY <1>1, NothingMissing DEF FindOutput, At, LocatedAt, Makes, InFunction
  <2>2. {Null : u \in {u \in Reader \ {t} : ChangesOutputs(u, t)}} = {}  BY NothingMissing
  <2> QED  BY <1>1, <2>1, <2>2 DEF FindOutput, Go, TypeOK
<1>5. pc'[t] \notin {"newMutex", "newOutput"}
  <2>1. CASE FindMutex(t) \/ FindOutput(t)  BY <1>3, <1>4, <2>1
  <2>2. CASE ~FindMutex(t) /\ ~FindOutput(t)
    BY <1>1, <2>2 DEF Step, FindFunctions, FindWriters, Receive, Return, EnterFunction,
        AtFunction, NewMutex, Lock, NewOutput, Transform, LeaveFunction, SkipWriter, CallWrite,
        AtWriter, LockBuffer, Deserialize, Publish, Go, TypeOK
  <2> QED  BY <2>1, <2>2
<1>6. ASSUME NEW u \in Reader
      PROVE  SharedAt(u)'
  <2>1. /\ outputs(u)' = outputs(u) /\ readerName(u)' = readerName(u)
        /\ functionsOf(bridge, u)' = functionsOf(bridge, u)
    BY <1>1, <1>2, SameReader DEF outputs, tables, functionsOf
  <2>2. SharedAt(u)  OBVIOUS
  <2>3. CASE u # t
    <3>1. Same(u)  BY <1>1, <2>3, OthersStay
    <3>2. keyPub(u)' = keyPub(u) /\ (Holds(u)' <=> Holds(u))
      BY <3>1, SameThread, SameFunction DEF Same
    <3> QED  BY <1>2, <2>1, <2>2, <3>1, <3>2 DEF SharedAt, Same, tables
  <2>4. CASE u = t
    <3>1. pc'[t] = "lock" \/ Holds(t)' => mutex'[t] = mm_mutex[keyPub(t)']
      <4>1. ~NewMutex(t)  BY DEF SharedAt, NewMutex, At
      <4> QED  BY <1>1, <1>3, <4>1, HeldBefore DEF SharedAt
    <3> QED  BY <1>2, <1>5, <2>1, <2>2, <2>4, <3>1 DEF SharedAt, tables
  <2> QED  BY <2>3, <2>4
<1> QED  BY <1>6

\* No two threads use one output at once.
LEMMA OutputsExclusive ==
    ASSUME BaseInv, SharedInv, NEW t \in Reader, NEW u \in Reader \ {t},
           Holds(t), Holds(u), pc[t] = "transform" \/ Given(t), pc[u] = "transform" \/ Given(u)
    PROVE  output[t] # output[u]
<1> SUFFICES ASSUME output[t] = output[u] PROVE FALSE
  OBVIOUS
<1>1. LockedAt(t) /\ LockedAt(u)  BY DEF BaseInv
<1>2. keyPub(t) = keyPub(u)  BY <1>1 DEF LockedAt
<1>3. readerName(t) = readerName(u)  BY <1>2 DEF keyPub
<1>4. ~IsInjective(bridge.readerName)
  <2>1. bridge.readerName \in [Reader -> Name]
    BY DispatchAssumption DEF BaseInv, TypeOK, WiredBridge
  <2> QED  BY <1>3, <2>1 DEF IsInjective, readerName
<1>5. mutex[t] = mutex[u]  BY <1>2, <1>4 DEF SharedInv, SharedAt
<1> QED  BY <1>1, <1>5 DEF LockedAt

WholeInv == \A t \in Reader : WholeAt(t)

\* What a thread gives to write, and what it publishes, is its own.
LEMMA GivesItsOwn ==
    ASSUME BaseInv, WholeInv, NEW t \in Reader, pc[t] \in {"deserialize", "publish"}
    PROVE  given(t) = Own(t)
<1>1. Transforms(t) => Given(t)  BY GivesData DEF BaseInv
<1>2. CASE Transforms(t)  BY <1>1, <1>2 DEF WholeInv, WholeAt, given
<1>3. CASE ~Transforms(t)  BY <1>3 DEF given, Own, Form, Transforms
<1> QED  BY <1>2, <1>3

LEMMA WholeKept ==
    ASSUME BaseInv, SharedInv, WholeInv, NEW t \in Reader, Receive(t) \/ Step(t)
    PROVE  WholeInv'
<1> SUFFICES ASSUME NEW u \in Reader PROVE WholeAt(u)'
  BY DEF WholeInv
<1>1. TypeOK /\ LocatedAt(t) /\ LockedAt(t) /\ LocatedAt(u) /\ LockedAt(u) /\ bridge' = bridge
  BY OthersStay DEF BaseInv
<1>2. CASE u # t
  <2>1. Same(u) /\ u \in Reader \ {t}  BY <1>1, <1>2, OthersStay
  <2>2. /\ Given(u)' <=> Given(u)
        /\ InBuffer(u)' <=> InBuffer(u)
        /\ Own(u)' = Own(u) /\ pub(u)' = pub(u) /\ output'[u] = output[u]
    BY <2>1, SameThread, SameWriter DEF Same
  <2>3. Given(u) => payload'[output[u]] = payload[output[u]]
    <3>1. CASE pc[t] = "transform" /\ Given(u)
      <4>1. output[t] # output[u] /\ output[u] \in Object
        BY <1>1, <2>1, <3>1, OutputsExclusive DEF Holds, LockedAt
      <4> QED  BY <1>1, <4>1, BuffersChange DEF TypeOK
    <3>2. CASE pc[t] # "transform"  BY <1>1, <3>2, BuffersChange
    <3> QED  BY <3>1, <3>2
  <2>4. InBuffer(u) => m_buffer'[pub(u)] = m_buffer[pub(u)]
    <3> SUFFICES ASSUME InBuffer(u) PROVE m_buffer'[pub(u)] = m_buffer[pub(u)]
      OBVIOUS
    <3>1. pub(u) \in Writer /\ m_bufferMutex[pub(u)] = u
      BY <1>1, GivesData DEF InBuffer, LockedAt
    <3> QED  BY <1>1, <1>2, <3>1, BuffersChange DEF TypeOK
  <2> QED  BY <2>2, <2>3, <2>4 DEF WholeInv, WholeAt
<1>3. CASE u = t
  <2>1. Given(t)' => payload'[output'[t]] = Own(t)'
    <3>1. CASE Transform(t)
      <4>1. /\ output[t] \in Object /\ Transforms(t) /\ output' = output /\ fi' = fi /\ msg' = msg
            /\ funcNames' = funcNames
        BY <1>1, <3>1 DEF Transform, At, LockedAt, LocatedAt, Makes, lists
      <4>2. payload'[output[t]] = [from |-> t, num |-> msg[t], form |-> fName(t)]
        BY <1>1, <3>1, <4>1 DEF Transform, TypeOK
      <4>3. fName(t)' = fName(t) /\ Form(fName(t)) = fName(t)
        BY <1>1, <4>1, SameFunction DEF Form, Transforms
      <4> QED  BY <4>1, <4>2, <4>3 DEF Own, Form
    <3>2. CASE ~Transform(t)  BY <1>1, <3>2, HeldBefore DEF WholeInv, WholeAt
    <3> QED  BY <3>1, <3>2
  <2>2. InBuffer(t)' => m_buffer'[pub(t)'] = Own(t)'
    <3> SUFFICES ASSUME Deserialize(t) PROVE m_buffer'[pub(t)'] = Own(t)'
      BY <1>1, HeldBefore
    <3>1. pub(t) \in Writer /\ given(t) = Own(t)
      BY <1>1, GivesData, GivesItsOwn DEF Deserialize, At
    <3>2. pub(t)' = pub(t) /\ Own(t)' = Own(t)
      <4>1. UNCHANGED <<funcNames, pubs, fi, wi, msg>>  BY DEF Deserialize, lists
      <4> QED  BY <1>1, <4>1, SameFunction, SameWriter DEF Own, Form
    <3> QED  BY <1>1, <3>1, <3>2 DEF Deserialize, TypeOK
  <2> QED  BY <1>3, <2>1, <2>2 DEF WholeAt
<1> QED  BY <1>2, <1>3

-------------------------------------------------------------------------------
(* Every message leaves every writer on its routes, once and in order *)

\* The positions at which a reader's messages go to a writer in a form are one pair
\* at most.
LEMMA RouteIsOne ==
    ASSUME bridge \in Bridges, OneRoute(bridge), NEW r \in Reader, NEW w, NEW v,
           NEW i, NEW j, Route(r, w, v, i, j), NEW i2, NEW j2, Route(r, w, v, i2, j2)
    PROVE  i = i2 /\ j = j2
<1> DEFINE f == functionsOf(bridge, r)[i]
           g == functionsOf(bridge, r)[i2]
           ws == writersOf(bridge, r, f)
           us == writersOf(bridge, r, g)
<1>1. /\ i \in DOMAIN functionsOf(bridge, r) /\ i2 \in DOMAIN functionsOf(bridge, r)
      /\ Form(f) = Form(g)
      /\ j \in DOMAIN ws /\ ws[j] = w
      /\ j2 \in DOMAIN us /\ us[j2] = w
  BY DEF Route
<1>2. f \in FName /\ g \in FName  BY <1>1, Places
<1>3. f = g
  <2> SUFFICES ASSUME f # g PROVE FALSE
    OBVIOUS
  <2>1. f \notin Resolved /\ g \notin Resolved
    BY <1>1, DispatchAssumption DEF Form
  <2>2. w \in Range(ws) /\ w \in Range(us)  BY <1>1 DEF Range
  <2>3. /\ ws = Listed(bridge.mm_writer[<<readerName(r), f>>])
        /\ us = Listed(bridge.mm_writer[<<readerName(r), g>>])
        /\ readerName(r) \in Name
    BY Entries, Places
  <2> QED  BY <1>2, <2>1, <2>2, <2>3 DEF OneRoute
<1>4. i = i2
  <2>1. IsInjective(functionsOf(bridge, r))  BY Places
  <2> QED  BY <1>1, <1>3, <2>1 DEF IsInjective
<1>5. j = j2
  <2>1. IsInjective(ws)  BY <1>2, Places
  <2> QED  BY <1>1, <1>3, <2>1 DEF IsInjective
<1> QED  BY <1>4, <1>5

LEMMA RouteHere ==
    ASSUME TypeOK, NEW t \in Reader, LocatedAt(t), SameAt(t), AtRoute(t)
    PROVE  /\ Route(t, pub(t), Form(fName(t)), fi[t], wi[t])
           /\ InFunction(t)
<1>1. InFunction(t) /\ ~BeforeWriters(t)
  BY DEF AtRoute, InFunction, BeforeWriters, Writes, Makes
<1>2. funcNames[t] = functionsOf(bridge, t) /\ pubs[t] = writersOf(bridge, t, fName(t))
  BY <1>1 DEF SameAt, InFunction
<1> QED
  BY <1>1, <1>2 DEF LocatedAt, Route, Transforms, WrongKind, pub, fName

LEMMA RoutesStay ==
    ASSUME bridge' = bridge, NEW r, NEW w, NEW v
    PROVE  /\ \A i, j : Route(r, w, v, i, j)' <=> Route(r, w, v, i, j)
           /\ Routed(r, w, v)' <=> Routed(r, w, v)
BY SameReader DEF Route, Routed, Form

\* The invariant for one reader, one writer and one form, position by position.
Expected(r, w, i, j) ==
    w \notin m_bTerminating \/ (fi[r] = i /\ wi[r] = j /\ AtRoute(r))

LEMMA ProgressAtPositions ==
    ASSUME TypeOK, NEW r \in Reader, NEW w \in Writer, NEW v \in FName
    PROVE  ProgressOf(r, w, v) <=>
           /\ \A n \in DOMAIN sent[w][r][v] : sent[w][r][v][n] = n
           /\ Len(sent[w][r][v]) <= msg[r]
           /\ ~Routed(r, w, v) => sent[w][r][v] = <<>>
           /\ \A i, j : Route(r, w, v, i, j) /\ Expected(r, w, i, j)
                => Len(sent[w][r][v]) = IF Passed(r, i, j) THEN msg[r] ELSE msg[r] - 1
BY DEF ProgressOf, Expected, Route

\* A step that sends nothing for a reader and leaves it at the same message keeps
\* the invariant if it passes no position at which the message was expected.
LEMMA ProgressStays ==
    ASSUME TypeOK, TypeOK', bridge' = bridge,
           NEW r \in Reader, NEW w \in Writer, NEW v \in FName, ProgressOf(r, w, v),
           sent'[w][r][v] = sent[w][r][v], msg'[r] = msg[r],
           \A i, j : Route(r, w, v, i, j) /\ Expected(r, w, i, j)'
                        => Expected(r, w, i, j) /\ (Passed(r, i, j)' <=> Passed(r, i, j))
    PROVE  ProgressOf(r, w, v)'
<1>1. /\ \A i, j : Route(r, w, v, i, j)' <=> Route(r, w, v, i, j)
      /\ Routed(r, w, v)' <=> Routed(r, w, v)
  BY RoutesStay
<1>2. /\ \A n \in DOMAIN sent[w][r][v] : sent[w][r][v][n] = n
      /\ Len(sent[w][r][v]) <= msg[r]
      /\ ~Routed(r, w, v) => sent[w][r][v] = <<>>
      /\ \A i, j : Route(r, w, v, i, j) /\ Expected(r, w, i, j)
           => Len(sent[w][r][v]) = IF Passed(r, i, j) THEN msg[r] ELSE msg[r] - 1
  BY ProgressAtPositions
<1>3. \A i \in DOMAIN functionsOf(bridge, r)' :
      \A j \in DOMAIN writersOf(bridge, r, functionsOf(bridge, r)[i])' :
        Route(r, w, v, i, j)' /\ Expected(r, w, i, j)'
          => Len(sent'[w][r][v]) = IF Passed(r, i, j)' THEN msg'[r] ELSE msg'[r] - 1
  BY <1>1, <1>2
<1> QED  BY <1>1, <1>2, <1>3 DEF ProgressOf, Expected

\* The steps of a thread in the middle of a message, other than publishing.
LEMMA PassedStays ==
    ASSUME TypeOK, NEW t \in Reader, LocatedAt(t), SameAt(t), Step(t), ~Publish(t),
           NEW w \in Writer, NEW v \in FName, NEW i, NEW j, Route(t, w, v, i, j),
           Expected(t, w, i, j)'
    PROVE  Expected(t, w, i, j) /\ (Passed(t, i, j)' <=> Passed(t, i, j))
<1>1. bridge' = bridge /\ (IsDynamic(t)' <=> IsDynamic(t))  BY OthersStay, SameReader
<1>2. /\ functionsOf(bridge, t) \in Seq(FName)
      /\ i \in DOMAIN functionsOf(bridge, t) /\ functionsOf(bridge, t)[i] \in FName
      /\ i \in Nat \ {0} /\ i <= Len(functionsOf(bridge, t))
  <2>1. functionsOf(bridge, t) \in Seq(FName)  BY Places DEF TypeOK
  <2>2. i \in DOMAIN functionsOf(bridge, t)  BY DEF Route
  <2> QED  BY <2>1, <2>2
<1>3. writersOf(bridge, t, functionsOf(bridge, t)[i]) \in Seq(Writer)
  BY <1>2, Places DEF TypeOK
<1>4. j \in Nat \ {0} /\ j <= Len(writersOf(bridge, t, functionsOf(bridge, t)[i]))
  BY <1>3 DEF Route
<1>5. m_bTerminating' = m_bTerminating
  BY DEF Step, FindFunctions, FindWriters, Return, EnterFunction, FindMutex, NewMutex, Lock,
      FindOutput, NewOutput, Transform, LeaveFunction, SkipWriter, CallWrite, LockBuffer, Deserialize
<1>6. fi[t] \in Nat /\ wi[t] \in Nat  BY DEF TypeOK
<1>7. /\ pc[t] = "functions" \/ InFunction(t) => funcNames[t] = functionsOf(bridge, t)
      /\ fi[t] = i /\ InFunction(t) => fName(t) = functionsOf(bridge, t)[i]
      /\ fi[t] = i /\ pc[t] = "writers"
            => pubs[t] = writersOf(bridge, t, functionsOf(bridge, t)[i])
  BY DEF SameAt, InFunction, BeforeWriters, Makes, fName
<1> USE <1>1, <1>2, <1>4, <1>5, <1>6
        DEF Expected, Passed, InFunction, AtRoute, Writes, Makes, At, Go, TypeOK
<1>8. CASE Return(t)
  <2>1. pc[t] = "functions" /\ pc'[t] = "idle" /\ fi' = fi /\ fi[t] > Len(funcNames[t])
    BY <1>8 DEF Return
  <2> QED  BY <1>7, <2>1
<1>9. CASE EnterFunction(t)
  <2>1. pc'[t] \in {"findWriters", "findMutex"} /\ (pc'[t] = "findMutex" => ~IsDynamic(t))
    BY <1>9 DEF EnterFunction, AtFunction
  <2>2. pc[t] = "functions" /\ wi'[t] = 1 /\ fi' = fi  BY <1>9 DEF EnterFunction
  <2> QED  BY <2>1, <2>2
<1>10. CASE FindMutex(t) \/ NewMutex(t) \/ Lock(t) \/ FindOutput(t) \/ NewOutput(t)
  <2>1. pc[t] \in Makes /\ pc'[t] \in Makes /\ fi' = fi /\ wi' = wi
    BY <1>10 DEF FindMutex, NewMutex, Lock, FindOutput, NewOutput
  <2> QED  BY <2>1
<1>11. CASE Transform(t)
  <2>1. pc[t] = "transform" /\ pc'[t] = (IF IsDynamic(t) THEN "publish" ELSE "findWriters")
        /\ fi' = fi /\ wi' = wi
    BY <1>11 DEF Transform
  <2> QED  BY <2>1
<1>12. CASE LockBuffer(t) \/ Deserialize(t)
  <2>1. pc[t] \in Writes /\ pc'[t] \in Writes /\ fi' = fi /\ wi' = wi
    BY <1>12 DEF LockBuffer, Deserialize
  <2> QED  BY <2>1
<1>13. CASE LeaveFunction(t)
  <2>1. pc[t] = "writers" /\ pc'[t] = "functions" /\ fi'[t] = fi[t] + 1 /\ wi' = wi
        /\ wi[t] > Len(pubs[t])
    BY <1>13 DEF LeaveFunction
  <2>2. fi[t] = i => wi[t] > j  BY <1>3, <1>7, <2>1
  <2> QED  BY <2>1, <2>2
<1>14. CASE SkipWriter(t)
  <2>1. pc[t] = "writers" /\ pc'[t] = "writers" /\ fi' = fi /\ wi'[t] = wi[t] + 1 /\ Skipped(t)
    BY <1>14 DEF SkipWriter
  <2>2. w \notin m_bTerminating  BY <2>1
  <2>3. ~(fi[t] = i /\ wi[t] = j)
    <3> SUFFICES ASSUME fi[t] = i, wi[t] = j PROVE FALSE
      OBVIOUS
    <3>1. pub(t) = w /\ ~WrongKind(t)
      BY <1>7, <2>1 DEF Route, pub, WrongKind, Transforms
    <3> QED  BY <2>1, <2>2, <3>1 DEF Skipped
  <2> QED  BY <2>1, <2>2, <2>3
<1>15. CASE CallWrite(t)
  <2>1. pc[t] = "writers" /\ pc'[t] = AtWriter(t) /\ fi' = fi /\ wi' = wi /\ ~Skipped(t)
    BY <1>15 DEF CallWrite
  <2>2. pc'[t] \in {"findMutex", "publish", "lockBuffer"}  BY <2>1 DEF AtWriter
  <2>3. fi[t] = i /\ wi[t] = j => pub(t) = w  BY <1>7, <2>1 DEF Route, pub
  <2>4. w \notin m_bTerminating  BY <2>1, <2>3 DEF Skipped
  <2> QED  BY <2>1, <2>2, <2>4
<1>16. CASE FindFunctions(t) \/ FindWriters(t)
  <2>1. /\ fi' = fi /\ wi' = wi
        /\ \/ pc[t] = "findFunctions" /\ pc'[t] = "functions"
           \/ pc[t] = "findWriters" /\ pc'[t] = "writers"
    BY <1>16, FindsFunctions, FindsWriters
  <2> QED  BY <2>1
<1> QED
  BY <1>8, <1>9, <1>10, <1>11, <1>12, <1>13, <1>14, <1>15, <1>16 DEF Step

LEMMA SentElsewhere ==
    ASSUME NEW s \in [Writer -> [Reader -> [FName -> Seq(Nat)]]],
           NEW w \in Writer, NEW r \in Reader, NEW f \in FName, NEW n,
           NEW w2 \in Writer, NEW r2 \in Reader, NEW f2 \in FName, <<w, r, f>> # <<w2, r2, f2>>,
           NEW after, after = [s EXCEPT ![w][r][f] = Append(@, n)]
    PROVE  after[w2][r2][f2] = s[w2][r2][f2]
<1> DEFINE a == [s[w][r] EXCEPT ![f] = Append(s[w][r][f], n)]
           b == [s[w] EXCEPT ![r] = a]
<1>1. after = [s EXCEPT ![w] = b]  OBVIOUS
<1>2. f2 # f => a[f2] = s[w][r][f2]  OBVIOUS
<1> HIDE DEF a
<1>3. /\ r2 # r => b[r2] = s[w][r2]
      /\ b[r] = a
  OBVIOUS
<1> HIDE DEF b
<1>4. /\ w2 # w => [s EXCEPT ![w] = b][w2] = s[w2]
      /\ [s EXCEPT ![w] = b][w] = b
  OBVIOUS
<1> QED  BY <1>1, <1>2, <1>3, <1>4

ProgressInv == \A r \in Reader, w \in Writer, v \in FName : ProgressOf(r, w, v)

\* What a thread publishes: its message, to the writer at its position in the form
\* of its function.
LEMMA PublishesItsOwn ==
    ASSUME BaseInv, WholeInv, NEW t \in Reader, Publish(t)
    PROVE  /\ pub(t) \in Writer /\ Form(fName(t)) \in FName
           /\ sent' = [sent EXCEPT ![pub(t)][t][Form(fName(t))] = Append(@, msg[t])]
<1> DEFINE d == IF Direct(t) THEN given(t) ELSE m_buffer[pub(t)]
<1>1. pc[t] = "publish" /\ TypeOK /\ LocatedAt(t) /\ LockedAt(t)  BY DEF Publish, At, BaseInv
<1>2. d = Own(t)
  <2>1. CASE Direct(t)  BY <1>1, <2>1, GivesItsOwn
  <2>2. CASE ~Direct(t)  BY <1>1, <2>2 DEF WholeInv, WholeAt, InBuffer
  <2> QED  BY <2>1, <2>2
<1>3. sent' = [sent EXCEPT ![pub(t)][d.from][d.form] = Append(@, d.num)]  BY DEF Publish
<1> HIDE DEF d
<1>4. d.from = t /\ d.form = Form(fName(t)) /\ d.num = msg[t]  BY <1>2 DEF Own
<1>5. pub(t) \in Writer /\ fName(t) \in FName
  BY <1>1, GivesData, Here DEF LocatedAt, InFunction, TypeOK
<1> QED  BY <1>3, <1>4, <1>5, DispatchAssumption DEF Form

LEMMA ProgressKept ==
    ASSUME BaseInv, SharedInv, WholeInv, RoutesInv, ProgressInv, OneRoute(bridge),
           NEW t \in Reader, Receive(t) \/ Step(t)
    PROVE  ProgressInv'
<1> SUFFICES ASSUME NEW r \in Reader, NEW w \in Writer, NEW v \in FName
             PROVE  ProgressOf(r, w, v)'
  BY DEF ProgressInv
<1>1. /\ TypeOK /\ LocatedAt(t) /\ LockedAt(t) /\ SameAt(t)
      /\ bridge' = bridge /\ TypeOK' /\ ProgressOf(r, w, v)
  BY OthersStay, TypesKept DEF BaseInv, RoutesInv, ProgressInv
<1>2. /\ \A n \in DOMAIN sent[w][r][v] : sent[w][r][v][n] = n
      /\ Len(sent[w][r][v]) <= msg[r]
      /\ ~Routed(r, w, v) => sent[w][r][v] = <<>>
      /\ \A i, j : Route(r, w, v, i, j) /\ Expected(r, w, i, j)
           => Len(sent[w][r][v]) = IF Passed(r, i, j) THEN msg[r] ELSE msg[r] - 1
  BY <1>1, ProgressAtPositions
<1>3. sent[w][r][v] \in Seq(Nat) /\ msg[r] \in Nat  BY <1>1 DEF TypeOK
<1>4. ~Publish(t) => sent' = sent
  BY DEF Step, FindFunctions, FindWriters, Receive, Return, EnterFunction, FindMutex, NewMutex,
      Lock, FindOutput, NewOutput,
      Transform, LeaveFunction, SkipWriter, CallWrite, LockBuffer, Deserialize, ends
<1>5. CASE r # t
  <2>1. sent'[w][r][v] = sent[w][r][v]
    <3>1. CASE Publish(t)
      <4>1. <<pub(t), t, Form(fName(t))>> # <<w, r, v>>  BY <1>5
      <4>2. /\ pub(t) \in Writer /\ Form(fName(t)) \in FName
            /\ sent' = [sent EXCEPT ![pub(t)][t][Form(fName(t))] = Append(@, msg[t])]
        BY <3>1, PublishesItsOwn
      <4>3. sent \in [Writer -> [Reader -> [FName -> Seq(Nat)]]]  BY <1>1 DEF TypeOK
      <4> QED  BY <4>1, <4>2, <4>3, SentElsewhere
    <3> QED  BY <1>4, <3>1
  <2>2. Same(r) /\ m_bTerminating' = m_bTerminating
    BY <1>1, <1>5, OthersStay
    DEF Step, FindFunctions, FindWriters, Receive, Return, EnterFunction, FindMutex, NewMutex,
      Lock, FindOutput, NewOutput,
      Transform, LeaveFunction, SkipWriter, CallWrite, LockBuffer, Deserialize, Publish
  <2>3. \A i, j : /\ Expected(r, w, i, j)' <=> Expected(r, w, i, j)
                  /\ Passed(r, i, j)' <=> Passed(r, i, j)
    BY <2>2, SameThread DEF Expected, Passed, Same
  <2> QED  BY <1>1, <2>1, <2>2, <2>3, ProgressStays DEF Same
<1>6. CASE r = t /\ Step(t) /\ ~Publish(t)
  <2>1. msg' = msg
    BY <1>6 DEF Step, FindFunctions, FindWriters, Return, EnterFunction, FindMutex, NewMutex,
      Lock, FindOutput, NewOutput,
      Transform, LeaveFunction, SkipWriter, CallWrite, LockBuffer, Deserialize
  <2>2. \A i, j : Route(r, w, v, i, j) /\ Expected(r, w, i, j)'
                     => Expected(r, w, i, j) /\ (Passed(r, i, j)' <=> Passed(r, i, j))
    BY <1>1, <1>6, PassedStays
  <2> QED  BY <1>1, <1>4, <1>6, <2>1, <2>2, ProgressStays
<1>7. CASE r = t /\ Receive(t)
  <2>1. /\ pc[t] = "idle" /\ pc'[t] = "findFunctions"
        /\ msg'[t] = msg[t] + 1 /\ fi'[t] = 1 /\ UNCHANGED <<sent, m_bTerminating>>
    BY <1>1, <1>7 DEF Receive, At, Go, TypeOK, ends
  <2>2. ASSUME NEW i, NEW j, Route(r, w, v, i, j), Expected(r, w, i, j)'
        PROVE  Len(sent'[w][r][v]) = IF Passed(r, i, j)' THEN msg'[r] ELSE msg'[r] - 1
    <3>1. ~AtRoute(t)'  BY <2>1 DEF AtRoute, Writes, Makes
    <3>2. w \notin m_bTerminating  BY <1>7, <2>1, <2>2, <3>1 DEF Expected
    <3>3. Len(sent[w][r][v]) = msg[r]
      BY <1>2, <1>7, <2>1, <2>2, <3>2 DEF Expected, Passed
    <3>4. i \in Nat \ {0}
      <4>1. functionsOf(bridge, r) \in Seq(FName) /\ i \in DOMAIN functionsOf(bridge, r)
        BY <1>1, <2>2, Places DEF Route, TypeOK
      <4> QED  BY <4>1
    <3>5. ~Passed(r, i, j)'  BY <1>7, <2>1, <3>4 DEF Passed, InFunction
    <3> QED  BY <1>3, <1>7, <2>1, <3>3, <3>5
  <2>3. Len(sent'[w][r][v]) <= msg'[r]  BY <1>2, <1>3, <1>7, <2>1
  <2>4. /\ \A i, j : Route(r, w, v, i, j)' <=> Route(r, w, v, i, j)
        /\ Routed(r, w, v)' <=> Routed(r, w, v)
    BY <1>1, RoutesStay
  <2>5. \A i \in DOMAIN functionsOf(bridge, r)' :
        \A j \in DOMAIN writersOf(bridge, r, functionsOf(bridge, r)[i])' :
          Route(r, w, v, i, j)' /\ Expected(r, w, i, j)'
            => Len(sent'[w][r][v]) = IF Passed(r, i, j)' THEN msg'[r] ELSE msg'[r] - 1
    BY <2>2, <2>4
  <2> QED  BY <1>2, <2>1, <2>3, <2>4, <2>5 DEF ProgressOf, Expected
<1>8. CASE r = t /\ Publish(t)
  <2>1. /\ pc[t] = "publish" /\ pc'[t] = "writers" /\ msg' = msg /\ fi' = fi
        /\ wi'[t] = wi[t] + 1 /\ m_bTerminating' = m_bTerminating
    BY <1>1, <1>8 DEF Publish, At, Go, TypeOK
  <2>2. AtRoute(t) /\ ~AtRoute(t)'  BY <2>1 DEF AtRoute, Writes, Makes
  <2>3. /\ Route(t, pub(t), Form(fName(t)), fi[t], wi[t])
        /\ InFunction(t)
    BY <1>1, <2>2, RouteHere
  <2>4. CASE w = pub(t) /\ v = Form(fName(t))
    <3>1. sent'[w][r][v] = Append(sent[w][r][v], msg[r])
      <4>1. /\ w \in Writer /\ v \in FName
            /\ sent' = [sent EXCEPT ![w][r][v] = Append(@, msg[r])]
        BY <1>1, <1>8, <2>4, PublishesItsOwn
      <4>2. sent \in [Writer -> [Reader -> [FName -> Seq(Nat)]]]  BY <1>1 DEF TypeOK
      <4> QED  BY <4>1, <4>2
    <3>2. Len(sent[w][r][v]) = msg[r] - 1
      <4>1. Expected(r, w, fi[t], wi[t]) /\ ~Passed(r, fi[t], wi[t])
        BY <1>1, <1>8, <2>1, <2>2 DEF Expected, Passed, TypeOK
      <4> QED  BY <1>2, <1>8, <2>3, <2>4, <4>1
    <3>3. Len(sent'[w][r][v]) = msg'[r] /\ \A n \in DOMAIN sent'[w][r][v] : sent'[w][r][v][n] = n
      BY <1>2, <1>3, <2>1, <3>1, <3>2
    <3>4. \A i, j : Route(r, w, v, i, j) => Passed(r, i, j)'
      <4>1. \A i, j : Route(r, w, v, i, j) => i = fi[t] /\ j = wi[t]
        BY <1>1, <1>8, <2>3, <2>4, RouteIsOne DEF TypeOK
      <4> QED  BY <1>1, <1>8, <2>1, <4>1 DEF Passed, InFunction, TypeOK
    <3>5. Routed(r, w, v)
      BY <1>8, <2>3, <2>4 DEF Routed, Route
    <3>6. /\ \A i, j : Route(r, w, v, i, j)' <=> Route(r, w, v, i, j)
          /\ Routed(r, w, v)' <=> Routed(r, w, v)
      BY <1>1, RoutesStay
    <3>7. \A i \in DOMAIN functionsOf(bridge, r)' :
          \A j \in DOMAIN writersOf(bridge, r, functionsOf(bridge, r)[i])' :
            Route(r, w, v, i, j)' /\ Expected(r, w, i, j)'
              => Len(sent'[w][r][v]) = IF Passed(r, i, j)' THEN msg'[r] ELSE msg'[r] - 1
      BY <3>3, <3>4, <3>6
    <3>8. Len(sent'[w][r][v]) <= msg'[r]  BY <1>3, <2>1, <3>3
    <3> QED  BY <3>3, <3>5, <3>6, <3>7, <3>8 DEF ProgressOf, Expected
  <2>5. CASE ~(w = pub(t) /\ v = Form(fName(t)))
    <3>1. sent'[w][r][v] = sent[w][r][v]
      <4>1. <<pub(t), t, Form(fName(t))>> # <<w, r, v>>  BY <2>5
      <4>2. /\ pub(t) \in Writer /\ Form(fName(t)) \in FName
            /\ sent' = [sent EXCEPT ![pub(t)][t][Form(fName(t))] = Append(@, msg[t])]
        BY <1>8, PublishesItsOwn
      <4>3. sent \in [Writer -> [Reader -> [FName -> Seq(Nat)]]]  BY <1>1 DEF TypeOK
      <4> QED  BY <4>1, <4>2, <4>3, SentElsewhere
    <3>2. ASSUME NEW i, NEW j, Route(r, w, v, i, j), Expected(r, w, i, j)'
          PROVE  Expected(r, w, i, j) /\ (Passed(r, i, j)' <=> Passed(r, i, j))
      <4>1. Expected(r, w, i, j)  BY <1>8, <2>1, <2>2, <3>2 DEF Expected
      <4>2. ~(i = fi[t] /\ j = wi[t])
        BY <1>8, <2>3, <2>5, <3>2 DEF Route
      <4>3. j \in Nat
        <5>1. i \in DOMAIN functionsOf(bridge, r) /\ functionsOf(bridge, r) \in Seq(FName)
          BY <1>1, <3>2, Places DEF Route, TypeOK
        <5>2. functionsOf(bridge, r)[i] \in FName  BY <5>1
        <5>3. writersOf(bridge, r, functionsOf(bridge, r)[i]) \in Seq(Writer)
          BY <1>1, <5>2, Places DEF TypeOK
        <5> QED  BY <3>2, <5>3 DEF Route
      <4> QED  BY <1>1, <1>8, <2>1, <4>1, <4>2, <4>3 DEF Passed, InFunction, TypeOK
    <3> QED  BY <1>1, <2>1, <3>1, <3>2, ProgressStays
  <2> QED  BY <2>4, <2>5
<1> QED  BY <1>5, <1>6, <1>7, <1>8

-------------------------------------------------------------------------------
(* No message leaves a writer in one form twice *)

OnceInv == \A r \in Reader, w \in Writer, v \in FName : OnceOf(r, w, v)

\* The functions of one form whose routes have a writer in common are one.
LEMMA OneFunction ==
    ASSUME bridge \in Bridges, OneRoute(bridge), NEW r \in Reader,
           NEW f \in FName, NEW g \in FName, Form(f) = Form(g),
           NEW i \in DOMAIN writersOf(bridge, r, f), NEW j \in DOMAIN writersOf(bridge, r, g),
           writersOf(bridge, r, f)[i] = writersOf(bridge, r, g)[j]
    PROVE  f = g
<1> SUFFICES ASSUME f # g PROVE FALSE
  OBVIOUS
<1>1. f \notin Resolved /\ g \notin Resolved
  BY DispatchAssumption DEF Form
<1>2. writersOf(bridge, r, f)[i] \in Range(writersOf(bridge, r, f)) \cap Range(writersOf(bridge, r, g))
  BY DEF Range
<1>3. /\ writersOf(bridge, r, f) = Listed(bridge.mm_writer[<<readerName(r), f>>])
      /\ writersOf(bridge, r, g) = Listed(bridge.mm_writer[<<readerName(r), g>>])
      /\ readerName(r) \in Name
  BY Entries, Places
<1> QED  BY <1>1, <1>2, <1>3 DEF OneRoute

\* A thread's list of functions has none twice, whether it found what was wired or
\* nothing.
LEMMA CopyIsInjective ==
    ASSUME bridge \in Bridges, NEW t \in Reader, CopiedAt(t), pc[t] \notin {"idle", "findFunctions"}
    PROVE  funcNames[t] \in Seq(FName) /\ IsInjective(funcNames[t])
<1>1. funcNames[t] \in {functionsOf(bridge, t), NoFunctions(t)}  BY DEF CopiedAt
<1>2. functionsOf(bridge, t) \in Seq(FName) /\ IsInjective(functionsOf(bridge, t))  BY Places
<1>3. NoFunctions(t) \in Seq(FName) /\ IsInjective(NoFunctions(t))
  BY DispatchAssumption DEF NoFunctions, OrNoFunction, IsInjective
<1> QED  BY <1>1, <1>2, <1>3

\* What a thread is about to publish has not left the writer in that form.
LEMMA NotYetSent ==
    ASSUME BaseInv, OneRoute(bridge), NEW t \in Reader, pc[t] = "publish",
           OnceOf(t, pub(t), Form(fName(t)))
    PROVE  /\ fi[t] \in DOMAIN funcNames[t]
           /\ wi[t] \in DOMAIN writersOf(bridge, t, fName(t))
           /\ writersOf(bridge, t, fName(t))[wi[t]] = pub(t)
           /\ msg[t] \notin Range(sent[pub(t)][t][Form(fName(t))])
<1>1. TypeOK /\ LocatedAt(t) /\ CopiedAt(t)  BY DEF BaseInv
<1>2. InFunction(t) /\ ~BeforeWriters(t) /\ AtRoute(t)
  BY DEF InFunction, BeforeWriters, AtRoute, Makes, Writes
<1>3. fi[t] \in DOMAIN funcNames[t] /\ wi[t] \in DOMAIN pubs[t]  BY <1>1, <1>2 DEF LocatedAt
<1>4. fName(t) \in FName  BY <1>1, <1>3, Here
<1>5. pubs[t] = writersOf(bridge, t, fName(t))
  <2>1. pubs[t] # <<>>  BY <1>3
  <2> QED  BY <1>1, <1>2, <2>1 DEF CopiedAt
<1>6. wi[t] \in DOMAIN writersOf(bridge, t, fName(t)) /\ writersOf(bridge, t, fName(t))[wi[t]] = pub(t)
  BY <1>3, <1>5 DEF pub
<1>7. ASSUME msg[t] \in Range(sent[pub(t)][t][Form(fName(t))])
      PROVE  FALSE
  <2>1. PICK i \in DOMAIN funcNames[t] :
            \E j \in DOMAIN writersOf(bridge, t, funcNames[t][i]) :
                Took(t, pub(t), Form(fName(t)), i, j)
    BY <1>7 DEF OnceOf
  <2>2. PICK j \in DOMAIN writersOf(bridge, t, funcNames[t][i]) :
            Took(t, pub(t), Form(fName(t)), i, j)
    BY <2>1
  <2>3. funcNames[t] \in Seq(FName) /\ IsInjective(funcNames[t])
    BY <1>1, CopyIsInjective DEF TypeOK
  <2>4. funcNames[t][i] \in FName  BY <2>3
  <2>5. funcNames[t][i] = fName(t)
    BY <1>1, <1>4, <1>6, <2>2, <2>4, OneFunction DEF Took, TypeOK
  <2>6. i = fi[t]  BY <1>3, <2>3, <2>5 DEF IsInjective, fName
  <2>7. wi[t] > j  BY <1>1, <2>2, <2>3, <2>6 DEF Took, Passed, TypeOK
  <2>8. IsInjective(writersOf(bridge, t, fName(t)))  BY <1>1, <1>4, Places DEF TypeOK
  <2>9. j = wi[t]  BY <1>6, <2>2, <2>5, <2>8 DEF IsInjective, Took
  <2> QED  BY <1>1, <2>7, <2>9 DEF TypeOK
<1> QED  BY <1>3, <1>6, <1>7

\* No step of a message takes its thread back to a position it has passed.
LEMMA NothingUnpassed ==
    ASSUME TypeOK, NEW t \in Reader, Step(t), pc[t] # "idle", NEW i \in Nat, NEW j \in Nat,
           Passed(t, i, j)
    PROVE  Passed(t, i, j)'
<1> USE DEF TypeOK, Passed, InFunction, At, Go
<1>1. fi[t] \in Nat /\ wi[t] \in Nat  OBVIOUS
<1>2. CASE Return(t)  BY <1>2 DEF Return
<1>3. CASE EnterFunction(t)  BY <1>3 DEF EnterFunction
<1>4. CASE LeaveFunction(t)
  <2>1. fi'[t] = fi[t] + 1  BY <1>4 DEF LeaveFunction
  <2> QED  BY <1>1, <2>1
<1>5. CASE SkipWriter(t) \/ Publish(t)
  <2>1. fi' = fi /\ wi'[t] = wi[t] + 1 /\ pc'[t] = "writers"  BY <1>5 DEF SkipWriter, Publish
  <2> QED  BY <1>1, <2>1
<1>6. CASE FindFunctions(t) \/ FindWriters(t)  BY <1>6, FindsFunctions, FindsWriters
<1>7. CASE FindMutex(t) \/ NewMutex(t) \/ Lock(t) \/ FindOutput(t) \/ NewOutput(t) \/ Transform(t)
  BY <1>7 DEF FindMutex, NewMutex, Lock, FindOutput, NewOutput, Transform
<1>8. CASE CallWrite(t) \/ LockBuffer(t) \/ Deserialize(t)
  BY <1>8 DEF CallWrite, AtWriter, LockBuffer, Deserialize
<1> QED  BY <1>2, <1>3, <1>4, <1>5, <1>6, <1>7, <1>8 DEF Step

\* A step that sends nothing for a reader and leaves it at the same message.
LEMMA OnceStays ==
    ASSUME TypeOK, bridge' = bridge,
           NEW r \in Reader, NEW w \in Writer, NEW v \in FName, OnceOf(r, w, v),
           sent'[w][r][v] = sent[w][r][v], msg'[r] = msg[r],
           pc[r] = "idle" => pc'[r] = "idle",
           pc[r] \notin {"idle", "findFunctions"} =>
                /\ funcNames'[r] = funcNames[r] /\ pc'[r] # "findFunctions"
                /\ \A i, j \in Nat : Passed(r, i, j) => Passed(r, i, j)'
    PROVE  OnceOf(r, w, v)'
<1>1. \A n \in DOMAIN sent'[w][r][v] :
            sent'[w][r][v][n] <= msg'[r] /\ \A m \in 1..(n - 1) : sent'[w][r][v][m] < sent'[w][r][v][n]
  BY DEF OnceOf
<1>2. ASSUME msg'[r] \in Range(sent'[w][r][v]), pc'[r] # "idle"
      PROVE  /\ pc'[r] # "findFunctions"
             /\ \E i \in DOMAIN funcNames'[r] :
                \E j \in DOMAIN writersOf(bridge, r, funcNames[r][i])' : Took(r, w, v, i, j)'
  <2>1. pc[r] \notin {"idle", "findFunctions"}
    BY <1>2 DEF OnceOf
  <2>2. PICK i \in DOMAIN funcNames[r] :
            \E j \in DOMAIN writersOf(bridge, r, funcNames[r][i]) : Took(r, w, v, i, j)
    BY <1>2, <2>1 DEF OnceOf
  <2>3. PICK j \in DOMAIN writersOf(bridge, r, funcNames[r][i]) : Took(r, w, v, i, j)
    BY <2>2
  <2>4. funcNames'[r] = funcNames[r] /\ writersOf(bridge, r, funcNames[r][i])' = writersOf(bridge, r, funcNames[r][i])
    BY <2>1, SameReader DEF writersOf
  <2>5. i \in Nat /\ j \in Nat
    <3>1. funcNames[r] \in Seq(FName)  BY DEF TypeOK
    <3>2. i \in Nat /\ funcNames[r][i] \in FName  BY <3>1
    <3>3. writersOf(bridge, r, funcNames[r][i]) \in Seq(Writer)  BY <3>2, Places DEF TypeOK
    <3> QED  BY <3>2, <3>3
  <2>6. Took(r, w, v, i, j)'  BY <2>1, <2>3, <2>4, <2>5 DEF Took, Form
  <2> QED  BY <2>1, <2>2, <2>3, <2>4, <2>6
<1> QED  BY <1>1, <1>2 DEF OnceOf, Range

\* A greater number at the end keeps a sequence in order.
LEMMA Appended ==
    ASSUME NEW s \in Seq(Nat), NEW N \in Nat,
           \A n \in DOMAIN s : s[n] <= N /\ \A m \in 1..(n - 1) : s[m] < s[n],
           \A n \in DOMAIN s : s[n] # N
    PROVE  \A n \in DOMAIN Append(s, N) :
                /\ Append(s, N)[n] <= N
                /\ \A m \in 1..(n - 1) : Append(s, N)[m] < Append(s, N)[n]
<1>1. \A n \in 1..Len(s) : s[n] \in Nat /\ s[n] < N
  OBVIOUS
<1>2. \A n \in 1..Len(s) : Append(s, N)[n] = s[n]
  OBVIOUS
<1>3. Append(s, N)[Len(s) + 1] = N /\ DOMAIN Append(s, N) = 1..(Len(s) + 1) /\ Len(s) \in Nat
  OBVIOUS
<1> SUFFICES ASSUME NEW n \in 1..(Len(s) + 1)
             PROVE  /\ Append(s, N)[n] <= N
                    /\ \A m \in 1..(n - 1) : Append(s, N)[m] < Append(s, N)[n]
  BY <1>3
<1>4. CASE n = Len(s) + 1
  <2>1. \A m \in 1..(n - 1) : m \in 1..Len(s)  BY <1>3, <1>4
  <2> QED  BY <1>1, <1>2, <1>3, <1>4, <2>1
<1>5. CASE n # Len(s) + 1
  <2>1. n \in DOMAIN s /\ n \in 1..Len(s)  BY <1>3, <1>5
  <2>2. \A m \in 1..(n - 1) : m \in 1..Len(s)  BY <2>1
  <2>3. s[n] <= N /\ \A m \in 1..(n - 1) : s[m] < s[n]  BY <2>1
  <2> QED  BY <1>2, <2>1, <2>2, <2>3
<1> QED  BY <1>4, <1>5

LEMMA OnceKept ==
    ASSUME BaseInv, WholeInv, OnceInv, OneRoute(bridge), NEW t \in Reader, Receive(t) \/ Step(t)
    PROVE  OnceInv'
<1> SUFFICES ASSUME NEW r \in Reader, NEW w \in Writer, NEW v \in FName
             PROVE  OnceOf(r, w, v)'
  BY DEF OnceInv
<1>1. TypeOK /\ bridge' = bridge /\ OnceOf(r, w, v)
  BY OthersStay DEF BaseInv, OnceInv
<1>2. /\ sent[w][r][v] \in Seq(Nat) /\ msg[r] \in Nat
      /\ sent \in [Writer -> [Reader -> [FName -> Seq(Nat)]]]
  BY <1>1 DEF TypeOK
<1>3. \A n \in DOMAIN sent[w][r][v] :
            sent[w][r][v][n] <= msg[r] /\ \A m \in 1..(n - 1) : sent[w][r][v][m] < sent[w][r][v][n]
  BY <1>1 DEF OnceOf
<1>4. ~Publish(t) => sent' = sent
  BY DEF Step, FindFunctions, FindWriters, Receive, Return, EnterFunction, FindMutex, NewMutex,
      Lock, FindOutput, NewOutput, Transform, LeaveFunction, SkipWriter, CallWrite, LockBuffer,
      Deserialize, ends
<1>5. ASSUME Publish(t), <<pub(t), t, Form(fName(t))>> # <<w, r, v>>
      PROVE  sent'[w][r][v] = sent[w][r][v]
  <2>1. /\ pub(t) \in Writer /\ Form(fName(t)) \in FName
        /\ sent' = [sent EXCEPT ![pub(t)][t][Form(fName(t))] = Append(@, msg[t])]
    BY <1>5, PublishesItsOwn
  <2> QED  BY <1>2, <1>5, <2>1, SentElsewhere
<1>6. CASE r # t
  <2>1. Same(r) /\ sent'[w][r][v] = sent[w][r][v]  BY <1>1, <1>4, <1>5, <1>6, OthersStay
  <2>2. \A i, j \in Nat : Passed(r, i, j) => Passed(r, i, j)'
    BY <2>1, SameThread DEF Passed, Same
  <2> QED  BY <1>1, <2>1, <2>2, OnceStays DEF Same
<1>7. CASE r = t /\ Receive(t)
  <2>1. sent' = sent /\ msg'[r] = msg[r] + 1
    BY <1>1, <1>4, <1>7 DEF Receive, Publish, At, TypeOK, ends
  <2>2. msg'[r] \notin Range(sent'[w][r][v])  BY <1>2, <1>3, <2>1 DEF Range
  <2>3. \A n \in DOMAIN sent'[w][r][v] : sent'[w][r][v][n] <= msg'[r]  BY <1>2, <1>3, <2>1
  <2> QED  BY <1>3, <2>1, <2>2, <2>3 DEF OnceOf, Range
<1>8. CASE r = t /\ Step(t) /\ ~(Publish(t) /\ w = pub(t) /\ v = Form(fName(t)))
  <2>1. sent'[w][r][v] = sent[w][r][v]  BY <1>4, <1>5, <1>8
  <2>2. /\ msg' = msg /\ pc[t] # "idle" /\ pc'[t] # "findFunctions"
        /\ pc[t] # "findFunctions" => ~FindFunctions(t)
    BY <1>1, <1>8 DEF Step, FindFunctions, FindWriters, Return, EnterFunction, AtFunction,
        FindMutex, NewMutex, Lock, FindOutput, NewOutput, Transform, LeaveFunction, SkipWriter,
        CallWrite, AtWriter, LockBuffer, Deserialize, Publish, At, Go, TypeOK
  <2>3. pc[r] \notin {"idle", "findFunctions"} => funcNames' = funcNames
    BY <1>1, <1>8, <2>2, ListsKept
  <2>4. \A i, j \in Nat : Passed(r, i, j) => Passed(r, i, j)'
    BY <1>1, <1>8, <2>2, NothingUnpassed
  <2> QED  BY <1>1, <1>8, <2>1, <2>2, <2>3, <2>4, OnceStays
<1>9. CASE r = t /\ Publish(t) /\ w = pub(t) /\ v = Form(fName(t))
  <2>1. /\ pc[t] = "publish" /\ pc'[t] = "writers" /\ msg' = msg /\ fi' = fi
        /\ funcNames' = funcNames /\ wi'[t] = wi[t] + 1
    BY <1>1, <1>9 DEF Publish, At, Go, TypeOK, lists
  <2>2. /\ fi[t] \in DOMAIN funcNames[t]
        /\ wi[t] \in DOMAIN writersOf(bridge, t, fName(t))
        /\ writersOf(bridge, t, fName(t))[wi[t]] = w
        /\ msg[t] \notin Range(sent[w][t][v])
    BY <1>1, <1>9, <2>1, NotYetSent
  <2>3. sent'[w][r][v] = Append(sent[w][r][v], msg[r])
    <3>1. sent' = [sent EXCEPT ![w][r][v] = Append(@, msg[r])]  BY <1>9, PublishesItsOwn
    <3> QED  BY <1>2, <3>1
  <2>4. \A n \in DOMAIN sent'[w][r][v] : /\ sent'[w][r][v][n] <= msg'[r]
                                         /\ \A m \in 1..(n - 1) : sent'[w][r][v][m] < sent'[w][r][v][n]
    <3> DEFINE s == sent[w][r][v]
               N == msg[r]
    <3>1. s \in Seq(Nat) /\ N \in Nat  BY <1>2
    <3>2. \A n \in DOMAIN s : s[n] <= N /\ \A m \in 1..(n - 1) : s[m] < s[n]  BY <1>3
    <3>3. \A n \in DOMAIN s : s[n] # N  BY <1>9, <2>2 DEF Range
    <3>4. sent'[w][r][v] = Append(s, N) /\ msg'[r] = N  BY <2>1, <2>3
    <3> HIDE DEF s, N
    <3> QED  BY <3>1, <3>2, <3>3, <3>4, Appended
  <2>5. ASSUME NEW i, NEW j, i = fi[t], j = wi[t]
        PROVE  Took(t, w, v, i, j)'
    <3>1. funcNames'[t][i] = fName(t)  BY <2>1, <2>5 DEF fName
    <3>2. writersOf(bridge', t, funcNames'[t][i]) = writersOf(bridge, t, fName(t))
      BY <1>1, <3>1
    <3>3. Passed(t, i, j)'
      <4>1. wi[t] \in Nat  BY <1>1 DEF TypeOK
      <4> QED  BY <2>1, <2>5, <4>1 DEF Passed, InFunction
    <3> QED  BY <1>9, <2>2, <2>5, <3>1, <3>2, <3>3 DEF Took, Form
  <2>6. \E i \in DOMAIN funcNames'[t] :
        \E j \in DOMAIN writersOf(bridge', t, funcNames'[t][i]) : Took(t, w, v, i, j)'
    <3>1. funcNames'[t][fi[t]] = fName(t)  BY <2>1 DEF fName
    <3>2. wi[t] \in DOMAIN writersOf(bridge', t, funcNames'[t][fi[t]])  BY <1>1, <2>2, <3>1
    <3> QED  BY <2>1, <2>2, <2>5, <3>2
  <2> QED  BY <1>9, <2>1, <2>4, <2>6 DEF OnceOf
<1> QED  BY <1>6, <1>7, <1>8, <1>9

-------------------------------------------------------------------------------
(* The theorems *)

LEMMA OwnAtFirst ==
    ASSUME Init, OwnOutputs(bridge)
    PROVE  SharedInv /\ WholeInv
<1>1. \A t \in Reader : pc[t] = "idle" /\ msg[t] = 0  BY DEF Init
<1>2. \A t \in Reader : ~Holds(t) /\ ~Given(t) /\ ~InBuffer(t) /\ ~AtRoute(t)
  BY <1>1 DEF Holds, Given, InBuffer, AtRoute, Writes, Makes
<1>3. SharedInv
  <2>1. CASE IsInjective(bridge.readerName)  BY <2>1 DEF SharedInv
  <2>2. CASE Warm(bridge)
    <3> SUFFICES ASSUME NEW t \in Reader PROVE SharedAt(t)
      BY DEF SharedInv
    <3>1. ASSUME NEW f \in Range(functionsOf(bridge, t)) \cap Resolved
          PROVE  mm_mutex[<<readerName(t), f>>] # Null /\ outputs(t)[<<readerName(t), f>>] # Null
      <4> DEFINE k == <<readerName(t), f>>
      <4>1. k \in bridge.Used  BY <2>2 DEF Warm, readerName
      <4>2. k \in Key /\ k[1] = readerName(t)
        <5>1. f \in FName /\ bridge \in Bridges  BY DispatchAssumption DEF Init
        <5> QED  BY <5>1, Places
      <4>3. bridge.dynamic \subseteq Reader  BY DispatchAssumption DEF Init, WiredBridge
      <4> HIDE DEF k
      <4>4. Left(k, Reader) # Null  BY <4>1, <4>2, LeftBehind
      <4>5. t \in bridge.dynamic => Left(k, bridge.dynamic) # Null
        BY <4>1, <4>2, <4>3, LeftBehind
      <4>6. t \notin bridge.dynamic => Left(k, Reader \ bridge.dynamic) # Null
        <5>1. t \notin bridge.dynamic => t \in Reader \ bridge.dynamic  OBVIOUS
        <5>2. Reader \ bridge.dynamic \in SUBSET Reader  OBVIOUS
        <5> QED  BY <4>1, <4>2, <5>1, <5>2, LeftBehind
      <4>7. mm_mutex[k] # Null /\ outputs(t)[k] # Null
        BY <4>2, <4>4, <4>5, <4>6 DEF Init, outputs, IsDynamic
      <4> QED  BY <4>7 DEF k
    <3> QED  BY <1>1, <1>2, <3>1 DEF SharedAt
  <2> QED  BY <2>1, <2>2 DEF OwnOutputs
<1>4. WholeInv  BY <1>2 DEF WholeInv, WholeAt
<1> QED  BY <1>3, <1>4

LEMMA ProgressAtFirst == Init => ProgressInv
<1> SUFFICES ASSUME Init, NEW r \in Reader, NEW w \in Writer, NEW v \in FName
             PROVE  ProgressOf(r, w, v)
  BY DEF ProgressInv
<1>1. sent[w][r][v] = <<>> /\ pc[r] = "idle" /\ msg[r] = 0  BY DEF Init
<1> QED  BY <1>1 DEF ProgressOf, Passed

LEMMA OnceAtFirst == Init => OnceInv
BY DEF Init, OnceInv, OnceOf

LEMMA RoutesAtFirst == Init => RoutesInv
BY DEF Init, RoutesInv, SameRoutes, SameAt, InFunction

\* A step of no thread leaves the threads and what they share alone.
Quiet ==
    /\ bridge' = bridge
    /\ UNCHANGED <<routes, mm_mutex, mm_staticPayload, mm_dynamicData, payload, m_buffer, sent>>
    /\ m_bTerminating \subseteq m_bTerminating'
    /\ \A u \in Reader : /\ Same(u)
                         /\ SharedAt(u) => SharedAt(u)'
                         /\ WholeAt(u) => WholeAt(u)'

LEMMA StepOrQuiet ==
    ASSUME BaseInv, [Next]_vars
    PROVE  (\E t \in Reader : Receive(t) \/ Step(t)) \/ Quiet
<1>1. ASSUME NEW w \in Writer, onTerminate(w)
      PROVE  Quiet
  <2>1. /\ bridge' = bridge
        /\ UNCHANGED <<routes, mm_mutex, mm_staticPayload, mm_dynamicData, payload, m_buffer, sent>>
        /\ m_bTerminating \subseteq m_bTerminating'
    BY <1>1 DEF onTerminate, tables, data, ends
  <2> QED  BY <1>1, <2>1, TerminatingKeepsThreads DEF Quiet
<1>2. CASE UNCHANGED vars
  <2> USE <1>2 DEF vars, lists, routes, threads, tables, locks, data, ends
  <2>1. ASSUME NEW u \in Reader
        PROVE  Same(u) /\ (SharedAt(u) => SharedAt(u)') /\ (WholeAt(u) => WholeAt(u)')
    <3>1. Same(u)  BY DEF Same
    <3>2. /\ readerName(u)' = readerName(u) /\ keyPub(u)' = keyPub(u) /\ pub(u)' = pub(u)
          /\ functionsOf(bridge, u)' = functionsOf(bridge, u)
          /\ IsDynamic(u)' <=> IsDynamic(u)
          /\ Given(u)' <=> Given(u)
          /\ Holds(u)' <=> Holds(u)
          /\ InBuffer(u)' <=> InBuffer(u)
          /\ Own(u)' = Own(u)
      BY <3>1, SameReader, SameFunction, SameWriter, SameThread DEF Same
    <3>3. outputs(u)' = outputs(u)  BY <3>2 DEF outputs
    <3> QED  BY <3>1, <3>2, <3>3 DEF SharedAt, WholeAt
  <2> QED  BY <2>1 DEF Quiet
<1> QED  BY <1>1, <1>2 DEF Next

LEMMA OwnKept ==
    ASSUME BaseInv, SharedInv, WholeInv, [Next]_vars
    PROVE  SharedInv' /\ WholeInv'
<1>1. ASSUME NEW t \in Reader, Receive(t) \/ Step(t)
      PROVE  SharedInv' /\ WholeInv'
  <2>1. bridge' = bridge  BY <1>1, OthersStay DEF BaseInv
  <2>2. SharedInv'  BY <1>1, <2>1, SharedKept DEF SharedInv
  <2> QED  BY <1>1, <2>2, WholeKept
<1>2. CASE Quiet  BY <1>2 DEF Quiet, SharedInv, WholeInv
<1> QED  BY <1>1, <1>2, StepOrQuiet

LEMMA RoutesInvStays ==
    ASSUME BaseInv, RoutesInv, Undisturbed(bridge), [Next]_vars
    PROVE  RoutesInv'
<1>1. CASE Quiet
  <2>1. SameRoutes'  BY <1>1 DEF Quiet, routes, RoutesInv, SameRoutes
  <2> QED  BY <1>1, <2>1, SameCopied DEF Quiet, RoutesInv
<1> QED  BY <1>1, RoutesInvKept, StepOrQuiet

LEMMA ProgressInvStays ==
    ASSUME BaseInv, BaseInv', SharedInv, WholeInv, RoutesInv, ProgressInv, OneRoute(bridge),
           [Next]_vars
    PROVE  ProgressInv'
<1>1. TypeOK /\ TypeOK'  BY DEF BaseInv
<1>2. CASE Quiet
  <2>1. ASSUME NEW r \in Reader, NEW w \in Writer, NEW v \in FName
        PROVE  ProgressOf(r, w, v)'
    <3>1. /\ Same(r) /\ ProgressOf(r, w, v) /\ sent' = sent /\ bridge' = bridge
          /\ m_bTerminating \subseteq m_bTerminating'
      BY <1>2 DEF Quiet, ProgressInv
    <3>2. \A i, j : /\ Expected(r, w, i, j)' => Expected(r, w, i, j)
                    /\ Passed(r, i, j)' <=> Passed(r, i, j)
      BY <3>1, SameThread DEF Expected, Passed, Same
    <3> QED  BY <1>1, <3>1, <3>2, ProgressStays DEF Same
  <2> QED  BY <2>1 DEF ProgressInv
<1> QED  BY <1>2, ProgressKept, StepOrQuiet

LEMMA OnceInvStays ==
    ASSUME BaseInv, WholeInv, OnceInv, OneRoute(bridge), [Next]_vars
    PROVE  OnceInv'
<1>1. CASE Quiet
  <2> SUFFICES ASSUME NEW r \in Reader, NEW w \in Writer, NEW v \in FName PROVE OnceOf(r, w, v)'
    BY DEF OnceInv
  <2>1. Same(r) /\ OnceOf(r, w, v) /\ sent' = sent /\ bridge' = bridge /\ TypeOK
    BY <1>1 DEF Quiet, OnceInv, BaseInv
  <2>2. \A i, j \in Nat : Passed(r, i, j) => Passed(r, i, j)'
    BY <2>1, SameThread DEF Passed, Same
  <2> QED  BY <2>1, <2>2, OnceStays DEF Same
<1> QED  BY <1>1, OnceKept, StepOrQuiet

LEMMA BridgeStays == BaseInv /\ [Next]_vars => bridge' = bridge
BY StepOrQuiet, OthersStay DEF Quiet, BaseInv

LEMMA DispatchInvIs ==
    DispatchInv <=> /\ BaseInv
                    /\ OwnOutputs(bridge) => SharedInv /\ WholeInv
                    /\ Undisturbed(bridge) => RoutesInv
                    /\ OwnOutputs(bridge) /\ OneRoute(bridge) => OnceInv
                    /\ Settled(bridge) /\ OneRoute(bridge) => ProgressInv
BY DEF DispatchInv, BaseInv, SharedInv, WholeInv, RoutesInv, OnceInv, ProgressInv

\* For every wired bridge, and any number of readers and writers: threads are where
\* their loops allow, hold the locks they need and send one late message at most;
\* where no two mutexes guard one output, what they publish is their own message, and
\* with one route for each form they publish it once there at most;
\* where no look-up inserts an entry that disturbs another, every search finds what
\* was wired; and where both hold and there is one route for each form, every message
\* leaves in order, once per route (ISBridge.h, lines 149 to 274, with
\* RTPSPublisher.cpp, lines 48 to 70).
THEOREM DispatchInvariance == Spec => []DispatchInv
<1>1. Init => DispatchInv
  BY BaseAtFirst, OwnAtFirst, RoutesAtFirst, OnceAtFirst, ProgressAtFirst, DispatchInvIs
<1>2. DispatchInv /\ [Next]_vars => DispatchInv'
  <2> SUFFICES ASSUME DispatchInv, [Next]_vars PROVE DispatchInv'
    OBVIOUS
  <2>1. BaseInv /\ BaseInv' /\ bridge' = bridge  BY BaseKept, BridgeStays, DispatchInvIs
  <2>2. OwnOutputs(bridge) => SharedInv' /\ WholeInv'
    BY <2>1, OwnKept, DispatchInvIs
  <2>3. Undisturbed(bridge) => RoutesInv'
    BY <2>1, RoutesInvStays, DispatchInvIs
  <2>4. OwnOutputs(bridge) /\ OneRoute(bridge) => OnceInv'
    BY <2>1, OnceInvStays, DispatchInvIs
  <2>5. Settled(bridge) /\ OneRoute(bridge) => ProgressInv'
    BY <2>1, ProgressInvStays, DispatchInvIs DEF Settled
  <2>6. /\ OwnOutputs(bridge)' <=> OwnOutputs(bridge)
        /\ Undisturbed(bridge)' <=> Undisturbed(bridge)
        /\ Settled(bridge)' <=> Settled(bridge)
        /\ OneRoute(bridge)' <=> OneRoute(bridge)
    BY <2>1
  <2> QED
    BY <2>1, <2>2, <2>3, <2>4, <2>5, <2>6
    DEF DispatchInv, BaseInv, SharedInv, WholeInv, RoutesInv, OnceInv, ProgressInv
<1> QED  BY <1>1, <1>2, PTL DEF Spec

\* The fields and the threads' locals only ever hold values of the right kind.
THEOREM TypeCorrect == Spec => []TypeOK
<1>1. DispatchInv => TypeOK  BY DEF DispatchInv
<1> QED  BY <1>1, DispatchInvariance, PTL

\* On a settled bridge with one route for each form, a writer sends the messages of
\* each reader whole, once per route, in the order they came, and nothing else,
\* however the threads interleave.
THEOREM InOrder == Spec => []DeliveredInOrder
<1>1. DispatchInv => DeliveredInOrder
  <2> SUFFICES ASSUME DispatchInv, Settled(bridge), OneRoute(bridge),
                      NEW r \in Reader, NEW w \in Writer, NEW v \in FName
               PROVE  /\ \A n \in DOMAIN sent[w][r][v] : sent[w][r][v][n] = n
                      /\ Len(sent[w][r][v]) <= msg[r]
                      /\ ~Routed(r, w, v) => sent[w][r][v] = <<>>
                      /\ Routed(r, w, v) /\ w \notin m_bTerminating /\ pc[r] = "idle"
                            => Len(sent[w][r][v]) = msg[r]
    BY DEF DeliveredInOrder
  <2>1. TypeOK /\ ProgressOf(r, w, v)
    BY DispatchInvIs DEF BaseInv, TypeOK, ProgressInv
  <2> QED  BY <2>1, ProgressAtPositions DEF Expected, Passed, Routed
<1> QED  BY <1>1, DispatchInvariance, PTL

\* Where look-ups disturb each other, no message leaves a writer in one form twice or
\* after a later one, whatever the threads' searches miss (operator [] of the maps in
\* ISBridge.h, lines 151 to 254).
THEOREM AtMostOnce == Spec => []NeverTwice
<1>1. DispatchInv => NeverTwice
  BY DispatchInvIs DEF NeverTwice, OnceInv, OnceOf
<1> QED  BY <1>1, DispatchInvariance, PTL
===============================================================================
