---------------------------- MODULE ISBridgeProofs ----------------------------
(* Theorems about module ISBridge, for every configuration of connectors. *)
EXTENDS ISBridge, FiniteSetTheorems, FunctionTheorems, TLAPS

-------------------------------------------------------------------------------
(* A message makes finitely many writes, so that counting copies makes sense. *)

\* The image of a finite set under a function is finite.
LEMMA FiniteImage ==
    ASSUME NEW D, IsFiniteSet(D), NEW h, h = [x \in D |-> h[x]]
    PROVE  IsFiniteSet({h[x] : x \in D})
<1> DEFINE T == {h[x] : x \in D}
<1>1. h \in Surjection(D, T)
    BY DEF Surjection
<1> QED
    BY <1>1, FS_Surjection

\* So is the set of positions of a sequence.
LEMMA FinitePositions ==
    ASSUME NEW S, NEW s \in Seq(S)
    PROVE  IsFiniteSet(DOMAIN s)
<1>1. DOMAIN s = 1 .. Len(s) /\ Len(s) \in Nat
    OBVIOUS
<1> QED
    BY <1>1, FS_Interval

\* In a state of the right types, what the three loops of a message run over
\* are sequences: the bridges, the function names and the writers.
LEMMA LoopTypes ==
    ASSUME TypeOK, NEW r \in Reader, NEW i \in DOMAIN mv_bridges[r]
    PROVE  LET b == mv_bridges[r][i]
               fs == funcNames(b, r)
           IN  /\ b \in Bridge
               /\ fs \in Seq(FName)
               /\ \A j \in DOMAIN fs : pubs(b, r, fs[j]) \in Seq(Writer)
<1> DEFINE b == mv_bridges[r][i]
           fs == funcNames(b, r)
<1>1. mv_bridges[r] \in Seq(Bridge)
    BY DEF TypeOK
<1>2. b \in Bridge
    BY <1>1
<1>3. readerName[r] \in Name /\ NoFunction \in FName
    BY ISBridgeAssumption
<1>4. /\ mm_functions[b][readerName[r]] \in Seq(FName)
      /\ mm_dynFunctions[b][readerName[r]] \in Seq(FName)
    BY <1>2, <1>3 DEF TypeOK
<1>5. <<NoFunction>> \in Seq(FName)
    BY <1>3
<1>6. fs \in Seq(FName)
    BY <1>4, <1>5 DEF funcNames
<1>7. ASSUME NEW j \in DOMAIN fs
      PROVE  pubs(b, r, fs[j]) \in Seq(Writer)
    <2>1. fs[j] \in FName
        BY <1>6
    <2>2. <<readerName[r], fs[j]>> \in Key
        BY <2>1, <1>3 DEF Key
    <2> QED
        BY <2>2, <1>2 DEF TypeOK, pubs
<1> QED
    BY <1>2, <1>6, <1>7

\* One message makes finitely many writes: the three loops run over sequences.
LEMMA FinitePaths ==
    ASSUME TypeOK, NEW r \in Reader
    PROVE  IsFiniteSet(Paths(r))
<1> DEFINE B(i) == mv_bridges[r][i]
           F(i) == funcNames(B(i), r)
           W(i, j) == pubs(B(i), r, F(i)[j])
           P3(i, j) == { <<i, j, k>> : k \in DOMAIN W(i, j) }
           P2(i) == UNION { P3(i, j) : j \in DOMAIN F(i) }
<1>1. mv_bridges[r] \in Seq(Bridge)
    BY DEF TypeOK
<1>2. ASSUME NEW i \in DOMAIN mv_bridges[r]
      PROVE  IsFiniteSet(P2(i))
    <2>1. F(i) \in Seq(FName)
        BY LoopTypes
    <2>2. ASSUME NEW j \in DOMAIN F(i)
          PROVE  IsFiniteSet(P3(i, j))
        <3> DEFINE h == [k \in DOMAIN W(i, j) |-> <<i, j, k>>]
        <3>1. W(i, j) \in Seq(Writer)
            BY LoopTypes
        <3>2. IsFiniteSet(DOMAIN W(i, j))
            BY <3>1, FinitePositions
        <3> HIDE DEF W
        <3>3. h = [k \in DOMAIN W(i, j) |-> h[k]]
            OBVIOUS
        <3>4. P3(i, j) = {h[k] : k \in DOMAIN W(i, j)}
            OBVIOUS
        <3> HIDE DEF h, P3
        <3> QED
            BY <3>2, <3>3, <3>4, FiniteImage
    <2> DEFINE g == [j \in DOMAIN F(i) |-> P3(i, j)]
    <2>3. IsFiniteSet(DOMAIN F(i))
        BY <2>1, FinitePositions
    <2> HIDE DEF F, P3
    <2>4. g = [j \in DOMAIN F(i) |-> g[j]]
        OBVIOUS
    <2>5. {P3(i, j) : j \in DOMAIN F(i)} = {g[j] : j \in DOMAIN F(i)}
        OBVIOUS
    <2>6. IsFiniteSet({P3(i, j) : j \in DOMAIN F(i)})
        <3> HIDE DEF g
        <3> QED
            BY <2>3, <2>4, <2>5, FiniteImage
    <2> QED
        BY <2>2, <2>6, FS_UNION
<1> DEFINE h == [i \in DOMAIN mv_bridges[r] |-> P2(i)]
<1>3. IsFiniteSet(DOMAIN mv_bridges[r])
    BY <1>1, FinitePositions
<1>4. Paths(r) = UNION { P2(i) : i \in DOMAIN mv_bridges[r] }
    BY DEF Paths
<1> HIDE DEF P2
<1>5. h = [i \in DOMAIN mv_bridges[r] |-> h[i]]
    OBVIOUS
<1>6. {P2(i) : i \in DOMAIN mv_bridges[r]} = {h[i] : i \in DOMAIN mv_bridges[r]}
    OBVIOUS
<1>7. IsFiniteSet({P2(i) : i \in DOMAIN mv_bridges[r]})
    <2> HIDE DEF h
    <2> QED
        BY <1>3, <1>5, <1>6, FiniteImage
<1> QED
    BY <1>2, <1>4, <1>7, FS_UNION

\* So the number of copies of a message that leave a writer is a number.
LEMMA CopiesType ==
    ASSUME TypeOK, NEW r \in Reader, NEW w, NEW v
    PROVE  Copies(r, w, v) \in Nat
<1> DEFINE S == {p \in Paths(r) : Sends(r, w, v, p)}
<1>1. IsFiniteSet(Paths(r))
    BY FinitePaths
<1>2. S \in SUBSET Paths(r)
    OBVIOUS
<1>3. IsFiniteSet(S)
    BY <1>1, <1>2, FS_Subset
<1> QED
    BY <1>3, FS_CardinalityType DEF Copies

-------------------------------------------------------------------------------
(* Type correctness *)

\* The fields of a connector are of the right kinds, and its key is a key.
LEMMA ConnectorFields ==
    ASSUME NEW c \in Connector
    PROVE  /\ c.bridge \in Bridge
           /\ c.reader \in Reader
           /\ c.writer \in Writer
           /\ c.fname \in FName
           /\ readerName[c.reader] \in Name
           /\ <<readerName[c.reader], c.fname>> \in Key
BY ISBridgeAssumption DEF Key

\* A service with empty maps has the right types.
LEMMA TypeInit == Init => TypeOK
<1> SUFFICES ASSUME Init PROVE TypeOK
    OBVIOUS
<1>1. <<>> \in Seq(FName) /\ <<>> \in Seq(Writer) /\ <<>> \in Seq(Bridge)
      /\ <<>> \in Seq(Reader)
    OBVIOUS
<1> QED
    BY <1>1 DEF Init, TypeOK, Idle

\* ISBridge::addReader keeps the types.
LEMMA TypeAddReader ==
    ASSUME TypeOK, NEW c \in Connector, addReader(c)
    PROVE  TypeOK'
<1>1. c.bridge \in Bridge /\ c.reader \in Reader
    BY ConnectorFields
<1>2. Append(mv_reader[c.bridge], c.reader) \in Seq(Reader)
    BY <1>1 DEF TypeOK
<1>3. Append(mv_bridges[c.reader], c.bridge) \in Seq(Bridge)
    BY <1>1 DEF TypeOK
<1>4. mv_reader' \in [Bridge -> Seq(Reader)]
    BY <1>1, <1>2 DEF TypeOK, addReader
<1>5. mv_bridges' \in [Reader -> Seq(Bridge)]
    BY <1>1, <1>3 DEF TypeOK, addReader
<1>6. ms_subpubs' \in [Bridge -> SUBSET Endpoint]
    BY <1>1 DEF TypeOK, addReader, Endpoint
<1>7. wiring' \in SUBSET Connector /\ pc' \in {Idle, "addWriter", "addFunction"}
    BY DEF addReader
<1> QED
    BY <1>4, <1>5, <1>6, <1>7 DEF TypeOK, addReader, ending, traffic

\* ISBridge::addWriter, setBridge and removeWriter keep the types.
LEMMA TypeAddWriter ==
    ASSUME TypeOK, NEW c \in Connector, addWriter(c)
    PROVE  TypeOK'
<1> DEFINE k == <<readerName[c.reader], c.fname>>
           b == c.bridge
<1>1. b \in Bridge /\ c.writer \in Writer /\ k \in Key
    BY ConnectorFields
<1>2. mm_writer[b] \in [Key -> Seq(Writer)]
    BY <1>1 DEF TypeOK
<1>3. Append(mm_writer[b][k], c.writer) \in Seq(Writer)
    BY <1>1, <1>2
<1>4. mm_writer' = [mm_writer EXCEPT ![b] =
            [mm_writer[b] EXCEPT ![k] = Append(mm_writer[b][k], c.writer)]]
    BY DEF addWriter
<1>5. [mm_writer[b] EXCEPT ![k] = Append(mm_writer[b][k], c.writer)]
            \in [Key -> Seq(Writer)]
    BY <1>1, <1>2, <1>3
<1>6. mm_writer' \in [Bridge -> [Key -> Seq(Writer)]]
    <2> HIDE DEF k, b
    <2> QED
        BY <1>1, <1>4, <1>5 DEF TypeOK
<1>7. mb_bridge' \in [Writer -> Bridge \cup {NoBridge}]
    BY <1>1 DEF TypeOK, addWriter
<1>8. ms_subpubs' \in [Bridge -> SUBSET Endpoint]
    BY <1>1 DEF TypeOK, addWriter, setBridge, removeWriter, Endpoint
<1>9. pc' \in {Idle, "addWriter", "addFunction"}
    BY DEF addWriter
<1> QED
    BY <1>6, <1>7, <1>8, <1>9 DEF TypeOK, addWriter, ending, traffic

\* Both overloads of ISBridge::addFunction keep the types.
LEMMA TypeAddFunction ==
    ASSUME TypeOK, NEW c \in Connector, addFunction(c)
    PROVE  TypeOK'
<1> DEFINE n == readerName[c.reader]
           b == c.bridge
<1>1. b \in Bridge /\ n \in Name /\ c.fname \in FName
    BY ConnectorFields
<1>2. /\ mm_functions' \in [Bridge -> [Name -> Seq(FName)]]
      /\ mm_functionsNames' \in [Bridge -> SUBSET Resolved]
      /\ mm_dynFunctions' \in [Bridge -> [Name -> Seq(FName)]]
      /\ mm_dynFunctionsNames' \in [Bridge -> SUBSET Resolved]
    <2>1. CASE addStaticFunction(c)
        <3>1. mm_functions[b] \in [Name -> Seq(FName)]
            BY <1>1 DEF TypeOK
        <3>2. [mm_functions[b] EXCEPT ![n] = Append(mm_functions[b][n], c.fname)]
                \in [Name -> Seq(FName)]
            BY <1>1, <3>1
        <3>3. mm_functions' = [mm_functions EXCEPT ![b] =
                [mm_functions[b] EXCEPT ![n] = Append(mm_functions[b][n], c.fname)]]
            BY <2>1 DEF addStaticFunction
        <3>4. mm_functions' \in [Bridge -> [Name -> Seq(FName)]]
            <4> HIDE DEF n, b
            <4> QED
                BY <1>1, <3>2, <3>3 DEF TypeOK
        <3>5. mm_functionsNames' \in [Bridge -> SUBSET Resolved]
            BY <1>1, <2>1 DEF TypeOK, addStaticFunction
        <3> QED
            BY <2>1, <3>4, <3>5 DEF TypeOK, addStaticFunction
    <2>2. CASE addDynFunction(c)
        <3>1. mm_dynFunctions[b] \in [Name -> Seq(FName)]
            BY <1>1 DEF TypeOK
        <3>2. [mm_dynFunctions[b] EXCEPT ![n] = Append(mm_dynFunctions[b][n], c.fname)]
                \in [Name -> Seq(FName)]
            BY <1>1, <3>1
        <3>3. mm_dynFunctions' = [mm_dynFunctions EXCEPT ![b] =
                [mm_dynFunctions[b] EXCEPT ![n] = Append(mm_dynFunctions[b][n], c.fname)]]
            BY <2>2 DEF addDynFunction
        <3>4. mm_dynFunctions' \in [Bridge -> [Name -> Seq(FName)]]
            <4> HIDE DEF n, b
            <4> QED
                BY <1>1, <3>2, <3>3 DEF TypeOK
        <3>5. mm_dynFunctionsNames' \in [Bridge -> SUBSET Resolved]
            BY <1>1, <2>2 DEF TypeOK, addDynFunction, IsDynFunction
        <3> QED
            BY <2>2, <3>4, <3>5 DEF TypeOK, addDynFunction
    <2> QED
        BY <2>1, <2>2 DEF addFunction
<1> QED
    BY <1>2 DEF TypeOK, addFunction, ending, traffic

\* A message only changes the counts, which stay numbers.
LEMMA TypeReceive ==
    ASSUME TypeOK, NEW r \in Reader, on_received_data(r)
    PROVE  TypeOK'
<1>1. received' \in [Reader -> Nat]
    BY DEF TypeOK, on_received_data
<1>2. ASSUME NEW w \in Writer, NEW v \in FName
      PROVE  written[w][v] + Copies(r, w, v) \in Nat
    <2>1. Copies(r, w, v) \in Nat
        BY CopiesType
    <2>2. written[w][v] \in Nat
        BY DEF TypeOK
    <2> QED
        BY <2>1, <2>2
<1>3. written' \in [Writer -> [FName -> Nat]]
    BY <1>2 DEF on_received_data
<1> QED
    BY <1>1, <1>3 DEF TypeOK, on_received_data, routing, loading, ending

\* ISBridge::onTerminate only terminates endpoints.
LEMMA TypeTerminate ==
    ASSUME TypeOK, NEW b \in Bridge, onTerminate(b)
    PROVE  TypeOK'
<1>1. Range(mv_reader[b]) \subseteq Reader
    <2>1. mv_reader[b] \in Seq(Reader)
        BY DEF TypeOK
    <2> QED
        BY <2>1 DEF Range
<1>2. ASSUME NEW k \in Key PROVE Range(mm_writer[b][k]) \subseteq Writer
    <2>1. mm_writer[b][k] \in Seq(Writer)
        BY DEF TypeOK
    <2> QED
        BY <2>1 DEF Range
<1>3. m_bTerminating' \subseteq Endpoint
    <2>1. m_bTerminating' = m_bTerminating \cup Range(mv_reader[b])
            \cup (UNION {Range(mm_writer[b][k]) : k \in Key})
            \cup ms_subpubs[b]
        BY DEF onTerminate, Terminated
    <2>2. UNION {Range(mm_writer[b][k]) : k \in Key} \subseteq Writer
        BY <1>2
    <2>3. m_bTerminating \subseteq Endpoint /\ ms_subpubs[b] \subseteq Endpoint
        BY DEF TypeOK
    <2> QED
        BY <1>1, <2>1, <2>2, <2>3 DEF Endpoint
<1>4. terminated' \subseteq Bridge
    BY DEF TypeOK, onTerminate
<1> QED
    BY <1>3, <1>4 DEF TypeOK, onTerminate, routing, loading, traffic

\* The destructor of a bridge only changes the counts of deletions.
LEMMA TypeDestroy ==
    ASSUME TypeOK, NEW b \in Bridge, Destroy(b)
    PROVE  TypeOK'
<1>1. freed' \in [Endpoint -> Nat]
    BY DEF TypeOK, Destroy
<1>2. destroyed' \subseteq Bridge
    BY DEF TypeOK, Destroy
<1> QED
    BY <1>1, <1>2 DEF TypeOK, Destroy, routing, loading, traffic

\* Every step of the routing core keeps the types.
LEMMA TypeStep == TypeOK /\ [Next]_vars => TypeOK'
<1> SUFFICES ASSUME TypeOK, [Next]_vars PROVE TypeOK'
    OBVIOUS
<1>1. CASE UNCHANGED vars
    BY <1>1 DEF TypeOK, vars, routing, loading, ending, traffic
<1>2. CASE Next
    BY <1>2, TypeAddReader, TypeAddWriter, TypeAddFunction, TypeReceive,
       TypeTerminate, TypeDestroy DEF Next
<1> QED
    BY <1>1, <1>2

\* Every map of a bridge only ever holds objects of the right kind, and the
\* number of copies a message makes is always a number.
THEOREM TypeCorrect == Spec => []TypeOK
<1>1. Init => TypeOK
    BY TypeInit
<1>2. TypeOK /\ [Next]_vars => TypeOK'
    BY TypeStep
<1> QED
    BY <1>1, <1>2, PTL DEF Spec


-------------------------------------------------------------------------------
(* The inductive invariant *)

\* Appending to a sequence adds one element to its range.
LEMMA RangeAppend ==
    ASSUME NEW S, NEW s \in Seq(S), NEW x \in S
    PROVE  Range(Append(s, x)) = Range(s) \cup {x}
<1>1. /\ Len(s) \in Nat
      /\ DOMAIN s = 1 .. Len(s)
      /\ DOMAIN Append(s, x) = 1 .. (Len(s) + 1)
      /\ \A i \in 1 .. Len(s) : Append(s, x)[i] = s[i]
      /\ Append(s, x)[Len(s) + 1] = x
    OBVIOUS
<1>2. ASSUME NEW y \in Range(Append(s, x)) PROVE y \in Range(s) \cup {x}
    <2>1. PICK i \in 1 .. (Len(s) + 1) : y = Append(s, x)[i]
        BY <1>1 DEF Range
    <2>2. CASE i = Len(s) + 1
        BY <1>1, <2>1, <2>2
    <2>3. CASE i \in 1 .. Len(s)
        BY <1>1, <2>1, <2>3 DEF Range
    <2> QED
        BY <1>1, <2>1, <2>2, <2>3
<1>3. ASSUME NEW y \in Range(s) PROVE y \in Range(Append(s, x))
    <2>1. PICK i \in 1 .. Len(s) : y = s[i]
        BY <1>1 DEF Range
    <2>2. i \in 1 .. (Len(s) + 1)
        BY <1>1, <2>1
    <2> QED
        BY <1>1, <2>1, <2>2 DEF Range
<1>4. x \in Range(Append(s, x))
    <2>1. Len(s) + 1 \in 1 .. (Len(s) + 1)
        BY <1>1
    <2> QED
        BY <1>1, <2>1 DEF Range
<1> QED
    BY <1>2, <1>3, <1>4

\* The invariant holds of a service with empty maps.
LEMMA InvInit == Init => IInv
<1> SUFFICES ASSUME Init PROVE IInv
    OBVIOUS
<1>1. TypeOK
    BY TypeInit
<1>2. OwnershipAgrees
    BY ISBridgeAssumption DEF Init, OwnershipAgrees
<1>3. Range(<<>>) = {}
    BY DEF Range
<1>4. Stages /\ Owned /\ Silenced
    BY DEF Init, Stages, Owned, Silenced, Started
<1>5. ASSUME NEW b \in Bridge, NEW n \in Name
      PROVE  /\ Range(mm_functions[b][n]) = {}
             /\ Range(mm_dynFunctions[b][n]) = {}
             /\ \A f \in FName : Range(mm_writer[b][<<n, f>>]) = {}
    BY <1>3 DEF Init, Key
<1>6. Configured
    BY <1>5 DEF Configured
<1> QED
    BY <1>1, <1>2, <1>4, <1>6 DEF IInv

\* ISBridge::addReader keeps the invariant: the reader is owned by the bridge of
\* the connector being wired.
LEMMA InvAddReader ==
    ASSUME IInv, NEW c \in Connector, addReader(c)
    PROVE  IInv'
<1> USE DEF IInv
<1>1. TypeOK'
    BY TypeAddReader
<1>2. /\ c.bridge \in Bridge /\ c.reader \in Reader
      /\ c.reader \notin Writer
    BY ConnectorFields, ISBridgeAssumption
<1>3. /\ wiring = {} /\ Started' = Started \cup {c}
      /\ terminated' = {} /\ destroyed' = {}
    BY DEF addReader, Stages, Started, ending, TypeOK
<1>4. \A b \in Bridge : ms_subpubs'[b] =
            IF b = c.bridge THEN ms_subpubs[b] \cup {c.reader} ELSE ms_subpubs[b]
    BY <1>2 DEF addReader, TypeOK
<1>5. OwnershipAgrees'
    BY <1>2, <1>4 DEF OwnershipAgrees, addReader
<1>6. Stages'
    BY <1>3 DEF Stages, addReader, Idle
<1>7. Owned'
    <2>1. ASSUME NEW b \in Bridge, NEW r \in Reader, r \in ms_subpubs'[b]
          PROVE  \E d \in Started' : d.bridge = b /\ d.reader = r
        <3>1. CASE r \in ms_subpubs[b]
            <4>1. PICK d \in Started : d.bridge = b /\ d.reader = r
                BY <3>1 DEF Owned
            <4> QED
                BY <1>3, <4>1
        <3>2. CASE r \notin ms_subpubs[b]
            BY <1>3, <1>4, <2>1, <3>2
        <3> QED
            BY <3>1, <3>2
    <2>2. ASSUME NEW d \in Started' PROVE d.reader \in ms_subpubs'[d.bridge]
        <3>1. d \in Connector
            BY <1>3 DEF TypeOK, Started
        <3> QED
            BY <1>2, <1>3, <1>4, <2>2, <3>1, ConnectorFields DEF Owned
    <2>3. ASSUME NEW d \in Started', d \in connected' \/ pc' = "addFunction"
          PROVE  mb_bridge'[d.writer] \in Bridge
        BY <1>3, <2>3 DEF Owned, addReader, Started
    <2> QED
        BY <2>1, <2>2, <2>3 DEF Owned
<1>8. Configured'
    BY <1>3 DEF Configured, addReader
<1>9. Silenced'
    BY <1>3 DEF Silenced
<1> QED
    BY <1>1, <1>5, <1>6, <1>7, <1>8, <1>9

\* ISBridge::addWriter keeps the invariant: the new owner and the old one are
\* updated together with mb_bridge.
LEMMA InvAddWriter ==
    ASSUME IInv, NEW c \in Connector, addWriter(c)
    PROVE  IInv'
<1> USE DEF IInv
<1> DEFINE w == c.writer
           k == <<readerName[c.reader], c.fname>>
<1>1. TypeOK'
    BY TypeAddWriter
<1>2. /\ c.bridge \in Bridge /\ w \in Writer /\ w \notin Reader /\ k \in Key
    BY ConnectorFields, ISBridgeAssumption
<1>3. /\ wiring = {c} /\ Started' = Started /\ c \in Started
      /\ terminated = {} /\ terminated' = {} /\ destroyed' = destroyed
    BY DEF addWriter, Stages, Started, ending, TypeOK, Idle
<1>4. destroyed' = {}
    BY <1>2, <1>3 DEF Stages
<1>5. \A b \in Bridge : ms_subpubs'[b] =
            IF b = c.bridge THEN ms_subpubs[b] \cup {w}
            ELSE IF b = mb_bridge[w] THEN ms_subpubs[b] \ {w}
            ELSE ms_subpubs[b]
    <2>1. ms_subpubs \in [Bridge -> SUBSET Endpoint] /\ NoBridge \notin Bridge
        BY ISBridgeAssumption DEF TypeOK
    <2>2. mb_bridge[w] \in Bridge \cup {NoBridge}
        BY <1>2 DEF TypeOK
    <2> QED
        BY <1>2, <2>1, <2>2 DEF addWriter, setBridge, removeWriter
<1>6. \A v \in Writer : mb_bridge'[v] = IF v = w THEN c.bridge ELSE mb_bridge[v]
    BY <1>2 DEF addWriter, TypeOK
<1>7. OwnershipAgrees'
    <2>1. ASSUME NEW v \in Writer, NEW b \in Bridge
          PROVE  v \in ms_subpubs'[b] <=> mb_bridge'[v] = b
        <3>1. v \in ms_subpubs[b] <=> mb_bridge[v] = b
            BY DEF OwnershipAgrees
        <3>2. CASE v = w
            <4>1. v \in ms_subpubs'[b] <=> b = c.bridge
                BY <1>5, <3>1, <3>2
            <4> QED
                BY <1>6, <3>2, <4>1
        <3>3. CASE v # w
            <4>1. v \in ms_subpubs'[b] <=> v \in ms_subpubs[b]
                BY <1>5, <3>3
            <4> QED
                BY <1>6, <3>1, <3>3, <4>1
        <3> QED
            BY <3>2, <3>3
    <2> QED
        BY <2>1 DEF OwnershipAgrees
<1>8. Stages'
    BY <1>3, <1>4 DEF Stages, addWriter, Idle
<1>9. Owned'
    <2>1. ASSUME NEW b \in Bridge, NEW r \in Reader
          PROVE  r \in ms_subpubs'[b] <=> r \in ms_subpubs[b]
        BY <1>2, <1>5
    <2>2. ASSUME NEW d \in Started
          PROVE  d.bridge \in Bridge /\ d.reader \in Reader /\ d.writer \in Writer
        <3>1. d \in Connector
            BY DEF TypeOK, Started
        <3> QED
            BY <3>1, ConnectorFields
    <2>3. \A d \in Started : d \in connected \/ d = c
        BY <1>3 DEF Started
    <2>4. \A b \in Bridge, r \in Reader : r \in ms_subpubs'[b] =>
                \E d \in Started' : d.bridge = b /\ d.reader = r
        BY <1>3, <2>1 DEF Owned
    <2>5. \A d \in Started' : d.reader \in ms_subpubs'[d.bridge]
        BY <1>3, <2>1, <2>2 DEF Owned
    <2>6. \A d \in Started' : mb_bridge'[d.writer] \in Bridge
        <3>1. \A d \in connected : mb_bridge[d.writer] \in Bridge
            BY DEF Owned, Started
        <3> QED
            BY <1>2, <1>3, <1>6, <2>2, <2>3, <3>1
    <2> QED
        BY <2>4, <2>5, <2>6 DEF Owned
<1>10. Configured'
    <2>1. ASSUME NEW b \in Bridge, NEW n \in Name, NEW f \in FName, NEW v \in Writer,
                 v \in Range(mm_writer'[b][<<n, f>>])
          PROVE  \E d \in Started' : /\ d.bridge = b
                                     /\ readerName[d.reader] = n
                                     /\ d.fname = f
                                     /\ d.writer = v
        <3>1. <<n, f>> \in Key
            BY DEF Key
        <3>2. CASE b = c.bridge /\ <<n, f>> = k
            <4>1. mm_writer[b][k] \in Seq(Writer)
                BY <1>2 DEF TypeOK
            <4>2. mm_writer'[b][k] = Append(mm_writer[b][k], w)
                <5>1. mm_writer[b] \in [Key -> Seq(Writer)] /\ k \in DOMAIN mm_writer[b]
                    BY <1>2 DEF TypeOK
                <5>2. mm_writer' = [mm_writer EXCEPT ![b][k] = Append(@, w)]
                    BY <3>2 DEF addWriter
                <5> HIDE DEF k, w
                <5> QED
                    BY <1>2, <5>1, <5>2 DEF TypeOK
            <4>3. v = w \/ v \in Range(mm_writer[b][k])
                BY <1>2, <2>1, <3>2, <4>1, <4>2, RangeAppend
            <4> QED
                BY <1>3, <3>2, <4>3 DEF Configured
        <3>3. CASE ~(b = c.bridge /\ <<n, f>> = k)
            <4>1. mm_writer'[b][<<n, f>>] = mm_writer[b][<<n, f>>]
                <5>1. mm_writer \in [Bridge -> [Key -> Seq(Writer)]]
                    BY DEF TypeOK
                <5>2. mm_writer' = [mm_writer EXCEPT ![c.bridge][k] = Append(@, w)]
                    BY DEF addWriter
                <5> HIDE DEF k, w
                <5> QED
                    BY <1>2, <3>1, <3>3, <5>1, <5>2
            <4> QED
                BY <1>3, <2>1, <4>1 DEF Configured
        <3> QED
            BY <3>2, <3>3
    <2>2. UNCHANGED <<mm_functions, mm_dynFunctions, mm_functionsNames,
                      mm_dynFunctionsNames>>
        BY DEF addWriter
    <2> QED
        BY <2>1, <2>2 DEF Configured
<1>11. Silenced'
    BY <1>3 DEF Silenced
<1> QED
    BY <1>1, <1>7, <1>8, <1>9, <1>10, <1>11


\* ISBridge::addFunction keeps the invariant: a name is listed together with the
\* pointer its symbol resolves to.
LEMMA InvAddFunction ==
    ASSUME IInv, NEW c \in Connector, addFunction(c)
    PROVE  IInv'
<1> USE DEF IInv
<1> DEFINE n == readerName[c.reader]
           b == c.bridge
<1>1. TypeOK'
    BY TypeAddFunction
<1>2. /\ b \in Bridge /\ n \in Name /\ c.fname \in FName
    BY ConnectorFields
<1>3. /\ wiring = {c} /\ Started' = Started /\ pc = "addFunction"
      /\ terminated = {} /\ terminated' = {} /\ destroyed' = destroyed
    BY DEF addFunction, Stages, Started, ending, TypeOK, Idle
<1>4. destroyed' = {}
    BY <1>2, <1>3 DEF Stages
<1>5. OwnershipAgrees'
    BY DEF OwnershipAgrees, addFunction
<1>6. Stages'
    BY <1>3, <1>4 DEF Stages, addFunction
<1>7. Owned'
    BY <1>3 DEF Owned, addFunction
<1>8. Configured'
    <2>1. UNCHANGED mm_writer
        BY DEF addFunction
    <2>2. ASSUME NEW a \in Bridge, NEW m \in Name
          PROVE  /\ Range(mm_functions'[a][m]) \cap Resolved \subseteq mm_functionsNames'[a]
                 /\ Range(mm_dynFunctions'[a][m]) \subseteq mm_dynFunctionsNames'[a]
        <3>1. /\ Range(mm_functions[a][m]) \cap Resolved \subseteq mm_functionsNames[a]
              /\ Range(mm_dynFunctions[a][m]) \subseteq mm_dynFunctionsNames[a]
            BY DEF Configured
        <3>2. CASE addStaticFunction(c)
            <4>1. mm_functions[a][m] \in Seq(FName)
                BY DEF TypeOK
            <4>2. mm_functions'[a][m] = IF a = b /\ m = n
                    THEN Append(mm_functions[a][m], c.fname) ELSE mm_functions[a][m]
                <5>1. mm_functions' = [mm_functions EXCEPT ![b][n] = Append(@, c.fname)]
                    BY <3>2 DEF addStaticFunction
                <5>2. mm_functions \in [Bridge -> [Name -> Seq(FName)]]
                    BY DEF TypeOK
                <5> HIDE DEF b, n
                <5> QED
                    BY <1>2, <5>1, <5>2
            <4>3. mm_functionsNames'[a] = IF a # b THEN mm_functionsNames[a]
                    ELSE IF c.fname \in Resolved THEN mm_functionsNames[a] \cup {c.fname}
                    ELSE mm_functionsNames[a] \ {c.fname}
                BY <1>2, <3>2 DEF addStaticFunction, TypeOK
            <4>4. Range(mm_functions'[a][m]) \subseteq
                    IF a = b THEN Range(mm_functions[a][m]) \cup {c.fname}
                    ELSE Range(mm_functions[a][m])
                <5>1. Range(Append(mm_functions[a][m], c.fname))
                        = Range(mm_functions[a][m]) \cup {c.fname}
                    BY <1>2, <4>1, RangeAppend
                <5> QED
                    BY <4>2, <5>1
            <4>5. Range(mm_functions'[a][m]) \cap Resolved \subseteq mm_functionsNames'[a]
                BY <3>1, <4>3, <4>4
            <4> QED
                BY <3>1, <3>2, <4>5 DEF addStaticFunction
        <3>3. CASE addDynFunction(c)
            <4>1. mm_dynFunctions[a][m] \in Seq(FName)
                BY DEF TypeOK
            <4>2. mm_dynFunctions'[a][m] = IF a = b /\ m = n
                    THEN Append(mm_dynFunctions[a][m], c.fname) ELSE mm_dynFunctions[a][m]
                <5>1. mm_dynFunctions' = [mm_dynFunctions EXCEPT ![b][n] = Append(@, c.fname)]
                    BY <3>3 DEF addDynFunction
                <5>2. mm_dynFunctions \in [Bridge -> [Name -> Seq(FName)]]
                    BY DEF TypeOK
                <5> HIDE DEF b, n
                <5> QED
                    BY <1>2, <5>1, <5>2
            <4>3. mm_dynFunctionsNames'[a] = IF a # b THEN mm_dynFunctionsNames[a]
                    ELSE mm_dynFunctionsNames[a] \cup {c.fname}
                BY <1>2, <3>3 DEF addDynFunction, TypeOK
            <4>4. Range(mm_dynFunctions'[a][m]) \subseteq
                    IF a = b THEN Range(mm_dynFunctions[a][m]) \cup {c.fname}
                    ELSE Range(mm_dynFunctions[a][m])
                <5>1. Range(Append(mm_dynFunctions[a][m], c.fname))
                        = Range(mm_dynFunctions[a][m]) \cup {c.fname}
                    BY <1>2, <4>1, RangeAppend
                <5> QED
                    BY <4>2, <5>1
            <4>5. Range(mm_dynFunctions'[a][m]) \subseteq mm_dynFunctionsNames'[a]
                BY <3>1, <4>3, <4>4
            <4> QED
                BY <3>1, <3>3, <4>5 DEF addDynFunction
        <3> QED
            BY <3>2, <3>3 DEF addFunction
    <2> QED
        BY <1>3, <2>1, <2>2 DEF Configured
<1>9. Silenced'
    BY <1>3 DEF Silenced
<1> QED
    BY <1>1, <1>5, <1>6, <1>7, <1>8, <1>9

\* A message changes nothing the invariant is about.
LEMMA InvReceive ==
    ASSUME IInv, NEW r \in Reader, on_received_data(r)
    PROVE  IInv'
<1>1. TypeOK'
    BY TypeReceive DEF IInv
<1>2. UNCHANGED <<routing, loading, ending>>
    BY DEF on_received_data
<1> QED
    BY <1>1, <1>2 DEF IInv, OwnershipAgrees, Stages, Owned, Configured, Silenced,
        Started, routing, loading, ending

\* ISBridge::onTerminate keeps the invariant: it reaches every writer the bridge
\* has a route to.
LEMMA InvTerminate ==
    ASSUME IInv, NEW b \in Bridge, onTerminate(b)
    PROVE  IInv'
<1>1. TypeOK'
    BY TypeTerminate DEF IInv
<1>2. UNCHANGED <<routing, loading, destroyed>>
    BY DEF onTerminate
<1>3. OwnershipAgrees' /\ Owned' /\ Configured'
    BY <1>2 DEF IInv, OwnershipAgrees, Owned, Configured, Started, routing, loading
<1>4. Stages'
    <2>1. destroyed = {}
        BY DEF onTerminate, IInv, Stages
    <2> QED
        BY <1>2, <2>1 DEF IInv, Stages, onTerminate, loading
<1>5. Silenced'
    <2>1. ASSUME NEW a \in terminated', NEW k \in Key
          PROVE  Range(mm_writer'[a][k]) \subseteq m_bTerminating'
        <3>1. mm_writer' = mm_writer
            BY <1>2 DEF routing
        <3>2. m_bTerminating' = m_bTerminating \cup Range(mv_reader[b])
                \cup (UNION {Range(mm_writer[b][j]) : j \in Key})
                \cup ms_subpubs[b]
            BY DEF onTerminate, Terminated
        <3>3. CASE a \in terminated
            <4>1. Range(mm_writer[a][k]) \subseteq m_bTerminating
                BY <3>3 DEF IInv, Silenced
            <4> QED
                BY <3>1, <3>2, <4>1
        <3>4. CASE a = b
            BY <3>1, <3>2, <3>4
        <3> QED
            BY <2>1, <3>3, <3>4 DEF onTerminate
    <2> QED
        BY <2>1 DEF Silenced
<1> QED
    BY <1>1, <1>3, <1>4, <1>5 DEF IInv

\* Destruction begins only when every bridge has been terminated.
LEMMA InvDestroy ==
    ASSUME IInv, NEW b \in Bridge, Destroy(b)
    PROVE  IInv'
<1>1. TypeOK'
    BY TypeDestroy DEF IInv
<1>2. UNCHANGED <<routing, loading, terminated, m_bTerminating>> /\ terminated = Bridge
    BY DEF Destroy
<1> QED
    BY <1>1, <1>2 DEF IInv, OwnershipAgrees, Stages, Owned, Configured, Silenced,
        Started, routing, loading

\* The invariant is inductive.
LEMMA InvStep == IInv /\ [Next]_vars => IInv'
<1> SUFFICES ASSUME IInv, [Next]_vars PROVE IInv'
    OBVIOUS
<1>1. CASE UNCHANGED vars
    <2>1. TypeOK'
        BY <1>1, TypeStep DEF IInv
    <2> QED
        BY <1>1, <2>1 DEF IInv, OwnershipAgrees, Stages, Owned, Configured,
            Silenced, Started, vars, routing, loading, ending
<1>2. CASE Next
    BY <1>2, InvAddReader, InvAddWriter, InvAddFunction, InvReceive,
       InvTerminate, InvDestroy DEF Next
<1> QED
    BY <1>1, <1>2

\* The strengthening that the theorems below use holds in every reachable state.
THEOREM Invariance == Spec => []IInv
<1>1. Init => IInv
    BY InvInit
<1>2. IInv /\ [Next]_vars => IInv'
    BY InvStep
<1> QED
    BY <1>1, <1>2, PTL DEF Spec

\* A writer is owned by exactly the bridge it names as its own, whatever the
\* connectors and the order in which they are wired.
THEOREM Ownership == Spec => []OwnershipAgrees
<1>1. IInv => OwnershipAgrees
    BY DEF IInv
<1> QED
    BY <1>1, Invariance, PTL


-------------------------------------------------------------------------------
(* Silence after termination *)

\* No copy of a message is counted for a writer whose onTerminate has run.
LEMMA TerminatingIsSkipped ==
    ASSUME NEW r, NEW w \in m_bTerminating, NEW v
    PROVE  Copies(r, w, v) = 0
<1>1. {p \in Paths(r) : Sends(r, w, v, p)} = {}
    BY Zenon DEF Sends
<1> QED
    BY <1>1, FS_EmptySet DEF Copies

\* No step makes a writer of a terminated bridge send anything.
LEMMA SilentStep ==
    ASSUME IInv, Next, NEW b \in terminated, NEW w \in Writer,
           NEW k \in Key, w \in Range(mm_writer[b][k])
    PROVE  written'[w] = written[w]
<1>1. w \in m_bTerminating
    BY DEF IInv, Silenced
<1>2. ASSUME NEW r \in Reader, on_received_data(r)
      PROVE  written'[w] = written[w]
    <2>1. \A v \in FName : Copies(r, w, v) = 0
        BY <1>1, TerminatingIsSkipped
    <2>2. written'[w] = [v \in FName |-> written[w][v] + Copies(r, w, v)]
        BY <1>2 DEF on_received_data
    <2>3. written[w] \in [FName -> Nat]
        BY DEF IInv, TypeOK
    <2> QED
        BY <2>1, <2>2, <2>3
<1>3. ASSUME NEW c \in Connector, addReader(c) \/ addWriter(c) \/ addFunction(c)
      PROVE  UNCHANGED written
    BY <1>3 DEF addReader, addWriter, addFunction, traffic
<1>4. ASSUME NEW a \in Bridge, onTerminate(a) \/ Destroy(a)
      PROVE  UNCHANGED written
    BY <1>4 DEF onTerminate, Destroy, traffic
<1> QED
    BY <1>2, <1>3, <1>4 DEF Next

\* Nothing leaves a writer that a terminated bridge has a route to, not even by
\* way of a bridge that is still running.
THEOREM Silence == Spec => SilentAfterTermination
<1>1. IInv /\ [Next]_vars =>
        [ \A b \in terminated, w \in Writer :
            (\E k \in Key : w \in Range(mm_writer[b][k]))
            => written'[w] = written[w] ]_vars
    BY SilentStep
<1> QED
    BY <1>1, Invariance, PTL DEF Spec, SilentAfterTermination

-------------------------------------------------------------------------------
(* Destruction *)

\* Where each reader has one bridge, no endpoint has two owners.
LEMMA OneOwner ==
    ASSUME IInv, OneBridgePerReader, NEW o \in Endpoint,
           NEW a \in Bridge, NEW b \in Bridge,
           o \in ms_subpubs[a], o \in ms_subpubs[b]
    PROVE  a = b
<1>1. CASE o \in Writer
    BY <1>1 DEF IInv, OwnershipAgrees
<1>2. CASE o \in Reader
    <2>1. PICK c \in Started : c.bridge = a /\ c.reader = o
        BY <1>2 DEF IInv, Owned
    <2>2. PICK d \in Started : d.bridge = b /\ d.reader = o
        BY <1>2 DEF IInv, Owned
    <2>3. c \in Connector /\ d \in Connector
        BY DEF IInv, TypeOK, Started
    <2> QED
        BY <2>1, <2>2, <2>3 DEF OneBridgePerReader
<1> QED
    BY <1>1, <1>2 DEF Endpoint

\* With readers on one bridge each, every step keeps the count of deletions of an
\* endpoint in line with the destructors that have run.
LEMMA FreedStep ==
    ASSUME IInv, OneBridgePerReader, FreedCount, [Next]_vars
    PROVE  FreedCount'
<1>1. ASSUME NEW c \in Connector, addReader(c) \/ addWriter(c) \/ addFunction(c)
      PROVE  FreedCount'
    <2>1. terminated = {} /\ UNCHANGED <<freed, destroyed>>
        BY <1>1 DEF addReader, addWriter, addFunction, ending, IInv, Stages, Idle
    <2>2. destroyed = {}
        BY <2>1, ConnectorFields DEF IInv, Stages
    <2> QED
        BY <2>1, <2>2 DEF FreedCount
<1>2. ASSUME NEW b \in Bridge, Destroy(b)
      PROVE  FreedCount'
    <2>1. ASSUME NEW o \in Endpoint
          PROVE  freed'[o] = IF \E a \in destroyed' : o \in ms_subpubs'[a] THEN 1 ELSE 0
        <3>1. /\ freed'[o] = freed[o] + IF o \in ms_subpubs[b] THEN 1 ELSE 0
              /\ destroyed' = destroyed \cup {b}
              /\ b \notin destroyed /\ ms_subpubs' = ms_subpubs
              /\ destroyed \subseteq Bridge
            BY <1>2 DEF Destroy, routing, IInv, TypeOK
        <3>2. freed[o] = IF \E a \in destroyed : o \in ms_subpubs[a] THEN 1 ELSE 0
            BY DEF FreedCount
        <3>3. CASE o \in ms_subpubs[b]
            <4>1. ~ \E a \in destroyed : o \in ms_subpubs[a]
                BY <3>1, <3>3, OneOwner
            <4>2. freed'[o] = 1
                BY <3>1, <3>2, <3>3, <4>1
            <4> QED
                BY <3>1, <3>3, <4>2
        <3>4. CASE o \notin ms_subpubs[b]
            <4>1. freed'[o] = freed[o]
                BY <3>1, <3>2, <3>4
            <4> QED
                BY <3>1, <3>2, <3>4, <4>1
        <3> QED
            BY <3>3, <3>4
    <2> QED
        BY <2>1 DEF FreedCount
<1>3. ASSUME UNCHANGED <<freed, destroyed, ms_subpubs>>
      PROVE  FreedCount'
    BY <1>3 DEF FreedCount
<1>4. ASSUME NEW r \in Reader, on_received_data(r) PROVE FreedCount'
    BY <1>3, <1>4 DEF on_received_data, routing, ending
<1>5. ASSUME NEW b \in Bridge, onTerminate(b) PROVE FreedCount'
    BY <1>3, <1>5 DEF onTerminate, routing
<1>6. CASE UNCHANGED vars
    BY <1>3, <1>6 DEF vars, routing, ending
<1> QED
    BY <1>1, <1>2, <1>4, <1>5, <1>6 DEF Next

\* With that count, no endpoint is deleted twice and none is left over.
LEMMA FreedConsequence ==
    ASSUME IInv, OneBridgePerReader => FreedCount
    PROVE  FreedExactlyOnce
<1> SUFFICES ASSUME OneBridgePerReader
             PROVE  /\ \A o \in Endpoint : freed[o] <= 1
                    /\ destroyed = Bridge => \A c \in connected :
                            freed[c.reader] = 1 /\ freed[c.writer] = 1
    BY DEF FreedExactlyOnce
<1>1. \A o \in Endpoint : freed[o] = 0 \/ freed[o] = 1
    BY DEF FreedCount
<1>2. ASSUME destroyed = Bridge, NEW c \in connected
      PROVE  freed[c.reader] = 1 /\ freed[c.writer] = 1
    <2>1. /\ c \in Connector /\ c \in Started
          /\ c.bridge \in Bridge /\ c.reader \in Endpoint /\ c.writer \in Endpoint
          /\ c.writer \in Writer
        <3>1. c \in Connector
            BY DEF IInv, TypeOK
        <3> QED
            BY <3>1, ConnectorFields DEF Started, Endpoint
    <2>2. c.reader \in ms_subpubs[c.bridge]
        BY <2>1 DEF IInv, Owned
    <2>3. mb_bridge[c.writer] \in Bridge /\ c.writer \in ms_subpubs[mb_bridge[c.writer]]
        BY <2>1 DEF IInv, Owned, OwnershipAgrees
    <2> QED
        BY <1>2, <2>1, <2>2, <2>3 DEF FreedCount
<1> QED
    BY <1>1, <1>2

\* No bridge destructor deletes an endpoint that another one has deleted, and
\* none is left over, when every reader feeds one bridge.
THEOREM Freed == Spec => []FreedExactlyOnce
<1> DEFINE FInv == OneBridgePerReader => FreedCount
<1>1. Init => FInv
    BY DEF Init, FreedCount
<1>2. IInv /\ FInv /\ [Next]_vars => FInv'
    BY FreedStep DEF OneBridgePerReader
<1>3. IInv /\ FInv => FreedExactlyOnce
    BY FreedConsequence
<1> HIDE DEF FInv
<1> QED
    BY <1>1, <1>2, <1>3, Invariance, PTL DEF Spec


-------------------------------------------------------------------------------
(* The forms in which messages leave *)

\* A path is a position in each of the three loops.
LEMMA PathTriple ==
    ASSUME NEW r \in Reader, NEW p \in Paths(r)
    PROVE  \E i \in DOMAIN mv_bridges[r] :
           \E j \in DOMAIN funcNames(mv_bridges[r][i], r) :
           \E k \in DOMAIN pubs(mv_bridges[r][i], r, funcNames(mv_bridges[r][i], r)[j]) :
                p = <<i, j, k>>
<1> DEFINE F(i) == funcNames(mv_bridges[r][i], r)
           W(i, j) == pubs(mv_bridges[r][i], r, F(i)[j])
           P3(i, j) == { <<i, j, k>> : k \in DOMAIN W(i, j) }
           P2(i) == UNION { P3(i, j) : j \in DOMAIN F(i) }
<1>1. p \in UNION { P2(i) : i \in DOMAIN mv_bridges[r] }
    BY DEF Paths
<1>2. PICK i \in DOMAIN mv_bridges[r] : p \in P2(i)
    <2> HIDE DEF P2
    <2> QED
        BY <1>1
<1>3. PICK j \in DOMAIN F(i) : p \in P3(i, j)
    <2> HIDE DEF P3, F
    <2> QED
        BY <1>2
<1>4. \E k \in DOMAIN W(i, j) : p = <<i, j, k>>
    BY <1>3
<1> QED
    BY <1>2, <1>3, <1>4

\* A path ends at a route of the bridge for the reader's name.
LEMMA PathParts ==
    ASSUME TypeOK, NEW r \in Reader, NEW p \in Paths(r)
    PROVE  LET b == mv_bridges[r][p[1]]
               f == funcNames(b, r)[p[2]]
           IN  /\ b \in Bridge
               /\ f \in FName
               /\ f \in Range(funcNames(b, r))
               /\ pubs(b, r, f)[p[3]] \in Writer
               /\ pubs(b, r, f)[p[3]] \in Range(pubs(b, r, f))
<1>1. PICK i \in DOMAIN mv_bridges[r] :
      \E j \in DOMAIN funcNames(mv_bridges[r][i], r) :
      \E k \in DOMAIN pubs(mv_bridges[r][i], r, funcNames(mv_bridges[r][i], r)[j]) :
            p = <<i, j, k>>
    BY PathTriple
<1> DEFINE b == mv_bridges[r][i]
           fs == funcNames(b, r)
<1>2. PICK j \in DOMAIN fs : \E k \in DOMAIN pubs(b, r, fs[j]) : p = <<i, j, k>>
    BY <1>1
<1>3. PICK k \in DOMAIN pubs(b, r, fs[j]) : p = <<i, j, k>>
    BY <1>2
<1>4. /\ b \in Bridge /\ fs \in Seq(FName) /\ pubs(b, r, fs[j]) \in Seq(Writer)
    BY LoopTypes
<1>5. p[1] = i /\ p[2] = j /\ p[3] = k
    BY <1>3
<1>6. fs[j] \in FName /\ fs[j] \in Range(fs)
    BY <1>4 DEF Range
<1>7. /\ pubs(b, r, fs[j])[k] \in Writer
      /\ pubs(b, r, fs[j])[k] \in Range(pubs(b, r, fs[j]))
    BY <1>4 DEF Range
<1> QED
    BY <1>4, <1>5, <1>6, <1>7

\* A function name the bridge loops over is bound exactly when its symbol exists.
LEMMA BoundIffResolved ==
    ASSUME IInv, NEW r \in Reader, NEW b \in Bridge, NEW f \in Range(funcNames(b, r))
    PROVE  HasFunction(b, r, f) <=> f \in Resolved
<1> DEFINE n == readerName[r]
<1>1. n \in Name /\ NoFunction \notin Resolved
    BY ISBridgeAssumption
<1>2. /\ Range(mm_functions[b][n]) \cap Resolved \subseteq mm_functionsNames[b]
      /\ Range(mm_dynFunctions[b][n]) \subseteq mm_dynFunctionsNames[b]
    BY <1>1 DEF IInv, Configured
<1>3. mm_functionsNames[b] \subseteq Resolved /\ mm_dynFunctionsNames[b] \subseteq Resolved
    BY DEF IInv, TypeOK
<1>4. CASE r \notin DynReader
    BY <1>2, <1>3, <1>4 DEF funcNames, HasFunction
<1>5. CASE r \in DynReader /\ mm_dynFunctions[b][n] = <<>>
    <2>1. f = NoFunction
        BY <1>5 DEF funcNames, Range
    <2> QED
        BY <1>1, <1>3, <1>5, <2>1 DEF HasFunction
<1>6. CASE r \in DynReader /\ mm_dynFunctions[b][n] # <<>>
    BY <1>2, <1>3, <1>6 DEF funcNames, HasFunction
<1> QED
    BY <1>4, <1>5, <1>6

\* A form in which a message leaves a writer was asked for by a connector of the
\* reader's name.
LEMMA SentByConnector ==
    ASSUME IInv, NEW r \in Reader, NEW w \in Writer, NEW v \in FName,
           Copies(r, w, v) > 0
    PROVE  \E c \in Started : /\ c.writer = w
                              /\ v = IF c.fname \in Resolved THEN c.fname ELSE NoFunction
                              /\ readerName[c.reader] = readerName[r]
<1>1. PICK p \in Paths(r) : Sends(r, w, v, p)
    <2>1. {p \in Paths(r) : Sends(r, w, v, p)} # {}
        BY FS_EmptySet DEF Copies
    <2> QED
        BY <2>1
<1> DEFINE b == mv_bridges[r][p[1]]
           f == funcNames(b, r)[p[2]]
<1>2. /\ b \in Bridge /\ f \in FName /\ f \in Range(funcNames(b, r))
      /\ pubs(b, r, f)[p[3]] \in Range(pubs(b, r, f))
    BY PathParts DEF IInv
<1>3. /\ w \in Range(pubs(b, r, f))
      /\ v = IF HasFunction(b, r, f) THEN f ELSE NoFunction
    BY <1>1, <1>2 DEF Sends
<1>4. v = IF f \in Resolved THEN f ELSE NoFunction
    BY <1>2, <1>3, BoundIffResolved
<1>5. PICK c \in Started : /\ c.bridge = b
                           /\ readerName[c.reader] = readerName[r]
                           /\ c.fname = f
                           /\ c.writer = w
    <2>1. w \in Range(mm_writer[b][<<readerName[r], f>>])
        BY <1>3 DEF pubs
    <2>2. readerName[r] \in Name
        BY ISBridgeAssumption
    <2> QED
        BY <1>2, <2>1, <2>2 DEF IInv, Configured
<1> QED
    BY <1>4, <1>5

\* Every step keeps the forms a writer has sent within the configured ones.
LEMMA FormsStep ==
    ASSUME IInv, OnlyConfiguredForms, [Next]_vars
    PROVE  OnlyConfiguredForms'
<1> DEFINE Explained(w, v) ==
        \E c \in Started :
            /\ c.writer = w
            /\ v = IF c.fname \in Resolved THEN c.fname ELSE NoFunction
            /\ \E r \in Reader : /\ readerName[r] = readerName[c.reader]
                                 /\ received[r] > 0
<1>1. \A w \in Writer, v \in FName : written[w][v] > 0 => Explained(w, v)
    BY DEF OnlyConfiguredForms, Started
<1>2. SUFFICES ASSUME NEW w \in Writer, NEW v \in FName, written'[w][v] > 0
               PROVE  Explained(w, v)'
    BY DEF OnlyConfiguredForms, Started
<1>3. ASSUME UNCHANGED written, UNCHANGED received, Started \subseteq Started'
      PROVE  Explained(w, v)'
    BY <1>1, <1>2, <1>3
<1>4. ASSUME NEW c \in Connector, addReader(c)
      PROVE  Explained(w, v)'
    <2>1. Started \subseteq Started' /\ UNCHANGED traffic
        BY <1>4 DEF addReader, Started, IInv, Stages
    <2> QED
        BY <1>3, <2>1 DEF traffic
<1>5. ASSUME NEW c \in Connector, addWriter(c) \/ addFunction(c)
      PROVE  Explained(w, v)'
    <2>1. Started \subseteq Started' /\ UNCHANGED traffic
        BY <1>5 DEF addWriter, addFunction, Started
    <2> QED
        BY <1>3, <2>1 DEF traffic
<1>6. ASSUME NEW r \in Reader, on_received_data(r)
      PROVE  Explained(w, v)'
    <2>1. /\ Started' = Started
          /\ received' = [received EXCEPT ![r] = @ + 1]
          /\ received \in [Reader -> Nat]
          /\ written'[w][v] = written[w][v] + Copies(r, w, v)
        BY <1>6 DEF on_received_data, Started, loading, IInv, TypeOK
    <2>2. \A q \in Reader : received'[q] >= received[q] /\ received'[r] > 0
        BY <2>1
    <2>3. written[w][v] \in Nat /\ Copies(r, w, v) \in Nat
        BY CopiesType DEF IInv, TypeOK
    <2>4. CASE written[w][v] > 0
        <3>1. PICK c \in Started, q \in Reader :
                /\ c.writer = w
                /\ v = IF c.fname \in Resolved THEN c.fname ELSE NoFunction
                /\ readerName[q] = readerName[c.reader]
                /\ received[q] > 0
            BY <1>1, <2>4
        <3>2. received'[q] > 0
            BY <2>1, <2>2, <3>1
        <3> QED
            BY <2>1, <3>1, <3>2
    <2>5. CASE Copies(r, w, v) > 0
        <3>1. PICK c \in Started :
                /\ c.writer = w
                /\ v = IF c.fname \in Resolved THEN c.fname ELSE NoFunction
                /\ readerName[c.reader] = readerName[r]
            BY <2>5, SentByConnector
        <3> QED
            BY <2>1, <2>2, <3>1
    <2> QED
        BY <1>2, <2>1, <2>3, <2>4, <2>5
<1>7. ASSUME NEW b \in Bridge, onTerminate(b) \/ Destroy(b)
      PROVE  Explained(w, v)'
    <2>1. Started \subseteq Started' /\ UNCHANGED traffic
        BY <1>7 DEF onTerminate, Destroy, Started, loading
    <2> QED
        BY <1>3, <2>1 DEF traffic
<1>8. CASE UNCHANGED vars
    <2>1. Started \subseteq Started' /\ UNCHANGED traffic
        BY <1>8 DEF vars, Started, loading
    <2> QED
        BY <1>3, <2>1 DEF traffic
<1> QED
    BY <1>4, <1>5, <1>6, <1>7, <1>8 DEF Next

\* Whatever leaves a writer was configured: no message goes out untransformed
\* where a transformation was asked for and exists, nor by a writer no connector
\* names, even between the calls that wire a connector.
THEOREM Forms == Spec => []OnlyConfiguredForms
<1>1. Init => OnlyConfiguredForms
    BY DEF Init, OnlyConfiguredForms
<1>2. IInv /\ OnlyConfiguredForms /\ [Next]_vars => OnlyConfiguredForms'
    BY FormsStep
<1> QED
    BY <1>1, <1>2, Invariance, PTL DEF Spec

-------------------------------------------------------------------------------
(* The lists a message is routed by, entry for entry *)

\* An empty list lists no connector.
LEMMA ListsEmpty ==
    ASSUME NEW C, C = {}, NEW field
    PROVE  Lists(<<>>, C, field)
<1> DEFINE g == [i \in {} |-> i]
<1>1. DOMAIN <<>> = {}
    OBVIOUS
<1>2. g \in [{} -> {}]
    OBVIOUS
<1>3. g \in Injection({}, {}) /\ g \in Surjection({}, {})
    BY <1>2, Fun_IsInj, Fun_IsSurj
<1>4. g \in Bijection(DOMAIN <<>>, C)
    BY <1>1, <1>3 DEF Bijection
<1> QED
    BY <1>1, <1>4 DEF Lists

\* Where the entries of a list come from: one connector of its own each.
LEMMA ListsFrom ==
    ASSUME NEW s, NEW C, NEW field, Lists(s, C, field)
    PROVE  \E g \in [DOMAIN s -> C] :
                /\ \A i, j \in DOMAIN s : g[i] = g[j] => i = j
                /\ \A c \in C : \E i \in DOMAIN s : g[i] = c
                /\ \A i \in DOMAIN s : s[i] = g[i][field]
<1>1. PICK g \in Bijection(DOMAIN s, C) : \A i \in DOMAIN s : s[i] = g[i][field]
    BY DEF Lists
<1>2. /\ g \in [DOMAIN s -> C]
      /\ \A i, j \in DOMAIN s : g[i] = g[j] => i = j
      /\ \A c \in C : \E i \in DOMAIN s : g[i] = c
    BY Fun_BijectionProperties
<1> QED
    BY <1>1, <1>2

\* The converse.
LEMMA ListsBy ==
    ASSUME NEW s, NEW C, NEW field, NEW g \in [DOMAIN s -> C],
           \A i, j \in DOMAIN s : g[i] = g[j] => i = j,
           \A c \in C : \E i \in DOMAIN s : g[i] = c,
           \A i \in DOMAIN s : s[i] = g[i][field]
    PROVE  Lists(s, C, field)
<1>1. g \in Injection(DOMAIN s, C) /\ g \in Surjection(DOMAIN s, C)
    BY Fun_IsInj, Fun_IsSurj
<1> QED
    BY <1>1 DEF Lists, Bijection

\* Appending the field of a connector that was not listed lists it as well.
LEMMA ListsAppend ==
    ASSUME NEW X, NEW s \in Seq(X), NEW C, NEW c, c \notin C, NEW field,
           c[field] \in X, Lists(s, C, field)
    PROVE  Lists(Append(s, c[field]), C \cup {c}, field)
<1>1. PICK g \in [DOMAIN s -> C] :
                /\ \A i, j \in DOMAIN s : g[i] = g[j] => i = j
                /\ \A d \in C : \E i \in DOMAIN s : g[i] = d
                /\ \A i \in DOMAIN s : s[i] = g[i][field]
    BY ListsFrom
<1> DEFINE t == Append(s, c[field])
           n == Len(s)
           D == C \cup {c}
           h == [i \in DOMAIN t |-> IF i = n + 1 THEN c ELSE g[i]]
<1>2. /\ n \in Nat /\ DOMAIN s = 1 .. n
      /\ DOMAIN t = 1 .. (n + 1)
      /\ \A i \in 1 .. n : t[i] = s[i]
      /\ t[n + 1] = c[field]
    OBVIOUS
<1>3. DOMAIN t = DOMAIN s \cup {n + 1} /\ n + 1 \notin DOMAIN s
    BY <1>2
<1>4. \A i \in DOMAIN s : h[i] = g[i] /\ h[i] \in C /\ h[i] # c
    BY <1>1, <1>3
<1>5. h[n + 1] = c
    BY <1>3
<1>6. h \in [DOMAIN t -> D]
    BY <1>3, <1>4, <1>5
<1> HIDE DEF h, t, n, D
<1>7. \A i, j \in DOMAIN t : h[i] = h[j] => i = j
    BY <1>1, <1>3, <1>4, <1>5
<1>8. \A d \in D : \E i \in DOMAIN t : h[i] = d
    BY <1>1, <1>3, <1>4, <1>5 DEF D
<1>9. \A i \in DOMAIN t : t[i] = h[i][field]
    BY <1>1, <1>2, <1>3, <1>4, <1>5
<1>10. Lists(t, D, field)
    BY <1>6, <1>7, <1>8, <1>9, ListsBy
<1> QED
    BY <1>10 DEF t, D

\* A list is empty if it lists no connector, and only then.
LEMMA ListsNone ==
    ASSUME NEW X, NEW s \in Seq(X), NEW C, NEW field, Lists(s, C, field)
    PROVE  s = <<>> <=> C = {}
<1>1. /\ Len(s) \in Nat /\ DOMAIN s = 1 .. Len(s)
      /\ s = <<>> <=> Len(s) = 0
    OBVIOUS
<1>2. s = <<>> <=> DOMAIN s = {}
    <2>1. Len(s) > 0 => 1 \in DOMAIN s
        BY <1>1
    <2>2. Len(s) = 0 => DOMAIN s = {}
        BY <1>1
    <2> QED
        BY <1>1, <2>1, <2>2
<1>3. PICK g \in [DOMAIN s -> C] : \A c \in C : \E i \in DOMAIN s : g[i] = c
    BY ListsFrom
<1>4. DOMAIN s = {} <=> C = {}
    BY <1>3
<1> QED
    BY <1>2, <1>4

\* A service in which nothing has been wired has empty lists.
LEMMA EntriesInit == Init => Entries
<1> SUFFICES ASSUME Init PROVE Entries
    OBVIOUS
<1>1. Started = {} /\ Routed = {} /\ connected = {} /\ wiring = {}
    BY DEF Init, Started, Routed
<1>2. /\ \A r \in Reader : mv_bridges[r] = <<>>
      /\ \A b \in Bridge, n \in Name :
            /\ mm_functions[b][n] = <<>> /\ mm_dynFunctions[b][n] = <<>>
            /\ \A f \in FName : mm_writer[b][<<n, f>>] = <<>>
    BY DEF Init, Key
<1>3. \A r \in Reader : {c \in Started : c.reader = r} = {}
    BY <1>1
<1>4. \A b \in Bridge, n \in Name :
        /\ {c \in Sharing(b, n) \cap connected : ~IsDynFunction(c)} = {}
        /\ {c \in Sharing(b, n) \cap connected : IsDynFunction(c)} = {}
        /\ \A f \in FName : {c \in Sharing(b, n) \cap Routed : c.fname = f} = {}
    BY <1>1
<1> QED
    BY <1>1, <1>2, <1>3, <1>4, ListsEmpty DEF Entries

\* addReader lists one connector more among the bridges of its reader.
LEMMA EntriesAddReader ==
    ASSUME IInv, Entries, NEW c \in Connector, addReader(c)
    PROVE  Entries'
<1>1. /\ wiring = {} /\ wiring' = {c} /\ connected' = connected /\ c \notin connected
      /\ pc = Idle /\ pc' = "addWriter"
    BY DEF addReader, IInv, Stages
<1>2. Started' = Started \cup {c} /\ c \notin Started /\ Routed' = Routed
    BY <1>1 DEF Started, Routed, Idle
<1>3. /\ c.reader \in Reader /\ c["bridge"] = c.bridge /\ c.bridge \in Bridge
    BY ConnectorFields
<1>4. ASSUME NEW r \in Reader
      PROVE  Lists(mv_bridges'[r], {d \in Started' : d.reader = r}, "bridge")
    <2> DEFINE C == {d \in Started : d.reader = r}
    <2>1. mv_bridges[r] \in Seq(Bridge) /\ Lists(mv_bridges[r], C, "bridge")
        BY DEF IInv, TypeOK, Entries
    <2>2. CASE r = c.reader
        <3>1. mv_bridges'[r] = Append(mv_bridges[r], c["bridge"])
            BY <1>3, <2>2 DEF addReader, IInv, TypeOK
        <3>2. {d \in Started' : d.reader = r} = C \cup {c} /\ c \notin C
            BY <1>2, <2>2
        <3>3. Lists(Append(mv_bridges[r], c["bridge"]), C \cup {c}, "bridge")
            <4> HIDE DEF C
            <4> QED
                BY <1>3, <2>1, <3>2, ListsAppend
        <3> QED
            BY <3>1, <3>2, <3>3
    <2>3. CASE r # c.reader
        <3>1. mv_bridges'[r] = mv_bridges[r]
            BY <1>3, <2>3 DEF addReader, IInv, TypeOK
        <3>2. {d \in Started' : d.reader = r} = C
            BY <1>2, <2>3
        <3> QED
            BY <2>1, <3>1, <3>2
    <2> QED
        BY <2>2, <2>3
<1>5. /\ mm_functions' = mm_functions /\ mm_dynFunctions' = mm_dynFunctions
      /\ mm_writer' = mm_writer
    BY DEF addReader
<1>6. (wiring \cap connected)' = {}
    BY <1>1
<1> QED
    BY <1>1, <1>2, <1>4, <1>5, <1>6 DEF Entries, Sharing, IsDynFunction

\* addWriter lists it among the routes of its key.
LEMMA EntriesAddWriter ==
    ASSUME IInv, Entries, NEW c \in Connector, addWriter(c)
    PROVE  Entries'
<1>1. /\ wiring = {c} /\ wiring' = {c} /\ connected' = connected
      /\ pc = "addWriter" /\ pc' = "addFunction" /\ c \notin connected
    BY DEF addWriter, Entries
<1>2. Started' = Started /\ Routed' = Routed \cup {c} /\ c \notin Routed
    BY <1>1 DEF Started, Routed
<1>3. /\ c.bridge \in Bridge /\ c["writer"] \in Writer /\ c["writer"] = c.writer
      /\ <<readerName[c.reader], c.fname>> \in Key
    BY ConnectorFields
<1>4. ASSUME NEW b \in Bridge, NEW n \in Name, NEW f \in FName
      PROVE  Lists(mm_writer'[b][<<n, f>>],
                   {d \in Sharing(b, n) \cap Routed' : d.fname = f}, "writer")
    <2> DEFINE C == {d \in Sharing(b, n) \cap Routed : d.fname = f}
               k == <<n, f>>
    <2>1. k \in Key
        BY DEF Key
    <2>2. mm_writer[b][k] \in Seq(Writer) /\ Lists(mm_writer[b][k], C, "writer")
        BY <2>1 DEF IInv, TypeOK, Entries
    <2>3. CASE c.bridge = b /\ readerName[c.reader] = n /\ c.fname = f
        <3>1. mm_writer'[b][k] = Append(mm_writer[b][k], c["writer"])
            BY <1>3, <2>1, <2>3 DEF addWriter, IInv, TypeOK
        <3>2. {d \in Sharing(b, n) \cap Routed' : d.fname = f} = C \cup {c} /\ c \notin C
            BY <1>2, <2>3 DEF Sharing
        <3>3. Lists(Append(mm_writer[b][k], c["writer"]), C \cup {c}, "writer")
            <4> HIDE DEF C, k
            <4> QED
                BY <1>3, <2>2, <3>2, ListsAppend
        <3> QED
            BY <3>1, <3>2, <3>3
    <2>4. CASE ~(c.bridge = b /\ readerName[c.reader] = n /\ c.fname = f)
        <3>1. mm_writer'[b][k] = mm_writer[b][k]
            BY <1>3, <2>1, <2>4 DEF addWriter, IInv, TypeOK
        <3>2. {d \in Sharing(b, n) \cap Routed' : d.fname = f} = C
            BY <1>2, <2>4 DEF Sharing
        <3> QED
            BY <2>2, <3>1, <3>2
    <2> QED
        BY <2>3, <2>4
<1>5. /\ mm_functions' = mm_functions /\ mm_dynFunctions' = mm_dynFunctions
      /\ mv_bridges' = mv_bridges
    BY DEF addWriter
<1>6. (wiring \cap connected)' = {}
    BY <1>1
<1> QED
    BY <1>1, <1>2, <1>4, <1>5, <1>6 DEF Entries, Sharing, IsDynFunction

\* addFunction lists it among the functions of its kind.
LEMMA EntriesAddFunction ==
    ASSUME IInv, Entries, NEW c \in Connector, addFunction(c)
    PROVE  Entries'
<1>1. /\ wiring = {c} /\ wiring' = {} /\ connected' = connected \cup {c}
      /\ pc = "addFunction" /\ c \notin connected
    BY DEF addFunction, Entries
<1>2. Started' = Started /\ Routed' = Routed
    BY <1>1 DEF Started, Routed
<1>3. /\ c.bridge \in Bridge /\ c["fname"] \in FName /\ c["fname"] = c.fname
      /\ readerName[c.reader] \in Name
    BY ConnectorFields
<1> DEFINE Static(b, n) == {d \in Sharing(b, n) \cap connected : ~IsDynFunction(d)}
           Dynamic(b, n) == {d \in Sharing(b, n) \cap connected : IsDynFunction(d)}
           Statics(b, n) == {d \in Sharing(b, n) \cap connected' : ~IsDynFunction(d)}
           Dynamics(b, n) == {d \in Sharing(b, n) \cap connected' : IsDynFunction(d)}
<1>4. ASSUME NEW b \in Bridge, NEW n \in Name
      PROVE  /\ Lists(mm_functions'[b][n], Statics(b, n), "fname")
             /\ Lists(mm_dynFunctions'[b][n], Dynamics(b, n), "fname")
    <2>1. /\ mm_functions[b][n] \in Seq(FName) /\ mm_dynFunctions[b][n] \in Seq(FName)
          /\ Lists(mm_functions[b][n], Static(b, n), "fname")
          /\ Lists(mm_dynFunctions[b][n], Dynamic(b, n), "fname")
        <3>1. mm_functions[b][n] \in Seq(FName) /\ mm_dynFunctions[b][n] \in Seq(FName)
            BY DEF IInv, TypeOK
        <3>2. /\ Lists(mm_functions[b][n], Static(b, n), "fname")
              /\ Lists(mm_dynFunctions[b][n], Dynamic(b, n), "fname")
            BY Zenon DEF Entries
        <3> QED
            BY <3>1, <3>2
    <2>2. CASE c.bridge = b /\ readerName[c.reader] = n /\ ~IsDynFunction(c)
        <3>1. /\ mm_functions'[b][n] = Append(mm_functions[b][n], c["fname"])
              /\ mm_dynFunctions' = mm_dynFunctions
            BY <1>3, <2>2 DEF addFunction, addStaticFunction, addDynFunction, IInv, TypeOK
        <3>2. /\ Statics(b, n) = Static(b, n) \cup {c} /\ c \notin Static(b, n)
              /\ Dynamics(b, n) = Dynamic(b, n)
            BY <1>1, <2>2 DEF Sharing
        <3> HIDE DEF Static, Dynamic, Statics, Dynamics
        <3>3. Lists(Append(mm_functions[b][n], c["fname"]), Static(b, n) \cup {c}, "fname")
            BY <1>3, <2>1, <3>2, ListsAppend
        <3> QED
            BY <2>1, <3>1, <3>2, <3>3
    <2>3. CASE c.bridge = b /\ readerName[c.reader] = n /\ IsDynFunction(c)
        <3>1. /\ mm_dynFunctions'[b][n] = Append(mm_dynFunctions[b][n], c["fname"])
              /\ mm_functions' = mm_functions
            BY <1>3, <2>3 DEF addFunction, addStaticFunction, addDynFunction, IInv, TypeOK
        <3>2. /\ Dynamics(b, n) = Dynamic(b, n) \cup {c} /\ c \notin Dynamic(b, n)
              /\ Statics(b, n) = Static(b, n)
            BY <1>1, <2>3 DEF Sharing
        <3> HIDE DEF Static, Dynamic, Statics, Dynamics
        <3>3. Lists(Append(mm_dynFunctions[b][n], c["fname"]), Dynamic(b, n) \cup {c}, "fname")
            BY <1>3, <2>1, <3>2, ListsAppend
        <3> QED
            BY <2>1, <3>1, <3>2, <3>3
    <2>4. CASE ~(c.bridge = b /\ readerName[c.reader] = n)
        <3>1. /\ mm_functions'[b][n] = mm_functions[b][n]
              /\ mm_dynFunctions'[b][n] = mm_dynFunctions[b][n]
            <4> DEFINE m == readerName[c.reader]
            <4>1. \/ /\ mm_functions' = [mm_functions EXCEPT ![c.bridge][m] = Append(@, c.fname)]
                     /\ mm_dynFunctions' = mm_dynFunctions
                  \/ /\ mm_dynFunctions' = [mm_dynFunctions EXCEPT ![c.bridge][m] = Append(@, c.fname)]
                     /\ mm_functions' = mm_functions
                BY DEF addFunction, addStaticFunction, addDynFunction
            <4>2. /\ mm_functions \in [Bridge -> [Name -> Seq(FName)]]
                  /\ mm_dynFunctions \in [Bridge -> [Name -> Seq(FName)]]
                BY DEF IInv, TypeOK
            <4>3. ~(c.bridge = b /\ m = n) /\ c.bridge \in Bridge /\ m \in Name
                BY <1>3, <2>4
            <4> HIDE DEF m
            <4>4. CASE c.bridge = b
                BY <4>1, <4>2, <4>3, <4>4
            <4>5. CASE c.bridge # b
                BY <4>1, <4>2, <4>3, <4>5
            <4> QED
                BY <4>4, <4>5
        <3>2. Dynamics(b, n) = Dynamic(b, n) /\ Statics(b, n) = Static(b, n)
            BY <1>1, <2>4 DEF Sharing
        <3> HIDE DEF Static, Dynamic, Statics, Dynamics
        <3> QED
            BY <2>1, <3>1, <3>2
    <2> QED
        BY <2>2, <2>3, <2>4
<1>5. mv_bridges' = mv_bridges /\ mm_writer' = mm_writer
    BY DEF addFunction
<1>6. (wiring \cap connected)' = {}
    BY <1>1
<1> QED
    BY <1>2, <1>4, <1>5, <1>6 DEF Entries, Sharing, IsDynFunction

\* No other step touches the lists.
LEMMA EntriesStep == IInv /\ Entries /\ [Next]_vars => Entries'
<1> SUFFICES ASSUME IInv, Entries, [Next]_vars PROVE Entries'
    OBVIOUS
<1>1. CASE \E c \in Connector : addReader(c) \/ addWriter(c) \/ addFunction(c)
    BY <1>1, EntriesAddReader, EntriesAddWriter, EntriesAddFunction
<1>2. CASE UNCHANGED <<routing, loading>>
    <2>1. /\ mv_bridges' = mv_bridges /\ mm_functions' = mm_functions
          /\ mm_dynFunctions' = mm_dynFunctions /\ mm_writer' = mm_writer
          /\ wiring' = wiring /\ pc' = pc /\ connected' = connected
        BY <1>2 DEF routing, loading
    <2>2. Started' = Started /\ Routed' = Routed
        BY <2>1 DEF Started, Routed
    <2> QED
        BY <2>1, <2>2 DEF Entries, Sharing, IsDynFunction
<1>3. CASE (\E r \in Reader : on_received_data(r)) \/ UNCHANGED vars
    BY <1>2, <1>3 DEF on_received_data, vars
<1>4. CASE \E b \in Bridge : onTerminate(b) \/ Destroy(b)
    BY <1>2, <1>4 DEF onTerminate, Destroy
<1> QED
    BY <1>1, <1>3, <1>4 DEF Next

\* For any configuration, every entry of the lists a message is routed by belongs
\* to a connector of its own (addReader, addWriter and addFunction).
THEOREM EntriesOfConnectors == Spec => []Entries
<1>1. Init => Entries
    BY EntriesInit
<1>2. IInv /\ Entries /\ [Next]_vars => Entries'
    BY EntriesStep
<1>3. Spec => []IInv
    BY Invariance
<1> QED
    BY <1>1, <1>2, <1>3, PTL DEF Spec

-------------------------------------------------------------------------------
(* The copies of a message, counted by connectors *)

\* The DynamicData overload has no function for the reader on this bridge.
FallsBack(b, r) == r \in DynReader /\ mm_dynFunctions[b][readerName[r]] = <<>>

\* The connectors that route a function of the reader's name on a bridge.
Routes(b, r, f) == {c \in Sharing(b, readerName[r]) \cap connected : c.fname = f}

\* The lists of a bridge when no connector is being wired: what puts an entry
\* there is a connector of Triples or Fallbacks.
LEMMA ListsWhenIdle ==
    ASSUME IInv, Entries, pc = Idle, NEW r \in Reader
    PROVE  /\ Lists(mv_bridges[r], {c \in connected : c.reader = r}, "bridge")
           /\ \A b \in Bridge :
                /\ FallsBack(b, r) <=> r \in DynReader /\ Selected(r, b) = {}
                /\ FallsBack(b, r) => funcNames(b, r) = <<NoFunction>>
                /\ ~FallsBack(b, r) => Lists(funcNames(b, r), Selected(r, b), "fname")
                /\ \A f \in FName : Lists(pubs(b, r, f), Routes(b, r, f), "writer")
<1>1. Started = connected /\ Routed = connected /\ connected \subseteq Connector
    BY DEF IInv, TypeOK, Stages, Started, Routed
<1>2. Lists(mv_bridges[r], {c \in connected : c.reader = r}, "bridge")
    <2>1. Lists(mv_bridges[r], {c \in Started : c.reader = r}, "bridge")
        BY DEF Entries
    <2> QED
        BY <1>1, <2>1
<1>3. ASSUME NEW b \in Bridge
      PROVE  /\ FallsBack(b, r) <=> r \in DynReader /\ Selected(r, b) = {}
             /\ FallsBack(b, r) => funcNames(b, r) = <<NoFunction>>
             /\ ~FallsBack(b, r) => Lists(funcNames(b, r), Selected(r, b), "fname")
             /\ \A f \in FName : Lists(pubs(b, r, f), Routes(b, r, f), "writer")
    <2> DEFINE n == readerName[r]
               Static == {c \in Sharing(b, n) \cap connected : ~IsDynFunction(c)}
               Dynamic == {c \in Sharing(b, n) \cap connected : IsDynFunction(c)}
    <2>1. n \in Name
        BY ISBridgeAssumption
    <2>2. Lists(mm_functions[b][n], Static, "fname")
        BY <2>1, Zenon DEF Entries
    <2>3. Lists(mm_dynFunctions[b][n], Dynamic, "fname")
        BY <2>1, Zenon DEF Entries
    <2>4. Selected(r, b) = IF r \in DynReader THEN Dynamic ELSE Static
        BY <1>1 DEF Selected, SameRoute, Sharing
    <2>5. mm_dynFunctions[b][n] = <<>> <=> Dynamic = {}
        <3>1. mm_dynFunctions[b][n] \in Seq(FName)
            BY <2>1 DEF IInv, TypeOK
        <3> HIDE DEF Dynamic
        <3> QED
            BY <2>3, <3>1, ListsNone
    <2>6. FallsBack(b, r) <=> r \in DynReader /\ Selected(r, b) = {}
        BY <2>4, <2>5 DEF FallsBack
    <2>7. FallsBack(b, r) => funcNames(b, r) = <<NoFunction>>
        BY DEF FallsBack, funcNames
    <2>8. ASSUME ~FallsBack(b, r)
          PROVE  Lists(funcNames(b, r), Selected(r, b), "fname")
        <3>1. funcNames(b, r) = IF r \in DynReader THEN mm_dynFunctions[b][n] ELSE mm_functions[b][n]
            BY <2>8 DEF FallsBack, funcNames
        <3> HIDE DEF Static, Dynamic
        <3> QED
            BY <2>2, <2>3, <2>4, <3>1
    <2>9. \A f \in FName : Lists(pubs(b, r, f), Routes(b, r, f), "writer")
        <3> SUFFICES ASSUME NEW f \in FName PROVE Lists(pubs(b, r, f), Routes(b, r, f), "writer")
            OBVIOUS
        <3>1. Lists(mm_writer[b][<<n, f>>],
                    {c \in Sharing(b, n) \cap Routed : c.fname = f}, "writer")
            BY <2>1, Zenon DEF Entries
        <3> QED
            BY <1>1, <3>1 DEF pubs, Routes
    <2> QED
        BY <2>6, <2>7, <2>8, <2>9
<1> QED
    BY <1>2, <1>3

\* Positions in the three loops make a path.
LEMMA TriplePath ==
    ASSUME NEW r \in Reader, NEW i \in DOMAIN mv_bridges[r],
           NEW j \in DOMAIN funcNames(mv_bridges[r][i], r),
           NEW k \in DOMAIN pubs(mv_bridges[r][i], r, funcNames(mv_bridges[r][i], r)[j])
    PROVE  <<i, j, k>> \in Paths(r)
<1> DEFINE F(a) == funcNames(mv_bridges[r][a], r)
           W(a, x) == pubs(mv_bridges[r][a], r, F(a)[x])
           P3(a, x) == { <<a, x, y>> : y \in DOMAIN W(a, x) }
           P2(a) == UNION { P3(a, x) : x \in DOMAIN F(a) }
<1>1. <<i, j, k>> \in P3(i, j) /\ j \in DOMAIN F(i)
    OBVIOUS
<1>2. <<i, j, k>> \in P2(i)
    <2> HIDE DEF P3, F
    <2> QED
        BY <1>1
<1>3. <<i, j, k>> \in UNION { P2(a) : a \in DOMAIN mv_bridges[r] }
    <2> HIDE DEF P2
    <2> QED
        BY <1>2
<1> QED
    BY <1>3 DEF Paths

\* And the components of a path are positions in them.
LEMMA PathPositions ==
    ASSUME NEW r \in Reader, NEW p \in Paths(r)
    PROVE  /\ p = <<p[1], p[2], p[3]>>
           /\ p[1] \in DOMAIN mv_bridges[r]
           /\ p[2] \in DOMAIN funcNames(mv_bridges[r][p[1]], r)
           /\ p[3] \in DOMAIN pubs(mv_bridges[r][p[1]], r,
                                   funcNames(mv_bridges[r][p[1]], r)[p[2]])
<1>1. PICK i \in DOMAIN mv_bridges[r] :
      \E j \in DOMAIN funcNames(mv_bridges[r][i], r) :
      \E k \in DOMAIN pubs(mv_bridges[r][i], r, funcNames(mv_bridges[r][i], r)[j]) :
            p = <<i, j, k>>
    BY PathTriple
<1>2. PICK j \in DOMAIN funcNames(mv_bridges[r][i], r) :
      \E k \in DOMAIN pubs(mv_bridges[r][i], r, funcNames(mv_bridges[r][i], r)[j]) :
            p = <<i, j, k>>
    BY <1>1
<1>3. PICK k \in DOMAIN pubs(mv_bridges[r][i], r, funcNames(mv_bridges[r][i], r)[j]) :
            p = <<i, j, k>>
    BY <1>2
<1>4. p[1] = i /\ p[2] = j /\ p[3] = k
    BY <1>3
<1> QED
    BY <1>3, <1>4

\* Sets that are one to one have the same number of elements.
LEMMA OneToOne ==
    ASSUME NEW A, IsFiniteSet(A), NEW B, NEW g \in [A -> B],
           \A p, q \in A : g[p] = g[q] => p = q,
           \A c \in B : \E p \in A : g[p] = c
    PROVE  Cardinality(A) = Cardinality(B)
<1>1. g \in Injection(A, B) /\ g \in Surjection(A, B)
    BY Fun_IsInj, Fun_IsSurj
<1>2. ExistsBijection(A, B)
    BY <1>1 DEF Bijection, ExistsBijection
<1> QED
    BY <1>2, FS_Bijection

\* The connector behind each entry of a list, one of the possible choices.
Source(s, C, field) ==
    CHOOSE g \in [DOMAIN s -> C] :
        /\ \A i, j \in DOMAIN s : g[i] = g[j] => i = j
        /\ \A c \in C : \E i \in DOMAIN s : g[i] = c
        /\ \A i \in DOMAIN s : s[i] = g[i][field]

\* It exists where the list is one of connectors.
LEMMA SourceFits ==
    ASSUME NEW s, NEW C, NEW field, Lists(s, C, field)
    PROVE  /\ Source(s, C, field) \in [DOMAIN s -> C]
           /\ \A i, j \in DOMAIN s : Source(s, C, field)[i] = Source(s, C, field)[j] => i = j
           /\ \A c \in C : \E i \in DOMAIN s : Source(s, C, field)[i] = c
           /\ \A i \in DOMAIN s : s[i] = Source(s, C, field)[i][field]
<1>1. \E g \in [DOMAIN s -> C] :
                /\ \A i, j \in DOMAIN s : g[i] = g[j] => i = j
                /\ \A c \in C : \E i \in DOMAIN s : g[i] = c
                /\ \A i \in DOMAIN s : s[i] = g[i][field]
    BY ListsFrom
<1> QED
    BY <1>1, Zenon DEF Source

\* The writes a message makes by the loop over functions are one to one with the
\* triples of connectors whose entries lead to them.
LEMMA CopiesByFunction ==
    ASSUME IInv, Entries, pc = Idle, NEW r \in Reader,
           NEW w \in Writer \ m_bTerminating, NEW v \in FName
    PROVE  Cardinality({p \in Paths(r) : /\ Sends(r, w, v, p)
                                         /\ ~FallsBack(mv_bridges[r][p[1]], r)})
           = Cardinality(Triples(r, w, v))
<1> DEFINE A == {p \in Paths(r) : Sends(r, w, v, p) /\ ~FallsBack(mv_bridges[r][p[1]], r)}
           B == Triples(r, w, v)
           Feeding == {c \in connected : c.reader = r}
           feeds == Source(mv_bridges[r], Feeding, "bridge")
           names(b) == Source(funcNames(b, r), Selected(r, b), "fname")
           sends(b, f) == Source(pubs(b, r, f), Routes(b, r, f), "writer")
           at(p) == mv_bridges[r][p[1]]
           fn(p) == funcNames(at(p), r)[p[2]]
           g == [p \in A |-> <<feeds[p[1]], names(at(p))[p[2]], sends(at(p), fn(p))[p[3]]>>]
<1>1. /\ feeds \in [DOMAIN mv_bridges[r] -> Feeding]
      /\ \A i, j \in DOMAIN mv_bridges[r] : feeds[i] = feeds[j] => i = j
      /\ \A c \in Feeding : \E i \in DOMAIN mv_bridges[r] : feeds[i] = c
      /\ \A i \in DOMAIN mv_bridges[r] : mv_bridges[r][i] = feeds[i].bridge
    <2>1. Lists(mv_bridges[r], Feeding, "bridge")
        BY ListsWhenIdle
    <2> HIDE DEF Feeding
    <2>2. /\ feeds \in [DOMAIN mv_bridges[r] -> Feeding]
          /\ \A i, j \in DOMAIN mv_bridges[r] : feeds[i] = feeds[j] => i = j
          /\ \A c \in Feeding : \E i \in DOMAIN mv_bridges[r] : feeds[i] = c
          /\ \A i \in DOMAIN mv_bridges[r] : mv_bridges[r][i] = feeds[i]["bridge"]
        BY <2>1, SourceFits
    <2> HIDE DEF feeds
    <2> QED
        BY <2>2
<1>2. ASSUME NEW b \in Bridge, ~FallsBack(b, r)
      PROVE  /\ names(b) \in [DOMAIN funcNames(b, r) -> Selected(r, b)]
             /\ \A i, j \in DOMAIN funcNames(b, r) : names(b)[i] = names(b)[j] => i = j
             /\ \A c \in Selected(r, b) : \E i \in DOMAIN funcNames(b, r) : names(b)[i] = c
             /\ \A i \in DOMAIN funcNames(b, r) : funcNames(b, r)[i] = names(b)[i].fname
    <2>1. Lists(funcNames(b, r), Selected(r, b), "fname")
        BY <1>2, ListsWhenIdle
    <2>2. /\ names(b) \in [DOMAIN funcNames(b, r) -> Selected(r, b)]
          /\ \A i, j \in DOMAIN funcNames(b, r) : names(b)[i] = names(b)[j] => i = j
          /\ \A c \in Selected(r, b) : \E i \in DOMAIN funcNames(b, r) : names(b)[i] = c
          /\ \A i \in DOMAIN funcNames(b, r) : funcNames(b, r)[i] = names(b)[i]["fname"]
        BY <2>1, SourceFits
    <2> HIDE DEF names
    <2> QED
        BY <2>2
<1>3. ASSUME NEW b \in Bridge, NEW f \in FName
      PROVE  /\ sends(b, f) \in [DOMAIN pubs(b, r, f) -> Routes(b, r, f)]
             /\ \A i, j \in DOMAIN pubs(b, r, f) : sends(b, f)[i] = sends(b, f)[j] => i = j
             /\ \A c \in Routes(b, r, f) : \E i \in DOMAIN pubs(b, r, f) : sends(b, f)[i] = c
             /\ \A i \in DOMAIN pubs(b, r, f) : pubs(b, r, f)[i] = sends(b, f)[i].writer
    <2>1. Lists(pubs(b, r, f), Routes(b, r, f), "writer")
        BY ListsWhenIdle
    <2>2. /\ sends(b, f) \in [DOMAIN pubs(b, r, f) -> Routes(b, r, f)]
          /\ \A i, j \in DOMAIN pubs(b, r, f) : sends(b, f)[i] = sends(b, f)[j] => i = j
          /\ \A c \in Routes(b, r, f) : \E i \in DOMAIN pubs(b, r, f) : sends(b, f)[i] = c
          /\ \A i \in DOMAIN pubs(b, r, f) : pubs(b, r, f)[i] = sends(b, f)[i]["writer"]
        BY <2>1, SourceFits
    <2> HIDE DEF sends
    <2> QED
        BY <2>2
<1> HIDE DEF feeds, names, sends
<1>4. connected \subseteq Connector
    BY DEF IInv, TypeOK
<1>5. ASSUME NEW b \in Bridge, NEW f \in Range(funcNames(b, r))
      PROVE  HasFunction(b, r, f) <=> f \in Resolved
    BY BoundIffResolved, <1>5
<1>6. ASSUME NEW p \in A
      PROVE  /\ p[1] \in DOMAIN mv_bridges[r] /\ at(p) \in Bridge /\ ~FallsBack(at(p), r)
             /\ p[2] \in DOMAIN funcNames(at(p), r) /\ fn(p) \in FName
             /\ p[3] \in DOMAIN pubs(at(p), r, fn(p))
             /\ p = <<p[1], p[2], p[3]>>
             /\ Sends(r, w, v, p)
    <2>1. p \in Paths(r) /\ Sends(r, w, v, p) /\ ~FallsBack(at(p), r)
        OBVIOUS
    <2>2. at(p) \in Bridge /\ fn(p) \in FName
        BY <2>1, PathParts DEF IInv
    <2> HIDE DEF A
    <2> QED
        BY <2>1, <2>2, PathPositions
<1>7. ASSUME NEW p \in A
      PROVE  /\ g[p] = <<feeds[p[1]], names(at(p))[p[2]], sends(at(p), fn(p))[p[3]]>>
             /\ g[p][1] = feeds[p[1]]
             /\ g[p][2] = names(at(p))[p[2]]
             /\ g[p][3] = sends(at(p), fn(p))[p[3]]
             /\ g[p] \in B
    <2> DEFINE b == at(p)
               f == fn(p)
               c1 == feeds[p[1]]
               c2 == names(b)[p[2]]
               c3 == sends(b, f)[p[3]]
    <2>1. g[p] = <<c1, c2, c3>>
        BY Zenon
    <2> HIDE DEF A, B, g
    <2>2. c1 \in connected /\ c1.reader = r /\ c1.bridge = b
        BY <1>1, <1>6
    <2>3. c2 \in Selected(r, b) /\ c2.fname = f
        BY <1>2, <1>6
    <2>4. c3 \in Routes(b, r, f) /\ pubs(b, r, f)[p[3]] = c3.writer
        BY <1>3, <1>6
    <2>5. c3 \in connected /\ c3.bridge = b /\ SameRoute(c3, r) /\ c3.fname = f
        BY <2>4 DEF Routes, Sharing, SameRoute
    <2>6. /\ w = pubs(b, r, f)[p[3]]
          /\ v = IF HasFunction(b, r, f) THEN f ELSE NoFunction
          /\ r \in DynReader /\ HasFunction(b, r, f) => w \in DynWriter
        BY <1>6 DEF Sends
    <2>7. HasFunction(b, r, f) <=> f \in Resolved
        BY <1>5, <1>6 DEF Range
    <2>8. c2 \in connected /\ (r \in DynReader => c2.fname \in Resolved)
        BY <2>3 DEF Selected, IsDynFunction
    <2> HIDE DEF c1, c2, c3, f
    <2>9. <<c1, c2, c3>> \in Triples(r, w, v)
        BY <2>2, <2>3, <2>4, <2>5, <2>6, <2>7, <2>8 DEF Triples
    <2> QED
        BY <2>1, <2>9 DEF B, c1, c2, c3, f
<1>8. ASSUME NEW p \in A, NEW q \in A, g[p] = g[q] PROVE p = q
    <2> HIDE DEF A, B, g
    <2>1. feeds[p[1]] = feeds[q[1]]
        BY <1>7, <1>8
    <2>2. p[1] = q[1]
        BY <1>1, <1>6, <2>1
    <2>3. at(p) = at(q)
        BY <2>2
    <2>4. names(at(p))[p[2]] = names(at(p))[q[2]]
        BY <1>7, <1>8, <2>3
    <2>5. p[2] = q[2]
        BY <1>2, <1>6, <2>3, <2>4
    <2>6. fn(p) = fn(q)
        BY <2>3, <2>5
    <2>7. sends(at(p), fn(p))[p[3]] = sends(at(p), fn(p))[q[3]]
        BY <1>7, <1>8, <2>3, <2>6
    <2>8. p[3] = q[3]
        BY <1>3, <1>6, <2>3, <2>6, <2>7
    <2> QED
        BY <1>6, <2>2, <2>5, <2>8
<1>9. ASSUME NEW t \in B PROVE \E p \in A : g[p] = t
    <2> DEFINE b == t[1].bridge
               f == t[2].fname
    <2>1. /\ t = <<t[1], t[2], t[3]>>
          /\ t[1] \in connected /\ t[2] \in connected /\ t[3] \in connected
          /\ t[1].reader = r /\ t[2] \in Selected(r, b)
          /\ t[3].bridge = b /\ SameRoute(t[3], r) /\ t[3].fname = f /\ t[3].writer = w
          /\ v = IF f \in Resolved THEN f ELSE NoFunction
          /\ r \in DynReader => w \in DynWriter
        BY DEF Triples
    <2>2. b \in Bridge /\ f \in FName
        BY <1>4, <2>1, ConnectorFields
    <2>3. ~FallsBack(b, r)
        BY <2>1, <2>2, ListsWhenIdle
    <2>4. PICK i \in DOMAIN mv_bridges[r] : feeds[i] = t[1]
        BY <1>1, <2>1
    <2>5. mv_bridges[r][i] = b
        BY <1>1, <2>4
    <2>6. PICK j \in DOMAIN funcNames(b, r) : names(b)[j] = t[2]
        BY <1>2, <2>1, <2>2, <2>3
    <2>7. funcNames(b, r)[j] = f
        BY <1>2, <2>2, <2>3, <2>6
    <2>8. t[3] \in Routes(b, r, f)
        BY <1>4, <2>1 DEF Routes, Sharing, SameRoute
    <2>9. PICK k \in DOMAIN pubs(b, r, f) : sends(b, f)[k] = t[3]
        BY <1>3, <2>2, <2>8
    <2>10. pubs(b, r, f)[k] = w
        BY <1>3, <2>1, <2>2, <2>9
    <2> DEFINE p == <<i, j, k>>
    <2>11. p \in Paths(r)
        <3> HIDE DEF b, f, p
        <3>1. j \in DOMAIN funcNames(mv_bridges[r][i], r)
            BY <2>5, <2>6
        <3>2. k \in DOMAIN pubs(mv_bridges[r][i], r, funcNames(mv_bridges[r][i], r)[j])
            BY <2>5, <2>7, <2>9
        <3> QED
            BY <3>1, <3>2, TriplePath DEF p
    <2>12. p[1] = i /\ p[2] = j /\ p[3] = k
        OBVIOUS
    <2>13. f \in Range(funcNames(b, r))
        BY <2>6, <2>7 DEF Range
    <2>14. HasFunction(b, r, f) <=> f \in Resolved
        BY <1>5, <2>2, <2>13
    <2>15. at(p) = b /\ fn(p) = f
        BY <2>5, <2>7, <2>12
    <2> HIDE DEF b, f, p
    <2>16. Sends(r, w, v, p)
        BY <2>1, <2>5, <2>7, <2>10, <2>12, <2>14 DEF Sends
    <2>17. p \in A
        BY <2>3, <2>11, <2>15, <2>16
    <2>18. g[p] = t
        <3> HIDE DEF A, g, at, fn
        <3> QED
            BY <1>7, <2>1, <2>4, <2>6, <2>9, <2>12, <2>15, <2>17
    <2> QED
        BY <2>17, <2>18
<1>10. IsFiniteSet(A)
    <2>1. A \subseteq Paths(r)
        OBVIOUS
    <2> QED
        BY <2>1, FinitePaths, FS_Subset DEF IInv
<1>11. g = [p \in A |-> g[p]]
    BY Zenon
<1> HIDE DEF A, B, g
<1>12. g \in [A -> B]
    BY <1>7, <1>11
<1>13. Cardinality(A) = Cardinality(B)
    BY <1>8, <1>9, <1>10, <1>12, OneToOne
<1> QED
    BY <1>13 DEF A, B

\* The writes it makes without a function, because there is none of its kind, are
\* one to one with the pairs.
LEMMA CopiesByFallback ==
    ASSUME IInv, Entries, pc = Idle, NEW r \in Reader,
           NEW w \in Writer \ m_bTerminating, NEW v \in FName
    PROVE  Cardinality({p \in Paths(r) : /\ Sends(r, w, v, p)
                                         /\ FallsBack(mv_bridges[r][p[1]], r)})
           = Cardinality(Fallbacks(r, w, v))
<1> DEFINE A == {p \in Paths(r) : Sends(r, w, v, p) /\ FallsBack(mv_bridges[r][p[1]], r)}
           B == Fallbacks(r, w, v)
           Feeding == {c \in connected : c.reader = r}
           feeds == Source(mv_bridges[r], Feeding, "bridge")
           sends(b) == Source(pubs(b, r, NoFunction), Routes(b, r, NoFunction), "writer")
           at(p) == mv_bridges[r][p[1]]
           g == [p \in A |-> <<feeds[p[1]], sends(at(p))[p[3]]>>]
<1>1. /\ feeds \in [DOMAIN mv_bridges[r] -> Feeding]
      /\ \A i, j \in DOMAIN mv_bridges[r] : feeds[i] = feeds[j] => i = j
      /\ \A c \in Feeding : \E i \in DOMAIN mv_bridges[r] : feeds[i] = c
      /\ \A i \in DOMAIN mv_bridges[r] : mv_bridges[r][i] = feeds[i].bridge
    <2>1. Lists(mv_bridges[r], Feeding, "bridge")
        BY ListsWhenIdle
    <2> HIDE DEF Feeding
    <2>2. /\ feeds \in [DOMAIN mv_bridges[r] -> Feeding]
          /\ \A i, j \in DOMAIN mv_bridges[r] : feeds[i] = feeds[j] => i = j
          /\ \A c \in Feeding : \E i \in DOMAIN mv_bridges[r] : feeds[i] = c
          /\ \A i \in DOMAIN mv_bridges[r] : mv_bridges[r][i] = feeds[i]["bridge"]
        BY <2>1, SourceFits
    <2> HIDE DEF feeds
    <2> QED
        BY <2>2
<1>2. NoFunction \in FName /\ NoFunction \notin Resolved
    BY ISBridgeAssumption
<1>3. ASSUME NEW b \in Bridge
      PROVE  LET s == pubs(b, r, NoFunction)
             IN  /\ sends(b) \in [DOMAIN s -> Routes(b, r, NoFunction)]
                 /\ \A i, j \in DOMAIN s : sends(b)[i] = sends(b)[j] => i = j
                 /\ \A c \in Routes(b, r, NoFunction) : \E i \in DOMAIN s : sends(b)[i] = c
                 /\ \A i \in DOMAIN s : s[i] = sends(b)[i].writer
    <2> DEFINE s == pubs(b, r, NoFunction)
    <2>1. Lists(s, Routes(b, r, NoFunction), "writer")
        BY <1>2, ListsWhenIdle
    <2>2. /\ sends(b) \in [DOMAIN s -> Routes(b, r, NoFunction)]
          /\ \A i, j \in DOMAIN s : sends(b)[i] = sends(b)[j] => i = j
          /\ \A c \in Routes(b, r, NoFunction) : \E i \in DOMAIN s : sends(b)[i] = c
          /\ \A i \in DOMAIN s : s[i] = sends(b)[i]["writer"]
        BY <2>1, SourceFits
    <2> HIDE DEF sends
    <2> QED
        BY <2>2
<1> HIDE DEF feeds, sends
<1>4. connected \subseteq Connector
    BY DEF IInv, TypeOK
<1>5. ASSUME NEW b \in Bridge, FallsBack(b, r)
      PROVE  /\ r \in DynReader /\ Selected(r, b) = {}
             /\ funcNames(b, r) = <<NoFunction>>
             /\ ~HasFunction(b, r, NoFunction)
    <2>1. r \in DynReader /\ Selected(r, b) = {} /\ funcNames(b, r) = <<NoFunction>>
        BY <1>5, ListsWhenIdle
    <2>2. NoFunction \in Range(funcNames(b, r))
        BY <2>1 DEF Range
    <2> QED
        BY <1>2, <2>1, <2>2, BoundIffResolved
<1>6. ASSUME NEW p \in A
      PROVE  /\ p[1] \in DOMAIN mv_bridges[r] /\ at(p) \in Bridge /\ FallsBack(at(p), r)
             /\ funcNames(at(p), r)[p[2]] = NoFunction
             /\ p[3] \in DOMAIN pubs(at(p), r, NoFunction)
             /\ p = <<p[1], 1, p[3]>>
             /\ w = pubs(at(p), r, NoFunction)[p[3]]
             /\ v = NoFunction
    <2>1. p \in Paths(r) /\ Sends(r, w, v, p) /\ FallsBack(at(p), r)
        OBVIOUS
    <2>2. at(p) \in Bridge
        BY <2>1, PathParts DEF IInv
    <2> HIDE DEF A
    <2>3. funcNames(at(p), r) = <<NoFunction>> /\ ~HasFunction(at(p), r, NoFunction)
        BY <1>5, <2>1, <2>2
    <2>4. /\ p = <<p[1], p[2], p[3]>>
          /\ p[1] \in DOMAIN mv_bridges[r]
          /\ p[2] \in DOMAIN funcNames(at(p), r)
          /\ p[3] \in DOMAIN pubs(at(p), r, funcNames(at(p), r)[p[2]])
        BY <2>1, PathPositions
    <2>5. p[2] = 1 /\ funcNames(at(p), r)[p[2]] = NoFunction
        BY <2>3, <2>4
    <2>6. w = pubs(at(p), r, NoFunction)[p[3]] /\ v = NoFunction
        BY <2>1, <2>3, <2>5 DEF Sends
    <2> QED
        BY <2>1, <2>2, <2>4, <2>5, <2>6
<1>7. ASSUME NEW p \in A
      PROVE  /\ g[p] = <<feeds[p[1]], sends(at(p))[p[3]]>>
             /\ g[p][1] = feeds[p[1]]
             /\ g[p][2] = sends(at(p))[p[3]]
             /\ g[p] \in B
    <2> DEFINE b == at(p)
               c1 == feeds[p[1]]
               c2 == sends(b)[p[3]]
    <2>1. g[p] = <<c1, c2>>
        BY Zenon
    <2> HIDE DEF A, B, g
    <2>2. c1 \in connected /\ c1.reader = r /\ c1.bridge = b
        BY <1>1, <1>6
    <2>3. r \in DynReader /\ Selected(r, b) = {}
        BY <1>5, <1>6
    <2>4. c2 \in Routes(b, r, NoFunction) /\ w = c2.writer
        BY <1>3, <1>6
    <2>5. c2 \in connected /\ c2.bridge = b /\ SameRoute(c2, r) /\ c2.fname = NoFunction
        BY <2>4 DEF Routes, Sharing, SameRoute
    <2>6. v = NoFunction
        BY <1>6
    <2> HIDE DEF c1, c2, b
    <2>7. <<c1, c2>> \in Fallbacks(r, w, v)
        BY <2>2, <2>3, <2>4, <2>5, <2>6 DEF Fallbacks
    <2> QED
        BY <2>1, <2>7 DEF B, b, c1, c2
<1>8. ASSUME NEW p \in A, NEW q \in A, g[p] = g[q] PROVE p = q
    <2> HIDE DEF A, B, g
    <2>1. feeds[p[1]] = feeds[q[1]]
        BY <1>7, <1>8
    <2>2. p[1] = q[1]
        BY <1>1, <1>6, <2>1
    <2>3. at(p) = at(q)
        BY <2>2
    <2>4. sends(at(p))[p[3]] = sends(at(p))[q[3]]
        BY <1>7, <1>8, <2>3
    <2>5. p[3] = q[3]
        BY <1>3, <1>6, <2>3, <2>4
    <2> QED
        BY <1>6, <2>2, <2>5
<1>9. ASSUME NEW t \in B PROVE \E p \in A : g[p] = t
    <2> DEFINE b == t[1].bridge
    <2>1. /\ t = <<t[1], t[2]>>
          /\ t[1] \in connected /\ t[2] \in connected
          /\ r \in DynReader /\ v = NoFunction
          /\ t[1].reader = r /\ Selected(r, b) = {}
          /\ t[2].bridge = b /\ SameRoute(t[2], r)
          /\ t[2].fname = NoFunction /\ t[2].writer = w
        BY DEF Fallbacks
    <2>2. b \in Bridge
        BY <1>4, <2>1, ConnectorFields
    <2>3. FallsBack(b, r)
        BY <2>1, <2>2, ListsWhenIdle
    <2>4. funcNames(b, r) = <<NoFunction>> /\ ~HasFunction(b, r, NoFunction)
        BY <1>5, <2>2, <2>3
    <2>5. 1 \in DOMAIN funcNames(b, r) /\ funcNames(b, r)[1] = NoFunction
        BY <2>4
    <2>6. PICK i \in DOMAIN mv_bridges[r] : feeds[i] = t[1]
        BY <1>1, <2>1
    <2>7. mv_bridges[r][i] = b
        BY <1>1, <2>6
    <2>8. t[2] \in Routes(b, r, NoFunction)
        BY <1>4, <2>1 DEF Routes, Sharing, SameRoute
    <2>9. PICK k \in DOMAIN pubs(b, r, NoFunction) : sends(b)[k] = t[2]
        BY <1>3, <2>2, <2>8
    <2>10. pubs(b, r, NoFunction)[k] = w
        BY <1>3, <2>1, <2>2, <2>9
    <2> DEFINE p == <<i, 1, k>>
    <2>11. p \in Paths(r)
        <3> HIDE DEF b, p
        <3>1. 1 \in DOMAIN funcNames(mv_bridges[r][i], r)
            BY <2>5, <2>7
        <3>2. k \in DOMAIN pubs(mv_bridges[r][i], r, funcNames(mv_bridges[r][i], r)[1])
            BY <2>5, <2>7, <2>9
        <3> QED
            BY <3>1, <3>2, TriplePath DEF p
    <2>12. p[1] = i /\ p[2] = 1 /\ p[3] = k
        OBVIOUS
    <2>13. at(p) = b
        BY <2>7, <2>12
    <2> HIDE DEF b, p
    <2>14. Sends(r, w, v, p)
        BY <2>1, <2>4, <2>5, <2>7, <2>10, <2>12 DEF Sends
    <2>15. p \in A
        BY <2>3, <2>11, <2>13, <2>14
    <2>16. g[p] = t
        <3> HIDE DEF A, g, at
        <3> QED
            BY <1>7, <2>1, <2>6, <2>9, <2>12, <2>13, <2>15
    <2> QED
        BY <2>15, <2>16
<1>10. IsFiniteSet(A)
    <2>1. A \subseteq Paths(r)
        OBVIOUS
    <2> QED
        BY <2>1, FinitePaths, FS_Subset DEF IInv
<1>11. g = [p \in A |-> g[p]]
    BY Zenon
<1> HIDE DEF A, B, g
<1>12. g \in [A -> B]
    BY <1>7, <1>11
<1>13. Cardinality(A) = Cardinality(B)
    BY <1>8, <1>9, <1>10, <1>12, OneToOne
<1> QED
    BY <1>13 DEF A, B

\* Every write is of one of the two sorts.
LEMMA CopiesOfConnectors ==
    ASSUME IInv, Entries, pc = Idle, NEW r \in Reader,
           NEW w \in Writer \ m_bTerminating, NEW v \in FName
    PROVE  /\ Cardinality(Triples(r, w, v)) \in Nat /\ Cardinality(Fallbacks(r, w, v)) \in Nat
           /\ Copies(r, w, v)
              = Cardinality(Triples(r, w, v)) + Cardinality(Fallbacks(r, w, v))
<1> DEFINE A == {p \in Paths(r) : Sends(r, w, v, p)}
           A1 == {p \in Paths(r) : Sends(r, w, v, p) /\ ~FallsBack(mv_bridges[r][p[1]], r)}
           A2 == {p \in Paths(r) : Sends(r, w, v, p) /\ FallsBack(mv_bridges[r][p[1]], r)}
<1>1. A = A1 \cup A2 /\ A1 \cap A2 = {}
    OBVIOUS
<1>2. IsFiniteSet(A1) /\ IsFiniteSet(A2)
    <2>1. A1 \subseteq Paths(r) /\ A2 \subseteq Paths(r)
        OBVIOUS
    <2> QED
        BY <2>1, FinitePaths, FS_Subset DEF IInv
<1>3. /\ Cardinality(A1) = Cardinality(Triples(r, w, v))
      /\ Cardinality(A2) = Cardinality(Fallbacks(r, w, v))
    BY CopiesByFunction, CopiesByFallback
<1>4. Copies(r, w, v) = Cardinality(A)
    BY DEF Copies
<1> HIDE DEF A, A1, A2
<1>5. Cardinality(A1) \in Nat /\ Cardinality(A2) \in Nat
    BY <1>2, FS_CardinalityType
<1>6. Cardinality(A1 \cup A2) = Cardinality(A1) + Cardinality(A2) - Cardinality(A1 \cap A2)
    BY <1>2, FS_Union
<1>7. Cardinality(A1 \cap A2) = 0
    BY <1>1, FS_EmptySet
<1> QED
    BY <1>1, <1>3, <1>4, <1>5, <1>6, <1>7

\* Whatever the connectors share, a message that arrives when none of them is half
\* wired leaves each writer in each form as often as the configuration alone says
\* (the two overloads of ISBridge::on_received_data).
THEOREM Multiplicity == Spec => Amplification
<1> DEFINE Amplified ==
        \A r \in Reader, w \in Writer \ m_bTerminating, v \in FName :
            received'[r] # received[r] /\ pc = Idle
            => written'[w][v] = written[w][v]
                    + Cardinality(Triples(r, w, v)) + Cardinality(Fallbacks(r, w, v))
<1>1. IInv /\ Entries /\ [Next]_vars => [Amplified]_vars
    <2> SUFFICES ASSUME IInv, Entries, [Next]_vars,
                        NEW r \in Reader, NEW w \in Writer \ m_bTerminating, NEW v \in FName,
                        received'[r] # received[r], pc = Idle
                 PROVE  written'[w][v] = written[w][v]
                            + Cardinality(Triples(r, w, v)) + Cardinality(Fallbacks(r, w, v))
        OBVIOUS
    <2>1. received' # received
        OBVIOUS
    <2>2. PICK s \in Reader : on_received_data(s)
        BY <2>1 DEF Next, vars, traffic, addReader, addWriter, addFunction,
                    onTerminate, Destroy
    <2>3. s = r
        BY <2>2 DEF on_received_data, IInv, TypeOK
    <2>4. written'[w][v] = written[w][v] + Copies(r, w, v)
        BY <2>2, <2>3 DEF on_received_data
    <2>5. /\ Copies(r, w, v) = Cardinality(Triples(r, w, v)) + Cardinality(Fallbacks(r, w, v))
          /\ Cardinality(Triples(r, w, v)) \in Nat /\ Cardinality(Fallbacks(r, w, v)) \in Nat
          /\ written[w][v] \in Nat
        BY CopiesOfConnectors DEF IInv, TypeOK
    <2> QED
        BY <2>4, <2>5
<1>2. Spec => []IInv
    BY Invariance
<1>3. Spec => []Entries
    BY EntriesOfConnectors
<1> QED
    BY <1>1, <1>2, <1>3, PTL DEF Spec, Amplification
===============================================================================
