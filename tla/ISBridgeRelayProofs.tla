-------------------------- MODULE ISBridgeRelayProofs --------------------------
(* The routing core implements module Relay, for every well-formed            *)
(* configuration.                                                             *)
EXTENDS ISBridgeRelay, ISBridgeProofs

-------------------------------------------------------------------------------
(* The tables hold one entry per connector. *)

\* On one bridge, a reader's name tells which connector it is.
LEMMA SameConnector ==
    ASSUME NEW c \in Connector, NEW d \in Connector, c.bridge = d.bridge,
           readerName[c.reader] = readerName[d.reader]
    PROVE  c = d
BY WellFormedConfiguration DEF WellFormed

\* A sequence without repetitions has none after a new element is appended.
LEMMA InjectiveAppend ==
    ASSUME NEW S, NEW s \in Seq(S), NEW x \in S, x \notin Range(s),
           \A i, j \in DOMAIN s : s[i] = s[j] => i = j
    PROVE  \A i, j \in DOMAIN Append(s, x) :
                Append(s, x)[i] = Append(s, x)[j] => i = j
<1> DEFINE t == Append(s, x)
<1>1. /\ Len(s) \in Nat /\ DOMAIN s = 1 .. Len(s)
      /\ DOMAIN t = 1 .. (Len(s) + 1)
      /\ \A i \in 1 .. Len(s) : t[i] = s[i]
      /\ t[Len(s) + 1] = x
    OBVIOUS
<1> HIDE DEF t
<1>2. \A i \in 1 .. Len(s) : t[i] \in Range(s) /\ t[i] # x
    BY <1>1 DEF Range
<1>3. \A i \in DOMAIN t : i = Len(s) + 1 \/ i \in 1 .. Len(s)
    BY <1>1
<1>4. \A i, j \in DOMAIN t : t[i] = t[j] => i = j
    BY <1>1, <1>2, <1>3
<1> QED
    BY <1>4 DEF t

\* An empty service has empty tables.
LEMMA TablesInit == Init => Tables
<1> SUFFICES ASSUME Init PROVE Tables
    OBVIOUS
<1>1. Started = {} /\ Routed = {} /\ connected = {} /\ wiring = {}
    BY DEF Init, Started, Routed
<1>2. FedOnce
    BY <1>1 DEF FedOnce, Init
<1>3. \A b \in Bridge, n \in Name :
            /\ \A f \in FName : mm_writer[b][<<n, f>>] = <<>>
            /\ mm_functions[b][n] = <<>> /\ mm_dynFunctions[b][n] = <<>>
    BY DEF Init, Key
<1>4. RoutedOnce /\ NamedOnce
    BY <1>1, <1>3 DEF RoutedOnce, NamedOnce
<1> QED
    BY <1>2, <1>4 DEF Tables

\* addReader puts a bridge in the reader's list that was not in it.
LEMMA TablesAddReader ==
    ASSUME IInv, Tables, NEW c \in Connector, addReader(c)
    PROVE  Tables'
<1> DEFINE r == c.reader
           b == c.bridge
<1>1. b \in Bridge /\ r \in Reader /\ readerName[r] \in Name
    BY ConnectorFields
<1>2. /\ wiring = {} /\ Started' = Started \cup {c} /\ Started = connected
      /\ connected' = connected /\ wiring' = {c} /\ c \notin connected
      /\ Started \subseteq Connector /\ mv_bridges \in [Reader -> Seq(Bridge)]
    BY DEF addReader, IInv, Stages, Started, TypeOK
<1>3. Routed' = connected /\ Routed = connected
    BY <1>2 DEF Routed, addReader
<1>4. b \notin Range(mv_bridges[r])
    <2> SUFFICES ASSUME b \in Range(mv_bridges[r]) PROVE FALSE
        OBVIOUS
    <2>1. PICK i \in DOMAIN mv_bridges[r] : mv_bridges[r][i] = b
        BY DEF Range
    <2>2. PICK d \in Started : d.reader = r /\ d.bridge = b
        BY <1>1, <2>1 DEF Tables, FedOnce
    <2> QED
        BY <1>2, <2>2, SameConnector
<1>5. mv_bridges' = [mv_bridges EXCEPT ![r] = Append(@, b)]
    BY DEF addReader
<1>6. /\ mv_bridges'[r] = Append(mv_bridges[r], b)
      /\ \A q \in Reader : q # r => mv_bridges'[q] = mv_bridges[q]
      /\ mv_bridges[r] \in Seq(Bridge)
    BY <1>1, <1>2, <1>5
<1>7. Range(mv_bridges'[r]) = Range(mv_bridges[r]) \cup {b}
    BY <1>1, <1>6, RangeAppend
<1>8. ASSUME NEW q \in Reader
      PROVE  /\ \A i \in DOMAIN mv_bridges'[q] :
                    \E d \in Started' : d.reader = q /\ d.bridge = mv_bridges'[q][i]
             /\ \A i, j \in DOMAIN mv_bridges'[q] :
                    mv_bridges'[q][i] = mv_bridges'[q][j] => i = j
    <2>1. CASE q # r
        BY <1>2, <1>6, <2>1 DEF Tables, FedOnce
    <2>2. CASE q = r
        <3>1. ASSUME NEW i \in DOMAIN mv_bridges'[q]
              PROVE  \E d \in Started' : d.reader = q /\ d.bridge = mv_bridges'[q][i]
            <4>1. mv_bridges'[q][i] \in Range(mv_bridges'[r])
                BY <2>2, <3>1 DEF Range
            <4>2. CASE mv_bridges'[q][i] = b
                BY <1>2, <2>2, <4>2
            <4>3. CASE mv_bridges'[q][i] \in Range(mv_bridges[r])
                <5>1. PICK k \in DOMAIN mv_bridges[r] : mv_bridges[r][k] = mv_bridges'[q][i]
                    BY <4>3 DEF Range
                <5> QED
                    BY <1>1, <1>2, <2>2, <5>1 DEF Tables, FedOnce
            <4> QED
                BY <1>7, <4>1, <4>2, <4>3
        <3>2. \A i, j \in DOMAIN mv_bridges[r] :
                    mv_bridges[r][i] = mv_bridges[r][j] => i = j
            BY <1>1 DEF Tables, FedOnce
        <3>3. \A i, j \in DOMAIN mv_bridges'[r] :
                    mv_bridges'[r][i] = mv_bridges'[r][j] => i = j
            <4> DEFINE s == mv_bridges[r]
                       t == Append(s, b)
            <4>1. s \in Seq(Bridge) /\ mv_bridges'[r] = t
                BY <1>6
            <4>2. \A i, j \in DOMAIN t : t[i] = t[j] => i = j
                BY <1>1, <1>4, <3>2, <4>1, InjectiveAppend
            <4> HIDE DEF t
            <4> QED
                BY <4>1, <4>2
        <3> QED
            BY <2>2, <3>1, <3>3
    <2> QED
        BY <2>1, <2>2
<1>9. ASSUME NEW d \in Started' PROVE d.bridge \in Range(mv_bridges'[d.reader])
    <2>1. d = c \/ d \in Started
        BY <1>2
    <2>2. d.reader \in Reader
        BY <1>2, <2>1, ConnectorFields
    <2> QED
        BY <1>6, <1>7, <2>1, <2>2 DEF Tables, FedOnce
<1>10. FedOnce'
    BY <1>8, <1>9 DEF FedOnce
<1>11. /\ mm_writer' = mm_writer /\ mm_functions' = mm_functions
       /\ mm_dynFunctions' = mm_dynFunctions /\ connected' = connected
    BY DEF addReader
<1>12. RoutedOnce'
    <2>1. wiring' \cap connected' = {}
        BY <1>2
    <2> QED
        BY <1>3, <1>11, <2>1 DEF Tables, RoutedOnce
<1>13. NamedOnce'
    BY <1>11 DEF Tables, NamedOnce
<1> QED
    BY <1>10, <1>12, <1>13 DEF Tables

\* addWriter fills a route that was empty.
LEMMA TablesAddWriter ==
    ASSUME IInv, Tables, NEW c \in Connector, addWriter(c)
    PROVE  Tables'
<1> DEFINE b == c.bridge
           n == readerName[c.reader]
           k == <<n, c.fname>>
<1>1. b \in Bridge /\ n \in Name /\ c.fname \in FName /\ c.writer \in Writer /\ k \in Key
    BY ConnectorFields DEF Key
<1>2. /\ wiring = {c} /\ wiring' = {c} /\ connected' = connected
      /\ Started' = Started /\ c \notin connected
      /\ Routed = connected /\ Routed' = connected \cup {c}
      /\ connected \subseteq Connector /\ mm_writer \in [Bridge -> [Key -> Seq(Writer)]]
    BY DEF addWriter, IInv, TypeOK, Tables, RoutedOnce, Started, Routed
<1>3. mm_writer[b][k] = <<>>
    <2> SUFFICES ASSUME mm_writer[b][k] # <<>> PROVE FALSE
        OBVIOUS
    <2>1. PICK d \in Routed : d.bridge = b /\ readerName[d.reader] = n
        BY <1>1 DEF Tables, RoutedOnce
    <2> QED
        BY <1>2, <2>1, SameConnector
<1>4. mm_writer' = [mm_writer EXCEPT ![b][k] = Append(@, c.writer)]
    BY DEF addWriter
<1>5. mm_writer'[b][k] = <<c.writer>>
    <2>1. mm_writer'[b][k] = Append(mm_writer[b][k], c.writer)
        <3> HIDE DEF k
        <3> QED
            BY <1>1, <1>2, <1>4
    <2>2. Append(<<>>, c.writer) = <<c.writer>>
        OBVIOUS
    <2> QED
        BY <1>3, <2>1, <2>2
<1>6. \A a \in Bridge, m \in Key : a # b \/ m # k => mm_writer'[a][m] = mm_writer[a][m]
    BY <1>1, <1>2, <1>4
<1>7. ASSUME NEW d \in Routed'
      PROVE  mm_writer'[d.bridge][<<readerName[d.reader], d.fname>>] = <<d.writer>>
    <2>1. CASE d = c
        BY <1>5, <2>1
    <2>2. CASE d \in connected
        <3>1. /\ d \in Connector /\ d # c /\ d.bridge \in Bridge
              /\ <<readerName[d.reader], d.fname>> \in Key
            BY <1>2, <2>2, ConnectorFields DEF Key
        <3>2. d.bridge # b \/ <<readerName[d.reader], d.fname>> # k
            BY <3>1, SameConnector
        <3>3. mm_writer[d.bridge][<<readerName[d.reader], d.fname>>] = <<d.writer>>
            BY <1>2, <2>2 DEF Tables, RoutedOnce
        <3>4. ASSUME NEW a \in Bridge, NEW m \in Key, a # b \/ m # k
              PROVE  mm_writer'[a][m] = mm_writer[a][m]
            BY <1>6, <3>4
        <3> HIDE DEF k
        <3> QED
            BY <3>1, <3>2, <3>3, <3>4
    <2> QED
        BY <1>2, <2>1, <2>2
<1>8. ASSUME NEW a \in Bridge, NEW m \in Name, NEW f \in FName,
             mm_writer'[a][<<m, f>>] # <<>>
      PROVE  \E d \in Routed' : d.bridge = a /\ readerName[d.reader] = m /\ d.fname = f
    <2>1. CASE a = b /\ <<m, f>> = k
        BY <1>2, <2>1
    <2>2. CASE a # b \/ <<m, f>> # k
        <3>1. mm_writer[a][<<m, f>>] # <<>>
            BY <1>6, <1>8, <2>2 DEF Key
        <3> QED
            BY <1>2, <3>1 DEF Tables, RoutedOnce
    <2> QED
        BY <2>1, <2>2
<1>9. RoutedOnce'
    BY <1>2, <1>7, <1>8 DEF RoutedOnce
<1>10. FedOnce' /\ NamedOnce'
    BY <1>2 DEF addWriter, Tables, FedOnce, NamedOnce, IsDynFunction
<1> QED
    BY <1>9, <1>10 DEF Tables

\* addFunction fills a list that was empty.
LEMMA TablesAddFunction ==
    ASSUME IInv, Tables, NEW c \in Connector, addFunction(c)
    PROVE  Tables'
<1> DEFINE b == c.bridge
           n == readerName[c.reader]
           f == c.fname
<1>1. b \in Bridge /\ n \in Name /\ f \in FName
    BY ConnectorFields
<1>2. /\ wiring = {c} /\ wiring' = {} /\ connected' = connected \cup {c}
      /\ Started' = Started /\ c \notin connected
      /\ Routed' = Routed /\ connected \subseteq Connector
    BY DEF addFunction, IInv, TypeOK, Tables, RoutedOnce, Started, Routed, Idle
<1>3. \A d \in connected : d.bridge # b \/ readerName[d.reader] # n
    BY <1>2, SameConnector
<1>4. mm_functions[b][n] = <<>> /\ mm_dynFunctions[b][n] = <<>>
    BY <1>1, <1>3 DEF Tables, NamedOnce
<1>5. /\ mm_functions \in [Bridge -> [Name -> Seq(FName)]]
      /\ mm_dynFunctions \in [Bridge -> [Name -> Seq(FName)]]
    BY DEF IInv, TypeOK
<1>6. \A d \in connected : d.bridge \in Bridge /\ readerName[d.reader] \in Name
    BY <1>2, ConnectorFields
<1>7. CASE addStaticFunction(c)
    <2>1. /\ ~IsDynFunction(c) /\ mm_dynFunctions' = mm_dynFunctions
          /\ mm_functions' = [mm_functions EXCEPT ![b][n] = Append(@, f)]
        BY <1>7 DEF addStaticFunction
    <2>2. mm_functions'[b][n] = <<f>>
        BY <1>1, <1>4, <1>5, <2>1
    <2>3. \A a \in Bridge, m \in Name : a # b \/ m # n =>
                mm_functions'[a][m] = mm_functions[a][m]
        BY <1>1, <1>5, <2>1
    <2>4. NamedOnce'
        <3>1. \A d \in connected' : IF IsDynFunction(d)
                THEN mm_dynFunctions'[d.bridge][readerName[d.reader]] = <<d.fname>>
                ELSE mm_functions'[d.bridge][readerName[d.reader]] = <<d.fname>>
            <4>1. ASSUME NEW d \in connected
                  PROVE  /\ d.bridge \in Bridge /\ readerName[d.reader] \in Name
                         /\ d.bridge # b \/ readerName[d.reader] # n
                         /\ IF IsDynFunction(d)
                            THEN mm_dynFunctions[d.bridge][readerName[d.reader]] = <<d.fname>>
                            ELSE mm_functions[d.bridge][readerName[d.reader]] = <<d.fname>>
                BY <1>3, <1>6 DEF Tables, NamedOnce
            <4> QED
                BY <1>2, <2>1, <2>2, <2>3, <4>1
        <3>2. ASSUME NEW a \in Bridge, NEW m \in Name, mm_functions'[a][m] # <<>>
              PROVE  \E d \in connected' : d.bridge = a /\ readerName[d.reader] = m
                                          /\ ~IsDynFunction(d)
            <4>1. CASE a = b /\ m = n
                BY <1>2, <2>1, <4>1
            <4>2. CASE a # b \/ m # n
                BY <1>2, <2>3, <3>2, <4>2 DEF Tables, NamedOnce
            <4> QED
                BY <4>1, <4>2
        <3>3. ASSUME NEW a \in Bridge, NEW m \in Name, mm_dynFunctions'[a][m] # <<>>
              PROVE  \E d \in connected' : d.bridge = a /\ readerName[d.reader] = m
                                          /\ IsDynFunction(d)
            BY <1>2, <2>1, <3>3 DEF Tables, NamedOnce
        <3> QED
            BY <3>1, <3>2, <3>3 DEF NamedOnce, IsDynFunction
    <2> QED
        BY <1>2, <2>4 DEF addFunction, Tables, FedOnce, RoutedOnce
<1>8. CASE addDynFunction(c)
    <2>1. /\ IsDynFunction(c) /\ mm_functions' = mm_functions
          /\ mm_dynFunctions' = [mm_dynFunctions EXCEPT ![b][n] = Append(@, f)]
        BY <1>8 DEF addDynFunction
    <2>2. mm_dynFunctions'[b][n] = <<f>>
        BY <1>1, <1>4, <1>5, <2>1
    <2>3. \A a \in Bridge, m \in Name : a # b \/ m # n =>
                mm_dynFunctions'[a][m] = mm_dynFunctions[a][m]
        BY <1>1, <1>5, <2>1
    <2>4. NamedOnce'
        <3>1. \A d \in connected' : IF IsDynFunction(d)
                THEN mm_dynFunctions'[d.bridge][readerName[d.reader]] = <<d.fname>>
                ELSE mm_functions'[d.bridge][readerName[d.reader]] = <<d.fname>>
            <4>1. ASSUME NEW d \in connected
                  PROVE  /\ d.bridge \in Bridge /\ readerName[d.reader] \in Name
                         /\ d.bridge # b \/ readerName[d.reader] # n
                         /\ IF IsDynFunction(d)
                            THEN mm_dynFunctions[d.bridge][readerName[d.reader]] = <<d.fname>>
                            ELSE mm_functions[d.bridge][readerName[d.reader]] = <<d.fname>>
                BY <1>3, <1>6 DEF Tables, NamedOnce
            <4> QED
                BY <1>2, <2>1, <2>2, <2>3, <4>1
        <3>2. ASSUME NEW a \in Bridge, NEW m \in Name, mm_dynFunctions'[a][m] # <<>>
              PROVE  \E d \in connected' : d.bridge = a /\ readerName[d.reader] = m
                                          /\ IsDynFunction(d)
            <4>1. CASE a = b /\ m = n
                BY <1>2, <2>1, <4>1
            <4>2. CASE a # b \/ m # n
                BY <1>2, <2>3, <3>2, <4>2 DEF Tables, NamedOnce
            <4> QED
                BY <4>1, <4>2
        <3>3. ASSUME NEW a \in Bridge, NEW m \in Name, mm_functions'[a][m] # <<>>
              PROVE  \E d \in connected' : d.bridge = a /\ readerName[d.reader] = m
                                          /\ ~IsDynFunction(d)
            BY <1>2, <2>1, <3>3 DEF Tables, NamedOnce
        <3> QED
            BY <3>1, <3>2, <3>3 DEF NamedOnce, IsDynFunction
    <2> QED
        BY <1>2, <2>4 DEF addFunction, Tables, FedOnce, RoutedOnce
<1> QED
    BY <1>7, <1>8 DEF addFunction

\* The other steps leave the tables alone.
LEMMA TablesStep == IInv /\ Tables /\ [Next]_vars => Tables'
<1> SUFFICES ASSUME IInv, Tables, [Next]_vars PROVE Tables'
    OBVIOUS
<1>1. CASE UNCHANGED <<routing, loading>>
    BY <1>1 DEF routing, loading, Tables, FedOnce, RoutedOnce, NamedOnce, Started, Routed
<1>2. CASE UNCHANGED vars
    BY <1>1, <1>2 DEF vars
<1>3. ASSUME NEW c \in Connector, addReader(c) \/ addWriter(c) \/ addFunction(c)
      PROVE  Tables'
    BY <1>3, TablesAddReader, TablesAddWriter, TablesAddFunction
<1>4. ASSUME NEW r \in Reader, on_received_data(r) PROVE Tables'
    BY <1>1, <1>4 DEF on_received_data
<1>5. ASSUME NEW b \in Bridge, onTerminate(b) \/ Destroy(b) PROVE Tables'
    BY <1>1, <1>5 DEF onTerminate, Destroy
<1> QED
    BY <1>2, <1>3, <1>4, <1>5 DEF Next

\* The entries of the tables are one to one with the connectors, always.
THEOREM OneEntryEach == Spec => []Tables
<1>1. Init => Tables
    BY TablesInit
<1>2. IInv /\ Tables /\ [Next]_vars => Tables'
    BY TablesStep
<1> QED
    BY <1>1, <1>2, Invariance, PTL DEF Spec

-------------------------------------------------------------------------------
(* The paths of a message are one to one with the connectors that forward it. *)

\* A bridge of a reader's list is the bridge of one of its connectors.
LEMMA FedBy ==
    ASSUME IInv, Tables, NEW r \in Reader, NEW i \in DOMAIN mv_bridges[r]
    PROVE  /\ mv_bridges[r][i] \in Bridge
           /\ \E c \in Started : c \in Connector /\ c.reader = r
                                 /\ c.bridge = mv_bridges[r][i]
<1>1. Started \subseteq Connector
    BY DEF IInv, TypeOK, Started
<1>2. PICK c \in Started : c.reader = r /\ c.bridge = mv_bridges[r][i]
    BY DEF Tables, FedOnce
<1> QED
    BY <1>1, <1>2, ConnectorFields

\* The tables take a message of a forwarding connector's reader to its writer, in
\* its form.
LEMMA RouteOf ==
    ASSUME IInv, Tables, NEW c \in Forwarding
    PROVE  /\ c \in Connector
           /\ c.bridge \in Range(mv_bridges[c.reader])
           /\ funcNames(c.bridge, c.reader) = <<c.fname>>
           /\ pubs(c.bridge, c.reader, c.fname) = <<c.writer>>
           /\ HasFunction(c.bridge, c.reader, c.fname) <=> c.fname \in Resolved
           /\ c.reader \in DynReader /\ c.fname \in Resolved => c.writer \in DynWriter
<1> DEFINE r == c.reader
           b == c.bridge
           n == readerName[r]
<1>1. /\ c \in Routed /\ c \in Started /\ c \in Connector
      /\ c \in connected \/ (r \in DynReader /\ c.fname = NoFunction)
      /\ connected \subseteq Connector
    BY DEF Forwarding, Routed, Started, IInv, TypeOK
<1>2. b \in Bridge /\ r \in Reader /\ n \in Name /\ c.fname \in FName
    BY <1>1, ConnectorFields
<1>3. /\ c.fname \in Resolved => (r \in DynReader <=> c.writer \in DynWriter)
      /\ r \in DynReader => c.fname \in Resolved \cup {NoFunction}
      /\ NoFunction \notin Resolved
    BY <1>1, WellFormedConfiguration, ISBridgeAssumption DEF WellFormed
<1>4. \A d \in connected : d.bridge = b /\ readerName[d.reader] = n => d = c
    BY <1>1, SameConnector
<1>5. ASSUME r \notin DynReader
      PROVE  funcNames(b, r) = <<c.fname>>
    <2>1. c \in connected /\ ~IsDynFunction(c)
        BY <1>1, <1>3, <1>5 DEF IsDynFunction
    <2>2. mm_functions[b][n] = <<c.fname>>
        BY <2>1 DEF Tables, NamedOnce
    <2> QED
        BY <1>5, <2>2 DEF funcNames
<1>6. ASSUME r \in DynReader, c.fname \in Resolved
      PROVE  funcNames(b, r) = <<c.fname>>
    <2>1. c \in connected /\ IsDynFunction(c)
        BY <1>1, <1>3, <1>6 DEF IsDynFunction
    <2>2. mm_dynFunctions[b][n] = <<c.fname>>
        BY <2>1 DEF Tables, NamedOnce
    <2>3. <<c.fname>> # <<>>
        OBVIOUS
    <2> QED
        BY <1>6, <2>2, <2>3 DEF funcNames
<1>7. ASSUME r \in DynReader, c.fname = NoFunction
      PROVE  funcNames(b, r) = <<c.fname>>
    <2>1. ~IsDynFunction(c)
        BY <1>3, <1>7 DEF IsDynFunction
    <2>2. mm_dynFunctions[b][n] = <<>>
        BY <1>2, <1>4, <2>1 DEF Tables, NamedOnce
    <2> QED
        BY <1>7, <2>2 DEF funcNames
<1>8. funcNames(b, r) = <<c.fname>>
    BY <1>3, <1>5, <1>6, <1>7
<1>9. c.fname \in Range(funcNames(b, r))
    <2>1. 1 \in DOMAIN <<c.fname>> /\ <<c.fname>>[1] = c.fname
        OBVIOUS
    <2> QED
        BY <1>8, <2>1 DEF Range
<1>10. HasFunction(b, r, c.fname) <=> c.fname \in Resolved
    BY <1>2, <1>9, BoundIffResolved
<1>11. pubs(b, r, c.fname) = <<c.writer>>
    BY <1>1 DEF Tables, RoutedOnce, pubs
<1>12. b \in Range(mv_bridges[r])
    BY <1>1 DEF Tables, FedOnce
<1> QED
    BY <1>1, <1>3, <1>8, <1>10, <1>11, <1>12

\* A bridge only makes a write for a connector that forwards.
LEMMA WriteOf ==
    ASSUME IInv, Tables, NEW r \in Reader, NEW i \in DOMAIN mv_bridges[r],
           NEW j \in DOMAIN funcNames(mv_bridges[r][i], r),
           NEW k \in DOMAIN pubs(mv_bridges[r][i], r, funcNames(mv_bridges[r][i], r)[j])
    PROVE  \E c \in Forwarding : c.reader = r /\ c.bridge = mv_bridges[r][i]
<1> DEFINE b == mv_bridges[r][i]
           n == readerName[r]
           f == funcNames(b, r)[j]
<1>1. b \in Bridge /\ n \in Name /\ f \in FName
    <2>1. funcNames(b, r) \in Seq(FName)
        BY LoopTypes DEF IInv
    <2> QED
        BY <2>1, FedBy, ISBridgeAssumption
<1>2. PICK c \in Started : c \in Connector /\ c.reader = r /\ c.bridge = b
    BY FedBy
<1>3. \A d \in connected \cup Routed : d.bridge = b /\ readerName[d.reader] = n => d = c
    <2>1. connected \cup Routed \subseteq Connector
        BY DEF IInv, TypeOK, Routed
    <2> QED
        BY <1>2, <2>1, SameConnector
<1>4. DOMAIN <<>> = {}
    OBVIOUS
<1>5. \E d \in Routed : d.bridge = b /\ readerName[d.reader] = n /\ d.fname = f
    <2>1. mm_writer[b][<<n, f>>] # <<>>
        BY <1>4 DEF pubs
    <2> QED
        BY <1>1, <2>1 DEF Tables, RoutedOnce
<1>6. c \in Routed /\ c.fname = f
    BY <1>3, <1>5
<1>7. CASE r \notin DynReader \/ mm_dynFunctions[b][n] # <<>>
    <2>1. mm_functions[b][n] # <<>> \/ mm_dynFunctions[b][n] # <<>>
        BY <1>4, <1>7 DEF funcNames
    <2>2. c \in connected
        BY <1>1, <1>3, <2>1 DEF Tables, NamedOnce
    <2> QED
        BY <1>2, <2>2 DEF Forwarding
<1>8. CASE r \in DynReader /\ mm_dynFunctions[b][n] = <<>>
    <2>1. f = NoFunction
        <3>1. funcNames(b, r) = <<NoFunction>>
            BY <1>8 DEF funcNames
        <3>2. j = 1
            BY <3>1
        <3> QED
            BY <3>1, <3>2
    <2> QED
        BY <1>2, <1>6, <1>8, <2>1 DEF Forwarding, Routed
<1> QED
    BY <1>7, <1>8

\* The connectors of the promise that copy a message of r to w in form v.
Copying(r, w, v) ==
    { c \in Forwarding :
        /\ c.reader = r /\ c.writer = w
        /\ v = IF c.fname \in Resolved THEN c.fname ELSE NoFunction
        /\ w \notin m_bTerminating }

\* Every write of a message is made for one forwarding connector of its reader.
LEMMA PathOf ==
    ASSUME IInv, Tables, NEW r \in Reader, NEW w \in Writer, NEW v \in FName,
           NEW p \in Paths(r), Sends(r, w, v, p)
    PROVE  \E c \in Copying(r, w, v) :
                /\ p[1] \in DOMAIN mv_bridges[r] /\ mv_bridges[r][p[1]] = c.bridge
                /\ p = <<p[1], 1, 1>>
<1>1. PICK i \in DOMAIN mv_bridges[r] :
           \E j \in DOMAIN funcNames(mv_bridges[r][i], r) :
           \E k \in DOMAIN pubs(mv_bridges[r][i], r, funcNames(mv_bridges[r][i], r)[j]) :
                p = <<i, j, k>>
    BY PathTriple
<1> DEFINE b == mv_bridges[r][i]
           fs == funcNames(b, r)
<1>2. PICK j \in DOMAIN fs : \E k \in DOMAIN pubs(b, r, fs[j]) : p = <<i, j, k>>
    BY <1>1
<1>3. PICK k \in DOMAIN pubs(b, r, fs[j]) : p = <<i, j, k>>
    BY <1>2
<1>4. PICK c \in Forwarding : c.reader = r /\ c.bridge = b
    BY WriteOf
<1>5. fs = <<c.fname>> /\ pubs(b, r, c.fname) = <<c.writer>>
    BY <1>4, RouteOf
<1>6. j = 1 /\ fs[j] = c.fname
    BY <1>5
<1>7. k = 1 /\ pubs(b, r, fs[j])[k] = c.writer
    BY <1>5, <1>6
<1>8. p[1] = i /\ p[2] = j /\ p[3] = k
    BY <1>3
<1>9. /\ w = c.writer /\ w \notin m_bTerminating
      /\ v = IF HasFunction(b, r, c.fname) THEN c.fname ELSE NoFunction
    BY <1>6, <1>7, <1>8 DEF Sends
<1>10. HasFunction(b, r, c.fname) <=> c.fname \in Resolved
    BY <1>4, RouteOf
<1>11. c \in Copying(r, w, v)
    BY <1>4, <1>9, <1>10 DEF Copying
<1> QED
    BY <1>3, <1>4, <1>6, <1>7, <1>8, <1>11

\* Every such connector makes a write.
LEMMA PathFor ==
    ASSUME IInv, Tables, NEW r \in Reader, NEW w \in Writer, NEW v \in FName,
           NEW c \in Copying(r, w, v)
    PROVE  \E p \in Paths(r) : Sends(r, w, v, p) /\ mv_bridges[r][p[1]] = c.bridge
<1>1. /\ c \in Forwarding /\ c.reader = r /\ c.writer = w /\ w \notin m_bTerminating
      /\ v = IF c.fname \in Resolved THEN c.fname ELSE NoFunction
    BY DEF Copying
<1>2. PICK i \in DOMAIN mv_bridges[r] : mv_bridges[r][i] = c.bridge
    BY <1>1, RouteOf DEF Range
<1> DEFINE b == mv_bridges[r][i]
<1>3. /\ funcNames(b, r) = <<c.fname>> /\ pubs(b, r, c.fname) = <<w>>
      /\ HasFunction(b, r, c.fname) <=> c.fname \in Resolved
      /\ r \in DynReader /\ c.fname \in Resolved => w \in DynWriter
    BY <1>1, <1>2, RouteOf
<1>4. /\ 1 \in DOMAIN funcNames(b, r) /\ funcNames(b, r)[1] = c.fname
      /\ 1 \in DOMAIN pubs(b, r, c.fname) /\ pubs(b, r, c.fname)[1] = w
    BY <1>3
<1>5. <<i, 1, 1>> \in Paths(r)
    BY <1>4, TriplePath
<1>6. Sends(r, w, v, <<i, 1, 1>>)
    BY <1>1, <1>3, <1>4 DEF Sends
<1> QED
    BY <1>2, <1>5, <1>6

\* A connector is determined by its reader and its bridge.
LEMMA CopyingUnique ==
    ASSUME IInv, NEW r \in Reader, NEW w, NEW v,
           NEW c \in Copying(r, w, v), NEW d \in Copying(r, w, v), c.bridge = d.bridge
    PROVE  c = d
<1>1. Forwarding \subseteq Connector
    BY DEF IInv, TypeOK, Forwarding
<1> QED
    BY <1>1, SameConnector DEF Copying

\* The bridges make as many copies of a message as the promise asks for.
LEMMA CopiesPromised ==
    ASSUME IInv, Tables, NEW r \in Reader, NEW w \in Writer, NEW v \in FName
    PROVE  Copies(r, w, v) = Cardinality(Copying(r, w, v))
<1> DEFINE A == {p \in Paths(r) : Sends(r, w, v, p)}
           B == Copying(r, w, v)
           g == [p \in A |-> CHOOSE c \in B : c.bridge = mv_bridges[r][p[1]]]
<1>1. ASSUME NEW p \in A
      PROVE  /\ g[p] \in B /\ g[p].bridge = mv_bridges[r][p[1]]
             /\ p[1] \in DOMAIN mv_bridges[r] /\ p = <<p[1], 1, 1>>
    <2>1. PICK c \in B : /\ p[1] \in DOMAIN mv_bridges[r] /\ mv_bridges[r][p[1]] = c.bridge
                         /\ p = <<p[1], 1, 1>>
        BY <1>1, PathOf
    <2> HIDE DEF B
    <2> QED
        BY <2>1
<1>2. g \in [A -> B]
    BY <1>1
<1>3. ASSUME NEW p \in A, NEW q \in A, g[p] = g[q] PROVE p = q
    <2>1. mv_bridges[r][p[1]] = mv_bridges[r][q[1]]
        BY <1>1, <1>3
    <2>2. p[1] = q[1]
        BY <1>1, <2>1 DEF Tables, FedOnce
    <2>3. p = <<p[1], 1, 1>> /\ q = <<q[1], 1, 1>>
        BY <1>1
    <2> QED
        BY <2>2, <2>3
<1>4. ASSUME NEW c \in B PROVE \E p \in A : g[p] = c
    <2>1. PICK p \in A : mv_bridges[r][p[1]] = c.bridge
        BY <1>4, PathFor
    <2>2. g[p] \in B /\ g[p].bridge = c.bridge
        BY <1>1, <2>1
    <2> QED
        BY <1>4, <2>2, CopyingUnique
<1>5. IsFiniteSet(A)
    <2>1. A \subseteq Paths(r)
        OBVIOUS
    <2> QED
        BY <2>1, FinitePaths, FS_Subset DEF IInv
<1> HIDE DEF A, B, g
<1>6. Cardinality(A) = Cardinality(B)
    BY <1>2, <1>3, <1>4, <1>5, OneToOne
<1> QED
    BY <1>6 DEF Copies, A, B

-------------------------------------------------------------------------------
(* The refinement. *)

\* The cardinality of the instance is the cardinality.
LEMMA SameCount == \A S : R!Cardinality(S) = Cardinality(S)
BY DEF R!Cardinality, Cardinality

\* A service that has loaded nothing is a relay with no connector.
LEMMA RelayInit == Init => R!Init
BY DEF Init, R!Init, Forwarding

\* Wiring a connector is Connect once it forwards, and a stutter until then.
LEMMA RelayWiring ==
    ASSUME IInv, NEW c \in Connector, addReader(c) \/ addWriter(c) \/ addFunction(c)
    PROVE  R!Connect(c) \/ Forwarding' = Forwarding
<1>1. CASE addReader(c)
    BY <1>1 DEF addReader, Forwarding, IInv, Stages, Idle
<1>2. CASE addWriter(c)
    <2>1. /\ wiring = {c} /\ wiring' = {c} /\ connected' = connected
          /\ pc = "addWriter" /\ pc' = "addFunction"
          /\ traffic' = traffic /\ m_bTerminating' = m_bTerminating
        BY <1>2 DEF addWriter, ending
    <2>2. Forwarding = connected
        BY <2>1 DEF Forwarding
    <2>3. Forwarding' = connected \/ Forwarding' = connected \cup {c}
        BY <2>1 DEF Forwarding
    <2> QED
        BY <2>1, <2>2, <2>3 DEF R!Connect, traffic
<1>3. CASE addFunction(c)
    <2>1. /\ wiring = {c} /\ wiring' = {} /\ connected' = connected \cup {c}
          /\ traffic' = traffic /\ m_bTerminating' = m_bTerminating
        BY <1>3 DEF addFunction, ending
    <2>2. Forwarding' = Forwarding \cup {c}
        BY <2>1 DEF Forwarding
    <2> QED
        BY <2>1, <2>2 DEF R!Connect, traffic
<1> QED
    BY <1>1, <1>2, <1>3

\* A message through the bridges is one copy for each connector of its reader.
LEMMA RelayForward ==
    ASSUME IInv, Tables, NEW r \in Reader, on_received_data(r)
    PROVE  R!Forward(r)
<1>1. /\ received[r] < MaxMessages /\ received' = [received EXCEPT ![r] = @ + 1]
      /\ Forwarding' = Forwarding /\ m_bTerminating' = m_bTerminating
    BY DEF on_received_data, loading, ending, Forwarding
<1>2. Forwarding \subseteq Connector
    BY DEF IInv, TypeOK, Forwarding
<1> DEFINE Promised(w, v) ==
        {c \in Forwarding : /\ [d \in Connector |-> d.reader][c] = r
                            /\ [d \in Connector |-> d.writer][c] = w
                            /\ [d \in Connector |-> IF d.fname \in Resolved
                                    THEN d.fname ELSE NoFunction][c] = v
                            /\ w \notin m_bTerminating \cap Writer}
<1>3. ASSUME NEW w \in Writer, NEW v \in FName
      PROVE  Copies(r, w, v) = Cardinality(Promised(w, v))
    <2>1. Promised(w, v) = Copying(r, w, v)
        BY <1>2 DEF Copying
    <2> HIDE DEF Promised
    <2> QED
        BY <2>1, CopiesPromised
<1>4. written' = [w \in Writer |-> [v \in FName |->
                        written[w][v] + Cardinality(Promised(w, v))]]
    <2> HIDE DEF Promised
    <2> QED
        BY <1>3 DEF on_received_data
<1>5. UNCHANGED <<Forwarding, m_bTerminating \cap Writer>>
    BY <1>1
<1> QED
    BY <1>1, <1>4, <1>5, SameCount DEF R!Forward

\* Every step of the bridges is a step of the relay or a stutter.
LEMMA RelayStep ==
    ASSUME IInv, Tables, [Next]_vars
    PROVE  [R!Next]_<<Forwarding, m_bTerminating \cap Writer, received, written>>
<1>1. CASE UNCHANGED vars
    BY <1>1 DEF vars, loading, ending, traffic, Forwarding
<1>2. ASSUME NEW c \in Connector, addReader(c) \/ addWriter(c) \/ addFunction(c)
      PROVE  R!Next \/ UNCHANGED <<Forwarding, m_bTerminating, received, written>>
    <2>1. UNCHANGED <<m_bTerminating, received, written>>
        BY <1>2 DEF addReader, addWriter, addFunction, ending, traffic
    <2> QED
        BY <1>2, <2>1, RelayWiring DEF R!Next
<1>3. ASSUME NEW r \in Reader, on_received_data(r) PROVE R!Next
    BY <1>3, RelayForward DEF R!Next
<1>4. ASSUME NEW b \in Bridge, onTerminate(b) PROVE R!Next
    <2> DEFINE W == Terminated(b) \cap Writer
    <2>1. m_bTerminating' \cap Writer = (m_bTerminating \cap Writer) \cup W
        BY <1>4 DEF onTerminate
    <2>2. UNCHANGED <<Forwarding, received, written>>
        BY <1>4 DEF onTerminate, loading, traffic, Forwarding
    <2>3. R!Close(W)
        BY <2>1, <2>2 DEF R!Close
    <2> QED
        BY <2>3 DEF R!Next
<1>5. ASSUME NEW b \in Bridge, Destroy(b)
      PROVE  UNCHANGED <<Forwarding, m_bTerminating, received, written>>
    BY <1>5 DEF Destroy, loading, traffic, Forwarding
<1> QED
    BY <1>1, <1>2, <1>3, <1>4, <1>5 DEF Next

\* For every well-formed configuration the routing core implements the promise:
\* each connector forwards each message of its reader exactly once.
THEOREM Refinement == Spec => RelaySpec
<1>1. Init => R!Init
    BY RelayInit
<1>2. IInv /\ Tables /\ [Next]_vars =>
        [R!Next]_<<Forwarding, m_bTerminating \cap Writer, received, written>>
    BY RelayStep
<1> QED
    BY <1>1, <1>2, Invariance, OneEntryEach, PTL DEF Spec, RelaySpec, R!Spec

===============================================================================
