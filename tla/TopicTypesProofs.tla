--------------------------- MODULE TopicTypesProofs ---------------------------
(* Theorems about the types in module TopicTypes, for every file and every     *)
(* library, however often Fast RTPS refuses to register a type.                *)
EXTENDS TopicTypes, TLAPS

-------------------------------------------------------------------------------
\* An endpoint is met at a position of the file.
LEMMA MetEndpoint ==
    ASSUME document \in Documents, at \in 1..(MaxElements + 1), Meets("endpoint")
    PROVE  /\ at \in 1..MaxElements /\ at + 1 \in 1..(MaxElements + 1)
           /\ element.part \in Part /\ element.type \in Type
<1>1. document \in Seq(Element) /\ Len(document) <= MaxElements /\ MaxElements \in Nat
    BY TopicTypesAssumption
<1>2. at \in 1..Len(document) /\ element \in Element /\ element.tag = "endpoint"
    BY <1>1 DEF Meets, element
<1> QED
    BY <1>1, <1>2 DEF Element

\* A type that is made without a crash is made by the XML, by a library or as a
\* generic one.
LEMMA SourceType ==
    ASSUME NEW t, ~crashes(t)
    PROVE  source(t) \in Lib \cup {Xml, Generic}
<1>1. fromDefaults(t) \subseteq Lib \cup {Null} /\ Null \notin fromDefaults(t)
    BY DEF crashes, fromDefaults
<1>2. fromDefaults(t) # {} => (CHOOSE f \in fromDefaults(t) : TRUE) \in Lib
    BY <1>1
<1> QED
    BY <1>2 DEF source

\* The steps that read what the file says of types leave the endpoints' types alone.
LEMMA TablesKeepTypes ==
    ASSUME TypesInv,
           loadDynamicTypes \/ loadType \/ loadTypesLibrary \/ crash \/ finish
    PROVE  TypesInv'
<1>1. /\ document \in Seq(Element) /\ Len(document) \in Nat /\ Len(document) <= MaxElements
      /\ MaxElements \in Nat
    BY TopicTypesAssumption DEF TypesInv, TypeOK
<1>2. UNCHANGED <<document, made>>
    BY DEF loadDynamicTypes, loadType, loadTypesLibrary, crash, finish
<1>3. /\ at' \in 1..(MaxElements + 1) /\ at' >= at /\ at \in Nat
      /\ pc' \in {"loading", "crashed", "loaded"}
    BY <1>1 DEF loadDynamicTypes, loadType, loadTypesLibrary, crash, finish, Meets, TypesInv, TypeOK
<1>4. /\ dynamicTypes' \subseteq Type
      /\ typesLibs' \in [Type -> Exports \cup {Null, "none"}]
      /\ defaultTypesLibs' \in Seq(Exports \cup {Null})
    <2>1. CASE loadDynamicTypes
        <3>1. element.names \subseteq Type
            <4>1. at \in 1..Len(document) /\ element.tag = "types"
                BY <1>1, <2>1 DEF loadDynamicTypes, Meets, TypesInv, TypeOK
            <4>2. element \in Element
                BY <1>1, <4>1 DEF element
            <4> QED
                BY <4>1, <4>2 DEF Element
        <3> QED
            BY <2>1, <3>1 DEF loadDynamicTypes, TypesInv, TypeOK
    <2>2. CASE loadType
        BY <2>2 DEF loadType, function, TypesInv, TypeOK
    <2>3. CASE loadTypesLibrary
        <3>1. \E f \in Exports \cup {Null} :
                defaultTypesLibs' \in {defaultTypesLibs, Append(defaultTypesLibs, f)}
            BY <2>3 DEF loadTypesLibrary, function
        <3>2. defaultTypesLibs \in Seq(Exports \cup {Null})
            BY DEF TypesInv, TypeOK
        <3>3. defaultTypesLibs' \in Seq(Exports \cup {Null})
            BY <3>1, <3>2
        <3> QED
            BY <2>3, <3>3 DEF loadTypesLibrary, TypesInv, TypeOK
    <2>4. CASE crash \/ finish
        BY <2>4 DEF crash, finish, tables, TypesInv, TypeOK
    <2> QED
        BY <2>1, <2>2, <2>3, <2>4
<1>5. TypeOK'
    BY <1>2, <1>3, <1>4 DEF made, TypesInv, TypeOK
<1>6. KeptAsRegistered'
    BY <1>2 DEF made, TypesInv, KeptAsRegistered
<1>7. \A k \in Part \X Type : data_types'[k] # Null => data_types'[k].at < at'
    BY <1>2, <1>3 DEF made, TypesInv, TypeOK, TypeObject
<1> QED
    BY <1>5, <1>6, <1>7 DEF TypesInv

\* An endpoint finds the type of its topic in data_types, or leaves a new one there.
LEMMA EndpointsKeepTypes ==
    ASSUME TypesInv, createEndpoint
    PROVE  TypesInv'
<1> DEFINE k == <<element.part, element.type>>
<1>1. /\ at \in 1..MaxElements /\ at' = at + 1 /\ at' \in 1..(MaxElements + 1)
      /\ k \in Part \X Type /\ UNCHANGED <<document, pc, tables>>
    BY MetEndpoint DEF createEndpoint, TypesInv, TypeOK
<1>2. createKnown(k) \/ createNew(k)
    BY DEF createEndpoint
<1> HIDE DEF k
<1>3. /\ registered \in [Part \X Type -> TypeObject \cup {Null}]
      /\ data_types \in [Part \X Type -> TypeObject \cup {Null}]
      /\ endpoints \subseteq [at : 1..MaxElements, key : Part \X Type, type : TypeObject]
      /\ failures \in 0..MaxFailures /\ MaxFailures \in Nat /\ Null \notin TypeObject
    BY TopicTypesAssumption DEF TypesInv, TypeOK
<1>4. /\ registered' \in [Part \X Type -> TypeObject \cup {Null}]
      /\ data_types' \in [Part \X Type -> TypeObject \cup {Null}]
      /\ failures' \in 0..MaxFailures
      /\ \A l \in Part \X Type : registered[l] # Null => registered'[l] = registered[l]
      /\ \A l \in Part \X Type : registered'[l] # Null => data_types'[l] = registered'[l]
      /\ \A l \in Part \X Type : data_types'[l] # Null => data_types'[l].at < at'
      /\ \A l, m \in Part \X Type :
            data_types'[l] # Null /\ data_types'[l] = data_types'[m] => l = m
    <2>1. CASE createKnown(k)
        BY <1>1, <1>3, <2>1 DEF createKnown, TypesInv, KeptAsRegistered, TypeObject
    <2>2. CASE createNew(k)
        <3> DEFINE new == [at |-> at, source |-> source(k[2])]
        <3>1. new \in TypeObject /\ new.at = at
            BY <1>1, <2>2, SourceType DEF createNew, TypeObject
        <3>2. /\ data_types' = [data_types EXCEPT ![k] = new] /\ registered[k] = Null
              /\ \/ registered' = [registered EXCEPT ![k] = new] /\ failures' = failures
                 \/ registered' = registered /\ failures < MaxFailures /\ failures' = failures + 1
            BY <2>2 DEF createNew, IsRegistered
        <3> HIDE DEF new
        <3>3. /\ data_types' \in [Part \X Type -> TypeObject \cup {Null}]
              /\ registered' \in [Part \X Type -> TypeObject \cup {Null}]
              /\ failures' \in 0..MaxFailures
            BY <1>1, <1>3, <3>1, <3>2
        <3>4. ASSUME NEW l \in Part \X Type
              PROVE  /\ registered[l] # Null => registered'[l] = registered[l]
                     /\ registered'[l] # Null => data_types'[l] = registered'[l]
                     /\ data_types'[l] # Null => data_types'[l].at < at'
            BY <1>1, <1>3, <3>1, <3>2 DEF TypesInv, KeptAsRegistered, TypeObject
        <3>5. ASSUME NEW l \in Part \X Type, NEW m \in Part \X Type,
                     data_types'[l] # Null, data_types'[l] = data_types'[m]
              PROVE  l = m
            BY <1>1, <1>3, <3>1, <3>2, <3>5 DEF TypesInv, KeptAsRegistered
        <3> QED
            BY <3>3, <3>4, <3>5
    <2> QED
        BY <1>2, <2>1, <2>2
<1>5. endpoints' = endpoints \cup (IF registered'[k] = Null THEN {}
                                   ELSE {[at |-> at, key |-> k, type |-> data_types'[k]]})
    BY <1>2 DEF createKnown, createNew, Creates
<1>6. ASSUME NEW e \in endpoints'
      PROVE  /\ e \in [at : 1..MaxElements, key : Part \X Type, type : TypeObject]
             /\ e.type = registered'[e.key]
    <2>1. CASE e \in endpoints
        BY <1>3, <1>4, <2>1 DEF TypesInv, KeptAsRegistered
    <2>2. CASE e \notin endpoints
        BY <1>1, <1>3, <1>4, <1>5, <1>6, <2>2
    <2> QED
        BY <2>1, <2>2
<1>7. TypeOK'
    BY <1>1, <1>4, <1>6 DEF tables, TypesInv, TypeOK
<1> QED
    BY <1>4, <1>6, <1>7 DEF TypesInv, KeptAsRegistered

-------------------------------------------------------------------------------
\* TypesInv holds in every state, whatever the file and whatever fails
\* (src/ISManager.cpp, getTopicDataType, createReader and createWriter).
THEOREM TypesInvariance == Spec => []TypesInv
<1>1. Init => TypesInv
    <2> SUFFICES ASSUME Init PROVE TypesInv
        OBVIOUS
    <2>1. at \in 1..(MaxElements + 1) /\ failures \in 0..MaxFailures
        BY TopicTypesAssumption DEF Init
    <2>2. TypeOK
        BY <2>1 DEF Init, TypeOK
    <2> QED
        BY <2>2 DEF Init, TypesInv, KeptAsRegistered
<1>2. TypesInv /\ [Next]_vars => TypesInv'
    <2> SUFFICES ASSUME TypesInv, [Next]_vars PROVE TypesInv'
        OBVIOUS
    <2>1. CASE Next
        BY <2>1, TablesKeepTypes, EndpointsKeepTypes DEF Next
    <2>2. CASE UNCHANGED vars
        BY <2>2 DEF vars, tables, made, TypesInv, TypeOK, KeptAsRegistered
    <2> QED
        BY <2>1, <2>2
<1> QED
    BY <1>1, <1>2, PTL DEF Spec

\* The tables of types only ever hold values of the right kind.
THEOREM TypeCorrect == Spec => []TypeOK
<1>1. TypesInv => TypeOK
    BY DEF TypesInv
<1> QED
    BY <1>1, TypesInvariance, PTL

\* Whatever the file and whatever fails, the type the manager keeps for a topic is the
\* one Fast RTPS has registered, endpoints use that one, and it is kept once (the
\* "Check type" and "Associate types" parts of createReader and createWriter).
THEOREM OneTypePerTopic == Spec => []KeptAsRegistered
<1>1. TypesInv => KeptAsRegistered
    BY DEF TypesInv
<1> QED
    BY <1>1, TypesInvariance, PTL
===============================================================================
