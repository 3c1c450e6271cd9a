------------------------------ MODULE TopicTypes ------------------------------
(***************************************************************************)
(* How endpoints get their types (src/ISManager.cpp): loadISTypes reads    *)
(* what <is_types> elements say, getTopicDataType makes the type of a      *)
(* topic, and createReader and createWriter register it in a participant   *)
(* and keep it in data_types for the endpoints that share it.              *)
(*                                                                         *)
(* A file is a sequence of what these functions meet: definitions of       *)
(* dynamic types, <type> and <types_library> elements, and endpoints.  A   *)
(* type object is known by the endpoint it was made for and by its source. *)
(***************************************************************************)
EXTENDS Naturals, Sequences, FiniteSets, Functions

CONSTANTS
    Part, Type, Lib,        \* participants, names of topic types, libraries
    Null, Xml, Generic,     \* no pointer or no text; the other sources of types
    Exports,                \* libraries that load and export GetTopicType
    defines,                \* Lib -> the types its GetTopicType makes
    Documents,              \* the files considered
    MaxElements,            \* bound: elements of a file
    MaxFailures             \* bound: types Fast RTPS refuses to register

Element ==
    [tag : {"types"}, names : SUBSET Type]
    \cup [tag : {"type"}, name : Type, library : Lib \cup {Null}]
    \cup [tag : {"types_library"}, library : Lib \cup {Null}]
    \cup [tag : {"endpoint"}, part : Part, type : Type]

\* A type object, by the position of the endpoint it was made for and its source.
TypeObject == [at : 1..MaxElements, source : Lib \cup {Xml, Generic}]

ASSUME TopicTypesAssumption ==
    /\ Exports \subseteq Lib
    /\ defines \in [Lib -> SUBSET Type]
    /\ {Null, Xml, Generic} \cap Lib = {} /\ Null \notin TypeObject
    /\ MaxElements \in Nat /\ MaxFailures \in Nat
    /\ \A d \in Documents : d \in Seq(Element) /\ Len(d) <= MaxElements

VARIABLES
    document, at, pc,
    dynamicTypes,           \* types the XML profiles define
    typesLibs,              \* type -> "none", a library, or Null for a null function
    defaultTypesLibs,       \* the default libraries, Null for a null function
    registered,             \* Fast RTPS: participant, type -> type object
    data_types,             \* ISManager: participant, type -> type object
    endpoints,              \* endpoints and the type each one uses
    failures

tables == <<dynamicTypes, typesLibs, defaultTypesLibs>>
made   == <<registered, data_types, endpoints, failures>>
vars   == <<document, at, pc, tables, made>>

-------------------------------------------------------------------------------
Init ==
    /\ document \in Documents
    /\ at = 1
    /\ pc = "loading"
    /\ dynamicTypes = {}
    /\ typesLibs = [t \in Type |-> "none"]
    /\ defaultTypesLibs = <<>>
    /\ registered = [k \in Part \X Type |-> Null]
    /\ data_types = [k \in Part \X Type |-> Null]
    /\ endpoints = {}
    /\ failures = 0

element == document[at]
Meets(tag) == pc = "loading" /\ at <= Len(document) /\ element.tag = tag

\* Seeded bug for function: a library is taken to export GetTopicType.
anyFunction(lib) == lib

\* eProsimaGetProcAddress of a library's GetTopicType.
function(lib) == IF lib \in Exports THEN lib ELSE Null

loadDynamicTypes ==
    /\ Meets("types")
    /\ dynamicTypes' = dynamicTypes \cup element.names
    /\ at' = at + 1
    /\ UNCHANGED <<document, pc, typesLibs, defaultTypesLibs, made>>

\* A <type> without a library leaves no trace.
loadType ==
    /\ Meets("type")
    /\ typesLibs' = IF element.library = Null THEN typesLibs
                    ELSE [typesLibs EXCEPT ![element.name] = function(element.library)]
    /\ at' = at + 1
    /\ UNCHANGED <<document, pc, dynamicTypes, defaultTypesLibs, made>>

\* Seeded bug for loadTypesLibrary: the loop never goes on to the next library.
loadSameLibrary ==
    /\ Meets("types_library")
    /\ defaultTypesLibs' = IF element.library = Null THEN defaultTypesLibs
                           ELSE <<function(element.library)>>
    /\ UNCHANGED <<document, at, pc, dynamicTypes, typesLibs, made>>

\* The loop only goes on to the next library from one that has a text.
loadTypesLibrary ==
    /\ Meets("types_library")
    /\ IF element.library = Null
       THEN UNCHANGED <<at, defaultTypesLibs>>
       ELSE /\ at' = at + 1
            /\ defaultTypesLibs' = Append(defaultTypesLibs, function(element.library))
    /\ UNCHANGED <<document, pc, dynamicTypes, typesLibs, made>>

-------------------------------------------------------------------------------
\* The default libraries are tried for a type whose own function is null, in
\* order, up to the first that makes the type; a null one is called as well.
Stops(f, t) == f = Null \/ t \in defines[f]

fromDefaults(t) ==
    { f \in Lib \cup {Null} :
        /\ typesLibs[t] = Null
        /\ \E i \in DOMAIN defaultTypesLibs :
                /\ f = defaultTypesLibs[i]
                /\ Stops(f, t)
                /\ \A j \in 1..(i - 1) : ~Stops(defaultTypesLibs[j], t) }

\* getTopicDataType: the source of a type, in the order of priority.
source(t) ==
    IF t \in dynamicTypes THEN Xml
    ELSE IF typesLibs[t] \in Lib /\ t \in defines[typesLibs[t]] THEN typesLibs[t]
    ELSE IF fromDefaults(t) # {} THEN CHOOSE f \in fromDefaults(t) : TRUE
    ELSE Generic

\* The library calls are made even for a type the XML defines, for a warning.
crashes(t) == Null \in fromDefaults(t)

\* Seeded bug for IsRegistered: every endpoint makes a type of its own.
NeverRegistered(k) == FALSE

\* Domain::getRegisteredType.
IsRegistered(k) == registered[k] # Null

\* An endpoint is created when its type is registered, and takes it from
\* data_types.  What registerType answers is ignored: data_types is set anyway.
Creates(k) ==
    endpoints' = endpoints \cup
        (IF registered'[k] = Null THEN {}
         ELSE {[at |-> at, key |-> k, type |-> data_types'[k]]})

createKnown(k) ==
    /\ IsRegistered(k)
    /\ UNCHANGED <<registered, data_types, failures>>
    /\ Creates(k)

createNew(k) ==
    /\ ~IsRegistered(k)
    /\ ~crashes(k[2])
    /\ LET new == [at |-> at, source |-> source(k[2])]
       IN  /\ data_types' = [data_types EXCEPT ![k] = new]
           /\ \/ /\ registered' = IF registered[k] = Null
                                  THEN [registered EXCEPT ![k] = new] ELSE registered
                 /\ UNCHANGED failures
              \/ /\ failures < MaxFailures
                 /\ failures' = failures + 1
                 /\ UNCHANGED registered
    /\ Creates(k)

createEndpoint ==
    /\ Meets("endpoint")
    /\ LET k == <<element.part, element.type>> IN createKnown(k) \/ createNew(k)
    /\ at' = at + 1
    /\ UNCHANGED <<document, pc, tables>>

crash ==
    /\ Meets("endpoint")
    /\ ~IsRegistered(<<element.part, element.type>>)
    /\ crashes(element.type)
    /\ pc' = "crashed"
    /\ UNCHANGED <<document, at, tables, made>>

\* The end of the file; the program then runs until the destructor deletes every
\* type of data_types.
finish ==
    /\ pc = "loading"
    /\ at > Len(document)
    /\ pc' = "loaded"
    /\ UNCHANGED <<document, at, tables, made>>

Next ==
    \/ loadDynamicTypes \/ loadType \/ loadTypesLibrary
    \/ createEndpoint \/ crash
    \/ finish

\* The constructor runs in one thread that nothing holds up.
Spec == Init /\ [][Next]_vars /\ WF_vars(Next)

-------------------------------------------------------------------------------
(* Properties *)

\* The types of the fields.
TypeOK ==
    /\ document \in Documents
    /\ at \in 1..(MaxElements + 1)
    /\ pc \in {"loading", "crashed", "loaded"}
    /\ dynamicTypes \subseteq Type
    /\ typesLibs \in [Type -> Exports \cup {Null, "none"}]
    /\ defaultTypesLibs \in Seq(Exports \cup {Null})
    /\ registered \in [Part \X Type -> TypeObject \cup {Null}]
    /\ data_types \in [Part \X Type -> TypeObject \cup {Null}]
    /\ endpoints \subseteq [at : 1..MaxElements, key : Part \X Type, type : TypeObject]
    /\ failures \in 0..MaxFailures

\* What the manager keeps in data_types is what Fast RTPS has registered, also
\* after a registration has failed and been tried again for a later endpoint: so
\* no endpoint is left with a null type or with one that Fast RTPS does not use,
\* the endpoints of a participant share one object for a topic type, and the
\* destructor deletes no object twice.
KeptAsRegistered ==
    /\ \A k \in Part \X Type : registered[k] # Null => data_types[k] = registered[k]
    /\ \A e \in endpoints : e.type = registered[e.key]
    /\ \A k, l \in Part \X Type :
            data_types[k] # Null /\ data_types[k] = data_types[l] => k = l

\* Why it holds, an inductive invariant: what has been made so far was made for
\* earlier endpoints.
TypesInv ==
    /\ TypeOK /\ KeptAsRegistered
    /\ \A k \in Part \X Type : data_types[k] # Null => data_types[k].at < at

\* Loading ends, if only in a crash, for every file whose types_library elements
\* all have a text.
LoadingEnds ==
    (\A i \in DOMAIN document : document[i].tag = "types_library" => document[i].library # Null)
    => <>(pc # "loading")

\* What resource/config.xml says of types_library (line 8), "Can be used to pack
\* types or types without their own library": a type that neither the XML nor a
\* library of its own defines is made by a default library that defines it.
DefaultLibrariesServe ==
    \A e \in endpoints : \A i \in DOMAIN defaultTypesLibs :
        /\ e.key[2] \notin dynamicTypes
        /\ typesLibs[e.key[2]] \notin Lib
        /\ defaultTypesLibs[i] # Null /\ e.key[2] \in defines[defaultTypesLibs[i]]
        => e.type.source # Generic
===============================================================================
