---------------------------- MODULE ISBridgeRelay ----------------------------
(***************************************************************************)
(* The routing core keeps the promise of module Relay for the              *)
(* configurations described by WellFormed: that is the part of the         *)
(* configuration space in which the bridges' tables cannot confuse two     *)
(* connectors.                                                             *)
(***************************************************************************)
EXTENDS ISBridge

\* No two connectors on one bridge have readers of one name, the kinds of the
\* two ends agree where there is a transformation, and a reader of dynamic data
\* has no transformation that is missing from its library.
WellFormed ==
    /\ \A c, d \in Connector :
            c.bridge = d.bridge /\ readerName[c.reader] = readerName[d.reader]
            => c = d
    /\ \A c \in Connector :
            /\ c.fname \in Resolved => (c.reader \in DynReader <=> c.writer \in DynWriter)
            /\ c.reader \in DynReader => c.fname \in Resolved \cup {NoFunction}

\* A connector forwards once its function is registered; dynamic data without a
\* transformation already flows once the writer is.
Forwarding ==
    connected \cup { c \in wiring : /\ pc = "addFunction"
                                    /\ c.reader \in DynReader
                                    /\ c.fname = NoFunction }

R == INSTANCE Relay WITH
        Form <- FName,
        source <- [c \in Connector |-> c.reader],
        sink <- [c \in Connector |-> c.writer],
        form <- [c \in Connector |->
                    IF c.fname \in Resolved THEN c.fname ELSE NoFunction],
        connected <- Forwarding,
        closed <- m_bTerminating \cap Writer

ASSUME WellFormedConfiguration == WellFormed

\* Every message is forwarded exactly once by every connector of its reader,
\* while other connectors are being wired and while bridges are terminated.
RelaySpec == R!Spec

-------------------------------------------------------------------------------
(* What the tables of a well-formed configuration hold, exactly. *)

\* A reader feeds the bridge of each connector it starts, once.
FedOnce ==
    /\ \A r \in Reader :
        /\ \A i \in DOMAIN mv_bridges[r] :
                \E c \in Started : c.reader = r /\ c.bridge = mv_bridges[r][i]
        /\ \A i, j \in DOMAIN mv_bridges[r] :
                mv_bridges[r][i] = mv_bridges[r][j] => i = j
    /\ \A c \in Started : c.bridge \in Range(mv_bridges[c.reader])

\* A route leads to the writer of one connector, from addWriter on.
RoutedOnce ==
    /\ wiring \cap connected = {}
    /\ \A c \in Routed :
            mm_writer[c.bridge][<<readerName[c.reader], c.fname>>] = <<c.writer>>
    /\ \A b \in Bridge, n \in Name, f \in FName : mm_writer[b][<<n, f>>] # <<>> =>
            \E c \in Routed : c.bridge = b /\ readerName[c.reader] = n /\ c.fname = f

\* A list of functions holds the function of one connector, from addFunction on.
NamedOnce ==
    /\ \A c \in connected :
            IF IsDynFunction(c)
            THEN mm_dynFunctions[c.bridge][readerName[c.reader]] = <<c.fname>>
            ELSE mm_functions[c.bridge][readerName[c.reader]] = <<c.fname>>
    /\ \A b \in Bridge, n \in Name :
        /\ mm_dynFunctions[b][n] # <<>> => \E c \in connected :
                c.bridge = b /\ readerName[c.reader] = n /\ IsDynFunction(c)
        /\ mm_functions[b][n] # <<>> => \E c \in connected :
                c.bridge = b /\ readerName[c.reader] = n /\ ~IsDynFunction(c)

\* No two connectors of a well-formed configuration share an entry of a table,
\* and no entry is missing or left over: it is why no message is lost or
\* duplicated between on_received_data and the writers (addReader, addWriter and
\* addFunction of ISBridge.h).
Tables == FedOnce /\ RoutedOnce /\ NamedOnce
===============================================================================
