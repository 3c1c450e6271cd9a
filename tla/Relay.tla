-------------------------------- MODULE Relay --------------------------------
(***************************************************************************)
(* What the Integration Service promises to whoever writes a configuration *)
(* file: a connector forwards every message its reader hands over to its   *)
(* writer, once, in the form the connector asks for, from the moment it is *)
(* connected until its writer is closed.  No bridges, names or maps.       *)
(***************************************************************************)
EXTENDS Naturals, FiniteSets

CONSTANTS
    Reader, Writer, Form,
    Connector,          \* any set of connectors
    source, sink, form, \* functions: a connector's reader, writer and form
    MaxMessages         \* bound: messages received per reader

VARIABLES
    connected,          \* the connectors that forward
    closed,             \* the writers that send nothing any more
    received, written   \* messages per reader, copies per writer and form

Init ==
    /\ connected = {}
    /\ closed = {}
    /\ received = [r \in Reader |-> 0]
    /\ written = [w \in Writer |-> [v \in Form |-> 0]]

Connect(c) ==
    /\ connected' = connected \cup {c}
    /\ UNCHANGED <<closed, received, written>>

\* One copy for each connector of the reader to an open writer.
Forward(r) ==
    /\ received[r] < MaxMessages
    /\ received' = [received EXCEPT ![r] = @ + 1]
    /\ written' = [w \in Writer |-> [v \in Form |->
            written[w][v] + Cardinality(
                {c \in connected : /\ source[c] = r
                                   /\ sink[c] = w
                                   /\ form[c] = v
                                   /\ w \notin closed})]]
    /\ UNCHANGED <<connected, closed>>

Close(W) ==
    /\ closed' = closed \cup W
    /\ UNCHANGED <<connected, received, written>>

Next ==
    \/ \E c \in Connector : Connect(c)
    \/ \E r \in Reader : Forward(r)
    \/ \E W \in SUBSET Writer : Close(W)

Spec == Init /\ [][Next]_<<connected, closed, received, written>>
===============================================================================
