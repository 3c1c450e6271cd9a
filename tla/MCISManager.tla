----------------------------- MODULE MCISManager -----------------------------
(* Small configuration files for module ISManager. *)
EXTENDS ISManager

CONSTANTS p1, p2, proto, c1, c2, c3, c4, s, t

MCEndPointName == Prefix \X Name
MCgetEndPointName == [e \in Prefix \X Name |-> e]

Part(p, n) == [part |-> p, bridge |-> Null, name |-> n]
Cust(b, n) == [part |-> Null, bridge |-> b, name |-> n]
Joins(n, r, w) == [tag |-> "connector", name |-> n, reader |-> r, writer |-> w]
Custom(lib, makes) == [tag |-> "bridge", name |-> proto, library |-> lib,
                       makes |-> makes, reader |-> {s}, writer |-> {t}]

Is == [tag |-> "is", profiles |-> TRUE]
IsBare == [tag |-> "is", profiles |-> FALSE]
Proto == Custom(TRUE, {"reader", "writer"})
There == Joins(c1, Part(p1, s), Part(p2, t))
Back == Joins(c2, Part(p2, s), Part(p1, t))
Out == Joins(c3, Part(p1, s), Cust(proto, t))
In == Joins(c4, Cust(proto, s), Part(p1, t))

\* The files that can be put together from a few elements: among them are ones
\* whose connectors are incomplete, join two custom ends, have the name of a
\* participant or of another connector, or take a participant for a bridge, and
\* ones whose bridges have no library or one that makes no readers.
MCElements == {
    Is, IsBare, Proto, Custom(FALSE, {}), Custom(TRUE, {"writer"}),
    There, Out, In,
    Joins(c1, Part(p2, s), Part(p2, t)),
    Joins(c2, Part(p1, Null), Part(p2, t)),
    Joins(c3, [part |-> p1, bridge |-> proto, name |-> s], Part(p2, t)),
    Joins(c4, Cust(proto, s), Cust(proto, t)),
    Joins(p1, Part(p1, s), Part(p2, t)),
    Joins(c2, Cust(p1, s), Part(p2, t)) }

MCFiles ==
    { d \in { <<head>> \o d : head \in {Is, IsBare},
                              d \in UNION { [1..n -> MCElements] : n \in 0..3 } } :
        InOrder(d) }

\* The file resource/config.xml shows.
MCSample == { <<Is, Proto, There, Back, Out, In>> }

MCAll == MCFiles \cup MCSample

\* Two connectors that have one name.
MCSameName == { <<Is, There, Joins(c1, Part(p2, s), Part(p1, t))>> }

\* One connector.
MCOne == { <<Is, There>> }
===============================================================================
