----------------------------- MODULE MCTopicTypes -----------------------------
(* Small files for module TopicTypes. *)
EXTENDS TopicTypes

CONSTANTS p1, p2, ta, tb, own, pack, broken

\* A library of one type, one that packs both, and one that cannot be loaded.
MCdefines == [l \in Lib |-> IF l = own THEN {ta} ELSE IF l = pack THEN {ta, tb} ELSE {}]

Defines(T) == [tag |-> "types", names |-> T]
Declares(t, l) == [tag |-> "type", name |-> t, library |-> l]
Packs(l) == [tag |-> "types_library", library |-> l]
Uses(p, t) == [tag |-> "endpoint", part |-> p, type |-> t]

MCElements == {
    Defines({ta}), Declares(ta, own), Declares(tb, own), Declares(tb, broken),
    Packs(own), Packs(pack), Packs(broken), Packs(Null),
    Uses(p1, ta), Uses(p1, tb), Uses(p2, tb) }

MCFiles == UNION { [1..n -> MCElements] : n \in 0..4 }

\* A type that is declared without a library, and a library that packs it.
MCUnlisted == { <<Declares(ta, Null), Packs(pack), Uses(p1, ta)>> }
===============================================================================
