------------------------------ MODULE MCDispatch ------------------------------
(* Small bridges for module Dispatch; in most of them the third reader is silent. *)
EXTENDS Dispatch, TLC

CONSTANTS r1, r2, r3, w1, w2, n1, n2, n3, fA, fB

Table(first, second) == n1 :> first @@ n2 :> second @@ n3 :> <<>>
Names(first, second, third) == r1 :> first @@ r2 :> second @@ r3 :> third
Messages(first, second, third) == r1 :> first @@ r2 :> second @@ r3 :> third
Writers(table) == [k \in Key |-> IF k \in DOMAIN table THEN table[k] ELSE Null]

\* Two readers of one name, whose messages share a key, and which feed the
\* second writer without a transformation as well; by its first messages, or
\* after earlier ones.
ColdStart ==
    [readerName |-> Names(n1, n1, n3), dynamic |-> {},
     mm_functions |-> Table(<<fA, NoFunction>>, <<>>),
     mm_dynFunctions |-> Table(<<>>, <<>>),
     mm_writer |-> Writers(<<n1, fA>> :> <<w1, w2>> @@ <<n1, NoFunction>> :> <<w2>>),
     Used |-> {}, MaxMessages |-> Messages(2, 1, 0)]
OneName == [ColdStart EXCEPT !.Used = {<<n1, fA>>}]

\* Two readers of different names that feed one writer; the first one feeds
\* another writer too.
TwoNames ==
    [readerName |-> Names(n1, n2, n3), dynamic |-> {},
     mm_functions |-> Table(<<fA>>, <<fB>>),
     mm_dynFunctions |-> Table(<<>>, <<>>),
     mm_writer |-> Writers(<<n1, fA>> :> <<w2, w1>> @@ <<n2, fB>> :> <<w2>>),
     Used |-> {}, MaxMessages |-> Messages(2, 1, 0)]

\* Two readers of dynamic data with one name; the first writer is not of a dynamic
\* type.
OneDynamicName ==
    [readerName |-> Names(n1, n1, n3), dynamic |-> {r1, r2},
     mm_functions |-> Table(<<fA>>, <<>>),
     mm_dynFunctions |-> Table(<<fA>>, <<>>),
     mm_writer |-> Writers(<<n1, fA>> :> <<w1, w2>>),
     Used |-> {<<n1, fA>>}, MaxMessages |-> Messages(2, 1, 0)]

\* Dynamic data that is transformed for the first time, and payloads, to one
\* writer of a dynamic type.
BothKinds ==
    [readerName |-> Names(n1, n2, n3), dynamic |-> {r1},
     mm_functions |-> Table(<<>>, <<NoFunction>>),
     mm_dynFunctions |-> Table(<<fA, fB>>, <<>>),
     mm_writer |-> Writers(<<n1, fA>> :> <<w2>> @@ <<n1, fB>> :> <<w2>>
                           @@ <<n2, NoFunction>> :> <<w2>>),
     Used |-> {}, MaxMessages |-> Messages(2, 1, 0)]

\* Dynamic data of two names, one of which has no function, by its first messages,
\* or after earlier ones have left an empty list for the name.
FirstLookUp ==
    [readerName |-> Names(n1, n2, n3), dynamic |-> {r1, r2},
     mm_functions |-> Table(<<NoFunction>>, <<>>),
     mm_dynFunctions |-> Table(Null, <<fB>>),
     mm_writer |-> Writers(<<n1, NoFunction>> :> <<w2>> @@ <<n2, fB>> :> <<w2>>),
     Used |-> {}, MaxMessages |-> Messages(1, 2, 0)]
NoTransformation == [FirstLookUp EXCEPT !.mm_dynFunctions = Table(<<>>, <<fB>>)]

\* Two readers whose functions are of the other kind than their data, one for
\* payloads and one for dynamic data, and one without a transformation, by the first
\* messages.
OtherKind ==
    [readerName |-> Names(n1, n2, n3), dynamic |-> {r1},
     mm_functions |-> n1 :> <<fA>> @@ n2 :> <<NoFunction>> @@ n3 :> Null,
     mm_dynFunctions |-> n1 :> Null @@ n2 :> Null @@ n3 :> <<fB>>,
     mm_writer |-> Writers(<<n1, fA>> :> <<w1>> @@ <<n2, NoFunction>> :> <<w2>>
                           @@ <<n3, fB>> :> <<w2>>),
     Used |-> {}, MaxMessages |-> Messages(1, 2, 1)]

\* Three readers, two of them of one name, and one writer, which all of them feed
\* through its buffer: one thread can be in the buffer, one wait for it with the
\* mutex of its key locked, and one wait for that mutex.
ThreeReaders ==
    [readerName |-> Names(n1, n1, n2), dynamic |-> {},
     mm_functions |-> Table(<<fA>>, <<fB>>),
     mm_dynFunctions |-> Table(<<>>, <<>>),
     mm_writer |-> Writers(<<n1, fA>> :> <<w2>> @@ <<n2, fB>> :> <<w2>>),
     Used |-> {<<n1, fA>>, <<n2, fB>>}, MaxMessages |-> Messages(1, 1, 1)]

MCBridges ==
    {OneName, TwoNames, OneDynamicName, BothKinds, FirstLookUp,
     NoTransformation, OtherKind, ThreeReaders}
MCColdStart == {ColdStart}
===============================================================================
