--------------------------------- MODULE Codec ---------------------------------
(***************************************************************************)
(* The generated types of the examples and what they do to a               *)
(* SerializedPayload_t (the .cxx files of the types under examples/), with *)
(* the copying of GenericPubSubType.                                       *)
(*                                                                         *)
(* A sample is the tuple of its members.  A string is its length: which    *)
(* characters it has makes no difference to where things are in a payload. *)
(* A payload is its capacity, its length, the sample last written into it, *)
(* and which members of that sample are in its bytes: all of them after a  *)
(* serialization that succeeded, those before the one that did not fit     *)
(* after one that failed.                                                  *)
(***************************************************************************)
EXTENDS Naturals, Sequences

\* The classes.  A Text is a message, a HelloWorld an index and a message, a
\* sample an index and a key, a ShapeType a color, a position and a size.
Octet == 0..255
Text == [1..1 -> Nat]
HelloWorld == [1..2 -> Nat]
sample == [1..2 -> Octet]
ShapeType == [1..4 -> Nat]

Types == {"Text", "HelloWorld", "sample", "ShapeType"}

Samples(T) == CASE T = "Text" -> Text
                [] T = "HelloWorld" -> HelloWorld
                [] T = "sample" -> sample
                [] T = "ShapeType" -> ShapeType

-------------------------------------------------------------------------------
(* Fast CDR: where the next member ends, if the one before it ends at pos.   *)

alignment(pos, size) == (size - (pos % size)) % size
putOctet(pos) == pos + 1
putInt(pos) == pos + alignment(pos, 4) + 4

\* A string is its size, its characters and a terminator.
putString(pos, length) == putInt(pos) + length + 1

encapsulation == 4      \* bytes in front of every sample

-------------------------------------------------------------------------------
(* The types: where each member ends, and where the last one ends at most,   *)
(* which is reckoned with strings of 255 characters.                         *)

Text_serialize(d) == <<putString(0, d[1])>>
HelloWorld_serialize(d) == <<putInt(0), putString(putInt(0), d[2])>>
sample_serialize(d) == <<putOctet(0), putOctet(putOctet(0))>>
ShapeType_serialize(d) ==
    LET color == putString(0, d[1])
        x == putInt(color)
        y == putInt(x)
    IN  <<color, x, y, putInt(y)>>

ends(T, d) ==
    CASE T = "Text"       -> Text_serialize(d)
      [] T = "HelloWorld" -> HelloWorld_serialize(d)
      [] T = "sample"     -> sample_serialize(d)
      [] T = "ShapeType"  -> ShapeType_serialize(d)

\* The PubSubType classes, apart from the methods below that they all have.
TextPubSubType ==
    [m_typeSize |-> encapsulation + putString(0, 255),
     m_isGetKeyDefined |-> FALSE]

HelloWorldPubSubType ==
    [m_typeSize |-> encapsulation + putString(putInt(0), 255),
     m_isGetKeyDefined |-> FALSE]

samplePubSubType ==
    [m_typeSize |-> encapsulation + putOctet(putOctet(0)),
     m_isGetKeyDefined |-> TRUE]

ShapeTypePubSubType ==
    [m_typeSize |-> encapsulation + putInt(putInt(putInt(putString(0, 255)))),
     m_isGetKeyDefined |-> TRUE]

PubSubType(T) == CASE T = "Text" -> TextPubSubType
                   [] T = "HelloWorld" -> HelloWorldPubSubType
                   [] T = "sample" -> samplePubSubType
                   [] T = "ShapeType" -> ShapeTypePubSubType

-------------------------------------------------------------------------------
(* Payloads *)

NewPayload(size) == [max_size |-> size, length |-> 0, sample |-> <<>>, members |-> {}]

\* SerializedPayload_t::reserve never gives memory back.
reserve(p, size) == [p EXCEPT !.max_size = IF size > @ THEN size ELSE @]

\* GenericPubSubType: SerializedPayload_t::copy without a limit.
copy(p, from) == [from EXCEPT !.max_size = reserve(p, from.length).max_size]

getSerializedSizeProvider(T, d) == encapsulation + ends(T, d)[Len(ends(T, d))]

\* What has been received from a publisher: a whole sample.
Received(T, d) ==
    [max_size |-> getSerializedSizeProvider(T, d), length |-> getSerializedSizeProvider(T, d),
     sample |-> d, members |-> DOMAIN d]

Fits(T, d, p) == {i \in DOMAIN d : encapsulation + ends(T, d)[i] <= p.max_size}

\* Seeded bug for serialize: the length of the last sample that fitted stays.
serializeOver(T, d, p) == [p EXCEPT !.sample = d, !.members = Fits(T, d, p)]

\* PubSubType::serialize.  When a member does not fit, the length stays what it
\* was and the answer is false.
serialize(T, d, p) ==
    [p EXCEPT !.sample = d,
              !.members = Fits(T, d, p),
              !.length = IF Fits(T, d, p) = DOMAIN d
                         THEN getSerializedSizeProvider(T, d) ELSE @]

\* The encapsulation is read outside of the try block, so that a payload that does
\* not have one is an exception that nothing catches.
DeserializeThrows(p) == p.length < encapsulation

\* PubSubType::deserialize: members that the payload ends before, or whose bytes
\* are of another sample, keep the value they have in the object.
deserialize(T, p, object) ==
    [i \in DOMAIN object |->
        IF i \in p.members /\ encapsulation + ends(T, p.sample)[i] <= p.length
        THEN p.sample[i] ELSE object[i]]

\* PubSubType::createData; all constructors set numbers to 0 and strings empty.
createData(T) == [i \in 1..(CASE T = "Text" -> 1 [] T = "HelloWorld" -> 2
                              [] T = "sample" -> 2 [] T = "ShapeType" -> 4) |-> 0]

\* Every member can be read.
Readable(T, p) ==
    \A i \in DOMAIN createData(T) :
        i \in p.members /\ encapsulation + ends(T, p.sample)[i] <= p.length

\* PubSubType::getKey writes the key into a buffer that has room for 255
\* characters, without a try block.
GetKeyThrows(T, d) == T = "ShapeType" /\ putString(0, d[1]) > putString(0, 255)
===============================================================================
