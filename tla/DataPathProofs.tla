---------------------------- MODULE DataPathProofs -----------------------------
(* A sample leaves every writer of its route as what it is meant to be,        *)
(* whatever came before it, and the files have the lines they should have, for *)
(* every route and every sample.                                               *)
EXTENDS DataPath, Integers, FiniteSetTheorems, SequenceTheorems,
        WellFoundedInduction, TLAPS

-------------------------------------------------------------------------------
(* Natural numbers *)

Less == {pair \in Nat \X Nat : pair[1] < pair[2]}

LEMMA LessWellFounded == IsWellFoundedOn(Less, Nat)
<1>1. OpToRel(<, Nat) = Less
    BY Zenon DEF OpToRel, Less
<1>2. IsWellFoundedOn(OpToRel(<, Nat), Nat)
    BY NatLessThanWellFounded, Zenon
<1> QED
    BY <1>1, <1>2, Zenon

LEMMA LeastNumber ==
    ASSUME NEW S, S \subseteq Nat, S # {}
    PROVE  \E x \in S : \A y \in S : x <= y
<1>1. PICK x \in S : \A y \in S : ~ (<<y, x>> \in Less)
    BY LessWellFounded, WFMin, Zenon
<1>2. \A y \in S : ~ (y < x)
    BY <1>1 DEF Less
<1> QED
    BY <1>2

-------------------------------------------------------------------------------
(* Fast CDR *)

LEMMA PutInt ==
    ASSUME NEW pos \in Nat
    PROVE  putInt(pos) \in Nat /\ pos + 4 <= putInt(pos)
BY DEF putInt, alignment

LEMMA PutIntMonotonic ==
    ASSUME NEW pos \in Nat, NEW end \in Nat, pos <= end
    PROVE  putInt(pos) <= putInt(end)
BY DEF putInt, alignment

LEMMA PutIntFirst == putInt(0) = 4
BY DEF putInt, alignment

LEMMA PutString ==
    ASSUME NEW pos \in Nat, NEW length \in Nat
    PROVE  putString(pos, length) \in Nat /\ putInt(pos) < putString(pos, length)
BY PutInt DEF putString

LEMMA SampleDomains ==
    ASSUME NEW T \in Types, NEW d \in Samples(T)
    PROVE  DOMAIN d = DOMAIN createData(T)
<1>1. CASE T = "Text"
    BY <1>1 DEF Samples, createData, Text
<1>2. CASE T = "HelloWorld"
    BY <1>2 DEF Samples, createData, HelloWorld
<1>3. CASE T = "sample"
    BY <1>3 DEF Samples, createData, sample, Octet
<1>4. CASE T = "ShapeType"
    BY <1>4 DEF Samples, createData, ShapeType
<1> QED
    BY <1>1, <1>2, <1>3, <1>4 DEF Types

LEMMA CreateData ==
    ASSUME NEW T \in Types
    PROVE  createData(T) \in Samples(T)
<1>1. CASE T = "Text"
    BY <1>1 DEF Samples, createData, Text
<1>2. CASE T = "HelloWorld"
    BY <1>2 DEF Samples, createData, HelloWorld
<1>3. CASE T = "sample"
    BY <1>3 DEF Samples, createData, sample, Octet
<1>4. CASE T = "ShapeType"
    BY <1>4 DEF Samples, createData, ShapeType
<1> QED
    BY <1>1, <1>2, <1>3, <1>4 DEF Types

\* The last member of a sample ends last.
LEMMA Ends ==
    ASSUME NEW T \in Types, NEW d \in Samples(T)
    PROVE  /\ Len(ends(T, d)) \in Nat
           /\ ends(T, d)[Len(ends(T, d))] \in Nat
           /\ \A i \in DOMAIN d :
                ends(T, d)[i] \in Nat /\ ends(T, d)[i] <= ends(T, d)[Len(ends(T, d))]
<1>1. CASE T = "Text"
    <2>1. putString(0, d[1]) \in Nat /\ DOMAIN d = 1..1
        BY <1>1, PutString DEF Samples, Text
    <2> QED
        BY <1>1, <2>1 DEF ends, Text_serialize
<1>2. CASE T = "HelloWorld"
    <2>1. /\ putString(4, d[2]) \in Nat /\ DOMAIN d = 1..2
          /\ putInt(4) < putString(4, d[2]) /\ putInt(4) \in Nat /\ 8 <= putInt(4)
        BY <1>2, PutString, PutInt DEF Samples, HelloWorld
    <2>2. ends(T, d) = <<4, putString(4, d[2])>>
        BY <1>2, PutIntFirst DEF ends, HelloWorld_serialize
    <2> QED
        BY <2>1, <2>2
<1>3. CASE T = "sample"
    BY <1>3 DEF Samples, sample, ends, sample_serialize, putOctet
<1>4. CASE T = "ShapeType"
    <2> DEFINE c == putString(0, d[1])
               x == putInt(c)
               y == putInt(x)
               s == putInt(y)
    <2>1. c \in Nat /\ DOMAIN d = 1..4
        BY <1>4, PutString DEF Samples, ShapeType
    <2>2. ends(T, d) = <<c, x, y, s>>
        BY <1>4 DEF ends, ShapeType_serialize
    <2>3. x \in Nat /\ c <= x
        BY <2>1, PutInt
    <2>4. y \in Nat /\ x <= y
        BY <2>3, PutInt
    <2>5. s \in Nat /\ y <= s
        BY <2>4, PutInt
    <2> HIDE DEF c, x, y, s
    <2> QED
        BY <2>1, <2>2, <2>3, <2>4, <2>5
<1> QED
    BY <1>1, <1>2, <1>3, <1>4 DEF Types

LEMMA SerializedSize ==
    ASSUME NEW T \in Types, NEW d \in Samples(T)
    PROVE  /\ getSerializedSizeProvider(T, d) \in Nat
           /\ encapsulation <= getSerializedSizeProvider(T, d)
           /\ \A i \in DOMAIN d :
                encapsulation + ends(T, d)[i] <= getSerializedSizeProvider(T, d)
BY Ends DEF getSerializedSizeProvider, encapsulation

LEMMA TypeSizeIsNumber ==
    ASSUME NEW T \in Types
    PROVE  PubSubType(T).m_typeSize \in Nat
<1>1. putString(0, 255) \in Nat /\ putString(putInt(0), 255) \in Nat
    BY PutInt, PutIntFirst DEF putString
<1>2. putInt(putInt(putInt(putString(0, 255)))) \in Nat
    BY <1>1, PutInt
<1> QED
    BY <1>1, <1>2 DEF Types, PubSubType, TextPubSubType, HelloWorldPubSubType,
        samplePubSubType, ShapeTypePubSubType, putOctet, encapsulation

\* The size that a class reckons with is enough for strings of 255 characters.
LEMMA TypeSize ==
    ASSUME NEW T \in Types, NEW d \in Samples(T), String(T, d) <= 255
    PROVE  /\ PubSubType(T).m_typeSize \in Nat
           /\ getSerializedSizeProvider(T, d) <= PubSubType(T).m_typeSize
<1>1. CASE T = "Text"
    BY <1>1, PutIntFirst DEF Samples, Text, String, getSerializedSizeProvider, PubSubType,
            TextPubSubType, ends, Text_serialize, putString, encapsulation
<1>2. CASE T = "HelloWorld"
    <2>1. putInt(4) \in Nat /\ d[2] \in Nat /\ d[2] <= 255
        BY <1>2, PutInt DEF Samples, HelloWorld, String
    <2> QED
        BY <1>2, <2>1, PutIntFirst DEF getSerializedSizeProvider, PubSubType,
            HelloWorldPubSubType, ends, HelloWorld_serialize, putString, encapsulation
<1>3. CASE T = "sample"
    BY <1>3 DEF getSerializedSizeProvider, PubSubType, samplePubSubType, ends,
            sample_serialize, putOctet, encapsulation
<1>4. CASE T = "ShapeType"
    <2>1. d[1] \in Nat /\ d[1] <= 255
        BY <1>4 DEF Samples, ShapeType, String
    <2> DEFINE c == putString(0, d[1])
               m == putString(0, 255)
    <2>2. c \in Nat /\ m \in Nat /\ c <= m
        BY <2>1, PutIntFirst DEF putString
    <2> HIDE DEF c, m
    <2>3. putInt(c) \in Nat /\ putInt(m) \in Nat /\ putInt(c) <= putInt(m)
        BY <2>2, PutInt, PutIntMonotonic
    <2>4. /\ putInt(putInt(c)) \in Nat /\ putInt(putInt(m)) \in Nat
          /\ putInt(putInt(c)) <= putInt(putInt(m))
        BY <2>3, PutInt, PutIntMonotonic
    <2>5. /\ putInt(putInt(putInt(c))) \in Nat /\ putInt(putInt(putInt(m))) \in Nat
          /\ putInt(putInt(putInt(c))) <= putInt(putInt(putInt(m)))
        BY <2>4, PutInt, PutIntMonotonic
    <2>6. /\ getSerializedSizeProvider(T, d) = 4 + putInt(putInt(putInt(c)))
          /\ PubSubType(T).m_typeSize = 4 + putInt(putInt(putInt(m)))
        BY <1>4 DEF getSerializedSizeProvider, PubSubType, ShapeTypePubSubType, ends,
            ShapeType_serialize, encapsulation, c, m
    <2> QED
        BY <2>5, <2>6
<1> QED
    BY <1>1, <1>2, <1>3, <1>4 DEF Types

-------------------------------------------------------------------------------
(* Payloads *)

\* A payload that samples of one type have been written into, if any.
PayloadOf(T, p) ==
    /\ p \in [max_size : Nat, length : Nat, sample : Samples(T) \cup {<<>>},
              members : SUBSET Nat]
    /\ p.members \subseteq DOMAIN p.sample

\* All of sample d is in the payload, and nothing else.
Whole(T, d, p) ==
    /\ p.sample = d /\ p.members = DOMAIN d
    /\ p.length = getSerializedSizeProvider(T, d)

LEMMA EmptyPayload ==
    ASSUME NEW T \in Types, NEW size \in Nat
    PROVE  PayloadOf(T, NewPayload(size)) /\ NewPayload(size).max_size = size
BY DEF PayloadOf, NewPayload

LEMMA ReservedPayload ==
    ASSUME NEW T \in Types, NEW p, PayloadOf(T, p), NEW size \in Nat
    PROVE  /\ PayloadOf(T, reserve(p, size))
           /\ size <= reserve(p, size).max_size
BY DEF PayloadOf, reserve

\* A payload that a sample is serialized into has the whole of it, given room.
LEMMA SerializedPayload ==
    ASSUME NEW T \in Types, NEW d \in Samples(T), NEW p, PayloadOf(T, p)
    PROVE  /\ PayloadOf(T, serialize(T, d, p))
           /\ serialize(T, d, p).max_size = p.max_size
           /\ getSerializedSizeProvider(T, d) <= p.max_size => Whole(T, d, serialize(T, d, p))
<1> DEFINE size == getSerializedSizeProvider(T, d)
<1>1. size \in Nat
    BY SerializedSize
<1>2. DOMAIN d \subseteq Nat
    BY SampleDomains DEF createData, Types
<1>3. Fits(T, d, p) \subseteq DOMAIN d
    BY DEF Fits
<1>4. size <= p.max_size => Fits(T, d, p) = DOMAIN d
    <2> SUFFICES ASSUME size <= p.max_size, NEW i \in DOMAIN d
                 PROVE  encapsulation + ends(T, d)[i] <= p.max_size
        BY DEF Fits
    <2>1. encapsulation + ends(T, d)[i] <= size
        BY SerializedSize
    <2>2. encapsulation + ends(T, d)[i] \in Nat
        BY Ends DEF encapsulation
    <2> QED
        BY <1>1, <2>1, <2>2 DEF PayloadOf
<1> HIDE DEF size
<1> QED
    BY <1>1, <1>2, <1>3, <1>4 DEF PayloadOf, serialize, Whole, size

LEMMA CopiedPayload ==
    ASSUME NEW T \in Types, NEW d \in Samples(T), NEW p, PayloadOf(T, p)
    PROVE  PayloadOf(T, copy(p, Received(T, d))) /\ Whole(T, d, copy(p, Received(T, d)))
<1>1. getSerializedSizeProvider(T, d) \in Nat
    BY SerializedSize
<1>2. DOMAIN d \subseteq Nat
    BY SampleDomains DEF createData, Types
<1> QED
    BY <1>1, <1>2 DEF PayloadOf, Whole, copy, reserve, Received

\* What is read from a payload of the type is of the type.
LEMMA DeserializedType ==
    ASSUME NEW T \in Types, NEW p, PayloadOf(T, p), NEW object \in Samples(T)
    PROVE  deserialize(T, p, object) \in Samples(T)
<1>1. CASE T = "Text"
    BY <1>1 DEF PayloadOf, deserialize, Samples, Text
<1>2. CASE T = "HelloWorld"
    BY <1>2 DEF PayloadOf, deserialize, Samples, HelloWorld
<1>3. CASE T = "sample"
    BY <1>3 DEF PayloadOf, deserialize, Samples, sample
<1>4. CASE T = "ShapeType"
    BY <1>4 DEF PayloadOf, deserialize, Samples, ShapeType
<1> QED
    BY <1>1, <1>2, <1>3, <1>4 DEF Types

\* A whole sample is read back whatever the object it is read into held before.
LEMMA ReadBack ==
    ASSUME NEW T \in Types, NEW d \in Samples(T), NEW p, Whole(T, d, p)
    PROVE  /\ \A object \in Samples(T) : deserialize(T, p, object) = d
           /\ Readable(T, p)
           /\ ~DeserializeThrows(p)
<1>1. /\ getSerializedSizeProvider(T, d) \in Nat
      /\ encapsulation <= getSerializedSizeProvider(T, d)
      /\ \A i \in DOMAIN d :
            encapsulation + ends(T, d)[i] <= getSerializedSizeProvider(T, d)
    BY SerializedSize
<1>2. ASSUME NEW object \in Samples(T) PROVE deserialize(T, p, object) = d
    <2>1. DOMAIN object = DOMAIN d
        BY SampleDomains
    <2>2. d = [i \in DOMAIN d |-> d[i]]
        BY DEF Samples, Types, Text, HelloWorld, sample, ShapeType
    <2> QED
        BY <1>1, <2>1, <2>2 DEF deserialize, Whole
<1>3. Readable(T, p)
    BY <1>1, SampleDomains DEF Readable, Whole
<1>4. ~DeserializeThrows(p)
    BY <1>1 DEF DeserializeThrows, Whole, encapsulation
<1> QED
    BY <1>2, <1>3, <1>4

-------------------------------------------------------------------------------
(* Routes and transformations *)

\* The type that the writers of payloads have.
OutputType == IF config.function = "none" THEN config.type ELSE OutputOf[config.function]

LEMMA RouteShape ==
    ASSUME config \in Configurations
    PROVE  /\ config.kind \in Kind /\ config.type \in Types /\ config.function \in Function
           /\ Inputs[config.type] \subseteq Samples(config.type)
           /\ OutputType \in Types
           /\ config.function # "none" => /\ config.type = InputOf[config.function]
                                          /\ OutputType = OutputOf[config.function]
           /\ Len(config.writers) \in Nat /\ W = 1..Len(config.writers)
           /\ \A w \in W : /\ config.writers[w].kind \in Kind \cup {"file"}
                           /\ config.writers[w].type \in Types
                           /\ w \in Has("file") => config.writers[w].type = "HelloWorld"
                           /\ config.kind # "dynamic" => config.writers[w].type = OutputType
<1>1. /\ config.kind \in Kind /\ config.type \in Types /\ config.function \in Function
      /\ config.writers \in Seq(Writer)
      /\ config.function # "none" => config.type = InputOf[config.function]
      /\ config.kind # "dynamic" =>
            \A i \in DOMAIN config.writers : config.writers[i].type = OutputType
    BY DataPathAssumption DEF OutputType
<1>2. Inputs[config.type] \subseteq Samples(config.type)
    BY <1>1, DataPathAssumption
<1>3. OutputType \in Types
    BY <1>1 DEF OutputType, Function, OutputOf, Types
<1>4. /\ Len(config.writers) \in Nat /\ W = 1..Len(config.writers)
      /\ \A w \in W : config.writers[w] \in Writer
    BY <1>1 DEF W
<1>5. \A x \in Writer : /\ x.kind \in Kind \cup {"file"} /\ x.type \in Types
                        /\ x.kind = "file" => x.type = "HelloWorld"
    BY DEF Writer, Kind, Types
<1>6. \A w \in W : /\ config.writers[w].kind \in Kind \cup {"file"}
                   /\ config.writers[w].type \in Types
                   /\ w \in Has("file") => config.writers[w].type = "HelloWorld"
    BY <1>4, <1>5 DEF Has
<1>7. config.kind # "dynamic" => \A w \in W : config.writers[w].type = OutputType
    BY <1>1 DEF W
<1>8. config.function # "none" => OutputType = OutputOf[config.function]
    BY DEF OutputType
<1>9. \A w \in W : /\ config.writers[w].kind \in Kind \cup {"file"}
                   /\ config.writers[w].type \in Types
                   /\ w \in Has("file") => config.writers[w].type = "HelloWorld"
                   /\ config.kind # "dynamic" => config.writers[w].type = OutputType
    BY <1>6, <1>7
<1>10. config.kind \in Kind /\ config.type \in Types /\ config.function \in Function
    BY <1>1
<1>11. config.function # "none" => /\ config.type = InputOf[config.function]
                                   /\ OutputType = OutputOf[config.function]
    BY <1>1, <1>8
<1>12. Len(config.writers) \in Nat /\ W = 1..Len(config.writers)
    BY <1>4
<1> QED
    BY <1>2, <1>3, <1>9, <1>10, <1>11, <1>12

\* A transformation makes its output type from its input type; octets stay octets.
LEMMA TransformedType ==
    ASSUME NEW f \in Function \ {"none"}, NEW d \in Samples(InputOf[f])
    PROVE  /\ OutputOf[f] \in Types /\ InputOf[f] \in Types
           /\ Transformed(f, d) \in Samples(OutputOf[f])
<1>1. CASE f = "KeyToHelloWorld"
    <2>1. d[1] \in Nat
        BY <1>1 DEF InputOf, Samples, sample, Octet
    <2> QED
        BY <1>1, <2>1 DEF InputOf, OutputOf, Samples, HelloWorld, Types, Transformed,
            KeyToHelloWorld
<1>2. CASE f = "HelloWorldToKey"
    <2>1. d[1] \in Nat
        BY <1>2 DEF InputOf, Samples, HelloWorld
    <2>2. d[1] % 256 \in Octet
        BY <2>1 DEF Octet
    <2> QED
        BY <1>2, <2>2 DEF InputOf, OutputOf, Samples, sample, Types, Transformed,
            HelloWorldToKey
<1> QED
    BY <1>1, <1>2 DEF Function

\* A transformed payload is the whole of what the function makes of its input,
\* whatever the output held before.
LEMMA TransformedPayload ==
    ASSUME NEW f \in Function \ {"none"},
           NEW p, PayloadOf(InputOf[f], p), NEW o, PayloadOf(OutputOf[f], o)
    PROVE  /\ Input(f, p) \in Samples(InputOf[f])
           /\ PayloadOf(OutputOf[f], Transform(f, p, o))
           /\ Whole(OutputOf[f], Transformed(f, Input(f, p)), Transform(f, p, o))
<1>1. InputOf[f] \in Types /\ OutputOf[f] \in Types
    BY DEF Function, InputOf, OutputOf, Types
<1>2. Input(f, p) \in Samples(InputOf[f])
    BY <1>1, CreateData, DeserializedType DEF Input
<1> DEFINE out == Transformed(f, Input(f, p))
           size == getSerializedSizeProvider(OutputOf[f], out)
           q == reserve(o, size)
<1>3. out \in Samples(OutputOf[f])
    BY <1>2, TransformedType
<1>4. size \in Nat
    BY <1>1, <1>3, SerializedSize
<1>5. PayloadOf(OutputOf[f], q) /\ size <= q.max_size
    BY <1>1, <1>4, ReservedPayload
<1>6. Transform(f, p, o) = serialize(OutputOf[f], out, q)
    BY DEF Transform
<1> HIDE DEF out, q
<1>7. /\ PayloadOf(OutputOf[f], serialize(OutputOf[f], out, q))
      /\ Whole(OutputOf[f], out, serialize(OutputOf[f], out, q))
    BY <1>1, <1>3, <1>5, SerializedPayload
<1> QED
    BY <1>2, <1>6, <1>7 DEF out

\* The output for dynamic data: of the type of the first dynamic writer, with the
\* message never set.
OutputOK(o) ==
    /\ o = [type |-> NewOutput.type, data |-> o.data]
    /\ o.data \in Samples(o.type)
    /\ config.function = "KeyToHelloWorld" /\ o.type = "HelloWorld" => o.data[2] = 0

LEMMA FirstDynamic ==
    ASSUME config \in Configurations, Has("dynamic") # {}
    PROVE  \E w \in Has("dynamic") :
                NewOutput = [type |-> config.writers[w].type,
                             data |-> createData(config.writers[w].type)]
<1> DEFINE first == CHOOSE w \in Has("dynamic") : \A v \in Has("dynamic") : w <= v
<1>1. Has("dynamic") \subseteq Nat
    BY RouteShape DEF Has
<1>2. \E m \in Has("dynamic") : \A v \in Has("dynamic") : m <= v
    BY <1>1, LeastNumber
<1>3. first \in Has("dynamic")
    BY <1>2
<1> HIDE DEF first
<1> QED
    BY <1>3 DEF NewOutput, first

LEMMA FirstOutput ==
    ASSUME config \in Configurations, Has("dynamic") # {}
    PROVE  NewOutput.type \in Types /\ OutputOK(NewOutput)
<1>1. PICK first \in Has("dynamic") :
            NewOutput = [type |-> config.writers[first].type,
                         data |-> createData(config.writers[first].type)]
    BY FirstDynamic
<1>2. config.writers[first].type \in Types
    BY <1>1, RouteShape DEF Has
<1>3. createData("HelloWorld")[2] = 0
    BY DEF createData
<1>4. createData(config.writers[first].type) \in Samples(config.writers[first].type)
    BY <1>2, CreateData
<1> QED
    BY <1>1, <1>2, <1>3, <1>4 DEF OutputOK

LEMMA DynamicOutput ==
    ASSUME config \in Configurations, config.function # "none", NEW o, OutputOK(o),
           NewOutput.type \in Types, NEW d \in Samples(config.type)
    PROVE  /\ OutputOK(TransformDynamic(config.function, d, o))
           /\ o.type = OutputType =>
                TransformDynamic(config.function, d, o).data =
                    IF config.function = "KeyToHelloWorld" THEN <<d[1], 0>>
                    ELSE HelloWorldToKey(d)
<1> DEFINE f == config.function
           n == TransformDynamic(f, d, o)
<1>1. f \in Function \ {"none"} /\ d \in Samples(InputOf[f]) /\ OutputType = OutputOf[f]
    BY RouteShape
<1>2. /\ n = [type |-> o.type, data |-> n.data]
      /\ o.type = NewOutput.type
    BY DEF TransformDynamic, OutputOK
<1>3. CASE o.type # OutputOf[f]
    <2>1. n = o
        BY <1>3 DEF TransformDynamic, OutputOK
    <2> QED
        BY <1>1, <1>3, <2>1
<1>4. CASE o.type = OutputOf[f] /\ f = "KeyToHelloWorld"
    <2>1. d[1] \in Nat
        BY <1>1, <1>4 DEF InputOf, Samples, sample, Octet
    <2>2. o.data \in HelloWorld /\ o.data[2] = 0 /\ o.type = "HelloWorld"
        BY <1>4 DEF OutputOK, OutputOf, Samples
    <2>3. n.data = [o.data EXCEPT ![1] = d[1]]
        BY <1>4 DEF TransformDynamic, OutputOK
    <2>4. n.data = <<d[1], 0>>
        BY <2>1, <2>2, <2>3 DEF HelloWorld
    <2>5. n.data \in Samples(o.type) /\ n.data[2] = 0
        BY <2>1, <2>2, <2>4 DEF HelloWorld, Samples
    <2> QED
        BY <1>2, <1>4, <2>4, <2>5 DEF OutputOK
<1>5. CASE o.type = OutputOf[f] /\ f = "HelloWorldToKey"
    <2>1. HelloWorldToKey(d) \in Samples(OutputOf[f])
        BY <1>1, <1>5, TransformedType DEF Transformed
    <2>2. n.data = HelloWorldToKey(d)
        BY <1>5 DEF TransformDynamic, OutputOK
    <2> QED
        BY <1>2, <1>5, <2>1, <2>2 DEF OutputOK
<1> QED
    BY <1>1, <1>3, <1>4, <1>5 DEF Function

-------------------------------------------------------------------------------
(* Writing *)

BuffersOK == \A w \in W : buffers[w] = Null \/ buffers[w] \in Samples(config.writers[w].type)

PublishedOK ==
    \A w \in W : published[w] # Null =>
        published[w].data = Null \/ published[w].data \in Samples(published[w].type)

FilesOK == files \in [FileName -> Seq(HelloWorld)]

LEMMA WritersFinite ==
    ASSUME config \in Configurations, NEW f
    PROVE  /\ IsFiniteSet(WritersOf(f))
           /\ WritersOf(f) \subseteq Has("file") /\ Has("file") \subseteq W
<1>1. IsFiniteSet(W)
    BY RouteShape, FS_Interval
<1>2. WritersOf(f) \subseteq Has("file") /\ Has("file") \subseteq W
    BY DEF WritersOf, Has
<1> QED
    BY <1>1, <1>2, FS_Subset

LEMMA DeserializedByWriter ==
    ASSUME config \in Configurations, BuffersOK, NEW T \in Types, NEW p, PayloadOf(T, p),
           NEW w \in W, config.writers[w].type = T
    PROVE  deserialized(w, p) \in Samples(T)
<1>1. createData(T) \in Samples(T)
    BY CreateData
<1>2. Or(buffers[w], createData(T)) \in Samples(T)
    BY <1>1 DEF BuffersOK, Or
<1> QED
    BY <1>1, <1>2, DeserializedType DEF deserialized

\* Writers of the type of a payload leave their buffers and what they publish typed.
LEMMA WriteTypes ==
    ASSUME config \in Configurations, BuffersOK, FilesOK, NEW p, PayloadOf(OutputType, p),
           config.kind # "dynamic", writePayload(p)
    PROVE  /\ \A w \in W :
                /\ buffers'[w] = Null \/ buffers'[w] \in Samples(config.writers[w].type)
                /\ published'[w] # Null =>
                        \/ published'[w].data = Null
                        \/ published'[w].data \in Samples(published'[w].type)
           /\ files' \in [FileName -> Seq(HelloWorld)]
           /\ crashed' \in BOOLEAN
<1> DEFINE T == OutputType
           done == {w \in W : \A v \in 1..w : ~Throws(v, p)}
           lines(f) == [i \in 1..Cardinality(WritersOf(f) \cap done) |->
                            written(CHOOSE w \in WritersOf(f) : TRUE, p).data]
<1>1. T \in Types /\ \A w \in W : config.writers[w].type = T
    BY RouteShape
<1>2. ASSUME NEW w \in W
      PROVE  deserialized(w, p) \in Samples(T)
    BY <1>1, DeserializedByWriter
<1>3. ASSUME NEW w \in W
      PROVE  /\ written(w, p).type = T
             /\ written(w, p).data = Null \/ written(w, p).data \in Samples(T)
             /\ w \notin Has("generic") => written(w, p).data \in Samples(T)
    <2>1. Readable(T, p) => p.sample \in Samples(T)
        <3>1. 1 \in DOMAIN createData(T)
            BY <1>1 DEF createData, Types
        <3>2. Readable(T, p) => p.sample # <<>>
            BY <3>1 DEF Readable, PayloadOf
        <3> QED
            BY <3>2 DEF PayloadOf
    <2> QED
        BY <1>1, <1>2, <2>1 DEF written
<1>4. \A w \in W :
        /\ buffers'[w] = Null \/ buffers'[w] \in Samples(config.writers[w].type)
        /\ published'[w] # Null =>
                \/ published'[w].data = Null
                \/ published'[w].data \in Samples(published'[w].type)
    <2> SUFFICES ASSUME NEW w \in W
                 PROVE  /\ buffers'[w] = Null \/ buffers'[w] \in Samples(T)
                        /\ published'[w] # Null =>
                                \/ published'[w].data = Null
                                \/ published'[w].data \in Samples(published'[w].type)
        BY <1>1
    <2>1. published'[w] = IF w \in done THEN written(w, p) ELSE Null
        BY DEF writePayload
    <2>2. buffers'[w] = IF w \in done \ (Has("generic") \cup Has("file"))
                        THEN deserialized(w, p) ELSE buffers[w]
        BY DEF writePayload
    <2> HIDE DEF done, T
    <2>3. published'[w] # Null => published'[w] = written(w, p)
        BY <2>1
    <2>4. buffers'[w] = Null \/ buffers'[w] \in Samples(T)
        BY <1>1, <1>2, <2>2 DEF BuffersOK
    <2> QED
        BY <1>3, <2>3, <2>4
<1>5. ASSUME NEW f \in FileName
      PROVE  files'[f] \in Seq(HelloWorld)
    <2>1. files'[f] = files[f] \o lines(f)
        BY DEF writePayload
    <2>2. IsFiniteSet(WritersOf(f) \cap done) /\ WritersOf(f) \cap done \subseteq WritersOf(f)
        BY WritersFinite, FS_Subset
    <2>3. Cardinality(WritersOf(f) \cap done) \in Nat
        BY <2>2, FS_CardinalityType
    <2>4. ASSUME Cardinality(WritersOf(f) \cap done) # 0
          PROVE  written(CHOOSE w \in WritersOf(f) : TRUE, p).data \in HelloWorld
        <3>1. WritersOf(f) # {}
            BY <2>2, <2>4, FS_EmptySet
        <3> DEFINE w == CHOOSE v \in WritersOf(f) : TRUE
        <3>2. w \in Has("file") /\ w \in W
            BY <3>1, WritersFinite
        <3>3. config.writers[w].type = "HelloWorld" /\ w \notin Has("generic")
            BY <3>2, RouteShape DEF Has
        <3> HIDE DEF w
        <3>4. written(w, p).data \in Samples("HelloWorld")
            BY <1>1, <1>3, <3>2, <3>3
        <3> QED
            BY <3>4 DEF Samples, w
    <2> DEFINE n == Cardinality(WritersOf(f) \cap done)
               e == written(CHOOSE w \in WritersOf(f) : TRUE, p).data
    <2>5. lines(f) = [i \in 1..n |-> e]
        OBVIOUS
    <2>6. n \in Nat /\ (n # 0 => e \in HelloWorld)
        BY <2>3, <2>4
    <2> HIDE DEF n, e
    <2>7. [i \in 1..n |-> e] \in Seq(HelloWorld)
        BY <2>6
    <2>8. lines(f) \in Seq(HelloWorld) /\ files[f] \in Seq(HelloWorld)
        BY <2>5, <2>7 DEF FilesOK
    <2> HIDE DEF lines
    <2> QED
        BY <2>1, <2>8
<1>6. files' \in [FileName -> Seq(HelloWorld)]
    BY <1>5 DEF writePayload
<1>7. crashed' \in BOOLEAN
    BY DEF writePayload
<1> QED
    BY <1>4, <1>6, <1>7

\* A whole sample is written by every writer of its type, unless its key is too long
\* for one that reckons it.
LEMMA WriteWhole ==
    ASSUME config \in Configurations, BuffersOK, NEW T \in Types, NEW d \in Samples(T),
           NEW p, Whole(T, d, p), writePayload(p),
           \A w \in W : config.writers[w].type = T,
           GetKeyThrows(T, d) => Has("generic") = W
    PROVE  /\ \A w \in W : published'[w] = [type |-> T, data |-> d]
           /\ crashed' = FALSE
           /\ \A f \in FileName :
                files'[f] = files[f] \o [i \in 1..Cardinality(WritersOf(f)) |-> d]
<1>1. ~DeserializeThrows(p) /\ Readable(T, p) /\ p.sample = d
    BY ReadBack DEF Whole
<1>2. ASSUME NEW w \in W PROVE deserialized(w, p) = d
    <2>1. createData(T) \in Samples(T)
        BY CreateData
    <2>2. Or(buffers[w], createData(T)) \in Samples(T)
        BY <2>1 DEF BuffersOK, Or
    <2> QED
        BY <2>1, <2>2, ReadBack DEF deserialized
<1>3. ASSUME NEW w \in W PROVE ~Throws(w, p)
    BY <1>1, <1>2 DEF Throws
<1>4. ASSUME NEW w \in W PROVE written(w, p) = [type |-> T, data |-> d]
    BY <1>1, <1>2 DEF written
<1> DEFINE done == {w \in W : \A v \in 1..w : ~Throws(v, p)}
<1>5. done = W
    <2>1. \A w \in W : 1..w \subseteq W
        BY RouteShape
    <2> QED
        BY <1>3, <2>1
<1>6. /\ published' = [w \in W |-> IF w \in done THEN written(w, p) ELSE Null]
      /\ crashed' = (done # W)
      /\ files' = [f \in FileName |->
                files[f] \o [i \in 1..Cardinality(WritersOf(f) \cap done) |->
                                written(CHOOSE w \in WritersOf(f) : TRUE, p).data]]
    BY DEF writePayload
<1> HIDE DEF done
<1>7. \A w \in W : published'[w] = [type |-> T, data |-> d]
    BY <1>4, <1>5, <1>6
<1>8. ASSUME NEW f \in FileName
      PROVE  files'[f] = files[f] \o [i \in 1..Cardinality(WritersOf(f)) |-> d]
    <2> DEFINE e == written(CHOOSE w \in WritersOf(f) : TRUE, p).data
               n == Cardinality(WritersOf(f))
    <2>1. IsFiniteSet(WritersOf(f)) /\ WritersOf(f) \subseteq W
        BY WritersFinite
    <2>2. files'[f] = files[f] \o [i \in 1..n |-> e]
        <3>1. WritersOf(f) \cap done = WritersOf(f)
            BY <1>5, <2>1
        <3> QED
            BY <1>6, <3>1
    <2>3. WritersOf(f) # {} => e = d
        BY <1>4, <2>1
    <2>4. n \in Nat /\ (WritersOf(f) = {} => n = 0)
        BY <2>1, FS_CardinalityType, FS_EmptySet
    <2> HIDE DEF e, n
    <2>5. [i \in 1..n |-> e] = [i \in 1..n |-> d]
        BY <2>3, <2>4
    <2> QED
        BY <2>2, <2>5 DEF n
<1> QED
    BY <1>5, <1>6, <1>7, <1>8

-------------------------------------------------------------------------------
(* The invariant *)

\* The payload of a subscriber with a type of its own keeps the room it was made
\* with; one with the generic type grows.
SubscriberOK ==
    /\ m_buffer = Null \/ m_buffer \in Samples(config.type)
    /\ m_dynData = Null \/ m_dynData \in Samples(config.type)
    /\ m_payload # Null =>
            /\ PayloadOf(config.type, m_payload)
            /\ config.kind = "provided" =>
                    m_payload.max_size = PubSubType(config.type).m_typeSize

BridgeOK ==
    /\ mm_staticPayload # Null =>
            config.function # "none" /\ PayloadOf(OutputType, mm_staticPayload)
    /\ mm_dynamicData # Null => Has("dynamic") # {} /\ OutputOK(mm_dynamicData)

HistoryOK ==
    /\ received \in Seq(Samples(config.type))
    /\ earlier \in 0..Len(received)

\* What every payload, output and buffer of the path holds, whatever was last
\* written into it.
PathInv ==
    /\ config \in Configurations
    /\ execution \in 1..MaxExecutions
    /\ SubscriberOK
    /\ BridgeOK
    /\ BuffersOK
    /\ PublishedOK
    /\ FilesOK
    /\ HistoryOK
    /\ crashed \in BOOLEAN

\* What the bridge does with a payload of the subscriber's type.
LEMMA PayloadTypes ==
    ASSUME PathInv, config.kind # "dynamic", NEW p, PayloadOf(config.type, p),
           on_received_payload(p), config' = config
    PROVE  BridgeOK' /\ BuffersOK' /\ PublishedOK' /\ FilesOK' /\ crashed' \in BOOLEAN
<1>1. /\ config \in Configurations /\ BuffersOK /\ FilesOK /\ BridgeOK /\ crashed \in BOOLEAN
    BY DEF PathInv
<1>2. /\ W' = W /\ OutputType' = OutputType /\ Has("dynamic")' = Has("dynamic")
      /\ NewOutput' = NewOutput
    BY DEF W, OutputType, Has, NewOutput
<1>3. ASSUME UNCHANGED mm_dynamicData,
             \/ UNCHANGED mm_staticPayload
             \/ config.function # "none" /\ PayloadOf(OutputType, mm_staticPayload')
      PROVE  BridgeOK'
    <2>1. UNCHANGED mm_staticPayload => BridgeOK'
        BY <1>1, <1>2, <1>3 DEF BridgeOK, OutputOK
    <2>2. ASSUME config.function # "none", PayloadOf(OutputType, mm_staticPayload')
          PROVE  BridgeOK'
        <3>1. PayloadOf(OutputType', mm_staticPayload')
            BY <1>2, <2>2
        <3> QED
            BY <1>1, <1>2, <1>3, <2>2, <3>1 DEF BridgeOK, OutputOK
    <2> QED
        BY <1>3, <2>1, <2>2
<1>4. ASSUME NEW q, PayloadOf(OutputType, q), writePayload(q)
      PROVE  BuffersOK' /\ PublishedOK' /\ FilesOK' /\ crashed' \in BOOLEAN
    <2>1. /\ \A w \in W :
                /\ buffers'[w] = Null \/ buffers'[w] \in Samples(config.writers[w].type)
                /\ published'[w] # Null =>
                        \/ published'[w].data = Null
                        \/ published'[w].data \in Samples(published'[w].type)
          /\ files' \in [FileName -> Seq(HelloWorld)]
          /\ crashed' \in BOOLEAN
        BY <1>1, <1>4, WriteTypes
    <2> QED
        BY <1>2, <2>1 DEF BuffersOK, PublishedOK, FilesOK
<1>5. ASSUME published' = [w \in W |-> Null], UNCHANGED <<buffers, files>>, crashed' \in BOOLEAN
      PROVE  BuffersOK' /\ PublishedOK' /\ FilesOK' /\ crashed' \in BOOLEAN
    BY <1>1, <1>2, <1>5 DEF BuffersOK, PublishedOK, FilesOK
<1>6. CASE config.function = "none"
    <2>1. writePayload(p) /\ UNCHANGED mm_staticPayload /\ UNCHANGED mm_dynamicData
        BY <1>6 DEF on_received_payload, bridge
    <2>2. PayloadOf(OutputType, p)
        BY <1>6 DEF OutputType
    <2> QED
        BY <1>3, <1>4, <2>1, <2>2
<1>7. CASE config.function # "none" /\ (~Static \/ DeserializeThrows(p))
    <2>1. /\ UNCHANGED mm_staticPayload /\ UNCHANGED mm_dynamicData
          /\ published' = [w \in W |-> Null] /\ UNCHANGED <<buffers, files>>
          /\ crashed' = crashed \/ crashed' = TRUE
        BY <1>7 DEF on_received_payload, writeNothing, bridge
    <2> QED
        BY <1>1, <1>3, <1>5, <2>1
<1>8. CASE config.function # "none" /\ Static /\ ~DeserializeThrows(p)
    <2> DEFINE o == Or(mm_staticPayload, NewPayload(0))
    <2>1. /\ mm_staticPayload' = Transform(config.function, p, o)
          /\ writePayload(mm_staticPayload') /\ UNCHANGED mm_dynamicData
        BY <1>8 DEF on_received_payload
    <2>2. /\ config.function \in Function \ {"none"} /\ OutputType \in Types
          /\ OutputType = OutputOf[config.function] /\ config.type = InputOf[config.function]
        BY <1>1, <1>8, RouteShape
    <2>3. PayloadOf(OutputType, o)
        BY <1>1, <2>2, EmptyPayload DEF BridgeOK, Or
    <2> HIDE DEF o
    <2>4. PayloadOf(OutputType, mm_staticPayload')
        BY <2>1, <2>2, <2>3, TransformedPayload
    <2> QED
        BY <1>3, <1>4, <1>8, <2>1, <2>4
<1> QED
    BY <1>6, <1>7, <1>8

LEMMA DynamicTypes ==
    ASSUME PathInv, NEW d \in Samples(config.type),
           on_received_dynamic(d), config' = config
    PROVE  BridgeOK' /\ BuffersOK' /\ PublishedOK' /\ FilesOK' /\ crashed' \in BOOLEAN
<1>1. /\ config \in Configurations /\ BuffersOK /\ FilesOK /\ BridgeOK /\ crashed \in BOOLEAN
    BY DEF PathInv
<1>2. /\ W' = W /\ OutputType' = OutputType /\ Has("dynamic")' = Has("dynamic")
      /\ NewOutput' = NewOutput
    BY DEF W, OutputType, Has, NewOutput
<1>3. UNCHANGED <<buffers, files>> => BuffersOK' /\ FilesOK'
    BY <1>1, <1>2 DEF BuffersOK, FilesOK
<1>4. UNCHANGED bridge => BridgeOK'
    BY <1>1, <1>2 DEF BridgeOK, OutputOK, bridge
<1>5. CASE config.function = "none"
    <2>1. writeDynamic(config.type, d) /\ UNCHANGED bridge
        BY <1>5 DEF on_received_dynamic
    <2>2. UNCHANGED <<buffers, files>> /\ (crashed' = TRUE \/ UNCHANGED crashed)
        BY <2>1 DEF writeDynamic
    <2>3. ASSUME NEW w \in W, published'[w] # Null
          PROVE  published'[w].data = Null \/ published'[w].data \in Samples(published'[w].type)
        <3> DEFINE wrong == Has("generic") \cup Has("provided")
                   T == config.writers[w].type
        <3>1. config.writers[w].kind \in {"generic", "provided", "dynamic", "file"}
            BY <1>1, RouteShape DEF Kind
        <3>2. published'[w] = CASE w \in wrong -> [type |-> T, data |-> Null]
                                [] w \in Has("dynamic") -> [type |-> config.type, data |-> d]
                                [] w \in Has("file") -> Null
            BY <2>1 DEF writeDynamic
        <3>3. CASE w \in wrong
            <4>1. w \notin Has("dynamic") /\ w \notin Has("file")
                BY <3>3 DEF Has
            <4>2. published'[w] = [type |-> T, data |-> Null]
                BY <3>2, <3>3, <4>1
            <4> QED
                BY <4>2
        <3>4. CASE w \in Has("dynamic")
            <4>1. w \notin wrong /\ w \notin Has("file")
                BY <3>4 DEF Has
            <4>2. published'[w] = [type |-> config.type, data |-> d]
                BY <3>2, <3>4, <4>1
            <4> QED
                BY <4>2
        <3>5. CASE w \in Has("file")
            <4>1. w \notin wrong /\ w \notin Has("dynamic")
                BY <3>5 DEF Has
            <4> QED
                BY <2>3, <3>2, <3>5, <4>1
        <3> QED
            BY <3>1, <3>3, <3>4, <3>5 DEF Has
    <2>4. PublishedOK'
        BY <1>2, <2>3 DEF PublishedOK
    <2> QED
        BY <1>1, <1>3, <1>4, <2>1, <2>2, <2>4
<1>6. CASE config.function # "none" /\ ~Dynamic
    <2>1. writeNothing /\ UNCHANGED bridge
        BY <1>6 DEF on_received_dynamic
    <2> QED
        BY <1>1, <1>2, <1>3, <1>4, <2>1 DEF writeNothing, PublishedOK
<1>7. CASE config.function # "none" /\ Dynamic
    <2> DEFINE o == IF mm_dynamicData = Null THEN NewOutput ELSE mm_dynamicData
    <2>1. /\ mm_dynamicData' = TransformDynamic(config.function, d, o)
          /\ published' = [w \in W |-> IF w \in Has("dynamic") THEN mm_dynamicData' ELSE Null]
          /\ UNCHANGED <<mm_staticPayload, buffers, files, crashed>>
        BY <1>7 DEF on_received_dynamic
    <2>2. Has("dynamic") # {}
        BY <1>7 DEF Dynamic
    <2>3. NewOutput.type \in Types /\ OutputOK(NewOutput)
        BY <1>1, <2>2, FirstOutput
    <2>4. OutputOK(o)
        BY <1>1, <2>3 DEF BridgeOK
    <2> HIDE DEF o
    <2>5. OutputOK(mm_dynamicData')
        BY <1>1, <1>7, <2>1, <2>3, <2>4, DynamicOutput
    <2>6. BridgeOK'
        BY <1>1, <1>2, <2>1, <2>2, <2>5 DEF BridgeOK, OutputOK
    <2>7. PublishedOK'
        BY <1>2, <2>1, <2>5 DEF PublishedOK, OutputOK
    <2> QED
        BY <1>1, <1>3, <2>1, <2>6, <2>7
<1> QED
    BY <1>5, <1>6, <1>7

LEMMA HistoryGrows ==
    ASSUME PathInv, NEW d \in Samples(config.type), Receive(d)
    PROVE  HistoryOK' /\ config' = config /\ execution' = execution /\ ~crashed
BY DEF PathInv, HistoryOK, Receive

\* What a subscriber with a type of its own serializes an object into.
LEMMA ProvidedPayload ==
    ASSUME PathInv, config.kind = "provided", NEW d \in Samples(config.type)
    PROVE  LET size == PubSubType(config.type).m_typeSize
               p == serialize(config.type, d, Or(m_payload, NewPayload(size)))
           IN  /\ PayloadOf(config.type, p) /\ p.max_size = size
               /\ String(config.type, d) <= 255 => Whole(config.type, d, p)
<1> DEFINE T == config.type
           size == PubSubType(T).m_typeSize
           o == Or(m_payload, NewPayload(size))
<1>1. T \in Types
    BY RouteShape DEF PathInv
<1>2. size \in Nat
    BY <1>1, TypeSizeIsNumber
<1>3. PayloadOf(T, o) /\ o.max_size = size
    BY <1>1, <1>2, EmptyPayload DEF PathInv, SubscriberOK, Or
<1>4. String(T, d) <= 255 => getSerializedSizeProvider(T, d) <= size
    BY <1>1, TypeSize
<1> HIDE DEF T, size, o
<1>5. d \in Samples(T)
    BY DEF T
<1>6. /\ PayloadOf(T, serialize(T, d, o)) /\ serialize(T, d, o).max_size = o.max_size
      /\ getSerializedSizeProvider(T, d) <= o.max_size => Whole(T, d, serialize(T, d, o))
    BY <1>1, <1>3, <1>5, SerializedPayload
<1>7. /\ PayloadOf(T, serialize(T, d, o)) /\ serialize(T, d, o).max_size = size
      /\ String(T, d) <= 255 => Whole(T, d, serialize(T, d, o))
    BY <1>3, <1>4, <1>6
<1> QED
    BY <1>7 DEF T, size, o

\* What a subscriber with the generic type copies a sample into.
LEMMA GenericPayload ==
    ASSUME PathInv, NEW d \in Samples(config.type)
    PROVE  LET p == copy(Or(m_payload, NewPayload(0)), Received(config.type, d))
           IN  PayloadOf(config.type, p) /\ Whole(config.type, d, p)
<1> DEFINE o == Or(m_payload, NewPayload(0))
<1>1. config.type \in Types
    BY RouteShape DEF PathInv
<1>2. PayloadOf(config.type, o)
    BY <1>1, EmptyPayload DEF PathInv, SubscriberOK, Or
<1> QED
    BY <1>1, <1>2, CopiedPayload

LEMMA InitPathInv == Init => PathInv
<1> SUFFICES ASSUME Init PROVE PathInv
    OBVIOUS
<1>1. SubscriberOK /\ BridgeOK /\ BuffersOK /\ PublishedOK
    BY DEF Init, SubscriberOK, BridgeOK, BuffersOK, PublishedOK
<1>2. FilesOK /\ HistoryOK
    BY DEF Init, FilesOK, HistoryOK
<1>3. execution \in 1..MaxExecutions
    <2>1. MaxExecutions \in Nat \ {0}
        BY DataPathAssumption
    <2> QED
        BY <2>1 DEF Init
<1>4. config \in Configurations /\ crashed \in BOOLEAN
    BY DEF Init
<1> QED
    BY <1>1, <1>2, <1>3, <1>4 DEF PathInv

LEMMA RestartPathInv == PathInv /\ Restart => PathInv'
<1> SUFFICES ASSUME PathInv, Restart PROVE PathInv'
    OBVIOUS
<1>1. SubscriberOK' /\ BridgeOK'
    BY DEF Restart, SubscriberOK, BridgeOK
<1>2. BuffersOK' /\ PublishedOK'
    BY DEF Restart, BuffersOK, PublishedOK, W
<1>3. FilesOK'
    BY DEF PathInv, Restart, FilesOK, Opened
<1>4. HistoryOK'
    BY DEF PathInv, Restart, HistoryOK
<1>5. execution' \in 1..MaxExecutions
    <2>1. MaxExecutions \in Nat \ {0}
        BY DataPathAssumption
    <2>2. execution \in Nat /\ 1 <= execution
        BY <2>1 DEF PathInv
    <2> QED
        BY <2>1, <2>2 DEF Restart
<1>6. config' \in Configurations /\ crashed' \in BOOLEAN
    BY DEF PathInv, Restart
<1> QED
    BY <1>1, <1>2, <1>3, <1>4, <1>5, <1>6 DEF PathInv

LEMMA GenericPathInv ==
    ASSUME PathInv, NEW d \in Samples(config.type), TakeGeneric(d)
    PROVE  PathInv'
<1>1. /\ config.kind = "generic" /\ Receive(d)
      /\ m_payload' = copy(Or(m_payload, NewPayload(0)), Received(config.type, d))
      /\ on_received_payload(m_payload') /\ m_buffer' = m_buffer /\ m_dynData' = m_dynData
    BY DEF TakeGeneric
<1>2. HistoryOK' /\ config' = config /\ execution' = execution
    BY <1>1, HistoryGrows
<1>3. PayloadOf(config.type, m_payload')
    BY <1>1, GenericPayload
<1>4. SubscriberOK'
    BY <1>1, <1>2, <1>3 DEF PathInv, SubscriberOK
<1>5. BridgeOK' /\ BuffersOK' /\ PublishedOK' /\ FilesOK' /\ crashed' \in BOOLEAN
    BY <1>1, <1>2, <1>3, PayloadTypes
<1> QED
    BY <1>2, <1>4, <1>5 DEF PathInv

LEMMA ProvidedPathInv ==
    ASSUME PathInv, NEW d \in Samples(config.type), TakeProvided(d)
    PROVE  PathInv'
<1>1. /\ config.kind = "provided" /\ Receive(d) /\ m_buffer' = d
      /\ m_payload' = serialize(config.type, d,
                        Or(m_payload, NewPayload(PubSubType(config.type).m_typeSize)))
      /\ on_received_payload(m_payload') /\ m_dynData' = m_dynData
    BY DEF TakeProvided
<1>2. HistoryOK' /\ config' = config /\ execution' = execution
    BY <1>1, HistoryGrows
<1>3. /\ PayloadOf(config.type, m_payload')
      /\ m_payload'.max_size = PubSubType(config.type).m_typeSize
    BY <1>1, ProvidedPayload
<1>4. SubscriberOK'
    BY <1>1, <1>2, <1>3 DEF PathInv, SubscriberOK
<1>5. BridgeOK' /\ BuffersOK' /\ PublishedOK' /\ FilesOK' /\ crashed' \in BOOLEAN
    BY <1>1, <1>2, <1>3, PayloadTypes
<1> QED
    BY <1>2, <1>4, <1>5 DEF PathInv

LEMMA DynamicPathInv ==
    ASSUME PathInv, NEW d \in Samples(config.type), TakeDynamic(d)
    PROVE  PathInv'
<1>1. /\ config.kind = "dynamic" /\ Receive(d) /\ m_dynData' = d
      /\ on_received_dynamic(d) /\ m_buffer' = m_buffer /\ m_payload' = m_payload
    BY DEF TakeDynamic
<1>2. HistoryOK' /\ config' = config /\ execution' = execution
    BY <1>1, HistoryGrows
<1>3. SubscriberOK'
    BY <1>1, <1>2 DEF PathInv, SubscriberOK
<1>4. BridgeOK' /\ BuffersOK' /\ PublishedOK' /\ FilesOK' /\ crashed' \in BOOLEAN
    BY <1>1, <1>2, DynamicTypes
<1> QED
    BY <1>2, <1>3, <1>4 DEF PathInv

LEMMA NothingPathInv == PathInv /\ TakeNothing => PathInv'
<1> SUFFICES ASSUME PathInv, TakeNothing PROVE PathInv'
    OBVIOUS
<1> DEFINE T == config.type
<1>1. T \in Types /\ config.kind \in Kind /\ createData(T) \in Samples(T)
    BY RouteShape, CreateData DEF PathInv
<1>2. /\ config' = config /\ execution' = execution /\ UNCHANGED bridge
      /\ received' = received /\ earlier' = earlier /\ writeNothing
    BY DEF TakeNothing
<1>3. m_buffer' = Null \/ m_buffer' \in Samples(T)
    BY <1>1 DEF TakeNothing, PathInv, SubscriberOK, Or
<1>4. m_dynData' = Null \/ m_dynData' \in Samples(T)
    BY <1>1 DEF TakeNothing, PathInv, SubscriberOK
<1>5. ASSUME m_payload' # Null
      PROVE  /\ PayloadOf(T, m_payload')
             /\ config.kind = "provided" => m_payload'.max_size = PubSubType(T).m_typeSize
    <2>1. CASE config.kind = "generic"
        <3>1. m_payload' = Or(m_payload, NewPayload(0))
            BY <2>1 DEF TakeNothing
        <3> QED
            BY <1>1, <2>1, <3>1, EmptyPayload DEF PathInv, SubscriberOK, Or
    <2>2. CASE config.kind = "provided"
        <3>1. m_payload' = serialize(T, m_buffer', Or(m_payload,
                                NewPayload(PubSubType(T).m_typeSize)))
            BY <2>2 DEF TakeNothing
        <3>2. m_buffer' \in Samples(T)
            BY <1>1, <2>2 DEF TakeNothing, PathInv, SubscriberOK, Or
        <3> QED
            BY <2>2, <3>1, <3>2, ProvidedPayload
    <2>3. CASE config.kind = "dynamic"
        <3>1. m_payload' = m_payload
            BY <2>3 DEF TakeNothing
        <3> QED
            BY <1>5, <2>3, <3>1 DEF PathInv, SubscriberOK
    <2> QED
        BY <1>1, <2>1, <2>2, <2>3 DEF Kind
<1>6. SubscriberOK'
    BY <1>2, <1>3, <1>4, <1>5 DEF SubscriberOK
<1>7. BridgeOK'
    BY <1>2 DEF PathInv, BridgeOK, bridge, OutputType, OutputOK, NewOutput, Has, W
<1>8. BuffersOK' /\ PublishedOK' /\ FilesOK' /\ crashed' = crashed
    BY <1>2 DEF writeNothing, PathInv, BuffersOK, PublishedOK, FilesOK, W
<1>9. HistoryOK'
    BY <1>2 DEF PathInv, HistoryOK
<1> QED
    BY <1>2, <1>6, <1>7, <1>8, <1>9 DEF PathInv

LEMMA StutterPathInv == PathInv /\ UNCHANGED vars => PathInv'
BY DEF PathInv, vars, reader, bridge, SubscriberOK, BridgeOK, BuffersOK, PublishedOK,
       FilesOK, HistoryOK, OutputType, OutputOK, NewOutput, Has, W

\* The inputs of a step are samples of the route's type.
LEMMA InputsTyped ==
    ASSUME PathInv
    PROVE  \A d \in Inputs[config.type] : d \in Samples(config.type)
BY RouteShape DEF PathInv

\* What the payloads, outputs, buffers and files of the path hold is of the type
\* it should be, and the payload of a subscriber keeps the room it was made with,
\* for every route.
THEOREM PathInvariance == Spec => []PathInv
<1>1. ASSUME PathInv, [Next]_vars PROVE PathInv'
    <2>1. ASSUME NEW d \in Inputs[config.type], TakeGeneric(d) \/ TakeDynamic(d) \/ TakeProvided(d)
          PROVE  PathInv'
        BY <1>1, <2>1, InputsTyped, GenericPathInv, DynamicPathInv, ProvidedPathInv
    <2> QED
        BY <1>1, <2>1, NothingPathInv, RestartPathInv, StutterPathInv DEF Next
<1> QED
    BY <1>1, InitPathInv, PTL DEF Spec

LEMMA PathInvTypes == PathInv => TypeOK
<1> SUFFICES ASSUME PathInv PROVE TypeOK
    OBVIOUS
<1>1. ASSUME NEW T \in Types, NEW p, PayloadOf(T, p) PROVE IsPayload(p)
    BY <1>1 DEF PayloadOf, IsPayload
<1>2. config.type \in Types /\ OutputType \in Types
    BY RouteShape DEF PathInv
<1>3. m_payload # Null => IsPayload(m_payload)
    BY <1>1, <1>2 DEF PathInv, SubscriberOK
<1>4. mm_staticPayload # Null => IsPayload(mm_staticPayload)
    BY <1>1, <1>2 DEF PathInv, BridgeOK
<1>5. mm_dynamicData # Null => mm_dynamicData.data \in Samples(mm_dynamicData.type)
    BY DEF PathInv, BridgeOK, OutputOK
<1> QED
    BY <1>3, <1>4, <1>5 DEF PathInv, TypeOK, SubscriberOK, BuffersOK, PublishedOK

\* TypeOK: every buffer, payload, output and published sample is of its type, an
\* octet of a key within an octet, for every route and all inputs.
THEOREM TypeCorrect == Spec => []TypeOK
BY PathInvariance, PathInvTypes, PTL

-------------------------------------------------------------------------------
(* Faithful *)

\* A route that goes together, for a sample that suits it.
LEMMA ImageOfPayload ==
    ASSUME PathInv, Consistent, config.kind # "dynamic",
           NEW d \in Samples(config.type), Suits(d),
           NEW p, PayloadOf(config.type, p), Whole(config.type, d, p), on_received_payload(p)
    PROVE  /\ crashed' = FALSE
           /\ \A w \in W : published'[w] = [type |-> config.writers[w].type, data |-> Image(d)]
           /\ \A f \in FileName :
                files'[f] = files[f] \o [i \in 1..Cardinality(WritersOf(f)) |-> Image(d)]
<1>1. /\ config \in Configurations /\ BuffersOK /\ BridgeOK
      /\ config.type \in Types /\ OutputType \in Types /\ config.function \in Function
      /\ config.kind \in Kind
      /\ \A w \in W : config.writers[w].type = OutputType
    BY RouteShape DEF PathInv
<1>2. CASE config.function = "none"
    <2>1. writePayload(p) /\ Image(d) = d /\ OutputType = config.type
        BY <1>2 DEF on_received_payload, Image, OutputType
    <2>2. GetKeyThrows(config.type, d) => Has("generic") = W
        <3> SUFFICES ASSUME GetKeyThrows(config.type, d) PROVE Has("generic") = W
            OBVIOUS
        <3>1. config.type = "ShapeType" /\ d[1] \in Nat
            BY DEF GetKeyThrows, Samples, ShapeType
        <3>2. putString(0, d[1]) > putString(0, 255)
            BY DEF GetKeyThrows
        <3>3. d[1] > 255
            BY <3>1, <3>2, PutIntFirst DEF putString
        <3>4. String(config.type, d) > 255
            BY <3>1, <3>3 DEF String
        <3> QED
            BY <1>1, <3>1, <3>4 DEF Suits, Kind
    <2>3. \A w \in W : config.writers[w].type = config.type
        BY <1>1, <2>1
    <2>4. /\ \A w \in W : published'[w] = [type |-> config.type, data |-> d]
          /\ crashed' = FALSE
          /\ \A f \in FileName :
                files'[f] = files[f] \o [i \in 1..Cardinality(WritersOf(f)) |-> d]
        BY <1>1, <2>1, <2>2, <2>3, WriteWhole
    <2> QED
        BY <2>1, <2>3, <2>4
<1>3. CASE config.function # "none"
    <2> DEFINE f == config.function
               o == Or(mm_staticPayload, NewPayload(0))
               out == Transformed(f, Input(f, p))
               T == OutputOf[f]
    <2>1. /\ f \in Function \ {"none"} /\ OutputType = T /\ config.type = InputOf[f]
          /\ T \in Types
        BY <1>1, <1>3, RouteShape
    <2>2. Static /\ ~DeserializeThrows(p)
        BY <1>1, <1>3, ReadBack DEF Consistent
    <2>3. mm_staticPayload' = Transform(f, p, o) /\ writePayload(mm_staticPayload')
        BY <1>3, <2>2 DEF on_received_payload
    <2>4. Input(f, p) = d
        BY <1>1, <2>1, CreateData, ReadBack DEF Input
    <2>5. out = Image(d)
        BY <1>3, <2>1, <2>4 DEF Image, Transformed, Function
    <2>6. PayloadOf(T, o)
        BY <1>1, <2>1, EmptyPayload DEF BridgeOK, Or
    <2> HIDE DEF o
    <2>7. Whole(T, out, mm_staticPayload')
        BY <2>1, <2>3, <2>6, TransformedPayload
    <2>8. out \in Samples(T)
        BY <2>1, <2>4, TransformedType
    <2>9. ~GetKeyThrows(T, out)
        BY <2>1 DEF GetKeyThrows, OutputOf, Function
    <2>10. \A w \in W : config.writers[w].type = T
        BY <1>1, <2>1
    <2> HIDE DEF out, T
    <2>11. /\ \A w \in W : published'[w] = [type |-> T, data |-> out]
           /\ crashed' = FALSE
           /\ \A g \in FileName :
                files'[g] = files[g] \o [i \in 1..Cardinality(WritersOf(g)) |-> out]
        BY <1>1, <2>1, <2>3, <2>7, <2>8, <2>9, <2>10, WriteWhole DEF T
    <2> QED
        BY <2>5, <2>10, <2>11
<1> QED
    BY <1>2, <1>3

LEMMA ImageOfDynamic ==
    ASSUME PathInv, Consistent, config.kind = "dynamic", ~crashed,
           NEW d \in Samples(config.type), on_received_dynamic(d)
    PROVE  /\ crashed' = FALSE
           /\ \A w \in W : published'[w] = [type |-> config.writers[w].type, data |-> Image(d)]
           /\ files' = files
           /\ \A f : WritersOf(f) = {}
<1>1. /\ config \in Configurations /\ BridgeOK /\ crashed = FALSE
      /\ Has("dynamic") = W /\ \A w \in W : config.writers[w].type = OutputType
    BY DEF PathInv, Consistent, OutputType
<1>2. Has("generic") = {} /\ Has("provided") = {} /\ Has("file") = {}
    BY <1>1 DEF Has
<1>3. \A f : WritersOf(f) = {}
    BY <1>2 DEF WritersOf
<1>4. CASE config.function = "none"
    <2>1. writeDynamic(config.type, d) /\ Image(d) = d /\ OutputType = config.type
        BY <1>4 DEF on_received_dynamic, Image, OutputType
    <2>2. crashed' = FALSE /\ files' = files
        BY <1>1, <1>2, <2>1 DEF writeDynamic
    <2>3. ASSUME NEW w \in W PROVE published'[w] = [type |-> config.type, data |-> d]
        <3> DEFINE wrong == Has("generic") \cup Has("provided")
                   T == config.writers[w].type
        <3>1. published'[w] = CASE w \in wrong -> [type |-> T, data |-> Null]
                                [] w \in Has("dynamic") -> [type |-> config.type, data |-> d]
                                [] w \in Has("file") -> Null
            BY <2>1 DEF writeDynamic
        <3> QED
            BY <1>1, <1>2, <3>1
    <2> QED
        BY <1>1, <1>3, <2>1, <2>2, <2>3
<1>5. CASE config.function # "none" /\ ~Dynamic
    <2>1. writeNothing /\ W = {}
        BY <1>1, <1>5 DEF on_received_dynamic, Dynamic
    <2> QED
        BY <1>1, <1>3, <2>1 DEF writeNothing
<1>6. CASE config.function # "none" /\ Dynamic
    <2> DEFINE o == IF mm_dynamicData = Null THEN NewOutput ELSE mm_dynamicData
               n == TransformDynamic(config.function, d, o)
    <2>1. /\ mm_dynamicData' = n
          /\ published' = [w \in W |-> IF w \in Has("dynamic") THEN n ELSE Null]
          /\ files' = files /\ crashed' = crashed
        BY <1>6 DEF on_received_dynamic
    <2>2. Has("dynamic") # {}
        BY <1>6 DEF Dynamic
    <2>3. NewOutput.type \in Types /\ OutputOK(NewOutput)
        BY <1>1, <2>2, FirstOutput
    <2>4. OutputOK(o)
        BY <1>1, <2>3 DEF BridgeOK
    <2>5. NewOutput.type = OutputType
        BY <1>1, <2>2, FirstDynamic
    <2>6. o.type = OutputType
        BY <2>4, <2>5 DEF OutputOK
    <2> HIDE DEF o
    <2>7. /\ OutputOK(n)
          /\ n.data = IF config.function = "KeyToHelloWorld" THEN <<d[1], 0>>
                      ELSE HelloWorldToKey(d)
        BY <1>1, <1>6, <2>3, <2>4, <2>6, DynamicOutput
    <2> HIDE DEF n
    <2>8. n.data = Image(d)
        <3>1. config.function \in Function
            BY <1>1, RouteShape
        <3> QED
            BY <1>6, <2>7, <3>1 DEF Image, Function
    <2>9. n = [type |-> OutputType, data |-> Image(d)]
        BY <2>5, <2>7, <2>8 DEF OutputOK
    <2> QED
        BY <1>1, <1>3, <2>1, <2>9
<1> QED
    BY <1>4, <1>5, <1>6

\* What a step that takes a sample does to the writers and the files.
LEMMA ImageOfSample ==
    ASSUME PathInv, Consistent, NEW d \in Samples(config.type), Suits(d),
           TakeGeneric(d) \/ TakeDynamic(d) \/ TakeProvided(d)
    PROVE  /\ crashed' = FALSE
           /\ \A w \in W : published'[w] = [type |-> config.writers[w].type, data |-> Image(d)]
           /\ \A f \in FileName :
                \/ files'[f] = files[f] \o [i \in 1..Cardinality(WritersOf(f)) |-> Image(d)]
                \/ WritersOf(f) = {} /\ files'[f] = files[f]
<1>1. CASE TakeGeneric(d)
    <2>1. /\ config.kind # "dynamic" /\ on_received_payload(m_payload')
          /\ m_payload' = copy(Or(m_payload, NewPayload(0)), Received(config.type, d))
        BY <1>1 DEF TakeGeneric
    <2>2. PayloadOf(config.type, m_payload') /\ Whole(config.type, d, m_payload')
        BY <2>1, GenericPayload
    <2> QED
        BY <2>1, <2>2, ImageOfPayload
<1>2. CASE TakeProvided(d)
    <2>1. /\ config.kind = "provided" /\ on_received_payload(m_payload')
          /\ m_payload' = serialize(config.type, d,
                            Or(m_payload, NewPayload(PubSubType(config.type).m_typeSize)))
        BY <1>2 DEF TakeProvided
    <2>2. String(config.type, d) <= 255
        <3>1. String(config.type, d) \in Nat
            BY RouteShape DEF PathInv, String, Types, Samples, Text, HelloWorld, ShapeType
        <3> QED
            BY <2>1, <3>1 DEF Suits
    <2>3. PayloadOf(config.type, m_payload') /\ Whole(config.type, d, m_payload')
        BY <2>1, <2>2, ProvidedPayload
    <2> QED
        BY <2>1, <2>3, ImageOfPayload
<1>3. CASE TakeDynamic(d)
    <2>1. config.kind = "dynamic" /\ ~crashed /\ on_received_dynamic(d)
        BY <1>3 DEF TakeDynamic, Receive
    <2> QED
        BY <2>1, ImageOfDynamic
<1> QED
    BY <1>1, <1>2, <1>3

LEMMA ConfigKept ==
    ASSUME config' = config
    PROVE  /\ Consistent' = Consistent /\ W' = W
           /\ \A d : Suits(d)' = Suits(d) /\ Image(d)' = Image(d)
           /\ \A f : WritersOf(f)' = WritersOf(f)
BY DEF Consistent, Static, Suits, Image, WritersOf, Has, W

\* Faithful: for every route whose ends go together, a sample that suits the route
\* leaves every writer as what it is meant to be, whatever came before it.
THEOREM SamplesAreFaithful == Spec => []Faithful
<1>1. Init => Faithful
    BY DEF Init, Faithful
<1>2. ASSUME PathInv, Faithful, [Next]_vars PROVE Faithful'
    <2>1. ASSUME NEW d \in Inputs[config.type], TakeGeneric(d) \/ TakeDynamic(d) \/ TakeProvided(d)
          PROVE  Faithful'
        <3>1. config' = config /\ given' = d
            BY <2>1 DEF TakeGeneric, TakeDynamic, TakeProvided, Receive
        <3> SUFFICES ASSUME Consistent, Suits(d)
                     PROVE  /\ ~crashed'
                            /\ \A w \in W : published'[w] =
                                    [type |-> config.writers[w].type, data |-> Image(d)]
            BY <3>1, ConfigKept DEF Faithful
        <3> QED
            BY <1>2, <2>1, InputsTyped, ImageOfSample
    <2>2. ASSUME TakeNothing \/ Restart PROVE Faithful'
        BY <2>2 DEF TakeNothing, Restart, Faithful
    <2>3. ASSUME UNCHANGED vars PROVE Faithful'
        BY <1>2, <2>3, ConfigKept DEF Faithful, vars
    <2> QED
        BY <1>2, <2>1, <2>2, <2>3 DEF Next
<1> QED
    BY <1>1, <1>2, PathInvariance, PTL DEF Spec

-------------------------------------------------------------------------------
(* FileKeepsLines *)

\* Line i of a file with n writers is from sample (i - 1) \div n.
LEMMA LineOfSample ==
    ASSUME NEW n \in Nat, NEW m \in Nat, NEW i \in 1..(n * (m + 1))
    PROVE  /\ n * (m + 1) = n * m + n /\ n * m \in Nat
           /\ i <= n * m => (i - 1) \div n \in 0..(m - 1)
           /\ i > n * m => (i - 1) \div n = m
<1>1. n * (m + 1) = n * m + n /\ n * m \in Nat
    OBVIOUS
<1>2. n # 0 /\ i - 1 \in Nat
    BY <1>1
<1> DEFINE q == (i - 1) \div n
<1>3. q \in Nat /\ n * q <= i - 1 /\ i - 1 < n * q + n
    BY <1>2
<1> HIDE DEF q
<1>4. i <= n * m => q < m
    BY <1>1, <1>3
<1>5. i > n * m => q = m
    BY <1>1, <1>3
<1> QED
    BY <1>1, <1>3, <1>4, <1>5 DEF q

\* The lines of n writers for the samples of r from the one after the k-th on.
Lines(r, k, n) == [i \in 1..(n * (Len(r) - k)) |-> Image(r[k + ((i - 1) \div n) + 1])]

LEMMA FunctionIsSequence ==
    ASSUME NEW S, NEW n \in Nat, NEW s \in [1..n -> S]
    PROVE  s \in Seq(S) /\ Len(s) = n
OBVIOUS

LEMMA Concatenation ==
    ASSUME NEW S, NEW n \in Nat, NEW m \in Nat,
           NEW s \in Seq(S), NEW t \in Seq(S), NEW u \in Seq(S),
           Len(s) = n, Len(t) = m, Len(u) = n + m,
           \A i \in 1..n : u[i] = s[i],
           \A i \in 1..m : u[n + i] = t[i]
    PROVE  u = s \o t
<1>1. /\ s \o t \in Seq(S) /\ Len(s \o t) = n + m
      /\ \A i \in 1..(n + m) : (s \o t)[i] = IF i <= n THEN s[i] ELSE t[i - n]
    BY ConcatProperties
<1>2. ASSUME NEW i \in 1..(n + m) PROVE u[i] = (s \o t)[i]
    <2>1. CASE i <= n
        BY <1>1, <2>1
    <2>2. CASE i > n
        <3>1. i - n \in 1..m /\ n + (i - n) = i
            BY <2>2
        <3> QED
            BY <1>1, <2>2, <3>1
    <2> QED
        BY <2>1, <2>2
<1> QED
    BY <1>1, <1>2, SeqEqual

\* One sample more is n lines more.
LEMMA LinesGrow ==
    ASSUME NEW S, NEW r \in Seq(S), NEW d \in S, NEW k \in 0..Len(r), NEW n \in Nat
    PROVE  Lines(Append(r, d), k, n) = Lines(r, k, n) \o [i \in 1..n |-> Image(d)]
<1> DEFINE L == {Image(x) : x \in S}
           m == Len(r) - k
           t == Append(r, d)
           old == Lines(r, k, n)
           new == [i \in 1..n |-> Image(d)]
           all == Lines(t, k, n)
<1>1. /\ Len(r) \in Nat /\ m \in Nat /\ k \in Nat /\ Len(t) - k = m + 1 /\ n * m \in Nat
      /\ n * (m + 1) = n * m + n /\ Len(r) = k + m
      /\ t[k + m + 1] = d /\ \A j \in 1..(k + m) : t[j] = r[j] /\ r[j] \in S
    OBVIOUS
<1>2. /\ old = [i \in 1..(n * m) |-> Image(r[k + ((i - 1) \div n) + 1])]
      /\ all = [i \in 1..(n * (m + 1)) |-> Image(t[k + ((i - 1) \div n) + 1])]
    BY <1>1 DEF Lines
<1> HIDE DEF m, t, old, all
<1>3. ASSUME NEW i \in 1..(n * m)
      PROVE  /\ all[i] = old[i] /\ old[i] \in L /\ i \in 1..(n * (m + 1))
    <2>1. i \in 1..(n * (m + 1)) /\ i <= n * m
        BY <1>1
    <2>2. (i - 1) \div n \in 0..(m - 1)
        BY <1>1, <2>1, LineOfSample
    <2> DEFINE j == k + ((i - 1) \div n) + 1
    <2>3. j \in 1..(k + m)
        BY <1>1, <2>2
    <2>4. old[i] = Image(r[j]) /\ all[i] = Image(t[j])
        BY <1>2, <2>1
    <2> HIDE DEF j
    <2> QED
        BY <1>1, <2>1, <2>3, <2>4
<1>4. ASSUME NEW i \in 1..(n * (m + 1)), i > n * m
      PROVE  all[i] = Image(d)
    <2>1. (i - 1) \div n = m
        BY <1>1, <1>4, LineOfSample
    <2> QED
        BY <1>1, <1>2, <2>1
<1> DEFINE a == n * m
<1>5. old \in Seq(L) /\ Len(old) = a
    <2>1. old \in [1..a -> L]
        BY <1>2, <1>3
    <2> HIDE DEF a, L
    <2> QED
        BY <1>1, <2>1, FunctionIsSequence DEF a
<1>6. new \in Seq(L) /\ Len(new) = n /\ \A i \in 1..n : new[i] = Image(d)
    OBVIOUS
<1>7. all \in Seq(L) /\ Len(all) = a + n
    <2>1. ASSUME NEW i \in 1..(n * (m + 1)) PROVE all[i] \in L
        <3>1. CASE i <= n * m
            BY <1>1, <1>3, <3>1
        <3>2. CASE i > n * m
            BY <1>4, <3>2
        <3> QED
            BY <1>1, <3>1, <3>2
    <2>2. 1..(n * (m + 1)) = 1..(a + n) /\ a + n \in Nat
        BY <1>1
    <2>3. all \in [1..(a + n) -> L]
        BY <1>2, <2>1, <2>2
    <2> HIDE DEF a, L
    <2> QED
        BY <2>2, <2>3, FunctionIsSequence
<1>8. \A i \in 1..a : all[i] = old[i]
    BY <1>3
<1>9. ASSUME NEW i \in 1..n PROVE all[a + i] = new[i]
    <2>1. a + i \in 1..(n * (m + 1)) /\ a + i > n * m
        BY <1>1
    <2> QED
        BY <1>4, <1>6, <2>1
<1> HIDE DEF new, L
<1>10. all = old \o new
    <2>1. a \in Nat
        BY <1>1
    <2> HIDE DEF a
    <2> QED
        BY <1>5, <1>6, <1>7, <1>8, <1>9, <2>1, Concatenation
<1> QED
    BY <1>10 DEF all, old, new, t

\* Where the lines of a file begin.
Skipped(f) == IF \A w \in WritersOf(f) : append(config.writers[w]) THEN 0 ELSE earlier

SuitsAll == Consistent /\ \A i \in DOMAIN received : Suits(received[i])

LinesOf(f) == Lines(received, Skipped(f), Cardinality(WritersOf(f)))

LEMMA FileKeepsLinesIs ==
    FileKeepsLines <=> (SuitsAll => \A f \in FileName : files[f] = LinesOf(f))
BY DEF FileKeepsLines, SuitsAll, LinesOf, Lines, Skipped

LEMMA NoLines ==
    ASSUME NEW n \in Nat, NEW r, Len(r) \in Nat
    PROVE  Lines(r, Len(r), n) = <<>>
<1>1. n * (Len(r) - Len(r)) = 0
    OBVIOUS
<1> QED
    BY <1>1 DEF Lines

LEMMA WritersCounted ==
    ASSUME config \in Configurations
    PROVE  \A f : Cardinality(WritersOf(f)) \in Nat
BY WritersFinite, FS_CardinalityType

\* A sample that is taken, by a route whose ends go together.
LEMMA TakenLines ==
    ASSUME PathInv, NEW d \in Samples(config.type),
           TakeGeneric(d) \/ TakeDynamic(d) \/ TakeProvided(d),
           SuitsAll => \A f \in FileName : files[f] = LinesOf(f), SuitsAll',
           NEW f \in FileName
    PROVE  files'[f] = LinesOf(f)'
<1> DEFINE n == Cardinality(WritersOf(f))
           k == Skipped(f)
<1>1. config' = config /\ earlier' = earlier /\ received' = Append(received, d)
    BY DEF TakeGeneric, TakeDynamic, TakeProvided, Receive
<1>2. /\ received \in Seq(Samples(config.type)) /\ earlier \in 0..Len(received)
      /\ n \in Nat
    BY WritersCounted DEF PathInv, HistoryOK
<1>3. /\ DOMAIN received = 1..Len(received) /\ Len(received) \in Nat
      /\ DOMAIN received' = 1..(Len(received) + 1) /\ received'[Len(received) + 1] = d
      /\ \A i \in DOMAIN received : received'[i] = received[i] /\ i \in DOMAIN received'
    BY <1>1, <1>2
<1>4. /\ Consistent
      /\ \A i \in DOMAIN received' : Suits(received'[i])
    BY <1>1, ConfigKept DEF SuitsAll
<1>5. SuitsAll /\ Suits(d)
    BY <1>3, <1>4 DEF SuitsAll
<1>6. files[f] = Lines(received, k, n)
    BY <1>5 DEF LinesOf
<1>7. k \in 0..Len(received)
    BY <1>2, <1>3 DEF Skipped
<1>8. LinesOf(f)' = Lines(received', k, n)
    BY <1>1, ConfigKept DEF LinesOf, Skipped, Lines, Image, WritersOf, Has, W
<1> HIDE DEF n, k
<1>9. LinesOf(f)' = files[f] \o [i \in 1..n |-> Image(d)]
    <2>1. Lines(Append(received, d), k, n)
            = Lines(received, k, n) \o [i \in 1..n |-> Image(d)]
        BY <1>2, <1>7, LinesGrow
    <2> QED
        BY <1>1, <1>6, <1>8, <2>1
<1>10. \/ files'[f] = files[f] \o [i \in 1..n |-> Image(d)]
       \/ WritersOf(f) = {} /\ files'[f] = files[f]
    BY <1>4, <1>5, ImageOfSample DEF n
<1>11. ASSUME WritersOf(f) = {} PROVE LinesOf(f)' = files[f]
    <2>1. n = 0
        BY <1>11, FS_EmptySet DEF n
    <2>2. n * (Len(received) - k) = 0 /\ n * (Len(received') - k) = 0
        BY <1>1, <1>2, <1>7, <2>1
    <2> QED
        BY <1>6, <1>8, <2>2 DEF Lines
<1> QED
    BY <1>9, <1>10, <1>11

\* FileKeepsLines: the file of each writer has one line per sample and writer, in
\* order: of all executions when the writer appends, else of this one.
THEOREM FilesKeepTheirLines == Spec => []FileKeepsLines
<1>1. ASSUME Init PROVE FileKeepsLines
    <2> SUFFICES ASSUME NEW f \in FileName PROVE files[f] = LinesOf(f)
        BY FileKeepsLinesIs
    <2>1. received = <<>> /\ earlier = 0 /\ files[f] = <<>> /\ config \in Configurations
        BY <1>1 DEF Init
    <2>2. Skipped(f) = Len(received) /\ Len(received) = 0
        BY <2>1 DEF Skipped
    <2> QED
        BY <2>1, <2>2, NoLines, WritersCounted DEF LinesOf
<1>2. ASSUME PathInv, FileKeepsLines, [Next]_vars PROVE FileKeepsLines'
    <2>1. SuitsAll => \A f \in FileName : files[f] = LinesOf(f)
        BY <1>2, FileKeepsLinesIs
    <2>2. FileKeepsLines' <=> (SuitsAll' => \A f \in FileName : files'[f] = LinesOf(f)')
        BY DEF FileKeepsLines, SuitsAll, LinesOf, Lines, Skipped
    <2>3. ASSUME NEW d \in Inputs[config.type], TakeGeneric(d) \/ TakeDynamic(d) \/ TakeProvided(d)
          PROVE  FileKeepsLines'
        BY <1>2, <2>1, <2>2, <2>3, InputsTyped, TakenLines
    <2>4. ASSUME TakeNothing \/ UNCHANGED vars PROVE FileKeepsLines'
        <3>1. config' = config /\ received' = received /\ earlier' = earlier /\ files' = files
            BY <2>4 DEF TakeNothing, writeNothing, vars
        <3>2. SuitsAll' = SuitsAll
            BY <3>1, ConfigKept DEF SuitsAll
        <3>3. \A f : LinesOf(f)' = LinesOf(f)
            BY <3>1 DEF LinesOf, Lines, Skipped, Image, WritersOf, Has, W
        <3> QED
            BY <2>1, <2>2, <3>1, <3>2, <3>3
    <2>5. ASSUME Restart PROVE FileKeepsLines'
        <3>1. /\ config' = config /\ received' = received /\ earlier' = Len(received)
              /\ files' = Opened(files) /\ received \in Seq(Samples(config.type))
              /\ config \in Configurations
            BY <1>2, <2>5 DEF Restart, PathInv, HistoryOK
        <3> SUFFICES ASSUME SuitsAll', NEW f \in FileName PROVE files'[f] = LinesOf(f)'
            BY <2>2
        <3>2. SuitsAll
            BY <3>1, ConfigKept DEF SuitsAll
        <3>3. files[f] = LinesOf(f)
            BY <2>1, <3>2
        <3>4. CASE \A w \in WritersOf(f) : append(config.writers[w])
            <4>1. files'[f] = files[f]
                BY <3>1, <3>4 DEF Opened
            <4>2. Skipped(f) = 0 /\ Skipped(f)' = 0
                BY <3>1, <3>4 DEF Skipped, WritersOf, Has, W
            <4>3. LinesOf(f)' = Lines(received, 0, Cardinality(WritersOf(f)))
                BY <3>1, <4>2 DEF LinesOf, Lines, Image, WritersOf, Has, W
            <4> QED
                BY <3>3, <4>1, <4>2, <4>3 DEF LinesOf
        <3>5. CASE ~\A w \in WritersOf(f) : append(config.writers[w])
            <4>1. files'[f] = <<>>
                BY <3>1, <3>5 DEF Opened
            <4>2. Skipped(f)' = Len(received)
                BY <3>1, <3>5 DEF Skipped, WritersOf, Has, W
            <4>3. LinesOf(f)' = Lines(received, Len(received), Cardinality(WritersOf(f)))
                BY <3>1, <4>2 DEF LinesOf, Lines, Image, WritersOf, Has, W
            <4>4. Len(received) \in Nat
                BY <3>1
            <4> QED
                BY <3>1, <4>1, <4>3, <4>4, NoLines, WritersCounted
        <3> QED
            BY <3>4, <3>5
    <2> QED
        BY <1>2, <2>3, <2>4, <2>5 DEF Next
<1> QED
    BY <1>1, <1>2, PathInvariance, PTL DEF Spec
===============================================================================
