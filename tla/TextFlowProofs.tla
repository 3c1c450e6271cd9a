---------------------------- MODULE TextFlowProofs -----------------------------
(* The texts of the domain_change example reach a subscriber through the       *)
(* service only, once and in order, for every file with one text route.        *)
EXTENDS DomainChangeProofs

-------------------------------------------------------------------------------
(* Sequences of samples *)

\* What remains of an ordered sequence is ordered and behind its head.
LEMMA TakeHead ==
    ASSUME NEW q \in Seq(Sample), q # <<>>
    PROVE  /\ Head(q) \in Sample /\ Tail(q) \in Seq(Sample)
           /\ Head(q) \in Range(q) /\ Range(Tail(q)) \subseteq Range(q)
           /\ Ordered(q) => Ordered(Tail(q)) /\ Before({Head(q)}, Range(Tail(q)))
<1>1. /\ Len(q) \in Nat \ {0} /\ DOMAIN q = 1..Len(q) /\ Head(q) = q[1] /\ 1 \in DOMAIN q
      /\ Tail(q) \in Seq(Sample) /\ Len(Tail(q)) = Len(q) - 1
      /\ DOMAIN Tail(q) = 1..(Len(q) - 1)
      /\ \A i \in DOMAIN q : q[i] \in Sample
    OBVIOUS
<1>2. \A i \in DOMAIN Tail(q) : /\ Tail(q)[i] = q[i + 1] /\ i + 1 \in DOMAIN q /\ 1 < i + 1
                                /\ i \in Nat
    BY <1>1
<1>3. Head(q) \in Range(q) /\ Range(Tail(q)) \subseteq Range(q)
    BY <1>1, <1>2 DEF Range
<1>4. ASSUME Ordered(q) PROVE Ordered(Tail(q))
    BY <1>2, <1>4 DEF Ordered
<1>5. ASSUME Ordered(q) PROVE Before({Head(q)}, Range(Tail(q)))
    <2> SUFFICES ASSUME NEW i \in DOMAIN Tail(q), q[1][1] = Tail(q)[i][1]
                 PROVE  q[1][2] < Tail(q)[i][2]
        BY <1>1 DEF Before, Range
    <2> QED
        BY <1>1, <1>2, <1>5 DEF Ordered
<1> QED
    BY <1>1, <1>3, <1>4, <1>5

\* A sample behind all of a sequence can be appended.
LEMMA AppendSample ==
    ASSUME NEW q \in Seq(Sample), NEW s \in Sample
    PROVE  /\ Append(q, s) \in Seq(Sample)
           /\ Range(Append(q, s)) = Range(q) \cup {s}
           /\ Ordered(q) /\ Before(Range(q), {s}) => Ordered(Append(q, s))
<1> DEFINE t == Append(q, s)
<1>1. /\ Len(q) \in Nat /\ DOMAIN q = 1..Len(q) /\ DOMAIN t = 1..(Len(q) + 1)
      /\ t \in Seq(Sample) /\ t[Len(q) + 1] = s /\ \A i \in 1..Len(q) : t[i] = q[i]
    OBVIOUS
<1> HIDE DEF t
<1>2. \A i \in DOMAIN t : i \in Nat /\ (i = Len(q) + 1 \/ i \in DOMAIN q)
    BY <1>1
<1>3. Range(t) = Range(q) \cup {s}
    <2>1. \A i \in DOMAIN q : i \in DOMAIN t
        BY <1>1
    <2>2. Len(q) + 1 \in DOMAIN t
        BY <1>1
    <2> QED
        BY <1>1, <1>2, <2>1, <2>2 DEF Range
<1>4. ASSUME Ordered(q), Before(Range(q), {s}) PROVE Ordered(t)
    <2> SUFFICES ASSUME NEW i \in DOMAIN t, NEW j \in DOMAIN t, i < j, t[i][1] = t[j][1]
                 PROVE  t[i][2] < t[j][2]
        BY DEF Ordered
    <2>1. i \in DOMAIN q
        BY <1>1, <1>2
    <2>2. CASE j \in DOMAIN q
        BY <1>1, <1>4, <2>1, <2>2 DEF Ordered
    <2>3. CASE j = Len(q) + 1
        BY <1>1, <1>4, <2>1, <2>3 DEF Before, Range
    <2> QED
        BY <1>2, <2>2, <2>3
<1> QED
    BY <1>1, <1>3, <1>4 DEF t

\* The empty sequence.
LEMMA EmptySequence == <<>> \in Seq(Sample) /\ Range(<<>>) = {} /\ Ordered(<<>>)
BY DEF Range, Ordered

-------------------------------------------------------------------------------
(* Routes *)

\* Programs are not endpoints of the service, and the two kinds of endpoint differ.
LEMMA EndpointsDiffer ==
    ASSUME file \in Files, NEW c \in C, NEW d \in C
    PROVE  /\ <<"writer", c>> \notin Program /\ <<"reader", c>> \notin Program
           /\ <<"writer", c>> # <<"reader", d>>
           /\ (<<"writer", c>> = <<"writer", d>> \/ <<"reader", c>> = <<"reader", d>>) => c = d
<1>1. Program \cap ({"writer", "reader"} \X DOMAIN file.connectors) = {}
    BY DomainChangeAssumption
<1>2. /\ <<"writer", c>> \in {"writer", "reader"} \X DOMAIN file.connectors
      /\ <<"reader", c>> \in {"writer", "reader"} \X DOMAIN file.connectors
    BY DEF C
<1> QED
    BY <1>1, <1>2

\* The one route: two connectors that carry texts are one.
LEMMA OneCarrier ==
    ASSUME OneTextRoute, file \in Files, NEW c \in C, NEW d \in C, Carries(c), Carries(d)
    PROVE  c = d /\ file.domain[readerPart(c)] # file.domain[writerPart(d)]
<1>1. <<"reader", c>> \notin Program /\ <<"reader", d>> \notin Program
    BY EndpointsDiffer
<1>2. file.connectors[c].topic = TextTopic /\ file.connectors[d].topic = TextTopic
    BY <1>1 DEF Carries, topicName
<1> QED
    BY <1>2 DEF OneTextRoute, C, readerPart, writerPart

\* Fast RTPS only matches the ends of the route, or endpoints it has nothing to do
\* with.
LEMMA MatchesRouted ==
    ASSUME OneTextRoute, file \in Files, NEW w \in Writer, NEW r \in Reader, Matching(w, r)
    PROVE  TextHop(<<w, r>>) \/ OtherHop(<<w, r>>)
<1>1. topicName(w) = topicName(r) /\ domainId(w) = domainId(r) /\ IsWriter(w) /\ IsReader(r)
    BY DEF Matching
<1>2. CASE w \in Program /\ r \in Program
    BY <1>1, <1>2 DEF IsWriter, IsReader, domainId, OneTextRoute
<1>3. CASE w \in Program /\ r \notin Program
    <2>1. PICK c \in C : r = <<"reader", c>>
        BY <1>3 DEF Reader
    <2>2. Carries(c)
        BY <1>1, <1>3, <2>1 DEF Carries, topicName
    <2> QED
        BY <1>3, <2>1, <2>2 DEF TextHop
<1>4. CASE w \notin Program /\ r \in Program
    <2>1. PICK c \in C : w = <<"writer", c>>
        BY <1>4 DEF Writer
    <2>2. Carries(c)
        BY <1>1, <1>4, <2>1, EndpointsDiffer DEF Carries, topicName
    <2> QED
        BY <1>4, <2>1, <2>2 DEF TextHop
<1>5. CASE w \notin Program /\ r \notin Program
    <2>1. PICK c \in C, d \in C : w = <<"writer", c>> /\ r = <<"reader", d>>
        BY <1>5 DEF Writer, Reader
    <2>2. ASSUME Carries(c) PROVE FALSE
        <3>1. Carries(d)
            BY <1>1, <1>5, <2>1, <2>2, EndpointsDiffer DEF Carries, topicName
        <3>2. domainId(w) = file.domain[writerPart(c)] /\ domainId(r) = file.domain[readerPart(d)]
            BY <1>5, <2>1 DEF domainId
        <3> QED
            BY <1>1, <2>2, <3>1, <3>2, OneCarrier
    <2> QED
        BY <2>1, <2>2 DEF OtherHop
<1> QED
    BY <1>2, <1>3, <1>4, <1>5

\* Only what carries texts has any in its channel, and its ends tell which it is.
LEMMA ChannelsRouted ==
    ASSUME Routed, file \in Files, NEW m \in DOMAIN channel, channel[m] # <<>>
    PROVE  \/ \E c \in C : Carries(c) /\ m[1] \in Program /\ m[2] = <<"reader", c>>
                           /\ m[2] \notin Program /\ \A d \in C : m[1] # <<"writer", d>>
           \/ \E c \in C : Carries(c) /\ m[2] \in Program /\ m[1] = <<"writer", c>>
                           /\ m[1] \notin Program /\ \A d \in C : m[2] # <<"reader", d>>
<1>1. PICK c \in C : /\ Carries(c)
                     /\ \/ m[1] \in Program /\ m[2] = <<"reader", c>>
                        \/ m[1] = <<"writer", c>> /\ m[2] \in Program
    BY DEF Routed, TextHop
<1>2. \A d \in C : <<"writer", d>> \notin Program /\ <<"reader", d>> \notin Program
    BY EndpointsDiffer
<1> QED
    BY <1>1, <1>2

\* A step keeps the file and the arguments, and with them the routes.
LEMMA RoutesFixed ==
    ASSUME [Next]_vars
    PROVE  /\ file' = file /\ C' = C /\ Writer' = Writer /\ Reader' = Reader
           /\ \A c : Carries(c)' <=> Carries(c)
           /\ \A m : (TextHop(m)' <=> TextHop(m)) /\ (OtherHop(m)' <=> OtherHop(m))
<1>1. file' = file
    BY FileStays
<1>2. C' = C
    BY <1>1 DEF C
<1>3. \A c : Carries(c)' <=> Carries(c)
    BY <1>1 DEF Carries, topicName
<1> QED
    BY <1>1, <1>2, <1>3 DEF Writer, Reader, TextHop, OtherHop

-------------------------------------------------------------------------------
(* The invariant *)

\* Nothing has been sent when the programs start.
LEMMA FlowAtFirst == Init => FlowInv
<1> SUFFICES ASSUME Init PROVE FlowInv
    OBVIOUS
<1> USE DEF Init, ServiceInit
<1>1. \A c \in C : InCall(c) = {}
    BY DEF InCall
<1>2. DOMAIN channel = Writer \X Reader /\ \A m \in DOMAIN channel : channel[m] = <<>>
    OBVIOUS
<1>3. \A c \in C : <<"reader", c>> \in Reader /\ <<"writer", c>> \in Writer
    BY DEF Reader, Writer
<1>4. \A c \in C, g \in Program : Towards(c, g) = {} /\ From(c, g) = {}
    <2> SUFFICES ASSUME NEW c \in C, NEW g \in Program
                 PROVE  Towards(c, g) = {} /\ From(c, g) = {}
        OBVIOUS
    <2>1. g \in Reader /\ g \in Writer
        BY DEF Reader, Writer
    <2> QED
        BY <1>2, <1>3, <2>1, EmptySequence DEF Towards, From
<1>5. Routed
    BY <1>1, <1>2, <1>4, EmptySequence DEF Routed
<1>6. Sourced
    BY <1>1, <1>2, <1>4, EmptySequence DEF Sourced
<1>7. Sequenced
    BY <1>1, <1>2, <1>4, EmptySequence DEF Sequenced, Before
<1> QED
    BY <1>5, <1>6, <1>7 DEF FlowInv

\* It is kept when nothing moves on, whatever is dropped on the way.
LEMMA DroppingKeepsFlow ==
    ASSUME FlowInv, [Next]_vars,
           received' = received, msgsent' = msgsent, forwarded \subseteq forwarded',
           matched' \subseteq Writer \X Reader,
           \A m \in matched' : TextHop(m) \/ OtherHop(m),
           channel' \in [Writer \X Reader -> Seq(Sample)],
           \A m \in DOMAIN channel : /\ Range(channel'[m]) \subseteq Range(channel[m])
                                     /\ Ordered(channel'[m])
                                     /\ channel'[m] # <<>> => channel[m] # <<>>,
           sample' \in [C -> Sample \cup {<<>>}],
           \A c \in C : InCall(c)' \subseteq InCall(c)
    PROVE  FlowInv'
<1>1. /\ C' = C /\ Writer' = Writer /\ Reader' = Reader
      /\ \A c : Carries(c)' <=> Carries(c)
      /\ \A m : (TextHop(m)' <=> TextHop(m)) /\ (OtherHop(m)' <=> OtherHop(m))
    BY RoutesFixed
<1>2. DOMAIN channel = Writer \X Reader /\ DOMAIN channel' = Writer \X Reader
    BY DEF FlowInv, Routed
<1>3. \A c \in C, g \in Program : /\ <<g, <<"reader", c>>>> \in DOMAIN channel
                                  /\ <<<<"writer", c>>, g>> \in DOMAIN channel
    BY <1>2 DEF Writer, Reader
<1>4. \A c \in C, g \in Program : /\ Towards(c, g)' \subseteq Towards(c, g)
                                  /\ From(c, g)' \subseteq From(c, g)
    BY <1>3 DEF Towards, From
<1>5. Routed'
    BY <1>1, <1>2, <1>4 DEF FlowInv, Routed
<1>6. Sourced'
    BY <1>1, <1>2, <1>4 DEF FlowInv, Sourced
<1>7. Sequenced'
    BY <1>1, <1>2, <1>4 DEF FlowInv, Sequenced, Before
<1> QED
    BY <1>5, <1>6, <1>7 DEF FlowInv

\* The channels to and from the service are among those there are.
LEMMA Channels ==
    ASSUME FlowInv, NEW c \in C, NEW g \in Program
    PROVE  /\ <<g, <<"reader", c>>>> \in DOMAIN channel
           /\ <<<<"writer", c>>, g>> \in DOMAIN channel
           /\ Towards(c, g) \subseteq Sample /\ From(c, g) \subseteq Sample
           /\ Range(received[g]) \subseteq Sample
<1>1. /\ channel \in [Writer \X Reader -> Seq(Sample)]
      /\ received[g] \in Seq(Sample)
    BY DEF FlowInv, Routed
<1>2. \A q \in Seq(Sample) : Range(q) \subseteq Sample
    BY DEF Range
<1>3. /\ <<g, <<"reader", c>>>> \in Writer \X Reader
      /\ <<<<"writer", c>>, g>> \in Writer \X Reader
    BY DEF Writer, Reader
<1> QED
    BY <1>1, <1>2, <1>3 DEF Towards, From

\* A text that gets to the service leaves the channel for the callback.
LEMMA ArriveKeepsFlow ==
    ASSUME OneTextRoute, FlowInv, ServiceTypeOK, [Next]_vars,
           NEW c \in C, NEW w \in Writer, Arrive(w, c)
    PROVE  FlowInv'
<1> DEFINE m == <<w, <<"reader", c>>>>
           s == Head(channel[m])
<1>1. /\ C' = C /\ Writer' = Writer /\ Reader' = Reader /\ file \in Files
      /\ \A d : Carries(d)' <=> Carries(d)
      /\ \A n : (TextHop(n)' <=> TextHop(n)) /\ (OtherHop(n)' <=> OtherHop(n))
    BY RoutesFixed DEF ServiceTypeOK
<1>2. m \in DOMAIN channel /\ channel[m] \in Seq(Sample) /\ channel[m] # <<>>
    <2>1. m \in Writer \X Reader
        BY DEF Reader
    <2> QED
        BY <2>1 DEF FlowInv, Routed, Arrive
<1>3. w \in Program /\ Carries(c)
    BY <1>1, <1>2, ChannelsRouted, EndpointsDiffer DEF FlowInv
<1>4. /\ s \in Sample /\ Tail(channel[m]) \in Seq(Sample)
      /\ s \in Range(channel[m]) /\ Range(Tail(channel[m])) \subseteq Range(channel[m])
      /\ Ordered(Tail(channel[m])) /\ Before({s}, Range(Tail(channel[m])))
    BY <1>2, TakeHead DEF FlowInv, Sequenced
<1>5. /\ channel' = [channel EXCEPT ![m] = Tail(@)]
      /\ sample' = [sample EXCEPT ![c] = s] /\ thread' = [thread EXCEPT ![c] = "take"]
      /\ UNCHANGED <<received, msgsent, matched, forwarded>>
    BY DEF Arrive, onNewDataMessage, Listener, programs, ghosts
<1> HIDE DEF m, s
<1>6. /\ channel' \in [Writer \X Reader -> Seq(Sample)] /\ channel'[m] = Tail(channel[m])
      /\ \A n \in DOMAIN channel : n # m => channel'[n] = channel[n]
    BY <1>2, <1>4, <1>5 DEF FlowInv, Routed
<1>7. \A d \in C, h \in Program : From(d, h)' = From(d, h)
    <2> SUFFICES ASSUME NEW d \in C, NEW h \in Program PROVE From(d, h)' = From(d, h)
        OBVIOUS
    <2>1. <<<<"writer", d>>, h>> # m
        BY <1>1, <1>3, EndpointsDiffer DEF m
    <2> QED
        BY <1>6, <2>1, Channels DEF From
<1>8. \A d \in C, g \in Program : /\ Towards(d, g)' \subseteq Towards(d, g)
                                  /\ d = c /\ g = w => s \in Towards(d, g)
                                  /\ d = c /\ g = w => Before({s}, Towards(d, g)')
    <2> SUFFICES ASSUME NEW d \in C, NEW g \in Program
                 PROVE  /\ Towards(d, g)' \subseteq Towards(d, g)
                        /\ d = c /\ g = w => s \in Towards(d, g)
                        /\ d = c /\ g = w => Before({s}, Towards(d, g)')
        OBVIOUS
    <2>1. CASE <<g, <<"reader", d>>>> = m
        BY <1>4, <1>6, <2>1 DEF Towards
    <2>2. CASE <<g, <<"reader", d>>>> # m
        BY <1>6, <2>2, Channels DEF Towards, m
    <2> QED
        BY <2>1, <2>2
<1>9. /\ InCall(c) = {} /\ InCall(c)' \subseteq {s}
      /\ \A d \in C : d # c => InCall(d)' = InCall(d)
    <2>1. thread[c] = "idle" /\ sample \in [C -> Sample \cup {<<>>}]
        BY DEF Arrive, onNewDataMessage, CanBeCalled, FlowInv, Routed
    <2>2. \A d \in C : d # c => thread'[d] = thread[d] /\ sample'[d] = sample[d]
        BY <1>5, <2>1 DEF ServiceTypeOK
    <2>3. sample'[c] = s
        BY <1>5, <2>1
    <2> QED
        BY <2>1, <2>2, <2>3 DEF InCall
<1>10. s[1] = w /\ s[2] <= msgsent[s[1]]
    BY <1>2, <1>3, <1>4, <1>8 DEF FlowInv, Routed, Sourced
<1>11. Routed'
    <2>1. sample' \in [C -> Sample \cup {<<>>}]
        BY <1>4, <1>5 DEF FlowInv, Routed
    <2>2. \A n \in DOMAIN channel' : channel'[n] # <<>> => TextHop(n)
        <3>1. \A n \in DOMAIN channel : channel[n] # <<>> => TextHop(n)
            BY DEF FlowInv, Routed
        <3> QED
            BY <1>2, <1>6, <3>1 DEF FlowInv, Routed
    <2>3. \A g \in Program, d \in C : \A t \in Towards(d, g)' : t[1] = g
        BY <1>8 DEF FlowInv, Routed
    <2>4. \A d \in C : InCall(d)' # {} => Carries(d)
        BY <1>3, <1>9 DEF FlowInv, Routed
    <2>5. /\ matched' \subseteq Writer \X Reader
          /\ \A n \in matched' : TextHop(n) \/ OtherHop(n)
          /\ received' \in [Program -> Seq(Sample)]
        BY <1>5 DEF FlowInv, Routed
    <2> QED
        BY <1>1, <1>6, <2>1, <2>2, <2>3, <2>4, <2>5 DEF Routed
<1>12. Sourced'
    <2>1. \A n \in DOMAIN channel' : Range(channel'[n]) \subseteq Range(channel[n])
        BY <1>4, <1>6 DEF FlowInv, Routed
    <2>2. DOMAIN channel' = DOMAIN channel
        BY <1>6 DEF FlowInv, Routed
    <2> QED
        BY <1>1, <1>5, <1>7, <1>9, <1>10, <2>1, <2>2 DEF FlowInv, Sourced
<1>13. Sequenced'
    <2>1. \A n \in DOMAIN channel' : Ordered(channel'[n])
        BY <1>4, <1>6 DEF FlowInv, Routed, Sequenced
    <2>2. ASSUME NEW d \in C, NEW g \in Program, NEW h \in Program, Carries(d)
          PROVE  /\ Before(Range(received[h]), From(d, h) \cup InCall(d)' \cup Towards(d, g)')
                 /\ Before(From(d, h), InCall(d)' \cup Towards(d, g)')
                 /\ Before(InCall(d)', Towards(d, g)')
        <3>1. d = c
            BY <1>1, <1>3, <2>2, OneCarrier
        <3>2. /\ Before(Range(received[h]), From(d, h) \cup Towards(d, g) \cup Towards(d, w))
              /\ Before(From(d, h), Towards(d, g) \cup Towards(d, w))
            BY <1>3, <2>2 DEF FlowInv, Sequenced, Before
        <3>3. Before(InCall(d)', Towards(d, g)')
            <4>1. CASE g = w
                BY <1>8, <1>9, <3>1, <4>1 DEF Before
            <4>2. CASE g # w
                <5>1. \A t \in Towards(d, g) : t[1] = g
                    BY DEF FlowInv, Routed
                <5> QED
                    BY <1>8, <1>9, <1>10, <3>1, <4>2, <5>1 DEF Before
            <4> QED
                BY <4>1, <4>2
        <3> QED
            BY <1>3, <1>8, <1>9, <3>1, <3>2, <3>3 DEF Before
    <2> QED
        BY <1>1, <1>5, <1>7, <2>1, <2>2 DEF FlowInv, Sequenced
<1> QED
    BY <1>11, <1>12, <1>13 DEF FlowInv

\* A text that is written leaves the callback for the subscribers' channels.
LEMMA ForwardKeepsFlow ==
    ASSUME OneTextRoute, FlowInv, ServiceTypeOK, [Next]_vars,
           NEW c \in C, Forward(c), WriterUp(c), sample[c] # <<>>
    PROVE  FlowInv'
<1> DEFINE s == sample[c]
           Gets(n) == n \in matched /\ n[1] = <<"writer", c>>
<1>1. /\ C' = C /\ Writer' = Writer /\ Reader' = Reader /\ file \in Files
      /\ \A d : Carries(d)' <=> Carries(d)
      /\ \A n : (TextHop(n)' <=> TextHop(n)) /\ (OtherHop(n)' <=> OtherHop(n))
    BY RoutesFixed DEF ServiceTypeOK
<1>2. /\ channel' = [n \in DOMAIN channel |->
                IF Gets(n) THEN Append(channel[n], s) ELSE channel[n]]
      /\ forwarded' = forwarded \cup {s}
      /\ thread[c] = "write" /\ thread' = [thread EXCEPT ![c] = "idle"]
      /\ UNCHANGED <<received, msgsent, matched, sample>>
    BY DEF Forward, write, Listener, programs, Sent
<1>3. InCall(c) = {s} /\ s \in Sample /\ Carries(c) /\ s[2] <= msgsent[s[1]]
    <2>1. InCall(c) = {s} /\ s \in Sample
        BY <1>2 DEF InCall, FlowInv, Routed
    <2> QED
        BY <2>1 DEF FlowInv, Routed, Sourced
<1> HIDE DEF s
<1>4. \A d \in C : InCall(d)' \subseteq InCall(d) /\ InCall(c)' = {}
    <2>1. \A d \in C : d # c => thread'[d] = thread[d]
        BY <1>2 DEF ServiceTypeOK
    <2>2. thread'[c] = "idle"
        BY <1>2 DEF ServiceTypeOK
    <2> QED
        BY <1>2, <2>1, <2>2 DEF InCall
<1>5. \A n \in DOMAIN channel : Gets(n) => n[2] \in Program /\ n = <<<<"writer", c>>, n[2]>>
    <2> SUFFICES ASSUME NEW n \in DOMAIN channel, Gets(n)
                 PROVE  n[2] \in Program /\ n = <<<<"writer", c>>, n[2]>>
        OBVIOUS
    <2>1. n \in Writer \X Reader /\ (TextHop(n) \/ OtherHop(n))
        BY DEF FlowInv, Routed
    <2>2. ~OtherHop(n)
        BY <1>1, <1>3, EndpointsDiffer DEF OtherHop
    <2>3. n[2] \in Program
        BY <1>1, <2>1, <2>2, EndpointsDiffer DEF TextHop
    <2> QED
        BY <2>1, <2>3
<1>6. \A n \in DOMAIN channel :
            /\ channel'[n] \in Seq(Sample)
            /\ ~Gets(n) => channel'[n] = channel[n]
            /\ Gets(n) => /\ Range(channel'[n]) = Range(channel[n]) \cup {s}
                           /\ Range(channel[n]) = From(c, n[2])
                           /\ Ordered(channel'[n])
    <2> SUFFICES ASSUME NEW n \in DOMAIN channel
                 PROVE  /\ channel'[n] \in Seq(Sample)
                        /\ ~Gets(n) => channel'[n] = channel[n]
                        /\ Gets(n) => /\ Range(channel'[n]) = Range(channel[n]) \cup {s}
                                       /\ Range(channel[n]) = From(c, n[2])
                                       /\ Ordered(channel'[n])
        OBVIOUS
    <2>1. channel[n] \in Seq(Sample) /\ Ordered(channel[n])
        BY DEF FlowInv, Routed, Sequenced
    <2>2. CASE ~Gets(n)
        BY <1>2, <2>1, <2>2
    <2>3. CASE Gets(n)
        <3>1. channel'[n] = Append(channel[n], s)
            BY <1>2, <2>3
        <3>2. Range(channel[n]) = From(c, n[2]) /\ n[2] \in Program
            BY <1>5, <2>3 DEF From
        <3>3. Before(Range(channel[n]), {s})
            BY <1>3, <3>2 DEF FlowInv, Sequenced, Before
        <3> QED
            BY <1>3, <2>1, <2>3, <3>1, <3>2, <3>3, AppendSample
    <2> QED
        BY <2>2, <2>3
<1>7. DOMAIN channel' = DOMAIN channel /\ DOMAIN channel = Writer \X Reader
    BY <1>2 DEF FlowInv, Routed
<1>8. \A d \in C, g \in Program : Towards(d, g)' = Towards(d, g)
    <2> SUFFICES ASSUME NEW d \in C, NEW g \in Program PROVE Towards(d, g)' = Towards(d, g)
        OBVIOUS
    <2>1. ~Gets(<<g, <<"reader", d>>>>)
        BY <1>1, EndpointsDiffer
    <2> QED
        BY <1>6, <2>1, Channels DEF Towards
<1>9. \A d \in C, h \in Program : /\ From(d, h)' \subseteq From(d, h) \cup {s}
                                  /\ d # c => From(d, h)' = From(d, h)
    <2> SUFFICES ASSUME NEW d \in C, NEW h \in Program
                 PROVE  /\ From(d, h)' \subseteq From(d, h) \cup {s}
                        /\ d # c => From(d, h)' = From(d, h)
        OBVIOUS
    <2>1. d # c => ~Gets(<<<<"writer", d>>, h>>)
        BY <1>1, EndpointsDiffer
    <2> QED
        BY <1>6, <2>1, Channels DEF From
<1>10. Routed'
    <2>1. channel' \in [Writer \X Reader -> Seq(Sample)]
        BY <1>2, <1>6, <1>7
    <2>2. \A n \in DOMAIN channel : channel'[n] # <<>> => TextHop(n)
        <3>1. \A n \in DOMAIN channel : Gets(n) => TextHop(n)
            BY <1>3, <1>5 DEF TextHop
        <3> QED
            BY <1>6, <3>1 DEF FlowInv, Routed
    <2>3. \A g \in Program, d \in C : \A t \in Towards(d, g)' : t[1] = g
        BY <1>8 DEF FlowInv, Routed
    <2>4. \A d \in C : InCall(d)' # {} => Carries(d)
        BY <1>4 DEF FlowInv, Routed
    <2>5. /\ matched' \subseteq Writer \X Reader
          /\ \A n \in matched' : TextHop(n) \/ OtherHop(n)
          /\ received' \in [Program -> Seq(Sample)]
          /\ sample' \in [C -> Sample \cup {<<>>}]
        BY <1>2 DEF FlowInv, Routed
    <2> QED
        BY <1>1, <1>7, <2>1, <2>2, <2>3, <2>4, <2>5 DEF Routed
<1>11. Sourced'
    <2>1. \A n \in DOMAIN channel : Range(channel'[n]) \subseteq Range(channel[n]) \cup {s}
        BY <1>6
    <2> QED
        BY <1>1, <1>2, <1>3, <1>4, <1>7, <1>9, <2>1 DEF FlowInv, Sourced
<1>12. Sequenced'
    <2>1. \A n \in DOMAIN channel' : Ordered(channel'[n])
        BY <1>6, <1>7 DEF FlowInv, Sequenced
    <2>2. ASSUME NEW d \in C, NEW g \in Program, NEW h \in Program, Carries(d)
          PROVE  /\ Before(Range(received[h]), From(d, h)' \cup InCall(d)' \cup Towards(d, g))
                 /\ Before(From(d, h)', InCall(d)' \cup Towards(d, g))
                 /\ Before(InCall(d)', Towards(d, g))
        <3>1. d = c
            BY <1>1, <1>3, <2>2, OneCarrier
        <3>2. /\ Before(Range(received[h]), From(c, h) \cup {s} \cup Towards(c, g))
              /\ Before(From(c, h) \cup {s}, Towards(c, g))
            BY <1>3 DEF FlowInv, Sequenced, Before
        <3> QED
            BY <1>4, <1>9, <3>1, <3>2 DEF Before
    <2> QED
        BY <1>1, <1>2, <1>8, <2>1, <2>2 DEF FlowInv, Sequenced
<1> QED
    BY <1>10, <1>11, <1>12 DEF FlowInv

\* A text that is taken leaves a subscriber's channel for what it has received.
LEMMA TakeKeepsFlow ==
    ASSUME OneTextRoute, FlowInv, ServiceTypeOK, [Next]_vars,
           NEW w \in Writer, NEW g \in Program, takeText(w, g)
    PROVE  FlowInv'
<1> DEFINE m == <<w, g>>
           s == Head(channel[m])
<1>1. /\ C' = C /\ Writer' = Writer /\ Reader' = Reader /\ file \in Files
      /\ \A d : Carries(d)' <=> Carries(d)
      /\ \A n : (TextHop(n)' <=> TextHop(n)) /\ (OtherHop(n)' <=> OtherHop(n))
    BY RoutesFixed DEF ServiceTypeOK
<1>2. m \in DOMAIN channel /\ channel[m] \in Seq(Sample) /\ channel[m] # <<>>
    <2>1. m \in Writer \X Reader
        BY DEF Reader
    <2> QED
        BY <2>1 DEF FlowInv, Routed, takeText
<1>3. PICK c \in C : Carries(c) /\ w = <<"writer", c>> /\ w \notin Program
    <2>1. m[1] = w /\ m[2] = g
        OBVIOUS
    <2> HIDE DEF m
    <2> QED
        BY <1>1, <1>2, <2>1, ChannelsRouted DEF FlowInv
<1>4. /\ s \in Sample /\ Tail(channel[m]) \in Seq(Sample)
      /\ s \in Range(channel[m]) /\ Range(Tail(channel[m])) \subseteq Range(channel[m])
      /\ Ordered(Tail(channel[m])) /\ Before({s}, Range(Tail(channel[m])))
    BY <1>2, TakeHead DEF FlowInv, Sequenced
<1>5. /\ channel' = [channel EXCEPT ![m] = Tail(@)]
      /\ received' = [received EXCEPT ![g] = Append(@, s)]
      /\ UNCHANGED <<thread, sample, msgsent, matched, forwarded>>
    BY DEF takeText, serviceVars, calls, ghosts
<1> HIDE DEF m, s
<1>6. /\ channel' \in [Writer \X Reader -> Seq(Sample)] /\ channel'[m] = Tail(channel[m])
      /\ \A n \in DOMAIN channel : n # m => channel'[n] = channel[n]
      /\ DOMAIN channel' = DOMAIN channel
    BY <1>2, <1>4, <1>5 DEF FlowInv, Routed
<1>7. \A d \in C : InCall(d)' = InCall(d)
    BY <1>5 DEF InCall
<1>8. \A d \in C, h \in Program : Towards(d, h)' = Towards(d, h)
    <2> SUFFICES ASSUME NEW d \in C, NEW h \in Program PROVE Towards(d, h)' = Towards(d, h)
        OBVIOUS
    <2>1. <<h, <<"reader", d>>>> # m
        BY <1>3 DEF m
    <2> QED
        BY <1>6, <2>1, Channels DEF Towards
<1>9. /\ \A d \in C, h \in Program : From(d, h)' \subseteq From(d, h)
      /\ s \in From(c, g) /\ Before({s}, From(c, g)')
    <2>1. ASSUME NEW d \in C, NEW h \in Program PROVE From(d, h)' \subseteq From(d, h)
        <3>1. CASE <<<<"writer", d>>, h>> = m
            BY <1>4, <1>6, <3>1 DEF From
        <3>2. CASE <<<<"writer", d>>, h>> # m
            BY <1>6, <3>2, Channels DEF From
        <3> QED
            BY <3>1, <3>2
    <2>2. <<<<"writer", c>>, g>> = m
        BY <1>3 DEF m
    <2> QED
        BY <1>4, <1>6, <2>1, <2>2 DEF From
<1>10. /\ s[2] <= msgsent[s[1]] /\ s \in forwarded
       /\ Before(Range(received[g]), {s})
       /\ \A h \in Program : Before({s}, InCall(c) \cup Towards(c, h))
    BY <1>2, <1>3, <1>4, <1>9 DEF FlowInv, Sourced, Sequenced, Before
<1>11. /\ received' \in [Program -> Seq(Sample)]
       /\ Range(received'[g]) = Range(received[g]) \cup {s} /\ Ordered(received'[g])
       /\ \A h \in Program : h # g => received'[h] = received[h]
    <2>1. received \in [Program -> Seq(Sample)] /\ Ordered(received[g])
        BY DEF FlowInv, Routed, Sequenced
    <2>2. received'[g] = Append(received[g], s)
        BY <1>5, <2>1
    <2>3. received'[g] \in Seq(Sample)
        BY <1>4, <2>1, <2>2
    <2> QED
        BY <1>4, <1>5, <1>10, <2>1, <2>2, <2>3, AppendSample
<1>12. Routed'
    <2>1. \A n \in DOMAIN channel : channel'[n] # <<>> => TextHop(n)
        BY <1>2, <1>6 DEF FlowInv, Routed
    <2>2. \A h \in Program, d \in C : \A t \in Towards(d, h)' : t[1] = h
        BY <1>8 DEF FlowInv, Routed
    <2>3. /\ matched' \subseteq Writer \X Reader
          /\ \A n \in matched' : TextHop(n) \/ OtherHop(n)
          /\ sample' \in [C -> Sample \cup {<<>>}]
          /\ \A d \in C : InCall(d)' # {} => Carries(d)
        BY <1>5, <1>7 DEF FlowInv, Routed
    <2> QED
        BY <1>1, <1>6, <1>11, <2>1, <2>2, <2>3 DEF Routed
<1>13. Sourced'
    <2>1. \A n \in DOMAIN channel : Range(channel'[n]) \subseteq Range(channel[n])
        BY <1>4, <1>6
    <2>2. \A h \in Program : Range(received'[h]) \subseteq Range(received[h]) \cup {s}
        BY <1>11
    <2>3. /\ \A h \in Program : \A t \in Range(received'[h]) : t[2] <= msgsent[t[1]]
          /\ \A h \in Program : Range(received'[h]) \subseteq forwarded
        BY <1>10, <2>2 DEF FlowInv, Sourced
    <2> QED
        BY <1>1, <1>5, <1>6, <1>7, <1>9, <2>1, <2>3 DEF FlowInv, Sourced
<1>14. Sequenced'
    <2>1. \A n \in DOMAIN channel' : Ordered(channel'[n])
        BY <1>4, <1>6 DEF FlowInv, Sequenced
    <2>2. \A h \in Program : Ordered(received'[h])
        BY <1>11 DEF FlowInv, Sequenced
    <2>3. ASSUME NEW d \in C, NEW k \in Program, NEW h \in Program, Carries(d)
          PROVE  /\ Before(Range(received'[h]), From(d, h)' \cup InCall(d) \cup Towards(d, k))
                 /\ Before(From(d, h)', InCall(d) \cup Towards(d, k))
                 /\ Before(InCall(d), Towards(d, k))
        <3>1. d = c
            BY <1>1, <1>3, <2>3, OneCarrier
        <3>2. /\ Before(Range(received[h]), From(d, h) \cup InCall(d) \cup Towards(d, k))
              /\ Before(From(d, h), InCall(d) \cup Towards(d, k))
              /\ Before(InCall(d), Towards(d, k))
            BY <2>3 DEF FlowInv, Sequenced
        <3>3. Before(Range(received'[h]), From(d, h)' \cup InCall(d) \cup Towards(d, k))
            <4>1. CASE h = g
                BY <1>9, <1>10, <1>11, <3>1, <3>2, <4>1 DEF Before
            <4>2. CASE h # g
                BY <1>9, <1>11, <3>2, <4>2 DEF Before
            <4> QED
                BY <4>1, <4>2
        <3> QED
            BY <1>9, <3>2, <3>3 DEF Before
    <2> QED
        BY <1>1, <1>7, <1>8, <2>1, <2>2, <2>3 DEF Sequenced
<1> QED
    BY <1>12, <1>13, <1>14 DEF FlowInv

\* A new text is later than all others of its publisher.
LEMMA SendKeepsFlow ==
    ASSUME OneTextRoute, FlowInv, ServiceTypeOK, [Next]_vars,
           NEW g \in Program, send(g)
    PROVE  FlowInv'
<1> DEFINE s == <<g, msgsent[g] + 1>>
           Gets(n) == n \in matched /\ n[1] = g
<1>1. /\ C' = C /\ Writer' = Writer /\ Reader' = Reader /\ file \in Files
      /\ \A d : Carries(d)' <=> Carries(d)
      /\ \A n : (TextHop(n)' <=> TextHop(n)) /\ (OtherHop(n)' <=> OtherHop(n))
    BY RoutesFixed DEF ServiceTypeOK
<1>2. /\ msgsent \in [Program -> Nat] /\ msgsent' = [msgsent EXCEPT ![g] = @ + 1]
      /\ UNCHANGED <<received, matched, sample, thread, forwarded>>
    BY DEF send, FlowInv, Sourced, serviceVars, calls
<1>3. /\ channel' = [n \in DOMAIN channel |->
                IF Gets(n) THEN Append(channel[n], s) ELSE channel[n]]
      /\ msgsent'[g] = msgsent[g] + 1 /\ msgsent' \in [Program -> Nat]
      /\ \A k \in Program : msgsent[k] <= msgsent'[k]
    BY <1>2 DEF send, Sent
<1>4. s \in Sample /\ s[1] = g /\ s[2] = msgsent'[g] /\ s[2] = msgsent[g] + 1
    BY <1>2, <1>3 DEF Sample
<1> HIDE DEF s
\* Texts sent before are earlier.
<1>5. \A S \in SUBSET Sample : (\A t \in S : t[2] <= msgsent[t[1]]) =>
            Before(S, {s}) /\ \A t \in S : t[2] <= msgsent'[t[1]]
    <2> SUFFICES ASSUME NEW S \in SUBSET Sample, \A t \in S : t[2] <= msgsent[t[1]],
                        NEW t \in S
                 PROVE  (t[1] = s[1] => t[2] < s[2]) /\ t[2] <= msgsent'[t[1]]
        BY DEF Before
    <2>1. t[1] \in Program /\ t[2] \in Nat /\ t[2] <= msgsent[t[1]]
        BY DEF Sample
    <2>2. msgsent[t[1]] \in Nat /\ msgsent'[t[1]] \in Nat /\ msgsent[t[1]] <= msgsent'[t[1]]
        BY <1>2, <1>3, <2>1
    <2>3. t[2] <= msgsent'[t[1]]
        BY <2>1, <2>2
    <2>4. t[1] = s[1] => t[2] < s[2]
        BY <1>4, <2>1, <2>2
    <2> QED
        BY <2>3, <2>4
<1>6. \A n \in DOMAIN channel : Gets(n) => \E c \in C : Carries(c) /\ n = <<g, <<"reader", c>>>>
    <2> SUFFICES ASSUME NEW n \in DOMAIN channel, Gets(n)
                 PROVE  \E c \in C : Carries(c) /\ n = <<g, <<"reader", c>>>>
        OBVIOUS
    <2>1. n \in Writer \X Reader /\ (TextHop(n) \/ OtherHop(n))
        BY DEF FlowInv, Routed
    <2>2. ~OtherHop(n)
        <3> SUFFICES ASSUME OtherHop(n) PROVE FALSE
            OBVIOUS
        <3>1. PICK c \in C : n[1] = <<"writer", c>>
            BY DEF OtherHop
        <3> QED
            BY <1>1, <3>1, EndpointsDiffer
    <2>3. \E c \in C : Carries(c) /\ n[2] = <<"reader", c>>
        BY <1>1, <2>1, <2>2, EndpointsDiffer DEF TextHop
    <2> QED
        BY <2>1, <2>3
<1>7. DOMAIN channel' = DOMAIN channel /\ DOMAIN channel = Writer \X Reader
    BY <1>3 DEF FlowInv, Routed
<1>8. ASSUME NEW n \in DOMAIN channel
      PROVE  /\ channel'[n] \in Seq(Sample) /\ Ordered(channel'[n])
             /\ ~Gets(n) => channel'[n] = channel[n]
             /\ Range(channel'[n]) \subseteq Range(channel[n]) \cup {s}
             /\ \A t \in Range(channel'[n]) : t[2] <= msgsent'[t[1]]
    <2>1. /\ channel[n] \in Seq(Sample) /\ Ordered(channel[n])
          /\ \A t \in Range(channel[n]) : t[2] <= msgsent[t[1]]
        BY DEF FlowInv, Routed, Sourced, Sequenced
    <2>2. Range(channel[n]) \in SUBSET Sample
        BY <2>1 DEF Range
    <2>3. /\ Before(Range(channel[n]), {s})
          /\ \A t \in Range(channel[n]) : t[2] <= msgsent'[t[1]]
        BY <1>5, <2>1, <2>2
    <2>4. CASE ~Gets(n)
        BY <1>3, <2>1, <2>3, <2>4
    <2>5. CASE Gets(n)
        <3>1. channel'[n] = Append(channel[n], s)
            BY <1>3, <2>5
        <3>2. /\ channel'[n] \in Seq(Sample) /\ Ordered(channel'[n])
              /\ Range(channel'[n]) = Range(channel[n]) \cup {s}
            BY <1>4, <2>1, <2>3, <3>1, AppendSample
        <3>3. s[2] <= msgsent'[s[1]]
            BY <1>2, <1>3, <1>4
        <3> QED
            BY <2>3, <2>5, <3>2, <3>3
    <2> QED
        BY <2>4, <2>5
<1>9. \A d \in C, h \in Program : From(d, h)' = From(d, h)
    <2> SUFFICES ASSUME NEW d \in C, NEW h \in Program PROVE From(d, h)' = From(d, h)
        OBVIOUS
    <2>1. ~Gets(<<<<"writer", d>>, h>>)
        BY <1>1, EndpointsDiffer
    <2> QED
        BY <1>8, <2>1, Channels DEF From
<1>10. \A d \in C, h \in Program : /\ Towards(d, h)' \subseteq Towards(d, h) \cup {s}
                                   /\ h # g => Towards(d, h)' = Towards(d, h)
    <2> SUFFICES ASSUME NEW d \in C, NEW h \in Program
                 PROVE  /\ Towards(d, h)' \subseteq Towards(d, h) \cup {s}
                        /\ h # g => Towards(d, h)' = Towards(d, h)
        OBVIOUS
    <2>1. h # g => ~Gets(<<h, <<"reader", d>>>>)
        OBVIOUS
    <2> QED
        BY <1>8, <2>1, Channels DEF Towards
<1>11. \A d \in C : InCall(d)' = InCall(d) /\ InCall(d) \in SUBSET Sample
    BY <1>2 DEF InCall, FlowInv, Routed
<1>12. \A d \in C, h \in Program :
            /\ Before(From(d, h) \cup InCall(d) \cup Range(received[h]), {s})
            /\ \A t \in InCall(d) \cup Range(received[h]) : t[2] <= msgsent'[t[1]]
    <2> SUFFICES ASSUME NEW d \in C, NEW h \in Program
                 PROVE  /\ Before(From(d, h) \cup InCall(d) \cup Range(received[h]), {s})
                        /\ \A t \in InCall(d) \cup Range(received[h]) : t[2] <= msgsent'[t[1]]
        OBVIOUS
    <2> DEFINE S == From(d, h) \cup InCall(d) \cup Range(received[h])
    <2>1. S \in SUBSET Sample
        BY <1>11, Channels
    <2>2. \A t \in S : t[2] <= msgsent[t[1]]
        BY Channels DEF FlowInv, Sourced, From
    <2> HIDE DEF S
    <2>3. Before(S, {s}) /\ \A t \in S : t[2] <= msgsent'[t[1]]
        BY <1>5, <2>1, <2>2
    <2> QED
        BY <2>3 DEF S
<1>13. Routed'
    <2>1. channel' \in [Writer \X Reader -> Seq(Sample)]
        BY <1>3, <1>7, <1>8
    <2>2. \A n \in DOMAIN channel : channel'[n] # <<>> => TextHop(n)
        <3>1. \A n \in DOMAIN channel : Gets(n) => TextHop(n)
            BY <1>6 DEF TextHop
        <3> QED
            BY <1>8, <3>1 DEF FlowInv, Routed
    <2>3. \A h \in Program, d \in C : \A t \in Towards(d, h)' : t[1] = h
        BY <1>4, <1>10 DEF FlowInv, Routed
    <2>4. /\ matched' \subseteq Writer \X Reader
          /\ \A n \in matched' : TextHop(n) \/ OtherHop(n)
          /\ received' \in [Program -> Seq(Sample)]
          /\ sample' \in [C -> Sample \cup {<<>>}]
          /\ \A d \in C : InCall(d)' # {} => Carries(d)
        BY <1>2, <1>11 DEF FlowInv, Routed
    <2> QED
        BY <1>1, <1>7, <2>1, <2>2, <2>3, <2>4 DEF Routed
<1>14. Sourced'
    <2>1. \A h \in Program : \A t \in Range(received[h]) : t[2] <= msgsent'[t[1]]
        <3> SUFFICES ASSUME NEW h \in Program, NEW t \in Range(received[h])
                     PROVE  t[2] <= msgsent'[t[1]]
            OBVIOUS
        <3>1. Range(received[h]) \in SUBSET Sample
            <4>1. received[h] \in Seq(Sample)
                BY DEF FlowInv, Routed
            <4> QED
                BY <4>1 DEF Range
        <3> QED
            BY <1>5, <3>1 DEF FlowInv, Sourced
    <2>2. \A d \in C : \A t \in InCall(d) : t[2] <= msgsent'[t[1]]
        BY <1>12
    <2> QED
        BY <1>1, <1>2, <1>3, <1>7, <1>8, <1>9, <1>11, <2>1, <2>2 DEF FlowInv, Sourced
<1>15. Sequenced'
    <2>1. ASSUME NEW d \in C, NEW k \in Program, NEW h \in Program, Carries(d)
          PROVE  /\ Before(Range(received[h]), From(d, h) \cup InCall(d) \cup Towards(d, k)')
                 /\ Before(From(d, h), InCall(d) \cup Towards(d, k)')
                 /\ Before(InCall(d), Towards(d, k)')
        <3>1. /\ Before(Range(received[h]), From(d, h) \cup InCall(d) \cup Towards(d, k))
              /\ Before(From(d, h), InCall(d) \cup Towards(d, k))
              /\ Before(InCall(d), Towards(d, k))
            BY <2>1 DEF FlowInv, Sequenced
        <3> QED
            BY <1>10, <1>12, <3>1 DEF Before
    <2>2. \A n \in DOMAIN channel' : Ordered(channel'[n])
        BY <1>7, <1>8
    <2>3. \A h \in Program : received'[h] = received[h] /\ Ordered(received[h])
        BY <1>2 DEF FlowInv, Sequenced
    <2>4. \A d \in C : InCall(d)' = InCall(d)
        BY <1>11
    <2> QED
        BY <1>1, <1>9, <2>1, <2>2, <2>3, <2>4 DEF Sequenced
<1> QED
    BY <1>13, <1>14, <1>15 DEF FlowInv

\* The other steps move nothing on.
LEMMA FlowKept ==
    ASSUME OneTextRoute, FlowInv, ServiceTypeOK, [Next]_vars
    PROVE  FlowInv'
<1>1. /\ channel \in [Writer \X Reader -> Seq(Sample)]
      /\ sample \in [C -> Sample \cup {<<>>}] /\ file \in Files
      /\ matched \subseteq Writer \X Reader
      /\ \A m \in matched : TextHop(m) \/ OtherHop(m)
      /\ \A m \in DOMAIN channel : Ordered(channel[m])
    BY DEF FlowInv, Routed, Sequenced, ServiceTypeOK
<1>2. CASE UNCHANGED <<received, msgsent, forwarded, matched, channel, sample, thread>>
    <2>1. \A c \in C : InCall(c)' \subseteq InCall(c)
        BY <1>2 DEF InCall
    <2> QED
        BY <1>1, <1>2, <2>1, DroppingKeepsFlow
<1>3. CASE TheMainThread \/ TheUser
    BY <1>2, <1>3 DEF TheMainThread, TheUser, MainStep, createReader, associateType,
        createWriter, addReader, addBridge, addWriter, pushWriter, addFunction,
        pushFunction, allTerminated, deleteBridges, onTerminate, removeParticipant, participantRemoved, pressKey,
        programs, network, ghosts, calls
<1>4. ASSUME NEW c \in C, InCallback(c) PROVE FlowInv'
    <2>1. /\ UNCHANGED <<received, msgsent, forwarded, matched, channel, sample>>
          /\ thread[c] # "idle" /\ \E to : thread' = [thread EXCEPT ![c] = to]
        BY <1>4 DEF InCallback, ListenerStep, takeNextData, on_received_data, Reads,
            findFunction, findWriters, isTerminating, Listener, programs, network, ghosts
    <2>2. \A d \in C : InCall(d)' \subseteq InCall(d)
        BY <2>1 DEF InCall, ServiceTypeOK
    <2> QED
        BY <1>1, <2>1, <2>2, DroppingKeepsFlow
<1>5. ASSUME NEW c \in C, Forward(c) PROVE FlowInv'
    <2>1. CASE WriterUp(c) /\ sample[c] # <<>>
        BY <1>5, <2>1, ForwardKeepsFlow
    <2>2. CASE ~(WriterUp(c) /\ sample[c] # <<>>)
        <3>1. /\ UNCHANGED <<received, msgsent, forwarded, matched, channel, sample>>
              /\ thread' = [thread EXCEPT ![c] = "idle"]
            BY <1>5, <2>2 DEF Forward, write, Listener, programs
        <3>2. \A d \in C : InCall(d)' \subseteq InCall(d)
            BY <3>1 DEF InCall, ServiceTypeOK
        <3> QED
            BY <1>1, <3>1, <3>2, DroppingKeepsFlow
    <2> QED
        BY <2>1, <2>2
<1>6. ASSUME NEW c \in C, ArriveOther(c) PROVE FlowInv'
    <2>1. /\ UNCHANGED <<received, msgsent, forwarded, matched, channel>>
          /\ sample' = [sample EXCEPT ![c] = <<>>] /\ thread' = [thread EXCEPT ![c] = "take"]
        BY <1>6 DEF ArriveOther, onNewDataMessage, Listener, programs, network, ghosts
    <2>2. \A d \in C : InCall(d)' \subseteq InCall(d)
        BY <1>1, <2>1 DEF InCall, ServiceTypeOK
    <2>3. sample' \in [C -> Sample \cup {<<>>}]
        BY <1>1, <2>1
    <2> QED
        BY <1>1, <2>1, <2>2, <2>3, DroppingKeepsFlow
<1>7. ASSUME NEW c \in C, NEW w \in Writer, Arrive(w, c) PROVE FlowInv'
    BY <1>7, ArriveKeepsFlow
<1>8. ASSUME NEW w \in Writer, NEW r \in Reader, Match(w, r) PROVE FlowInv'
    <2>1. /\ UNCHANGED <<received, msgsent, forwarded, channel, sample, thread>>
          /\ matched' = matched \cup {<<w, r>>} /\ Matching(w, r)
        BY <1>8 DEF Match, serviceVars, calls, ghosts
    <2>2. TextHop(<<w, r>>) \/ OtherHop(<<w, r>>)
        BY <1>1, <2>1, MatchesRouted
    <2>3. \A c \in C : InCall(c)' \subseteq InCall(c)
        BY <2>1 DEF InCall
    <2> QED
        BY <1>1, <2>1, <2>2, <2>3, DroppingKeepsFlow
<1>9. ASSUME NEW w \in Writer, NEW r \in Reader, Unmatch(w, r) \/ Lose(<<w, r>>)
      PROVE  FlowInv'
    <2> DEFINE m == <<w, r>>
    <2>1. /\ UNCHANGED <<received, msgsent, forwarded, sample, thread>>
          /\ matched' \subseteq matched
          /\ \/ channel' = [channel EXCEPT ![m] = <<>>]
             \/ channel[m] # <<>> /\ channel' = [channel EXCEPT ![m] = Tail(@)]
        BY <1>9 DEF Unmatch, Lose, serviceVars, calls, programs, ghosts
    <2>2. m \in DOMAIN channel /\ channel[m] \in Seq(Sample)
        BY <1>1
    <2> HIDE DEF m
    <2>3. \E q \in Seq(Sample) : /\ channel' = [channel EXCEPT ![m] = q]
                                 /\ Range(q) \subseteq Range(channel[m]) /\ Ordered(q)
                                 /\ q # <<>> => channel[m] # <<>>
        <3>1. CASE channel' = [channel EXCEPT ![m] = <<>>]
            BY <3>1, EmptySequence
        <3>2. CASE channel[m] # <<>> /\ channel' = [channel EXCEPT ![m] = Tail(@)]
            BY <1>1, <2>2, <3>2, TakeHead
        <3> QED
            BY <2>1, <3>1, <3>2
    <2>4. \A c \in C : InCall(c)' \subseteq InCall(c)
        BY <2>1 DEF InCall
    <2>5. /\ channel' \in [Writer \X Reader -> Seq(Sample)]
          /\ \A n \in DOMAIN channel : /\ Range(channel'[n]) \subseteq Range(channel[n])
                                       /\ Ordered(channel'[n])
                                       /\ channel'[n] # <<>> => channel[n] # <<>>
        BY <1>1, <2>2, <2>3
    <2> QED
        BY <1>1, <2>1, <2>4, <2>5, DroppingKeepsFlow
<1>10. ASSUME NEW g \in Program, init(g) \/ wait(g) \/ command(g) \/ stop(g) PROVE FlowInv'
    BY <1>2, <1>10 DEF init, wait, command, stop, serviceVars, calls, network, ghosts
<1>11. ASSUME NEW g \in Program, send(g) PROVE FlowInv'
    BY <1>11, SendKeepsFlow
<1>12. ASSUME NEW g \in Program, NEW w \in Writer, takeText(w, g) PROVE FlowInv'
    BY <1>12, TakeKeepsFlow
<1>13. CASE UNCHANGED vars
    BY <1>2, <1>13 DEF vars, serviceVars, programs, network, ghosts, calls
<1> QED
    BY <1>3, <1>4, <1>5, <1>6, <1>7, <1>8, <1>9, <1>10, <1>11, <1>12, <1>13 DEF Next

-------------------------------------------------------------------------------
\* Whatever starts, ends, is matched or is lost when: with one text route, a text is
\* where the order it was sent in says.
THEOREM FlowInvariance ==
    ASSUME OneTextRoute
    PROVE  Spec => []FlowInv
<1>1. ServiceInv => ServiceTypeOK
    BY DEF ServiceInv
<1>2. FlowInv /\ ServiceTypeOK /\ [Next]_vars => FlowInv'
    BY FlowKept
<1> QED
    BY <1>1, <1>2, FlowAtFirst, ServiceInvariance, PTL DEF Spec

\* With one text route, subscribers receive what the service has forwarded, each text
\* once and in the order it was sent in (examples/domain_change, README.md).
THEOREM OnlyThroughIS ==
    ASSUME OneTextRoute
    PROVE  Spec => []OnlyThroughTheService
<1>1. FlowInv => OnlyThroughTheService
    BY DEF FlowInv, Sourced, Sequenced, Ordered, OnlyThroughTheService
<1> QED
    BY <1>1, FlowInvariance, PTL

===============================================================================
