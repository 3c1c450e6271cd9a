----------------------------- MODULE DomainChange ------------------------------
(***************************************************************************)
(* The domain_change example: TextPublisher programs in domain 0 and       *)
(* TextSubscriber programs in domain 5, with the Integration Service       *)
(* between them (module Service), each of them starting and ending when it *)
(* likes.                                                                  *)
(*                                                                         *)
(* Fast RTPS matches writers and readers of one topic and domain, tells    *)
(* both, and delivers what is written to the readers matched at the time,  *)
(* in order; with the default, best-effort readers a sample may be lost.   *)
(***************************************************************************)
EXTENDS Service, Functions

CONSTANTS
    Program,            \* executions of TextPubSubMain
    Arguments,          \* what they may be started with, next to each file
    TextTopic,
    PublisherDomain, SubscriberDomain,
    MaxSent,            \* bound: samples of a publisher
    MaxLost             \* bound: samples lost on the way

ASSUME DomainChangeAssumption ==
    /\ \A f \in Files :
            Arguments[f] \subseteq [Program -> {"none", "publisher", "subscriber", "other"}]
    /\ TextTopic \in Topic /\ {PublisherDomain, SubscriberDomain} \subseteq Domain
    /\ MaxSent \in Nat /\ MaxLost \in Nat
    /\ \A f \in Files :
            Program \cap ({"writer", "reader"} \X DOMAIN f.connectors) = {}

VARIABLES
    argument,
    ppc,                \* where each program is
    n_matched,          \* PubListener::n_matched, SubListener::n_matched
    msgsent,            \* samples a publisher has sent
    received,           \* samples a subscriber has counted in n_msg, in order
    matched,            \* pairs of a writer and a reader that Fast RTPS has matched
    channel,            \* samples on the way, for each such pair
    lost,
    forwarded,          \* samples the service has written
    owed                \* samples, each with a subscriber that was within reach
                        \* all the way when it was sent

programs == <<argument, ppc, n_matched, msgsent, received>>
network  == <<matched, channel, lost>>
ghosts   == <<forwarded, owed>>
vars     == <<serviceVars, programs, network, ghosts>>

-------------------------------------------------------------------------------
(* Endpoints *)

\* TextPubSubMain: no argument, no program; any word but "subscriber" publishes.
Role(g) == CASE argument[g] = "none" -> "none"
             [] argument[g] = "subscriber" -> "subscriber"
             [] OTHER -> "publisher"

Up(g) == ppc[g] \in {"waiting", "sending", "command", "input"}

Writer == Program \cup ({"writer"} \X C)
Reader == Program \cup ({"reader"} \X C)

\* The service has created the writer of the connector and not removed it.
WriterUp(c) ==
    /\ writerPart(c) \in participants
    /\ \/ c < at
       \/ c = at /\ pc \in Wiring

IsWriter(e) == IF e \in Program THEN Up(e) /\ Role(e) = "publisher" ELSE WriterUp(e[2])
IsReader(e) == IF e \in Program THEN Up(e) /\ Role(e) = "subscriber" ELSE e[2] \in subscribed

topicName(e) == IF e \in Program THEN TextTopic ELSE file.connectors[e[2]].topic

\* Seeded bug for domainId: both programs are in the publisher's domain.
oneDomainId(e) ==
    IF e \in Program THEN PublisherDomain
    ELSE file.domain[IF e[1] = "writer" THEN writerPart(e[2]) ELSE readerPart(e[2])]

domainId(e) ==
    IF e \in Program
    THEN IF Role(e) = "publisher" THEN PublisherDomain ELSE SubscriberDomain
    ELSE file.domain[IF e[1] = "writer" THEN writerPart(e[2]) ELSE readerPart(e[2])]

Matching(w, r) ==
    /\ IsWriter(w) /\ IsReader(r)
    /\ topicName(w) = topicName(r) /\ domainId(w) = domainId(r)

Init ==
    /\ ServiceInit
    /\ argument \in Arguments[file]
    /\ ppc = [g \in Program |-> "start"]
    /\ n_matched = [g \in Program |-> 0]
    /\ msgsent = [g \in Program |-> 0]
    /\ received = [g \in Program |-> <<>>]
    /\ matched = {}
    /\ channel = [m \in Writer \X Reader |-> <<>>]
    /\ lost = 0
    /\ forwarded = {}
    /\ owed = {}

-------------------------------------------------------------------------------
(* Fast RTPS *)

\* onPublicationMatched and onSubscriptionMatched of the programs at either end;
\* those of the service only write to its log.
Match(w, r) ==
    /\ <<w, r>> \notin matched
    /\ Matching(w, r)
    /\ matched' = matched \cup {<<w, r>>}
    /\ n_matched' = [g \in Program |->
            IF g \in {w, r} THEN n_matched[g] + 1 ELSE n_matched[g]]
    /\ UNCHANGED <<serviceVars, argument, ppc, msgsent, received, channel, lost, ghosts>>

\* Seeded bug for Unmatch: the programs do not count it.
UnmatchUncounted(w, r) ==
    /\ <<w, r>> \in matched
    /\ ~Matching(w, r)
    /\ matched' = matched \ {<<w, r>>}
    /\ channel' = [channel EXCEPT ![<<w, r>>] = <<>>]
    /\ UNCHANGED <<serviceVars, programs, lost, ghosts>>

\* One end has gone, and the other notices.
Unmatch(w, r) ==
    /\ <<w, r>> \in matched
    /\ ~Matching(w, r)
    /\ matched' = matched \ {<<w, r>>}
    /\ channel' = [channel EXCEPT ![<<w, r>>] = <<>>]
    /\ n_matched' = [g \in Program |->
            IF g \in {w, r} /\ Up(g) THEN n_matched[g] - 1 ELSE n_matched[g]]
    /\ UNCHANGED <<serviceVars, argument, ppc, msgsent, received, lost, ghosts>>

Sent(w, s) == [m \in DOMAIN channel |->
    IF m \in matched /\ m[1] = w THEN Append(channel[m], s) ELSE channel[m]]

Lose(m) ==
    /\ channel[m] # <<>>
    /\ lost < MaxLost
    /\ lost' = lost + 1
    /\ channel' = [channel EXCEPT ![m] = Tail(@)]
    /\ UNCHANGED <<serviceVars, programs, matched, ghosts>>

-------------------------------------------------------------------------------
(* The programs *)

Goes(g, from, to) == ppc[g] = from /\ ppc' = [ppc EXCEPT ![g] = to]

\* main; a participant or an endpoint that cannot be created ends the program.
init(g) ==
    /\ \/ Role(g) = "publisher" /\ Goes(g, "start", "waiting")
       \/ Role(g) = "subscriber" /\ Goes(g, "start", "input")
       \/ Goes(g, "start", "ended")
    /\ UNCHANGED <<serviceVars, argument, n_matched, msgsent, received, network, ghosts>>

\* TextPublisher::run waits until somebody, whoever it is, is matched.
wait(g) ==
    /\ Goes(g, "waiting", "sending")
    /\ n_matched[g] > 0
    /\ UNCHANGED <<serviceVars, argument, n_matched, msgsent, received, network, ghosts>>

\* The subscribers that a sample written by g now can get to, by a connector that no
\* callback came to before it was wired.
WithinReach(g) ==
    { h \in Program : \E c \in C :
        /\ <<g, <<"reader", c>>>> \in matched /\ <<<<"writer", c>>, h>> \in matched
        /\ IsReader(h)
        /\ pc = "running" /\ InTime(c) }

send(g) ==
    /\ Goes(g, "sending", "command")
    /\ msgsent[g] < MaxSent
    /\ msgsent' = [msgsent EXCEPT ![g] = @ + 1]
    /\ channel' = Sent(g, <<g, msgsent'[g]>>)
    /\ owed' = owed \cup {<<g, msgsent'[g], h>> : h \in WithinReach(g)}
    /\ UNCHANGED <<serviceVars, argument, n_matched, received, matched, lost, forwarded>>

\* The user asks for another sample, or to stop; anything else is not recognized.
command(g) ==
    /\ Goes(g, "command", "sending") \/ Goes(g, "command", "ended")
    /\ UNCHANGED <<serviceVars, argument, n_matched, msgsent, received, network, ghosts>>

\* Seeded bug for takeText: the sample stays in the history and is counted again.
readText(w, g) ==
    /\ IsReader(g)
    /\ channel[<<w, g>>] # <<>>
    /\ Len(received[g]) < MaxSent + 1
    /\ received' = [received EXCEPT ![g] = Append(@, Head(channel[<<w, g>>]))]
    /\ UNCHANGED <<serviceVars, argument, ppc, n_matched, msgsent, network, ghosts>>

\* TextSubscriber::SubListener::onNewDataMessage
takeText(w, g) ==
    /\ IsReader(g)
    /\ channel[<<w, g>>] # <<>>
    /\ received' = [received EXCEPT ![g] = Append(@, Head(channel[<<w, g>>]))]
    /\ channel' = [channel EXCEPT ![<<w, g>>] = Tail(@)]
    /\ UNCHANGED <<serviceVars, argument, ppc, n_matched, msgsent, matched, lost, ghosts>>

\* Enter ends a subscriber.
stop(g) ==
    /\ Goes(g, "input", "ended")
    /\ UNCHANGED <<serviceVars, argument, n_matched, msgsent, received, network, ghosts>>

-------------------------------------------------------------------------------
(* The service *)

TheMainThread ==
    /\ MainStep
    /\ UNCHANGED <<programs, network, ghosts>>

TheUser ==
    /\ pressKey
    /\ UNCHANGED <<programs, network, ghosts>>

InCallback(c) ==
    /\ ListenerStep(c)
    /\ UNCHANGED <<programs, network, ghosts>>

\* A sample reaches the service.
Arrive(w, c) ==
    LET m == <<w, <<"reader", c>>>>
    IN  /\ channel[m] # <<>>
        /\ onNewDataMessage(c, Head(channel[m]))
        /\ channel' = [channel EXCEPT ![m] = Tail(@)]
        /\ UNCHANGED <<programs, matched, lost, ghosts>>

\* Other programs send samples on the other topics.
ArriveOther(c) ==
    /\ file.connectors[c].topic # TextTopic
    /\ onNewDataMessage(c, <<>>)
    /\ UNCHANGED <<programs, network, ghosts>>

Forward(c) ==
    /\ write(c)
    /\ IF WriterUp(c) /\ sample[c] # <<>>
       THEN /\ channel' = Sent(<<"writer", c>>, sample[c])
            /\ forwarded' = forwarded \cup {sample[c]}
       ELSE UNCHANGED <<channel, forwarded>>
    /\ UNCHANGED <<programs, matched, lost, owed>>

Next ==
    \/ TheMainThread \/ TheUser
    \/ \E c \in C : InCallback(c) \/ Forward(c) \/ ArriveOther(c) \/ \E w \in Writer : Arrive(w, c)
    \/ \E w \in Writer, r \in Reader : Match(w, r) \/ Unmatch(w, r) \/ Lose(<<w, r>>)
    \/ \E g \in Program :
        \/ init(g) \/ wait(g) \/ send(g) \/ command(g) \/ stop(g)
        \/ \E w \in Writer : takeText(w, g)

\* Threads run, and Fast RTPS delivers what it does not lose; nothing is assumed of
\* users, of when programs start, or of when Fast RTPS matches them.
Fairness ==
    /\ WF_vars(TheMainThread)
    /\ \A c \in UNION {DOMAIN f.connectors : f \in Files} :
            WF_vars(c \in C /\ (InCallback(c) \/ Forward(c)))
    /\ WF_vars(\E c \in C, w \in Writer : Arrive(w, c))
    /\ \A g \in Program : WF_vars(\E w \in Writer : takeText(w, g))

Spec == Init /\ [][Next]_vars /\ Fairness

-------------------------------------------------------------------------------
(* Properties *)

\* The types of the variables; a program knows how many others it is matched with.
TypeOK ==
    /\ ServiceTypeOK
    /\ argument \in Arguments[file]
    /\ ppc \in [Program -> {"start", "waiting", "sending", "command", "input", "ended"}]
    /\ \A g \in Program : Up(g) => n_matched[g] = Cardinality({m \in matched : g \in Range(m)})
    /\ msgsent \in [Program -> 0..MaxSent]
    /\ lost \in 0..MaxLost

\* What README.md says of the example, that a publisher and a subscriber do not
\* communicate unless the service runs between them: a subscriber only ever
\* receives what the service has forwarded, and every sample once and in the order
\* it was sent in, however the three programs come and go.
OnlyThroughTheService ==
    \A h \in Program :
        /\ Range(received[h]) \subseteq forwarded
        /\ \A i, j \in DOMAIN received[h] :
                i < j /\ received[h][i][1] = received[h][j][1]
                    => received[h][i][2] < received[h][j][2]

\* It holds when one connector at most carries the texts, and not into the domain
\* they come from.
OneTextRoute ==
    /\ PublisherDomain # SubscriberDomain
    /\ \A f \in Files : \A c, d \in DOMAIN f.connectors :
            f.connectors[c].topic = TextTopic /\ f.connectors[d].topic = TextTopic
            => c = d /\ f.domain[f.connectors[c].reader] # f.domain[f.connectors[d].writer]

\* Why it holds, an inductive invariant.  A text goes from its publisher's channel
\* through the callback of the one connector to the channels of the subscribers;
Sample == Program \X Nat
Carries(c) == topicName(<<"reader", c>>) = TextTopic
InCall(c) == { s \in {sample[c]} : thread[c] # "idle" /\ s # <<>> }
Towards(c, g) == Range(channel[<<g, <<"reader", c>>>>])
From(c, h) == Range(channel[<<<<"writer", c>>, h>>])

TextHop(m) ==
    \E c \in C : /\ Carries(c)
                 /\ \/ m[1] \in Program /\ m[2] = <<"reader", c>>
                    \/ m[1] = <<"writer", c>> /\ m[2] \in Program

OtherHop(m) == \E c, d \in C : ~Carries(c) /\ m = <<<<"writer", c>>, <<"reader", d>>>>

Routed ==
    /\ matched \subseteq Writer \X Reader
    /\ \A m \in matched : TextHop(m) \/ OtherHop(m)
    /\ channel \in [Writer \X Reader -> Seq(Sample)]
    /\ \A m \in DOMAIN channel : channel[m] # <<>> => TextHop(m)
    /\ \A g \in Program, c \in C : \A s \in Towards(c, g) : s[1] = g
    /\ sample \in [C -> Sample \cup {<<>>}]
    /\ \A c \in C : InCall(c) # {} => Carries(c)
    /\ received \in [Program -> Seq(Sample)]

\* nothing is anywhere that was not sent, or behind the service that it did not
\* forward;
Sourced ==
    /\ msgsent \in [Program -> Nat]
    /\ \A m \in DOMAIN channel : \A s \in Range(channel[m]) : s[2] <= msgsent[s[1]]
    /\ \A c \in C : \A s \in InCall(c) : s[2] <= msgsent[s[1]]
    /\ \A h \in Program : \A s \in Range(received[h]) : s[2] <= msgsent[s[1]]
    /\ \A h \in Program : Range(received[h]) \subseteq forwarded
    /\ \A c \in C, h \in Program : From(c, h) \subseteq forwarded

\* and every place only has texts sent before those in the places ahead of it.
Before(S, T) == \A s \in S, t \in T : s[1] = t[1] => s[2] < t[2]
Ordered(q) == \A i, j \in DOMAIN q : i < j /\ q[i][1] = q[j][1] => q[i][2] < q[j][2]

Sequenced ==
    /\ \A m \in DOMAIN channel : Ordered(channel[m])
    /\ \A h \in Program : Ordered(received[h])
    /\ \A c \in C, g, h \in Program : Carries(c) =>
        /\ Before(Range(received[h]), From(c, h) \cup InCall(c) \cup Towards(c, g))
        /\ Before(From(c, h), InCall(c) \cup Towards(c, g))
        /\ Before(InCall(c), Towards(c, g))

FlowInv == Routed /\ Sourced /\ Sequenced

\* A sample that is sent while the service runs and a subscriber is matched with
\* it, by a connector that was wired before its first sample, arrives there, unless
\* a sample is lost or one of the three programs ends first: no callback of the
\* service hangs or drops it.
Unreachable(g, h) ==
    crashed \/ lost > 0 \/ pc # "running" \/ ~Up(g) \/ ~Up(h)

Communicates ==
    \A g \in Program : \A h \in Program \ {g}, n \in 1..MaxSent :
        <<g, n, h>> \in owed ~> <<g, n>> \in Range(received[h]) \/ Unreachable(g, h)
===============================================================================
