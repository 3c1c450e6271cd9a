# Integration Service: models, checks and proofs

TLA+ modules for the eProsima Integration Service (the C++ program under
`src/`), the TLC configurations that check them on small instances, and the
theorems about them that the TLA+ proof system checks for all instances.
Paths below are relative to the repository.

## 1. The system

The Integration Service is one process. It reads an XML file, creates Fast RTPS
participants, subscribers and publishers and, from user libraries, custom
endpoints, and then forwards what its readers receive to its writers, passing
it through user functions where the file says so. When a key is pressed it takes
everything down again.

| part | source | state | operations |
|---|---|---|---|
| `ISBridge` | `include/ISBridge.h` | readers, routes (`mm_writer`, keyed by reader name and function name), functions by name, functions by reader name, owned endpoints (`ms_subpubs`), output data and mutexes by key | `addReader`, `addWriter`, `addFunction` (2), `removeWriter`, `on_received_data` (2), `onTerminate`, destructor |
| `ISReader`, `ISWriter`, `ISBaseClass` | `include/IS*.h` | a reader's bridges; a writer's bridge; `m_bTerminating` | `addBridge`, `on_received_data`, `setBridge`, `onTerminate` |
| `RTPSSubscriber` | `src/RTPSSubscriber.cpp` | participant, subscriber, sample buffers | the listener callback `onNewDataMessage` |
| `RTPSPublisher` | `src/RTPSPublisher.cpp` | participant, publisher, sample buffer and its lock | `write` (2) |
| `ISManager` | `src/ISManager.cpp` | maps of bridges, readers, writers, participants, libraries and types | the constructor (loader), the destructor |
| topic types | `src/ISManager.cpp` 194-303 | `typesLibs`, `defaultTypesLibs`, `data_types` | `loadISTypes`, `getTopicDataType`, registration |
| `GenericPubSubType`, `dynamicload`, `xmlUtils`, `main` | `src/`, `include/` | none to speak of | copying, `dlopen`/`dlsym`, element lookup, waiting for a key |
| property lists | `src/ISManager.cpp` 703-721 | a list of names and values for each custom endpoint | `parseProperties` |
| example `domain_change` | `examples/domain_change` | matches, counts of samples | a publisher and a subscriber in different domains, with the service between them |
| examples `dynamic_types`, `shapes_demo_tcp` | `examples/` | generated types and their transformations | `serialize`, `deserialize`, `getKey`, transformations between `HelloWorld` and `sample` |
| example `helloworld_to_file` | `examples/helloworld_to_file` | a file | a custom writer that adds lines to a file |
| Fast RTPS, user libraries | outside the repository | | create or refuse objects, call listeners, match, deliver or lose samples, lay out members in a payload |

How they meet. `ISManager` runs in the main thread; it calls the bridges and
keeps the maps. Fast RTPS calls `RTPSSubscriber::onNewDataMessage` from threads
of its own, as soon as the subscriber exists, that is, before its connector has
been wired and until its participant is removed. The callback hands the sample
to `ISReader::on_received_data`, which hands it to every bridge of the reader,
which calls `write` on the routed writers. There is no lock between the main
thread and the callbacks; among callbacks there is a mutex for each key of a
bridge (made on first use) and a mutex for the buffer of each publisher.

What is hard, and is what the properties are about:

- routing by reader name and function name through lists that only grow, when
  connectors share readers, names, functions, writers and bridges;
- a writer that moves from one bridge to another, and who deletes it;
- messages that arrive between the three calls that wire a connector, and
  between the terminations of the bridges;
- callbacks that run at once through shared maps, payloads, buffers and locks;
- an `isTerminating` check followed by a write;
- look-ups by `operator[]` in maps that no lock protects, which insert the key when it
  is missing, under the look-ups of other callbacks and of the main thread;
- callbacks during loading, before `input_type` is set and while the lists of
  bridges, writers and functions grow, and during the removal of participants, one
  after the other;
- buffers that are made once and used for every later sample: the subscriber's
  payload, the outputs of transformations, the writer's buffer;
- programs at both ends that start, match and end at any time, and samples that
  are lost;
- a file whose elements overwrite each other's entries in the manager's maps,
  and objects that Fast RTPS refuses to create half way through a connector;
- the order in which the destructor removes participants and deletes objects.

What makes each part correct:

- *routing*: a message leaves each configured writer in the configured form, the
  configured number of times, and no other;
- *ownership*: each endpoint is deleted once, by the bridge it belongs to;
- *termination*: a terminated writer sends nothing (more exactly, at most one
  message for each thread that had checked already);
- *dispatch*: messages of a reader stay whole and in order, none leaves twice, every
  callback returns;
- *loader*: the connectors of the file are wired to the endpoints and the bridge
  the file names, and everything wired is terminated and deleted once;
- *types*: an endpoint uses the type that Fast RTPS has registered for it;
- *data*: a sample leaves as what the configuration makes of it, whatever went
  through the same buffers before;
- *service*: nothing is deleted or missing under a callback once the file is loaded, a
  connector that was wired undisturbed goes on forwarding, the program ends when told
  to, and what is sent while everything is up arrives.

## 2. The modules

| module | models | main state |
|---|---|---|
| `ISBridge` | all bridges, readers and writers while connectors are wired one after the other, messages arrive and bridges end; one call of a method of the three classes is one step | the fields of the three classes, and the copies each writer has sent by form |
| `Relay` | the abstract promise: a connected connector forwards each message of its reader once, in its form, until its writer is closed; no bridges, names or maps | connectors, closed writers, counts |
| `ISBridgeRelay` | the refinement of `Relay` by `ISBridge`, for well-formed configurations | |
| `ISBridgeProofs` | the theorems about `ISBridge` and their proofs | |
| `ISBridgeRelayProofs` | the proof that `ISBridge` implements `Relay` | |
| `Dispatch` | both overloads of `ISBridge::on_received_data`, for payloads and for dynamic data, and `RTPSPublisher::write`, one statement per step, in as many threads as there are readers | program counters and locals, the routing tables with what look-ups add to them, the lazily made mutexes and outputs, buffers, locks, what each writer has sent |
| `DispatchProofs` | the theorems about `Dispatch` | |
| `ISManager` | the loader and the destructor | the manager's maps, what has been wired, what has been terminated and deleted |
| `ISManagerProofs` | the theorems about `ISManager` | |
| `TopicTypes` | the sources of topic types and their registration | the tables of types, Fast RTPS's registry, `data_types` |
| `TopicTypesProofs` | the theorems about `TopicTypes` | |
| `Codec` | the examples' generated types: where members are in a payload, when they do not fit, what a payload that lacks members leaves in an object; `GenericPubSubType` | (operators) |
| `DataPath` | one route for one sample after another: the three ways in which `onNewDataMessage` takes a sample, `parseProperties`, the examples' transformations, both `write` overloads, `FileWriter`, and restarts of the program | `m_payload`, the outputs, each writer's `m_buffer`, files |
| `DataPathProofs` | the theorems about `Codec` and `DataPath` | |
| `Service` | the main thread from the first connector to the end of the destructor, statement by statement where a callback can tell, against the callbacks of all readers | wiring, with the half-way states of each push, participants, where each callback is |
| `DomainChange` | `Service` between the publisher and subscriber programs of the example, with Fast RTPS matching, losing and delivering | the programs, matches, samples under way |
| `DomainChangeProofs` | the theorems about `Service` within `DomainChange` | |
| `TextFlowProofs` | the theorems about the texts of `DomainChange` | |
| `MC...` | small instances of the above for TLC | |

Definitions have the names of the functions and fields they stand for;
`PROJECT.json` gives the lines of each. Operators that begin with the comment
"Seeded bug" are variants of the definition they precede that a plausible
mistake would give; nothing uses them, except to show that a property fails
when they take the place of the original.

How data is abstracted. In `ISBridge` a message is the form in which it leaves a
writer: the name of the function applied to it, or `NoFunction`; in `Dispatch`
it is its reader and number, and what it has been made into; in `DataPath` it is
the tuple of its members, with a string known by its length, because the length
is what decides whether and where members fit. A file is a sequence of elements
with the attributes the code looks at. An object of `ISManager` is known by the
position of the element that made it. `getEndPointName`, which joins two names
with a dot, is any function that is injective in its second argument: names with
dots in them may collide.

How the modules fit together. `ISManager` treats the wiring of a connector as
one entry of `wired`, which is what `ISBridge` takes as the set `Connector`; the
assumption of `FreedExactlyOnce` there (each reader on one bridge) is what
`TakenDownOnce` establishes for files in the documented form.
`ISManager!Owned` states who deletes what in terms of `wired` alone, which is
justified by `OwnershipAgrees` of `ISBridge`. `Dispatch` starts from any wired bridge of
a constant set `Bridges`: its routing tables, with the empty entries that earlier
look-ups have left, the names and kinds of its
readers, and the keys that earlier messages have used; `ISBridge` says how the
tables come about. `ISBridge` takes each call of `addReader`, `addWriter`,
`addFunction` and `on_received_data` as one step; what threads do to each other
between the statements of these calls is in `Dispatch`, for callbacks among
themselves, and in `Service`, for the wiring and the callbacks of one connector. `DynReader` and `DynWriter` of `ISBridge` are decided by the
types of `TopicTypes`. `DataPath` looks into one route of `Dispatch`, one sample
at a time, for what happens to its data; `Dispatch` shows that threads do not
mix it up. `Service` has one route per connector, on a bridge of its own, and leaves names and
lists to `ISBridge`; it orders the wiring of `ISManager` against the callbacks, which
`ISManager` takes as one step. `DomainChange` extends `Service` with everything
around it; each of its steps is a step of the service, of one program or of the
network.

Some points where the code does what one might not expect, and the model follows it:

- `ISBridge::removeWriter` erases the writer from a *copy* of its route, so the
  route stays and only the ownership goes (`removeWriter` in `ISBridge`).
- `ISBridge::onTerminate` does not set the bridge's own `m_bTerminating`, so the
  check in `ISReader::on_received_data` never stops a message: only the
  writers' flags do.
- `RTPSSubscriber` does not override `onTerminate`: its callbacks go on until
  the participant is removed.
- A function registered under a name is null when its symbol is missing; the
  bridge then forwards the message untransformed.
- `getParticipant` remembers a participant that could not be created as null
  and does not try again.
- `createReader` makes the subscriber and then sets its `input_type`: a sample
  that arrives in between is taken with a null type, which ends the program
  (lines 345 to 359; `Service`'s `crashed`).
- `addBridge`, `addWriter` and `addFunction` append to vectors that the listener
  may be walking through or copying (lines 285, 126 and 112 of `ISBridge.h`): a
  callback that reads one end of the vector before and one after goes through memory
  that is no list. `Service` has the beginning and the end of each push as steps of
  their own.
- `on_received_data` looks functions and writers up by `operator[]` (lines 151,
  200, 174, 228), which inserts the key when it is missing. During wiring this races with
  the insertion of the same key by `addWriter` or `addFunction`, one of the
  two can be lost, and the connector then forwards nothing until the program ends
  (`early` in `Service`; `WiredInTime` is that this takes a callback before the
  connector is wired).
- After wiring, the first message of a reader of dynamic data whose name has no dynamic function
  still inserts in `mm_dynFunctions`. Another thread's search of that table may
  then miss its functions, so that its message leaves without the transformation or
  does not leave at all (`FindFunctions` in `Dispatch`; `Undisturbed` says on which
  bridges this cannot happen, `NeverTwice` what holds on the others). The same goes
  for `mm_functions`, where a listener is left without a function of its kind, and
  for `mm_writer`.
- The destructor removes participants in the descending order of their names, and
  a callback that has passed `isTerminating` writes through its publisher
  whether the publisher's participant is there or not. The publisher's
  participant has the later name in the file of `domain_change`, so this can happen there
  (`GoneOnlyInNameOrder`).
- `serialize` of a sample that does not fit fails half way, and
  `RTPSSubscriber` hands on the payload all the same: what leaves is a mix of two
  samples. `Faithful` is that the mix goes no further than that sample.
- `getKey` of `Shape` has no `try` around the writing of the key: a color longer
  than 255 characters is an exception out of the listener.
- The dynamic output of a key has the type of the first writer that needs it;
  a second writer of another type publishes data of the first one's type.
- A `<bridge>` or connector with the name of an earlier one takes its place in
  the map of bridges; one with the name of a participant makes `getParticipant`
  refuse that participant from then on, although it is up.

## 3. What is checked

All runs are exhaustive over their instance. `CHECK_DEADLOCK FALSE` is set
everywhere: the program ends, and the number of messages is bounded.

### Routing (`ISBridge`)

- `Bridge_Routing`: two readers of static data that have one name and one
  writer, one of them with a transformation whose symbol is missing, and a
  reader of dynamic data in two connectors, with and without a transformation;
  one of these moves the writer to the other bridge. `Amplification` computes
  from the configuration alone how many copies of a message leave each writer in
  each form: readers of one name share functions and routes, each connector adds
  its bridge to the reader's list once more, and dynamic data uses the route
  without a function only if the name has no dynamic function at all.
  `Entries` is why: whatever the configuration, every entry of the lists of
  bridges, functions and writers stands for one connector, none is lost and none
  is there twice for one connector.
  `OnlyConfiguredForms`: nothing is sent that no connector asked for, even in
  the middle of wiring. `OwnershipAgrees`: a writer's bridge and the bridges'
  lists of owned endpoints agree. `FreedExactlyOnce`, `SilentAfterTermination`
  (a writer that any terminated bridge has a route to is silent, whichever
  bridge the message comes through) and the inductive invariant `IInv`.
- `BridgeRelay`: `ISBridge` implements `Relay` when no two connectors on a
  bridge have readers of one name and the kinds of both ends of a
  transformation agree. The mapping counts a connector as connected from its
  `addFunction` on, or from its `addWriter` on for dynamic data without a
  transformation. `Tables` is why: every entry of every table belongs to one
  connector.
- `Bridge_MixedKinds` (a violation): a connector with a transformation between
  a static and a dynamic type forwards nothing (section 5).

Instances: two bridges, three readers of which two share a name, two writers,
two functions of which one may be missing from its library, two to four
connectors wired in every order, two messages per reader. Two messages are
enough for a message before and a message after any step; sharing needs two of
everything, and moving a writer needs two bridges.

### Dispatch

- `Dispatch_Threads`: eight bridges, with two threads in six of them. `OneName`: payloads
  with one key, whose lock and output they share, which also feed one writer
  without a transformation. `TwoNames`: payloads with different keys that meet
  in one writer's buffer, by the first messages of all. `OneDynamicName`:
  dynamic data with one key and a writer that has to be passed over because its
  type is not dynamic. `BothKinds`: dynamic data through two functions, and
  payloads, into one writer. `FirstLookUp`: dynamic data with and without
  functions, where the first message of the one inserts in the table that the
  messages of the other search. `NoTransformation`: the same once earlier messages have
  been through. `OtherKind`: three threads, two of which find no function of
  their kind and insert an entry. `ThreeReaders`: `write` locks the writer's buffer while its caller
  holds the mutex of its key, so one thread can be in the buffer, a second one wait
  for it with its key locked, and a third one wait for that key. Writers are
  terminated at any time. 156,076 states.

  `DeliveredInOrder`: on bridges that are `Settled` and have `OneRoute`, each
  writer has sent the first messages of each reader, in order, and all of them when the
  threads are idle and it is open. `Settled` is that two threads do not meet in one output
  by two mutexes (`OwnOutputs`: the readers have names of their own, or the keys have
  all been used) and that no thread inserts in a routing table that another
  one searches (`Undisturbed`). `NeverTwice` needs only `OwnOutputs` and `OneRoute`:
  where a search misses, a message can be lost, or leave without its
  transformation, but it does not leave twice in one form or overtake another one.
  `OneLateWrite` (a writer may send after its `onTerminate`, at most once for
  each thread), the inductive invariant `DispatchInv`, `NoCircularWait`
  (every thread that waits waits, directly or through one other thread, for one
  that can go on) and `EveryMessageReturns` (liveness) hold on all bridges.
- `Dispatch_ColdStart` (a violation): section 5.

Each bridge says how many messages each of its readers hands over: two from one
reader and one or two from the other, so that a thread meets what its own earlier
message and those of the other thread left in the maps; one from each of three
readers, the fewest that make a chain of two waits. The theorems of section 4
remove the bounds. The maps are not protected, and
`std::map` gives no meaning to a search during an insertion; the outcomes
modelled, of the routing tables and of the tables of mutexes and outputs alike, are that the
search misses an entry and that an insertion is lost. All routing tables but
those of the names of functions are included: every name that is looked up in these has been
put there by `addFunction`.
Corruption of the tree that ends the program is not modelled.

*Fairness.* `EveryMessageReturns` assumes weak fairness of each thread's steps
while it is handling a message, which is what the operating system gives a
thread that can run; a thread that waits for a lock is not assumed to get it
unless it stays free. Nothing is assumed about when messages arrive or when a
writer is terminated. The bound on messages makes every lock free in the end,
so the run says nothing about starvation under endless traffic.

### The manager

- `Manager_Files`: every file of up to three elements (after its `<is>`) out of
  fourteen, among them incomplete connectors, connectors that join two custom
  ends, bridges without a library or with one that makes no readers, names that
  clash, and an `<is>` without profiles; and the sample file of
  `resource/config.xml`. Fast RTPS may refuse one object. `LoadsWhatIsAsked`
  compares what was wired with `Asked`, which is computed from the file alone,
  for files in the documented form when nothing is refused; for the same files
  `TakenDownOnce` says that all that was wired is terminated and deleted once.
  `NoLiveListenerDeleted` holds for all files and failures, and so does the first
  half of the inductive invariant `ManagerInv`.
- `Manager_SameName`, `Manager_Refused` (violations): section 5.

A file in the documented form (`Documented`) has distinct names for bridges,
connectors and participants, uses `bridge_name` for bridges only, and has no
names that collide once joined. Outside it, and when a subscriber is refused, a
connector may find an older reader of the same name, put it on a second bridge,
and both bridges then delete it; that is why `TakenDownOnce` has its
precondition. Three elements are enough for any two connectors to interfere
over a custom bridge.

### Types

- `Types_Files`: every file of up to four elements out of eleven.
  `KeptAsRegistered`, the inductive invariant `TypesInv` and the liveness
  property `LoadingEnds`, under weak fairness of the constructor's steps (one
  thread, nothing to wait for). `LoadingEnds` is stated for files without an
  empty `<types_library>`, because the loop over these elements does not advance
  past an empty one.
- `Types_Unlisted` (a violation): section 5.

### Data

- `DataPath`: seventeen routes: the examples' (to a file with its configured
  properties, with none, and with properties that lack a part or are set twice;
  `domain_change`; `shapes_demo_tcp`; the transformations of `dynamic_types` on
  payloads and on dynamic data) and routes between the kinds of types.
  Samples have strings that fit, that are exactly as long as the type reckons
  with (255), and that do not fit. Three samples in up to two executions: one to go wrong,
  one to come after it, and one after a restart. `Faithful` is asked of samples
  that fit (`Suits`) on routes whose ends go together (`Consistent`): the others
  are undefined or described in section 2. `FileKeepsLines` compares each file
  with the samples of this and earlier executions.

### The service

- `DomainChange`: the service with its main thread and listeners, and the two
  programs of the example, which start, match, unmatch and end at any time.
  The files: the example's; two connectors in opposite directions between two
  participants, with a transformation of dynamic data and one of payloads; one connector
  within one participant, of dynamic data without a transformation; and the same with
  a transformation of payloads, which its listener does not find. Two samples are sent at
  most, and one may be lost; the files without a route for the texts run without the two
  programs, with samples on their topics at any time. 223,329 states.
  `NothingDeletedInUse`; `GoneOnlyInNameOrder`; `CrashesOnlyWhileLoading` (a callback
  meets a null type or a torn list only while its own connector is between
  `createSubscriber` and the setting of `input_type`, or in one of the pushes of
  `addBridge`, `addWriter` and `addFunction`: with any of the four places left out
  the property is false); `WiredInTime` (a connector that no callback came to
  before it was wired, and whose function is in the table its listener looks in, has
  its function and its writer, whatever look-ups come later); their inductive
  invariant `ServiceInv`; `OnlyThroughTheService` (what the example's README
  says: the two programs only meet through the service; and in order) with its
  inductive invariant `FlowInv`;
  `ShutdownEnds` and `Communicates` (liveness): a sample sent when the service
  runs and a subscriber is matched with it, by a connector that was wired before its
  first callback, is received, or one of the three
  programs ends, or a sample has been lost. Without the condition on the connector it is
  false: a callback during `addFunction` can cost the connector its function.

*Fairness.* Weak fairness of the main thread, of each listener's callback, of
the arrival of samples in the service, and of a subscriber's taking of samples: all are
threads that can run, or Fast RTPS delivering what it has not lost. Nothing is
assumed about users, about when programs start or about matching. A listener
waits for no lock here (`EveryMessageReturns` of `Dispatch` is about locks), and
`removeParticipant` waits for the callbacks of that participant, as Fast RTPS does.

## 4. What is proved

### Routing

`ISBridgeProofs` proves, for all sets of bridges, readers, writers, names and
connectors and any bound on messages:

| theorem | statement |
|---|---|
| `TypeCorrect` | `Spec => []TypeOK` |
| `Invariance` | `Spec => []IInv` |
| `Ownership` | `Spec => []OwnershipAgrees` |
| `Silence` | `Spec => SilentAfterTermination` |
| `Freed` | `Spec => []FreedExactlyOnce` |
| `Forms` | `Spec => []OnlyConfiguredForms` |
| `EntriesOfConnectors` | `Spec => []Entries` |
| `Multiplicity` | `Spec => Amplification` |

The only assumption is `ISBridgeAssumption`, which types the constants.

The argument. None of the properties is inductive. That a writer of a
terminated bridge is silent needs that *all* writers the bridge routes to are
terminating and stay so, which needs that no route is added after the first
termination (`Stages`, `Silenced`). That an endpoint is deleted once needs that
the owner lists agree with `mb_bridge` (`OwnershipAgrees`) and that a reader is
only owned by bridges of its connectors (`Owned`); the counts then follow by a
second induction (`FreedCount`). That only configured forms leave a writer needs
that every route was asked for by a connector, and that a function name in a
bridge's list is bound to a function exactly if its symbol exists
(`Configured`): that is where the order of the statements in `addFunction`
matters. `IInv` is the conjunction, and it is proved inductive with one lemma
per action. `TypeCorrect` needs that the number of copies is a number: the set of
paths a message can take is finite, because lists are (`FinitePaths`).

`Multiplicity` is about every configuration, also those in which connectors share
readers, names, functions and writers, and needs to know exactly what is in the
lists. `Entries` says so: each list is in bijection with the set of connectors
that have got as far as putting something there. It is inductive by itself:
`addReader`, `addWriter` and `addFunction` each append one entry for a connector
that has none there yet. A path a message can take is a position in each
of three nested lists; the bijections turn it into a triple of connectors
(`CopiesByFunction`) or, when dynamic data finds no function of its name, into a
pair (`CopiesByFallback`), one to one, and `CopiesOfConnectors` adds the two up.
While a connector is half wired its route counts and its function does not,
which is why the property speaks of messages between two wirings.

`ISBridgeRelayProofs` proves, for all configurations that are `WellFormed`:

| theorem | statement |
|---|---|
| `OneEntryEach` | `Spec => []Tables` |
| `Refinement` | `Spec => RelaySpec` |

The relay counts connectors and the bridges count paths, so the proof is that
the two are one to one. In a well-formed configuration a bridge and a reader's
name determine a connector (`SameConnector`); each call of `loadConnector` then
finds the entry it fills empty, which makes `Tables` inductive. With `Tables`, a
path that sends anything is at the first position of the two inner loops and at
the place of one forwarding connector's bridge in the outer one (`PathOf`), and
each forwarding connector has such a path (`PathFor`): `CopiesPromised` is the
bijection. Wiring steps are then `Connect` or a stutter, termination is `Close`.

### Dispatch

`DispatchProofs` proves, for all sets of readers, writers, names and functions,
any bound on messages and any set of wired bridges (`DispatchAssumption`: the
tables have their types, no list has an entry twice):

| theorem | statement |
|---|---|
| `DispatchInvariance` | `Spec => []DispatchInv` |
| `TypeCorrect` | `Spec => []TypeOK` |
| `OneLate` | `Spec => []OneLateWrite` |
| `LocksAreOrdered` | `Spec => []NoCircularWait` |
| `InOrder` | `Spec => []DeliveredInOrder` |
| `AtMostOnce` | `Spec => []NeverTwice` |

The conditions are in the properties: `OwnOutputs` (`Dispatch_ColdStart` shows what
happens without it), `Undisturbed`, and `OneRoute`, that two functions of a name that
have no symbol do not lead to one writer, which would get an untransformed message twice.

The argument. A thread is at valid positions of its loops (`LocatedAt`) and
holds the lock its place asks for (`LockedAt`). The routing tables keep the entries
they were wired with and get empty ones (`Routes`), so the lists a thread copies are those
entries or empty (`CopiedAt`); on an undisturbed bridge the threads that insert
entries are not those that could miss them, so the copies are the entries
(`SameRoutes`, `SameAt`). With different names, keys are
different; when all keys have been used, no search or insertion changes
the tables of mutexes and outputs, so that there is one mutex for each key (`SharedAt`). Either way two
threads that use one output hold one mutex, which is impossible
(`OutputsExclusive`). So what a thread publishes is its own message (`WholeAt`).
A message that has left a writer in a form did so on a route that the thread has passed
in the lists it copied (`OnceOf`), and as no two of its routes lead to that writer in that
form, it does not leave it again (`NotYetSent`): this is `AtMostOnce`, whatever the searches
miss. Where they miss nothing, a writer's sequence has a message exactly if the
thread's positions have passed the writer (`ProgressOf`), which is `InOrder`.

`LocksAreOrdered` needs no such condition. That a thread holds the locks its
place asks for is not enough for it: a lock that was left locked by a thread
that has gone on would block others for ever. `ReleasedAt` adds that a thread
holds no other lock. So a mutex is always held by a thread
between its `lock` and its `unlock`, and the one lock such a thread can wait for
is a buffer's; the buffer's holder is in `deserialize` or `publish`, where it
waits for nothing. This is the safety part of `EveryMessageReturns`.

### The manager

`ISManagerProofs` proves, for every file of any length, all names (joined by any
`getEndPointName` that is injective in its second argument) and any number of
refusals, `TypeCorrect` (`TypeOK`), `ManagerInvariance`, `LoadingIsRight`
(`LoadsWhatIsAsked`), `TakenDown` (`TakenDownOnce`) and `NoListenerDeleted`
(`NoLiveListenerDeleted`),
under `ISManagerAssumption`, which types the constants and keeps `Null` apart.

`ManagerInv` has two halves. For every file: loading is at an element that can be
reached (`Placed`), subscriptions are in participants that are up and
participants go before bridges (`Subscribed`), and every entry of a map comes
from an element that makes such an object under that name (`Origins`). For files
in the documented form with nothing refused: elements that have been loaded are
still in the maps (`Kept`), the connector being loaded has found its own
endpoints (`LookedUp`), `wired` is what the elements so far ask for
(`WiredSoFar`), and what has been deleted is what the bridges deleted so far own
(`DeletedSoFar`).

### Types

`TopicTypesProofs` proves `TypeCorrect`, `TypesInvariance` and `OneTypePerTopic`
(`KeptAsRegistered`) for all types, libraries, files and refusals.

### Data

`DataPathProofs` proves, for every route (any of the examples' types, any
transformation, properties and number of writers of any of the kinds), any
inputs, whether they fit or not, and any bound on samples and executions.
`DataPathAssumption` types the constants, and `OneWriterOrAppended` leaves out
two writers that write over each other's lines in one file:

| theorem | statement |
|---|---|
| `PathInvariance` | `Spec => []PathInv` |
| `TypeCorrect` | `Spec => []TypeOK` |
| `SamplesAreFaithful` | `Spec => []Faithful` |
| `FilesKeepTheirLines` | `Spec => []FileKeepsLines` |

The lemmas come in three layers. About `Codec`: positions in a payload only grow
(`PutInt`, `PutString`, `Ends`), a payload has room for what was reserved
for it (`ReservedPayload`, `SerializedPayload`), and a sample that was serialized
whole is read back whole, whatever the object and the payload held before
(`ReadBack`). About the path: what a transformation does to a payload
(`TransformedPayload`) and what a writer makes of what it is given (`WriteWhole`).
About steps: `PathInv` says which type each reused object has and
how much room, and which samples the history and the files are made of; it says
nothing of the *contents* of payloads and buffers, since those can be anything
after a sample that did not fit. `SamplesAreFaithful` then follows step by step,
each sample overwriting all that it reads. That `CHOOSE` finds the first
writer in the order of the list, in `on_received_data`, is the least-number
principle (`LeastNumber`), which the library's theorem on well-founded relations gives
without an induction scheme. `FilesKeepTheirLines` adds that the lines written for
a sample are the last ones of each file (`LinesGrow`), as many as it
has writers.

The proof found a mistake in an earlier form of the properties: `Suits` let a
`ShapeType` with a color of more than 255 characters through a generic
subscription to a publisher with a dynamic type, where `getKey` throws. `Suits`
now excludes it and the run has that route.

### The service

`DomainChangeProofs` proves, for all files (any number of connectors and
participants), arguments, programs and topics, `ServiceInvariance`, `NoUseAfterDelete`
(`NothingDeletedInUse`), `LateWritesFollowNames` (`GoneOnlyInNameOrder`),
`SafeOnceLoaded` (`CrashesOnlyWhileLoading`) and `WiredForGood` (`WiredInTime`), under
`ServiceAssumption`, and
`MatchesCounted` (`TypeOK`), which needs that a program that is not up has no
matches, and that matches are finitely many (`ProgramsInv`).
`ServiceInv` says how far each connector has been wired (`Wired`), in which steps the
lists of its tables grow and that an undisturbed connector loses none of them
(`Entries`), that callbacks run only for subscribers of participants that are up (`Called`), and
that participants go in the order of their names and everything else after them
(`TakenDown`).

`TextFlowProofs` proves `FlowInvariance` and `OnlyThroughIS`
(`OnlyThroughTheService`) for any number of publishers and subscribers that come and
go, and any number of samples, lost or not, under `OneTextRoute`: publishers and
subscribers are in two domains, and a file has at most one connector for the topic
of the texts, between two domains. With two, subscribers get every text twice. A
text goes through four places: a channel to the service, the callback, a channel
to a subscriber, and what that has received. `FlowInv` says that only ends of the
route are matched (`Routed`), that nothing is anywhere that has not been sent, or
past the service that it did not forward (`Sourced`), and that each place is in
order and behind the next one (`Sequenced`), which each move from one place to the
next keeps.

### What stays with TLC

Liveness (`EveryMessageReturns`, `LoadingEnds`, `ShutdownEnds`, `Communicates`),
which is out of the proof system's reach: a temporal argument under fairness needs
`ENABLED`. Every other property of a passing run is a theorem. The properties
of section 5 are false and are refuted by TLC alone.

## 5. Where the code and what is said of it part

Each of these is a run that TLC refutes; `PROJECT.json` quotes the line in question.

- `Bridge_MixedKinds`: the README promises mapping between data types; a
  connector with a transformation between a static and a dynamic type forwards
  nothing.
- `Dispatch_ColdStart`: `mm_mutex` is commented "Key is the writer"; the key is
  reader name and function, and the mutex of a key is itself made without a lock,
  so that there may be two, and two threads inside one writer.
- `Manager_SameName`: a connector with the name of an earlier one hides its
  bridge, which `ISManager` then never terminates.
- `Manager_Refused`: `createWriter` uses the publisher before it checks that
  there is one.
- `Types_Unlisted`: `resource/config.xml` says default libraries serve types
  without a library of their own; they are only asked for types whose own
  library failed.

## 6. What is not modelled

- The XML parser, Fast RTPS profiles (among them those of the TCP transport of
  `shapes_demo_tcp`), the log, build files, and the sizes and limits of Fast
  RTPS's histories.
- `HelloWorldTypeObject.cxx` of `dynamic_types`, which describes a type to Fast
  RTPS and keeps no state of its own.
- The black-box tests' programs: they start the service in another process and
  count samples with a timeout.
- Custom endpoints other than `FileWriter`. They are taken to have the name they
  are created with.
- Elements without a `name` attribute, a transformation without a file and a
  property with an empty text: the program constructs a string from null.
- The corruption of a `std::map` by threads that insert at once, and lines that two
  writers of one file write over each other.
- What the bytes of one type mean when they are read as another.
- The wiring of a connector onto a bridge that already has listeners of another
  connector, statement by statement. `ISBridge` has it, with each call as
  one step; `Service`, which has the statements, gives each connector a bridge of
  its own. So what the insertions of a second connector do to the searches of the
  first one's listener, and the other way round, is not shown.

## 7. Plan

Done: `ISBridge` and its refinement, `Dispatch` with both overloads,
`ISManager`, `TopicTypes`, `Codec` and `DataPath`, `Service` and
`DomainChange`, and a proof of every safety property that a passing run checks.
Left, in order:

1. That `Dispatch`, one statement per step and one thread per reader, implements
   the one step that `ISBridge` takes for a message, for bridges that are
   `Settled`: now the two are related by the routing tables alone.
2. What `EveryMessageReturns`, `ShutdownEnds` and `Communicates` need short of
   fairness, as action properties: a measure that every step of a thread lowers.
3. `TestHarness`: the black-box tests' wait for samples, whose listener counts
   without the mutex the test waits with.
