# XPCF in TLA+

XPCF is a C++ component framework: modules (shared libraries) hold components,
XML files and code bind interfaces to components, and a factory builds a
component with everything it depends on. The library also has a small threading
layer: synchronized queues and tasks. This directory models the parts of it whose
correctness depends on the order of events or on what files and callers may combine,
checks the models with TLC on small instances, and proves the main safety properties
with TLAPS for every instance.

Paths below are relative to the repository; `threading/` stands for
`interfaces/xpcf/threading/`.

## 1. Inventory

| Part | State it keeps | Operations | Hard behaviour | What makes it correct |
|---|---|---|---|---|
| Shared queues (`threading/SharedFifo.h`, `SharedLifo.h`, `DropBuffer.h`) | deque, hand-kept count `m_nbNotified`, `m_bReleased`, a mutex, a condition variable | `push`, `pop` (three forms), `tryPop`, `back`, `release`, `clear` | threads; `release` and `clear` take no lock; `notify_one`; timeouts; spurious wake-ups | the count is the deque's length; no pop from an empty deque; no item beside a sleeper nobody woke; `release` wakes everybody; class order |
| Bounded queue (`SharedBuffer.h`) | the above, capacity, start offset, `m_started`, a second condition variable | blocking `push`; `doPop` wakes a producer | two sides that sleep; pushes below the offset wake nobody | capacity; no free slot beside a sleeping producer; no deadlock; items are consumed, pushes end |
| Circular buffer (`SharedCircularBuffer.h`) | two cursors in a deque of fixed size | `push` overwrites the oldest, `doPop` | inherited `clear` and `back` ignore the cursors | the newest *size* items, in order |
| Several consumers (`MultiConsumer.h`) | one queue per subscriber, a count of takers, the flag of the first round | `subscribe`, `pop` with `init`, `release` | a blocking `pop` under a mutex; its result is ignored; three locks | each item reaches each subscriber once, in order |
| Tasks (`BaseTask.h`, `src/BaseTask.cpp`: `BaseTask`, `DelegateTask`, `FiberTask`) | stop flag, finalizers, a thread, a promise and its future | `start`, `stop`, `awaitRunning`, destruction, `process` | `stop` releases the queues and joins; detached threads; restarts; promises set twice | `stop` ends, one thread at a time, a lawful life cycle does not terminate the program |
| Fiber queues (`FiberFifos.h`) | the same templates over fiber primitives | as above | all fibers share one thread: a plain mutex stops all of them | as above |
| Factory bindings (`src/Factory.cpp`, `Factory.h`) | `FactoryContext`: auto, default, named, multiple and specific binds, factory methods; which factory has, copies or shares which context | `bind` (all forms), XML binds, `autobind`, `clear`, `createNewFactoryContext`, `resolveBind` | order of declarations, sharing | an explicit bind prevails; ranges isolate |
| Factory resolution (`src/Factory.cpp`) | singleton caches, the recursion | `resolve`, `resolveAll`, `createComponent` | recursion that re-enters a component; failure half-way; cyclic binds; singletons | only finished components get out; one instance per singleton; it ends |
| Registry (`src/Registry.cpp`) | modules, components, interfaces, the module of a component | `declareModule`, `declareComponent`, `declareModuleMetadata`, `loadModules`, `find*`, `clear` | a node that fails half-way; a module declared twice | every known component is listed by its module |
| Aliases (`src/AliasManager.cpp`) | names of interfaces, components, modules | `declareAlias`, `declareExplicitAlias`, `resolve*` | automatic and explicit declarations in any order | an explicit alias is not replaced by an automatic one |
| Property manager (`src/PropertyManager.cpp`) | the file of a module, the file of a component | `declareComponent`, `declareConfigure`, `configure`, `serialize` | order of loads; failure half-way; integers narrowed | the file used is one that configures the component; what was saved is read back |
| Properties (`src/Property.cpp`, `PropertyMap.cpp`, `PropertyWrapper.h`, `PropertySequenceWrapper.h`, `ConfigurableBase.cpp`) | type, access, values; maps of shared references | setters and getters by index, `setProperties`, `copyTo`, `addProperty`, `setProperty` | three classes with different rules; a copy of a property into itself | types kept, read-only stays read-only |
| Module manager (`src/ModuleManager.cpp`) | loaded libraries, known modules | `introspectModule`, `createComponent`, `saveModuleInformations` | filled on first use, without a lock | one entry point per module |
| Component base (`src/ComponentBase.cpp`) | reference count, interfaces, injectables | add and release a reference, declare, query | the count is not atomic | unloaded once, at zero |
| Component manager (`src/ComponentManager.cpp`) | a factory | a facade | none of its own | |
| Metadata, collections, paths, errors | contents of declarations | add, enumerate | none | |
| Remoting generators (`tools/generators/grpc`: `TypeDescriptor`, `ParameterDescriptor`, `MethodDescriptor`, `ClassDescriptor`, `GRPCProtoGenerator`, `ProxyGenerator`, `ServerGenerator`) | of the code they write: the members of a proxy that hold answers, and the two compression configurations | read an interface; write messages, proxy and server | five generators must agree on the direction of a parameter; callers share members of the proxy; a decoding that fails half-way | a call through the proxy is a call of the component |
| Remoting runtime (`interfaces/xpcf/remoting`) | none of its own | serialize, deserialize, read and combine compression configurations | the order of lines, two sides | the client's wish counts unless the server forces its own |
| tinyxml2, command line, samples, wizards, scripts | | | | not part of the core |

Interactions. A task's `stop` calls `release` on the queues declared as its
finalizers, then joins its thread, which is inside `pop` or `push` of such a queue.
The component manager hands every call to a factory. The registry reads modules
and calls back the factory's `autobind` for each interface it meets; the factory
asks the registry for the module of a component, the module manager for an
instance, and the property manager to configure it. A factory made from another
one copies or shares its bindings together with the contexts of the registry and
of the aliases. An application that is given a proxy component instead of the component itself
calls the same interface; the proxy sends the call to a server component, which holds the real
component as an injectable. A factory has no lock: it is used by one thread at a time, and
the models of it say so.

Everything in this code that is hard to test is listed, at its line, under
`hazards` in `PROJECT.json`.

## 2. Modules

| Module | Models | Extends |
|---|---|---|
| `SharedFifo` | the monitor of the three unbounded queues | |
| `QueueContract` | what a queue promises its callers (abstract) | |
| `SharedFifoProofs` | proofs about `SharedFifo` | `SharedFifo` |
| `SharedBuffer` | the bounded queue | `SharedFifo` |
| `SharedBufferProofs` | proofs about `SharedBuffer` | `SharedBuffer`, `SharedFifoProofs` |
| `CircularBuffer` | the circular buffer, one action per critical section | |
| `SlidingWindow` | what a circular buffer promises (abstract) | |
| `MultiConsumer` | several consumers on one circular buffer | `CircularBuffer` |
| `Broadcast` | what several consumers are promised (abstract) | `SlidingWindow` |
| `Task` | the life of tasks and their threads | |
| `Pipeline` | tasks whose threads are the consumers | `Task`, `MultiConsumer` |
| `PipelineProofs` | proofs about the buffer, the tasks and the rounds of the consumers | `Pipeline` |
| `FactoryContext` | the bindings and their search | |
| `Factory` | the recursive construction | `FactoryContext` |
| `FactoryProofs` | proofs about the bindings and the recursion | `Factory` |
| `Registry` | what loads leave in the registry and in the aliases | |
| `RegistryProofs` | proofs about `Registry` | `Registry` |
| `PropertyManager` | which file configures a component, composed with the registry | `Registry` |
| `PropertyManagerProofs` | proofs about `PropertyManager` | `PropertyManager`, `RegistryProofs` |
| `Property` | the three classes of properties, as operators | |
| `PropertyMap` | the property objects and maps, and what the application does with them | `Property` |
| `Configuration` | `configure` and `serialize` of a component | `PropertyMap` |
| `OrderedAssignments` | what a configuration is (abstract) | |
| `ConfigurationOrder` | the refinement and the round trip of `Configuration` | `Configuration` |
| `ConfigurationProofs` | proofs about `Configuration` | `ConfigurationOrder` |
| `Signature` | how the generators read a method: types, directions, messages | |
| `Compression` | what the lines of compression configurations mean on each side | |
| `RemoteCall` | calls through generated proxies and servers | `Signature`, `Compression` |
| `RemoteCallProofs` | proofs about `RemoteCall` | `RemoteCall` |
| `MCSharedFifo`, `MCSharedBuffer`, `MCPipeline`, `MCFactory`, `MCRegistry`, `MCConfiguration`, `MCRemoteCall` | instances for TLC | |

### SharedFifo

One action per stretch of code that no other thread can see the inside of.
`pop`, the timed `pop` and `back` share the shape *lock, loop, finish*, cut into:
`Call` or `Resume` (take the mutex, evaluate the `while` condition: `MustWait`),
`Sleep` (`wait(lock)` releases the mutex and sleeps atomically) and `FinishPop` or
`FinishBack` (what follows the loop, up to the unlock). The cuts are where
`release()` can interfere, since it writes `m_bReleased` and calls `notify_all`
without the mutex; these two statements are `ReleaseFlag` and `ReleaseNotify`.
`m_bReleased` is a `volatile bool` (SharedFifo.h:219) and no atomic, and `release()` writes it
while others read it: nothing makes the store visible by any time. `ReleaseSeen` is the
moment at which the reads begin to find it, before or after the notification, however late.
`push` and `tryPop` are one critical section each. `back()` throws when it finds nothing,
`back(T&)` (`backInto`) answers with `m_bReleased` (`BackAnswers`). `SpuriousWakeup` and `Timeout` (which
may coincide with a notification) are what a condition variable may do. The class
of the queue is a variable that never changes: it selects the data discipline
(`Insert`, `NextItem`, `Remaining`, `CountAfterPush`) that `SharedLifo` and
`DropBuffer` override.

`clear()` has no lock either. Run beside another call it would be a data race on
the deque; the model has it when every thread is outside the queue or asleep
(`Quiescent`), which is how it can be used.

History variables: `slept`, `returned`, `missed`, and in `fpc` whether a notification of
`release()` came before its flag could be seen (`early`) or not (`done`). `missed` says that a notification
woke a `back()`, which leaves the item and notifies nobody else. `pushesLeft`
is the bound.

### SharedBuffer

Adds the producer's side with the same cuts (`PushCall`, `PushSleep`,
`PushResume`, `PushFinish`), the constructor for every capacity and start offset up
to `MaxSizeBound`, and the notification of `m_condQueueNotFull` at the end of
`doPop`. `release` is the inherited one, which notifies `m_condQueueNotEmpty` only.

### QueueContract

A queue without threads: `Put`, `Take`, `Peek`, `Refuse`, `Close`, `Discard`.
`SharedFifo` and `SharedBuffer` implement it under the mapping `queue <- m_data,
closed <- m_bReleased`; every call takes effect in its last critical section.

### CircularBuffer, SlidingWindow

A deque that keeps the length the constructor gave it, the two cursors and the count.
`Store` and `DoPop` move them; `OverwriteOrGrow` is the rule that a push into a full buffer
moves the pop cursor instead of the count. `SharedCircularBuffer` inherits `clear`,
which empties the deque: the next push writes an element that does not exist
(`StoreNowhere`, `undefined`). The blocking calls are not here: whoever makes one cuts it
into steps. `SlidingWindow` is the promise: the newest `Size` items, oldest first, until a clear.

### MultiConsumer, Broadcast

`pop(consumerID)` cut as in `SharedFifo`, wherever `release()`, which takes no lock,
can get between a test and the wait; as in `SharedFifo` the flag it writes (`FlagReleased`) is found
by the readers some time later (`FlagSeen`). A thread that starts a round runs `init()` under
`m_mutex`, the blocking pop of the source included (`SourceTest`, `SourceSleep`,
`SourcePop`), then pushes the item into the buffers of all consumers one after the
other (`Fill`). A source that is released and empty leaves `init()`'s local as it was
constructed, and the default value is pushed. `OwnTest`, `OwnSleep`, `OwnPop` are the pop of
the consumer's own buffer, `Count` the count of takers. The consumer IDs are those that `subscribe` gave;
any other is refused with an exception (MultiConsumer.h:75), which changes nothing. Mutexes have no variable; the program
counters say who holds one. `Broadcast` is the promise: each item of the window reaches
each consumer once, and none is taken before everyone has had the one before.

### Task

`BaseTask`, `DelegateTask` and `FiberTask` differ in when they renew the promise of
`awaitRunning` (`RenewPromise`) and in what their destruction does (`Destroy`). One
application thread calls `start`, `stop`, `awaitRunning` and destroys; each start spawns a
thread that signals, tests the flag and calls the processing function. `AwaitRunning` is the whole
call: it returns at once of a task that is stopped, throws when there is no future to wait for (`NoFuture`), and waits. `stop` sets the
flag, releases the finalizers in order and joins if it can; a task that is not joinable
detaches its thread. What ends the program (a thread assigned or destroyed before it is joined, a
promise set twice, a thread of a task that is gone) is `crashed`. History: `lawful`, whether the
application has kept to the life cycle (start what does not run, a `BaseTask` once; destroy
what does not run). `setUp` chooses class, joinability, finalizers and numbers of starts once.
A stop predicate captured by reference in the constructor (`BaseTask.h:76`) is left out.

### Pipeline

The product of `Task` and `MultiConsumer`. The application that puts them together is external: the repository
has one in `test_threading_multiconsumer`, which is commented out. The
processing function of a task is one `pop` of its consumer, its finalizers release the consumers'
buffers (and, in some set-ups, the source). A `MultiConsumer` takes any `IFifo` as its source
(MultiConsumer.h:34); the model has the circular buffer, the one whose pushes and pops have a state of their own. `Cleanup` is one statement of one `release()`.
Fibers take turns: `SwitchTo` happens only where the running fiber gives the processor away
(`MayYield`); the consumers' own buffers are plain `SharedFifo`s whatever the namespace is, so that
a fiber that waits in one stops them all, `stop` included.

### FactoryContext

The maps of `FactoryContext` in `Factory.h` are functions from a context to binds,
`None` where the map has no entry. `m_context[f]` is the context of factory `f`;
two factories created in mode *Shared* have the same one. A bind is
`[component, scope, range]`, and a range the set of its flags, so that the core
mask 0 is the empty set. `BindOf` is the flag that the XML declarations add to the
range. `DeclareComponent` and `DeclareModuleMetadata` are what the registry
contributes: the first skips a component that is known, the second does not.
`ResolveBind` and `ResolveNamedBind` are the two searches: `levels` is the deque of
contexts, innermost first; `LastLevel` is where the loop over it ends.

`multiBound` is the keys of `multiBindings`: `declareMultiBind` makes the entry before it reads the first
component (Factory.cpp:448), so that a bind that cannot be read (`DeclareMultiBindFails`) leaves an
empty one, of which `resolveAll` makes an empty set.

The name of the properties of a bind, which only selects what `configure` reads,
is left out.

### Factory

The recursion `resolve`, `resolveComponent`, `inject`, `resolve` is an explicit
`stack` of frames (a component being built, or a `resolveAll` in progress), the
exception in flight is `thrown`. `Enter` is the beginning of `resolveComponent`,
`InjectNext` one turn of the loop of `inject`, `MultiNext` and `MultiReturn` the loop
of `resolveAll`, `FinishComponent` the configuration that succeeds, the cache and the
return, `ConfigureFails` the one that does not, `ConfigureIgnored` the error code that
`createComponent` does not look at, and `Unwind` the catch clauses of
`inject`. An exception is an `xpcf::Exception`, which `inject` swallows for an optional injectable, or
another, as a number out of range in a configuration raises, which no clause catches (Factory.cpp:907-916). Which creations or configurations fail is nondeterministic, among the
components of the constant `Unreliable`. The stack of the thread has room for
`DepthBound` frames, and the recursion no guard of its own: when it is full the
process ends (`crashed`). History: `instances` (every component created, what it
was given, whether it was finished, whether a `clear` has removed the binds it was
wired by) and `outcome`.

### Registry

A file is the sequence of its nodes in the order `loadLibrary` meets them, and one node
is one step: `DeclareModule`, `DeclareComponent`, `DeclareInterfaceNode` or
`SkipInterfaceNode` (below a component that is known), `DeclareAliasNode`. A node whose
uuid cannot be read throws through all levels and ends the load (`NodeFails`); what was
recorded before stays. `LoadModuleMetadata` is `introspectModule` followed by the
beginning of `declareModuleMetadata`; `DeclareIntrospected` is one turn of its loop,
`CreateFails` the turn in which the component cannot be created. `loadModules` on a folder is
a sequence of them. The entries of `objects` are the `ModuleMetadata` objects that the registries and the module
manager point to: the manager's map is shared by all factories and never cleared, and a
clone copies pointers. `aliases` and the registry's maps are kept per context and follow
`m_context`, which stands for the contexts of the factory, the registry and the alias
manager together, as `createNewFactoryContext` treats them. History: `bound` (the
autobinds a context was told of), `declared` (explicit aliases), `halfDeclared`,
`brokenModules`.

Left out: attributes other than `uuid` and `autoAlias` (a node has the ones it needs, and the name in
a file is the one its library gives), the factory and properties sections of a file
(`FactoryContext` has the former), and the vectors that repeat the maps. The interfaces
of a component are a set, where the code appends them again at each introspection.

### PropertyManager

Every step of `Registry` again, with what it does to `moduleConfigMap`, `componentConfigMap`
and `configFilePath`. A `<configure>` or `<component>` node found while a file is loaded is declared
(`DeclareConfigured`) for the module the registry knows for the component at that moment; `ConfigPath`
looks the file up for the module known when the component is created. History: `configuredBy`.

### Property, PropertyMap, Configuration, OrderedAssignments

`Property` has the three implementations of `IProperty` as operators from a property to an outcome.
A text is the number it begins with and the kinds of characters that follow, as far as `stol`, the parser and the
properties tell them apart. They differ: a setter of the wrong type does nothing to a wrapper, and gives a `Property`, which keeps
`any` values, a value it cannot read; only a `Property` looks at its access, and only the
setters of strings clear it. The getter of a string of a `Property` answers a pointer into a temporary that is gone
(Property.cpp:87): `stray` is whatever text its caller reads, one for all such reads of a call. `CopyTo` keeps the switch that forgets `LONG`, `ULONG` and `DOUBLE`.
Integers have the widths `IntBits` and `LongBits`; a decimal number is counted in thirds of the last printed
decimal, enough to tell rounding from truncation.

`PropertyMap`: properties are objects that several maps may refer to, a structure refers to a map, and
`setProperty` copies the access and forgets what `copyTo` answers. `WellTyped` is what the class of a property
and the type of its values allow; the set-ups of an instance start there, and `TypeOK` says that they stay.

`Texts`, and `Elements` of `Configuration`, say what a text and a file are: elements in elements, to the depth
`MaxNesting`, each with the attributes that the code reads.

`Configuration`: `walk.todo` is the remaining work of the nested loops of `configure`, so that each node
visited is a step and a failure leaves what was set before it. `Read` is `stol` and its relatives
followed by the narrowing of the setter. `Serialize` appends a section to the file, whatever mode is asked
for; a later configuration reads the first section only. What comes back of a text that was written is what
the parser makes of it: `Loaded` has a carriage return turned into a line feed, and `LoadedValue` a `<value>` of
white space as one without text, at which `configure` fails (`VisitNoText`, PropertyManager.cpp:349). `PropertyElements` and `SerializeFault` recurse as
`serializeParameter` does, over the maps of structures. History: `saved`, the component, the properties and the maps as they
were at the first `serialize` to a path without a file.

`OrderedAssignments`: a configuration is a sequence of assignments; they are made in order up to the
first that cannot be made. `ConfigurationOrder` reads these off the file without walking it: `Assignments` goes
down the elements, and takes for a number the one value of the type that is congruent to it.

`RoundTrip`, in `ConfigurationOrder`, relates a file to the properties it was made from, at any depth of
structures. `Asked` are the assignments that give back what was saved, each to the item of the reading component that
the same names lead to. The reading component may be another one, with longer sequences or more properties. What
`RoundTrip` asks for: the same class, a call without a name, no alias named like the class; each value one that is written
(no wide string, no `Property`, one map per structure), whose text comes back from the parser as it is (`StorableText`: no
carriage return, no empty text, and no text of white space only as one of several values), and that has a place; and one
value per place, which two maps that share a property may not have. In each excluded case `configure` fails or
leaves something else than was saved.

The setters `setName` and `setAccessSpecifier`, and a `copyTo` called by the application, are not in the
environment; nor is what a getter answers to an index the application made up (`Property.cpp:75`).
Files are well-formed XML with the attributes `type` and `component` or `uuid`.

### Signature, Compression, RemoteCall

What is modelled is the generated code, which is the same for every interface up to what the
generators concluded from its declarations. `Signature` has these conclusions as operators.
A type is its layers, from the outside in, as `TypeDescriptor::parseType` peels them. `IsConst` is the count
that it makes: at least as many const as references, over the type and all its template
arguments together. `IOType` is the direction that follows from it and from the attributes of the parameter.
`RequestFields` and `ResponseFields` are the messages that `GRPCProtoGenerator` writes, `ReadBefore` the outputs
that the proxy has read before it comes to one, `WireBits` the width of the field that carries a builtin type, `RpcName` the name
overloads get, `IsKept` whether an answer is stored in a member of the proxy, which is named after
the method without the number of its overload.

`Compression`: `ReadLine` is `translateClientConfiguration` and `translateServerConfiguration`, which
differ in their default only: the last line for the service counts, the first for a method.
`DeduceClient` and `DeduceServer` combine them for a call.

`RemoteCall`: a call is `CallProxy` (the generated method up to the stub), `Handle` (the service method of the
server), then `Receive` (the outputs, and the answer if it is not stored) and, for an answer stored in
the proxy, `ReturnKept`. `RpcFails` and `DecodingFails` are the two exceptions. The proxy has no lock:
two threads between `Receive` and `ReturnKept` race for the member, and the loser may read anything (`Lost`).
Values are symbolic. An argument is named after its caller and position; what the component writes
names the component's method, the place and all that it has read, so that a parameter that did not arrive,
arrived cut to fewer bits, or came back in the wrong place shows in the caller's variables. The component is external:
it reads and writes all that its declaration lets it read and write. `InterfaceCompiles` says which
interfaces yield code a compiler takes; TLC checks it for the instance.

Left out: names the user gives to messages and rpcs, streams, the exception for `void *` when the
messages are written, and what `protoc` and the serialization of user types do.

Definitions marked *Faulty* are variants with a plausible mistake. No
specification uses them; each, put in place of the definition it stands before,
makes one of the properties fail, which `PROJECT.json` records under `mutants`.

## 3. Runs

| Run | Instance | Shows |
|---|---|---|
| `shared_fifo` | three consumers with different calls, all three classes, 3 pushes, two releases | `TypeOK`, `CountMatchesData`, `NeverPopsEmpty`, `NoStrandedItem`, `SeenReleaseMissesAtMostOne`, and the refinement `ImplementsContract` |
| `shared_buffer` | two producers, two consumers, capacities and offsets 0 to 2, 3 pushes, one release | `WithinCapacity`, `NoStrandedSlot`, `DeadlockOnlyAtFullOffset`, `ImplementsContract` |
| `shared_buffer_live` | the same with `pop` only (a timed `pop` would fetch items nobody announced), fair | `ItemsAreConsumed`, `PushCompletes` |
| `pipeline` | two consumers on a buffer of 2, 3 pushes, five set-ups of tasks with up to two starts | `TypeOK`, `OneThreadPerTask`, `LawfulTasksNeverCrash`, `AwaitedHasStarted`, and the refinements `ImplementsWindow`, `ImplementsBroadcast` |
| `pipeline_stop` | the same, 1 push, one start of each of two tasks whose finalizer is the `MultiConsumer`, fair | **violation** of `StopReturns` |
| `factory` | two factories, three components that depend on each other and a core one, seven binds, 3 declarations, 2 calls, stack of 5, fair | `ExplicitBindReplacesAutobind`, `OnlyFinishedComponentsEscape`, `ExplicitOnlyGetsItsOwn`, `StaleSingletonsOnlyWhenShared`, `SingletonsAreKept`, `ResolveEnds` |
| `factory_autobind` | the same | **violation** of `FirstAutobindIsMaintained` |
| `factory_singleton` | the same | **violation** of `OneInstancePerSingleton` |
| `registry` | two factories, two modules, three components of which two share a name, three files, 4 loads, clears or new factories; the property manager's maps beside them | `TypeOK`, `KnownModule`, `ExplicitAliasPrevails`, `AutomaticAliasesAreKnown`, `ListedInterfacesAreBound`, `ModuleKept`, `HalfDeclaredStays`, `ConfiguredFromADeclarer` |
| `registry_listed` | the same, 2 loads | **violation** of `KnownComponentsAreListed` |
| `configuration` | two components of one class in three set-ups of five properties, in one of which the maps inside structures share properties with a root map, five files, 3 calls | `TypeOK`, `RoundTrip`, and the refinement `ImplementsOrderedAssignments` |
| `remote_call` | two threads, 2 calls, fourteen methods of which five are at the limits of the generators, three configurations of the proxy and four of the server | `AnswersLikeTheComponent`, `ThrowingTearsNothing`, `ClientChoosesCompression` |

Bounds. The queues: two consumers that block are what a lost wake-up needs (one
to take the notification, one to sleep on), a third polls and steals; with 3 pushes
a queue fills, empties and fills again, and a buffer of capacity 2 is full with a
producer waiting. Offsets above the capacity are among the constructor's inputs.
The factory: three declarations suffice to bind both sides of a dependency
and to load, copy, share or clear in between; two calls are needed to see a
cached singleton again; five frames hold the recursion A, B, A and a multiple
bind inside it. Two components depend on each other through optional and
mandatory injectables, one may fail. The registry: four loads allow a faulty file, its
correction, an introspection and a clear or a second factory; one file gives a component
to the module that does not have it in its library, one has a fault behind its first interface.

The pipeline: two consumers are the least that have a round to complete, three pushes go once
around a buffer of two and overwrite; two starts of one task show what a restart inherits. The
set-ups are the classes with the finalizers of the test, with the source released too, and one
that cannot be joined, whose threads pop side by side. The configuration: three calls
allow serialize, change, configure; or two configurations and a change between them. Structures are nested
once (`MaxNesting`); 2 and 3 bits have numbers that are narrowed, that change their sign and that no type can
hold. The files have the faults of each kind, behind and before elements that succeed.

Remote calls: two threads with one call each are what a race for a member of the proxy needs, and one
thread with both uses a member that holds an answer already. Parameters are taken one by one by the generators, except for
their order; the methods have each kind of type in each direction, attributes that agree with the type, correct it
and combine, two pairs of overloads (one shares a member), answers of every kind, and compression
disabled. The configurations have repeated lines for service and method, short lines and forced ones.

Symmetry is used for the values only, in the runs without liveness properties.

Deadlock. TLC's check is on for the queues: a consumer that polls, or a spurious
wake-up, is always possible there, so that the sleeping of everyone is stated as a
property (`DeadlockOnlyAtFullOffset`) and not left to it. It is off for the factory, the registry, the pipeline,
the configuration and the remote calls, which do stop: when the application makes no more calls, when the
program has crashed, and, in the pipeline, when a `stop` hangs as `pipeline_stop` shows.

Fairness. `FairBSpec`: a consumer that can run runs (WF), a timeout
comes (WF), a `stop()` that began goes through (WF); consumers are tasks that call their processing
function again and again (`AbstractDelegateTask::process`); a producer in `push`
that wants the mutex is not overtaken for ever (SF), because a mutex that starves
a thread while others come and go is the scheduler's failure and not the queue's;
spurious wake-ups, possible at any time, do not go on for ever. Nobody
has to push or to release. `FairSpec` of `Pipeline`: a call of the application in progress goes on (WF) and
each thread that can run runs (WF), which is what the operating system does, and the stores to the flags are seen
at last (WF), so that the hang is not on their account; nothing
is assumed of the producer, of the calls the application makes, of `clear`, of spurious wake-ups or of
fibers, which give the processor away only where they choose to. `FairSpec` of `Factory`: a call in progress goes on, it
waits for nothing.

### What the violations show

* `MultiConsumer::release()` (`threading/MultiConsumer.h:48`) releases the consumers' buffers. The consumer that begins a
  round waits in the shared queue, inside `init()` and under `m_mutex`: the `stop()` of its task hangs in `join` unless
  somebody releases that queue or pushes to it. With finalizers that release the shared queue too (`ReleaseBoth` of
  `MCPipeline`) `StopReturns` fails all the same, since `release()` (`threading/SharedFifo.h:197`) takes no lock: a consumer that has read
  `m_bReleased` as false and has not reached `wait(lock)` misses the flag and the
  notification and sleeps for ever. The flag is no atomic, so that others may read the old value after the
  notification too, and any number of them fall asleep. `SeenReleaseMissesAtMostOne` says how far the damage goes when
  the flag can be read as the notification comes: the mutex lets one consumer
  at most be between its test and its wait.
* `autobind` (`src/Factory.cpp:629`) overwrites: the last component that declares an
  interface has the autobind, where the documentation says the first one keeps it.
* `resolveAll` (`src/Factory.cpp:1034`) goes on to build an instance of its own for a
  bind whose shared singleton it has just delivered. A construction that comes back
  to the singleton it is building (A, B, A) makes a second instance too;
  `SingletonsAreKept` says that there is no third way.
* `declareModule` (`src/Registry.cpp:395`) adds the components of a second declaration of
  a module to an object that it does not register: they are known, `create` works, and
  `findComponentMetadata` returns a null pointer for them.

Two more disagreements were met and have no run. IPropertyMap.h:49 and IProperty.h:214 leave a property that is OUT to
the component, while the setters of the wrappers (`PropertyWrapper.h:255`) and `configure` never look at the access: in the
model the application changes one. What does hold is the theorem
`OutPropertiesAreKept`: `setProperty` changes nothing of it, and it stays OUT. And `inject` (`src/Factory.cpp:907`) says that it throws
only when an injectable is mandatory, but has no clause for exceptions that are not of `xpcf::Exception`: a number out
of range in the configuration of a component that is only optional ends the resolution.

Six properties state limits of the code without a document that says otherwise:
`HalfDeclaredStays` (a component whose node failed is not read again from a corrected file), `RoundTrip` (what `serialize` wrote is read back under the
conditions its definition names; what each of them excludes is lost or changed),
`AnswersLikeTheComponent` and `ThrowingTearsNothing` (within what `WithinLimits` names, a call through a proxy
is a call of the component. Outside of it are: a `std::string` result, which the server does not send and the
proxy does not return; a reference to a builtin type or an enumeration as result, which leads to a temporary;
`T<const U> &`, which the count of const takes for an input; a shared reference by value, whose object
is copied; a parameter by value whose template arguments hold a reference, which the server does not read;
a parameter declared an output whose type cannot be written; a third attribute of one parameter;
`int_fast16_t` and its like where they have 64 bits, cut to 32),
`DeadlockOnlyAtFullOffset` (the push that reaches the start offset notifies nobody, so
that a buffer whose offset is its capacity can put both sides to sleep) and
`StaleSingletonsOnlyWhenShared` (a `clear` of a shared context leaves the singletons of
the other factory).

## 4. Proofs

Every safety property that a passing run checks, and each refinement, is also a theorem, for every value of the constants. The
theorems are in the eight modules named `...Proofs`; each states the properties of the module it extends.

`SharedFifoProofs`, for any finite set of consumers, any finalizers, values, calls, classes and number of pushes:

* `TypeCorrect`, `CountCorrect`, `PopsAreSafe`. None of the three is inductive alone.
  The inductive invariant `LockInv` adds: the mutex has as owner the one thread that
  is between lock and unlock (`LockOwner`); what the locals of a call say about where
  it is (`CallState`); and what the test of the loop found still stands when the call
  goes on (`TestStands`). The last is the heart of it: `release()` may change
  `m_bReleased` between the test and what follows, but only from false to true, and
  the count cannot change because the mutex is held.
* `SeenReleaseIsMissedByAtMostOne`, from `LockInv` and `ReleaseState`: when `notify_all` has
  run with the flag to be seen, whoever is still about to sleep owns the mutex, and after the flag is set nobody
  new gets there.
* `EveryItemIsAnnounced`: `NoStrandedItem` is inductive relative to `LockInv`, by a
  count over the set of woken consumers; each step adds or removes one member at most.
* `Refinement`: `Spec => Contract!Spec`. Each step maps to a step of `QueueContract` or to
  none; `TestStands` is what rules out a blocking `pop` that gives up too early.

`SharedBufferProofs`, for any producers, capacity and start offset as well:

* `BufferInvariant`: `BufferInv` is the invariant of the inherited monitor, with a mutex that now has two kinds of
  owners, and `PushInv`: what the test for room found still stands when the push goes on (`FullTestStands`), and
  a buffer that has not started is below its offset or can hold nothing (`StartState`). Each inherited step is a step of
  `SharedFifo` (`InheritedIsFifoStep`), whose lemmas are used again. `CapacityKept` follows.
* `EverySlotIsAnnounced`: while producers sleep, each free slot has a woken one. Slots that a `clear` made
  free are excepted, because it notifies nobody.
* `OnlyFullOffsetDeadlocks`, from `Announced`: the wake-ups owed to consumers, counted from the start
  offset on. With an offset below the capacity the push that fills the buffer owes one, so that a consumer
  is awake; with an offset that equals it, it owes none.
* `BufferRefinement`: the bounded queue implements `QueueContract`.

`PipelineProofs`, for any number of tasks and consumers, any classes and finalizers, size and items:

* `CursorsAlwaysAgree` (the push cursor is the count ahead of the pop cursor modulo the size, until a clear) and
  `BufferImplementsWindow`. The lemmas about `Forward` do the arithmetic of the cursors without a modulus, by cases
  on the end of the deque. `SourceIsAWindow` is the same of the buffer inside the composition, each of whose steps is a
  step of the buffer or none (`StepOfBuffer`).
* `TasksHaveOneThread`, `LawfulNeverCrash`, `AwaitingMeansStarted`, from `LifeInv`. Its part `LifeCycle` ties a task
  to its threads: the thread that can be joined is that of the last start, one that was just spawned finds a
  promise without its value, and the value is there only when the thread of the last start has set it. An application that keeps to the life cycle
  joins before it starts again, so that no thread meets a promise that another one has set.
* `TypeCorrect`, with `MultiInv`. The item that is handed round may be none of the pushed ones: a `clear` in the
  middle leaves default values.
* `BroadcastImplemented`, from `RoundInv`: one thread at most is inside `init()` (`OneInInit`); while an
  item is out, the count of takers, the threads about to count and the consumers that still have the item
  in their buffers add up to the number of consumers (`RoundAccounted`). Three different mutexes guard the
  three terms of this sum, and no step may lose or double a member on its way from one to the next.

`FactoryProofs`, for any factories, components, interfaces, binds, injectables, failures and depth of the recursion:

* `ExplicitBindsPrevail`: no order of binds, loads, clones, shares and clears puts an autobind next
  to an explicit bind. `ContextInv` adds the types, which say that each factory's
  context is one of the contexts; `FactoryStepsAreContextSteps` lifts it from the
  bindings to the factory, whose resolution steps leave the bindings alone.
* `OnlyFinishedEscape`, from `CallInv`, an invariant over the whole stack: what is injected, cached or handed to the
  frame below is finished (`InjectedOK`, `CachedOK`, `Returnable`); every frame but the top one waits for an
  injectable (`Waiting`), what a `resolveAll` in progress will return goes to a multiple injectable or to the caller
  (`AllFramesCalled`), so that an empty set it returns is no missing one, and outer constructions began before inner ones (`Ordered`), so that no two frames
  build the same instance.
* `ExplicitGetsItsOwn`: what a component bound for explicit injection was given came from its own binds or the core,
  at any depth. It needs that the search ends at its own level (`ExplicitEndsSearch`).
* `StaleOnlyWhenShared` and `SingletonsKept` (an action property), from `SingletonFramesOK`: a construction
  is only found beside a cached instance of its own singleton when that instance was begun after it, which is
  the one way in which a cached instance is overwritten.

`RegistryProofs`, for any files, libraries and factories:

* `TypeCorrect` and `KnownModulesAreRegistered`. A component is recorded under the uuid of
  the object being read, which may not be the one registered; that the module is
  registered all the same is `LoadOK`, which holds because a component is only read
  below a module node (`ModuleFirst`) or from a library that lists it (`ManagerOK`).
* `ExplicitAliasesPrevail`, inductive relative to the types; `AutomaticAliasesName`, which adds that the
  name of a component or interface that no `<aliases>` section gave is one of those the context knows (`AliasesKnown`).
* `ModulesAreKept`, an action property, from `ContextsOK`: a factory that does not exist yet has
  a context that knows nothing, so that a clone overwrites nothing.
* `ListedAreBound`, from `BoundInv`: what an object lists is bound in every context where it is registered
  (`FileObjectsBound`), or will be by the introspection in progress (`Pending`), unless one was cut short.
  The danger is an object that several contexts share while one of them only is being told; `FillsItsObject` rules
  it out: a file fills an object of its own, registered in the context of the load if anywhere, and
  only an introspection fills the one that the module manager shares.
* `HalfDeclaredStayHalf`, an action property: a component whose node failed is known, and a
  known component is skipped.

`PropertyManagerProofs` proves `ConfiguredFromDeclarers`. `ConfigInv` adds that a component's own path is
one of its declarers' (`OwnPathDeclared`) and that nodes of a file are read under its path (`PathOK`). The
danger is a component that is looked up under a module it was not stored under: a known component stays
with its module (`Keeps`), which comes from the invariant of `RegistryProofs`; that one carries over because
each step of the composition is a step of `Registry` (`StepOfRegistry`).

`ConfigurationProofs`, for any set-ups, files and widths:

* `OutPropertiesAreKept`. Lemmas say what each setter may do to a property that is OUT (`SetItemKeeps`,
  `ConfigureValueKeeps`) and that a copy is only made into one that is not (`CopiesSpareReadOnly`); the invariant
  `PropertiesAreThere`, that there are properties for the references only, turns an EXCEPT into a
  change of one of them.
* `TypeCorrect`. `TypesInv` has a part for the properties, one for the maps and one for the walk of
  `configure`, which remembers references to properties while it goes. One lemma per operation says what becomes of the type of a
  property: what was read from text is narrowed to its width (`ReadFits`), a copy into another
  class of property takes only the values that fit (`CopyToTypes`), a resized sequence keeps one type (`ResizedTypes`).
  Files and nodes are typed as well: what `serialize` appends is a section (`SectionTyped`), and what a visit opens are nodes.
* `ConfigurationIsOrdered`: `configure` implements `OrderedAssignments`, for any nesting. What is pending is computed from
  all nodes still to visit (`RestNow`). A visited node is replaced by the nodes it opens, which make the same assignments
  (`ElementOpened`, `PropertyOpened`, `RestOfBoth`), or it is a value and makes the first one, or a fault (`VisitSteps`). The difficulty
  is that the assignments are read off the file with the properties as they are now, which the walk is changing: what a file
  assigns depends on names, classes, types, sizes and the maps of structures only (`SameShapes`, `SameAssignments`), and
  no assignment touches those (`WriteKeepsShapes`), because a structure is never assigned to. `Meant` is not
  computed as `Read` is; that both agree is `MeantIsRead`, with the arithmetic of residues in `OneCongruent` and `ReadIsCongruent`.
* `SerializedIsReadBack`: `RoundTrip`. `SavedOK` says that a file that `serialize` created begins with the section of its first
  call and never gets a `<configuration>`. `AllBack`, by induction on the depth, says that reading the element of a property makes exactly
  the assignments that are asked: the texts that are written come back from the parser (`LoadedTyped`, `SavedWith`) and are read as the values they stand for (`ReadBack`, `NumberMeant`), and the element
  of a structure opens the elements of its map (`StructureWritten`, `MapBack`). `BackOK` is the
  invariant of the walk that reads: what is pending was asked, and what was asked is pending or there. An assignment
  keeps it because no two values are asked for one place.

`RemoteCallProofs`, for any interface, callers and configurations:

* `AnswersAreKept` (`KeptAnswersStay`): the reference to a member that a caller holds leads to its own answer unless
  another answer was stored there since the call stored its own. `Receive` is the step that matters:
  it marks every call that shares the member, itself included when it races.
* `ProxyIsTheComponent` and `NothingIsTorn`, from `AnswerInv`, which adds what request, response, the caller's variables
  and the answer are at each stage of a call (`CallOK`). `Limits` says of each parameter within `WithinLimits`
  that the five generators agree on its direction and on the field that carries it.
* `ClientsChoice`, for configurations of any length: `LinesAreRead` says what the fold over the lines has found
  after each of them, `OneLine` that the first line for the method is the one that counts.

Induction. What a recursive function computes is proved where the proofs need it (`DeclaredOnce`,
`ItemsAreCopied`, `LinesAreRead`, `FlattenSteps`, `AssignmentsAre`, `PropertyElementIs`, `AskedIs`): a lemma `StepByStep`, from the library's theorem on well-founded orders,
states induction up to a number for a set of numbers, which the provers can use, and each such
function is defined by recursion in a LET. Definitions that were folds of the community modules are written this
way in the modules with such proofs.

Assumptions are the named ASSUMEs of the modules; TLC evaluates them in every run. Those that are more than types and bounds:
a map without an entry is told from one with an instance (`NoneIsNoInstance`); the items pushed are values
(`ValuesAssumption`); an application starts with properties as their constructors make them (`SetUpsAssumption`) and
sets values of the type of the setter (`SettingsAssumption`), as the C++ compiler demands; an interface is a
sequence of methods with sequences of parameters (`InterfaceAssumption`) and a configuration a sequence of
lines (`ConfigsAssumption`); the files that are there at first are well formed (`ContentsAssumption`); the UUID of a
class is a text, and the malformed ones are told from it (`UUIDAssumption`); the null pointer is none of the texts or files
(`NullAssumption`), what is read through a pointer to a string that is gone is a text (`StrayTextsAssumption`), and a fault none of the assignments (`FaultAssumption`). `PowersOfTwo` and `StringsAssumption`
(the words of the model are strings) are true of every instance; the provers have no theory of powers and know no
member of `STRING`.

Some faults of the models came out of attempts to prove them. `WithinLimits` did not exclude a parameter declared an
output whose type cannot be written, nor a third attribute, which the generators treat differently. The
alternatives of `DefaultItem` overlapped, which TLC resolves by taking the first and the language does not.
`RoundTrip` lacked premises that the instance met by itself: that both components are of one class, that no alias is
named like it, that no two values go to one place; and it looked at two levels of structures only. The instance has
shared properties inside structures since.

Only model-checked: the liveness properties `ItemsAreConsumed`, `PushCompletes` and `ResolveEnds`
(fairness is out of the prover's reach), and what the violation runs refute.

## 5. Not modelled

`components` in PROJECT.json lists every part with its status. Left out by choice:

* Text: the syntax of XML, messages, paths of the file system. A file is a sequence of the
  declarations the code reads from it; files are well formed, with the attributes that the code hands
  to a `std::string` present.
* The loading of libraries by the operating system (boost) and the durations of timed calls: a load is a
  step that may fail, a timeout one that may happen.
* `tinyxml2`, a vendored parser, a fifth of the lines of code, but for what it does to a text that `serialize` wrote; the samples, wizards, scripts and build files.
* Of remoting: grpc itself, credentials and channels; the parser that finds the interfaces in the headers (`ASTParser`),
  the layout of the generated text, and the generators of projects, mocks, flat buffers and configuration files.
  The command line tools print what the library answers.
* The facade of the component manager, collections and enumerators, the text of errors and the search of paths: each
  operation is one call into what is modelled or one change of a container.
* `size()` and `empty()` of the queues, which change nothing.
* In the configuration: `setName` and `setAccessSpecifier`, or a `copyTo`, called by the application;
  what a getter answers for an index out of range (Property.cpp:75); digits of a float beyond those printed.
  The application gets its properties through `IProperty`.
* An empty range mask handed to the factory (Factory.h:57), the result of a configuration
  that `createComponent` ignores (Factory.cpp:204), and the constructor of a task with a predicate
  (BaseTask.h:76).

The map covers a sixth of the repository's lines of code; of the rest a fifth is the vendored parser, and the
remainder mostly what this section lists.

Hazards without a property, with the reason in `hazards`: the stop of a producer task
in `SharedBuffer` (SharedBuffer.h:54), a fiber that waits in its own queue (MultiConsumer.h:101),
the reference count, which the code says is not synchronized (ComponentBase.cpp:117), and what the models have
as the code has it while no document says otherwise: the default value that is handed round when the source is
released (MultiConsumer.h:66), the restart of a `BaseTask` (BaseTask.cpp:62) and what becomes of properties that are OUT
(PropertyMap.cpp:127). Of others a part is left open,
which their notes name: the empty entry of a multiple bind that could not be read, the write after a `clear()` of the circular buffer, the race for an answer kept in a proxy, the outputs
that a call has changed before it throws, and the types beyond `WithinLimits`.

## 6. Plan

1. `ComponentBase`: the reference count; with it the cache of entry points of the module manager (ModuleManager.cpp:239)
   and the contexts that siblings of a multiple bind see (Factory.cpp:1031).
2. Collections and enumerators: the live vector an enumerator reads, `m_endReached` after an addition, blocks.
3. The stop of a producer task composed with `SharedBuffer`.
