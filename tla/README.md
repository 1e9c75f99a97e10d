# NexusWasm in TLA+

A model of the part of NexusWasm that has behaviour: what happens to a Wasmtime
Store and to the objects around it when synchronous calls, asynchronous
operations, host functions, module graphs and destructors meet, and to the values
that pass between host and guest. TLC checks the model on small instances; TLAPS
proves every safety property of it for all values of the constants.

    tlc -config one_store.cfg MCStoreExecution.tla
    tlapm StoreExecutionProofs.tla

## The system

NexusWasm embeds Wasmtime. Its source has about 4,000 lines of C++; phases 08
to 31 of the roadmap (services, memory, GPU, audio, threads, ...) are documents
without code and are not modelled.

| Part | State | Operations | Talks to |
|---|---|---|---|
| `Runtime`, `Realm`, `Module` | shared pointers to the engine; compiled module and its metadata | create, compile, move, destroy | Wasmtime |
| `ExecutionDomain` | one Store, one linker, the set of asynchronous host functions, a `StoreExecutionState` | `Instantiate`, `InstantiateAsync`, `DefineAsyncFunction`, destroy | everything below |
| `StoreExecutionState` | activity, async-required mark | `Acquire`, `Release`, `MarkAsyncRequired` | leases held by the operations |
| `Instance`, `Scaler` values | weak pointer to a domain, native instance; a tagged union per argument and result | `Call`, `CallAsync` with their signatures, `PackArguments`, `UnpackResult` | its domain |
| `AsyncCall`, `AsyncInstantiation` | owner of the domain, lease, native future, error, trap, ready, taken | `Poll`, `TakeResult`/`TakeInstance`, destroy | Wasmtime's future |
| asynchronous host functions | binding in the linker; continuation in a future; the guest's result slots | define, callback, continuation poll, finalizers | host code, which may call anything above |
| `Program`, `ModuleGraph` | main domain; lifecycle, nodes, dependencies, instances | `AddModule`, `Instantiate`, `GetInstance`, `MainDomain`, move | its main domain |
| `ModuleMetadata` | imports and exports with kinds and signatures | read, compare | graph and domain |

What is hard here is not preemption, for one thread at a time owns a domain
(`StoreExecutionState.hpp:75-90`), but re-entrancy and order. Wasmtime runs
host code from inside a poll (the host function and its operation), from inside
the deletion of a pending future (what the host's operation captured), from inside
the definition of a function it refuses (what that function captured) and from
inside the destruction of a domain (what its host functions captured), and that
code may start, poll, take or destroy other things, down to the Program it was
called from. A domain is kept by its handle, by the operations that use it and,
during a call, by the call itself. A native future may be dropped at any point
of its life. A graph can fail after some of its modules are already in the
Store.

What makes each part correct:

* leases: a Store has at most one user; it is idle exactly when it has none; it
  becomes idle again; no path forgets a lease and none gives up another's;
* async-required: no synchronous operation can reach a function that would have
  to suspend it;
* lifetimes: nothing is used after it is destroyed; each native error is deleted
  once;
* linker: not changed under a pending instantiation; a name has one meaning;
* graph: instantiated in an order that respects imports, or a real cycle is
  named; each import linked with what it was validated against; all or nothing
  towards the user of `GetInstance`; final outcomes;
* values: a guest goes on with what its host function was defined to return or
  with a trap, a host is told what the guest returned or an error, and no member
  of a tagged union is read that was not written;
* native objects (bindings, continuations, externs): deleted once, by the one
  that owns them;
* engines, Stores and modules: nothing outlives what it points to, at any step
  of any destructor; instances stay with the Store they were made in.

`PROJECT.json` lists the places in the code where these can go wrong
("hazards"), each with the properties that would notice.

## Modules

| Module | Models | Lines of code |
|---|---|---|
| `StoreOwnership` | abstract promise of the leases: who uses a Store | |
| `AsyncOutcome` | abstract promise of an asynchronous operation to its holder | |
| `StoreExecution` | domains, leases, operations, host functions, lifetimes | `StoreExecutionState.hpp`, `WasmtimeState.hpp`, `ExecutionDomain.cpp`, `AsyncInstantiation.cpp`, `Instance.cpp` from 275, `AsyncHostFunction.cpp` from 181 |
| `StoreExecutionProofs` | theorems about leases, Stores and the call stack | |
| `StoreLifetimeProofs` | theorems about the lives of operations and domains | |
| `MCStoreExecution` | instances for TLC | |
| `DependencyOrder` | what an instantiation order and a cycle are | |
| `ModuleOrder` | the depth-first search | `ModuleGraph.cpp` 288-371 |
| `ModuleOrderProofs` | theorems about it | |
| `GraphActivation` | abstract promise of a graph, as `GetInstance` shows it | |
| `ModuleGraph` | graph and linker of a Program | `ModuleGraph.cpp` but for that, `ModuleMetadata.cpp` |
| `ModuleGraphProofs` | theorems about it | |
| `MCModuleGraph` | modules for TLC | |
| `HostCall` | abstract promise of asynchronous host functions to guest and host | |
| `HostInvocation` | definitions of host functions, and one guest call that invokes them | `AsyncHostFunction.cpp`, `.hpp` |
| `HostInvocationProofs` | theorems about it | |
| `MCHostInvocation` | signatures and values for TLC | |
| `ScalarCall` | one call of an export: lookup, signature, arguments, result | `Instance.cpp` 19-272 and 363-591, `Scaler.hpp`, `Instance.hpp`, `Result.hpp` |
| `ScalarCallProofs` | theorems about it | |
| `MCScalarCall` | exports for TLC | |
| `ObjectTree` | engines, handles, Programs, domains and what keeps what | `Runtime.cpp`, `Realm.cpp`, `Module.cpp`, `Program.cpp`, `WasmtimeState.hpp`, the handles' members elsewhere |
| `ObjectTreeProofs` | theorems about it | |
| `MCObjectTree` | symmetry for TLC | |

The modules look at one system from different sides and share actions of the
code rather than variables. `StoreExecution` has the call stack: what host code
can do from where. `HostInvocation` and `ScalarCall` look inside one of its
frames, at the values and native objects of one call. `ModuleGraph` is the user
of one Store for which everything else in the Store is an environment that
obeys `StoreOwnership`; that both `StoreExecution` and `ModuleGraph` implement
`StoreOwnership` is what joins them. `DependencyOrder` joins the search and the
graph: `ModuleOrderProofs` shows that the search finds one of its `Orders` if there
are any, and `ModuleGraph` goes on with any of them. `ObjectTree` is about destruction and
assignment down to single members, with the host acting in between but without a
call stack; `StoreExecution` has the stack, and destroys a domain in two steps.

### StoreExecution

One variable per kind of object. `activity`, `asyncRequired` and `hostFns` are
the members of `ExecutionDomainState`; `refs[d]` is the set of owners of its
`shared_ptr`: `"handle"` (the `ExecutionDomain`, or the `Program` it is in),
`"local"` (the pointer a synchronous call locked) and the operations. `op[o]` is
an `AsyncCallState` or `AsyncInstantiationState`; its `future` is `"fresh"`
before the first poll, `"running"` inside one, `"suspended"` while a host
operation is pending, `"null"` once deleted. `inst` are the `Instance` handles
the host keeps. `heap` are the operations for which Wasmtime has allocated an
error or trap that nobody has deleted. `linked[d]` is what Wasmtime knows: the
modules whose imports it resolved in the Store.

`stack` is the C++ call stack as far as it matters: the operations in progress,
each with where it is (`"guest"` code, host `"callback"`, host `"continuation"`,
host `"finalizer"`, or the `"cleanup"` of a destructor without host code).
Operations begin with `Append` and end with `Popped`; host code can act
(`HostRuns`) when the stack is empty or its top is in host code. So every
operation that can reach host code is two actions or more, and anything the
host may do can come between them. What cannot be interrupted (the definition
of a function that the linker accepts, the start of an operation, the taking of a
result) is one action. An operation that is refused before it has a lease is a
stuttering step. One that fails with the lease takes it and gives it back:
`OperationFails`, or `InstantiateAsyncFails`, whose error also leaves the mark behind.
No host code runs between the two halves of these, so each is one action, in which
`FailedAfter` says what the way out does with the lease (`Taken`).

Some details a reader will look for:

* A poll that completes sets `future` to null, then releases the lease, then sets
  `ready` (`Instance.cpp:355-358`). A completed future holds no host object, so
  no host code runs in between and it is one action, `Complete`.
* `Drop` is split from `FinishDrop` because a *suspended* future does hold one:
  its finalizer runs while the lease is still held.
* The finalizer of a continuation that becomes ready runs inside the poll too;
  whatever host code does there it can do in the stage `"continuation"`.
* `Stage` is what the holder of an operation can tell of it: absent, pending, ready,
  taken. `OutcomesKept` says that with `Stage`, the target and the kind of result the
  operations are an `AsyncOutcome`, whatever the Stores and the stack do.
* A definition the linker refuses is two actions, `DefineRefused` and `FinishDefine`,
  with a frame `"Define"` between them: Wasmtime deletes the binding it was to take
  over, and with it what the host captured, while `DefineAsyncFunction` holds the
  exclusive lease. That host code may do everything the host can do elsewhere.
* The guards `Usable` and `Releasable` are the host's side of the contract, which is
  C++'s own: nobody destroys an object while one of his own calls, further down
  the stack, runs a member function of it, nor uses an operation that is being polled
  or destroyed. `Usable` is about operations, `Releasable` about an `ExecutionDomain`
  whose `Instantiate` or `DefineAsyncFunction` is running: these two have only their
  raw `this`, where `CallScaler` locks the domain and operations own it.
  `ReentrantSpec` drops `Usable` for `Poll`, `CarelessSpec` drops `Releasable`.
* The engine, the moves of handles and the check that a module belongs to the same
  Runtime are in `ObjectTree`; values are in `ScalarCall` and `HostInvocation`.
  The instantiation of a graph is not a frame of its own: its loop runs guest code
  under one synchronous lease, which for the Store is what `Instantiate` is.
* `Resolves` and `Linked` stand for Wasmtime's linker. They are generous on
  purpose: any guest in a Store may call any function any module in it imports.

### ModuleOrder

`visit` is a recursive lambda. Its activations are `path` (the code's own vector
`stack`) and `next`, the position of each activation's loop. One action per step
of the loop: visit, skip, report a cycle, leave; the outer loop is `root`.

### ModuleGraph

`nodes` is `m_vNodes` (`m_mIndex` is its inverse and has no variable); `linker`
is the set of definitions in the domain's linker with who made them, the host
or a namespace of the graph. `BuildDependencies` has no effect but the
dependencies, so its walk is written as operators: `Examined(n)` are the
imports of node `n` up to the first that comes from nowhere. When it fails in
the middle, earlier nodes have new dependencies and later ones keep the old, as
in the code. The order is any that `DependencyOrder` admits: `ModuleOrder`
checks that the search returns one of those, or a cycle if there is none.
The loop over the order is one action per node and outcome. The lease is held
from the first to the last of them, so the host has no step between; what it
does in the domain otherwise (`DefineAsyncFunction`, asynchronous operations)
comes before, after and between attempts. A direct `Instantiate` in the main
domain changes nothing of this state, and neither does a definition that is refused;
inside the latter the host can do only what takes no lease (`AddModule`, `GetInstance`),
and that it can do at any time. `AddModule` takes no lease.

A type is what `InspectModule` keeps of it, a record of kind, parameters and
results; `FunctionSignatureEqual` and `SupportedScalar` are the code's comparison
of metadata, which is narrower than the linker's: a signature with reference
types passes validation and is met by the linker after other modules were
instantiated. `ActivationKept` says that through `GetInstance` the graph is
`GraphActivation` (all instances appear in one step, or none ever do);
`OwnershipKept` that the graph's part of its Store keeps `StoreOwnership`.

### HostInvocation

One domain, what is defined in its linker, and one asynchronous guest call that
may invoke it, several times in a row. `linker` has a binding for each name;
`owners` are those of the domain, its `"handle"` and the `"call"`. `stage` says
where the call is: in guest code, in the host function (`"callback"`), between
polls, in the host operation's poll or taking of results. `inv` is the invocation
as the code sees it: the binding, arguments and result slots it was given, the
trap, the continuation it filled in. Bindings and the state of the continuation
are heap objects that are live, deleted, or corrupt if they are deleted twice.

* A value is represented by its kind, which is what the code tests. A slot is
  `None` until it is written.
* `AsyncHostCallback` is in two parts, before and after the host's function; the
  host can destroy its `ExecutionDomain` in between, and inside its poll and its
  taking of results. The early ways out (arguments that do not fit, an Error, an
  exception) all leave an immediate continuation.
* Results are written slot by slot up to the first value of the wrong kind. The
  slots before it stay written (`Written`).
* `Phase`, `Promised` and `Reply` are what guest and host see of it: `CallsKept` says
  that it is a `HostCall`. The host's function, poll and result are asked for in
  turn, nothing after the first failure, and the guest goes on only with what had
  been promised when it called.
* That a refused definition is finalized by the linker (`Refused`), that a
  continuation is finalized with its future, and when continuations are polled is
  Wasmtime's doing.

### ScalarCall

The call of one export by `Call` or `CallAsync`, from the template's argument
pack to the value the host gets. `PackArguments` and `UnpackResult` are written
on tagged unions: reading a member other than the one written gives `Garbage`,
and so does reading what was never initialized. A resolved extern is a native
object with holders (`Holders`: the local of `ResolveFunction`, the `Result` it
returns, the caller's local, the parameter of the state's constructor, the state);
a move empties its source, the destructor of a valid holder deletes. From
`FindExport` on there is such an extern, and each way out of `ResolveFunction`
(`Refused`, `NotInspected`, `Resolved`) destroys the local. Wasmtime is given addresses of arguments and result; `ScalarCall`
records whether these are in the state of the call or in a local, because an
asynchronous call is first polled after the function that started it returned.
Guests run as Wasmtime runs them: they return any values of their declared
results, trap, or for an asynchronous call never start (`AsyncFails`).

### ObjectTree

The host's handles (`runtimes`, `realms`, `mod[m].handle`, `prog`, `domain`, `async`,
`inst`) and the shared states they refer to (`engine`, `mod`, `dom`). A state is
owned as long as some handle or other state has a `shared_ptr` to it, which the
operators `EngineOwned`, `DomainOwned` and `ModuleOwned` say; when it is owned no
more its members are destroyed one by one, in the order C++ destroys them. A
`phase` tells which have gone. The host may act in between, because the
destruction of a linker runs host code. A move takes a handle's members along and
leaves it empty; what the target had loses an owner.

The assignment of a Program, `q = std::move(p)`, is memberwise: the realm, the main
domain, the graph. If the old domain of `q` has another owner, nothing runs in
between and it is one action, `MoveProgram`. If it goes, its destructor runs host code
while `q` has the new realm and domain and its old graph, and `p` has a graph and no
realm: `BeginMove` leaves that state and an entry in `moves`, the steps of
`DestroyDomainState` follow, and `FinishMove` moves the graph when the domain is gone.
`Realm::CreateProgram` makes a new Program; its result assigned to an old variable is
a `MoveProgram` or `BeginMove` from the new one. While assignments are under way the
host acts only where the destruction of the linker runs it (`HostRuns`); it may create,
move, assign and destroy everything else, begin other assignments, and
instantiate in the main domain of the Program that is being assigned. What it is
expected not to do (`InMove`) is to destroy or assign a Program inside its own
assignment, or to use its graph there. That is not the library's promise but a rule
the host must keep: without it `GetInstance` called from such a destructor pairs the new
domain with a native instance of the old one (`ModuleGraph.cpp:564`), and a
nested assignment can leave a Program with a realm and no graph, which the next
`AddModule` follows (`Program.cpp:47`). Nested assignments may finish in any order
in the model, which is more than a call stack allows.

`Settled` are the Programs as they are, or as the assignment under way will leave them
(`Completed`); `ProgramsWhole` and `GraphsAtHome` are about these.

A graph is reduced to its modules, its outcome and the Store it was instantiated
in. `Spec` is a host that leaves main domains where they are. `MovingSpec` also
lets it move them out of Programs and in, which `Program::MainDomain` allows by
returning a mutable reference.

## Runs

| Run | Bounds | Shows |
|---|---|---|
| `one_store` | 1 domain, 3 modules (no import, one, two), 2 host functions, 2 operations, 1 instance | the safety of one Store, also inside refused definitions and on failing paths, that the leases implement `StoreOwnership` and the operations `AsyncOutcome`, and that no domain is left over |
| `comes_back` | 2 domains, 2 operations | liveness, with a call stack that nests operations of both Stores |
| `every_graph` | all 4096 graphs of three modules with ordered dependencies | the search |
| `module_graph` | 3 namespaces, 7 modules, 2 host names, 2 host types | the graph and the linker, that they implement `GraphActivation` and `StoreOwnership`, and that attempts end |
| `host_invocation` | 3 bindings, 2 names, 3 signatures, 5 lists of values | definitions, callbacks and continuations, and that an invocation implements `HostCall` |
| `scalar_call` | at most 2 arguments, 4 types, 8 exports and one missing, 2 payloads | calls of exports |
| `object_tree` | 2 engines, 2 modules, 2 domains, 2 Programs, 1 Instance, symmetric | lifetimes, also in the middle of assignments, that what has lost its last owner stays lost, and where instances belong |
| `retained_operation`, `refused_definition`, `reentrant_poll`, `host_import`, `moved_domain` | as above | five statements of the repository that the code does not keep |

The inductive invariants `IInv` (of `StoreExecution`), `SearchInv` and `TreeInv` are
checked too; each has its module's `TypeOK` as a part. The `TypeOK` of
`ModuleGraph`, `HostInvocation` and `ScalarCall` are only proved, and so are some
properties that have theorems of their own (see Proofs).

`CHECK_DEADLOCK FALSE` in the runs of `StoreExecution`, `ObjectTree` and
`HostInvocation`: the host may destroy everything and be done. The search ends, and
`ScalarCall` is one call. The graph's run checks for deadlock.

No counter is bounded by a guard. The call stack is bounded because each
operation object is on it at most once, a destruction happens once per domain
and a synchronous operation lets nothing above it; TLC therefore explores the
whole state space of each instance. Two operations are enough for one to steal
or block the other's Store, and for safety the proofs say that more do not
matter. Three modules make every shape a search can meet: a diamond's two paths,
a self-import, a cycle off the path. The seven modules of the graph run each meet
one outcome of validation, linking or publication. Three bindings for two names
make one definition refused; the five lists of values are right, too short, too
long, wrong in the first and wrong in the second place. The exports of
`scalar_call` differ in the types and number of parameters, the result's type, no
result, two results, a reference type, and one is not a function. Two Runtimes with
a Program each are enough for every wrong pairing of module, domain, graph and
instance.

What each property says is written above its definition. The ones that matter:

* `StoreExclusive`, `ActivityTracksUse`: at most one future, synchronous frame or
  definition per Store; `Idle` exactly when there is none, so that no failing path
  keeps its lease.
* `SyncNeverReachesHost`: relates the stack to what is linked. The code never
  checks it at the point where it would fail; it follows from the mark, the check
  in `ExecutionDomain::Instantiate` and the refusal to define functions twice or
  while the Store is in use.
* `StoreOutlivesUse`: relates futures and stack to owners, definitions included.
* `NativeErrorsOwned`, `LinkerFrozen`, `OwnershipKept`, `OutcomesKept`.
* `DomainsAccountedFor`: a domain exists because of its handle, an operation not yet
  dropped or a running call, or it is being destroyed, by one destructor that
  removes all there is, or nothing of it is left. Host code in the finalizers of
  that destructor can neither keep the domain nor destroy it twice.
* `StoreComesBack`: an asynchronous operation gives its Store back some day.
* `OrderIsRight`, `CycleIsReal`, `AnswerIsRight`, `Ends` of the search.
* `LinkedAsValidated`: validation does not look at host functions when a module
  has the namespace. That the linker nevertheless never gives such a module the
  host's function follows from the conflict at publication, one module earlier.
* `ValidatedImportsLink`: after validation only what it does not compare can fail
  to link.
* `NamesMeanOneThing`, `WholeGraphPublished`, `BuildingIsClean`,
  `OutcomeIsFinal`, `ActivationKept`, `AttemptsEnd`.
* `GuestGetsWhatWasPromised`: relates the slots a guest goes on with to the
  definition it invoked, across partial writes, traps and exceptions.
* `HostSeesItsDefinition`, `BindingsOwned`: the binding a callback uses exists, also
  when host code destroys the domain from inside it, and is deleted once, also when
  the linker refuses it.
* `ContinuationOwned`, `CallsKept`, `InvocationsEnd`.
* `GuestGetsArguments`, `AnswerIsTrue`: compare the two ends of a call, host and
  guest, over two translations of tagged unions and a change of address.
* `ExternOwned`: follows the native extern through a `Result`, a local, a parameter
  and the state of the call.
* `EngineOutlives`, `NothingDangles`, `TreeInv`, `InstancesAtHome`, `GraphsAtHome`: whatever
  the host does inside the assignment of a Program, with the exception above.
* `NoResurrection`: while a linker is destroyed, host code runs; nothing it holds
  leads back to what has lost its last owner.

### Fairness

`StoreComesBack` holds under `Fairness`, which says what `docs/async.md` asks of
the host: it keeps polling a pending operation, guests terminate, host functions
return, host operations become ready, destructors return. It is strong fairness
because unrelated work may make these steps impossible for a while (only the
top of the stack moves). Nothing makes the host take or drop results. The
search and the graph have weak fairness of their one function: it runs on.
`InvocationsEnd` assumes weak fairness of the continuation's poll and of the
guest's resumption (the host keeps polling a call it has not dropped) and strong
fairness of the host's answer: an operation asked again and again does not stay
pending for ever.

### Statements the code does not keep

* A retained `Instance` fails once its Program is destroyed
  (`RuntimeArchitectureTests.cpp:522`): not while an asynchronous operation of the
  same domain is still held, even a finished one.
* The state machine prevents overlapping operations
  (`StoreExecutionState.hpp:87`): not the polling of an operation inside its own
  poll, for polls do not acquire (`reentrant_poll`); and not the destruction of a Store
  inside a definition that its linker refuses, for destruction does not look at the
  lease either and the definition owns nothing (`refused_definition`). The lease is then
  given back to a state that is gone.
* Registered host imports are recognized by the graph (`docs/async.md:136`): not
  under the namespace of one of its modules.
* A function of Store A must not be passed into Store B
  (`docs/module-linking.md:39`): `Program::MainDomain` returns a mutable reference,
  so the main domain of one Program can be move-assigned to another, whose graph then
  hands out its instances, made in the Store it had before, with the Store it
  has now (`ModuleGraph.cpp:564`).

Two slips in texts that no property is about: the message for a result that is
not ready says it was already taken (`Instance.cpp:377`), and "blongs"
(`ModuleGraph.cpp:87`).

## Proofs

`StoreExecutionProofs` proves, for all constants that satisfy
`ConstantsAssumption` (imports are functions of modules; the names `None`,
`"handle"` and `"local"` are nobody else's): `Spec => []P` for every safety
property of `one_store`, `Spec => LinkerFrozen`, and that `Spec` implements
`StoreOwnership` (`Implements`).

None of the properties is inductive. `IInv` is, and has seven parts:

* `TypeOK`;
* `LeasesHeld`: an operation has a lease exactly while it has a future, its Store
  is then `Async` and no other operation has one on it, an `Async` Store has such
  an operation, and the operations in `refs[d]` are those of domain `d`;
* `ExclusiveHeld`: a Store with a synchronous frame or a refused definition is
  `Exclusive` and owned by what the frame relies on (the handle, or the call's own
  pointer), has no other such frame, and an `Exclusive` Store has one;
* `SyncOnTop`: a synchronous frame is on top of the stack, in guest code, and its
  Store is not async-required; nothing of the kind holds of a definition, over
  which host code goes on;
* `FramesFit`: an operation has at most one frame, the frame of a poll has a
  running future, the frame of a teardown a domain without owners;
* `RequiredInTime`: whatever is linked, or about to be linked by a pending
  instantiation, and imports asynchronous functions has its Store marked;
* `NativeErrorsOwned`.

They need one another: that nothing runs over a synchronous frame needs
`RequiredInTime` (no host code inside) and that a Store is torn down unused needs
`LeasesHeld` and `ExclusiveHeld`. Each part has its own step lemma with one step per
action. The exclusivity of users then follows from `LeasesHeld` and `ExclusiveHeld`,
and the refinement maps each action to `EnterSync`, `EnterMutation`, `EnterAsync`,
`RequireAsync`, `Leave` or a stutter. All of it is about `Spec`, whose host keeps
`Usable` and `Releasable`; `refused_definition` is what `StoreOutlivesUse` and
`DestructionIsFinal` come to without the latter.

`StoreLifetimeProofs` goes on from `IInv`:

* `OperationsKeepTheirPromise`: `Spec` implements `AsyncOutcome` by the mapping
  `StageMap`, `TargetMap`, `OutcomeMap`. Each action changes one operation
  (`OneChanges`, as `Start`, `Settle`, `Take` or `Drop`) or none the holder can see.
  That a result is not there before the poll is over, or that a dropped operation
  settles, is excluded by `LeasesHeld`.
* `DomainsAreKept` (`AliveForAReason`): its inductive part is `LocalInv`, that the
  owner `"local"` of a domain is the call on top of the stack. It is what the code
  does keep of the statement `retained_operation` refutes: an `Instance` alone keeps
  no domain, only an operation not dropped does.
* `DestructionIsWhole` (`DestroyedOnce`): follows the frames in which a domain is
  destroyed (`Destructions`). A domain with owners has none, its last owner's
  departure makes one, and its end removes the linker and the modules
  (`TeardownStep`, with a lemma each for pushing, popping and moving frames).
* `NoDomainIsLeftOver` is the two together, as `one_store` checks them.
* `DestructionIsFinal` (`DestroyedForGood`): no step gives a destroyed domain an owner,
  a user, a definition or a module, nor gives a lease back to it.
* `ContractSuffices`: `PollsDoNotOverlap`, which `reentrant_poll` refutes for a host
  that breaks the contract, holds for `Spec`, where the host keeps `Usable`.

`ModuleOrderProofs` proves, for every `Count \in Nat`, every safety property of
`every_graph`: `OrderIsRight`, `CycleIsReal`, `AnswerIsRight`, `TypeOK`. The
inductive invariant is `SearchInv`:

* `PathIsVisited`: the nodes marked `Visiting` are those on the path, once each;
* `PathIsChain`: each activation waits for the dependency its loop took last,
  which is the next node of the path;
* `LoopsDone`: all a loop has passed is `Visited`, but for the one it waits for;
* `FreshLoops`: the loop of an unvisited node is at its beginning;
* `OrderGrows`: the `Visited` nodes are those in the order, once each and after
  their dependencies;
* `RootsDone`: all that the outer loop has passed is `Visited`;
* `TypeOK` and `CycleIsReal`.

A cycle is real because the path is a chain and its last node imports from the
first of the part reported. That none is missed needs the order: of a set of
modules each of which imports from the set, one would be first in the order,
although it comes after another (the well-foundedness of `<`). `AnswerIsRight` says
therefore that the search answers with an order exactly if there is one.

That the search ends is for TLC (`Ends`), but for all `Count` the proofs have what
that needs beyond fairness: in a state without an answer some step is possible
(`SearchGoesOn`), every step visits or finishes a module or gets further through
its dependencies and none is undone (`SearchAdvances`), and the recursion is never
deeper than there are modules (`RecursionIsBounded`).

`ModuleGraphProofs` proves every safety property of `module_graph`, for any
modules, names and host functions (`ModulesAssumption`: imports and exports are
sequences with types, the export names of a module differ, the host is not a
namespace; `TypesAssumption`: host functions have only simple value types, as
`DefineAsyncFunction` can express no others). The inductive invariant `GInv`
consists of `TypeOK`, three of the properties (`NamesMeanOneThing`, `BuildingIsClean`, `LinkedAsValidated`) and

* `LeaseInv`: the Store is `Exclusive` exactly while the graph is `Instantiating`,
  and only then is there a queue;
* `SoundInv`: from then on every import is satisfied by nodes, and each node that
  offers it is a dependency;
* `QueueInv`: what is left of the order has every node without an instance, after
  those it depends on;
* `WholeInv`, `PublishedInv`: an instantiated graph has all instances, and a node
  with an instance has all its exports in the linker.

`LinkedAsValidated` needs all of them: that a node validated against an export
does not get the host's function of the same name follows from `PublishedInv` and
`NamesMeanOneThing`. For the refinements each step is mapped to `GraphActivation`'s
one step of success or failure, to an entry or a leave of `StoreOwnership`, or to a
stutter. `AttemptIsAlone` says what the loop over the order relies on without
checking it: during an attempt the graph and the rest of the order do not change
but for the node whose turn it is.

`HostInvocationProofs` proves the safety of `host_invocation` for any signatures
and values (`SignaturesAssumption`: they are sequences of kinds). `IInv` adds
`OwnersInv` (a call owns its domain; a domain without owners has no linker),
`FlightInv` (what an invocation has at each stage) and `ContinuationInv` (who will
delete the continuation's state) to `TypeOK`, `BindingsOwned` and
`GuestGetsWhatWasPromised`. Its lemma `AllAccepted` says that a loop which writes
value by value and stops at the first wrong one accepts all exactly if the
values are right. `InvocationsKeepTheirPromise` is the refinement of `HostCall`: the
lemma `PhaseTable` gives the phase of every stage, before and after a step, and
each action is a turn of `HostCall` or a stutter. `ContinuationConfigured`, that
every way out of the callback leaves a continuation which can be polled, is proved
and not in the run: `CallsKept` fails where it does.

`ScalarCallProofs` proves the safety of `scalar_call` for any exports and any
number of arguments (`ExportsAssumption`, `PayloadsAssumption`). `CallInv` adds
`HolderInv` (which holder of the extern is valid at each stage) and `ValueInv`
(what Wasmtime, the guest and the slot have at each stage) to `TypeOK`,
`GuestGetsArguments` and `AnswerIsTrue`. The
lemmas are `RoundTrip` (a value put in Wasmtime's union as the type of the call
comes out of the host's as what it was) and `ResolvedMeansFits` (the checks of
`ResolveFunction` say that the types are equal, and nothing else).

`ObjectTreeProofs` proves `TypeOK`, `ProgramsWhole` and `NothingDangles`
(together `TreeInv`), `NoResurrection` (a lemma each for domains, modules and engines)
and `EngineOutlives` for `MovingSpec`, hence for `Spec`, and
`InstancesAtHome` and `GraphsAtHome` for `Spec` (by `HomeInv`): the last two are
what moving main domains breaks. The run has `Spec`. The assumption is
`NoneAssumption`. Assignments in progress are dealt with by lemmas on `Settled`:
a change of one Program that is not being assigned adds nothing to it but that
Program, moving a main domain changes no realm and no graph in it, and the three
actions of an assignment add nothing to it but an empty Program.

Only model-checked: liveness (`StoreComesBack`, `Ends`, `AttemptsEnd`,
`InvocationsEnd`), which is out of the prover's reach. Only proved, because what
`one_store` and the other runs check says nearly as much on a small instance:
`DestroyedForGood`, `AttemptGoesOn`, `DepthBounded`, `NeverStuck`, `AlwaysForward`,
`ContinuationConfigured`, and `PollsDoNotOverlap` for a host that keeps the contract.

## Plan

Done: all modules above with their proofs. Left:

1. `ProgramExecution`: the graph as a frame of its own in `StoreExecution`'s call
   stack. The two modules now meet only in `StoreOwnership`; together they would
   also say what the start functions of a graph's modules can reach.
2. Larger instances of `module_graph`, for graphs whose failure is three modules
   deep.

## Not modelled

* Texts of errors and the printing of signatures; `WasmtimeError` but for the
  deletion of the native error; `Version`.
* Refusals by Wasmtime to create an engine or Store or to compile: the code returns
  the error and has changed nothing.
* Misuse of `Result` (the value of an error), an assertion in the code.
* Several threads in one domain, which the contract in
  `StoreExecutionState.hpp:75-90` leaves to the host.
* Build, tests and examples, which served as descriptions of intent; phases 08 to
  31, which have no code.
