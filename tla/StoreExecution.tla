--------------------------- MODULE StoreExecution ---------------------------
(***************************************************************************)
(* The execution core of NexusWasm: ExecutionDomains, each with one        *)
(* Wasmtime Store guarded by a StoreExecutionState; the synchronous and    *)
(* asynchronous operations that lease it; the native call futures; and the *)
(* asynchronous host functions through which host code runs again while an *)
(* operation is still in progress.                                         *)
(*                                                                         *)
(* One OS thread at a time owns a domain (the contract quoted in           *)
(* StoreExecutionState.hpp), so nothing here is preempted.  What makes the *)
(* code hard is re-entrancy: Wasmtime calls host code back from inside a   *)
(* poll, from inside the deletion of a pending future, from inside the     *)
(* definition of a function it refuses and from inside the destruction of  *)
(* a domain, and that code may call any operation of the API.  The C++     *)
(* call stack is therefore a variable, and every operation that can reach  *)
(* host code is split where it does.                                       *)
(*                                                                         *)
(* An operation that is refused before it takes a lease is a stuttering    *)
(* step and has no disjunct of its own; one that fails with the lease has. *)
(***************************************************************************)
EXTENDS Naturals, Sequences, FiniteSets

CONSTANTS Domains,       \* ExecutionDomainState objects
          Modules,       \* compiled modules of the domains' Runtime
          HostFunctions, \* (module, name) keys of asynchronous host functions
          Ops,           \* AsyncCallState / AsyncInstantiationState objects
          Instances,     \* slots where the host keeps Instance handles
          Imports,       \* Imports[m]: function imports of module m
          None           \* the absent domain, module or operation

ASSUME ConstantsAssumption ==
    /\ Imports \in [Modules -> SUBSET HostFunctions]
    /\ None \notin Domains \cup Modules \cup Ops
    /\ {"handle", "local"} \cap Ops = {}

VARIABLES
    activity,      \* StoreExecutionState::m_eActivity of each domain
    asyncRequired, \* StoreExecutionState::m_bAsyncRequired of each domain
    hostFns,       \* asyncHostFunctions of each domain (and its linker)
    refs,          \* owners of each domain's shared_ptr; {} once destroyed
    linked,        \* modules whose imports Wasmtime resolved in each Store
    op,            \* the state object of each asynchronous operation
    inst,          \* the Instance kept in each slot (a weak_ptr to a domain)
    stack,         \* operations in progress on the C++ call stack, last on top
    heap           \* operations owning an undeleted native error or trap

vars == <<activity, asyncRequired, hostFns, refs, linked, op, inst, stack, heap>>

-----------------------------------------------------------------------------
(* State objects *)

NoOp == [kind |-> "free", dom |-> None, mod |-> None, lease |-> FALSE,
         future |-> "null", ready |-> FALSE, taken |-> FALSE, native |-> "none"]

(* The state object of an operation whose native future was just created. *)
Started(k, d, m) == [NoOp EXCEPT !.kind = k, !.dom = d, !.mod = m,
                                 !.lease = TRUE, !.future = "fresh"]

(* Live states; a result is taken only once the operation is ready. *)
LiveOps == [kind   : {"call", "inst"},
            dom    : Domains,
            mod    : Modules \cup {None},
            lease  : BOOLEAN,
            future : {"null", "fresh", "running", "suspended"},
            ready  : BOOLEAN,
            taken  : BOOLEAN,
            native : {"none", "error", "trap"}]

OpStates == {NoOp} \cup {s \in LiveOps : /\ s.taken => s.ready
                                         /\ s.kind = "inst" => s.mod \in Modules}

NoInst == [dom |-> None, mod |-> None]
InstStates == {NoInst} \cup [dom : Domains, mod : Modules]

Frames == [kind : {"Call", "Instantiate", "Define", "Poll", "Drop", "Teardown"},
           dom  : Domains,
           op   : Ops \cup {None},
           mod  : Modules \cup {None},
           at   : {"guest", "callback", "continuation", "finalizer", "cleanup"}]

Frame(k, d, o, m, at) == [kind |-> k, dom |-> d, op |-> o, mod |-> m, at |-> at]

-----------------------------------------------------------------------------
(* The call stack *)

Top     == stack[Len(stack)]
Popped  == SubSeq(stack, 1, Len(stack) - 1)
MovedTo(at) == [stack EXCEPT ![Len(stack)].at = at]

OnTop(k) == stack # <<>> /\ Top.kind = k

(* The three ways in which Wasmtime runs host code: the asynchronous host  *)
(* function itself, the polling of the operation it returned, and the      *)
(* destruction of what the host captured in either of them.                *)
HostStages == {"callback", "continuation", "finalizer"}
HostRuns   == IF stack = <<>> THEN TRUE ELSE Top.at \in HostStages

(* The host's side of the contract: it does not use an operation object,   *)
(* nor destroy an ExecutionDomain, that one of its own calls, further down *)
(* the stack, is still using as its this.                                  *)
Usable(o) == op[o].kind # "free" /\ \A n \in 1..Len(stack) : stack[n].op # o

Releasable(d) == \A n \in 1..Len(stack) :
                    ~(stack[n].kind \in {"Instantiate", "Define"} /\ stack[n].dom = d)

-----------------------------------------------------------------------------
(* StoreExecutionState and its leases *)

(* Variant: the mark is not looked at. *)
AcquireIgnoringAsyncRequired(d, k) ==
    IF activity[d] # "Idle" THEN "StoreBusy" ELSE "OK"

Acquire(d, k) ==
    IF activity[d] # "Idle" THEN "StoreBusy"
    ELSE IF k = "Sync" /\ asyncRequired[d] THEN "StoreRequiresAsync"
    ELSE "OK"

Taken(d, k) == [activity EXCEPT ![d] = IF k = "Async" THEN "Async" ELSE "Exclusive"]

(* Variant: a failing operation keeps its lease. *)
FailedKeepingLease(d, k) == Taken(d, k)

(* What an operation that acquired the Store and then fails leaves behind. *)
FailedAfter(d, k) == [Taken(d, k) EXCEPT ![d] = "Idle"]

(* Variant: an empty lease releases too. *)
ReleasedAlways(o) == [activity EXCEPT ![op[o].dom] = "Idle"]

(* An operation's lease gives the Store back once; an empty one does not. *)
ReleasedBy(o) == IF op[o].lease THEN [activity EXCEPT ![op[o].dom] = "Idle"]
                 ELSE activity

MarkAsyncRequired(d) == [asyncRequired EXCEPT ![d] = TRUE]

UsesAsyncHostFunction(d, m) == Imports[m] \cap hostFns[d] # {}

(* What the linker decides: every function the module imports is defined. *)
Resolves(d, m) == Imports[m] \subseteq hostFns[d]

Linked(d, m) == [linked EXCEPT ![d] = @ \cup {m}]

-----------------------------------------------------------------------------
(* Object lifetimes *)

Alive(d) == refs[d] # {}

(* Owner h lets go of domain d with the call stack otherwise at rest: the  *)
(* last owner destroys the domain, linker and Store first.                *)
Unpin(d, h, rest) ==
    /\ refs' = [refs EXCEPT ![d] = @ \ {h}]
    /\ stack' = IF refs[d] = {h}
                THEN Append(rest, Frame("Teardown", d, None, None,
                              IF hostFns[d] # {} THEN "finalizer" ELSE "cleanup"))
                ELSE rest

(* A new Instance reaches the host, which keeps it in a slot or drops it. *)
Handed(d, m) == {inst} \cup {[inst EXCEPT ![i] = [dom |-> d, mod |-> m]] :
                               i \in {j \in Instances : inst[j] = NoInst}}

-----------------------------------------------------------------------------
(* ExecutionDomain::Create has run once for each domain. *)
Init == /\ activity = [d \in Domains |-> "Idle"]
        /\ asyncRequired = [d \in Domains |-> FALSE]
        /\ hostFns = [d \in Domains |-> {}]
        /\ refs = [d \in Domains |-> {"handle"}]
        /\ linked = [d \in Domains |-> {}]
        /\ op = [o \in Ops |-> NoOp]
        /\ inst = [i \in Instances |-> NoInst]
        /\ stack = <<>>
        /\ heap = {}

-----------------------------------------------------------------------------
(* Linker mutation *)

(* Variant: no lease around the definition. *)
DefineWithoutLease(d, f) ==
    /\ HostRuns /\ "handle" \in refs[d]
    /\ f \notin hostFns[d]
    /\ hostFns' = [hostFns EXCEPT ![d] = @ \cup {f}]
    /\ UNCHANGED <<activity, asyncRequired, refs, linked, op, inst, stack, heap>>

(* Defining an asynchronous host function that the linker accepts.  The    *)
(* exclusive lease is taken and given back inside the call, and no host    *)
(* code runs in between.                                                   *)
DefineAsyncFunction(d, f) ==
    /\ HostRuns /\ "handle" \in refs[d]
    /\ Acquire(d, "Mutation") = "OK"
    /\ f \notin hostFns[d]
    /\ hostFns' = [hostFns EXCEPT ![d] = @ \cup {f}]
    /\ UNCHANGED <<activity, asyncRequired, refs, linked, op, inst, stack, heap>>

(* The linker refuses a name it has, of a host function or of an export of *)
(* a graph's module (shadowing is off), and deletes the binding it was to  *)
(* take over.  With it goes what the host captured in the function: host   *)
(* code, while the lease is held and only the caller keeps the domain.     *)
DefineRefused(d) ==
    /\ HostRuns /\ "handle" \in refs[d]
    /\ Acquire(d, "Mutation") = "OK"
    /\ hostFns[d] # {} \/ linked[d] # {}
    /\ activity' = Taken(d, "Mutation")
    /\ stack' = Append(stack, Frame("Define", d, None, None, "finalizer"))
    /\ UNCHANGED <<asyncRequired, hostFns, refs, linked, op, inst, heap>>

(* The error is reported and the lease given back.                         *)
FinishDefine ==
    /\ OnTop("Define")
    /\ activity' = [activity EXCEPT ![Top.dom] = "Idle"]
    /\ stack' = Popped
    /\ UNCHANGED <<asyncRequired, hostFns, refs, linked, op, inst, heap>>

(* An operation fails between taking the lease and its first effect: the   *)
(* function type or binding cannot be made, the linker refuses the imports *)
(* of a module, the export to call is missing or of another type.          *)
OperationFails(d, k) ==
    /\ HostRuns /\ Alive(d)
    /\ Acquire(d, k) = "OK"
    /\ activity' = FailedAfter(d, k)
    /\ UNCHANGED <<asyncRequired, hostFns, refs, linked, op, inst, stack, heap>>

-----------------------------------------------------------------------------
(* Synchronous operations *)

(* Variant: the imports are not looked at. *)
InstantiateUnchecked(d, m) ==
    /\ HostRuns /\ "handle" \in refs[d]
    /\ Acquire(d, "Sync") = "OK"
    /\ Resolves(d, m)
    /\ activity' = [activity EXCEPT ![d] = "Exclusive"]
    /\ linked' = Linked(d, m)
    /\ stack' = Append(stack, Frame("Instantiate", d, None, m, "guest"))
    /\ UNCHANGED <<asyncRequired, hostFns, refs, op, inst, heap>>

(* A synchronous instantiation enters the start function of the module.  A *)
(* module with an unresolved import is refused by the linker instead.      *)
Instantiate(d, m) ==
    /\ HostRuns /\ "handle" \in refs[d]
    /\ Acquire(d, "Sync") = "OK"
    /\ ~UsesAsyncHostFunction(d, m)
    /\ Resolves(d, m)
    /\ activity' = [activity EXCEPT ![d] = "Exclusive"]
    /\ linked' = Linked(d, m)
    /\ stack' = Append(stack, Frame("Instantiate", d, None, m, "guest"))
    /\ UNCHANGED <<asyncRequired, hostFns, refs, op, inst, heap>>

(* The start function returns, with an Instance, or fails, without one.    *)
FinishInstantiate ==
    /\ OnTop("Instantiate") /\ Top.at = "guest"
    /\ activity' = [activity EXCEPT ![Top.dom] = "Idle"]
    /\ inst' \in Handed(Top.dom, Top.mod)
    /\ stack' = Popped
    /\ UNCHANGED <<asyncRequired, hostFns, refs, linked, op, heap>>

(* Variant: the weak pointer is not locked. *)
CallUnpinned(i) ==
    LET d == inst[i].dom
    IN /\ HostRuns /\ inst[i] # NoInst
       /\ Acquire(d, "Sync") = "OK"
       /\ activity' = [activity EXCEPT ![d] = "Exclusive"]
       /\ stack' = Append(stack, Frame("Call", d, None, None, "guest"))
       /\ UNCHANGED <<asyncRequired, hostFns, refs, linked, op, inst, heap>>

(* A synchronous call through an Instance whose domain still exists: the   *)
(* call owns the domain until it returns.                                  *)
Call(i) ==
    LET d == inst[i].dom
    IN /\ HostRuns /\ inst[i] # NoInst /\ Alive(d)
       /\ Acquire(d, "Sync") = "OK"
       /\ activity' = [activity EXCEPT ![d] = "Exclusive"]
       /\ refs' = [refs EXCEPT ![d] = @ \cup {"local"}]
       /\ stack' = Append(stack, Frame("Call", d, None, None, "guest"))
       /\ UNCHANGED <<asyncRequired, hostFns, linked, op, inst, heap>>

FinishCall ==
    /\ OnTop("Call") /\ Top.at = "guest"
    /\ activity' = [activity EXCEPT ![Top.dom] = "Idle"]
    /\ Unpin(Top.dom, "local", Popped)
    /\ UNCHANGED <<asyncRequired, hostFns, linked, op, inst, heap>>

-----------------------------------------------------------------------------
(* Starting asynchronous operations *)

(* A native future is created; its state object takes the lease and owns   *)
(* the domain.                                                             *)
Start(o, k, d, m) ==
    /\ activity' = [activity EXCEPT ![d] = "Async"]
    /\ op' = [op EXCEPT ![o] = Started(k, d, m)]
    /\ refs' = [refs EXCEPT ![d] = @ \cup {o}]
    /\ UNCHANGED <<hostFns, linked, inst, stack, heap>>

CallAsync(i, o) ==
    LET d == inst[i].dom
    IN /\ HostRuns /\ inst[i] # NoInst /\ Alive(d)
       /\ op[o].kind = "free"
       /\ Acquire(d, "Async") = "OK"
       /\ Start(o, "call", d, None)
       /\ UNCHANGED asyncRequired

MarkIfUsed(d, m) == asyncRequired' = IF UsesAsyncHostFunction(d, m)
                                     THEN MarkAsyncRequired(d) ELSE asyncRequired

InstantiateAsync(d, m, o) ==
    /\ HostRuns /\ "handle" \in refs[d]
    /\ op[o].kind = "free"
    /\ Acquire(d, "Async") = "OK"
    /\ MarkIfUsed(d, m)
    /\ Start(o, "inst", d, m)

(* Wasmtime creates no future: the state object and its lease go away      *)
(* before the call returns, the mark stays.                                *)
InstantiateAsyncFails(d, m) ==
    /\ HostRuns /\ "handle" \in refs[d]
    /\ Acquire(d, "Async") = "OK"
    /\ MarkIfUsed(d, m)
    /\ activity' = FailedAfter(d, "Async")
    /\ UNCHANGED <<hostFns, refs, linked, op, inst, stack, heap>>

-----------------------------------------------------------------------------
(* Polling *)

(* A poll enters the guest, or the continuation the guest is waiting for.  *)
(* The first poll of an instantiation resolves the imports.                *)
Poll(o) ==
    LET s == op[o]
    IN /\ HostRuns /\ s.future # "null"
       /\ s.kind = "inst" /\ s.future = "fresh" => Resolves(s.dom, s.mod)
       /\ stack' = Append(stack, Frame("Poll", s.dom, o, None,
                       IF s.future = "suspended" THEN "continuation" ELSE "guest"))
       /\ op' = [op EXCEPT ![o].future = "running"]
       /\ linked' = IF s.kind = "inst" THEN Linked(s.dom, s.mod) ELSE linked
       /\ UNCHANGED <<activity, asyncRequired, hostFns, refs, inst, heap>>

(* A poll finds the future complete: the future goes, then the lease.      *)
Completed(s, n) ==
    [s EXCEPT !.future = "null", !.lease = FALSE, !.ready = TRUE, !.native = n]

Complete(o, n) ==
    /\ op' = [op EXCEPT ![o] = Completed(@, n)]
    /\ activity' = ReleasedBy(o)
    /\ heap' = IF n = "none" THEN heap ELSE heap \cup {o}

(* The first poll of an instantiation one of whose imports is undefined.   *)
PollUnresolved(o) ==
    /\ HostRuns
    /\ op[o].kind = "inst" /\ op[o].future = "fresh"
    /\ ~Resolves(op[o].dom, op[o].mod)
    /\ Complete(o, "error")
    /\ UNCHANGED <<asyncRequired, hostFns, refs, linked, inst, stack>>

(* A guest calls an asynchronous host function some module of the Store    *)
(* imports.  Nothing but the leases keeps a synchronous operation from     *)
(* getting here.                                                           *)
GuestCallsHost ==
    /\ stack # <<>> /\ Top.at = "guest"
    /\ \E m \in linked[Top.dom] : Imports[m] # {}
    /\ stack' = MovedTo("callback")
    /\ UNCHANGED <<activity, asyncRequired, hostFns, refs, linked, op, inst, heap>>

(* The host function returns an operation, which Wasmtime polls at once.   *)
HostReturnsOperation ==
    /\ OnTop("Poll") /\ Top.at = "callback"
    /\ stack' = MovedTo("continuation")
    /\ UNCHANGED <<activity, asyncRequired, hostFns, refs, linked, op, inst, heap>>

(* The host's operation is pending: the whole poll returns Pending.        *)
ContinuationPending ==
    /\ OnTop("Poll") /\ Top.at = "continuation"
    /\ op' = [op EXCEPT ![Top.op].future = "suspended"]
    /\ stack' = Popped
    /\ UNCHANGED <<activity, asyncRequired, hostFns, refs, linked, inst, heap>>

(* The host's operation is ready with results that fit: the guest resumes. *)
ContinuationReady ==
    /\ OnTop("Poll") /\ Top.at = "continuation"
    /\ stack' = MovedTo("guest")
    /\ UNCHANGED <<activity, asyncRequired, hostFns, refs, linked, op, inst, heap>>

(* The host function or its operation fails, throws, or returns results    *)
(* that do not fit: a trap, which ends the guest.                          *)
HostFails ==
    /\ OnTop("Poll") /\ Top.at \in {"callback", "continuation"}
    /\ Complete(Top.op, "trap")
    /\ stack' = Popped
    /\ UNCHANGED <<asyncRequired, hostFns, refs, linked, inst>>

GuestReturns ==
    /\ OnTop("Poll") /\ Top.at = "guest"
    /\ \E n \in {"none", "error", "trap"} : Complete(Top.op, n)
    /\ stack' = Popped
    /\ UNCHANGED <<asyncRequired, hostFns, refs, linked, inst>>

-----------------------------------------------------------------------------
(* Taking results *)

(* Variant: the native error stays with the operation. *)
TakeLeavingNative(o) ==
    /\ HostRuns /\ op[o].ready /\ ~op[o].taken
    /\ op' = [op EXCEPT ![o].taken = TRUE]
    /\ heap' = heap \ {o}
    /\ IF op[o].kind = "inst" /\ op[o].native = "none"
       THEN inst' \in Handed(op[o].dom, op[o].mod)
       ELSE UNCHANGED inst
    /\ UNCHANGED <<activity, asyncRequired, hostFns, refs, linked, stack>>

(* Variant: that the result was taken is not noted. *)
TakeAgain(o) ==
    /\ HostRuns /\ op[o].ready /\ ~op[o].taken
    /\ op' = [op EXCEPT ![o].native = "none"]
    /\ heap' = heap \ {o}
    /\ IF op[o].kind = "inst" /\ op[o].native = "none"
       THEN inst' \in Handed(op[o].dom, op[o].mod)
       ELSE UNCHANGED inst
    /\ UNCHANGED <<activity, asyncRequired, hostFns, refs, linked, stack>>

(* The result is taken once: an error or trap is reported and deleted, an  *)
(* instantiation that succeeded hands over its Instance.                   *)
TakeResult(o) ==
    /\ HostRuns /\ op[o].ready /\ ~op[o].taken
    /\ op' = [op EXCEPT ![o].taken = TRUE, ![o].native = "none"]
    /\ heap' = heap \ {o}
    /\ IF op[o].kind = "inst" /\ op[o].native = "none"
       THEN inst' \in Handed(op[o].dom, op[o].mod)
       ELSE UNCHANGED inst
    /\ UNCHANGED <<activity, asyncRequired, hostFns, refs, linked, stack>>

-----------------------------------------------------------------------------
(* Destruction *)

(* Variant: the lease goes before the future. *)
DropReleasingFirst(o) ==
    LET s == op[o]
    IN /\ HostRuns /\ s.kind # "free"
       /\ stack' = Append(stack, Frame("Drop", s.dom, o, None,
                       IF s.future = "suspended" THEN "finalizer" ELSE "cleanup"))
       /\ activity' = ReleasedBy(o)
       /\ op' = [op EXCEPT ![o].lease = FALSE]
       /\ UNCHANGED <<asyncRequired, hostFns, refs, linked, inst, heap>>

(* The destructor of an operation begins by deleting the native future; if *)
(* that future waits for the host, what the host captured goes with it.    *)
Drop(o) ==
    LET s == op[o]
    IN /\ HostRuns /\ s.kind # "free"
       /\ stack' = Append(stack, Frame("Drop", s.dom, o, None,
                       IF s.future = "suspended" THEN "finalizer" ELSE "cleanup"))
       /\ UNCHANGED <<activity, asyncRequired, hostFns, refs, linked, op, inst, heap>>

(* It ends by releasing the lease, deleting an untaken error or trap and   *)
(* letting go of the domain.                                               *)
FinishDrop ==
    LET o == Top.op
    IN /\ OnTop("Drop")
       /\ activity' = ReleasedBy(o)
       /\ op' = [op EXCEPT ![o] = NoOp]
       /\ heap' = heap \ {o}
       /\ Unpin(Top.dom, o, Popped)
       /\ UNCHANGED <<asyncRequired, hostFns, linked, inst>>

(* The host destroys the ExecutionDomain or the Program that holds it.     *)
DropHandle(d) ==
    /\ HostRuns /\ "handle" \in refs[d]
    /\ Unpin(d, "handle", stack)
    /\ UNCHANGED <<activity, asyncRequired, hostFns, linked, op, inst, heap>>

(* Variant: the linker is not deleted. *)
FinishTeardownOfStore ==
    /\ OnTop("Teardown")
    /\ linked' = [linked EXCEPT ![Top.dom] = {}]
    /\ stack' = Popped
    /\ UNCHANGED <<activity, asyncRequired, hostFns, refs, op, inst, heap>>

(* The last owner is gone: linker and Store are deleted, and with them the *)
(* host functions and what the host captured in them.                      *)
FinishTeardown ==
    /\ OnTop("Teardown")
    /\ hostFns' = [hostFns EXCEPT ![Top.dom] = {}]
    /\ linked' = [linked EXCEPT ![Top.dom] = {}]
    /\ stack' = Popped
    /\ UNCHANGED <<activity, asyncRequired, refs, op, inst, heap>>

DropInstance(i) ==
    /\ HostRuns /\ inst[i] # NoInst
    /\ inst' = [inst EXCEPT ![i] = NoInst]
    /\ UNCHANGED <<activity, asyncRequired, hostFns, refs, linked, op, stack, heap>>

-----------------------------------------------------------------------------
Next == \/ \E d \in Domains, f \in HostFunctions : DefineAsyncFunction(d, f)
        \/ \E d \in Domains : DefineRefused(d)
        \/ FinishDefine
        \/ \E d \in Domains, k \in {"Sync", "Async", "Mutation"} : OperationFails(d, k)
        \/ \E d \in Domains, m \in Modules : Instantiate(d, m)
        \/ FinishInstantiate
        \/ \E i \in Instances : Call(i)
        \/ FinishCall
        \/ \E i \in Instances, o \in Ops : CallAsync(i, o)
        \/ \E d \in Domains, m \in Modules, o \in Ops : InstantiateAsync(d, m, o)
        \/ \E d \in Domains, m \in Modules : InstantiateAsyncFails(d, m)
        \/ \E o \in Ops : Usable(o) /\ Poll(o)
        \/ \E o \in Ops : Usable(o) /\ PollUnresolved(o)
        \/ GuestCallsHost
        \/ HostReturnsOperation
        \/ ContinuationPending
        \/ ContinuationReady
        \/ HostFails
        \/ GuestReturns
        \/ \E o \in Ops : Usable(o) /\ TakeResult(o)
        \/ \E o \in Ops : Usable(o) /\ Drop(o)
        \/ FinishDrop
        \/ \E d \in Domains : Releasable(d) /\ DropHandle(d)
        \/ FinishTeardown
        \/ \E i \in Instances : DropInstance(i)

Spec == Init /\ [][Next]_vars

(* What docs/async.md asks of the host and of guests: pending operations  *)
(* are polled again and again, guests terminate, the host's own functions *)
(* and destructors return and its operations are eventually ready.  Other *)
(* work may come between any two of these, hence strong fairness.          *)
Serving(o) == stack # <<>> /\ Top.op = o
HostMovesOn == HostReturnsOperation \/ ContinuationReady \/ FinishDrop

Fairness ==
    /\ \A o \in Ops : /\ SF_vars(Usable(o) /\ (Poll(o) \/ PollUnresolved(o)))
                      /\ SF_vars(Serving(o) /\ HostMovesOn)
                      /\ SF_vars(Serving(o) /\ GuestReturns)
    /\ \A d \in Domains : SF_vars(stack # <<>> /\ Top.dom = d /\ (FinishTeardown \/ FinishDefine))
    /\ WF_vars(FinishCall \/ FinishInstantiate)

FairSpec == Spec /\ Fairness

(* A host that breaks its side of the contract: the code that Wasmtime    *)
(* calls back during a poll polls the very same operation.                *)
ReentrantNext == Next \/ \E o \in Ops : Poll(o)
ReentrantSpec == Init /\ [][ReentrantNext]_vars

(* Another: what it captured in a function destroys the very domain the    *)
(* function was to be defined in.                                          *)
CarelessNext == Next \/ \E d \in Domains : DropHandle(d)
CarelessSpec == Init /\ [][CarelessNext]_vars

-----------------------------------------------------------------------------
(* Who uses a Store: the native futures created in it, from their creation *)
(* to their deletion, and the synchronous operations and mutations of its  *)
(* linker on the call stack.                                               *)
SyncKinds == {"Call", "Instantiate"}
LeaseKinds == SyncKinds \cup {"Define"}

Futures(d) == {o \in Ops : op[o].future # "null" /\ op[o].dom = d}
LeaseFrames(d, kinds) == {n \in 1..Len(stack) : stack[n].dom = d /\ stack[n].kind \in kinds}
Users(d) == ({"future"} \X Futures(d)) \cup ({"frame"} \X LeaseFrames(d, LeaseKinds))

TypeOK == /\ activity \in [Domains -> {"Idle", "Exclusive", "Async"}]
          /\ asyncRequired \in [Domains -> BOOLEAN]
          /\ hostFns \in [Domains -> SUBSET HostFunctions]
          /\ refs \in [Domains -> SUBSET ({"handle", "local"} \cup Ops)]
          /\ linked \in [Domains -> SUBSET Modules]
          /\ op \in [Ops -> OpStates]
          /\ inst \in [Instances -> InstStates]
          /\ stack \in Seq(Frames)
          /\ heap \in SUBSET Ops

(* No two native operations use one Store at the same time, whatever host  *)
(* code does inside callbacks and finalizers (Acquire, and every path that *)
(* releases a lease).                                                      *)
StoreExclusive == \A d \in Domains : \A u, v \in Users(d) : u = v

(* A Store is idle exactly when nothing uses it: no path forgets to release *)
(* its lease, and none releases another operation's.                       *)
ActivityTracksUse == \A d \in Domains : activity[d] = "Idle" <=> Users(d) = {}

(* A synchronous operation never runs in a Store where a module imports an *)
(* asynchronous host function, which would need a future to suspend.       *)
SyncNeverReachesHost ==
    \A n \in 1..Len(stack) :
        stack[n].kind \in SyncKinds =>
            \A m \in linked[stack[n].dom] : Imports[m] = {}

(* A Store outlives every use of it: a domain with a future or with an     *)
(* operation on the call stack is owned, and one being torn down is not.   *)
StoreOutlivesUse ==
    /\ \A d \in Domains : Users(d) # {} => Alive(d)
    /\ \A n \in 1..Len(stack) : Alive(stack[n].dom) <=> stack[n].kind # "Teardown"

(* Every error or trap Wasmtime allocated for an operation is deleted once: *)
(* by taking the result or with the operation, never by both or by neither. *)
NativeErrorsOwned == heap = {o \in Ops : op[o].native # "none"}

(* While an instantiation is pending, its linker is not changed under it.  *)
LinkerFrozen ==
    [][\A d \in Domains :
          (\E o \in Futures(d) : op[o].kind = "inst") => hostFns'[d] = hostFns[d]]_vars

(* A Store taken by an asynchronous operation is idle again some day.      *)
StoreComesBack == \A d \in Domains : activity[d] = "Async" ~> activity[d] = "Idle"

(* The leases implement the promise of StoreOwnership.                     *)
Ownership == INSTANCE StoreOwnership
    WITH Stores     <- Domains,
         AsyncUsers <- Ops,
         SyncUser   <- "sync",
         Mutator    <- "mutator",
         users      <- [d \in Domains |->
                          Futures(d)
                          \cup (IF LeaseFrames(d, SyncKinds) # {} THEN {"sync"} ELSE {})
                          \cup (IF LeaseFrames(d, {"Define"}) # {} THEN {"mutator"} ELSE {})],
         asyncOnly  <- asyncRequired

OwnershipKept == Ownership!Spec

(* How far an operation has come.  One that has neither a future nor a     *)
(* result could never be polled to an end; no operation is "stranded" so.  *)
Stage(s) == IF s.kind = "free" THEN "absent"
            ELSE IF s.future # "null" THEN "pending"
            ELSE IF s.taken THEN "taken"
            ELSE IF s.ready THEN "ready"
            ELSE "stranded"

(* The operations implement the promise of AsyncOutcome.                   *)
Outcomes == INSTANCE AsyncOutcome
    WITH Targets <- {"call", "inst"} \X Domains \X (Modules \cup {None}),
         Nothing <- <<"free", None, None>>,
         stage   <- [o \in Ops |-> Stage(op[o])],
         target  <- [o \in Ops |-> <<op[o].kind, op[o].dom, op[o].mod>>],
         outcome <- [o \in Ops |-> IF Stage(op[o]) # "ready" THEN "none"
                                    ELSE IF op[o].native = "none" THEN "value" ELSE "failure"]

OutcomesKept == Outcomes!Spec

(* A domain exists for a reason the host can see: its ExecutionDomain or   *)
(* Program, an operation that was started in it and not dropped, or a call *)
(* that is running in it.  No other owner is left behind.                  *)
AliveForAReason ==
    \A d \in Domains : Alive(d) =>
        \/ "handle" \in refs[d]
        \/ \E o \in Ops : op[o].dom = d
        \/ OnTop("Call") /\ Top.dom = d

(* A domain is destroyed once, whatever the host does in the destructors   *)
(* that this runs, and wholly: after it no definition and no module stays. *)
DestroyedOnce ==
    \A d \in Domains :
        LET destructions == {n \in 1..Len(stack) : stack[n].kind = "Teardown" /\ stack[n].dom = d}
        IN /\ \A n, k \in destructions : n = k
           /\ ~Alive(d) /\ destructions = {} => hostFns[d] = {} /\ linked[d] = {}

(* No domain is left over: each has an owner the host can see, is being    *)
(* destroyed or has gone.                                                  *)
DomainsAccountedFor == AliveForAReason /\ DestroyedOnce

(* Nothing brings a destroyed domain back or uses what is left of it.      *)
DestroyedForGood ==
    [][\A d \in Domains : ~Alive(d) =>
          /\ ~Alive(d)'
          /\ activity'[d] = "Idle" /\ asyncRequired'[d] = asyncRequired[d]
          /\ hostFns'[d] \subseteq hostFns[d] /\ linked'[d] \subseteq linked[d]]_vars

-----------------------------------------------------------------------------
(* Why the invariants above hold: one inductive invariant.                 *)

(* A lease and a future come and go together, inside one Store at a time,  *)
(* and an operation owns its domain.                                       *)
LeasesHeld ==
    /\ \A o \in Ops : /\ op[o].lease <=> op[o].future # "null"
                      /\ op[o].lease => activity[op[o].dom] = "Async" /\ ~op[o].ready
                      /\ op[o].native # "none" => op[o].ready
    /\ \A o, p \in Ops : op[o].lease /\ op[p].lease /\ op[o].dom = op[p].dom => o = p
    /\ \A d \in Domains : activity[d] = "Async" => \E o \in Ops : op[o].lease /\ op[o].dom = d
    /\ \A d \in Domains, o \in Ops : o \in refs[d] <=> op[o].dom = d

(* A synchronous operation or mutation holds its Store exclusively and     *)
(* alone, and as long as it runs its domain stays.                         *)
ExclusiveHeld ==
    /\ \A n \in 1..Len(stack) :
          stack[n].kind \in LeaseKinds =>
              /\ activity[stack[n].dom] = "Exclusive"
              /\ (IF stack[n].kind = "Call" THEN "local" ELSE "handle") \in refs[stack[n].dom]
    /\ \A n, k \in 1..Len(stack) :
          /\ {stack[n].kind, stack[k].kind} \subseteq LeaseKinds
          /\ stack[n].dom = stack[k].dom
          => n = k
    /\ \A d \in Domains : activity[d] = "Exclusive" => LeaseFrames(d, LeaseKinds) # {}

(* A synchronous operation is on top of the call stack, inside the guest,  *)
(* in a Store that does not require asynchronous entrypoints.              *)
SyncOnTop ==
    \A n \in 1..Len(stack) :
        stack[n].kind \in SyncKinds =>
            n = Len(stack) /\ stack[n].at = "guest" /\ ~asyncRequired[stack[n].dom]

(* Each frame of an operation is the only one of that operation, which     *)
(* exists; a frame of a destroyed domain is its destruction.               *)
FrameFits(x) ==
    /\ x.kind \in {"Poll", "Drop"} => x.op \in Ops /\ op[x.op].dom = x.dom
    /\ x.kind = "Poll" => op[x.op].future = "running"
    /\ x.kind = "Teardown" => refs[x.dom] = {}
    /\ x.kind = "Instantiate" => x.mod \in Modules

OneFrameEach(s) ==
    \A n, k \in 1..Len(s) : s[n].op \in Ops /\ s[n].op = s[k].op => n = k

FramesFit == OneFrameEach(stack) /\ \A n \in 1..Len(stack) : FrameFits(stack[n])

(* A Store requires asynchronous entrypoints before a module that imports  *)
(* an asynchronous host function gets anywhere near running in it.         *)
RequiredInTime ==
    /\ \A d \in Domains : \A m \in linked[d] : Imports[m] # {} => asyncRequired[d]
    /\ \A o \in Ops :
          op[o].kind = "inst" /\ op[o].future # "null" =>
              /\ UsesAsyncHostFunction(op[o].dom, op[o].mod) => asyncRequired[op[o].dom]
              /\ op[o].future # "fresh" => op[o].mod \in linked[op[o].dom]

(* The inductive invariant from which the proofs start.                    *)
IInv == /\ TypeOK /\ LeasesHeld /\ ExclusiveHeld /\ SyncOnTop
        /\ FramesFit /\ RequiredInTime /\ NativeErrorsOwned

-----------------------------------------------------------------------------
(* What the repository says of the program, refuted by runs of their own.  *)

(* "Instance must NOT keep ExecutionDomain / Store alive ... an Instance   *)
(* retained after Program destruction must fail safely": no call enters a  *)
(* domain whose ExecutionDomain or Program is gone.                        *)
InstanceDiesWithProgram ==
    \A n \in 1..Len(stack) :
        stack[n].kind = "Call" => "handle" \in refs[stack[n].dom]

(* "This state machine prevents overlapping Store operations": no two      *)
(* operations on the call stack are the polling of one future.             *)
PollsDoNotOverlap ==
    \A n, k \in 1..Len(stack) :
        stack[n].kind = "Poll" /\ stack[k].kind = "Poll" /\ stack[n].op = stack[k].op
            => n = k

(* The same words, of a mutation: nobody destroys a Store while its linker *)
(* is being changed and the lease for that is held.                        *)
MutationsDoNotOverlap ==
    \A n \in 1..Len(stack) : stack[n].kind = "Define" => Alive(stack[n].dom)
=============================================================================
