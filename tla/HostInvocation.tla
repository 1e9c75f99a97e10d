--------------------------- MODULE HostInvocation ---------------------------
(***************************************************************************)
(* The asynchronous host functions of one ExecutionDomain: how they get    *)
(* into the linker, and what becomes of one guest call that invokes them.  *)
(*                                                                         *)
(* StoreExecution has the re-entrancy of host code; here it is what passes *)
(* between guest and host: arguments, the operation the host returns, its  *)
(* answers, the results in the guest's slots, the trap, and the C++        *)
(* objects that Wasmtime is given to delete.  The leases admit one call at *)
(* a time in a Store, so there is one.  A value is represented by its kind.*)
(***************************************************************************)
EXTENDS Naturals, Sequences, FiniteSets

CONSTANTS Keys,       \* <<module, name>> under which functions are defined
          Bindings,   \* addresses for AsyncHostBinding objects, each used once
          Kinds,      \* the HostValueKinds
          Values,     \* what may be passed, or returned: sequences of kinds
          Signatures, \* AsyncHostFunctionSignatures: [params, results]
          None

ASSUME SignaturesAssumption ==
    /\ Values \subseteq Seq(Kinds)
    /\ Signatures \subseteq [params : Values, results : Values]
    /\ None \notin Bindings /\ None \notin Kinds /\ None \notin Values
    /\ None \notin Signatures

VARIABLES
    owners,   \* owners of the domain: its "handle" and the "call"
    binding,  \* the AsyncHostBindings
    linker,   \* the binding Wasmtime's linker has for each key
    stage,    \* where the guest call is
    inv,      \* its invocation of a host function, the last one if it is over
    cont      \* the ContinuationState of that invocation

vars == <<owners, binding, linker, stage, inv, cont>>

(* fresh: the future exists and was never polled.  guest: guest code runs. *)
(* callback, polling, taking: host code runs.  installed: the callback has *)
(* returned a continuation.  suspended: the continuation was pending.      *)
(* answered: it was ready.  ended: the future is complete.                 *)
Stages == {"none", "fresh", "guest", "callback", "installed", "suspended",
           "polling", "taking", "answered", "ended"}

(* A heap object: allocated once, deleted once.                            *)
Memory == {"unused", "live", "deleted", "corrupt"}
Deleted(m) == IF m = "live" THEN "deleted" ELSE "corrupt"

Operations == [poll : BOOLEAN, take : BOOLEAN]

NoInvocation == [binding |-> None, args |-> <<>>, slots |-> <<>>, trap |-> FALSE,
                 op |-> None, callback |-> "unset", finalizer |-> FALSE,
                 delivered |-> None]

Init == /\ owners = {"handle"}
        /\ binding = [b \in Bindings |-> [memory |-> "unused", sig |-> None]]
        /\ linker = [k \in Keys |-> None]
        /\ stage = "none"
        /\ inv = NoInvocation
        /\ cont = "unused"

HostRuns == stage \in {"none", "fresh", "callback", "suspended", "polling", "taking", "ended"}

-----------------------------------------------------------------------------
(* Definition of a host function *)

Allocate(b, sig) == [binding EXCEPT ![b] = [memory |-> "live", sig |-> sig]]

(* Variant: a refused binding is left to nobody.                           *)
RefusedAndForgotten(b, sig) == Allocate(b, sig)

(* The linker owns the binding from the call on: when it refuses the name, *)
(* it runs the binding's finalizer itself, and the code must not.          *)
Refused(b, sig) == [binding EXCEPT ![b] = [memory |-> Deleted("live"), sig |-> sig]]

(* The lease of DefineAsyncFunction is refused while a call has a future.  *)
DefineAsyncFunction(k, sig, b) ==
    /\ "handle" \in owners
    /\ stage \in {"none", "ended"}
    /\ binding[b].memory = "unused"
    /\ IF linker[k] = None
       THEN /\ binding' = Allocate(b, sig)
            /\ linker' = [linker EXCEPT ![k] = b]
       ELSE /\ binding' = Refused(b, sig)
            /\ UNCHANGED linker
    /\ UNCHANGED <<owners, stage, inv, cont>>

-----------------------------------------------------------------------------
(* The life of the call around the invocation *)

(* Variant: the call does not keep the domain.                             *)
OwnersOfBorrowingCall == owners

OwnersWithCall == owners \cup {"call"}

CallScalerAsync == /\ "handle" \in owners
                   /\ stage = "none"
                   /\ stage' = "fresh"
                   /\ owners' = OwnersWithCall
                   /\ UNCHANGED <<binding, linker, inv, cont>>

BeginPoll == /\ stage = "fresh"
             /\ stage' = "guest"
             /\ UNCHANGED <<owners, binding, linker, inv, cont>>

GuestReturns == /\ stage = "guest"
                /\ stage' = "ended"
                /\ UNCHANGED <<owners, binding, linker, inv, cont>>

(* The domain is destroyed with its last owner, and the linker with it,    *)
(* which deletes what it was given.                                        *)
Leave(owner) ==
    /\ owners' = owners \ {owner}
    /\ IF owners' = {}
       THEN /\ linker' = [k \in Keys |-> None]
            /\ binding' = [b \in Bindings |->
                  IF \E k \in Keys : linker[k] = b
                  THEN [binding[b] EXCEPT !.memory = Deleted(@)] ELSE binding[b]]
       ELSE UNCHANGED <<linker, binding>>

DestroyDomain == /\ HostRuns
                 /\ "handle" \in owners
                 /\ Leave("handle")
                 /\ UNCHANGED <<stage, inv, cont>>

(* Wasmtime runs a continuation's finalizer, if it has one, when it is     *)
(* done with it: after its answer, or with the future that holds it.       *)
Finalized == IF inv.finalizer THEN Deleted(cont) ELSE cont

(* The AsyncCall is destroyed, finished or not.                            *)
DropCall == /\ stage \in {"fresh", "suspended", "ended"}
            /\ stage' = "none"
            /\ inv' = NoInvocation
            /\ cont' = IF stage = "suspended" THEN Finalized ELSE cont
            /\ Leave("call")

-----------------------------------------------------------------------------
(* AsyncHostCallback *)

SetTrap(i) == [i EXCEPT !.trap = TRUE]

(* Variant: the continuation is not configured.                            *)
LeftUnconfigured(i) == i

ConfigureImmediateContinuation(i) == [i EXCEPT !.callback = "Immediate", !.finalizer = FALSE]

ReadsArguments(sig, args, n) ==
    /\ Len(args) = Len(sig.params)
    /\ n = Len(sig.results)
    /\ \A i \in 1..Len(args) : args[i] = sig.params[i]

(* A guest's call of the function under k; args and n are what Wasmtime    *)
(* passes.  It promises that they fit the type of the definition, and the  *)
(* code compares them all the same.                                        *)
AsyncHostCallback(k, args, n) ==
    /\ stage = "guest"
    /\ linker[k] # None
    /\ LET b == linker[k]
           i == [NoInvocation EXCEPT !.binding = b, !.args = args,
                                     !.slots = [s \in 1..n |-> None]]
       IN IF ReadsArguments(binding[b].sig, args, n)
          THEN inv' = i /\ stage' = "callback"
          ELSE /\ inv' = ConfigureImmediateContinuation(SetTrap(i))
               /\ stage' = "installed"
    /\ cont' = "unused"
    /\ UNCHANGED <<owners, binding, linker>>

(* The host function returns an Error or throws.                           *)
HostFunctionFails == /\ stage = "callback"
                     /\ inv' = ConfigureImmediateContinuation(SetTrap(inv))
                     /\ stage' = "installed"
                     /\ UNCHANGED <<owners, binding, linker, cont>>

(* Variant: nobody is told to delete the continuation's state.             *)
WithoutFinalizer(i, o) == [i EXCEPT !.op = o, !.callback = "Poll"]

WithContinuation(i, o) == [i EXCEPT !.op = o, !.callback = "Poll", !.finalizer = TRUE]

HostFunctionReturns(o) == /\ stage = "callback"
                          /\ inv' = WithContinuation(inv, o)
                          /\ cont' = "live"
                          /\ stage' = "installed"
                          /\ UNCHANGED <<owners, binding, linker>>

-----------------------------------------------------------------------------
(* PollHostContinuation *)

(* Variant: a failure of the host's operation leaves it pending.           *)
LeftPending == /\ stage' = "suspended"
               /\ UNCHANGED <<owners, binding, linker, inv, cont>>

Trapped == /\ inv' = SetTrap(inv)
           /\ stage' = "answered"
           /\ UNCHANGED <<owners, binding, linker, cont>>

(* Wasmtime polls a continuation as soon as it is installed, and again     *)
(* whenever the host polls the call.                                       *)
PollImmediate == /\ stage = "installed" /\ inv.callback = "Immediate"
                 /\ stage' = "answered"
                 /\ UNCHANGED <<owners, binding, linker, inv, cont>>

ContinuationPolled == stage \in {"installed", "suspended"} /\ inv.callback = "Poll"

PollWithoutFunction == ContinuationPolled /\ ~inv.op.poll /\ Trapped

PollHostContinuation == /\ ContinuationPolled /\ inv.op.poll
                        /\ stage' = "polling"
                        /\ UNCHANGED <<owners, binding, linker, inv, cont>>

(* The host's poll function returns an Error or throws.                    *)
HostPollFails == stage = "polling" /\ Trapped

HostPending == /\ stage = "polling"
               /\ stage' = "suspended"
               /\ UNCHANGED <<owners, binding, linker, inv, cont>>

HostReady == /\ stage = "polling" /\ inv.op.take
             /\ stage' = "taking"
             /\ UNCHANGED <<owners, binding, linker, inv, cont>>

ReadyWithoutFunction == stage = "polling" /\ ~inv.op.take /\ Trapped

HostTakeFails == stage = "taking" /\ Trapped

CountMatches(values, kinds, n) == Len(values) = Len(kinds) /\ Len(values) = n

(* WriteHostValue for one slot after the other, up to the first value that *)
(* is not of the kind the signature says.                                  *)
Accepted(values, kinds) ==
    {s \in 1..Len(values) : \A j \in 1..s : values[j] = kinds[j]}

(* Variant: a value of the wrong kind is passed over.                      *)
WrittenOrSkipped(i, values, kinds) ==
    [i EXCEPT !.slots = [s \in 1..Len(i.slots) |->
                            IF s \in Accepted(values, kinds) THEN values[s] ELSE i.slots[s]]]

Written(i, values, kinds) ==
    [i EXCEPT !.slots = [s \in 1..Len(i.slots) |->
                            IF s \in Accepted(values, kinds) THEN values[s] ELSE i.slots[s]],
              !.trap = Accepted(values, kinds) # 1..Len(values)]

(* The host delivers values: right, or wrong in number or kind, in which   *)
(* case slots may have been written when the guest traps.                  *)
HostDelivers(values) ==
    /\ stage = "taking"
    /\ LET kinds == binding[inv.binding].sig.results
           i == [inv EXCEPT !.delivered = values]
       IN inv' = IF CountMatches(values, kinds, Len(inv.slots))
                 THEN Written(i, values, kinds) ELSE SetTrap(i)
    /\ stage' = "answered"
    /\ UNCHANGED <<owners, binding, linker, cont>>

(* Wasmtime is done with the continuation; the guest goes on with what is  *)
(* in the slots, or the call ends with the trap.                           *)
Resume == /\ stage = "answered"
          /\ cont' = Finalized
          /\ inv' = NoInvocation
          /\ stage' = IF inv.trap THEN "ended" ELSE "guest"
          /\ UNCHANGED <<owners, binding, linker>>

-----------------------------------------------------------------------------
Invoke == \E k \in Keys, args, v \in Values : AsyncHostCallback(k, args, Len(v))

HostAnswers == \/ HostFunctionFails
               \/ \E o \in Operations : HostFunctionReturns(o)
               \/ HostPollFails
               \/ HostReady
               \/ ReadyWithoutFunction
               \/ HostTakeFails
               \/ \E v \in Values : HostDelivers(v)

ContinuationStep == PollImmediate \/ PollWithoutFunction \/ PollHostContinuation

Next == \/ \E k \in Keys, s \in Signatures, b \in Bindings : DefineAsyncFunction(k, s, b)
        \/ CallScalerAsync
        \/ BeginPoll
        \/ GuestReturns
        \/ DestroyDomain
        \/ DropCall
        \/ Invoke
        \/ ContinuationStep
        \/ HostPending
        \/ HostAnswers
        \/ Resume

Spec == Init /\ [][Next]_vars

(* The host goes on polling a call it has not dropped, its functions       *)
(* return, and its operation does not stay pending for ever.               *)
FairSpec == /\ Spec
            /\ WF_vars(ContinuationStep)
            /\ WF_vars(Resume)
            /\ SF_vars(HostAnswers)

-----------------------------------------------------------------------------
BindingStates == [memory : {"unused"}, sig : {None}]
                    \cup [memory : Memory \ {"unused"}, sig : Signatures]

Invocations ==
    [binding : Bindings \cup {None}, args : Values \cup {<<>>},
     slots : Seq(Kinds \cup {None}), trap : BOOLEAN,
     op : Operations \cup {None}, callback : {"unset", "Immediate", "Poll"},
     finalizer : BOOLEAN, delivered : Values \cup {None}]

TypeOK ==
    /\ owners \subseteq {"handle", "call"}
    /\ binding \in [Bindings -> BindingStates]
    /\ linker \in [Keys -> Bindings \cup {None}]
    /\ stage \in Stages
    /\ cont \in Memory
    /\ inv \in Invocations

(* The guest goes on exactly when the host has delivered what the function *)
(* was defined to return, and then finds that in its slots; every other    *)
(* end of the host's operation (an Error or an exception of the function,  *)
(* of its poll or of its result, a function that is missing, too few, too  *)
(* many or wrong values) is a trap, whatever was written before.           *)
GuestGetsWhatWasPromised ==
    stage = "answered" =>
        LET promised == binding[inv.binding].sig.results
        IN /\ ~inv.trap <=> inv.delivered = promised /\ Len(inv.slots) = Len(promised)
           /\ ~inv.trap => inv.slots = promised

(* Host code sees arguments of the kinds it was defined with, from a       *)
(* definition that still exists, even when the host has meanwhile destroyed *)
(* the ExecutionDomain.                                                    *)
HostSeesItsDefinition ==
    stage \in {"callback", "polling", "taking"} =>
        /\ inv.binding # None
        /\ binding[inv.binding].memory = "live"
        /\ inv.args = binding[inv.binding].sig.params
        /\ Len(inv.slots) = Len(binding[inv.binding].sig.results)

(* A binding lives exactly as long as the linker has it, whether the       *)
(* definition was accepted or refused, and is deleted once.                *)
BindingsOwned ==
    \A b \in Bindings :
        /\ binding[b].memory # "corrupt"
        /\ binding[b].memory = "live" <=> \E k \in Keys : linker[k] = b

(* The state of a continuation lives exactly from the callback that makes  *)
(* it to the end of the invocation, by an answer or by the loss of the     *)
(* call, and is deleted once.                                              *)
ContinuationOwned ==
    /\ cont # "corrupt"
    /\ cont = "live" <=> /\ stage \in {"installed", "suspended", "polling", "taking", "answered"}
                         /\ inv.callback = "Poll"

(* Whatever the callback does, Wasmtime gets a continuation it can poll.   *)
ContinuationConfigured ==
    stage \in {"installed", "suspended", "polling", "taking", "answered"} =>
        /\ inv.callback # "unset"
        /\ inv.callback = "Immediate" => inv.trap

(* The invocations implement the promise of HostCall.  One whose callback  *)
(* has failed is answered, though Wasmtime has yet to poll for that.       *)
Answered == stage = "answered" \/ (stage = "installed" /\ inv.callback = "Immediate")

Promised == IF stage \in {"callback", "installed", "suspended", "polling", "taking", "answered"}
            THEN binding[inv.binding].sig.results ELSE <<>>

Phase == IF Answered THEN "answered"
         ELSE CASE stage \in {"none", "fresh"}          -> "idle"
                [] stage = "callback"                   -> "function"
                [] stage = "suspended" \/ (stage = "installed" /\ inv.callback = "Poll") -> "operation"
                [] stage = "polling"                    -> "poll"
                [] stage = "taking"                     -> "result"
                [] OTHER                                -> stage

Reply == IF ~Answered THEN <<"nothing", <<>>>>
         ELSE IF inv.trap THEN <<"trap", <<>>>> ELSE <<"values", inv.slots>>

Calls == INSTANCE HostCall
    WITH Results <- Values, phase <- Phase, promise <- Promised, answer <- Reply

CallsKept == Calls!Spec

(* A guest that has called a host function is answered, unless the host    *)
(* drops the call.                                                         *)
InvocationsEnd ==
    stage \in {"callback", "installed", "suspended"} ~> stage \in {"guest", "ended", "none"}
=============================================================================
