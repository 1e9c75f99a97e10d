------------------------ MODULE HostInvocationProofs ------------------------
(***************************************************************************)
(* The invariants of HostInvocation for any names, signatures and values   *)
(* and any number of definitions.                                          *)
(***************************************************************************)
EXTENDS HostInvocation, SequenceTheorems, TLAPS

InFlight == stage \in {"callback", "installed", "suspended", "polling", "taking", "answered"}

(* The call owns the domain for as long as there is one, and a domain that *)
(* nobody owns has lost its linker.                                        *)
OwnersInv ==
    /\ stage # "none" <=> "call" \in owners
    /\ owners = {} => \A k \in Keys : linker[k] = None

(* An invocation is of a function the linker has; what it was called with  *)
(* was compared with the definition unless that ended it; it has trapped   *)
(* before it is answered only if the callback did.                         *)
FlightInv ==
    /\ InFlight => inv.binding # None /\ \E k \in Keys : linker[k] = inv.binding
    /\ stage = "callback" => inv.callback = "unset"
    /\ stage \in {"suspended", "polling", "taking"} => inv.callback = "Poll"
    /\ stage \in {"installed", "answered"} => inv.callback \in {"Poll", "Immediate"}
    /\ InFlight /\ inv.callback = "Immediate" => inv.trap = TRUE /\ inv.delivered = None
    /\ InFlight /\ inv.callback # "Immediate" =>
          /\ inv.args = binding[inv.binding].sig.params
          /\ Len(inv.slots) = Len(binding[inv.binding].sig.results)
    /\ stage \in {"callback", "installed", "suspended", "polling", "taking"} /\ inv.callback # "Immediate"
          => inv.trap = FALSE /\ inv.delivered = None

ContinuationInv == ContinuationOwned /\ (inv.finalizer = TRUE <=> inv.callback = "Poll")

IInv == /\ TypeOK
        /\ BindingsOwned
        /\ OwnersInv
        /\ FlightInv
        /\ ContinuationInv
        /\ GuestGetsWhatWasPromised

-----------------------------------------------------------------------------
(* Lemmas *)

(* The definition an invocation is of exists and has a signature.          *)
LEMMA FlightSigned ==
    ASSUME IInv, InFlight
    PROVE  /\ inv.binding \in Bindings
           /\ binding[inv.binding].memory = "live"
           /\ binding[inv.binding].sig \in [params : Values, results : Values]
  <1>1. inv.binding \in Bindings
    BY SignaturesAssumption DEF IInv, TypeOK, FlightInv
  <1>2. binding[inv.binding].memory = "live"
    BY <1>1 DEF IInv, BindingsOwned, FlightInv
  <1>3. binding[inv.binding].sig \in Signatures
    BY <1>1, <1>2 DEF IInv, TypeOK, BindingStates
  <1> QED
    BY <1>1, <1>2, <1>3, SignaturesAssumption

(* All values of a delivery of the right length are accepted exactly when  *)
(* they are of the kinds of the signature.                                 *)
LEMMA AllAccepted ==
    ASSUME NEW values \in Seq(Kinds), NEW kinds \in Seq(Kinds), Len(values) = Len(kinds)
    PROVE  (Accepted(values, kinds) = 1..Len(values)) <=> (values = kinds)
  <1>1. ASSUME Accepted(values, kinds) = 1..Len(values) PROVE values = kinds
    <2>1. ASSUME NEW s \in 1..Len(values) PROVE values[s] = kinds[s]
      <3>1. s \in Accepted(values, kinds)
        BY <1>1, <2>1
      <3>2. s \in 1..s
        BY <2>1
      <3> QED
        BY <3>1, <3>2 DEF Accepted
    <2> QED
      BY <2>1, SeqEqual
  <1>2. ASSUME values = kinds PROVE Accepted(values, kinds) = 1..Len(values)
    BY <1>2 DEF Accepted
  <1> QED
    BY <1>1, <1>2

-----------------------------------------------------------------------------
LEMMA InvInit == Init => IInv
  BY SignaturesAssumption
  DEF Init, IInv, TypeOK, Invocations, BindingStates, Stages, Memory, Operations, NoInvocation, BindingsOwned, OwnersInv, FlightInv,
      InFlight, ContinuationInv, ContinuationOwned, GuestGetsWhatWasPromised

-----------------------------------------------------------------------------
(* The life of the domain and the call *)

LEMMA DefinitionStep ==
    ASSUME IInv, NEW k \in Keys, NEW sig \in Signatures, NEW b \in Bindings, DefineAsyncFunction(k, sig, b)
    PROVE  IInv'
  <1> USE SignaturesAssumption DEF IInv, DefineAsyncFunction
  <1>1. binding' \in [Bindings -> BindingStates] /\ linker' \in [Keys -> Bindings \cup {None}]
    BY DEF TypeOK, BindingStates, Memory, Allocate, Refused, Deleted
  <1>2. TypeOK'
    BY <1>1 DEF TypeOK
  <1>3. BindingsOwned'
    BY DEF TypeOK, BindingsOwned, Allocate, Refused, Deleted, BindingStates
  <1>4. OwnersInv'
    BY DEF TypeOK, OwnersInv
  <1>5. FlightInv' /\ ContinuationInv' /\ GuestGetsWhatWasPromised'
    BY DEF FlightInv, InFlight, ContinuationInv, ContinuationOwned, GuestGetsWhatWasPromised
  <1> QED
    BY <1>2, <1>3, <1>4, <1>5

LEMMA CallStep == ASSUME IInv, CallScalerAsync \/ BeginPoll \/ GuestReturns PROVE IInv'
  <1> USE DEF IInv
  <1>1. CASE CallScalerAsync
    BY <1>1 DEF CallScalerAsync, OwnersWithCall, TypeOK, Stages, BindingsOwned, OwnersInv, FlightInv, InFlight, ContinuationInv, ContinuationOwned, GuestGetsWhatWasPromised
  <1>2. CASE BeginPoll \/ GuestReturns
    <2>1. /\ UNCHANGED <<owners, binding, linker, inv, cont>>
          /\ stage \in {"fresh", "guest"} /\ stage' \in {"guest", "ended"}
      BY <1>2 DEF BeginPoll, GuestReturns
    <2>2. TypeOK' /\ BindingsOwned' /\ OwnersInv'
      BY <2>1 DEF TypeOK, Stages, BindingsOwned, OwnersInv
    <2>3. FlightInv' /\ ContinuationInv' /\ GuestGetsWhatWasPromised'
      BY <2>1 DEF FlightInv, InFlight, ContinuationInv, ContinuationOwned, GuestGetsWhatWasPromised
    <2> QED
      BY <2>2, <2>3
  <1> QED
    BY <1>1, <1>2

(* What the destruction of a domain, with its last owner, does.            *)
LEMMA LeaveStep ==
    ASSUME IInv, NEW owner \in {"handle", "call"}, Leave(owner)
    PROVE  /\ binding' \in [Bindings -> BindingStates] /\ linker' \in [Keys -> Bindings \cup {None}]
           /\ owners' = owners \ {owner}
           /\ BindingsOwned'
           /\ owners' = {} => \A k \in Keys : linker'[k] = None
           /\ owners' # {} => UNCHANGED <<linker, binding>>
  <1> USE SignaturesAssumption DEF IInv, Leave
  <1>1. CASE owners' # {}
    BY <1>1 DEF TypeOK, BindingsOwned
  <1>2. CASE owners' = {}
    <2>1. linker' = [k \in Keys |-> None]
      BY <1>2
    <2>2. \A b \in Bindings : \/ /\ binding[b].memory = "live"
                                 /\ binding'[b] = [binding[b] EXCEPT !.memory = "deleted"]
                              \/ /\ binding[b].memory # "live"
                                 /\ binding'[b] = binding[b]
      BY <1>2 DEF BindingsOwned, Deleted, TypeOK
    <2>3. \A b \in Bindings : binding[b] \in BindingStates
      BY DEF TypeOK
    <2>4. \A b \in Bindings : binding'[b] \in BindingStates
      BY <2>2, <2>3 DEF BindingStates, Memory
    <2>5. binding' = [b \in Bindings |-> binding'[b]]
      BY <1>2
    <2>6. BindingsOwned'
      BY <2>1, <2>2, <2>3 DEF BindingsOwned, BindingStates
    <2> QED
      BY <1>2, <2>1, <2>4, <2>5, <2>6
  <1> QED
    BY <1>1, <1>2

LEMMA DestroyStep == ASSUME IInv, DestroyDomain PROVE IInv'
  <1> USE DEF IInv, DestroyDomain
  <1>1. /\ binding' \in [Bindings -> BindingStates] /\ linker' \in [Keys -> Bindings \cup {None}]
        /\ owners' = owners \ {"handle"}
        /\ BindingsOwned'
        /\ owners' = {} => \A k \in Keys : linker'[k] = None
        /\ owners' # {} => UNCHANGED <<linker, binding>>
    BY LeaveStep
  <1>2. TypeOK' /\ OwnersInv'
    BY <1>1 DEF TypeOK, OwnersInv
  <1>3. CASE InFlight
    <2>1. UNCHANGED <<linker, binding, stage, inv, cont>>
      BY <1>1, <1>3 DEF OwnersInv, InFlight
    <2> QED
      BY <1>1, <1>2, <2>1 DEF FlightInv, InFlight, ContinuationInv, ContinuationOwned, GuestGetsWhatWasPromised
  <1>4. CASE ~InFlight
    BY <1>1, <1>2, <1>4 DEF FlightInv, InFlight, ContinuationInv, ContinuationOwned, GuestGetsWhatWasPromised
  <1> QED
    BY <1>3, <1>4

LEMMA DropStep == ASSUME IInv, DropCall PROVE IInv'
  <1> USE SignaturesAssumption DEF IInv, DropCall
  <1>1. /\ binding' \in [Bindings -> BindingStates] /\ linker' \in [Keys -> Bindings \cup {None}]
        /\ owners' = owners \ {"call"}
        /\ BindingsOwned'
        /\ owners' = {} => \A k \in Keys : linker'[k] = None
    BY LeaveStep
  <1>2. cont' \in Memory /\ cont' # "live" /\ cont' # "corrupt"
    BY DEF ContinuationInv, ContinuationOwned, FlightInv, Finalized, Deleted, TypeOK, Memory
  <1>3. inv' \in Invocations
    BY DEF NoInvocation, Invocations
  <1>4. TypeOK' /\ OwnersInv'
    BY <1>1, <1>2, <1>3 DEF TypeOK, OwnersInv, Stages
  <1> QED
    BY <1>1, <1>2, <1>4 DEF FlightInv, InFlight, ContinuationInv, ContinuationOwned, GuestGetsWhatWasPromised, NoInvocation

-----------------------------------------------------------------------------
(* The callback *)

LEMMA CallbackStep ==
    ASSUME IInv, NEW k \in Keys, NEW args \in Values, NEW v \in Values, AsyncHostCallback(k, args, Len(v))
    PROVE  IInv'
  <1> DEFINE n == Len(v)
             b == linker[k]
             i == [NoInvocation EXCEPT !.binding = b, !.args = args, !.slots = [s \in 1..n |-> None]]
  <1> USE SignaturesAssumption DEF IInv
  <1>1. n \in Nat /\ b \in Bindings /\ binding[b].memory = "live"
    BY DEF TypeOK, AsyncHostCallback, BindingsOwned
  <1>2. i \in Invocations /\ i.trap = FALSE /\ i.delivered = None /\ i.callback = "unset" /\ i.finalizer = FALSE
        /\ i.binding = b /\ i.args = args /\ i.slots = [s \in 1..n |-> None] /\ Len(i.slots) = n
    <2> HIDE DEF n, b
    <2>1. [s \in 1..n |-> None] \in Seq(Kinds \cup {None}) /\ Len([s \in 1..n |-> None]) = n
      BY <1>1
    <2> QED
      BY <1>1, <2>1 DEF NoInvocation, Invocations
  <1>3. cont' = "unused" /\ UNCHANGED <<owners, binding, linker>> /\ stage = "guest"
    BY DEF AsyncHostCallback
  <1>4. BindingsOwned'
    BY <1>3 DEF BindingsOwned
  <1>5. CASE ReadsArguments(binding[b].sig, args, n)
    <2>1. inv' = i /\ stage' = "callback"
      BY <1>5 DEF AsyncHostCallback
    <2>2. binding[b].sig \in [params : Values, results : Values]
      BY <1>1 DEF TypeOK, BindingStates
    <2>3. args = binding[b].sig.params /\ n = Len(binding[b].sig.results)
      BY <1>5, <2>2, SeqEqual DEF ReadsArguments
    <2> HIDE DEF i, n, b
    <2>4. TypeOK' /\ OwnersInv'
      BY <1>2, <1>3, <2>1 DEF TypeOK, OwnersInv, Stages, Memory
    <2>5. inv.binding' # None /\ \E x \in Keys : linker[x] = inv.binding'
      BY <1>1, <1>2, <2>1 DEF b
    <2> QED
      BY <1>2, <1>3, <1>4, <2>1, <2>3, <2>4, <2>5 DEF FlightInv, InFlight, ContinuationInv, ContinuationOwned, GuestGetsWhatWasPromised
  <1>6. CASE ~ReadsArguments(binding[b].sig, args, n)
    <2>1. inv' = ConfigureImmediateContinuation(SetTrap(i)) /\ stage' = "installed"
      BY <1>6 DEF AsyncHostCallback
    <2> HIDE DEF i, n
    <2>2. inv' \in Invocations /\ inv'.trap = TRUE /\ inv'.delivered = None /\ inv'.callback = "Immediate"
          /\ inv'.finalizer = FALSE /\ inv'.binding = b
      BY <1>2, <2>1 DEF ConfigureImmediateContinuation, SetTrap, Invocations
    <2>3. TypeOK' /\ OwnersInv'
      BY <1>3, <2>1, <2>2 DEF TypeOK, OwnersInv, Stages, Memory
    <2>4. inv.binding' # None /\ \E x \in Keys : linker[x] = inv.binding'
      BY <1>1, <2>2
    <2> QED
      BY <1>3, <1>4, <2>1, <2>2, <2>3, <2>4 DEF FlightInv, InFlight, ContinuationInv, ContinuationOwned, GuestGetsWhatWasPromised
  <1> QED
    BY <1>5, <1>6

LEMMA FunctionFailsStep == ASSUME IInv, HostFunctionFails PROVE IInv'
  <1> USE DEF IInv
  <1>1. /\ inv' \in Invocations /\ inv'.trap = TRUE /\ inv'.delivered = None
        /\ inv'.callback = "Immediate" /\ inv'.finalizer = FALSE /\ inv'.binding = inv.binding
        /\ stage = "callback" /\ stage' = "installed" /\ inv.callback = "unset"
        /\ UNCHANGED <<owners, binding, linker, cont>>
    BY DEF HostFunctionFails, ConfigureImmediateContinuation, SetTrap, TypeOK, Invocations, FlightInv, InFlight
  <1>2. TypeOK' /\ OwnersInv' /\ BindingsOwned'
    BY <1>1 DEF TypeOK, OwnersInv, BindingsOwned, Stages
  <1> QED
    BY <1>1, <1>2 DEF FlightInv, InFlight, ContinuationInv, ContinuationOwned, GuestGetsWhatWasPromised

LEMMA FunctionReturnsStep == ASSUME IInv, NEW o \in Operations, HostFunctionReturns(o) PROVE IInv'
  <1> USE DEF IInv
  <1>1. /\ inv' \in Invocations /\ inv'.trap = FALSE /\ inv'.delivered = None /\ cont' = "live"
        /\ inv'.callback = "Poll" /\ inv'.finalizer = TRUE /\ inv'.binding = inv.binding
        /\ inv'.args = inv.args /\ inv'.slots = inv.slots
        /\ stage = "callback" /\ stage' = "installed" /\ inv.callback = "unset"
        /\ UNCHANGED <<owners, binding, linker>>
    BY DEF HostFunctionReturns, WithContinuation, TypeOK, Invocations, FlightInv, InFlight
  <1>2. TypeOK' /\ OwnersInv' /\ BindingsOwned'
    BY <1>1 DEF TypeOK, OwnersInv, BindingsOwned, Stages, Memory
  <1> QED
    BY <1>1, <1>2 DEF FlightInv, InFlight, ContinuationInv, ContinuationOwned, GuestGetsWhatWasPromised

-----------------------------------------------------------------------------
(* The continuation *)

(* Whatever goes wrong in the host's operation ends in a trap.             *)
LEMMA TrappedStep ==
    ASSUME IInv, InFlight, stage # "answered", stage # "callback", inv.callback = "Poll", Trapped
    PROVE  IInv'
  <1> USE DEF IInv
  <1>1. /\ inv' \in Invocations /\ inv'.trap = TRUE /\ inv'.delivered = None
        /\ inv'.callback = "Poll" /\ inv'.finalizer = inv.finalizer /\ inv'.binding = inv.binding
        /\ inv'.args = inv.args /\ inv'.slots = inv.slots
        /\ stage' = "answered" /\ UNCHANGED <<owners, binding, linker, cont>>
    BY DEF Trapped, SetTrap, TypeOK, Invocations, FlightInv, InFlight
  <1>2. TypeOK' /\ OwnersInv' /\ BindingsOwned'
    BY <1>1 DEF TypeOK, OwnersInv, BindingsOwned, Stages, InFlight
  <1>3. binding[inv.binding].sig.results # None
    BY FlightSigned, SignaturesAssumption
  <1> QED
    BY <1>1, <1>2, <1>3 DEF FlightInv, InFlight, ContinuationInv, ContinuationOwned, GuestGetsWhatWasPromised

(* Steps that change nothing but where the invocation is.                  *)
LEMMA MovesOn ==
    ASSUME IInv, InFlight, UNCHANGED <<owners, binding, linker, inv, cont>>,
           \/ inv.callback = "Poll" /\ stage' \in {"polling", "suspended", "taking"} /\ stage \notin {"callback", "answered"}
           \/ inv.callback = "Immediate" /\ stage = "installed" /\ stage' = "answered"
    PROVE  IInv'
  <1> USE DEF IInv
  <1>1. TypeOK' /\ OwnersInv' /\ BindingsOwned'
    BY DEF TypeOK, OwnersInv, BindingsOwned, Stages, InFlight
  <1>2. binding[inv.binding].sig.results # None
    BY FlightSigned, SignaturesAssumption
  <1> QED
    BY <1>1, <1>2 DEF FlightInv, InFlight, ContinuationInv, ContinuationOwned, GuestGetsWhatWasPromised

LEMMA PollStep ==
    ASSUME IInv, \/ ContinuationStep \/ HostPollFails \/ HostPending \/ HostReady
                 \/ ReadyWithoutFunction \/ HostTakeFails
    PROVE  IInv'
  <1>1. CASE PollImmediate
    BY <1>1, MovesOn DEF PollImmediate, InFlight
  <1>2. CASE PollHostContinuation
    BY <1>2, MovesOn DEF PollHostContinuation, ContinuationPolled, InFlight
  <1>3. CASE HostPending \/ HostReady
    BY <1>3, MovesOn DEF HostPending, HostReady, InFlight, IInv, FlightInv
  <1>4. CASE PollWithoutFunction \/ HostPollFails \/ ReadyWithoutFunction \/ HostTakeFails
    BY <1>4, TrappedStep DEF PollWithoutFunction, ContinuationPolled, HostPollFails, ReadyWithoutFunction,
                             HostTakeFails, InFlight, IInv, FlightInv
  <1> QED
    BY <1>1, <1>2, <1>3, <1>4 DEF ContinuationStep

LEMMA DeliveryStep == ASSUME IInv, NEW values \in Values, HostDelivers(values) PROVE IInv'
  <1> DEFINE kinds == binding[inv.binding].sig.results
             i == [inv EXCEPT !.delivered = values]
  <1> USE SignaturesAssumption DEF IInv
  <1>1. kinds \in Values /\ kinds \in Seq(Kinds) /\ values \in Seq(Kinds) /\ values # None
    BY FlightSigned DEF HostDelivers, InFlight
  <1>2. /\ inv \in Invocations /\ inv.trap = FALSE /\ inv.callback = "Poll" /\ Len(inv.slots) = Len(kinds)
        /\ stage = "taking" /\ stage' = "answered" /\ UNCHANGED <<owners, binding, linker, cont>>
    BY DEF HostDelivers, TypeOK, FlightInv, InFlight
  <1>3. i \in Invocations /\ i.slots = inv.slots /\ i.delivered = values /\ i.trap = FALSE
        /\ i.binding = inv.binding /\ i.args = inv.args /\ i.callback = "Poll" /\ i.finalizer = inv.finalizer
    BY <1>2 DEF Invocations
  <1>4. /\ inv' \in Invocations /\ inv'.delivered = values /\ inv'.callback = "Poll" /\ inv'.finalizer = inv.finalizer
        /\ inv'.binding = inv.binding /\ inv'.args = inv.args /\ Len(inv'.slots) = Len(kinds)
        /\ inv'.trap = FALSE <=> values = kinds
        /\ inv'.trap = FALSE => inv'.slots = kinds
    <2>1. CASE CountMatches(values, kinds, Len(inv.slots))
      <3> DEFINE slots == [s \in 1..Len(i.slots) |->
                              IF s \in Accepted(values, kinds) THEN values[s] ELSE i.slots[s]]
                 trap == Accepted(values, kinds) # 1..Len(values)
      <3>1. inv' = [i EXCEPT !.slots = slots, !.trap = trap]
        BY <2>1 DEF HostDelivers, Written
      <3>2. Len(i.slots) = Len(values) /\ Len(values) = Len(kinds)
        BY <1>3, <2>1 DEF CountMatches
      <3>3. i.slots \in Seq(Kinds \cup {None}) /\ Len(i.slots) \in Nat
        BY <1>3 DEF Invocations
      <3>4. \A s \in 1..Len(i.slots) : values[s] \in Kinds /\ i.slots[s] \in Kinds \cup {None}
        BY <1>1, <3>2, <3>3
      <3>5. slots \in Seq(Kinds \cup {None}) /\ Len(slots) = Len(kinds)
        BY <3>2, <3>3, <3>4
      <3>6. trap \in BOOLEAN /\ (trap = FALSE <=> values = kinds)
        BY <1>1, <3>2, AllAccepted
      <3>7. ASSUME trap = FALSE PROVE slots = kinds
        <4>1. values = kinds /\ Accepted(values, kinds) = 1..Len(values)
          BY <3>6, <3>7
        <4>2. \A s \in 1..Len(slots) : slots[s] = kinds[s]
          BY <3>2, <3>5, <4>1
        <4>3. kinds \in Seq(Kinds \cup {None})
          BY <1>1
        <4> QED
          BY <3>5, <4>2, <4>3, SeqEqual
      <3> HIDE DEF i, kinds, slots, trap
      <3> QED
        BY <1>2, <1>3, <3>1, <3>5, <3>6, <3>7 DEF Invocations
    <2>2. CASE ~CountMatches(values, kinds, Len(inv.slots))
      <3>1. inv' = [i EXCEPT !.trap = TRUE]
        BY <2>2 DEF HostDelivers, SetTrap
      <3>2. values # kinds
        BY <1>2, <2>2 DEF CountMatches
      <3> HIDE DEF i, kinds
      <3> QED
        BY <1>2, <1>3, <3>1, <3>2 DEF Invocations
    <2> QED
      BY <2>1, <2>2
  <1>5. TypeOK' /\ OwnersInv' /\ BindingsOwned'
    BY <1>2, <1>4 DEF TypeOK, OwnersInv, BindingsOwned, Stages
  <1>6. FlightInv' /\ ContinuationInv'
    BY <1>2, <1>4 DEF FlightInv, InFlight, ContinuationInv, ContinuationOwned
  <1>7. GuestGetsWhatWasPromised'
    BY <1>2, <1>4 DEF GuestGetsWhatWasPromised, Invocations
  <1> QED
    BY <1>5, <1>6, <1>7

LEMMA ResumeStep == ASSUME IInv, Resume PROVE IInv'
  <1> USE SignaturesAssumption DEF IInv
  <1>1. cont' \in Memory /\ cont' # "live" /\ cont' # "corrupt"
    BY DEF Resume, ContinuationInv, ContinuationOwned, FlightInv, Finalized, Deleted, TypeOK, Memory
  <1>2. inv' \in Invocations /\ inv' = NoInvocation
    BY DEF Resume, NoInvocation, Invocations
  <1>3. stage = "answered" /\ stage' \in {"guest", "ended"} /\ UNCHANGED <<owners, binding, linker>>
    BY DEF Resume
  <1>4. TypeOK' /\ OwnersInv' /\ BindingsOwned'
    BY <1>1, <1>2, <1>3 DEF TypeOK, OwnersInv, BindingsOwned, Stages
  <1> QED
    BY <1>1, <1>2, <1>3, <1>4 DEF FlightInv, InFlight, ContinuationInv, ContinuationOwned, GuestGetsWhatWasPromised, NoInvocation

-----------------------------------------------------------------------------
(* The theorems *)

LEMMA InvStep == IInv /\ [Next]_vars => IInv'
  <1> SUFFICES ASSUME IInv, [Next]_vars PROVE IInv'
    OBVIOUS
  <1>1. CASE Next
    <2>1. CASE ContinuationStep \/ HostPending \/ HostAnswers
      BY <2>1, PollStep, FunctionFailsStep, FunctionReturnsStep, DeliveryStep DEF HostAnswers
    <2>2. CASE Invoke
      BY <2>2, CallbackStep DEF Invoke
    <2> QED
      BY <1>1, <2>1, <2>2, DefinitionStep, CallStep, DestroyStep, DropStep, ResumeStep DEF Next
  <1>2. CASE UNCHANGED vars
    BY <1>2 DEF vars, IInv, TypeOK, BindingsOwned, OwnersInv, FlightInv, InFlight, ContinuationInv, ContinuationOwned, GuestGetsWhatWasPromised
  <1> QED
    BY <1>1, <1>2

LEMMA InvImplies ==
    IInv => HostSeesItsDefinition /\ ContinuationConfigured /\ ContinuationOwned
  <1> SUFFICES ASSUME IInv PROVE HostSeesItsDefinition /\ ContinuationConfigured /\ ContinuationOwned
    OBVIOUS
  <1>1. HostSeesItsDefinition
    BY FlightSigned DEF HostSeesItsDefinition, IInv, FlightInv, InFlight
  <1>2. ContinuationConfigured
    BY DEF ContinuationConfigured, IInv, FlightInv, InFlight
  <1> QED
    BY <1>1, <1>2 DEF IInv, ContinuationInv

LEMMA Inductive == Spec => []IInv
  BY InvInit, InvStep, PTL DEF Spec

(* Type correctness of definitions, invocations and memory.                *)
THEOREM TypeCorrect == Spec => []TypeOK
  BY Inductive, PTL DEF IInv

(* For functions of any signature: the guest goes on exactly when the host *)
(* delivered what was promised, and finds it in its slots.                 *)
THEOREM PromiseKept == Spec => []GuestGetsWhatWasPromised
  BY Inductive, PTL DEF IInv

(* Host code sees arguments of the kinds of a definition that still exists,*)
(* however many definitions there were and even without ExecutionDomain.   *)
THEOREM DefinitionSeen == Spec => []HostSeesItsDefinition
  BY Inductive, InvImplies, PTL

(* Bindings live as long as the linker has them and are deleted once.      *)
THEOREM BindingsAreOwned == Spec => []BindingsOwned
  BY Inductive, PTL DEF IInv

(* The state of a continuation is deleted exactly once.                    *)
THEOREM ContinuationsAreOwned == Spec => []ContinuationOwned
  BY Inductive, InvImplies, PTL

(* Wasmtime never gets an unconfigured continuation to poll.               *)
THEOREM ContinuationsAreConfigured == Spec => []ContinuationConfigured
  BY Inductive, InvImplies, PTL

-----------------------------------------------------------------------------
(* The invocations implement HostCall *)

(* What Phase, Promised and Reply are outside an invocation, in one that   *)
(* the host works on, and in one that is over.                             *)
PhaseTable ==
    /\ ~InFlight => ~Answered /\ Promised = <<>> /\ Reply = <<"nothing", <<>>>>
    /\ InFlight => Promised = binding[inv.binding].sig.results /\ Promised \in Values
    /\ stage = "installed" => (Answered <=> inv.callback # "Poll")
    /\ stage \in {"none", "fresh"} => Phase = "idle"
    /\ stage = "guest" => Phase = "guest"
    /\ stage = "ended" => Phase = "ended"
    /\ stage = "callback" => Phase = "function"
    /\ stage = "installed" /\ ~Answered => Phase = "operation"
    /\ stage = "suspended" => Phase = "operation"
    /\ stage = "polling" => Phase = "poll"
    /\ stage = "taking" => Phase = "result"
    /\ stage = "answered" => Answered
    /\ stage \notin {"installed", "answered"} => ~Answered
    /\ Answered => Phase = "answered" /\ Reply = IF inv.trap THEN <<"trap", <<>>>> ELSE <<"values", inv.slots>>
    /\ ~Answered => Reply = <<"nothing", <<>>>>

LEMMA PhaseFacts == IInv => PhaseTable
  <1> SUFFICES ASSUME IInv PROVE PhaseTable
    OBVIOUS
  <1>1. stage = "installed" => (Answered <=> inv.callback # "Poll")
    BY DEF Answered, IInv, FlightInv
  <1>2. InFlight => Promised = binding[inv.binding].sig.results /\ Promised \in Values
    BY FlightSigned DEF Promised, InFlight
  <1>3. ~InFlight => ~Answered /\ Promised = <<>> /\ Reply = <<"nothing", <<>>>>
    BY DEF InFlight, Answered, Promised, Reply
  <1>4. /\ stage = "answered" => Answered
        /\ stage \notin {"installed", "answered"} => ~Answered
    BY DEF Answered
  <1>5. /\ Answered => Phase = "answered" /\ Reply = IF inv.trap THEN <<"trap", <<>>>> ELSE <<"values", inv.slots>>
        /\ ~Answered => Reply = <<"nothing", <<>>>>
    BY DEF Phase, Reply
  <1>6. stage \notin {"installed", "answered"} =>
           Phase = CASE stage \in {"none", "fresh"}          -> "idle"
                     [] stage = "callback"                   -> "function"
                     [] stage = "suspended" \/ (stage = "installed" /\ inv.callback = "Poll") -> "operation"
                     [] stage = "polling"                    -> "poll"
                     [] stage = "taking"                     -> "result"
                     [] OTHER                                -> stage
    BY <1>4 DEF Phase
  <1>7. /\ stage \in {"none", "fresh"} => Phase = "idle"
        /\ stage = "guest" => Phase = "guest"
        /\ stage = "ended" => Phase = "ended"
    BY <1>6
  <1>8. /\ stage = "callback" => Phase = "function"
        /\ stage = "suspended" => Phase = "operation"
        /\ stage = "polling" => Phase = "poll"
        /\ stage = "taking" => Phase = "result"
    BY <1>6
  <1>9. stage = "installed" /\ ~Answered => Phase = "operation"
    BY <1>1 DEF Phase
  <1> QED
    BY <1>1, <1>2, <1>3, <1>4, <1>5, <1>7, <1>8, <1>9 DEF PhaseTable

(* A definition that an invocation is of stays the same until it ends.     *)
LEMMA PromiseStays ==
    ASSUME InFlight, InFlight', UNCHANGED binding, inv'.binding = inv.binding
    PROVE  Promised' = Promised
  BY DEF Promised, InFlight

(* A step that changes nothing of an invocation but how far it is.         *)
LEMMA PhaseMoves ==
    ASSUME PhaseTable, PhaseTable', UNCHANGED <<binding, inv>>, InFlight, InFlight',
           ~Answered, ~Answered'
    PROVE  Promised' = Promised /\ Reply' = Reply
  BY PromiseStays DEF PhaseTable

(* A step that ends an invocation with a trap.                             *)
LEMMA PhaseFails ==
    ASSUME PhaseTable, PhaseTable', UNCHANGED binding, inv'.binding = inv.binding,
           InFlight, InFlight', Answered', inv'.trap, Phase \in Calls!HostTurn
    PROVE  Calls!Fail
  BY PromiseStays DEF PhaseTable, Calls!Fail, Calls!Trap

(* Each step is one turn of guest or host, or none of them sees it.        *)
LEMMA CallStepKept ==
    ASSUME IInv, [Next]_vars
    PROVE  [Calls!Next]_(Calls!vars)
  <1>0. IInv' /\ PhaseTable
    BY InvStep, PhaseFacts
  <1>1. PhaseTable'
    <2>1. IInv' => PhaseTable'
      BY PhaseFacts, PTL
    <2> QED
      BY <1>0, <2>1
  <1>2. TypeOK /\ TypeOK' /\ FlightInv /\ FlightInv'
    BY <1>0 DEF IInv
  <1>s. ASSUME UNCHANGED <<stage, inv>>, InFlight => UNCHANGED binding
        PROVE  UNCHANGED Calls!vars
    <2>1. UNCHANGED <<Answered, Promised>>
      BY <1>s DEF Answered, Promised, InFlight
    <2> QED
      BY <1>s, <2>1 DEF Calls!vars, Phase, Reply
  <1>3. ASSUME NEW k \in Keys, NEW sig \in Signatures, NEW b \in Bindings, DefineAsyncFunction(k, sig, b)
        PROVE  UNCHANGED Calls!vars
    BY <1>3, <1>s DEF DefineAsyncFunction, InFlight
  <1>4. CASE CallScalerAsync
    <2>1. /\ Phase = "idle" /\ Promised = <<>> /\ Reply = <<"nothing", <<>>>>
          /\ Phase' = "idle" /\ Promised' = <<>> /\ Reply' = <<"nothing", <<>>>>
      BY <1>0, <1>1, <1>4 DEF CallScalerAsync, PhaseTable, InFlight
    <2> QED
      BY <2>1 DEF Calls!vars
  <1>5. CASE BeginPoll \/ GuestReturns
    <2>1. /\ Promised = <<>> /\ Reply = <<"nothing", <<>>>>
          /\ Promised' = <<>> /\ Reply' = <<"nothing", <<>>>>
          /\ \/ Phase = "idle" /\ Phase' = "guest"
             \/ Phase = "guest" /\ Phase' = "ended"
      BY <1>0, <1>1, <1>5 DEF BeginPoll, GuestReturns, PhaseTable, InFlight
    <2> QED
      BY <2>1 DEF Calls!Next, Calls!Begin, Calls!End, Calls!Turn
  <1>6. CASE DestroyDomain
    <2>1. InFlight => "call" \in owners
      BY DEF IInv, OwnersInv, InFlight
    <2>2. InFlight => UNCHANGED binding
      BY <1>6, <2>1 DEF DestroyDomain, Leave
    <2> QED
      BY <1>6, <1>s, <2>2 DEF DestroyDomain
  <1>7. CASE DropCall
    <2>1. /\ Phase \in {"idle", "operation", "ended"}
          /\ Phase' = "idle" /\ Promised' = <<>> /\ Reply' = <<"nothing", <<>>>>
      BY <1>0, <1>1, <1>7 DEF DropCall, PhaseTable, InFlight
    <2> QED
      BY <2>1 DEF Calls!Next, Calls!Drop, Calls!Nothing
  <1>8. ASSUME NEW k \in Keys, NEW args \in Values, NEW v \in Values, AsyncHostCallback(k, args, Len(v))
        PROVE  Calls!Invoke
    <2>1. Phase = "guest" /\ Promised = <<>> /\ Reply = <<"nothing", <<>>>>
      BY <1>0, <1>8 DEF AsyncHostCallback, PhaseTable, InFlight
    <2>2. /\ stage' = "callback" \/ (stage' = "installed" /\ inv'.callback = "Immediate")
          /\ InFlight'
      BY <1>8 DEF AsyncHostCallback, ConfigureImmediateContinuation, SetTrap, NoInvocation, InFlight
    <2>3. Promised' \in Values
      BY <1>1, <2>2 DEF PhaseTable
    <2>4. CASE stage' = "callback"
      <3>1. Phase' = "function" /\ Reply' = <<"nothing", <<>>>>
        BY <1>1, <2>4 DEF PhaseTable
      <3> QED
        BY <2>1, <2>3, <3>1 DEF Calls!Invoke
    <2>5. CASE stage' = "installed" /\ inv'.callback = "Immediate"
      <3>1. Phase' = "answered" /\ Reply' = <<"trap", <<>>>>
        BY <1>1, <1>2, <2>2, <2>5 DEF PhaseTable, FlightInv
      <3> QED
        BY <2>1, <2>3, <3>1 DEF Calls!Invoke, Calls!Trap
    <2> QED
      BY <2>2, <2>4, <2>5
  <1>9. CASE HostFunctionFails
    <2>1. /\ stage = "callback" /\ stage' = "installed" /\ UNCHANGED binding
          /\ inv'.callback = "Immediate" /\ inv'.trap /\ inv'.binding = inv.binding
      BY <1>2, <1>9 DEF HostFunctionFails, ConfigureImmediateContinuation, SetTrap, TypeOK, Invocations
    <2>2. InFlight /\ InFlight' /\ Answered' /\ Phase = "function"
      BY <1>0, <1>1, <2>1 DEF PhaseTable, InFlight
    <2> QED
      BY <1>0, <1>1, <2>1, <2>2, PhaseFails DEF Calls!HostTurn, Calls!Next
  <1>10. ASSUME NEW o \in Operations, HostFunctionReturns(o)
         PROVE  Calls!Accept
    <2>1. /\ stage = "callback" /\ stage' = "installed" /\ UNCHANGED binding
          /\ inv'.callback = "Poll" /\ inv'.binding = inv.binding
      BY <1>2, <1>10 DEF HostFunctionReturns, WithContinuation, TypeOK, Invocations
    <2>2. InFlight /\ InFlight' /\ ~Answered /\ ~Answered' /\ Phase = "function" /\ Phase' = "operation"
      BY <1>0, <1>1, <2>1 DEF PhaseTable, InFlight
    <2>3. Promised' = Promised /\ Reply' = Reply
      BY <1>0, <1>1, <2>1, <2>2, PromiseStays DEF PhaseTable
    <2> QED
      BY <2>2, <2>3 DEF Calls!Accept, Calls!Turn
  <1>11. CASE PollImmediate
    <2>1. /\ stage = "installed" /\ inv.callback # "Poll" /\ stage' = "answered" /\ UNCHANGED <<binding, inv>>
      BY <1>11 DEF PollImmediate
    <2>2. InFlight /\ InFlight' /\ Answered /\ Answered'
      BY <1>0, <1>1, <2>1 DEF PhaseTable, InFlight
    <2>3. UNCHANGED <<Phase, Promised, Reply>>
      BY <1>0, <1>1, <2>1, <2>2, PromiseStays DEF PhaseTable
    <2> QED
      BY <2>3 DEF Calls!vars
  <1>t. ASSUME Trapped, \/ ContinuationPolled
                        \/ stage \in {"polling", "taking"}
        PROVE  Calls!Fail
    <2>1. /\ stage' = "answered" /\ inv'.trap /\ inv'.binding = inv.binding /\ UNCHANGED binding
      BY <1>2, <1>t DEF Trapped, SetTrap, TypeOK, Invocations
    <2>2. InFlight /\ InFlight' /\ Answered' /\ Phase \in Calls!HostTurn
      BY <1>0, <1>1, <1>t, <2>1 DEF PhaseTable, InFlight, ContinuationPolled, Calls!HostTurn
    <2> QED
      BY <1>0, <1>1, <2>1, <2>2, PhaseFails
  <1>12. CASE PollHostContinuation \/ HostPending \/ HostReady
    <2>1. UNCHANGED <<binding, inv>> /\ InFlight /\ InFlight' /\ ~Answered /\ ~Answered'
      BY <1>0, <1>1, <1>12
         DEF PollHostContinuation, ContinuationPolled, HostPending, HostReady, PhaseTable, InFlight
    <2>2. \/ Phase = "operation" /\ Phase' = "poll"
          \/ Phase = "poll" /\ Phase' \in {"operation", "result"}
      BY <1>0, <1>1, <1>12, <2>1
         DEF PollHostContinuation, ContinuationPolled, HostPending, HostReady, PhaseTable
    <2>3. Promised' = Promised /\ Reply' = Reply
      BY <1>0, <1>1, <2>1, PhaseMoves
    <2> QED
      BY <2>2, <2>3 DEF Calls!Next, Calls!Ask, Calls!Pending, Calls!Ready, Calls!Turn
  <1>13. ASSUME NEW v \in Values, HostDelivers(v)
         PROVE  Calls!Deliver(v)
    <2>1. stage = "taking" /\ stage' = "answered" /\ UNCHANGED binding /\ InFlight /\ InFlight'
      BY <1>13 DEF HostDelivers, InFlight
    <2>2. inv'.delivered = v /\ inv'.binding = inv.binding
      BY <1>2, <1>13 DEF HostDelivers, Written, SetTrap, TypeOK, Invocations
    <2>3. Phase = "result" /\ Phase' = "answered" /\ Promised' = Promised
      BY <1>0, <1>1, <2>1, <2>2, PromiseStays DEF PhaseTable
    <2>4. inv.callback = "Poll" /\ inv'.callback = inv.callback
      BY <1>2, <1>13, <2>1 DEF HostDelivers, Written, SetTrap, TypeOK, Invocations, FlightInv
    <2>5. Promised' = binding'[inv'.binding].sig.results /\ Len(inv'.slots) = Len(Promised')
      BY <1>1, <1>2, <2>1, <2>4 DEF PhaseTable, FlightInv
    <2>6. (~inv'.trap <=> v = Promised') /\ (~inv'.trap => inv'.slots = Promised')
      BY <1>0, <2>1, <2>2, <2>5 DEF IInv, GuestGetsWhatWasPromised
    <2>7. Reply' = IF v = Promised THEN <<"values", v>> ELSE <<"trap", <<>>>>
      BY <1>1, <2>1, <2>3, <2>6 DEF PhaseTable
    <2> QED
      BY <2>3, <2>7 DEF Calls!Deliver, Calls!Trap, Calls!GoOn
  <1>14. CASE Resume
    <2>1. /\ Phase = "answered" /\ Reply = IF inv.trap THEN <<"trap", <<>>>> ELSE <<"values", inv.slots>>
      BY <1>0, <1>14 DEF Resume, PhaseTable
    <2>2. inv.trap <=> Reply = <<"trap", <<>>>>
      BY <2>1
    <2>3. /\ Phase' = IF Reply = <<"trap", <<>>>> THEN "ended" ELSE "guest"
          /\ Promised' = <<>> /\ Reply' = <<"nothing", <<>>>>
      BY <1>1, <1>14, <2>2 DEF Resume, PhaseTable, InFlight
    <2> QED
      BY <2>1, <2>3 DEF Calls!Next, Calls!Resume, Calls!Trap, Calls!Nothing
  <1>15. CASE UNCHANGED vars
    BY <1>15, <1>s DEF vars
  <1> QED
    <2>1. CASE ContinuationStep \/ HostPending
      BY <2>1, <1>11, <1>12, <1>t DEF ContinuationStep, PollWithoutFunction, Calls!Next
    <2>2. CASE HostAnswers
      BY <2>2, <1>9, <1>10, <1>12, <1>13, <1>t
         DEF HostAnswers, HostPollFails, ReadyWithoutFunction, HostTakeFails, Calls!Next
    <2>3. CASE Invoke
      BY <2>3, <1>8 DEF Invoke, Calls!Next
    <2> QED
      BY <1>3, <1>4, <1>5, <1>6, <1>7, <1>14, <1>15, <2>1, <2>2, <2>3 DEF Next

(* For any definitions and values: the host's function, its operation's    *)
(* poll and its result are each asked for in turn and never after an end,  *)
(* and the guest goes on only with what was promised when it called.       *)
THEOREM InvocationsKeepTheirPromise == Spec => CallsKept
  <1>1. Init => Calls!Init
    BY DEF Init, Calls!Init, Calls!Nothing, Phase, Promised, Reply, Answered
  <1> QED
    BY Inductive, <1>1, CallStepKept, PTL DEF Spec, CallsKept, Calls!Spec
=============================================================================
