------------------------ MODULE StoreLifetimeProofs ------------------------
(***************************************************************************)
(* Theorems about the lives of operations and domains in StoreExecution:   *)
(* what is promised of the outcome of an operation, what keeps a domain in *)
(* existence and how it is destroyed.  They rest on IInv, which            *)
(* StoreExecutionProofs shows to be inductive.                             *)
(***************************************************************************)
EXTENDS StoreExecutionProofs

-----------------------------------------------------------------------------
(* The operations implement AsyncOutcome *)

OutcomeOf(s) == IF Stage(s) # "ready" THEN "none"
                ELSE IF s.native = "none" THEN "value" ELSE "failure"

StageMap == [o \in Ops |-> Stage(op[o])]
TargetMap == [o \in Ops |-> <<op[o].kind, op[o].dom, op[o].mod>>]
OutcomeMap == [o \in Ops |-> OutcomeOf(op[o])]

(* How the state of an operation shows through the mapping.                *)
LEMMA StageFacts ==
    ASSUME IInv, NEW o \in Ops
    PROVE  /\ Stage(op[o]) = "absent" <=> op[o].kind = "free"
           /\ op[o].future # "null" => Stage(op[o]) = "pending" /\ ~op[o].taken
           /\ op[o].ready /\ ~op[o].taken => Stage(op[o]) = "ready"
  <1>1. op[o].taken => op[o].ready
    <2>1. op[o] \in OpStates
      BY DEF IInv, TypeOK
    <2> QED
      BY <2>1 DEF OpStates, NoOp
  <1>2. op[o].future # "null" => op[o].lease /\ ~op[o].ready /\ op[o].kind # "free"
    BY OpFacts
  <1>3. op[o].ready => op[o].future = "null" /\ op[o].kind # "free"
    BY OpFacts
  <1> QED
    BY <1>1, <1>2, <1>3 DEF Stage

(* A step that changes one operation changes one entry of each map.        *)
LEMMA OneChanges ==
    ASSUME NEW o \in Ops, \A p \in Ops \ {o} : op'[p] = op[p]
    PROVE  /\ StageMap' = [StageMap EXCEPT ![o] = Stage(op'[o])]
           /\ TargetMap' = [TargetMap EXCEPT ![o] = <<op'[o].kind, op'[o].dom, op'[o].mod>>]
           /\ OutcomeMap' = [OutcomeMap EXCEPT ![o] = OutcomeOf(op'[o])]
  BY DEF StageMap, TargetMap, OutcomeMap

(* A step the holder of the operations cannot see.                         *)
LEMMA NoneChanges ==
    ASSUME NEW o \in Ops, \A p \in Ops \ {o} : op'[p] = op[p],
           op[o].kind # "free", op[o].future # "null", NEW x \in {"running", "suspended"},
           op'[o] = [op[o] EXCEPT !.future = x], op[o] \in OpStates
    PROVE  UNCHANGED <<StageMap, TargetMap, OutcomeMap>>
  <1>1. op[o] # NoOp
    BY DEF NoOp
  <1>2. /\ op'[o].kind = op[o].kind /\ op'[o].dom = op[o].dom /\ op'[o].mod = op[o].mod
        /\ op'[o].future = x
    BY <1>1 DEF OpStates, LiveOps
  <1>3. Stage(op'[o]) = Stage(op[o]) /\ OutcomeOf(op'[o]) = OutcomeOf(op[o])
    BY <1>2 DEF Stage, OutcomeOf
  <1>4. \A p \in Ops : /\ Stage(op'[p]) = Stage(op[p]) /\ OutcomeOf(op'[p]) = OutcomeOf(op[p])
                       /\ op'[p].kind = op[p].kind /\ op'[p].dom = op[p].dom /\ op'[p].mod = op[p].mod
    BY <1>2, <1>3
  <1> QED
    BY <1>4 DEF StageMap, TargetMap, OutcomeMap

(* Each step starts, settles, takes from or drops one operation, or shows  *)
(* nothing to those who hold the operations.                               *)
LEMMA OutcomeStep ==
    ASSUME IInv, [Next]_vars
    PROVE  [Outcomes!Next]_(Outcomes!vars)
  <1>0. TypeOK
    BY DEF IInv
  <1>m. UNCHANGED <<StageMap, TargetMap, OutcomeMap>> => UNCHANGED Outcomes!vars
    BY DEF Outcomes!vars, StageMap, TargetMap, OutcomeMap, OutcomeOf
  <1>o. UNCHANGED op => UNCHANGED <<StageMap, TargetMap, OutcomeMap>>
    BY DEF StageMap, TargetMap, OutcomeMap, OutcomeOf
  <1>s. ASSUME NEW o \in Ops, op[o].kind = "free", NEW k \in {"call", "inst"},
               NEW d \in Domains, NEW m \in Modules \cup {None}, k = "inst" => m \in Modules,
               op' = [op EXCEPT ![o] = Started(k, d, m)]
        PROVE  Outcomes!Next
    <2>1. op'[o] = Started(k, d, m) /\ \A p \in Ops \ {o} : op'[p] = op[p]
      BY <1>0, <1>s DEF TypeOK
    <2>2. /\ op'[o].kind = k /\ op'[o].dom = d /\ op'[o].mod = m /\ op'[o].future = "fresh"
      BY <1>s, <2>1, StartedType
    <2>3. Stage(op[o]) = "absent" /\ OutcomeOf(op[o]) = "none"
      BY <1>s DEF Stage, OutcomeOf
    <2>4. Stage(op'[o]) = "pending" /\ OutcomeOf(op'[o]) = "none"
      BY <1>s, <2>2 DEF Stage, OutcomeOf
    <2>5. /\ StageMap' = [StageMap EXCEPT ![o] = "pending"]
          /\ TargetMap' = [TargetMap EXCEPT ![o] = <<k, d, m>>]
          /\ OutcomeMap' = [OutcomeMap EXCEPT ![o] = "none"]
      BY <2>1, <2>2, <2>4, OneChanges
    <2>6. OutcomeMap' = OutcomeMap /\ StageMap[o] = "absent"
      BY <2>3, <2>5 DEF OutcomeMap, StageMap
    <2>7. <<k, d, m>> \in {"call", "inst"} \X Domains \X (Modules \cup {None})
      BY <1>s
    <2> QED
      BY <2>5, <2>6, <2>7 DEF Outcomes!Next, Outcomes!Start, StageMap, TargetMap, OutcomeMap, OutcomeOf
  <1>c. ASSUME NEW o \in Ops, op[o].future # "null", NEW n \in {"none", "error", "trap"},
               op' = [op EXCEPT ![o] = Completed(@, n)]
        PROVE  Outcomes!Next
    <2>1. op'[o] = Completed(op[o], n) /\ \A p \in Ops \ {o} : op'[p] = op[p]
      BY <1>0, <1>c DEF TypeOK
    <2>2. op[o] \in OpStates /\ op[o] # NoOp /\ Stage(op[o]) = "pending" /\ ~op[o].taken
      BY <1>0, <1>c, StageFacts DEF TypeOK, NoOp
    <2>3. /\ op'[o].kind = op[o].kind /\ op'[o].dom = op[o].dom /\ op'[o].mod = op[o].mod
          /\ op'[o].future = "null" /\ op'[o].ready /\ ~op'[o].taken /\ op'[o].kind # "free"
      BY <2>1, <2>2 DEF Completed, OpStates, LiveOps
    <2>4. Stage(op'[o]) = "ready" /\ OutcomeOf(op'[o]) \in {"value", "failure"}
      BY <2>3 DEF Stage, OutcomeOf
    <2>5. /\ StageMap' = [StageMap EXCEPT ![o] = "ready"] /\ StageMap[o] = "pending"
          /\ TargetMap' = TargetMap
          /\ \E r \in {"value", "failure"} : OutcomeMap' = [OutcomeMap EXCEPT ![o] = r]
      BY <2>1, <2>2, <2>3, <2>4, OneChanges DEF StageMap, TargetMap
    <2> QED
      BY <2>5 DEF Outcomes!Next, Outcomes!Settle, StageMap, TargetMap, OutcomeMap, OutcomeOf
  <1>p. ASSUME OnTop("Poll") PROVE Top.op \in Ops /\ op[Top.op].future # "null"
    BY <1>p, TopFrame DEF OnTop
  <1>f. ASSUME NEW o \in Ops, op[o].future # "null", NEW x \in {"running", "suspended"},
               op' = [op EXCEPT ![o].future = x]
        PROVE  UNCHANGED <<StageMap, TargetMap, OutcomeMap>>
    <2>1. /\ op'[o] = [op[o] EXCEPT !.future = x] /\ \A p \in Ops \ {o} : op'[p] = op[p]
          /\ op[o] \in OpStates
      BY <1>0, <1>f DEF TypeOK
    <2>2. op[o].kind # "free"
      BY <1>f, OpFacts
    <2> QED
      BY <1>f, <2>1, <2>2, NoneChanges
  <1>6. ASSUME NEW i \in Instances, NEW o \in Ops, CallAsync(i, o)
        PROVE  Outcomes!Next
    <2>1. inst[i].dom \in Domains
      BY <1>0, <1>6 DEF CallAsync, InstStates, TypeOK
    <2>2. op[o].kind = "free" /\ op' = [op EXCEPT ![o] = Started("call", inst[i].dom, None)]
      BY <1>6 DEF CallAsync, Start
    <2> QED
      BY <1>s, <2>1, <2>2
  <1>7. ASSUME NEW d \in Domains, NEW m \in Modules, NEW o \in Ops, InstantiateAsync(d, m, o)
        PROVE  Outcomes!Next
    <2>1. op[o].kind = "free" /\ op' = [op EXCEPT ![o] = Started("inst", d, m)]
      BY <1>7 DEF InstantiateAsync, Start
    <2> QED
      BY <1>s, <2>1
  <1>9. ASSUME NEW o \in Ops, Poll(o)
        PROVE  UNCHANGED <<StageMap, TargetMap, OutcomeMap>>
    BY <1>9, <1>f DEF Poll
  <1>11. ASSUME NEW o \in Ops, PollUnresolved(o)
         PROVE  Outcomes!Next
    <2>1. op[o].future # "null" /\ op' = [op EXCEPT ![o] = Completed(@, "error")]
      BY <1>11 DEF PollUnresolved, Complete
    <2> QED
      BY <1>c, <2>1
  <1>14. CASE ContinuationPending
    BY <1>14, <1>f, <1>p, <1>m DEF ContinuationPending
  <1>16. CASE HostFails
    <2>1. op' = [op EXCEPT ![Top.op] = Completed(@, "trap")]
      BY <1>16 DEF HostFails, Complete
    <2> QED
      BY <1>16, <1>c, <1>p, <2>1 DEF HostFails
  <1>17. CASE GuestReturns
    <2>1. PICK n \in {"none", "error", "trap"} : op' = [op EXCEPT ![Top.op] = Completed(@, n)]
      BY <1>17 DEF GuestReturns, Complete
    <2> QED
      BY <1>17, <1>c, <1>p, <2>1 DEF GuestReturns
  <1>18. ASSUME NEW o \in Ops, TakeResult(o)
         PROVE  Outcomes!Next
    <2>1. /\ op[o] # NoOp /\ op[o] \in OpStates /\ op[o].ready /\ ~op[o].taken
          /\ Stage(op[o]) = "ready" /\ op[o].future = "null"
      BY <1>0, <1>18, OpFacts, StageFacts DEF TakeResult, TypeOK, NoOp
    <2>2. /\ op'[o] = [op[o] EXCEPT !.taken = TRUE, !.native = "none"]
          /\ \A p \in Ops \ {o} : op'[p] = op[p]
      BY <1>0, <1>18 DEF TakeResult, TypeOK
    <2>3. /\ op'[o].kind = op[o].kind /\ op'[o].dom = op[o].dom /\ op'[o].mod = op[o].mod
          /\ op'[o].future = op[o].future /\ op'[o].taken /\ op'[o].kind # "free"
      BY <2>1, <2>2 DEF OpStates, LiveOps
    <2>4. Stage(op'[o]) = "taken" /\ OutcomeOf(op'[o]) = "none"
      BY <2>1, <2>3 DEF Stage, OutcomeOf
    <2>5. /\ StageMap' = [StageMap EXCEPT ![o] = "taken"] /\ StageMap[o] = "ready"
          /\ TargetMap' = TargetMap
          /\ OutcomeMap' = [OutcomeMap EXCEPT ![o] = "none"]
      BY <2>1, <2>2, <2>3, <2>4, OneChanges DEF StageMap, TargetMap
    <2> QED
      BY <2>5 DEF Outcomes!Next, Outcomes!Take, StageMap, TargetMap, OutcomeMap, OutcomeOf
  <1>20. CASE FinishDrop
    <2>1. PICK o \in Ops : o = Top.op /\ op[o].kind # "free"
      BY <1>20, TopFrame DEF FinishDrop, OnTop
    <2>2. op'[o] = NoOp /\ \A p \in Ops \ {o} : op'[p] = op[p]
      BY <1>0, <1>20, <2>1 DEF FinishDrop, TypeOK
    <2>3. op'[o].kind = "free" /\ op'[o].dom = None /\ op'[o].mod = None
      BY <2>2 DEF NoOp
    <2>4. Stage(op'[o]) = "absent" /\ OutcomeOf(op'[o]) = "none"
      BY <2>3 DEF Stage, OutcomeOf
    <2>5. /\ StageMap' = [StageMap EXCEPT ![o] = "absent"] /\ StageMap[o] # "absent"
          /\ TargetMap' = [TargetMap EXCEPT ![o] = <<"free", None, None>>]
          /\ OutcomeMap' = [OutcomeMap EXCEPT ![o] = "none"]
      BY <2>1, <2>2, <2>3, <2>4, OneChanges, StageFacts DEF StageMap
    <2> QED
      BY <2>5 DEF Outcomes!Next, Outcomes!Drop, StageMap, TargetMap, OutcomeMap, OutcomeOf
  <1>24. CASE UNCHANGED op
    BY <1>24, <1>m, <1>o
  <1> QED
    BY <1>m, <1>6, <1>7, <1>9, <1>11, <1>14, <1>16, <1>17, <1>18, <1>20, <1>24
       DEF Next, vars, DefineAsyncFunction, DefineRefused, FinishDefine, OperationFails,
           Instantiate, FinishInstantiate, Call, FinishCall,
           InstantiateAsyncFails, GuestCallsHost, HostReturnsOperation, ContinuationReady,
           Drop, DropHandle, FinishTeardown, DropInstance

(* Whatever else the host does in between, and from wherever it does it,   *)
(* an operation has one outcome, which it keeps until it is taken, once.   *)
THEOREM OperationsKeepTheirPromise == Spec => OutcomesKept
  <1>1. Init => Outcomes!Init
    BY DEF Init, Outcomes!Init, NoOp, Stage
  <1> QED
    BY Inductive, <1>1, OutcomeStep, PTL DEF Spec, OutcomesKept, Outcomes!Spec

-----------------------------------------------------------------------------
(* Polls *)

(* A host that keeps its side of the contract never has two polls of one   *)
(* operation on the call stack: the run reentrant_poll shows that nothing  *)
(* else keeps it from that.                                                *)
THEOREM ContractSuffices == Spec => []PollsDoNotOverlap
  <1>1. IInv => PollsDoNotOverlap
    BY DEF IInv, FramesFit, OneFrameEach, FrameFits, PollsDoNotOverlap
  <1> QED
    BY Inductive, <1>1, PTL

-----------------------------------------------------------------------------
(* Destroyed domains *)

(* Whatever an action works on exists, but for what destroys it.           *)
LEMMA OwnedTargets ==
    ASSUME IInv
    PROVE  /\ \A o \in Ops : op[o].kind # "free" => op[o].dom \in Domains /\ refs[op[o].dom] # {}
           /\ \A d \in Domains : refs[d] = {} => activity[d] = "Idle"
           /\ OnTop("Teardown") => Top.dom \in Domains /\ refs[Top.dom] = {}
           /\ OnTop("Poll") \/ OnTop("Drop") => Top.op \in Ops /\ op[Top.op].dom = Top.dom
                                                /\ op[Top.op].kind # "free"
           /\ stack # <<>> /\ Top.kind \in LeaseKinds => Top.dom \in Domains /\ refs[Top.dom] # {}
  <1>1. \A o \in Ops : op[o].kind # "free" => op[o].dom \in Domains /\ refs[op[o].dom] # {}
    BY OpFacts
  <1>2. ASSUME NEW d \in Domains, refs[d] = {} PROVE activity[d] = "Idle"
    <2>1. activity[d] # "Async"
      <3>1. \A o \in Ops : op[o].lease => op[o].kind # "free"
        BY OpFacts
      <3> QED
        BY <1>1, <1>2, <3>1 DEF IInv, LeasesHeld
    <2>2. activity[d] # "Exclusive"
      BY <1>2 DEF IInv, ExclusiveHeld, LeaseFrames
    <2> QED
      BY <2>1, <2>2 DEF IInv, TypeOK
  <1>3. OnTop("Teardown") => Top.dom \in Domains /\ refs[Top.dom] = {}
    BY TopFrame, StackFits DEF OnTop, FrameFits
  <1>4. OnTop("Poll") \/ OnTop("Drop") => Top.op \in Ops /\ op[Top.op].dom = Top.dom
                                           /\ op[Top.op].kind # "free"
    BY TopFrame DEF OnTop
  <1>5. stack # <<>> /\ Top.kind \in LeaseKinds => Top.dom \in Domains /\ refs[Top.dom] # {}
    BY TopFrame DEF IInv, ExclusiveHeld
  <1> QED
    BY <1>1, <1>2, <1>3, <1>4, <1>5

(* A step leaves a destroyed domain as it is, or takes from it what its    *)
(* destruction still has to take.                                          *)
LEMMA DeadStays ==
    ASSUME IInv, Next, NEW d \in Domains, refs[d] = {}
    PROVE  /\ refs'[d] = {} /\ activity'[d] = "Idle" /\ asyncRequired'[d] = asyncRequired[d]
           /\ \/ hostFns'[d] = hostFns[d] /\ linked'[d] = linked[d]
              \/ hostFns'[d] = {} /\ linked'[d] = {}
           /\ ~(OnTop("Teardown") /\ Top.dom = d) => hostFns'[d] = hostFns[d] /\ linked'[d] = linked[d]
  <1>0. /\ activity \in [Domains -> {"Idle", "Exclusive", "Async"}] /\ asyncRequired \in [Domains -> BOOLEAN]
        /\ hostFns \in [Domains -> SUBSET HostFunctions] /\ linked \in [Domains -> SUBSET Modules]
        /\ refs \in [Domains -> SUBSET ({"handle", "local"} \cup Ops)]
        /\ op \in [Ops -> OpStates] /\ activity[d] = "Idle"
    BY OwnedTargets DEF IInv, TypeOK
  <1>r. ASSUME NEW o \in Ops, op[o].kind # "free", activity' = ReleasedBy(o)
        PROVE  activity'[d] = "Idle"
    <2>1. op[o].dom \in Domains /\ op[o].dom # d
      BY <1>r, OwnedTargets
    <2> QED
      BY <1>0, <1>r, <2>1 DEF ReleasedBy
  <1>s. ASSUME NEW e \in Domains, refs[e] # {}, NEW o \in Ops, NEW k, NEW m, Start(o, k, e, m)
        PROVE  refs'[d] = {} /\ activity'[d] = "Idle" /\ hostFns' = hostFns /\ linked' = linked
    BY <1>0, <1>s DEF Start
  <1>u. ASSUME NEW e \in Domains, NEW h, NEW rest, Unpin(e, h, rest)
        PROVE  refs'[d] = {}
    BY <1>0, <1>u DEF Unpin
  <1>1. ASSUME NEW e \in Domains, NEW f \in HostFunctions, DefineAsyncFunction(e, f)
        PROVE  /\ refs'[d] = {} /\ activity'[d] = "Idle" /\ asyncRequired'[d] = asyncRequired[d]
               /\ hostFns'[d] = hostFns[d] /\ linked'[d] = linked[d]
    BY <1>0, <1>1 DEF DefineAsyncFunction
  <1>1a. ASSUME NEW e \in Domains, DefineRefused(e)
         PROVE  /\ refs'[d] = {} /\ activity'[d] = "Idle" /\ asyncRequired'[d] = asyncRequired[d]
                /\ hostFns'[d] = hostFns[d] /\ linked'[d] = linked[d]
    BY <1>0, <1>1a, MutationTakes DEF DefineRefused
  <1>1b. CASE FinishDefine
    <2>1. Top.dom # d /\ Top.dom \in Domains
      BY <1>1b, OwnedTargets DEF FinishDefine, OnTop, LeaseKinds
    <2> QED
      BY <1>0, <1>1b, <2>1 DEF FinishDefine
  <1>1c. ASSUME NEW e \in Domains, NEW k \in {"Sync", "Async", "Mutation"}, OperationFails(e, k)
         PROVE  UNCHANGED vars
    BY <1>1c, FailsQuietly DEF IInv
  <1>2. ASSUME NEW e \in Domains, NEW m \in Modules, Instantiate(e, m)
        PROVE  /\ refs'[d] = {} /\ activity'[d] = "Idle" /\ asyncRequired'[d] = asyncRequired[d]
               /\ hostFns'[d] = hostFns[d] /\ linked'[d] = linked[d]
    BY <1>0, <1>2 DEF Instantiate, Linked
  <1>3. CASE FinishInstantiate
    <2>1. Top.dom # d /\ Top.dom \in Domains
      BY <1>3, OwnedTargets DEF FinishInstantiate, OnTop, LeaseKinds, SyncKinds
    <2> QED
      BY <1>0, <1>3, <2>1 DEF FinishInstantiate
  <1>4. ASSUME NEW i \in Instances, Call(i)
        PROVE  /\ refs'[d] = {} /\ activity'[d] = "Idle" /\ asyncRequired'[d] = asyncRequired[d]
               /\ hostFns'[d] = hostFns[d] /\ linked'[d] = linked[d]
    <2>1. inst[i].dom \in Domains /\ inst[i].dom # d
      BY <1>4 DEF Call, Alive, IInv, TypeOK, InstStates
    <2> QED
      BY <1>0, <1>4, <2>1 DEF Call
  <1>5. CASE FinishCall
    <2>1. Top.dom # d /\ Top.dom \in Domains
      BY <1>5, OwnedTargets DEF FinishCall, OnTop, LeaseKinds, SyncKinds
    <2> QED
      BY <1>0, <1>5, <1>u, <2>1 DEF FinishCall
  <1>6. ASSUME NEW i \in Instances, NEW o \in Ops, CallAsync(i, o)
        PROVE  /\ refs'[d] = {} /\ activity'[d] = "Idle" /\ asyncRequired'[d] = asyncRequired[d]
               /\ hostFns'[d] = hostFns[d] /\ linked'[d] = linked[d]
    <2>1. inst[i].dom \in Domains /\ refs[inst[i].dom] # {}
      BY <1>6 DEF CallAsync, Alive, IInv, TypeOK, InstStates
    <2> QED
      BY <1>6, <1>s, <2>1 DEF CallAsync
  <1>k. ASSUME NEW e \in Domains, NEW m \in Modules, e # d, MarkIfUsed(e, m)
        PROVE  asyncRequired'[d] = asyncRequired[d]
    BY <1>0, <1>k DEF MarkIfUsed, MarkAsyncRequired
  <1>7. ASSUME NEW e \in Domains, NEW m \in Modules, NEW o \in Ops, InstantiateAsync(e, m, o)
        PROVE  /\ refs'[d] = {} /\ activity'[d] = "Idle" /\ asyncRequired'[d] = asyncRequired[d]
               /\ hostFns'[d] = hostFns[d] /\ linked'[d] = linked[d]
    <2>1. refs[e] # {} /\ e # d
      BY <1>7 DEF InstantiateAsync
    <2> QED
      BY <1>7, <1>k, <1>s, <2>1 DEF InstantiateAsync
  <1>8. ASSUME NEW e \in Domains, NEW m \in Modules, InstantiateAsyncFails(e, m)
        PROVE  /\ refs'[d] = {} /\ activity'[d] = "Idle" /\ asyncRequired'[d] = asyncRequired[d]
               /\ hostFns'[d] = hostFns[d] /\ linked'[d] = linked[d]
    <2>1. e # d
      BY <1>8 DEF InstantiateAsyncFails
    <2> QED
      BY <1>0, <1>8, <1>k, <2>1, FailsIdle DEF InstantiateAsyncFails
  <1>9. ASSUME NEW o \in Ops, Poll(o)
        PROVE  /\ refs'[d] = {} /\ activity'[d] = "Idle" /\ asyncRequired'[d] = asyncRequired[d]
               /\ hostFns'[d] = hostFns[d] /\ linked'[d] = linked[d]
    <2>1. op[o].kind # "free"
      BY <1>9, OpFacts DEF Poll
    <2>2. op[o].dom # d
      BY <2>1, OwnedTargets
    <2> QED
      BY <1>0, <1>9, <2>2 DEF Poll, Linked
  <1>11. ASSUME NEW o \in Ops, PollUnresolved(o)
         PROVE  /\ refs'[d] = {} /\ activity'[d] = "Idle" /\ asyncRequired'[d] = asyncRequired[d]
                /\ hostFns'[d] = hostFns[d] /\ linked'[d] = linked[d]
    <2>1. op[o].kind # "free"
      BY <1>11 DEF PollUnresolved
    <2> QED
      BY <1>11, <1>r, <2>1 DEF PollUnresolved, Complete
  <1>16. CASE HostFails \/ GuestReturns
    <2>1. Top.op \in Ops /\ op[Top.op].kind # "free"
      BY <1>16, OwnedTargets DEF HostFails, GuestReturns
    <2>2. activity' = ReleasedBy(Top.op)
      BY <1>16 DEF HostFails, GuestReturns, Complete
    <2> QED
      BY <1>16, <1>r, <2>1, <2>2 DEF HostFails, GuestReturns
  <1>20. CASE FinishDrop
    <2>1. Top.op \in Ops /\ op[Top.op].kind # "free" /\ op[Top.op].dom = Top.dom /\ Top.dom \in Domains
      BY <1>20, OwnedTargets DEF FinishDrop
    <2>2. activity' = ReleasedBy(Top.op) /\ Unpin(Top.dom, Top.op, Popped)
      BY <1>20 DEF FinishDrop
    <2> QED
      BY <1>20, <1>r, <1>u, <2>1, <2>2 DEF FinishDrop
  <1>21. ASSUME NEW e \in Domains, DropHandle(e)
         PROVE  /\ refs'[d] = {} /\ activity'[d] = "Idle" /\ asyncRequired'[d] = asyncRequired[d]
                /\ hostFns'[d] = hostFns[d] /\ linked'[d] = linked[d]
    BY <1>0, <1>21, <1>u DEF DropHandle
  <1>22. CASE FinishTeardown
    <2>1. Top.dom \in Domains /\ UNCHANGED <<activity, asyncRequired, refs>> /\ OnTop("Teardown")
      BY <1>22, OwnedTargets DEF FinishTeardown
    <2>2. CASE Top.dom = d
      <3>1. hostFns'[d] = {} /\ linked'[d] = {}
        BY <1>0, <1>22, <2>1, <2>2 DEF FinishTeardown
      <3>2. refs'[d] = {} /\ activity'[d] = "Idle" /\ asyncRequired'[d] = asyncRequired[d]
        BY <1>0, <2>1
      <3> QED
        BY <2>1, <2>2, <3>1, <3>2
    <2>3. CASE Top.dom # d
      <3>1. hostFns'[d] = hostFns[d] /\ linked'[d] = linked[d]
        BY <1>0, <1>22, <2>1, <2>3 DEF FinishTeardown
      <3> QED
        BY <1>0, <2>1, <3>1
    <2> QED
      BY <2>2, <2>3
  <1>24. CASE UNCHANGED <<refs, activity, asyncRequired, hostFns, linked>>
    BY <1>0, <1>24
  <1> QED
    BY <1>1, <1>1a, <1>1b, <1>1c, <1>2, <1>3, <1>4, <1>5, <1>6, <1>7, <1>8, <1>9, <1>11, <1>16,
       <1>20, <1>21, <1>22, <1>24
       DEF Next, vars, GuestCallsHost, HostReturnsOperation, ContinuationPending, ContinuationReady,
           TakeResult, Drop, DropInstance

(* A destroyed domain stays destroyed, with nothing in it that is new.     *)
THEOREM DestructionIsFinal == Spec => DestroyedForGood
  <1>1. ASSUME IInv, Next, NEW d \in Domains, ~Alive(d)
        PROVE  /\ refs'[d] = {} /\ activity'[d] = "Idle" /\ asyncRequired'[d] = asyncRequired[d]
               /\ hostFns'[d] \subseteq hostFns[d] /\ linked'[d] \subseteq linked[d]
    BY <1>1, DeadStays DEF Alive
  <1>2. IInv /\ [Next]_vars =>
           [\A d \in Domains : ~Alive(d) =>
               /\ ~Alive(d)'
               /\ activity'[d] = "Idle" /\ asyncRequired'[d] = asyncRequired[d]
               /\ hostFns'[d] \subseteq hostFns[d] /\ linked'[d] \subseteq linked[d]]_vars
    BY <1>1 DEF Alive
  <1> QED
    BY <1>2, Inductive, PTL DEF Spec, DestroyedForGood

-----------------------------------------------------------------------------
(* Destructions on the call stack *)

Destructions(s, d) == {n \in 1..Len(s) : s[n].kind = "Teardown" /\ s[n].dom = d}

(* A frame that is pushed adds a destruction only if it is one.            *)
LEMMA PushedDestructions ==
    ASSUME NEW s \in Seq(Frames), NEW x \in Frames, NEW d
    PROVE  Destructions(Append(s, x), d) =
             Destructions(s, d) \cup (IF x.kind = "Teardown" /\ x.dom = d THEN {Len(s) + 1} ELSE {})
  <1> DEFINE r == Append(s, x)
  <1>1. /\ Len(s) \in Nat /\ Len(r) = Len(s) + 1 /\ r[Len(s) + 1] = x
        /\ \A n \in 1..Len(s) : r[n] = s[n]
    BY PushFacts
  <1> HIDE DEF r
  <1>2. 1..Len(r) = 1..Len(s) \cup {Len(s) + 1}
    BY <1>1
  <1>3. \A n \in 1..Len(s) : (r[n].kind = "Teardown" /\ r[n].dom = d) <=> n \in Destructions(s, d)
    BY <1>1 DEF Destructions
  <1>4. (r[Len(s) + 1].kind = "Teardown" /\ r[Len(s) + 1].dom = d) <=> x.kind = "Teardown" /\ x.dom = d
    BY <1>1
  <1>5. Destructions(s, d) \subseteq 1..Len(s)
    BY DEF Destructions
  <1>6. Destructions(r, d) = Destructions(s, d) \cup (IF x.kind = "Teardown" /\ x.dom = d THEN {Len(s) + 1} ELSE {})
    BY <1>2, <1>3, <1>4, <1>5 DEF Destructions
  <1> QED
    BY <1>6 DEF r

LEMMA PushedOther ==
    ASSUME NEW s \in Seq(Frames), NEW x \in Frames, NEW d, ~(x.kind = "Teardown" /\ x.dom = d)
    PROVE  Destructions(Append(s, x), d) = Destructions(s, d)
  <1>1. Destructions(Append(s, x), d) = Destructions(s, d) \cup {}
    BY PushedDestructions
  <1> QED
    BY <1>1

LEMMA PushedTeardown ==
    ASSUME NEW s \in Seq(Frames), NEW x \in Frames, x.kind = "Teardown"
    PROVE  Destructions(Append(s, x), x.dom) = Destructions(s, x.dom) \cup {Len(s) + 1}
  BY PushedDestructions

(* A frame that is popped takes away a destruction only if it is one.      *)
LEMMA PoppedDestructions ==
    ASSUME IInv, stack # <<>>, NEW d
    PROVE  /\ Destructions(Popped, d) = Destructions(stack, d) \ {Len(stack)}
           /\ ~(Top.kind = "Teardown" /\ Top.dom = d) =>
                 Destructions(Popped, d) = Destructions(stack, d)
  <1>1. /\ Len(stack) \in 1..Len(stack) /\ Top = stack[Len(stack)]
        /\ Len(Popped) = Len(stack) - 1 /\ Len(stack) \in Nat
        /\ \A n \in 1..Len(Popped) : n \in 1..Len(stack) /\ n # Len(stack) /\ Popped[n] = stack[n]
    BY TopFrame DEF IInv, TypeOK
  <1>2. \A n \in 1..Len(stack) : n # Len(stack) => n \in 1..Len(Popped)
    BY <1>1
  <1> QED
    BY <1>1, <1>2 DEF Destructions

(* Moving the top frame changes nothing of this.                           *)
LEMMA MovedDestructions ==
    ASSUME IInv, stack # <<>>, NEW d,
           NEW a \in {"guest", "callback", "continuation", "finalizer", "cleanup"}
    PROVE  Destructions(MovedTo(a), d) = Destructions(stack, d)
  <1>1. stack \in Seq(Frames)
    BY DEF IInv, TypeOK
  <1>2. /\ Len(MovedTo(a)) = Len(stack)
        /\ \A n \in 1..Len(stack) : n # Len(stack) => MovedTo(a)[n] = stack[n]
        /\ MovedTo(a)[Len(stack)] = [stack[Len(stack)] EXCEPT !.at = a]
    BY <1>1, MoveFacts DEF MovedTo
  <1>3. stack[Len(stack)] \in Frames
    BY <1>1, TopFacts
  <1>4. /\ MovedTo(a)[Len(stack)].kind = stack[Len(stack)].kind
        /\ MovedTo(a)[Len(stack)].dom = stack[Len(stack)].dom
    BY <1>2, <1>3 DEF Frames
  <1>5. \A n \in 1..Len(stack) : MovedTo(a)[n].kind = stack[n].kind /\ MovedTo(a)[n].dom = stack[n].dom
    BY <1>2, <1>4
  <1> QED
    BY <1>2, <1>5 DEF Destructions

(* The last owner that lets go begins one destruction.                     *)
LEMMA UnpinnedDestructions ==
    ASSUME IInv, NEW e \in Domains, NEW h, NEW rest \in Seq(Frames), Unpin(e, h, rest), NEW d \in Domains
    PROVE  \/ /\ Destructions(stack', d) = Destructions(rest, d)
              /\ refs'[d] = {} => refs[d] = {}
           \/ /\ Destructions(stack', d) = Destructions(rest, d) \cup {Len(rest) + 1}
              /\ refs[d] # {} /\ refs'[d] = {}
  <1> DEFINE x == Frame("Teardown", e, None, None, IF hostFns[e] # {} THEN "finalizer" ELSE "cleanup")
  <1>1. x \in Frames /\ x.kind = "Teardown" /\ x.dom = e
    BY DEF Frame, Frames
  <1>2. /\ stack' = IF refs[e] = {h} THEN Append(rest, x) ELSE rest
        /\ refs' = [refs EXCEPT ![e] = @ \ {h}]
        /\ refs \in [Domains -> SUBSET ({"handle", "local"} \cup Ops)]
    BY DEF Unpin, IInv, TypeOK
  <1> HIDE DEF x
  <1>3. CASE refs[e] = {h} /\ d = e
    <2>1. stack' = Append(rest, x) /\ refs'[d] = {} /\ refs[d] # {}
      BY <1>2, <1>3
    <2> QED
      BY <1>1, <1>3, <2>1, PushedTeardown
  <1>4. CASE refs[e] = {h} /\ d # e
    <2>1. stack' = Append(rest, x) /\ refs'[d] = refs[d]
      BY <1>2, <1>4
    <2>2. Destructions(Append(rest, x), d) = Destructions(rest, d)
      BY <1>1, <1>4, PushedOther
    <2> QED
      BY <2>1, <2>2
  <1>5. CASE refs[e] # {h}
    BY <1>2, <1>5
  <1> QED
    BY <1>3, <1>4, <1>5

(* What a step does to the destructions of one domain.                     *)
LEMMA TeardownStep ==
    ASSUME IInv, Next, NEW d \in Domains
    PROVE  \/ /\ Destructions(stack', d) = Destructions(stack, d)
              /\ refs'[d] = {} => refs[d] = {}
           \/ /\ \E n \in Nat : Destructions(stack', d) = Destructions(stack, d) \cup {n}
              /\ refs[d] # {} /\ refs'[d] = {}
           \/ /\ Destructions(stack', d) \subseteq Destructions(stack, d)
              /\ hostFns'[d] = {} /\ linked'[d] = {}
  <1>0. /\ stack \in Seq(Frames) /\ Len(stack) \in Nat
        /\ refs \in [Domains -> SUBSET ({"handle", "local"} \cup Ops)]
        /\ hostFns \in [Domains -> SUBSET HostFunctions] /\ linked \in [Domains -> SUBSET Modules]
    BY DEF IInv, TypeOK
  <1> DEFINE Same == /\ Destructions(stack', d) = Destructions(stack, d)
                     /\ refs'[d] = {} => refs[d] = {}
             Begun == /\ \E n \in Nat : Destructions(stack', d) = Destructions(stack, d) \cup {n}
                      /\ refs[d] # {} /\ refs'[d] = {}
             Ended == /\ Destructions(stack', d) \subseteq Destructions(stack, d)
                      /\ hostFns'[d] = {} /\ linked'[d] = {}
  <1> SUFFICES Same \/ Begun \/ Ended
    OBVIOUS
  <1>p. ASSUME NEW x \in Frames, x.kind # "Teardown", stack' = Append(stack, x), UNCHANGED refs
        PROVE  Same
    <2>1. Destructions(Append(stack, x), d) = Destructions(stack, d)
      BY <1>0, <1>p, PushedOther
    <2> QED
      BY <1>p, <2>1
  <1>t. ASSUME stack # <<>>, Top.kind # "Teardown", stack' = Popped, UNCHANGED refs
        PROVE  Same
    BY <1>t, PoppedDestructions
  <1>m. ASSUME stack # <<>>, NEW a \in {"guest", "callback", "continuation", "finalizer", "cleanup"},
               stack' = MovedTo(a), UNCHANGED refs
        PROVE  Same
    BY <1>m, MovedDestructions
  <1>u. ASSUME NEW e \in Domains, NEW h, stack # <<>>, Top.kind # "Teardown", Unpin(e, h, Popped)
        PROVE  Same \/ Begun
    <2>1. Popped \in Seq(Frames) /\ Len(Popped) + 1 \in Nat
      BY <1>0, <1>u, TopFrame
    <2>2. Destructions(Popped, d) = Destructions(stack, d)
      BY <1>u, PoppedDestructions
    <2> QED
      BY <1>u, <2>1, <2>2, UnpinnedDestructions
  <1>g. ASSUME UNCHANGED stack, \A e \in Domains : refs[e] \subseteq refs'[e]
        PROVE  Same
    BY <1>0, <1>g
  <1>2. ASSUME NEW e \in Domains, NEW m \in Modules, Instantiate(e, m) PROVE Same
    <2> DEFINE x == Frame("Instantiate", e, None, m, "guest")
    <2>1. x \in Frames /\ x.kind # "Teardown" /\ stack' = Append(stack, x)
      BY <1>2 DEF Frame, Frames, Instantiate
    <2> HIDE DEF x
    <2> QED
      BY <1>2, <1>p, <2>1 DEF Instantiate
  <1>3. CASE FinishInstantiate \/ FinishDefine
    BY <1>3, <1>t DEF FinishInstantiate, FinishDefine, OnTop
  <1>4. ASSUME NEW i \in Instances, Call(i) PROVE Same
    <2> DEFINE x == Frame("Call", inst[i].dom, None, None, "guest")
    <2>1. inst[i].dom \in Domains
      BY <1>4 DEF Call, IInv, TypeOK, InstStates
    <2>2. x \in Frames /\ x.kind # "Teardown" /\ stack' = Append(stack, x)
      BY <1>4, <2>1 DEF Frame, Frames, Call
    <2> HIDE DEF x
    <2>3. Destructions(Append(stack, x), d) = Destructions(stack, d)
      BY <1>0, <2>2, PushedOther
    <2>4. refs[d] \subseteq refs'[d]
      BY <1>0, <1>4, <2>1 DEF Call
    <2> QED
      BY <2>2, <2>3, <2>4
  <1>5. CASE FinishCall
    <2>1. Top.dom \in Domains
      BY <1>5, TopFrame DEF FinishCall, OnTop
    <2> QED
      BY <1>5, <1>u, <2>1 DEF FinishCall, OnTop
  <1>6. ASSUME NEW e \in Domains, NEW o \in Ops, NEW k, NEW m, Start(o, k, e, m) PROVE Same
    BY <1>0, <1>6, <1>g DEF Start
  <1>1a. ASSUME NEW e \in Domains, DefineRefused(e) PROVE Same
    <2> DEFINE x == Frame("Define", e, None, None, "finalizer")
    <2>1. x \in Frames /\ x.kind # "Teardown" /\ stack' = Append(stack, x)
      BY <1>1a DEF Frame, Frames, DefineRefused
    <2> HIDE DEF x
    <2> QED
      BY <1>1a, <1>p, <2>1 DEF DefineRefused
  <1>7. ASSUME NEW i \in Instances, NEW o \in Ops, CallAsync(i, o) PROVE Same
    <2>1. inst[i].dom \in Domains
      BY <1>7 DEF CallAsync, IInv, TypeOK, InstStates
    <2> QED
      BY <1>6, <1>7, <2>1 DEF CallAsync
  <1>8. ASSUME NEW e \in Domains, NEW m \in Modules, NEW o \in Ops, InstantiateAsync(e, m, o) PROVE Same
    BY <1>6, <1>8 DEF InstantiateAsync
  <1>9. ASSUME NEW o \in Ops, Poll(o) PROVE Same
    <2> DEFINE x == Frame("Poll", op[o].dom, o, None,
                       IF op[o].future = "suspended" THEN "continuation" ELSE "guest")
    <2>1. op[o].dom \in Domains
      BY <1>9, OpFacts DEF Poll
    <2>2. x \in Frames /\ x.kind # "Teardown" /\ stack' = Append(stack, x)
      BY <1>9, <2>1 DEF Frame, Frames, Poll
    <2> HIDE DEF x
    <2> QED
      BY <1>9, <1>p, <2>2 DEF Poll
  <1>12. CASE GuestCallsHost
    BY <1>12, <1>m DEF GuestCallsHost
  <1>13. CASE HostReturnsOperation \/ ContinuationReady
    BY <1>13, <1>m DEF HostReturnsOperation, ContinuationReady, OnTop
  <1>14. CASE ContinuationPending \/ HostFails \/ GuestReturns
    BY <1>14, <1>t DEF ContinuationPending, HostFails, GuestReturns, OnTop
  <1>19. ASSUME NEW o \in Ops, Drop(o) PROVE Same
    <2> DEFINE x == Frame("Drop", op[o].dom, o, None,
                       IF op[o].future = "suspended" THEN "finalizer" ELSE "cleanup")
    <2>1. op[o].dom \in Domains
      BY <1>19, OpFacts DEF Drop
    <2>2. x \in Frames /\ x.kind # "Teardown" /\ stack' = Append(stack, x)
      BY <1>19, <2>1 DEF Frame, Frames, Drop
    <2> HIDE DEF x
    <2> QED
      BY <1>19, <1>p, <2>2 DEF Drop
  <1>20. CASE FinishDrop
    <2>1. Top.dom \in Domains
      BY <1>20, TopFrame DEF FinishDrop, OnTop
    <2> QED
      BY <1>20, <1>u, <2>1 DEF FinishDrop, OnTop
  <1>21. ASSUME NEW e \in Domains, DropHandle(e) PROVE Same \/ Begun
    <2>1. Len(stack) + 1 \in Nat
      BY <1>0
    <2> QED
      BY <1>0, <1>21, <2>1, UnpinnedDestructions DEF DropHandle
  <1>22. CASE FinishTeardown
    <2>1. stack # <<>> /\ stack' = Popped /\ UNCHANGED refs /\ Top.dom \in Domains
      BY <1>22, TopFrame DEF FinishTeardown, OnTop
    <2>2. CASE Top.dom = d
      <3>1. hostFns'[d] = {} /\ linked'[d] = {}
        BY <1>0, <1>22, <2>1, <2>2 DEF FinishTeardown
      <3> QED
        BY <2>1, <3>1, PoppedDestructions
    <2>3. CASE Top.dom # d
      BY <2>1, <2>3, PoppedDestructions
    <2> QED
      BY <2>2, <2>3
  <1>24. CASE UNCHANGED <<stack, refs>>
    BY <1>0, <1>24
  <1>23. ASSUME \/ \E e \in Domains, f \in HostFunctions : DefineAsyncFunction(e, f)
                \/ \E e \in Domains, m \in Modules : InstantiateAsyncFails(e, m)
                \/ \E o \in Ops : PollUnresolved(o) \/ TakeResult(o)
                \/ \E i \in Instances : DropInstance(i)
                \/ \E e \in Domains, k \in {"Sync", "Async", "Mutation"} : OperationFails(e, k)
         PROVE  UNCHANGED <<stack, refs>>
    BY <1>23 DEF DefineAsyncFunction, InstantiateAsyncFails, OperationFails, PollUnresolved, TakeResult, DropInstance
  <1> HIDE DEF Same, Begun, Ended
  <1> QED
    BY <1>1a, <1>2, <1>3, <1>4, <1>5, <1>7, <1>8, <1>9, <1>12, <1>13, <1>14, <1>19, <1>20, <1>21,
       <1>22, <1>23, <1>24
       DEF Next

LEMMA DestroyedStep ==
    ASSUME IInv, DestroyedOnce, [Next]_vars
    PROVE  DestroyedOnce'
  <1> SUFFICES ASSUME NEW d \in Domains
               PROVE  /\ \A n, k \in Destructions(stack', d) : n = k
                      /\ refs'[d] = {} /\ Destructions(stack', d) = {} =>
                            hostFns'[d] = {} /\ linked'[d] = {}
    BY DEF DestroyedOnce, Destructions, Alive
  <1>1. /\ \A n, k \in Destructions(stack, d) : n = k
        /\ refs[d] = {} /\ Destructions(stack, d) = {} => hostFns[d] = {} /\ linked[d] = {}
    BY DEF DestroyedOnce, Destructions, Alive
  <1>2. refs[d] # {} => Destructions(stack, d) = {}
    BY StackFits DEF Destructions, FrameFits
  <1>3. CASE Next
    <2>1. refs[d] = {} => \/ hostFns'[d] = hostFns[d] /\ linked'[d] = linked[d]
                          \/ hostFns'[d] = {} /\ linked'[d] = {}
      BY <1>3, DeadStays
    <2> QED
      BY <1>1, <1>2, <1>3, <2>1, TeardownStep
  <1>4. CASE UNCHANGED vars
    BY <1>1, <1>4 DEF vars
  <1> QED
    BY <1>3, <1>4

(* Host code in the destructors a destruction runs may call any operation: *)
(* none of them makes the destruction happen twice or in part.             *)
THEOREM DestructionIsWhole == Spec => []DestroyedOnce
  <1>1. Init => DestroyedOnce
    BY DEF Init, DestroyedOnce, Alive
  <1> QED
    BY <1>1, DestroyedStep, Inductive, PTL DEF Spec

-----------------------------------------------------------------------------
(* Who keeps a domain *)

(* The owner "local" is the synchronous call on top of the call stack.     *)
LocalInv == \A d \in Domains : "local" \in refs[d] => OnTop("Call") /\ Top.dom = d

LEMMA NoLocal ==
    ASSUME IInv, LocalInv, HostRuns \/ (stack # <<>> /\ Top.kind # "Call")
    PROVE  \A d \in Domains : "local" \notin refs[d]
  <1>1. stack # <<>> /\ Top.kind = "Call" => Top.at = "guest"
    BY TopFrame
  <1>2. HostRuns => ~OnTop("Call")
    BY <1>1 DEF HostRuns, HostStages, OnTop
  <1> QED
    BY <1>2 DEF LocalInv, OnTop

LEMMA LocalStep ==
    ASSUME IInv, LocalInv, [Next]_vars
    PROVE  LocalInv'
  <1>0. /\ stack \in Seq(Frames) /\ Len(stack) \in Nat
        /\ refs \in [Domains -> SUBSET ({"handle", "local"} \cup Ops)]
        /\ "local" \notin Ops /\ "local" # "handle"
    BY ConstantsAssumption DEF IInv, TypeOK, ConstantsAssumption
  <1>n. ASSUME HostRuns \/ (stack # <<>> /\ Top.kind # "Call"),
               \A d \in Domains : "local" \in refs'[d] => "local" \in refs[d]
        PROVE  LocalInv'
    BY <1>n, NoLocal DEF LocalInv
  <1>u. ASSUME NEW e \in Domains, NEW h, NEW rest, Unpin(e, h, rest)
        PROVE  \A d \in Domains : "local" \in refs'[d] => "local" \in refs[d]
    BY <1>0, <1>u DEF Unpin
  <1>4. ASSUME NEW i \in Instances, Call(i) PROVE LocalInv'
    <2> DEFINE x == Frame("Call", inst[i].dom, None, None, "guest")
    <2>1. inst[i].dom \in Domains
      BY <1>4 DEF Call, IInv, TypeOK, InstStates
    <2>2. x \in Frames /\ x.kind = "Call" /\ x.dom = inst[i].dom /\ stack' = Append(stack, x)
      BY <1>4, <2>1 DEF Frame, Frames, Call
    <2> HIDE DEF x
    <2>3. stack' # <<>> /\ stack'[Len(stack')] = x
      BY <1>0, <2>2
    <2>4. \A d \in Domains : "local" \in refs'[d] => d = inst[i].dom
      <3>1. \A d \in Domains : "local" \notin refs[d]
        BY <1>4, NoLocal DEF Call
      <3> QED
        BY <1>0, <1>4, <2>1, <3>1 DEF Call
    <2> QED
      BY <2>2, <2>3, <2>4 DEF LocalInv, OnTop, Top
  <1>5. CASE FinishCall
    <2>1. \A d \in Domains : "local" \in refs[d] => Top.dom = d
      BY DEF LocalInv
    <2>2. Top.dom \in Domains
      BY <1>5, TopFrame DEF FinishCall, OnTop
    <2>3. \A d \in Domains : "local" \notin refs'[d]
      BY <1>0, <1>5, <2>1, <2>2 DEF FinishCall, Unpin
    <2> QED
      BY <2>3 DEF LocalInv
  <1>6. ASSUME NEW e \in Domains, NEW o \in Ops, NEW k, NEW m, HostRuns, Start(o, k, e, m)
        PROVE  LocalInv'
    <2>1. \A d \in Domains : "local" \in refs'[d] => "local" \in refs[d]
      BY <1>0, <1>6 DEF Start
    <2> QED
      BY <1>6, <1>n, <2>1
  <1>7. ASSUME NEW i \in Instances, NEW o \in Ops, CallAsync(i, o) PROVE LocalInv'
    <2>1. inst[i].dom \in Domains
      BY <1>7 DEF CallAsync, IInv, TypeOK, InstStates
    <2> QED
      BY <1>6, <1>7, <2>1 DEF CallAsync
  <1>8. ASSUME NEW e \in Domains, NEW m \in Modules, NEW o \in Ops, InstantiateAsync(e, m, o)
        PROVE  LocalInv'
    BY <1>6, <1>8 DEF InstantiateAsync
  <1>12. CASE GuestCallsHost
    <2>1. Len(stack) \in 1..Len(stack) /\ Top = stack[Len(stack)]
      BY <1>12, TopFrame DEF GuestCallsHost
    <2>2. Top.kind \notin SyncKinds
      BY <1>12, <2>1, SyncHasNoImports DEF GuestCallsHost
    <2> QED
      BY <1>12, <1>n, <2>2 DEF GuestCallsHost, SyncKinds
  <1>20. CASE FinishDrop
    <2>1. Top.dom \in Domains
      BY <1>20, TopFrame DEF FinishDrop, OnTop
    <2> QED
      BY <1>20, <1>n, <1>u, <2>1 DEF FinishDrop, OnTop
  <1>21. ASSUME NEW e \in Domains, DropHandle(e) PROVE LocalInv'
    BY <1>21, <1>n, <1>u DEF DropHandle
  <1>22. CASE UNCHANGED refs /\ (HostRuns \/ (stack # <<>> /\ Top.kind # "Call"))
    BY <1>22, <1>n
  <1>24. CASE UNCHANGED vars
    BY <1>24 DEF vars, LocalInv, OnTop, Top
  <1> QED
    BY <1>4, <1>5, <1>7, <1>8, <1>12, <1>20, <1>21, <1>22, <1>24
       DEF Next, OnTop, DefineAsyncFunction, DefineRefused, FinishDefine, OperationFails, Instantiate, FinishInstantiate, InstantiateAsyncFails,
           Poll, PollUnresolved, HostReturnsOperation, ContinuationPending, ContinuationReady,
           HostFails, GuestReturns, TakeResult, Drop, FinishTeardown, DropInstance

(* An Instance keeps no domain in existence: only what the host holds, or  *)
(* a call it is in, does.                                                  *)
THEOREM DomainsAreKept == Spec => []AliveForAReason
  <1>1. Init => LocalInv
    BY ConstantsAssumption DEF Init, LocalInv, ConstantsAssumption
  <1>2. Spec => []LocalInv
    BY <1>1, LocalStep, Inductive, PTL DEF Spec
  <1>3. IInv /\ LocalInv => AliveForAReason
    <2> SUFFICES ASSUME IInv, LocalInv, NEW d \in Domains, refs[d] # {}, "handle" \notin refs[d],
                        \A o \in Ops : op[o].dom # d
                 PROVE  OnTop("Call") /\ Top.dom = d
      BY DEF AliveForAReason, Alive
    <2>1. refs[d] \subseteq {"handle", "local"} \cup Ops
      BY DEF IInv, TypeOK
    <2>2. \A o \in Ops : o \notin refs[d]
      BY DEF IInv, LeasesHeld
    <2> QED
      BY <2>1, <2>2 DEF LocalInv
  <1> QED
    BY <1>2, <1>3, Inductive, PTL

(* For any number of domains and operations, and any depth of host code in *)
(* callbacks and destructors: no domain is left over.                      *)
THEOREM NoDomainIsLeftOver == Spec => []DomainsAccountedFor
  BY DomainsAreKept, DestructionIsWhole, PTL DEF DomainsAccountedFor
=============================================================================
