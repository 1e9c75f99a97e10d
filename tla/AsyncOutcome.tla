---------------------------- MODULE AsyncOutcome ----------------------------
(***************************************************************************)
(* What AsyncCall and AsyncInstantiation promise to the one who holds      *)
(* them, with leases, Stores, native futures and the call stack left out:  *)
(* an operation is pending until it has one outcome, which never changes   *)
(* and can be taken once; it is dropped when the holder likes, and what    *)
(* happens to one operation happens to no other.                           *)
(***************************************************************************)
CONSTANTS Ops,     \* operation objects
          Targets, \* what an operation can be started on
          Nothing  \* what none is started on

VARIABLES stage,  \* stage[o]: how far operation o has come
          target, \* target[o]: what it was started on
          outcome \* outcome[o]: what waits to be taken from it

vars == <<stage, target, outcome>>

Init == /\ stage = [o \in Ops |-> "absent"]
        /\ target = [o \in Ops |-> Nothing]
        /\ outcome = [o \in Ops |-> "none"]

Start(o) == /\ stage[o] = "absent"
            /\ stage' = [stage EXCEPT ![o] = "pending"]
            /\ \E t \in Targets : target' = [target EXCEPT ![o] = t]
            /\ UNCHANGED outcome

Settle(o) == /\ stage[o] = "pending"
             /\ stage' = [stage EXCEPT ![o] = "ready"]
             /\ \E r \in {"value", "failure"} : outcome' = [outcome EXCEPT ![o] = r]
             /\ UNCHANGED target

(* What is handed out cannot be had from the operation again.              *)
Take(o) == /\ stage[o] = "ready"
           /\ stage' = [stage EXCEPT ![o] = "taken"]
           /\ outcome' = [outcome EXCEPT ![o] = "none"]
           /\ UNCHANGED target

Drop(o) == /\ stage[o] # "absent"
           /\ stage' = [stage EXCEPT ![o] = "absent"]
           /\ target' = [target EXCEPT ![o] = Nothing]
           /\ outcome' = [outcome EXCEPT ![o] = "none"]

Next == \E o \in Ops : Start(o) \/ Settle(o) \/ Take(o) \/ Drop(o)

Spec == Init /\ [][Next]_vars
=============================================================================
