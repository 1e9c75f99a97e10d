-------------------------- MODULE DependencyOrder --------------------------
(***************************************************************************)
(* What ModuleGraph needs of an instantiation order, and what it may be    *)
(* told instead: an order in which every module comes after the modules it *)
(* imports from, or a cycle of imports, because of which there is none.    *)
(* needs[n] is the set of nodes that node n imports from.                  *)
(***************************************************************************)
EXTENDS Naturals, Sequences, FiniteSets

IsOrder(order, needs) ==
    /\ {order[p] : p \in 1..Len(order)} = DOMAIN needs
    /\ \A p, q \in 1..Len(order) : order[p] = order[q] => p = q
    /\ \A p \in 1..Len(order) : \A n \in needs[order[p]] :
          \E q \in 1..Len(order) : q < p /\ order[q] = n

(* Every order there is.                                                   *)
Orders(needs) == {o \in [1..Cardinality(DOMAIN needs) -> DOMAIN needs] : IsOrder(o, needs)}

IsCycle(cycle, needs) ==
    /\ cycle # <<>>
    /\ \A p \in 1..Len(cycle) :
          cycle[IF p = Len(cycle) THEN 1 ELSE p + 1] \in needs[cycle[p]]
=============================================================================
