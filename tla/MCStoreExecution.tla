-------------------------- MODULE MCStoreExecution --------------------------
(* Instances of StoreExecution small enough for TLC. *)
EXTENDS StoreExecution, TLC

CONSTANTS plain, user, both, f, g

(* A module without imports, one that imports f, one that imports f and g. *)
MCImports == (plain :> {} @@ user :> {f} @@ both :> {f, g})
UserImports == (user :> {f})
=============================================================================
