--------------------------- MODULE MCOperationGate ---------------------------
(* OperationGate on small instances for TLC. *)
EXTENDS OperationGate, TLC

CONSTANTS
  a, b,          \* two operations on bound devices; b is a critical one
  p1, p2,        \* two previews
  o1, o2, o3     \* three requested operations

PlanShort == {<<>>, <<a>>, <<a, b>>}
PlanLive == {<<>>, <<b>>}
Critical == {b}

\* Identities are uuids: which one a row gets does not matter.
Ids == Permutations({p1, p2}) \cup Permutations({o1, o2, o3})
=============================================================================
