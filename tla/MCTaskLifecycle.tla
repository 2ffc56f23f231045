--------------------------- MODULE MCTaskLifecycle ---------------------------
(* TaskLifecycle on small instances for TLC. *)
EXTENDS TaskLifecycle, TLC

CONSTANTS d1, d2, t1, t2, t3

OneOrBoth == {{d1}, {d1, d2}}
One == {{d1}}
Either == {{d1}, {d2}}

Ids == Permutations({t1, t2, t3})
=============================================================================
