--------------------------- MODULE MCResourcePool ---------------------------
(* Three threads, of which one is impatient; one API and one agent slot and two *)
(* Docker slots. A thread asks for an API slot, a Docker slot, or all three as a  *)
(* worker does, and nests such requests once, in an order the pool accepts or refuses. *)
EXTENDS ResourcePool

CONSTANTS t1, t2, t3

MCThreads == {t1, t2, t3}
MCImpatient == {t3}
MCLimit == [r \in Resource |-> IF r = 1 THEN 2 ELSE 1]
MCRequests == {{0}, {1}, {0, 1, 2}}
=============================================================================
