-------------------------------- MODULE Maps --------------------------------
(***************************************************************************)
(* Go's zero text, and its maps as functions: writes, deletes, copies, and *)
(* which of two maps wins where they are merged.                           *)
(***************************************************************************)

Filled(text) == text # ""

Only(k, v) == [x \in {k} |-> v]
Put(f, k, v) == [x \in DOMAIN f \union {k} |-> IF x = k THEN v ELSE f[x]]
Without(f, k) == [x \in DOMAIN f \ {k} |-> f[x]]

\* What f says, and what g says where f says nothing.
f ++ g == [x \in DOMAIN f \union DOMAIN g |-> IF x \in DOMAIN f THEN f[x] ELSE g[x]]
=============================================================================
