--------------------------- MODULE MCAsyncioLoop ---------------------------
(* Model-checking instances of AsyncioLoop: two exchanges *)
EXTENDS AsyncioLoop, TLC

CONSTANTS r1, r2, k1, k2, h1

OwnKeys == (r1 :> k1) @@ (r2 :> k2)

MCIdOf == [r \in Requests |-> h1]
=============================================================================
