------------------------------ MODULE MCLoops ------------------------------
(* Model-checking instances of the run functions of the C drivers, over a  *)
(* descriptor and over a ring: two exchanges, each with its own key and    *)
(* handle.                                                                 *)
EXTENDS CDrivers, TLC

CONSTANTS r1, r2, k1, k2, h1, h2

MCKeyOf == (r1 :> k1) @@ (r2 :> k2)
MCIdOf == (r1 :> h1) @@ (r2 :> h2)
=============================================================================
