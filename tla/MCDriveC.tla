------------------------------ MODULE MCDriveC ------------------------------
(* Model-checking instances of DriveC *)
EXTENDS DriveC, TLC

CONSTANTS r1, r2, r3, k1, k2, h1, h2, h3

(* Two requests share a key; every request has a handle of its own *)
MCKeyOf == (r1 :> k1) @@ (r2 :> k1) @@ (r3 :> k2)
MCIdOf == (r1 :> h1) @@ (r2 :> h2) @@ (r3 :> h3)
=============================================================================
