-------------------------- MODULE MCDriveOneTable --------------------------
(* Model-checking instances of the machine of C++ and Rust, driven by any  *)
(* caller, by the Qt pump or by the Tokio loop.                            *)
EXTENDS OneTableHosts, TLC

CONSTANTS r1, r2, r3, r4, k1, k2, h1, h2, h3

(* Two requests share a key, two share a handle, one key is unreadable *)
MCKeyOf == (r1 :> k1) @@ (r2 :> k1) @@ (r3 :> k2) @@ (r4 :> NoKey)
MCIdOf == (r1 :> h1) @@ (r2 :> h2) @@ (r3 :> h2) @@ (r4 :> h3)
=============================================================================
