---------------------------- MODULE MCDriveDict ----------------------------
(* Model-checking instances of DriveDict *)
EXTENDS DriveDict, TLC

CONSTANTS r1, r2, r3, r4, r5, k1, k2, k3, h1

(* Two requests share a key, two have their own, and one has none *)
MCKeyOf ==
  (r1 :> k1) @@ (r2 :> k1) @@ (r3 :> k2) @@ (r4 :> k3) @@ (r5 :> NoKey)

MCIdOf == [r \in Requests |-> h1]
=============================================================================
