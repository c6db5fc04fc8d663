----------------------------- MODULE MCAllocation -----------------------------
(* Four units in the order of their numbers. *)
EXTENDS AllocationInputs, TLC

CONSTANTS u1, u2, u3, u4

MCPosition == (u1 :> 1) @@ (u2 :> 2) @@ (u3 :> 3) @@ (u4 :> 4)
==============================================================================
