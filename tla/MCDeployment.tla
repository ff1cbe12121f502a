----------------------------- MODULE MCDeployment -----------------------------
(***************************************************************************)
(* Small instances of Deployment for TLC: two standard fields, columns u1  *)
(* and u2 of one table and u3 of another, the pack's mapping file naming   *)
(* u1 for f1 only.                                                         *)
(***************************************************************************)
EXTENDS Deployment, TLC

CONSTANTS f1, f2, u1, u2, u3

MCTableOf == (u1 :> "orders") @@ (u2 :> "orders") @@ (u3 :> "carriers")
MCVerified == (f1 :> u1) @@ (f2 :> None)
MCMetrics == {{f1}, {f1, f2}}

(* What an action reads, and the columns of the last pass: states that      *)
(* differ in the rest of the history only have the same steps. *)
WithoutHistory == <<rows, pending, smoke, active, space, batch, failures, pc, local, tested>>

(* The administrators are interchangeable. *)
AdminSymmetry == Permutations(Admins)
=============================================================================
