----------------------------- MODULE MCIdentity -----------------------------
(* The instances of MCRegistry, with the history variable of Identity. *)
EXTENDS MCRegistry, Identity
=============================================================================
