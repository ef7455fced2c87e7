-------------------------------- MODULE Sql --------------------------------
(***************************************************************************)
(* What the modules of the D1 tables share: SQL's NULL, which also stands  *)
(* for JavaScript's null and undefined in a request's local variables.     *)
(***************************************************************************)
CONSTANT Null
=============================================================================
