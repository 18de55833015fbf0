----------------------------- MODULE MCDispatch -----------------------------
(***************************************************************************)
(* Dispatch with the process the monitor makes: child 1 of the root.       *)
(***************************************************************************)
EXTENDS Dispatch
=============================================================================
