---------------------------- MODULE MCReconcile ----------------------------
(***************************************************************************)
(* Small instances of Reconcile for TLC.                                   *)
(***************************************************************************)
EXTENDS Reconcile

\* Every sandbox id is a create call for the same application.
OneApp == CHOOSE a \in App : TRUE
SameApp == [s \in Sandbox |-> OneApp]
=============================================================================
