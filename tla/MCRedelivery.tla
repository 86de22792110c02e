---------------------------- MODULE MCRedelivery ----------------------------
(***************************************************************************)
(* Small instances of Redelivery for TLC.                                  *)
(***************************************************************************)
EXTENDS Redelivery, TLC

\* Every sandbox id is a create call for the same application.
OneApp == CHOOSE a \in App : TRUE
SameApp == [s \in Sandbox |-> OneApp]
=============================================================================
