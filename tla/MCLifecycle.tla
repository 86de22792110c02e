---------------------------- MODULE MCLifecycle ----------------------------
(***************************************************************************)
(* Small instances of Lifecycle for TLC.                                   *)
(***************************************************************************)
EXTENDS Lifecycle, TLC

\* Every sandbox id is a create call for the same application.
OneApp == CHOOSE a \in App : TRUE
SameApp == [s \in Sandbox |-> OneApp]

Symmetry == Permutations(Client) \cup Permutations(Node)
=============================================================================
