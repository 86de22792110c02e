------------------------------ MODULE MCNodes ------------------------------
(***************************************************************************)
(* Small instances of Nodes for TLC.                                       *)
(***************************************************************************)
EXTENDS Nodes

\* One machine cannot hold a sandbox more than the other.
Equal == [h \in Host |-> RequiredMB]
=============================================================================
