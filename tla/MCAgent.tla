------------------------------ MODULE MCAgent ------------------------------
(***************************************************************************)
(* Small instances of Agent for TLC.                                       *)
(***************************************************************************)
EXTENDS Agent, TLC

\* Two of the sandboxes are of one app: its row was recycled.
CONSTANTS s1, s2, s3, a1, a2
Apps == s1 :> a1 @@ s2 :> a1 @@ s3 :> a2

Symmetry == Permutations(Port)
=============================================================================
