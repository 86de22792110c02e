----------------------------- MODULE MCFilePush -----------------------------
(***************************************************************************)
(* Small instances of FilePush for TLC.                                    *)
(***************************************************************************)
EXTENDS FilePush, TLC

CONSTANTS q1, q2, bad   \* bad: a path that isValidPath refuses

Write1(q, long) == [path |-> q, delete |-> FALSE, long |-> long]
Delete1(q) == [path |-> q, delete |-> TRUE, long |-> FALSE]

\* One file long or short, an archive, a file written twice, a refused path and
\* a removal followed by a write.
Bodies ==
    { [tar |-> FALSE, files |-> <<Write1(q1, TRUE)>>],
      [tar |-> FALSE, files |-> <<Write1(q1, FALSE), Delete1(q2)>>],
      [tar |-> TRUE,  files |-> <<Write1(bad, FALSE), Write1(q1, FALSE), Write1(q2, TRUE)>>],
      [tar |-> FALSE, files |-> <<Delete1(q1), Write1(q1, TRUE), Write1(q1, FALSE)>>] }

OneFile ==
    { [tar |-> FALSE, files |-> <<Write1(q1, long)>>] : long \in BOOLEAN }

Symmetry == Permutations(Push) \cup Permutations(Node)
=============================================================================
