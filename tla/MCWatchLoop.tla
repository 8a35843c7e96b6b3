---------------------------- MODULE MCWatchLoop -----------------------------
(***************************************************************************)
(* Small instances of WatchLoop.                                           *)
(***************************************************************************)
EXTENDS WatchLoop, TLC

CONSTANTS f1, f2, r1, t1, t2, loop

OneRoot == [f \in Files |-> r1]

\* Each file alone under a root, which goes by the file's name.
OwnRoots == [f \in Files |-> f]

FileSymmetry == Permutations(Files)
=============================================================================
