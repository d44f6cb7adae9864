------------------------------ MODULE MCSynch ------------------------------
(***************************************************************************)
(* Instances of Synch for TLC.                                             *)
(***************************************************************************)
EXTENDS Synch, TLC

\* The threads that programs create are interchangeable, and so are the
\* processes that Exec creates.
Symmetry == Permutations(Thread \ {Root}) \cup Permutations(Proc \ {RootProc})
=============================================================================
