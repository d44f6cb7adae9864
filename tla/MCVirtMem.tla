----------------------------- MODULE MCVirtMem -----------------------------
(***************************************************************************)
(* Instances of VirtMem for TLC: threads a1 and a2 belong to space sa,     *)
(* thread b1 to space sb.                                                  *)
(***************************************************************************)
EXTENDS VirtMem, TLC

CONSTANTS sa, sb, a1, a2, b1,   \* the spaces and the threads
          PagesOfA, PagesOfB, Length

Owner == [t \in Thread |-> IF t = b1 THEN sb ELSE sa]
Sizes == [s \in Space |-> IF s = sa THEN PagesOfA ELSE PagesOfB]
Lengths == [f \in File |-> Length]

Symmetry == Permutations({a1, a2})
=============================================================================
