---------------------------- MODULE MCFileSystem ----------------------------
(* Instances of FileSystem for TLC. *)
EXTENDS FileSystem, TLC

CONSTANTS t1, t2

\* one file and one directory in the root, one file below
Paths == {"f", "d", "d/f"}
Names == ("f" :> <<"f">>) @@ ("d" :> <<"d">>) @@ ("d/f" :> <<"d", "f">>)

\* what may overlap: Creates (they hold createLock), and a Create
\* with an Open
Creates == {{"create"}, {"create", "open"}}

Symmetry == Permutations(Thread)
=============================================================================
