----------------------------- MODULE MCFileData -----------------------------
(* Instances of FileData for TLC. *)
EXTENDS FileData

CONSTANTS h1, h2
=============================================================================
