---------------------------- MODULE DiskService ----------------------------
(***************************************************************************)
(* What the disk driver promises to the threads that read and write        *)
(* sectors: it serves them one at a time, in the order in which they       *)
(* called, and lets a thread go only after the disk has completed the      *)
(* request of that very thread.                                            *)
(***************************************************************************)
EXTENDS Sequences, Integers

CONSTANTS Thread, NULL

VARIABLES
  line,       \* threads that have called and wait for the disk, in order
  serving,    \* the thread whose request the disk has, or NULL
  completed   \* is that request complete?

vars == <<line, serving, completed>>

Init ==
  /\ line = <<>>
  /\ serving = NULL
  /\ completed = FALSE

Call(t) ==
  /\ t # serving
  /\ \A i \in 1..Len(line) : line[i] # t
  /\ line' = Append(line, t)
  /\ UNCHANGED <<serving, completed>>

Start ==
  /\ serving = NULL
  /\ line # <<>>
  /\ serving' = Head(line)
  /\ line' = Tail(line)
  /\ UNCHANGED completed

Complete ==
  /\ serving # NULL
  /\ ~completed
  /\ completed' = TRUE
  /\ UNCHANGED <<line, serving>>

Return ==
  /\ completed
  /\ serving' = NULL
  /\ completed' = FALSE
  /\ UNCHANGED line

Next == (\E t \in Thread : Call(t)) \/ Start \/ Complete \/ Return

Spec == Init /\ [][Next]_vars

=============================================================================
