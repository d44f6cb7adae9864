------------------------------ MODULE Threads ------------------------------
(***************************************************************************)
(* Threads, processes and the scheduler of the Nachos kernel               *)
(* (kernel/thread.cc, kernel/scheduler.cc, kernel/process.cc and the       *)
(* idle/halt part of machine/interrupt.cc).                                *)
(*                                                                         *)
(* The kernel is a uniprocessor without time slicing: no Timer is ever     *)
(* created, so the CPU changes hands only where the code calls             *)
(* Thread::Yield or Thread::Sleep.  One action is therefore the code that  *)
(* the current thread executes between two such points.                    *)
(*                                                                         *)
(* This module has the state and the operations; Synch composes them with  *)
(* the synchronization objects into a specification.                       *)
(***************************************************************************)
EXTENDS Integers, Sequences, FiniteSets

CONSTANTS
  Thread,       \* Thread objects; an object is never created twice
  Proc,         \* Process objects
  Root,         \* the "main-temp" thread made by Initialize
  RootProc,     \* its process, "BOOT"
  NULL          \* the null pointer

ASSUME ThreadAssumption ==
  /\ Root \in Thread
  /\ RootProc \in Proc
  /\ NULL \notin Thread \cup Proc

VARIABLES
  g_current_thread,          \* the thread whose stack the CPU is on
  readyList,                 \* Scheduler::readyList, FIFO
  g_alive,                   \* started and not finished; only its members matter
  g_thread_to_be_destroyed,  \* the finished thread whose carcass is to be deleted
  status,                    \* where the saved context of each thread is
  blockedOn,                 \* the object of the primitive that context is in
  process,                   \* Thread::process
  numThreads,                \* Process::numThreads
  procState,                 \* is the Process object allocated?
  cpu                        \* what the processor is doing

threadVars == <<g_current_thread, readyList, g_alive, g_thread_to_be_destroyed,
                status, blockedOn, process, numThreads, procState, cpu>>

(***************************************************************************)
(* The values of status[t]:                                                *)
(*   none      the object does not exist yet                               *)
(*   fresh     started, its context is still StartThreadExecution          *)
(*   user      it executes user code, or a kernel step that cannot block   *)
(*   Yield, P, Acquire, Wait, Join                                         *)
(*             its context is inside that primitive                        *)
(*   finished  it has called Finish                                        *)
(*   deleted   ~Thread has run                                             *)
(***************************************************************************)
Suspended == {"Yield", "P", "Acquire", "Wait", "Join"}
Status == {"none", "fresh", "user", "finished", "deleted"} \cup Suspended

(***************************************************************************)
(* The values of cpu:                                                      *)
(*   boot      main() before it calls Finish on the root thread            *)
(*   running   g_current_thread executes its own code                      *)
(*   switched  SwitchTo just installed g_current_thread's context          *)
(*   idle      g_current_thread is in the loop of Sleep, in Idle           *)
(*   halted, aborted   Halt, or a failed ASSERT                            *)
(***************************************************************************)
CpuState == {"boot", "running", "switched", "idle", "halted", "aborted"}

Stopped == cpu \in {"halted", "aborted"}

\* The members of a list.
Members(list) == {list[i] : i \in 1..Len(list)}

ThreadsInit ==
  /\ g_current_thread = Root
  /\ readyList = <<>>
  /\ g_alive = {Root}
  /\ g_thread_to_be_destroyed = NULL
  /\ status = [t \in Thread |-> IF t = Root THEN "user" ELSE "none"]
  /\ blockedOn = [t \in Thread |-> NULL]
  /\ process = [t \in Thread |-> IF t = Root THEN RootProc ELSE NULL]
  /\ numThreads = [p \in Proc |-> IF p = RootProc THEN 1 ELSE 0]
  /\ procState = [p \in Proc |-> IF p = RootProc THEN "live" ELSE "none"]
  /\ cpu = "boot"

\* t executes user code and is about to make a system call.
Running(t) == cpu = "running" /\ g_current_thread = t /\ status[t] = "user"

-----------------------------------------------------------------------------
(* Scheduler *)

\* The part of Scheduler::SwitchTo that runs on the stack of the old thread.
SwitchTo(next) ==
  /\ g_current_thread' = next
  /\ cpu' = "switched"

\* Mutant: FindNextToRun looks at the first thread without removing it.
SleepKeepsHead ==
  \/ /\ readyList # <<>>
     /\ SwitchTo(Head(readyList))
     /\ UNCHANGED readyList
  \/ /\ readyList = <<>>
     /\ cpu' = "idle"
     /\ UNCHANGED <<g_current_thread, readyList>>

\* Thread::Sleep: the next ready thread, or else Idle.
Sleep ==
  \/ /\ readyList # <<>>
     /\ SwitchTo(Head(readyList))
     /\ readyList' = Tail(readyList)
  \/ /\ readyList = <<>>
     /\ cpu' = "idle"
     /\ UNCHANGED <<g_current_thread, readyList>>

\* Mutant: ReadyToRun prepends instead of appending.
GiveWayToFront(t) ==
  IF readyList = <<>>
  THEN UNCHANGED <<g_current_thread, readyList, cpu>>
  ELSE /\ SwitchTo(Head(readyList))
       /\ readyList' = <<t>> \o Tail(readyList)

\* Thread::Yield by t: nothing happens when nobody else is ready.
GiveWay(t) ==
  IF readyList = <<>>
  THEN UNCHANGED <<g_current_thread, readyList, cpu>>
  ELSE /\ SwitchTo(Head(readyList))
       /\ readyList' = Append(Tail(readyList), t)

\* Mutant: ~Thread tests numThreads before it decrements it.
DestroyOffByOne(x) ==
  LET p == process[x] IN
  /\ numThreads' = [numThreads EXCEPT ![p] = @ - 1]
  /\ procState' = IF numThreads[p] = 0 THEN [procState EXCEPT ![p] = "deleted"]
                                       ELSE procState

\* ~Thread of x, but for status: the last thread takes its process along.
Destroy(x) ==
  LET p == process[x] IN
  /\ numThreads' = [numThreads EXCEPT ![p] = @ - 1]
  /\ procState' = IF numThreads[p] = 1 THEN [procState EXCEPT ![p] = "deleted"]
                                       ELSE procState

\* Mutant: SwitchTo does not reset g_thread_to_be_destroyed.
ResumedNoReset(t, to) ==
  /\ cpu = "switched"
  /\ g_current_thread = t
  /\ cpu' = "running"
  /\ IF g_thread_to_be_destroyed = NULL
     THEN /\ status' = [status EXCEPT ![t] = to]
          /\ UNCHANGED <<numThreads, procState>>
     ELSE /\ status' = [status EXCEPT ![g_thread_to_be_destroyed] = "deleted", ![t] = to]
          /\ Destroy(g_thread_to_be_destroyed)
  /\ UNCHANGED <<g_current_thread, readyList, g_alive, g_thread_to_be_destroyed, process>>

\* The tail of SwitchTo, run by the resumed thread on its own stack: it
\* deletes the carcass, then the thread is at status "to".
Resumed(t, to) ==
  /\ cpu = "switched"
  /\ g_current_thread = t
  /\ cpu' = "running"
  /\ g_thread_to_be_destroyed' = NULL
  /\ IF g_thread_to_be_destroyed = NULL
     THEN /\ status' = [status EXCEPT ![t] = to]
          /\ UNCHANGED <<numThreads, procState>>
     ELSE /\ status' = [status EXCEPT ![g_thread_to_be_destroyed] = "deleted", ![t] = to]
          /\ Destroy(g_thread_to_be_destroyed)
  /\ UNCHANGED <<g_current_thread, readyList, g_alive, process>>

\* The current thread t goes to sleep inside primitive op of object o.
Block(t, op, o) ==
  /\ status' = [status EXCEPT ![t] = op]
  /\ blockedOn' = [blockedOn EXCEPT ![t] = o]
  /\ Sleep
  /\ UNCHANGED <<g_alive, g_thread_to_be_destroyed, process, numThreads, procState>>

-----------------------------------------------------------------------------
(* Operations *)

\* new Thread and the part of Thread::Start(p, ...) that attaches u to p.
StartIn(u, p) ==
  /\ status[u] = "none"
  /\ process' = [process EXCEPT ![u] = p]
  /\ numThreads' = [numThreads EXCEPT ![p] = @ + 1]

\* main(): start the initial program in u and p, then Finish the root thread.
Main(u, p) ==
  /\ cpu = "boot"
  /\ procState[p] = "none"
  /\ StartIn(u, p)
  /\ procState' = [procState EXCEPT ![p] = "live"]
  /\ g_thread_to_be_destroyed' = Root
  /\ g_alive' = {u}
  /\ status' = [status EXCEPT ![u] = "fresh", ![Root] = "finished"]
  /\ SwitchTo(u)
  /\ UNCHANGED <<readyList, blockedOn>>

\* main() without a program to start.
MainNoProgram ==
  /\ cpu = "boot"
  /\ g_thread_to_be_destroyed' = Root
  /\ g_alive' = {}
  /\ status' = [status EXCEPT ![Root] = "finished"]
  /\ Sleep
  /\ UNCHANGED <<blockedOn, process, numThreads, procState>>

\* SC_NEW_THREAD: a thread of the caller's process.
NewThread(t, u) ==
  /\ Running(t)
  /\ StartIn(u, process[t])
  /\ status' = [status EXCEPT ![u] = "fresh"]
  /\ g_alive' = g_alive \cup {u}
  /\ readyList' = Append(readyList, u)
  /\ UNCHANGED <<g_current_thread, g_thread_to_be_destroyed, blockedOn, procState, cpu>>

\* SC_EXEC: a process and its first thread.
Exec(t, u, p) ==
  /\ Running(t)
  /\ procState[p] = "none"
  /\ StartIn(u, p)
  /\ procState' = [procState EXCEPT ![p] = "live"]
  /\ status' = [status EXCEPT ![u] = "fresh"]
  /\ g_alive' = g_alive \cup {u}
  /\ readyList' = Append(readyList, u)
  /\ UNCHANGED <<g_current_thread, g_thread_to_be_destroyed, blockedOn, cpu>>

\* Mutant: Finish leaves the thread in g_alive.
FinishStaysAlive(t) ==
  /\ Running(t)
  /\ g_thread_to_be_destroyed' = t
  /\ status' = [status EXCEPT ![t] = "finished"]
  /\ Sleep
  /\ UNCHANGED <<g_alive, blockedOn, process, numThreads, procState>>

\* SC_EXIT: Thread::Finish.  List::RemoveItem never returns when the item is
\* not in the list, hence the guard on g_alive.
Finish(t) ==
  /\ Running(t)
  /\ t \in g_alive
  /\ g_thread_to_be_destroyed' = t
  /\ g_alive' = g_alive \ {t}
  /\ status' = [status EXCEPT ![t] = "finished"]
  /\ Sleep
  /\ UNCHANGED <<blockedOn, process, numThreads, procState>>

\* SC_YIELD when another thread is ready (otherwise it returns at once).
Yield(t) ==
  /\ Running(t)
  /\ readyList # <<>>
  /\ status' = [status EXCEPT ![t] = "Yield"]
  /\ GiveWay(t)
  /\ UNCHANGED <<g_alive, g_thread_to_be_destroyed, blockedOn, process, numThreads, procState>>

\* SC_JOIN on the id of u: Thread::Join yields as long as u is in g_alive.
\* It returns at once when u is finished, or deleted (typeId is invalid).
Join(t, u) ==
  /\ Running(t)
  /\ u \in g_alive
  /\ status' = [status EXCEPT ![t] = "Join"]
  /\ blockedOn' = [blockedOn EXCEPT ![t] = u]
  /\ GiveWay(t)
  /\ UNCHANGED <<g_alive, g_thread_to_be_destroyed, process, numThreads, procState>>

\* One more turn of the loop in Thread::Join.
JoinLoop(t) ==
  /\ cpu = "running"
  /\ g_current_thread = t
  /\ status[t] = "Join"
  /\ \/ /\ blockedOn[t] \in g_alive
        /\ GiveWay(t)
        /\ UNCHANGED <<status, blockedOn>>
     \/ /\ blockedOn[t] \notin g_alive
        /\ status' = [status EXCEPT ![t] = "user"]
        /\ blockedOn' = [blockedOn EXCEPT ![t] = NULL]
        /\ UNCHANGED <<g_current_thread, readyList, cpu>>
  /\ UNCHANGED <<g_alive, g_thread_to_be_destroyed, process, numThreads, procState>>

\* A fresh thread starts in StartThreadExecution: it does not run the tail
\* of SwitchTo.
StartThreadExecution(t) ==
  /\ cpu = "switched"
  /\ g_current_thread = t
  /\ status[t] = "fresh"
  /\ cpu' = "running"
  /\ status' = [status EXCEPT ![t] = "user"]
  /\ UNCHANGED <<g_current_thread, readyList, g_alive, g_thread_to_be_destroyed,
                 blockedOn, process, numThreads, procState>>

\* Return from Yield, inside SC_YIELD or inside the loop of Join.
ResumeYield(t) ==
  /\ status[t] \in {"Yield", "Join"}
  /\ Resumed(t, IF status[t] = "Yield" THEN "user" ELSE "Join")
  /\ UNCHANGED blockedOn

\* Interrupt::Halt: Cleanup deletes the current thread, whatever its state.
Halt ==
  /\ cpu' = "halted"
  /\ status' = [status EXCEPT ![g_current_thread] = "deleted"]
  /\ Destroy(g_current_thread)
  /\ UNCHANGED <<g_current_thread, readyList, g_alive, g_thread_to_be_destroyed,
                 blockedOn, process>>

\* SC_HALT.
HaltCall(t) == Running(t) /\ Halt

\* Idle without a pending interrupt: the machine stops.
IdleHalt == cpu = "idle" /\ readyList = <<>> /\ Halt

\* Idle returned after an interrupt made a thread ready: the loop of Sleep.
IdleSwitch ==
  /\ cpu = "idle"
  /\ readyList # <<>>
  /\ SwitchTo(Head(readyList))
  /\ readyList' = Tail(readyList)
  /\ UNCHANGED <<g_alive, g_thread_to_be_destroyed, status, blockedOn, process,
                 numThreads, procState>>

\* A failed ASSERT dumps core.
Abort ==
  /\ cpu' = "aborted"
  /\ UNCHANGED <<g_current_thread, readyList, g_alive, g_thread_to_be_destroyed,
                 status, blockedOn, process, numThreads, procState>>

=============================================================================
