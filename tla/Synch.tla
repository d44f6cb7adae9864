------------------------------- MODULE Synch -------------------------------
(***************************************************************************)
(* The synchronization objects of the kernel (kernel/synch.cc) under the   *)
(* system calls that reach them (kernel/exception.cc), composed with the   *)
(* threads and the scheduler of module Threads: the specification of what  *)
(* user programs can do to the kernel without any device.                  *)
(*                                                                         *)
(* A user program is arbitrary: whenever a thread runs it makes any system *)
(* call with any argument.  A call whose id does not name a live object of *)
(* the right type returns an error code and changes nothing, so it is a    *)
(* stuttering step.                                                        *)
(***************************************************************************)
EXTENDS Threads

CONSTANTS
  Semaphore, Lock, Condition,   \* the objects; none is created twice
  InitialValue,                 \* initial values programs give to semaphores
  MaxValue                      \* bound: V is not called at this value

ASSUME SynchAssumption ==
  /\ InitialValue \subseteq Int
  /\ MaxValue \in Nat
  /\ NULL \notin Semaphore \cup Lock \cup Condition
  /\ Semaphore \cap Lock = {} /\ Semaphore \cap Condition = {} /\ Lock \cap Condition = {}

VARIABLES
  typeId,      \* is the object "none" (not created), "live" or "INVALID"?
  value,       \* Semaphore::value
  queue,       \* Semaphore::queue
  free,        \* Lock::free
  owner,       \* Lock::owner
  sleepqueue,  \* Lock::sleepqueue
  waitqueue,   \* Condition::waitqueue
  inside       \* history: the threads between a return of Acquire and Release

semVars  == <<value, queue>>
lockVars == <<free, owner, sleepqueue, inside>>
synchVars == <<typeId, semVars, lockVars, waitqueue>>
vars == <<threadVars, synchVars>>

Object == Semaphore \cup Lock \cup Condition

Init ==
  /\ ThreadsInit
  /\ typeId = [o \in Object |-> "none"]
  /\ value = [s \in Semaphore |-> 0]
  /\ queue = [s \in Semaphore |-> <<>>]
  /\ free = [l \in Lock |-> TRUE]
  /\ owner = [l \in Lock |-> NULL]
  /\ sleepqueue = [l \in Lock |-> <<>>]
  /\ waitqueue = [c \in Condition |-> <<>>]
  /\ inside = [l \in Lock |-> {}]

\* Mutants: V wakes the null pointer that List::Remove returns on an empty
\* list; V looks at the first thread without removing it.
FirstUnchecked(list) == IF list = <<>> THEN <<NULL>> ELSE <<Head(list)>>
RestKeepsHead(list) == list

\* List::Remove of a possibly empty list: what it returns, and what it leaves.
First(list) == IF list = <<>> THEN <<>> ELSE <<Head(list)>>
Rest(list) == IF list = <<>> THEN <<>> ELSE Tail(list)

\* Threads woken by a primitive go to the end of the ready list, in order.
Wake(list) ==
  /\ readyList' = readyList \o list
  /\ UNCHANGED <<g_current_thread, g_alive, g_thread_to_be_destroyed, status,
                 blockedOn, process, numThreads, procState, cpu>>

\* A suspended thread t leaves primitive op.
Return(t, op) ==
  /\ status[t] = op
  /\ Resumed(t, "user")
  /\ blockedOn' = [blockedOn EXCEPT ![t] = NULL]

-----------------------------------------------------------------------------
(* Semaphores *)

SemCreate(t, s, initialValue) ==
  /\ Running(t)
  /\ typeId[s] = "none"
  /\ typeId' = [typeId EXCEPT ![s] = "live"]
  /\ value' = [value EXCEPT ![s] = initialValue]
  /\ UNCHANGED <<threadVars, queue, lockVars, waitqueue>>

\* ~Semaphore asserts that its queue is empty.
SemDestroy(t, s) ==
  /\ Running(t)
  /\ typeId[s] = "live"
  /\ typeId' = [typeId EXCEPT ![s] = "INVALID"]
  /\ IF queue[s] = <<>> THEN UNCHANGED threadVars ELSE Abort
  /\ UNCHANGED <<semVars, lockVars, waitqueue>>

\* Semaphore::P up to its return, or up to Sleep.
P(t, s) ==
  /\ Running(t)
  /\ typeId[s] = "live"
  /\ \/ /\ value[s] > 0
        /\ value' = [value EXCEPT ![s] = @ - 1]
        /\ UNCHANGED <<threadVars, queue>>
     \/ /\ value[s] <= 0
        /\ queue' = [queue EXCEPT ![s] = Append(@, t)]
        /\ Block(t, "P", s)
        /\ UNCHANGED value
  /\ UNCHANGED <<typeId, lockVars, waitqueue>>

\* The rest of P once Sleep returns: the value is not tested again.
ReturnP(t) ==
  /\ Return(t, "P")
  /\ value' = [value EXCEPT ![blockedOn[t]] = @ - 1]
  /\ UNCHANGED <<typeId, queue, lockVars, waitqueue>>

\* Mutant: V wakes a thread only when the value was 0.
SemVAtZero(s) ==
  /\ value' = [value EXCEPT ![s] = @ + 1]
  /\ IF value[s] = 0
     THEN /\ queue' = [queue EXCEPT ![s] = Rest(@)]
          /\ Wake(First(queue[s]))
     ELSE UNCHANGED <<queue, threadVars>>
  /\ UNCHANGED <<typeId, lockVars, waitqueue>>

\* Semaphore::V, also called by interrupt handlers.
SemV(s) ==
  /\ value' = [value EXCEPT ![s] = @ + 1]
  /\ queue' = [queue EXCEPT ![s] = Rest(@)]
  /\ Wake(First(queue[s]))
  /\ UNCHANGED <<typeId, lockVars, waitqueue>>

V(t, s) ==
  /\ Running(t)
  /\ typeId[s] = "live"
  /\ value[s] < MaxValue
  /\ SemV(s)

-----------------------------------------------------------------------------
(* Locks *)

LockCreate(t, l) ==
  /\ Running(t)
  /\ typeId[l] = "none"
  /\ typeId' = [typeId EXCEPT ![l] = "live"]
  /\ UNCHANGED <<threadVars, semVars, lockVars, waitqueue>>

LockDestroy(t, l) ==
  /\ Running(t)
  /\ typeId[l] = "live"
  /\ typeId' = [typeId EXCEPT ![l] = "INVALID"]
  /\ IF sleepqueue[l] = <<>> THEN UNCHANGED threadVars ELSE Abort
  /\ UNCHANGED <<semVars, lockVars, waitqueue>>

\* Lock::Acquire up to its return, or up to Sleep.
Acquire(t, l) ==
  /\ Running(t)
  /\ typeId[l] = "live"
  /\ \/ /\ free[l]
        /\ free' = [free EXCEPT ![l] = FALSE]
        /\ owner' = [owner EXCEPT ![l] = t]
        /\ inside' = [inside EXCEPT ![l] = @ \cup {t}]
        /\ UNCHANGED <<threadVars, sleepqueue>>
     \/ /\ ~free[l]
        /\ sleepqueue' = [sleepqueue EXCEPT ![l] = Append(@, t)]
        /\ Block(t, "Acquire", l)
        /\ UNCHANGED <<free, owner, inside>>
  /\ UNCHANGED <<typeId, semVars, waitqueue>>

\* Sleep returns inside Acquire: Release has already made t the owner.
ReturnAcquire(t) ==
  /\ Return(t, "Acquire")
  /\ inside' = [inside EXCEPT ![blockedOn[t]] = @ \cup {t}]
  /\ UNCHANGED <<typeId, semVars, free, owner, sleepqueue, waitqueue>>

\* Mutants: Release frees the lock although it wakes a waiter; Release does
\* not make the waiter the owner.
ReleaseFrees(t, l) ==
  /\ Running(t)
  /\ typeId[l] = "live"
  /\ IF owner[l] # t
     THEN Abort /\ UNCHANGED lockVars
     ELSE /\ sleepqueue' = [sleepqueue EXCEPT ![l] = Rest(@)]
          /\ free' = [free EXCEPT ![l] = TRUE]
          /\ owner' = [owner EXCEPT ![l] = NULL]
          /\ inside' = [inside EXCEPT ![l] = @ \ {t}]
          /\ Wake(First(sleepqueue[l]))
  /\ UNCHANGED <<typeId, semVars, waitqueue>>

ReleaseForgetsOwner(t, l) ==
  /\ Running(t)
  /\ typeId[l] = "live"
  /\ IF owner[l] # t
     THEN Abort /\ UNCHANGED lockVars
     ELSE /\ sleepqueue' = [sleepqueue EXCEPT ![l] = Rest(@)]
          /\ free' = [free EXCEPT ![l] = (sleepqueue[l] = <<>>)]
          /\ owner' = [owner EXCEPT ![l] = NULL]
          /\ inside' = [inside EXCEPT ![l] = @ \ {t}]
          /\ Wake(First(sleepqueue[l]))
  /\ UNCHANGED <<typeId, semVars, waitqueue>>

\* Lock::Release: hand the lock to the first waiter, or free it.
Release(t, l) ==
  /\ Running(t)
  /\ typeId[l] = "live"
  /\ IF owner[l] # t
     THEN Abort /\ UNCHANGED lockVars
     ELSE /\ sleepqueue' = [sleepqueue EXCEPT ![l] = Rest(@)]
          /\ free' = [free EXCEPT ![l] = (sleepqueue[l] = <<>>)]
          /\ owner' = [owner EXCEPT ![l] = IF sleepqueue[l] = <<>> THEN NULL
                                           ELSE Head(sleepqueue[l])]
          /\ inside' = [inside EXCEPT ![l] = @ \ {t}]
          /\ Wake(First(sleepqueue[l]))
  /\ UNCHANGED <<typeId, semVars, waitqueue>>

-----------------------------------------------------------------------------
(* Condition variables *)

CondCreate(t, c) ==
  /\ Running(t)
  /\ typeId[c] = "none"
  /\ typeId' = [typeId EXCEPT ![c] = "live"]
  /\ UNCHANGED <<threadVars, semVars, lockVars, waitqueue>>

CondDestroy(t, c) ==
  /\ Running(t)
  /\ typeId[c] = "live"
  /\ typeId' = [typeId EXCEPT ![c] = "INVALID"]
  /\ IF waitqueue[c] = <<>> THEN UNCHANGED threadVars ELSE Abort
  /\ UNCHANGED <<semVars, lockVars, waitqueue>>

\* Condition::Wait only goes to sleep: it leaves the wait queue alone.
Wait(t, c) ==
  /\ Running(t)
  /\ typeId[c] = "live"
  /\ Block(t, "Wait", c)
  /\ UNCHANGED synchVars

Signal(t, c) ==
  /\ Running(t)
  /\ typeId[c] = "live"
  /\ waitqueue' = [waitqueue EXCEPT ![c] = Rest(@)]
  /\ Wake(First(waitqueue[c]))
  /\ UNCHANGED <<typeId, semVars, lockVars>>

Broadcast(t, c) ==
  /\ Running(t)
  /\ typeId[c] = "live"
  /\ waitqueue' = [waitqueue EXCEPT ![c] = <<>>]
  /\ Wake(waitqueue[c])
  /\ UNCHANGED <<typeId, semVars, lockVars>>

-----------------------------------------------------------------------------

\* The steps of module Threads: they leave every object alone.
ThreadStep(t) ==
  /\ \/ \E u \in Thread : \/ NewThread(t, u)
                          \/ Join(t, u)
                          \/ \E p \in Proc : Exec(t, u, p)
     \/ Yield(t)
     \/ Finish(t)
     \/ HaltCall(t)
     \/ JoinLoop(t)
     \/ StartThreadExecution(t)
     \/ ResumeYield(t)
  /\ UNCHANGED synchVars

SynchStep(t) ==
  \/ \E s \in Semaphore : \/ P(t, s)
                          \/ V(t, s)
                          \/ SemDestroy(t, s)
                          \/ \E v \in InitialValue : SemCreate(t, s, v)
  \/ \E l \in Lock : Acquire(t, l) \/ Release(t, l) \/ LockCreate(t, l) \/ LockDestroy(t, l)
  \/ \E c \in Condition : \/ Wait(t, c)
                          \/ Signal(t, c)
                          \/ Broadcast(t, c)
                          \/ CondCreate(t, c)
                          \/ CondDestroy(t, c)
  \/ ReturnP(t)
  \/ ReturnAcquire(t)

MachineStep ==
  /\ \/ \E u \in Thread, p \in Proc : Main(u, p)
     \/ MainNoProgram
     \/ IdleHalt
  /\ UNCHANGED synchVars

Next ==
  \/ \E t \in Thread : ThreadStep(t) \/ SynchStep(t)
  \/ MachineStep
  \/ Stopped /\ UNCHANGED vars

Spec == Init /\ [][Next]_vars

-----------------------------------------------------------------------------
(* Fairness, for liveness *)

\* A thread that SwitchTo installed goes on, and so does the loop of Join.
Continue(t) ==
  \/ (StartThreadExecution(t) \/ ResumeYield(t) \/ JoinLoop(t)) /\ UNCHANGED synchVars
  \/ ReturnP(t)
  \/ ReturnAcquire(t)

(***************************************************************************)
(* The processor never stops by itself: kernel code that can go on does.   *)
(* Nothing takes the processor from a thread that computes, so a scheduling *)
(* promise needs programs that give way again and again; the second        *)
(* conjunct says that they call Yield if they do nothing else.             *)
(***************************************************************************)
Fairness ==
  /\ \A t \in Thread : WF_vars(Continue(t))
  /\ \A t \in Thread : WF_vars(Yield(t) /\ UNCHANGED synchVars)

FairSpec == Spec /\ Fairness

-----------------------------------------------------------------------------
(* Properties *)

ThreadTypeOK ==
  /\ g_current_thread \in Thread
  /\ readyList \in Seq(Thread)
  /\ g_alive \subseteq Thread
  /\ g_thread_to_be_destroyed \in Thread \cup {NULL}
  /\ status \in [Thread -> Status]
  /\ blockedOn \in [Thread -> Object \cup Thread \cup {NULL}]
  /\ process \in [Thread -> Proc \cup {NULL}]
  /\ numThreads \in [Proc -> Int]
  /\ procState \in [Proc -> {"none", "live", "deleted"}]
  /\ cpu \in CpuState

SynchTypeOK ==
  /\ typeId \in [Object -> {"none", "live", "INVALID"}]
  /\ value \in [Semaphore -> Int]
  /\ queue \in [Semaphore -> Seq(Thread)]
  /\ free \in [Lock -> BOOLEAN]
  /\ owner \in [Lock -> Thread \cup {NULL}]
  /\ sleepqueue \in [Lock -> Seq(Thread)]
  /\ waitqueue \in [Condition -> Seq(Thread)]
  /\ inside \in [Lock -> SUBSET Thread]

\* The type of every variable.
TypeOK == ThreadTypeOK /\ SynchTypeOK

\* The list of object o, and the lists thread t is in (NULL: the ready list).
QueueOf(o) == IF o \in Semaphore THEN queue[o]
              ELSE IF o \in Lock THEN sleepqueue[o] ELSE waitqueue[o]
Places(t) == {o \in Object : t \in Members(QueueOf(o))}
             \cup (IF t \in Members(readyList) THEN {NULL} ELSE {})

OnCpu(t) == t = g_current_thread /\ cpu # "idle"

NoRepeats(list) == \A i, j \in 1..Len(list) : list[i] = list[j] => i = j

\* No thread is lost or duplicated by the context switches of thread.cc,
\* scheduler.cc and synch.cc: a thread that has something left to do is on
\* the CPU, once in the ready list, or once in the queue of the very object
\* it is blocked on; one that has finished is in no list, so nothing will
\* ever switch to a carcass.  (Threads in Condition::Wait are in no list
\* either: Wait does not append to waitqueue.)
EveryThreadLocated ==
  ~Stopped =>
    /\ NoRepeats(readyList) /\ \A o \in Object : NoRepeats(QueueOf(o))
    /\ \A t \in Thread :
         /\ status[t] \in {"none", "finished", "deleted", "Wait", "user"} => Places(t) = {}
         /\ status[t] = "user" => OnCpu(t)
         /\ status[t] \in {"fresh", "Yield", "Join"} =>
              Places(t) = IF OnCpu(t) THEN {} ELSE {NULL}
         /\ status[t] \in {"P", "Acquire"} =>
              IF OnCpu(t) THEN Places(t) = {} ELSE Places(t) \in {{NULL}, {blockedOn[t]}}

\* Process::numThreads counts exactly the threads whose ~Thread has not run,
\* so ~Process runs when, and only when, no thread can use its address space
\* any more (RestoreProcessorState dereferences it at every switch).
ProcessOutlivesItsThreads ==
  ~Stopped =>
    \A p \in Proc :
      /\ numThreads[p] = Cardinality({t \in Thread : process[t] = p /\ status[t] # "deleted"})
      /\ procState[p] = "live" <=> numThreads[p] > 0

\* What g_thread_to_be_destroyed points to is a finished thread, and while a
\* thread executes it is never its own: ~Thread frees the stack.
CarcassIsNotRunning ==
  g_thread_to_be_destroyed # NULL /\ ~Stopped =>
    /\ status[g_thread_to_be_destroyed] = "finished"
    /\ g_thread_to_be_destroyed = g_current_thread => cpu = "idle"

\* Lock::Acquire and Lock::Release: two threads are never both between a
\* return of Acquire and their Release, and the one that is owns the lock
\* (or the ASSERT in Release would stop the kernel).
MutualExclusion ==
  \A l \in Lock : \A t \in inside[l] : ~free[l] /\ owner[l] = t

\* The hand-over in Lock::Release leaves no thread asleep on a lock that
\* nobody has: a lock with sleepers has an owner, which is inside or has
\* just been given the lock and will return from Acquire.
LockedWhileWanted ==
  ~Stopped =>
    \A l \in Lock : sleepqueue[l] # <<>> =>
      /\ ~free[l]
      /\ \/ owner[l] \in inside[l]
         \/ owner[l] \in Thread /\ status[owner[l]] = "Acquire" /\ blockedOn[owner[l]] = l

\* The threads that V has woken and that have not yet run the rest of P.
Woken(s) == {t \in Thread : status[t] = "P" /\ blockedOn[t] = s /\ t \notin Members(queue[s])}

\* Semaphore::P and V lose no wake-up: as long as a thread sleeps in P, each
\* unit of the value is the reason why some other thread was already woken.
NoLostWakeup ==
  \A s \in Semaphore : queue[s] # <<>> => value[s] <= Cardinality(Woken(s))

\* The ready list is fair (tail in, head out): a ready thread gets the CPU if
\* programs give way.
ReadyThreadsRun ==
  \A t \in Thread : t \in Members(readyList) ~> g_current_thread = t \/ Stopped

\* Thread::Join returns once the thread joined has called Finish.
JoinReturns ==
  \A t, u \in Thread :
    status[t] = "Join" /\ blockedOn[t] = u /\ status[u] = "finished" ~> status[t] # "Join" \/ Stopped

-----------------------------------------------------------------------------
(* The inductive invariant behind MutualExclusion and LockedWhileWanted.   *)
(* A thread that Acquire resumes owns the lock only because Release woke   *)
(* it, so the invariant follows a thread through every list it can be in.  *)

\* The states of a thread that can be in the ready list.
Resumable == {"fresh", "Yield", "Join", "P", "Acquire"}

\* t sleeps in op on o and nothing is about to run it.
Asleep(t, op, o) ==
  /\ status[t] = op
  /\ blockedOn[t] = o
  /\ t \notin Members(readyList)
  /\ ~OnCpu(t)

ReadyOK ==
  /\ NoRepeats(readyList)
  /\ \A t \in Members(readyList) : status[t] \in Resumable /\ ~OnCpu(t)

QueuesOK ==
  /\ \A s \in Semaphore : NoRepeats(queue[s]) /\ \A t \in Members(queue[s]) : Asleep(t, "P", s)
  /\ \A l \in Lock :
       NoRepeats(sleepqueue[l]) /\ \A t \in Members(sleepqueue[l]) : Asleep(t, "Acquire", l)
  /\ \A c \in Condition : waitqueue[c] = <<>>

CpuOK ==
  /\ cpu = "boot" => g_current_thread = Root /\ status[Root] = "user"
  /\ cpu = "running" => status[g_current_thread] \in {"user", "Join"}
  /\ cpu = "switched" => status[g_current_thread] \in Resumable
  /\ \A t \in Thread : status[t] = "user" => OnCpu(t)
  /\ g_thread_to_be_destroyed # NULL => status[g_thread_to_be_destroyed] = "finished"

AcquireOK ==
  \A t \in Thread : status[t] = "Acquire" =>
    /\ blockedOn[t] \in Lock
    /\ \/ t \in Members(sleepqueue[blockedOn[t]])
       \/ owner[blockedOn[t]] = t /\ ~free[blockedOn[t]]

LockOK ==
  \A l \in Lock :
    /\ free[l] => sleepqueue[l] = <<>>
    /\ ~free[l] => \/ owner[l] \in inside[l]
                   \/ owner[l] \in Thread /\ status[owner[l]] = "Acquire" /\ blockedOn[owner[l]] = l

\* The inductive invariant: see above.
IInv == MutualExclusion /\ (~Stopped => ReadyOK /\ QueuesOK /\ CpuOK /\ AcquireOK /\ LockOK)

-----------------------------------------------------------------------------
(* What the other properties need beyond IInv                              *)

\* The threads that a switch can still reach.
Able == {t \in Thread : OnCpu(t) \/ t \in Members(readyList)}

\* A thread that can go on is reachable, and one that sleeps is reachable or
\* still in the list of its object.
NobodyForgotten ==
  \A t \in Thread :
    /\ status[t] \in {"fresh", "Yield", "Join"} => t \in Able
    /\ status[t] = "P" => /\ blockedOn[t] \in Semaphore
                          /\ t \in Able \/ t \in Members(queue[blockedOn[t]])
    /\ status[t] = "Acquire" => t \in Able \/ t \in Members(sleepqueue[blockedOn[t]])

\* The threads that keep process p.
Staff(p) == {t \in Thread : process[t] = p /\ status[t] # "deleted"}

\* The count of every process, and the fresh objects that count nowhere yet.
StaffOK ==
  /\ \A p \in Proc : /\ IsFiniteSet(Staff(p))
                     /\ numThreads[p] = Cardinality(Staff(p))
                     /\ procState[p] = "live" <=> numThreads[p] > 0
  /\ \A t \in Thread : status[t] = "none" => process[t] = NULL

\* NoLostWakeup, and no sleepers on a semaphore that does not exist yet.
WokenOK ==
  \A s \in Semaphore :
    /\ IsFiniteSet(Woken(s))
    /\ queue[s] # <<>> => typeId[s] # "none" /\ value[s] <= Cardinality(Woken(s))

\* The inductive invariant behind all the safety properties above.
KernelInv == IInv /\ WokenOK /\ (~Stopped => NobodyForgotten /\ StaffOK)

=============================================================================
