---------------------------- MODULE SynchProofs -----------------------------
(***************************************************************************)
(* Theorems about module Synch, for any sets of threads, processes and     *)
(* objects: the types, the inductive invariant, and what it says about     *)
(* locks; then its strengthening, which says that no thread, wake-up or    *)
(* process is lost.                                                        *)
(***************************************************************************)
EXTENDS Synch, FiniteSetTheorems, TLAPS

-----------------------------------------------------------------------------
(* Lists *)

\* List::Remove and List::Append keep a list a list of threads.
LEMMA ListTypes ==
  ASSUME NEW list \in Seq(Thread)
  PROVE  /\ \A t \in Thread : Append(list, t) \in Seq(Thread)
         /\ list # <<>> => Head(list) \in Thread /\ Tail(list) \in Seq(Thread)
         /\ First(list) \in Seq(Thread)
         /\ Rest(list) \in Seq(Thread)
         /\ \A other \in Seq(Thread) : list \o other \in Seq(Thread)
BY DEF First, Rest

-----------------------------------------------------------------------------
(* Types *)

\* The values that the actions assign to status and cpu.
LEMMA Values ==
  /\ "fresh" \in Status /\ "user" \in Status /\ "finished" \in Status /\ "deleted" \in Status
  /\ "Yield" \in Status /\ "P" \in Status /\ "Acquire" \in Status /\ "Wait" \in Status
  /\ "Join" \in Status
  /\ "running" \in CpuState /\ "switched" \in CpuState /\ "idle" \in CpuState
  /\ "halted" \in CpuState /\ "aborted" \in CpuState
BY DEF Status, Suspended, CpuState

\* Adding to one entry of a counter function, present or not, keeps its type.
LEMMA CounterTypes ==
  ASSUME NEW S, NEW f \in [S -> Int], NEW x
  PROVE  /\ [f EXCEPT ![x] = @ + 1] \in [S -> Int]
         /\ [f EXCEPT ![x] = @ - 1] \in [S -> Int]
<1>1. CASE x \in S
  BY <1>1
<1>2. CASE x \notin S
  BY <1>2
<1> QED BY <1>1, <1>2

\* Thread::Yield and Thread::Sleep dispatch a thread of the ready list.
LEMMA DispatchTypes ==
  ASSUME ThreadTypeOK, NEW t \in Thread, GiveWay(t) \/ Sleep
  PROVE  g_current_thread' \in Thread /\ readyList' \in Seq(Thread) /\ cpu' \in CpuState
<1> USE DEF ThreadTypeOK
<1>1. CASE readyList = <<>>
  BY <1>1, Values DEF GiveWay, Sleep
<1>2. CASE readyList # <<>>
  <2>1. /\ g_current_thread' = Head(readyList)
        /\ cpu' = "switched"
        /\ readyList' = Append(Tail(readyList), t) \/ readyList' = Tail(readyList)
    BY <1>2 DEF GiveWay, Sleep, SwitchTo
  <2>2. Head(readyList) \in Thread /\ Tail(readyList) \in Seq(Thread)
    BY <1>2
  <2>3. Append(Tail(readyList), t) \in Seq(Thread)
    BY <2>2
  <2> QED BY <2>1, <2>2, <2>3, Values
<1> QED BY <1>1, <1>2

\* ~Thread keeps the types of what it changes.
LEMMA DestroyTypes ==
  ASSUME ThreadTypeOK, NEW x, Destroy(x)
  PROVE  numThreads' \in [Proc -> Int] /\ procState' \in [Proc -> {"none", "live", "deleted"}]
<1> USE DEF ThreadTypeOK
<1>1. numThreads' \in [Proc -> Int]
  BY CounterTypes DEF Destroy
<1>2. procState' \in [Proc -> {"none", "live", "deleted"}]
  BY DEF Destroy
<1> QED BY <1>1, <1>2

\* Thread::Start keeps the types of what it changes.
LEMMA StartTypes ==
  ASSUME ThreadTypeOK, NEW u \in Thread, NEW p \in Proc \cup {NULL}, StartIn(u, p)
  PROVE  process' \in [Thread -> Proc \cup {NULL}] /\ numThreads' \in [Proc -> Int]
BY CounterTypes DEF ThreadTypeOK, StartIn

\* The tail of SwitchTo keeps the types of what it changes.
LEMMA ResumedTypes ==
  ASSUME ThreadTypeOK, NEW t \in Thread, NEW to \in Status, Resumed(t, to),
         blockedOn' \in [Thread -> Object \cup Thread \cup {NULL}]
  PROVE  ThreadTypeOK'
<1> USE DEF ThreadTypeOK
<1>1. status' \in [Thread -> Status]
  BY Values DEF Resumed
<1>2. numThreads' \in [Proc -> Int] /\ procState' \in [Proc -> {"none", "live", "deleted"}]
  BY DestroyTypes DEF Resumed
<1> QED BY <1>1, <1>2, Values DEF Resumed

\* Every thread operation keeps the types of the thread variables.
LEMMA ThreadStepTypes ==
  ASSUME ThreadTypeOK, NEW t \in Thread, ThreadStep(t)
  PROVE  ThreadTypeOK'
<1> USE Values DEF ThreadTypeOK
<1>1. ASSUME NEW u \in Thread, NewThread(t, u) PROVE ThreadTypeOK'
  <2>1. process' \in [Thread -> Proc \cup {NULL}] /\ numThreads' \in [Proc -> Int]
    BY <1>1, StartTypes DEF NewThread
  <2>2. readyList' \in Seq(Thread)
    BY <1>1 DEF NewThread
  <2>3. status' \in [Thread -> Status]
    BY <1>1 DEF NewThread
  <2> QED BY <1>1, <2>1, <2>2, <2>3 DEF NewThread
<1>2. ASSUME NEW u \in Thread, Join(t, u) PROVE ThreadTypeOK'
  BY <1>2, DispatchTypes DEF Join
<1>3. ASSUME NEW u \in Thread, NEW p \in Proc, Exec(t, u, p) PROVE ThreadTypeOK'
  <2>1. process' \in [Thread -> Proc \cup {NULL}] /\ numThreads' \in [Proc -> Int]
    BY <1>3, StartTypes DEF Exec
  <2>2. readyList' \in Seq(Thread)
    BY <1>3 DEF Exec
  <2>3. status' \in [Thread -> Status]
    BY <1>3 DEF Exec
  <2> QED BY <1>3, <2>1, <2>2, <2>3 DEF Exec
<1>4. CASE Yield(t)
  BY <1>4, DispatchTypes DEF Yield
<1>5. CASE Finish(t)
  BY <1>5, DispatchTypes DEF Finish
<1>6. CASE HaltCall(t)
  BY <1>6, DestroyTypes DEF HaltCall, Halt
<1>7. CASE JoinLoop(t)
  BY <1>7, DispatchTypes DEF JoinLoop
<1>8. CASE StartThreadExecution(t)
  BY <1>8 DEF StartThreadExecution
<1>9. CASE ResumeYield(t)
  BY <1>9, ResumedTypes DEF ResumeYield
<1> QED BY <1>1, <1>2, <1>3, <1>4, <1>5, <1>6, <1>7, <1>8, <1>9 DEF ThreadStep

\* Going to sleep, waking others and returning from a primitive keep types.
LEMMA PrimitiveTypes ==
  ASSUME ThreadTypeOK
  PROVE  /\ \A t \in Thread, op \in Status, o \in Object : Block(t, op, o) => ThreadTypeOK'
         /\ \A list \in Seq(Thread) : Wake(list) => ThreadTypeOK'
         /\ \A t \in Thread, op \in Status : Return(t, op) => ThreadTypeOK'
         /\ Abort => ThreadTypeOK'
         /\ UNCHANGED threadVars => ThreadTypeOK'
<1> USE Values DEF ThreadTypeOK
<1>1. ASSUME NEW t \in Thread, NEW op \in Status, NEW o \in Object, Block(t, op, o)
      PROVE  ThreadTypeOK'
  <2>1. g_current_thread' \in Thread /\ readyList' \in Seq(Thread) /\ cpu' \in CpuState
    BY <1>1, DispatchTypes DEF Block
  <2> QED BY <1>1, <2>1 DEF Block
<1>2. ASSUME NEW list \in Seq(Thread), Wake(list) PROVE ThreadTypeOK'
  <2>1. readyList' \in Seq(Thread)
    BY <1>2 DEF Wake
  <2> QED BY <1>2, <2>1 DEF Wake
<1>3. ASSUME NEW t \in Thread, NEW op \in Status, Return(t, op) PROVE ThreadTypeOK'
  <2>1. blockedOn' \in [Thread -> Object \cup Thread \cup {NULL}]
    BY <1>3 DEF Return
  <2> QED BY <1>3, <2>1, ResumedTypes DEF Return
<1>4. ASSUME Abort PROVE ThreadTypeOK'
  BY <1>4 DEF Abort
<1>5. ASSUME UNCHANGED threadVars PROVE ThreadTypeOK'
  BY <1>5 DEF threadVars
<1> QED BY <1>1, <1>2, <1>3, <1>4, <1>5

\* Every operation on a semaphore, lock or condition keeps all types.
LEMMA SynchStepTypes ==
  ASSUME TypeOK, NEW t \in Thread, SynchStep(t)
  PROVE  TypeOK'
<1> USE Values DEF TypeOK, SynchTypeOK, semVars, lockVars, synchVars
<1>1. ASSUME NEW s \in Semaphore, P(t, s) PROVE TypeOK'
  <2>1. ThreadTypeOK'
    BY <1>1, PrimitiveTypes DEF P, Object
  <2>2. value' \in [Semaphore -> Int]
    BY <1>1 DEF P
  <2>3. Append(queue[s], t) \in Seq(Thread)
    OBVIOUS
  <2>4. queue' \in [Semaphore -> Seq(Thread)]
    BY <1>1, <2>3 DEF P
  <2> QED BY <1>1, <2>1, <2>2, <2>4 DEF P
<1>2. ASSUME NEW s \in Semaphore, V(t, s) PROVE TypeOK'
  <2>1. First(queue[s]) \in Seq(Thread) /\ Rest(queue[s]) \in Seq(Thread)
    BY ListTypes
  <2>2. ThreadTypeOK'
    BY <1>2, <2>1, PrimitiveTypes DEF V, SemV
  <2>3. queue' \in [Semaphore -> Seq(Thread)] /\ value' \in [Semaphore -> Int]
    BY <1>2, <2>1 DEF V, SemV
  <2> QED BY <1>2, <2>2, <2>3 DEF V, SemV
<1>3. ASSUME NEW s \in Semaphore, SemDestroy(t, s) PROVE TypeOK'
  BY <1>3, PrimitiveTypes DEF SemDestroy
<1>4. ASSUME NEW s \in Semaphore, NEW v \in InitialValue, SemCreate(t, s, v) PROVE TypeOK'
  BY <1>4, PrimitiveTypes, SynchAssumption DEF SemCreate
<1>5. ASSUME NEW l \in Lock, Acquire(t, l) PROVE TypeOK'
  <2>1. ThreadTypeOK'
    BY <1>5, PrimitiveTypes DEF Acquire, Object
  <2>2. Append(sleepqueue[l], t) \in Seq(Thread)
    OBVIOUS
  <2>3. sleepqueue' \in [Lock -> Seq(Thread)]
    BY <1>5, <2>2 DEF Acquire
  <2>4. owner' \in [Lock -> Thread \cup {NULL}]
    BY <1>5 DEF Acquire
  <2>5. free' \in [Lock -> BOOLEAN]
    BY <1>5 DEF Acquire
  <2>6. inside[l] \cup {t} \in SUBSET Thread
    OBVIOUS
  <2>7. inside' \in [Lock -> SUBSET Thread]
    BY <1>5, <2>6 DEF Acquire
  <2> QED BY <1>5, <2>1, <2>3, <2>4, <2>5, <2>7 DEF Acquire
<1>6. ASSUME NEW l \in Lock, Release(t, l) PROVE TypeOK'
  <2>1. First(sleepqueue[l]) \in Seq(Thread) /\ Rest(sleepqueue[l]) \in Seq(Thread)
    BY ListTypes
  <2>2. ThreadTypeOK'
    BY <1>6, <2>1, PrimitiveTypes DEF Release
  <2>3. sleepqueue' \in [Lock -> Seq(Thread)]
    BY <1>6, <2>1 DEF Release
  <2>4. sleepqueue[l] # <<>> => Head(sleepqueue[l]) \in Thread
    OBVIOUS
  <2>5. owner' \in [Lock -> Thread \cup {NULL}]
    BY <1>6, <2>4 DEF Release
  <2>6. free' \in [Lock -> BOOLEAN]
    BY <1>6 DEF Release
  <2>7. inside[l] \ {t} \in SUBSET Thread
    OBVIOUS
  <2>8. inside' \in [Lock -> SUBSET Thread]
    BY <1>6, <2>7 DEF Release
  <2> QED BY <1>6, <2>2, <2>3, <2>5, <2>6, <2>8 DEF Release
<1>7. ASSUME NEW l \in Lock, LockCreate(t, l) \/ LockDestroy(t, l) PROVE TypeOK'
  BY <1>7, PrimitiveTypes DEF LockCreate, LockDestroy
<1>8. ASSUME NEW c \in Condition, Wait(t, c) PROVE TypeOK'
  BY <1>8, PrimitiveTypes DEF Wait, Object
<1>9. ASSUME NEW c \in Condition, Signal(t, c) PROVE TypeOK'
  <2>1. First(waitqueue[c]) \in Seq(Thread) /\ Rest(waitqueue[c]) \in Seq(Thread)
    BY ListTypes
  <2>2. ThreadTypeOK'
    BY <1>9, <2>1, PrimitiveTypes DEF Signal
  <2> QED BY <1>9, <2>1, <2>2 DEF Signal
<1>10. ASSUME NEW c \in Condition, Broadcast(t, c) PROVE TypeOK'
  BY <1>10, PrimitiveTypes DEF Broadcast
<1>11. ASSUME NEW c \in Condition, CondCreate(t, c) \/ CondDestroy(t, c) PROVE TypeOK'
  BY <1>11, PrimitiveTypes DEF CondCreate, CondDestroy
<1>12. CASE ReturnP(t)
  <2>1. ThreadTypeOK'
    BY <1>12, PrimitiveTypes DEF ReturnP
  <2>2. value' \in [Semaphore -> Int]
    BY <1>12, CounterTypes DEF ReturnP
  <2> QED BY <1>12, <2>1, <2>2 DEF ReturnP
<1>13. CASE ReturnAcquire(t)
  <2>1. ThreadTypeOK'
    BY <1>13, PrimitiveTypes DEF ReturnAcquire
  <2> QED BY <1>13, <2>1 DEF ReturnAcquire
<1> QED BY <1>1, <1>2, <1>3, <1>4, <1>5, <1>6, <1>7, <1>8, <1>9, <1>10, <1>11, <1>12, <1>13
        DEF SynchStep

\* Booting and stopping keep types.
LEMMA MachineStepTypes ==
  ASSUME ThreadTypeOK, MachineStep
  PROVE  ThreadTypeOK'
<1> USE Values, ThreadAssumption DEF ThreadTypeOK
<1>1. ASSUME NEW u \in Thread, NEW p \in Proc, Main(u, p) PROVE ThreadTypeOK'
  <2>1. process' \in [Thread -> Proc \cup {NULL}] /\ numThreads' \in [Proc -> Int]
    BY <1>1, StartTypes DEF Main
  <2>2. status' \in [Thread -> Status]
    BY <1>1 DEF Main
  <2> QED BY <1>1, <2>1, <2>2 DEF Main, SwitchTo
<1>2. CASE MainNoProgram
  BY <1>2, DispatchTypes DEF MainNoProgram
<1>3. CASE IdleHalt
  BY <1>3, DestroyTypes DEF IdleHalt, Halt
<1> QED BY <1>1, <1>2, <1>3 DEF MachineStep

\* Every step of the kernel keeps types.
LEMMA StepTypes ==
  ASSUME TypeOK, [Next]_vars
  PROVE  TypeOK'
<1>1. ASSUME NEW t \in Thread, ThreadStep(t) PROVE TypeOK'
  BY <1>1, ThreadStepTypes DEF TypeOK, SynchTypeOK, ThreadStep, synchVars, semVars, lockVars
<1>2. ASSUME NEW t \in Thread, SynchStep(t) PROVE TypeOK'
  BY <1>2, SynchStepTypes
<1>3. CASE MachineStep
  BY <1>3, MachineStepTypes DEF TypeOK, SynchTypeOK, MachineStep, synchVars, semVars, lockVars
<1>4. CASE UNCHANGED vars
  BY <1>4 DEF TypeOK, ThreadTypeOK, SynchTypeOK, vars, threadVars, synchVars, semVars, lockVars
<1> QED BY <1>1, <1>2, <1>3, <1>4 DEF Next

\* Every variable of Synch keeps its type: in particular readyList and the
\* queues hold threads only, and List::Remove is never applied to an empty
\* list in a way that lets a null pointer into one of them.
THEOREM TypeCorrect == Spec => []TypeOK
<1>1. Init => TypeOK
  BY ThreadAssumption, Values DEF Init, ThreadsInit, TypeOK, ThreadTypeOK, SynchTypeOK,
     Status, CpuState
<1>2. TypeOK /\ [Next]_vars => TypeOK'
  BY StepTypes
<1> QED BY <1>1, <1>2, PTL DEF Spec

-----------------------------------------------------------------------------
(* What the list operations do to the members of a list *)

\* The empty list has no members.
LEMMA EmptyList == Members(<<>>) = {} /\ NoRepeats(<<>>)
BY DEF Members, NoRepeats

\* A list of threads has threads for members.
LEMMA ListMembers ==
  ASSUME NEW list \in Seq(Thread)
  PROVE  Members(list) \subseteq Thread /\ (list # <<>> => Members(list) # {})
BY DEF Members

\* List::Append of an item that is not in the list.
LEMMA ListAppend ==
  ASSUME NEW list \in Seq(Thread), NEW t \in Thread
  PROVE  /\ Members(Append(list, t)) = Members(list) \cup {t}
         /\ NoRepeats(list) /\ t \notin Members(list) => NoRepeats(Append(list, t))
         /\ list \o <<t>> = Append(list, t)
         /\ list \o <<>> = list
<1>1. Members(Append(list, t)) = Members(list) \cup {t}
  <2>1. /\ Len(Append(list, t)) = Len(list) + 1 /\ Len(list) \in Nat
        /\ Append(list, t)[Len(list) + 1] = t
        /\ \A i \in 1..Len(list) : Append(list, t)[i] = list[i]
    OBVIOUS
  <2>2. ASSUME NEW x \in Members(Append(list, t)) PROVE x \in Members(list) \cup {t}
    <3>1. PICK i \in 1..(Len(list) + 1) : x = Append(list, t)[i]
      BY <2>1 DEF Members
    <3>2. i \in 1..Len(list) \/ i = Len(list) + 1
      BY <2>1
    <3> QED BY <2>1, <3>1, <3>2 DEF Members
  <2>3. ASSUME NEW x \in Members(list) PROVE x \in Members(Append(list, t))
    <3>1. PICK i \in 1..Len(list) : x = list[i]
      BY DEF Members
    <3>2. i \in 1..Len(Append(list, t)) /\ x = Append(list, t)[i]
      BY <2>1, <3>1
    <3> QED BY <3>2 DEF Members
  <2>4. t \in Members(Append(list, t))
    <3>1. Len(list) + 1 \in 1..Len(Append(list, t))
      BY <2>1
    <3> QED BY <2>1, <3>1 DEF Members
  <2> QED BY <2>2, <2>3, <2>4
<1>2. NoRepeats(list) /\ t \notin Members(list) => NoRepeats(Append(list, t))
  BY DEF Members, NoRepeats
<1>3. list \o <<t>> = Append(list, t)
  OBVIOUS
<1>4. list \o <<>> = list
  OBVIOUS
<1> QED BY <1>1, <1>2, <1>3, <1>4

\* List::Remove of the first item.
LEMMA ListRemove ==
  ASSUME NEW list \in Seq(Thread), list # <<>>
  PROVE  /\ Members(list) = Members(Tail(list)) \cup {Head(list)}
         /\ NoRepeats(list) => NoRepeats(Tail(list)) /\ Head(list) \notin Members(Tail(list))
<1>1. Members(list) = Members(Tail(list)) \cup {Head(list)}
  <2>1. \A i \in 1..Len(Tail(list)) : Tail(list)[i] = list[i + 1] /\ i + 1 \in 1..Len(list)
    OBVIOUS
  <2>2. \A i \in 1..Len(list) : i = 1 \/ (i - 1 \in 1..Len(Tail(list)) /\ Tail(list)[i - 1] = list[i])
    OBVIOUS
  <2>3. Head(list) = list[1] /\ 1 \in 1..Len(list)
    OBVIOUS
  <2>4. ASSUME NEW x \in Members(list) PROVE x \in Members(Tail(list)) \cup {Head(list)}
    <3>1. PICK i \in 1..Len(list) : x = list[i]
      BY DEF Members
    <3> QED BY <2>2, <2>3, <3>1 DEF Members
  <2>5. ASSUME NEW x \in Members(Tail(list)) PROVE x \in Members(list)
    <3>1. PICK i \in 1..Len(Tail(list)) : x = Tail(list)[i]
      BY DEF Members
    <3> QED BY <2>1, <3>1 DEF Members
  <2>6. Head(list) \in Members(list)
    BY <2>3 DEF Members
  <2> QED BY <2>4, <2>5, <2>6
<1>2. ASSUME NoRepeats(list) PROVE NoRepeats(Tail(list)) /\ Head(list) \notin Members(Tail(list))
  <2>1. \A i \in 1..Len(Tail(list)) : Tail(list)[i] = list[i + 1] /\ i + 1 \in 1..Len(list)
    OBVIOUS
  <2>2. Head(list) = list[1] /\ 1 \in 1..Len(list)
    OBVIOUS
  <2>3. NoRepeats(Tail(list))
    BY <1>2, <2>1 DEF NoRepeats
  <2>4. Head(list) \notin Members(Tail(list))
    BY <1>2, <2>1, <2>2 DEF NoRepeats, Members
  <2> QED BY <2>3, <2>4
<1> QED BY <1>1, <1>2

-----------------------------------------------------------------------------
(* What the invariant needs from a step *)

\* Threads asleep in P or Acquire stay so.
SleepersStay ==
  \A u \in Thread, op \in {"P", "Acquire"}, o \in Object :
    Asleep(u, op, o) => Asleep(u, op, o)'

\* No thread enters or leaves Acquire.
AcquirersStay ==
  \A u \in Thread :
    /\ status[u] = "Acquire" <=> status'[u] = "Acquire"
    /\ status[u] = "Acquire" => blockedOn'[u] = blockedOn[u]

\* A step that touches no list of an object and wakes nobody keeps QueuesOK.
LEMMA QueuesFrame ==
  ASSUME TypeOK, QueuesOK, SleepersStay, UNCHANGED <<queue, sleepqueue, waitqueue>>
  PROVE  QueuesOK'
<1>1. ASSUME NEW s \in Semaphore
      PROVE  NoRepeats(queue[s]) /\ \A t \in Members(queue[s]) : Asleep(t, "P", s)'
  <2>1. Members(queue[s]) \subseteq Thread
    BY ListMembers DEF TypeOK, SynchTypeOK
  <2> QED BY <2>1 DEF QueuesOK, SleepersStay, Object
<1>2. ASSUME NEW l \in Lock
      PROVE  NoRepeats(sleepqueue[l]) /\ \A t \in Members(sleepqueue[l]) : Asleep(t, "Acquire", l)'
  <2>1. Members(sleepqueue[l]) \subseteq Thread
    BY ListMembers DEF TypeOK, SynchTypeOK
  <2> QED BY <2>1 DEF QueuesOK, SleepersStay, Object
<1> QED BY <1>1, <1>2 DEF QueuesOK

\* A step that touches no lock and no thread in Acquire keeps the lock parts.
LEMMA LockFrame ==
  ASSUME TypeOK, AcquireOK, LockOK, AcquirersStay, UNCHANGED <<free, owner, sleepqueue, inside>>
  PROVE  AcquireOK' /\ LockOK'
<1>1. AcquireOK'
  BY DEF AcquireOK, AcquirersStay
<1>2. LockOK'
  BY DEF LockOK, AcquirersStay
<1> QED BY <1>1, <1>2

-----------------------------------------------------------------------------
(* The current thread leaves the CPU *)

\* What Sleep, and a Yield that finds a ready thread, do to the ready list.
LEMMA Dispatch ==
  ASSUME TypeOK, ReadyOK, NEW t \in Thread, OnCpu(t),
         Sleep \/ (readyList # <<>> /\ GiveWay(t))
  PROVE  /\ NoRepeats(readyList')
         /\ Members(readyList') \subseteq Members(readyList) \cup {t}
         /\ Sleep => t \notin Members(readyList')
         /\ cpu' \in {"switched", "idle"}
         /\ cpu' = "switched" => /\ g_current_thread' \in Members(readyList)
                                 /\ g_current_thread' \notin Members(readyList')
         /\ cpu' = "idle" => readyList' = <<>>
         /\ t \notin Members(readyList)
<1>1. t \notin Members(readyList)
  BY DEF ReadyOK
<1>2. CASE readyList = <<>>
  <2>1. readyList' = readyList /\ cpu' = "idle"
    BY <1>2 DEF Sleep
  <2> QED BY <1>1, <1>2, <2>1, EmptyList
<1>3. CASE readyList # <<>>
  <2>1. readyList \in Seq(Thread) /\ Tail(readyList) \in Seq(Thread)
    BY <1>3 DEF TypeOK, ThreadTypeOK
  <2>2. /\ Members(readyList) = Members(Tail(readyList)) \cup {Head(readyList)}
        /\ NoRepeats(Tail(readyList))
        /\ Head(readyList) \notin Members(Tail(readyList))
    BY <1>3, <2>1, ListRemove DEF ReadyOK
  <2>3. /\ Members(Append(Tail(readyList), t)) = Members(Tail(readyList)) \cup {t}
        /\ NoRepeats(Append(Tail(readyList), t))
    BY <1>1, <2>1, <2>2, ListAppend
  <2>4. g_current_thread' = Head(readyList) /\ cpu' = "switched"
    BY <1>3 DEF Sleep, GiveWay, SwitchTo
  <2>5. CASE Sleep
    <3>1. readyList' = Tail(readyList)
      BY <1>3, <2>5 DEF Sleep
    <3> QED BY <1>1, <2>2, <2>4, <3>1
  <2>6. CASE GiveWay(t) /\ ~Sleep
    <3>1. readyList' = Append(Tail(readyList), t)
      BY <1>3, <2>6 DEF GiveWay
    <3> QED BY <1>1, <2>2, <2>3, <2>4, <2>6, <3>1
  <2> QED BY <2>5, <2>6
<1> QED BY <1>2, <1>3

\* The current thread t stops executing and is left at status "to".
LEMMA LeaveCpu ==
  ASSUME TypeOK, TypeOK', ReadyOK, CpuOK, NEW t \in Thread, OnCpu(t),
         status[t] \in {"user", "Join"},
         NEW to \in Status \ {"user"}, status' = [status EXCEPT ![t] = to],
         Sleep \/ (readyList # <<>> /\ GiveWay(t)),
         ~Sleep => to \in {"Yield", "Join"},
         \A u \in Thread : u # t => blockedOn'[u] = blockedOn[u],
         g_thread_to_be_destroyed' # g_thread_to_be_destroyed =>
           g_thread_to_be_destroyed' = t /\ to = "finished"
  PROVE  /\ ReadyOK' /\ CpuOK' /\ SleepersStay
         /\ Sleep => t \notin Members(readyList') /\ ~OnCpu(t)'
<1>1. /\ NoRepeats(readyList')
      /\ Members(readyList') \subseteq Members(readyList) \cup {t}
      /\ Sleep => t \notin Members(readyList')
      /\ cpu' \in {"switched", "idle"}
      /\ cpu' = "switched" => /\ g_current_thread' \in Members(readyList)
                              /\ g_current_thread' \notin Members(readyList')
      /\ cpu' = "idle" => readyList' = <<>>
      /\ t \notin Members(readyList)
  BY Dispatch
<1>2. /\ Members(readyList) \subseteq Thread /\ Members(readyList') \subseteq Thread
      /\ cpu' = "idle" => Members(readyList') = {}
      /\ status \in [Thread -> Status]
  BY <1>1, ListMembers, EmptyList DEF TypeOK, ThreadTypeOK
<1>3. \A u \in Thread : u # t => status'[u] = status[u]
  BY <1>2
<1>4. status'[t] = to
  BY <1>2
<1>5. \A u \in Thread : OnCpu(u)' => u \in Members(readyList) /\ u \notin Members(readyList')
  BY <1>1 DEF OnCpu
<1>6. ReadyOK'
  <2>1. ASSUME NEW u \in Members(readyList') PROVE status'[u] \in Resumable /\ ~OnCpu(u)'
    BY <1>1, <1>2, <1>3, <1>4, <1>5, <2>1 DEF ReadyOK, Resumable
  <2> QED BY <1>1, <2>1 DEF ReadyOK
<1>7. CpuOK'
  <2>1. cpu' = "switched" => status'[g_current_thread'] \in Resumable
    BY <1>1, <1>2, <1>3 DEF ReadyOK
  <2>2. \A u \in Thread : status'[u] # "user"
    BY <1>3, <1>4 DEF CpuOK, OnCpu
  <2>3. g_thread_to_be_destroyed' # NULL => status'[g_thread_to_be_destroyed'] = "finished"
    <3>1. g_thread_to_be_destroyed # NULL => g_thread_to_be_destroyed \in Thread
      BY DEF TypeOK, ThreadTypeOK
    <3> QED BY <1>3, <1>4, <3>1 DEF CpuOK
  <2> QED BY <1>1, <2>1, <2>2, <2>3 DEF CpuOK
<1>8. SleepersStay
  <2> SUFFICES ASSUME NEW u \in Thread, NEW op \in {"P", "Acquire"}, NEW o \in Object,
                      Asleep(u, op, o)
               PROVE  Asleep(u, op, o)'
    BY DEF SleepersStay
  <2>1. u # t
    BY DEF Asleep
  <2> QED BY <1>1, <1>3, <1>5, <2>1 DEF Asleep
<1>9. Sleep => t \notin Members(readyList') /\ ~OnCpu(t)'
  BY <1>1, <1>5
<1> QED BY <1>6, <1>7, <1>8, <1>9

\* A thread that a switch installed goes on, at status "to".
LEMMA GoOn ==
  ASSUME TypeOK, TypeOK', ReadyOK, CpuOK, NEW t \in Thread, cpu = "switched", cpu' = "running",
         g_current_thread = t, NEW to \in {"user", "Join"},
         UNCHANGED <<g_current_thread, readyList>>,
         \A u \in Thread : u # t => blockedOn'[u] = blockedOn[u],
         \A u \in Thread : u # t => status'[u] = status[u] \/ (status[u] = "finished" /\ status'[u] = "deleted"),
         status'[t] = to,
         \/ UNCHANGED g_thread_to_be_destroyed /\ \A u \in Thread : u # t => status'[u] = status[u]
         \/ g_thread_to_be_destroyed' = NULL
  PROVE  ReadyOK' /\ CpuOK' /\ SleepersStay
<1>1. \A u \in Thread : OnCpu(u) <=> OnCpu(u)'
  BY DEF OnCpu
<1>2. Members(readyList) \subseteq Thread
  BY ListMembers DEF TypeOK, ThreadTypeOK
<1>3. ReadyOK'
  <2>1. ASSUME NEW u \in Members(readyList) PROVE status'[u] \in Resumable /\ ~OnCpu(u)'
    <3>1. u \in Thread /\ u # t /\ status[u] \in Resumable /\ ~OnCpu(u)
      BY <1>2 DEF ReadyOK, OnCpu
    <3> QED BY <1>1, <3>1 DEF Resumable
  <2> QED BY <2>1 DEF ReadyOK
<1>4. CpuOK'
  <2>1. \A u \in Thread : status'[u] = "user" => OnCpu(u)'
    BY <1>1 DEF CpuOK, OnCpu
  <2>2. status[t] \in Resumable
    BY DEF CpuOK
  <2>3. g_thread_to_be_destroyed' # NULL => status'[g_thread_to_be_destroyed'] = "finished"
    <3>1. g_thread_to_be_destroyed # NULL => g_thread_to_be_destroyed \in Thread
      BY DEF TypeOK, ThreadTypeOK
    <3> QED BY <2>2, <3>1 DEF CpuOK, Resumable
  <2> QED BY <2>1, <2>3 DEF CpuOK
<1>5. SleepersStay
  <2> SUFFICES ASSUME NEW u \in Thread, NEW op \in {"P", "Acquire"}, NEW o \in Object,
                      Asleep(u, op, o)
               PROVE  Asleep(u, op, o)'
    BY DEF SleepersStay
  <2>1. u # t
    BY DEF Asleep, OnCpu
  <2> QED BY <1>1, <2>1 DEF Asleep
<1> QED BY <1>3, <1>4, <1>5

-----------------------------------------------------------------------------
(* One lemma per group of actions *)

\* The invariant without its case for a stopped machine.
Live == ReadyOK /\ QueuesOK /\ CpuOK /\ AcquireOK /\ LockOK

\* No step but stuttering is possible once the machine has stopped.
LEMMA StepsNeedTheCpu ==
  ASSUME NEW t \in Thread, ThreadStep(t) \/ SynchStep(t) \/ MachineStep
  PROVE  ~Stopped
<1>1. CASE ThreadStep(t)
  BY <1>1 DEF ThreadStep, NewThread, Join, Exec, Yield, Finish, HaltCall, JoinLoop,
     StartThreadExecution, ResumeYield, Resumed, Running, Stopped
<1>2. CASE SynchStep(t)
  BY <1>2 DEF SynchStep, P, V, SemDestroy, SemCreate, Acquire, Release, LockCreate, LockDestroy,
     Wait, Signal, Broadcast, CondCreate, CondDestroy, ReturnP, ReturnAcquire, Return, Resumed,
     Running, Stopped
<1>3. CASE MachineStep
  BY <1>3 DEF MachineStep, Main, MainNoProgram, IdleHalt, Stopped
<1> QED BY <1>1, <1>2, <1>3

\* The invariant does not mention typeId and value.
LEMMA Unmentioned ==
  ASSUME Live, UNCHANGED threadVars, UNCHANGED <<queue, lockVars, waitqueue>>
  PROVE  Live'
BY DEF Live, ReadyOK, QueuesOK, CpuOK, AcquireOK, LockOK, Asleep, OnCpu, threadVars, lockVars

\* A new thread u goes to the ready list (NewThread, Exec).
LEMMA StartKeeps ==
  ASSUME TypeOK, TypeOK', Live, NEW t \in Thread, Running(t), NEW u \in Thread,
         status[u] = "none", status' = [status EXCEPT ![u] = "fresh"],
         readyList' = Append(readyList, u), UNCHANGED synchVars,
         UNCHANGED <<g_current_thread, g_thread_to_be_destroyed, blockedOn, cpu>>
  PROVE  Live'
<1> USE DEF Live
<1>1. status \in [Thread -> Status] /\ readyList \in Seq(Thread)
  BY DEF TypeOK, ThreadTypeOK
<1>2. u \notin Members(readyList) /\ u # g_current_thread
  BY DEF ReadyOK, Resumable, Running
<1>3. Members(readyList') = Members(readyList) \cup {u} /\ NoRepeats(readyList')
  BY <1>1, <1>2, ListAppend DEF ReadyOK
<1>4. \A x \in Thread : OnCpu(x) <=> OnCpu(x)'
  BY DEF OnCpu
<1>5. status'[u] = "fresh" /\ \A x \in Thread : x # u => status'[x] = status[x]
  BY <1>1
<1>6. Members(readyList) \subseteq Thread
  BY <1>1, ListMembers
<1>7. ReadyOK'
  <2>1. ASSUME NEW x \in Members(readyList') PROVE status'[x] \in Resumable /\ ~OnCpu(x)'
    BY <1>2, <1>3, <1>4, <1>5, <1>6 DEF ReadyOK, Resumable, OnCpu
  <2> QED BY <1>3, <2>1 DEF ReadyOK
<1>8. CpuOK'
  <2>1. status'[g_current_thread] = status[g_current_thread]
    BY <1>2, <1>5 DEF TypeOK, ThreadTypeOK
  <2>2. g_thread_to_be_destroyed' # NULL => status'[g_thread_to_be_destroyed'] = "finished"
    <3>1. g_thread_to_be_destroyed # NULL => g_thread_to_be_destroyed \in Thread
      BY DEF TypeOK, ThreadTypeOK
    <3> QED BY <1>5, <3>1 DEF CpuOK
  <2>3. \A x \in Thread : status'[x] = "user" => OnCpu(x)'
    BY <1>4, <1>5 DEF CpuOK
  <2>4. cpu' = "running"
    BY DEF Running
  <2>5. status[g_current_thread] = "user"
    BY DEF Running
  <2> QED BY <2>1, <2>2, <2>3, <2>4, <2>5 DEF CpuOK
<1>9. SleepersStay
  BY <1>3, <1>4, <1>5 DEF SleepersStay, Asleep
<1>10. AcquirersStay
  BY <1>5 DEF AcquirersStay
<1>11. QueuesOK' /\ AcquireOK' /\ LockOK'
  BY <1>9, <1>10, QueuesFrame, LockFrame DEF synchVars, semVars, lockVars
<1> QED BY <1>7, <1>8, <1>11

\* The current thread gives the CPU away outside P and Acquire.
LEMMA GiveAwayKeeps ==
  ASSUME TypeOK, TypeOK', Live, NEW t \in Thread, OnCpu(t), status[t] \in {"user", "Join"},
         NEW to \in {"Yield", "Join", "Wait", "finished"}, status' = [status EXCEPT ![t] = to],
         Sleep \/ (readyList # <<>> /\ GiveWay(t)),
         ~Sleep => to \in {"Yield", "Join"},
         \A u \in Thread : u # t => blockedOn'[u] = blockedOn[u],
         g_thread_to_be_destroyed' # g_thread_to_be_destroyed =>
           g_thread_to_be_destroyed' = t /\ to = "finished",
         UNCHANGED synchVars
  PROVE  Live'
<1>1. to \in Status \ {"user"}
  BY DEF Status, Suspended
<1>2. ReadyOK' /\ CpuOK' /\ SleepersStay
  BY <1>1, LeaveCpu DEF Live
<1>3. AcquirersStay
  BY DEF AcquirersStay, TypeOK, ThreadTypeOK
<1> QED BY <1>2, <1>3, QueuesFrame, LockFrame DEF Live, synchVars, semVars, lockVars

\* The tail of SwitchTo does what GoOn asks for.
LEMMA ResumedGoesOn ==
  ASSUME TypeOK, TypeOK', Live, NEW t \in Thread, NEW to \in {"user", "Join"}, Resumed(t, to),
         \A u \in Thread : u # t => blockedOn'[u] = blockedOn[u]
  PROVE  /\ ReadyOK' /\ CpuOK' /\ SleepersStay
         /\ status'[t] = to
         /\ \A u \in Thread : u # t =>
              status'[u] = status[u] \/ (status[u] = "finished" /\ status'[u] = "deleted")
<1> USE DEF Live
<1>1. status \in [Thread -> Status] /\ g_thread_to_be_destroyed \in Thread \cup {NULL}
  BY DEF TypeOK, ThreadTypeOK
<1>2. g_thread_to_be_destroyed # NULL => status[g_thread_to_be_destroyed] = "finished"
  BY DEF CpuOK
<1>3. status'[t] = to
  BY <1>1 DEF Resumed
<1>4. \A u \in Thread : u # t =>
        status'[u] = status[u] \/ (status[u] = "finished" /\ status'[u] = "deleted")
  BY <1>1, <1>2 DEF Resumed
<1>5. /\ cpu = "switched" /\ cpu' = "running" /\ g_current_thread = t
      /\ g_thread_to_be_destroyed' = NULL /\ UNCHANGED <<g_current_thread, readyList>>
  BY DEF Resumed
<1> QED BY <1>3, <1>4, <1>5, GoOn

\* The current thread enters or leaves the loop of Join and keeps the CPU.
LEMMA StayKeeps ==
  ASSUME TypeOK, TypeOK', Live, NEW t \in Thread, cpu = "running", g_current_thread = t,
         NEW to \in {"user", "Join"}, status' = [status EXCEPT ![t] = to],
         \A u \in Thread : u # t => blockedOn'[u] = blockedOn[u],
         UNCHANGED <<g_current_thread, readyList, g_thread_to_be_destroyed, cpu>>,
         UNCHANGED synchVars
  PROVE  Live'
<1> USE DEF Live
<1>1. /\ status \in [Thread -> Status] /\ Members(readyList) \subseteq Thread
      /\ g_thread_to_be_destroyed \in Thread \cup {NULL}
  BY ListMembers DEF TypeOK, ThreadTypeOK
<1>2. status'[t] = to /\ \A u \in Thread : u # t => status'[u] = status[u]
  BY <1>1
<1>3. \A u \in Thread : OnCpu(u) <=> OnCpu(u)'
  BY DEF OnCpu
<1>4. status[t] \in {"user", "Join"} /\ OnCpu(t)
  BY DEF CpuOK, OnCpu
<1>5. ReadyOK'
  <2>1. ASSUME NEW u \in Members(readyList) PROVE status'[u] \in Resumable /\ ~OnCpu(u)'
    BY <1>1, <1>2, <1>3, <1>4 DEF ReadyOK
  <2> QED BY <2>1 DEF ReadyOK
<1>6. CpuOK'
  <2>1. \A u \in Thread : status'[u] = "user" => OnCpu(u)'
    BY <1>2, <1>3, <1>4 DEF CpuOK
  <2>2. g_thread_to_be_destroyed' # NULL => status'[g_thread_to_be_destroyed'] = "finished"
    BY <1>1, <1>2, <1>4 DEF CpuOK
  <2> QED BY <1>2, <2>1, <2>2 DEF CpuOK
<1>7. SleepersStay
  <2> SUFFICES ASSUME NEW u \in Thread, NEW op \in {"P", "Acquire"}, NEW o \in Object,
                      Asleep(u, op, o)
               PROVE  Asleep(u, op, o)'
    BY DEF SleepersStay
  <2>1. u # t
    BY <1>4 DEF Asleep
  <2> QED BY <1>2, <1>3, <2>1 DEF Asleep
<1>8. AcquirersStay
  BY <1>2, <1>4 DEF AcquirersStay
<1> QED BY <1>5, <1>6, <1>7, <1>8, QueuesFrame, LockFrame DEF synchVars, semVars, lockVars

\* The operations of module Threads.
LEMMA ThreadStepKeeps ==
  ASSUME TypeOK, TypeOK', Live, NEW t \in Thread, ThreadStep(t), ~Stopped'
  PROVE  Live'
<1>1. UNCHANGED synchVars
  BY DEF ThreadStep
<1>2. status \in [Thread -> Status]
  BY DEF TypeOK, ThreadTypeOK
<1>3. ASSUME NEW u \in Thread, NewThread(t, u) PROVE Live'
  BY <1>1, <1>3, StartKeeps DEF NewThread, StartIn
<1>4. ASSUME NEW u \in Thread, NEW p \in Proc, Exec(t, u, p) PROVE Live'
  BY <1>1, <1>4, StartKeeps DEF Exec, StartIn
<1>5. ASSUME NEW u \in Thread, Join(t, u) PROVE Live'
  <2>1. /\ cpu = "running" /\ g_current_thread = t /\ status[t] = "user" /\ OnCpu(t)
        /\ status' = [status EXCEPT ![t] = "Join"] /\ GiveWay(t)
        /\ UNCHANGED g_thread_to_be_destroyed
    BY <1>5 DEF Join, Running, OnCpu
  <2>2. \A x \in Thread : x # t => blockedOn'[x] = blockedOn[x]
    BY <1>5 DEF Join, TypeOK, ThreadTypeOK
  <2>3. CASE readyList # <<>>
    BY <1>1, <2>1, <2>2, <2>3, GiveAwayKeeps
  <2>4. CASE readyList = <<>>
    BY <1>1, <2>1, <2>2, <2>4, StayKeeps DEF GiveWay
  <2> QED BY <2>3, <2>4
<1>6. CASE Yield(t)
  BY <1>1, <1>2, <1>6, GiveAwayKeeps DEF Yield, Running, OnCpu
<1>7. CASE Finish(t)
  BY <1>1, <1>2, <1>7, GiveAwayKeeps DEF Finish, Running, OnCpu
<1>8. CASE HaltCall(t)
  BY <1>8 DEF HaltCall, Halt, Stopped
<1>9. CASE JoinLoop(t)
  <2>1. /\ cpu = "running" /\ g_current_thread = t /\ status[t] = "Join" /\ OnCpu(t)
        /\ UNCHANGED g_thread_to_be_destroyed
    BY <1>9 DEF JoinLoop, OnCpu
  <2>2. \A x \in Thread : x # t => blockedOn'[x] = blockedOn[x]
    BY <1>9 DEF JoinLoop, TypeOK, ThreadTypeOK
  <2>3. CASE blockedOn[t] \notin g_alive
    BY <1>1, <1>9, <2>1, <2>2, <2>3, StayKeeps DEF JoinLoop
  <2>4. CASE blockedOn[t] \in g_alive
    <3>1. status' = [status EXCEPT ![t] = "Join"] /\ GiveWay(t)
      BY <1>2, <1>9, <2>1, <2>4 DEF JoinLoop
    <3>2. CASE readyList # <<>>
      BY <1>1, <2>1, <2>2, <3>1, <3>2, GiveAwayKeeps
    <3>3. CASE readyList = <<>>
      BY <1>1, <2>1, <2>2, <3>1, <3>3, StayKeeps DEF GiveWay
    <3> QED BY <3>2, <3>3
  <2> QED BY <2>3, <2>4
<1>10. CASE StartThreadExecution(t)
  <2>1. status[t] = "fresh" /\ status'[t] = "user" /\ \A u \in Thread : u # t => status'[u] = status[u]
    BY <1>2, <1>10 DEF StartThreadExecution
  <2>2. ReadyOK' /\ CpuOK' /\ SleepersStay
    BY <1>10, <2>1, GoOn DEF StartThreadExecution, Live
  <2>3. AcquirersStay
    BY <1>10, <2>1 DEF AcquirersStay, StartThreadExecution
  <2> QED BY <1>1, <2>2, <2>3, QueuesFrame, LockFrame DEF Live, synchVars, semVars, lockVars
<1>11. CASE ResumeYield(t)
  <2> DEFINE to == IF status[t] = "Yield" THEN "user" ELSE "Join"
  <2>1. to \in {"user", "Join"} /\ Resumed(t, to) /\ UNCHANGED blockedOn /\ status[t] \in {"Yield", "Join"}
    BY <1>11 DEF ResumeYield
  <2> HIDE DEF to
  <2>2. /\ ReadyOK' /\ CpuOK' /\ SleepersStay
        /\ status'[t] = to
        /\ \A u \in Thread : u # t =>
              status'[u] = status[u] \/ (status[u] = "finished" /\ status'[u] = "deleted")
    BY <2>1, ResumedGoesOn
  <2>3. AcquirersStay
    BY <2>1, <2>2 DEF AcquirersStay
  <2> QED BY <1>1, <2>2, <2>3, QueuesFrame, LockFrame DEF Live, synchVars, semVars, lockVars
<1> QED BY <1>3, <1>4, <1>5, <1>6, <1>7, <1>8, <1>9, <1>10, <1>11 DEF ThreadStep

-----------------------------------------------------------------------------
(* Semaphores and locks *)

\* The current thread goes to sleep in P or Acquire of object o.
LEMMA BlockKeeps ==
  ASSUME TypeOK, TypeOK', Live, NEW t \in Thread, Running(t), NEW op \in {"P", "Acquire"},
         NEW o \in Object, Block(t, op, o)
  PROVE  /\ ReadyOK' /\ CpuOK' /\ SleepersStay
         /\ Asleep(t, op, o)'
         /\ \A u \in Thread : u # t => status'[u] = status[u] /\ blockedOn'[u] = blockedOn[u]
<1>1. OnCpu(t) /\ status[t] = "user" /\ op \in Status \ {"user"}
  BY DEF Running, OnCpu, Status, Suspended
<1>2. /\ status' = [status EXCEPT ![t] = op] /\ Sleep /\ UNCHANGED g_thread_to_be_destroyed
      /\ blockedOn' = [blockedOn EXCEPT ![t] = o]
  BY DEF Block
<1>3. /\ status'[t] = op /\ blockedOn'[t] = o
      /\ \A u \in Thread : u # t => status'[u] = status[u] /\ blockedOn'[u] = blockedOn[u]
  BY <1>2 DEF TypeOK, ThreadTypeOK
<1>4. ReadyOK' /\ CpuOK' /\ SleepersStay /\ t \notin Members(readyList') /\ ~OnCpu(t)'
  BY <1>1, <1>2, <1>3, LeaveCpu DEF Live
<1>5. Asleep(t, op, o)'
  BY <1>3, <1>4 DEF Asleep
<1> QED BY <1>3, <1>4, <1>5

\* V or Release moves the sleeper h to the ready list.
LEMMA WakeKeeps ==
  ASSUME TypeOK, TypeOK', Live, NEW h \in Thread, NEW op \in {"P", "Acquire"}, NEW o \in Object,
         Asleep(h, op, o), readyList' = Append(readyList, h),
         UNCHANGED <<g_current_thread, g_thread_to_be_destroyed, status, blockedOn, cpu>>
  PROVE  /\ ReadyOK' /\ CpuOK'
         /\ \A u \in Thread, q \in {"P", "Acquire"}, x \in Object :
              u # h /\ Asleep(u, q, x) => Asleep(u, q, x)'
<1> USE DEF Live
<1>1. readyList \in Seq(Thread)
  BY DEF TypeOK, ThreadTypeOK
<1>2. Members(readyList') = Members(readyList) \cup {h} /\ NoRepeats(readyList')
  BY <1>1, ListAppend DEF ReadyOK, Asleep
<1>3. \A x \in Thread : OnCpu(x) <=> OnCpu(x)'
  BY DEF OnCpu
<1>4. Members(readyList) \subseteq Thread
  BY <1>1, ListMembers
<1>5. ReadyOK'
  <2>1. ASSUME NEW x \in Members(readyList') PROVE status'[x] \in Resumable /\ ~OnCpu(x)'
    BY <1>2, <1>3, <1>4 DEF ReadyOK, Resumable, Asleep
  <2> QED BY <1>2, <2>1 DEF ReadyOK
<1>6. CpuOK'
  BY <1>3 DEF CpuOK
<1>7. \A u \in Thread, q \in {"P", "Acquire"}, x \in Object :
        u # h /\ Asleep(u, q, x) => Asleep(u, q, x)'
  BY <1>2, <1>3 DEF Asleep
<1> QED BY <1>5, <1>6, <1>7

\* Semaphore::P up to Sleep.
LEMMA PKeeps ==
  ASSUME TypeOK, TypeOK', Live, NEW t \in Thread, NEW s \in Semaphore, P(t, s)
  PROVE  Live'
<1>1. CASE value[s] > 0
  BY <1>1, Unmentioned DEF P, TypeOK, SynchTypeOK
<1>2. CASE ~(value[s] > 0)
  <2>1. /\ Running(t) /\ Block(t, "P", s) /\ queue' = [queue EXCEPT ![s] = Append(@, t)]
        /\ UNCHANGED <<free, owner, sleepqueue, inside, waitqueue>>
    BY <1>2 DEF P, lockVars
  <2>2. /\ ReadyOK' /\ CpuOK' /\ SleepersStay
        /\ Asleep(t, "P", s)'
        /\ \A u \in Thread : u # t => status'[u] = status[u] /\ blockedOn'[u] = blockedOn[u]
    BY <2>1, BlockKeeps DEF Object
  <2>3. status[t] = "user" /\ OnCpu(t)
    BY <2>1 DEF Running, OnCpu
  <2>4. AcquirersStay
    BY <2>2, <2>3 DEF AcquirersStay, Asleep
  <2>5. AcquireOK' /\ LockOK'
    BY <2>1, <2>4, LockFrame DEF Live
  <2>6. queue[s] \in Seq(Thread) /\ queue \in [Semaphore -> Seq(Thread)]
    BY DEF TypeOK, SynchTypeOK
  <2>7. t \notin Members(queue[s])
    BY <2>3 DEF Live, QueuesOK, Asleep
  <2>8. /\ Members(Append(queue[s], t)) = Members(queue[s]) \cup {t}
        /\ NoRepeats(Append(queue[s], t))
    BY <2>6, <2>7, ListAppend DEF Live, QueuesOK
  <2>9. QueuesOK'
    <3>1. ASSUME NEW r \in Semaphore
          PROVE  NoRepeats(queue'[r]) /\ \A u \in Members(queue'[r]) : Asleep(u, "P", r)'
      <4>1. Members(queue[r]) \subseteq Thread
        BY <2>6, ListMembers
      <4>2. \A u \in Members(queue[r]) : Asleep(u, "P", r)'
        BY <2>2, <4>1 DEF SleepersStay, Live, QueuesOK, Object
      <4>3. CASE r = s
        BY <2>1, <2>2, <2>6, <2>8, <4>2, <4>3
      <4>4. CASE r # s
        BY <2>1, <2>6, <4>2, <4>4 DEF Live, QueuesOK
      <4> QED BY <4>3, <4>4
    <3>2. ASSUME NEW l \in Lock
          PROVE  NoRepeats(sleepqueue'[l]) /\ \A u \in Members(sleepqueue'[l]) : Asleep(u, "Acquire", l)'
      <4>1. Members(sleepqueue[l]) \subseteq Thread
        BY ListMembers DEF TypeOK, SynchTypeOK
      <4> QED BY <2>1, <2>2, <4>1 DEF SleepersStay, Live, QueuesOK, Object
    <3> QED BY <2>1, <3>1, <3>2 DEF Live, QueuesOK
  <2> QED BY <2>2, <2>5, <2>9 DEF Live
<1> QED BY <1>1, <1>2

\* Semaphore::V, by a thread or an interrupt handler.
LEMMA SemVKeeps ==
  ASSUME TypeOK, TypeOK', Live, NEW s \in Semaphore, SemV(s)
  PROVE  Live'
<1>1. /\ queue' = [queue EXCEPT ![s] = Rest(@)] /\ Wake(First(queue[s]))
      /\ UNCHANGED <<free, owner, sleepqueue, inside, waitqueue>>
  BY DEF SemV, lockVars
<1>2. /\ queue \in [Semaphore -> Seq(Thread)] /\ queue[s] \in Seq(Thread)
      /\ readyList \in Seq(Thread)
  BY DEF TypeOK, SynchTypeOK, ThreadTypeOK
<1>3. CASE queue[s] = <<>>
  <2>1. First(queue[s]) = <<>> /\ Rest(queue[s]) = queue[s]
    BY <1>3 DEF First, Rest
  <2>2. queue' = queue
    BY <1>1, <1>2, <2>1
  <2>3. readyList' = readyList
    BY <1>1, <1>2, <2>1 DEF Wake
  <2> QED BY <1>1, <2>2, <2>3, Unmentioned DEF Wake, threadVars, lockVars
<1>4. CASE queue[s] # <<>>
  <2> DEFINE h == Head(queue[s])
  <2>1. /\ First(queue[s]) = <<h>> /\ Rest(queue[s]) = Tail(queue[s])
        /\ h \in Thread /\ Tail(queue[s]) \in Seq(Thread)
    BY <1>2, <1>4 DEF First, Rest
  <2>2. /\ Members(queue[s]) = Members(Tail(queue[s])) \cup {h}
        /\ NoRepeats(Tail(queue[s])) /\ h \notin Members(Tail(queue[s]))
    BY <1>2, <1>4, ListRemove DEF Live, QueuesOK
  <2>3. readyList' = Append(readyList, h)
    BY <1>1, <1>2, <2>1 DEF Wake
  <2>4. Asleep(h, "P", s)
    BY <2>2 DEF Live, QueuesOK
  <2>5. /\ ReadyOK' /\ CpuOK'
        /\ \A u \in Thread, q \in {"P", "Acquire"}, x \in Object :
              u # h /\ Asleep(u, q, x) => Asleep(u, q, x)'
    BY <1>1, <2>1, <2>3, <2>4, WakeKeeps DEF Wake, Object
  <2>6. QueuesOK'
    <3>1. ASSUME NEW r \in Semaphore
          PROVE  NoRepeats(queue'[r]) /\ \A u \in Members(queue'[r]) : Asleep(u, "P", r)'
      <4>1. Members(queue[r]) \subseteq Thread
        BY <1>2, ListMembers
      <4>2. \A u \in Members(queue[r]) : u # h => Asleep(u, "P", r)'
        BY <2>5, <4>1 DEF Live, QueuesOK, Object
      <4>3. CASE r = s
        BY <1>1, <1>2, <2>1, <2>2, <4>2, <4>3
      <4>4. CASE r # s
        <5>1. h \notin Members(queue[r])
          BY <2>4, <4>4 DEF Live, QueuesOK, Asleep
        <5> QED BY <1>1, <1>2, <4>2, <4>4, <5>1 DEF Live, QueuesOK
      <4> QED BY <4>3, <4>4
    <3>2. ASSUME NEW l \in Lock
          PROVE  NoRepeats(sleepqueue'[l]) /\ \A u \in Members(sleepqueue'[l]) : Asleep(u, "Acquire", l)'
      <4>1. Members(sleepqueue[l]) \subseteq Thread
        BY ListMembers DEF TypeOK, SynchTypeOK
      <4>2. h \notin Members(sleepqueue[l])
        BY <2>4 DEF Live, QueuesOK, Asleep
      <4> QED BY <1>1, <2>5, <4>1, <4>2 DEF Live, QueuesOK, Object
    <3> QED BY <1>1, <3>1, <3>2 DEF Live, QueuesOK
  <2>7. AcquirersStay
    BY <1>1 DEF AcquirersStay, Wake
  <2> QED BY <1>1, <2>5, <2>6, <2>7, LockFrame DEF Live
<1> QED BY <1>3, <1>4

\* The rest of P.
LEMMA ReturnPKeeps ==
  ASSUME TypeOK, TypeOK', Live, NEW t \in Thread, ReturnP(t)
  PROVE  Live'
<1>1. /\ status[t] = "P" /\ Resumed(t, "user") /\ blockedOn' = [blockedOn EXCEPT ![t] = NULL]
      /\ UNCHANGED <<queue, free, owner, sleepqueue, inside, waitqueue>>
  BY DEF ReturnP, Return, lockVars
<1>2. \A u \in Thread : u # t => blockedOn'[u] = blockedOn[u]
  BY <1>1 DEF TypeOK, ThreadTypeOK
<1>3. /\ ReadyOK' /\ CpuOK' /\ SleepersStay /\ status'[t] = "user"
      /\ \A u \in Thread : u # t =>
           status'[u] = status[u] \/ (status[u] = "finished" /\ status'[u] = "deleted")
  BY <1>1, <1>2, ResumedGoesOn
<1>4. AcquirersStay
  BY <1>1, <1>2, <1>3 DEF AcquirersStay
<1> QED BY <1>1, <1>3, <1>4, QueuesFrame, LockFrame DEF Live

\* Lock::Acquire up to its return, or up to Sleep.
LEMMA AcquireKeeps ==
  ASSUME TypeOK, TypeOK', Live, MutualExclusion, NEW t \in Thread, NEW l \in Lock, Acquire(t, l)
  PROVE  Live' /\ MutualExclusion'
<1>1. Running(t) /\ UNCHANGED <<queue, waitqueue>>
  BY DEF Acquire, semVars
<1>2. /\ free \in [Lock -> BOOLEAN] /\ owner \in [Lock -> Thread \cup {NULL}]
      /\ sleepqueue \in [Lock -> Seq(Thread)] /\ inside \in [Lock -> SUBSET Thread]
      /\ status \in [Thread -> Status]
  BY DEF TypeOK, SynchTypeOK, ThreadTypeOK
<1>3. status[t] = "user" /\ OnCpu(t)
  BY <1>1 DEF Running, OnCpu
<1>4. CASE free[l]
  <2>1. /\ free' = [free EXCEPT ![l] = FALSE] /\ owner' = [owner EXCEPT ![l] = t]
        /\ inside' = [inside EXCEPT ![l] = @ \cup {t}]
        /\ UNCHANGED <<threadVars, sleepqueue>>
    BY <1>4 DEF Acquire
  <2>2. inside[l] = {} /\ sleepqueue[l] = <<>> /\ Members(sleepqueue[l]) = {}
    BY <1>4, EmptyList DEF MutualExclusion, Live, LockOK
  <2>3. /\ free'[l] = FALSE /\ owner'[l] = t /\ inside'[l] = {t}
        /\ \A m \in Lock : m # l =>
             free'[m] = free[m] /\ owner'[m] = owner[m] /\ inside'[m] = inside[m]
    BY <1>2, <2>1, <2>2
  <2>4. MutualExclusion'
    BY <2>3 DEF MutualExclusion
  <2>5. ReadyOK' /\ QueuesOK' /\ CpuOK'
    BY <1>1, <2>1 DEF Live, ReadyOK, QueuesOK, CpuOK, Asleep, OnCpu, threadVars
  <2>6. LockOK'
    BY <2>1, <2>3 DEF Live, LockOK, threadVars
  <2>7. AcquireOK'
    BY <1>4, <2>1, <2>2, <2>3 DEF Live, AcquireOK, threadVars
  <2> QED BY <2>4, <2>5, <2>6, <2>7 DEF Live
<1>5. CASE ~free[l]
  <2>1. /\ sleepqueue' = [sleepqueue EXCEPT ![l] = Append(@, t)] /\ Block(t, "Acquire", l)
        /\ UNCHANGED <<free, owner, inside>>
    BY <1>5 DEF Acquire
  <2>2. /\ ReadyOK' /\ CpuOK' /\ SleepersStay
        /\ Asleep(t, "Acquire", l)'
        /\ \A u \in Thread : u # t => status'[u] = status[u] /\ blockedOn'[u] = blockedOn[u]
    BY <1>1, <2>1, BlockKeeps DEF Object
  <2>3. MutualExclusion'
    BY <2>1 DEF MutualExclusion
  <2>4. t \notin Members(sleepqueue[l])
    BY <1>3 DEF Live, QueuesOK, Asleep
  <2>5. /\ Members(Append(sleepqueue[l], t)) = Members(sleepqueue[l]) \cup {t}
        /\ NoRepeats(Append(sleepqueue[l], t))
    BY <1>2, <2>4, ListAppend DEF Live, QueuesOK
  <2>6. /\ sleepqueue'[l] = Append(sleepqueue[l], t)
        /\ \A m \in Lock : m # l => sleepqueue'[m] = sleepqueue[m]
    BY <1>2, <2>1
  <2>7. QueuesOK'
    <3>1. ASSUME NEW r \in Semaphore
          PROVE  NoRepeats(queue'[r]) /\ \A u \in Members(queue'[r]) : Asleep(u, "P", r)'
      <4>1. Members(queue[r]) \subseteq Thread
        BY ListMembers DEF TypeOK, SynchTypeOK
      <4> QED BY <1>1, <2>2, <4>1 DEF SleepersStay, Live, QueuesOK, Object
    <3>2. ASSUME NEW m \in Lock
          PROVE  NoRepeats(sleepqueue'[m]) /\ \A u \in Members(sleepqueue'[m]) : Asleep(u, "Acquire", m)'
      <4>1. Members(sleepqueue[m]) \subseteq Thread
        BY <1>2, ListMembers
      <4>2. \A u \in Members(sleepqueue[m]) : Asleep(u, "Acquire", m)'
        BY <2>2, <4>1 DEF SleepersStay, Live, QueuesOK, Object
      <4>3. CASE m = l
        BY <2>2, <2>5, <2>6, <4>2, <4>3
      <4>4. CASE m # l
        BY <2>6, <4>2, <4>4 DEF Live, QueuesOK
      <4> QED BY <4>3, <4>4
    <3> QED BY <1>1, <3>1, <3>2 DEF Live, QueuesOK
  <2>8. LockOK'
    <3> SUFFICES ASSUME NEW m \in Lock
                 PROVE  /\ free'[m] => sleepqueue'[m] = <<>>
                        /\ ~free'[m] => \/ owner'[m] \in inside'[m]
                                        \/ /\ owner'[m] \in Thread
                                           /\ status'[owner'[m]] = "Acquire"
                                           /\ blockedOn'[owner'[m]] = m
      BY DEF LockOK
    <3>1. free'[m] => sleepqueue'[m] = <<>>
      BY <1>5, <2>1, <2>6 DEF Live, LockOK
    <3>2. ~free[m] => \/ owner[m] \in inside[m]
                      \/ owner[m] \in Thread /\ status[owner[m]] = "Acquire" /\ blockedOn[owner[m]] = m
      BY DEF Live, LockOK
    <3> QED BY <1>3, <2>1, <2>2, <3>1, <3>2
  <2>9. AcquireOK'
    <3> SUFFICES ASSUME NEW u \in Thread, status'[u] = "Acquire"
                 PROVE  /\ blockedOn'[u] \in Lock
                        /\ \/ u \in Members(sleepqueue'[blockedOn'[u]])
                           \/ owner'[blockedOn'[u]] = u /\ ~free'[blockedOn'[u]]
      BY DEF AcquireOK
    <3>1. CASE u = t
      BY <2>2, <2>5, <2>6, <3>1 DEF Asleep
    <3>2. CASE u # t
      <4>1. status[u] = "Acquire" /\ blockedOn'[u] = blockedOn[u]
        BY <2>2, <3>2
      <4>2. blockedOn[u] \in Lock
        BY <4>1 DEF Live, AcquireOK
      <4>3. u \in Members(sleepqueue[blockedOn[u]]) => u \in Members(sleepqueue'[blockedOn[u]])
        BY <2>5, <2>6, <4>2
      <4> QED BY <2>1, <4>1, <4>2, <4>3 DEF Live, AcquireOK
    <3> QED BY <3>1, <3>2
  <2> QED BY <2>2, <2>3, <2>7, <2>8, <2>9 DEF Live
<1> QED BY <1>4, <1>5

\* The rest of Acquire: the thread was woken by the Release that made it the owner.
LEMMA ReturnAcquireKeeps ==
  ASSUME TypeOK, TypeOK', Live, MutualExclusion, NEW t \in Thread, ReturnAcquire(t)
  PROVE  Live' /\ MutualExclusion'
<1> DEFINE l == blockedOn[t]
<1>1. /\ status[t] = "Acquire" /\ Resumed(t, "user") /\ blockedOn' = [blockedOn EXCEPT ![t] = NULL]
      /\ inside' = [inside EXCEPT ![l] = @ \cup {t}]
      /\ UNCHANGED <<queue, free, owner, sleepqueue, waitqueue>>
  BY DEF ReturnAcquire, Return, semVars
<1>2. \A u \in Thread : u # t => blockedOn'[u] = blockedOn[u]
  BY <1>1 DEF TypeOK, ThreadTypeOK
<1>3. /\ ReadyOK' /\ CpuOK' /\ SleepersStay /\ status'[t] = "user"
      /\ \A u \in Thread : u # t =>
           status'[u] = status[u] \/ (status[u] = "finished" /\ status'[u] = "deleted")
  BY <1>1, <1>2, ResumedGoesOn
<1>4. OnCpu(t)
  BY <1>1 DEF Resumed, OnCpu
<1>5. l \in Lock /\ owner[l] = t /\ ~free[l]
  <2>1. l \in Lock
    BY <1>1 DEF Live, AcquireOK
  <2>2. t \notin Members(sleepqueue[l])
    BY <1>4, <2>1 DEF Live, QueuesOK, Asleep
  <2> QED BY <1>1, <2>1, <2>2 DEF Live, AcquireOK
<1>6. inside'[l] = inside[l] \cup {t} /\ \A m \in Lock : m # l => inside'[m] = inside[m]
  BY <1>1, <1>5 DEF TypeOK, SynchTypeOK
<1> HIDE DEF l
<1>7. MutualExclusion'
  BY <1>1, <1>5, <1>6 DEF MutualExclusion
<1>8. QueuesOK'
  BY <1>1, <1>3, QueuesFrame DEF Live
<1>9. AcquireOK'
  BY <1>1, <1>2, <1>3 DEF Live, AcquireOK
<1>10. LockOK'
  <2> SUFFICES ASSUME NEW m \in Lock
               PROVE  /\ free'[m] => sleepqueue'[m] = <<>>
                      /\ ~free'[m] => \/ owner'[m] \in inside'[m]
                                      \/ /\ owner'[m] \in Thread
                                         /\ status'[owner'[m]] = "Acquire"
                                         /\ blockedOn'[owner'[m]] = m
    BY DEF LockOK
  <2>1. CASE m = l
    BY <1>1, <1>5, <1>6, <2>1 DEF Live, LockOK
  <2>2. CASE m # l
    <3>1. ~free[m] => \/ owner[m] \in inside[m]
                      \/ owner[m] \in Thread /\ status[owner[m]] = "Acquire" /\ blockedOn[owner[m]] = m
      BY DEF Live, LockOK
    <3>2. blockedOn[t] # m
      BY <2>2 DEF l
    <3> QED BY <1>1, <1>2, <1>3, <1>6, <2>2, <3>1, <3>2 DEF Live, LockOK
  <2> QED BY <2>1, <2>2
<1> QED BY <1>3, <1>7, <1>8, <1>9, <1>10 DEF Live

\* Lock::Release by the owner.
LEMMA ReleaseKeeps ==
  ASSUME TypeOK, TypeOK', Live, MutualExclusion, NEW t \in Thread, NEW l \in Lock,
         Release(t, l), owner[l] = t
  PROVE  Live' /\ MutualExclusion'
<1>1. /\ Running(t) /\ UNCHANGED <<queue, waitqueue>>
      /\ sleepqueue' = [sleepqueue EXCEPT ![l] = Rest(@)]
      /\ free' = [free EXCEPT ![l] = (sleepqueue[l] = <<>>)]
      /\ owner' = [owner EXCEPT ![l] = IF sleepqueue[l] = <<>> THEN NULL ELSE Head(sleepqueue[l])]
      /\ inside' = [inside EXCEPT ![l] = @ \ {t}]
      /\ Wake(First(sleepqueue[l]))
  BY DEF Release, semVars
<1>2. /\ free \in [Lock -> BOOLEAN] /\ owner \in [Lock -> Thread \cup {NULL}]
      /\ sleepqueue \in [Lock -> Seq(Thread)] /\ inside \in [Lock -> SUBSET Thread]
      /\ readyList \in Seq(Thread)
  BY DEF TypeOK, SynchTypeOK, ThreadTypeOK
<1>3. status[t] = "user"
  BY <1>1 DEF Running
<1>4. /\ \A m \in Lock : m # l => /\ free'[m] = free[m] /\ owner'[m] = owner[m]
                                  /\ inside'[m] = inside[m] /\ sleepqueue'[m] = sleepqueue[m]
      /\ inside'[l] = inside[l] \ {t}
      /\ free'[l] = (sleepqueue[l] = <<>>)
      /\ sleepqueue'[l] = Rest(sleepqueue[l])
  BY <1>1, <1>2
<1>5. inside'[l] = {}
  BY <1>4 DEF MutualExclusion
<1>6. MutualExclusion'
  BY <1>4, <1>5 DEF MutualExclusion
<1>7. UNCHANGED <<g_current_thread, g_thread_to_be_destroyed, status, blockedOn, cpu>>
  BY <1>1 DEF Wake
<1>8. \A u \in Thread : status[u] = "Acquire" /\ blockedOn[u] = l => u \in Members(sleepqueue[l])
  BY <1>3 DEF Live, AcquireOK
<1>9. CASE sleepqueue[l] = <<>>
  <2>1. First(sleepqueue[l]) = <<>> /\ Rest(sleepqueue[l]) = sleepqueue[l]
    BY <1>9 DEF First, Rest
  <2>2. sleepqueue' = sleepqueue
    BY <1>1, <1>2, <2>1
  <2>3. readyList' = readyList
    BY <1>1, <1>2, <2>1 DEF Wake
  <2>4. ReadyOK'
    BY <1>7, <2>3 DEF Live, ReadyOK, OnCpu
  <2>5. QueuesOK'
    BY <1>1, <1>7, <2>2, <2>3 DEF Live, QueuesOK, Asleep, OnCpu
  <2>6. CpuOK'
    BY <1>7 DEF Live, CpuOK, OnCpu
  <2>7. LockOK'
    BY <1>4, <1>7, <1>9, <2>2 DEF Live, LockOK
  <2>8. Members(sleepqueue[l]) = {}
    BY <1>9, EmptyList
  <2>9. AcquireOK'
    BY <1>4, <1>7, <1>8, <2>2, <2>8 DEF Live, AcquireOK
  <2> QED BY <1>6, <2>4, <2>5, <2>6, <2>7, <2>9 DEF Live
<1>10. CASE sleepqueue[l] # <<>>
  <2> DEFINE h == Head(sleepqueue[l])
  <2>1. /\ First(sleepqueue[l]) = <<h>> /\ Rest(sleepqueue[l]) = Tail(sleepqueue[l])
        /\ h \in Thread /\ Tail(sleepqueue[l]) \in Seq(Thread)
    BY <1>2, <1>10 DEF First, Rest
  <2>2. /\ Members(sleepqueue[l]) = Members(Tail(sleepqueue[l])) \cup {h}
        /\ NoRepeats(Tail(sleepqueue[l])) /\ h \notin Members(Tail(sleepqueue[l]))
    BY <1>2, <1>10, ListRemove DEF Live, QueuesOK
  <2>3. owner'[l] = h /\ free'[l] = FALSE
    BY <1>1, <1>2, <1>4, <1>10
  <2>4. readyList' = Append(readyList, h)
    BY <1>1, <1>2, <2>1 DEF Wake
  <2>5. Asleep(h, "Acquire", l)
    BY <2>2 DEF Live, QueuesOK
  <2>6. /\ ReadyOK' /\ CpuOK'
        /\ \A u \in Thread, q \in {"P", "Acquire"}, x \in Object :
              u # h /\ Asleep(u, q, x) => Asleep(u, q, x)'
    BY <1>1, <1>7, <2>1, <2>4, <2>5, WakeKeeps DEF Object
  <2> HIDE DEF h
  <2>7. QueuesOK'
    <3>1. ASSUME NEW r \in Semaphore
          PROVE  NoRepeats(queue'[r]) /\ \A u \in Members(queue'[r]) : Asleep(u, "P", r)'
      <4>1. Members(queue[r]) \subseteq Thread
        BY ListMembers DEF TypeOK, SynchTypeOK
      <4>2. h \notin Members(queue[r])
        BY <2>5 DEF Live, QueuesOK, Asleep
      <4> QED BY <1>1, <2>6, <4>1, <4>2 DEF Live, QueuesOK, Object
    <3>2. ASSUME NEW m \in Lock
          PROVE  NoRepeats(sleepqueue'[m]) /\ \A u \in Members(sleepqueue'[m]) : Asleep(u, "Acquire", m)'
      <4>1. Members(sleepqueue[m]) \subseteq Thread
        BY <1>2, ListMembers
      <4>2. \A u \in Members(sleepqueue[m]) : u # h => Asleep(u, "Acquire", m)'
        BY <2>6, <4>1 DEF Live, QueuesOK, Object
      <4>3. CASE m = l
        BY <1>4, <2>1, <2>2, <4>2, <4>3
      <4>4. CASE m # l
        <5>1. h \notin Members(sleepqueue[m])
          BY <2>5, <4>4 DEF Live, QueuesOK, Asleep
        <5> QED BY <1>4, <4>2, <4>4, <5>1 DEF Live, QueuesOK
      <4> QED BY <4>3, <4>4
    <3> QED BY <1>1, <3>1, <3>2 DEF Live, QueuesOK
  <2>8. LockOK'
    <3>1. status[h] = "Acquire" /\ blockedOn[h] = l
      BY <2>5 DEF Asleep
    <3>2. ASSUME NEW m \in Lock, m # l
          PROVE  /\ free'[m] => sleepqueue'[m] = <<>>
                 /\ ~free'[m] => \/ owner'[m] \in inside'[m]
                                 \/ /\ owner'[m] \in Thread
                                    /\ status'[owner'[m]] = "Acquire"
                                    /\ blockedOn'[owner'[m]] = m
      BY <1>4, <1>7, <3>2 DEF Live, LockOK
    <3> QED BY <1>7, <2>1, <2>3, <3>1, <3>2 DEF LockOK
  <2>9. AcquireOK'
    <3> SUFFICES ASSUME NEW u \in Thread, status[u] = "Acquire"
                 PROVE  /\ blockedOn[u] \in Lock
                        /\ \/ u \in Members(sleepqueue'[blockedOn[u]])
                           \/ owner'[blockedOn[u]] = u /\ ~free'[blockedOn[u]]
      BY <1>7 DEF AcquireOK
    <3>1. CASE blockedOn[u] = l
      BY <1>4, <1>8, <2>1, <2>2, <2>3, <3>1
    <3>2. CASE blockedOn[u] # l
      BY <1>4, <3>2 DEF Live, AcquireOK
    <3> QED BY <3>1, <3>2
  <2> QED BY <1>6, <2>6, <2>7, <2>8, <2>9 DEF Live
<1> QED BY <1>9, <1>10

-----------------------------------------------------------------------------
(* The theorems *)

\* A failed ASSERT or Halt stops the machine and leaves the locks alone.
LEMMA StopKeeps ==
  ASSUME MutualExclusion, UNCHANGED <<free, owner, inside>>, Stopped'
  PROVE  IInv'
BY DEF IInv, MutualExclusion

\* Every operation on a semaphore, lock or condition keeps the invariant.
LEMMA SynchStepKeeps ==
  ASSUME TypeOK, TypeOK', Live, MutualExclusion, NEW t \in Thread, SynchStep(t)
  PROVE  IInv'
<1>1. ASSUME Live', MutualExclusion' PROVE IInv'
  BY <1>1 DEF IInv, Live
<1>2. ASSUME UNCHANGED <<free, owner, inside>> PROVE MutualExclusion'
  BY <1>2 DEF MutualExclusion
<1>3. ASSUME NEW s \in Semaphore, P(t, s) PROVE IInv'
  BY <1>1, <1>2, <1>3, PKeeps DEF P, lockVars
<1>4. ASSUME NEW s \in Semaphore, V(t, s) PROVE IInv'
  BY <1>1, <1>2, <1>4, SemVKeeps DEF V, SemV, lockVars
<1>5. ASSUME NEW s \in Semaphore, NEW v \in InitialValue, SemCreate(t, s, v) PROVE IInv'
  BY <1>1, <1>2, <1>5, Unmentioned DEF SemCreate, lockVars
<1>6. ASSUME UNCHANGED <<semVars, lockVars, waitqueue>>, UNCHANGED threadVars \/ Abort PROVE IInv'
  <2>1. CASE UNCHANGED threadVars
    BY <1>1, <1>2, <1>6, <2>1, Unmentioned DEF semVars, lockVars
  <2>2. CASE Abort
    BY <1>6, <2>2, StopKeeps DEF Abort, Stopped, lockVars
  <2> QED BY <1>6, <2>1, <2>2
<1>7. ASSUME NEW s \in Semaphore, SemDestroy(t, s) PROVE IInv'
  BY <1>6, <1>7 DEF SemDestroy
<1>8. ASSUME NEW l \in Lock, LockCreate(t, l) \/ LockDestroy(t, l) PROVE IInv'
  BY <1>6, <1>8 DEF LockCreate, LockDestroy
<1>9. ASSUME NEW c \in Condition, CondCreate(t, c) \/ CondDestroy(t, c) PROVE IInv'
  BY <1>6, <1>9 DEF CondCreate, CondDestroy
<1>10. ASSUME NEW l \in Lock, Acquire(t, l) PROVE IInv'
  BY <1>1, <1>10, AcquireKeeps
<1>11. ASSUME NEW l \in Lock, Release(t, l) PROVE IInv'
  <2>1. CASE owner[l] = t
    BY <1>1, <1>11, <2>1, ReleaseKeeps
  <2>2. CASE owner[l] # t
    BY <1>6, <1>11, <2>2 DEF Release
  <2> QED BY <2>1, <2>2
<1>12. ASSUME NEW c \in Condition, Wait(t, c) PROVE IInv'
  <2>1. /\ OnCpu(t) /\ status[t] = "user" /\ status' = [status EXCEPT ![t] = "Wait"] /\ Sleep
        /\ UNCHANGED g_thread_to_be_destroyed /\ UNCHANGED synchVars
    BY <1>12 DEF Wait, Block, Running, OnCpu
  <2>2. \A u \in Thread : u # t => blockedOn'[u] = blockedOn[u]
    BY <1>12 DEF Wait, Block, TypeOK, ThreadTypeOK
  <2>3. Live'
    BY <2>1, <2>2, GiveAwayKeeps
  <2> QED BY <1>1, <1>2, <2>1, <2>3 DEF synchVars, lockVars
<1>13. ASSUME NEW c \in Condition, Signal(t, c) \/ Broadcast(t, c) PROVE IInv'
  <2>1. waitqueue[c] = <<>> /\ waitqueue \in [Condition -> Seq(Thread)] /\ readyList \in Seq(Thread)
    BY DEF Live, QueuesOK, TypeOK, SynchTypeOK, ThreadTypeOK
  <2>2. waitqueue' = waitqueue /\ Wake(<<>>) /\ UNCHANGED <<semVars, lockVars>>
    BY <1>13, <2>1 DEF Signal, Broadcast, First, Rest
  <2>3. UNCHANGED threadVars
    BY <2>1, <2>2 DEF Wake, threadVars
  <2> QED BY <1>6, <2>2, <2>3
<1>14. CASE ReturnP(t)
  BY <1>1, <1>2, <1>14, ReturnPKeeps DEF ReturnP, lockVars
<1>15. CASE ReturnAcquire(t)
  BY <1>1, <1>15, ReturnAcquireKeeps
<1> QED BY <1>3, <1>4, <1>5, <1>7, <1>8, <1>9, <1>10, <1>11, <1>12, <1>13, <1>14, <1>15
        DEF SynchStep

\* Booting and stopping keep the invariant.
LEMMA MachineStepKeeps ==
  ASSUME TypeOK, TypeOK', Live, MutualExclusion, MachineStep
  PROVE  IInv'
<1>1. UNCHANGED synchVars /\ MutualExclusion'
  BY DEF MachineStep, synchVars, lockVars, MutualExclusion
<1>2. /\ status \in [Thread -> Status] /\ Root \in Thread
      /\ Members(readyList) \subseteq Thread /\ g_thread_to_be_destroyed \in Thread \cup {NULL}
  BY ThreadAssumption, ListMembers DEF TypeOK, ThreadTypeOK
<1>3. ASSUME NEW u \in Thread, NEW p \in Proc, Main(u, p) PROVE Live'
  <2>1. /\ cpu = "boot" /\ status[u] = "none" /\ g_current_thread = Root /\ status[Root] = "user"
        /\ OnCpu(Root)
    BY <1>3 DEF Main, StartIn, Live, CpuOK, OnCpu
  <2>2. /\ status'[u] = "fresh" /\ status'[Root] = "finished"
        /\ \A x \in Thread : x # u /\ x # Root => status'[x] = status[x]
        /\ g_current_thread' = u /\ cpu' = "switched" /\ g_thread_to_be_destroyed' = Root
        /\ UNCHANGED <<readyList, blockedOn>>
    BY <1>2, <1>3, <2>1 DEF Main, SwitchTo
  <2>3. \A x \in Thread : OnCpu(x)' <=> x = u
    BY <2>2 DEF OnCpu
  <2>4. u \notin Members(readyList) /\ Root \notin Members(readyList)
    BY <2>1 DEF Live, ReadyOK, Resumable
  <2>5. ReadyOK'
    <3>1. ASSUME NEW x \in Members(readyList) PROVE status'[x] \in Resumable /\ ~OnCpu(x)'
      BY <1>2, <2>2, <2>3, <2>4 DEF Live, ReadyOK
    <3> QED BY <2>2, <3>1 DEF Live, ReadyOK
  <2>6. CpuOK'
    <3>1. \A x \in Thread : status'[x] # "user"
      BY <2>1, <2>2 DEF Live, CpuOK, OnCpu
    <3> QED BY <2>2, <3>1 DEF CpuOK, Resumable
  <2>7. SleepersStay
    BY <2>1, <2>2, <2>3 DEF SleepersStay, Asleep
  <2>8. AcquirersStay
    BY <2>1, <2>2 DEF AcquirersStay
  <2> QED BY <1>1, <2>5, <2>6, <2>7, <2>8, QueuesFrame, LockFrame
          DEF Live, synchVars, semVars, lockVars
<1>4. CASE MainNoProgram
  <2>1. /\ cpu = "boot" /\ OnCpu(Root) /\ status[Root] = "user"
        /\ status' = [status EXCEPT ![Root] = "finished"] /\ Sleep
        /\ g_thread_to_be_destroyed' = Root /\ UNCHANGED blockedOn
    BY <1>4 DEF MainNoProgram, Live, CpuOK, OnCpu
  <2>2. Live'
    BY <1>1, <1>2, <2>1, GiveAwayKeeps
  <2> QED BY <1>1, <2>2 DEF IInv, Live
<1>5. CASE IdleHalt
  BY <1>1, <1>5 DEF IdleHalt, Halt, Stopped, IInv
<1>6. ASSUME NEW u \in Thread, NEW p \in Proc, Main(u, p) PROVE IInv'
  BY <1>1, <1>3, <1>6 DEF IInv, Live
<1> QED BY <1>4, <1>5, <1>6 DEF MachineStep

\* Every step of the kernel keeps the invariant.
LEMMA StepKeeps ==
  ASSUME TypeOK, TypeOK', IInv, [Next]_vars
  PROVE  IInv'
<1>1. ASSUME NEW t \in Thread, ThreadStep(t) PROVE IInv'
  <2>1. Live /\ MutualExclusion
    BY <1>1, StepsNeedTheCpu DEF IInv, Live
  <2>2. MutualExclusion'
    BY <1>1, <2>1 DEF MutualExclusion, ThreadStep, synchVars, lockVars
  <2>3. ~Stopped' => Live'
    BY <1>1, <2>1, ThreadStepKeeps
  <2> QED BY <2>2, <2>3 DEF IInv, Live
<1>2. ASSUME NEW t \in Thread, SynchStep(t) PROVE IInv'
  <2>1. Live /\ MutualExclusion
    BY <1>2, StepsNeedTheCpu DEF IInv, Live
  <2> QED BY <1>2, <2>1, SynchStepKeeps
<1>3. CASE MachineStep
  <2>1. Live /\ MutualExclusion
    BY <1>3, StepsNeedTheCpu, ThreadAssumption DEF IInv, Live
  <2> QED BY <1>3, <2>1, MachineStepKeeps
<1>4. CASE UNCHANGED vars
  <2>1. UNCHANGED threadVars /\ UNCHANGED <<queue, lockVars, waitqueue>>
    BY <1>4 DEF vars, synchVars, semVars
  <2>2. MutualExclusion' /\ (Stopped' <=> Stopped)
    BY <2>1 DEF IInv, MutualExclusion, lockVars, threadVars, Stopped
  <2>3. Live => Live'
    BY <2>1, Unmentioned
  <2> QED BY <2>2, <2>3 DEF IInv, Live
<1> QED BY <1>1, <1>2, <1>3, <1>4 DEF Next

\* The inductive invariant holds of the kernel whatever user programs do.
THEOREM Inductive == Spec => []IInv
<1>1. Init => IInv
  <2> SUFFICES ASSUME Init PROVE IInv
    OBVIOUS
  <2> USE ThreadAssumption DEF Init, ThreadsInit
  <2>1. ReadyOK /\ QueuesOK
    BY EmptyList DEF ReadyOK, QueuesOK
  <2>2. CpuOK /\ AcquireOK
    BY DEF CpuOK, AcquireOK, OnCpu
  <2>3. LockOK /\ MutualExclusion
    BY DEF LockOK, MutualExclusion
  <2> QED BY <2>1, <2>2, <2>3 DEF IInv
<1>2. TypeOK /\ TypeOK' /\ IInv /\ [Next]_vars => IInv'
  BY StepKeeps
<1> QED BY <1>1, <1>2, TypeCorrect, PTL DEF Spec

\* Lock::Acquire and Lock::Release guarantee mutual exclusion.
THEOREM LocksExclude == Spec => []MutualExclusion
<1>1. IInv => MutualExclusion
  BY DEF IInv
<1> QED BY <1>1, Inductive, PTL

\* Lock::Release never leaves sleepers on a lock that nobody has.
THEOREM LocksAreHandedOver == Spec => []LockedWhileWanted
<1>1. IInv => LockedWhileWanted
  BY DEF IInv, LockOK, LockedWhileWanted
<1> QED BY <1>1, Inductive, PTL

-----------------------------------------------------------------------------
(* NobodyForgotten *)

\* No thread but x starts, sleeps or changes what it sleeps on.
OthersStay(x) ==
  \A u \in Thread \ {x} : status'[u] \in Resumable =>
    status'[u] = status[u] /\ blockedOn'[u] = blockedOn[u]

\* What a step must do for NobodyForgotten, apart from thread x.
LEMMA ForgottenFrame ==
  ASSUME TypeOK, NobodyForgotten, AcquireOK, NEW x \in Thread, OthersStay(x),
         \A u \in Thread \ {x} : u \in Able => u \in Able',
         \A u \in Thread \ {x}, s \in Semaphore :
           u \in Members(queue[s]) => u \in Able' \/ u \in Members(queue'[s]),
         \A u \in Thread \ {x}, l \in Lock :
           u \in Members(sleepqueue[l]) => u \in Able' \/ u \in Members(sleepqueue'[l]),
         status'[x] \in {"fresh", "Yield", "Join"} => x \in Able',
         status'[x] = "P" => /\ blockedOn'[x] \in Semaphore
                             /\ x \in Able' \/ x \in Members(queue'[blockedOn'[x]]),
         status'[x] = "Acquire" => x \in Able' \/ x \in Members(sleepqueue'[blockedOn'[x]])
  PROVE  NobodyForgotten'
<1> SUFFICES ASSUME NEW u \in Thread
             PROVE  /\ status'[u] \in {"fresh", "Yield", "Join"} => u \in Able'
                    /\ status'[u] = "P" => /\ blockedOn'[u] \in Semaphore
                                           /\ u \in Able' \/ u \in Members(queue'[blockedOn'[u]])
                    /\ status'[u] = "Acquire" =>
                         u \in Able' \/ u \in Members(sleepqueue'[blockedOn'[u]])
  BY DEF NobodyForgotten
<1>1. CASE u = x
  BY <1>1
<1>2. CASE u # x
  <2>1. status'[u] \in Resumable => status'[u] = status[u] /\ blockedOn'[u] = blockedOn[u]
    BY <1>2 DEF OthersStay
  <2>2. status'[u] \in {"fresh", "Yield", "Join"} => u \in Able'
    BY <1>2, <2>1 DEF NobodyForgotten, Resumable
  <2>3. status'[u] = "P" => /\ blockedOn'[u] \in Semaphore
                            /\ u \in Able' \/ u \in Members(queue'[blockedOn'[u]])
    BY <1>2, <2>1 DEF NobodyForgotten, Resumable
  <2>4. status'[u] = "Acquire" => u \in Able' \/ u \in Members(sleepqueue'[blockedOn'[u]])
    BY <1>2, <2>1 DEF NobodyForgotten, AcquireOK, Resumable
  <2> QED BY <2>2, <2>3, <2>4
<1> QED BY <1>1, <1>2

\* The same for a step that leaves the queues of all objects alone.
LEMMA ForgottenFrameNoQueue ==
  ASSUME TypeOK, NobodyForgotten, AcquireOK, NEW x \in Thread, OthersStay(x),
         \A u \in Thread \ {x} : u \in Able => u \in Able',
         UNCHANGED <<queue, sleepqueue>>,
         status'[x] \in {"fresh", "Yield", "Join"} => x \in Able',
         status'[x] \notin {"P", "Acquire"}
  PROVE  NobodyForgotten'
BY ForgottenFrame

\* Sleep, and Yield when another thread is ready, forget nobody but t.
LEMMA DispatchReach ==
  ASSUME TypeOK, ReadyOK, NEW t \in Thread, OnCpu(t),
         Sleep \/ (readyList # <<>> /\ GiveWay(t))
  PROVE  /\ \A u \in Thread \ {t} : u \in Able => u \in Able'
         /\ ~Sleep => t \in Able'
<1>1. CASE readyList = <<>>
  <2>1. Sleep /\ Members(readyList) = {}
    BY <1>1, EmptyList
  <2> QED BY <2>1 DEF Able, OnCpu
<1>2. CASE readyList # <<>>
  <2>1. readyList \in Seq(Thread) /\ Tail(readyList) \in Seq(Thread)
    BY <1>2 DEF TypeOK, ThreadTypeOK
  <2>2. Members(readyList) = Members(Tail(readyList)) \cup {Head(readyList)}
    BY <1>2, <2>1, ListRemove
  <2>3. Members(Append(Tail(readyList), t)) = Members(Tail(readyList)) \cup {t}
    BY <2>1, ListAppend
  <2>4. g_current_thread' = Head(readyList) /\ cpu' = "switched"
    BY <1>2 DEF Sleep, GiveWay, SwitchTo
  <2>5. Members(Tail(readyList)) \subseteq Members(readyList') /\ (~Sleep => t \in Members(readyList'))
    BY <1>2, <2>2, <2>3 DEF Sleep, GiveWay
  <2>6. ASSUME NEW u \in Thread, u # t, u \in Able PROVE u \in Able'
    BY <2>2, <2>4, <2>5, <2>6 DEF Able, OnCpu
  <2>7. ~Sleep => t \in Able'
    BY <2>5 DEF Able
  <2> QED BY <2>6, <2>7
<1> QED BY <1>1, <1>2

\* A Yield that hands the CPU over is not a Sleep: the thread stays in the list.
LEMMA DispatchDiffers ==
  ASSUME TypeOK, NEW t \in Thread, readyList # <<>>, GiveWay(t)
  PROVE  ~Sleep
<1>1. Tail(readyList) \in Seq(Thread)
  BY DEF TypeOK, ThreadTypeOK
<1>2. Len(Append(Tail(readyList), t)) # Len(Tail(readyList))
  BY <1>1
<1> QED BY <1>2 DEF Sleep, GiveWay

\* A step that keeps the CPU and only adds to the ready list forgets nobody.
LEMMA ReachGrows ==
  ASSUME UNCHANGED g_current_thread, cpu # "idle" => cpu' # "idle",
         Members(readyList) \subseteq Members(readyList')
  PROVE  \A u \in Thread : u \in Able => u \in Able'
BY DEF Able, OnCpu

\* The current thread gives the CPU away outside P and Acquire.
LEMMA GiveAwayForgetsNobody ==
  ASSUME TypeOK, Live, NobodyForgotten, NEW t \in Thread, OnCpu(t),
         NEW to \in {"Yield", "Join", "Wait", "finished"}, status' = [status EXCEPT ![t] = to],
         Sleep \/ (readyList # <<>> /\ GiveWay(t)),
         Sleep => to \notin {"Yield", "Join"},
         \A u \in Thread : u # t => blockedOn'[u] = blockedOn[u],
         UNCHANGED synchVars
  PROVE  NobodyForgotten'
<1>1. /\ \A u \in Thread \ {t} : u \in Able => u \in Able'
      /\ ~Sleep => t \in Able'
  BY DispatchReach DEF Live
<1>2. status'[t] = to /\ OthersStay(t)
  BY DEF OthersStay, TypeOK, ThreadTypeOK
<1>3. UNCHANGED <<queue, sleepqueue>>
  BY DEF synchVars, semVars, lockVars
<1> QED BY <1>1, <1>2, <1>3, ForgottenFrameNoQueue DEF Live

\* The current thread enters or leaves the loop of Join and keeps the CPU.
LEMMA StayForgetsNobody ==
  ASSUME TypeOK, Live, NobodyForgotten, NEW t \in Thread, cpu = "running", g_current_thread = t,
         NEW to \in {"user", "Join"}, status' = [status EXCEPT ![t] = to],
         \A u \in Thread : u # t => blockedOn'[u] = blockedOn[u],
         UNCHANGED <<g_current_thread, readyList, cpu>>,
         UNCHANGED synchVars
  PROVE  NobodyForgotten'
<1>1. \A u \in Thread : u \in Able => u \in Able'
  BY ReachGrows
<1>2. t \in Able'
  BY DEF Able, OnCpu
<1>3. status'[t] = to /\ OthersStay(t)
  BY DEF OthersStay, TypeOK, ThreadTypeOK
<1>4. UNCHANGED <<queue, sleepqueue>>
  BY DEF synchVars, semVars, lockVars
<1> QED BY <1>1, <1>2, <1>3, <1>4, ForgottenFrameNoQueue DEF Live

\* The tail of SwitchTo, which may delete the carcass, forgets nobody.
LEMMA ResumedForgetsNobody ==
  ASSUME TypeOK, TypeOK', Live, NobodyForgotten, NEW t \in Thread, NEW to \in {"user", "Join"},
         Resumed(t, to), \A u \in Thread : u # t => blockedOn'[u] = blockedOn[u],
         UNCHANGED <<queue, sleepqueue>>
  PROVE  NobodyForgotten'
<1>1. /\ status'[t] = to
      /\ \A u \in Thread : u # t =>
           status'[u] = status[u] \/ (status[u] = "finished" /\ status'[u] = "deleted")
  BY ResumedGoesOn
<1>2. OthersStay(t)
  BY <1>1 DEF OthersStay, Resumable
<1>3. /\ cpu' = "running" /\ g_current_thread' = t
      /\ UNCHANGED <<g_current_thread, readyList>>
  BY DEF Resumed
<1>4. \A u \in Thread : u \in Able => u \in Able'
  BY <1>3, ReachGrows
<1>5. t \in Able'
  BY <1>3 DEF Able, OnCpu
<1> QED BY <1>1, <1>2, <1>4, <1>5, ForgottenFrameNoQueue DEF Live

\* A new thread goes to the ready list (NewThread, Exec).
LEMMA StartForgetsNobody ==
  ASSUME TypeOK, Live, NobodyForgotten, NEW u \in Thread,
         status' = [status EXCEPT ![u] = "fresh"], readyList' = Append(readyList, u),
         UNCHANGED synchVars, UNCHANGED <<g_current_thread, blockedOn, cpu>>
  PROVE  NobodyForgotten'
<1>1. Members(readyList') = Members(readyList) \cup {u}
  BY ListAppend DEF TypeOK, ThreadTypeOK
<1>2. \A x \in Thread : x \in Able => x \in Able'
  BY <1>1, ReachGrows
<1>3. u \in Able'
  BY <1>1 DEF Able
<1>4. status'[u] = "fresh" /\ OthersStay(u)
  BY DEF OthersStay, TypeOK, ThreadTypeOK
<1>5. UNCHANGED <<queue, sleepqueue>>
  BY DEF synchVars, semVars, lockVars
<1> QED BY <1>2, <1>3, <1>4, <1>5, ForgottenFrameNoQueue DEF Live

\* The operations of module Threads.
LEMMA ThreadStepForgetsNobody ==
  ASSUME TypeOK, TypeOK', Live, NobodyForgotten, NEW t \in Thread, ThreadStep(t), ~Stopped'
  PROVE  NobodyForgotten'
<1>1. UNCHANGED synchVars /\ UNCHANGED <<queue, sleepqueue>>
  BY DEF ThreadStep, synchVars, semVars, lockVars
<1>2. status \in [Thread -> Status]
  BY DEF TypeOK, ThreadTypeOK
<1>3. ASSUME NEW u \in Thread, NewThread(t, u) PROVE NobodyForgotten'
  BY <1>1, <1>3, StartForgetsNobody DEF NewThread
<1>4. ASSUME NEW u \in Thread, NEW p \in Proc, Exec(t, u, p) PROVE NobodyForgotten'
  BY <1>1, <1>4, StartForgetsNobody DEF Exec
<1>5. ASSUME NEW u \in Thread, Join(t, u) PROVE NobodyForgotten'
  <2>1. /\ cpu = "running" /\ g_current_thread = t /\ OnCpu(t)
        /\ status' = [status EXCEPT ![t] = "Join"] /\ GiveWay(t)
    BY <1>5 DEF Join, Running, OnCpu
  <2>2. \A x \in Thread : x # t => blockedOn'[x] = blockedOn[x]
    BY <1>5 DEF Join, TypeOK, ThreadTypeOK
  <2>3. CASE readyList # <<>>
    <3>1. ~Sleep
      BY <2>1, <2>3, DispatchDiffers
    <3> QED BY <1>1, <2>1, <2>2, <2>3, <3>1, GiveAwayForgetsNobody
  <2>4. CASE readyList = <<>>
    BY <1>1, <2>1, <2>2, <2>4, StayForgetsNobody DEF GiveWay
  <2> QED BY <2>3, <2>4
<1>6. CASE Yield(t)
  <2>1. /\ OnCpu(t) /\ readyList # <<>> /\ GiveWay(t) /\ UNCHANGED blockedOn
        /\ status' = [status EXCEPT ![t] = "Yield"]
    BY <1>6 DEF Yield, Running, OnCpu
  <2>2. ~Sleep
    BY <2>1, DispatchDiffers
  <2> QED BY <1>1, <2>1, <2>2, GiveAwayForgetsNobody
<1>7. CASE Finish(t)
  BY <1>1, <1>7, GiveAwayForgetsNobody DEF Finish, Running, OnCpu
<1>8. CASE HaltCall(t)
  BY <1>8 DEF HaltCall, Halt, Stopped
<1>9. CASE JoinLoop(t)
  <2>1. /\ cpu = "running" /\ g_current_thread = t /\ status[t] = "Join" /\ OnCpu(t)
    BY <1>9 DEF JoinLoop, OnCpu
  <2>2. \A x \in Thread : x # t => blockedOn'[x] = blockedOn[x]
    BY <1>9 DEF JoinLoop, TypeOK, ThreadTypeOK
  <2>3. CASE blockedOn[t] \notin g_alive
    BY <1>1, <1>9, <2>1, <2>2, <2>3, StayForgetsNobody DEF JoinLoop
  <2>4. CASE blockedOn[t] \in g_alive
    <3>1. status' = [status EXCEPT ![t] = "Join"] /\ GiveWay(t)
      BY <1>2, <1>9, <2>1, <2>4 DEF JoinLoop
    <3>2. CASE readyList # <<>>
      <4>1. ~Sleep
        BY <2>1, <3>1, <3>2, DispatchDiffers
      <4> QED BY <1>1, <2>1, <2>2, <3>1, <3>2, <4>1, GiveAwayForgetsNobody
    <3>3. CASE readyList = <<>>
      BY <1>1, <2>1, <2>2, <3>1, <3>3, StayForgetsNobody DEF GiveWay
    <3> QED BY <3>2, <3>3
  <2> QED BY <2>3, <2>4
<1>10. CASE StartThreadExecution(t)
  <2>1. status'[t] = "user" /\ OthersStay(t)
    BY <1>2, <1>10 DEF StartThreadExecution, OthersStay
  <2>2. \A u \in Thread : u \in Able => u \in Able'
    BY <1>10, ReachGrows DEF StartThreadExecution
  <2> QED BY <1>1, <2>1, <2>2, ForgottenFrameNoQueue DEF Live
<1>11. CASE ResumeYield(t)
  <2> DEFINE to == IF status[t] = "Yield" THEN "user" ELSE "Join"
  <2>1. to \in {"user", "Join"} /\ Resumed(t, to) /\ UNCHANGED blockedOn
    BY <1>11 DEF ResumeYield
  <2> HIDE DEF to
  <2> QED BY <1>1, <2>1, ResumedForgetsNobody
<1> QED BY <1>3, <1>4, <1>5, <1>6, <1>7, <1>8, <1>9, <1>10, <1>11 DEF ThreadStep

\* List::Remove: an item of the list stays in it or is the one removed.
LEMMA FirstAndRest ==
  ASSUME NEW list \in Seq(Thread)
  PROVE  /\ Members(list) = Members(First(list)) \cup Members(Rest(list))
         /\ list = <<>> => First(list) = <<>> /\ Rest(list) = <<>>
         /\ list # <<>> => /\ First(list) = <<Head(list)>> /\ Head(list) \in Thread
                           /\ Members(First(list)) = {Head(list)}
<1>1. CASE list = <<>>
  BY <1>1, EmptyList DEF First, Rest
<1>2. CASE list # <<>>
  <2>1. Members(list) = Members(Tail(list)) \cup {Head(list)}
    BY <1>2, ListRemove
  <2>2. First(list) = <<Head(list)>> /\ Rest(list) = Tail(list) /\ Head(list) \in Thread
    BY <1>2 DEF First, Rest
  <2>3. Members(<<Head(list)>>) = {Head(list)}
    BY DEF Members
  <2> QED BY <1>2, <2>1, <2>2, <2>3
<1> QED BY <1>1, <1>2

\* V and Release: the thread that leaves the list of an object becomes ready.
LEMMA WakeReaches ==
  ASSUME TypeOK, NEW list \in Seq(Thread), Wake(First(list))
  PROVE  /\ \A u \in Thread : u \in Able \/ u \in Members(First(list)) => u \in Able'
         /\ UNCHANGED <<status, blockedOn>>
<1>1. /\ readyList \in Seq(Thread) /\ readyList' = readyList \o First(list)
      /\ UNCHANGED <<g_current_thread, cpu>>
  BY DEF Wake, TypeOK, ThreadTypeOK
<1>2. Members(readyList') = Members(readyList) \cup Members(First(list))
  <2>1. CASE list = <<>>
    BY <1>1, <2>1, FirstAndRest, ListAppend, EmptyList, ThreadAssumption
  <2>2. CASE list # <<>>
    <3> DEFINE h == Head(list)
    <3>1. First(list) = <<h>> /\ h \in Thread /\ Members(First(list)) = {h}
      BY <2>2, FirstAndRest
    <3> HIDE DEF h
    <3>2. readyList' = Append(readyList, h) /\ Members(Append(readyList, h)) = Members(readyList) \cup {h}
      BY <1>1, <3>1, ListAppend
    <3> QED BY <3>1, <3>2
  <2> QED BY <2>1, <2>2
<1>3. \A u \in Thread : u \in Able => u \in Able'
  BY <1>1, <1>2, ReachGrows
<1>4. \A u \in Thread : u \in Members(First(list)) => u \in Able'
  BY <1>2 DEF Able
<1> QED BY <1>3, <1>4 DEF Wake

\* The operations on semaphores, locks and conditions.
LEMMA SynchStepForgetsNobody ==
  ASSUME TypeOK, TypeOK', Live, NobodyForgotten, NEW t \in Thread, SynchStep(t), ~Stopped'
  PROVE  NobodyForgotten'
<1>1. /\ queue \in [Semaphore -> Seq(Thread)] /\ sleepqueue \in [Lock -> Seq(Thread)]
      /\ waitqueue \in [Condition -> Seq(Thread)] /\ readyList \in Seq(Thread)
  BY DEF TypeOK, ThreadTypeOK, SynchTypeOK
<1>2. ASSUME UNCHANGED threadVars, UNCHANGED <<queue, sleepqueue>> PROVE NobodyForgotten'
  BY <1>2 DEF NobodyForgotten, Able, OnCpu, threadVars
<1>3. ASSUME NEW s \in Semaphore, P(t, s) PROVE NobodyForgotten'
  <2>1. CASE value[s] > 0
    BY <1>2, <1>3, <2>1 DEF P, lockVars, TypeOK, SynchTypeOK
  <2>2. CASE ~(value[s] > 0)
    <3>1. /\ Running(t) /\ Block(t, "P", s) /\ queue' = [queue EXCEPT ![s] = Append(@, t)]
          /\ UNCHANGED sleepqueue
      BY <1>3, <2>2 DEF P, lockVars
    <3>2. Asleep(t, "P", s)' /\ \A u \in Thread : u # t => status'[u] = status[u] /\ blockedOn'[u] = blockedOn[u]
      BY <3>1, BlockKeeps DEF Object
    <3>3. OthersStay(t)
      BY <3>2 DEF OthersStay
    <3>4. \A u \in Thread \ {t} : u \in Able => u \in Able'
      BY <3>1, DispatchReach DEF Live, Block, Running, OnCpu
    <3>5. /\ t \in Members(queue'[s])
          /\ \A x \in Semaphore : Members(queue[x]) \subseteq Members(queue'[x])
      <4>1. queue'[s] = Append(queue[s], t) /\ \A x \in Semaphore \ {s} : queue'[x] = queue[x]
        BY <1>1, <3>1
      <4>2. Members(Append(queue[s], t)) = Members(queue[s]) \cup {t}
        BY <1>1, ListAppend
      <4> QED BY <4>1, <4>2
    <3>6. status'[t] = "P" /\ blockedOn'[t] = s
      BY <3>2 DEF Asleep
    <3> QED BY <3>1, <3>3, <3>4, <3>5, <3>6, ForgottenFrame DEF Live
  <2> QED BY <2>1, <2>2
<1>4. ASSUME NEW s \in Semaphore, V(t, s) PROVE NobodyForgotten'
  <2>1. /\ Wake(First(queue[s])) /\ queue' = [queue EXCEPT ![s] = Rest(@)]
        /\ UNCHANGED sleepqueue /\ status[t] = "user"
    BY <1>4 DEF V, SemV, Running, lockVars
  <2>2. queue[s] \in Seq(Thread)
    BY <1>1
  <2>3. /\ \A u \in Thread : u \in Able \/ u \in Members(First(queue[s])) => u \in Able'
        /\ UNCHANGED <<status, blockedOn>>
    BY <2>1, <2>2, WakeReaches
  <2>4. \A x \in Semaphore : \A u \in Members(queue[x]) :
          u \in Members(queue'[x]) \/ u \in Members(First(queue[s]))
    <3>1. queue'[s] = Rest(queue[s]) /\ \A x \in Semaphore \ {s} : queue'[x] = queue[x]
      BY <1>1, <2>1
    <3> QED BY <2>2, <3>1, FirstAndRest
  <2> QED BY <2>1, <2>3, <2>4, ForgottenFrame DEF Live, OthersStay
<1>5. ASSUME NEW l \in Lock, Acquire(t, l) PROVE NobodyForgotten'
  <2>1. CASE free[l]
    BY <1>2, <1>5, <2>1 DEF Acquire, semVars
  <2>2. CASE ~free[l]
    <3>1. /\ Running(t) /\ Block(t, "Acquire", l) /\ sleepqueue' = [sleepqueue EXCEPT ![l] = Append(@, t)]
          /\ UNCHANGED queue
      BY <1>5, <2>2 DEF Acquire, semVars
    <3>2. Asleep(t, "Acquire", l)' /\ \A u \in Thread : u # t => status'[u] = status[u] /\ blockedOn'[u] = blockedOn[u]
      BY <3>1, BlockKeeps DEF Object
    <3>3. OthersStay(t)
      BY <3>2 DEF OthersStay
    <3>4. \A u \in Thread \ {t} : u \in Able => u \in Able'
      BY <3>1, DispatchReach DEF Live, Block, Running, OnCpu
    <3>5. /\ t \in Members(sleepqueue'[l])
          /\ \A x \in Lock : Members(sleepqueue[x]) \subseteq Members(sleepqueue'[x])
      <4>1. sleepqueue'[l] = Append(sleepqueue[l], t) /\ \A x \in Lock \ {l} : sleepqueue'[x] = sleepqueue[x]
        BY <1>1, <3>1
      <4>2. Members(Append(sleepqueue[l], t)) = Members(sleepqueue[l]) \cup {t}
        BY <1>1, ListAppend
      <4> QED BY <4>1, <4>2
    <3>6. status'[t] = "Acquire" /\ blockedOn'[t] = l
      BY <3>2 DEF Asleep
    <3> QED BY <3>1, <3>3, <3>4, <3>5, <3>6, ForgottenFrame DEF Live
  <2> QED BY <2>1, <2>2
<1>6. ASSUME NEW l \in Lock, Release(t, l) PROVE NobodyForgotten'
  <2>0. owner[l] = t
    BY <1>6 DEF Release, Abort, Stopped
  <2>1. /\ Wake(First(sleepqueue[l])) /\ sleepqueue' = [sleepqueue EXCEPT ![l] = Rest(@)]
        /\ UNCHANGED queue /\ status[t] = "user"
    BY <1>6, <2>0 DEF Release, Running, semVars
  <2>2. sleepqueue[l] \in Seq(Thread)
    BY <1>1
  <2>3. /\ \A u \in Thread : u \in Able \/ u \in Members(First(sleepqueue[l])) => u \in Able'
        /\ UNCHANGED <<status, blockedOn>>
    BY <2>1, <2>2, WakeReaches
  <2>4. \A x \in Lock : \A u \in Members(sleepqueue[x]) :
          u \in Members(sleepqueue'[x]) \/ u \in Members(First(sleepqueue[l]))
    <3>1. sleepqueue'[l] = Rest(sleepqueue[l]) /\ \A x \in Lock \ {l} : sleepqueue'[x] = sleepqueue[x]
      BY <1>1, <2>1
    <3> QED BY <2>2, <3>1, FirstAndRest
  <2> QED BY <2>1, <2>3, <2>4, ForgottenFrame DEF Live, OthersStay
<1>7. ASSUME NEW c \in Condition, Wait(t, c) PROVE NobodyForgotten'
  <2>1. /\ OnCpu(t) /\ status' = [status EXCEPT ![t] = "Wait"] /\ Sleep /\ UNCHANGED synchVars
    BY <1>7 DEF Wait, Block, Running, OnCpu
  <2>2. \A u \in Thread : u # t => blockedOn'[u] = blockedOn[u]
    BY <1>7 DEF Wait, Block, TypeOK, ThreadTypeOK
  <2> QED BY <2>1, <2>2, GiveAwayForgetsNobody
<1>8. ASSUME NEW c \in Condition, Signal(t, c) \/ Broadcast(t, c) PROVE NobodyForgotten'
  <2>1. waitqueue[c] = <<>>
    BY DEF Live, QueuesOK
  <2>2. Wake(<<>>) /\ UNCHANGED <<queue, sleepqueue>>
    BY <1>8, <2>1 DEF Signal, Broadcast, First, semVars, lockVars
  <2>3. UNCHANGED threadVars
    BY <1>1, <2>2 DEF Wake, threadVars
  <2> QED BY <1>2, <2>2, <2>3
<1>9. ASSUME UNCHANGED threadVars \/ Abort, UNCHANGED <<semVars, lockVars>> PROVE NobodyForgotten'
  BY <1>2, <1>9 DEF Abort, Stopped, semVars, lockVars
<1>10. ASSUME NEW s \in Semaphore, SemDestroy(t, s) PROVE NobodyForgotten'
  BY <1>9, <1>10 DEF SemDestroy
<1>11. ASSUME NEW s \in Semaphore, NEW v \in InitialValue, SemCreate(t, s, v) PROVE NobodyForgotten'
  BY <1>2, <1>11 DEF SemCreate, lockVars
<1>12. ASSUME NEW l \in Lock, LockCreate(t, l) \/ LockDestroy(t, l) PROVE NobodyForgotten'
  BY <1>9, <1>12 DEF LockCreate, LockDestroy
<1>13. ASSUME NEW c \in Condition, CondCreate(t, c) \/ CondDestroy(t, c) PROVE NobodyForgotten'
  BY <1>9, <1>13 DEF CondCreate, CondDestroy
<1>14. ASSUME NEW op \in Status, Return(t, op), UNCHANGED <<queue, sleepqueue>> PROVE NobodyForgotten'
  <2>1. Resumed(t, "user") /\ \A u \in Thread : u # t => blockedOn'[u] = blockedOn[u]
    BY <1>14 DEF Return, TypeOK, ThreadTypeOK
  <2> QED BY <1>14, <2>1, ResumedForgetsNobody
<1>15. CASE ReturnP(t) \/ ReturnAcquire(t)
  BY <1>14, <1>15, Values DEF ReturnP, ReturnAcquire, semVars, lockVars
<1> QED BY <1>3, <1>4, <1>5, <1>6, <1>7, <1>8, <1>10, <1>11, <1>12, <1>13, <1>15 DEF SynchStep

\* Booting forgets nobody either.
LEMMA MachineStepForgetsNobody ==
  ASSUME TypeOK, TypeOK', Live, NobodyForgotten, MachineStep, ~Stopped'
  PROVE  NobodyForgotten'
<1>1. UNCHANGED synchVars /\ UNCHANGED <<queue, sleepqueue>>
  BY DEF MachineStep, synchVars, semVars, lockVars
<1>2. ASSUME NEW u \in Thread, NEW p \in Proc, Main(u, p) PROVE NobodyForgotten'
  <2>1. /\ status[u] = "none" /\ status[Root] = "user" /\ g_current_thread = Root
        /\ status' = [status EXCEPT ![u] = "fresh", ![Root] = "finished"]
        /\ g_current_thread' = u /\ cpu' = "switched" /\ UNCHANGED <<readyList, blockedOn>>
    BY <1>2 DEF Main, StartIn, SwitchTo, Live, CpuOK
  <2>2. /\ status'[u] = "fresh" /\ status'[Root] = "finished"
        /\ \A x \in Thread : x # u /\ x # Root => status'[x] = status[x]
    BY <2>1, ThreadAssumption DEF TypeOK, ThreadTypeOK
  <2>3. Root \notin Members(readyList)
    BY <2>1, ThreadAssumption DEF Live, ReadyOK, Resumable
  <2>4. ASSUME NEW x \in Thread, status'[x] \in Resumable, x # u
        PROVE  status'[x] = status[x] /\ blockedOn'[x] = blockedOn[x] /\ (x \in Able => x \in Able')
    <3>1. x # Root
      BY <2>2, <2>4 DEF Resumable
    <3> QED BY <2>1, <2>2, <2>4, <3>1 DEF Able, OnCpu
  <2>5. u \in Able'
    BY <2>1 DEF Able, OnCpu
  <2> QED BY <1>1, <2>2, <2>4, <2>5 DEF NobodyForgotten, Resumable
<1>3. CASE MainNoProgram
  <2>1. /\ OnCpu(Root) /\ status' = [status EXCEPT ![Root] = "finished"] /\ Sleep
        /\ UNCHANGED blockedOn
    BY <1>3 DEF MainNoProgram, Live, CpuOK, OnCpu
  <2> QED BY <1>1, <2>1, GiveAwayForgetsNobody, ThreadAssumption
<1>4. CASE IdleHalt
  BY <1>4 DEF IdleHalt, Halt, Stopped
<1> QED BY <1>2, <1>3, <1>4 DEF MachineStep

\* The threads of every list are reachable or asleep where they say.
LEMMA LocatedFromInvariant ==
  ASSUME TypeOK, Live, NobodyForgotten
  PROVE  EveryThreadLocated
<1> USE DEF Live
<1>1. /\ Members(readyList) \subseteq Thread
      /\ \A s \in Semaphore : QueueOf(s) = queue[s]
      /\ \A l \in Lock : QueueOf(l) = sleepqueue[l]
      /\ \A c \in Condition : QueueOf(c) = <<>> /\ Members(QueueOf(c)) = {}
  BY SynchAssumption, ListMembers, EmptyList DEF QueueOf, TypeOK, ThreadTypeOK, QueuesOK
<1>2. NoRepeats(readyList) /\ \A o \in Object : NoRepeats(QueueOf(o))
  BY <1>1, EmptyList DEF ReadyOK, QueuesOK, Object
<1>3. ASSUME NEW t \in Thread, NEW o \in Object, t \in Members(QueueOf(o))
      PROVE  /\ status[t] \in {"P", "Acquire"} /\ blockedOn[t] = o
             /\ t \notin Members(readyList) /\ ~OnCpu(t)
  BY <1>1, <1>3 DEF QueuesOK, Object, Asleep
<1> SUFFICES ASSUME NEW t \in Thread
             PROVE  /\ status[t] \in {"none", "finished", "deleted", "Wait", "user"} => Places(t) = {}
                    /\ status[t] = "user" => OnCpu(t)
                    /\ status[t] \in {"fresh", "Yield", "Join"} =>
                         Places(t) = IF OnCpu(t) THEN {} ELSE {NULL}
                    /\ status[t] \in {"P", "Acquire"} =>
                         IF OnCpu(t) THEN Places(t) = {}
                         ELSE Places(t) \in {{NULL}, {blockedOn[t]}}
  BY <1>2 DEF EveryThreadLocated
<1>4. t \in Members(readyList) => status[t] \in Resumable /\ ~OnCpu(t)
  BY DEF ReadyOK
<1>5. status[t] \in {"none", "finished", "deleted", "Wait", "user"} => Places(t) = {}
  BY <1>3, <1>4 DEF Places, Resumable
<1>6. status[t] = "user" => OnCpu(t)
  BY DEF CpuOK
<1>7. ASSUME status[t] \in {"fresh", "Yield", "Join"}
      PROVE  Places(t) = IF OnCpu(t) THEN {} ELSE {NULL}
  BY <1>3, <1>4, <1>7 DEF Places, NobodyForgotten, Able
<1>8. ASSUME status[t] \in {"P", "Acquire"}
      PROVE  IF OnCpu(t) THEN Places(t) = {} ELSE Places(t) \in {{NULL}, {blockedOn[t]}}
  <2>1. CASE OnCpu(t)
    BY <1>3, <1>4, <2>1 DEF Places
  <2>2. CASE ~OnCpu(t) /\ t \in Members(readyList)
    <3>1. Places(t) = {NULL}
      BY <1>3, <2>2 DEF Places
    <3> QED BY <2>2, <3>1
  <2>3. CASE ~OnCpu(t) /\ t \notin Members(readyList)
    <3>1. t \in Members(QueueOf(blockedOn[t])) /\ blockedOn[t] \in Object
      BY <1>1, <1>8, <2>3 DEF NobodyForgotten, AcquireOK, Able, Object
    <3>2. Places(t) = {blockedOn[t]}
      BY <1>3, <2>3, <3>1 DEF Places
    <3> QED BY <2>3, <3>2
  <2> QED BY <2>1, <2>2, <2>3
<1> QED BY <1>5, <1>6, <1>7, <1>8

-----------------------------------------------------------------------------
(* StaffOK: Process::numThreads *)

\* A step that starts and deletes no thread keeps every staff.
LEMMA StaffFrame ==
  ASSUME StaffOK, UNCHANGED <<process, numThreads, procState>>,
         \A t \in Thread : /\ status'[t] = "deleted" <=> status[t] = "deleted"
                           /\ status'[t] = "none" => status[t] = "none"
  PROVE  StaffOK'
<1>1. \A p \in Proc : Staff(p)' = Staff(p)
  BY DEF Staff
<1> QED BY <1>1 DEF StaffOK

\* Thread::Start puts u on the staff of p.
LEMMA StartKeepsStaff ==
  ASSUME TypeOK, StaffOK, NEW u \in Thread, NEW p \in Proc \cup {NULL}, StartIn(u, p),
         status'[u] = "fresh",
         \A t \in Thread \ {u} : /\ status'[t] = "deleted" <=> status[t] = "deleted"
                                 /\ status'[t] = "none" => status[t] = "none",
         \/ UNCHANGED procState /\ \E t \in Thread : process[t] = p /\ status[t] # "deleted"
         \/ procState' = [procState EXCEPT ![p] = "live"]
  PROVE  StaffOK'
<1>1. /\ process \in [Thread -> Proc \cup {NULL}] /\ numThreads \in [Proc -> Int]
      /\ procState \in [Proc -> {"none", "live", "deleted"}]
  BY DEF TypeOK, ThreadTypeOK
<1>2. /\ status[u] = "none" /\ process[u] = NULL /\ process'[u] = p
      /\ \A t \in Thread \ {u} : process'[t] = process[t]
  BY <1>1 DEF StartIn, StaffOK
<1>3. ASSUME NEW q \in Proc, q # p
      PROVE  Staff(q)' = Staff(q) /\ numThreads'[q] = numThreads[q] /\ procState'[q] = procState[q]
  <2>1. Staff(q)' = Staff(q)
    BY <1>2, <1>3, ThreadAssumption DEF Staff
  <2> QED BY <1>1, <1>3, <2>1 DEF StartIn
<1>4. ASSUME p \in Proc
      PROVE  /\ IsFiniteSet(Staff(p)') /\ numThreads'[p] = Cardinality(Staff(p)')
             /\ procState'[p] = "live" /\ numThreads'[p] > 0
  <2>1. Staff(p)' = Staff(p) \cup {u} /\ u \notin Staff(p)
    BY <1>2, <1>4, ThreadAssumption DEF Staff
  <2>2. IsFiniteSet(Staff(p)) /\ numThreads[p] = Cardinality(Staff(p))
    BY <1>4 DEF StaffOK
  <2>3. IsFiniteSet(Staff(p)') /\ Cardinality(Staff(p)') = Cardinality(Staff(p)) + 1
    BY <2>1, <2>2, FS_AddElement
  <2>4. Cardinality(Staff(p)) \in Nat /\ (Staff(p) # {} => Cardinality(Staff(p)) > 0)
    BY <2>2, FS_CardinalityType, FS_EmptySet
  <2>5. numThreads'[p] = numThreads[p] + 1
    BY <1>1, <1>4 DEF StartIn
  <2>6. procState'[p] = "live"
    BY <1>1, <1>4, <2>2, <2>4 DEF Staff, StaffOK
  <2> QED BY <2>2, <2>3, <2>4, <2>5, <2>6
<1>5. \A t \in Thread : status'[t] = "none" => process'[t] = NULL
  BY <1>2 DEF StaffOK
<1> QED BY <1>3, <1>4, <1>5 DEF StaffOK

\* ~Thread takes the carcass x off the staff of its process.
LEMMA DestroyKeepsStaff ==
  ASSUME TypeOK, StaffOK, NEW x \in Thread, Destroy(x), UNCHANGED process,
         status[x] \notin {"none", "deleted"}, status'[x] = "deleted",
         \A t \in Thread \ {x} : /\ status'[t] = "deleted" <=> status[t] = "deleted"
                                 /\ status'[t] = "none" => status[t] = "none"
  PROVE  StaffOK'
<1>0. PICK p : p = process[x]
  OBVIOUS
<1>1. /\ p \in Proc \cup {NULL} /\ numThreads \in [Proc -> Int]
      /\ procState \in [Proc -> {"none", "live", "deleted"}]
  BY <1>0 DEF TypeOK, ThreadTypeOK
<1>2. /\ numThreads' = [numThreads EXCEPT ![p] = @ - 1]
      /\ procState' = IF numThreads[p] = 1 THEN [procState EXCEPT ![p] = "deleted"] ELSE procState
  BY <1>0 DEF Destroy
<1>3. ASSUME NEW q \in Proc, q # p
      PROVE  Staff(q)' = Staff(q) /\ numThreads'[q] = numThreads[q] /\ procState'[q] = procState[q]
  <2>1. Staff(q)' = Staff(q)
    BY <1>0, <1>3 DEF Staff
  <2> QED BY <1>1, <1>2, <1>3, <2>1
<1>4. ASSUME p \in Proc
      PROVE  /\ IsFiniteSet(Staff(p)') /\ numThreads'[p] = Cardinality(Staff(p)')
             /\ procState'[p] = "live" <=> numThreads'[p] > 0
  <2>1. Staff(p)' = Staff(p) \ {x} /\ x \in Staff(p)
    BY <1>0 DEF Staff
  <2>2. /\ IsFiniteSet(Staff(p)) /\ numThreads[p] = Cardinality(Staff(p))
        /\ procState[p] = "live" <=> numThreads[p] > 0
    BY <1>4 DEF StaffOK
  <2>3. IsFiniteSet(Staff(p)') /\ Cardinality(Staff(p)') = Cardinality(Staff(p)) - 1
    BY <2>1, <2>2, FS_RemoveElement
  <2>4. Cardinality(Staff(p)) \in Nat /\ Cardinality(Staff(p)') \in Nat
    BY <2>2, <2>3, FS_CardinalityType
  <2>5. numThreads'[p] = numThreads[p] - 1
    BY <1>1, <1>2, <1>4
  <2>6. procState'[p] = IF numThreads[p] = 1 THEN "deleted" ELSE procState[p]
    BY <1>1, <1>2, <1>4
  <2> QED BY <2>2, <2>3, <2>4, <2>5, <2>6
<1>5. \A t \in Thread : status'[t] = "none" => process'[t] = NULL
  BY DEF StaffOK
<1>6. ASSUME NEW q \in Proc
      PROVE  /\ IsFiniteSet(Staff(q)') /\ numThreads'[q] = Cardinality(Staff(q)')
             /\ procState'[q] = "live" <=> numThreads'[q] > 0
  <2>1. CASE q = p
    BY <1>4, <2>1
  <2>2. CASE q # p
    BY <1>3, <2>2 DEF StaffOK
  <2> QED BY <2>1, <2>2
<1> QED BY <1>5, <1>6 DEF StaffOK

\* The tail of SwitchTo deletes the carcass, and no other thread.
LEMMA ResumedKeepsStaff ==
  ASSUME TypeOK, CpuOK, StaffOK, NEW t \in Thread, NEW to \in {"user", "Join"}, Resumed(t, to)
  PROVE  StaffOK'
<1> DEFINE x == g_thread_to_be_destroyed
<1>1. status \in [Thread -> Status] /\ x \in Thread \cup {NULL} /\ status[t] \in Resumable
  BY DEF TypeOK, ThreadTypeOK, CpuOK, Resumed
<1>2. CASE x = NULL
  <2>1. status' = [status EXCEPT ![t] = to] /\ UNCHANGED <<process, numThreads, procState>>
    BY <1>2 DEF Resumed
  <2> QED BY <1>1, <2>1, StaffFrame DEF Resumable
<1>3. CASE x # NULL
  <2>1. /\ status' = [status EXCEPT ![x] = "deleted", ![t] = to]
        /\ Destroy(x) /\ UNCHANGED process
    BY <1>3 DEF Resumed
  <2>2. x \in Thread /\ status[x] = "finished" /\ x # t
    BY <1>1, <1>3 DEF CpuOK, Resumable
  <2> HIDE DEF x
  <2>3. status'[x] = "deleted" /\ status'[t] = to /\ \A u \in Thread \ {x, t} : status'[u] = status[u]
    BY <1>1, <2>1, <2>2
  <2> QED BY <1>1, <2>1, <2>2, <2>3, DestroyKeepsStaff DEF Resumable
<1> QED BY <1>2, <1>3

\* A step in which the current thread t goes to status "to", and no other does.
LEMMA MovesKeepStaff ==
  ASSUME TypeOK, StaffOK, NEW t \in Thread, status[t] \in {"user", "Join", "fresh"},
         NEW to \in Status \ {"none", "deleted"}, status' = [status EXCEPT ![t] = to],
         UNCHANGED <<process, numThreads, procState>>
  PROVE  StaffOK'
<1>1. status'[t] = to /\ \A u \in Thread \ {t} : status'[u] = status[u]
  BY DEF TypeOK, ThreadTypeOK
<1> QED BY <1>1, StaffFrame

\* Every step that goes on keeps the staffs: only Start, Exec and ~Thread change them.
LEMMA StaffKept ==
  ASSUME TypeOK, Live, StaffOK, NEW t \in Thread, ThreadStep(t) \/ SynchStep(t) \/ MachineStep,
         ~Stopped'
  PROVE  StaffOK'
<1> USE Values
<1>1. status \in [Thread -> Status] /\ CpuOK /\ "none" # "fresh"
  BY DEF TypeOK, ThreadTypeOK, Live
<1>2. ASSUME UNCHANGED <<status, process, numThreads, procState>> PROVE StaffOK'
  BY <1>2, StaffFrame
<1>3. ASSUME NEW u \in Thread, NewThread(t, u) PROVE StaffOK'
  <2>1. /\ StartIn(u, process[t]) /\ UNCHANGED procState /\ status[t] = "user"
        /\ status'[u] = "fresh" /\ \A x \in Thread \ {u} : status'[x] = status[x]
        /\ process[t] \in Proc \cup {NULL}
    BY <1>1, <1>3 DEF NewThread, Running, TypeOK, ThreadTypeOK
  <2> QED BY <2>1, StartKeepsStaff
<1>4. ASSUME NEW u \in Thread, NEW p \in Proc, Exec(t, u, p) PROVE StaffOK'
  <2>1. /\ StartIn(u, p) /\ procState' = [procState EXCEPT ![p] = "live"]
        /\ status'[u] = "fresh" /\ \A x \in Thread \ {u} : status'[x] = status[x]
    BY <1>1, <1>4 DEF Exec
  <2> QED BY <2>1, StartKeepsStaff
<1>5. ASSUME NEW u \in Thread, Join(t, u) PROVE StaffOK'
  BY <1>5, MovesKeepStaff DEF Join, Running
<1>6. CASE Yield(t)
  BY <1>6, MovesKeepStaff DEF Yield, Running
<1>7. CASE Finish(t)
  BY <1>7, MovesKeepStaff DEF Finish, Running
<1>8. ASSUME Halt PROVE FALSE
  BY <1>8 DEF Halt, Stopped
<1>9. CASE JoinLoop(t)
  <2>1. UNCHANGED status \/ status' = [status EXCEPT ![t] = "user"]
    BY <1>9 DEF JoinLoop
  <2> QED BY <1>2, <1>9, <2>1, MovesKeepStaff DEF JoinLoop
<1>10. CASE StartThreadExecution(t)
  BY <1>10, MovesKeepStaff DEF StartThreadExecution
<1>11. CASE ResumeYield(t)
  <2> DEFINE to == IF status[t] = "Yield" THEN "user" ELSE "Join"
  <2>1. to \in {"user", "Join"} /\ Resumed(t, to)
    BY <1>11 DEF ResumeYield
  <2> HIDE DEF to
  <2> QED BY <1>1, <2>1, ResumedKeepsStaff
<1>12. CASE ThreadStep(t)
  BY <1>3, <1>4, <1>5, <1>6, <1>7, <1>8, <1>9, <1>10, <1>11, <1>12 DEF ThreadStep, HaltCall
<1>13. ASSUME NEW op \in Status \ {"none", "deleted"}, NEW o \in Object, Running(t), Block(t, op, o)
       PROVE  StaffOK'
  BY <1>13, MovesKeepStaff DEF Block, Running
<1>14. ASSUME UNCHANGED threadVars \/ Abort \/ \E list \in Seq(Thread) : Wake(list)
       PROVE  StaffOK'
  BY <1>2, <1>14 DEF threadVars, Abort, Wake
<1>15. \A s \in Semaphore : First(queue[s]) \in Seq(Thread)
  BY ListTypes DEF TypeOK, SynchTypeOK
<1>16. \A l \in Lock : First(sleepqueue[l]) \in Seq(Thread)
  BY ListTypes DEF TypeOK, SynchTypeOK
<1>17. \A c \in Condition : First(waitqueue[c]) \in Seq(Thread) /\ waitqueue[c] \in Seq(Thread)
  BY ListTypes DEF TypeOK, SynchTypeOK
<1>18. ASSUME NEW s \in Semaphore,
              P(t, s) \/ V(t, s) \/ SemDestroy(t, s) \/ \E v \in InitialValue : SemCreate(t, s, v)
       PROVE  StaffOK'
  BY <1>13, <1>14, <1>15, <1>18 DEF P, V, SemV, SemDestroy, SemCreate, Object
<1>19. ASSUME NEW l \in Lock, Acquire(t, l) \/ Release(t, l) \/ LockCreate(t, l) \/ LockDestroy(t, l)
       PROVE  StaffOK'
  BY <1>13, <1>14, <1>16, <1>19 DEF Acquire, Release, LockCreate, LockDestroy, Object
<1>20. ASSUME NEW c \in Condition,
              \/ Wait(t, c) \/ Signal(t, c) \/ Broadcast(t, c)
              \/ CondCreate(t, c) \/ CondDestroy(t, c)
       PROVE  StaffOK'
  BY <1>13, <1>14, <1>17, <1>20 DEF Wait, Signal, Broadcast, CondCreate, CondDestroy, Object
<1>21. CASE ReturnP(t) \/ ReturnAcquire(t)
  BY <1>1, <1>21, ResumedKeepsStaff DEF ReturnP, ReturnAcquire, Return
<1>22. CASE SynchStep(t)
  BY <1>18, <1>19, <1>20, <1>21, <1>22 DEF SynchStep
<1>23. ASSUME NEW u \in Thread, NEW p \in Proc, Main(u, p) PROVE StaffOK'
  <2>1. /\ StartIn(u, p) /\ procState' = [procState EXCEPT ![p] = "live"]
        /\ status[u] = "none" /\ status[Root] = "user" /\ Root \in Thread
        /\ status' = [status EXCEPT ![u] = "fresh", ![Root] = "finished"]
    BY <1>1, <1>23, ThreadAssumption DEF Main, StartIn, CpuOK
  <2>2. /\ status'[u] = "fresh" /\ status'[Root] = "finished"
        /\ \A x \in Thread \ {u, Root} : status'[x] = status[x]
    BY <1>1, <2>1
  <2> QED BY <2>1, <2>2, StartKeepsStaff
<1>24. CASE MainNoProgram
  <2>1. status[Root] = "user" /\ Root \in Thread
    BY <1>1, <1>24, ThreadAssumption DEF MainNoProgram, CpuOK
  <2> QED BY <1>24, <2>1, MovesKeepStaff DEF MainNoProgram
<1>25. CASE MachineStep
  BY <1>8, <1>23, <1>24, <1>25 DEF MachineStep, IdleHalt
<1> QED BY <1>12, <1>22, <1>25

-----------------------------------------------------------------------------
(* WokenOK: the count of the threads that V has woken *)

\* A step that keeps value, queue and the sleepers of every semaphore.
LEMMA WokenFrame ==
  ASSUME WokenOK, UNCHANGED <<value, queue>>,
         \A s \in Semaphore : typeId[s] # "none" => typeId'[s] # "none",
         \A u \in Thread, s \in Semaphore :
           (status'[u] = "P" /\ blockedOn'[u] = s) <=> (status[u] = "P" /\ blockedOn[u] = s)
  PROVE  WokenOK'
<1>1. \A s \in Semaphore : Woken(s)' = Woken(s)
  BY DEF Woken
<1> QED BY <1>1 DEF WokenOK

\* The same when only thread t changes and it is in P neither before nor after.
LEMMA WokenFrameOne ==
  ASSUME TypeOK, WokenOK, NEW t \in Thread, status[t] # "P", status'[t] # "P",
         \A u \in Thread \ {t} : /\ status'[u] = "P" <=> status[u] = "P"
                                 /\ status[u] = "P" => blockedOn'[u] = blockedOn[u],
         UNCHANGED <<typeId, value, queue>>
  PROVE  WokenOK'
BY WokenFrame

\* The tail of SwitchTo deletes no thread that was woken.
LEMMA ResumedKeepsWoken ==
  ASSUME TypeOK, TypeOK', Live, WokenOK, NEW t \in Thread, NEW to \in {"user", "Join"},
         Resumed(t, to), status[t] # "P",
         \A u \in Thread : u # t => blockedOn'[u] = blockedOn[u],
         UNCHANGED <<typeId, value, queue>>
  PROVE  WokenOK'
<1>1. /\ status'[t] = to
      /\ \A u \in Thread : u # t =>
           status'[u] = status[u] \/ (status[u] = "finished" /\ status'[u] = "deleted")
  BY ResumedGoesOn
<1> QED BY <1>1, WokenFrameOne

\* P: a unit is taken, or the thread joins the sleepers when there is none.
LEMMA PKeepsWoken ==
  ASSUME TypeOK, TypeOK', Live, WokenOK, NEW t \in Thread, NEW s \in Semaphore, P(t, s)
  PROVE  WokenOK'
<1>1. /\ value \in [Semaphore -> Int] /\ queue \in [Semaphore -> Seq(Thread)]
      /\ status[t] = "user" /\ typeId[s] = "live" /\ UNCHANGED typeId
  BY DEF P, Running, TypeOK, SynchTypeOK
<1>2. CASE value[s] > 0
  <2>1. value' = [value EXCEPT ![s] = @ - 1] /\ UNCHANGED <<queue, status, blockedOn>>
    BY <1>1, <1>2 DEF P, threadVars
  <2>2. \A r \in Semaphore : Woken(r)' = Woken(r)
    BY <2>1 DEF Woken
  <2>3. \A r \in Semaphore : value'[r] <= value[r] /\ value'[r] \in Int
    BY <1>1, <2>1
  <2>4. \A r \in Semaphore : IsFiniteSet(Woken(r)) /\ Cardinality(Woken(r)) \in Nat
    BY FS_CardinalityType DEF WokenOK
  <2> QED BY <1>1, <2>1, <2>2, <2>3, <2>4 DEF WokenOK
<1>3. CASE ~(value[s] > 0)
  <2>1. /\ Running(t) /\ Block(t, "P", s) /\ queue' = [queue EXCEPT ![s] = Append(@, t)]
        /\ UNCHANGED value
    BY <1>1, <1>3 DEF P
  <2>2. /\ status'[t] = "P" /\ blockedOn'[t] = s
        /\ \A u \in Thread : u # t => status'[u] = status[u] /\ blockedOn'[u] = blockedOn[u]
    BY <2>1, BlockKeeps DEF Object, Asleep
  <2>3. /\ queue'[s] = Append(queue[s], t)
        /\ \A r \in Semaphore : r # s => queue'[r] = queue[r]
        /\ Members(Append(queue[s], t)) = Members(queue[s]) \cup {t}
    BY <1>1, <2>1, ListAppend
  <2>4. ASSUME NEW r \in Semaphore PROVE Woken(r)' = Woken(r)
    <3>1. \A u \in Thread : u # t => (u \in Members(queue'[r]) <=> u \in Members(queue[r]))
      BY <2>3
    <3>2. t \notin Woken(r) /\ t \notin Woken(r)'
      BY <1>1, <2>2, <2>3 DEF Woken
    <3>3. \A u \in Thread : u # t => (u \in Woken(r)' <=> u \in Woken(r))
      BY <2>2, <3>1 DEF Woken
    <3>4. Woken(r) \subseteq Thread /\ Woken(r)' \subseteq Thread
      BY DEF Woken
    <3> QED BY <3>2, <3>3, <3>4
  <2>5. IsFiniteSet(Woken(s)) /\ Cardinality(Woken(s)) \in Nat /\ value[s] <= Cardinality(Woken(s))
    <3>1. Cardinality(Woken(s)) \in Nat /\ IsFiniteSet(Woken(s))
      BY FS_CardinalityType DEF WokenOK
    <3> QED BY <1>1, <1>3, <3>1
  <2> QED BY <1>1, <2>1, <2>3, <2>4, <2>5 DEF WokenOK
<1> QED BY <1>2, <1>3

\* V: the unit it adds is the reason for the thread it wakes.
LEMMA SemVKeepsWoken ==
  ASSUME TypeOK, Live, WokenOK, NEW s \in Semaphore, SemV(s)
  PROVE  WokenOK'
<1>1. /\ value \in [Semaphore -> Int] /\ queue \in [Semaphore -> Seq(Thread)]
      /\ value' = [value EXCEPT ![s] = @ + 1] /\ queue' = [queue EXCEPT ![s] = Rest(@)]
      /\ UNCHANGED <<status, blockedOn, typeId>>
  BY DEF SemV, Wake, TypeOK, SynchTypeOK
<1>2. /\ queue'[s] = Rest(queue[s]) /\ value'[s] = value[s] + 1 /\ queue[s] \in Seq(Thread)
      /\ value[s] \in Int
      /\ \A r \in Semaphore : r # s => queue'[r] = queue[r] /\ value'[r] = value[r]
  BY <1>1
<1>3. ASSUME NEW r \in Semaphore, r # s
      PROVE  /\ IsFiniteSet(Woken(r)')
             /\ queue'[r] # <<>> => typeId'[r] # "none" /\ value'[r] <= Cardinality(Woken(r)')
  <2>1. Woken(r)' = Woken(r)
    BY <1>1, <1>2, <1>3 DEF Woken
  <2> QED BY <1>1, <1>2, <1>3, <2>1 DEF WokenOK
<1>4. CASE queue[s] = <<>>
  <2>1. queue'[s] = <<>> /\ Woken(s)' = Woken(s)
    BY <1>1, <1>2, <1>4 DEF Rest, Woken
  <2> QED BY <1>3, <2>1 DEF WokenOK
<1>5. CASE queue[s] # <<>>
  <2> DEFINE h == Head(queue[s])
  <2>1. /\ Rest(queue[s]) = Tail(queue[s]) /\ h \in Thread
        /\ Members(queue[s]) = Members(Tail(queue[s])) \cup {h}
        /\ h \notin Members(Tail(queue[s]))
    BY <1>2, <1>5, ListRemove DEF Rest, Live, QueuesOK
  <2>2. status[h] = "P" /\ blockedOn[h] = s
    BY <2>1 DEF Live, QueuesOK, Asleep
  <2> HIDE DEF h
  <2>3. Woken(s)' = Woken(s) \cup {h} /\ h \notin Woken(s)
    BY <1>1, <1>2, <2>1, <2>2 DEF Woken
  <2>4. /\ IsFiniteSet(Woken(s)) /\ typeId[s] # "none"
        /\ value[s] <= Cardinality(Woken(s))
    BY <1>5 DEF WokenOK
  <2>5. IsFiniteSet(Woken(s)') /\ Cardinality(Woken(s)') = Cardinality(Woken(s)) + 1
    BY <2>3, <2>4, FS_AddElement
  <2>6. Cardinality(Woken(s)) \in Nat
    BY <2>4, FS_CardinalityType
  <2>7. value'[s] <= Cardinality(Woken(s)')
    BY <1>2, <2>4, <2>5, <2>6
  <2> QED BY <1>1, <1>3, <2>4, <2>5, <2>7 DEF WokenOK
<1> QED BY <1>4, <1>5

\* The rest of P: the woken thread takes the unit that was its reason.
LEMMA ReturnPKeepsWoken ==
  ASSUME TypeOK, TypeOK', Live, NobodyForgotten, WokenOK, NEW t \in Thread, ReturnP(t)
  PROVE  WokenOK'
<1>0. PICK s : s = blockedOn[t]
  OBVIOUS
<1>1. /\ status[t] = "P" /\ Resumed(t, "user") /\ blockedOn' = [blockedOn EXCEPT ![t] = NULL]
      /\ value' = [value EXCEPT ![s] = @ - 1] /\ UNCHANGED <<queue, typeId>>
  BY <1>0 DEF ReturnP, Return
<1>2. s \in Semaphore /\ value \in [Semaphore -> Int] /\ queue \in [Semaphore -> Seq(Thread)]
  BY <1>0, <1>1 DEF NobodyForgotten, TypeOK, SynchTypeOK
<1>3. t \notin Members(queue[s])
  BY <1>1, <1>2 DEF Live, QueuesOK, Asleep, OnCpu, Resumed
<1>4. \A u \in Thread : u # t => blockedOn'[u] = blockedOn[u]
  BY <1>1 DEF TypeOK, ThreadTypeOK
<1>5. /\ status'[t] = "user"
      /\ \A u \in Thread : u # t =>
           status'[u] = status[u] \/ (status[u] = "finished" /\ status'[u] = "deleted")
  BY <1>1, <1>4, ResumedGoesOn
<1>6. Woken(s)' = Woken(s) \ {t} /\ t \in Woken(s)
  BY <1>0, <1>1, <1>3, <1>4, <1>5 DEF Woken
<1>7. \A r \in Semaphore : r # s => Woken(r)' = Woken(r) /\ value'[r] = value[r]
  BY <1>0, <1>1, <1>2, <1>4, <1>5 DEF Woken
<1>8. value'[s] = value[s] - 1 /\ value[s] \in Int
  BY <1>1, <1>2
<1>9. IsFiniteSet(Woken(s)) /\ IsFiniteSet(Woken(s)') /\ Cardinality(Woken(s)') = Cardinality(Woken(s)) - 1
  BY <1>2, <1>6, FS_RemoveElement DEF WokenOK
<1>10. Cardinality(Woken(s)) \in Nat
  BY <1>9, FS_CardinalityType
<1> SUFFICES ASSUME NEW r \in Semaphore
             PROVE  /\ IsFiniteSet(Woken(r)')
                    /\ queue'[r] # <<>> => typeId'[r] # "none" /\ value'[r] <= Cardinality(Woken(r)')
  BY DEF WokenOK
<1>11. CASE r = s
  BY <1>1, <1>8, <1>9, <1>10, <1>11 DEF WokenOK
<1>12. CASE r # s
  BY <1>1, <1>7, <1>12 DEF WokenOK
<1> QED BY <1>11, <1>12

\* The operations of module Threads put nobody into P and take nobody out.
LEMMA ThreadStepKeepsWoken ==
  ASSUME TypeOK, TypeOK', Live, WokenOK, NEW t \in Thread, ThreadStep(t)
  PROVE  WokenOK'
<1>1. UNCHANGED <<typeId, value, queue>> /\ status \in [Thread -> Status] /\ CpuOK
  BY DEF ThreadStep, synchVars, semVars, TypeOK, ThreadTypeOK, Live
<1>2. ASSUME NEW u \in Thread, status[u] # "P", NEW to \in Status \ {"P"},
             status' = [status EXCEPT ![u] = to],
             \A x \in Thread : x # u => blockedOn'[x] = blockedOn[x]
      PROVE  WokenOK'
  BY <1>1, <1>2, WokenFrameOne
<1>3. ASSUME NEW u \in Thread, NewThread(t, u) \/ \E p \in Proc : Exec(t, u, p) PROVE WokenOK'
  BY <1>2, <1>3, Values DEF NewThread, Exec, StartIn
<1>4. ASSUME NEW u \in Thread, Join(t, u) PROVE WokenOK'
  <2>1. \A x \in Thread : x # t => blockedOn'[x] = blockedOn[x]
    BY <1>4 DEF Join, TypeOK, ThreadTypeOK
  <2> QED BY <1>2, <1>4, <2>1, Values DEF Join, Running
<1>5. CASE Yield(t) \/ Finish(t) \/ StartThreadExecution(t)
  BY <1>2, <1>5, Values DEF Yield, Finish, StartThreadExecution, Running
<1>6. CASE HaltCall(t)
  BY <1>2, <1>6, Values DEF HaltCall, Halt, Running
<1>7. CASE JoinLoop(t)
  <2>1. \A x \in Thread : x # t => blockedOn'[x] = blockedOn[x]
    BY <1>7 DEF JoinLoop, TypeOK, ThreadTypeOK
  <2>2. status[t] = "Join" /\ (status' = [status EXCEPT ![t] = "user"] \/ status' = [status EXCEPT ![t] = "Join"])
    BY <1>1, <1>7 DEF JoinLoop
  <2> QED BY <1>2, <2>1, <2>2, Values
<1>8. CASE ResumeYield(t)
  <2> DEFINE to == IF status[t] = "Yield" THEN "user" ELSE "Join"
  <2>1. to \in {"user", "Join"} /\ Resumed(t, to) /\ UNCHANGED blockedOn /\ status[t] # "P"
    BY <1>8 DEF ResumeYield
  <2> HIDE DEF to
  <2> QED BY <1>1, <2>1, ResumedKeepsWoken
<1> QED BY <1>3, <1>4, <1>5, <1>6, <1>7, <1>8 DEF ThreadStep

\* So do the operations on locks and conditions; P and V keep the count.
LEMMA SynchStepKeepsWoken ==
  ASSUME TypeOK, TypeOK', Live, NobodyForgotten, WokenOK, NEW t \in Thread, SynchStep(t)
  PROVE  WokenOK'
<1>1. ASSUME UNCHANGED threadVars \/ Abort, UNCHANGED <<value, queue>>,
             \A s \in Semaphore : typeId[s] # "none" => typeId'[s] # "none"
      PROVE  WokenOK'
  BY <1>1, WokenFrame DEF threadVars, Abort
<1>2. ASSUME NEW op \in {"Acquire", "Wait"}, NEW o \in Object, Running(t), Block(t, op, o),
             UNCHANGED <<typeId, value, queue>>
      PROVE  WokenOK'
  <2>1. /\ status[t] = "user" /\ status'[t] = op
        /\ \A u \in Thread : u # t => status'[u] = status[u] /\ blockedOn'[u] = blockedOn[u]
    BY <1>2 DEF Block, Running, TypeOK, ThreadTypeOK
  <2> QED BY <1>2, <2>1, WokenFrameOne
<1>3. ASSUME NEW list, Wake(list), UNCHANGED <<typeId, value, queue>> PROVE WokenOK'
  BY <1>3, WokenFrame DEF Wake
<1>4. ASSUME NEW s \in Semaphore, P(t, s) PROVE WokenOK'
  BY <1>4, PKeepsWoken
<1>5. ASSUME NEW s \in Semaphore, V(t, s) PROVE WokenOK'
  BY <1>5, SemVKeepsWoken DEF V
<1>6. ASSUME NEW s \in Semaphore, NEW v \in InitialValue, SemCreate(t, s, v) PROVE WokenOK'
  <2>1. /\ UNCHANGED <<queue, status, blockedOn>> /\ queue[s] = <<>>
        /\ value' = [value EXCEPT ![s] = v] /\ typeId' = [typeId EXCEPT ![s] = "live"]
    BY <1>6 DEF SemCreate, threadVars, WokenOK
  <2>2. \A r \in Semaphore : Woken(r)' = Woken(r)
    BY <2>1 DEF Woken
  <2>3. \A r \in Semaphore : r # s => value'[r] = value[r] /\ typeId'[r] = typeId[r]
    BY <2>1 DEF TypeOK, SynchTypeOK
  <2> QED BY <2>1, <2>2, <2>3 DEF WokenOK
<1>7. ASSUME NEW s \in Semaphore, SemDestroy(t, s) PROVE WokenOK'
  <2>1. \A r \in Semaphore : typeId[r] # "none" => typeId'[r] # "none"
    BY <1>7 DEF SemDestroy, TypeOK, SynchTypeOK
  <2> QED BY <1>1, <1>7, <2>1 DEF SemDestroy, semVars
<1>8. ASSUME NEW l \in Lock, LockCreate(t, l) \/ LockDestroy(t, l) PROVE WokenOK'
  <2>1. \A r \in Semaphore : typeId'[r] = typeId[r]
    BY <1>8, SynchAssumption DEF LockCreate, LockDestroy, TypeOK, SynchTypeOK, Object
  <2> QED BY <1>1, <1>8, <2>1 DEF LockCreate, LockDestroy, semVars
<1>9. ASSUME NEW c \in Condition, CondCreate(t, c) \/ CondDestroy(t, c) PROVE WokenOK'
  <2>1. \A r \in Semaphore : typeId'[r] = typeId[r]
    BY <1>9, SynchAssumption DEF CondCreate, CondDestroy, TypeOK, SynchTypeOK, Object
  <2> QED BY <1>1, <1>9, <2>1 DEF CondCreate, CondDestroy, semVars
<1>10. ASSUME NEW l \in Lock, Acquire(t, l) PROVE WokenOK'
  <2>1. UNCHANGED threadVars \/ Block(t, "Acquire", l)
    BY <1>10 DEF Acquire
  <2> QED BY <1>1, <1>2, <1>10, <2>1 DEF Acquire, semVars, Object
<1>11. ASSUME NEW l \in Lock, Release(t, l) PROVE WokenOK'
  <2>1. Abort \/ Wake(First(sleepqueue[l]))
    BY <1>11 DEF Release
  <2> QED BY <1>1, <1>3, <1>11, <2>1 DEF Release, semVars
<1>12. ASSUME NEW c \in Condition, Wait(t, c) PROVE WokenOK'
  BY <1>2, <1>12 DEF Wait, synchVars, semVars, Object
<1>13. ASSUME NEW c \in Condition, Signal(t, c) \/ Broadcast(t, c) PROVE WokenOK'
  BY <1>3, <1>13 DEF Signal, Broadcast, semVars
<1>14. CASE ReturnP(t)
  BY <1>14, ReturnPKeepsWoken
<1>15. CASE ReturnAcquire(t)
  <2>1. /\ Resumed(t, "user") /\ status[t] # "P" /\ UNCHANGED <<typeId, value, queue>>
        /\ \A u \in Thread : u # t => blockedOn'[u] = blockedOn[u]
    BY <1>15 DEF ReturnAcquire, Return, semVars, TypeOK, ThreadTypeOK
  <2> QED BY <2>1, ResumedKeepsWoken
<1> QED BY <1>4, <1>5, <1>6, <1>7, <1>8, <1>9, <1>10, <1>11, <1>12, <1>13, <1>14, <1>15
        DEF SynchStep

\* Idle halts only when no thread is ready, so nobody that was woken is lost.
LEMMA MachineStepKeepsWoken ==
  ASSUME TypeOK, TypeOK', Live, NobodyForgotten, WokenOK, MachineStep
  PROVE  WokenOK'
<1>1. /\ UNCHANGED <<typeId, value, queue>> /\ status \in [Thread -> Status] /\ CpuOK
      /\ Root \in Thread /\ UNCHANGED blockedOn /\ g_current_thread \in Thread
  BY ThreadAssumption DEF MachineStep, Main, MainNoProgram, IdleHalt, Halt, synchVars, semVars,
     TypeOK, ThreadTypeOK, Live
<1>2. ASSUME NEW u \in Thread, NEW p \in Proc, Main(u, p) PROVE WokenOK'
  <2>1. /\ status[u] = "none" /\ status[Root] = "user"
        /\ status' = [status EXCEPT ![u] = "fresh", ![Root] = "finished"]
    BY <1>1, <1>2 DEF Main, StartIn, CpuOK
  <2>2. \A x \in Thread : status'[x] = "P" <=> status[x] = "P"
    BY <1>1, <2>1
  <2> QED BY <1>1, <2>2, WokenFrame
<1>3. CASE MainNoProgram
  <2>1. status[Root] = "user" /\ status' = [status EXCEPT ![Root] = "finished"]
    BY <1>1, <1>3 DEF MainNoProgram, CpuOK
  <2> QED BY <1>1, <2>1, WokenFrameOne
<1>4. CASE IdleHalt
  <2>1. PICK x \in Thread : x = g_current_thread
    BY <1>1
  <2>2. status' = [status EXCEPT ![x] = "deleted"] /\ Able = {}
    BY <1>4, <2>1, EmptyList DEF IdleHalt, Halt, Able, OnCpu
  <2>3. \A s \in Semaphore : x \notin Woken(s)
    BY <2>2 DEF NobodyForgotten, Woken
  <2>4. status'[x] = "deleted" /\ \A u \in Thread : u # x => status'[u] = status[u]
    BY <1>1, <2>2
  <2>5. \A s \in Semaphore : Woken(s)' = Woken(s)
    BY <1>1, <2>3, <2>4 DEF Woken
  <2> QED BY <1>1, <2>5 DEF WokenOK
<1> QED BY <1>2, <1>3, <1>4 DEF MachineStep

-----------------------------------------------------------------------------
(* The theorems *)

\* The whole invariant holds of the kernel whatever user programs do.
THEOREM KernelInvariant == Spec => []KernelInv
<1>1. Init => WokenOK /\ NobodyForgotten /\ StaffOK
  <2> SUFFICES ASSUME Init PROVE WokenOK /\ NobodyForgotten /\ StaffOK
    OBVIOUS
  <2> USE ThreadAssumption DEF Init, ThreadsInit
  <2>1. WokenOK
    <3>1. \A s \in Semaphore : Woken(s) = {}
      BY DEF Woken
    <3> QED BY <3>1, FS_EmptySet DEF WokenOK
  <2>2. NobodyForgotten
    BY DEF NobodyForgotten
  <2>3. StaffOK
    <3>1. Staff(RootProc) = {Root} /\ \A p \in Proc : p # RootProc => Staff(p) = {}
      BY DEF Staff
    <3>2. IsFiniteSet({Root}) /\ Cardinality({Root}) = 1 /\ IsFiniteSet({}) /\ Cardinality({}) = 0
      BY FS_Singleton, FS_EmptySet
    <3>3. ASSUME NEW p \in Proc
          PROVE  /\ IsFiniteSet(Staff(p)) /\ numThreads[p] = Cardinality(Staff(p))
                 /\ procState[p] = "live" <=> numThreads[p] > 0
      <4>1. CASE p = RootProc
        <5>1. numThreads[p] = 1 /\ procState[p] = "live"
          BY <4>1
        <5>2. IsFiniteSet(Staff(p)) /\ Cardinality(Staff(p)) = 1
          BY <3>1, <3>2, <4>1
        <5> QED BY <5>1, <5>2
      <4>2. CASE p # RootProc
        <5>1. numThreads[p] = 0 /\ procState[p] = "none"
          BY <4>2
        <5>2. IsFiniteSet(Staff(p)) /\ Cardinality(Staff(p)) = 0
          BY <3>1, <3>2, <4>2
        <5> QED BY <5>1, <5>2
      <4> QED BY <4>1, <4>2
    <3> QED BY <3>3 DEF StaffOK
  <2> QED BY <2>1, <2>2, <2>3
<1>2. TypeOK /\ TypeOK' /\ KernelInv /\ IInv' /\ [Next]_vars => KernelInv'
  <2> SUFFICES ASSUME TypeOK, TypeOK', KernelInv, IInv', [Next]_vars PROVE KernelInv'
    OBVIOUS
  <2> USE DEF KernelInv
  <2>1. ASSUME NEW t \in Thread, ThreadStep(t) \/ SynchStep(t) \/ MachineStep PROVE KernelInv'
    <3>1. Live /\ NobodyForgotten /\ StaffOK
      BY <2>1, StepsNeedTheCpu DEF IInv, Live
    <3>2. WokenOK'
      BY <2>1, <3>1, ThreadStepKeepsWoken, SynchStepKeepsWoken, MachineStepKeepsWoken
    <3>3. ~Stopped' => NobodyForgotten'
      BY <2>1, <3>1, ThreadStepForgetsNobody, SynchStepForgetsNobody, MachineStepForgetsNobody
    <3>4. ~Stopped' => StaffOK'
      BY <2>1, <3>1, StaffKept
    <3> QED BY <3>2, <3>3, <3>4
  <2>2. CASE UNCHANGED vars
    <3>1. (Stopped' <=> Stopped) /\ (WokenOK' <=> WokenOK)
      BY <2>2 DEF vars, synchVars, semVars, threadVars, Stopped, WokenOK, Woken
    <3>2. NobodyForgotten' <=> NobodyForgotten
      BY <2>2 DEF vars, synchVars, semVars, lockVars, threadVars, NobodyForgotten, Able, OnCpu
    <3>3. StaffOK' <=> StaffOK
      BY <2>2 DEF vars, threadVars, StaffOK, Staff
    <3> QED BY <3>1, <3>2, <3>3
  <2> QED BY <2>1, <2>2, ThreadAssumption DEF Next
<1> QED BY <1>1, <1>2, TypeCorrect, Inductive, PTL DEF Spec, KernelInv

\* The context switches of thread.cc and scheduler.cc, and the queues of
\* synch.cc, lose and duplicate no thread.
THEOREM ThreadsAreLocated == Spec => []EveryThreadLocated
<1>1. TypeOK /\ KernelInv => EveryThreadLocated
  BY LocatedFromInvariant DEF KernelInv, IInv, Live, EveryThreadLocated
<1> QED BY <1>1, TypeCorrect, KernelInvariant, PTL

\* ~Thread deletes a process with its last thread and never before.
THEOREM ProcessesOutliveThreads == Spec => []ProcessOutlivesItsThreads
<1>1. KernelInv => ProcessOutlivesItsThreads
  BY DEF KernelInv, ProcessOutlivesItsThreads, StaffOK, Staff
<1> QED BY <1>1, KernelInvariant, PTL

\* ~Thread never frees the stack that the CPU is on.
THEOREM CarcassesDoNotRun == Spec => []CarcassIsNotRunning
<1>1. TypeOK /\ IInv => CarcassIsNotRunning
  <2> SUFFICES ASSUME TypeOK, IInv, g_thread_to_be_destroyed # NULL, ~Stopped
               PROVE  /\ status[g_thread_to_be_destroyed] = "finished"
                      /\ g_thread_to_be_destroyed = g_current_thread => cpu = "idle"
    BY DEF CarcassIsNotRunning
  <2>1. CpuOK /\ cpu \in {"boot", "running", "switched", "idle"}
    BY DEF IInv, Stopped, TypeOK, ThreadTypeOK, CpuState
  <2> QED BY <2>1 DEF CpuOK, Resumable
<1> QED BY <1>1, TypeCorrect, Inductive, PTL

\* Semaphore::P and V lose no wake-up.
THEOREM WakeupsAreKept == Spec => []NoLostWakeup
<1>1. KernelInv => NoLostWakeup
  BY DEF KernelInv, WokenOK, NoLostWakeup
<1> QED BY <1>1, KernelInvariant, PTL

=============================================================================
