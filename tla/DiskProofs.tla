----------------------------- MODULE DiskProofs -----------------------------
(***************************************************************************)
(* Theorems about module DiskDriver: the hand-shake of driver and disk,    *)
(* and that the driver implements DiskService.  Every step of the driver   *)
(* but the interrupt and the switch out of the idle loop is a step of      *)
(* Synch, so what SynchProofs says of steps is cited, not proved again.    *)
(***************************************************************************)
EXTENDS DiskDriver, SynchProofs

-----------------------------------------------------------------------------
(* The kernel's own invariant under the driver                             *)

\* Semaphore::V keeps all types, whoever calls it.
LEMMA SemVTypes ==
  ASSUME TypeOK, NEW s \in Semaphore, SemV(s)
  PROVE  TypeOK'
<1>1. First(queue[s]) \in Seq(Thread) /\ Rest(queue[s]) \in Seq(Thread)
  BY ListTypes DEF TypeOK, SynchTypeOK
<1>2. ThreadTypeOK'
  BY <1>1, PrimitiveTypes DEF SemV, TypeOK
<1>3. queue' \in [Semaphore -> Seq(Thread)] /\ value' \in [Semaphore -> Int]
  BY <1>1 DEF SemV, TypeOK, SynchTypeOK
<1> QED BY <1>2, <1>3 DEF SemV, TypeOK, SynchTypeOK, lockVars

\* The loop of Sleep dispatches a thread that an interrupt made ready.
LEMMA IdleSwitchTypes ==
  ASSUME TypeOK, IdleSwitch, UNCHANGED synchVars
  PROVE  TypeOK'
<1>1. Head(readyList) \in Thread /\ Tail(readyList) \in Seq(Thread)
  BY ListTypes DEF IdleSwitch, TypeOK, ThreadTypeOK
<1>2. ThreadTypeOK'
  BY <1>1, Values DEF IdleSwitch, SwitchTo, TypeOK, ThreadTypeOK
<1> QED BY <1>2 DEF TypeOK, SynchTypeOK, synchVars, semVars, lockVars

\* The same switch keeps the kernel's invariant.
LEMMA IdleSwitchKeeps ==
  ASSUME TypeOK, IInv, IdleSwitch, UNCHANGED synchVars
  PROVE  IInv'
<1>1. Live /\ MutualExclusion
  BY DEF IInv, Live, IdleSwitch, Stopped
<1>2. /\ readyList \in Seq(Thread) /\ readyList # <<>>
      /\ Members(readyList) = Members(Tail(readyList)) \cup {Head(readyList)}
      /\ NoRepeats(Tail(readyList))
      /\ Head(readyList) \notin Members(Tail(readyList))
  BY <1>1, ListRemove DEF IdleSwitch, TypeOK, ThreadTypeOK, Live, ReadyOK
<1>3. /\ g_current_thread' = Head(readyList) /\ cpu' = "switched" /\ readyList' = Tail(readyList)
      /\ UNCHANGED <<status, blockedOn, g_thread_to_be_destroyed>> /\ cpu = "idle"
  BY DEF IdleSwitch, SwitchTo
<1>4. \A u \in Thread : ~OnCpu(u) /\ (OnCpu(u)' <=> u = Head(readyList))
  BY <1>3 DEF OnCpu
<1>5. Members(readyList) \subseteq Thread
  BY <1>2, ListMembers
<1>6. ReadyOK'
  <2>1. ASSUME NEW u \in Members(readyList') PROVE status'[u] \in Resumable /\ ~OnCpu(u)'
    BY <1>1, <1>2, <1>3, <1>4, <1>5, <2>1 DEF Live, ReadyOK
  <2> QED BY <1>2, <1>3, <2>1 DEF ReadyOK
<1>7. CpuOK'
  <2>1. status'[g_current_thread'] \in Resumable
    BY <1>1, <1>2, <1>3 DEF Live, ReadyOK
  <2>2. \A u \in Thread : status'[u] # "user"
    BY <1>1, <1>3, <1>4 DEF Live, CpuOK
  <2> QED BY <1>1, <1>3, <2>1, <2>2 DEF Live, CpuOK
<1>8. SleepersStay
  BY <1>2, <1>3, <1>4 DEF SleepersStay, Asleep
<1>9. AcquirersStay
  BY <1>3 DEF AcquirersStay
<1>10. QueuesOK' /\ AcquireOK' /\ LockOK'
  BY <1>1, <1>8, <1>9, QueuesFrame, LockFrame DEF Live, synchVars, semVars, lockVars
<1>11. MutualExclusion'
  BY <1>1 DEF MutualExclusion, synchVars, lockVars
<1> QED BY <1>6, <1>7, <1>10, <1>11 DEF IInv

\* The disk interrupt keeps the kernel's invariant.
LEMMA InterruptKeeps ==
  ASSUME TypeOK, TypeOK', IInv, HandleInterrupt
  PROVE  IInv'
<1>1. Live /\ MutualExclusion /\ SemV(semaphore)
  BY DEF IInv, Live, HandleInterrupt, Stopped
<1>2. Live'
  BY <1>1, SemVKeeps, DiskAssumption
<1>3. MutualExclusion'
  BY <1>1 DEF MutualExclusion, SemV, lockVars
<1> QED BY <1>2, <1>3 DEF IInv, Live

\* What a step of the driver is for the kernel, apart from the interrupt, the
\* switch out of the idle loop and a failed ASSERT(!active).
LEMMA DriverStepIsKernelStep ==
  ASSUME [DiskNext]_allVars
  PROVE  \/ [Next]_vars
         \/ HandleInterrupt
         \/ IdleSwitch /\ UNCHANGED synchVars
         \/ \E t \in Thread : At(t, "Request") /\ active
<1>1. ASSUME NEW t \in Thread, CallDriver(t) PROVE [Next]_vars
  BY <1>1, DiskAssumption DEF CallDriver, Next, SynchStep
<1>2. ASSUME NEW t \in Thread, DiskRequest(t) PROVE [Next]_vars \/ (At(t, "Request") /\ active)
  BY <1>2 DEF DiskRequest
<1>3. ASSUME NEW t \in Thread, WaitForInterrupt(t) PROVE [Next]_vars
  BY <1>3, DiskAssumption DEF WaitForInterrupt, Next, SynchStep
<1>4. ASSUME NEW t \in Thread, LeaveDriver(t) PROVE [Next]_vars
  BY <1>4, DiskAssumption DEF LeaveDriver, Next, SynchStep
<1>5. ASSUME NEW t \in Thread, OtherCall(t) PROVE [Next]_vars
  BY <1>5 DEF OtherCall, Next, ThreadStep
<1>6. ASSUME NEW t \in Thread, Installed(t) PROVE [Next]_vars
  BY <1>6 DEF Installed, Next, ThreadStep, SynchStep
<1>7. CASE DiskMachineStep
  BY <1>7 DEF DiskMachineStep, Next, MachineStep
<1>8. CASE UNCHANGED allVars
  BY <1>8 DEF allVars
<1> QED BY <1>1, <1>2, <1>3, <1>4, <1>5, <1>6, <1>7, <1>8 DEF DiskNext, DriverStep

-----------------------------------------------------------------------------
(* What the driver's invariant says *)

\* The lock serves one thread at a time, and that thread owns it.
LEMMA OneServed ==
  ASSUME IInv, StageOK, NEW t \in Thread,
         Served(t) \/ (stage[t] = "Request" /\ status[t] = "user")
  PROVE  /\ t \in inside[lock] /\ ~free[lock] /\ owner[lock] = t
         /\ \A u \in Thread : u # t => ~Served(u)
         /\ \A u \in Thread : stage[u] = "Request" /\ status[u] = "user" => u = t
<1>1. t \in inside[lock]
  BY DEF StageOK
<1>2. \A u \in inside[lock] : ~free[lock] /\ owner[lock] = u
  BY DiskAssumption DEF IInv, MutualExclusion
<1>3. ASSUME NEW u \in Thread, Served(u) \/ (stage[u] = "Request" /\ status[u] = "user")
      PROVE  u = t
  <2>1. u \in inside[lock]
    BY <1>3 DEF StageOK
  <2> QED BY <1>1, <1>2, <2>1
<1> QED BY <1>1, <1>2, <1>3

\* The hand-shake, as long as the machine runs.
LEMMA HandShakeFollows ==
  ASSUME DiskTypeOK, IInv, ~Stopped, StageOK, CountOK
  PROVE  HandShake
<1>1. cpu # "aborted"
  BY DEF Stopped
<1>2. CASE \A t \in Thread : ~Served(t)
  <2>1. ~active /\ value[semaphore] = 0
    BY <1>2 DEF CountOK
  <2> QED BY <1>1, <1>2, <2>1 DEF HandShake, Served
<1>3. ASSUME NEW t \in Thread, Served(t) PROVE HandShake
  <2>1. /\ owner[lock] = t
        /\ \A u \in Thread : u # t => ~Served(u)
        /\ \A u \in Thread : stage[u] = "Request" /\ status[u] = "user" => u = t
    BY <1>3, OneServed
  <2>2. stage[t] \in {"P", "Release"}
    BY <1>3 DEF Served
  <2>3. status[t] = "user" \/ (status[t] = "P" /\ stage[t] = "Release")
    BY <2>2 DEF StageOK
  <2>4. value[semaphore] \in 0..1
    <3>1. value[semaphore] = 0 \/ value[semaphore] = 1
      BY <2>2, <2>3 DEF CountOK
    <3> QED BY <3>1
  <2>5. stage[t] = "P" => (active <=> value[semaphore] = 0)
    <3>1. active = TRUE \/ active = FALSE
      BY DEF DiskTypeOK
    <3>2. stage[t] = "P" => value[semaphore] = IF active THEN 0 ELSE 1
      BY DEF CountOK
    <3> QED BY <3>1, <3>2
  <2>6. stage[t] = "Release" /\ status[t] = "user" => ~active /\ value[semaphore] = 0
    BY DEF CountOK
  <2> QED BY <1>1, <2>1, <2>2, <2>4, <2>5, <2>6 DEF HandShake, Served
<1> QED BY <1>2, <1>3

-----------------------------------------------------------------------------
(* Steps of the kernel outside the driver *)

\* A step that leaves every object, the disk and the threads in the driver
\* alone keeps both parts of the invariant.
LEMMA ElsewhereKeeps ==
  ASSUME StageOK, CountOK, UNCHANGED <<synchVars, diskVars>>,
         cpu' # "boot" \/ UNCHANGED cpu,
         \A u \in Thread : stage[u] # "none" =>
           status'[u] = status[u] /\ blockedOn'[u] = blockedOn[u],
         \A u \in Thread : stage[u] = "none" => status'[u] \notin {"P", "Acquire"}
  PROVE  StageOK' /\ CountOK'
<1>1. UNCHANGED <<stage, active, value, queue, free, owner, inside>>
  BY DEF synchVars, semVars, lockVars, diskVars
<1>2. \A u \in Thread : Served(u)' <=> Served(u)
  BY <1>1 DEF Served
<1>3. StageOK'
  <2>1. ASSUME NEW u \in Thread
        PROVE /\ status'[u] = "P" => stage[u] = "Release" /\ blockedOn'[u] = semaphore
              /\ status'[u] = "Acquire" => stage[u] = "Request" /\ blockedOn'[u] = lock
              /\ stage[u] # "none" => status'[u] \in {"user", "P", "Acquire"}
              /\ stage[u] = "P" => status'[u] = "user"
              /\ u \in inside[lock] <=> Served(u) \/ (stage[u] = "Request" /\ status'[u] = "user")
    BY DEF StageOK, Served
  <2>2. (cpu' = "boot" => stage'[Root] = "none") /\ (free'[lock] => owner'[lock] = NULL)
    BY <1>1 DEF StageOK
  <2> QED BY <1>1, <1>2, <2>1, <2>2 DEF StageOK
<1>4. CountOK'
  BY <1>1, <1>2 DEF CountOK
<1> QED BY <1>3, <1>4

\* The statuses of threads that a tail of SwitchTo may change.
LEMMA ResumedStatus ==
  ASSUME TypeOK, Live, NEW t \in Thread, NEW to \in Status, Resumed(t, to)
  PROVE  /\ status'[t] = to
         /\ \A u \in Thread : u # t =>
              \/ status'[u] = status[u]
              \/ status[u] = "finished" /\ status'[u] = "deleted"
BY DEF Resumed, TypeOK, ThreadTypeOK, Live, CpuOK

\* System calls outside the driver.
LEMMA OtherCallKeeps ==
  ASSUME TypeOK, Live, StageOK, CountOK, NEW t \in Thread, OtherCall(t), ~Stopped'
  PROVE  StageOK' /\ CountOK'
<1>1. /\ At(t, "none") /\ UNCHANGED <<synchVars, diskVars>>
      /\ \/ \E u \in Thread : NewThread(t, u)
         \/ Yield(t) \/ Finish(t)
  BY DEF OtherCall, HaltCall, Halt, Stopped
<1>2. stage[t] = "none" /\ status[t] = "user" /\ cpu = "running"
  BY <1>1 DEF At, Running
<1>3. status \in [Thread -> Status]
  BY DEF TypeOK, ThreadTypeOK
<1>4. UNCHANGED blockedOn /\ cpu' # "boot"
  BY <1>1, <1>2 DEF NewThread, Yield, Finish, GiveWay, Sleep, SwitchTo
<1>5. \E x \in Thread, to \in {"fresh", "Yield", "finished"} :
        status' = [status EXCEPT ![x] = to] /\ stage[x] = "none"
  <2>1. ASSUME NEW u \in Thread, NewThread(t, u)
        PROVE  status' = [status EXCEPT ![u] = "fresh"] /\ stage[u] = "none"
    BY <2>1 DEF NewThread, StartIn, StageOK
  <2>2. CASE Yield(t)
    BY <1>2, <2>2 DEF Yield
  <2>3. CASE Finish(t)
    BY <1>2, <2>3 DEF Finish
  <2> QED BY <1>1, <2>1, <2>2, <2>3
<1>6. PICK x \in Thread, to \in {"fresh", "Yield", "finished"} :
        status' = [status EXCEPT ![x] = to] /\ stage[x] = "none"
  BY <1>5
<1>7. \A u \in Thread : stage[u] # "none" =>
           status'[u] = status[u] /\ blockedOn'[u] = blockedOn[u]
  BY <1>3, <1>4, <1>6
<1>8. \A u \in Thread : stage[u] = "none" => status'[u] \notin {"P", "Acquire"}
  BY <1>3, <1>6 DEF StageOK
<1> QED BY <1>1, <1>4, <1>7, <1>8, ElsewhereKeeps

\* A thread that a switch installed outside the driver's primitives.
LEMMA InstalledElsewhereKeeps ==
  ASSUME TypeOK, Live, StageOK, CountOK, NEW t \in Thread,
         StartThreadExecution(t) \/ ResumeYield(t), UNCHANGED <<synchVars, diskVars>>
  PROVE  StageOK' /\ CountOK'
<1>1. UNCHANGED blockedOn /\ cpu' = "running" /\ status[t] \in {"fresh", "Yield", "Join"}
  BY DEF StartThreadExecution, ResumeYield, Resumed
<1>2. stage[t] = "none"
  BY <1>1 DEF StageOK
<1>3. /\ status'[t] \in {"user", "Join"}
      /\ \A u \in Thread : u # t =>
           \/ status'[u] = status[u]
           \/ status[u] = "finished" /\ status'[u] = "deleted"
  <2>1. CASE StartThreadExecution(t)
    BY <2>1 DEF StartThreadExecution, TypeOK, ThreadTypeOK
  <2>2. CASE ResumeYield(t)
    <3>1. CASE status[t] = "Yield"
      BY <2>2, <3>1, ResumedStatus, Values DEF ResumeYield
    <3>2. CASE status[t] = "Join"
      BY <2>2, <3>2, ResumedStatus, Values DEF ResumeYield
    <3> QED BY <1>1, <2>2, <3>1, <3>2 DEF ResumeYield
  <2> QED BY <2>1, <2>2
<1>4. \A u \in Thread : stage[u] # "none" =>
           status'[u] = status[u] /\ blockedOn'[u] = blockedOn[u]
  BY <1>1, <1>2, <1>3 DEF StageOK
<1>5. \A u \in Thread : stage[u] = "none" => status'[u] \notin {"P", "Acquire"}
  BY <1>2, <1>3 DEF StageOK
<1> QED BY <1>1, <1>4, <1>5, ElsewhereKeeps

\* Booting, and the switch out of the idle loop.
LEMMA MachineKeepsDriver ==
  ASSUME TypeOK, Live, StageOK, CountOK, DiskMachineStep, ~Stopped'
  PROVE  StageOK' /\ CountOK'
<1>1. UNCHANGED <<synchVars, diskVars>>
  BY DEF DiskMachineStep
<1>2. status \in [Thread -> Status] /\ Root \in Thread
  BY ThreadAssumption DEF TypeOK, ThreadTypeOK
<1>3. ASSUME NEW u \in Thread, NEW p \in Proc, Main(u, p) PROVE StageOK' /\ CountOK'
  <2>1. /\ status' = [status EXCEPT ![u] = "fresh", ![Root] = "finished"] /\ status[u] = "none"
        /\ UNCHANGED blockedOn /\ cpu' = "switched" /\ cpu = "boot"
    BY <1>3 DEF Main, StartIn, SwitchTo
  <2>2. stage[Root] = "none" /\ stage[u] = "none"
    BY <2>1 DEF StageOK
  <2>3. \A x \in Thread : stage[x] # "none" =>
           status'[x] = status[x] /\ blockedOn'[x] = blockedOn[x]
    BY <1>2, <2>1, <2>2
  <2>4. \A x \in Thread : stage[x] = "none" => status'[x] \notin {"P", "Acquire"}
    BY <1>2, <2>1 DEF StageOK
  <2> QED BY <1>1, <2>1, <2>3, <2>4, ElsewhereKeeps
<1>4. CASE IdleSwitch
  <2>1. UNCHANGED <<status, blockedOn>> /\ cpu' = "switched"
    BY <1>4 DEF IdleSwitch, SwitchTo
  <2>2. \A x \in Thread : stage[x] = "none" => status'[x] \notin {"P", "Acquire"}
    BY <2>1 DEF StageOK
  <2> QED BY <1>1, <2>1, <2>2, ElsewhereKeeps
<1> QED BY <1>3, <1>4 DEF DiskMachineStep, IdleHalt, Halt, Stopped

-----------------------------------------------------------------------------
(* Steps of the driver *)

\* ReadSector and WriteSector up to the return of Acquire, or up to Sleep.
LEMMA CallDriverKeeps ==
  ASSUME TypeOK, DiskTypeOK, Live, StageOK, CountOK, NEW t \in Thread, CallDriver(t)
  PROVE  StageOK' /\ CountOK'
<1>1. /\ stage[t] = "none" /\ status[t] = "user" /\ cpu = "running" /\ Acquire(t, lock)
      /\ UNCHANGED <<active, value, queue>>
  BY DEF CallDriver, At, Running, Acquire, semVars
<1>2. stage'[t] = "Request" /\ \A u \in Thread : u # t => stage'[u] = stage[u]
  BY DEF CallDriver, DiskTypeOK
<1>3. \A u \in Thread : Served(u)' <=> Served(u)
  BY <1>1, <1>2 DEF Served
<1>4. t \notin inside[lock]
  BY <1>1 DEF StageOK, Served
<1>5. inside \in [Lock -> SUBSET Thread] /\ free \in [Lock -> BOOLEAN]
      /\ owner \in [Lock -> Thread \cup {NULL}]
  BY DEF TypeOK, SynchTypeOK
<1>6. CASE free[lock]
  <2>1. /\ UNCHANGED threadVars
        /\ free'[lock] = FALSE /\ inside'[lock] = inside[lock] \cup {t}
    BY <1>1, <1>5, <1>6, DiskAssumption DEF Acquire
  <2>2. UNCHANGED <<status, blockedOn, cpu>>
    BY <2>1 DEF threadVars
  <2>3. StageOK'
    <3>1. ASSUME NEW u \in Thread
          PROVE /\ status[u] = "P" => stage'[u] = "Release" /\ blockedOn[u] = semaphore
                /\ status[u] = "Acquire" => stage'[u] = "Request" /\ blockedOn[u] = lock
                /\ stage'[u] # "none" => status[u] \in {"user", "P", "Acquire"}
                /\ stage'[u] = "P" => status[u] = "user"
                /\ u \in inside'[lock] <=>
                     Served(u) \/ (stage'[u] = "Request" /\ status[u] = "user")
      BY <1>1, <1>2, <1>4, <2>1 DEF StageOK, Served
    <3> QED BY <1>1, <1>3, <2>1, <2>2, <3>1 DEF StageOK
  <2>4. CountOK'
    BY <1>1, <1>2, <1>3, <2>2 DEF CountOK
  <2> QED BY <2>3, <2>4
<1>7. CASE ~free[lock]
  <2>1. Block(t, "Acquire", lock) /\ UNCHANGED <<free, owner, inside>>
    BY <1>1, <1>7 DEF Acquire
  <2>2. /\ status'[t] = "Acquire" /\ blockedOn'[t] = lock
        /\ \A u \in Thread : u # t => status'[u] = status[u] /\ blockedOn'[u] = blockedOn[u]
        /\ cpu' # "boot"
    BY <2>1 DEF Block, Sleep, SwitchTo, TypeOK, ThreadTypeOK
  <2>3. StageOK'
    <3>1. ASSUME NEW u \in Thread
          PROVE /\ status'[u] = "P" => stage'[u] = "Release" /\ blockedOn'[u] = semaphore
                /\ status'[u] = "Acquire" => stage'[u] = "Request" /\ blockedOn'[u] = lock
                /\ stage'[u] # "none" => status'[u] \in {"user", "P", "Acquire"}
                /\ stage'[u] = "P" => status'[u] = "user"
                /\ u \in inside[lock] <=>
                     Served(u) \/ (stage'[u] = "Request" /\ status'[u] = "user")
      <4>1. CASE u = t
        BY <1>1, <1>2, <1>4, <2>2, <4>1 DEF Served
      <4>2. CASE u # t
        BY <1>2, <2>2, <4>2 DEF StageOK, Served
      <4> QED BY <4>1, <4>2
    <3> QED BY <1>3, <1>7, <2>1, <2>2, <3>1 DEF StageOK
  <2>4. CountOK'
    BY <1>1, <1>2, <1>3, <2>2 DEF CountOK
  <2> QED BY <2>3, <2>4
<1> QED BY <1>6, <1>7

\* A thread whose Sleep in Acquire returns has the lock, and the disk is idle.
LEMMA ReturnAcquireKeepsDriver ==
  ASSUME TypeOK, Live, StageOK, CountOK, NEW t \in Thread, ReturnAcquire(t), UNCHANGED diskVars
  PROVE  StageOK' /\ CountOK'
<1>1. /\ status[t] = "Acquire" /\ Resumed(t, "user") /\ blockedOn' = [blockedOn EXCEPT ![t] = NULL]
      /\ inside' = [inside EXCEPT ![blockedOn[t]] = @ \cup {t}]
      /\ UNCHANGED <<value, queue, free, owner, stage, active>>
  BY DEF ReturnAcquire, Return, semVars, diskVars
<1>2. stage[t] = "Request" /\ blockedOn[t] = lock
  BY <1>1 DEF StageOK
<1>3. /\ status'[t] = "user"
      /\ \A u \in Thread : u # t =>
           \/ status'[u] = status[u]
           \/ status[u] = "finished" /\ status'[u] = "deleted"
  BY <1>1, ResumedStatus, Values
<1>4. inside'[lock] = inside[lock] \cup {t} /\ cpu' # "boot"
  BY <1>1, <1>2, DiskAssumption DEF TypeOK, SynchTypeOK, Resumed
<1>5. \A u \in Thread : u # t => blockedOn'[u] = blockedOn[u]
  BY <1>1 DEF TypeOK, ThreadTypeOK
<1>6. \A u \in Thread : Served(u)' <=> Served(u)
  BY <1>1 DEF Served
<1>7. StageOK'
  <2>1. ASSUME NEW u \in Thread
        PROVE /\ status'[u] = "P" => stage[u] = "Release" /\ blockedOn'[u] = semaphore
              /\ status'[u] = "Acquire" => stage[u] = "Request" /\ blockedOn'[u] = lock
              /\ stage[u] # "none" => status'[u] \in {"user", "P", "Acquire"}
              /\ stage[u] = "P" => status'[u] = "user"
              /\ u \in inside'[lock] <=>
                   Served(u) \/ (stage[u] = "Request" /\ status'[u] = "user")
    <3>1. CASE u = t
      BY <1>2, <1>3, <1>4, <3>1
    <3>2. CASE u # t
      BY <1>3, <1>4, <1>5, <3>2 DEF StageOK
    <3> QED BY <3>1, <3>2
  <2> QED BY <1>1, <1>4, <1>6, <2>1 DEF StageOK
<1>8. CountOK'
  BY <1>1, <1>2, <1>3, <1>6 DEF CountOK, StageOK
<1> QED BY <1>7, <1>8

\* The request: nobody else is being served, so the disk is idle.
LEMMA DiskRequestKeeps ==
  ASSUME TypeOK, DiskTypeOK, IInv, StageOK, CountOK, NEW t \in Thread, DiskRequest(t)
  PROVE  ~active /\ UNCHANGED vars /\ StageOK' /\ CountOK'
<1>1. stage[t] = "Request" /\ status[t] = "user"
  BY DEF DiskRequest, At, Running
<1>2. t \in inside[lock] /\ \A u \in Thread : ~Served(u)
  <2>1. t \in inside[lock] /\ \A u \in Thread : u # t => ~Served(u)
    BY <1>1, OneServed
  <2> QED BY <1>1, <2>1 DEF Served
<1>3. ~active /\ value[semaphore] = 0 /\ queue[semaphore] = <<>>
  BY <1>2 DEF CountOK
<1>4. /\ active' = TRUE /\ stage'[t] = "P" /\ \A u \in Thread : u # t => stage'[u] = stage[u]
      /\ UNCHANGED vars
  BY <1>3 DEF DiskRequest, DiskTypeOK
<1>5. UNCHANGED <<status, blockedOn, cpu, value, queue, free, owner, inside>>
  BY <1>4 DEF vars, threadVars, synchVars, semVars, lockVars
<1>6. StageOK'
  <2>1. ASSUME NEW u \in Thread
        PROVE /\ status[u] = "P" => stage'[u] = "Release" /\ blockedOn[u] = semaphore
              /\ status[u] = "Acquire" => stage'[u] = "Request" /\ blockedOn[u] = lock
              /\ stage'[u] # "none" => status[u] \in {"user", "P", "Acquire"}
              /\ stage'[u] = "P" => status[u] = "user"
              /\ u \in inside[lock] <=>
                   stage'[u] \in {"P", "Release"} \/ (stage'[u] = "Request" /\ status[u] = "user")
    <3>1. CASE u = t
      BY <1>1, <1>2, <1>4, <3>1
    <3>2. CASE u # t
      BY <1>4, <3>2 DEF StageOK, Served
    <3> QED BY <3>1, <3>2
  <2>2. cpu = "running"
    BY DEF DiskRequest, At, Running
  <2> QED BY <1>5, <2>1, <2>2 DEF StageOK, Served
<1>7. CountOK'
  <2>1. Served(t)'
    BY <1>4 DEF Served
  <2>2. \A u \in Thread : stage'[u] # "Release" /\ (stage'[u] = "P" => u = t)
    BY <1>2, <1>4 DEF Served
  <2> QED BY <1>3, <1>4, <1>5, <2>1, <2>2 DEF CountOK
<1> QED BY <1>3, <1>4, <1>6, <1>7

\* P, with the interrupt before it or still to come.
LEMMA WaitForInterruptKeeps ==
  ASSUME TypeOK, DiskTypeOK, IInv, StageOK, CountOK, NEW t \in Thread, WaitForInterrupt(t)
  PROVE  StageOK' /\ CountOK'
<1>1. /\ stage[t] = "P" /\ status[t] = "user" /\ cpu = "running" /\ P(t, semaphore)
      /\ UNCHANGED <<active, free, owner, inside>>
  BY DEF WaitForInterrupt, At, Running, P, lockVars
<1>2. stage'[t] = "Release" /\ \A u \in Thread : u # t => stage'[u] = stage[u]
  BY DEF WaitForInterrupt, DiskTypeOK
<1>3. t \in inside[lock] /\ \A u \in Thread : u # t => ~Served(u)
  BY <1>1, OneServed DEF Served
<1>4. /\ queue[semaphore] = <<>> /\ queue \in [Semaphore -> Seq(Thread)]
      /\ value[semaphore] = IF active THEN 0 ELSE 1
      /\ value \in [Semaphore -> Int]
  BY <1>1 DEF CountOK, TypeOK, SynchTypeOK
<1>5. \A u \in Thread : Served(u)' <=> Served(u)
  BY <1>1, <1>2 DEF Served
<1>6. ASSUME status'[t] = "user" \/ (status'[t] = "P" /\ blockedOn'[t] = semaphore),
             \A u \in Thread : u # t => status'[u] = status[u] /\ blockedOn'[u] = blockedOn[u],
             cpu' # "boot"
      PROVE  StageOK'
  <2>1. ASSUME NEW u \in Thread
        PROVE /\ status'[u] = "P" => stage'[u] = "Release" /\ blockedOn'[u] = semaphore
              /\ status'[u] = "Acquire" => stage'[u] = "Request" /\ blockedOn'[u] = lock
              /\ stage'[u] # "none" => status'[u] \in {"user", "P", "Acquire"}
              /\ stage'[u] = "P" => status'[u] = "user"
              /\ u \in inside[lock] <=>
                   stage'[u] \in {"P", "Release"} \/ (stage'[u] = "Request" /\ status'[u] = "user")
    <3>1. CASE u = t
      BY <1>2, <1>3, <1>6, <3>1
    <3>2. CASE u # t
      BY <1>2, <1>6, <3>2 DEF StageOK, Served
    <3> QED BY <3>1, <3>2
  <2> QED BY <1>1, <1>6, <2>1 DEF StageOK, Served
<1>7. CASE value[semaphore] > 0
  <2>1. ~active /\ value'[semaphore] = 0 /\ UNCHANGED <<threadVars, queue>>
    BY <1>1, <1>4, <1>7, DiskAssumption DEF P
  <2>2. UNCHANGED <<status, blockedOn, cpu>>
    BY <2>1 DEF threadVars
  <2>3. StageOK'
    BY <1>1, <1>6, <2>2
  <2>4. CountOK'
    <3>1. \A u \in Thread : stage'[u] # "P" /\ (stage'[u] = "Release" => u = t)
      BY <1>2, <1>3 DEF Served
    <3> QED BY <1>1, <1>4, <2>1, <2>2, <3>1 DEF CountOK
  <2> QED BY <2>3, <2>4
<1>8. CASE ~(value[semaphore] > 0)
  <2>1. /\ active /\ value[semaphore] = 0 /\ UNCHANGED value /\ Block(t, "P", semaphore)
        /\ queue' = [queue EXCEPT ![semaphore] = Append(@, t)]
    BY <1>1, <1>4, <1>8, DiskAssumption DEF P
  <2>2. queue'[semaphore] = <<t>>
    BY <1>4, <2>1, DiskAssumption
  <2>3. /\ status'[t] = "P" /\ blockedOn'[t] = semaphore
        /\ \A u \in Thread : u # t => status'[u] = status[u] /\ blockedOn'[u] = blockedOn[u]
        /\ cpu' # "boot"
    BY <2>1 DEF Block, Sleep, SwitchTo, TypeOK, ThreadTypeOK
  <2>4. StageOK'
    BY <1>6, <2>3
  <2>5. CountOK'
    <3>1. \A u \in Thread : stage'[u] # "P" /\ (stage'[u] = "Release" => u = t)
      BY <1>2, <1>3 DEF Served
    <3>2. Served(t)'
      BY <1>2 DEF Served
    <3> QED BY <1>1, <2>1, <2>2, <2>3, <3>1, <3>2 DEF CountOK
  <2> QED BY <2>4, <2>5
<1> QED BY <1>7, <1>8

\* The rest of P: the interrupt that woke the thread is the one it takes.
LEMMA ReturnPKeepsDriver ==
  ASSUME TypeOK, DiskTypeOK, IInv, Live, StageOK, CountOK, NEW t \in Thread, ReturnP(t),
         UNCHANGED diskVars
  PROVE  StageOK' /\ CountOK'
<1>1. /\ status[t] = "P" /\ Resumed(t, "user") /\ blockedOn' = [blockedOn EXCEPT ![t] = NULL]
      /\ value' = [value EXCEPT ![blockedOn[t]] = @ - 1]
      /\ UNCHANGED <<queue, free, owner, inside, stage, active>>
  BY DEF ReturnP, Return, lockVars, diskVars
<1>2. stage[t] = "Release" /\ blockedOn[t] = semaphore
  BY <1>1 DEF StageOK
<1>3. t \in inside[lock] /\ \A u \in Thread : u # t => ~Served(u)
  BY <1>2, OneServed DEF Served
<1>4. /\ queue[semaphore] = IF active THEN <<t>> ELSE <<>>
      /\ value[semaphore] = IF active THEN 0 ELSE 1
      /\ value \in [Semaphore -> Int]
  BY <1>1, <1>2 DEF CountOK, TypeOK, SynchTypeOK
<1>5. ~active
  <2>1. OnCpu(t)
    BY <1>1 DEF Resumed, OnCpu
  <2>2. t \notin Members(queue[semaphore])
    BY <2>1, DiskAssumption DEF Live, QueuesOK, Asleep
  <2>3. t \in Members(<<t>>)
    BY DEF Members
  <2> QED BY <1>4, <2>2, <2>3
<1>6. value'[semaphore] = 0 /\ queue'[semaphore] = <<>>
  BY <1>1, <1>2, <1>4, <1>5, DiskAssumption
<1>7. /\ status'[t] = "user" /\ cpu' # "boot"
      /\ \A u \in Thread : u # t =>
           \/ status'[u] = status[u]
           \/ status[u] = "finished" /\ status'[u] = "deleted"
  BY <1>1, ResumedStatus, Values DEF Resumed
<1>8. \A u \in Thread : u # t => blockedOn'[u] = blockedOn[u]
  BY <1>1 DEF TypeOK, ThreadTypeOK
<1>9. StageOK'
  <2>1. ASSUME NEW u \in Thread
        PROVE /\ status'[u] = "P" => stage[u] = "Release" /\ blockedOn'[u] = semaphore
              /\ status'[u] = "Acquire" => stage[u] = "Request" /\ blockedOn'[u] = lock
              /\ stage[u] # "none" => status'[u] \in {"user", "P", "Acquire"}
              /\ stage[u] = "P" => status'[u] = "user"
              /\ u \in inside[lock] <=>
                   stage[u] \in {"P", "Release"} \/ (stage[u] = "Request" /\ status'[u] = "user")
    <3>1. CASE u = t
      BY <1>2, <1>3, <1>7, <3>1
    <3>2. CASE u # t
      BY <1>7, <1>8, <3>2 DEF StageOK, Served
    <3> QED BY <3>1, <3>2
  <2> QED BY <1>1, <1>7, <2>1 DEF StageOK, Served
<1>10. CountOK'
  <2>1. \A u \in Thread : stage[u] # "P" /\ (stage[u] = "Release" => u = t)
    BY <1>2, <1>3 DEF Served
  <2> QED BY <1>1, <1>5, <1>6, <1>7, <2>1 DEF CountOK
<1> QED BY <1>9, <1>10

\* Release: the request is over, and so is its interrupt.
LEMMA LeaveDriverKeeps ==
  ASSUME TypeOK, DiskTypeOK, IInv, StageOK, CountOK, NEW t \in Thread, LeaveDriver(t)
  PROVE  owner[lock] = t /\ ~active /\ StageOK' /\ CountOK'
<1>1. /\ stage[t] = "Release" /\ status[t] = "user" /\ cpu = "running" /\ Release(t, lock)
      /\ UNCHANGED <<active, value, queue>>
  BY DEF LeaveDriver, At, Running, Release, semVars
<1>2. stage'[t] = "none" /\ \A u \in Thread : u # t => stage'[u] = stage[u]
  BY DEF LeaveDriver, DiskTypeOK
<1>3. owner[lock] = t /\ t \in inside[lock] /\ \A u \in Thread : u # t => ~Served(u)
  BY <1>1, OneServed DEF Served
<1>4. ~active /\ value[semaphore] = 0 /\ queue[semaphore] = <<>>
  BY <1>1 DEF CountOK
<1>5. /\ free'[lock] => owner'[lock] = NULL
      /\ inside'[lock] = inside[lock] \ {t}
      /\ UNCHANGED <<status, blockedOn, cpu>>
  BY <1>1, <1>3, DiskAssumption DEF Release, Wake, TypeOK, SynchTypeOK
<1>6. \A u \in Thread : ~Served(u)'
  BY <1>2, <1>3 DEF Served
<1>7. StageOK'
  <2>1. ASSUME NEW u \in Thread
        PROVE /\ status[u] = "P" => stage'[u] = "Release" /\ blockedOn[u] = semaphore
              /\ status[u] = "Acquire" => stage'[u] = "Request" /\ blockedOn[u] = lock
              /\ stage'[u] # "none" => status[u] \in {"user", "P", "Acquire"}
              /\ stage'[u] = "P" => status[u] = "user"
              /\ u \in inside'[lock] <=>
                   stage'[u] \in {"P", "Release"} \/ (stage'[u] = "Request" /\ status[u] = "user")
    <3>1. CASE u = t
      BY <1>1, <1>2, <1>5, <3>1
    <3>2. CASE u # t
      BY <1>2, <1>5, <3>2 DEF StageOK, Served
    <3> QED BY <3>1, <3>2
  <2> QED BY <1>1, <1>5, <2>1 DEF StageOK, Served
<1>8. CountOK'
  BY <1>1, <1>4, <1>6 DEF CountOK, Served
<1> QED BY <1>3, <1>4, <1>7, <1>8

\* The interrupt: V gives the thread being served what it waits for.
LEMMA HandleInterruptKeeps ==
  ASSUME TypeOK, DiskTypeOK, IInv, StageOK, CountOK, HandleInterrupt
  PROVE  /\ owner[lock] \in Thread /\ Served(owner[lock])
         /\ StageOK' /\ CountOK'
<1>1. /\ active /\ active' = FALSE /\ cpu \in {"running", "idle"} /\ SemV(semaphore)
      /\ UNCHANGED <<stage, status, blockedOn, cpu, free, owner, inside>>
  BY DEF HandleInterrupt, SemV, Wake, lockVars
<1>2. PICK t \in Thread : Served(t)
  BY <1>1 DEF CountOK
<1>3. owner[lock] = t /\ \A u \in Thread : u # t => ~Served(u)
  BY <1>2, OneServed
<1>4. StageOK'
  BY <1>1 DEF StageOK, Served
<1>5. /\ value \in [Semaphore -> Int] /\ queue \in [Semaphore -> Seq(Thread)]
      /\ value'[semaphore] = value[semaphore] + 1
      /\ queue'[semaphore] = Rest(queue[semaphore])
  BY <1>1, DiskAssumption DEF SemV, TypeOK, SynchTypeOK
<1>6. /\ stage[t] = "P" => queue[semaphore] = <<>> /\ value[semaphore] = 0
      /\ stage[t] = "Release" /\ status[t] = "P" =>
           queue[semaphore] = <<t>> /\ value[semaphore] = 0
      /\ ~(stage[t] = "Release" /\ status[t] = "user")
  BY <1>1 DEF CountOK
<1>7. stage[t] = "P" \/ (stage[t] = "Release" /\ status[t] = "P")
  BY <1>2, <1>6 DEF StageOK, Served
<1>8. Rest(<<>>) = <<>> /\ Rest(<<t>>) = <<>>
  BY DEF Rest
<1>9. value'[semaphore] = 1 /\ queue'[semaphore] = <<>>
  <2>1. value[semaphore] = 0 /\ (queue[semaphore] = <<>> \/ queue[semaphore] = <<t>>)
    BY <1>6, <1>7
  <2>2. value'[semaphore] = 1
    BY <1>5, <2>1
  <2>3. queue'[semaphore] = <<>>
    BY <1>5, <1>8, <2>1
  <2> QED BY <2>2, <2>3
<1>10. CountOK'
  <2>1. Served(t)'
    BY <1>1, <1>2 DEF Served
  <2>2. \A u \in Thread : stage[u] \in {"P", "Release"} => u = t
    BY <1>3 DEF Served
  <2> QED BY <1>1, <1>6, <1>9, <2>1, <2>2 DEF CountOK
<1> QED BY <1>2, <1>3, <1>4, <1>10

-----------------------------------------------------------------------------
(* The inductive invariant *)

\* Every variable of the driver keeps its type.
LEMMA DiskTypes ==
  ASSUME DiskTypeOK, [DiskNext]_allVars
  PROVE  DiskTypeOK'
<1> USE DEF DiskTypeOK
<1>1. ASSUME NEW t \in Thread, DriverStep(t) PROVE DiskTypeOK'
  BY <1>1 DEF DriverStep, CallDriver, DiskRequest, WaitForInterrupt, LeaveDriver, diskVars
<1>2. ASSUME NEW t \in Thread, OtherCall(t) \/ Installed(t) PROVE DiskTypeOK'
  BY <1>2 DEF OtherCall, Installed, diskVars
<1>3. CASE HandleInterrupt \/ DiskMachineStep
  BY <1>3 DEF HandleInterrupt, DiskMachineStep, diskVars
<1>4. CASE UNCHANGED allVars
  BY <1>4 DEF allVars, diskVars
<1> QED BY <1>1, <1>2, <1>3, <1>4 DEF DiskNext

\* No step but stuttering is possible once the machine has stopped.
LEMMA DriverNeedsTheCpu ==
  ASSUME [DiskNext]_allVars
  PROVE  ~Stopped \/ UNCHANGED allVars
<1>1. ASSUME NEW t \in Thread, DriverStep(t) \/ OtherCall(t) PROVE ~Stopped
  BY <1>1 DEF DriverStep, CallDriver, DiskRequest, WaitForInterrupt, LeaveDriver, OtherCall, At,
     Running, NewThread, Yield, Finish, HaltCall, Stopped
<1>2. ASSUME NEW t \in Thread, Installed(t) PROVE ~Stopped
  BY <1>2 DEF Installed, StartThreadExecution, ResumeYield, ReturnP, ReturnAcquire, Return,
     Resumed, Stopped
<1>3. CASE HandleInterrupt \/ DiskMachineStep
  BY <1>3 DEF HandleInterrupt, DiskMachineStep, Main, IdleSwitch, IdleHalt, Stopped
<1> QED BY <1>1, <1>2, <1>3 DEF DiskNext

\* As long as the machine runs, every step keeps the driver's invariant.
LEMMA DriverStepKeeps ==
  ASSUME TypeOK, DiskTypeOK, IInv, Live, StageOK, CountOK, DiskNext, ~UNCHANGED allVars, ~Stopped'
  PROVE  StageOK' /\ CountOK'
<1>1. ASSUME NEW t \in Thread, DriverStep(t) PROVE StageOK' /\ CountOK'
  BY <1>1, CallDriverKeeps, DiskRequestKeeps, WaitForInterruptKeeps, LeaveDriverKeeps
     DEF DriverStep
<1>2. ASSUME NEW t \in Thread, OtherCall(t) PROVE StageOK' /\ CountOK'
  BY <1>2, OtherCallKeeps
<1>3. ASSUME NEW t \in Thread, Installed(t) PROVE StageOK' /\ CountOK'
  <2>1. CASE (StartThreadExecution(t) \/ ResumeYield(t)) /\ UNCHANGED <<synchVars, diskVars>>
    BY <2>1, InstalledElsewhereKeeps
  <2>2. CASE ReturnP(t) /\ UNCHANGED diskVars
    BY <2>2, ReturnPKeepsDriver
  <2>3. CASE ReturnAcquire(t) /\ UNCHANGED diskVars
    BY <2>3, ReturnAcquireKeepsDriver
  <2> QED BY <1>3, <2>1, <2>2, <2>3 DEF Installed
<1>4. CASE HandleInterrupt
  BY <1>4, HandleInterruptKeeps
<1>5. CASE DiskMachineStep
  BY <1>5, MachineKeepsDriver
<1> QED BY <1>1, <1>2, <1>3, <1>4, <1>5 DEF DiskNext

\* A step that stops the machine is Halt: ASSERT(!active) and the ASSERT in
\* Lock::Release do not fail.
LEMMA StopsByHalt ==
  ASSUME TypeOK, DiskTypeOK, IInv, Live, StageOK, CountOK, DiskNext, ~UNCHANGED allVars, Stopped'
  PROVE  Halt /\ UNCHANGED <<synchVars, diskVars>>
<1>1. ~Stopped
  BY DriverNeedsTheCpu
<1>2. ASSUME NEW t \in Thread, DriverStep(t) PROVE FALSE
  <2>1. CASE CallDriver(t)
    BY <1>1, <2>1 DEF CallDriver, Acquire, Block, Sleep, SwitchTo, Stopped, threadVars
  <2>2. CASE DiskRequest(t)
    BY <1>1, <2>2, DiskRequestKeeps DEF vars, threadVars, Stopped
  <2>3. CASE WaitForInterrupt(t)
    BY <1>1, <2>3 DEF WaitForInterrupt, P, Block, Sleep, SwitchTo, Stopped, threadVars
  <2>4. CASE LeaveDriver(t)
    BY <1>1, <2>4, LeaveDriverKeeps DEF LeaveDriver, Release, Wake, Stopped
  <2> QED BY <1>2, <2>1, <2>2, <2>3, <2>4 DEF DriverStep
<1>3. ASSUME NEW t \in Thread, OtherCall(t) PROVE Halt /\ UNCHANGED <<synchVars, diskVars>>
  BY <1>1, <1>3 DEF OtherCall, NewThread, Yield, Finish, HaltCall, GiveWay, Sleep, SwitchTo, Stopped
<1>4. ASSUME NEW t \in Thread, Installed(t) PROVE FALSE
  BY <1>4 DEF Installed, StartThreadExecution, ResumeYield, ReturnP, ReturnAcquire, Return, Resumed,
     Stopped
<1>5. CASE HandleInterrupt
  BY <1>1, <1>5 DEF HandleInterrupt, SemV, Wake, Stopped
<1>6. CASE DiskMachineStep
  BY <1>6 DEF DiskMachineStep, Main, SwitchTo, IdleSwitch, IdleHalt, Stopped
<1>7. CASE Stopped /\ UNCHANGED allVars
  BY <1>7
<1> QED BY <1>2, <1>3, <1>4, <1>5, <1>6, <1>7 DEF DiskNext

\* Every step keeps the types and the kernel's invariant.
LEMMA KernelPartKeeps ==
  ASSUME DriverInv, [DiskNext]_allVars
  PROVE  TypeOK' /\ IInv'
<1> USE DEF DriverInv
<1>1. CASE [Next]_vars
  BY <1>1, StepTypes, StepKeeps
<1>2. CASE HandleInterrupt
  <2>1. TypeOK'
    BY <1>2, SemVTypes, DiskAssumption DEF HandleInterrupt
  <2> QED BY <1>2, <2>1, InterruptKeeps
<1>3. CASE IdleSwitch /\ UNCHANGED synchVars
  BY <1>3, IdleSwitchTypes, IdleSwitchKeeps
<1>4. ASSUME NEW t \in Thread, At(t, "Request"), active PROVE FALSE
  <2>1. stage[t] = "Request" /\ status[t] = "user" /\ StageOK /\ CountOK
    BY <1>4 DEF At, Running, Stopped
  <2>2. \A u \in Thread : u # t => ~Served(u)
    BY <2>1, OneServed
  <2>3. ~Served(t)
    BY <2>1 DEF Served
  <2> QED BY <1>4, <2>1, <2>2, <2>3 DEF CountOK
<1> QED BY <1>1, <1>2, <1>3, <1>4, DriverStepIsKernelStep

\* The driver's invariant holds whatever threads do and whenever the disk
\* interrupt comes.
THEOREM DriverInvariant == DiskSpec => []DriverInv
<1>1. DiskInit => DriverInv
  <2> SUFFICES ASSUME DiskInit PROVE DriverInv
    OBVIOUS
  <2> USE ThreadAssumption, DiskAssumption DEF DiskInit, InitWith, ThreadsInit
  <2>1. TypeOK
    BY Values DEF TypeOK, ThreadTypeOK, SynchTypeOK, Status, CpuState
  <2>2. IInv
    <3>1. ReadyOK /\ QueuesOK
      BY EmptyList DEF ReadyOK, QueuesOK
    <3>2. CpuOK /\ AcquireOK
      BY DEF CpuOK, AcquireOK, OnCpu
    <3>3. LockOK /\ MutualExclusion
      BY DEF LockOK, MutualExclusion
    <3> QED BY <3>1, <3>2, <3>3 DEF IInv
  <2>3. DiskTypeOK
    BY DEF DiskTypeOK
  <2>4. StageOK /\ CountOK
    BY DEF StageOK, CountOK, Served
  <2>5. ~Stopped
    BY DEF Stopped
  <2>6. HandShake
    BY <2>2, <2>3, <2>4, <2>5, HandShakeFollows
  <2> QED BY <2>1, <2>2, <2>3, <2>4, <2>6 DEF DriverInv
<1>2. DriverInv /\ [DiskNext]_allVars =>
        /\ TypeOK' /\ DiskTypeOK' /\ IInv'
        /\ (~Stopped => StageOK /\ CountOK)'
        /\ Stopped' => HandShake'
  <2> SUFFICES ASSUME DriverInv, [DiskNext]_allVars
               PROVE  /\ TypeOK' /\ DiskTypeOK' /\ IInv'
                      /\ (~Stopped => StageOK /\ CountOK)'
                      /\ Stopped' => HandShake'
    OBVIOUS
  <2>1. TypeOK' /\ IInv' /\ DiskTypeOK'
    BY KernelPartKeeps, DiskTypes DEF DriverInv
  <2>2. CASE UNCHANGED allVars
    <3>1. UNCHANGED <<status, blockedOn, cpu, value, queue, free, owner, inside, stage, active>>
      BY <2>2 DEF allVars, vars, threadVars, synchVars, semVars, lockVars, diskVars
    <3>2. HandShake' /\ (Stopped' <=> Stopped)
      BY <3>1 DEF DriverInv, HandShake, Stopped
    <3>3. StageOK /\ CountOK => StageOK' /\ CountOK'
      BY <3>1 DEF StageOK, CountOK, Served
    <3> QED BY <2>1, <3>2, <3>3 DEF DriverInv
  <2>3. CASE ~UNCHANGED allVars
    <3>1. ~Stopped /\ DiskNext
      BY <2>3, DriverNeedsTheCpu
    <3>2. TypeOK /\ DiskTypeOK /\ IInv /\ Live /\ HandShake /\ StageOK /\ CountOK
      BY <3>1 DEF DriverInv, IInv, Live
    <3>3. CASE ~Stopped'
      <4>1. StageOK' /\ CountOK'
        BY <2>3, <3>1, <3>2, <3>3, DriverStepKeeps
      <4> QED BY <2>1, <3>3, <4>1
    <3>4. CASE Stopped'
      <4>1. Halt /\ UNCHANGED <<synchVars, diskVars>>
        BY <2>3, <3>1, <3>2, <3>4, StopsByHalt
      <4>2. UNCHANGED <<value, owner, stage, active>> /\ cpu' # "aborted"
        BY <4>1 DEF Halt, synchVars, semVars, lockVars, diskVars
      <4>3. \A u \in Thread : status'[u] = "user" => status[u] = "user"
        BY <3>2, <4>1 DEF Halt, TypeOK, ThreadTypeOK
      <4>4. HandShake'
        BY <3>2, <4>2, <4>3 DEF HandShake
      <4> QED BY <2>1, <3>4, <4>4
    <3> QED BY <3>3, <3>4
  <2> QED BY <2>2, <2>3
<1>3. DiskTypeOK /\ IInv /\ ~Stopped /\ StageOK /\ CountOK => HandShake
  BY HandShakeFollows
<1> QED BY <1>1, <1>2, <1>3, PTL DEF DiskSpec, DriverInv

\* ReadSector, WriteSector, RequestDone and the simulated disk agree about
\* whose request the disk has and where its interrupt is.
THEOREM DriverAndDiskAgree == DiskSpec => []HandShake
<1>1. DriverInv => HandShake
  BY DEF DriverInv
<1> QED BY <1>1, DriverInvariant, PTL

-----------------------------------------------------------------------------
(* Refinement: the driver implements DiskService *)

\* What the abstract state is in each situation of the driver.
LEMMA ServiceState ==
  ASSUME TypeOK, IInv, Live, StageOK
  PROVE  /\ sleepqueue[lock] \in Seq(Thread)
         /\ free[lock] => sleepqueue[lock] = <<>> /\ Line = <<>> /\ Serving = NULL
         /\ ~free[lock] => /\ owner[lock] \in Thread /\ owner[lock] # NULL
                           /\ Served(owner[lock]) \/ stage[owner[lock]] = "Request"
         /\ \A t \in Members(sleepqueue[lock]) :
              t \in Thread /\ status[t] = "Acquire" /\ stage[t] = "Request"
<1>1. sleepqueue[lock] \in Seq(Thread) /\ inside[lock] \in SUBSET Thread
  BY DiskAssumption DEF TypeOK, SynchTypeOK
<1>2. ASSUME free[lock] PROVE sleepqueue[lock] = <<>> /\ Line = <<>> /\ Serving = NULL
  <2>1. sleepqueue[lock] = <<>> /\ owner[lock] = NULL
    BY <1>2, DiskAssumption DEF Live, LockOK, StageOK
  <2> QED BY <2>1 DEF Line, Serving
<1>3. ASSUME ~free[lock]
      PROVE  /\ owner[lock] \in Thread /\ owner[lock] # NULL
             /\ Served(owner[lock]) \/ stage[owner[lock]] = "Request"
  <2>1. \/ owner[lock] \in inside[lock]
        \/ owner[lock] \in Thread /\ status[owner[lock]] = "Acquire"
    BY <1>3, DiskAssumption DEF Live, LockOK
  <2>2. owner[lock] \in Thread
    BY <1>1, <2>1
  <2> QED BY <2>1, <2>2, ThreadAssumption DEF StageOK
<1>4. ASSUME NEW t \in Members(sleepqueue[lock])
      PROVE  t \in Thread /\ status[t] = "Acquire" /\ stage[t] = "Request"
  <2>1. t \in Thread
    BY <1>1, ListMembers
  <2>2. status[t] = "Acquire"
    BY DiskAssumption DEF Live, QueuesOK, Asleep
  <2> QED BY <2>1, <2>2 DEF StageOK
<1> QED BY <1>1, <1>2, <1>3, <1>4

\* A step that leaves the lock, the disk and the stages alone is a stutter.
LEMMA ServiceStutters ==
  ASSUME UNCHANGED <<owner, sleepqueue, stage, active>>
  PROVE  UNCHANGED Service!vars
BY DEF Service!vars, Line, Serving

\* A thread behind the owner, who has not made its request yet.
LEMMA LineUp ==
  ASSUME NEW list \in Seq(Thread), NEW o \in Thread, NEW t \in Thread
  PROVE  /\ <<o>> \o Append(list, t) = Append(<<o>> \o list, t)
         /\ Members(<<o>> \o list) = Members(list) \cup {o}
<1>1. /\ Len(<<o>> \o list) = Len(list) + 1 /\ Len(list) \in Nat
      /\ (<<o>> \o list)[1] = o
      /\ \A i \in 2..(Len(list) + 1) : (<<o>> \o list)[i] = list[i - 1]
      /\ <<o>> \o list \in Seq(Thread)
  OBVIOUS
<1>2. <<o>> \o Append(list, t) = Append(<<o>> \o list, t)
  OBVIOUS
<1>3. ASSUME NEW x \in Members(<<o>> \o list) PROVE x \in Members(list) \cup {o}
  <2>1. PICK i \in 1..(Len(list) + 1) : x = (<<o>> \o list)[i]
    BY <1>1 DEF Members
  <2>2. CASE i = 1
    BY <1>1, <2>1, <2>2
  <2>3. CASE i # 1
    <3>1. i \in 2..(Len(list) + 1) /\ i - 1 \in 1..Len(list)
      BY <1>1, <2>3
    <3> QED BY <1>1, <2>1, <3>1 DEF Members
  <2> QED BY <2>2, <2>3
<1>4. ASSUME NEW x \in Members(list) \cup {o} PROVE x \in Members(<<o>> \o list)
  <2>1. CASE x = o
    <3>1. 1 \in 1..Len(<<o>> \o list)
      BY <1>1
    <3> QED BY <1>1, <2>1, <3>1 DEF Members
  <2>2. CASE x \in Members(list)
    <3>1. PICK i \in 1..Len(list) : x = list[i]
      BY <2>2 DEF Members
    <3>2. i + 1 \in 2..(Len(list) + 1) /\ (i + 1) - 1 = i /\ i + 1 \in 1..Len(<<o>> \o list)
      BY <1>1
    <3>3. (<<o>> \o list)[i + 1] = x
      BY <1>1, <3>1, <3>2
    <3> QED BY <3>2, <3>3 DEF Members
  <2> QED BY <2>1, <2>2
<1> QED BY <1>2, <1>3, <1>4

\* Acquire enters the line at its end.
LEMMA CallDriverCalls ==
  ASSUME TypeOK, DiskTypeOK, IInv, Live, StageOK, NEW t \in Thread, CallDriver(t)
  PROVE  Service!Call(t)
<1>1. /\ stage[t] = "none" /\ status[t] = "user" /\ Acquire(t, lock) /\ UNCHANGED active
      /\ stage'[t] = "Request" /\ \A u \in Thread : u # t => stage'[u] = stage[u]
  BY DEF CallDriver, At, Running, DiskTypeOK
<1>2. /\ free \in [Lock -> BOOLEAN] /\ owner \in [Lock -> Thread \cup {NULL}]
      /\ sleepqueue \in [Lock -> Seq(Thread)] /\ t # NULL
  BY ThreadAssumption DEF TypeOK, SynchTypeOK
<1>3. CASE free[lock]
  <2>1. sleepqueue[lock] = <<>> /\ Line = <<>> /\ Serving = NULL
    BY <1>3, ServiceState
  <2>2. owner'[lock] = t /\ sleepqueue'[lock] = <<>>
    BY <1>1, <1>2, <1>3, <2>1, DiskAssumption DEF Acquire
  <2>3. Line' = <<t>> \o <<>> /\ Serving' = NULL
    BY <1>1, <1>2, <2>2 DEF Line, Serving
  <2>4. Line' = Append(Line, t)
    BY <2>1, <2>3
  <2> QED BY <1>1, <1>2, <2>1, <2>3, <2>4 DEF Service!Call
<1>4. CASE ~free[lock]
  <2>1. PICK o \in Thread : o = owner[lock]
    BY <1>4, ServiceState
  <2>2. /\ sleepqueue[lock] \in Seq(Thread)
        /\ stage[o] # "none" /\ o # NULL
        /\ \A u \in Members(sleepqueue[lock]) : status[u] = "Acquire"
    BY <1>4, <2>1, ServiceState DEF Served
  <2>3. o # t /\ t \notin Members(sleepqueue[lock])
    BY <1>1, <2>2
  <2>4. owner' = owner /\ sleepqueue'[lock] = Append(sleepqueue[lock], t)
    BY <1>1, <1>2, <1>4, DiskAssumption DEF Acquire
  <2>5. stage'[o] = stage[o]
    BY <1>1, <2>3
  <2>6. Serving' = Serving /\ Serving # t
    BY <1>2, <2>1, <2>3, <2>4, <2>5 DEF Serving
  <2>7. CASE stage[o] = "Request"
    <3>1. Line = <<o>> \o sleepqueue[lock] /\ Line' = <<o>> \o Append(sleepqueue[lock], t)
      BY <2>1, <2>2, <2>4, <2>5, <2>7 DEF Line
    <3>2. Line' = Append(Line, t) /\ t \notin Members(Line)
      BY <2>2, <2>3, <3>1, LineUp
    <3> QED BY <1>1, <2>6, <3>2 DEF Service!Call, Members
  <2>8. CASE stage[o] # "Request"
    <3>1. Line = <<>> \o sleepqueue[lock] /\ Line' = <<>> \o Append(sleepqueue[lock], t)
      BY <2>1, <2>2, <2>4, <2>5, <2>8 DEF Line
    <3>2. Line = sleepqueue[lock] /\ Line' = Append(sleepqueue[lock], t)
      BY <2>2, <3>1
    <3> QED BY <1>1, <2>3, <2>6, <3>2 DEF Service!Call, Members
  <2> QED BY <2>7, <2>8
<1> QED BY <1>3, <1>4

\* The request starts the service of the first in line.
LEMMA DiskRequestStarts ==
  ASSUME TypeOK, DiskTypeOK, IInv, Live, StageOK, CountOK, NEW t \in Thread, DiskRequest(t)
  PROVE  Service!Start
<1>1. stage[t] = "Request" /\ status[t] = "user"
  BY DEF DiskRequest, At, Running
<1>2. owner[lock] = t /\ t # NULL /\ ~active /\ sleepqueue[lock] \in Seq(Thread)
  BY <1>1, OneServed, DiskRequestKeeps, ServiceState, ThreadAssumption
<1>3. /\ active' = TRUE /\ stage'[t] = "P" /\ UNCHANGED <<owner, sleepqueue>>
  BY <1>2 DEF DiskRequest, DiskTypeOK, vars, synchVars, lockVars
<1>4. Line = <<t>> \o sleepqueue[lock] /\ Serving = NULL
  BY <1>1, <1>2 DEF Line, Serving
<1>5. Line' = <<>> \o sleepqueue[lock] /\ Serving' = t
  BY <1>2, <1>3 DEF Line, Serving
<1>6. Line # <<>> /\ Head(Line) = t /\ Tail(Line) = Line'
  BY <1>2, <1>4, <1>5
<1> QED BY <1>3, <1>4, <1>5, <1>6 DEF Service!Start

\* The interrupt completes the request of the thread being served.
LEMMA InterruptCompletes ==
  ASSUME TypeOK, DiskTypeOK, IInv, Live, StageOK, CountOK, HandleInterrupt
  PROVE  Service!Complete
<1>1. owner[lock] \in Thread /\ Served(owner[lock])
  BY HandleInterruptKeeps
<1>2. Serving # NULL
  BY <1>1, ThreadAssumption DEF Serving, Served
<1>3. active /\ active' = FALSE /\ UNCHANGED <<owner, sleepqueue, stage>>
  BY DEF HandleInterrupt, SemV, lockVars
<1>4. UNCHANGED <<Line, Serving>>
  BY <1>3 DEF Line, Serving
<1> QED BY <1>2, <1>3, <1>4 DEF Service!Complete

\* Release ends the service, and only after the request was completed.
LEMMA LeaveDriverReturns ==
  ASSUME TypeOK, DiskTypeOK, IInv, Live, StageOK, CountOK, NEW t \in Thread, LeaveDriver(t)
  PROVE  Service!Return
<1>1. stage[t] = "Release" /\ Release(t, lock) /\ UNCHANGED active
  BY DEF LeaveDriver, At, Running
<1>2. owner[lock] = t /\ ~active /\ t # NULL
  BY LeaveDriverKeeps, ThreadAssumption
<1>3. Line = <<>> \o sleepqueue[lock] /\ Serving = t
  BY <1>1, <1>2 DEF Line, Serving
<1>4. \A u \in Thread : u # t => stage'[u] = stage[u]
  BY DEF LeaveDriver, DiskTypeOK
<1>5. /\ sleepqueue[lock] \in Seq(Thread)
      /\ sleepqueue'[lock] = Rest(sleepqueue[lock])
      /\ owner'[lock] = IF sleepqueue[lock] = <<>> THEN NULL ELSE Head(sleepqueue[lock])
  BY <1>1, <1>2, DiskAssumption DEF Release, TypeOK, SynchTypeOK
<1>6. Line' = Line /\ Serving' = NULL
  <2>1. CASE sleepqueue[lock] = <<>>
    <3>1. owner'[lock] = NULL /\ sleepqueue'[lock] = <<>>
      BY <1>5, <2>1 DEF Rest
    <3> QED BY <1>3, <2>1, <3>1 DEF Line, Serving
  <2>2. CASE sleepqueue[lock] # <<>>
    <3>1. PICK h \in Thread : h = Head(sleepqueue[lock])
      BY <1>5, <2>2
    <3>2. h \in Members(sleepqueue[lock])
      BY <1>5, <2>2, <3>1, ListRemove
    <3>3. stage[h] = "Request"
      BY <3>2, ServiceState
    <3>4. stage'[h] = "Request"
      BY <1>1, <1>4, <3>3
    <3>5. owner'[lock] = h /\ sleepqueue'[lock] = Tail(sleepqueue[lock]) /\ h # NULL
      BY <1>5, <2>2, <3>1, ThreadAssumption DEF Rest
    <3>6. Line' = <<h>> \o Tail(sleepqueue[lock]) /\ Serving' = NULL
      BY <3>4, <3>5 DEF Line, Serving
    <3>7. <<h>> \o Tail(sleepqueue[lock]) = sleepqueue[lock]
      BY <1>5, <2>2, <3>1
    <3>8. Line = sleepqueue[lock]
      BY <1>3, <1>5
    <3> QED BY <3>6, <3>7, <3>8
  <2> QED BY <2>1, <2>2
<1> QED BY <1>1, <1>2, <1>3, <1>6 DEF Service!Return

\* drvDisk.cc implements DiskService: threads are served one at a time, in
\* the order of their calls, and each is let go only after the interrupt of
\* its own request.
THEOREM DriverImplementsService == DiskSpec => ImplementsService
<1>1. DiskInit => Service!Init
  BY DiskAssumption DEF DiskInit, InitWith, Service!Init, Line, Serving
<1>2. DriverInv /\ [DiskNext]_allVars => [Service!Next]_(Service!vars)
  <2> SUFFICES ASSUME DriverInv, DiskNext, ~UNCHANGED allVars
               PROVE  Service!Next \/ UNCHANGED Service!vars
    BY ServiceStutters DEF allVars, vars, synchVars, lockVars, diskVars
  <2>1. TypeOK /\ DiskTypeOK /\ IInv /\ Live /\ StageOK /\ CountOK
    BY DriverNeedsTheCpu DEF DriverInv, IInv, Live
  <2>2. ASSUME NEW t \in Thread, DriverStep(t) PROVE Service!Next \/ UNCHANGED Service!vars
    <3>1. CASE CallDriver(t)
      BY <2>1, <3>1, CallDriverCalls DEF Service!Next
    <3>2. CASE DiskRequest(t)
      BY <2>1, <3>2, DiskRequestStarts DEF Service!Next
    <3>3. CASE WaitForInterrupt(t)
      <4>1. /\ UNCHANGED <<owner, sleepqueue, active>> /\ stage[t] = "P"
            /\ stage' = [stage EXCEPT ![t] = "Release"]
        BY <3>3 DEF WaitForInterrupt, P, lockVars, At
      <4>2. \A u \in Thread : stage'[u] = "Request" <=> stage[u] = "Request"
        BY <2>1, <4>1 DEF DiskTypeOK
      <4>3. owner[lock] = t /\ t # NULL
        BY <2>1, <4>1, OneServed, ThreadAssumption DEF Served
      <4>4. UNCHANGED <<Line, Serving>>
        BY <4>1, <4>2, <4>3 DEF Line, Serving
      <4> QED BY <4>1, <4>4 DEF Service!vars
    <3>4. CASE LeaveDriver(t)
      BY <2>1, <3>4, LeaveDriverReturns DEF Service!Next
    <3> QED BY <2>2, <3>1, <3>2, <3>3, <3>4 DEF DriverStep
  <2>3. ASSUME NEW t \in Thread, OtherCall(t) \/ Installed(t) PROVE UNCHANGED Service!vars
    BY <2>3, ServiceStutters DEF OtherCall, Installed, ReturnP, ReturnAcquire, synchVars, lockVars,
       diskVars
  <2>4. CASE HandleInterrupt
    BY <2>1, <2>4, InterruptCompletes DEF Service!Next
  <2>5. CASE DiskMachineStep
    BY <2>5, ServiceStutters DEF DiskMachineStep, synchVars, lockVars, diskVars
  <2> QED BY <2>2, <2>3, <2>4, <2>5 DEF DiskNext
<1> QED BY <1>1, <1>2, DriverInvariant, PTL DEF DiskSpec, ImplementsService, Service!Spec

=============================================================================
