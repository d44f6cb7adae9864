----------------------------- MODULE DiskDriver -----------------------------
(***************************************************************************)
(* The disk driver (drivers/drvDisk.cc) on top of its lock and semaphore,  *)
(* with the simulated disk (machine/disk.cc) and its interrupt             *)
(* (machine/interrupt.cc).                                                 *)
(*                                                                         *)
(* ReadSector and WriteSector are the same code but for the direction of   *)
(* the transfer, which the simulated disk does within the request; what    *)
(* can go wrong is in the hand-shake, so one operation stands for both and *)
(* the data are left out.  The file disk and the swap disk are two         *)
(* instances of this module.                                               *)
(*                                                                         *)
(* Interrupts are enabled between the steps of the driver.  The interrupt  *)
(* comes at any time after the request: while the thread that made it has  *)
(* not called P yet, while others run, or while the machine is idle.       *)
(***************************************************************************)
EXTENDS Synch

CONSTANTS
  semaphore,   \* DriverDisk::semaphore, made with value 0
  lock         \* DriverDisk::lock

ASSUME DiskAssumption == semaphore \in Semaphore /\ lock \in Lock

VARIABLES
  stage,    \* the next step of each thread in ReadSector or WriteSector: "none",
            \* "Request", "P" or "Release"
  active    \* Disk::active; an interrupt is pending exactly as long

diskVars == <<stage, active>>
allVars == <<vars, diskVars>>

\* The driver's lock is free and nobody uses the disk; the semaphore has v.
InitWith(v) ==
  /\ ThreadsInit
  /\ typeId = [o \in Object |-> "live"]
  /\ value = [s \in Semaphore |-> v]
  /\ queue = [s \in Semaphore |-> <<>>]
  /\ free = [l \in Lock |-> TRUE]
  /\ owner = [l \in Lock |-> NULL]
  /\ sleepqueue = [l \in Lock |-> <<>>]
  /\ waitqueue = [c \in Condition |-> <<>>]
  /\ inside = [l \in Lock |-> {}]
  /\ stage = [t \in Thread |-> "none"]
  /\ active = FALSE

\* Mutant: the semaphore is created with value 1.
DiskInitOne == InitWith(1)

DiskInit == InitWith(0)

\* t is about to execute the step "at" of the driver.
At(t, at) == Running(t) /\ stage[t] = at

-----------------------------------------------------------------------------
(* The driver *)

\* Mutant: the driver does not take the lock.
CallDriverNoLock(t) ==
  /\ At(t, "none")
  /\ stage' = [stage EXCEPT ![t] = "Request"]
  /\ UNCHANGED <<vars, active>>

\* ReadSector and WriteSector: lock->Acquire().
CallDriver(t) ==
  /\ At(t, "none")
  /\ Acquire(t, lock)
  /\ stage' = [stage EXCEPT ![t] = "Request"]
  /\ UNCHANGED active

\* Disk::ReadRequest and WriteRequest: ASSERT(!active), then the transfer;
\* Schedule makes the interrupt pending.
DiskRequest(t) ==
  /\ At(t, "Request")
  /\ IF active
     THEN Abort /\ UNCHANGED <<synchVars, diskVars>>
     ELSE /\ active' = TRUE
          /\ stage' = [stage EXCEPT ![t] = "P"]
          /\ UNCHANGED vars

\* semaphore->P().
WaitForInterrupt(t) ==
  /\ At(t, "P")
  /\ P(t, semaphore)
  /\ stage' = [stage EXCEPT ![t] = "Release"]
  /\ UNCHANGED active

\* lock->Release().
LeaveDriver(t) ==
  /\ At(t, "Release")
  /\ Release(t, lock)
  /\ stage' = [stage EXCEPT ![t] = "none"]
  /\ UNCHANGED active

\* Mutant: HandleInterrupt does not call the handler.
HandleInterruptSilent ==
  /\ active
  /\ cpu \in {"running", "idle"}
  /\ active' = FALSE
  /\ UNCHANGED <<vars, stage>>

\* CheckIfDue calls Disk::HandleInterrupt, which calls RequestDone.
HandleInterrupt ==
  /\ active
  /\ cpu \in {"running", "idle"}
  /\ active' = FALSE
  /\ SemV(semaphore)
  /\ UNCHANGED stage

-----------------------------------------------------------------------------
(* The rest of the kernel *)

\* System calls without a disk access.
OtherCall(t) ==
  /\ At(t, "none")
  /\ \/ \E u \in Thread : NewThread(t, u)
     \/ Yield(t)
     \/ Finish(t)
     \/ HaltCall(t)
  /\ UNCHANGED <<synchVars, diskVars>>

\* A thread that SwitchTo installed goes on.
Installed(t) ==
  /\ \/ (StartThreadExecution(t) \/ ResumeYield(t)) /\ UNCHANGED synchVars
     \/ ReturnP(t)
     \/ ReturnAcquire(t)
  /\ UNCHANGED diskVars

\* Idle halts the machine only without a pending interrupt.
DiskMachineStep ==
  /\ \/ \E u \in Thread, p \in Proc : Main(u, p)
     \/ IdleSwitch
     \/ ~active /\ IdleHalt
  /\ UNCHANGED <<synchVars, diskVars>>

DriverStep(t) == CallDriver(t) \/ DiskRequest(t) \/ WaitForInterrupt(t) \/ LeaveDriver(t)

DiskNext ==
  \/ \E t \in Thread : DriverStep(t) \/ OtherCall(t) \/ Installed(t)
  \/ HandleInterrupt
  \/ DiskMachineStep
  \/ Stopped /\ UNCHANGED allVars

DiskSpec == DiskInit /\ [][DiskNext]_allVars

(***************************************************************************)
(* Kernel code goes on (a thread that is inside the driver included) and   *)
(* programs yield, as in Synch.  Every instruction and every return from   *)
(* the scheduler is a tick of the clock and looks for due interrupts, so   *)
(* the disk interrupt comes although switches disable it again and again.  *)
(***************************************************************************)
DiskFairness ==
  /\ \A t \in Thread :
       /\ WF_allVars(Installed(t))
       /\ WF_allVars(stage[t] # "none" /\ DriverStep(t))
       /\ WF_allVars(At(t, "none") /\ Yield(t) /\ UNCHANGED <<synchVars, diskVars>>)
  /\ SF_allVars(HandleInterrupt)
  /\ WF_allVars(IdleSwitch /\ UNCHANGED <<synchVars, diskVars>>)

FairDiskSpec == DiskSpec /\ DiskFairness

-----------------------------------------------------------------------------
(* Properties *)

\* The hand-shake of disk and driver: the disk is active only for the owner
\* of the lock, between its request and its return from P, and each interrupt
\* is counted once, in the semaphore, until that very thread takes it.  So
\* ASSERT(!active) in disk.cc and the ASSERT in Lock::Release never fail, and
\* no interrupt is left over for the next request.
HandShake ==
  /\ cpu # "aborted"
  /\ active => owner[lock] \in Thread /\ stage[owner[lock]] \in {"P", "Release"}
  /\ \A t \in Thread :
       /\ stage[t] = "Request" => value[semaphore] = 0 \/ owner[lock] # t
       /\ stage[t] = "P" => t = owner[lock] /\ (active <=> value[semaphore] = 0)
       /\ stage[t] = "Release" /\ status[t] = "user" => ~active /\ value[semaphore] = 0
  /\ value[semaphore] \in 0..1

\* The threads that have called the driver, in the order of their calls.
Line ==
  (IF owner[lock] # NULL /\ stage[owner[lock]] = "Request" THEN <<owner[lock]>> ELSE <<>>)
  \o sleepqueue[lock]

Serving == IF owner[lock] # NULL /\ stage[owner[lock]] # "Request" THEN owner[lock] ELSE NULL

Service == INSTANCE DiskService
           WITH line <- Line, serving <- Serving, completed <- Serving # NULL /\ ~active

\* drvDisk.cc implements DiskService: one request at a time, first come first
\* served, and "return only after the data has been read".
ImplementsService == Service!Spec

\* Every call of ReadSector or WriteSector returns.
RequestsComplete ==
  \A t \in Thread : stage[t] # "none" ~> stage[t] = "none" \/ Stopped

-----------------------------------------------------------------------------
(* The inductive invariant behind HandShake and ImplementsService, beside  *)
(* IInv, which holds here too.                                             *)

DiskTypeOK ==
  /\ stage \in [Thread -> {"none", "Request", "P", "Release"}]
  /\ active \in BOOLEAN

\* The threads between their request and their Release.
Served(t) == stage[t] \in {"P", "Release"}

\* Where a thread is in the driver, and what the lock knows of it: only P
\* and Acquire of this driver make a thread wait.
StageOK ==
  /\ cpu = "boot" => stage[Root] = "none"
  /\ free[lock] => owner[lock] = NULL
  /\ \A t \in Thread :
       /\ status[t] = "P" => stage[t] = "Release" /\ blockedOn[t] = semaphore
       /\ status[t] = "Acquire" => stage[t] = "Request" /\ blockedOn[t] = lock
       /\ stage[t] # "none" => status[t] \in {"user", "P", "Acquire"}
       /\ stage[t] = "P" => status[t] = "user"
       /\ t \in inside[lock] <=> Served(t) \/ (stage[t] = "Request" /\ status[t] = "user")

\* Where the one interrupt of a request is: to come, in the semaphore before
\* P is called, or in the semaphore with the thread on its way out of P.
CountOK ==
  /\ (\A t \in Thread : ~Served(t)) => ~active /\ value[semaphore] = 0 /\ queue[semaphore] = <<>>
  /\ \A t \in Thread :
       /\ stage[t] = "P" => /\ queue[semaphore] = <<>>
                            /\ value[semaphore] = IF active THEN 0 ELSE 1
       /\ stage[t] = "Release" /\ status[t] = "user" =>
            ~active /\ value[semaphore] = 0 /\ queue[semaphore] = <<>>
       /\ stage[t] = "Release" /\ status[t] = "P" =>
            /\ queue[semaphore] = IF active THEN <<t>> ELSE <<>>
            /\ value[semaphore] = IF active THEN 0 ELSE 1

\* The inductive invariant, with the types and the kernel's own invariant.
DriverInv == TypeOK /\ DiskTypeOK /\ IInv /\ HandShake /\ (~Stopped => StageOK /\ CountOK)

=============================================================================
