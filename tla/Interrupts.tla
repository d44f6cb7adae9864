----------------------------- MODULE Interrupts -----------------------------
(***************************************************************************)
(* Simulated time: the list of pending interrupts, the clock and the idle  *)
(* loop (machine/interrupt.cc on utility/list.h), the loop of the machine  *)
(* (Machine::Run) and the timer (machine/timer.cc).                        *)
(*                                                                         *)
(* The code keeps the time at which an interrupt is due and the number of  *)
(* ticks so far; all it does is compare the two, so the model keeps their  *)
(* difference: "left" ticks are left, and it is due when left <= 0.        *)
(*                                                                         *)
(* Devices are abstract: a request schedules an interrupt, whose handler   *)
(* may make a thread ready and may schedule the next one, as the polling   *)
(* of the console and of the serial line does.  The rest of the kernel is  *)
(* what Threads and Synch describe; here it is in system mode, and it      *)
(* knows whether a thread is ready.                                        *)
(***************************************************************************)
EXTENDS Integers, SequencesExt

CONSTANTS
  Device,       \* the sources of interrupts, TIMER_INT aside (see Request)
  TimeSharing,  \* BOOLEAN: the kernel may make a timer; the base code does not
  Delays,       \* fromNow of the devices
  TimerDelay,   \* TimeOfNextInterrupt
  USER_TICK, SYSTEM_TICK

TIMER_INT == "TIMER_INT"

ASSUME DelaysAssumption ==
  /\ Delays \subseteq Nat \ {0} /\ TimerDelay \in Nat \ {0}
  /\ USER_TICK \in Nat /\ SYSTEM_TICK \in Nat
  /\ TIMER_INT \notin Device

VARIABLES
  pending,        \* the list, a sequence of records [left, type]
  level,          \* "on" or "off"
  status,         \* the MachineStatus: "user", "system" or "idle"
  at,             \* where the simulator is: "run", "OneTick", "Idle" or "halted"
  yieldOnReturn,
  ready,          \* is a thread in the ready list
  last            \* history: the type of the interrupt handled last

vars == <<pending, level, status, at, yieldOnReturn, ready, last>>

Interrupt == [left : Int, type : Device \cup {TIMER_INT}]

-----------------------------------------------------------------------------
(* List *)

\* Mutant: the new item goes before the first smaller one.
InsertAtReversed(list, item) ==
  CHOOSE k \in 1..(Len(list) + 1) :
    /\ \A j \in 1..(k - 1) : list[j].left >= item.left
    /\ k <= Len(list) => list[k].left < item.left

\* Where List::SortedInsert puts an item: before the first bigger one.
InsertAtPlace(list, item) ==
  CHOOSE k \in 1..(Len(list) + 1) :
    /\ \A j \in 1..(k - 1) : list[j].left <= item.left
    /\ k <= Len(list) => list[k].left > item.left

SortedInsert(list, item) == InsertAt(list, InsertAtPlace(list, item), item)

\* List::SortedRemove takes the first item.
SortedRemove(list) == Tail(list)

-----------------------------------------------------------------------------
(* Interrupt::Interrupt, then Timer::Timer if the kernel makes a timer; then *)
(* the first thread runs.                                                  *)
FirstTimer == <<[left |-> TimerDelay, type |-> TIMER_INT]>>

Init ==
  /\ \/ pending = <<>>
     \/ TimeSharing /\ pending = FirstTimer
  /\ level = "on"
  /\ status = "user"
  /\ at = "run"
  /\ yieldOnReturn = FALSE
  /\ ready \in BOOLEAN
  /\ last = "none"

Scheduled(list) == {list[i].type : i \in DOMAIN list}

\* Interrupt::Schedule.
Schedule(list, d, fromNow) == SortedInsert(list, [left |-> fromNow, type |-> d])

\* The clock advances.
Elapse(list, n) == [i \in DOMAIN list |-> [list[i] EXCEPT !.left = @ - n]]

\* OneTick: advance the clock, disable interrupts and look at the list.
OneTick(n) ==
  /\ pending' = Elapse(pending, n)
  /\ level' = "off"
  /\ at' = "OneTick"

-----------------------------------------------------------------------------
(* Programs and the kernel *)

\* Machine::Run: OneInstruction, then OneTick with its duration, which is 0
\* after an exception.
Run(tps) ==
  /\ at = "run" /\ status = "user"
  /\ OneTick(tps)
  /\ UNCHANGED <<status, yieldOnReturn, ready, last>>

\* An exception enters the kernel (RaiseException); the kernel disables
\* interrupts before it touches shared data, once or several times
\* (SetStatus(INTERRUPTS_OFF)).
DisableInterrupts ==
  /\ at = "run" /\ level = "on"
  /\ status' = "system" /\ level' = "off"
  /\ UNCHANGED <<pending, at, yieldOnReturn, ready, last>>

\* The kernel makes a request to a device, which schedules its interrupt.  An
\* element of Device has one interrupt pending at a time; a type of which several
\* may be pending, as the polls of a console that is enabled again
\* (console.cc:155) or the emissions of the ACIA, is several elements of Device.
Request(d) ==
  /\ at = "run" /\ status = "system" /\ level = "off"
  /\ d \notin Scheduled(pending)
  /\ \E n \in Delays : pending' = Schedule(pending, d, n)
  /\ UNCHANGED <<level, status, at, yieldOnReturn, ready, last>>

\* SetStatus(INTERRUPTS_ON) is a tick of the clock.
EnableInterrupts ==
  /\ at = "run" /\ status = "system" /\ level = "off"
  /\ OneTick(SYSTEM_TICK)
  /\ UNCHANGED <<status, yieldOnReturn, ready, last>>

\* The exception handler returns.
LeaveKernel ==
  /\ at = "run" /\ status = "system" /\ level = "on"
  /\ status' = "user"
  /\ UNCHANGED <<pending, level, at, yieldOnReturn, ready, last>>

\* Thread::Sleep with a thread in the ready list: it runs now, and there
\* may be others behind it.
Sleep ==
  /\ at = "run" /\ status = "system" /\ level = "off" /\ ready
  /\ ready' \in BOOLEAN
  /\ UNCHANGED <<pending, level, status, at, yieldOnReturn, last>>

-----------------------------------------------------------------------------
(* CheckIfDue *)

\* The handler of the first interrupt.  The timer schedules its next one
\* and asks for a context switch (Timer::TimerExpired, and TimerInterruptHandler,
\* which is in comments in kernel/system.cc: the base code makes no timer;
\* a handler runs in system mode, and then the old mode is back);
\* a device may make a thread ready and may go on polling.  CheckIfDue
\* first completes a delayed load: see Processor.
Handler(list) ==
  LET type == Head(list).type
      rest == SortedRemove(list)
  IN /\ last' = type
     /\ IF type = TIMER_INT
        THEN /\ pending' = Schedule(rest, TIMER_INT, TimerDelay)
             /\ yieldOnReturn' = TRUE
             /\ UNCHANGED ready
        ELSE /\ \/ pending' = rest
                \/ \E n \in Delays : pending' = Schedule(rest, type, n)
             /\ ready' \in {ready, TRUE}
             /\ UNCHANGED yieldOnReturn

\* Mutant: an interrupt that is due now is left for the next tick.
DueOnlyIfLate(list) == list # <<>> /\ Head(list).left < 0

\* CheckIfDue(false) finds something to do: the first interrupt is due.
Due(list) == list # <<>> /\ Head(list).left <= 0

\* Mutant: the other pending interrupts are not looked at.
TheEndAtTimer(list) == list # <<>> /\ list[1].type = TIMER_INT

\* In idle mode nothing is left to do when only the timer is pending.
TheEnd(list) == Len(list) = 1 /\ list[1].type = TIMER_INT

\* CheckIfDue(false) when it is not time yet: the interrupt is taken out of
\* the list and put back, behind the others that are due at that time.
PutBack(list) ==
  IF list = <<>> THEN list ELSE SortedInsert(SortedRemove(list), Head(list))

\* The loop of OneTick.
TickHandler ==
  /\ at = "OneTick" /\ Due(pending)
  /\ UNCHANGED <<level, status, at>>
  /\ Handler(pending)

\* The end of OneTick.
EndOfTick ==
  /\ at = "OneTick" /\ ~Due(pending) /\ ~yieldOnReturn
  /\ pending' = PutBack(pending)
  /\ level' = "on" /\ at' = "run"
  /\ UNCHANGED <<status, yieldOnReturn, ready, last>>

\* The end of OneTick when the timer asked for a context switch: in system
\* mode, Thread::Yield disables interrupts, puts the thread into the ready
\* list and switches to another one, which enables them again.
Preempt ==
  /\ at = "OneTick" /\ ~Due(pending) /\ yieldOnReturn
  /\ pending' = PutBack(pending)
  /\ yieldOnReturn' = FALSE
  /\ status' = "system" /\ level' = "off" /\ at' = "run"
  /\ ready' \in {ready, TRUE}
  /\ UNCHANGED last

\* Idle moves the clock to the first pending interrupt.
IdleTime(list) == IF Head(list).left > 0 THEN Head(list).left ELSE 0

\* Thread::Sleep without a ready thread calls Idle: CheckIfDue(true) moves
\* the clock and handles the interrupt.
Idle ==
  /\ at = "run" /\ status = "system" /\ level = "off" /\ ~ready
  /\ pending # <<>> /\ ~TheEnd(pending)
  /\ status' = "idle" /\ at' = "Idle"
  /\ Handler(Elapse(pending, IdleTime(pending)))
  /\ UNCHANGED <<level>>

\* The loop of Idle.
IdleHandler ==
  /\ at = "Idle" /\ Due(pending) /\ ~TheEnd(pending)
  /\ UNCHANGED <<level, status, at>>
  /\ Handler(pending)

EndOfIdle ==
  /\ at = "Idle" /\ (~Due(pending) \/ TheEnd(pending))
  /\ pending' = PutBack(pending)
  /\ yieldOnReturn' = FALSE
  /\ status' = "system" /\ at' = "run"
  /\ UNCHANGED <<level, ready, last>>

\* Idle with nothing pending, or only the timer: Halt.
IdleHalts ==
  /\ at = "run" /\ status = "system" /\ level = "off" /\ ~ready
  /\ pending = <<>> \/ TheEnd(pending)
  /\ at' = "halted" /\ status' = "idle"
  /\ UNCHANGED <<pending, level, yieldOnReturn, ready, last>>

-----------------------------------------------------------------------------
Next ==
  \/ Run(0) \/ Run(USER_TICK)
  \/ DisableInterrupts \/ EnableInterrupts \/ LeaveKernel \/ Sleep
  \/ \E d \in Device : Request(d)
  \/ TickHandler \/ EndOfTick \/ Preempt
  \/ Idle \/ IdleHandler \/ EndOfIdle \/ IdleHalts
  \/ at = "halted" /\ UNCHANGED vars

\* The simulator goes on.  An instruction that raised an exception is
\* executed in the end, and every thread that runs in the kernel enables
\* interrupts again, if it does not find nothing to run but itself.
Fairness ==
  /\ WF_vars(TickHandler) /\ WF_vars(EndOfTick) /\ WF_vars(Preempt)
  /\ WF_vars(IdleHandler) /\ WF_vars(EndOfIdle) /\ WF_vars(Idle)
  /\ WF_vars(LeaveKernel)
  /\ SF_vars(Run(USER_TICK))
  /\ SF_vars(EnableInterrupts)

InterruptSpec == Init /\ [][Next]_vars /\ Fairness

-----------------------------------------------------------------------------
(* Properties *)

\* The first of the list is the next to come, although every look at the
\* list takes an interrupt out and puts it back.
EarliestFirst == \A i, j \in DOMAIN pending : i < j => pending[i].left <= pending[j].left

\* A program never executes an instruction while an interrupt is due or a
\* context switch is owed to the timer; Idle never moves the clock past a
\* pending interrupt.
NothingOverdue ==
  /\ at = "run" /\ status = "user" =>
       ~yieldOnReturn /\ \A i \in DOMAIN pending : pending[i].left > 0
  /\ status = "idle" => \A i \in DOMAIN pending : pending[i].left >= 0

\* Every interrupt that a device has scheduled is handled; in particular
\* the machine does not halt by itself while one is pending.
InterruptsCome == \A d \in Device : d \in Scheduled(pending) ~> last = d

=============================================================================
