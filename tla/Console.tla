------------------------------ MODULE Console ------------------------------
(***************************************************************************)
(* The console: the driver (drivers/drvConsole.cc), the simulated device   *)
(* (machine/console.cc) and the system calls READ and WRITE on it          *)
(* (kernel/exception.cc).                                                  *)
(*                                                                         *)
(* A lock is the queue of the threads that asked for it: the head owns it  *)
(* and Release hands it to the next, as the locks of Synch do.  Only the   *)
(* owner of a lock waits for its semaphore, so a semaphore is its value.   *)
(*                                                                         *)
(* A step ends where interrupts are enabled again (in Acquire, Release, P).*)
(* Device interrupts come in between, at any time after the request: the   *)
(* delay CONSOLE_TIME is not modelled.                                     *)
(***************************************************************************)
EXTENDS Integers, SequencesExt

CONSTANTS
  Thread,
  Character,   \* the characters that are typed and displayed
  EOF,         \* what GetChar returns when there is nothing
  Texts,       \* the strings that programs write
  Inputs,      \* what may be typed: sequences of characters
  ReadSizes,   \* the sizes that programs read
  MaxCalls     \* bound: calls of each thread

\* The device marks an empty buffer with EOF, so a character that equals it
\* (0xFF) would be taken for none: nobody types one.
ASSUME CharacterAssumption ==
  /\ EOF \notin Character
  /\ Texts \subseteq Seq(Character) /\ Inputs \subseteq Seq(Character)

Newline == "newline"

VARIABLES
  at,          \* the next step of each thread, "idle" outside a call
  left,        \* PutString: the characters still to write
  nbcar,       \* GetString: its parameter
  buffer,      \* GetString: the characters read so far
  calls,       \* the number of calls that each thread has made
  mutexput, mutexget,
  put, get,    \* the semaphores
  putBusy, incoming, intState,   \* Console
  polls,       \* how many ConsoleReadPoll are pending
  keyboard,    \* what is typed and not read by the device yet
  display,     \* the characters written
  written,    \* history: the texts, in the order PutString got the lock
  got        \* history: what the readers got, in order

threadVars == <<at, left, nbcar, buffer, calls>>
deviceVars == <<putBusy, incoming, intState, polls, keyboard, display>>
syncVars == <<mutexput, mutexget, put, get>>
consoleVars == <<threadVars, deviceVars, syncVars, written, got>>

Step == {"idle", "AcquirePut", "PutChar", "PutP", "AcquireGet", "GetP"}

\* Console::Console and DriverConsole::DriverConsole.
ConsoleInit ==
  /\ at = [t \in Thread |-> "idle"]
  /\ left = [t \in Thread |-> <<>>]
  /\ nbcar = [t \in Thread |-> 0]
  /\ buffer = [t \in Thread |-> <<>>]
  /\ calls = [t \in Thread |-> 0]
  /\ mutexput = <<>> /\ mutexget = <<>>
  /\ put = 0 /\ get = 0
  /\ putBusy = FALSE /\ incoming = EOF /\ intState = FALSE
  /\ polls = 0
  /\ keyboard \in Inputs
  /\ display = <<>>
  /\ written = <<>> /\ got = <<>>

-----------------------------------------------------------------------------
(* Output *)

\* Mutant: PutString takes no lock.
NoPutLock(t) ==
  /\ mutexput' = mutexput
  /\ at' = [at EXCEPT ![t] = "PutChar"]
  /\ written' = written \o left[t]

\* The thread has the lock as soon as it is the first in its queue.
LockPut(t) ==
  /\ mutexput # <<>> /\ Head(mutexput) = t
  /\ mutexput' = mutexput
  /\ at' = [at EXCEPT ![t] = "PutChar"]
  /\ written' = written \o left[t]

\* WRITE with the identifier ConsoleOutput: PutString asks for its lock.
SysWriteConsole(t) ==
  /\ at[t] = "idle" /\ calls[t] < MaxCalls
  /\ \E text \in Texts : left' = [left EXCEPT ![t] = text]
  /\ calls' = [calls EXCEPT ![t] = @ + 1]
  /\ at' = [at EXCEPT ![t] = "AcquirePut"]
  /\ mutexput' = Append(mutexput, t)
  /\ UNCHANGED <<nbcar, buffer, mutexget, put, get, deviceVars, written, got>>

PutString(t) ==
  /\ at[t] = "AcquirePut"
  /\ LockPut(t)
  /\ UNCHANGED <<left, nbcar, buffer, calls, mutexget, put, get, deviceVars, got>>

\* The loop of PutString.  Console::PutChar asserts that the device is not
\* busy; its WriteDone is pending as long as it is.
WriteChar(t) ==
  /\ at[t] = "PutChar" /\ left[t] # <<>>
  /\ ~putBusy
  /\ display' = Append(display, Head(left[t]))
  /\ putBusy' = TRUE
  /\ left' = [left EXCEPT ![t] = Tail(@)]
  /\ at' = [at EXCEPT ![t] = "PutP"]
  /\ UNCHANGED <<nbcar, buffer, calls, syncVars, incoming, intState, polls, keyboard, written, got>>

PutP(t) ==
  /\ at[t] = "PutP" /\ put > 0
  /\ put' = put - 1
  /\ at' = [at EXCEPT ![t] = "PutChar"]
  /\ UNCHANGED <<left, nbcar, buffer, calls, mutexput, mutexget, get, deviceVars, written, got>>

\* The end of PutString: mutexput->Release().
PutDone(t) ==
  /\ at[t] = "PutChar" /\ left[t] = <<>>
  /\ mutexput' = Tail(mutexput)
  /\ at' = [at EXCEPT ![t] = "idle"]
  /\ UNCHANGED <<left, nbcar, buffer, calls, mutexget, put, get, deviceVars, written, got>>

\* Mutant: the handler is not called.
WriteDoneSilent ==
  /\ putBusy
  /\ putBusy' = FALSE
  /\ UNCHANGED put

\* Console::WriteDone and its handler DriverConsole::PutAChar.
WriteDone ==
  /\ putBusy
  /\ putBusy' = FALSE
  /\ put' = put + 1

WriteInterrupt ==
  /\ WriteDone
  /\ UNCHANGED <<threadVars, mutexput, mutexget, get, incoming, intState, polls,
                 keyboard, display, written, got>>

-----------------------------------------------------------------------------
(* Input *)

\* READ with an identifier of the console: GetString asks for its lock.
SysReadConsole(t) ==
  /\ at[t] = "idle" /\ calls[t] < MaxCalls
  /\ \E size \in ReadSizes : nbcar' = [nbcar EXCEPT ![t] = size]
  /\ buffer' = [buffer EXCEPT ![t] = <<>>]
  /\ calls' = [calls EXCEPT ![t] = @ + 1]
  /\ at' = [at EXCEPT ![t] = "AcquireGet"]
  /\ mutexget' = Append(mutexget, t)
  /\ UNCHANGED <<left, mutexput, put, get, deviceVars, written, got>>

\* GetString has the lock: Console::EnableInterrupt schedules one poll more,
\* whether or not an earlier one is still pending.
GetString(t) ==
  /\ at[t] = "AcquireGet" /\ Head(mutexget) = t
  /\ at' = [at EXCEPT ![t] = "GetP"]
  /\ intState' = TRUE
  /\ polls' = polls + 1
  /\ UNCHANGED <<left, nbcar, buffer, calls, syncVars, putBusy, incoming, keyboard, display,
                 written, got>>

\* The condition of the loop of GetString: room for nbcar and no newline yet.
Reading(t) ==
  /\ Len(buffer[t]) < nbcar[t]
  /\ buffer[t] # <<>> => buffer[t][Len(buffer[t])] # Newline

\* Mutant: GetChar leaves the character in the device.
GetCharAgain == incoming' = incoming

\* Console::GetChar.
ConsoleGetChar == incoming' = EOF

\* The loop of GetString: get->P(), then GetChar.
GetP(t) ==
  /\ at[t] = "GetP" /\ Reading(t) /\ get > 0
  /\ get' = get - 1
  /\ buffer' = [buffer EXCEPT ![t] = Append(@, incoming)]
  /\ got' = Append(got, incoming)
  /\ ConsoleGetChar
  /\ UNCHANGED <<at, left, nbcar, calls, mutexput, mutexget, put, putBusy, intState, polls,
                 keyboard, display, written>>

\* The end of GetString: DisableInterrupt and mutexget->Release().
GetDone(t) ==
  /\ at[t] = "GetP" /\ ~Reading(t)
  /\ intState' = FALSE
  /\ mutexget' = Tail(mutexget)
  /\ at' = [at EXCEPT ![t] = "idle"]
  /\ UNCHANGED <<left, nbcar, buffer, calls, mutexput, put, get, putBusy, incoming, polls, keyboard,
                 display, written, got>>

\* The poll is over; the next one is scheduled if interrupts are enabled.
NextPoll == polls' = IF intState THEN polls ELSE polls - 1

\* Console::CheckCharAvail and its handler DriverConsole::GetAChar.
CheckCharAvail ==
  /\ polls > 0
  /\ NextPoll
  /\ IF incoming # EOF \/ keyboard = <<>>
     THEN UNCHANGED <<incoming, keyboard, get>>
     ELSE /\ incoming' = Head(keyboard)
          /\ keyboard' = Tail(keyboard)
          /\ get' = get + 1
  /\ UNCHANGED <<threadVars, mutexput, mutexget, put, putBusy, intState, display, written, got>>

-----------------------------------------------------------------------------
ConsoleThread(t) ==
  \/ PutString(t) \/ WriteChar(t) \/ PutP(t) \/ PutDone(t)
  \/ GetString(t) \/ GetP(t) \/ GetDone(t)

ConsoleNext ==
  \/ \E t \in Thread : SysWriteConsole(t) \/ SysReadConsole(t) \/ ConsoleThread(t)
  \/ WriteInterrupt
  \/ CheckCharAvail

\* A thread inside a call goes on when it is not blocked, and a pending
\* interrupt is handled: the clock advances with every instruction, and the
\* idle loop moves it to the next pending interrupt.
ConsoleFairness ==
  /\ \A t \in Thread : WF_consoleVars(ConsoleThread(t))
  /\ WF_consoleVars(WriteInterrupt)
  /\ WF_consoleVars(CheckCharAvail)

-----------------------------------------------------------------------------
(* Properties *)

\* Console::PutChar asserts that the device is free; the display shows the
\* texts of the WRITE calls one after the other, never mixed.
DisplayShowsTexts ==
  /\ \A t \in Thread : at[t] = "PutChar" /\ left[t] # <<>> => ~putBusy
  /\ IsPrefix(display, written)

\* What is typed reaches the readers once each and in order; at most one
\* character waits in the device, and get->P() succeeds exactly for it.
InputIntact ==
  /\ \E typed \in Inputs :
       typed = got \o (IF incoming = EOF THEN <<>> ELSE <<incoming>>) \o keyboard
  /\ get = IF incoming = EOF THEN 0 ELSE 1

\* In PutString, between Acquire and Release.
Writing(t) == at[t] \in {"PutChar", "PutP"}

ConsoleTypeOK ==
  /\ at \in [Thread -> Step]
  /\ left \in [Thread -> Seq(Character)]
  /\ mutexput \in Seq(Thread)
  /\ put \in Nat /\ putBusy \in BOOLEAN
  /\ incoming \in Character \cup {EOF}
  /\ keyboard \in Seq(Character) /\ got \in Seq(Character)
  /\ display \in Seq(Character) /\ written \in Seq(Character)

\* The owner of the lock is the only one in PutString.
OneWriter == \A t \in Thread : Writing(t) => mutexput # <<>> /\ Head(mutexput) = t

\* The semaphore counts the characters that are out and not waited for: the
\* writer sends one only when there is none, and leaves none to the next.
CharacterPending ==
  /\ \A t \in Thread : at[t] = "PutP" => put = IF putBusy THEN 0 ELSE 1
  /\ (\A t \in Thread : at[t] # "PutP") => ~putBusy /\ put = 0

\* What the display lacks is what the writer still has to write.
DisplayLacksLeft ==
  /\ \A t \in Thread : Writing(t) => written = display \o left[t]
  /\ (\A t \in Thread : ~Writing(t)) => written = display

\* The inductive invariant of the console.
ConsoleInv == ConsoleTypeOK /\ OneWriter /\ CharacterPending /\ DisplayLacksLeft /\ InputIntact

\* A WRITE returns; a READ returns unless nothing more is typed.
CallsEnd ==
  \A t \in Thread :
    at[t] # "idle" ~> at[t] = "idle" \/ (keyboard = <<>> /\ incoming = EOF /\ at[t] \in {"AcquireGet", "GetP"})

=============================================================================
