------------------------------- MODULE Serial -------------------------------
(***************************************************************************)
(* The serial line: the driver (drivers/drvACIA.cc), the simulated ACIA    *)
(* (machine/ACIA.cc, machine/ACIA_sysdep.cc) and the system calls TTY_SEND *)
(* and TTY_RECEIVE (kernel/exception.cc).                                  *)
(*                                                                         *)
(* A character is a number.  The characters of message m are 10m + 1,      *)
(* 10m + 2, ... and its final '\0' is 10m, so that the history can tell    *)
(* messages apart; the code sees only whether a character is '\0'.         *)
(*                                                                         *)
(* The device interrupts come when the clock ticks: in P and V, and in the *)
(* two polling loops, which tick before they look at a register.  A step   *)
(* ends there.  A semaphore has its value and its queue, as in Synch: a    *)
(* thread that V woke does not test the value again, so a P that comes     *)
(* before its turn passes with it.                                         *)
(***************************************************************************)
EXTENDS Integers, SequencesExt

CONSTANTS
  Users,        \* the threads that use the line
  Lengths,      \* how many characters a message has before its '\0'
  Stream,       \* what the other side sends: a sequence of characters
  Capacities,   \* the lengths passed to TtyReceive
  BUFFER_SIZE,
  MaxMessages,  \* bound: messages that are sent
  MaxLine       \* bound: characters that are sent

Code == Nat \ 0..9
IsZero(c) == c % 10 = 0
Message(m, n) == [i \in 1..(n + 1) |-> IF i = n + 1 THEN 10 * m ELSE 10 * m + i]

\* The place of a character in the stream of the other side.
Place(c) == IF IsZero(c) THEN c + 9 ELSE c

\* Character d comes after c in the same message.
Follows(c, d) == d \in {c + 1, 10 * (c \div 10)} /\ d \div 10 = c \div 10

Ordered(s) == \A i, j \in DOMAIN s : i < j => Place(s[i]) < Place(s[j])
Speaks(s)  == \A i \in 1..(Len(s) - 1) : ~IsZero(s[i]) => Follows(s[i], s[i + 1])

\* The other side sends messages one after the other, which fit into
\* receive_buffer (the code writes behind it otherwise).
ASSUME SerialAssumption ==
  /\ Stream \in Seq(Code) /\ Ordered(Stream) /\ Speaks(Stream)
  /\ BUFFER_SIZE \in Nat /\ \A i \in DOMAIN Stream : Stream[i] % 10 < BUFFER_SIZE
  /\ Capacities \subseteq Int

REC == "REC_INTERRUPT"
SEND == "SEND_INTERRUPT"
BUSY_WAITING == {}

VARIABLES
  mode,                             \* ACIA: the working mode, a set of flags
  inputRegister, inputState,
  outputRegister, outputState,
  emissions,                        \* how many DummyInterruptEm are pending
  send_buffer, ind_send, send_sema,
  receive_buffer, ind_rec, receive_sema,
  stage,                            \* the next step of each thread
  buff,                             \* the buffer of each thread's call
  lg,                               \* the parameter of TtyReceive
  exited,                           \* the driver has called exit
  socket,                           \* what the other side has not sent yet
  line,                             \* what has been sent on the socket
  made,                             \* how many messages TTY_SEND has been called with
  accepted,                         \* history: the messages, in the order of send_sema
  taken,                            \* history: what TtyReceive read from the register
  results                           \* history: what TtyReceive returned

aciaVars == <<mode, inputRegister, inputState, outputRegister, outputState, emissions>>
driverVars == <<send_buffer, ind_send, send_sema, receive_buffer, ind_rec, receive_sema>>
callVars == <<stage, buff, lg, exited>>
historyVars == <<accepted, taken, results>>
serialVars == <<aciaVars, driverVars, callVars, socket, line, made, historyVars>>

Stages == {"none", "SendP", "SendAsleep", "PutChar", "ReceiveP", "ReceiveAsleep", "GetChar"}

\* ACIA::ACIA, ACIA_sysdep::ACIA_sysdep and DriverACIA::DriverACIA, which
\* leaves the buffers as they are: g is what the memory holds.
SerialInit(m, g) ==
  /\ mode = m
  /\ inputRegister = 0 /\ inputState = "EMPTY"
  /\ outputRegister = 0 /\ outputState = "EMPTY"
  /\ emissions = 0
  /\ send_buffer = [i \in 0..(BUFFER_SIZE - 1) |-> g] /\ ind_send = 0 /\ send_sema = [value |-> 1, queue |-> <<>>]
  /\ receive_buffer = [i \in 0..(BUFFER_SIZE - 1) |-> g] /\ ind_rec = 0
  /\ receive_sema = [value |-> IF m = BUSY_WAITING THEN 1 ELSE 0, queue |-> <<>>]
  /\ stage = [t \in Users |-> "none"]
  /\ buff = [t \in Users |-> <<>>]
  /\ lg = [t \in Users |-> 0]
  /\ exited = FALSE
  /\ socket = Stream
  /\ line = <<>> /\ made = 0 /\ accepted = <<>> /\ taken = <<>> /\ results = <<>>

-----------------------------------------------------------------------------
(* Semaphores *)

\* Semaphore::P when the value is not positive.
Wait(s, t) == [s EXCEPT !.queue = Append(@, t)]

\* t gets through P: at once, or because a V took it off the queue.
Passes(s, t, call, asleep) ==
  \/ stage[t] = call /\ s.value > 0
  \/ stage[t] = asleep /\ t \notin Range(s.queue)

Decremented(s) == [s EXCEPT !.value = @ - 1]

\* Semaphore::V.
V(s) == [value |-> s.value + 1, queue |-> IF s.queue = <<>> THEN <<>> ELSE Tail(s.queue)]

MaySend(t) == Passes(send_sema, t, "SendP", "SendAsleep")
MayReceive(t) == Passes(receive_sema, t, "ReceiveP", "ReceiveAsleep")

-----------------------------------------------------------------------------
(* The device *)

\* ACIA::PutChar and ACIA_sysdep::SendChar.
Transmit(c) ==
  /\ outputRegister' = c
  /\ outputState' = "FULL"
  /\ emissions' = emissions + 1

\* ACIA::GetChar and ACIA_sysdep::Drain; the caller reads inputRegister.
DrainInput ==
  /\ inputRegister' = 0
  /\ inputState' = "EMPTY"

-----------------------------------------------------------------------------
(* The driver *)

\* TTY_SEND copies the message from user memory and calls TtySend.
SysTtySend(t) ==
  /\ stage[t] = "none" /\ made < MaxMessages
  /\ \E n \in Lengths : buff' = [buff EXCEPT ![t] = Message(made + 1, n)]
  /\ made' = made + 1
  /\ stage' = [stage EXCEPT ![t] = "SendP"]
  /\ UNCHANGED <<aciaVars, driverVars, lg, exited, socket, line, historyVars>>

\* send_sema->P() blocks.
TtySendWaits(t) ==
  /\ stage[t] = "SendP" /\ send_sema.value <= 0
  /\ send_sema' = Wait(send_sema, t)
  /\ stage' = [stage EXCEPT ![t] = "SendAsleep"]
  /\ UNCHANGED <<aciaVars, send_buffer, ind_send, receive_buffer, ind_rec, receive_sema,
                 buff, lg, exited, socket, line, made, historyVars>>

\* TtySend when the mode is busy waiting: send_sema->P().
TtySendBusy(t) ==
  /\ MaySend(t) /\ mode = BUSY_WAITING
  /\ send_sema' = Decremented(send_sema)
  /\ accepted' = accepted \o buff[t]
  /\ stage' = [stage EXCEPT ![t] = "PutChar"]
  /\ UNCHANGED <<aciaVars, send_buffer, ind_send, receive_buffer, ind_rec, receive_sema,
                 buff, lg, exited, socket, line, made, taken, results>>

\* Mutant: the register is overwritten before it went out.
OutputReadyAlways == TRUE

\* What the polling loop of TtySend waits for.
OutputReady == outputState = "EMPTY"

\* The loop over the characters: it polls until the output register is
\* empty; after the '\0', send_sema->V() and return.
TtySendChar(t) ==
  /\ stage[t] = "PutChar" /\ OutputReady
  /\ Transmit(Head(buff[t]))
  /\ buff' = [buff EXCEPT ![t] = Tail(@)]
  /\ IF IsZero(Head(buff[t]))
     THEN stage' = [stage EXCEPT ![t] = "none"] /\ send_sema' = V(send_sema)
     ELSE UNCHANGED <<stage, send_sema>>
  /\ UNCHANGED <<mode, inputRegister, inputState, send_buffer, ind_send, receive_buffer, ind_rec,
                 receive_sema, lg, exited, socket, line, made, historyVars>>

\* Both directions end what they copied with '\0', over its last character.
Terminated(s) == IF IsZero(Last(s)) THEN s ELSE [s EXCEPT ![Len(s)] = 0]

\* At most size characters of s.
Copied(s, size) == Terminated(IF Len(s) <= size THEN s ELSE SubSeq(s, 1, size))

\* TtySend when the mode allows both interrupts: send_sema->P(), copy the
\* message, send its first character and leave the rest to InterruptSend.
TtySendInterrupt(t) ==
  /\ MaySend(t) /\ mode = {REC, SEND}
  /\ send_sema' = Decremented(send_sema)
  /\ LET s == Copied(buff[t], BUFFER_SIZE) IN
       /\ send_buffer' = [i \in DOMAIN send_buffer |-> IF i < Len(s) THEN s[i + 1] ELSE send_buffer[i]]
       /\ Transmit(s[1])
  /\ ind_send' = 1
  /\ accepted' = accepted \o buff[t]
  /\ stage' = [stage EXCEPT ![t] = "none"]
  /\ UNCHANGED <<mode, inputRegister, inputState, receive_buffer, ind_rec, receive_sema,
                 buff, lg, exited, socket, line, made, taken, results>>

\* TtySend in any other mode: exit(-1), after send_sema->P().
TtySendExit(t) ==
  /\ MaySend(t) /\ mode \notin {BUSY_WAITING, {REC, SEND}}
  /\ exited' = TRUE
  /\ UNCHANGED <<aciaVars, driverVars, stage, buff, lg, socket, line, made, historyVars>>

\* TTY_RECEIVE and TtyReceive: a length of 0 or less fails at once.
SysTtyReceive(t) ==
  /\ stage[t] = "none"
  /\ \E n \in Capacities :
       /\ lg' = [lg EXCEPT ![t] = n]
       /\ stage' = [stage EXCEPT ![t] = IF n <= 0 THEN "none" ELSE "ReceiveP"]
  /\ buff' = [buff EXCEPT ![t] = <<>>]
  /\ UNCHANGED <<aciaVars, driverVars, exited, socket, line, made, historyVars>>

\* receive_sema->P() blocks.
TtyReceiveWaits(t) ==
  /\ stage[t] = "ReceiveP" /\ receive_sema.value <= 0
  /\ receive_sema' = Wait(receive_sema, t)
  /\ stage' = [stage EXCEPT ![t] = "ReceiveAsleep"]
  /\ UNCHANGED <<aciaVars, send_buffer, ind_send, send_sema, receive_buffer, ind_rec,
                 buff, lg, exited, socket, line, made, historyVars>>

\* TtyReceive when the mode is busy waiting: receive_sema->P().
TtyReceiveBusy(t) ==
  /\ MayReceive(t) /\ mode = BUSY_WAITING
  /\ receive_sema' = Decremented(receive_sema)
  /\ stage' = [stage EXCEPT ![t] = "GetChar"]
  /\ UNCHANGED <<aciaVars, send_buffer, ind_send, send_sema, receive_buffer, ind_rec,
                 buff, lg, exited, socket, line, made, historyVars>>

\* The loop: it polls until the input register is full; at the '\0' or at
\* the end of the buffer the call returns.
TtyReceiveChar(t) ==
  /\ stage[t] = "GetChar" /\ inputState # "EMPTY"
  /\ DrainInput
  /\ buff' = [buff EXCEPT ![t] = Append(@, inputRegister)]
  /\ IF IsZero(inputRegister) \/ Len(buff'[t]) >= lg[t]
     THEN /\ stage' = [stage EXCEPT ![t] = "none"]
          /\ receive_sema' = V(receive_sema)
          /\ results' = Append(results, Terminated(buff'[t]))
     ELSE UNCHANGED <<stage, receive_sema, results>>
  /\ taken' = Append(taken, inputRegister)
  /\ UNCHANGED <<mode, outputRegister, outputState, emissions, send_buffer, ind_send, send_sema,
                 receive_buffer, ind_rec, lg, exited, socket, line, made, accepted>>

\* The message in receive_buffer, with its '\0'.
Buffered ==
  LET end == CHOOSE i \in DOMAIN receive_buffer :
               IsZero(receive_buffer[i]) /\ \A j \in 0..(i - 1) : ~IsZero(receive_buffer[j])
  IN [i \in 1..(end + 1) |-> receive_buffer[i - 1]]

\* Mutant: ind_rec is not reset.
RestartKeepsIndex ==
  /\ ind_rec' = ind_rec
  /\ mode' = {REC, SEND}

\* The end of TtyReceive: room for the next message.
Restart ==
  /\ ind_rec' = 0
  /\ mode' = {REC, SEND}

\* TtyReceive when only emission interrupts are allowed, that is, when a
\* message is complete: receive_sema->P(), copy, allow reception again.
TtyReceiveInterrupt(t) ==
  /\ MayReceive(t) /\ mode = {SEND}
  /\ receive_sema' = Decremented(receive_sema)
  /\ results' = Append(results, Copied(Buffered, lg[t]))
  /\ Restart
  /\ stage' = [stage EXCEPT ![t] = "none"]
  /\ UNCHANGED <<inputRegister, inputState, outputRegister, outputState, emissions, send_buffer,
                 ind_send, send_sema, receive_buffer, buff, lg, exited, socket, line, made, accepted, taken>>

\* TtyReceive in any other mode: exit(-1), after receive_sema->P().
TtyReceiveExit(t) ==
  /\ MayReceive(t) /\ mode \notin {BUSY_WAITING, {SEND}}
  /\ exited' = TRUE
  /\ UNCHANGED <<aciaVars, driverVars, stage, buff, lg, socket, line, made, historyVars>>

-----------------------------------------------------------------------------
(* The interrupts *)

\* DriverACIA::InterruptReceive; at the '\0' it toggles the reception flag.
InterruptReceive(c) ==
  /\ DrainInput
  /\ receive_buffer' = [receive_buffer EXCEPT ![ind_rec] = c]
  /\ ind_rec' = ind_rec + 1
  /\ IF IsZero(c)
     THEN mode' = mode \ {REC} /\ receive_sema' = V(receive_sema)
     ELSE UNCHANGED <<mode, receive_sema>>

\* ACIA_sysdep::InterruptRec with a character on the socket: it overwrites
\* the register.  (Without one it only schedules itself again.)
InterruptRec ==
  /\ socket # <<>>
  /\ socket' = Tail(socket)
  /\ IF REC \in mode
     THEN InterruptReceive(Head(socket))
     ELSE /\ inputRegister' = Head(socket) /\ inputState' = "FULL"
          /\ UNCHANGED <<mode, receive_buffer, ind_rec, receive_sema>>
  /\ UNCHANGED <<outputRegister, outputState, emissions, send_buffer, ind_send, send_sema,
                 callVars, line, made, historyVars>>

\* DriverACIA::InterruptSend: the next character of send_buffer, and
\* send_sema->V() if it is '\0'.  PutChar schedules the next emission in
\* the place of the one that is being handled.
InterruptSend ==
  /\ outputRegister' = send_buffer[ind_send]
  /\ outputState' = "FULL"
  /\ emissions' = emissions
  /\ send_sema' = IF IsZero(send_buffer[ind_send]) THEN V(send_sema) ELSE send_sema
  /\ ind_send' = ind_send + 1

\* ACIA_sysdep::InterruptEm: the register goes out on the socket; if
\* emission interrupts are allowed the handler puts the next character.
InterruptEm ==
  /\ emissions > 0 /\ Len(line) < MaxLine
  /\ line' = Append(line, outputRegister)
  /\ IF SEND \in mode
     THEN ind_send < BUFFER_SIZE /\ InterruptSend
     ELSE /\ outputRegister' = 0 /\ outputState' = "EMPTY" /\ emissions' = emissions - 1
          /\ UNCHANGED <<send_sema, ind_send>>
  /\ UNCHANGED <<mode, inputRegister, inputState, send_buffer, receive_buffer, ind_rec,
                 receive_sema, callVars, socket, made, historyVars>>

-----------------------------------------------------------------------------
SerialNext ==
  /\ ~exited
  /\ \/ \E t \in Users :
          \/ SysTtySend(t) \/ TtySendWaits(t) \/ TtySendBusy(t) \/ TtySendChar(t)
          \/ TtySendInterrupt(t) \/ TtySendExit(t)
          \/ SysTtyReceive(t) \/ TtyReceiveWaits(t) \/ TtyReceiveBusy(t) \/ TtyReceiveChar(t)
          \/ TtyReceiveInterrupt(t) \/ TtyReceiveExit(t)
     \/ InterruptRec
     \/ InterruptEm

-----------------------------------------------------------------------------
(* Properties *)

\* s is one message, possibly without its beginning, and possibly cut.
OneMessage(s) ==
  /\ IsZero(Last(s))
  /\ \A i \in 1..(Len(s) - 1) : ~IsZero(s[i])
  /\ \A i \in 2..(Len(s) - 1) : s[i] = s[i - 1] + 1
  /\ Len(s) > 1 => Last(s) \in {0, 10 * (s[1] \div 10)}

\* With interrupts, what TtyReceive returns is one message of the other side,
\* possibly without its beginning (lost while reception was not allowed)
\* and possibly cut, never parts of two messages, whoever else receives;
\* and no message is returned twice.  (A buffer of one character has room for
\* the '\0' only, which does not tell the message.)
ReceivesOneMessage ==
  mode # BUSY_WAITING =>
    /\ \A r \in DOMAIN results : OneMessage(results[r])
    /\ \A i, j \in DOMAIN results : i < j /\ <<0>> \notin {results[i], results[j]} =>
         Place(results[i][1]) < Place(results[j][1])

\* While busy waiting, characters get lost between two polls, but none is
\* received twice, by one thread or by two, and none overtakes another.
ReceivesInOrder == \A i, j \in DOMAIN taken : i < j => Place(taken[i]) < Place(taken[j])

\* What TtyReceive gives to programs: with interrupts one message at a time,
\* and while busy waiting characters in their order; in both modes nothing
\* twice, whatever is lost.
MessagesArrive == ReceivesOneMessage /\ ReceivesInOrder

\* What the line has carried of message m.
Carried(m) == SelectSeq(line, LAMBDA c : c \div 10 = m)

\* While busy waiting, the line loses no character of a message and keeps
\* their order, although the messages of two threads that got through
\* send_sema together may be mixed.
BusyLineLosesNothing ==
  mode = BUSY_WAITING =>
    \A m \in 1..made : IsPrefix(Carried(m), SelectSeq(accepted, LAMBDA c : c \div 10 = m))

-----------------------------------------------------------------------------
(* The inductive invariant of reception *)

LineTypeOK ==
  /\ mode \in {BUSY_WAITING, {REC, SEND}, {SEND}}
  /\ inputRegister \in Nat
  /\ DOMAIN receive_buffer = 0..(BUFFER_SIZE - 1) /\ ind_rec \in 0..BUFFER_SIZE
  /\ stage \in [Users -> Stages] /\ lg \in [Users -> Int]
  /\ taken \in Seq(Code)

\* Who waits in TtyReceive has a buffer; who polls does so while the mode is
\* busy waiting.
CallsOK ==
  \A t \in Users : /\ stage[t] \in {"ReceiveP", "ReceiveAsleep"} => lg[t] > 0
                   /\ stage[t] \in {"PutChar", "GetChar"} => mode = BUSY_WAITING

\* What is still to come
SocketOK ==
  /\ socket \in Seq(Code) /\ Ordered(socket) /\ Speaks(socket)
  /\ \A i \in DOMAIN socket : socket[i] % 10 < BUFFER_SIZE

\* Polling: what has been taken, the register and the socket in their order
TakenOK ==
  /\ ReceivesInOrder
  /\ \A i \in DOMAIN taken, j \in DOMAIN socket : Place(taken[i]) < Place(socket[j])
  /\ mode = BUSY_WAITING /\ inputState # "EMPTY" =>
       /\ inputRegister \in Code
       /\ \A i \in DOMAIN taken : Place(taken[i]) < Place(inputRegister)
       /\ \A j \in DOMAIN socket : Place(inputRegister) < Place(socket[j])

\* Interrupts: the buffer has part of one message, which what comes next
\* continues, or its rest when reception is not allowed any more.
BufferOK ==
  /\ \A i \in 0..(ind_rec - 1) : receive_buffer[i] \in Code
  /\ \A i \in 0..(ind_rec - 2) : ~IsZero(receive_buffer[i])
  /\ \A i \in 0..(ind_rec - 1) : receive_buffer[i] \div 10 = receive_buffer[0] \div 10
  /\ \A i \in 1..(ind_rec - 1) :
       ~IsZero(receive_buffer[i]) => receive_buffer[i] = receive_buffer[i - 1] + 1
  /\ mode = {SEND} => ind_rec > 0 /\ IsZero(receive_buffer[ind_rec - 1])
  /\ mode = {REC, SEND} /\ ind_rec > 0 =>
       /\ ind_rec <= receive_buffer[ind_rec - 1] % 10
       /\ receive_buffer[ind_rec - 1] % 10 < BUFFER_SIZE
       /\ socket # <<>> => Follows(receive_buffer[ind_rec - 1], socket[1])

\* Every result is older than what is in the buffer, and that than what is
\* still to come.
Older(c) ==
  /\ ind_rec > 0 => c < Place(receive_buffer[0])
  /\ \A j \in DOMAIN socket : c < Place(socket[j])
ResultsOK ==
  /\ results \in Seq(Seq(Nat))
  /\ ReceivesOneMessage
  /\ ind_rec > 0 => \A j \in DOMAIN socket : Place(receive_buffer[0]) < Place(socket[j])
  /\ \A r \in DOMAIN results : results[r] # <<0>> => Older(Place(results[r][1]))

LineInv == /\ LineTypeOK /\ CallsOK /\ SocketOK /\ TakenOK
           /\ mode # BUSY_WAITING => BufferOK /\ ResultsOK

=============================================================================
