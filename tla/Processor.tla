----------------------------- MODULE Processor -----------------------------
(***************************************************************************)
(* User threads on the one simulated processor: Machine::Run executes the  *)
(* instructions of the running thread, and at every page fault, interrupt  *)
(* and system call another thread may get the machine                      *)
(* (Scheduler::SwitchTo, SaveProcessorState, RestoreProcessorState).  A    *)
(* page fault is not restarted: it is served in the middle of the          *)
(* instruction, which then goes on with the registers it finds.            *)
(*                                                                         *)
(* The threads belong to different processes, each with its own memory;    *)
(* that paging keeps the memory of a process intact is what VirtMem shows. *)
(* A program whose page 0 is mapped can leave its memory (trap "STRAY" of  *)
(* Mips), and the model stops there.                                       *)
(* Which instructions a program holds is left open: each fetch takes one   *)
(* of a set.                                                               *)
(***************************************************************************)
EXTENDS Mips

CONSTANTS
  Thread,
  Scenario,     \* what the threads run: a sequence of records, with the sets
                \* of contents of the registers (regs) and of threads that
                \* run first, the memory (mem), the byte order (big), the
                \* start (pc), and for each thread its instructions (instrs)
                \* and how many of them it executes (steps)
  Results       \* what system calls answer

VARIABLES
  scenario,     \* the one that is run, an index
  running,      \* g_current_thread
  machine,      \* g_machine, memory included
  context,      \* thread_context of each thread
  rest,         \* the rest of the instruction of each thread, or Idle
  steps,        \* how many instructions each thread may still fetch
  alone,        \* history: each thread on a machine of its own
  answer,       \* history: what the system call that a thread is in answers
  last          \* history: the last instruction, the machine alone before and after it

vars == <<scenario, running, machine, context, rest, steps, alone, answer, last>>

NoLast == [ins |-> Idle]

(* Thread::InitThreadContext, and Machine::Run for the first thread.       *)
InitThreadContext(s, regs) ==
  [Reset(s.mem, s.big) EXCEPT !.r = regs, !.pc = s.pc, !.npc = s.pc + 4]

Current == Scenario[scenario]

Init ==
  /\ scenario \in DOMAIN Scenario
  /\ \E regs \in Current.regs :
       context = [t \in Thread |-> InitThreadContext(Current, regs)]
  /\ running \in Current.first
  /\ machine = context[running]
  /\ rest = [t \in Thread |-> Idle]
  /\ steps = Current.steps
  /\ alone = context
  /\ answer = [t \in Thread |-> 0]
  /\ last = NoLast

Halted == machine.trap # "none"

(* SaveProcessorState and RestoreProcessorState: all registers, the float  *)
(* registers, the condition code; the memory comes with the translation    *)
(* table.                                                                  *)
RestoreNotCC(m, c) == [c EXCEPT !.cc = m.cc]
RestoreProcessorState(m, c) == c

(* Scheduler::SwitchTo, with m the machine as the running thread leaves it *)
SwitchTo(m, t) ==
  /\ running' = t
  /\ context' = [context EXCEPT ![running] = m]
  /\ machine' = IF t = running THEN m ELSE RestoreProcessorState(m, context[t])

-----------------------------------------------------------------------------
(* MIPS programs do not touch a register in the delay slot of its load,    *)
(* but for the second half of an unaligned load.                           *)
Respects(m, i) ==
  \/ m.lreg = 0 \/ i.op = "SYSCALL"
  \/ /\ m.lreg \notin {i.rs, i.rd}
     /\ m.lreg = i.rt => i.op \in Loads
     /\ m.lreg = R31 => i.op \notin Linking

(* OneInstruction up to its first access.                                  *)
Fetch ==
  /\ ~Halted /\ rest[running] = Idle /\ steps[running] > 0
  /\ \E i \in Current.instrs[running], result \in Results :
       LET one == Issue(machine, i)
           whole == Alone(alone[running], i, result)
       IN  /\ i.op # "SYSCALL" => result = 0
           /\ Respects(alone[running], i)
           /\ machine' = one.m
           /\ rest' = [rest EXCEPT ![running] = one.rest]
           /\ alone' = [alone EXCEPT ![running] = whole]
           /\ answer' = [answer EXCEPT ![running] = result]
           /\ last' = [ins |-> Decode(i), before |-> alone[running], after |-> whole]
  /\ steps' = [steps EXCEPT ![running] = @ - 1]
  /\ UNCHANGED <<scenario, running, context>>

(* An access to data, or the end of a system call.                         *)
Continue ==
  /\ ~Halted /\ rest[running] # Idle
  /\ LET one == Resume(machine, rest[running], answer[running])
     IN  /\ machine' = one.m
         /\ rest' = [rest EXCEPT ![running] = one.rest]
  /\ UNCHANGED <<scenario, running, context, steps, alone, answer, last>>

(* The access that comes next is allowed, and its page is not in memory:   *)
(* RaiseException, then the page fault manager, which may wait.            *)
Faultable ==
  IF rest[running] = Idle THEN Translate(machine.pc, 4, FALSE) \in Translated
  ELSE rest[running].ins.op # "SYSCALL" /\ Answer(rest[running]) \in Translated

PageFault ==
  /\ ~Halted /\ Faultable
  /\ \E t \in Thread : SwitchTo(DelayedLoad(machine, 0, 0), t)
  /\ UNCHANGED <<scenario, rest, steps, alone, answer, last>>

(* CheckIfDue at the end of an instruction: an interrupt, which may end    *)
(* the time slice.                                                         *)
Interrupted ==
  /\ ~Halted /\ rest[running] = Idle
  /\ \E t \in Thread : SwitchTo(DelayedLoad(machine, 0, 0), t)
  /\ UNCHANGED <<scenario, rest, steps, alone, answer, last>>

(* A system call that waits.                                               *)
SyscallWaits ==
  /\ ~Halted /\ rest[running] # Idle /\ rest[running].ins.op = "SYSCALL"
  /\ \E t \in Thread \ {running} : SwitchTo(machine, t)
  /\ UNCHANGED <<scenario, rest, steps, alone, answer, last>>

Next == Fetch \/ Continue \/ PageFault \/ Interrupted \/ SyscallWaits

ProcSpec == Init /\ [][Next]_vars

-----------------------------------------------------------------------------
MachineType ==
  [r : [GP -> Word], hi : Word, lo : Word, pc : Word, npc : Word,
   lreg : GP, lval : Word, f : [FP -> Word], cc : BOOLEAN,
   mem : [Address -> Byte], big : BOOLEAN,
   trap : {"none", "OVERFLOW", "ADDRESSERROR", "READONLY", "ILLEGALINSTR", "ASSERT", "SIGFPE",
           "STRAY"}]

(* Type invariant: registers stay within their word and bytes of memory    *)
(* within their byte, whatever is computed, merged or stored; and register *)
(* 0 is zero whenever another thread, the kernel or the next instruction   *)
(* may read it, although instructions write to it and loads are delayed    *)
(* into it.                                                                *)
ProcTypeOK ==
  /\ scenario \in DOMAIN Scenario /\ running \in Thread
  /\ machine \in MachineType
  /\ \A t \in Thread : context[t] \in MachineType /\ alone[t] \in MachineType
  /\ \A t \in Thread : rest[t] = Idle \/ rest[t].turn \in 1 .. 2
  /\ steps \in [Thread -> Nat]
  /\ machine.r[0] = 0 /\ \A t \in Thread : context[t].r[0] = 0

(* The state of a thread as its program can see it.                        *)
StateOf(t) == IF t = running THEN machine ELSE context[t]
Seen(m) == DelayedLoad(m, 0, 0)

(* Page faults, interrupts and switches, in the middle of an instruction   *)
(* too, do not show: between two of its instructions a thread finds the    *)
(* registers, the memory and the exception that it would have found alone  *)
(* on a machine where nothing ever happens (OneInstruction: "we always     *)
(* store all data back to the machine registers and memory").              *)
SwitchesDoNotShow ==
  \A t \in Thread : rest[t] = Idle => Seen(StateOf(t)) = Seen(alone[t])

-----------------------------------------------------------------------------
(* What the manual of the processor says of an instruction, in terms of    *)
(* the integers and bytes that the words stand for.                        *)

Product(hi, lo) == hi * 2^W + lo
SignedProduct(hi, lo) ==
  IF SignBit(hi) = 1 THEN Product(hi, lo) - 2^(2*W) ELSE Product(hi, lo)
InRange(n) == n \in -2^(W-1) .. 2^(W-1) - 1

(* A result of n that is checked for overflow.                             *)
CheckedResult(n, after, reg) ==
  IF InRange(n) THEN after.trap = "none" /\ (reg # 0 => Signed(after.r[reg]) = n)
                ELSE after.trap = "OVERFLOW"

Divided(a, b, q, r) ==
  a = q * b + r /\ Magnitude(r) < Magnitude(b) /\ (r = 0 \/ (r < 0) = (a < 0))

(* The arithmetic on words is that of the integers: ADD, ADDI and SUB      *)
(* raise OVERFLOW exactly when the result is out of range, MULT and MULTU, *)
(* which Mult computes bit by bit, give the double-length product, DIV and *)
(* DIVU quotient and remainder, and SLT and SLTU compare.                  *)
ArithmeticIsRight ==
  last # NoLast /\ last.after.trap \in {"none", "OVERFLOW"} =>
    LET i == last.ins
        m == last.after
        ua == last.before.r[i.rs]
        ub == last.before.r[i.rt]
        a == Signed(ua)
        b == Signed(ub)
        x == Signed(i.extra)
    IN  /\ i.op = "ADD" => CheckedResult(a + b, m, i.rd)
        /\ i.op = "ADDI" => CheckedResult(a + x, m, i.rt)
        /\ i.op = "SUB" => CheckedResult(a - b, m, i.rd)
        /\ i.op = "MULT" => SignedProduct(m.hi, m.lo) = a * b
        /\ i.op = "MULTU" => Product(m.hi, m.lo) = ua * ub
        /\ i.op = "DIV" /\ b # 0 => Divided(a, b, Signed(m.lo), Signed(m.hi))
        /\ i.op = "DIVU" /\ b # 0 => Divided(ua, ub, m.lo, m.hi)
        /\ i.op = "SLT" /\ i.rd # 0 => (m.r[i.rd] = 1) = (a < b)
        /\ i.op = "SLTI" /\ i.rt # 0 => (m.r[i.rt] = 1) = (a < x)
        /\ i.op = "SLTU" /\ i.rd # 0 => (m.r[i.rd] = 1) = (ua < ub)

(* The bytes that a store to addr replaces: the offset of each from addr,  *)
(* and which byte of the register it gets, in big-endian order.            *)
Stored(op, addr) ==
  CASE op = "SB" -> {<<0, 0>>}
    [] op = "SH" -> {<<0, 1>>, <<1, 0>>}
    [] op = "SW" -> {<<k, 3 - k>> : k \in 0 .. 3}
    [] op = "SWL" -> {<<k, 3 - k>> : k \in 0 .. 3 - (addr % 4)}
    [] op = "SWR" -> {<<-k, k>> : k \in 0 .. (addr % 4)}

(* In a big-endian program a store replaces the bytes it should and no     *)
(* other: SWL those from its address to the end of the word, SWR those     *)
(* from the start of the word, so that the two store an unaligned word.    *)
StoresAreRight ==
  last # NoLast /\ last.ins.op \in {"SB", "SH", "SW"} \cup PartStores /\ last.after.trap = "none"
      /\ last.after.big =>
    LET i == last.ins
        addr == Address0(last.before, i)
        bytes == Stored(i.op, addr)
    IN  \A a \in Address :
          LET here == {p \in bytes : addr + p[1] = a}
          IN  IF here = {} THEN last.after.mem[a] = last.before.mem[a]
              ELSE \A p \in here :
                     last.after.mem[a] = Below(From(last.before.r[i.rt], p[2]), 1)

(* The number that size bytes from addr on are in a big-endian program.    *)
Number(m, addr, size) ==
  LET n[k \in 0 .. size] == IF k = 0 THEN 0 ELSE n[k - 1] * 2^ByteBits + m.mem[addr + k - 1]
  IN  n[size]
SignedNumber(m, addr, size) ==
  LET n == Number(m, addr, size)
  IN  IF n >= 2^(size * ByteBits - 1) THEN n - 2^(size * ByteBits) ELSE n

(* A load fetches the number at its address, with its sign or without, and *)
(* the register has it after the instruction that follows, whichever that  *)
(* is and whether or not it raises an exception (DelayedLoad, called at    *)
(* the end of every instruction and by RaiseException).                    *)
LoadsAreRight ==
  last # NoLast =>
    LET i == last.ins
        addr == Address0(last.before, i)
        loaded == last.after.lval
        pendingReg == last.before.lreg
    IN  /\ last.after.big /\ last.after.trap = "none" =>
             /\ i.op \in {"LBU", "LHU", "LW"} => loaded = Number(last.before, addr, Size(i.op))
             /\ i.op \in {"LB", "LH"} => Signed(loaded) = SignedNumber(last.before, addr, Size(i.op))
             /\ i.op \in Loads => last.after.lreg = i.rt
        /\ pendingReg # 0 /\ i.op # "SYSCALL" => last.after.r[pendingReg] = last.before.lval

(* Every access that Translate allows is to a byte of the frame of its     *)
(* page (mmu.cc: "Make sure physical address is correct").  It is not when *)
(* page 0 is mapped: an address just below 0 gets a negative offset in it. *)
AccessesStayInPage == machine.trap # "STRAY" /\ (last # NoLast => last.after.trap # "STRAY")

(* What programs see of memory, and that they leave that of others alone.  *)
MemoryIsRight == AccessesStayInPage /\ LoadsAreRight /\ StoresAreRight
=============================================================================
