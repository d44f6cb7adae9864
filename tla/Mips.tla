-------------------------------- MODULE Mips --------------------------------
(***************************************************************************)
(* The instructions of the simulated MIPS (machine/mipssim.cc and .h) as   *)
(* operators on a machine: a record of the registers of class Machine, of  *)
(* the memory and of the exception that stopped it, if one did.            *)
(*                                                                         *)
(* The word is scaled down: a byte has ByteBits bits, a word four bytes,   *)
(* the 16 bits of an immediate two bytes, the shift amount counts the bits *)
(* of a word, and the program has NumGP registers, the last one standing   *)
(* for R31, and NumFP floating point registers.  A register holds its bits *)
(* as a natural number.  The build neither optimises nor traps, so that    *)
(* the C arithmetic on int wraps.                                          *)
(*                                                                         *)
(* An instruction that accesses memory is cut at its accesses, because     *)
(* each may raise a page fault, during which other threads use the         *)
(* machine: Issue is OneInstruction up to the first access, Access one     *)
(* access and what follows it.  Both return the machine and the rest of    *)
(* the instruction, which is Idle when the instruction is over.            *)
(***************************************************************************)
EXTENDS Integers, Sequences, Bitwise

CONSTANTS
  ByteBits,     \* bits of a byte
  NumGP,        \* general registers of the scaled machine
  NumFP,        \* NUM_FP_REGS
  PageSize,     \* g_cfg->PageSize
  Rights        \* the translation table: <<rights of page 0, ...>>, each of
                \* "none", "r" (readAllowed) or "rw" (writeAllowed too)

W == 4 * ByteBits
Word == 0 .. 2^W - 1
Byte == 0 .. 2^ByteBits - 1
Half == 0 .. 2^(2*ByteBits) - 1
GP == 0 .. NumGP - 1
FP == 0 .. NumFP - 1
R31 == NumGP - 1
Address == 0 .. PageSize * Len(Rights) - 1

ASSUME MachineAssumption ==
  /\ ByteBits \in Nat \ {0} /\ NumGP \in Nat \ (0 .. 2) /\ NumFP \in Nat \ {0, 1}
  /\ PageSize \in Nat \ {0} /\ PageSize % 8 = 0
  /\ Rights \in Seq({"none", "r", "rw"}) /\ Address \subseteq 0 .. 2^(W-1) - 1

-----------------------------------------------------------------------------
(* Words                                                                   *)

Wrap(n) == n % 2^W
SignBit(w) == w \div 2^(W-1)
Signed(w) == IF SignBit(w) = 1 THEN w - 2^W ELSE w

(* The bits of a word from the given byte on, and those below it.          *)
From(w, byte) == w \div 2^(byte * ByteBits)
Below(w, byte) == w % 2^(byte * ByteBits)
At(w, byte) == Wrap(w * 2^(byte * ByteBits))

(* The sign extension of the low bytes of a word.                          *)
Extend(w, bytes) ==
  LET v == Below(w, bytes)
  IN  IF From(2 * v, bytes) = 0 THEN v ELSE Wrap(v - 2^(bytes * ByteBits))

IndexToAddr(x) == Wrap(4 * x)

-----------------------------------------------------------------------------
(* Decoding: which field of the instruction "extra" is.                    *)

JFormat == {"J", "JAL"}
RFormat ==
  {"SLL", "SRL", "SRA", "SLLV", "SRLV", "SRAV", "JR", "JALR", "SYSCALL",
   "MFHI", "MTHI", "MFLO", "MTLO", "MULT", "MULTU", "DIV", "DIVU",
   "ADD", "ADDU", "SUB", "SUBU", "AND", "OR", "XOR", "NOR", "SLT", "SLTU"}

Decode(i) ==
  [op |-> i.op, fn |-> i.fn, fmt |-> i.fmt, rs |-> i.rs, rt |-> i.rt, rd |-> i.rd,
   fs |-> i.rd, ft |-> i.rt, fd |-> i.shamt,
   extra |-> CASE i.op \in JFormat -> i.imm
               [] i.op \in RFormat -> i.shamt
               [] OTHER -> Extend(i.imm, 2)]

-----------------------------------------------------------------------------
(* The machine                                                             *)

(* Machine::Machine, with the memory of a program and its byte order       *)
(* (mips_endianess, from the header of the executable).                    *)
Reset(mem, big) ==
  [r |-> [k \in GP |-> 0], hi |-> 0, lo |-> 0, pc |-> 0, npc |-> 0,
   lreg |-> 0, lval |-> 0, f |-> [k \in FP |-> 0], cc |-> FALSE,
   mem |-> mem, big |-> big, trap |-> "none"]

(* A load takes effect after the instruction that follows it: the one that *)
(* is pending is done and the next one noted.                              *)
DelayedLoadForgetful(m, nextReg, nextValue) ==
  [m EXCEPT !.r[0] = 0, !.lreg = nextReg, !.lval = nextValue]
DelayedLoadFreeZero(m, nextReg, nextValue) ==
  [m EXCEPT !.r[m.lreg] = m.lval, !.lreg = nextReg, !.lval = nextValue]
DelayedLoad(m, nextReg, nextValue) ==
  [m EXCEPT !.r = [[@ EXCEPT ![m.lreg] = m.lval] EXCEPT ![0] = 0],
            !.lreg = nextReg, !.lval = nextValue]

(* RaiseException, up to the handler.  Every exception but the page fault  *)
(* and the system call stops the machine.                                  *)
Trap(m, which) == [DelayedLoad(m, 0, 0) EXCEPT !.trap = which]

(* The end of OneInstruction.                                              *)
Advance(m, pcAfter, nextReg, nextValue) ==
  [DelayedLoad(m, nextReg, nextValue) EXCEPT !.pc = m.npc, !.npc = pcAfter]
Next4(m) == Wrap(m.npc + 4)
Complete(m) == Advance(m, Next4(m), 0, 0)

Idle == [op |-> "idle"]
Ended(m) == [m |-> m, rest |-> Idle]

-----------------------------------------------------------------------------
(* Integer instructions                                                    *)

(* One turn of the loop of Mult, on the bits of a.                         *)
MultStepNoCarry(s) ==
  LET odd == s.a % 2 = 1
  IN  [a |-> Wrap(Signed(s.a) \div 2), bLo |-> Wrap(2 * s.bLo),
       bHi |-> Wrap(2 * s.bHi + SignBit(s.bLo)),
       lo |-> IF odd THEN Wrap(s.lo + s.bLo) ELSE s.lo,
       hi |-> IF odd THEN Wrap(s.hi + s.bHi) ELSE s.hi]
MultStep(s) ==
  LET odd == s.a % 2 = 1
      lo == Wrap(s.lo + s.bLo)
      carry == IF lo < s.bLo THEN 1 ELSE 0
  IN  [a |-> Wrap(Signed(s.a) \div 2), bLo |-> Wrap(2 * s.bLo),
       bHi |-> Wrap(2 * s.bHi + SignBit(s.bLo)),
       lo |-> IF odd THEN lo ELSE s.lo,
       hi |-> IF odd THEN Wrap(s.hi + carry + s.bHi) ELSE s.hi]

(* Mult: the double-length product, computed on the magnitudes.            *)
Mult(a, b, signedArith) ==
  LET negative == signedArith /\ SignBit(a) # SignBit(b)
      Positive(x) == IF signedArith /\ SignBit(x) = 1 THEN Wrap(-x) ELSE x
      turn[n \in 0 .. W] ==
        IF n = 0 THEN [a |-> Positive(a), bLo |-> Positive(b), bHi |-> 0, lo |-> 0, hi |-> 0]
                 ELSE MultStep(turn[n - 1])
      lo == Wrap(-turn[W].lo)
      borrow == IF lo = 0 THEN 1 ELSE 0
  IN  IF a = 0 \/ b = 0 THEN [hi |-> 0, lo |-> 0]
      ELSE IF ~negative THEN [hi |-> turn[W].hi, lo |-> turn[W].lo]
      ELSE [hi |-> Wrap(2^W - 1 - turn[W].hi + borrow), lo |-> lo]

(* The division of C, which truncates.                                     *)
Magnitude(n) == IF n < 0 THEN -n ELSE n
Quotient(a, b) ==
  LET q == Magnitude(a) \div Magnitude(b)
  IN  IF (a < 0) # (b < 0) THEN -q ELSE q

HiLo(m, i) ==
  LET a == m.r[i.rs]
      b == m.r[i.rt]
      q == Quotient(Signed(a), Signed(b))
  IN  CASE i.op = "MULT" -> Mult(a, b, TRUE)
        [] i.op = "MULTU" -> Mult(a, b, FALSE)
        [] i.op = "MTHI" -> [hi |-> a, lo |-> m.lo]
        [] i.op = "MTLO" -> [hi |-> m.hi, lo |-> a]
        [] b = 0 -> [hi |-> 0, lo |-> 0]
        [] i.op = "DIVU" -> [hi |-> a % b, lo |-> a \div b]
        [] OTHER -> [hi |-> Wrap(Signed(a) - q * Signed(b)), lo |-> Wrap(q)]

HiLoOps == {"MULT", "MULTU", "MTHI", "MTLO", "DIV", "DIVU"}

(* The host traps when it divides the least integer by -1.                 *)
HostTraps(m, i) ==
  i.op = "DIV" /\ Signed(m.r[i.rs]) = -2^(W-1) /\ Signed(m.r[i.rt]) = -1

(* The second operand: a register or the immediate.                        *)
Immediates == {"ADDI", "ADDIU", "ANDI", "ORI", "XORI", "SLTI", "SLTIU", "LUI"}
Operand(m, i) == IF i.op \in Immediates THEN i.extra ELSE m.r[i.rt]

Sum(m, i) == Wrap(m.r[i.rs] + Operand(m, i))
Difference(m, i) == Wrap(m.r[i.rs] - m.r[i.rt])

(* The test for overflow, on the signs of the operands and of the result.  *)
Overflows(m, i) ==
  LET a == SignBit(m.r[i.rs])
      b == SignBit(Operand(m, i))
  IN  \/ i.op = "ADD" /\ a = b /\ a # SignBit(Sum(m, i))
      \/ i.op = "ADDI" /\ a = b /\ b # SignBit(Sum(m, i))
      \/ i.op = "SUB" /\ a # b /\ a # SignBit(Difference(m, i))

(* The operations on bits.  OR combines rs with itself.                    *)
Logic(m, i) ==
  LET a == m.r[i.rs]
      imm == Below(i.extra, 2)
  IN  CASE i.op = "AND" -> a & m.r[i.rt]
        [] i.op = "ANDI" -> a & imm
        [] i.op = "NOR" -> 2^W - 1 - (a | m.r[i.rt])
        [] i.op = "OR" -> a | a
        [] i.op = "ORI" -> a | imm
        [] i.op = "XOR" -> a ^^ m.r[i.rt]
        [] i.op = "XORI" -> a ^^ imm
        [] i.op = "LUI" -> At(i.extra, 2)

(* The shifts.  The right shifts of C are arithmetic, SRL and SRLV too.    *)
Shift(m, i) ==
  LET b == m.r[i.rt]
      by == IF i.op \in {"SLL", "SRA", "SRL"} THEN i.extra ELSE m.r[i.rs] % W
  IN  IF i.op \in {"SLL", "SLLV"} THEN Wrap(b * 2^by) ELSE Wrap(Signed(b) \div 2^by)

Less(m, i) ==
  LET a == m.r[i.rs]
      b == Operand(m, i)
      less == IF i.op \in {"SLT", "SLTI"} THEN Signed(a) < Signed(b) ELSE a < b
  IN  IF less THEN 1 ELSE 0

Logical == {"AND", "ANDI", "NOR", "OR", "ORI", "XOR", "XORI", "LUI"}
Shifts == {"SLL", "SLLV", "SRA", "SRAV", "SRL", "SRLV"}
Comparisons == {"SLT", "SLTI", "SLTU", "SLTIU"}
Sums == {"ADD", "ADDI", "ADDU", "ADDIU", "SUB", "SUBU"}
Moves == {"MFHI", "MFLO"}
AluOps == Logical \cup Shifts \cup Comparisons \cup Sums \cup Moves

AluValue(m, i) ==
  CASE i.op \in Logical -> Logic(m, i)
    [] i.op \in Shifts -> Shift(m, i)
    [] i.op \in Comparisons -> Less(m, i)
    [] i.op \in {"SUB", "SUBU"} -> Difference(m, i)
    [] i.op = "MFHI" -> m.hi
    [] i.op = "MFLO" -> m.lo
    [] OTHER -> Sum(m, i)

Alu(m, i) ==
  IF Overflows(m, i) THEN Trap(m, "OVERFLOW")
  ELSE Complete([m EXCEPT !.r[IF i.op \in Immediates THEN i.rt ELSE i.rd] = AluValue(m, i)])

-----------------------------------------------------------------------------
(* Jumps and branches                                                      *)

Linking == {"BGEZAL", "BLTZAL", "JAL", "JALR"}
Link(m, i) ==
  IF i.op \notin Linking THEN m
  ELSE [m EXCEPT !.r[IF i.op = "JALR" THEN i.rd ELSE R31] = Next4(m)]

Branches == {"BEQ", "BNE", "BGEZ", "BGEZAL", "BLTZ", "BLTZAL", "BGTZ", "BLEZ", "BC1F", "BC1T"}
Taken(m, i) ==
  LET a == Signed(m.r[i.rs])
  IN  CASE i.op = "BEQ" -> m.r[i.rs] = m.r[i.rt]
        [] i.op = "BNE" -> m.r[i.rs] # m.r[i.rt]
        [] i.op \in {"BGEZ", "BGEZAL"} -> a >= 0
        [] i.op \in {"BLTZ", "BLTZAL"} -> a < 0
        [] i.op = "BGTZ" -> a > 0
        [] i.op = "BLEZ" -> a <= 0
        [] i.op = "BC1F" -> ~m.cc
        [] i.op = "BC1T" -> m.cc

Jumps == {"J", "JAL", "JR", "JALR"}
Region == 2^(W-1)    \* the bits of the address that J keeps

(* The register of JR and the condition of a branch are read after the     *)
(* link register is written.                                               *)
PcAfter(m, i) ==
  CASE i.op \in {"J", "JAL"} -> Region * (Next4(m) \div Region) + (IndexToAddr(i.extra) % Region)
    [] i.op \in {"JR", "JALR"} -> m.r[i.rs]
    [] OTHER -> IF Taken(m, i) THEN Wrap(m.npc + IndexToAddr(i.extra)) ELSE Next4(m)

Jump(m, i) == LET linked == Link(m, i) IN Advance(linked, PcAfter(linked, i), 0, 0)

-----------------------------------------------------------------------------
(* Memory                                                                  *)

(* Page and offset of an address, which is an int: C truncates, so that    *)
(* the addresses -1 .. -(PageSize - 1) are in page 0, at negative offsets. *)
Vpn(addr) == Quotient(Signed(addr), PageSize)
Offset(addr) == Signed(addr) - Vpn(addr) * PageSize

(* Translate, page faults aside: what it answers.  It asserts that the     *)
(* address is aligned, and the translation table that the page is not      *)
(* negative.  "STRAY" is a success with the physical address of a byte in  *)
(* front of the frame of page 0.                                           *)
Translate(addr, size, writing) ==
  LET page == Vpn(addr) + 1
  IN  IF addr % size # 0 THEN "ASSERT"
      ELSE IF page > Len(Rights) THEN "ADDRESSERROR"
      ELSE IF page <= 0 THEN "ASSERT"
      ELSE IF Rights[page] = "none" THEN "ADDRESSERROR"
      ELSE IF writing /\ Rights[page] # "rw" THEN "READONLY"
      ELSE IF Offset(addr) < 0 THEN "STRAY"
      ELSE "ok"

Translated == {"ok", "STRAY"}

(* Which byte of a number of that size is at offset k.                     *)
Place(m, k, size) == IF m.big THEN size - 1 - k ELSE k

ReadMem(m, addr, size) ==
  LET byte[k \in 0 .. size] ==
        IF k = 0 THEN 0
        ELSE byte[k - 1] + At(m.mem[addr + k - 1], Place(m, k - 1, size))
  IN  byte[size]

WriteMem(m, addr, size, value) ==
  [m EXCEPT !.mem = [a \in DOMAIN @ |->
     IF a \in addr .. addr + size - 1 THEN Below(From(value, Place(m, a - addr, size)), 1)
                                      ELSE @[a]]]

Loads == {"LB", "LBU", "LH", "LHU", "LW", "LWL", "LWR"}
FpLoads == {"LWC1", "LDC1"}
Stores == {"SB", "SH", "SW", "SWC1", "SDC1"}
PartStores == {"SWL", "SWR"}
MemoryOps == Loads \cup FpLoads \cup Stores \cup PartStores

Size(op) ==
  CASE op \in {"LB", "LBU", "SB"} -> 1
    [] op \in {"LH", "LHU", "SH"} -> 2
    [] OTHER -> 4

(* The alignment that OneInstruction itself checks.                        *)
Alignment(op) ==
  CASE op \in {"LH", "LHU"} -> 2
    [] op \in {"LW", "LWC1"} -> 4
    [] op = "LDC1" -> 8
    [] OTHER -> 1

(* The address of the coming access, and whether it is a write.            *)
Where(rest) ==
  CASE rest.ins.op \in PartStores -> rest.tmp - (rest.tmp % 4)
    [] rest.turn = 2 -> Wrap(rest.tmp + 4)
    [] OTHER -> rest.tmp
Writing(rest) ==
  rest.ins.op \in Stores \/ (rest.ins.op \in PartStores /\ rest.turn = 2)
Answer(rest) == Translate(Where(rest), Size(rest.ins.op), Writing(rest))

(* What a load puts in the register; LWL and LWR merge with the value that *)
(* it holds or is about to get from a pending load.                        *)
LoadValue(m, rest, value) ==
  LET i == rest.ins
      k == rest.tmp % 4
      old == IF m.lreg = i.rt THEN m.lval ELSE m.r[i.rt]
  IN  CASE i.op = "LB" -> Extend(value, 1)
        [] i.op = "LH" -> Extend(value, 2)
        [] i.op = "LWL" -> Below(old, k) + At(value, k)
        [] i.op = "LWR" -> At(From(old, k + 1), k + 1) + From(value, 3 - k)
        [] OTHER -> value

(* What SWL and SWR put in the word that they have read.                   *)
Merged(m, rest, value) ==
  LET reg == m.r[rest.ins.rt]
      k == rest.tmp % 4
  IN  IF rest.ins.op = "SWL" THEN At(From(value, 4 - k), 4 - k) + From(reg, k)
                             ELSE Below(value, 3 - k) + At(reg, 3 - k)

(* An access that Translate allows, and what follows up to the next one.   *)
AccessAllowed(m, rest) ==
  LET i == rest.ins
      size == Size(i.op)
      value == ReadMem(m, Where(rest), size)
      written == WriteMem(m, Where(rest), size, rest.value)
      again == [rest EXCEPT !.turn = 2]
  IN  CASE i.op \in Loads -> Ended(Advance(m, Next4(m), i.rt, LoadValue(m, rest, value)))
        [] i.op = "LDC1" /\ rest.turn = 1 -> [m |-> [m EXCEPT !.f[i.ft] = value], rest |-> again]
        [] i.op \in FpLoads ->
             Ended(Complete([m EXCEPT !.f[IF rest.turn = 2 THEN i.ft + 1 ELSE i.ft] = value]))
        [] i.op = "SDC1" /\ rest.turn = 1 ->
             [m |-> written, rest |-> [again EXCEPT !.value = m.f[i.ft + 1]]]
        [] i.op \in PartStores /\ rest.turn = 1 ->
             [m |-> m, rest |-> [again EXCEPT !.value = Merged(m, rest, value)]]
        [] OTHER -> Ended(Complete(written))

(* The access is refused, or it strays: the program has read or changed    *)
(* bytes of another page, or of the simulator when the frame is the first  *)
(* one.  What it does from there on is not modelled.                       *)
NoAccess(m, answer) ==
  Ended(IF answer = "STRAY" THEN [m EXCEPT !.trap = "STRAY"] ELSE Trap(m, answer))

Access(m, rest) ==
  IF Answer(rest) = "ok" THEN AccessAllowed(m, rest) ELSE NoAccess(m, Answer(rest))

(* A load or store up to its first access.                                 *)
Address0(m, i) == Wrap(m.r[i.rs] + i.extra)
StartAccess(m, i) ==
  IF Address0(m, i) % Alignment(i.op) # 0 THEN Ended(Trap(m, "ADDRESSERROR"))
  ELSE [m |-> m,
        rest |-> [ins |-> i, tmp |-> Address0(m, i), turn |-> 1,
                  value |-> CASE i.op \in {"SB", "SH", "SW"} -> m.r[i.rt]
                              [] i.op \in {"SWC1", "SDC1"} -> m.f[i.ft]
                              [] OTHER -> 0]]

-----------------------------------------------------------------------------
(* Floating point.  The arithmetic is the host's: here a float and a       *)
(* double are integers of one and of two words, which wrap.                *)

get_double(m, reg) ==
  LET n == m.f[reg] + 2^W * m.f[reg + 1]
  IN  IF n >= 2^(2*W-1) THEN n - 2^(2*W) ELSE n
set_double(m, reg, val) ==
  [m EXCEPT !.f[reg] = Wrap(val), !.f[reg + 1] = Wrap(val \div 2^W)]
get_float(m, reg) == Signed(m.f[reg])
set_float(m, reg, val) == [m EXCEPT !.f[reg] = Wrap(val)]

SquareRoot(n) == CHOOSE k \in 0 .. n : k * k <= n /\ (k + 1) * (k + 1) > n

(* The numbers in fs and ft, in the format of the instruction; a word "W"  *)
(* is an integer.                                                          *)
FpGet(m, i, reg) == IF i.fmt = "D" THEN get_double(m, reg) ELSE get_float(m, reg)

HostFloat(op, x, y) ==
  CASE op = "ABS" -> Magnitude(x)
    [] op = "ADD" -> x + y
    [] op = "SUB" -> x - y
    [] op = "MUL" -> x * y
    [] op = "NEG" -> -x
    [] op = "SQRT" -> SquareRoot(x)
    [] op = "DIV" -> IF y = 0 THEN 0 ELSE Quotient(x, y)

FpUnary == {"ABS", "NEG", "SQRT"}
FpArithmetic(m, i) ==
  LET op == i.fn
      x == FpGet(m, i, i.fs)
      y == IF op \in FpUnary THEN 0 ELSE FpGet(m, i, i.ft)
  IN  IF op = "SQRT" /\ x < 0 THEN Trap(m, "OVERFLOW")
      ELSE Complete(IF i.fmt = "D" THEN set_double(m, i.fd, HostFloat(op, x, y))
                                   ELSE set_float(m, i.fd, HostFloat(op, x, y)))

Convert(m, i) ==
  LET x == FpGet(m, i, i.fs)
  IN  Complete(IF i.fn = "D" THEN set_double(m, i.fd, x) ELSE set_float(m, i.fd, x))

(* The conditions; the unordered ones are as the ordered ones.             *)
Compare(m, i) ==
  LET x == FpGet(m, i, i.fs)
      y == FpGet(m, i, i.ft)
  IN  Complete([m EXCEPT !.cc =
        CASE i.fn \in {"F", "SF"} -> FALSE
          [] i.fn \in {"EQ", "UEQ", "SEQ", "NGL"} -> x = y
          [] i.fn \in {"OLT", "ULT", "LT", "NGE"} -> x < y
          [] i.fn \in {"OLE", "ULE", "LE", "NGT"} -> x <= y])

FpMove(m, i) ==
  Complete(CASE i.op = "MOV" /\ i.fmt = "S" -> [m EXCEPT !.f[i.fd] = m.f[i.fs]]
             [] i.op = "MOV" -> [m EXCEPT !.f[i.fd] = m.f[i.fs], !.f[i.fd + 1] = m.f[i.fs + 1]]
             [] i.op \in {"MFC1", "CFC1"} -> [m EXCEPT !.r[i.rt] = m.f[i.fs]]
             [] i.op \in {"MTC1", "CTC1"} -> [m EXCEPT !.f[i.fs] = m.r[i.rt]])

FpMoves == {"MOV", "MFC1", "CFC1", "MTC1", "CTC1"}

-----------------------------------------------------------------------------
(* OneInstruction                                                          *)

(* After the fetch: everything up to the first access to data, or to the   *)
(* handler of the system call.                                             *)
Execute(m, i) ==
  CASE HostTraps(m, i) -> Ended(Trap(m, "SIGFPE"))
    [] i.op \in AluOps -> Ended(Alu(m, i))
    [] i.op \in HiLoOps /\ ~HostTraps(m, i) ->
         Ended(Complete([m EXCEPT !.hi = HiLo(m, i).hi, !.lo = HiLo(m, i).lo]))
    [] i.op \in Jumps \cup Branches -> Ended(Jump(m, i))
    [] i.op \in MemoryOps -> StartAccess(m, i)
    [] i.op = "SYSCALL" ->
         [m |-> DelayedLoad(m, 0, 0), rest |-> [ins |-> i, tmp |-> 0, turn |-> 1, value |-> 0]]
    [] i.op = "FP" -> Ended(FpArithmetic(m, i))
    [] i.op = "CVT" -> Ended(Convert(m, i))
    [] i.op = "CMP" -> Ended(Compare(m, i))
    [] i.op \in FpMoves -> Ended(FpMove(m, i))
    [] OTHER -> Ended(Trap(m, "ILLEGALINSTR"))

Issue(m, i) ==
  IF Translate(m.pc, 4, FALSE) = "ok" THEN Execute(m, Decode(i))
  ELSE NoAccess(m, Translate(m.pc, 4, FALSE))

(* The end of the handler of a system call, with its result in r2.         *)
SyscallReturn(m, result) ==
  [m EXCEPT !.r[2] = result, !.pc = m.npc, !.npc = Next4(m)]

(* One access, or the end of a system call that answers "result".          *)
Resume(m, rest, result) ==
  IF rest.ins.op = "SYSCALL" THEN Ended(SyscallReturn(m, result)) ELSE Access(m, rest)

(* The whole instruction on a machine of its own.                          *)
Alone(m, i, result) ==
  LET first == Issue(m, i)
      second == IF first.rest = Idle THEN first ELSE Resume(first.m, first.rest, result)
      third == IF second.rest = Idle THEN second ELSE Resume(second.m, second.rest, result)
  IN  third.m
=============================================================================
