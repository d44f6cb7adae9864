---------------------------- MODULE MCProcessor ----------------------------
(***************************************************************************)
(* Processor with bytes of two bits.  Page 0 is not mapped, as in every    *)
(* program that userlib/ldscript.lds links ("Skip an area of about 8k, so  *)
(* that NULL pointer dereferences can be detected"); page 1 holds data,    *)
(* the two pages after it code, the last one nothing.  In the first        *)
(* scenario every instruction is executed once on many pairs of words; in  *)
(* the others two threads run short programs of instructions that          *)
(* interact.                                                               *)
(***************************************************************************)
EXTENDS Processor, TLC

CONSTANTS thread1, thread2

MCThread == {thread1, thread2}
MCRights == <<"none", "rw", "r", "r", "none">>
MCMem == [k \in Address |-> (k * k + k \div 2) % 4]

(* Words around the limits of the signed and unsigned ranges, and some     *)
(* addresses.                                                              *)
Sample == {0, 1, 2, 7, 8, 9, 13, 14, 21, 30, 34, 64, 85, 127, 128, 129, 170, 200, 250, 254, 255}
Registers(x, y) == [k \in GP |-> CASE k = 1 -> x [] k = 2 -> y [] OTHER -> 0]

Ins(op, fn, fmt, rs, rt, rd, shamt, imm) ==
  [op |-> op, fn |-> fn, fmt |-> fmt, rs |-> rs, rt |-> rt, rd |-> rd, shamt |-> shamt, imm |-> imm]
R(op, rs, rt, rd, shamt) == Ins(op, "", "", rs, rt, rd, shamt, 0)
I(op, rs, rt, imm) == Ins(op, "", "", rs, rt, 0, 0, imm)
F(op, fn, fmt, fs, ft, fd) == Ins(op, fn, fmt, 0, ft, fs, fd, 0)

RegisterIns ==
  {R(op, 1, 2, 3, 3) : op \in RFormat \ {"SYSCALL"}} \cup {R("ADD", 1, 2, 0, 0), R("MFLO", 0, 0, 0, 0)}
ImmediateIns == {I(op, 1, 3, imm) : op \in Immediates, imm \in {0, 7, 8, 15}}
BranchIns == {I(op, 1, 2, imm) : op \in Branches, imm \in {1, 15}} \cup {I(op, 0, 0, 3) : op \in JFormat}
MemoryIns == {I(op, 1, 2, 1) : op \in (MemoryOps \ {"LWC1", "LDC1", "SWC1", "SDC1"})}
             \cup {I(op, 1, 0, 0) : op \in {"LWC1", "LDC1", "SWC1", "SDC1", "LW", "SW"}}

AllOnce ==
  [regs |-> {Registers(x, y) : x \in Sample, y \in Sample}, mem |-> MCMem, big |-> TRUE, pc |-> 16,
   instrs |-> [t \in MCThread |-> RegisterIns \cup ImmediateIns \cup BranchIns \cup MemoryIns
                                   \cup {I("RES", 0, 0, 0)}],
   steps |-> [t \in MCThread |-> IF t = thread1 THEN 1 ELSE 0], first |-> {thread1}]

(* Floating point: what is moved to f0 and f2 is computed with, compared   *)
(* and branched on.                                                        *)
FpIns ==
  {F("FP", fn, fmt, 0, 2, 0) : fn \in {"ABS", "ADD", "SUB", "MUL", "NEG", "SQRT", "DIV"}, fmt \in {"S", "D"}}
  \cup {F("CMP", fn, fmt, 0, 2, 0) : fn \in {"F", "EQ", "LT", "LE"}, fmt \in {"S", "D"}}
  \cup {F("CVT", to, fmt, 0, 0, 2) : to \in {"S", "D", "W"}, fmt \in {"S", "D", "W"}}
  \cup {F("MOV", "", fmt, 0, 0, 2) : fmt \in {"S", "D"}}
  \cup {Ins(op, "", "", 0, 1, 0, 0, 0) : op \in {"MTC1", "CTC1"}}
  \cup {Ins(op, "", "", 0, 3, 0, 0, 0) : op \in {"MFC1", "CFC1"}}
  \cup {I("BC1T", 0, 0, 1), I("BC1F", 0, 0, 1), I("LDC1", 2, 0, 0), I("SDC1", 2, 2, 0), I("LWC1", 2, 2, 4)}

Floats ==
  [regs |-> {Registers(5, 8), Registers(254, 8)}, mem |-> MCMem, big |-> FALSE, pc |-> 16,
   instrs |-> [t \in MCThread |-> IF t = thread1 THEN FpIns
                 ELSE {F("CMP", "EQ", "S", 0, 0, 0), I("LDC1", 2, 0, 0)}],
   steps |-> [t \in MCThread |-> IF t = thread1 THEN 2 ELSE 1], first |-> {thread1}]

(* Loads and what follows them, in both threads.                           *)
LoadIns == {I("LW", 1, 2, 0), I("LB", 1, 2, 1), I("LWL", 1, 2, 0), I("LWR", 1, 2, 0), I("LHU", 1, 0, 2)}
UseIns == {R("ADDU", 2, 2, 3, 0), I("SW", 1, 2, 4), I("SWL", 1, 2, 5), I("BNE", 2, 0, 1),
           R("SYSCALL", 0, 0, 0, 0), R("MULT", 2, 2, 0, 0), R("JALR", 2, 0, 3, 0), R("MFLO", 0, 0, 3, 0)}

LoadSequences ==
  [regs |-> {Registers(8, 9)}, mem |-> MCMem, big |-> FALSE, pc |-> 16,
   instrs |-> [t \in MCThread |-> IF t = thread1 THEN LoadIns \cup UseIns
                 ELSE {I("LW", 1, 3, 4), R("SYSCALL", 0, 0, 0, 0), R("MULT", 2, 2, 0, 0)}],
   steps |-> [t \in MCThread |-> IF t = thread1 THEN 3 ELSE 2], first |-> {thread1, thread2}]

MCScenario == <<AllOnce, Floats, LoadSequences>>

(* Data in page 0, which the loader accepts as well: with these as Rights  *)
(* and Scenario AccessesStayInPage fails.                                  *)
MCRightsPage0 == <<"rw", "r", "r", "none">>
MCScenarioPage0 == <<[AllOnce EXCEPT !.instrs[thread1] = MemoryIns]>>
=============================================================================
