------------------------------ MODULE Execute ------------------------------
(***************************************************************************)
(* The older simulator, runprogram() of bin/execute.c, beside that of the  *)
(* Nachos machine: the two take turns to execute one instruction of the    *)
(* same program, from the same registers and memory.                       *)
(***************************************************************************)
EXTENDS Processor, TLC

CONSTANTS
  Programs,     \* the programs
  Values,       \* what their first two registers may hold at first
  Initially     \* [reg: the other general registers, hi, lo, memory]

VARIABLES
  Reg, HI, LO, pc, npc, mem,
  trap,         \* what stopped execute, or "none"
  turn,         \* the simulator to go on
  differs       \* the two do not treat the last instruction alike

executeVars == <<Reg, HI, LO, pc, npc, mem, trap>>
vars == <<program, machineVars, executeVars, turn, differs>>

Init ==
  /\ program \in Programs
  /\ \E a, b \in Values :
       Reg = [Initially.reg EXCEPT ![1] = a, ![2] = b]
  /\ HI = Initially.hi /\ LO = Initially.lo /\ mem = Initially.memory
  /\ pc = program.start /\ npc = program.start + 4
  /\ trap = "none"
  /\ registers = [r \in GPRegs \cup HiReg .. BadVAddrReg |->
                    CASE r \in GPRegs -> Reg[r]
                      [] r = HiReg -> HI
                      [] r = LoReg -> LO
                      [] r = PCReg -> pc
                      [] r = NextPCReg -> npc
                      [] OTHER -> 0]
  /\ mainMemory = mem
  /\ exception = "none"
  /\ turn = "mipssim" /\ differs = FALSE

-----------------------------------------------------------------------------
\* Register 0 is cleared when an instruction begins.
R(n) == IF n = 0 THEN 0 ELSE Reg[n]

Immed(i) ==
  IF i.extra >= HalfBase \div 2 THEN i.extra + WordBase - HalfBase ELSE i.extra

\* The next address follows the delay slot, unless a jump changes npc.
Continue(nextpc) == pc' = npc /\ npc' = nextpc /\ UNCHANGED trap
Onward == Continue(Unsigned(npc + 4))

Put(reg, value) ==
  /\ Reg' = [Reg EXCEPT ![0] = 0, ![reg] = value]
  /\ UNCHANGED <<HI, LO, mem>>

Stop(how) ==
  /\ trap' = how
  /\ UNCHANGED <<Reg, HI, LO, mem, pc, npc>>

\* The host takes the low bits of a count.
XShift(i) ==
  CASE i.op = "SLL" -> ShiftLeft(R(i.rt), i.extra)
    [] i.op = "SRL" -> ShiftRightUnsigned(R(i.rt), i.extra)
    [] i.op = "SRA" -> ShiftRight(R(i.rt), i.extra)
    [] i.op = "SLLV" -> ShiftLeft(R(i.rt), R(i.rs) % WordBits)
    [] i.op = "SRLV" -> ShiftRightUnsigned(R(i.rt), R(i.rs) % WordBits)
    [] i.op = "SRAV" -> ShiftRight(R(i.rt), R(i.rs) % WordBits)

XValue(i) ==
  CASE i.op \in {"ADD", "ADDU"} -> Unsigned(R(i.rs) + R(i.rt))
    [] i.op \in {"SUB", "SUBU"} -> Unsigned(R(i.rs) - R(i.rt))
    [] i.op = "AND" -> BitAnd(R(i.rs), R(i.rt))
    [] i.op = "OR" -> BitOr(R(i.rs), R(i.rt))
    [] i.op = "XOR" -> BitXor(R(i.rs), R(i.rt))
    [] i.op = "NOR" -> WordBase - 1 - BitOr(R(i.rs), R(i.rt))
    [] i.op = "SLT" -> IF Signed(R(i.rs)) < Signed(R(i.rt)) THEN 1 ELSE 0
    [] i.op = "SLTU" -> IF R(i.rs) < R(i.rt) THEN 1 ELSE 0
    [] OTHER -> XShift(i)

\* All immediates are extended with their sign.
XImmediate(i) ==
  CASE i.op \in {"ADDI", "ADDIU"} -> Unsigned(R(i.rs) + Immed(i))
    [] i.op = "SLTI" -> IF Signed(R(i.rs)) < Signed(Immed(i)) THEN 1 ELSE 0
    [] i.op = "SLTIU" -> IF R(i.rs) < Immed(i) THEN 1 ELSE 0
    [] i.op = "ANDI" -> BitAnd(R(i.rs), Immed(i))
    [] i.op = "ORI" -> BitOr(R(i.rs), Immed(i))
    [] i.op = "XORI" -> BitXor(R(i.rs), Immed(i))
    [] i.op = "LUI" -> ShiftLeft(i.extra, WordBits \div 2)

XCompute(i) ==
  /\ i.op \in Computing
  /\ IF i.op \in Immediates THEN Put(i.rt, XImmediate(i)) ELSE Put(i.rd, XValue(i))
  /\ Onward

-----------------------------------------------------------------------------
Halves(t1, t2) ==
  LET t1l == t1 % HalfBase   t1h == t1 \div HalfBase
      t2l == t2 % HalfBase   t2h == t2 \div HalfBase
  IN Unsigned(t1h * t2h + Unsigned(ShiftRight(Unsigned(t1h * t2l), WordBits \div 2))
                + Unsigned(ShiftRight(Unsigned(t2h * t1l), WordBits \div 2)))

\* The high word is put together from the halves, without their carries.
XProduct(i) ==
  LET signed == i.op = "MULT"
      Positive(w) == IF signed /\ Negative(w) THEN Unsigned(-w) ELSE w
      neg == signed /\ (Negative(R(i.rs)) # Negative(R(i.rt)))
      t1 == Positive(R(i.rs))
      t2 == Positive(R(i.rt))
      lo == Unsigned(t1 * t2)
      hi == Halves(t1, t2)
      carry == IF lo = 0 THEN 1 ELSE 0
  IN IF neg THEN [lo |-> Unsigned(-lo), hi |-> Unsigned(WordBase - 1 - hi + carry)]
     ELSE [lo |-> lo, hi |-> hi]

XMultiply(i) ==
  /\ i.op \in {"MULT", "MULTU"}
  /\ \E product \in {XProduct(i)} : LO' = product.lo /\ HI' = product.hi
  /\ UNCHANGED <<Reg, mem>>
  /\ Onward

XDivide(i) ==
  LET a == IF i.op = "DIV" THEN Signed(R(i.rs)) ELSE R(i.rs)
      b == IF i.op = "DIV" THEN Signed(R(i.rt)) ELSE R(i.rt)
  IN
  /\ i.op \in {"DIV", "DIVU"}
  /\ IF b = 0 \/ NoQuotient(i) THEN Stop("crash")
     ELSE /\ LO' = Unsigned(Quotient(a, b)) /\ HI' = Unsigned(Remainder(a, b))
          /\ UNCHANGED <<Reg, mem>>
          /\ Onward

XMove(i) ==
  /\ \/ i.op = "MFHI" /\ Put(i.rd, HI)
     \/ i.op = "MFLO" /\ Put(i.rd, LO)
     \/ i.op = "MTHI" /\ HI' = R(i.rs) /\ UNCHANGED <<Reg, LO, mem>>
     \/ i.op = "MTLO" /\ LO' = R(i.rs) /\ UNCHANGED <<Reg, HI, mem>>
  /\ Onward

-----------------------------------------------------------------------------
Offset(i) == Unsigned(pc + 4 + 4 * Immed(i))

XTaken(i, rs) ==
  CASE i.op = "BEQ" -> rs = Signed(R(i.rt))
    [] i.op = "BNE" -> rs # Signed(R(i.rt))
    [] i.op \in {"BLTZ", "BLTZAL"} -> rs < 0
    [] i.op \in {"BGEZ", "BGEZAL"} -> rs >= 0
    [] i.op = "BLEZ" -> rs <= 0
    [] i.op = "BGTZ" -> rs > 0

XBranch(i) ==
  LET linked == IF i.op \in {"BLTZAL", "BGEZAL"}
                THEN [Reg EXCEPT ![0] = 0, ![31] = Unsigned(pc + 8)] ELSE [Reg EXCEPT ![0] = 0]
  IN
  /\ i.op \in Branches
  /\ Reg' = linked
  /\ Continue(IF XTaken(i, Signed(linked[i.rs])) THEN Offset(i) ELSE Unsigned(npc + 4))
  /\ UNCHANGED <<HI, LO, mem>>

\* The target is taken before the link is written, and in the region of the jump.
XJump(i) ==
  /\ i.op \in Jumps
  /\ Continue(IF i.op \in JFMT THEN Region(pc) + ((4 * i.extra) % JumpSpan) ELSE R(i.rs))
  /\ CASE i.op = "JAL" -> Put(31, Unsigned(pc + 8))
       [] i.op = "JALR" -> Put(i.rd, Unsigned(pc + 8))
       [] OTHER -> UNCHANGED <<Reg, HI, LO, mem>>

-----------------------------------------------------------------------------
XAddress(i) == Unsigned(R(i.rs) + Immed(i))

\* fetch() and store() look at no alignment; past the memory they read or
\* destroy something else.
Wild(i) == XAddress(i) + Size(i) > MemorySize

XLoad(i) ==
  LET value == ReadMem(mem, XAddress(i), Size(i))
  IN
  /\ i.op \in Loads
  /\ IF Wild(i) THEN Stop("wild")
     ELSE /\ Put(i.rt, CASE i.op = "LB" -> SignExtend(value, ByteBase)
                         [] i.op = "LH" -> SignExtend(value, HalfBase)
                         [] OTHER -> value)
          /\ Onward

XStore(i) ==
  /\ i.op \in Stores
  /\ IF Wild(i) THEN Stop("wild")
     ELSE /\ mem' = WriteMem(mem, XAddress(i), Size(i), R(i.rt))
          /\ UNCHANGED <<Reg, HI, LO>>
          /\ Onward

\* LWL and LWR: i & 3 counts the bytes by which the word is shifted.
XLoadPart(i) ==
  LET n == XAddress(i) % 4
      word == ReadMem(mem, XAddress(i) - n, 4)
      back == (4 - n) % 4
  IN
  /\ i.op \in {"LWL", "LWR"}
  /\ IF XAddress(i) - n + 4 > MemorySize THEN Stop("wild")
     ELSE /\ Put(i.rt, IF i.op = "LWL" THEN BitOr(R(i.rt), ShiftLeft(word, ByteBits * n))
                       ELSE IF n = 0 THEN word
                       ELSE BitOr(BitAnd(R(i.rt), ShiftLeft(WordBase - 1, ByteBits * n)),
                                  ShiftRight(word, ByteBits * back)))
          /\ Onward

XTrap(i) ==
  \/ i.op \in {"SYSCALL", "BREAK"} /\ Stop("system_trap")
  \/ i.op \in {"RES", "SWL", "SWR"} /\ Stop("unimplemented")

\* One round of the loop of runprogram().
Round(i) ==
  \/ XCompute(i) \/ XMultiply(i) \/ XDivide(i) \/ XMove(i)
  \/ XBranch(i) \/ XJump(i)
  \/ XLoad(i) \/ XStore(i) \/ XLoadPart(i)
  \/ XTrap(i)

-----------------------------------------------------------------------------
\* Where the two differ, one condition for each reason: what mipssim does not
\* do or does in its own way, ...
InDelaySlot == registers[NextPCReg] # Unsigned(registers[PCReg] + 4)

Named(i) ==
  {i.rs, i.rt, i.rd} \cup (IF i.op \in {"BGEZAL", "BLTZAL", "JAL"} THEN {R31} ELSE {})

UsesPending(i) ==
  /\ registers[LoadReg] # 0
  /\ registers[LoadReg] \in Named(i) \ (IF i.op \in Loads /\ i.rs # i.rt THEN {i.rt} ELSE {})

SecondOfOr(i) == i.op = "OR" /\ BitOr(Rs(i), Rt(i)) # Rs(i)

KeepsSign(i) ==
  /\ i.op \in {"SRL", "SRLV"} /\ Negative(Rt(i))
  /\ (IF i.op = "SRL" THEN i.extra ELSE Rs(i) % WordBits) > 0

LinksFirst(i) == i.op = "JALR" /\ i.rd = i.rs

\* ... what execute does not do or does in its own way, ...
NegativeMask(i) == i.op \in {"ANDI", "ORI", "XORI"} /\ Negative(i.extra)

Exact(i) ==
  (IF i.op = "MULT" THEN Signed(Rs(i)) * Signed(Rt(i)) ELSE Rs(i) * Rt(i)) % WordBase ^ 2

LosesCarry(i) == i.op \in {"MULT", "MULTU"} /\ XProduct(i).hi # Exact(i) \div WordBase

DividesByZero(i) == i.op \in {"DIV", "DIVU"} /\ Rt(i) = 0

Misaligned(i) == i.op \in Loads \cup Stores /\ BadAddress(Address(i), Size(i))

\* ... and what they do at different places.
OtherRegion(i) == i.op \in JFMT /\ Region(registers[PCReg]) # Region(PcAfter)

Excused(i) ==
  \/ InDelaySlot /\ i.op \in Branches \cup Jumps
  \/ UsesPending(i) \/ SecondOfOr(i) \/ KeepsSign(i) \/ LinksFirst(i)
  \/ NegativeMask(i) \/ LosesCarry(i) \/ DividesByZero(i) \/ Misaligned(i)
  \/ OtherRegion(i) \/ Overflows(i) \/ i.op \in Parts \cup {"BREAK"}

-----------------------------------------------------------------------------
MachineStep ==
  /\ turn = "mipssim" /\ exception = "none" /\ ~differs
  /\ \/ /\ OneInstruction
        /\ differs' = \E i \in {Decode(Fetch(registers[PCReg]))} : Excused(i)
     \/ FetchFails /\ differs' = TRUE
  /\ turn' = "execute"
  /\ UNCHANGED <<program, executeVars>>

ExecuteStep ==
  /\ turn = "execute"
  /\ \E i \in {Fetch(pc)} : Round(i)
  /\ turn' = "mipssim"
  /\ UNCHANGED <<program, machineVars, differs>>

Next == MachineStep \/ ExecuteStep

Spec == Init /\ [][Next]_vars

-----------------------------------------------------------------------------
Outcomes ==
  {<<"none", "none">>, <<"SyscallException", "system_trap">>,
   <<"IllegalInstrException", "unimplemented">>, <<"crash", "crash">>}

\* mipssim's registers once the last load has arrived.
Settled == DelayedLoad(registers, 0, 0)

\* After every instruction the two simulators of the repository are in the same
\* state, but for the differences that Excused names: they compute the same
\* values, load the same ones in the end, write the same memory, go on at the
\* same addresses and stop at the same instructions.
SimulatorsAgree ==
  turn = "mipssim" /\ ~differs =>
    /\ \A r \in GPRegs \ {0} : Settled[r] = Reg[r]
    /\ registers[HiReg] = HI /\ registers[LoReg] = LO
    /\ mainMemory = mem
    /\ <<exception, trap>> \in Outcomes
    /\ exception = "none" => registers[PCReg] = pc /\ registers[NextPCReg] = npc

\* "Simulate R2000 multiplication ... the double-length result" (mipssim.cc:649):
\* Mult() leaves the exact product in HI and LO, whatever the signs.
MultipliesExactly ==
  [][turn = "mipssim" /\ registers[PCReg] % 4 = 0 =>
       \A i \in {Decode(Fetch(registers[PCReg]))} :
         i.op \in {"MULT", "MULTU"} =>
           WordBase * registers'[HiReg] + registers'[LoReg] = Exact(i)]_registers

\* "OR r%d,r%d,r%d" of {RD, RS, RT} (mipssim.h:202): the processor ors the two
\* registers that it says it does.
OrsBothRegisters ==
  [][turn = "mipssim" /\ registers[PCReg] % 4 = 0 =>
       \A i \in {Decode(Fetch(registers[PCReg]))} :
         i.op = "OR" /\ i.rd # 0 /\ registers[LoadReg] = 0 =>
           registers'[i.rd] = BitOr(Rs(i), Rt(i))]_registers

-----------------------------------------------------------------------------
\* An instance for TLC: instructions, by the fields that count for them, and
\* programs of one to four of them.
R3(op, rd, rs, rt) == [op |-> op, rs |-> rs, rt |-> rt, rd |-> rd, extra |-> 0]
I3(op, rt, rs, extra) == [op |-> op, rs |-> rs, rt |-> rt, rd |-> 0, extra |-> extra]
J1(op, extra) == [op |-> op, rs |-> 0, rt |-> 0, rd |-> 0, extra |-> extra]

ThreeRegs ==
  {R3(op, f[1], f[2], f[3]) :
     op \in {"ADD", "ADDU", "SUB", "SUBU", "AND", "OR", "XOR", "NOR", "SLT", "SLTU",
             "SLLV", "SRLV", "SRAV"},
     f \in {<<3, 1, 2>>, <<1, 1, 2>>, <<2, 2, 1>>, <<0, 1, 2>>}}
Shifts ==
  {[R3(op, rd, 0, 1) EXCEPT !.extra = n] : op \in {"SLL", "SRL", "SRA"}, rd \in {1, 3}, n \in {0, 1, 7}}
TwoRegs ==
  {R3(op, 0, 1, 2) : op \in {"MULT", "MULTU", "DIV", "DIVU"}}
    \cup {R3(op, 3, 0, 0) : op \in {"MFHI", "MFLO"}} \cup {R3(op, 0, 1, 0) : op \in {"MTHI", "MTLO"}}
WithImmediate ==
  {I3(op, rt, 1, n) : op \in Immediates, rt \in {0, 1, 3}, n \in {0, 1, 6, 8, 15}}
Memory ==
  {I3(op, rt, 1, n) : op \in Loads \cup Stores \cup Parts, rt \in {1, 2}, n \in {0, 1, 4, 15}}
Other == {R3(op, 0, 0, 0) : op \in {"BREAK", "RES", "SYSCALL"}}

Transfers ==
  {I3(op, rt, 1, n) : op \in {"BEQ", "BNE"}, rt \in {1, 2}, n \in {1, 2, 13}}
    \cup {I3(op, 0, rs, n) : op \in Branches \ {"BEQ", "BNE"}, rs \in {1, 31}, n \in {1, 2, 13}}
    \cup {J1(op, n) : op \in {"J", "JAL"}, n \in {4, 6, 15}}
    \cup {R3("JR", 0, 1, 0), R3("JR", 0, 31, 0), R3("JALR", 31, 1, 0), R3("JALR", 31, 31, 0)}

Count(n) == I3("ADDIU", 3, 3, n)
LoadWord == I3("LW", 2, 0, 0)

At16(instrs) == [start |-> 16, code |-> instrs]

MCPrograms ==
  {At16(<<x>>) : x \in ThreeRegs \cup Shifts \cup TwoRegs \cup WithImmediate \cup Memory \cup Other}
    \* a jump with its delay slot, in the middle and at the end of a region
    \cup {[start |-> s, code |-> <<x, Count(1), Count(2)>>] : x \in Transfers, s \in {16, 56}}
    \* a jump in a delay slot, a load in one, and what may follow a load
    \cup {At16(<<x, I3("BEQ", 0, 0, 2), Count(1), Count(2)>>) : x \in {J1("J", 8), R3("ADDU", 3, 1, 2)}}
    \cup {At16(<<J1("JAL", 6), LoadWord, x>>) : x \in {Count(1), R3("ADDU", 2, 1, 3)}}
    \cup {At16(<<LoadWord, x, R3("ADDU", 3, 2, 1)>>) :
            x \in {Count(1), I3("LBU", 2, 0, 5), I3("LH", 1, 0, 4), R3("ADDU", 1, 2, 2), I3("SW", 1, 0, 4),
                   R3("JR", 0, 31, 0), I3("LW", 31, 0, 4), R3("MULT", 0, 1, 1)}}
    \cup {At16(<<I3("SB", 2, 0, 2), I3("LW", 3, 0, 0), R3("MULTU", 0, 1, 2), R3("MFHI", 1, 0, 0)>>)}

MCInitially ==
  [reg |-> 0 :> 0 @@ 1 :> 0 @@ 2 :> 0 @@ 3 :> 200 @@ 31 :> 24, hi |-> 3, lo |-> 130,
   memory |-> [a \in 0 .. 7 |-> <<1, 2, 3, 0, 3, 3, 2, 1>>[a + 1]]]

MCValues == {0, 1, 6, 93, 127, 128, 200, 255}

=============================================================================
