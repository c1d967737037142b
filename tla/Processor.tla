----------------------------- MODULE Processor -----------------------------
(***************************************************************************)
(* The simulated MIPS processor of machine/mipssim.cc, one instruction at  *)
(* a time: Machine::OneInstruction(), with the delayed load and the two    *)
(* program counters, until it raises an exception.                         *)
(*                                                                         *)
(* A word has four bytes as in the code, but a byte has ByteBits bits; all *)
(* other widths follow.  An instruction is a record of the fields that     *)
(* Decode() takes from its word.  The memory holds the data; a program's   *)
(* code is apart from it, and an address outside the code is a SYSCALL.    *)
(***************************************************************************)
EXTENDS Integers, Sequences
LOCAL INSTANCE Bitwise

CONSTANTS
  ByteBits,     \* 8 in the code
  GPRegs,       \* the general registers that the programs use
  JumpSpan,     \* how many addresses the target field of a jump spans
  MemorySize    \* the bytes of data

WordBits == 4 * ByteBits
ByteBase == 2 ^ ByteBits
HalfBase == 2 ^ (2 * ByteBits)
WordBase == 2 ^ WordBits
Word == 0 .. WordBase - 1
SIGN_BIT == WordBase \div 2

R31 == 31
HiReg == 32
LoReg == 33
PCReg == 34
NextPCReg == 35
PrevPCReg == 36
LoadReg == 37
LoadValueReg == 38
BadVAddrReg == 39

VARIABLES
  program,      \* [start: its first address, code: its instructions]
  registers,    \* Machine::registers
  mainMemory,   \* the data, byte by byte
  exception     \* what stopped the processor, or "none"

machineVars == <<registers, mainMemory, exception>>

-----------------------------------------------------------------------------
\* Words as the int and the unsigned of the code.
Unsigned(n) == n % WordBase
Signed(w) == IF w >= SIGN_BIT THEN w - WordBase ELSE w
Negative(w) == w >= SIGN_BIT
SignExtend(n, base) == IF n >= base \div 2 THEN Unsigned(n - base) ELSE n

BitAnd(a, b) == a & b
BitOr(a, b) == a | b
BitXor(a, b) == a ^^ b
ShiftLeft(w, n) == Unsigned(w * 2 ^ n)
ShiftRight(w, n) == Unsigned(Signed(w) \div 2 ^ n)     \* of an int
ShiftRightUnsigned(w, n) == w \div 2 ^ n

\* The quotient and the remainder of C, for b # 0.
Magnitude(n) == IF n < 0 THEN -n ELSE n
Quotient(a, b) ==
  LET q == Magnitude(a) \div Magnitude(b) IN IF (a < 0) = (b < 0) THEN q ELSE -q
Remainder(a, b) == a - b * Quotient(a, b)

\* The code that a program does not have stops it.
Halt == [op |-> "SYSCALL", rs |-> 0, rt |-> 0, rd |-> 0, extra |-> 0]
Fetch(addr) ==
  LET n == ((addr - program.start) \div 4) + 1
  IN IF n \in DOMAIN program.code THEN program.code[n] ELSE Halt

RFMT == {"SLL", "SRL", "SRA", "SLLV", "SRLV", "SRAV", "JR", "JALR", "SYSCALL", "BREAK",
         "MFHI", "MTHI", "MFLO", "MTLO", "MULT", "MULTU", "DIV", "DIVU", "ADD", "ADDU",
         "SUB", "SUBU", "AND", "OR", "XOR", "NOR", "SLT", "SLTU"}
JFMT == {"J", "JAL"}

\* Instruction::Decode(): the 16 bits of an immediate are extended.
Decode(instr) ==
  IF instr.op \in RFMT \cup JFMT THEN instr
  ELSE [instr EXCEPT !.extra = SignExtend(@, HalfBase)]

-----------------------------------------------------------------------------
Rs(i) == registers[i.rs]
Rt(i) == registers[i.rt]

\* The address after the delay slot; where a branch goes.
PcAfter == Unsigned(registers[NextPCReg] + 4)
BranchTarget(i) == Unsigned(registers[NextPCReg] + 4 * i.extra)
Region(addr) == addr - (addr % JumpSpan)

\* Mutant: what was pending is forgotten when the next load comes.
DelayedLoad_LastOnly(regs, nextReg, nextValue) ==
  [regs EXCEPT ![regs[LoadReg]] = IF nextReg # 0 THEN @ ELSE regs[LoadValueReg],
               ![LoadReg] = nextReg, ![LoadValueReg] = nextValue, ![0] = 0]

DelayedLoad(regs, nextReg, nextValue) ==
  [regs EXCEPT ![regs[LoadReg]] = regs[LoadValueReg],
               ![LoadReg] = nextReg, ![LoadValueReg] = nextValue, ![0] = 0]

\* How an instruction that raised no exception ends.
Advance(regs, pcAfter, nextReg, nextValue) ==
  /\ registers' = [DelayedLoad(regs, nextReg, nextValue) EXCEPT
                     ![PrevPCReg] = regs[PCReg],
                     ![PCReg] = regs[NextPCReg],
                     ![NextPCReg] = pcAfter]
  /\ UNCHANGED exception

RaiseException(which, badVAddr) ==
  /\ registers' = DelayedLoad([registers EXCEPT ![BadVAddrReg] = badVAddr], 0, 0)
  /\ exception' = which
  /\ UNCHANGED mainMemory

\* The simulator itself is stopped: a failed ASSERT or a trap of the host.
Crash == exception' = "crash" /\ UNCHANGED <<registers, mainMemory>>

Set(reg, value) == Advance([registers EXCEPT ![reg] = value], PcAfter, 0, 0)

\* Machine::ReadMem() and WriteMem(), with the part of Translate() that does
\* not depend on where the page is.
BadAddress(addr, size) == addr % size # 0 \/ addr + size > MemorySize

ReadMem(memory, addr, size) ==
  LET Byte(n) == IF n < size THEN memory[addr + n] * ByteBase ^ n ELSE 0
  IN Byte(0) + Byte(1) + Byte(2) + Byte(3)

WriteMem(memory, addr, size, value) ==
  [a \in DOMAIN memory |-> IF a \in addr .. (addr + size - 1)
                           THEN (value \div ByteBase ^ (a - addr)) % ByteBase
                           ELSE memory[a]]

-----------------------------------------------------------------------------
\* The values of the instructions that compute one from two others.
Immediates == {"ADDI", "ADDIU", "ANDI", "ORI", "XORI", "SLTI", "SLTIU", "LUI"}

Sum(i) ==
  IF i.op \in {"ADDI", "ADDIU"} THEN Unsigned(Rs(i) + i.extra) ELSE Unsigned(Rs(i) + Rt(i))

Conjunction(i) ==
  IF i.op = "ANDI" THEN BitAnd(Rs(i), i.extra % HalfBase) ELSE BitAnd(Rs(i), Rt(i))

\* OP_OR takes rs twice.
Disjunction(i) ==
  CASE i.op = "NOR" -> WordBase - 1 - BitOr(Rs(i), Rt(i))
    [] i.op = "OR" -> BitOr(Rs(i), Rs(i))
    [] i.op = "ORI" -> BitOr(Rs(i), i.extra % HalfBase)

ExclusiveOr(i) ==
  IF i.op = "XORI" THEN BitXor(Rs(i), i.extra % HalfBase) ELSE BitXor(Rs(i), Rt(i))

ShiftedLeft(i) ==
  ShiftLeft(Rt(i), IF i.op = "SLL" THEN i.extra ELSE Rs(i) % WordBits)

\* tmp is an int: SRL and SRLV keep the sign, as SRA and SRAV do.
ShiftedRight(i) ==
  ShiftRight(Rt(i), IF i.op \in {"SRA", "SRL"} THEN i.extra ELSE Rs(i) % WordBits)

IsLess(i) ==
  CASE i.op = "SLT" -> Signed(Rs(i)) < Signed(Rt(i))
    [] i.op = "SLTI" -> Signed(Rs(i)) < Signed(i.extra)
    [] i.op = "SLTIU" -> Rs(i) < i.extra
    [] i.op = "SLTU" -> Rs(i) < Rt(i)

Difference(i) == Unsigned(Rs(i) - Rt(i))
Upper(i) == Unsigned(i.extra * HalfBase)

Result(i) ==
  CASE i.op \in {"ADD", "ADDI", "ADDIU", "ADDU"} -> Sum(i)
    [] i.op \in {"AND", "ANDI"} -> Conjunction(i)
    [] i.op \in {"NOR", "OR", "ORI"} -> Disjunction(i)
    [] i.op \in {"XOR", "XORI"} -> ExclusiveOr(i)
    [] i.op \in {"SLL", "SLLV"} -> ShiftedLeft(i)
    [] i.op \in {"SRA", "SRAV", "SRL", "SRLV"} -> ShiftedRight(i)
    [] i.op \in {"SLT", "SLTI", "SLTIU", "SLTU"} -> IF IsLess(i) THEN 1 ELSE 0
    [] i.op \in {"SUB", "SUBU"} -> Difference(i)
    [] i.op = "LUI" -> Upper(i)

Computing ==
  (RFMT \ {"JR", "JALR", "SYSCALL", "BREAK", "MFHI", "MTHI", "MFLO", "MTLO",
           "MULT", "MULTU", "DIV", "DIVU"}) \cup Immediates

\* The two tests of the sign bits.
Overflows(i) ==
  CASE i.op = "ADD" -> Negative(Rs(i)) = Negative(Rt(i)) /\ Negative(Rs(i)) # Negative(Sum(i))
    [] i.op = "ADDI" -> Negative(Rs(i)) = Negative(i.extra) /\ Negative(i.extra) # Negative(Sum(i))
    [] i.op = "SUB" -> Negative(Rs(i)) # Negative(Rt(i)) /\ Negative(Rs(i)) # Negative(Difference(i))
    [] OTHER -> FALSE

Compute(i) ==
  /\ i.op \in Computing /\ ~Overflows(i)
  /\ Set(IF i.op \in Immediates THEN i.rt ELSE i.rd, Result(i))
  /\ UNCHANGED mainMemory

Overflow(i) == Overflows(i) /\ RaiseException("OverflowException", 0)

-----------------------------------------------------------------------------
\* A branch that links does so before it looks at its register.
Linked(i) ==
  CASE i.op \in {"BGEZAL", "BLTZAL", "JAL"} -> [registers EXCEPT ![R31] = PcAfter]
    [] i.op = "JALR" -> [registers EXCEPT ![i.rd] = PcAfter]
    [] OTHER -> registers

Taken(i) ==
  LET rs == Signed(Linked(i)[i.rs]) IN
  CASE i.op = "BEQ" -> Rs(i) = Rt(i)
    [] i.op = "BNE" -> Rs(i) # Rt(i)
    [] i.op \in {"BGEZ", "BGEZAL"} -> rs >= 0
    [] i.op \in {"BLTZ", "BLTZAL"} -> rs < 0
    [] i.op = "BGTZ" -> rs > 0
    [] i.op = "BLEZ" -> rs <= 0

Branches == {"BEQ", "BNE", "BGEZ", "BGEZAL", "BLTZ", "BLTZAL", "BGTZ", "BLEZ"}
Jumps == {"J", "JAL", "JR", "JALR"}

Branch(i) ==
  /\ i.op \in Branches
  /\ Advance(Linked(i), IF Taken(i) THEN BranchTarget(i) ELSE PcAfter, 0, 0)
  /\ UNCHANGED mainMemory

\* JALR links before it reads its register, too.
Jump(i) ==
  /\ i.op \in Jumps
  /\ Advance(Linked(i), IF i.op \in JFMT THEN Region(PcAfter) + ((4 * i.extra) % JumpSpan)
                        ELSE Linked(i)[i.rs], 0, 0)
  /\ UNCHANGED mainMemory

-----------------------------------------------------------------------------
\* Mutant: the carry out of the low word is lost.
AddShift_NoCarry(s) ==
  [a   |-> ShiftRight(s.a, 1),
   bHi |-> Unsigned(2 * s.bHi + (IF Negative(s.bLo) THEN 1 ELSE 0)),
   bLo |-> Unsigned(2 * s.bLo),
   lo  |-> IF s.a % 2 = 1 THEN Unsigned(s.lo + s.bLo) ELSE s.lo,
   hi  |-> IF s.a % 2 = 1 THEN Unsigned(s.hi + s.bHi) ELSE s.hi]

\* A round of Mult(): b, shifted to the left, is added for a bit of a.
AddShift(s) ==
  LET lo == Unsigned(s.lo + s.bLo)
      carry == IF lo < s.bLo THEN 1 ELSE 0
      add == s.a % 2 = 1
  IN [a   |-> ShiftRight(s.a, 1),
      bHi |-> Unsigned(2 * s.bHi + (IF Negative(s.bLo) THEN 1 ELSE 0)),
      bLo |-> Unsigned(2 * s.bLo),
      lo  |-> IF add THEN lo ELSE s.lo,
      hi  |-> IF add THEN Unsigned(s.hi + carry + s.bHi) ELSE s.hi]
\* Mult(): hi and bHi are the high words.  The rounds after the last bit of a,
\* which the code leaves out, add nothing.
Mult(a, b, signedArith) ==
  LET Positive(w) == IF signedArith /\ Negative(w) THEN Unsigned(-w) ELSE w
      negative == signedArith /\ (Negative(a) # Negative(b))
      round[n \in 0 .. WordBits] ==
        IF n = 0 THEN [a |-> Positive(a), bHi |-> 0, bLo |-> Positive(b), lo |-> 0, hi |-> 0]
        ELSE AddShift(round[n - 1])
      done == round[WordBits]
      low == Unsigned(WordBase - 1 - done.lo + 1)
  IN IF a = 0 \/ b = 0 THEN [hi |-> 0, lo |-> 0]
     ELSE IF ~negative THEN [hi |-> done.hi, lo |-> done.lo]
     ELSE [hi |-> Unsigned(WordBase - 1 - done.hi + (IF low = 0 THEN 1 ELSE 0)), lo |-> low]

Multiply(i) ==
  /\ i.op \in {"MULT", "MULTU"}
  /\ \E product \in {Mult(Rs(i), Rt(i), i.op = "MULT")} :
       Advance([registers EXCEPT ![HiReg] = product.hi, ![LoReg] = product.lo], PcAfter, 0, 0)
  /\ UNCHANGED mainMemory

\* The host has no quotient for the smallest int and -1.
NoQuotient(i) == i.op = "DIV" /\ Rs(i) = SIGN_BIT /\ Rt(i) = WordBase - 1

Divide(i) ==
  LET a == IF i.op = "DIV" THEN Signed(Rs(i)) ELSE Rs(i)
      b == IF i.op = "DIV" THEN Signed(Rt(i)) ELSE Rt(i)
  IN
  /\ i.op \in {"DIV", "DIVU"}
  /\ IF NoQuotient(i) THEN Crash
     ELSE /\ Advance([registers EXCEPT
                        ![LoReg] = IF b = 0 THEN 0 ELSE Unsigned(Quotient(a, b)),
                        ![HiReg] = IF b = 0 THEN 0 ELSE Unsigned(Remainder(a, b))],
                     PcAfter, 0, 0)
          /\ UNCHANGED mainMemory

Move(i) ==
  /\ \/ i.op = "MFHI" /\ Set(i.rd, registers[HiReg])
     \/ i.op = "MFLO" /\ Set(i.rd, registers[LoReg])
     \/ i.op = "MTHI" /\ Set(HiReg, Rs(i))
     \/ i.op = "MTLO" /\ Set(LoReg, Rs(i))
  /\ UNCHANGED mainMemory

-----------------------------------------------------------------------------
Address(i) == Unsigned(Rs(i) + i.extra)

Loads == {"LB", "LBU", "LH", "LHU", "LW"}
Stores == {"SB", "SH", "SW"}
Parts == {"LWL", "LWR", "SWL", "SWR"}

Size(i) ==
  CASE i.op \in {"LB", "LBU", "SB"} -> 1
    [] i.op \in {"LH", "LHU", "SH"} -> 2
    [] OTHER -> 4

\* A load puts its value into the register after the next instruction.
Load(i) ==
  LET value == ReadMem(mainMemory, Address(i), Size(i))
  IN
  /\ i.op \in Loads /\ ~BadAddress(Address(i), Size(i))
  /\ Advance(registers, PcAfter, i.rt,
             CASE i.op = "LB" -> SignExtend(value, ByteBase)
               [] i.op = "LH" -> SignExtend(value, HalfBase)
               [] OTHER -> value)
  /\ UNCHANGED mainMemory

Store(i) ==
  /\ i.op \in Stores /\ ~BadAddress(Address(i), Size(i))
  /\ mainMemory' = WriteMem(mainMemory, Address(i), Size(i), Rt(i))
  /\ Advance(registers, PcAfter, 0, 0)

AccessFails(i) ==
  /\ i.op \in Loads \cup Stores /\ BadAddress(Address(i), Size(i))
  /\ RaiseException("AddressErrorException", Address(i))

\* The word that LWR builds on: what the register is to hold.
Pending(i) ==
  IF registers[LoadReg] = i.rt THEN registers[LoadValueReg] ELSE Rt(i)

\* LWL and LWR of a word's first byte: an ASSERT excludes the others.
LoadPart(i) ==
  LET value == ReadMem(mainMemory, Address(i), 4)
  IN
  /\ i.op \in {"LWL", "LWR"} /\ ~BadAddress(Address(i), 4)
  /\ Advance(registers, PcAfter, i.rt,
             IF i.op = "LWL" THEN value
             ELSE Pending(i) - (Pending(i) % ByteBase) + (value \div ByteBase ^ 3))
  /\ UNCHANGED mainMemory

StorePart(i) ==
  LET value == ReadMem(mainMemory, Address(i), 4)
  IN
  /\ i.op \in {"SWL", "SWR"} /\ ~BadAddress(Address(i), 4)
  /\ mainMemory' = WriteMem(mainMemory, Address(i), 4,
                     IF i.op = "SWL" THEN Rt(i)
                     ELSE (value % ByteBase ^ 3) + (Rt(i) % ByteBase) * ByteBase ^ 3)
  /\ Advance(registers, PcAfter, 0, 0)

PartFails(i) ==
  /\ i.op \in Parts /\ BadAddress(Address(i), 4)
  /\ IF Address(i) % 4 # 0 THEN Crash
     ELSE RaiseException("AddressErrorException", Address(i))

-----------------------------------------------------------------------------
Trap(i) ==
  \/ i.op = "SYSCALL" /\ RaiseException("SyscallException", 0)
  \/ i.op \in {"BREAK", "RES"} /\ RaiseException("IllegalInstrException", 0)

\* The switch of OneInstruction().
Perform(i) ==
  \/ Compute(i) \/ Overflow(i)
  \/ Branch(i) \/ Jump(i)
  \/ Multiply(i) \/ Divide(i) \/ Move(i)
  \/ Load(i) \/ Store(i) \/ AccessFails(i)
  \/ LoadPart(i) \/ StorePart(i) \/ PartFails(i)
  \/ Trap(i)

FetchFails ==
  /\ exception = "none" /\ registers[PCReg] % 4 # 0
  /\ RaiseException("AddressErrorException", registers[PCReg])

OneInstruction ==
  /\ exception = "none" /\ registers[PCReg] % 4 = 0
  /\ \E instr \in {Decode(Fetch(registers[PCReg]))} : Perform(instr)

=============================================================================
