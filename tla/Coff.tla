-------------------------------- MODULE Coff --------------------------------
(***************************************************************************)
(* The two tools that prepare a linked program for a simulator:            *)
(* bin/coff2noff.c, whose file has a header with three segments and is     *)
(* read page by page, and bin/coff2flat.c, whose file is the memory.       *)
(* The tools handle one section at a time.  A byte is known by its section *)
(* and its place there.                                                    *)
(***************************************************************************)
EXTENDS Integers, Sequences

CONSTANTS
  Images,      \* sequences of sections [s_name, s_paddr, s_size]
  HeaderSize,  \* of a NOFF file
  StackSize,   \* of a flat file
  NULL

Stored(s) == s.s_name \notin {".bss", ".sbss"}
End(s) == s.s_paddr + s.s_size

\* What the linker makes of the script in test/: one section of code, and all
\* the bytes that are stored before those that are not, each at its own address.
LinkerOutput(file) ==
  /\ \A n \in DOMAIN file : {file[n].s_paddr, file[n].s_size} \subseteq Nat
  /\ \A m, n \in {k \in DOMAIN file : file[k].s_size > 0} :
       m # n => /\ End(file[m]) <= file[n].s_paddr \/ End(file[n]) <= file[m].s_paddr
                /\ {file[m].s_name, file[n].s_name} # {".text"}
                /\ Stored(file[m]) /\ ~Stored(file[n]) => End(file[m]) <= file[n].s_paddr

\* What the constants have to be.
ConstantsOK ==
  /\ {HeaderSize, StackSize} \subseteq Nat
  /\ Images \subseteq Seq([s_name : STRING, s_paddr : Nat, s_size : Nat])
  /\ \A file \in Images : LinkerOutput(file)

VARIABLES
  sections,    \* the COFF file
  i,           \* the next section of the tool at work
  tool,        \* "noff" or "flat"; "done", or "refused" by an exit(1)
  noffH,       \* the header: for each segment [virtualAddr, inFileAddr, size]
  noffFile,    \* the bytes behind the header
  flat,        \* the bytes written to the flat file, one behind the other
  top          \* its size at least, then with the stack

vars == <<sections, i, tool, noffH, noffFile, flat, top>>

NoSegment == [virtualAddr |-> NULL, inFileAddr |-> NULL, size |-> 0]

Init ==
  /\ sections \in Images
  /\ i = 1 /\ tool = "noff"
  /\ noffH = [s \in {"code", "initData", "uninitData"} |-> NoSegment]
  /\ noffFile = <<>>
  /\ flat = <<>> /\ top = 0

-----------------------------------------------------------------------------
Section == sections[i]
Bytes(n) == [k \in 1 .. sections[n].s_size |-> <<n, k>>]

\* The place of the bytes to come: inNoffFile.
InNoffFile == HeaderSize + Len(noffFile)

\* Mutant: the place does not move on past the header and the code.
SegmentHere_Stays ==
  [virtualAddr |-> Section.s_paddr, inFileAddr |-> HeaderSize, size |-> Section.s_size]

SegmentHere ==
  [virtualAddr |-> Section.s_paddr, inFileAddr |-> InNoffFile, size |-> Section.s_size]

CopySegment(s) ==
  /\ noffH' = [noffH EXCEPT ![s] = SegmentHere]
  /\ noffFile' = noffFile \o Bytes(i)
  /\ i' = i + 1
  /\ UNCHANGED tool

Refuse == tool' = "refused" /\ UNCHANGED <<i, noffH, noffFile>>

\* A second .bss or .sbss is added when it is NOT behind the first.
GrowUninit ==
  LET u == noffH.uninitData
  IN IF u.size # 0 /\ Section.s_paddr = u.virtualAddr + u.size THEN Refuse
     ELSE /\ noffH' = [noffH EXCEPT !.uninitData =
                         IF u.size # 0 THEN [u EXCEPT !.size = u.size + Section.s_size]
                         ELSE [u EXCEPT !.virtualAddr = Section.s_paddr, !.size = Section.s_size]]
          /\ i' = i + 1
          /\ UNCHANGED <<tool, noffFile>>

NoffSection ==
  /\ tool = "noff" /\ i <= Len(sections)
  /\ \/ Section.s_size = 0 /\ i' = i + 1 /\ UNCHANGED <<tool, noffH, noffFile>>
     \/ Section.s_size > 0 /\ Section.s_name = ".text" /\ CopySegment("code")
     \/ /\ Section.s_size > 0 /\ Section.s_name \in {".data", ".rdata"}
        /\ IF noffH.initData.size # 0 THEN Refuse ELSE CopySegment("initData")
     \/ Section.s_size > 0 /\ Section.s_name \in {".bss", ".sbss"} /\ GrowUninit
     \/ /\ Section.s_size > 0
        /\ Section.s_name \notin {".text", ".data", ".rdata", ".bss", ".sbss"}
        /\ Refuse
  /\ UNCHANGED <<sections, flat, top>>

NoffDone ==
  /\ tool = "noff" /\ i > Len(sections)
  /\ tool' = "flat" /\ i' = 1
  /\ UNCHANGED <<sections, noffH, noffFile, flat, top>>

\* coff2flat: the bytes are written where the last ones end.
FlatSection ==
  /\ tool = "flat" /\ i <= Len(sections)
  /\ top' = IF Section.s_paddr + Section.s_size > top THEN Section.s_paddr + Section.s_size ELSE top
  /\ flat' = IF Section.s_name \in {".bss", ".sbss"} THEN flat ELSE flat \o Bytes(i)
  /\ i' = i + 1
  /\ UNCHANGED <<sections, tool, noffH, noffFile>>

FlatDone ==
  /\ tool = "flat" /\ i > Len(sections)
  /\ top' = top + StackSize
  /\ tool' = "done"
  /\ UNCHANGED <<sections, i, noffH, noffFile, flat>>

Next == NoffSection \/ NoffDone \/ FlatSection \/ FlatDone

-----------------------------------------------------------------------------
StoredAt(n) == Stored(sections[n])
Filled(n) == sections[n].s_size > 0

\* Every stored section begins where the one before it ends, the first at 0.
Packed ==
  \A n \in {k \in DOMAIN sections : StoredAt(k)} :
    \/ n = 1 /\ sections[n].s_paddr = 0
    \/ /\ n > 1 /\ StoredAt(n - 1)
       /\ sections[n].s_paddr = sections[n - 1].s_paddr + sections[n - 1].s_size

\* The byte that the NOFF file puts at an address, and the one of the flat file.
NoffByte(addr) ==
  LET found == {s \in {"code", "initData"} :
                  /\ noffH[s].size > 0
                  /\ addr \in noffH[s].virtualAddr .. (noffH[s].virtualAddr + noffH[s].size - 1)}
      s == CHOOSE x \in found : TRUE
  IN IF found = {} THEN NULL
     ELSE noffFile[noffH[s].inFileAddr + (addr - noffH[s].virtualAddr) - HeaderSize + 1]

FlatByte(addr) == IF addr < Len(flat) THEN flat[addr + 1] ELSE NULL

\* A program that coff2noff accepts is in both files, and it is the same program:
\* at the address of every byte of a section that the linker stored, both have
\* this byte, provided (for the flat file, which is written without a seek) that
\* the linker left no gap.
LoadersAgree ==
  tool = "done" =>
    \A n \in DOMAIN sections : StoredAt(n) =>
      \A k \in 1 .. sections[n].s_size :
        LET addr == sections[n].s_paddr + k - 1 IN
        /\ NoffByte(addr) = <<n, k>>
        /\ Packed => FlatByte(addr) = <<n, k>>
        /\ addr < top - StackSize

\* A single section of uninitialized data has the bytes that its segment says,
\* and nothing that is stored lies among them.
UninitInPlace ==
  tool = "done" =>
    LET u == noffH.uninitData
        parts == {n \in DOMAIN sections : ~StoredAt(n) /\ Filled(n)}
    IN /\ u.size = 0 <=> parts = {}
       /\ \A n \in parts : parts = {n} => u.virtualAddr = sections[n].s_paddr /\ u.size = sections[n].s_size
       /\ \A n \in DOMAIN sections : StoredAt(n) /\ Filled(n) /\ parts # {} =>
            sections[n].s_paddr + sections[n].s_size <= u.virtualAddr

=============================================================================
