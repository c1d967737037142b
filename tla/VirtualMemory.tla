--------------------------- MODULE VirtualMemory ---------------------------
(***************************************************************************)
(* Demand paging of one user program: the page table and the FIFO queue of *)
(* resident pages of addrspace.cc, the swap file, and the machine's        *)
(* translation (translate.cc), which sets a page's dirty bit and raises    *)
(* the page fault.  The program is any sequence of reads and writes; a     *)
(* page's contents are one value.                                          *)
(***************************************************************************)
EXTENDS Integers, FiniteSets

CONSTANTS
  CodePages, InitPages, UninitPages, StackPages,  \* the program's segments
  EveryUserFrame,   \* how many page frames a program gets
  NumSlots,         \* the pages of the swap file
  Value, Zero,      \* what a page may hold, and an empty page
  Image,            \* what the executable file holds in code and initData pages
  Writable          \* the pages that the program writes

numPages == CodePages + InitPages + UninitPages + StackPages
Page == 0 .. numPages - 1
Slot == 0 .. NumSlots - 1
Frame == 0 .. EveryUserFrame - 1

ASSUME VirtualMemoryAssumption ==
  /\ {CodePages, InitPages, UninitPages, StackPages, NumSlots} \subseteq Nat
  /\ EveryUserFrame \in Nat \ {0} /\ EveryUserFrame <= numPages
  /\ Zero \in Value
  /\ Image \in [Page -> Value]
  /\ Writable \subseteq Page

VARIABLES
  physicalPage, valid, dirty,   \* the page table ...
  inFileAddr,   \* ... a page's slot of the swap file, -1 when it has none
  vp_queue, que_pointer,                   \* the queue of resident pages
  mainMemory,
  SwapFile, SwapBitmap,
  written,   \* history: what the program last wrote to each page
  failed     \* the assertion that failed, or ""

table == <<physicalPage, valid, dirty, inFileAddr>>
queue == <<vp_queue, que_pointer>>
swap == <<SwapFile, SwapBitmap>>
vars == <<table, queue, mainMemory, swap, written, failed>>

\* Pages of code and of initialized data live in the executable file, the
\* others in the swap file.
Type(p) ==
  CASE p < CodePages -> "vmcode"
    [] CodePages <= p /\ p < CodePages + InitPages -> "vminitData"
    [] OTHER -> "vmuserStack"

InExecutable(p) == Type(p) # "vmuserStack"

Contents(p) == IF InExecutable(p) THEN Image[p] ELSE Zero

\* AddrSpace::AddrSpace(): the first pages are loaded.
Init ==
  /\ physicalPage = [p \in Page |-> IF p < EveryUserFrame THEN p ELSE -1]
  /\ valid = [p \in Page |-> p < EveryUserFrame]
  /\ dirty = [p \in Page |-> FALSE]
  /\ inFileAddr = [p \in Page |-> -1]
  /\ vp_queue = [i \in Frame |-> i]
  /\ que_pointer = 0
  /\ mainMemory = [f \in Frame |-> Contents(f)]
  /\ SwapFile = [s \in Slot |-> Zero]
  /\ SwapBitmap = {}
  /\ written = [p \in Page |-> Contents(p)]
  /\ failed = ""

-----------------------------------------------------------------------------
\* Machine::WriteMem() of a page in memory.
WriteMem(p, v) ==
  /\ failed = "" /\ valid[p]
  /\ p \in Writable
  /\ mainMemory' = [mainMemory EXCEPT ![physicalPage[p]] = v]
  /\ dirty' = [dirty EXCEPT ![p] = TRUE]
  /\ written' = [written EXCEPT ![p] = v]
  /\ UNCHANGED <<physicalPage, valid, inFileAddr, queue, swap, failed>>

\* Mutant: the type of the page is not looked at.
Fetched_AnyType(p) ==
  IF inFileAddr[p] >= 0 THEN SwapFile[inFileAddr[p]] ELSE Zero

\* What is in the page that is read into the frame of the page swapped out.
Fetched(p) ==
  IF InExecutable(p) THEN Image[p]
  ELSE IF inFileAddr[p] >= 0 THEN SwapFile[inFileAddr[p]]
  ELSE Zero

Freed(p) == IF inFileAddr[p] >= 0 /\ ~InExecutable(p) THEN {inFileAddr[p]} ELSE {}

\* The page table, the queue and the memory, once newPage has oldPage's frame.
Exchange(oldPage, newPage) ==
  /\ vp_queue' = [vp_queue EXCEPT ![que_pointer] = newPage]
  /\ que_pointer' = (que_pointer + 1) % EveryUserFrame
  /\ physicalPage' = [physicalPage EXCEPT ![newPage] = physicalPage[oldPage], ![oldPage] = -1]
  /\ valid' = [valid EXCEPT ![oldPage] = FALSE, ![newPage] = TRUE]
  /\ dirty' = [dirty EXCEPT ![oldPage] = FALSE, ![newPage] = FALSE]
  /\ mainMemory' = [mainMemory EXCEPT ![physicalPage[oldPage]] = Fetched(newPage)]

Victim == vp_queue[que_pointer]

\* AddrSpace::SwapHandler(), when the page to be replaced is clean.
SwapClean(newPage) ==
  /\ failed = "" /\ ~valid[newPage]
  /\ ~dirty[Victim]
  /\ Exchange(Victim, newPage)
  /\ inFileAddr' = [inFileAddr EXCEPT ![newPage] = -1]
  /\ SwapBitmap' = SwapBitmap \ Freed(newPage)
  /\ UNCHANGED <<SwapFile, written, failed>>

\* Mutant: the slot of the page that is read back in is not given back.
SwapDirty_KeepsSlot(newPage) ==
  /\ failed = "" /\ ~valid[newPage]
  /\ dirty[Victim] /\ ~InExecutable(Victim)
  /\ \E s \in Slot \ SwapBitmap :
       /\ \A r \in Slot \ SwapBitmap : s <= r
       /\ SwapFile' = [SwapFile EXCEPT ![s] = mainMemory[physicalPage[Victim]]]
       /\ SwapBitmap' = SwapBitmap \cup {s}
       /\ inFileAddr' = [inFileAddr EXCEPT ![Victim] = s, ![newPage] = -1]
  /\ Exchange(Victim, newPage)
  /\ UNCHANGED <<written, failed>>

\* ... when it is dirty and has its place in the swap file.
SwapDirty(newPage) ==
  /\ failed = "" /\ ~valid[newPage]
  /\ dirty[Victim] /\ ~InExecutable(Victim)
  /\ \E s \in Slot \ SwapBitmap :
       /\ \A r \in Slot \ SwapBitmap : s <= r
       /\ SwapFile' = [SwapFile EXCEPT ![s] = mainMemory[physicalPage[Victim]]]
       /\ SwapBitmap' = (SwapBitmap \cup {s}) \ Freed(newPage)
       /\ inFileAddr' = [inFileAddr EXCEPT ![Victim] = s, ![newPage] = -1]
  /\ Exchange(Victim, newPage)
  /\ UNCHANGED <<written, failed>>

\* ... and when an assertion fails, or Find() finds no slot.
SwapFails(newPage) ==
  /\ failed = "" /\ ~valid[newPage]
  /\ dirty[Victim]
  /\ InExecutable(Victim) \/ SwapBitmap = Slot
  /\ failed' = IF InExecutable(Victim) THEN Type(Victim) ELSE "swap full"
  /\ UNCHANGED <<table, queue, mainMemory, swap, written>>

Next ==
  \E p \in Page :
    \/ \E v \in Value : WriteMem(p, v)
    \/ SwapClean(p)
    \/ SwapDirty(p)
    \/ SwapFails(p)

Spec == Init /\ [][Next]_vars

-----------------------------------------------------------------------------
\* The types of the variables.
TypeOK ==
  /\ physicalPage \in [Page -> Frame \cup {-1}]
  /\ valid \in [Page -> BOOLEAN] /\ dirty \in [Page -> BOOLEAN]
  /\ inFileAddr \in [Page -> Slot \cup {-1}]
  /\ vp_queue \in [Frame -> Page] /\ que_pointer \in Frame
  /\ mainMemory \in [Frame -> Value]
  /\ SwapFile \in [Slot -> Value] /\ SwapBitmap \subseteq Slot
  /\ written \in [Page -> Value]
  /\ failed \in {"", "vmcode", "vminitData", "swap full"}

Resident ==
  /\ \A p \in Page : valid[p] <=> \E i \in Frame : vp_queue[i] = p
  /\ \A p \in Page : valid[p] <=> physicalPage[p] # -1
  /\ \A p, q \in Page : valid[p] /\ valid[q] /\ p # q => physicalPage[p] # physicalPage[q]
  /\ \A i, j \in Frame : i # j => vp_queue[i] # vp_queue[j]

\* The queue holds exactly the pages in memory, each in a frame of its own, so
\* the page that SwapHandler() replaces is always one that is there.
QueueIsResident == TypeOK /\ Resident

\* A slot of the swap file is marked for exactly one page, and that page is
\* not in memory: no two pages are swapped to the same place, none is lost.
SlotsOwned ==
  /\ SwapBitmap = {inFileAddr[p] : p \in Page} \ {-1}
  /\ \A p, q \in Page : inFileAddr[p] # -1 /\ p # q => inFileAddr[p] # inFileAddr[q]
  /\ \A p \in Page : inFileAddr[p] # -1 => ~valid[p] /\ ~InExecutable(p)

\* What the program wrote is in memory while the page is dirty, and in the
\* page's slot once it was swapped out.
KeepsWrites ==
  \A p \in Page :
    /\ valid[p] /\ dirty[p] => mainMemory[physicalPage[p]] = written[p]
    /\ inFileAddr[p] # -1 => SwapFile[inFileAddr[p]] = written[p]

\* Wherever the program's page is - a frame, the swap file or neither - there
\* is one such place, no other page has it, and what the program wrote is there:
\* SwapHandler() changes the queue, the page table and the slots together
\* (addrspace.cc:45-137), one page fault after another.
PagingInv == QueueIsResident /\ SlotsOwned /\ KeepsWrites

\* Only pages that the program modified are dirty, so a program that writes no
\* page of the executable never meets the assertions of SwapHandler(), and
\* finds those pages as they are in the file.
ExecutableIntact ==
  /\ failed \notin {"vmcode", "vminitData"}
  /\ \A p \in Page : valid[p] /\ InExecutable(p) => mainMemory[physicalPage[p]] = Image[p]

\* "the new page is a user stack page but has not been modified, so ... clear
\* it" (addrspace.cc:129): a page that comes into memory is what the program
\* last wrote to it.
ReadsLastWrite ==
  \A p \in Page : valid[p] => mainMemory[physicalPage[p]] = written[p]

-----------------------------------------------------------------------------
\* An instance for TLC: the executable holds something else than empty pages.
MCImage == [p \in Page |-> IF p = 0 THEN 1 ELSE 0]
SwapPages == {p \in Page : ~InExecutable(p)}

=============================================================================
