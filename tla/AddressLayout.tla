--------------------------- MODULE AddressLayout ---------------------------
(***************************************************************************)
(* Where a user program's addresses go: the page table that                *)
(* AddrSpace::AddrSpace() lays out for the segments of a NOFF file, and    *)
(* AddrSpace::Translate(), which the machine asks for the page of every    *)
(* address.  The linker (test/script) puts the segments one behind the     *)
(* other; the page table starts each of them on a page.                    *)
(***************************************************************************)
EXTENDS Integers

CONSTANTS
  PageSize, StackPages,
  CodeSizes, InitSizes, UninitSizes,  \* the sizes a segment may have, in bytes
  HeaderSize                          \* where the segments start in the file

UserStackSize == StackPages * PageSize

\* What the constants have to be.
ConstantsOK ==
  /\ {PageSize, StackPages} \subseteq Nat \ {0} /\ HeaderSize \in Nat
  /\ CodeSizes \subseteq Nat \ {0}
  /\ InitSizes \subseteq Nat /\ UninitSizes \subseteq Nat

VARIABLES
  code, initData, uninitData,  \* noffH: the sizes of the segments
  type, inFileAddr,            \* the page table; a type not yet set is "unset"
  pc,                          \* the loop of the constructor to come, or "run"
  access                       \* the last address translated, its page and offset

noffH == <<code, initData, uninitData>>
vars == <<noffH, type, inFileAddr, pc, access>>

divRoundUp(n, s) == n \div s + (IF n % s > 0 THEN 1 ELSE 0)

numPages ==
  divRoundUp(divRoundUp(code, PageSize) * PageSize
               + divRoundUp(initData, PageSize) * PageSize
               + uninitData + UserStackSize, PageSize)
Page == 0 .. numPages - 1

\* The addresses at which the linker puts the data, and their place in the file.
initVirtualAddr == code
uninitVirtualAddr == code + initData
initInFileAddr == HeaderSize + code

NoAccess == [addr |-> -1, vpn |-> -1, offset |-> -1]

Init ==
  /\ code \in CodeSizes /\ initData \in InitSizes /\ uninitData \in UninitSizes
  /\ type = [p \in Page |-> IF p >= numPages - StackPages THEN "vmuserStack" ELSE "unset"]
  /\ inFileAddr = [p \in Page |-> -1]
  /\ pc = "code"
  /\ access = NoAccess

-----------------------------------------------------------------------------
\* The loops of the constructor: the pages of a segment get their type.
TypePages(firstP, numP, t) ==
  type' = [p \in Page |-> IF firstP <= p /\ p < firstP + numP THEN t ELSE type[p]]

PagesFrom(firstP, numP, address) ==
  inFileAddr' = [p \in Page |-> IF firstP <= p /\ p < firstP + numP
                                THEN address + (p - firstP) * PageSize
                                ELSE inFileAddr[p]]

LayCode ==
  /\ pc = "code" /\ pc' = "initData"
  /\ TypePages(0, divRoundUp(code, PageSize), "vmcode")
  /\ PagesFrom(0, divRoundUp(code, PageSize), HeaderSize)
  /\ UNCHANGED <<noffH, access>>

\* Mutant: the pages follow the last whole page of code.
LayInitData_RoundsDown ==
  /\ pc = "initData" /\ pc' = "uninitData"
  /\ IF initData > 0
     THEN /\ TypePages(initVirtualAddr \div PageSize, divRoundUp(initData, PageSize), "vminitData")
          /\ PagesFrom(initVirtualAddr \div PageSize, divRoundUp(initData, PageSize), initInFileAddr)
     ELSE UNCHANGED <<type, inFileAddr>>
  /\ UNCHANGED <<noffH, access>>

LayInitData ==
  LET firstP == divRoundUp(initVirtualAddr, PageSize)
      numP == divRoundUp(initData, PageSize)
  IN
  /\ pc = "initData" /\ pc' = "uninitData"
  /\ IF initData > 0
     THEN TypePages(firstP, numP, "vminitData") /\ PagesFrom(firstP, numP, initInFileAddr)
     ELSE UNCHANGED <<type, inFileAddr>>
  /\ UNCHANGED <<noffH, access>>

LayUninitData ==
  /\ pc = "uninitData" /\ pc' = "run"
  /\ IF uninitData > 0
     THEN TypePages(divRoundUp(uninitVirtualAddr, PageSize),
                    divRoundUp(uninitData, PageSize), "vmuninitData")
     ELSE UNCHANGED type
  /\ UNCHANGED <<noffH, inFileAddr, access>>

-----------------------------------------------------------------------------
\* What AddrSpace::Translate() takes an address from and adds its pages to:
\* the first address and the first page of the address's segment.
Segment(addr) ==
  CASE addr >= numPages * PageSize - UserStackSize ->
         [addr |-> (numPages - StackPages) * PageSize, page |-> numPages - StackPages]
    [] /\ addr < numPages * PageSize - UserStackSize
       /\ uninitData > 0 /\ addr >= uninitVirtualAddr ->
         [addr |-> uninitVirtualAddr,
          page |-> divRoundUp(code, PageSize) + divRoundUp(initData, PageSize)]
    [] /\ addr < numPages * PageSize - UserStackSize
       /\ uninitData = 0 \/ addr < uninitVirtualAddr
       /\ initData > 0 /\ addr >= initVirtualAddr ->
         [addr |-> initVirtualAddr, page |-> divRoundUp(code, PageSize)]
    [] OTHER -> [addr |-> 0, page |-> 0]

Translated(addr) ==
  [addr |-> addr,
   vpn |-> Segment(addr).page + (addr - Segment(addr).addr) \div PageSize,
   offset |-> (addr - Segment(addr).addr) % PageSize]

\* The addresses that the program uses, by the segment they belong to.
CodeAddresses == 0 .. code - 1
InitAddresses == initVirtualAddr .. initVirtualAddr + initData - 1
UninitAddresses == uninitVirtualAddr .. uninitVirtualAddr + uninitData - 1
StackAddresses == numPages * PageSize - UserStackSize .. numPages * PageSize - 1

Addresses == CodeAddresses \cup InitAddresses \cup UninitAddresses \cup StackAddresses

\* Machine::Translate(), as far as the page table.
Translate(addr) ==
  /\ pc = "run"
  /\ access' = Translated(addr)
  /\ UNCHANGED <<noffH, type, inFileAddr, pc>>

Next ==
  \/ LayCode
  \/ LayInitData
  \/ LayUninitData
  \/ \E addr \in Addresses : Translate(addr)

Spec == Init /\ [][Next]_vars

-----------------------------------------------------------------------------
SegmentOf(addr) ==
  CASE addr \in CodeAddresses -> "vmcode"
    [] addr \in InitAddresses -> "vminitData"
    [] addr \in UninitAddresses -> "vmuninitData"
    [] OTHER -> "vmuserStack"

\* The types of the variables; a page of the table and an offset inside it for
\* every address of the program, never "too large for page table size"
\* (translate.cc).
TypeOK ==
  /\ code \in CodeSizes /\ initData \in InitSizes /\ uninitData \in UninitSizes
  /\ type \in [Page -> {"vmcode", "vminitData", "vmuninitData", "vmuserStack", "unset"}]
  /\ inFileAddr \in [Page -> Int]
  /\ pc \in {"code", "initData", "uninitData", "run"}
  /\ access # NoAccess => access.vpn \in Page /\ access.offset \in 0 .. PageSize - 1

\* No two addresses of the program are the same byte of the same page,
\* whatever the segments they are in.
NoAliasing ==
  TypeOK /\ \A addr \in Addresses :
    addr # access.addr =>
      <<Translated(addr).vpn, Translated(addr).offset>> # <<access.vpn, access.offset>>

\* An address of code or of initialized data is found in the file where the
\* linker put it, when its page is read from there.
FoundInFile ==
  access.addr \in CodeAddresses \cup InitAddresses =>
    inFileAddr[access.vpn] + access.offset = HeaderSize + access.addr

\* "This yields the correct virtual page number" (translate.cc:220): the page
\* that Translate() finds has the type of the segment that the address is in,
\* so that a page fault reads it from the right place.
PageOfSegment ==
  access.addr \in Addresses => type[access.vpn] = SegmentOf(access.addr)

\* ... which it has for code and stack, and for data when the program does not
\* have both kinds of it (none in test/ has) or they fill their pages.
PageOfSegmentOneData ==
  \/ PageOfSegment
  \/ /\ access.addr \in InitAddresses \cup UninitAddresses
     /\ initData > 0 /\ uninitData > 0
     /\ divRoundUp(code + initData, PageSize)
          < divRoundUp(code, PageSize) + divRoundUp(initData, PageSize)

\* Together: a page fault brings in the bytes that the linker put there.
FaultReadsRightPage == FoundInFile /\ PageOfSegmentOneData

=============================================================================
