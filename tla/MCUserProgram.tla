--------------------------- MODULE MCUserProgram ---------------------------
(***************************************************************************)
(* What is between a user program and the machine it runs on, one subject  *)
(* at a time, chosen at the start.                                         *)
(*   "paging"   VirtualMemory: page table, page frames and swap file       *)
(*   "loader"   Coff: the two tools that make a program's file             *)
(*   "layout"   AddressLayout: the page table and its translation          *)
(*   "restart"  FaultRestart: the program counters under page faults       *)
(***************************************************************************)
EXTENDS VirtualMemory, Sequences

CONSTANTS
  NULL,
  Images, StackSize,
  PageSize, CodeSizes, InitSizes, UninitSizes, HeaderSize,
  NumWords, WordsPerPage, DataPage, NoPage

VARIABLES
  subject,
  sections, nextSection, tool, noffH, noffFile, flat, top,
  code, initData, uninitData, type, fileAddr, step, access,
  data, jump, PCReg, NextPCReg, resident, pointer, executed, stopped

C == INSTANCE Coff WITH i <- nextSection
L == INSTANCE AddressLayout WITH pc <- step, inFileAddr <- fileAddr
F == INSTANCE FaultRestart WITH vp_queue <- resident, que_pointer <- pointer, failed <- stopped

ASSUME CoffAssumption == C!ConstantsOK
ASSUME AddressLayoutAssumption == L!ConstantsOK
ASSUME FaultRestartAssumption == F!ConstantsOK

loaderVars == <<sections, nextSection, tool, noffH, noffFile, flat, top>>
layoutVars == <<code, initData, uninitData, type, fileAddr, step, access>>
restartVars == <<data, jump, PCReg, NextPCReg, resident, pointer, executed, stopped>>
everyVar == <<vars, loaderVars, layoutVars, restartVars, subject>>

\* The variables of a subject that was not chosen; the memory is always there,
\* but nobody uses it in the other subjects.
NoLoader ==
  /\ sections = NULL /\ nextSection = NULL /\ tool = NULL /\ noffH = NULL /\ noffFile = NULL
  /\ flat = NULL /\ top = NULL

NoLayout ==
  /\ code = NULL /\ initData = NULL /\ uninitData = NULL /\ type = NULL
  /\ fileAddr = NULL /\ step = NULL /\ access = NULL

NoRestart ==
  /\ data = NULL /\ jump = NULL /\ PCReg = NULL /\ NextPCReg = NULL
  /\ resident = NULL /\ pointer = NULL /\ executed = NULL /\ stopped = NULL

UserProgramInit ==
  /\ Init
  /\ \/ subject = "paging" /\ NoLoader /\ NoLayout /\ NoRestart
     \/ subject = "loader" /\ C!Init /\ NoLayout /\ NoRestart
     \/ subject = "layout" /\ L!Init /\ NoLoader /\ NoRestart
     \/ subject = "restart" /\ F!Init /\ NoLoader /\ NoLayout

UserProgramNext ==
  \/ subject = "paging" /\ Next /\ UNCHANGED <<subject, loaderVars, layoutVars, restartVars>>
  \/ subject = "loader" /\ C!Next /\ UNCHANGED <<subject, vars, layoutVars, restartVars>>
  \/ subject = "layout" /\ L!Next /\ UNCHANGED <<subject, vars, loaderVars, restartVars>>
  \/ subject = "restart" /\ F!Next /\ UNCHANGED <<subject, vars, loaderVars, layoutVars>>

UserProgramSpec == UserProgramInit /\ [][UserProgramNext]_everyVar

-----------------------------------------------------------------------------
\* What the tools make is the program, ...
LoadersAgree == subject = "loader" => C!LoadersAgree /\ C!UninitInPlace

\* ... its addresses are bytes of their own, which a fault brings in from the
\* right place, ...
FaultReadsRightPage == subject = "layout" => L!NoAliasing /\ L!FaultReadsRightPage

\* ... and a fault skips no instruction.
RestartInv == subject = "restart" => F!RestartInv

-----------------------------------------------------------------------------
\* What the linker makes of the script in test/: five sections in this order, of
\* up to two bytes, without a gap or with one before the data; and others.
Linked2(sizes, gap) ==
  LET name == <<".text", ".rdata", ".data", ".sbss", ".bss">>
      before[n \in 1 .. 5] ==
        IF n = 1 THEN 0 ELSE before[n - 1] + sizes[n - 1] + (IF n = 3 THEN gap ELSE 0)
  IN [n \in 1 .. 5 |-> [s_name |-> name[n], s_paddr |-> before[n], s_size |-> sizes[n]]]

MCImages ==
  {Linked2(sizes, gap) : sizes \in {s \in [1 .. 5 -> 0 .. 2] : s[1] > 0}, gap \in {0, 1}}
    \cup {<<[s_name |-> ".bss", s_paddr |-> 4, s_size |-> 1], [s_name |-> ".text", s_paddr |-> 0, s_size |-> 2],
            [s_name |-> ".sbss", s_paddr |-> 6, s_size |-> 2]>>,
          <<[s_name |-> ".text", s_paddr |-> 0, s_size |-> 2], [s_name |-> ".comment", s_paddr |-> 2, s_size |-> 1]>>}

MCCodeSizes == 1 .. 9
MCDataSizes == 0 .. 9

=============================================================================
