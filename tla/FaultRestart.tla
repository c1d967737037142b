---------------------------- MODULE FaultRestart ----------------------------
(***************************************************************************)
(* The simulated processor with demand paging under it: the two program    *)
(* counters of Machine::OneInstruction() (mipssim.cc), which give a jump   *)
(* its delay slot, and the page fault that ExceptionHandler()              *)
(* (exception.cc) answers by setting them one instruction back.            *)
(* Addresses count instructions; a program has one forward jump or none,   *)
(* and each of its instructions reads a page of data or none.              *)
(***************************************************************************)
EXTENDS Integers

CONSTANTS
  NumWords,        \* the program's instructions; it halts after the last
  WordsPerPage,
  DataPage,        \* the pages of data
  NoPage,          \* ... of an instruction that reads none
  EveryUserFrame   \* how many page frames a program gets

Word == 0 .. NumWords - 1
Frame == 0 .. EveryUserFrame - 1
CodePage == 0 .. (NumWords - 1) \div WordsPerPage

NoJump == [from |-> -2, to |-> -2]
Jump == {NoJump} \cup
        {j \in [from : Word, to : Word] : j.from + 1 < j.to}

\* What the constants have to be.
ConstantsOK ==
  /\ {NumWords, WordsPerPage, EveryUserFrame} \subseteq Nat \ {0}
  /\ DataPage \cap CodePage = {} /\ NoPage \notin DataPage
  /\ Frame \subseteq CodePage

VARIABLES
  data, jump,              \* the program: the data page of each instruction
  PCReg, NextPCReg,
  vp_queue, que_pointer,   \* the resident pages and the next to be replaced
  executed,                \* history: how often each ran: 0, 1 or (more) 2
  failed                   \* an address outside the program: ASSERT(FALSE)

program == <<data, jump>>
vars == <<program, PCReg, NextPCReg, vp_queue, que_pointer, executed, failed>>

Init ==
  /\ data \in [Word -> DataPage \cup {NoPage}]
  /\ jump \in Jump
  /\ PCReg = 0 /\ NextPCReg = 1
  /\ vp_queue = [i \in Frame |-> i] /\ que_pointer = 0
  /\ executed = [i \in Word |-> 0]
  /\ failed = FALSE

-----------------------------------------------------------------------------
Resident(p) == \E i \in Frame : vp_queue[i] = p

Running == PCReg \in Word /\ ~failed

\* The page that stops the instruction at PCReg: its own, then its data's.
Faults(p) ==
  \/ p = PCReg \div WordsPerPage /\ ~Resident(p)
  \/ p = data[PCReg] /\ p # NoPage /\ ~Resident(p) /\ Resident(PCReg \div WordsPerPage)

\* Mutant: the counters move on, as after a system call.
PageFault_Advances ==
  /\ Running
  /\ \E p \in CodePage \cup DataPage :
       /\ Faults(p)
       /\ vp_queue' = [vp_queue EXCEPT ![que_pointer] = p]
  /\ que_pointer' = (que_pointer + 1) % EveryUserFrame
  /\ PCReg' = NextPCReg
  /\ NextPCReg' = NextPCReg + 1
  /\ UNCHANGED <<program, executed, failed>>

\* A page fault: SwapHandler() brings the page in, and the counters are set
\* to the instruction before this one.
PageFault ==
  /\ Running
  /\ \E p \in CodePage \cup DataPage :
       /\ Faults(p)
       /\ vp_queue' = [vp_queue EXCEPT ![que_pointer] = p]
  /\ que_pointer' = (que_pointer + 1) % EveryUserFrame
  /\ NextPCReg' = PCReg
  /\ PCReg' = PCReg - 1
  /\ UNCHANGED <<program, executed, failed>>

\* An instruction that meets no fault: a jump changes the counter after next.
OneInstruction ==
  /\ Running
  /\ ~ \E p \in CodePage \cup DataPage : Faults(p)
  /\ executed' = [executed EXCEPT ![PCReg] = IF @ = 0 THEN 1 ELSE 2]
  /\ PCReg' = NextPCReg
  /\ NextPCReg' = IF PCReg = jump.from THEN jump.to ELSE NextPCReg + 1
  /\ UNCHANGED <<program, vp_queue, que_pointer, failed>>

\* The address before the program's first: an address error, not a page fault.
AddressError ==
  /\ PCReg < 0 /\ ~failed
  /\ failed' = TRUE
  /\ UNCHANGED <<program, PCReg, NextPCReg, vp_queue, que_pointer, executed>>

Next == PageFault \/ OneInstruction \/ AddressError

Spec == Init /\ [][Next]_vars

-----------------------------------------------------------------------------
\* The instructions that the program is to execute, in this order.
OnPath(i) == ~(jump.from + 1 < i /\ i < jump.to)

\* The types of the variables.
TypeOK ==
  /\ data \in [Word -> DataPage \cup {NoPage}] /\ jump \in Jump
  /\ PCReg \in -1 .. NumWords /\ NextPCReg \in 0 .. NumWords + 1
  /\ vp_queue \in [Frame -> CodePage \cup DataPage] /\ que_pointer \in Frame
  /\ executed \in [Word -> 0 .. 2] /\ failed \in BOOLEAN

\* However often a fault sets the counters back, no instruction of the
\* program's path is left out: not the jump whose delay slot faulted, not the
\* one that faulted.
NothingSkipped == \A i \in Word : i < PCReg /\ OnPath(i) => executed[i] > 0

\* The next instruction is the following one, but in the delay slot of the jump.
OneDelaySlot ==
  NextPCReg = PCReg + 1 \/ (PCReg = jump.from + 1 /\ NextPCReg = jump.to)

\* What a page fault does to the two counters: nothing is skipped, and a jump
\* whose delay slot faults is taken all the same.
RestartInv == TypeOK /\ NothingSkipped /\ OneDelaySlot

\* "This allows us to re-start the instruction execution from the beginning"
\* (mipssim.cc:77): after a page fault the same instruction is executed, so
\* that each of the path is executed once, and no other.
ExecutedOnce ==
  \A i \in Word : executed[i] <= 1 /\ (executed[i] > 0 => OnPath(i))

=============================================================================
