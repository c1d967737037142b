------------------------ MODULE VirtualMemoryProofs ------------------------
(***************************************************************************)
(* Theorems of what is between a user program and its machine, for any      *)
(* program, any number of frames and any size of the swap file: demand     *)
(* paging (VirtualMemory), the restart of an instruction after a fault     *)
(* (FaultRestart), the pages of a program's addresses (AddressLayout) and  *)
(* the two files that are made of a program (Coff).                        *)
(***************************************************************************)
EXTENDS MCUserProgram, SequenceTheorems, TLAPS

\* The queue's pointer wraps around.
LEMMA PointerWraps ==
  ASSUME que_pointer \in Frame
  PROVE  (que_pointer + 1) % EveryUserFrame \in Frame
BY VirtualMemoryAssumption DEF Frame

\* A frame is the number of a page, and no frame or slot is -1.
LEMMA FrameIsPage == /\ Frame \subseteq Page /\ -1 \notin Frame /\ -1 \notin Slot
                     /\ 0 \in Frame
<1>1. numPages \in Nat
  BY VirtualMemoryAssumption DEF numPages
<1>2. QED
  BY <1>1, VirtualMemoryAssumption DEF Frame, Page, Slot

\* What the executable and the swap file hold are values.
LEMMA ContentsType == \A p \in Page : Contents(p) \in Value
BY VirtualMemoryAssumption DEF Contents

LEMMA FetchedType == TypeOK => \A p \in Page : Fetched(p) \in Value
<1> SUFFICES ASSUME TypeOK, NEW p \in Page PROVE Fetched(p) \in Value
  OBVIOUS
<1>1. inFileAddr[p] >= 0 => inFileAddr[p] \in Slot
  <2>1. inFileAddr[p] \in Slot \cup {-1}
    BY DEF TypeOK
  <2>2. QED
    BY <2>1
<1>2. SwapFile \in [Slot -> Value] /\ Image \in [Page -> Value] /\ Zero \in Value
  BY VirtualMemoryAssumption DEF TypeOK
<1>3. QED
  BY <1>1, <1>2 DEF Fetched

\* A page that is in memory has a frame.
LEMMA FrameOfValid ==
  ASSUME TypeOK, Resident, NEW p \in Page, valid[p]
  PROVE  physicalPage[p] \in Frame
<1>1. physicalPage[p] # -1
  BY DEF Resident
<1>2. physicalPage[p] \in Frame \cup {-1}
  BY DEF TypeOK
<1>3. QED
  BY <1>1, <1>2

-----------------------------------------------------------------------------
\* The page to be replaced is in memory, and is not the page to come.
LEMMA VictimResident ==
  ASSUME QueueIsResident, NEW new \in Page, ~valid[new]
  PROVE  /\ Victim \in Page /\ Victim # new
         /\ valid[Victim] /\ physicalPage[Victim] \in Frame
         /\ physicalPage[new] = -1
BY FrameIsPage DEF QueueIsResident, TypeOK, Resident, Victim

\* The types of what an exchange changes.
LEMMA ExchangeType ==
  ASSUME QueueIsResident, NEW new \in Page, ~valid[new], Exchange(Victim, new)
  PROVE  /\ physicalPage' \in [Page -> Frame \cup {-1}]
         /\ valid' \in [Page -> BOOLEAN] /\ dirty' \in [Page -> BOOLEAN]
         /\ vp_queue' \in [Frame -> Page] /\ que_pointer' \in Frame
         /\ mainMemory' \in [Frame -> Value]
BY PointerWraps, FetchedType, VictimResident DEF QueueIsResident, TypeOK, Exchange

\* An exchange replaces one page of the queue by another.
LEMMA ExchangeResident ==
  ASSUME QueueIsResident, NEW new \in Page, ~valid[new], Exchange(Victim, new)
  PROVE  Resident'
<1> DEFINE old == Victim
<1>1. /\ old \in Page /\ old # new /\ valid[old]
      /\ physicalPage[old] \in Frame /\ physicalPage[new] = -1
  BY VictimResident
<1>2. \A p \in Page : valid'[p] <=> IF p = new THEN TRUE ELSE IF p = old THEN FALSE ELSE valid[p]
  BY <1>1 DEF Exchange, QueueIsResident, TypeOK
<1>3. \A p \in Page : physicalPage'[p] =
         IF p = old THEN -1 ELSE IF p = new THEN physicalPage[old] ELSE physicalPage[p]
  BY <1>1 DEF Exchange, QueueIsResident, TypeOK
<1>4. \A i \in Frame : vp_queue'[i] = IF i = que_pointer THEN new ELSE vp_queue[i]
  BY DEF Exchange, QueueIsResident, TypeOK
<1>5. que_pointer \in Frame /\ old = vp_queue[que_pointer]
  BY DEF QueueIsResident, TypeOK, Victim
<1>6. Resident
  BY DEF QueueIsResident
<1> HIDE DEF old
<1>7. \A p \in Page : valid'[p] <=> \E i \in Frame : vp_queue'[i] = p
  BY <1>1, <1>2, <1>4, <1>5, <1>6 DEF Resident
<1>8. \A p \in Page : valid'[p] <=> physicalPage'[p] # -1
  BY <1>1, <1>2, <1>3, <1>6, FrameIsPage DEF Resident
<1>9. \A p, q \in Page : valid'[p] /\ valid'[q] /\ p # q => physicalPage'[p] # physicalPage'[q]
  BY <1>1, <1>2, <1>3, <1>6 DEF Resident
<1>10. \A i, j \in Frame : i # j => vp_queue'[i] # vp_queue'[j]
  BY <1>1, <1>4, <1>5, <1>6 DEF Resident
<1>11. QED
  BY <1>7, <1>8, <1>9, <1>10 DEF Resident
-----------------------------------------------------------------------------
\* The slot that SwapHandler() gives back is the one of the page to come.
LEMMA FreedSlot ==
  ASSUME TypeOK, SlotsOwned, NEW new \in Page
  PROVE  Freed(new) = {inFileAddr[new]} \ {-1}
<1>1. inFileAddr[new] \in Slot \cup {-1}
  BY DEF TypeOK
<1>2. inFileAddr[new] >= 0 <=> inFileAddr[new] # -1
  BY <1>1 DEF Slot
<1>3. inFileAddr[new] # -1 => ~InExecutable(new)
  BY DEF SlotsOwned
<1>4. QED
  BY <1>2, <1>3 DEF Freed

\* The page to be replaced has no slot yet.
LEMMA VictimHasNoSlot ==
  ASSUME QueueIsResident, SlotsOwned, NEW new \in Page, ~valid[new]
  PROVE  inFileAddr[Victim] = -1
BY VictimResident DEF SlotsOwned

\* Replacing a clean page keeps the slots in order ...
LEMMA SwapCleanSlots ==
  ASSUME QueueIsResident, SlotsOwned, NEW new \in Page, SwapClean(new)
  PROVE  SlotsOwned'
<1>1. ~valid[new] /\ Exchange(Victim, new)
  BY DEF SwapClean
<1>2. Victim \in Page /\ Victim # new /\ inFileAddr[Victim] = -1
  BY <1>1, VictimResident, VictimHasNoSlot
<1>3. Freed(new) = {inFileAddr[new]} \ {-1}
  BY FreedSlot DEF QueueIsResident
<1>4. \A p \in Page : inFileAddr'[p] = IF p = new THEN -1 ELSE inFileAddr[p]
  BY DEF SwapClean, QueueIsResident, TypeOK
<1>5. \A p \in Page : valid'[p] <=> IF p = new THEN TRUE ELSE IF p = Victim THEN FALSE ELSE valid[p]
  BY <1>1, <1>2 DEF Exchange, QueueIsResident, TypeOK
<1>6. SwapBitmap' = SwapBitmap \ Freed(new)
  BY DEF SwapClean
<1>7. SwapBitmap' = {inFileAddr'[p] : p \in Page} \ {-1}
  BY <1>3, <1>4, <1>6 DEF SlotsOwned
<1>8. \A p, q \in Page : inFileAddr'[p] # -1 /\ p # q => inFileAddr'[p] # inFileAddr'[q]
  BY <1>4 DEF SlotsOwned
<1>9. \A p \in Page : inFileAddr'[p] # -1 => ~valid'[p] /\ ~InExecutable(p)
  BY <1>2, <1>4, <1>5 DEF SlotsOwned
<1>10. QED
  BY <1>7, <1>8, <1>9 DEF SlotsOwned, InExecutable, Type

\* ... and so does replacing a dirty one, which gets a slot nobody has.
LEMMA SwapDirtySlots ==
  ASSUME QueueIsResident, SlotsOwned, NEW new \in Page, SwapDirty(new)
  PROVE  SlotsOwned'
<1>1. ~valid[new] /\ ~InExecutable(Victim) /\ Exchange(Victim, new)
  BY DEF SwapDirty
<1>2. Victim \in Page /\ Victim # new /\ inFileAddr[Victim] = -1
  BY <1>1, VictimResident, VictimHasNoSlot
<1>3. Freed(new) = {inFileAddr[new]} \ {-1}
  BY FreedSlot DEF QueueIsResident
<1>4. PICK s \in Slot \ SwapBitmap :
        /\ SwapBitmap' = (SwapBitmap \cup {s}) \ Freed(new)
        /\ inFileAddr' = [inFileAddr EXCEPT ![Victim] = s, ![new] = -1]
  BY DEF SwapDirty
<1>5. \A p \in Page : inFileAddr'[p] =
         IF p = new THEN -1 ELSE IF p = Victim THEN s ELSE inFileAddr[p]
  BY <1>2, <1>4 DEF QueueIsResident, TypeOK
<1>6. \A p \in Page : valid'[p] <=> IF p = new THEN TRUE ELSE IF p = Victim THEN FALSE ELSE valid[p]
  BY <1>1, <1>2 DEF Exchange, QueueIsResident, TypeOK
<1>7. s # -1 /\ \A p \in Page : inFileAddr[p] # s
  BY <1>4, FrameIsPage DEF SlotsOwned
<1>8. SwapBitmap' = {inFileAddr'[p] : p \in Page} \ {-1}
  <2>1. ASSUME NEW x \in SwapBitmap'
        PROVE  x # -1 /\ \E p \in Page : x = inFileAddr'[p]
    <3>1. CASE x = s
      BY <3>1, <1>2, <1>5, <1>7
    <3>2. CASE x \in SwapBitmap
      <4>1. PICK p \in Page : x = inFileAddr[p] /\ x # -1
        BY <3>2 DEF SlotsOwned
      <4>2. p # new
        BY <2>1, <4>1, <1>3, <1>4
      <4>3. p # Victim
        BY <4>1, <1>2
      <4>4. QED
        BY <4>1, <4>2, <4>3, <1>5
    <3>3. QED
      BY <2>1, <3>1, <3>2, <1>4
  <2>2. ASSUME NEW p \in Page, inFileAddr'[p] # -1 PROVE inFileAddr'[p] \in SwapBitmap'
    <3>1. CASE p = Victim
      <4>1. inFileAddr'[p] = s
        BY <3>1, <1>2, <1>5
      <4>2. s # inFileAddr[new]
        BY <1>7
      <4>3. s \in SwapBitmap'
        BY <4>2, <1>3, <1>4
      <4>4. QED
        BY <4>1, <4>3
    <3>2. CASE p # Victim
      <4>1. inFileAddr'[p] = inFileAddr[p] /\ p # new
        BY <2>2, <3>2, <1>5
      <4>2. inFileAddr[p] \in SwapBitmap /\ inFileAddr[p] # inFileAddr[new]
        BY <2>2, <4>1 DEF SlotsOwned
      <4>3. inFileAddr[p] \in SwapBitmap'
        BY <4>2, <1>3, <1>4
      <4>4. QED
        BY <4>1, <4>3
    <3>3. QED
      BY <3>1, <3>2
  <2>3. QED
    BY <2>1, <2>2
<1>9. \A p, q \in Page : inFileAddr'[p] # -1 /\ p # q => inFileAddr'[p] # inFileAddr'[q]
  BY <1>2, <1>5, <1>7 DEF SlotsOwned
<1>10. \A p \in Page : inFileAddr'[p] # -1 => ~valid'[p] /\ ~InExecutable(p)
  BY <1>1, <1>2, <1>5, <1>6 DEF SlotsOwned
<1>11. QED
  BY <1>8, <1>9, <1>10 DEF SlotsOwned, InExecutable, Type

-----------------------------------------------------------------------------
\* The inductive invariant.
IInv == QueueIsResident /\ SlotsOwned /\ KeepsWrites

\* The parts of the invariant speak of all variables but "failed".
LEMMA StutterIInv ==
  ASSUME IInv, UNCHANGED <<table, queue, mainMemory, swap, written>>,
         failed' \in {"", "vmcode", "vminitData", "swap full"}
  PROVE  IInv'
<1>1. /\ UNCHANGED <<physicalPage, valid, dirty, inFileAddr>>
      /\ UNCHANGED <<vp_queue, que_pointer, mainMemory, SwapFile, SwapBitmap, written>>
  BY DEF table, queue, swap
<1>2. TypeOK'
  BY <1>1 DEF IInv, QueueIsResident, TypeOK
<1>3. Resident'
  BY <1>1 DEF IInv, QueueIsResident, Resident
<1>4. SlotsOwned'
  BY <1>1 DEF IInv, SlotsOwned, InExecutable, Type
<1>5. KeepsWrites'
  BY <1>1 DEF IInv, KeepsWrites
<1>6. QED
  BY <1>2, <1>3, <1>4, <1>5 DEF IInv, QueueIsResident

LEMMA InitIInv == Init => IInv
<1> SUFFICES ASSUME Init PROVE IInv
  OBVIOUS
<1>1. TypeOK
  <2>1. \A p \in Page : p < EveryUserFrame => p \in Frame
    BY VirtualMemoryAssumption DEF Frame, Page
  <2>2. \A p \in Page : (IF p < EveryUserFrame THEN p ELSE -1) \in Frame \cup {-1}
    BY <2>1
  <2>3. physicalPage \in [Page -> Frame \cup {-1}]
    BY <2>2 DEF Init
  <2>4. valid \in [Page -> BOOLEAN] /\ dirty \in [Page -> BOOLEAN]
    <3>1. \A p \in Page : (p < EveryUserFrame) \in BOOLEAN
      OBVIOUS
    <3>2. QED
      BY <3>1 DEF Init
  <2>5. /\ vp_queue \in [Frame -> Page] /\ que_pointer \in Frame
        /\ mainMemory \in [Frame -> Value]
    BY FrameIsPage, ContentsType DEF Init
  <2>6. /\ inFileAddr \in [Page -> Slot \cup {-1}]
        /\ SwapFile \in [Slot -> Value] /\ SwapBitmap \subseteq Slot
        /\ written \in [Page -> Value]
    BY ContentsType, VirtualMemoryAssumption DEF Init
  <2>7. failed \in {"", "vmcode", "vminitData", "swap full"}
    BY DEF Init
  <2>8. QED
    BY <2>3, <2>4, <2>5, <2>6, <2>7 DEF TypeOK
<1>2. Resident
  <2>1. \A p \in Page : p \in Frame <=> p < EveryUserFrame
    BY VirtualMemoryAssumption DEF Frame, Page
  <2>2. \A p \in Page : valid[p] <=> \E i \in Frame : vp_queue[i] = p
    BY <2>1, FrameIsPage DEF Init
  <2>3. \A p \in Page : physicalPage[p] = IF valid[p] THEN p ELSE -1
    BY DEF Init
  <2>4. \A p \in Page : p # -1
    BY DEF Page
  <2>5. \A i \in Frame : vp_queue[i] = i
    BY DEF Init
  <2>6. QED
    BY <2>2, <2>3, <2>4, <2>5 DEF Resident
<1>3. SlotsOwned
  BY DEF Init, SlotsOwned
<1>4. KeepsWrites
  BY DEF Init, KeepsWrites
<1>5. QED
  BY <1>1, <1>2, <1>3, <1>4 DEF IInv, QueueIsResident

\* The program writes to a page in memory.
LEMMA WriteMemIInv ==
  ASSUME IInv, NEW page \in Page, NEW v \in Value, WriteMem(page, v)
  PROVE  IInv'
<1> USE DEF WriteMem, table, queue, swap
<1>1. TypeOK /\ Resident /\ SlotsOwned /\ KeepsWrites
  BY DEF IInv, QueueIsResident
<1>2. valid[page] /\ physicalPage[page] \in Frame
  BY <1>1 DEF TypeOK, Resident
<1>3. TypeOK'
  BY <1>1, <1>2 DEF TypeOK
<1>4. Resident'
  BY <1>1 DEF Resident
<1>5. SlotsOwned'
  BY <1>1 DEF SlotsOwned, InExecutable, Type
<1>6. KeepsWrites'
  <2> SUFFICES ASSUME NEW p \in Page
               PROVE  /\ valid'[p] /\ dirty'[p] => mainMemory'[physicalPage'[p]] = written'[p]
                      /\ inFileAddr'[p] # -1 => SwapFile'[inFileAddr'[p]] = written'[p]
    BY DEF KeepsWrites
  <2>1. CASE p = page
    BY <2>1, <1>1, <1>2 DEF TypeOK, SlotsOwned
  <2>2. CASE p # page
    <3>1. valid[p] => physicalPage[p] \in Frame /\ physicalPage[p] # physicalPage[page]
      <4>1. valid[p] => physicalPage[p] # -1 /\ physicalPage[p] # physicalPage[page]
        BY <2>2, <1>1, <1>2 DEF Resident
      <4>2. QED
        BY <4>1, <1>1 DEF TypeOK
    <3>2. QED
      BY <2>2, <3>1, <1>1, <1>2 DEF TypeOK, KeepsWrites
  <2>3. QED
    BY <2>1, <2>2
<1>7. QED
  BY <1>3, <1>4, <1>5, <1>6 DEF IInv, QueueIsResident

-----------------------------------------------------------------------------

\* A page that stays dirty in memory across an exchange keeps its frame.
LEMMA ExchangeKeeps ==
  ASSUME IInv, NEW new \in Page, ~valid[new], Exchange(Victim, new),
         NEW p \in Page, valid'[p], dirty'[p]
  PROVE  mainMemory'[physicalPage'[p]] = written[p]
<1>1. TypeOK /\ Resident /\ KeepsWrites
  BY DEF IInv, QueueIsResident
<1>2. /\ Victim \in Page /\ Victim # new /\ valid[Victim]
      /\ physicalPage[Victim] \in Frame
  BY VictimResident DEF IInv
<1>3. p # Victim /\ p # new
  BY <1>1, <1>2 DEF Exchange, TypeOK
<1>4. valid[p] /\ dirty[p] /\ physicalPage'[p] = physicalPage[p]
  BY <1>1, <1>3 DEF Exchange, TypeOK
<1>5. physicalPage[p] # physicalPage[Victim] /\ physicalPage[p] \in Frame
  <2>1. physicalPage[p] # physicalPage[Victim]
    BY <1>1, <1>2, <1>3, <1>4 DEF Resident
  <2>2. QED
    BY <1>1, <1>4, <2>1, FrameOfValid
<1>6. mainMemory'[physicalPage[p]] = mainMemory[physicalPage[p]]
  BY <1>1, <1>5 DEF Exchange, TypeOK
<1>7. QED
  BY <1>1, <1>4, <1>6 DEF KeepsWrites

\* The page to be replaced is clean.
LEMMA SwapCleanIInv ==
  ASSUME IInv, NEW new \in Page, SwapClean(new)
  PROVE  IInv'
<1>1. ~valid[new] /\ Exchange(Victim, new)
  BY DEF SwapClean
<1>2. QueueIsResident /\ TypeOK /\ SlotsOwned /\ KeepsWrites
  BY DEF IInv, QueueIsResident
<1>3. TypeOK'
  <2>1. inFileAddr' \in [Page -> Slot \cup {-1}] /\ SwapBitmap' \subseteq Slot
    BY <1>2 DEF SwapClean, TypeOK
  <2>2. UNCHANGED <<SwapFile, written, failed>>
    BY DEF SwapClean
  <2>3. QED
    BY <1>1, <1>2, <2>1, <2>2, ExchangeType DEF TypeOK
<1>4. Resident' /\ SlotsOwned'
  BY <1>1, <1>2, ExchangeResident, SwapCleanSlots
<1>5. KeepsWrites'
  <2>1. ASSUME NEW p \in Page, inFileAddr'[p] # -1
        PROVE  SwapFile'[inFileAddr'[p]] = written'[p]
    <3>1. inFileAddr'[p] = inFileAddr[p]
      BY <1>2, <2>1 DEF SwapClean, TypeOK
    <3>2. QED
      BY <1>2, <2>1, <3>1 DEF SwapClean, KeepsWrites
  <2>2. written' = written
    BY DEF SwapClean
  <2>3. QED
    BY <1>1, <2>1, <2>2, ExchangeKeeps DEF KeepsWrites
<1>6. QED
  BY <1>3, <1>4, <1>5 DEF IInv, QueueIsResident

\* The page to be replaced is dirty, and is written to the swap file.
LEMMA SwapDirtyIInv ==
  ASSUME IInv, NEW new \in Page, SwapDirty(new)
  PROVE  IInv'
<1>1. ~valid[new] /\ dirty[Victim] /\ Exchange(Victim, new)
  BY DEF SwapDirty
<1>2. QueueIsResident /\ TypeOK /\ SlotsOwned /\ KeepsWrites
  BY DEF IInv, QueueIsResident
<1>3. /\ Victim \in Page /\ Victim # new /\ valid[Victim]
      /\ physicalPage[Victim] \in Frame
  BY <1>1, <1>2, VictimResident
<1>4. PICK s \in Slot \ SwapBitmap :
        /\ SwapFile' = [SwapFile EXCEPT ![s] = mainMemory[physicalPage[Victim]]]
        /\ SwapBitmap' = (SwapBitmap \cup {s}) \ Freed(new)
        /\ inFileAddr' = [inFileAddr EXCEPT ![Victim] = s, ![new] = -1]
  BY DEF SwapDirty
<1>5. TypeOK'
  <2>1. inFileAddr' \in [Page -> Slot \cup {-1}] /\ SwapBitmap' \subseteq Slot
    BY <1>2, <1>4 DEF TypeOK
  <2>2. SwapFile' \in [Slot -> Value]
    BY <1>2, <1>3, <1>4 DEF TypeOK
  <2>3. UNCHANGED <<written, failed>>
    BY DEF SwapDirty
  <2>4. QED
    BY <1>1, <1>2, <2>1, <2>2, <2>3, ExchangeType DEF TypeOK
<1>6. Resident' /\ SlotsOwned'
  BY <1>1, <1>2, ExchangeResident, SwapDirtySlots
<1>7. written' = written
  BY DEF SwapDirty
<1>8. KeepsWrites'
  <2>1. ASSUME NEW p \in Page, inFileAddr'[p] # -1
        PROVE  SwapFile'[inFileAddr'[p]] = written'[p]
    <3>1. CASE p = Victim
      <4>1. inFileAddr'[p] = s /\ SwapFile'[s] = mainMemory[physicalPage[p]]
        BY <1>2, <1>3, <1>4, <3>1 DEF TypeOK
      <4>2. QED
        BY <1>1, <1>2, <1>3, <1>7, <3>1, <4>1 DEF KeepsWrites
    <3>2. CASE p # Victim
      <4>1. inFileAddr'[p] = inFileAddr[p]
        BY <1>2, <1>3, <1>4, <2>1, <3>2 DEF TypeOK
      <4>2. inFileAddr[p] \in SwapBitmap
        BY <1>2, <2>1, <4>1 DEF SlotsOwned
      <4>3. SwapFile'[inFileAddr[p]] = SwapFile[inFileAddr[p]]
        BY <1>2, <1>4, <4>2 DEF TypeOK
      <4>4. QED
        BY <1>2, <1>7, <2>1, <4>1, <4>3 DEF KeepsWrites
    <3>3. QED
      BY <3>1, <3>2
  <2>2. QED
    BY <1>1, <1>7, <2>1, ExchangeKeeps DEF KeepsWrites
<1>9. QED
  BY <1>5, <1>6, <1>8 DEF IInv, QueueIsResident

\* Every step keeps the invariant.
LEMMA NextIInv == IInv /\ [Next]_vars => IInv'
<1> SUFFICES ASSUME IInv, [Next]_vars PROVE IInv'
  OBVIOUS
<1>1. ASSUME NEW p \in Page, NEW v \in Value, WriteMem(p, v) PROVE IInv'
  BY <1>1, WriteMemIInv
<1>2. ASSUME NEW p \in Page, SwapClean(p) PROVE IInv'
  BY <1>2, SwapCleanIInv
<1>3. ASSUME NEW p \in Page, SwapDirty(p) PROVE IInv'
  BY <1>3, SwapDirtyIInv
<1>4. ASSUME NEW p \in Page, SwapFails(p) PROVE IInv'
  <2>1. UNCHANGED <<table, queue, mainMemory, swap, written>>
    BY <1>4 DEF SwapFails
  <2>2. failed' \in {"", "vmcode", "vminitData", "swap full"}
    BY <1>4 DEF SwapFails, InExecutable, Type
  <2>3. QED
    BY <2>1, <2>2, StutterIInv
<1>5. CASE UNCHANGED vars
  BY <1>5, StutterIInv DEF vars, IInv, QueueIsResident, TypeOK
<1>6. QED
  BY <1>1, <1>2, <1>3, <1>4, <1>5 DEF Next

\* The inductive invariant holds in every reachable state.
THEOREM VirtualMemoryInvariant == Spec => []IInv
BY InitIInv, NextIInv, PTL DEF Spec

\* The queue that SwapHandler() takes its victim from holds exactly the pages
\* in memory, each in a frame of its own, whatever the program does.
THEOREM VirtualMemoryQueue == Spec => []QueueIsResident
<1>1. IInv => QueueIsResident
  BY DEF IInv
<1>2. QED
  BY <1>1, VirtualMemoryInvariant, PTL

\* No two pages share a slot of the swap file, and no slot is lost: GetBit and
\* Clear() of SwapHandler() go together.
THEOREM VirtualMemorySlots == Spec => []SlotsOwned
<1>1. IInv => SlotsOwned
  BY DEF IInv
<1>2. QED
  BY <1>1, VirtualMemoryInvariant, PTL

\* What the program wrote is in memory while the page is dirty, and in its slot
\* once SwapHandler() has swapped it out.
THEOREM VirtualMemoryKeepsWrites == Spec => []KeepsWrites
<1>1. IInv => KeepsWrites
  BY DEF IInv
<1>2. QED
  BY <1>1, VirtualMemoryInvariant, PTL

\* The three together: wherever a page is, it is there once, with what the
\* program wrote to it, however many pages, frames and slots there are.
THEOREM VirtualMemoryPaging == Spec => []PagingInv
<1>1. QueueIsResident /\ SlotsOwned /\ KeepsWrites => PagingInv
  BY DEF PagingInv
<1>2. QED
  BY <1>1, VirtualMemoryQueue, VirtualMemorySlots, VirtualMemoryKeepsWrites, PTL

-----------------------------------------------------------------------------
\* A program that writes no page of the executable: its pages there are clean,
\* and what they are in the file.
ReadOnlyExecutable == \A p \in Writable : ~InExecutable(p)

ExecutableClean ==
  /\ failed \notin {"vmcode", "vminitData"}
  /\ \A p \in Page : valid[p] /\ InExecutable(p) =>
       ~dirty[p] /\ mainMemory[physicalPage[p]] = Image[p]

LEMMA InitExecutable == Init => ExecutableClean
<1> SUFFICES ASSUME Init PROVE ExecutableClean
  OBVIOUS
<1>1. ASSUME NEW p \in Page, valid[p], InExecutable(p)
      PROVE  ~dirty[p] /\ mainMemory[physicalPage[p]] = Image[p]
  <2>1. p < EveryUserFrame
    BY <1>1 DEF Init
  <2>2. p \in Frame
    BY <2>1, VirtualMemoryAssumption DEF Frame, Page
  <2>3. physicalPage[p] = p
    BY <2>1 DEF Init
  <2>4. QED
    BY <1>1, <2>2, <2>3 DEF Init, Contents
<1>2. QED
  BY <1>1 DEF Init, ExecutableClean

\* An exchange reads a page of the executable from the file.
LEMMA ExchangeExecutable ==
  ASSUME IInv, ExecutableClean, NEW new \in Page, ~valid[new], Exchange(Victim, new),
         NEW p \in Page, valid'[p], InExecutable(p)
  PROVE  ~dirty'[p] /\ mainMemory'[physicalPage'[p]] = Image[p]
<1>1. QueueIsResident /\ TypeOK /\ Resident
  BY DEF IInv, QueueIsResident
<1>2. /\ Victim \in Page /\ Victim # new /\ valid[Victim]
      /\ physicalPage[Victim] \in Frame
  BY <1>1, VictimResident
<1>3. CASE p = new
  <2>1. ~dirty'[p] /\ physicalPage'[p] = physicalPage[Victim]
    BY <1>1, <1>2, <1>3 DEF Exchange, TypeOK
  <2>2. mainMemory'[physicalPage[Victim]] = Fetched(new)
    BY <1>1, <1>2 DEF Exchange, TypeOK
  <2>3. QED
    BY <1>3, <2>1, <2>2 DEF Fetched
<1>4. CASE p # new
  <2>1. p # Victim
    BY <1>1, <1>2 DEF Exchange, TypeOK
  <2>2. valid[p] /\ dirty'[p] = dirty[p] /\ physicalPage'[p] = physicalPage[p]
    BY <1>1, <1>4, <2>1 DEF Exchange, TypeOK
  <2>3. physicalPage[p] # physicalPage[Victim] /\ physicalPage[p] \in Frame
    <3>1. physicalPage[p] # physicalPage[Victim]
      BY <1>1, <1>2, <2>1, <2>2 DEF Resident
    <3>2. QED
      BY <1>1, <2>2, <3>1, FrameOfValid
  <2>4. mainMemory'[physicalPage[p]] = mainMemory[physicalPage[p]]
    BY <1>1, <2>3 DEF Exchange, TypeOK
  <2>5. QED
    BY <2>2, <2>4 DEF ExecutableClean
<1>5. QED
  BY <1>3, <1>4

LEMMA NextExecutable ==
  ASSUME ReadOnlyExecutable
  PROVE  IInv /\ ExecutableClean /\ [Next]_vars => ExecutableClean'
<1> SUFFICES ASSUME IInv, ExecutableClean, [Next]_vars PROVE ExecutableClean'
  OBVIOUS
<1>1. TypeOK /\ Resident
  BY DEF IInv, QueueIsResident
<1>2. ASSUME NEW page \in Page, NEW v \in Value, WriteMem(page, v)
      PROVE  ExecutableClean'
  <2>1. /\ valid[page] /\ ~InExecutable(page) /\ failed' = failed
        /\ valid' = valid /\ physicalPage' = physicalPage
    BY <1>2 DEF WriteMem, ReadOnlyExecutable
  <2>2. ASSUME NEW p \in Page, valid'[p], InExecutable(p)
        PROVE  ~dirty'[p] /\ mainMemory'[physicalPage'[p]] = Image[p]
    <3>1. p # page /\ valid[p] /\ dirty'[p] = dirty[p]
      BY <1>1, <1>2, <2>1, <2>2 DEF WriteMem, TypeOK
    <3>2. physicalPage[p] # physicalPage[page]
      BY <1>1, <2>1, <3>1 DEF Resident
    <3>3. physicalPage[p] \in Frame
      BY <1>1, <3>1, FrameOfValid
    <3>4. mainMemory'[physicalPage[p]] = mainMemory[physicalPage[p]]
      BY <1>1, <1>2, <3>2, <3>3 DEF WriteMem, TypeOK
    <3>5. QED
      BY <2>1, <2>2, <3>1, <3>4 DEF ExecutableClean
  <2>3. QED
    BY <2>1, <2>2 DEF ExecutableClean, InExecutable, Type
<1>3. ASSUME NEW new \in Page, SwapClean(new) \/ SwapDirty(new) PROVE ExecutableClean'
  <2>1. ~valid[new] /\ Exchange(Victim, new) /\ failed' = failed
    BY <1>3 DEF SwapClean, SwapDirty
  <2>2. QED
    BY <2>1, ExchangeExecutable DEF ExecutableClean, InExecutable, Type
<1>4. ASSUME NEW new \in Page, SwapFails(new) PROVE ExecutableClean'
  <2>1. valid[Victim] /\ Victim \in Page
    BY <1>4, VictimResident DEF IInv, SwapFails
  <2>2. dirty[Victim]
    BY <1>4 DEF SwapFails
  <2>3. ~InExecutable(Victim)
    BY <2>1, <2>2 DEF ExecutableClean
  <2>4. /\ failed' = "swap full"
        /\ UNCHANGED <<table, queue, mainMemory, swap, written>>
    BY <1>4, <2>3 DEF SwapFails
  <2>5. QED
    BY <2>4 DEF table, ExecutableClean, InExecutable, Type
<1>5. CASE UNCHANGED vars
  BY <1>5 DEF vars, table, ExecutableClean, InExecutable, Type
<1>6. QED
  BY <1>2, <1>3, <1>4, <1>5 DEF Next

\* As long as the program writes no page of the executable, SwapHandler() never
\* meets its assertions on code and initialized data, and those pages are read
\* as they are in the file.
THEOREM VirtualMemoryExecutable ==
  ASSUME ReadOnlyExecutable
  PROVE  Spec => []ExecutableIntact
<1>1. Init => IInv /\ ExecutableClean
  BY InitIInv, InitExecutable
<1>2. (IInv /\ ExecutableClean) /\ [Next]_vars => (IInv /\ ExecutableClean)'
  BY NextIInv, NextExecutable
<1>3. IInv /\ ExecutableClean => ExecutableIntact
  BY DEF ExecutableClean, ExecutableIntact
<1>4. QED
  BY <1>1, <1>2, <1>3, PTL DEF Spec

\* The other subjects of MCUserProgram leave the memory alone.
LEMMA PagingInside == UserProgramSpec => Spec
<1>1. UserProgramInit => Init
  BY DEF UserProgramInit
<1>2. [UserProgramNext]_everyVar => [Next]_vars
  BY DEF UserProgramNext, everyVar
<1> QED
  BY <1>1, <1>2, PTL DEF UserProgramSpec, Spec

-----------------------------------------------------------------------------
(* The program counters under page faults.                                 *)


LEMMA RestartConstants ==
  /\ NumWords \in Nat \ {0} /\ WordsPerPage \in Nat \ {0} /\ EveryUserFrame \in Nat \ {0}
  /\ F!Word = 0 .. NumWords - 1 /\ F!Frame = 0 .. EveryUserFrame - 1
  /\ F!Frame \subseteq F!CodePage
BY FaultRestartAssumption DEF F!ConstantsOK, F!Word, F!Frame

\* A jump goes forward, inside the program.
LEMMA JumpFacts ==
  ASSUME NEW j \in F!Jump
  PROVE  \/ j.from = -2 /\ j.to = -2
         \/ j.from \in F!Word /\ j.to \in F!Word /\ j.from + 1 < j.to
BY DEF F!Jump, F!NoJump

LEMMA RestartInit == F!Init => F!RestartInv
<1> SUFFICES ASSUME F!Init
             PROVE  F!RestartInv
  OBVIOUS
<1>1. F!TypeOK
  <2>1. /\ resident = [i \in F!Frame |-> i] /\ pointer = 0
        /\ executed = [i \in F!Word |-> 0]
    BY DEF F!Init
  <2>2. resident \in [F!Frame -> F!CodePage \cup DataPage] /\ pointer \in F!Frame
    BY <2>1, RestartConstants
  <2>3. executed \in [F!Word -> 0 .. 2]
    BY <2>1
  <2>4. PCReg \in -1 .. NumWords /\ NextPCReg \in 0 .. NumWords + 1
    BY RestartConstants DEF F!Init
  <2> QED
    BY <2>2, <2>3, <2>4 DEF F!Init, F!TypeOK
<1>2. F!NothingSkipped
  BY RestartConstants DEF F!Init, F!NothingSkipped
<1> QED
  BY <1>1, <1>2 DEF F!Init, F!OneDelaySlot, F!RestartInv

\* SwapHandler() replaces a page; the queue goes round.
LEMMA FaultReplaces ==
  ASSUME F!TypeOK, NEW p \in F!CodePage \cup DataPage
  PROVE  /\ [resident EXCEPT ![pointer] = p] \in [F!Frame -> F!CodePage \cup DataPage]
         /\ (pointer + 1) % EveryUserFrame \in F!Frame
BY RestartConstants DEF F!TypeOK

\* A page fault: the counters go back by one instruction.
LEMMA PageFaultRestart == F!RestartInv /\ F!PageFault => F!RestartInv'
<1> SUFFICES ASSUME F!RestartInv, F!PageFault
             PROVE  F!RestartInv'
  OBVIOUS
<1>1. /\ PCReg \in 0 .. NumWords - 1 /\ NextPCReg' = PCReg /\ PCReg' = PCReg - 1
      /\ data' = data /\ jump' = jump /\ executed' = executed /\ stopped' = stopped
  BY RestartConstants DEF F!PageFault, F!Running, F!program
<1>2. F!TypeOK /\ F!NothingSkipped
  BY DEF F!RestartInv
<1>3. F!TypeOK'
  <2>1. /\ resident' \in [F!Frame -> F!CodePage \cup DataPage]
        /\ pointer' \in F!Frame
    <3>1. PICK p \in F!CodePage \cup DataPage : resident' = [resident EXCEPT ![pointer] = p]
      BY DEF F!PageFault
    <3>2. pointer' = (pointer + 1) % EveryUserFrame
      BY DEF F!PageFault
    <3> QED
      BY <1>2, <3>1, <3>2, FaultReplaces
  <2>2. PCReg' \in -1 .. NumWords /\ NextPCReg' \in 0 .. NumWords + 1
    BY <1>1, RestartConstants
  <2> QED
    BY <1>1, <1>2, <2>1, <2>2 DEF F!TypeOK
<1>4. F!NothingSkipped'
  BY <1>1, <1>2, RestartConstants DEF F!NothingSkipped, F!OnPath
<1> QED
  BY <1>1, <1>3, <1>4 DEF F!OneDelaySlot, F!RestartInv

\* An instruction without a fault: what it skips, the jump skips.
LEMMA OneInstructionRestart == F!RestartInv /\ F!OneInstruction => F!RestartInv'
<1> SUFFICES ASSUME F!RestartInv, F!OneInstruction
             PROVE  F!RestartInv'
  OBVIOUS
<1>1. /\ PCReg \in 0 .. NumWords - 1 /\ PCReg \in F!Word /\ PCReg' = NextPCReg
      /\ NextPCReg' = IF PCReg = jump.from THEN jump.to ELSE NextPCReg + 1
      /\ data' = data /\ jump' = jump /\ resident' = resident /\ pointer' = pointer
      /\ stopped' = stopped
      /\ executed' = [executed EXCEPT ![PCReg] = IF @ = 0 THEN 1 ELSE 2]
  BY RestartConstants DEF F!OneInstruction, F!Running, F!program
<1>2. F!TypeOK /\ F!NothingSkipped /\ F!OneDelaySlot
  BY DEF F!RestartInv
<1>3. /\ executed' \in [F!Word -> 0 .. 2] /\ executed'[PCReg] > 0
      /\ \A k \in F!Word : k # PCReg => executed'[k] = executed[k]
  BY <1>1, <1>2 DEF F!TypeOK
<1>4. \/ jump.from = -2 /\ jump.to = -2
      \/ jump.from \in F!Word /\ jump.to \in F!Word /\ jump.from + 1 < jump.to
  BY <1>2, JumpFacts DEF F!TypeOK
<1>5. \/ NextPCReg = PCReg + 1
      \/ PCReg = jump.from + 1 /\ NextPCReg = jump.to /\ jump.to \in F!Word
  BY <1>1, <1>2, <1>4, RestartConstants DEF F!OneDelaySlot
<1>6. F!TypeOK'
  <2>1. PCReg' \in -1 .. NumWords /\ NextPCReg' \in 0 .. NumWords + 1
    BY <1>1, <1>4, <1>5, RestartConstants
  <2> QED
    BY <1>1, <1>2, <1>3, <2>1 DEF F!TypeOK
<1>7. F!NothingSkipped'
  <2> SUFFICES ASSUME NEW k \in F!Word, k < NextPCReg, ~(jump.from + 1 < k /\ k < jump.to)
               PROVE  executed'[k] > 0
    BY <1>1 DEF F!NothingSkipped, F!OnPath
  <2>1. k <= PCReg
    BY <1>1, <1>4, <1>5, RestartConstants
  <2>2. CASE k = PCReg
    BY <1>3, <2>2
  <2>3. CASE k < PCReg
    <3>1. executed[k] > 0
      BY <1>2, <2>3 DEF F!NothingSkipped, F!OnPath
    <3> QED
      BY <1>1, <1>3, <2>3, <3>1, RestartConstants
  <2> QED
    BY <1>1, <2>1, <2>2, <2>3, RestartConstants
<1>8. F!OneDelaySlot'
  BY <1>1, <1>4, <1>5, RestartConstants DEF F!OneDelaySlot
<1> QED
  BY <1>6, <1>7, <1>8 DEF F!RestartInv

\* Whatever faults, wherever: the handler that moves PCReg back by one
\* instruction (exception.cc:112) leaves out no instruction of the program's
\* path, not even in the delay slot of a jump, and the jump is still taken.
THEOREM FaultsSkipNothing == UserProgramSpec => []RestartInv
<1>1. UserProgramInit => RestartInv
  BY RestartInit DEF UserProgramInit, RestartInv
<1>2. RestartInv /\ [UserProgramNext]_everyVar => RestartInv'
  <2> SUFFICES ASSUME RestartInv, [UserProgramNext]_everyVar, subject' = "restart"
               PROVE  F!RestartInv'
    BY DEF RestartInv
  <2>1. CASE UNCHANGED restartVars
    <3>1. subject = "restart"
      BY DEF UserProgramNext, everyVar
    <3>2. F!RestartInv
      BY <3>1 DEF RestartInv
    <3> QED
      BY <2>1, <3>2 DEF restartVars, F!RestartInv, F!TypeOK, F!NothingSkipped, F!OneDelaySlot,
                        F!OnPath
  <2>2. CASE subject = "restart" /\ F!Next
    <3>1. F!RestartInv
      BY <2>2 DEF RestartInv
    <3>2. CASE F!PageFault
      BY <3>1, <3>2, PageFaultRestart
    <3>3. CASE F!OneInstruction
      BY <3>1, <3>3, OneInstructionRestart
    <3>4. CASE F!AddressError
      BY <3>1, <3>4 DEF F!AddressError, F!program, F!RestartInv, F!TypeOK, F!NothingSkipped,
                        F!OneDelaySlot, F!OnPath
    <3> QED
      BY <2>2, <3>2, <3>3, <3>4 DEF F!Next
  <2> QED
    BY <2>1, <2>2 DEF UserProgramNext, everyVar, restartVars
<1> QED
  BY <1>1, <1>2, PTL DEF UserProgramSpec

-----------------------------------------------------------------------------
(* The addresses of a program.                                             *)

\* A quotient and its remainder.
LEMMA DivideBy ==
  ASSUME NEW z \in Nat \ {0}, NEW a \in Nat
  PROVE  /\ a \div z \in Nat /\ a % z \in 0 .. z - 1
         /\ a = (a \div z) * z + (a % z)
OBVIOUS

\* Fewer whole pages, one page apart.
LEMMA PagesApart ==
  ASSUME NEW z \in Nat \ {0}, NEW a \in Nat, NEW b \in Nat, a < b
  PROVE  a * z \in Nat /\ b * z \in Nat /\ a * z + z <= b * z
OBVIOUS

\* r is the least number of pages that is enough for n bytes.
Least(n, z, r) == r \in Nat /\ r * z \in Nat /\ n <= r * z /\ (n = 0 => r = 0) /\ (n > 0 => r * z - z < n)

\* divRoundUp() is this number.
LEMMA RoundUpLeast ==
  ASSUME NEW z \in Nat \ {0}, NEW n \in Nat
  PROVE  Least(n, z, L!divRoundUp(n, z))
<1>1. PICK q, r : q = n \div z /\ r = n % z
  OBVIOUS
<1>2. q \in Nat /\ r \in 0 .. z - 1 /\ n = q * z + r
  BY <1>1, DivideBy
<1>3. L!divRoundUp(n, z) = q + (IF r > 0 THEN 1 ELSE 0)
  BY <1>1 DEF L!divRoundUp
<1>4. q * z \in Nat /\ (q + 1) * z = q * z + z
  BY <1>2
<1>5. CASE r > 0
  <2>1. L!divRoundUp(n, z) = q + 1
    BY <1>3, <1>5
  <2> QED
    BY <1>2, <1>4, <1>5, <2>1 DEF Least
<1>6. CASE r = 0
  <2>1. L!divRoundUp(n, z) = q
    BY <1>2, <1>3, <1>6
  <2>2. n = q * z
    BY <1>2, <1>4, <1>6
  <2>3. n = 0 => q = 0
    <3>1. q > 0 => q * z > 0
      BY <1>2
    <3> QED
      BY <1>2, <2>2, <3>1
  <2> QED
    BY <1>2, <1>4, <2>1, <2>2, <2>3 DEF Least
<1> QED
  BY <1>2, <1>5, <1>6

\* There is one such number.
LEMMA LeastUnique ==
  ASSUME NEW z \in Nat \ {0}, NEW n \in Nat, NEW r, NEW s, Least(n, z, r), Least(n, z, s)
  PROVE  r = s
<1>1. r \in Nat /\ s \in Nat /\ r * z \in Nat /\ s * z \in Nat
  BY DEF Least
<1>2. ~(r < s)
  <2> SUFFICES ASSUME r < s
               PROVE  FALSE
    OBVIOUS
  <2>1. r * z + z <= s * z
    BY <1>1, PagesApart
  <2> QED
    BY <1>1, <2>1 DEF Least
<1>3. ~(s < r)
  <2> SUFFICES ASSUME s < r
               PROVE  FALSE
    OBVIOUS
  <2>1. s * z + z <= r * z
    BY <1>1, PagesApart
  <2> QED
    BY <1>1, <2>1 DEF Least
<1> QED
  BY <1>1, <1>2, <1>3

\* More bytes need no fewer pages.
LEMMA LeastGrows ==
  ASSUME NEW z \in Nat \ {0}, NEW m \in Nat, NEW n \in Nat, m <= n,
         NEW r, NEW s, Least(m, z, r), Least(n, z, s)
  PROVE  r <= s
<1>1. r \in Nat /\ s \in Nat /\ r * z \in Nat /\ s * z \in Nat
  BY DEF Least
<1>2. ~(s < r)
  <2> SUFFICES ASSUME s < r
               PROVE  FALSE
    OBVIOUS
  <2>1. s * z + z <= r * z
    BY <1>1, PagesApart
  <2> QED
    BY <1>1, <2>1 DEF Least
<1> QED
  BY <1>1, <1>2

\* Two segments together need no more pages than apart.
LEMMA LeastTogether ==
  ASSUME NEW z \in Nat \ {0}, NEW m \in Nat, NEW n \in Nat,
         NEW r, NEW s, NEW t, Least(m, z, r), Least(n, z, s), Least(m + n, z, t)
  PROVE  t <= r + s
<1>1. r \in Nat /\ s \in Nat /\ t \in Nat /\ r * z \in Nat /\ s * z \in Nat /\ t * z \in Nat
  BY DEF Least
<1>2. ~(r + s < t)
  <2> SUFFICES ASSUME r + s < t
               PROVE  FALSE
    OBVIOUS
  <2>1. PICK q \in Nat : q = r + s
    BY <1>1
  <2>2. q * z + z <= t * z
    BY <1>1, <2>1, PagesApart
  <2>3. q * z = r * z + s * z
    BY <1>1, <2>1
  <2> QED
    BY <1>1, <2>2, <2>3 DEF Least
<1> QED
  BY <1>1, <1>2

\* Segments of whole pages before and behind it do not change what one needs.
LEMMA LeastWithPages ==
  ASSUME NEW z \in Nat \ {0}, NEW n \in Nat, NEW r, Least(n, z, r), NEW a \in Nat, NEW b \in Nat \ {0}
  PROVE  a * z + n + b * z \in Nat /\ Least(a * z + n + b * z, z, a + r + b)
<1>1. PICK x, y, w : x = a * z /\ y = b * z /\ w = r * z
  OBVIOUS
<1>2. x \in Nat /\ y \in Nat /\ y > 0 /\ w \in Nat /\ r \in Nat
  BY <1>1 DEF Least
<1>3. (a + r + b) * z = x + w + y
  BY <1>1, <1>2
<1>4. CASE n = 0
  <2>1. w = 0
    BY <1>1, <1>4 DEF Least
  <2> QED
    BY <1>1, <1>2, <1>3, <1>4, <2>1 DEF Least
<1>5. CASE n > 0
  <2>1. n <= w /\ w - z < n
    BY <1>1, <1>5 DEF Least
  <2> QED
    BY <1>1, <1>2, <1>3, <1>5, <2>1 DEF Least
<1> QED
  BY <1>4, <1>5

-----------------------------------------------------------------------------
(* The segments and their pages.                                           *)

\* The pages of the three segments of the file.
CodeCount == L!divRoundUp(code, PageSize)
InitCount == L!divRoundUp(initData, PageSize)
UninitCount == L!divRoundUp(uninitData, PageSize)
DataFirst == CodeCount + InitCount
StackFirst == DataFirst + UninitCount

SizesOK == code \in CodeSizes /\ initData \in InitSizes /\ uninitData \in UninitSizes

LEMMA LayoutConstants ==
  /\ PageSize \in Nat \ {0} /\ StackPages \in Nat \ {0} /\ HeaderSize \in Nat
  /\ SizesOK => code \in Nat \ {0} /\ initData \in Nat /\ uninitData \in Nat
BY AddressLayoutAssumption DEF L!ConstantsOK, SizesOK

\* The sizes in bytes and in pages.
LEMMA CountFacts ==
  ASSUME SizesOK
  PROVE  /\ Least(code, PageSize, CodeCount) /\ Least(initData, PageSize, InitCount)
         /\ Least(uninitData, PageSize, UninitCount)
         /\ CodeCount \in Nat \ {0} /\ InitCount \in Nat /\ UninitCount \in Nat
         /\ DataFirst \in Nat /\ StackFirst \in Nat
<1>1. /\ Least(code, PageSize, CodeCount) /\ Least(initData, PageSize, InitCount)
      /\ Least(uninitData, PageSize, UninitCount)
  BY LayoutConstants, RoundUpLeast DEF CodeCount, InitCount, UninitCount
<1>2. CodeCount # 0
  <2>1. CodeCount = 0 => CodeCount * PageSize = 0
    BY LayoutConstants
  <2> QED
    BY <1>1, <2>1, LayoutConstants DEF Least
<1> QED
  BY <1>1, <1>2 DEF Least, DataFirst, StackFirst

\* The page table has one page for each page of a segment.
LEMMA PagesAddUp ==
  ASSUME SizesOK
  PROVE  /\ L!numPages = StackFirst + StackPages
         /\ L!Page = 0 .. StackFirst + StackPages - 1
         /\ L!numPages * PageSize - L!UserStackSize = StackFirst * PageSize
         /\ StackFirst * PageSize \in Nat
<1>1. PICK z, a, d, u, b :
        z = PageSize /\ a = CodeCount /\ d = InitCount /\ u = UninitCount /\ b = StackPages
  OBVIOUS
<1>2. /\ z \in Nat \ {0} /\ a \in Nat /\ d \in Nat /\ u \in Nat /\ b \in Nat \ {0}
      /\ uninitData \in Nat /\ Least(uninitData, z, u)
  BY <1>1, LayoutConstants, CountFacts
<1>3. (a + d) * z = a * z + d * z
  BY <1>2
<1>4. PICK c \in Nat : c = a + d
  BY <1>2
<1>5. /\ c * z + uninitData + b * z \in Nat
      /\ Least(c * z + uninitData + b * z, z, c + u + b)
  BY <1>2, <1>4, LeastWithPages
<1>6. L!divRoundUp(c * z + uninitData + b * z, z) = c + u + b
  BY <1>2, <1>5, RoundUpLeast, LeastUnique
<1>7. L!numPages = L!divRoundUp(a * z + d * z + uninitData + b * z, z)
  BY <1>1 DEF L!numPages, L!UserStackSize, CodeCount, InitCount
<1>8. L!numPages = c + u + b
  BY <1>3, <1>4, <1>6, <1>7
<1>9. c + u = StackFirst
  BY <1>1, <1>4 DEF StackFirst, DataFirst
<1>10. /\ (c + u + b) * z - b * z = (c + u) * z
       /\ (c + u) * z \in Nat
  <2>1. PICK e \in Nat : e = c + u
    BY <1>2, <1>4
  <2>2. (e + b) * z - b * z = e * z /\ e * z \in Nat
    BY <1>2
  <2> QED
    BY <2>1, <2>2
<1>11. L!numPages * PageSize - L!UserStackSize = StackFirst * PageSize
  BY <1>1, <1>8, <1>9, <1>10 DEF L!UserStackSize
<1>12. L!numPages = StackFirst + StackPages
  BY <1>1, <1>8, <1>9
<1>13. L!Page = 0 .. StackFirst + StackPages - 1
  <2>1. PICK n : n = L!numPages
    OBVIOUS
  <2>2. L!Page = 0 .. n - 1
    BY Zenon, <2>1 DEF L!Page
  <2>3. n = StackFirst + StackPages
    BY Zenon, <1>12, <2>1
  <2>4. n - 1 = StackFirst + StackPages - 1
    BY <2>3, CountFacts, LayoutConstants
  <2> QED
    BY <2>2, <2>4
<1>14. StackFirst * PageSize \in Nat
  BY <1>1, <1>9, <1>10
<1> QED
  BY <1>11, <1>12, <1>13, <1>14

\* An address: its segment is the n pages from page g on, and it is found there.
FoundAt(t, s, g, n, addr) ==
  /\ t.vpn \in g .. g + n - 1 /\ t.offset \in 0 .. PageSize - 1
  /\ addr = s + (t.vpn - g) * PageSize + t.offset

\* The four segments.
InCode(t, addr) == addr \in L!CodeAddresses /\ FoundAt(t, 0, 0, CodeCount, addr)
InInit(t, addr) == addr \in L!InitAddresses /\ FoundAt(t, code, CodeCount, InitCount, addr)
InUninit(t, addr) ==
  addr \in L!UninitAddresses /\ FoundAt(t, code + initData, DataFirst, UninitCount, addr)
InStack(t, addr) ==
  addr \in L!StackAddresses /\ FoundAt(t, StackFirst * PageSize, StackFirst, StackPages, addr)

\* The page of an address inside a segment.
LEMMA FoundBy ==
  ASSUME NEW s \in Nat, NEW g \in Nat, NEW n \in Nat, NEW addr \in Nat,
         s <= addr, addr - s < n * PageSize,
         L!Segment(addr) = [addr |-> s, page |-> g]
  PROVE  FoundAt(L!Translated(addr), s, g, n, addr)
<1>1. PICK z, a, q, r : z = PageSize /\ a = addr - s /\ q = a \div z /\ r = a % z
  OBVIOUS
<1>2. z \in Nat \ {0} /\ a \in Nat
  BY <1>1, LayoutConstants
<1>3. q \in Nat /\ r \in 0 .. z - 1 /\ a = q * z + r
  BY <1>1, <1>2, DivideBy
<1>4. q < n
  <2> SUFFICES ASSUME n <= q
               PROVE  FALSE
    BY <1>3
  <2>1. n * z <= q * z
    <3>1. n < q => n * z + z <= q * z
      BY <1>2, <1>3, PagesApart
    <3> QED
      BY <1>2, <1>3, <3>1
  <2> QED
    BY <1>1, <1>2, <1>3, <2>1
<1>5. L!Translated(addr) = [addr |-> addr, vpn |-> g + q, offset |-> r]
  BY <1>1 DEF L!Translated
<1>6. (g + q) - g = q
  BY <1>3
<1> QED
  BY <1>1, <1>2, <1>3, <1>4, <1>5, <1>6 DEF FoundAt

\* Every address of the program is found in one of its segments, by the test of
\* AddrSpace::Translate() that is meant for it.
LEMMA AddressFound ==
  ASSUME SizesOK, NEW addr \in L!Addresses
  PROVE  LET t == L!Translated(addr)
         IN  /\ t.addr = addr
             /\ addr \in L!CodeAddresses => InCode(t, addr)
             /\ addr \in L!InitAddresses => InInit(t, addr)
             /\ addr \in L!UninitAddresses => InUninit(t, addr)
             /\ addr \in L!StackAddresses => InStack(t, addr)
             /\ InCode(t, addr) \/ InInit(t, addr) \/ InUninit(t, addr) \/ InStack(t, addr)
<1>1. PICK z, c, d, u, a, b, e, w :
        /\ z = PageSize /\ c = code /\ d = initData /\ u = uninitData
        /\ a = CodeCount * PageSize /\ b = InitCount * PageSize /\ e = UninitCount * PageSize
        /\ w = StackFirst * PageSize
  OBVIOUS
<1>2. /\ z \in Nat \ {0} /\ c \in Nat \ {0} /\ d \in Nat /\ u \in Nat
      /\ a \in Nat /\ b \in Nat /\ e \in Nat /\ c <= a /\ d <= b /\ u <= e
  BY <1>1, LayoutConstants, CountFacts DEF Least
<1>3. w = a + b + e
  BY <1>1, <1>2, CountFacts DEF StackFirst, DataFirst
<1>4. /\ L!numPages * PageSize - L!UserStackSize = w
      /\ L!numPages - StackPages = StackFirst
      /\ L!numPages * PageSize = w + StackPages * PageSize
      /\ L!initVirtualAddr = c /\ L!uninitVirtualAddr = c + d
  <2>1. L!numPages = StackFirst + StackPages /\ StackFirst \in Nat /\ StackPages \in Nat
        /\ L!numPages * PageSize - L!UserStackSize = w
    BY <1>1, PagesAddUp, CountFacts, LayoutConstants
  <2>2. L!numPages * PageSize \in Nat
    BY <1>1, <1>2, <2>1
  <2>3. L!UserStackSize = StackPages * PageSize /\ StackPages * PageSize \in Nat
    BY <1>1, <1>2, <2>1 DEF L!UserStackSize
  <2> QED
    BY <1>1, <1>2, <1>3, <2>1, <2>2, <2>3 DEF L!initVirtualAddr, L!uninitVirtualAddr
<1>5. L!Translated(addr).addr = addr
  BY DEF L!Translated
<1>6. ASSUME addr \in L!CodeAddresses
      PROVE  InCode(L!Translated(addr), addr)
  <2>1. addr \in 0 .. c - 1
    BY <1>1, <1>6 DEF L!CodeAddresses
  <2>2. L!Segment(addr) = [addr |-> 0, page |-> 0]
    BY <1>1, <1>2, <1>3, <1>4, <2>1 DEF L!Segment
  <2>3. addr - 0 < CodeCount * PageSize
    BY <1>1, <1>2, <2>1
  <2> QED
    BY <1>2, <1>5, <1>6, <2>1, <2>2, <2>3, CountFacts, FoundBy DEF InCode
<1>7. ASSUME addr \in L!InitAddresses
      PROVE  InInit(L!Translated(addr), addr)
  <2>1. addr \in c .. c + d - 1
    BY <1>1, <1>4, <1>7 DEF L!InitAddresses
  <2>2. L!Segment(addr) = [addr |-> c, page |-> CodeCount]
    BY <1>1, <1>2, <1>3, <1>4, <2>1 DEF L!Segment, CodeCount
  <2>3. addr - c < InitCount * PageSize
    BY <1>1, <1>2, <2>1
  <2>4. addr \in Nat /\ c <= addr
    BY <1>2, <2>1
  <2> QED
    BY <1>1, <1>2, <1>5, <1>7, <2>2, <2>3, <2>4, CountFacts, FoundBy DEF InInit
<1>8. ASSUME addr \in L!UninitAddresses
      PROVE  InUninit(L!Translated(addr), addr)
  <2>1. addr \in c + d .. c + d + u - 1
    BY <1>1, <1>4, <1>8 DEF L!UninitAddresses
  <2>2. L!Segment(addr) = [addr |-> c + d, page |-> DataFirst]
    BY <1>1, <1>2, <1>3, <1>4, <2>1 DEF L!Segment, DataFirst, CodeCount, InitCount
  <2>3. addr - (c + d) < UninitCount * PageSize
    BY <1>1, <1>2, <2>1
  <2>4. addr \in Nat /\ c + d <= addr /\ c + d \in Nat
    BY <1>2, <2>1
  <2> QED
    BY <1>1, <1>2, <1>5, <1>8, <2>2, <2>3, <2>4, CountFacts, FoundBy DEF InUninit
<1>9. ASSUME addr \in L!StackAddresses
      PROVE  InStack(L!Translated(addr), addr)
  <2>1. PICK s : s = StackPages * PageSize /\ s \in Nat
    BY LayoutConstants
  <2>2. addr \in w .. w + s - 1
    <3>1. addr \in L!numPages * PageSize - L!UserStackSize .. L!numPages * PageSize - 1
      BY <1>9 DEF L!StackAddresses
    <3>2. PICK x, y : x = L!numPages * PageSize - L!UserStackSize /\ y = L!numPages * PageSize
      OBVIOUS
    <3>3. x = w /\ y = w + s
      BY Zenon, <1>4, <2>1, <3>2
    <3>4. addr \in x .. y - 1
      BY Zenon, <3>1, <3>2
    <3>5. y - 1 = w + s - 1
      BY <1>2, <1>3, <2>1, <3>3
    <3> QED
      BY <3>3, <3>4, <3>5
  <2>3. L!Segment(addr) = [addr |-> StackFirst * PageSize, page |-> StackFirst]
    BY <1>1, <1>2, <1>3, <1>4, <2>2 DEF L!Segment
  <2>4. addr - w < StackPages * PageSize
    BY <1>2, <1>3, <2>1, <2>2
  <2>5. addr \in Nat /\ w <= addr /\ w \in Nat
    BY <1>2, <1>3, <2>2
  <2> QED
    BY <1>1, <1>5, <1>9, <2>3, <2>4, <2>5, CountFacts, LayoutConstants, FoundBy DEF InStack
<1> QED
  BY Zenon, <1>5, <1>6, <1>7, <1>8, <1>9 DEF L!Addresses

\* The segments' addresses are apart, in this order.
LEMMA SegmentsApart ==
  ASSUME SizesOK, NEW addr
  PROVE  /\ addr \in L!CodeAddresses => L!SegmentOf(addr) = "vmcode"
         /\ addr \in L!InitAddresses =>
              addr \notin L!CodeAddresses /\ L!SegmentOf(addr) = "vminitData"
         /\ addr \in L!UninitAddresses =>
              addr \notin L!CodeAddresses \cup L!InitAddresses /\ L!SegmentOf(addr) = "vmuninitData"
         /\ addr \in L!StackAddresses =>
              /\ addr \notin L!CodeAddresses \cup L!InitAddresses \cup L!UninitAddresses
              /\ L!SegmentOf(addr) = "vmuserStack"
         /\ -1 \notin L!Addresses
<1>1. PICK z, c, d, u, a, b, e, w :
        /\ z = PageSize /\ c = code /\ d = initData /\ u = uninitData
        /\ a = CodeCount * PageSize /\ b = InitCount * PageSize /\ e = UninitCount * PageSize
        /\ w = StackFirst * PageSize
  OBVIOUS
<1>2. /\ z \in Nat \ {0} /\ c \in Nat \ {0} /\ d \in Nat /\ u \in Nat
      /\ a \in Nat /\ b \in Nat /\ e \in Nat /\ c <= a /\ d <= b /\ u <= e
  BY <1>1, LayoutConstants, CountFacts DEF Least
<1>3. w = a + b + e
  BY <1>1, <1>2, CountFacts DEF StackFirst, DataFirst
<1>4. PICK x, y : x = L!numPages * PageSize - L!UserStackSize /\ y = L!numPages * PageSize
  OBVIOUS
<1>5. x = w
  BY <1>1, <1>4, PagesAddUp
<1>6. L!StackAddresses = w .. y - 1
  BY Zenon, <1>4, <1>5 DEF L!StackAddresses
<1>7. /\ L!CodeAddresses = 0 .. c - 1
      /\ L!InitAddresses = c .. c + d - 1
      /\ L!UninitAddresses = c + d .. c + d + u - 1
  BY <1>1 DEF L!CodeAddresses, L!InitAddresses, L!UninitAddresses, L!initVirtualAddr, L!uninitVirtualAddr
<1>8. /\ addr \in L!InitAddresses => addr \notin L!CodeAddresses
      /\ addr \in L!UninitAddresses => addr \notin L!CodeAddresses /\ addr \notin L!InitAddresses
      /\ addr \in L!StackAddresses =>
           addr \notin L!CodeAddresses /\ addr \notin L!InitAddresses /\ addr \notin L!UninitAddresses
  BY <1>2, <1>3, <1>6, <1>7
<1>9. -1 \notin L!Addresses
  BY <1>2, <1>3, <1>6, <1>7 DEF L!Addresses
<1> QED
  BY <1>8, <1>9 DEF L!SegmentOf

\* A page and an offset in it are one byte of the program.
Home(v, o) ==
  o + (IF v < CodeCount THEN v * PageSize
       ELSE IF v < DataFirst THEN code + (v - CodeCount) * PageSize
       ELSE IF v < StackFirst THEN code + initData + (v - DataFirst) * PageSize
       ELSE StackFirst * PageSize + (v - StackFirst) * PageSize)

LEMMA AddressHome ==
  ASSUME SizesOK, NEW addr \in L!Addresses
  PROVE  LET t == L!Translated(addr)
         IN  /\ t.vpn \in L!Page /\ t.offset \in 0 .. PageSize - 1
             /\ t.addr = addr /\ addr = Home(t.vpn, t.offset)
<1>1. PICK t : t = L!Translated(addr)
  OBVIOUS
<1>2. /\ t.addr = addr
      /\ InCode(t, addr) \/ InInit(t, addr) \/ InUninit(t, addr) \/ InStack(t, addr)
  BY <1>1, AddressFound
<1>3. /\ L!Page = 0 .. StackFirst + StackPages - 1 /\ StackFirst * PageSize \in Nat
      /\ CodeCount \in Nat /\ InitCount \in Nat /\ UninitCount \in Nat
      /\ DataFirst = CodeCount + InitCount /\ StackFirst = DataFirst + UninitCount
      /\ StackPages \in Nat /\ PageSize \in Nat
      /\ code \in Nat /\ initData \in Nat
  BY CountFacts, PagesAddUp, LayoutConstants DEF DataFirst, StackFirst
<1>4. ASSUME NEW s \in Nat, NEW g \in Nat, NEW n \in Nat, FoundAt(t, s, g, n, addr)
      PROVE  /\ t.vpn \in Int /\ g <= t.vpn /\ t.vpn < g + n
             /\ t.offset \in 0 .. PageSize - 1
             /\ (t.vpn - g) * PageSize \in Int
             /\ addr = t.offset + (s + (t.vpn - g) * PageSize)
  BY <1>3, <1>4 DEF FoundAt
<1>5. CASE InCode(t, addr)
  <2>1. /\ t.vpn \in Int /\ 0 <= t.vpn /\ t.vpn < CodeCount
        /\ t.offset \in 0 .. PageSize - 1
        /\ addr = t.offset + (0 + (t.vpn - 0) * PageSize)
    BY <1>3, <1>4, <1>5 DEF InCode
  <2>2. addr = t.offset + t.vpn * PageSize
    BY <1>3, <2>1
  <2>3. addr = Home(t.vpn, t.offset)
    BY <2>1, <2>2 DEF Home
  <2>4. t.vpn \in L!Page
    BY <1>3, <2>1
  <2> QED
    BY <1>1, <1>2, <2>1, <2>3, <2>4
<1>6. CASE InInit(t, addr)
  <2>1. /\ t.vpn \in Int /\ CodeCount <= t.vpn /\ t.vpn < CodeCount + InitCount
        /\ t.offset \in 0 .. PageSize - 1
        /\ addr = t.offset + (code + (t.vpn - CodeCount) * PageSize)
    BY <1>3, <1>4, <1>6 DEF InInit
  <2>2. ~(t.vpn < CodeCount) /\ t.vpn < DataFirst
    BY <1>3, <2>1
  <2>3. addr = Home(t.vpn, t.offset)
    BY <2>1, <2>2 DEF Home
  <2>4. t.vpn \in L!Page
    BY <1>3, <2>1
  <2> QED
    BY <1>1, <1>2, <2>1, <2>3, <2>4
<1>7. CASE InUninit(t, addr)
  <2>1. /\ t.vpn \in Int /\ DataFirst <= t.vpn /\ t.vpn < DataFirst + UninitCount
        /\ t.offset \in 0 .. PageSize - 1
        /\ addr = t.offset + (code + initData + (t.vpn - DataFirst) * PageSize)
    BY <1>3, <1>4, <1>7 DEF InUninit
  <2>2. ~(t.vpn < CodeCount) /\ ~(t.vpn < DataFirst) /\ t.vpn < StackFirst
    BY <1>3, <2>1
  <2>3. addr = Home(t.vpn, t.offset)
    BY <2>1, <2>2 DEF Home
  <2>4. t.vpn \in L!Page
    BY <1>3, <2>1
  <2> QED
    BY <1>1, <1>2, <2>1, <2>3, <2>4
<1>8. CASE InStack(t, addr)
  <2>1. /\ t.vpn \in Int /\ StackFirst <= t.vpn /\ t.vpn < StackFirst + StackPages
        /\ t.offset \in 0 .. PageSize - 1
        /\ addr = t.offset + (StackFirst * PageSize + (t.vpn - StackFirst) * PageSize)
    BY <1>3, <1>4, <1>8 DEF InStack
  <2>2. ~(t.vpn < CodeCount) /\ ~(t.vpn < DataFirst) /\ ~(t.vpn < StackFirst)
    BY <1>3, <2>1
  <2>3. addr = Home(t.vpn, t.offset)
    BY <2>1, <2>2 DEF Home
  <2>4. t.vpn \in L!Page
    BY <1>3, <2>1
  <2> QED
    BY <1>1, <1>2, <2>1, <2>3, <2>4
<1> QED
  BY <1>2, <1>5, <1>6, <1>7, <1>8

-----------------------------------------------------------------------------
(* The page table.                                                         *)

SegmentTypes == {"vmcode", "vminitData", "vmuninitData", "vmuserStack", "unset"}

\* The pages of uninitialized data begin before those of initialized data end:
\* the case that AddrSpace::AddrSpace() gets wrong, and PageOfSegmentOneData excepts.
DataOverlap == uninitData > 0 /\ L!divRoundUp(code + initData, PageSize) < DataFirst

\* What the loops that are done have set.
StackLaid == \A p \in StackFirst .. StackFirst + StackPages - 1 : type[p] = "vmuserStack"

CodeLaid ==
  step # "code" => \A p \in 0 .. CodeCount - 1 :
    type[p] = "vmcode" /\ fileAddr[p] = HeaderSize + p * PageSize

InitLaid ==
  step \in {"uninitData", "run"} => \A p \in CodeCount .. DataFirst - 1 :
    /\ fileAddr[p] = HeaderSize + code + (p - CodeCount) * PageSize
    /\ step = "uninitData" \/ ~DataOverlap => type[p] = "vminitData"

UninitLaid ==
  step = "run" /\ ~DataOverlap =>
    \A p \in DataFirst .. StackFirst - 1 : type[p] = "vmuninitData"

\* The last address translated is one of the program's.
AccessDone ==
  \/ access = L!NoAccess
  \/ step = "run" /\ access.addr \in L!Addresses /\ access = L!Translated(access.addr)

TableTypeOK ==
  /\ SizesOK
  /\ type \in [L!Page -> SegmentTypes] /\ fileAddr \in [L!Page -> Int]
  /\ step \in {"code", "initData", "uninitData", "run"}

LayoutInv ==
  TableTypeOK /\ StackLaid /\ CodeLaid /\ InitLaid /\ UninitLaid /\ AccessDone

\* The bounds of the segments, in pages.
PageBounds ==
  /\ CodeCount \in Nat \ {0} /\ InitCount \in Nat /\ UninitCount \in Nat
  /\ DataFirst = CodeCount + InitCount /\ StackFirst = DataFirst + UninitCount
  /\ StackPages \in Nat \ {0} /\ PageSize \in Nat \ {0} /\ HeaderSize \in Nat
  /\ code \in Nat \ {0} /\ initData \in Nat /\ uninitData \in Nat
  /\ L!Page = 0 .. StackFirst + StackPages - 1

LEMMA PageBoundsHold == SizesOK => PageBounds
<1> SUFFICES ASSUME SizesOK
             PROVE  PageBounds
  OBVIOUS
<1>1. /\ CodeCount \in Nat \ {0} /\ InitCount \in Nat /\ UninitCount \in Nat
      /\ DataFirst = CodeCount + InitCount /\ StackFirst = DataFirst + UninitCount
  BY CountFacts DEF DataFirst, StackFirst
<1>2. /\ StackPages \in Nat \ {0} /\ PageSize \in Nat \ {0} /\ HeaderSize \in Nat
      /\ code \in Nat \ {0} /\ initData \in Nat /\ uninitData \in Nat
  BY LayoutConstants
<1>3. L!Page = 0 .. StackFirst + StackPages - 1
  BY PagesAddUp
<1> QED
  BY Zenon, <1>1, <1>2, <1>3 DEF PageBounds

\* The first page of uninitialized data that the constructor computes: behind
\* the code, and not behind the page where Translate() looks for it.
UninitFirst == L!divRoundUp(code + initData, PageSize)

LEMMA UninitFirstBounds ==
  ASSUME SizesOK
  PROVE  /\ UninitFirst \in Nat /\ CodeCount <= UninitFirst /\ UninitFirst <= DataFirst
         /\ DataOverlap => initData > 0
<1>1. PICK z, c, d : z = PageSize /\ c = code /\ d = initData
  OBVIOUS
<1>2. z \in Nat \ {0} /\ c \in Nat /\ d \in Nat /\ c + d \in Nat /\ c <= c + d
  BY <1>1, LayoutConstants
<1>3. Least(c + d, z, UninitFirst)
  BY <1>1, <1>2, RoundUpLeast DEF UninitFirst
<1>4. Least(c, z, CodeCount) /\ Least(d, z, InitCount)
  BY <1>1, CountFacts
<1>5. CodeCount <= UninitFirst
  BY <1>2, <1>3, <1>4, LeastGrows
<1>6. UninitFirst <= CodeCount + InitCount
  BY <1>2, <1>3, <1>4, LeastTogether
<1>7. UninitFirst \in Nat
  BY <1>3 DEF Least
<1>8. initData = 0 => InitCount = 0
  BY <1>1, <1>4 DEF Least
<1>9. DataOverlap => initData > 0
  <2>1. DataOverlap => UninitFirst < DataFirst
    BY DEF DataOverlap, UninitFirst
  <2>2. DataFirst = CodeCount + InitCount /\ CodeCount \in Nat /\ InitCount \in Nat
    BY CountFacts DEF DataFirst
  <2> QED
    BY <1>1, <1>2, <1>5, <1>7, <1>8, <2>1, <2>2
<1> QED
  BY <1>5, <1>6, <1>7, <1>9 DEF DataFirst

\* A step of the constructor or of Translate() keeps the sizes.
LEMMA SizesStay ==
  ASSUME UNCHANGED L!noffH
  PROVE  /\ code' = code /\ initData' = initData /\ uninitData' = uninitData
         /\ SizesOK' <=> SizesOK
         /\ L!Page' = L!Page
         /\ CodeCount' = CodeCount /\ DataFirst' = DataFirst /\ StackFirst' = StackFirst
         /\ DataOverlap' <=> DataOverlap
<1>1. code' = code /\ initData' = initData /\ uninitData' = uninitData
  BY DEF L!noffH
<1>2. SizesOK' <=> SizesOK
  BY <1>1 DEF SizesOK
<1>3. L!Page' = L!Page
  BY Zenon, <1>1 DEF L!Page, L!numPages, L!UserStackSize, L!divRoundUp
<1>4. CodeCount' = CodeCount /\ DataFirst' = DataFirst /\ StackFirst' = StackFirst
  BY Zenon, <1>1 DEF CodeCount, DataFirst, StackFirst, InitCount, UninitCount, L!divRoundUp
<1>5. DataOverlap' <=> DataOverlap
  BY Zenon, <1>1, <1>4 DEF DataOverlap, L!divRoundUp
<1> QED
  BY Zenon, <1>1, <1>2, <1>3, <1>4, <1>5

LEMMA LayoutInit == L!Init => LayoutInv
<1> SUFFICES ASSUME L!Init
             PROVE  LayoutInv
  OBVIOUS
<1>1. SizesOK
  BY DEF L!Init, SizesOK
<1>2. PageBounds
  BY <1>1, PageBoundsHold
<1>3. /\ type = [p \in L!Page |-> IF p >= L!numPages - StackPages THEN "vmuserStack" ELSE "unset"]
      /\ fileAddr = [p \in L!Page |-> -1]
      /\ step = "code" /\ access = L!NoAccess
  BY DEF L!Init
<1>4. L!numPages - StackPages = StackFirst
  <2>1. L!numPages = StackFirst + StackPages
    BY <1>1, PagesAddUp
  <2> QED
    BY <1>2, <2>1 DEF PageBounds
<1>5. PICK x : x = L!numPages - StackPages
  OBVIOUS
<1>6. type = [p \in L!Page |-> IF p >= x THEN "vmuserStack" ELSE "unset"] /\ x = StackFirst
  BY Zenon, <1>3, <1>4, <1>5
<1>7. TableTypeOK
  BY <1>1, <1>3, <1>6 DEF TableTypeOK, SegmentTypes
<1>8. StackLaid
  BY <1>2, <1>6 DEF StackLaid, PageBounds
<1>9. CodeLaid /\ InitLaid /\ UninitLaid /\ AccessDone
  BY <1>3 DEF CodeLaid, InitLaid, UninitLaid, AccessDone
<1> QED
  BY <1>7, <1>8, <1>9 DEF LayoutInv

\* What a loop of the constructor does to the types and the places of pages.
TypesSet(firstP, numP, t) ==
  /\ type' \in [L!Page -> SegmentTypes]
  /\ \A p \in L!Page : type'[p] = IF firstP <= p /\ p < firstP + numP THEN t ELSE type[p]

PlacesSet(firstP, numP, address) ==
  /\ fileAddr' \in [L!Page -> Int]
  /\ \A p \in L!Page : fileAddr'[p] = IF firstP <= p /\ p < firstP + numP
                                      THEN address + (p - firstP) * PageSize ELSE fileAddr[p]

LEMMA TypesAreSet ==
  ASSUME type \in [L!Page -> SegmentTypes], NEW firstP, NEW numP, NEW t \in SegmentTypes,
         L!TypePages(firstP, numP, t)
  PROVE  TypesSet(firstP, numP, t)
BY DEF TypesSet, L!TypePages

LEMMA PlacesAreSet ==
  ASSUME TableTypeOK, NEW firstP \in Nat, NEW numP, NEW address \in Nat,
         L!PagesFrom(firstP, numP, address)
  PROVE  PlacesSet(firstP, numP, address)
<1>1. PageBounds /\ fileAddr \in [L!Page -> Int]
  BY PageBoundsHold DEF TableTypeOK
<1>2. \A p \in L!Page : address + (p - firstP) * PageSize \in Int
  BY <1>1 DEF PageBounds
<1> QED
  BY <1>1, <1>2 DEF PlacesSet, L!PagesFrom

LEMMA LayCodeStep ==
  ASSUME LayoutInv, L!LayCode
  PROVE  LayoutInv'
<1>1. TableTypeOK /\ StackLaid /\ AccessDone /\ SizesOK /\ PageBounds
  BY PageBoundsHold DEF LayoutInv, TableTypeOK
<1>2. /\ step = "code" /\ step' = "initData" /\ access' = access
      /\ L!TypePages(0, CodeCount, "vmcode") /\ L!PagesFrom(0, CodeCount, HeaderSize)
      /\ UNCHANGED L!noffH
  BY Zenon DEF L!LayCode, CodeCount
<1>3. TypesSet(0, CodeCount, "vmcode") /\ PlacesSet(0, CodeCount, HeaderSize)
  <2>1. type \in [L!Page -> SegmentTypes] /\ "vmcode" \in SegmentTypes
    BY <1>1 DEF TableTypeOK, SegmentTypes
  <2>2. TypesSet(0, CodeCount, "vmcode")
    BY Zenon, <1>2, <2>1, TypesAreSet
  <2>3. HeaderSize \in Nat /\ 0 \in Nat
    BY <1>1 DEF PageBounds
  <2> QED
    BY <1>1, <1>2, <2>2, <2>3, PlacesAreSet
<1>4. TableTypeOK'
  BY <1>1, <1>2, <1>3, SizesStay DEF TableTypeOK, TypesSet, PlacesSet
<1>5. StackLaid'
  <2>1. \A p \in StackFirst .. StackFirst + StackPages - 1 : p \in L!Page /\ ~(p < 0 + CodeCount)
    BY <1>1 DEF PageBounds
  <2> QED
    BY <1>1, <1>2, <1>3, <2>1, SizesStay DEF StackLaid, TypesSet
<1>6. CodeLaid'
  <2>1. \A p \in 0 .. CodeCount - 1 :
          /\ p \in L!Page /\ 0 <= p /\ p < 0 + CodeCount
          /\ HeaderSize + (p - 0) * PageSize = HeaderSize + p * PageSize
    BY <1>1 DEF PageBounds
  <2>2. \A p \in 0 .. CodeCount - 1 : type'[p] = "vmcode" /\ fileAddr'[p] = HeaderSize + p * PageSize
    BY <1>3, <2>1 DEF TypesSet, PlacesSet
  <2> QED
    BY <1>2, <2>2, SizesStay DEF CodeLaid
<1>7. InitLaid' /\ UninitLaid'
  BY <1>2 DEF InitLaid, UninitLaid
<1>8. AccessDone'
  BY <1>1, <1>2 DEF AccessDone, L!NoAccess
<1> QED
  BY <1>4, <1>5, <1>6, <1>7, <1>8 DEF LayoutInv

LEMMA LayInitDataStep ==
  ASSUME LayoutInv, L!LayInitData
  PROVE  LayoutInv'
<1>1. TableTypeOK /\ StackLaid /\ CodeLaid /\ AccessDone /\ SizesOK /\ PageBounds
  BY PageBoundsHold DEF LayoutInv, TableTypeOK
<1>2. /\ step = "initData" /\ step' = "uninitData" /\ access' = access
      /\ UNCHANGED L!noffH
      /\ IF initData > 0
         THEN /\ L!TypePages(CodeCount, InitCount, "vminitData")
              /\ L!PagesFrom(CodeCount, InitCount, HeaderSize + code)
         ELSE UNCHANGED <<type, fileAddr>>
  BY Zenon DEF L!LayInitData, CodeCount, InitCount, L!initVirtualAddr, L!initInFileAddr
<1>3. initData = 0 => InitCount = 0
  BY <1>1, CountFacts DEF Least
<1>4. TypesSet(CodeCount, InitCount, "vminitData")
      /\ PlacesSet(CodeCount, InitCount, HeaderSize + code)
  <2>1. CASE initData > 0
    <3>1. type \in [L!Page -> SegmentTypes] /\ "vminitData" \in SegmentTypes
      BY <1>1 DEF TableTypeOK, SegmentTypes
    <3>2. TypesSet(CodeCount, InitCount, "vminitData")
      BY Zenon, <1>2, <2>1, <3>1, TypesAreSet
    <3>3. HeaderSize + code \in Nat /\ CodeCount \in Nat
      BY <1>1 DEF PageBounds
    <3> QED
      BY <1>1, <1>2, <2>1, <3>2, <3>3, PlacesAreSet
  <2>2. CASE initData = 0
    <3>1. \A p \in L!Page : ~(CodeCount <= p /\ p < CodeCount + InitCount)
      BY <1>1, <1>3, <2>2 DEF PageBounds
    <3>2. type' = type /\ fileAddr' = fileAddr
      BY <1>2, <2>2
    <3> QED
      BY <1>1, <3>1, <3>2 DEF TypesSet, PlacesSet, TableTypeOK
  <2> QED
    BY <1>1, <2>1, <2>2 DEF PageBounds
<1>5. TableTypeOK'
  BY <1>1, <1>2, <1>4, SizesStay DEF TableTypeOK, TypesSet, PlacesSet
<1>6. StackLaid'
  <2>1. \A p \in StackFirst .. StackFirst + StackPages - 1 :
          p \in L!Page /\ ~(p < CodeCount + InitCount)
    BY <1>1 DEF PageBounds
  <2> QED
    BY <1>1, <1>2, <1>4, <2>1, SizesStay DEF StackLaid, TypesSet
<1>7. CodeLaid'
  <2>1. \A p \in 0 .. CodeCount - 1 : p \in L!Page /\ ~(CodeCount <= p)
    BY <1>1 DEF PageBounds
  <2>2. \A p \in 0 .. CodeCount - 1 : type'[p] = "vmcode" /\ fileAddr'[p] = HeaderSize + p * PageSize
    BY <1>1, <1>2, <1>4, <2>1 DEF CodeLaid, TypesSet, PlacesSet
  <2> QED
    BY <1>2, <2>2, SizesStay DEF CodeLaid
<1>8. InitLaid'
  <2>1. \A p \in CodeCount .. DataFirst - 1 :
          p \in L!Page /\ CodeCount <= p /\ p < CodeCount + InitCount
    BY <1>1 DEF PageBounds
  <2>2. \A p \in CodeCount .. DataFirst - 1 :
          /\ type'[p] = "vminitData"
          /\ fileAddr'[p] = HeaderSize + code + (p - CodeCount) * PageSize
    BY <1>4, <2>1 DEF TypesSet, PlacesSet
  <2> QED
    BY <1>2, <2>2, SizesStay DEF InitLaid
<1>9. UninitLaid' /\ AccessDone'
  BY <1>1, <1>2 DEF UninitLaid, AccessDone, L!NoAccess
<1> QED
  BY <1>5, <1>6, <1>7, <1>8, <1>9 DEF LayoutInv

LEMMA LayUninitDataStep ==
  ASSUME LayoutInv, L!LayUninitData
  PROVE  LayoutInv'
<1>1. TableTypeOK /\ StackLaid /\ CodeLaid /\ InitLaid /\ AccessDone /\ SizesOK /\ PageBounds
  BY PageBoundsHold DEF LayoutInv, TableTypeOK
<1>2. /\ step = "uninitData" /\ step' = "run" /\ access' = access /\ fileAddr' = fileAddr
      /\ UNCHANGED L!noffH
      /\ IF uninitData > 0 THEN L!TypePages(UninitFirst, UninitCount, "vmuninitData")
                           ELSE UNCHANGED type
  BY Zenon DEF L!LayUninitData, UninitFirst, UninitCount, L!uninitVirtualAddr
<1>3. uninitData = 0 => UninitCount = 0
  BY <1>1, CountFacts DEF Least
<1>4. /\ UninitFirst \in Nat /\ CodeCount <= UninitFirst /\ UninitFirst <= DataFirst
      /\ uninitData > 0 /\ ~DataOverlap => UninitFirst = DataFirst
  <2>1. UninitFirst \in Nat /\ CodeCount <= UninitFirst /\ UninitFirst <= DataFirst
    BY <1>1, UninitFirstBounds
  <2>2. uninitData > 0 /\ ~DataOverlap => ~(UninitFirst < DataFirst)
    BY Zenon DEF DataOverlap, UninitFirst
  <2> QED
    BY <1>1, <2>1, <2>2 DEF PageBounds
<1>5. TypesSet(UninitFirst, UninitCount, "vmuninitData")
  <2>1. CASE uninitData > 0
    <3>1. type \in [L!Page -> SegmentTypes] /\ "vmuninitData" \in SegmentTypes
      BY <1>1 DEF TableTypeOK, SegmentTypes
    <3> QED
      BY Zenon, <1>2, <2>1, <3>1, TypesAreSet
  <2>2. CASE uninitData = 0
    <3>1. \A p \in L!Page : ~(UninitFirst <= p /\ p < UninitFirst + UninitCount)
      BY <1>1, <1>3, <1>4, <2>2 DEF PageBounds
    <3>2. type' = type
      BY <1>2, <2>2
    <3> QED
      BY <1>1, <3>1, <3>2 DEF TypesSet, TableTypeOK
  <2> QED
    BY <1>1, <2>1, <2>2 DEF PageBounds
<1>6. TableTypeOK'
  BY <1>1, <1>2, <1>5, SizesStay DEF TableTypeOK, TypesSet
<1>7. StackLaid'
  <2>1. \A p \in StackFirst .. StackFirst + StackPages - 1 :
          p \in L!Page /\ ~(p < UninitFirst + UninitCount)
    BY <1>1, <1>4 DEF PageBounds
  <2> QED
    BY <1>1, <1>2, <1>5, <2>1, SizesStay DEF StackLaid, TypesSet
<1>8. CodeLaid'
  <2>1. \A p \in 0 .. CodeCount - 1 : p \in L!Page /\ ~(UninitFirst <= p)
    BY <1>1, <1>4 DEF PageBounds
  <2>2. \A p \in 0 .. CodeCount - 1 : type'[p] = "vmcode" /\ fileAddr'[p] = HeaderSize + p * PageSize
    BY <1>1, <1>2, <1>5, <2>1 DEF CodeLaid, TypesSet
  <2> QED
    BY <1>2, <2>2, SizesStay DEF CodeLaid
<1>9. InitLaid'
  <2>1. \A p \in CodeCount .. DataFirst - 1 :
          fileAddr'[p] = HeaderSize + code + (p - CodeCount) * PageSize
    BY <1>1, <1>2 DEF InitLaid
  <2>2. ASSUME ~DataOverlap
        PROVE  \A p \in CodeCount .. DataFirst - 1 : type'[p] = "vminitData"
    <3>1. \A p \in CodeCount .. DataFirst - 1 :
            p \in L!Page /\ ~(UninitFirst <= p /\ p < UninitFirst + UninitCount)
      BY <1>1, <1>3, <1>4, <2>2 DEF PageBounds
    <3>2. \A p \in CodeCount .. DataFirst - 1 : type[p] = "vminitData"
      BY <1>1, <1>2 DEF InitLaid
    <3> QED
      BY <1>5, <3>1, <3>2 DEF TypesSet
  <2> QED
    BY <1>2, <2>1, <2>2, SizesStay DEF InitLaid
<1>10. UninitLaid'
  <2>1. ASSUME ~DataOverlap
        PROVE  \A p \in DataFirst .. StackFirst - 1 : type'[p] = "vmuninitData"
    <3>1. \A p \in DataFirst .. StackFirst - 1 :
            p \in L!Page /\ UninitFirst <= p /\ p < UninitFirst + UninitCount
      BY <1>1, <1>3, <1>4, <2>1 DEF PageBounds
    <3> QED
      BY <1>5, <3>1 DEF TypesSet
  <2> QED
    BY <1>2, <2>1, SizesStay DEF UninitLaid
<1>11. AccessDone'
  BY <1>1, <1>2 DEF AccessDone, L!NoAccess
<1> QED
  BY <1>6, <1>7, <1>8, <1>9, <1>10, <1>11 DEF LayoutInv

\* An address is translated by the sizes alone.
LEMMA TranslationStays ==
  ASSUME UNCHANGED L!noffH
  PROVE  L!Addresses' = L!Addresses /\ \A addr : L!Translated(addr)' = L!Translated(addr)
<1>1. code' = code /\ initData' = initData /\ uninitData' = uninitData
  BY DEF L!noffH
<1> QED
  BY Zenon, <1>1 DEF L!Addresses, L!CodeAddresses, L!InitAddresses, L!UninitAddresses,
    L!StackAddresses, L!Translated, L!Segment, L!initVirtualAddr, L!uninitVirtualAddr, L!numPages,
    L!UserStackSize, L!divRoundUp

LEMMA TranslateStep ==
  ASSUME LayoutInv, NEW addr \in L!Addresses, L!Translate(addr)
  PROVE  LayoutInv'
<1>1. /\ step = "run" /\ access' = L!Translated(addr)
      /\ UNCHANGED L!noffH /\ type' = type /\ fileAddr' = fileAddr /\ step' = step
  BY DEF L!Translate
<1>2. TableTypeOK' /\ StackLaid' /\ CodeLaid' /\ InitLaid' /\ UninitLaid'
  BY <1>1, SizesStay DEF LayoutInv, TableTypeOK, StackLaid, CodeLaid, InitLaid, UninitLaid
<1>3. AccessDone'
  <2>1. L!Translated(addr).addr = addr
    BY DEF L!Translated
  <2>2. access'.addr = addr
    BY <1>1, <2>1
  <2>3. PICK t : t = L!Translated(addr)
    OBVIOUS
  <2>4. L!Translated(addr)' = t /\ access' = t /\ addr \in L!Addresses'
    BY Zenon, <1>1, <2>3, TranslationStays
  <2> QED
    BY Zenon, <1>1, <2>2, <2>4 DEF AccessDone
<1> QED
  BY <1>2, <1>3 DEF LayoutInv

-----------------------------------------------------------------------------
LEMMA LayoutTypeOK == LayoutInv => L!TypeOK
<1> SUFFICES ASSUME LayoutInv
             PROVE  L!TypeOK
  OBVIOUS
<1>1. TableTypeOK /\ SizesOK /\ AccessDone
  BY DEF LayoutInv, TableTypeOK
<1>2. access # L!NoAccess => access.vpn \in L!Page /\ access.offset \in 0 .. PageSize - 1
  BY <1>1, AddressHome DEF AccessDone
<1> QED
  BY Zenon, <1>1, <1>2 DEF L!TypeOK, TableTypeOK, SizesOK, SegmentTypes

LEMMA NothingAliased == LayoutInv => L!NoAliasing
<1> SUFFICES ASSUME LayoutInv
             PROVE  L!NoAliasing
  OBVIOUS
<1>1. SizesOK /\ AccessDone
  BY DEF LayoutInv, TableTypeOK
<1>2. ASSUME NEW addr \in L!Addresses,
             L!Translated(addr).vpn = access.vpn, L!Translated(addr).offset = access.offset
      PROVE  addr = access.addr
  <2>1. addr = Home(access.vpn, access.offset) /\ L!Translated(addr).vpn \in L!Page
    BY <1>1, <1>2, AddressHome
  <2>2. CASE access = L!NoAccess
    <3>1. access.vpn = -1
      BY <2>2 DEF L!NoAccess
    <3>2. -1 \notin L!Page
      BY DEF L!Page
    <3> QED
      BY <1>2, <2>1, <3>1, <3>2
  <2>3. CASE access.addr \in L!Addresses /\ access = L!Translated(access.addr)
    <3>1. access.addr = Home(access.vpn, access.offset)
      BY <1>1, <2>3, AddressHome
    <3> QED
      BY <2>1, <3>1
  <2> QED
    BY <1>1, <2>2, <2>3 DEF AccessDone
<1>3. \A addr \in L!Addresses :
        addr # access.addr =>
          <<L!Translated(addr).vpn, L!Translated(addr).offset>> # <<access.vpn, access.offset>>
  BY <1>2
<1> QED
  BY Zenon, <1>3, LayoutTypeOK DEF L!NoAliasing

\* The page of an address, in pages.
LEMMA AccessPage ==
  ASSUME LayoutInv, access.addr \in L!Addresses
  PROVE  /\ step = "run" /\ PageBounds
         /\ access.addr \in L!CodeAddresses => InCode(access, access.addr)
         /\ access.addr \in L!InitAddresses => InInit(access, access.addr)
         /\ access.addr \in L!UninitAddresses => InUninit(access, access.addr)
         /\ access.addr \in L!StackAddresses => InStack(access, access.addr)
<1>1. SizesOK /\ AccessDone /\ PageBounds
  BY PageBoundsHold DEF LayoutInv, TableTypeOK
<1>2. access # L!NoAccess
  BY <1>1, SegmentsApart DEF L!NoAccess
<1>3. step = "run" /\ access = L!Translated(access.addr)
  BY <1>1, <1>2 DEF AccessDone
<1>4. PICK a : a = access.addr
  OBVIOUS
<1>5. a \in L!Addresses /\ access = L!Translated(a)
  BY <1>3, <1>4
<1>6. /\ a \in L!CodeAddresses => InCode(access, a)
      /\ a \in L!InitAddresses => InInit(access, a)
      /\ a \in L!UninitAddresses => InUninit(access, a)
      /\ a \in L!StackAddresses => InStack(access, a)
  BY <1>1, <1>5, AddressFound
<1> QED
  BY Zenon, <1>1, <1>3, <1>4, <1>6

LEMMA LayoutFindsInFile == LayoutInv => L!FoundInFile
<1> SUFFICES ASSUME LayoutInv, access.addr \in L!CodeAddresses \cup L!InitAddresses
             PROVE  fileAddr[access.vpn] + access.offset = HeaderSize + access.addr
  BY DEF L!FoundInFile
<1>1. access.addr \in L!Addresses
  BY DEF L!Addresses
<1>2. step = "run" /\ PageBounds /\ CodeLaid /\ InitLaid
  BY <1>1, AccessPage DEF LayoutInv
<1>3. CASE access.addr \in L!CodeAddresses
  <2>1. FoundAt(access, 0, 0, CodeCount, access.addr)
    BY <1>1, <1>3, AccessPage DEF InCode
  <2>2. PICK v, o, x : v = access.vpn /\ o = access.offset /\ x = access.addr
    OBVIOUS
  <2>3. v \in 0 .. 0 + CodeCount - 1 /\ o \in 0 .. PageSize - 1 /\ x = 0 + (v - 0) * PageSize + o
    BY <2>1, <2>2 DEF FoundAt
  <2>4. v \in 0 .. CodeCount - 1
    BY <1>2, <2>3 DEF PageBounds
  <2>5. fileAddr[v] = HeaderSize + v * PageSize
    BY <1>2, <2>4 DEF CodeLaid
  <2>6. fileAddr[v] + o = HeaderSize + x
    BY <1>2, <2>3, <2>4, <2>5 DEF PageBounds
  <2> QED
    BY <2>2, <2>6
<1>4. CASE access.addr \in L!InitAddresses
  <2>1. FoundAt(access, code, CodeCount, InitCount, access.addr)
    BY <1>1, <1>4, AccessPage DEF InInit
  <2>2. PICK v, o, x : v = access.vpn /\ o = access.offset /\ x = access.addr
    OBVIOUS
  <2>3. /\ v \in CodeCount .. CodeCount + InitCount - 1 /\ o \in 0 .. PageSize - 1
        /\ x = code + (v - CodeCount) * PageSize + o
    BY <2>1, <2>2 DEF FoundAt
  <2>4. v \in CodeCount .. DataFirst - 1
    BY <1>2, <2>3 DEF PageBounds
  <2>5. fileAddr[v] = HeaderSize + code + (v - CodeCount) * PageSize
    BY <1>2, <2>4 DEF InitLaid
  <2>6. (v - CodeCount) * PageSize \in Int
    BY <1>2, <2>3 DEF PageBounds
  <2>7. fileAddr[v] + o = HeaderSize + x
    BY <1>2, <2>3, <2>5, <2>6 DEF PageBounds
  <2> QED
    BY <2>2, <2>7
<1> QED
  BY <1>3, <1>4

LEMMA LayoutFindsType == LayoutInv => L!PageOfSegmentOneData
<1> SUFFICES ASSUME LayoutInv, access.addr \in L!Addresses,
                    ~(/\ access.addr \in L!InitAddresses \cup L!UninitAddresses
                      /\ initData > 0 /\ uninitData > 0
                      /\ L!divRoundUp(code + initData, PageSize)
                           < L!divRoundUp(code, PageSize) + L!divRoundUp(initData, PageSize))
             PROVE  type[access.vpn] = L!SegmentOf(access.addr)
  BY DEF L!PageOfSegmentOneData, L!PageOfSegment
<1>1. step = "run" /\ PageBounds /\ SizesOK /\ StackLaid /\ CodeLaid /\ InitLaid /\ UninitLaid
  BY AccessPage DEF LayoutInv, TableTypeOK
<1>2. access.addr \in L!InitAddresses \cup L!UninitAddresses => ~DataOverlap
  <2>1. DataOverlap => /\ initData > 0 /\ uninitData > 0
                       /\ L!divRoundUp(code + initData, PageSize)
                            < L!divRoundUp(code, PageSize) + L!divRoundUp(initData, PageSize)
    BY <1>1, UninitFirstBounds DEF DataOverlap, DataFirst, CodeCount, InitCount
  <2> QED
    BY Zenon, <2>1
<1>3. PICK v : v = access.vpn
  OBVIOUS
<1>4. CASE access.addr \in L!CodeAddresses
  <2>1. FoundAt(access, 0, 0, CodeCount, access.addr)
    BY <1>4, AccessPage DEF InCode
  <2>2. v \in 0 .. CodeCount - 1
    BY <1>1, <1>3, <2>1 DEF FoundAt, PageBounds
  <2> QED
    BY <1>1, <1>3, <1>4, <2>2, SegmentsApart DEF CodeLaid
<1>5. CASE access.addr \in L!InitAddresses
  <2>1. FoundAt(access, code, CodeCount, InitCount, access.addr)
    BY <1>5, AccessPage DEF InInit
  <2>2. v \in CodeCount .. DataFirst - 1
    BY <1>1, <1>3, <2>1 DEF FoundAt, PageBounds
  <2>3. ~DataOverlap
    BY <1>2, <1>5
  <2> QED
    BY <1>1, <1>3, <1>5, <2>2, <2>3, SegmentsApart DEF InitLaid
<1>6. CASE access.addr \in L!UninitAddresses
  <2>1. FoundAt(access, code + initData, DataFirst, UninitCount, access.addr)
    BY <1>6, AccessPage DEF InUninit
  <2>2. v \in DataFirst .. StackFirst - 1
    BY <1>1, <1>3, <2>1 DEF FoundAt, PageBounds
  <2>3. ~DataOverlap
    BY <1>2, <1>6
  <2> QED
    BY <1>1, <1>3, <1>6, <2>2, <2>3, SegmentsApart DEF UninitLaid
<1>7. CASE access.addr \in L!StackAddresses
  <2>1. FoundAt(access, StackFirst * PageSize, StackFirst, StackPages, access.addr)
    BY <1>7, AccessPage DEF InStack
  <2>2. v \in StackFirst .. StackFirst + StackPages - 1
    BY <1>3, <2>1 DEF FoundAt
  <2> QED
    BY <1>1, <1>3, <1>7, <2>2, SegmentsApart DEF StackLaid
<1> QED
  BY <1>4, <1>5, <1>6, <1>7 DEF L!Addresses

\* Every byte of a program has a place of its own in its pages, and a page
\* fault brings it in from where the linker put it, whatever the sizes of the
\* segments: AddrSpace::AddrSpace() against AddrSpace::Translate().
THEOREM AddressesFound == UserProgramSpec => []FaultReadsRightPage
<1> DEFINE Inv == subject = "layout" => LayoutInv
<1>1. UserProgramInit => Inv
  BY LayoutInit DEF UserProgramInit
<1>2. Inv /\ [UserProgramNext]_everyVar => Inv'
  <2> SUFFICES ASSUME Inv, [UserProgramNext]_everyVar, subject' = "layout"
               PROVE  LayoutInv'
    OBVIOUS
  <2>1. CASE subject = "layout" /\ L!Next
    <3>1. LayoutInv
      BY <2>1
    <3> QED
      BY <2>1, <3>1, LayCodeStep, LayInitDataStep, LayUninitDataStep, TranslateStep DEF L!Next
  <2>2. CASE UNCHANGED layoutVars /\ UNCHANGED subject
    <3>1. /\ LayoutInv
          /\ UNCHANGED L!noffH /\ type' = type /\ fileAddr' = fileAddr /\ step' = step
          /\ access' = access
      BY <2>2 DEF layoutVars, L!noffH
    <3>2. TableTypeOK' /\ StackLaid' /\ CodeLaid' /\ InitLaid' /\ UninitLaid'
      BY <3>1, SizesStay DEF LayoutInv, TableTypeOK, StackLaid, CodeLaid, InitLaid, UninitLaid
    <3>3. AccessDone'
      <4>1. PICK a : a = access.addr
        OBVIOUS
      <4>2. L!Translated(a)' = L!Translated(a) /\ L!Addresses' = L!Addresses
        BY <3>1, TranslationStays
      <4>3. CASE access = L!NoAccess
        <5>1. access' = L!NoAccess'
          BY Zenon, <3>1, <4>3 DEF L!NoAccess
        <5> QED
          BY Zenon, <5>1 DEF AccessDone
      <4>4. CASE step = "run" /\ a \in L!Addresses /\ access = L!Translated(a)
        <5>1. PICK t : t = L!Translated(a)
          OBVIOUS
        <5>2. L!Translated(a)' = t /\ access' = t /\ a \in L!Addresses' /\ step' = "run"
          BY Zenon, <3>1, <4>2, <4>4, <5>1
        <5>3. access'.addr = a
          BY Zenon, <3>1, <4>1
        <5> QED
          BY Zenon, <5>2, <5>3 DEF AccessDone
      <4>5. AccessDone
        BY <3>1 DEF LayoutInv
      <4> QED
        BY Zenon, <4>1, <4>3, <4>4, <4>5 DEF AccessDone
    <3> QED
      BY <3>2, <3>3 DEF LayoutInv
  <2> QED
    BY <2>1, <2>2 DEF UserProgramNext, everyVar
<1>3. Inv => FaultReadsRightPage
  BY NothingAliased, LayoutFindsInFile, LayoutFindsType DEF FaultReadsRightPage, L!FaultReadsRightPage
<1> QED
  BY <1>1, <1>2, <1>3, PTL DEF UserProgramSpec

-----------------------------------------------------------------------------
(* The two loaders.                                                        *)

Paddr(n) == sections[n].s_paddr
Size(n) == sections[n].s_size
Name(n) == sections[n].s_name

Byte == Nat \X Nat
SegmentRecord == [virtualAddr : Nat \cup {NULL}, inFileAddr : Nat \cup {NULL}, size : Nat]

LoaderTypeOK ==
  /\ sections \in Images
  /\ nextSection \in 1 .. Len(sections) + 1
  /\ tool \in {"noff", "flat", "done", "refused"}
  /\ noffH \in [{"code", "initData", "uninitData"} -> SegmentRecord]
  /\ noffFile \in Seq(Byte) /\ flat \in Seq(Byte) /\ top \in Nat

\* The sections that coff2noff, and coff2flat, have been through.
NoffSeen == IF tool \in {"noff", "refused"} THEN 1 .. nextSection - 1 ELSE DOMAIN sections
FlatSeen == IF tool = "flat" THEN 1 .. nextSection - 1
            ELSE IF tool = "done" THEN DOMAIN sections ELSE {}

\* A segment of the NOFF file is a section.
IsSegment(s, n) ==
  /\ Size(n) > 0 /\ C!StoredAt(n)
  /\ s = "code" => Name(n) = ".text"
  /\ noffH[s].virtualAddr = Paddr(n) /\ noffH[s].size = Size(n)
  /\ noffH[s].inFileAddr \in Nat /\ HeaderSize <= noffH[s].inFileAddr
  /\ noffH[s].inFileAddr - HeaderSize + Size(n) <= Len(noffFile)
  /\ \A k \in 1 .. Size(n) : noffFile[noffH[s].inFileAddr - HeaderSize + k] = <<n, k>>

\* Every segment is a section, and every section with bytes is a segment.
SegmentsStored ==
  /\ \A s \in {"code", "initData"} :
       noffH[s].size > 0 => \E n \in NoffSeen : IsSegment(s, n)
  /\ \A n \in NoffSeen :
       Size(n) > 0 /\ C!StoredAt(n) => \E s \in {"code", "initData"} : IsSegment(s, n)

\* The sections without bytes are the last segment.
UninitParts == {n \in NoffSeen : ~C!StoredAt(n) /\ Size(n) > 0}

UninitKept ==
  /\ noffH["uninitData"].size = 0 <=> UninitParts = {}
  /\ UninitParts # {} => \E n \in UninitParts : noffH["uninitData"].virtualAddr = Paddr(n)
  /\ \A n \in UninitParts : UninitParts = {n} => noffH["uninitData"].size = Size(n)

\* The flat file: one section behind the other, below its top.
FlatWritten ==
  /\ tool \in {"noff", "refused"} \/ (tool = "flat" /\ nextSection = 1) => flat = <<>> /\ top = 0
  /\ C!Packed => \A n \in FlatSeen : C!StoredAt(n) =>
       /\ Paddr(n) + Size(n) <= Len(flat)
       /\ \A k \in 1 .. Size(n) : flat[Paddr(n) + k] = <<n, k>>
  /\ C!Packed /\ tool = "flat" /\ nextSection > 1 =>
       (C!StoredAt(nextSection - 1) =>
          Len(flat) = Paddr(nextSection - 1) + Size(nextSection - 1))
  /\ \A n \in FlatSeen : Paddr(n) + Size(n) <= top - (IF tool = "done" THEN StackSize ELSE 0)

LoaderInv == LoaderTypeOK /\ SegmentsStored /\ UninitKept /\ FlatWritten

SectionRecord == [s_name : STRING, s_paddr : Nat, s_size : Nat]

LEMMA LoaderConstants ==
  /\ HeaderSize \in Nat /\ StackSize \in Nat
  /\ sections \in Images => sections \in Seq(SectionRecord)
  /\ sections \in Images => C!LinkerOutput(sections)
BY CoffAssumption DEF C!ConstantsOK, SectionRecord

LEMMA SectionFacts ==
  ASSUME sections \in Images
  PROVE  /\ Len(sections) \in Nat /\ DOMAIN sections = 1 .. Len(sections)
         /\ \A n \in DOMAIN sections : Paddr(n) \in Nat /\ Size(n) \in Nat
<1>1. sections \in Seq(SectionRecord)
  BY LoaderConstants
<1>2. Len(sections) \in Nat /\ DOMAIN sections = 1 .. Len(sections)
  BY <1>1
<1>3. ASSUME NEW n \in DOMAIN sections
      PROVE  Paddr(n) \in Nat /\ Size(n) \in Nat
  <2>1. sections[n] \in SectionRecord
    BY <1>1, <1>2, <1>3, ElementOfSeq
  <2> QED
    BY <2>1 DEF Paddr, Size, SectionRecord
<1> QED
  BY <1>2, <1>3

\* Sections with bytes are apart, and those without are behind.
LEMMA SectionsApart ==
  ASSUME sections \in Images, NEW m \in DOMAIN sections, NEW n \in DOMAIN sections,
         Size(m) > 0, Size(n) > 0, m # n
  PROVE  /\ Paddr(m) + Size(m) <= Paddr(n) \/ Paddr(n) + Size(n) <= Paddr(m)
         /\ ~(Name(m) = ".text" /\ Name(n) = ".text")
         /\ C!StoredAt(m) /\ ~C!StoredAt(n) => Paddr(m) + Size(m) <= Paddr(n)
<1>1. C!LinkerOutput(sections)
  BY LoaderConstants
<1>2. m \in {k \in DOMAIN sections : sections[k].s_size > 0}
      /\ n \in {k \in DOMAIN sections : sections[k].s_size > 0}
  BY DEF Size
<1>3. /\ C!End(sections[m]) <= sections[n].s_paddr \/ C!End(sections[n]) <= sections[m].s_paddr
      /\ {sections[m].s_name, sections[n].s_name} # {".text"}
      /\ C!Stored(sections[m]) /\ ~C!Stored(sections[n]) => C!End(sections[m]) <= sections[n].s_paddr
  BY Zenon, <1>1, <1>2 DEF C!LinkerOutput
<1>4. ~(sections[m].s_name = ".text" /\ sections[n].s_name = ".text")
  BY <1>3
<1> QED
  BY Zenon, <1>3, <1>4 DEF Paddr, Size, Name, C!End, C!StoredAt

\* The invariant gives what the two files are compared by.
LEMMA NoffHasByte ==
  ASSUME LoaderInv, tool = "done", NEW n \in DOMAIN sections, C!StoredAt(n),
         NEW k \in 1 .. Size(n)
  PROVE  C!NoffByte(Paddr(n) + k - 1) = <<n, k>>
<1>1. LoaderTypeOK /\ SegmentsStored /\ NoffSeen = DOMAIN sections /\ sections \in Images
  BY DEF LoaderInv, LoaderTypeOK, NoffSeen
<1>2. Paddr(n) \in Nat /\ Size(n) \in Nat /\ Size(n) > 0 /\ k \in Nat
  BY <1>1, SectionFacts
<1>3. PICK addr : addr = Paddr(n) + k - 1
  OBVIOUS
<1>4. addr \in Paddr(n) .. Paddr(n) + Size(n) - 1 /\ addr \in Nat
  BY <1>2, <1>3
<1>5. PICK found : found = {s \in {"code", "initData"} :
                  /\ noffH[s].size > 0
                  /\ addr \in noffH[s].virtualAddr .. (noffH[s].virtualAddr + noffH[s].size - 1)}
  OBVIOUS
<1>6. found # {}
  <2>1. PICK s \in {"code", "initData"} : IsSegment(s, n)
    BY <1>1, <1>2 DEF SegmentsStored
  <2>2. noffH[s].virtualAddr = Paddr(n) /\ noffH[s].size = Size(n)
    BY <2>1 DEF IsSegment
  <2> QED
    BY <1>2, <1>4, <1>5, <2>2
<1>7. ASSUME NEW s \in found
      PROVE  noffFile[noffH[s].inFileAddr + (addr - noffH[s].virtualAddr) - HeaderSize + 1] = <<n, k>>
  <2>1. s \in {"code", "initData"} /\ noffH[s].size > 0
        /\ addr \in noffH[s].virtualAddr .. (noffH[s].virtualAddr + noffH[s].size - 1)
    BY <1>5
  <2>2. PICK m \in DOMAIN sections : IsSegment(s, m)
    BY <1>1, <2>1 DEF SegmentsStored
  <2>3. /\ noffH[s].virtualAddr = Paddr(m) /\ noffH[s].size = Size(m) /\ Size(m) > 0
        /\ noffH[s].inFileAddr \in Nat
        /\ \A x \in 1 .. Size(m) : noffFile[noffH[s].inFileAddr - HeaderSize + x] = <<m, x>>
    BY <2>2 DEF IsSegment
  <2>4. addr \in Paddr(m) .. Paddr(m) + Size(m) - 1 /\ Paddr(m) \in Nat /\ Size(m) \in Nat
    BY <1>1, <2>1, <2>3, SectionFacts
  <2>5. m = n
    <3>1. m # n => Paddr(m) + Size(m) <= Paddr(n) \/ Paddr(n) + Size(n) <= Paddr(m)
      BY <1>1, <1>2, <2>3, SectionsApart
    <3> QED
      BY <1>2, <1>4, <2>4, <3>1
  <2>6. noffH[s].inFileAddr + (addr - noffH[s].virtualAddr) - HeaderSize + 1
          = noffH[s].inFileAddr - HeaderSize + k
    BY <1>2, <1>3, <2>3, <2>5, LoaderConstants
  <2> QED
    BY Zenon, <2>3, <2>5, <2>6
<1>8. PICK s : s = CHOOSE x \in found : TRUE
  OBVIOUS
<1>9. s \in found
  BY <1>6, <1>8
<1>10. C!NoffByte(addr)
         = noffFile[noffH[s].inFileAddr + (addr - noffH[s].virtualAddr) - HeaderSize + 1]
  BY Zenon, <1>5, <1>6, <1>8 DEF C!NoffByte
<1> QED
  BY Zenon, <1>3, <1>7, <1>9, <1>10

LEMMA UninitIsInPlace ==
  ASSUME LoaderInv
  PROVE  C!UninitInPlace
<1> SUFFICES ASSUME tool = "done"
             PROVE  LET u == noffH.uninitData
                        parts == {n \in DOMAIN sections : ~C!StoredAt(n) /\ C!Filled(n)}
                    IN /\ u.size = 0 <=> parts = {}
                       /\ \A n \in parts : parts = {n} =>
                            u.virtualAddr = sections[n].s_paddr /\ u.size = sections[n].s_size
                       /\ \A n \in DOMAIN sections : C!StoredAt(n) /\ C!Filled(n) /\ parts # {} =>
                            sections[n].s_paddr + sections[n].s_size <= u.virtualAddr
  BY DEF C!UninitInPlace
<1>1. sections \in Images /\ UninitKept /\ NoffSeen = DOMAIN sections
  BY DEF LoaderInv, LoaderTypeOK, NoffSeen
<1>2. PICK parts : parts = {n \in DOMAIN sections : ~C!StoredAt(n) /\ C!Filled(n)}
  OBVIOUS
<1>3. parts = UninitParts
  BY <1>1, <1>2 DEF UninitParts, C!Filled, Size
<1>4. PICK u : u = noffH.uninitData
  OBVIOUS
<1>5. /\ u.size = 0 <=> parts = {}
      /\ parts # {} => \E n \in parts : u.virtualAddr = Paddr(n)
      /\ \A n \in parts : parts = {n} => u.size = Size(n)
  BY <1>1, <1>3, <1>4 DEF UninitKept
<1>6. \A n \in parts : parts = {n} => u.virtualAddr = sections[n].s_paddr /\ u.size = sections[n].s_size
  BY <1>5 DEF Paddr, Size
<1>7. ASSUME NEW n \in DOMAIN sections, C!StoredAt(n) /\ C!Filled(n) /\ parts # {}
      PROVE  sections[n].s_paddr + sections[n].s_size <= u.virtualAddr
  <2>1. PICK m \in parts : u.virtualAddr = Paddr(m)
    BY <1>5, <1>7
  <2>2. m \in DOMAIN sections /\ ~C!StoredAt(m) /\ Size(m) > 0
    BY <1>2, <2>1 DEF C!Filled, Size
  <2>3. Size(n) > 0 /\ m # n
    BY <1>7, <2>2 DEF C!Filled, Size
  <2>4. Paddr(n) + Size(n) <= Paddr(m)
    BY <1>1, <1>7, <2>2, <2>3, SectionsApart
  <2> QED
    BY <2>1, <2>4 DEF Paddr, Size
<1> QED
  BY <1>2, <1>4, <1>5, <1>6, <1>7

LEMMA LoadersDoAgree ==
  ASSUME LoaderInv
  PROVE  C!LoadersAgree
<1> SUFFICES ASSUME tool = "done", NEW n \in DOMAIN sections, C!StoredAt(n),
                    NEW k \in 1 .. sections[n].s_size
             PROVE  LET addr == sections[n].s_paddr + k - 1 IN
                    /\ C!NoffByte(addr) = <<n, k>>
                    /\ C!Packed => C!FlatByte(addr) = <<n, k>>
                    /\ addr < top - StackSize
  BY DEF C!LoadersAgree
<1>1. /\ sections \in Images /\ FlatWritten /\ FlatSeen = DOMAIN sections
      /\ flat \in Seq(Byte) /\ top \in Nat
  BY DEF LoaderInv, LoaderTypeOK, FlatSeen
<1>2. Paddr(n) \in Nat /\ Size(n) \in Nat /\ k \in 1 .. Size(n) /\ StackSize \in Nat /\ Len(flat) \in Nat
  BY <1>1, SectionFacts, LoaderConstants DEF Size
<1>3. PICK addr : addr = Paddr(n) + k - 1
  OBVIOUS
<1>4. C!NoffByte(addr) = <<n, k>>
  BY <1>2, <1>3, NoffHasByte
<1>5. ASSUME C!Packed
      PROVE  C!FlatByte(addr) = <<n, k>>
  <2>1. Paddr(n) + Size(n) <= Len(flat) /\ flat[Paddr(n) + k] = <<n, k>>
    BY <1>1, <1>2, <1>5 DEF FlatWritten
  <2>2. addr < Len(flat) /\ addr + 1 = Paddr(n) + k
    BY <1>2, <1>3, <2>1
  <2> QED
    BY <2>1, <2>2 DEF C!FlatByte
<1>6. Paddr(n) + Size(n) <= top - StackSize
  BY <1>1 DEF FlatWritten
<1>7. addr < top - StackSize
  BY <1>1, <1>2, <1>3, <1>6
<1> QED
  BY <1>3, <1>4, <1>5, <1>7 DEF Paddr

LEMMA LoaderInit == C!Init => LoaderInv
<1> SUFFICES ASSUME C!Init
             PROVE  LoaderInv
  OBVIOUS
<1>1. /\ sections \in Images /\ nextSection = 1 /\ tool = "noff"
      /\ noffH = [s \in {"code", "initData", "uninitData"} |-> C!NoSegment]
      /\ noffFile = <<>> /\ flat = <<>> /\ top = 0
  BY DEF C!Init
<1>2. C!NoSegment \in SegmentRecord /\ C!NoSegment.size = 0
  BY DEF C!NoSegment, SegmentRecord
<1>3. LoaderTypeOK
  <2>1. Len(sections) \in Nat
    BY <1>1, SectionFacts
  <2> QED
    BY <1>1, <1>2, <2>1 DEF LoaderTypeOK
<1>4. NoffSeen = {} /\ FlatSeen = {}
  BY <1>1 DEF NoffSeen, FlatSeen
<1>5. SegmentsStored
  BY <1>1, <1>2, <1>4 DEF SegmentsStored
<1>6. UninitKept
  BY <1>1, <1>2, <1>4 DEF UninitKept, UninitParts
<1>7. FlatWritten
  BY <1>1, <1>4 DEF FlatWritten
<1> QED
  BY <1>3, <1>5, <1>6, <1>7 DEF LoaderInv

\* What a section is does not change.
LEMMA SectionsStay ==
  ASSUME UNCHANGED sections
  PROVE  /\ \A n : Paddr(n)' = Paddr(n) /\ Size(n)' = Size(n) /\ Name(n)' = Name(n)
         /\ \A n : C!StoredAt(n)' = C!StoredAt(n)
         /\ C!Packed' = C!Packed
BY Zenon DEF Paddr, Size, Name, C!StoredAt, C!Stored, C!Packed

\* The bytes of a section are added at the end of a file.
LEMMA BytesAdded ==
  ASSUME sections \in Images, NEW n \in DOMAIN sections, NEW q \in Seq(Byte)
  PROVE  LET r == q \o C!Bytes(n)
         IN  /\ r \in Seq(Byte) /\ Len(r) = Len(q) + Size(n)
             /\ \A k \in 1 .. Len(q) : r[k] = q[k]
             /\ \A k \in 1 .. Size(n) : r[Len(q) + k] = <<n, k>>
<1>1. PICK b, m : b = C!Bytes(n) /\ m = Size(n)
  OBVIOUS
<1>2. n \in Nat /\ m \in Nat /\ b = [k \in 1 .. m |-> <<n, k>>]
  BY <1>1, SectionFacts DEF C!Bytes, Size
<1>3. b \in Seq(Byte) /\ Len(b) = m /\ \A k \in 1 .. m : b[k] = <<n, k>>
  BY <1>2 DEF Byte
<1>4. PICK r : r = q \o b
  OBVIOUS
<1>5. r \in Seq(Byte) /\ Len(r) = Len(q) + m
  BY <1>3, <1>4, ConcatProperties
<1>6. \A k \in 1 .. Len(q) : r[k] = q[k]
  BY <1>3, <1>4
<1>7. \A k \in 1 .. m : r[Len(q) + k] = b[k]
  BY <1>2, <1>3, <1>4
<1> QED
  BY <1>1, <1>3, <1>4, <1>5, <1>6, <1>7

-----------------------------------------------------------------------------
\* coff2noff has been through one section more.
LEMMA NoffSeenGrows ==
  ASSUME LoaderTypeOK, tool = "noff", tool' = "noff", nextSection <= Len(sections),
         nextSection' = nextSection + 1, UNCHANGED sections
  PROVE  /\ nextSection \in DOMAIN sections /\ nextSection' \in 1 .. Len(sections) + 1
         /\ NoffSeen' = NoffSeen \cup {nextSection} /\ nextSection \notin NoffSeen
         /\ NoffSeen \subseteq DOMAIN sections
<1>1. PICK n, l : n = nextSection /\ l = Len(sections)
  OBVIOUS
<1>2. l \in Nat /\ n \in 1 .. l + 1 /\ n <= l /\ DOMAIN sections = 1 .. l
  BY <1>1, SectionFacts DEF LoaderTypeOK
<1>3. NoffSeen = 1 .. n - 1 /\ NoffSeen' = 1 .. (n + 1) - 1
  BY <1>1 DEF NoffSeen
<1> QED
  BY <1>1, <1>2, <1>3

\* The flat file is not touched before its tool runs.
LEMMA FlatIdle ==
  ASSUME FlatWritten, tool \in {"noff", "refused"}, tool' \in {"noff", "refused"},
         UNCHANGED <<flat, top>>
  PROVE  FlatWritten'
BY DEF FlatWritten, FlatSeen

\* A segment stays where it is while the file grows.
Longer(q, r) ==
  /\ q \in Seq(Byte) /\ r \in Seq(Byte) /\ Len(q) <= Len(r)
  /\ \A k \in 1 .. Len(q) : r[k] = q[k]

LEMMA SegmentStays ==
  ASSUME sections \in Images, UNCHANGED sections, NEW s, NEW n \in DOMAIN sections,
         noffH'[s] = noffH[s], Longer(noffFile, noffFile'), IsSegment(s, n)
  PROVE  IsSegment(s, n)'
<1>1. PICK a : a = noffH[s].inFileAddr - HeaderSize
  OBVIOUS
<1>2. /\ Size(n) > 0 /\ C!StoredAt(n)
      /\ s = "code" => Name(n) = ".text"
      /\ noffH[s].virtualAddr = Paddr(n) /\ noffH[s].size = Size(n)
      /\ noffH[s].inFileAddr \in Nat /\ HeaderSize <= noffH[s].inFileAddr
      /\ a + Size(n) <= Len(noffFile)
      /\ \A k \in 1 .. Size(n) : noffFile[a + k] = <<n, k>>
  BY <1>1 DEF IsSegment
<1>3. /\ a \in Nat /\ Size(n) \in Nat
      /\ Len(noffFile) \in Nat /\ Len(noffFile') \in Nat /\ Len(noffFile) <= Len(noffFile')
      /\ \A k \in 1 .. Len(noffFile) : noffFile'[k] = noffFile[k]
  BY <1>1, <1>2, LoaderConstants, SectionFacts DEF Longer
<1>4. a + Size(n) <= Len(noffFile')
  BY <1>2, <1>3
<1>5. \A k \in 1 .. Size(n) : noffFile'[a + k] = <<n, k>>
  <2> SUFFICES ASSUME NEW k \in 1 .. Size(n)
               PROVE  noffFile'[a + k] = <<n, k>>
    OBVIOUS
  <2>1. a + k \in 1 .. Len(noffFile)
    BY <1>2, <1>3
  <2> QED
    BY Zenon, <1>2, <1>3, <2>1
<1>6. noffH'[s].inFileAddr - HeaderSize = a
  BY <1>1
<1>7. Paddr(n)' = Paddr(n) /\ Size(n)' = Size(n) /\ Name(n)' = Name(n) /\ C!StoredAt(n)' = C!StoredAt(n)
  BY SectionsStay
<1> QED
  BY Zenon, <1>2, <1>4, <1>5, <1>6, <1>7 DEF IsSegment

LEMMA SameFileLonger == LoaderTypeOK /\ noffFile' = noffFile => Longer(noffFile, noffFile')
BY DEF LoaderTypeOK, Longer

\* A section that is skipped or only counted leaves the segments alone.
LEMMA SegmentsKept ==
  ASSUME LoaderTypeOK, SegmentsStored, UNCHANGED <<sections, noffFile>>,
         noffH'["code"] = noffH["code"], noffH'["initData"] = noffH["initData"],
         NoffSeen \subseteq DOMAIN sections, NoffSeen \subseteq NoffSeen',
         \A n \in NoffSeen' : n \in NoffSeen \/ ~(Size(n) > 0) \/ ~C!StoredAt(n)
  PROVE  SegmentsStored'
<1>1. Longer(noffFile, noffFile') /\ sections \in Images
  BY SameFileLonger DEF LoaderTypeOK
<1>2. \A s \in {"code", "initData"} : \A n \in NoffSeen : IsSegment(s, n) => IsSegment(s, n)'
  <2> SUFFICES ASSUME NEW s \in {"code", "initData"}, NEW n \in NoffSeen, IsSegment(s, n)
               PROVE  IsSegment(s, n)'
    OBVIOUS
  <2>1. noffH'[s] = noffH[s] /\ n \in DOMAIN sections
    OBVIOUS
  <2> QED
    BY <1>1, <2>1, SegmentStays
<1>3. ASSUME NEW s \in {"code", "initData"}, noffH'[s].size > 0
      PROVE  \E n \in NoffSeen' : IsSegment(s, n)'
  <2>1. noffH[s].size > 0
    BY <1>3
  <2>2. PICK n \in NoffSeen : IsSegment(s, n)
    BY <2>1 DEF SegmentsStored
  <2> QED
    BY <1>2, <2>2
<1>4. ASSUME NEW n \in NoffSeen', Size(n)' > 0, C!StoredAt(n)'
      PROVE  \E s \in {"code", "initData"} : IsSegment(s, n)'
  <2>1. Size(n) > 0 /\ C!StoredAt(n)
    BY <1>4, SectionsStay
  <2>2. n \in NoffSeen
    BY <2>1
  <2>3. PICK s \in {"code", "initData"} : IsSegment(s, n)
    BY <2>1, <2>2 DEF SegmentsStored
  <2> QED
    BY <1>2, <2>2, <2>3
<1> QED
  BY Zenon, <1>3, <1>4 DEF SegmentsStored

\* ... and one that has bytes leaves the uninitialized data alone.
LEMMA UninitStays ==
  ASSUME UninitKept, UNCHANGED sections, noffH'["uninitData"] = noffH["uninitData"],
         NoffSeen \subseteq NoffSeen',
         \A n \in NoffSeen' : n \in NoffSeen \/ ~(Size(n) > 0) \/ C!StoredAt(n)
  PROVE  UninitKept'
<1>1. UninitParts' = UninitParts
  <2>1. UninitParts' = {n \in NoffSeen' : ~C!StoredAt(n) /\ Size(n) > 0}
    BY SectionsStay DEF UninitParts
  <2> QED
    BY <2>1 DEF UninitParts
<1> QED
  BY Zenon, <1>1, SectionsStay DEF UninitKept

LEMMA SkipSection ==
  ASSUME LoaderInv, tool = "noff", nextSection <= Len(sections), C!Section.s_size = 0,
         nextSection' = nextSection + 1, UNCHANGED <<sections, tool, noffH, noffFile, flat, top>>
  PROVE  LoaderInv'
<1>1. LoaderTypeOK /\ SegmentsStored /\ UninitKept /\ FlatWritten
  BY DEF LoaderInv
<1>2. Size(nextSection) = 0
  BY DEF C!Section, Size
<1>3. /\ nextSection' \in 1 .. Len(sections) + 1
      /\ NoffSeen' = NoffSeen \cup {nextSection} /\ NoffSeen \subseteq DOMAIN sections
  BY <1>1, NoffSeenGrows
<1>4. LoaderTypeOK'
  BY <1>1, <1>3 DEF LoaderTypeOK
<1>5. ~(Size(nextSection) > 0)
  BY <1>2
<1>6. SegmentsStored'
  BY <1>1, <1>3, <1>5, SegmentsKept
<1>7. UninitKept'
  BY <1>1, <1>3, <1>5, UninitStays
<1>8. FlatWritten'
  BY <1>1, FlatIdle
<1> QED
  BY <1>4, <1>6, <1>7, <1>8 DEF LoaderInv

LEMMA RefuseSection ==
  ASSUME LoaderInv, tool = "noff", C!Refuse, UNCHANGED <<sections, flat, top>>
  PROVE  LoaderInv'
<1>1. LoaderTypeOK /\ SegmentsStored /\ UninitKept /\ FlatWritten
  BY DEF LoaderInv
<1>2. /\ tool' = "refused" /\ nextSection' = nextSection
      /\ noffH' = noffH /\ noffFile' = noffFile /\ sections' = sections
  BY DEF C!Refuse
<1>3. NoffSeen' = NoffSeen
  BY <1>2 DEF NoffSeen
<1>4. NoffSeen \subseteq DOMAIN sections
  BY <1>1, SectionFacts DEF NoffSeen, LoaderTypeOK
<1>5. LoaderTypeOK'
  BY <1>1, <1>2 DEF LoaderTypeOK
<1>6. SegmentsStored'
  BY <1>1, <1>2, <1>3, <1>4, SegmentsKept
<1>7. UninitKept'
  BY <1>1, <1>2, <1>3, UninitStays
<1>8. FlatWritten'
  BY <1>1, <1>2, FlatIdle
<1> QED
  BY <1>5, <1>6, <1>7, <1>8 DEF LoaderInv

LEMMA CopySection ==
  ASSUME LoaderInv, tool = "noff", nextSection <= Len(sections),
         NEW s \in {"code", "initData"}, C!CopySegment(s), UNCHANGED <<sections, flat, top>>,
         Size(nextSection) > 0, C!StoredAt(nextSection),
         s = "code" => Name(nextSection) = ".text",
         s = "initData" => noffH["initData"].size = 0
  PROVE  LoaderInv'
<1>1. LoaderTypeOK /\ SegmentsStored /\ UninitKept /\ FlatWritten /\ sections \in Images
  BY DEF LoaderInv, LoaderTypeOK
<1>2. PICK n : n = nextSection
  OBVIOUS
<1>3. /\ noffH' = [noffH EXCEPT ![s] = C!SegmentHere]
      /\ noffFile' = noffFile \o C!Bytes(n)
      /\ nextSection' = nextSection + 1 /\ tool' = tool /\ sections' = sections
  BY <1>2 DEF C!CopySegment
<1>4. /\ n \in DOMAIN sections /\ nextSection' \in 1 .. Len(sections) + 1
      /\ NoffSeen' = NoffSeen \cup {n} /\ n \notin NoffSeen /\ NoffSeen \subseteq DOMAIN sections
  BY <1>1, <1>2, <1>3, NoffSeenGrows
<1>5. PICK h : h = C!SegmentHere
  OBVIOUS
<1>6. /\ h = [virtualAddr |-> Paddr(n), inFileAddr |-> HeaderSize + Len(noffFile), size |-> Size(n)]
      /\ Paddr(n) \in Nat /\ Size(n) \in Nat /\ HeaderSize \in Nat /\ Len(noffFile) \in Nat
      /\ noffFile \in Seq(Byte)
  <2>1. h = [virtualAddr |-> Paddr(n), inFileAddr |-> HeaderSize + Len(noffFile), size |-> Size(n)]
    BY <1>2, <1>5 DEF C!SegmentHere, C!Section, C!InNoffFile, Paddr, Size
  <2>2. noffFile \in Seq(Byte)
    BY <1>1 DEF LoaderTypeOK
  <2> QED
    BY <1>1, <1>4, <2>1, <2>2, SectionFacts, LoaderConstants
<1>7. /\ noffH' \in [{"code", "initData", "uninitData"} -> SegmentRecord]
      /\ noffH'[s] = h
      /\ \A x \in {"code", "initData", "uninitData"} : x # s => noffH'[x] = noffH[x]
  <2>1. noffH \in [{"code", "initData", "uninitData"} -> SegmentRecord]
    BY <1>1 DEF LoaderTypeOK
  <2>2. h \in SegmentRecord
    BY <1>6 DEF SegmentRecord
  <2>3. noffH' = [noffH EXCEPT ![s] = h] /\ s \in {"code", "initData", "uninitData"}
    BY <1>3, <1>5
  <2> QED
    BY <2>1, <2>2, <2>3
<1>8. /\ noffFile' \in Seq(Byte) /\ Len(noffFile') = Len(noffFile) + Size(n)
      /\ \A k \in 1 .. Len(noffFile) : noffFile'[k] = noffFile[k]
      /\ \A k \in 1 .. Size(n) : noffFile'[Len(noffFile) + k] = <<n, k>>
  BY <1>1, <1>3, <1>4, <1>6, BytesAdded
<1>9. Longer(noffFile, noffFile')
  BY <1>6, <1>8 DEF Longer
<1>10. noffH[s].size = 0
  <2>1. CASE s = "initData"
    BY <2>1
  <2>2. CASE s = "code"
    <3> SUFFICES ASSUME noffH["code"].size > 0
                 PROVE  FALSE
      <4>1. noffH["code"].size \in Nat
        BY <1>1 DEF LoaderTypeOK, SegmentRecord
      <4> QED
        BY <2>2, <4>1
    <3>1. PICK m \in NoffSeen : IsSegment("code", m)
      BY <1>1 DEF SegmentsStored
    <3>2. Name(m) = ".text" /\ Size(m) > 0 /\ m \in DOMAIN sections /\ m # n
      BY <1>4, <3>1 DEF IsSegment
    <3> QED
      BY <1>1, <1>2, <1>4, <2>2, <3>2, SectionsApart
  <2> QED
    BY <2>1, <2>2
<1>11. IsSegment(s, n)'
  <2>1. noffH'[s].inFileAddr = HeaderSize + Len(noffFile)
        /\ noffH'[s].virtualAddr = Paddr(n) /\ noffH'[s].size = Size(n)
    BY <1>6, <1>7
  <2>2. noffH'[s].inFileAddr - HeaderSize = Len(noffFile)
    BY <1>6, <2>1
  <2>3. noffH'[s].inFileAddr \in Nat /\ HeaderSize <= noffH'[s].inFileAddr
        /\ Len(noffFile) + Size(n) <= Len(noffFile')
    BY <1>6, <1>8, <2>1
  <2>4. Paddr(n)' = Paddr(n) /\ Size(n)' = Size(n) /\ Name(n)' = Name(n) /\ C!StoredAt(n)' = C!StoredAt(n)
    BY <1>3, SectionsStay
  <2>5. s = "code" => Name(n) = ".text"
    BY <1>2
  <2>6. Size(n) > 0 /\ C!StoredAt(n)
    BY <1>2
  <2> QED
    BY Zenon, <1>8, <2>1, <2>2, <2>3, <2>4, <2>5, <2>6 DEF IsSegment
<1>12. ASSUME NEW x \in {"code", "initData"}, NEW m \in NoffSeen, IsSegment(x, m)
       PROVE  x # s /\ IsSegment(x, m)'
  <2>1. noffH[x].size > 0 /\ m \in DOMAIN sections
    BY <1>4, <1>12 DEF IsSegment
  <2>2. x # s
    BY <1>10, <2>1
  <2>3. noffH'[x] = noffH[x]
    BY <1>7, <2>2
  <2> QED
    BY <1>1, <1>3, <1>9, <1>12, <2>1, <2>2, <2>3, SegmentStays
<1>13. SegmentsStored'
  <2>1. ASSUME NEW x \in {"code", "initData"}, noffH'[x].size > 0
        PROVE  \E m \in NoffSeen' : IsSegment(x, m)'
    <3>1. CASE x = s
      BY <1>4, <1>11, <3>1
    <3>2. CASE x # s
      <4>1. noffH[x].size > 0
        BY <1>7, <2>1, <3>2
      <4>2. PICK m \in NoffSeen : IsSegment(x, m)
        BY <1>1, <4>1 DEF SegmentsStored
      <4> QED
        BY <1>4, <1>12, <4>2
    <3> QED
      BY <3>1, <3>2
  <2>2. ASSUME NEW m \in NoffSeen', Size(m)' > 0, C!StoredAt(m)'
        PROVE  \E x \in {"code", "initData"} : IsSegment(x, m)'
    <3>1. CASE m = n
      BY <1>11, <3>1
    <3>2. CASE m # n
      <4>1. m \in NoffSeen /\ Size(m) > 0 /\ C!StoredAt(m)
        BY <1>3, <1>4, <2>2, <3>2, SectionsStay
      <4>2. PICK x \in {"code", "initData"} : IsSegment(x, m)
        BY <1>1, <4>1 DEF SegmentsStored
      <4> QED
        BY <1>12, <4>1, <4>2
    <3> QED
      BY <3>1, <3>2
  <2> QED
    BY Zenon, <2>1, <2>2 DEF SegmentsStored
<1>14. UninitKept'
  <2>1. noffH'["uninitData"] = noffH["uninitData"]
    BY <1>7
  <2>2. \A m \in NoffSeen' : m \in NoffSeen \/ ~(Size(m) > 0) \/ C!StoredAt(m)
    BY <1>2, <1>4
  <2> QED
    BY <1>1, <1>3, <1>4, <2>1, <2>2, UninitStays
<1>15. FlatWritten'
  BY <1>1, <1>3, FlatIdle
<1>16. LoaderTypeOK'
  BY <1>1, <1>3, <1>4, <1>7, <1>8 DEF LoaderTypeOK
<1> QED
  BY <1>13, <1>14, <1>15, <1>16 DEF LoaderInv

LEMMA CountUninit ==
  ASSUME LoaderInv, tool = "noff", nextSection <= Len(sections),
         C!GrowUninit, UNCHANGED <<sections, flat, top>>,
         Size(nextSection) > 0, ~C!StoredAt(nextSection)
  PROVE  LoaderInv'
<1>1. LoaderTypeOK /\ SegmentsStored /\ UninitKept /\ FlatWritten /\ sections \in Images
  BY DEF LoaderInv, LoaderTypeOK
<1>2. PICK n, u : n = nextSection /\ u = noffH["uninitData"]
  OBVIOUS
<1>3. CASE C!Refuse
  BY <1>3, RefuseSection
<1>4. CASE /\ noffH' = [noffH EXCEPT !.uninitData =
                         IF noffH.uninitData.size # 0
                         THEN [noffH.uninitData EXCEPT !.size = noffH.uninitData.size + C!Section.s_size]
                         ELSE [noffH.uninitData EXCEPT !.virtualAddr = C!Section.s_paddr,
                                                       !.size = C!Section.s_size]]
           /\ nextSection' = nextSection + 1
           /\ UNCHANGED <<tool, noffFile>>
  <2>1. /\ n \in DOMAIN sections /\ nextSection' \in 1 .. Len(sections) + 1
        /\ NoffSeen' = NoffSeen \cup {n} /\ n \notin NoffSeen /\ NoffSeen \subseteq DOMAIN sections
    BY <1>1, <1>2, <1>4, NoffSeenGrows
  <2>2. /\ Paddr(n) \in Nat /\ Size(n) \in Nat /\ Size(n) > 0
        /\ C!Section.s_size = Size(n) /\ C!Section.s_paddr = Paddr(n)
    BY <1>1, <1>2, <2>1, SectionFacts DEF C!Section, Paddr, Size
  <2>3. noffH \in [{"code", "initData", "uninitData"} -> SegmentRecord] /\ u \in SegmentRecord
    BY <1>1, <1>2 DEF LoaderTypeOK
  <2>4. PICK v : v = IF noffH.uninitData.size # 0
                     THEN [noffH.uninitData EXCEPT !.size = noffH.uninitData.size + C!Section.s_size]
                     ELSE [noffH.uninitData EXCEPT !.virtualAddr = C!Section.s_paddr,
                                                   !.size = C!Section.s_size]
    OBVIOUS
  <2>5. noffH' = [noffH EXCEPT !.uninitData = v]
    BY Zenon, <1>4, <2>4
  <2>6. /\ v \in SegmentRecord /\ v.size > 0
        /\ u.size = 0 => v.virtualAddr = Paddr(n) /\ v.size = Size(n)
        /\ u.size # 0 => v.virtualAddr = u.virtualAddr
    <3>1. v = IF u.size # 0 THEN [u EXCEPT !.size = u.size + Size(n)]
              ELSE [u EXCEPT !.virtualAddr = Paddr(n), !.size = Size(n)]
      BY <1>2, <2>2, <2>4
    <3>2. PICK x, y, z : x = u.virtualAddr /\ y = u.inFileAddr /\ z = u.size
      OBVIOUS
    <3>3. /\ u = [virtualAddr |-> x, inFileAddr |-> y, size |-> z]
          /\ x \in Nat \cup {NULL} /\ y \in Nat \cup {NULL} /\ z \in Nat
      BY <2>3, <3>2 DEF SegmentRecord
    <3>4. CASE z = 0
      <4>1. v = [virtualAddr |-> Paddr(n), inFileAddr |-> y, size |-> Size(n)]
        BY <3>1, <3>3, <3>4
      <4> QED
        BY <2>2, <3>2, <3>3, <3>4, <4>1 DEF SegmentRecord
    <3>5. CASE z # 0
      <4>1. v = [virtualAddr |-> x, inFileAddr |-> y, size |-> z + Size(n)]
        BY <3>1, <3>3, <3>5
      <4> QED
        BY <2>2, <3>2, <3>3, <3>5, <4>1 DEF SegmentRecord
    <3> QED
      BY <3>4, <3>5
  <2>7. /\ noffH' \in [{"code", "initData", "uninitData"} -> SegmentRecord]
        /\ noffH'["uninitData"] = v
        /\ noffH'["code"] = noffH["code"] /\ noffH'["initData"] = noffH["initData"]
    BY <2>3, <2>5, <2>6
  <2>8. UninitParts' = UninitParts \cup {n}
    <3>1. UninitParts' = {m \in NoffSeen' : ~C!StoredAt(m) /\ Size(m) > 0}
      BY SectionsStay DEF UninitParts
    <3> QED
      BY <1>2, <2>1, <3>1 DEF UninitParts
  <2>9. UninitKept'
    <3>1. ~(noffH'["uninitData"].size = 0)
      BY <2>6, <2>7 DEF SegmentRecord
    <3>2. \E m \in UninitParts' : noffH'["uninitData"].virtualAddr = Paddr(m)'
      <4>1. CASE u.size = 0
        BY <2>6, <2>7, <2>8, <4>1, SectionsStay
      <4>2. CASE u.size # 0
        <5>1. PICK m \in UninitParts : u.virtualAddr = Paddr(m)
          BY <1>1, <1>2, <4>2 DEF UninitKept
        <5> QED
          BY <2>6, <2>7, <2>8, <4>2, <5>1, SectionsStay
      <4> QED
        BY <4>1, <4>2
    <3>3. ASSUME NEW m \in UninitParts', UninitParts' = {m}
          PROVE  noffH'["uninitData"].size = Size(m)'
      <4>1. m = n /\ UninitParts = {}
        BY <2>1, <2>8, <3>3 DEF UninitParts
      <4>2. u.size = 0
        BY <1>1, <1>2, <4>1 DEF UninitKept
      <4> QED
        BY <2>6, <2>7, <4>1, <4>2, SectionsStay
    <3>4. UninitParts' # {}
      BY <2>8
    <3> QED
      BY Zenon, <3>1, <3>2, <3>3, <3>4 DEF UninitKept
  <2>10. SegmentsStored'
    BY <1>1, <1>2, <1>4, <2>1, <2>7, SegmentsKept
  <2>11. FlatWritten'
    BY <1>1, <1>4, FlatIdle
  <2>12. LoaderTypeOK'
    BY <1>1, <1>4, <2>1, <2>7 DEF LoaderTypeOK
  <2> QED
    BY <2>9, <2>10, <2>11, <2>12 DEF LoaderInv
<1> QED
  BY Zenon, <1>3, <1>4 DEF C!GrowUninit

LEMMA NoffSectionStep ==
  ASSUME LoaderInv, C!NoffSection
  PROVE  LoaderInv'
<1>1. tool = "noff" /\ nextSection <= Len(sections) /\ UNCHANGED <<sections, flat, top>>
  BY DEF C!NoffSection
<1>2. /\ C!StoredAt(nextSection) <=> C!Section.s_name \notin {".bss", ".sbss"}
      /\ Name(nextSection) = C!Section.s_name /\ Size(nextSection) = C!Section.s_size
  BY DEF C!StoredAt, C!Stored, C!Section, Name, Size
<1>3. noffH["initData"].size = noffH.initData.size
  OBVIOUS
<1>4. CASE C!Section.s_size = 0 /\ nextSection' = nextSection + 1 /\ UNCHANGED <<tool, noffH, noffFile>>
  BY <1>1, <1>4, SkipSection
<1>5. CASE C!Section.s_size > 0 /\ C!Section.s_name = ".text" /\ C!CopySegment("code")
  <2>1. C!StoredAt(nextSection) /\ Size(nextSection) > 0 /\ Name(nextSection) = ".text"
    BY <1>2, <1>5
  <2> QED
    BY <1>1, <1>5, <2>1, CopySection
<1>6. CASE /\ C!Section.s_size > 0 /\ C!Section.s_name \in {".data", ".rdata"}
           /\ IF noffH.initData.size # 0 THEN C!Refuse ELSE C!CopySegment("initData")
  <2>1. C!StoredAt(nextSection) /\ Size(nextSection) > 0
    BY <1>2, <1>6
  <2> QED
    BY <1>1, <1>3, <1>6, <2>1, CopySection, RefuseSection
<1>7. CASE C!Section.s_size > 0 /\ C!Section.s_name \in {".bss", ".sbss"} /\ C!GrowUninit
  <2>1. ~C!StoredAt(nextSection) /\ Size(nextSection) > 0
    BY <1>2, <1>7
  <2> QED
    BY <1>1, <1>7, <2>1, CountUninit
<1>8. CASE C!Refuse
  BY <1>1, <1>8, RefuseSection
<1> QED
  BY Zenon, <1>4, <1>5, <1>6, <1>7, <1>8 DEF C!NoffSection

LEMMA NoffDoneStep ==
  ASSUME LoaderInv, C!NoffDone
  PROVE  LoaderInv'
<1>1. LoaderTypeOK /\ SegmentsStored /\ UninitKept /\ FlatWritten /\ sections \in Images
  BY DEF LoaderInv, LoaderTypeOK
<1>2. /\ tool = "noff" /\ nextSection > Len(sections) /\ tool' = "flat" /\ nextSection' = 1
      /\ UNCHANGED <<sections, noffH, noffFile, flat, top>>
  BY DEF C!NoffDone
<1>3. /\ NoffSeen = DOMAIN sections /\ NoffSeen' = DOMAIN sections
      /\ nextSection' \in 1 .. Len(sections) + 1
  <2>1. PICK n, l : n = nextSection /\ l = Len(sections)
    OBVIOUS
  <2>2. l \in Nat /\ DOMAIN sections = 1 .. l /\ n \in 1 .. l + 1 /\ n > l
    BY <1>1, <1>2, <2>1, SectionFacts DEF LoaderTypeOK
  <2>3. NoffSeen = 1 .. n - 1 /\ NoffSeen' = DOMAIN sections
    BY <1>2, <2>1 DEF NoffSeen
  <2> QED
    BY <1>2, <2>1, <2>2, <2>3
<1>4. LoaderTypeOK'
  BY <1>1, <1>2, <1>3 DEF LoaderTypeOK
<1>5. SegmentsStored'
  BY <1>1, <1>2, <1>3, SegmentsKept
<1>6. UninitKept'
  BY <1>1, <1>2, <1>3, UninitStays
<1>7. FlatWritten'
  <2>1. flat' = <<>> /\ top' = 0
    BY <1>1, <1>2 DEF FlatWritten
  <2>2. FlatSeen' = {}
    BY <1>2 DEF FlatSeen
  <2> QED
    BY <1>2, <2>1, <2>2 DEF FlatWritten
<1> QED
  BY <1>4, <1>5, <1>6, <1>7 DEF LoaderInv

\* coff2flat leaves what coff2noff wrote.
LEMMA NoffIdle ==
  ASSUME LoaderInv, tool \in {"flat", "done"}, tool' \in {"flat", "done"},
         UNCHANGED <<sections, noffH, noffFile>>
  PROVE  SegmentsStored' /\ UninitKept'
<1>1. LoaderTypeOK /\ SegmentsStored /\ UninitKept
  BY DEF LoaderInv
<1>2. NoffSeen = DOMAIN sections /\ NoffSeen' = DOMAIN sections
  BY DEF NoffSeen
<1>3. SegmentsStored'
  BY <1>1, <1>2, SegmentsKept
<1>4. UninitKept'
  BY <1>1, <1>2, UninitStays
<1> QED
  BY <1>3, <1>4

LEMMA FlatSectionStep ==
  ASSUME LoaderInv, C!FlatSection
  PROVE  LoaderInv'
<1>1. LoaderTypeOK /\ FlatWritten /\ sections \in Images /\ flat \in Seq(Byte) /\ top \in Nat
  BY DEF LoaderInv, LoaderTypeOK
<1>2. PICK n : n = nextSection
  OBVIOUS
<1>3. /\ tool = "flat" /\ tool' = "flat" /\ n <= Len(sections) /\ nextSection' = n + 1
      /\ top' = (IF Paddr(n) + Size(n) > top THEN Paddr(n) + Size(n) ELSE top)
      /\ flat' = (IF C!StoredAt(n) THEN flat \o C!Bytes(n) ELSE flat)
      /\ UNCHANGED <<sections, noffH, noffFile>>
  BY <1>2 DEF C!FlatSection, C!Section, C!StoredAt, C!Stored, Paddr, Size
<1>4. /\ n \in DOMAIN sections /\ n \in Nat \ {0} /\ nextSection' \in 1 .. Len(sections) + 1
      /\ FlatSeen = 1 .. n - 1 /\ FlatSeen' = FlatSeen \cup {n} /\ FlatSeen \subseteq DOMAIN sections
  <2>1. PICK l : l = Len(sections)
    OBVIOUS
  <2>2. l \in Nat /\ DOMAIN sections = 1 .. l /\ n \in 1 .. l + 1 /\ n <= l
    BY <1>1, <1>2, <1>3, <2>1, SectionFacts DEF LoaderTypeOK
  <2>3. FlatSeen = 1 .. n - 1 /\ FlatSeen' = 1 .. (n + 1) - 1
    BY <1>2, <1>3 DEF FlatSeen
  <2> QED
    BY <1>3, <2>1, <2>2, <2>3
<1>5. /\ Paddr(n) \in Nat /\ Size(n) \in Nat /\ Len(flat) \in Nat
      /\ \A m \in DOMAIN sections : Paddr(m) \in Nat /\ Size(m) \in Nat
  BY <1>1, <1>4, SectionFacts
<1>6. /\ flat' \in Seq(Byte) /\ Len(flat) <= Len(flat')
      /\ \A k \in 1 .. Len(flat) : flat'[k] = flat[k]
      /\ C!StoredAt(n) => /\ Len(flat') = Len(flat) + Size(n)
                          /\ \A k \in 1 .. Size(n) : flat'[Len(flat) + k] = <<n, k>>
  <2>1. CASE C!StoredAt(n)
    <3>1. flat' = flat \o C!Bytes(n)
      BY <1>3, <2>1
    <3>2. /\ flat' \in Seq(Byte) /\ Len(flat') = Len(flat) + Size(n)
          /\ \A k \in 1 .. Len(flat) : flat'[k] = flat[k]
          /\ \A k \in 1 .. Size(n) : flat'[Len(flat) + k] = <<n, k>>
      BY <1>1, <1>4, <3>1, BytesAdded
    <3> QED
      BY <1>5, <3>2
  <2>2. CASE ~C!StoredAt(n)
    <3>1. flat' = flat
      BY <1>3, <2>2
    <3> QED
      BY <1>1, <1>5, <2>2, <3>1
  <2> QED
    BY <2>1, <2>2
<1>7. LoaderTypeOK'
  BY <1>1, <1>3, <1>4, <1>5, <1>6 DEF LoaderTypeOK
<1>8. SegmentsStored' /\ UninitKept'
  BY <1>3, NoffIdle
<1>9. C!Packed /\ C!StoredAt(n) => Len(flat) = Paddr(n)
  <2> SUFFICES ASSUME C!Packed, C!StoredAt(n)
               PROVE  Len(flat) = Paddr(n)
    OBVIOUS
  <2>1. \/ n = 1 /\ Paddr(n) = 0
        \/ n > 1 /\ C!StoredAt(n - 1) /\ Paddr(n) = Paddr(n - 1) + Size(n - 1)
    BY <1>4 DEF C!Packed, Paddr, Size
  <2>2. n = 1 => flat = <<>>
    BY <1>1, <1>2, <1>3 DEF FlatWritten
  <2>3. n > 1 /\ C!StoredAt(n - 1) => Len(flat) = Paddr(n - 1) + Size(n - 1)
    BY <1>1, <1>2, <1>3 DEF FlatWritten
  <2> QED
    BY <2>1, <2>2, <2>3
<1>10. ASSUME C!Packed, NEW m \in FlatSeen', C!StoredAt(m)
       PROVE  /\ Paddr(m) + Size(m) <= Len(flat')
              /\ \A k \in 1 .. Size(m) : flat'[Paddr(m) + k] = <<m, k>>
  <2>1. CASE m = n
    BY <1>5, <1>6, <1>9, <1>10, <2>1
  <2>2. CASE m # n
    <3>1. m \in FlatSeen /\ m \in DOMAIN sections
      BY <1>4, <1>10, <2>2
    <3>2. /\ Paddr(m) + Size(m) <= Len(flat)
          /\ \A k \in 1 .. Size(m) : flat[Paddr(m) + k] = <<m, k>>
      BY <1>1, <1>10, <3>1 DEF FlatWritten
    <3>3. Paddr(m) \in Nat /\ Size(m) \in Nat /\ Len(flat') \in Nat
      BY <1>5, <1>6, <3>1
    <3>4. \A k \in 1 .. Size(m) : Paddr(m) + k \in 1 .. Len(flat)
      BY <1>5, <3>2, <3>3
    <3>5. ASSUME NEW k \in 1 .. Size(m)
          PROVE  flat'[Paddr(m) + k] = <<m, k>>
      BY Zenon, <1>6, <3>2, <3>4, <3>5
    <3>6. Paddr(m) + Size(m) <= Len(flat')
      BY <1>5, <1>6, <3>2, <3>3
    <3> QED
      BY <3>5, <3>6
  <2> QED
    BY <2>1, <2>2
<1>11. ASSUME NEW m \in FlatSeen'
       PROVE  Paddr(m) + Size(m) <= top'
  <2>1. m = n \/ m \in FlatSeen
    BY <1>4, <1>11
  <2>2. m \in FlatSeen => Paddr(m) + Size(m) <= top - 0
    BY <1>1, <1>3 DEF FlatWritten
  <2>3. m \in DOMAIN sections
    BY <1>4, <2>1
  <2> QED
    BY <1>1, <1>3, <1>5, <2>1, <2>2, <2>3
<1>12. FlatWritten'
  <2>1. /\ \A m : Paddr(m)' = Paddr(m) /\ Size(m)' = Size(m) /\ C!StoredAt(m)' = C!StoredAt(m)
        /\ C!Packed' = C!Packed
    BY <1>3, SectionsStay
  <2>2. nextSection' # 1 /\ nextSection' - 1 = n
    BY <1>3, <1>4
  <2>3. C!Packed => \A m \in FlatSeen' : C!StoredAt(m) =>
          /\ Paddr(m) + Size(m) <= Len(flat')
          /\ \A k \in 1 .. Size(m) : flat'[Paddr(m) + k] = <<m, k>>
    BY <1>10
  <2>4. C!Packed => (C!StoredAt(n) => Len(flat') = Paddr(n) + Size(n))
    BY <1>6, <1>9
  <2>5. \A m \in FlatSeen' : Paddr(m) + Size(m) <= top' - 0
    BY <1>1, <1>3, <1>5, <1>11
  <2>6. ~(tool' = "done") /\ ~(tool' \in {"noff", "refused"})
    BY <1>3
  <2> QED
    BY Zenon, <2>1, <2>2, <2>3, <2>4, <2>5, <2>6 DEF FlatWritten
<1> QED
  BY <1>7, <1>8, <1>12 DEF LoaderInv

LEMMA FlatDoneStep ==
  ASSUME LoaderInv, C!FlatDone
  PROVE  LoaderInv'
<1>1. LoaderTypeOK /\ FlatWritten /\ sections \in Images /\ top \in Nat
  BY DEF LoaderInv, LoaderTypeOK
<1>2. /\ tool = "flat" /\ tool' = "done" /\ nextSection > Len(sections) /\ top' = top + StackSize
      /\ UNCHANGED <<sections, nextSection, noffH, noffFile, flat>>
  BY DEF C!FlatDone
<1>3. FlatSeen = DOMAIN sections /\ FlatSeen' = DOMAIN sections
  <2>1. PICK n, l : n = nextSection /\ l = Len(sections)
    OBVIOUS
  <2>2. l \in Nat /\ DOMAIN sections = 1 .. l /\ n \in 1 .. l + 1 /\ n > l
    BY <1>1, <1>2, <2>1, SectionFacts DEF LoaderTypeOK
  <2>3. FlatSeen = 1 .. n - 1 /\ FlatSeen' = DOMAIN sections
    BY <1>2, <2>1 DEF FlatSeen
  <2> QED
    BY <2>2, <2>3
<1>4. StackSize \in Nat /\ top' - StackSize = top - 0
  BY <1>1, <1>2, LoaderConstants
<1>5. LoaderTypeOK'
  BY <1>1, <1>2, <1>4 DEF LoaderTypeOK
<1>6. SegmentsStored' /\ UninitKept'
  BY <1>2, NoffIdle
<1>7. FlatWritten'
  <2>1. /\ \A m : Paddr(m)' = Paddr(m) /\ Size(m)' = Size(m) /\ C!StoredAt(m)' = C!StoredAt(m)
        /\ C!Packed' = C!Packed
    BY <1>2, SectionsStay
  <2>2. C!Packed => \A m \in FlatSeen : C!StoredAt(m) =>
          /\ Paddr(m) + Size(m) <= Len(flat)
          /\ \A k \in 1 .. Size(m) : flat[Paddr(m) + k] = <<m, k>>
    BY <1>1 DEF FlatWritten
  <2>3. \A m \in FlatSeen : Paddr(m) + Size(m) <= top' - StackSize
    BY <1>1, <1>2, <1>4 DEF FlatWritten
  <2>4. tool' = "done" /\ ~(tool' \in {"noff", "refused"}) /\ ~(tool' = "flat")
    BY <1>2
  <2>5. FlatSeen' = FlatSeen /\ flat' = flat
    BY <1>2, <1>3
  <2> QED
    BY Zenon, <2>1, <2>2, <2>3, <2>4, <2>5 DEF FlatWritten
<1> QED
  BY <1>5, <1>6, <1>7 DEF LoaderInv

\* What coff2noff and coff2flat make of a linked program is the same program,
\* each byte at its address in both files, whatever the sections.
THEOREM LoadersMakeOneProgram == UserProgramSpec => []LoadersAgree
<1> DEFINE Inv == subject = "loader" => LoaderInv
<1>1. UserProgramInit => Inv
  BY LoaderInit DEF UserProgramInit
<1>2. Inv /\ [UserProgramNext]_everyVar => Inv'
  <2> SUFFICES ASSUME Inv, [UserProgramNext]_everyVar, subject' = "loader"
               PROVE  LoaderInv'
    OBVIOUS
  <2>1. CASE subject = "loader" /\ C!Next
    <3>1. LoaderInv
      BY <2>1
    <3> QED
      BY <2>1, <3>1, NoffSectionStep, NoffDoneStep, FlatSectionStep, FlatDoneStep DEF C!Next
  <2>2. CASE UNCHANGED loaderVars /\ UNCHANGED subject
    <3>1. /\ LoaderInv
          /\ UNCHANGED <<sections, nextSection, tool, noffH, noffFile, flat, top>>
      BY <2>2 DEF loaderVars
    <3>2. NoffSeen' = NoffSeen /\ FlatSeen' = FlatSeen
      BY Zenon, <3>1 DEF NoffSeen, FlatSeen
    <3>3. LoaderTypeOK'
      BY <3>1 DEF LoaderInv, LoaderTypeOK
    <3>4. SegmentsStored'
      <4>1. NoffSeen \subseteq DOMAIN sections
        BY <3>1, SectionFacts DEF NoffSeen, LoaderInv, LoaderTypeOK
      <4> QED
        BY <3>1, <3>2, <4>1, SegmentsKept DEF LoaderInv
    <3>5. UninitKept'
      BY <3>1, <3>2, UninitStays DEF LoaderInv
    <3>6. FlatWritten'
      BY Zenon, <3>1, <3>2 DEF LoaderInv, FlatWritten, Paddr, Size, C!StoredAt, C!Stored, C!Packed
    <3> QED
      BY <3>3, <3>4, <3>5, <3>6 DEF LoaderInv
  <2> QED
    BY <2>1, <2>2 DEF UserProgramNext, everyVar
<1>3. Inv => LoadersAgree
  BY LoadersDoAgree, UninitIsInPlace DEF LoadersAgree
<1> QED
  BY <1>1, <1>2, <1>3, PTL DEF UserProgramSpec

=============================================================================
