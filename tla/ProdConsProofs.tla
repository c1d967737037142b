--------------------------- MODULE ProdConsProofs ---------------------------
(***************************************************************************)
(* Theorems of ProdCons, for any numbers of producers, consumers, messages *)
(* and slots: the counting of prodcons++.cc's semaphores is exact, the     *)
(* ring is a bounded FIFO buffer, and the program never stops early.       *)
(***************************************************************************)
EXTENDS ProdCons, SynchProofs

(* The inductive invariant.                                                *)

ProducerLabel == {"nempty.P", "mutex.P", "mutex.V", "nfull.V", "done"}
ConsumerLabel == {"nfull.P", "mutex.P", "mutex.V", "nempty.V"}

\* Which semaphore the P() at a label is on.
SemaphoreOf(label) ==
  CASE label = "nempty.P" -> nempty
    [] label = "nfull.P" -> nfull
    [] label = "mutex.P" -> mutex
    [] OTHER -> NULL

\* Where each thread is in its program, and what it carries there.
Control ==
  /\ pc[Main] \in {"fork", "done"} /\ status[Main] # "JUST_CREATED"
  /\ \A p \in Producer :
       /\ pc[p] \in ProducerLabel
       /\ pc[p] \in {"mutex.P", "mutex.V", "nfull.V"} => num[p] < N_MESSG
       /\ pc[p] = "done" => num[p] = N_MESSG
       /\ pc[p] \in {"mutex.P", "mutex.V"} =>
            message[p] = [thread_id |-> p, value |-> num[p]]
  /\ \A c \in Consumer : pc[c] \in ConsumerLabel
  /\ \A t \in Thread :
       /\ inP[t] \in {NULL, SemaphoreOf(pc[t])}
       /\ pc[t] = "done" <=> t \in finished
  /\ pc[Main] = "done" => \A t \in Thread : status[t] # "JUST_CREATED"

\* The ring between out and in is what was put and not yet taken.
Indices == in = (out + Filled) % BUFF_SIZE

\* A consumer's file lacks at most the last message, and has that one before
\* the consumer waits for the next.
LogsBehind ==
  \A c \in Consumer :
    /\ log[c] = got[c] \/ got[c] = Append(log[c], message[c])
    /\ pc[c] \in {"mutex.P", "mutex.V"} \/ inP[c] # NULL => log[c] = got[c]

\* Every message that was sent was received or is in the ring.
Received == UNION {Range(got[c]) : c \in Consumer}
SentMessages == {m \in Messages : m.value < Sent[m.thread_id]}
NothingLost == SentMessages = Received \cup Range(Chan)

-----------------------------------------------------------------------------
(* Counting: threads at a label, and messages.                             *)

LEMMA AtMoves ==
  ASSUME pc \in [Thread -> Label], NEW S \in SUBSET Thread, NEW t \in Thread,
         NEW to, Goto(t, to), pc[t] # to, NEW label
  PROVE  /\ At(S, label) \in Nat
         /\ At(S, label)' = At(S, label) + (IF t \in S /\ label = to THEN 1 ELSE 0)
                                         - (IF t \in S /\ label = pc[t] THEN 1 ELSE 0)
<1> DEFINE A == {u \in S : pc[u] = label}
           B == {u \in S : pc'[u] = label}
<1>1. IsFiniteSet(A) /\ Cardinality(A) \in Nat
  <2>1. A \subseteq Thread
    OBVIOUS
  <2> QED
    BY <2>1, ThreadAssumption, FS_Subset, FS_CardinalityType
<1>2. At(S, label) = Cardinality(A) /\ At(S, label)' = Cardinality(B)
  BY DEF At
<1>3. pc' = [pc EXCEPT ![t] = to]
  BY DEF Goto
<1>4. CASE t \in S /\ label = to
  <2>1. B = A \cup {t} /\ t \notin A
    BY <1>3, <1>4
  <2> HIDE DEF A, B
  <2>2. Cardinality(B) = Cardinality(A) + 1
    BY <1>1, <2>1, FS_AddElement
  <2> QED
    BY <1>1, <1>2, <1>4, <2>2
<1>5. CASE t \in S /\ label = pc[t]
  <2>1. B = A \ {t} /\ t \in A
    BY <1>3, <1>5
  <2> HIDE DEF A, B
  <2>2. Cardinality(B) = Cardinality(A) - 1
    BY <1>1, <2>1, FS_RemoveElement
  <2> QED
    BY <1>1, <1>2, <1>5, <2>2
<1>6. CASE t \notin S \/ (label # to /\ label # pc[t])
  <2>1. B = A
    BY <1>3, <1>6
  <2> HIDE DEF A, B
  <2> QED
    BY <1>1, <1>2, <1>6, <2>1
<1> QED
  BY <1>4, <1>5, <1>6

LEMMA AtFacts ==
  ASSUME pc \in [Thread -> Label], NEW S \in SUBSET Thread, NEW label
  PROVE  /\ At(S, label) \in Nat
         /\ (\E t \in S : pc[t] = label) <=> At(S, label) > 0
<1> DEFINE A == {u \in S : pc[u] = label}
<1>1. IsFiniteSet(A) /\ Cardinality(A) \in Nat
  <2>1. A \subseteq Thread
    OBVIOUS
  <2> QED
    BY <2>1, ThreadAssumption, FS_Subset, FS_CardinalityType
<1>2. At(S, label) = Cardinality(A)
  BY DEF At
<1>3. A = {} <=> Cardinality(A) = 0
  BY <1>1, FS_EmptySet
<1>4. (\E t \in S : pc[t] = label) <=> A # {}
  OBVIOUS
<1> HIDE DEF A
<1> QED
  BY <1>1, <1>2, <1>3, <1>4

\* The things that Total() counts.
Items(f) == UNION {{t} \X (1 .. f[t]) : t \in DOMAIN f}

LEMMA ItemsFacts ==
  ASSUME NEW D, IsFiniteSet(D), NEW f \in [D -> Nat]
  PROVE  /\ IsFiniteSet(Items(f))
         /\ Total(f) = Cardinality(Items(f))
         /\ Total(f) \in Nat
         /\ \A x : x \in Items(f) <=> \E t \in D : \E i \in 1 .. f[t] : x = <<t, i>>
<1> DEFINE g == [t \in D |-> {t} \X (1 .. f[t])]
           R == {g[t] : t \in D}
<1>1. g \in Surjection(D, R)
  BY DEF Surjection
<1>2. IsFiniteSet(R)
  BY <1>1, FS_Surjection
<1>3. ASSUME NEW T \in R PROVE IsFiniteSet(T)
  <2>1. PICK t \in D : T = {t} \X (1 .. f[t])
    OBVIOUS
  <2>2. 1 \in Int /\ f[t] \in Int
    OBVIOUS
  <2>3. IsFiniteSet({t}) /\ IsFiniteSet(1 .. f[t])
    BY <2>2, FS_Singleton, FS_Interval
  <2> QED
    BY <2>1, <2>3, FS_Product
<1>4. Items(f) = UNION R
  BY DEF Items
<1>5. IsFiniteSet(Items(f))
  <2> HIDE DEF R
  <2> QED
    BY <1>2, <1>3, <1>4, FS_UNION
<1>6. \A x : x \in Items(f) <=> \E t \in D : \E i \in 1 .. f[t] : x = <<t, i>>
  BY DEF Items
<1> QED
  BY <1>5, <1>6, FS_CardinalityType DEF Total, Items

LEMMA TotalZero ==
  ASSUME NEW D, IsFiniteSet(D), NEW f \in [D -> Nat], \A t \in D : f[t] = 0
  PROVE  Total(f) = 0
<1>1. Items(f) = {}
  BY ItemsFacts
<1> QED
  BY <1>1, ItemsFacts, FS_EmptySet

LEMMA TotalGrows ==
  ASSUME NEW D, IsFiniteSet(D), NEW f \in [D -> Nat], NEW g \in [D -> Nat], NEW t \in D,
         g[t] = f[t] + 1, \A u \in D \ {t} : g[u] = f[u]
  PROVE  Total(f) \in Nat /\ Total(g) = Total(f) + 1
<1> DEFINE x == <<t, g[t]>>
<1>1. \A y : y \in Items(g) <=> y \in Items(f) \/ y = x
  <2>1. \A y : y \in Items(g) <=> \E u \in D : \E i \in 1 .. g[u] : y = <<u, i>>
    BY ItemsFacts
  <2>2. \A y : y \in Items(f) <=> \E u \in D : \E i \in 1 .. f[u] : y = <<u, i>>
    BY ItemsFacts
  <2>3. ASSUME NEW y, y \in Items(f) PROVE y \in Items(g)
    <3>0. PICK u \in D : \E i \in 1 .. f[u] : y = <<u, i>>
      BY <2>2, <2>3
    <3>1. PICK i \in 1 .. f[u] : y = <<u, i>>
      BY <3>0
    <3>2. i \in 1 .. g[u]
      BY DEF x
    <3> QED
      BY <2>1, <3>1, <3>2
  <2>4. x \in Items(g)
    <3>1. g[t] \in 1 .. g[t]
      OBVIOUS
    <3> QED
      BY <2>1, <3>1
  <2>5. ASSUME NEW y, y \in Items(g), y # x PROVE y \in Items(f)
    <3>0. PICK u \in D : \E i \in 1 .. g[u] : y = <<u, i>>
      BY <2>1, <2>5
    <3>1. PICK i \in 1 .. g[u] : y = <<u, i>>
      BY <3>0
    <3>2. i \in 1 .. f[u]
      BY <2>5, <3>1
    <3> QED
      BY <2>2, <3>1, <3>2
  <2> QED
    BY <2>3, <2>4, <2>5
<1>2. x \notin Items(f)
  <2>1. \A y : y \in Items(f) <=> \E u \in D : \E i \in 1 .. f[u] : y = <<u, i>>
    BY ItemsFacts
  <2>2. ASSUME NEW u \in D, NEW i \in 1 .. f[u], x = <<u, i>> PROVE FALSE
    <3>1. u = t /\ i = f[t] + 1
      BY <2>2
    <3> QED
      BY <3>1
  <2> QED
    BY <2>1, <2>2
<1>3. Items(g) = Items(f) \cup {x}
  BY <1>1
<1> HIDE DEF x
<1>4. /\ IsFiniteSet(Items(f)) /\ Total(f) \in Nat
      /\ Total(f) = Cardinality(Items(f)) /\ Total(g) = Cardinality(Items(g))
  BY ItemsFacts
<1> QED
  BY <1>2, <1>3, <1>4, FS_AddElement

\* The indices of the ring wrap at most once.
LEMMA Wrap ==
  ASSUME NEW B \in Nat \ {0}, NEW x \in 0 .. 2 * B - 1
  PROVE  x % B = IF x < B THEN x ELSE x - B
OBVIOUS
-----------------------------------------------------------------------------
(* What a step does to the program counters.                               *)

LEMMA StepPFacts ==
  ASSUME SynchTypeOK, NEW t \in Thread, NEW s \in Semaphore, NEW from, NEW to,
         CallP(t, s, from, to)
  PROVE  /\ pc[t] = from /\ finished' = finished
         /\ \/ /\ value[s] > 0 /\ value' = [value EXCEPT ![s] = @ - 1]
               /\ Goto(t, to) /\ inP' = [inP EXCEPT ![t] = NULL]
            \/ /\ value[s] = 0 /\ value' = value
               /\ pc' = pc /\ inP' = [inP EXCEPT ![t] = s]
BY DEF CallP, P, SemaphoreP, Sleep, schedVars, Goto, SynchTypeOK

LEMMA StepVFacts ==
  ASSUME NEW t \in Thread, NEW s \in Semaphore, NEW from, NEW to, CallV(t, s, from, to)
  PROVE  /\ pc[t] = from /\ finished' = finished
         /\ inP[t] = NULL /\ inP' = inP
         /\ value' = [value EXCEPT ![s] = @ + 1]
         /\ Goto(t, to)
BY DEF CallV, AtUserCode, V, SemaphoreV

LEMMA NextForked ==
  ASSUME ForkPending # {}
  PROVE  ForkOrder[Min(ForkPending)] \in Producer \cup Consumer
<1>1. DOMAIN ForkOrder = 1 .. Len(ForkOrder) /\ Len(ForkOrder) \in Nat
  BY ProdConsAssumption
<1>2. ForkPending \subseteq 1 .. Len(ForkOrder)
  BY <1>1 DEF ForkPending
<1>3. ForkPending \in SUBSET Nat
  BY <1>1, <1>2
<1> DEFINE i == Min(ForkPending)
<1>4. i \in ForkPending
  BY <1>3, MinFacts
<1>5. i \in DOMAIN ForkOrder
  BY <1>4 DEF ForkPending
<1> HIDE DEF i
<1>6. Range(ForkOrder) = {ForkOrder[j] : j \in DOMAIN ForkOrder}
  BY DEF Range
<1>7. ForkOrder[i] \in Range(ForkOrder)
  BY <1>5, <1>6
<1> QED
  BY <1>7, ProdConsAssumption DEF i

\* The calls of the program are those of SynchProofs.
LEMMA ProdConsStep ==
  ASSUME TypeOK, Control, [Next]_vars
  PROVE  SynchStep
<1>a. /\ Semaphore = {nempty, nfull, mutex} /\ Lock = {}
      /\ Producer \subseteq Thread /\ Consumer \subseteq Thread /\ Main \in Thread
  BY ProdConsAssumption
<1>1. ASSUME NEW t \in Thread, NEW s \in Semaphore, NEW from, NEW to,
             CallP(t, s, from, to), s = SemaphoreOf(from)
      PROVE  SynchStep
  <2>1. inP[t] \in {NULL, s} /\ Running(t) /\ P(t, s)
    BY <1>1 DEF Control, CallP
  <2>2. Routine(t)
    BY <1>a, <2>1 DEF Routine
  <2> QED
    BY <2>1, <2>2 DEF SynchStep
<1>2. ASSUME NEW t \in Thread, NEW s \in Semaphore, NEW from, NEW to, CallV(t, s, from, to)
      PROVE  SynchStep
  <2>1. V(s)
    BY <1>2 DEF CallV
  <2> QED
    BY <1>a, <2>1 DEF SynchStep
<1>3. ASSUME NEW t \in Thread, NEW from, CallFinish(t, from)
      PROVE  SynchStep
  BY <1>3 DEF CallFinish, AtUserCode, Routine, SynchStep
<1>4. CASE MainFork
  <2>1. PICK u \in Thread : CallFork(Main, u, "fork")
    BY <1>4, <1>a, NextForked DEF MainFork
  <2> QED
    BY <1>a, <2>1 DEF CallFork, AtUserCode, Routine, SynchStep
<1>5. CASE MainFinish
  BY <1>3, <1>5, <1>a DEF MainFinish
<1>6. ASSUME NEW t \in Thread, ThreadStep(t)
      PROVE  SynchStep
  <2>1. nempty = SemaphoreOf("nempty.P") /\ nfull = SemaphoreOf("nfull.P")
        /\ mutex = SemaphoreOf("mutex.P")
    BY DEF SemaphoreOf
  <2>2. CASE ProducerEmptyP(t)
    BY <1>1, <1>a, <2>1, <2>2 DEF ProducerEmptyP
  <2>3. CASE ProducerMutexP(t)
    BY <1>1, <1>a, <2>1, <2>3 DEF ProducerMutexP
  <2>4. CASE ConsumerFullP(t)
    BY <1>1, <1>a, <2>1, <2>4 DEF ConsumerFullP
  <2>5. CASE ConsumerMutexP(t)
    BY <1>1, <1>a, <2>1, <2>5 DEF ConsumerMutexP
  <2>6. CASE ProducerPut(t)
    BY <1>2, <1>a, <2>6 DEF ProducerPut
  <2>7. CASE ProducerFullV(t)
    BY <1>2, <1>a, <2>7 DEF ProducerFullV
  <2>8. CASE ConsumerGet(t)
    BY <1>2, <1>a, <2>8 DEF ConsumerGet
  <2>9. CASE ConsumerEmptyV(t)
    BY <1>2, <1>a, <2>9 DEF ConsumerEmptyV
  <2>10. CASE ProducerFinish(t)
    BY <1>3, <2>10 DEF ProducerFinish
  <2> QED
    BY <1>6, <2>2, <2>3, <2>4, <2>5, <2>6, <2>7, <2>8, <2>9, <2>10 DEF ThreadStep
<1>7. CASE TimeSlice
  <2>1. current \in Thread
    BY DEF TypeOK, SynchTypeOK, SchedTypeOK
  <2> QED
    BY <1>7, <2>1 DEF TimeSlice, Preempt, AtUserCode, Routine, SynchStep
<1>8. CASE UNCHANGED vars
  BY <1>8 DEF vars, kernelVars, SynchStep
<1> QED
  BY <1>4, <1>5, <1>6, <1>7, <1>8 DEF Next

LEMMA StepTypeOK ==
  ASSUME TypeOK, Control, [Next]_vars
  PROVE  TypeOK'
<1>1. SynchTypeOK'
  BY ProdConsStep, StepType DEF TypeOK
<1>a. /\ Producer \subseteq Thread /\ Consumer \subseteq Thread /\ Main \in Thread
      /\ nempty \in Semaphore /\ nfull \in Semaphore /\ mutex \in Semaphore
      /\ BUFF_SIZE \in Nat \ {0} /\ N_MESSG \in Nat /\ Producer \cap Consumer = {}
  BY ProdConsAssumption
<1>b. /\ pc \in [Thread -> Label] /\ num \in [Producer -> 0 .. N_MESSG]
      /\ buffer \in [0 .. BUFF_SIZE - 1 -> Slot]
      /\ in \in 0 .. BUFF_SIZE - 1 /\ out \in 0 .. BUFF_SIZE - 1
      /\ message \in [Producer \cup Consumer -> Slot]
      /\ log \in [Consumer -> Seq(Slot)] /\ got \in [Consumer -> Seq(Slot)]
      /\ SynchTypeOK
  BY DEF TypeOK
<1> DEFINE Rest == /\ pc' \in [Thread -> Label]
                   /\ num' \in [Producer -> 0 .. N_MESSG]
                   /\ buffer' \in [0 .. BUFF_SIZE - 1 -> Slot]
                   /\ in' \in 0 .. BUFF_SIZE - 1 /\ out' \in 0 .. BUFF_SIZE - 1
                   /\ message' \in [Producer \cup Consumer -> Slot]
                   /\ log' \in [Consumer -> Seq(Slot)] /\ got' \in [Consumer -> Seq(Slot)]
<1>2. ASSUME NEW t \in Thread, NEW s \in Semaphore, NEW from, NEW to \in Label,
             CallP(t, s, from, to)
      PROVE  pc' \in [Thread -> Label]
  BY <1>2, <1>b, StepPFacts DEF Goto
<1>3. ASSUME NEW t \in Thread, NEW s \in Semaphore, NEW from, NEW to \in Label,
             CallV(t, s, from, to)
      PROVE  pc' \in [Thread -> Label]
  <2>1. Goto(t, to)
    BY <1>3, StepVFacts
  <2> QED
    BY <2>1, <1>b DEF Goto
<1>4. ASSUME MainFork \/ TimeSlice \/ UNCHANGED vars
      PROVE  Rest
  BY <1>4, <1>b DEF MainFork, CallFork, TimeSlice, Preempt, vars, progVars, ringVars
<1>5. ASSUME MainFinish
      PROVE  Rest
  BY <1>5, <1>b DEF MainFinish, CallFinish, Goto, Label, progVars, ringVars
<1>w. \A x \in 0 .. BUFF_SIZE - 1 : (x + 1) % BUFF_SIZE \in 0 .. BUFF_SIZE - 1
  BY <1>a, Wrap
<1>6. ASSUME NEW t \in Thread, ThreadStep(t)
      PROVE  Rest
  <2>1. {"mutex.P", "mutex.V", "nfull.V", "nempty.P", "nempty.V", "nfull.P", "done"}
          \subseteq Label
    BY DEF Label
  <2>2. CASE ProducerEmptyP(t)
    <3>1. pc' \in [Thread -> Label]
      BY <1>2, <1>a, <2>1, <2>2 DEF ProducerEmptyP
    <3>2. [thread_id |-> t, value |-> num[t]] \in Slot
      BY <1>b, <2>2 DEF ProducerEmptyP, Slot
    <3> QED
      BY <1>b, <2>2, <3>1, <3>2 DEF ProducerEmptyP, ringVars
  <2>3. CASE ProducerMutexP(t)
    <3>1. pc' \in [Thread -> Label]
      BY <1>2, <1>a, <2>1, <2>3 DEF ProducerMutexP
    <3> QED
      BY <1>b, <2>3, <3>1 DEF ProducerMutexP, ringVars
  <2>4. CASE ConsumerFullP(t)
    <3>1. pc' \in [Thread -> Label]
      BY <1>2, <1>a, <2>1, <2>4 DEF ConsumerFullP
    <3>2. log[t] \in Seq(Slot) /\ message[t] \in Slot
      BY <1>b, <2>4 DEF ConsumerFullP
    <3>3. Append(log[t], message[t]) \in Seq(Slot)
      BY <3>2
    <3> QED
      BY <1>b, <2>4, <3>1, <3>3 DEF ConsumerFullP, ringVars
  <2>5. CASE ConsumerMutexP(t)
    <3>1. pc' \in [Thread -> Label]
      BY <1>2, <1>a, <2>1, <2>5 DEF ConsumerMutexP
    <3> QED
      BY <1>b, <2>5, <3>1 DEF ConsumerMutexP, ringVars
  <2>6. CASE ProducerPut(t)
    <3>1. pc' \in [Thread -> Label]
      BY <1>3, <1>a, <2>1, <2>6 DEF ProducerPut
    <3>2. message[t] \in Slot /\ in' \in 0 .. BUFF_SIZE - 1
      BY <1>b, <1>w, <2>6 DEF ProducerPut, PutSlot
    <3> QED
      BY <1>b, <2>6, <3>1, <3>2 DEF ProducerPut, PutSlot
  <2>7. CASE ProducerFullV(t)
    <3>1. pc' \in [Thread -> Label]
      BY <1>3, <1>a, <2>1, <2>7 DEF ProducerFullV
    <3>2. pc[t] = "nfull.V"
      BY <1>a, <2>7, StepVFacts DEF ProducerFullV
    <3>3. num[t] \in 0 .. N_MESSG /\ num[t] < N_MESSG
      BY <1>b, <2>7, <3>2 DEF Control, ProducerFullV
    <3>4. num[t] + 1 \in 0 .. N_MESSG
      BY <1>a, <3>3
    <3> QED
      BY <1>b, <2>7, <3>1, <3>4 DEF ProducerFullV, ringVars
  <2>8. CASE ConsumerGet(t)
    <3>1. pc' \in [Thread -> Label]
      BY <1>3, <1>a, <2>1, <2>8 DEF ConsumerGet
    <3>2. buffer[out] \in Slot /\ out' \in 0 .. BUFF_SIZE - 1
      BY <1>b, <1>w, <2>8 DEF ConsumerGet, GetSlot
    <3>3. message' \in [Producer \cup Consumer -> Slot] /\ message'[t] \in Slot
      BY <1>b, <2>8, <3>2 DEF ConsumerGet, GetSlot
    <3>4. got[t] \in Seq(Slot)
      BY <1>b, <2>8 DEF ConsumerGet
    <3>5. Append(got[t], message'[t]) \in Seq(Slot)
      BY <3>3, <3>4
    <3> QED
      BY <1>b, <2>8, <3>1, <3>2, <3>3, <3>5 DEF ConsumerGet
  <2>9. CASE ConsumerEmptyV(t)
    <3>1. pc' \in [Thread -> Label]
      BY <1>3, <1>a, <2>1, <2>9 DEF ConsumerEmptyV
    <3> QED
      BY <1>b, <2>9, <3>1 DEF ConsumerEmptyV, ringVars
  <2>10. CASE ProducerFinish(t)
    BY <1>b, <2>1, <2>10 DEF ProducerFinish, CallFinish, Goto, progVars, ringVars
  <2> HIDE DEF Rest
  <2> QED
    BY <1>6, <2>2, <2>3, <2>4, <2>5, <2>6, <2>7, <2>8, <2>9, <2>10 DEF ThreadStep
<1> QED
  BY <1>1, <1>4, <1>5, <1>6 DEF Next, TypeOK
\* How a thread moves: to the next label, or nowhere, with inP to match.
Moves(t, from, to) ==
  /\ pc[t] = from
  /\ finished' = finished
  /\ \/ Goto(t, to) /\ inP' = [inP EXCEPT ![t] = NULL]
     \/ pc' = pc /\ \E s \in {NULL, SemaphoreOf(from)} : inP' = [inP EXCEPT ![t] = s]

LEMMA CallMoves ==
  ASSUME SynchTypeOK, NEW t \in Thread, NEW s \in Semaphore, NEW from, NEW to
  PROVE  /\ CallP(t, s, from, to) /\ s = SemaphoreOf(from) => Moves(t, from, to)
         /\ CallV(t, s, from, to) => Moves(t, from, to)
<1>1. ASSUME CallP(t, s, from, to), s = SemaphoreOf(from)
      PROVE  Moves(t, from, to)
  BY <1>1, StepPFacts DEF Moves
<1>2. ASSUME CallV(t, s, from, to)
      PROVE  Moves(t, from, to)
  <2>1. inP = [inP EXCEPT ![t] = NULL]
    BY <1>2, StepVFacts DEF SynchTypeOK
  <2> QED
    BY <1>2, <2>1, StepVFacts DEF Moves
<1> QED
  BY <1>1, <1>2

\* The part of Control that is about where a thread is.
ControlOf(t) ==
  /\ inP[t] \in {NULL, SemaphoreOf(pc[t])}
  /\ pc[t] = "done" <=> t \in finished

LEMMA MovesControl ==
  ASSUME TypeOK, Control, NEW t \in Thread, NEW from, NEW to, Moves(t, from, to),
         from # "done", to # "done"
  PROVE  /\ \A u \in Thread : ControlOf(u)'
         /\ \A u \in Thread \ {t} : pc'[u] = pc[u]
         /\ pc'[t] \in {from, to}
<1>1. /\ pc \in [Thread -> Label] /\ inP \in [Thread -> Semaphore \cup {NULL}]
      /\ \A u \in Thread : ControlOf(u)
  BY DEF TypeOK, SynchTypeOK, Control, ControlOf
<1>2. /\ \A u \in Thread \ {t} : pc'[u] = pc[u] /\ inP'[u] = inP[u]
      /\ pc'[t] \in {from, to}
      /\ inP'[t] \in {NULL, SemaphoreOf(pc'[t])}
      /\ finished' = finished /\ pc[t] = from
  BY <1>1 DEF Moves, Goto
<1> QED
  BY <1>1, <1>2 DEF ControlOf

\* Each action keeps Control.
LEMMA StepControl ==
  ASSUME TypeOK, Control, [Next]_vars
  PROVE  Control'
<1>a. /\ Producer \subseteq Thread /\ Consumer \subseteq Thread /\ Main \in Thread
      /\ nempty \in Semaphore /\ nfull \in Semaphore /\ mutex \in Semaphore
      /\ N_MESSG \in Nat /\ Producer \cap Consumer = {}
      /\ Main \notin Producer \cup Consumer
      /\ Thread = {Main} \cup Producer \cup Consumer
  BY ProdConsAssumption
<1>b. /\ pc \in [Thread -> Label] /\ num \in [Producer -> 0 .. N_MESSG]
      /\ message \in [Producer \cup Consumer -> Slot]
      /\ SynchTypeOK /\ status \in [Thread -> Status]
      /\ inP \in [Thread -> Semaphore \cup {NULL}]
  BY DEF TypeOK, SynchTypeOK, SchedTypeOK
<1>c. /\ pc[Main] \in {"fork", "done"} /\ status[Main] # "JUST_CREATED"
      /\ \A p \in Producer :
           /\ pc[p] \in ProducerLabel
           /\ pc[p] \in {"mutex.P", "mutex.V", "nfull.V"} => num[p] < N_MESSG
           /\ pc[p] = "done" => num[p] = N_MESSG
           /\ pc[p] \in {"mutex.P", "mutex.V"} =>
                message[p] = [thread_id |-> p, value |-> num[p]]
      /\ \A c \in Consumer : pc[c] \in ConsumerLabel
      /\ \A t \in Thread : ControlOf(t)
      /\ pc[Main] = "done" => \A t \in Thread : status[t] # "JUST_CREATED"
  BY DEF Control, ControlOf
<1>d. \A t \in Thread : status'[t] = "JUST_CREATED" => status[t] = "JUST_CREATED"
  BY ProdConsStep, StepCreated, <1>b
<1>m. status'[Main] # "JUST_CREATED"
  BY <1>a, <1>c, <1>d
<1>1. CASE MainFork \/ TimeSlice \/ UNCHANGED vars
  <2>1. UNCHANGED <<pc, num, message, inP, finished>>
    BY <1>1 DEF MainFork, CallFork, Fork, ReadyToRun, TimeSlice, Preempt, Yield, vars,
       kernelVars, schedVars, synchVars, progVars
  <2> QED
    BY <1>m, <1>c, <1>d, <2>1 DEF Control, ControlOf
<1>2. CASE MainFinish
  <2>1. /\ pc' = [pc EXCEPT ![Main] = "done"] /\ UNCHANGED <<num, message, inP>>
        /\ finished' = finished \cup {Main} /\ status[Main] = "RUNNING" /\ inP[Main] = NULL
    BY <1>2 DEF MainFinish, CallFinish, Finish, Goto, synchVars, progVars, AtUserCode, Running
  <2>2. \A t \in Producer \cup Consumer : status[t] # "JUST_CREATED"
    <3>1. Range(ForkOrder) = {ForkOrder[j] : j \in DOMAIN ForkOrder}
      BY DEF Range
    <3>2. \A t \in Producer \cup Consumer : \E j \in DOMAIN ForkOrder : t = ForkOrder[j]
      BY <3>1, ProdConsAssumption
    <3> QED
      BY <1>2, <3>2 DEF MainFinish, ForkPending
  <2> QED
    BY <1>a, <1>b, <1>c, <1>d, <2>1, <2>2 DEF Control, ControlOf
<1>3. ASSUME NEW t \in Producer \cup Consumer, NEW from, NEW to, Moves(t, from, to),
             from # "done", to # "done"
      PROVE  /\ \A u \in Thread : ControlOf(u)'
             /\ \A u \in Thread \ {t} : pc'[u] = pc[u]
             /\ pc[t] = from /\ pc'[t] \in {from, to}
             /\ pc'[Main] = pc[Main]
             /\ pc'[Main] = "done" => \A u \in Thread : status'[u] # "JUST_CREATED"
  <2>1. /\ \A u \in Thread : ControlOf(u)'
        /\ \A u \in Thread \ {t} : pc'[u] = pc[u]
        /\ pc'[t] \in {from, to}
    BY <1>3, <1>a, MovesControl
  <2> QED
    BY <1>a, <1>c, <1>d, <1>3, <2>1 DEF Moves
<1>l. /\ SemaphoreOf("nempty.P") = nempty /\ SemaphoreOf("nfull.P") = nfull
      /\ SemaphoreOf("mutex.P") = mutex
  BY DEF SemaphoreOf
<1>4. ASSUME NEW p \in Producer, ThreadStep(p)
      PROVE  Control'
  <2>n. p \notin Consumer /\ p \in Thread
    BY <1>a
  <2>1. CASE ProducerEmptyP(p)
    <3>1. Moves(p, "nempty.P", "mutex.P")
      BY <1>a, <1>b, <1>l, <2>1, CallMoves DEF ProducerEmptyP
    <3>2. /\ message' = [message EXCEPT ![p] = [thread_id |-> p, value |-> num[p]]]
          /\ num' = num /\ num[p] < N_MESSG
      BY <2>1 DEF ProducerEmptyP
    <3> QED
      BY <1>m, <1>3, <1>a, <1>b, <1>c, <3>1, <3>2
      DEF Control, ControlOf, ProducerLabel, ConsumerLabel
  <2>2. CASE ProducerMutexP(p)
    <3>1. Moves(p, "mutex.P", "mutex.V") /\ UNCHANGED <<num, message>>
      BY <1>a, <1>b, <1>l, <2>2, CallMoves DEF ProducerMutexP
    <3> QED
      BY <1>m, <1>3, <1>a, <1>b, <1>c, <3>1 DEF Control, ControlOf, ProducerLabel, ConsumerLabel
  <2>3. CASE ProducerPut(p)
    <3>1. Moves(p, "mutex.V", "nfull.V") /\ UNCHANGED <<num, message>>
      BY <1>a, <1>b, <2>3, CallMoves DEF ProducerPut
    <3> QED
      BY <1>m, <1>3, <1>a, <1>b, <1>c, <3>1 DEF Control, ControlOf, ProducerLabel, ConsumerLabel
  <2>4. CASE ProducerFullV(p)
    <3>1. /\ Moves(p, "nfull.V", "nempty.P") /\ UNCHANGED message
          /\ num' = [num EXCEPT ![p] = @ + 1]
      BY <1>a, <1>b, <2>4, CallMoves DEF ProducerFullV
    <3>2. pc'[p] = "nempty.P"
      BY <1>a, <1>b, <2>4, StepVFacts DEF ProducerFullV, Goto
    <3> QED
      BY <1>m, <1>3, <1>a, <1>b, <1>c, <3>1, <3>2
      DEF Control, ControlOf, ProducerLabel, ConsumerLabel
  <2>5. CASE ProducerFinish(p)
    <3>1. /\ pc' = [pc EXCEPT ![p] = "done"] /\ UNCHANGED <<num, message, inP>>
          /\ finished' = finished \cup {p} /\ inP[p] = NULL /\ num[p] = N_MESSG
      BY <2>5 DEF ProducerFinish, CallFinish, Finish, Goto, synchVars, progVars, AtUserCode
    <3> QED
      BY <1>a, <1>b, <1>c, <1>d, <3>1 DEF Control, ControlOf, ProducerLabel
  <2> QED
    BY <1>4, <2>n, <2>1, <2>2, <2>3, <2>4, <2>5
    DEF ThreadStep, ConsumerFullP, ConsumerMutexP, ConsumerGet, ConsumerEmptyV
<1>5. ASSUME NEW c \in Consumer, ThreadStep(c)
      PROVE  Control'
  <2>n. c \notin Producer /\ c \in Thread
    BY <1>a
  <2>1. /\ \/ Moves(c, "nfull.P", "mutex.P") \/ Moves(c, "mutex.P", "mutex.V")
           \/ Moves(c, "mutex.V", "nempty.V") \/ Moves(c, "nempty.V", "nfull.P")
        /\ num' = num /\ \A p \in Producer : message'[p] = message[p]
    <3>1. CASE ConsumerFullP(c)
      BY <1>a, <1>b, <1>l, <3>1, CallMoves DEF ConsumerFullP
    <3>2. CASE ConsumerMutexP(c)
      BY <1>a, <1>b, <1>l, <3>2, CallMoves DEF ConsumerMutexP
    <3>3. CASE ConsumerGet(c)
      BY <1>a, <1>b, <3>3, CallMoves DEF ConsumerGet, GetSlot
    <3>4. CASE ConsumerEmptyV(c)
      BY <1>a, <1>b, <3>4, CallMoves DEF ConsumerEmptyV
    <3> QED
      BY <1>5, <2>n, <3>1, <3>2, <3>3, <3>4
      DEF ThreadStep, ProducerEmptyP, ProducerMutexP, ProducerPut, ProducerFullV, ProducerFinish
  <2>2. PICK from \in ConsumerLabel, to \in ConsumerLabel : Moves(c, from, to)
    BY <2>1 DEF ConsumerLabel
  <2>3. from # "done" /\ to # "done"
    BY DEF ConsumerLabel
  <2>4. /\ \A u \in Thread : ControlOf(u)'
        /\ \A u \in Thread \ {c} : pc'[u] = pc[u]
        /\ pc'[c] \in ConsumerLabel
        /\ pc'[Main] = pc[Main]
        /\ pc'[Main] = "done" => \A u \in Thread : status'[u] # "JUST_CREATED"
    BY <1>3, <2>2, <2>3
  <2>5. \A p \in Producer : pc'[p] = pc[p]
    BY <1>a, <2>4
  <2> QED
    BY <1>m, <1>a, <1>c, <2>1, <2>4, <2>5 DEF Control, ControlOf
<1>6. ASSUME ThreadStep(Main)
      PROVE  FALSE
  BY <1>6, <1>a DEF ThreadStep, ProducerEmptyP, ProducerMutexP, ProducerPut, ProducerFullV,
     ProducerFinish, ConsumerFullP, ConsumerMutexP, ConsumerGet, ConsumerEmptyV
<1>7. CASE \E t \in Thread : ThreadStep(t)
  BY <1>4, <1>5, <1>6, <1>7, <1>a
<1> QED
  BY <1>1, <1>2, <1>7 DEF Next
-----------------------------------------------------------------------------
(* The counting of the semaphores.                                         *)

Taken == [c \in Consumer |-> Len(got[c])]

LEMMA FilledFacts ==
  ASSUME TypeOK
  PROVE  /\ Sent \in [Producer -> Nat] /\ Taken \in [Consumer -> Nat]
         /\ IsFiniteSet(Producer) /\ IsFiniteSet(Consumer)
         /\ Total(Sent) \in Nat /\ Total(Taken) \in Nat
         /\ Filled = Total(Sent) - Total(Taken)
<1>1. IsFiniteSet(Producer) /\ IsFiniteSet(Consumer)
  BY ThreadAssumption, ProdConsAssumption, FS_Subset
<1>2. Sent \in [Producer -> Nat]
  BY ProdConsAssumption DEF TypeOK, Sent
<1>3. Taken \in [Consumer -> Nat]
  <2>1. \A c \in Consumer : Len(got[c]) \in Nat
    BY DEF TypeOK
  <2> QED
    BY <2>1 DEF Taken
<1> QED
  BY <1>1, <1>2, <1>3, ItemsFacts DEF Filled, Taken

\* Only Put() and Get() change how many slots are filled.
LEMMA FilledSame ==
  ASSUME TypeOK, got' = got, num' = num, NEW t \in Thread, NEW to,
         pc' = pc \/ Goto(t, to), pc[t] # "nfull.V", to # "nfull.V"
  PROVE  Sent' = Sent /\ Filled' = Filled
<1>1. \A p \in Producer : pc'[p] = "nfull.V" <=> pc[p] = "nfull.V"
  BY ProdConsAssumption DEF Goto, TypeOK
<1>2. Sent' = Sent
  BY <1>1 DEF Sent
<1> QED
  BY <1>2 DEF Filled

\* V() of nfull comes with the end of the iteration.
LEMMA FilledNextMessage ==
  ASSUME TypeOK, got' = got, NEW p \in Producer, pc[p] = "nfull.V", Goto(p, "nempty.P"),
         num' = [num EXCEPT ![p] = @ + 1]
  PROVE  Sent' = Sent /\ Filled' = Filled
<1>1. Sent' = Sent
  BY ProdConsAssumption DEF Goto, TypeOK, Sent
<1> QED
  BY <1>1 DEF Filled

LEMMA FilledPut ==
  ASSUME TypeOK, got' = got, num' = num, NEW p \in Producer, pc[p] = "mutex.V",
         Goto(p, "nfull.V")
  PROVE  /\ Sent' = [Sent EXCEPT ![p] = @ + 1]
         /\ Sent[p] = num[p]
         /\ Filled' = Filled + 1
<1>1. /\ Sent'[p] = Sent[p] + 1 /\ Sent[p] = num[p] /\ Sent[p] \in Nat
      /\ \A u \in Producer \ {p} : Sent'[u] = Sent[u]
  <2>1. /\ num[p] \in Nat /\ p \in Thread /\ pc'[p] = "nfull.V"
        /\ \A u \in Producer \ {p} : pc'[u] = pc[u]
    BY ProdConsAssumption DEF Goto, TypeOK
  <2>2. \A u \in Producer :
          /\ Sent[u] = num[u] + (IF pc[u] = "nfull.V" THEN 1 ELSE 0)
          /\ Sent'[u] = num[u] + (IF pc'[u] = "nfull.V" THEN 1 ELSE 0)
    BY DEF Sent
  <2> QED
    BY <2>1, <2>2
<1> DEFINE f == Sent
           g == Sent'
<1>2. /\ g[p] = f[p] + 1 /\ \A u \in Producer \ {p} : g[u] = f[u]
      /\ f \in [Producer -> Nat] /\ IsFiniteSet(Producer)
  BY <1>1, FilledFacts
<1>3. f[p] + 1 \in Nat
  BY <1>1
<1>4. g = [f EXCEPT ![p] = @ + 1] /\ g \in [Producer -> Nat]
  <2>1. g = [u \in Producer |-> g[u]]
    BY DEF Sent
  <2> HIDE DEF f, g
  <2>2. g = [f EXCEPT ![p] = @ + 1]
    BY <1>2, <2>1, Zenon
  <2>3. \A u \in Producer : g[u] \in Nat
    BY <1>2, <1>3
  <2> QED
    BY <2>1, <2>2, <2>3
<1>5. Filled' = Total(g) - Total(Taken)
  BY DEF Filled, Taken
<1> HIDE DEF f, g
<1>6. Total(g) = Total(f) + 1
  BY <1>2, <1>4, TotalGrows
<1>7. Filled = Total(f) - Total(Taken) /\ Total(f) \in Nat /\ Total(Taken) \in Nat
  BY FilledFacts DEF f
<1>8. Filled' = Filled + 1
  BY <1>5, <1>6, <1>7
<1> QED
  BY <1>1, <1>4, <1>8 DEF f, g

LEMMA FilledGet ==
  ASSUME TypeOK, num' = num, NEW c \in Consumer, pc[c] = "mutex.V", Goto(c, "nempty.V"),
         NEW m \in Slot, got' = [got EXCEPT ![c] = Append(@, m)]
  PROVE  Sent' = Sent /\ Filled' = Filled - 1
<1>1. Sent' = Sent
  BY ProdConsAssumption DEF Goto, TypeOK, Sent
<1> DEFINE f == Taken
           g == [d \in Consumer |-> Len(got'[d])]
<1>2. /\ \A d \in Consumer : got[d] \in Seq(Slot)
      /\ got'[c] = Append(got[c], m) /\ \A d \in Consumer \ {c} : got'[d] = got[d]
  BY DEF TypeOK
<1>3. /\ g[c] = f[c] + 1 /\ \A u \in Consumer \ {c} : g[u] = f[u]
      /\ g \in [Consumer -> Nat]
  BY <1>2 DEF Taken
<1>4. f \in [Consumer -> Nat] /\ IsFiniteSet(Consumer)
  BY FilledFacts
<1>5. Filled' = Total(Sent) - Total(g)
  BY <1>1 DEF Filled
<1> HIDE DEF f, g
<1>6. Total(g) = Total(f) + 1
  BY <1>3, <1>4, TotalGrows
<1>7. Filled = Total(Sent) - Total(f) /\ Total(f) \in Nat /\ Total(Sent) \in Nat
  BY FilledFacts DEF f
<1> QED
  BY <1>1, <1>5, <1>6, <1>7

\* The counts of SlotAccounting.
LEMMA Counts ==
  ASSUME SlotAccounting
  PROVE  /\ At(Producer, "mutex.P") \in Nat /\ At(Producer, "mutex.V") \in Nat
         /\ At(Producer, "nfull.V") \in Nat
         /\ At(Consumer, "mutex.P") \in Nat /\ At(Consumer, "mutex.V") \in Nat
         /\ At(Consumer, "nempty.V") \in Nat /\ At(Thread, "mutex.V") \in Nat
         /\ value[nempty] \in Nat /\ value[nfull] \in Nat /\ value[mutex] \in Nat
         /\ value \in [Semaphore -> Nat]
         /\ Filled \in 0 .. BUFF_SIZE /\ BUFF_SIZE \in Nat \ {0}
         /\ At(Producer, "mutex.V") > 0 => Filled < BUFF_SIZE
         /\ At(Consumer, "mutex.V") > 0 => Filled > 0
<1>1. /\ At(Producer, "mutex.P") \in Nat /\ At(Producer, "mutex.V") \in Nat
      /\ At(Producer, "nfull.V") \in Nat
      /\ At(Consumer, "mutex.P") \in Nat /\ At(Consumer, "mutex.V") \in Nat
      /\ At(Consumer, "nempty.V") \in Nat /\ At(Thread, "mutex.V") \in Nat
  BY AtFacts, ProdConsAssumption DEF SlotAccounting, TypeOK
<1>2. /\ value[nempty] \in Nat /\ value[nfull] \in Nat /\ value[mutex] \in Nat
      /\ value \in [Semaphore -> Nat] /\ BUFF_SIZE \in Nat \ {0}
  BY ProdConsAssumption DEF SlotAccounting, TypeOK, SynchTypeOK
<1>3. Filled \in Int
  BY FilledFacts DEF SlotAccounting
<1> QED
  BY <1>1, <1>2, <1>3 DEF SlotAccounting

LEMMA CountMoves ==
  ASSUME TypeOK, NEW t \in Thread, NEW to, Goto(t, to), pc[t] # to
  PROVE  LET d(S, label) == (IF t \in S /\ label = to THEN 1 ELSE 0)
                            - (IF t \in S /\ label = pc[t] THEN 1 ELSE 0)
         IN  /\ At(Producer, "mutex.P")' = At(Producer, "mutex.P") + d(Producer, "mutex.P")
             /\ At(Producer, "mutex.V")' = At(Producer, "mutex.V") + d(Producer, "mutex.V")
             /\ At(Producer, "nfull.V")' = At(Producer, "nfull.V") + d(Producer, "nfull.V")
             /\ At(Consumer, "mutex.P")' = At(Consumer, "mutex.P") + d(Consumer, "mutex.P")
             /\ At(Consumer, "mutex.V")' = At(Consumer, "mutex.V") + d(Consumer, "mutex.V")
             /\ At(Consumer, "nempty.V")' = At(Consumer, "nempty.V") + d(Consumer, "nempty.V")
             /\ At(Thread, "mutex.V")' = At(Thread, "mutex.V") + d(Thread, "mutex.V")
<1>1. /\ Producer \in SUBSET Thread /\ Consumer \in SUBSET Thread /\ Thread \in SUBSET Thread
      /\ pc \in [Thread -> Label]
  BY ProdConsAssumption DEF TypeOK
<1> DEFINE d(S, label) == (IF t \in S /\ label = to THEN 1 ELSE 0)
                          - (IF t \in S /\ label = pc[t] THEN 1 ELSE 0)
<1>2. ASSUME NEW S \in SUBSET Thread, NEW label
      PROVE  At(S, label)' = At(S, label) + d(S, label)
  BY <1>1, AtMoves
<1> HIDE DEF d
<1>3. /\ At(Producer, "mutex.P")' = At(Producer, "mutex.P") + d(Producer, "mutex.P")
      /\ At(Producer, "mutex.V")' = At(Producer, "mutex.V") + d(Producer, "mutex.V")
      /\ At(Producer, "nfull.V")' = At(Producer, "nfull.V") + d(Producer, "nfull.V")
      /\ At(Consumer, "mutex.P")' = At(Consumer, "mutex.P") + d(Consumer, "mutex.P")
      /\ At(Consumer, "mutex.V")' = At(Consumer, "mutex.V") + d(Consumer, "mutex.V")
      /\ At(Consumer, "nempty.V")' = At(Consumer, "nempty.V") + d(Consumer, "nempty.V")
      /\ At(Thread, "mutex.V")' = At(Thread, "mutex.V") + d(Thread, "mutex.V")
  BY <1>1, <1>2
<1> QED
  BY <1>3 DEF d
\* The three equations of SlotAccounting.
Balanced ==
  /\ value[nempty] + At(Producer, "mutex.P") + At(Producer, "mutex.V")
       + Filled + At(Consumer, "nempty.V") = BUFF_SIZE
  /\ value[nfull] + At(Producer, "nfull.V")
       + At(Consumer, "mutex.P") + At(Consumer, "mutex.V") = Filled
  /\ value[mutex] + At(Thread, "mutex.V") = 1

\* A P() or a V() that moves no message.
LEMMA BalancedCall ==
  ASSUME SlotAccounting, NEW t \in Thread, NEW from, NEW to, NEW s \in Semaphore,
         Filled' = Filled,
         \/ t \in Producer /\ s = nempty /\ from = "nempty.P" /\ to = "mutex.P" /\ CallP(t, s, from, to)
         \/ t \in Producer /\ s = mutex /\ from = "mutex.P" /\ to = "mutex.V" /\ CallP(t, s, from, to)
         \/ t \in Producer /\ s = nfull /\ from = "nfull.V" /\ to = "nempty.P" /\ CallV(t, s, from, to)
         \/ t \in Consumer /\ s = nfull /\ from = "nfull.P" /\ to = "mutex.P" /\ CallP(t, s, from, to)
         \/ t \in Consumer /\ s = mutex /\ from = "mutex.P" /\ to = "mutex.V" /\ CallP(t, s, from, to)
         \/ t \in Consumer /\ s = nempty /\ from = "nempty.V" /\ to = "nfull.P" /\ CallV(t, s, from, to)
  PROVE  Balanced'
<1>1. TypeOK /\ SynchTypeOK /\ Balanced
  BY DEF SlotAccounting, TypeOK, Balanced
<1>a. /\ Producer \cap Consumer = {} /\ t \in Thread
      /\ nempty # nfull /\ nempty # mutex /\ nfull # mutex
      /\ nempty \in Semaphore /\ nfull \in Semaphore /\ mutex \in Semaphore
  BY ProdConsAssumption
<1>2. CASE pc' = pc /\ value' = value
  BY <1>1, <1>2 DEF Balanced, At
<1>3. CASE ~(pc' = pc /\ value' = value)
  <2>1. /\ pc[t] = from /\ Goto(t, to)
        /\ CallP(t, s, from, to) => value' = [value EXCEPT ![s] = @ - 1]
        /\ CallV(t, s, from, to) => value' = [value EXCEPT ![s] = @ + 1]
    BY <1>1, <1>3, StepPFacts, StepVFacts
  <2>2. pc[t] # to
    BY <2>1
  <2> DEFINE d(S, label) == (IF t \in S /\ label = to THEN 1 ELSE 0)
                            - (IF t \in S /\ label = from THEN 1 ELSE 0)
  <2>3. /\ At(Producer, "mutex.P")' = At(Producer, "mutex.P") + d(Producer, "mutex.P")
        /\ At(Producer, "mutex.V")' = At(Producer, "mutex.V") + d(Producer, "mutex.V")
        /\ At(Producer, "nfull.V")' = At(Producer, "nfull.V") + d(Producer, "nfull.V")
        /\ At(Consumer, "mutex.P")' = At(Consumer, "mutex.P") + d(Consumer, "mutex.P")
        /\ At(Consumer, "mutex.V")' = At(Consumer, "mutex.V") + d(Consumer, "mutex.V")
        /\ At(Consumer, "nempty.V")' = At(Consumer, "nempty.V") + d(Consumer, "nempty.V")
        /\ At(Thread, "mutex.V")' = At(Thread, "mutex.V") + d(Thread, "mutex.V")
    BY <1>1, <2>1, <2>2, CountMoves
  <2> QED
    BY <1>1, <1>a, <2>1, <2>3, Counts DEF Balanced
<1> QED
  BY <1>2, <1>3

LEMMA BalancedPut ==
  ASSUME SlotAccounting, NEW p \in Producer, CallV(p, mutex, "mutex.V", "nfull.V"),
         Filled' = Filled + 1
  PROVE  Balanced'
<1>1. TypeOK /\ Balanced
  BY DEF SlotAccounting, Balanced
<1>a. /\ p \notin Consumer /\ p \in Thread
      /\ nempty # nfull /\ nempty # mutex /\ nfull # mutex /\ mutex \in Semaphore
  BY ProdConsAssumption
<1>2. pc[p] = "mutex.V" /\ Goto(p, "nfull.V") /\ value' = [value EXCEPT ![mutex] = @ + 1]
  BY <1>a, StepVFacts
<1>3. /\ At(Producer, "mutex.P")' = At(Producer, "mutex.P")
      /\ At(Producer, "mutex.V")' = At(Producer, "mutex.V") - 1
      /\ At(Producer, "nfull.V")' = At(Producer, "nfull.V") + 1
      /\ At(Consumer, "mutex.P")' = At(Consumer, "mutex.P")
      /\ At(Consumer, "mutex.V")' = At(Consumer, "mutex.V")
      /\ At(Consumer, "nempty.V")' = At(Consumer, "nempty.V")
      /\ At(Thread, "mutex.V")' = At(Thread, "mutex.V") - 1
  BY <1>1, <1>2, <1>a, CountMoves, Counts
<1> QED
  BY <1>1, <1>a, <1>2, <1>3, Counts DEF Balanced

LEMMA BalancedGet ==
  ASSUME SlotAccounting, NEW c \in Consumer, CallV(c, mutex, "mutex.V", "nempty.V"),
         Filled' = Filled - 1
  PROVE  Balanced'
<1>1. TypeOK /\ Balanced
  BY DEF SlotAccounting, Balanced
<1>a. /\ c \notin Producer /\ c \in Thread
      /\ nempty # nfull /\ nempty # mutex /\ nfull # mutex /\ mutex \in Semaphore
  BY ProdConsAssumption
<1>2. pc[c] = "mutex.V" /\ Goto(c, "nempty.V") /\ value' = [value EXCEPT ![mutex] = @ + 1]
  BY <1>a, StepVFacts
<1>3. /\ At(Producer, "mutex.P")' = At(Producer, "mutex.P")
      /\ At(Producer, "mutex.V")' = At(Producer, "mutex.V")
      /\ At(Producer, "nfull.V")' = At(Producer, "nfull.V")
      /\ At(Consumer, "mutex.P")' = At(Consumer, "mutex.P")
      /\ At(Consumer, "mutex.V")' = At(Consumer, "mutex.V") - 1
      /\ At(Consumer, "nempty.V")' = At(Consumer, "nempty.V") + 1
      /\ At(Thread, "mutex.V")' = At(Thread, "mutex.V") - 1
  BY <1>1, <1>2, <1>a, CountMoves, Counts
<1> QED
  BY <1>1, <1>a, <1>2, <1>3, Counts DEF Balanced

\* main and the timer leave the counts alone.
LEMMA BalancedElse ==
  ASSUME SlotAccounting, NEW t \in Thread, value' = value, Filled' = Filled,
         pc' = pc \/ (Goto(t, "done") /\ pc[t] \in {"fork", "nempty.P"})
  PROVE  Balanced'
<1>1. TypeOK /\ Balanced
  BY DEF SlotAccounting, Balanced
<1>2. CASE pc' = pc
  BY <1>1, <1>2 DEF Balanced, At
<1>3. CASE Goto(t, "done") /\ pc[t] \in {"fork", "nempty.P"}
  <2>1. pc[t] # "done"
    BY <1>3
  <2>2. /\ At(Producer, "mutex.P")' = At(Producer, "mutex.P")
        /\ At(Producer, "mutex.V")' = At(Producer, "mutex.V")
        /\ At(Producer, "nfull.V")' = At(Producer, "nfull.V")
        /\ At(Consumer, "mutex.P")' = At(Consumer, "mutex.P")
        /\ At(Consumer, "mutex.V")' = At(Consumer, "mutex.V")
        /\ At(Consumer, "nempty.V")' = At(Consumer, "nempty.V")
        /\ At(Thread, "mutex.V")' = At(Thread, "mutex.V")
    BY <1>1, <1>3, <2>1, CountMoves, Counts
  <2> QED
    BY <1>1, <2>2 DEF Balanced
<1> QED
  BY <1>2, <1>3
-----------------------------------------------------------------------------
(* The ring as a queue.                                                    *)

\* Where Chan[i] is in the buffer.
SlotOf(o, i) == (o + i - 1) % BUFF_SIZE

LEMMA SlotFacts ==
  ASSUME NEW o \in 0 .. BUFF_SIZE - 1, NEW n \in 0 .. BUFF_SIZE
  PROVE  /\ \A i \in 1 .. n : SlotOf(o, i) \in 0 .. BUFF_SIZE - 1
         /\ n < BUFF_SIZE => \A i \in 1 .. n : SlotOf(o, i) # SlotOf(o, n + 1)
         /\ SlotOf(o, 1) = o
         /\ \A i \in 1 .. n : SlotOf((o + 1) % BUFF_SIZE, i) = SlotOf(o, i + 1)
         /\ SlotOf(o, n + 1) = (o + n) % BUFF_SIZE
         /\ n < BUFF_SIZE => (((o + n) % BUFF_SIZE) + 1) % BUFF_SIZE = (o + (n + 1)) % BUFF_SIZE
         /\ n > 0 => (((o + 1) % BUFF_SIZE) + (n - 1)) % BUFF_SIZE = (o + n) % BUFF_SIZE
<1> DEFINE B == BUFF_SIZE
<1>1. B \in Nat \ {0} /\ o \in Nat /\ n \in Nat /\ o < B /\ n <= B
  BY ProdConsAssumption
<1>2. \A x \in 0 .. 2 * B - 1 : x % B = IF x < B THEN x ELSE x - B
  BY <1>1, Wrap
<1> HIDE DEF B
<1>3. \A i \in 1 .. n : SlotOf(o, i) = IF o + i - 1 < B THEN o + i - 1 ELSE o + i - 1 - B
  BY <1>1, <1>2 DEF SlotOf, B
<1>4. n < B => SlotOf(o, n + 1) = IF o + n < B THEN o + n ELSE o + n - B
  BY <1>1, <1>2 DEF SlotOf, B
<1>5. SlotOf(o, n + 1) = (o + n) % B
  BY <1>1 DEF SlotOf, B
<1>6. (o + 1) % B = IF o + 1 < B THEN o + 1 ELSE 0
  BY <1>1, <1>2
<1>7. ASSUME NEW i \in 1 .. n
      PROVE  SlotOf((o + 1) % B, i) = SlotOf(o, i + 1)
  <2>1. SlotOf((o + 1) % B, i) = (((o + 1) % B) + i - 1) % B
    BY DEF SlotOf, B
  <2>2. SlotOf(o, i + 1) = (o + i) % B
    BY <1>1 DEF SlotOf, B
  <2>3. CASE o + 1 < B
    <3>1. ((o + 1) % B) + i - 1 = o + i
      BY <1>1, <1>6, <2>3
    <3> QED
      BY <2>1, <2>2, <3>1
  <2>4. CASE o + 1 = B
    <3>1. ((o + 1) % B) + i - 1 = i - 1 /\ i - 1 \in 0 .. B - 1
      BY <1>1, <1>6, <2>4
    <3>2. (i - 1) % B = i - 1 /\ o + i \in B .. 2 * B - 1
      BY <1>1, <1>2, <2>4, <3>1
    <3>3. (o + i) % B = i - 1
      BY <1>1, <1>2, <2>4, <3>2
    <3> QED
      BY <2>1, <2>2, <3>1, <3>2, <3>3
  <2> QED
    BY <1>1, <2>3, <2>4
<1>8. n < B => (((o + n) % B) + 1) % B = (o + (n + 1)) % B
  <2> SUFFICES ASSUME n < B PROVE (((o + n) % B) + 1) % B = (o + (n + 1)) % B
    OBVIOUS
  <2>1. CASE o + n < B
    <3>1. (o + n) % B = o + n
      BY <1>1, <1>2, <2>1
    <3>2. o + n + 1 = o + (n + 1)
      BY <1>1
    <3> QED
      BY <3>1, <3>2
  <2>2. CASE o + n >= B
    <3>1. (o + n) % B = o + n - B /\ o + n - B + 1 \in 0 .. B - 1 /\ o + (n + 1) \in B .. 2 * B - 1
      BY <1>1, <1>2, <2>2
    <3>2. (o + n - B + 1) % B = o + n - B + 1
      BY <1>1, <1>2, <3>1
    <3>3. (o + (n + 1)) % B = o + (n + 1) - B
      BY <1>1, <1>2, <3>1
    <3> QED
      BY <1>1, <3>1, <3>2, <3>3
  <2> QED
    BY <1>1, <2>1, <2>2
<1>9. n > 0 => (((o + 1) % B) + (n - 1)) % B = (o + n) % B
  <2> SUFFICES ASSUME n > 0 PROVE (((o + 1) % B) + (n - 1)) % B = (o + n) % B
    OBVIOUS
  <2>1. SlotOf((o + 1) % B, n) = SlotOf(o, n + 1)
    BY <1>1, <1>7
  <2>2. ((o + 1) % B) + n - 1 = ((o + 1) % B) + (n - 1)
    BY <1>1, <1>6
  <2>3. SlotOf((o + 1) % B, n) = (((o + 1) % B) + n - 1) % B
    BY DEF SlotOf, B
  <2> QED
    BY <1>5, <2>1, <2>2, <2>3
<1>10. SlotOf(o, 1) = o
  BY <1>1, <1>2 DEF SlotOf, B
<1>11. \A i \in 1 .. n : SlotOf(o, i) \in 0 .. B - 1
  BY <1>1, <1>3
<1>12. n < B => \A i \in 1 .. n : SlotOf(o, i) # SlotOf(o, n + 1)
  BY <1>1, <1>3, <1>4
<1> QED
  BY <1>5, <1>7, <1>8, <1>9, <1>10, <1>11, <1>12 DEF B

LEMMA ChanFacts ==
  ASSUME SlotAccounting
  PROVE  /\ Chan = [i \in 1 .. Filled |-> buffer[SlotOf(out, i)]]
         /\ Chan \in Seq(Slot) /\ Len(Chan) = Filled
         /\ Filled > 0 => Head(Chan) = buffer[out]
<1>1. /\ Filled \in 0 .. BUFF_SIZE /\ out \in 0 .. BUFF_SIZE - 1
      /\ buffer \in [0 .. BUFF_SIZE - 1 -> Slot]
  BY Counts DEF SlotAccounting, TypeOK
<1>2. Chan = [i \in 1 .. Filled |-> buffer[SlotOf(out, i)]]
  BY DEF Chan, SlotOf
<1>3. \A i \in 1 .. Filled : SlotOf(out, i) \in 0 .. BUFF_SIZE - 1
  BY <1>1, SlotFacts
<1>4. \A i \in 1 .. Filled : buffer[SlotOf(out, i)] \in Slot
  BY <1>1, <1>3
<1>5. Filled \in Nat
  BY <1>1, ProdConsAssumption
<1>6. Chan \in [1 .. Filled -> Slot]
  BY <1>2, <1>4
<1>7. Chan \in Seq(Slot) /\ Len(Chan) = Filled
  BY <1>5, <1>6
<1>8. SlotOf(out, 1) = out
  BY <1>1, SlotFacts
<1>9. Filled > 0 => Head(Chan) = buffer[out]
  BY <1>2, <1>5, <1>7, <1>8
<1> QED
  BY <1>2, <1>7, <1>9
LEMMA RingPut ==
  ASSUME SlotAccounting, Indices, NEW m \in Slot, PutSlot(m), out' = out,
         Filled < BUFF_SIZE, Filled' = Filled + 1
  PROVE  Chan' = Append(Chan, m) /\ Indices'
<1>1. /\ Filled \in 0 .. BUFF_SIZE /\ out \in 0 .. BUFF_SIZE - 1 /\ Filled \in Nat
      /\ buffer \in [0 .. BUFF_SIZE - 1 -> Slot]
  BY Counts DEF SlotAccounting, TypeOK
<1>2. /\ Chan = [i \in 1 .. Filled |-> buffer[SlotOf(out, i)]]
      /\ Chan \in Seq(Slot) /\ Len(Chan) = Filled
  BY ChanFacts
<1>3. Chan' = [i \in 1 .. Filled + 1 |-> buffer'[SlotOf(out, i)]]
  BY DEF Chan, SlotOf
<1>4. /\ \A i \in 1 .. Filled : SlotOf(out, i) \in 0 .. BUFF_SIZE - 1
      /\ \A i \in 1 .. Filled : SlotOf(out, i) # SlotOf(out, Filled + 1)
      /\ SlotOf(out, Filled + 1) = (out + Filled) % BUFF_SIZE
      /\ (((out + Filled) % BUFF_SIZE) + 1) % BUFF_SIZE = (out + (Filled + 1)) % BUFF_SIZE
  BY <1>1, SlotFacts
<1>5. SlotOf(out, Filled + 1) = in /\ in \in 0 .. BUFF_SIZE - 1
  BY <1>4 DEF Indices, SlotAccounting, TypeOK
<1>6. buffer' = [buffer EXCEPT ![in] = m] /\ in' = (in + 1) % BUFF_SIZE
  BY DEF PutSlot
<1>7. /\ \A i \in 1 .. Filled : buffer'[SlotOf(out, i)] = buffer[SlotOf(out, i)]
      /\ buffer'[SlotOf(out, Filled + 1)] = m
  BY <1>1, <1>4, <1>5, <1>6
<1>8. Chan' = Append(Chan, m)
  <2> DEFINE C == Chan
             A == Append(C, m)
             n == Filled
             G(i) == buffer'[SlotOf(out, i)]
             H(i) == buffer[SlotOf(out, i)]
  <2>1. /\ C = [i \in 1 .. n |-> H(i)] /\ C \in Seq(Slot) /\ Len(C) = n /\ n \in Nat
        /\ \A i \in 1 .. n : G(i) = H(i)
        /\ G(n + 1) = m
        /\ Chan' = [i \in 1 .. n + 1 |-> G(i)]
    BY <1>1, <1>2, <1>3, <1>7
  <2> HIDE DEF C, n, G, H
  <2>2. /\ A = [i \in 1 .. n + 1 |-> IF i = n + 1 THEN m ELSE C[i]]
    BY <2>1
  <2>3. \A i \in 1 .. n + 1 : (IF i = n + 1 THEN m ELSE C[i]) = G(i)
    BY <2>1
  <2>4. A = Chan'
    BY <2>1, <2>2, <2>3
  <2> QED
    BY <2>4 DEF C
<1>9. in' = (out + (Filled + 1)) % BUFF_SIZE
  BY <1>4, <1>5, <1>6
<1> QED
  BY <1>8, <1>9 DEF Indices

LEMMA RingGet ==
  ASSUME SlotAccounting, Indices, out' = (out + 1) % BUFF_SIZE, UNCHANGED <<buffer, in>>,
         Filled > 0, Filled' = Filled - 1
  PROVE  Chan' = Tail(Chan) /\ Indices'
<1>1. /\ Filled \in 0 .. BUFF_SIZE /\ out \in 0 .. BUFF_SIZE - 1 /\ Filled \in Nat
      /\ buffer \in [0 .. BUFF_SIZE - 1 -> Slot]
  BY Counts DEF SlotAccounting, TypeOK
<1>2. /\ Chan = [i \in 1 .. Filled |-> buffer[SlotOf(out, i)]]
      /\ Chan \in Seq(Slot) /\ Len(Chan) = Filled
  BY ChanFacts
<1>3. Chan' = [i \in 1 .. Filled - 1 |-> buffer[SlotOf((out + 1) % BUFF_SIZE, i)]]
  BY DEF Chan, SlotOf
<1>4. /\ \A i \in 1 .. Filled : SlotOf((out + 1) % BUFF_SIZE, i) = SlotOf(out, i + 1)
      /\ (((out + 1) % BUFF_SIZE) + (Filled - 1)) % BUFF_SIZE = (out + Filled) % BUFF_SIZE
  BY <1>1, SlotFacts
<1>5. Chan' = Tail(Chan)
  <2> DEFINE C == Chan
             n == Filled
             G(i) == buffer[SlotOf((out + 1) % BUFF_SIZE, i)]
             H(i) == buffer[SlotOf(out, i)]
  <2>1. /\ C = [i \in 1 .. n |-> H(i)] /\ C \in Seq(Slot) /\ Len(C) = n /\ n \in Nat /\ n > 0
        /\ \A i \in 1 .. n : G(i) = H(i + 1)
        /\ Chan' = [i \in 1 .. n - 1 |-> G(i)]
    BY <1>1, <1>2, <1>3, <1>4
  <2> HIDE DEF C, n, G, H
  <2>2. Tail(C) = [i \in 1 .. n - 1 |-> C[i + 1]]
    BY <2>1
  <2>3. \A i \in 1 .. n - 1 : C[i + 1] = G(i)
    BY <2>1
  <2>4. Tail(C) = Chan'
    BY <2>1, <2>2, <2>3
  <2> QED
    BY <2>4 DEF C
<1>6. in' = (out' + (Filled - 1)) % BUFF_SIZE
  BY <1>4 DEF Indices
<1> QED
  BY <1>5, <1>6 DEF Indices
-----------------------------------------------------------------------------
(* Every step keeps the count, and is a step of Fifo or none.              *)

Invariant == SlotAccounting /\ Control /\ Indices

\* A step that puts nothing into the ring and takes nothing out of it.
Elsewhere ==
  /\ Sent' = Sent /\ Filled' = Filled
  /\ UNCHANGED <<ringVars, got>>

Puts(p) ==
  /\ Chan' = Append(Chan, message[p])
  /\ message[p] = [thread_id |-> p, value |-> Sent[p]]
  /\ Sent[p] < N_MESSG /\ Len(Chan) < BUFF_SIZE
  /\ Sent' = [Sent EXCEPT ![p] = @ + 1]
  /\ got' = got

Gets(c) ==
  /\ Chan # <<>>
  /\ Chan' = Tail(Chan)
  /\ message' = [message EXCEPT ![c] = Head(Chan)]
  /\ got' = [got EXCEPT ![c] = Append(@, Head(Chan))]
  /\ Sent' = Sent

LEMMA PutStep ==
  ASSUME Invariant, NEW p \in Producer, ProducerPut(p)
  PROVE  Balanced' /\ Indices' /\ Puts(p)
<1>1. TypeOK /\ SlotAccounting /\ Control /\ Indices
  BY DEF Invariant, SlotAccounting
<1>2. CallV(p, mutex, "mutex.V", "nfull.V") /\ PutSlot(message[p])
      /\ UNCHANGED <<num, out, message, log, got>>
  BY DEF ProducerPut
<1>3. pc[p] = "mutex.V" /\ Goto(p, "nfull.V") /\ p \in Thread
  BY <1>2, ProdConsAssumption, StepVFacts
<1>4. Sent' = [Sent EXCEPT ![p] = @ + 1] /\ Sent[p] = num[p] /\ Filled' = Filled + 1
  BY <1>1, <1>2, <1>3, FilledPut
<1>5. At(Producer, "mutex.V") > 0
  BY <1>1, <1>3, AtFacts, ProdConsAssumption DEF TypeOK
<1>6. Filled < BUFF_SIZE
  BY <1>1, <1>5, Counts
<1>7. message[p] \in Slot
  BY <1>1 DEF TypeOK
<1>8. Chan' = Append(Chan, message[p]) /\ Indices'
  BY <1>1, <1>2, <1>4, <1>6, <1>7, RingPut
<1>9. message[p] = [thread_id |-> p, value |-> num[p]] /\ num[p] < N_MESSG
  BY <1>1, <1>3 DEF Control
<1>10. Balanced'
  BY <1>1, <1>2, <1>4, BalancedPut
<1>11. Len(Chan) = Filled
  BY <1>1, ChanFacts
<1> QED
  BY <1>2, <1>4, <1>6, <1>8, <1>9, <1>10, <1>11 DEF Puts

LEMMA GetStep ==
  ASSUME Invariant, NEW c \in Consumer, ConsumerGet(c)
  PROVE  Balanced' /\ Indices' /\ Gets(c)
<1>1. TypeOK /\ SlotAccounting /\ Control /\ Indices
  BY DEF Invariant, SlotAccounting
<1>2. /\ CallV(c, mutex, "mutex.V", "nempty.V")
      /\ message' = [message EXCEPT ![c] = buffer[out]]
      /\ out' = (out + 1) % BUFF_SIZE
      /\ got' = [got EXCEPT ![c] = Append(@, message'[c])]
      /\ UNCHANGED <<num, buffer, in, log>>
  BY DEF ConsumerGet, GetSlot
<1>3. pc[c] = "mutex.V" /\ Goto(c, "nempty.V") /\ c \in Thread
  BY <1>2, ProdConsAssumption, StepVFacts
<1>4. message'[c] = buffer[out] /\ buffer[out] \in Slot
  BY <1>1, <1>2 DEF TypeOK
<1>5. Sent' = Sent /\ Filled' = Filled - 1
  BY <1>1, <1>2, <1>3, <1>4, FilledGet
<1>6. At(Consumer, "mutex.V") > 0
  BY <1>1, <1>3, AtFacts, ProdConsAssumption DEF TypeOK
<1>7. Filled > 0
  BY <1>1, <1>6, Counts
<1>8. Chan' = Tail(Chan) /\ Indices'
  BY <1>1, <1>2, <1>5, <1>7, RingGet
<1>9. Balanced'
  BY <1>1, <1>2, <1>5, BalancedGet
<1>10. Head(Chan) = buffer[out] /\ Len(Chan) = Filled
  BY <1>1, <1>7, ChanFacts
<1>11. Chan # <<>>
  BY <1>7, <1>10, EmptySeq
<1> QED
  BY <1>2, <1>4, <1>5, <1>8, <1>9, <1>10, <1>11 DEF Gets

LEMMA ElseStep ==
  ASSUME Invariant, [Next]_vars,
         ~\E p \in Producer : ProducerPut(p), ~\E c \in Consumer : ConsumerGet(c)
  PROVE  Balanced' /\ Elsewhere
<1>1. TypeOK /\ SlotAccounting /\ SynchTypeOK /\ pc \in [Thread -> Label]
  BY DEF Invariant, SlotAccounting, TypeOK
<1>a. /\ Producer \subseteq Thread /\ Consumer \subseteq Thread /\ Main \in Thread
      /\ nempty \in Semaphore /\ nfull \in Semaphore /\ mutex \in Semaphore
  BY ProdConsAssumption
<1>2. ASSUME NEW t \in Thread, NEW s \in Semaphore, NEW from, NEW to,
             CallP(t, s, from, to), from # "nfull.V", to # "nfull.V",
             num' = num, UNCHANGED <<ringVars, got>>
      PROVE  Elsewhere
  BY <1>1, <1>2, StepPFacts, FilledSame DEF Elsewhere
<1>3. ASSUME NEW t \in Thread, ThreadStep(t)
      PROVE  Balanced' /\ Elsewhere
  <2>1. CASE ProducerEmptyP(t)
    <3>1. Elsewhere
      BY <1>2, <1>a, <2>1 DEF ProducerEmptyP
    <3> QED
      BY <1>1, <1>a, <2>1, <3>1, BalancedCall DEF ProducerEmptyP, Elsewhere
  <2>2. CASE ProducerMutexP(t)
    <3>1. Elsewhere
      BY <1>2, <1>a, <2>2 DEF ProducerMutexP
    <3> QED
      BY <1>1, <1>a, <2>2, <3>1, BalancedCall DEF ProducerMutexP, Elsewhere
  <2>3. CASE ConsumerFullP(t)
    <3>1. Elsewhere
      BY <1>2, <1>a, <2>3 DEF ConsumerFullP
    <3> QED
      BY <1>1, <1>a, <2>3, <3>1, BalancedCall DEF ConsumerFullP, Elsewhere
  <2>4. CASE ConsumerMutexP(t)
    <3>1. Elsewhere
      BY <1>2, <1>a, <2>4 DEF ConsumerMutexP
    <3> QED
      BY <1>1, <1>a, <2>4, <3>1, BalancedCall DEF ConsumerMutexP, Elsewhere
  <2>5. CASE ProducerFullV(t)
    <3>1. pc[t] = "nfull.V" /\ Goto(t, "nempty.P")
      BY <1>a, <2>5, StepVFacts DEF ProducerFullV
    <3>2. Elsewhere
      BY <1>1, <2>5, <3>1, FilledNextMessage DEF ProducerFullV, Elsewhere
    <3> QED
      BY <1>1, <1>a, <2>5, <3>2, BalancedCall DEF ProducerFullV, Elsewhere
  <2>6. CASE ConsumerEmptyV(t)
    <3>1. pc[t] = "nempty.V" /\ Goto(t, "nfull.P")
      BY <1>a, <2>6, StepVFacts DEF ConsumerEmptyV
    <3>2. Elsewhere
      BY <1>1, <2>6, <3>1, FilledSame DEF ConsumerEmptyV, Elsewhere
    <3> QED
      BY <1>1, <1>a, <2>6, <3>2, BalancedCall DEF ConsumerEmptyV, Elsewhere
  <2>7. CASE ProducerFinish(t)
    <3>1. /\ pc[t] = "nempty.P" /\ Goto(t, "done") /\ UNCHANGED <<num, ringVars, got, value>>
      BY <2>7 DEF ProducerFinish, CallFinish, progVars, synchVars, ringVars
    <3>2. Elsewhere
      BY <1>1, <3>1, FilledSame DEF Elsewhere
    <3> QED
      BY <1>1, <3>1, <3>2, BalancedElse DEF Elsewhere
  <2> QED
    BY <1>3, <2>1, <2>2, <2>3, <2>4, <2>5, <2>6, <2>7 DEF ThreadStep, ProducerPut, ConsumerGet
<1>4. CASE MainFork \/ TimeSlice \/ UNCHANGED vars
  <2>1. UNCHANGED <<pc, num, ringVars, got, value>>
    BY <1>4 DEF MainFork, CallFork, TimeSlice, Preempt, vars, kernelVars, synchVars, progVars,
       ringVars
  <2>2. Elsewhere
    BY <2>1 DEF Elsewhere, Sent, Filled
  <2> QED
    BY <1>1, <1>a, <2>1, <2>2, BalancedElse DEF Elsewhere
<1>5. CASE MainFinish
  <2>1. pc[Main] = "fork" /\ Goto(Main, "done") /\ UNCHANGED <<num, ringVars, got, value>>
    BY <1>5 DEF MainFinish, CallFinish, progVars, synchVars, ringVars
  <2>2. Elsewhere
    BY <1>1, <1>a, <2>1, FilledSame DEF Elsewhere
  <2> QED
    BY <1>1, <1>a, <2>1, <2>2, BalancedElse DEF Elsewhere
<1> QED
  BY <1>3, <1>4, <1>5 DEF Next

LEMMA RingStep ==
  ASSUME Invariant, [Next]_vars
  PROVE  /\ Invariant'
         /\ \/ \E p \in Producer : ProducerPut(p) /\ Puts(p)
            \/ \E c \in Consumer : ConsumerGet(c) /\ Gets(c)
            \/ Elsewhere /\ Chan' = Chan
<1>1. TypeOK' /\ Control'
  BY StepTypeOK, StepControl DEF Invariant, SlotAccounting
<1>2. Balanced' => SlotAccounting'
  BY <1>1 DEF Balanced, SlotAccounting
<1>3. CASE \E p \in Producer : ProducerPut(p)
  <2>1. PICK p \in Producer : ProducerPut(p)
    BY <1>3
  <2>2. Balanced' /\ Indices' /\ Puts(p)
    BY <2>1, PutStep
  <2> QED
    BY <1>1, <1>2, <2>1, <2>2 DEF Invariant
<1>4. CASE \E c \in Consumer : ConsumerGet(c)
  <2>1. PICK c \in Consumer : ConsumerGet(c)
    BY <1>4
  <2>2. Balanced' /\ Indices' /\ Gets(c)
    BY <2>1, GetStep
  <2> QED
    BY <1>1, <1>2, <2>1, <2>2 DEF Invariant
<1>5. CASE ~(\E p \in Producer : ProducerPut(p)) /\ ~\E c \in Consumer : ConsumerGet(c)
  <2>1. Balanced' /\ Elsewhere
    BY <1>5, ElseStep
  <2>2. Indices'
    BY <2>1 DEF Elsewhere, ringVars, Indices, Invariant
  <2>3. Chan' = Chan
    BY <2>1 DEF Elsewhere, ringVars, Chan
  <2> QED
    BY <1>1, <1>2, <2>1, <2>2, <2>3 DEF Invariant
<1> QED
  BY <1>3, <1>4, <1>5
LEMMA InitInvariant == Init => Invariant
<1> SUFFICES ASSUME Init PROVE Invariant
  OBVIOUS
<1>a. /\ Producer \subseteq Thread /\ Consumer \subseteq Thread /\ Main \in Thread
      /\ Producer \cap Consumer = {} /\ Main \notin Producer \cup Consumer
      /\ Thread = {Main} \cup Producer \cup Consumer
      /\ BUFF_SIZE \in Nat \ {0} /\ N_MESSG \in Nat
      /\ InitialValue[nempty] = BUFF_SIZE /\ InitialValue[nfull] = 0 /\ InitialValue[mutex] = 1
      /\ IsFiniteSet(Thread)
  BY ProdConsAssumption, ThreadAssumption
<1>1. SynchTypeOK
  BY InitType DEF Init
<1>2. /\ value = InitialValue /\ inP = [t \in Thread |-> NULL] /\ finished = {}
      /\ status = [t \in Thread |-> IF t = Main THEN "RUNNING" ELSE "JUST_CREATED"]
  BY DEF Init, SynchInit, SchedInit
<1>3. /\ pc = [t \in Thread |-> CASE t = Main -> "fork"
                                  [] t \in Producer -> "nempty.P"
                                  [] OTHER -> "nfull.P"]
      /\ num = [p \in Producer |-> 0]
      /\ got = [c \in Consumer |-> <<>>]
  BY DEF Init
<1>4. /\ pc[Main] = "fork" /\ \A p \in Producer : pc[p] = "nempty.P"
      /\ \A c \in Consumer : pc[c] = "nfull.P"
  BY <1>a, <1>3
<1>5. TypeOK
  <2>1. EmptySlot \in Slot
    BY <1>a DEF EmptySlot, Slot
  <2>2. pc \in [Thread -> Label]
    <3>1. \A t \in Thread : pc[t] \in Label
      BY <1>a, <1>4 DEF Label
    <3> QED
      BY <1>3, <3>1
  <2>3. 0 \in 0 .. BUFF_SIZE - 1 /\ 0 \in 0 .. N_MESSG
    BY <1>a
  <2> QED
    BY <1>1, <2>1, <2>2, <2>3 DEF Init, TypeOK
<1>6. Control
  BY <1>a, <1>2, <1>4 DEF Control, ProducerLabel, ConsumerLabel
<1>7. Filled = 0
  <2> DEFINE f == Sent
             g == Taken
  <2>1. /\ \A p \in Producer : f[p] = 0
        /\ f \in [Producer -> Nat] /\ g \in [Consumer -> Nat]
        /\ IsFiniteSet(Producer) /\ IsFiniteSet(Consumer)
        /\ Filled = Total(f) - Total(g)
    BY <1>3, <1>4, <1>5, FilledFacts DEF Sent
  <2>2. \A c \in Consumer : g[c] = 0
    BY <1>3, EmptySeq DEF Taken
  <2> HIDE DEF f, g
  <2>3. Total(f) = 0 /\ Total(g) = 0
    BY <2>1, <2>2, TotalZero
  <2> QED
    BY <2>1, <2>3
<1>8. /\ At(Producer, "mutex.P") = 0 /\ At(Producer, "mutex.V") = 0
      /\ At(Producer, "nfull.V") = 0
      /\ At(Consumer, "mutex.P") = 0 /\ At(Consumer, "mutex.V") = 0
      /\ At(Consumer, "nempty.V") = 0 /\ At(Thread, "mutex.V") = 0
  <2>1. pc \in [Thread -> Label]
    BY <1>5 DEF TypeOK
  <2>2. ASSUME NEW S \in SUBSET Thread, NEW l, \A t \in S : pc[t] # l
        PROVE  At(S, l) = 0
    <3>1. At(S, l) \in Nat /\ ~(At(S, l) > 0)
      BY <2>1, <2>2, AtFacts
    <3> QED
      BY <3>1
  <2>3. \A t \in Thread : pc[t] # "mutex.V"
    BY <1>a, <1>4
  <2> QED
    BY <1>a, <1>4, <2>2, <2>3
<1>9. SlotAccounting
  BY <1>a, <1>2, <1>5, <1>7, <1>8 DEF SlotAccounting
<1>10. Indices
  <2>1. in = 0 /\ out = 0
    BY DEF Init
  <2>2. (0 + 0) % BUFF_SIZE = 0
    BY <1>a, Wrap
  <2> QED
    BY <1>7, <2>1, <2>2 DEF Indices
<1> QED
  BY <1>6, <1>9, <1>10 DEF Invariant

LEMMA ProdConsInvariant == Spec => []Invariant
<1>1. Init => Invariant
  BY InitInvariant
<1>2. Invariant /\ [Next]_vars => Invariant'
  BY RingStep
<1> QED
  BY <1>1, <1>2, PTL DEF Spec

LEMMA InitFifo == Init => F!Init
<1> SUFFICES ASSUME Init PROVE F!Init
  OBVIOUS
<1>1. Invariant
  BY InitInvariant
<1>2. \A p \in Producer : num[p] = 0 /\ pc[p] = "nempty.P"
  BY ProdConsAssumption DEF Init
<1>3. Sent = [p \in Producer |-> 0]
  BY <1>2 DEF Sent
<1>4. Filled = 0
  <2> DEFINE f == Sent
             g == Taken
  <2>1. /\ \A p \in Producer : f[p] = 0
        /\ f \in [Producer -> Nat] /\ g \in [Consumer -> Nat]
        /\ IsFiniteSet(Producer) /\ IsFiniteSet(Consumer)
        /\ Filled = Total(f) - Total(g)
    BY <1>1, <1>3, FilledFacts DEF Invariant, SlotAccounting
  <2>2. \A c \in Consumer : g[c] = 0
    BY EmptySeq DEF Taken, Init
  <2> HIDE DEF f, g
  <2>3. Total(f) = 0 /\ Total(g) = 0
    BY <2>1, <2>2, TotalZero
  <2> QED
    BY <2>1, <2>3
<1>5. Chan = <<>>
  <2>1. Chan \in Seq(Slot) /\ Len(Chan) = 0
    BY <1>1, <1>4, ChanFacts DEF Invariant
  <2> QED
    BY <2>1, EmptySeq
<1> QED
  BY <1>3, <1>5 DEF F!Init, Init

\* prodcons++.cc's ring, with nempty, nfull and mutex, is a bounded FIFO
\* buffer: Ring::Put() (ring.cc) never overwrites a message that no consumer
\* has got and Get() never reads one twice or out of order, for any numbers
\* of producers, consumers, slots and messages.
THEOREM ProdConsImplementsFifo == Spec => FifoSpec
<1>1. Init => F!Init
  BY InitFifo
<1>2. Invariant /\ [Next]_vars => [F!Next]_(F!fifoVars)
  <2> SUFFICES ASSUME Invariant, [Next]_vars
               PROVE  F!Next \/ UNCHANGED F!fifoVars
    OBVIOUS
  <2>1. ASSUME NEW p \in Producer, Puts(p)
        PROVE  F!Send(p)
    BY <2>1 DEF Puts, F!Send
  <2>2. ASSUME NEW c \in Consumer, Gets(c)
        PROVE  F!Receive(c)
    BY <2>2 DEF Gets, F!Receive
  <2>3. CASE Elsewhere /\ Chan' = Chan
    BY <2>3 DEF Elsewhere, F!fifoVars
  <2> QED
    BY <2>1, <2>2, <2>3, RingStep DEF F!Next
<1> QED
  BY <1>1, <1>2, ProdConsInvariant, PTL DEF Spec, FifoSpec, F!Spec
-----------------------------------------------------------------------------
(* No message is lost on the way to a file.                                *)

LEMMA StepLogs ==
  ASSUME Invariant, LogsBehind, [Next]_vars
  PROVE  LogsBehind'
<1>a. /\ Producer \subseteq Thread /\ Consumer \subseteq Thread /\ Main \in Thread
      /\ Producer \cap Consumer = {} /\ Main \notin Producer \cup Consumer
      /\ nempty \in Semaphore /\ nfull \in Semaphore /\ mutex \in Semaphore
  BY ProdConsAssumption
<1>b. /\ SynchTypeOK /\ pc \in [Thread -> Label] /\ inP \in [Thread -> Semaphore \cup {NULL}]
      /\ message \in [Producer \cup Consumer -> Slot]
      /\ log \in [Consumer -> Seq(Slot)] /\ got \in [Consumer -> Seq(Slot)]
  BY DEF Invariant, SlotAccounting, TypeOK, SynchTypeOK
<1> DEFINE LogOf(c) ==
             /\ log[c] = got[c] \/ got[c] = Append(log[c], message[c])
             /\ pc[c] \in {"mutex.P", "mutex.V"} \/ inP[c] # NULL => log[c] = got[c]
<1>c. \A c \in Consumer : LogOf(c)
  BY DEF LogsBehind
<1>d. ASSUME NEW c \in Consumer, pc'[c] = pc[c], inP'[c] = inP[c], log'[c] = log[c],
             got'[c] = got[c], message'[c] = message[c]
      PROVE  LogOf(c)'
  BY <1>c, <1>d
<1>1. ASSUME NEW t \in Thread, NEW from, NEW to, Moves(t, from, to)
      PROVE  \A u \in Thread \ {t} : pc'[u] = pc[u] /\ inP'[u] = inP[u]
  BY <1>1, <1>b DEF Moves, Goto
<1>l. /\ SemaphoreOf("nempty.P") = nempty /\ SemaphoreOf("nfull.P") = nfull
      /\ SemaphoreOf("mutex.P") = mutex
  BY DEF SemaphoreOf
<1>2. ASSUME NEW p \in Producer, ThreadStep(p), NEW c \in Consumer
      PROVE  LogOf(c)'
  <2>n. p \notin Consumer /\ p \in Thread /\ c # p /\ c \in Thread
    BY <1>a
  <2>1. /\ UNCHANGED <<log, got>> /\ message'[c] = message[c]
        /\ pc'[c] = pc[c] /\ inP'[c] = inP[c]
    <3>1. CASE ProducerEmptyP(p)
      <4>1. Moves(p, "nempty.P", "mutex.P")
        BY <1>a, <1>b, <1>l, <3>1, CallMoves DEF ProducerEmptyP
      <4> QED
        BY <1>1, <1>b, <2>n, <3>1, <4>1 DEF ProducerEmptyP
    <3>2. CASE ProducerMutexP(p)
      <4>1. Moves(p, "mutex.P", "mutex.V")
        BY <1>a, <1>b, <1>l, <3>2, CallMoves DEF ProducerMutexP
      <4> QED
        BY <1>1, <2>n, <3>2, <4>1 DEF ProducerMutexP
    <3>3. CASE ProducerPut(p)
      <4>1. Moves(p, "mutex.V", "nfull.V")
        BY <1>a, <1>b, <3>3, CallMoves DEF ProducerPut
      <4> QED
        BY <1>1, <2>n, <3>3, <4>1 DEF ProducerPut
    <3>4. CASE ProducerFullV(p)
      <4>1. Moves(p, "nfull.V", "nempty.P")
        BY <1>a, <1>b, <3>4, CallMoves DEF ProducerFullV
      <4> QED
        BY <1>1, <2>n, <3>4, <4>1 DEF ProducerFullV
    <3>5. CASE ProducerFinish(p)
      BY <1>b, <2>n, <3>5 DEF ProducerFinish, CallFinish, Goto, synchVars, progVars
    <3> QED
      BY <1>2, <2>n, <3>1, <3>2, <3>3, <3>4, <3>5
      DEF ThreadStep, ConsumerFullP, ConsumerMutexP, ConsumerGet, ConsumerEmptyV
  <2> QED
    BY <1>d, <2>1
<1>3. ASSUME NEW d \in Consumer, ThreadStep(d), NEW c \in Consumer
      PROVE  LogOf(c)'
  <2>n. d \notin Producer /\ d \in Thread /\ c \in Thread
    BY <1>a
  <2>1. CASE ConsumerFullP(d)
    <3>1. /\ Moves(d, "nfull.P", "mutex.P") /\ UNCHANGED <<message, got>>
          /\ log' = [log EXCEPT ![d] =
                       IF Len(@) < Len(got[d]) THEN Append(@, message[d]) ELSE @]
      BY <1>a, <1>b, <1>l, <2>1, CallMoves DEF ConsumerFullP
    <3>2. CASE c = d
      <4>1. log[d] = got[d] \/ got[d] = Append(log[d], message[d])
        BY <1>c
      <4>2. log[d] \in Seq(Slot) /\ message[d] \in Slot /\ got[d] \in Seq(Slot)
        BY <1>b
      <4>3. CASE log[d] = got[d]
        <5>1. ~(Len(log[d]) < Len(got[d]))
          BY <4>2, <4>3
        <5>2. log'[d] = got[d]
          BY <1>b, <3>1, <4>3, <5>1
        <5> QED
          BY <3>1, <3>2, <5>2
      <4>4. CASE got[d] = Append(log[d], message[d])
        <5>1. Len(log[d]) < Len(got[d])
          BY <4>2, <4>4
        <5>2. log'[d] = got[d]
          BY <1>b, <3>1, <4>4, <5>1
        <5> QED
          BY <3>1, <3>2, <5>2
      <4> QED
        BY <4>1, <4>3, <4>4
    <3>3. CASE c # d
      <4>1. log'[c] = log[c] /\ pc'[c] = pc[c] /\ inP'[c] = inP[c]
        BY <1>1, <1>b, <2>n, <3>1, <3>3
      <4> QED
        BY <1>d, <3>1, <4>1
    <3> QED
      BY <3>2, <3>3
  <2>2. CASE ConsumerMutexP(d)
    <3>1. Moves(d, "mutex.P", "mutex.V") /\ UNCHANGED <<message, got, log>>
      BY <1>a, <1>b, <1>l, <2>2, CallMoves DEF ConsumerMutexP
    <3>2. CASE c = d
      <4>1. log[d] = got[d]
        BY <1>c, <3>1 DEF Moves
      <4> QED
        BY <3>1, <3>2, <4>1
    <3>3. CASE c # d
      BY <1>1, <1>d, <2>n, <3>1, <3>3
    <3> QED
      BY <3>2, <3>3
  <2>3. CASE ConsumerGet(d)
    <3>1. /\ Moves(d, "mutex.V", "nempty.V") /\ log' = log
          /\ pc[d] = "mutex.V" /\ Goto(d, "nempty.V") /\ inP[d] = NULL /\ inP' = inP
          /\ message' = [message EXCEPT ![d] = buffer[out]]
          /\ got' = [got EXCEPT ![d] = Append(@, message'[d])]
      BY <1>a, <1>b, <2>3, CallMoves, StepVFacts DEF ConsumerGet, GetSlot
    <3>2. CASE c = d
      <4>1. log[d] = got[d]
        BY <1>c, <3>1
      <4>2. got'[d] = Append(log'[d], message'[d])
        BY <1>b, <3>1, <4>1
      <4>3. pc'[d] = "nempty.V" /\ inP'[d] = NULL
        BY <1>b, <2>n, <3>1 DEF Goto
      <4> QED
        BY <3>2, <4>2, <4>3
    <3>3. CASE c # d
      <4>1. message'[c] = message[c] /\ got'[c] = got[c]
        BY <1>b, <3>1, <3>3
      <4> QED
        BY <1>1, <1>d, <2>n, <3>1, <3>3, <4>1
    <3> QED
      BY <3>2, <3>3
  <2>4. CASE ConsumerEmptyV(d)
    <3>1. /\ Moves(d, "nempty.V", "nfull.P") /\ UNCHANGED <<log, got, message>>
          /\ Goto(d, "nfull.P") /\ inP[d] = NULL /\ inP' = inP
      BY <1>a, <1>b, <2>4, CallMoves, StepVFacts DEF ConsumerEmptyV
    <3>2. CASE c = d
      <4>1. pc'[d] = "nfull.P" /\ inP'[d] = NULL
        BY <1>b, <2>n, <3>1 DEF Goto
      <4> QED
        BY <1>c, <3>1, <3>2, <4>1
    <3>3. CASE c # d
      BY <1>1, <1>d, <2>n, <3>1, <3>3
    <3> QED
      BY <3>2, <3>3
  <2> QED
    BY <1>3, <2>n, <2>1, <2>2, <2>3, <2>4
    DEF ThreadStep, ProducerEmptyP, ProducerMutexP, ProducerPut, ProducerFullV, ProducerFinish
<1>4. ASSUME MainFork \/ MainFinish \/ TimeSlice \/ UNCHANGED vars, NEW c \in Consumer
      PROVE  LogOf(c)'
  <2>1. UNCHANGED <<inP, log, got, message>> /\ pc'[c] = pc[c]
    BY <1>4, <1>a, <1>b DEF MainFork, CallFork, MainFinish, CallFinish, Goto, TimeSlice,
       Preempt, vars, kernelVars, synchVars, progVars
  <2> QED
    BY <1>d, <2>1
<1>5. ~ThreadStep(Main)
  BY <1>a DEF ThreadStep, ProducerEmptyP, ProducerMutexP, ProducerPut, ProducerFullV,
     ProducerFinish, ConsumerFullP, ConsumerMutexP, ConsumerGet, ConsumerEmptyV
<1>6. \A c \in Consumer : LogOf(c)'
  <2> HIDE DEF LogOf
  <2> QED
    BY <1>2, <1>3, <1>4, <1>5, ProdConsAssumption DEF Next
<1> QED
  BY <1>6 DEF LogsBehind

LEMMA StepNothingLost ==
  ASSUME Invariant, NothingLost, [Next]_vars
  PROVE  NothingLost'
<1>a. SlotAccounting /\ Chan \in Seq(Slot) /\ TypeOK
      /\ (\A c \in Consumer : got[c] \in Seq(Slot))
      /\ \A p \in Producer : Sent[p] \in Nat
  BY ChanFacts, FilledFacts DEF Invariant, SlotAccounting, TypeOK
<1>1. CASE \E p \in Producer : Puts(p) /\ ProducerPut(p)
  <2>1. PICK p \in Producer : Puts(p) /\ ProducerPut(p)
    BY <1>1
  <2> DEFINE m == message[p]
  <2>2. /\ m = [thread_id |-> p, value |-> Sent[p]] /\ m \in Slot
        /\ Sent[p] < N_MESSG /\ got' = got
        /\ Chan' = Append(Chan, m)
    BY <1>a, <2>1 DEF Puts, TypeOK
  <2>3. Range(Chan') = Range(Chan) \cup {m}
    BY <1>a, <2>2, AppendFacts
  <2>4. /\ Sent'[p] = Sent[p] + 1 /\ \A q \in Producer \ {p} : Sent'[q] = Sent[q]
    BY <2>1 DEF Puts, Sent
  <2>5. SentMessages' = SentMessages \cup {m}
    <3>1. m \in Messages
      BY <1>a, <2>2, ProdConsAssumption DEF Messages
    <3>2. ASSUME NEW x \in Messages
          PROVE  x.value < Sent'[x.thread_id] <=> x.value < Sent[x.thread_id] \/ x = m
      <4>1. /\ x.thread_id \in Producer /\ x.value \in Nat
            /\ x = [thread_id |-> x.thread_id, value |-> x.value]
        BY ProdConsAssumption DEF Messages
      <4>2. CASE x.thread_id = p
        <5>1. x = m <=> x.value = Sent[p]
          BY <2>2, <4>1, <4>2
        <5>2. Sent[p] \in Nat /\ Sent'[p] = Sent[p] + 1
          BY <1>a, <2>4
        <5> QED
          BY <4>1, <4>2, <5>1, <5>2
      <4>3. CASE x.thread_id # p
        <5>1. x # m
          BY <2>2, <4>3
        <5> QED
          BY <2>4, <4>1, <4>3, <5>1
      <4> QED
        BY <4>2, <4>3
    <3>3. /\ SentMessages' = {x \in Messages : x.value < Sent'[x.thread_id]}
          /\ SentMessages = {x \in Messages : x.value < Sent[x.thread_id]}
      BY DEF SentMessages
    <3> HIDE DEF m
    <3> QED
      BY <3>1, <3>2, <3>3
  <2>6. Received' = Received
    BY <2>2 DEF Received
  <2> HIDE DEF m
  <2> QED
    BY <2>3, <2>5, <2>6 DEF NothingLost
<1>2. CASE \E c \in Consumer : Gets(c)
  <2>1. PICK c \in Consumer : Gets(c)
    BY <1>2
  <2> DEFINE m == Head(Chan)
  <2>2. /\ Chan # <<>> /\ Chan' = Tail(Chan) /\ Sent' = Sent
        /\ got' = [got EXCEPT ![c] = Append(@, m)]
    BY <2>1 DEF Gets
  <2>3. m \in Slot /\ Range(Chan) = Range(Chan') \cup {m}
    BY <1>a, <2>2, RemoveFacts
  <2> HIDE DEF m
  <2>4. Range(Append(got[c], m)) = Range(got[c]) \cup {m}
    BY <1>a, <2>3, AppendFacts
  <2>5. /\ got'[c] = Append(got[c], m) /\ \A d \in Consumer \ {c} : got'[d] = got[d]
    BY <2>2, <1>a DEF TypeOK
  <2>6. Received' = Received \cup {m}
    <3>1. ASSUME NEW x
          PROVE  x \in Received' <=> x \in Received \/ x = m
      <4>1. /\ x \in Received' <=> \E d \in Consumer : x \in Range(got'[d])
            /\ x \in Received <=> \E d \in Consumer : x \in Range(got[d])
        BY DEF Received
      <4>2. \A d \in Consumer : x \in Range(got'[d]) <=> x \in Range(got[d]) \/ (d = c /\ x = m)
        BY <2>4, <2>5
      <4> QED
        BY <4>1, <4>2
    <3> QED
      BY <3>1
  <2>7. SentMessages' = SentMessages
    BY <2>2 DEF SentMessages
  <2> QED
    BY <2>3, <2>6, <2>7 DEF NothingLost
<1>3. CASE Elsewhere /\ Chan' = Chan
  BY <1>3 DEF Elsewhere, NothingLost, SentMessages, Received
<1> QED
  BY <1>1, <1>2, <1>3, RingStep
-----------------------------------------------------------------------------
(* The program does not stop early.                                        *)

\* Nobody runs or is ready, so everybody is where its P() left it, no thread
\* is on its way to test a semaphore, and only semaphores at 0 are waited for.
LEMMA HaltedFacts ==
  ASSUME Invariant, Where, NoLostWakeup, Halted
  PROVE  /\ \A t \in Thread \ finished :
              /\ inP[t] # NULL /\ inP[t] = SemaphoreOf(pc[t])
              /\ value[inP[t]] = 0
         /\ \A t \in Thread : pc[t] = "done" <=> t \in finished
         /\ Main \in finished
<1>a. /\ Semaphore = {nempty, nfull, mutex} /\ Condition = {} /\ NULL \notin Semaphore
      /\ Main \in Thread
  BY ProdConsAssumption, SemaphoreAssumption
<1>b. /\ status \in [Thread -> Status] /\ readyList = <<>> /\ status[current] # "RUNNING"
      /\ value \in [Semaphore -> Nat] /\ queue \in [Semaphore -> Seq(Thread)]
  BY DEF Invariant, SlotAccounting, TypeOK, SynchTypeOK, SchedTypeOK, Halted, Idling
<1>c. /\ \A t \in Thread :
           /\ status[t] = "READY" <=> t \in Range(readyList)
           /\ status[t] = "BLOCKED" <=>
                \/ t \in finished
                \/ \E s \in Semaphore : t \in QueueSets[s]
                \/ \E c \in Condition : t \in WaitSet[c]
           /\ status[t] = "RUNNING" => t = current
      /\ \A s \in Semaphore : \A t \in QueueSets[s] : inP[t] = s
  BY DEF Where, Placed, Sleepers
<1>d. \A t \in Thread : /\ inP[t] \in {NULL, SemaphoreOf(pc[t])}
                        /\ pc[t] = "done" <=> t \in finished
  BY DEF Invariant, Control
<1>1. Range(readyList) = {}
  BY <1>b, EmptyRange, EmptySeq
<1>2. \A t \in Thread : status[t] \in {"JUST_CREATED", "BLOCKED"}
  BY <1>1, <1>b, <1>c DEF Status
<1>3. ASSUME NEW t \in Thread, status[t] = "BLOCKED", t \notin finished
      PROVE  \E s \in Semaphore : t \in QueueSets[s] /\ inP[t] = s
  BY <1>3, <1>a, <1>c
<1>4. Main \in finished
  <2>1. status[Main] = "BLOCKED" /\ pc[Main] \in {"fork", "done"}
    BY <1>2, <1>a DEF Invariant, Control
  <2>2. SemaphoreOf(pc[Main]) = NULL
    BY <2>1 DEF SemaphoreOf
  <2> QED
    BY <1>3, <1>a, <1>d, <2>1, <2>2
<1>5. \A t \in Thread : status[t] = "BLOCKED"
  <2>1. \A t \in Thread : status[t] # "JUST_CREATED"
    BY <1>4, <1>a, <1>d DEF Invariant, Control
  <2> QED
    BY <1>2, <2>1
<1>6. ASSUME NEW t \in Thread \ finished
      PROVE  /\ inP[t] # NULL /\ inP[t] = SemaphoreOf(pc[t])
             /\ value[inP[t]] = 0
  <2>1. PICK s \in Semaphore : t \in QueueSets[s] /\ inP[t] = s
    BY <1>3, <1>5, <1>6
  <2>2. QueueSets[s] = Range(queue[s]) /\ queue[s] \in Seq(Thread)
    BY <1>b DEF QueueSets, Sets
  <2>3. queue[s] # <<>>
    BY <2>1, <2>2, EmptyRange
  <2>4. Woken(s) = {}
    BY <1>5 DEF Woken
  <2>5. value[s] <= 0
    BY <2>3, <2>4, FS_EmptySet DEF NoLostWakeup
  <2> QED
    BY <1>a, <1>b, <1>d, <2>1, <2>5
<1> QED
  BY <1>4, <1>6, <1>d

LEMMA HaltedIsDone ==
  ASSUME Invariant, Where, NoLostWakeup, LogsBehind, NothingLost
  PROVE  HaltsOnlyWhenDone
<1> SUFFICES ASSUME Halted
             PROVE  Logged = Messages /\ finished = Producer \cup {Main}
  BY DEF HaltsOnlyWhenDone
<1>a. /\ Producer \subseteq Thread /\ Consumer \subseteq Thread /\ Main \in Thread
      /\ Thread = {Main} \cup Producer \cup Consumer
      /\ Consumer # {} /\ BUFF_SIZE \in Nat \ {0} /\ N_MESSG \in Nat
      /\ Semaphore = {nempty, nfull, mutex} /\ NULL \notin Semaphore
  BY ProdConsAssumption, SemaphoreAssumption
<1>b. SlotAccounting /\ Control /\ pc \in [Thread -> Label] /\ finished \subseteq Thread
      /\ TypeOK
  BY DEF Invariant, SlotAccounting, TypeOK, SynchTypeOK, SchedTypeOK
<1>1. /\ \A t \in Thread \ finished :
           inP[t] # NULL /\ inP[t] = SemaphoreOf(pc[t]) /\ value[inP[t]] = 0
      /\ \A t \in Thread : pc[t] = "done" <=> t \in finished
      /\ Main \in finished
  BY HaltedFacts
<1>2. \A t \in Thread : pc[t] \in {"nempty.P", "nfull.P", "mutex.P", "done"}
  BY <1>1 DEF SemaphoreOf
<1>3. ASSUME NEW S \in SUBSET Thread, NEW l, \A t \in S : pc[t] # l
      PROVE  At(S, l) = 0
  <2>1. At(S, l) \in Nat /\ ~(At(S, l) > 0)
    BY <1>b, <1>3, AtFacts
  <2> QED
    BY <2>1
<1>4. /\ At(Thread, "mutex.V") = 0 /\ At(Producer, "mutex.V") = 0
      /\ At(Consumer, "mutex.V") = 0 /\ At(Consumer, "nempty.V") = 0
      /\ At(Producer, "nfull.V") = 0
  BY <1>2, <1>3, <1>a
<1>5. value[mutex] = 1
  BY <1>4, <1>b, Counts DEF SlotAccounting
<1>6. \A t \in Thread : pc[t] # "mutex.P"
  BY <1>1, <1>5 DEF SemaphoreOf
<1>7. At(Producer, "mutex.P") = 0 /\ At(Consumer, "mutex.P") = 0
  BY <1>3, <1>6, <1>a
<1>8. value[nempty] + Filled = BUFF_SIZE /\ value[nfull] = Filled
  BY <1>4, <1>7, <1>b, Counts DEF SlotAccounting
<1>9. \A c \in Consumer : pc[c] = "nfull.P" /\ c \notin finished
  <2>1. \A c \in Consumer : pc[c] \in ConsumerLabel
    BY <1>b DEF Control
  <2> QED
    BY <1>1, <1>2, <1>6, <1>a, <2>1 DEF ConsumerLabel
<1>10. \A c \in Consumer : inP[c] = nfull /\ value[nfull] = 0
  BY <1>1, <1>9, <1>a DEF SemaphoreOf
<1>11. Filled = 0 /\ value[nempty] # 0
  BY <1>8, <1>10, <1>a, <1>b, Counts
<1>12. \A p \in Producer : pc[p] = "done"
  <2>1. \A p \in Producer : pc[p] \in ProducerLabel
    BY <1>b DEF Control
  <2>2. \A t \in Thread : pc[t] # "nempty.P"
    BY <1>1, <1>11 DEF SemaphoreOf
  <2> QED
    BY <1>2, <1>6, <1>a, <2>1, <2>2 DEF ProducerLabel
<1>13. finished = Producer \cup {Main}
  BY <1>1, <1>9, <1>12, <1>a, <1>b
<1>14. \A p \in Producer : Sent[p] = N_MESSG
  <2>1. \A p \in Producer : num[p] = N_MESSG
    BY <1>12, <1>b DEF Control
  <2>2. \A p \in Producer : Sent[p] = num[p] + 0
    BY <1>12 DEF Sent
  <2> QED
    BY <1>a, <2>1, <2>2
<1>15. SentMessages = Messages
  <2>1. \A m \in Messages : m.value < Sent[m.thread_id]
    BY <1>14, <1>a DEF Messages
  <2> QED
    BY <2>1 DEF SentMessages
<1>16. Range(Chan) = {}
  <2>1. Chan \in Seq(Slot) /\ Len(Chan) = 0
    BY <1>11, <1>b, ChanFacts
  <2>2. Chan = <<>>
    BY <2>1, EmptySeq
  <2> QED
    BY <2>1, <2>2, EmptyRange
<1>17. Logged = Received
  <2>1. \A c \in Consumer : log[c] = got[c]
    BY <1>9, <1>10, <1>a DEF LogsBehind
  <2> QED
    BY <2>1 DEF Logged, Received
<1> QED
  BY <1>13, <1>15, <1>16, <1>17 DEF NothingLost

\* prodcons++.cc's semaphores count every slot of the ring exactly once, and
\* the program stops only when each consumer's file is written and holds,
\* with the others', every message of every producer: it never deadlocks,
\* for any numbers of producers, consumers, slots and messages.
THEOREM ProdConsRing == Spec => []RingInv
<1>1. Init => Where /\ NoLostWakeup /\ LogsBehind /\ NothingLost
  <2> SUFFICES ASSUME Init
               PROVE  Where /\ NoLostWakeup /\ LogsBehind /\ NothingLost
    OBVIOUS
  <2>1. Where
    BY InitWhere DEF Init
  <2>2. NoLostWakeup
    BY DEF Init, SynchInit, NoLostWakeup
  <2>3. LogsBehind
    BY ProdConsAssumption DEF Init, SynchInit, LogsBehind
  <2>4. NothingLost
    <3>1. F!Init
      BY InitFifo
    <3>2. SentMessages = {}
      BY <3>1, ProdConsAssumption DEF F!Init, SentMessages, Messages
    <3>3. Range(<<>>) = {}
      BY EmptySeq, EmptyRange
    <3>4. Received = {} /\ Range(Chan) = {}
      BY <3>1, <3>3 DEF F!Init, Received
    <3> QED
      BY <3>2, <3>4 DEF NothingLost
  <2> QED
    BY <2>1, <2>2, <2>3, <2>4
<1>2. Invariant /\ [Next]_vars => SynchTypeOK /\ SynchStep
  BY ProdConsStep DEF Invariant, SlotAccounting, TypeOK
<1>3. Invariant /\ Where /\ NoLostWakeup /\ [Next]_vars => Where' /\ NoLostWakeup'
  BY <1>2, StepWhere, StepNoLostWakeup
<1>4. Invariant /\ LogsBehind /\ NothingLost /\ [Next]_vars => LogsBehind' /\ NothingLost'
  BY StepLogs, StepNothingLost
<1>5. Invariant /\ Where /\ NoLostWakeup /\ LogsBehind /\ NothingLost => RingInv
  BY HaltedIsDone DEF RingInv, Invariant
<1> QED
  BY <1>1, <1>3, <1>4, <1>5, ProdConsInvariant, PTL DEF Spec

=============================================================================
