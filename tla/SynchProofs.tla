---------------------------- MODULE SynchProofs ----------------------------
(***************************************************************************)
(* What synch.cc, scheduler.cc and thread.cc guarantee whoever calls them: *)
(* the lemmas are about one step of the kernel, SynchStep, which is any    *)
(* routine called at any moment, and serve Kernel and the programs alike.  *)
(* The last section is about the programs: what a kernel call does to the  *)
(* label, the owner of the lock and the waiting threads.                   *)
(***************************************************************************)
EXTENDS Program, FiniteSetTheorems, SequenceTheorems, WellFoundedInduction, TLAPS

(* The lists of the kernel as sequences (list.cc): which elements a list   *)
(* holds after Append(), Remove() and an insertion, and that none of them  *)
(* makes a duplicate.                                                      *)

\* The elements of a sequence are its values at 1 .. Len.
LEMMA RangeOfSequence ==
  ASSUME NEW S, NEW s \in Seq(S)
  PROVE  /\ Range(s) = {s[i] : i \in 1 .. Len(s)}
         /\ Range(s) \subseteq S
         /\ Len(s) \in Nat
         /\ IsInjective(s) <=> \A i, j \in 1 .. Len(s) : s[i] = s[j] => i = j
<1>1. DOMAIN s = 1 .. Len(s) /\ Len(s) \in Nat
  BY LenProperties
<1>2. \A i \in 1 .. Len(s) : s[i] \in S
  BY ElementOfSeq
<1> QED
  BY <1>1, <1>2 DEF Range, IsInjective

\* List::Append() adds one element.
LEMMA AppendFacts ==
  ASSUME NEW S, NEW s \in Seq(S), NEW e \in S
  PROVE  /\ Append(s, e) \in Seq(S)
         /\ Append(s, e) # <<>>
         /\ Range(Append(s, e)) = Range(s) \cup {e}
         /\ IsInjective(s) /\ e \notin Range(s) => IsInjective(Append(s, e))
<1> DEFINE a == Append(s, e)
<1>1. /\ a \in Seq(S) /\ a # <<>>
      /\ Len(a) = Len(s) + 1
      /\ \A i \in 1 .. Len(s) : a[i] = s[i]
      /\ a[Len(s) + 1] = e
  BY AppendProperties
<1>2. /\ Range(s) = {s[i] : i \in 1 .. Len(s)}
      /\ Len(s) \in Nat
      /\ IsInjective(s) <=> \A i, j \in 1 .. Len(s) : s[i] = s[j] => i = j
  BY RangeOfSequence
<1> HIDE DEF a
<1>3. /\ Range(a) = {a[i] : i \in 1 .. Len(a)}
      /\ IsInjective(a) <=> \A i, j \in 1 .. Len(a) : a[i] = a[j] => i = j
  BY <1>1, RangeOfSequence
<1>4. 1 .. Len(a) = (1 .. Len(s)) \cup {Len(s) + 1}
  BY <1>1, <1>2
<1>5. Range(a) = Range(s) \cup {e}
  BY <1>1, <1>2, <1>3, <1>4
<1>6. IsInjective(s) /\ e \notin Range(s) => IsInjective(a)
  BY <1>1, <1>2, <1>3, <1>4
<1> QED
  BY <1>1, <1>5, <1>6 DEF a

\* List::Remove() takes the first element away.
LEMMA RemoveFacts ==
  ASSUME NEW S, NEW s \in Seq(S), s # <<>>
  PROVE  /\ Head(s) \in S
         /\ Head(s) \in Range(s)
         /\ Tail(s) \in Seq(S)
         /\ Range(s) = Range(Tail(s)) \cup {Head(s)}
         /\ IsInjective(s) => /\ IsInjective(Tail(s))
                              /\ Head(s) \notin Range(Tail(s))
<1> DEFINE r == Tail(s)
<1>1. /\ Head(s) \in S /\ r \in Seq(S) /\ Len(r) = Len(s) - 1
      /\ \A i \in 1 .. Len(r) : r[i] = s[i + 1]
  BY HeadTailProperties
<1>2. Head(s) = s[1] /\ Len(s) \in Nat /\ Len(s) >= 1
  BY LenProperties, EmptySeq
<1>3. /\ Range(s) = {s[i] : i \in 1 .. Len(s)}
      /\ IsInjective(s) <=> \A i, j \in 1 .. Len(s) : s[i] = s[j] => i = j
  BY RangeOfSequence
<1>4. /\ Range(r) = {r[i] : i \in 1 .. Len(r)}
      /\ IsInjective(r) <=> \A i, j \in 1 .. Len(r) : r[i] = r[j] => i = j
  BY <1>1, RangeOfSequence
<1> HIDE DEF r
<1>5. Range(s) \subseteq Range(r) \cup {Head(s)}
  <2> SUFFICES ASSUME NEW i \in 1 .. Len(s), s[i] # Head(s)
               PROVE  s[i] \in Range(r)
    BY <1>3
  <2>1. i - 1 \in 1 .. Len(r) /\ r[i - 1] = s[i]
    BY <1>1, <1>2
  <2> QED
    BY <2>1, <1>4
<1>6. Range(r) \cup {Head(s)} \subseteq Range(s)
  BY <1>1, <1>2, <1>3, <1>4
<1>7. IsInjective(s) => IsInjective(r) /\ Head(s) \notin Range(r)
  BY <1>1, <1>2, <1>3, <1>4
<1> QED
  BY <1>1, <1>2, <1>5, <1>6, <1>7 DEF r

\* A list is empty when its set is.
LEMMA EmptyRange ==
  ASSUME NEW S, NEW s \in Seq(S)
  PROVE  s = <<>> <=> Range(s) = {}
<1>1. s # <<>> => Range(s) # {}
  BY RemoveFacts
<1>2. Len(<<>>) = 0 /\ <<>> \in Seq(S)
  BY EmptySeq
<1>3. Range(<<>>) = {}
  BY <1>2 DEF Range
<1> QED
  BY <1>1, <1>3

\* A nonempty set of naturals has a least element, and Min is it.
LEMMA MinFacts ==
  ASSUME NEW T \in SUBSET Nat, T # {}
  PROVE  Min(T) \in T /\ \A y \in T : Min(T) <= y
<1> DEFINE R == {ss \in Nat \X Nat : ss[1] < ss[2]}
<1>1. IsWellFoundedOn(R, Nat)
  BY NatLessThanWellFounded, Zenon DEF OpToRel
<1>3. PICK x \in T : \A y \in T : ~(<<y, x>> \in R)
  <2> HIDE DEF R
  <2> QED BY <1>1, WFMin
<1>4. ASSUME NEW y \in T, y < x
      PROVE  FALSE
  <2> DEFINE yx == <<y, x>>
  <2>1. yx \in Nat \X Nat /\ yx[1] = y /\ yx[2] = x
    OBVIOUS
  <2>2. yx \notin R
    BY <1>3
  <2> HIDE DEF yx
  <2>3. yx \in R
    BY <1>4, <2>1
  <2> QED
    BY <2>2, <2>3
<1>5. \A y \in T : x <= y
  BY <1>4
<1> QED
  BY <1>5 DEF Min

\* Where the elements of r come from: r is s with e inserted at place p.
Inserted(r, s, p, e) ==
  /\ Len(r) = Len(s) + 1
  /\ \A i \in 1 .. Len(s) + 1 :
       r[i] = IF i < p THEN s[i] ELSE IF i = p THEN e ELSE s[i - 1]

LEMMA InsertAtFacts ==
  ASSUME NEW S, NEW s \in Seq(S), NEW p \in 1 .. Len(s) + 1, NEW e \in S
  PROVE  /\ InsertAt(s, p, e) \in Seq(S)
         /\ Inserted(InsertAt(s, p, e), s, p, e)
<1> DEFINE a == SubSeq(s, 1, p - 1)
           b == SubSeq(s, p, Len(s))
           ae == a \o <<e>>
<1>1. Len(s) \in Nat /\ \A i \in 1 .. Len(s) : s[i] \in S
  BY LenProperties, ElementOfSeq
<1>2. /\ a \in Seq(S) /\ Len(a) = p - 1
      /\ \A i \in 1 .. p - 1 : a[i] = s[i]
  BY <1>1, SubSeqProperties
<1>3. /\ b \in Seq(S) /\ Len(b) = Len(s) - p + 1
      /\ \A i \in 1 .. Len(s) - p + 1 : b[i] = s[p + i - 1]
  BY <1>1, SubSeqProperties
<1>4. <<e>> \in Seq(S) /\ Len(<<e>>) = 1 /\ <<e>>[1] = e
  OBVIOUS
<1> HIDE DEF a, b
<1>5. /\ ae \in Seq(S) /\ Len(ae) = p
      /\ \A i \in 1 .. p : ae[i] = IF i < p THEN s[i] ELSE e
  BY <1>1, <1>2, <1>4, ConcatProperties
<1> HIDE DEF ae
<1>5a. Len(ae) + Len(b) = Len(s) + 1
  BY <1>1, <1>3, <1>5
<1>6. /\ ae \o b \in Seq(S) /\ Len(ae \o b) = Len(s) + 1
      /\ \A i \in 1 .. Len(s) + 1 :
           (ae \o b)[i] = IF i <= p THEN ae[i] ELSE b[i - p]
  <2>1. ae \in Seq(S) /\ b \in Seq(S) /\ p \in Nat
    BY <1>1, <1>3, <1>5
  <2>2. /\ ae \o b \in Seq(S)
        /\ Len(ae \o b) = Len(ae) + Len(b)
        /\ \A i \in 1 .. Len(ae) + Len(b) :
             (ae \o b)[i] = IF i <= Len(ae) THEN ae[i] ELSE b[i - Len(ae)]
    BY <2>1, ConcatProperties
  <2>3. Len(ae) = p /\ Len(ae) + Len(b) = Len(s) + 1
    BY <1>5, <1>5a
  <2> QED
    BY <2>2, <2>3
<1>7. InsertAt(s, p, e) = ae \o b
  BY DEF InsertAt, a, b, ae
<1> DEFINE t == ae \o b
<1> HIDE DEF t
<1>8. \A i \in 1 .. Len(s) + 1 :
        t[i] = IF i < p THEN s[i] ELSE IF i = p THEN e ELSE s[i - 1]
  <2> SUFFICES ASSUME NEW i \in 1 .. Len(s) + 1
               PROVE  t[i] = IF i < p THEN s[i] ELSE IF i = p THEN e ELSE s[i - 1]
    OBVIOUS
  <2>1. CASE i <= p
    BY <1>1, <1>5, <1>6, <2>1 DEF t
  <2>2. CASE i > p
    <3>1. i - p \in 1 .. Len(s) - p + 1 /\ p + (i - p) - 1 = i - 1
      BY <1>1, <2>2
    <3>2. t[i] = b[i - p]
      BY <1>1, <1>6, <2>2 DEF t
    <3> QED
      BY <1>1, <1>3, <2>2, <3>1, <3>2
  <2> QED
    BY <1>1, <2>1, <2>2
<1> QED
  BY <1>6, <1>7, <1>8 DEF t, Inserted

\* Inserting an element anywhere adds exactly that element.
LEMMA InsertAtRange ==
  ASSUME NEW S, NEW s \in Seq(S), NEW p \in 1 .. Len(s) + 1, NEW e \in S
  PROVE  LET r == InsertAt(s, p, e)
         IN  /\ r \in Seq(S) /\ r # <<>>
             /\ Range(r) = Range(s) \cup {e}
             /\ IsInjective(s) /\ e \notin Range(s) => IsInjective(r)
<1> DEFINE r == InsertAt(s, p, e)
           n == Len(s)
<1>0. r \in Seq(S) /\ Inserted(r, s, p, e)
  BY InsertAtFacts
<1>1. /\ r \in Seq(S) /\ Len(r) = n + 1
      /\ \A i \in 1 .. n + 1 :
           r[i] = IF i < p THEN s[i] ELSE IF i = p THEN e ELSE s[i - 1]
  BY <1>0 DEF Inserted
<1>2. n \in Nat /\ Range(s) = {s[i] : i \in 1 .. n}
      /\ (IsInjective(s) <=> \A i, j \in 1 .. n : s[i] = s[j] => i = j)
  BY RangeOfSequence
<1>3. /\ Range(r) = {r[i] : i \in 1 .. n + 1}
      /\ IsInjective(r) <=> \A i, j \in 1 .. n + 1 : r[i] = r[j] => i = j
  BY <1>1, RangeOfSequence
<1>4. r # <<>>
  BY <1>1, <1>2, EmptySeq
<1> HIDE DEF r, n
<1>5. Range(r) \subseteq Range(s) \cup {e}
  <2> SUFFICES ASSUME NEW i \in 1 .. n + 1 PROVE r[i] \in Range(s) \cup {e}
    BY <1>3
  <2>1. CASE i < p
    BY <2>1, <1>1, <1>2 DEF n
  <2>2. CASE i = p
    BY <2>2, <1>1
  <2>3. CASE i > p
    <3>1. i - 1 \in 1 .. n /\ r[i] = s[i - 1]
      BY <2>3, <1>1, <1>2 DEF n
    <3> QED
      BY <3>1, <1>2
  <2> QED
    BY <2>1, <2>2, <2>3, <1>2
<1>6. e \in Range(r)
  BY <1>1, <1>2, <1>3 DEF n
<1>7. Range(s) \subseteq Range(r)
  <2> SUFFICES ASSUME NEW i \in 1 .. n PROVE s[i] \in Range(r)
    BY <1>2
  <2>1. CASE i < p
    BY <2>1, <1>1, <1>2, <1>3
  <2>2. CASE i >= p
    <3>1. i + 1 \in 1 .. n + 1 /\ r[i + 1] = s[i]
      BY <2>2, <1>1, <1>2
    <3> QED
      BY <3>1, <1>3
  <2> QED
    BY <2>1, <2>2, <1>2
<1>8. IsInjective(s) /\ e \notin Range(s) => IsInjective(r)
  <2> SUFFICES ASSUME IsInjective(s), e \notin Range(s),
                      NEW i \in 1 .. n + 1, NEW j \in 1 .. n + 1, r[i] = r[j]
               PROVE  i = j
    BY <1>3
  <2> DEFINE back(k) == IF k < p THEN k ELSE k - 1
  <2>1. \A k \in 1 .. n + 1 : k # p => back(k) \in 1 .. n /\ r[k] = s[back(k)]
    BY <1>1, <1>2 DEF n
  <2>2. \A k \in 1 .. n + 1 : k # p => r[k] # e
    BY <2>1, <1>2
  <2>3. r[p] = e /\ p \in 1 .. n + 1
    BY <1>1, <1>2 DEF n
  <2>4. i # p /\ j # p => back(i) = back(j)
    BY <2>1, <1>2
  <2> QED
    BY <2>2, <2>3, <2>4
<1> QED
  BY <1>1, <1>4, <1>5, <1>6, <1>7, <1>8 DEF r

-----------------------------------------------------------------------------
\* SortedInsert() stops inside the list, after every element that is at
\* least as urgent and, if not at the end, right before a less urgent one.
LEMMA InsertPositionFacts ==
  ASSUME NEW list \in Seq(Thread), NEW t \in Thread,
         NEW p, p = InsertPosition(list, t)
  PROVE  /\ p \in 1 .. Len(list) + 1
         /\ \A i \in 1 .. p - 1 : Priority[list[i]] <= Priority[t]
         /\ p <= Len(list) => Priority[t] < Priority[list[p]]
<1> DEFINE bigger == {i \in DOMAIN list : Priority[t] < Priority[list[i]]}
<1>1. DOMAIN list = 1 .. Len(list) /\ Len(list) \in Nat
  BY LenProperties
<1>2. \A i \in 1 .. Len(list) : Priority[list[i]] \in Int
  BY <1>1, ElementOfSeq, PriorityAssumption
<1>3. Priority[t] \in Int
  BY PriorityAssumption
<1>4. p = IF bigger = {} THEN Len(list) + 1 ELSE Min(bigger)
  BY DEF InsertPosition
<1>5. bigger \in SUBSET Nat
  BY <1>1
<1>5a. bigger # {} => Min(bigger) \in bigger /\ \A y \in bigger : Min(bigger) <= y
  BY <1>5, MinFacts
<1>6. \A i : i \in bigger <=> i \in 1 .. Len(list) /\ Priority[t] < Priority[list[i]]
  BY <1>1
<1> HIDE DEF bigger
<1>7. CASE bigger = {}
  BY <1>1, <1>2, <1>3, <1>4, <1>6, <1>7
<1>8. CASE bigger # {}
  <2>1. p \in bigger /\ \A y \in bigger : p <= y
    BY <1>4, <1>5a, <1>8
  <2>2. p \in 1 .. Len(list) /\ Priority[t] < Priority[list[p]]
    BY <1>6, <2>1
  <2>3. \A i \in 1 .. p - 1 : i \notin bigger /\ i \in 1 .. Len(list)
    BY <1>1, <2>1, <2>2
  <2> QED
    BY <1>1, <1>2, <1>3, <1>6, <2>2, <2>3
<1> QED
  BY <1>7, <1>8

\* List::SortedInsert() adds exactly its element.
LEMMA SortedInsertFacts ==
  ASSUME NEW list \in Seq(Thread), NEW t \in Thread
  PROVE  /\ SortedInsert(list, t) \in Seq(Thread)
         /\ SortedInsert(list, t) # <<>>
         /\ Range(SortedInsert(list, t)) = Range(list) \cup {t}
         /\ IsInjective(list) /\ t \notin Range(list) => IsInjective(SortedInsert(list, t))
<1>1. InsertPosition(list, t) \in 1 .. Len(list) + 1
  BY InsertPositionFacts
<1> QED
  BY <1>1, InsertAtRange DEF SortedInsert

-----------------------------------------------------------------------------
\* Run() and what SleepWith() does around it keep the scheduler's types.
LEMMA SleepWithType ==
  ASSUME SchedTypeOK, NEW t \in Thread, NEW ready \in Seq(Thread),
         NEW stat \in [Thread -> Status], NEW dead \in Thread \cup {NULL},
         SleepWith(t, ready, stat, dead)
  PROVE  /\ current' \in Thread /\ readyList' \in Seq(Thread)
         /\ status' \in [Thread -> Status] /\ started' \subseteq Thread
         /\ carcass' \in Thread \cup {NULL} /\ destroyed' \subseteq Thread
<1>1. CASE ready # <<>>
  <2>1. Head(ready) \in Thread /\ Tail(ready) \in Seq(Thread)
    BY <1>1, RemoveFacts
  <2> QED
    BY <1>1, <2>1 DEF SleepWith, Run, SchedTypeOK, Status
<1>2. CASE ready = <<>>
  BY <1>2 DEF SleepWith, SchedTypeOK, Status
<1> QED
  BY <1>1, <1>2

\* What a V() computes has the right types.
LEMMA AfterVType ==
  ASSUME SynchTypeOK, NEW s \in Semaphore
  PROVE  /\ ReadyAfterV(s) \in Seq(Thread)
         /\ StatusAfterV(s) \in [Thread -> Status]
         /\ SemaphoreV(s) => /\ value' \in [Semaphore -> Nat]
                             /\ queue' \in [Semaphore -> Seq(Thread)]
<1>1. queue[s] \in Seq(Thread) /\ readyList \in Seq(Thread) /\ status \in [Thread -> Status]
  BY DEF SynchTypeOK, SchedTypeOK
<1>2. queue[s] # <<>> => /\ Head(queue[s]) \in Thread
                         /\ Tail(queue[s]) \in Seq(Thread)
  BY <1>1, RemoveFacts
<1>3. queue[s] # <<>> => SortedInsert(readyList, Head(queue[s])) \in Seq(Thread)
  BY <1>1, <1>2, SortedInsertFacts
<1>4. ReadyAfterV(s) \in Seq(Thread)
  BY <1>1, <1>3 DEF ReadyAfterV
<1>5. StatusAfterV(s) \in [Thread -> Status]
  BY <1>1, <1>2 DEF StatusAfterV, Status
<1>6. ASSUME SemaphoreV(s)
      PROVE  value' \in [Semaphore -> Nat] /\ queue' \in [Semaphore -> Seq(Thread)]
  <2>1. value \in [Semaphore -> Nat] /\ queue \in [Semaphore -> Seq(Thread)]
    BY DEF SynchTypeOK
  <2>2. CASE queue[s] = <<>>
    <3>1. queue' = [queue EXCEPT ![s] = queue[s]]
      BY <1>6, <2>2 DEF SemaphoreV
    <3> QED
      BY <1>6, <2>1, <3>1 DEF SemaphoreV
  <2>3. CASE queue[s] # <<>>
    <3>1. queue' = [queue EXCEPT ![s] = Tail(queue[s])]
      BY <1>6, <2>3 DEF SemaphoreV
    <3> QED
      BY <1>2, <1>6, <2>1, <2>3, <3>1 DEF SemaphoreV
  <2> QED
    BY <2>2, <2>3
<1> QED
  BY <1>4, <1>5, <1>6

\* ReadyToRun() keeps the scheduler's types.
LEMMA ReadyToRunType ==
  ASSUME SchedTypeOK, NEW u \in Thread, ReadyToRun(u)
  PROVE  SchedTypeOK'
<1>1. SortedInsert(readyList, u) \in Seq(Thread)
  BY SortedInsertFacts DEF SchedTypeOK
<1> QED
  BY <1>1 DEF ReadyToRun, SchedTypeOK, Status

\* P() keeps the types of what it changes, whoever calls it.
LEMMA SemaphorePType ==
  ASSUME SynchTypeOK, NEW t \in Thread, NEW s \in Semaphore, SemaphoreP(t, s)
  PROVE  /\ SchedTypeOK'
         /\ value' \in [Semaphore -> Nat]
         /\ queue' \in [Semaphore -> Seq(Thread)]
         /\ inP' \in [Thread -> Semaphore \cup {NULL}]
<1>1. CASE value[s] > 0
  <2>1. UNCHANGED <<queue, schedVars>> /\ value' = [value EXCEPT ![s] = @ - 1]
        /\ inP' = [inP EXCEPT ![t] = NULL]
    BY <1>1 DEF SemaphoreP
  <2>2. SchedTypeOK'
    BY <2>1 DEF schedVars, SchedTypeOK, SynchTypeOK
  <2> QED
    BY <1>1, <2>1, <2>2 DEF SynchTypeOK
<1>2. CASE value[s] = 0
  <2>1. queue' = [queue EXCEPT ![s] = Append(queue[s], t)] /\ Sleep(t)
        /\ inP' = [inP EXCEPT ![t] = s] /\ value' = value
    BY <1>2 DEF SemaphoreP
  <2>2. Append(queue[s], t) \in Seq(Thread)
    BY AppendFacts DEF SynchTypeOK
  <2>3. SchedTypeOK'
    BY <2>1, SleepWithType DEF Sleep, SchedTypeOK, SynchTypeOK
  <2> QED
    BY <2>1, <2>2, <2>3 DEF SynchTypeOK
<1> QED
  BY <1>1, <1>2 DEF SemaphoreP

\* Condition::Signal() and one iteration of Broadcast() keep the types.
LEMMA NotifyType ==
  ASSUME SynchTypeOK, NEW c \in Condition, condQueue[c] # <<>>,
         condQueue' = [condQueue EXCEPT ![c] = Tail(@)],
         ReadyToRun(Head(condQueue[c]))
  PROVE  SchedTypeOK' /\ condQueue' \in [Condition -> Seq(Thread)]
<1>1. condQueue[c] \in Seq(Thread) /\ condQueue \in [Condition -> Seq(Thread)]
  BY DEF SynchTypeOK
<1>2. Head(condQueue[c]) \in Thread /\ Tail(condQueue[c]) \in Seq(Thread)
  BY <1>1, RemoveFacts
<1>3. SchedTypeOK'
  BY <1>2, ReadyToRunType DEF SynchTypeOK
<1> QED
  BY <1>1, <1>2, <1>3

LEMMA InitType == SynchInit => SynchTypeOK
<1> SUFFICES ASSUME SynchInit PROVE SynchTypeOK
  OBVIOUS
<1>1. <<>> \in Seq(Thread)
  BY EmptySeq
<1>2. SchedTypeOK
  BY <1>1, ThreadAssumption DEF SynchInit, SchedInit, SchedTypeOK, Status
<1> QED
  BY <1>1, <1>2, SemaphoreAssumption DEF SynchInit, SynchTypeOK

\* A routine that the running thread t calls or, woken in P(), goes on with.
Routine(t) ==
  \/ \E s \in Semaphore \ Lock : inP[t] \in {NULL, s} /\ P(t, s)
  \/ \E l \in Lock : inP[t] \in {NULL, l} /\ Acquire(t, l)
  \/ \E l \in Lock : Release(t, l)
  \/ inP[t] = NULL /\ \E c \in Condition, l \in Lock : Wait(t, c, l)
  \/ \E c \in Condition, l \in Lock : Signal(t, c, l) \/ Broadcast(t, c, l)
  \/ Yield(t) /\ UNCHANGED synchVars
  \/ (\E u \in Thread : Fork(u)) /\ UNCHANGED synchVars
  \/ inP[t] = NULL /\ Finish(t) /\ UNCHANGED synchVars

\* A step of the kernel, as far as synch.cc knows: a routine, a V() by a
\* thread or by an interrupt handler, the end of the idle loop, or none.
SynchStep ==
  \/ \E t \in Thread : Running(t) /\ Routine(t)
  \/ \E s \in Semaphore \ Lock : V(s)
  \/ Dispatch /\ UNCHANGED synchVars
  \/ UNCHANGED <<schedVars, synchVars>>

LEMMA StepType ==
  ASSUME SynchTypeOK, SynchStep
  PROVE  SynchTypeOK'
<1>t. readyList \in Seq(Thread) /\ Lock \subseteq Semaphore
  BY SemaphoreAssumption DEF SynchTypeOK, SchedTypeOK
<1>v. ASSUME NEW s \in Semaphore, V(s)
      PROVE  SynchTypeOK'
  BY <1>v, AfterVType DEF V, condVars, SynchTypeOK, SchedTypeOK
<1>1. ASSUME NEW t \in Thread, Routine(t)
      PROVE  SynchTypeOK'
  <2>1. CASE \E s \in Semaphore : P(t, s)
    BY <2>1, SemaphorePType DEF P, condVars, SynchTypeOK
  <2>2. CASE \E l \in Lock : Acquire(t, l)
    <3>1. PICK l \in Lock : Acquire(t, l)
      BY <2>2
    <3>2. owner' \in [Lock -> Thread \cup {NULL}]
      BY <3>1 DEF Acquire, SynchTypeOK
    <3> QED
      BY <1>t, <3>1, <3>2, SemaphorePType DEF Acquire, condVars, SynchTypeOK
  <2>3. CASE \E l \in Lock : Release(t, l)
    BY <1>t, <2>3, AfterVType DEF Release, condVars, SynchTypeOK, SchedTypeOK
  <2>4. CASE \E c \in Condition, l \in Lock : Wait(t, c, l)
    <3>1. PICK c \in Condition, l \in Lock : Wait(t, c, l)
      BY <2>4
    <3>2. Append(condQueue[c], t) \in Seq(Thread) /\ l \in Semaphore
      BY <1>t, AppendFacts DEF SynchTypeOK
    <3>3. SchedTypeOK'
      BY <3>1, <3>2, AfterVType, SleepWithType DEF Wait, SynchTypeOK, SchedTypeOK
    <3> QED
      BY <3>1, <3>2, <3>3, AfterVType DEF Wait, SynchTypeOK
  <2>5. CASE \E c \in Condition, l \in Lock : Signal(t, c, l) \/ Broadcast(t, c, l)
    <3>1. PICK c \in Condition, l \in Lock : Signal(t, c, l) \/ Broadcast(t, c, l)
      BY <2>5
    <3>2. CASE condQueue[c] = <<>>
      BY <3>1, <3>2 DEF Signal, Broadcast, semVars, schedVars, SynchTypeOK, SchedTypeOK
    <3>3. CASE condQueue[c] # <<>>
      BY <3>1, <3>3, NotifyType DEF Signal, Broadcast, semVars, SynchTypeOK
    <3> QED
      BY <3>2, <3>3
  <2>6. CASE Yield(t) /\ UNCHANGED synchVars
    <3>1. Head(readyList) \in Thread /\ Tail(readyList) \in Seq(Thread)
      BY <1>t, <2>6, RemoveFacts DEF Yield
    <3>2. SortedInsert(Tail(readyList), t) \in Seq(Thread)
      BY <3>1, SortedInsertFacts
    <3>3. SchedTypeOK'
      BY <2>6, <3>1, <3>2 DEF Yield, Run, SynchTypeOK, SchedTypeOK, Status
    <3> QED
      BY <2>6, <3>3 DEF synchVars, SynchTypeOK
  <2>7. CASE (\E u \in Thread : Fork(u)) /\ UNCHANGED synchVars
    BY <2>7, ReadyToRunType DEF Fork, synchVars, SynchTypeOK
  <2>8. CASE Finish(t) /\ UNCHANGED synchVars
    <3>1. SchedTypeOK'
      BY <2>8, SleepWithType DEF Finish, SynchTypeOK, SchedTypeOK
    <3> QED
      BY <2>8, <3>1 DEF synchVars, SynchTypeOK
  <2> QED
    BY <1>1, <2>1, <2>2, <2>3, <2>4, <2>5, <2>6, <2>7, <2>8 DEF Routine
<1>2. CASE Dispatch /\ UNCHANGED synchVars
  <2>1. Head(readyList) \in Thread /\ Tail(readyList) \in Seq(Thread)
    BY <1>t, <1>2, RemoveFacts DEF Dispatch
  <2>2. SchedTypeOK'
    BY <1>2, <2>1 DEF Dispatch, Run, SynchTypeOK, SchedTypeOK, Status
  <2> QED
    BY <1>2, <2>2 DEF synchVars, SynchTypeOK
<1>3. CASE UNCHANGED <<schedVars, synchVars>>
  BY <1>3 DEF schedVars, synchVars, SynchTypeOK, SchedTypeOK
<1> QED
  BY <1>v, <1>1, <1>2, <1>3 DEF SynchStep

\* Mutual exclusion needs nothing but itself and the types: every routine
\* that changes a lock's semaphore changes its owner in the same step.
LEMMA StepLock ==
  ASSUME SynchTypeOK, LockInv, SynchStep
  PROVE  LockInv'
<1>t. /\ value \in [Semaphore -> Nat] /\ owner \in [Lock -> Thread \cup {NULL}]
      /\ Lock \subseteq Semaphore /\ NULL \notin Thread
  BY SemaphoreAssumption, NullAssumption DEF SynchTypeOK
<1> USE DEF LockInv
<1>1. ASSUME NEW t \in Thread, Routine(t)
      PROVE  LockInv'
  <2>1. CASE \E s \in Semaphore \ Lock : P(t, s)
    BY <1>t, <2>1 DEF P, SemaphoreP
  <2>2. CASE \E l \in Lock : Acquire(t, l)
    BY <1>t, <2>2 DEF Acquire, SemaphoreP
  <2>3. CASE \E l \in Lock : Release(t, l)
    BY <1>t, <2>3 DEF Release, SemaphoreV
  <2>4. CASE \E c \in Condition, l \in Lock : Wait(t, c, l)
    BY <1>t, <2>4 DEF Wait, SemaphoreV
  <2>5. CASE \E c \in Condition, l \in Lock : Signal(t, c, l) \/ Broadcast(t, c, l)
    BY <2>5 DEF Signal, Broadcast, semVars
  <2>6. CASE UNCHANGED synchVars
    BY <2>6 DEF synchVars
  <2> QED
    BY <1>1, <2>1, <2>2, <2>3, <2>4, <2>5, <2>6 DEF Routine
<1>2. CASE \E s \in Semaphore \ Lock : V(s)
  BY <1>t, <1>2 DEF V, SemaphoreV
<1>3. CASE UNCHANGED synchVars
  BY <1>3 DEF synchVars
<1> QED
  BY <1>1, <1>2, <1>3 DEF SynchStep

-----------------------------------------------------------------------------
(* Where the threads are.  Placed() says of the sets of threads on the     *)
(* semaphores (S), on the conditions (C) and on the ready list (R) that    *)
(* they fit the statuses; the lemmas Placed* are the moves a routine makes *)
(* of one thread, and every routine is one or two of them in sequence.     *)

Sets(D, lists) == [d \in D |-> Range(lists[d])]

Placed(S, C, R, stat, cur, gone) ==
  /\ S \in [Semaphore -> SUBSET Thread]
  /\ C \in [Condition -> SUBSET Thread]
  /\ stat \in [Thread -> Status]
  /\ \A s1, s2 \in Semaphore : s1 # s2 => S[s1] \cap S[s2] = {}
  /\ \A c1, c2 \in Condition : c1 # c2 => C[c1] \cap C[c2] = {}
  /\ \A s \in Semaphore, c \in Condition : S[s] \cap C[c] = {}
  /\ \A t \in Thread :
       /\ stat[t] = "READY" <=> t \in R
       /\ stat[t] = "BLOCKED" <=>
            \/ t \in gone
            \/ \E s \in Semaphore : t \in S[s]
            \/ \E c \in Condition : t \in C[c]
       /\ stat[t] = "RUNNING" => t = cur
  /\ \A t \in gone :
       /\ t \notin R
       /\ \A s \in Semaphore : t \notin S[s]
       /\ \A c \in Condition : t \notin C[c]

\* V() moves a waiter of s to the ready list.
LEMMA PlacedV ==
  ASSUME NEW S, NEW C, NEW R, NEW stat, NEW cur, NEW gone,
         Placed(S, C, R, stat, cur, gone),
         NEW s \in Semaphore, NEW u \in S[s]
  PROVE  Placed([S EXCEPT ![s] = @ \ {u}], C, R \cup {u},
                [stat EXCEPT ![u] = "READY"], cur, gone)
BY DEF Placed, Status

\* Signal() moves a waiter of c to the ready list.
LEMMA PlacedSignal ==
  ASSUME NEW S, NEW C, NEW R, NEW stat, NEW cur, NEW gone,
         Placed(S, C, R, stat, cur, gone),
         NEW c \in Condition, NEW u \in C[c]
  PROVE  Placed(S, [C EXCEPT ![c] = @ \ {u}], R \cup {u},
                [stat EXCEPT ![u] = "READY"], cur, gone)
BY DEF Placed, Status

\* Fork() readies a new thread, Yield() the running one.
LEMMA PlacedReady ==
  ASSUME NEW S, NEW C, NEW R, NEW stat, NEW cur, NEW gone,
         Placed(S, C, R, stat, cur, gone),
         NEW u \in Thread, stat[u] \in {"JUST_CREATED", "RUNNING"}
  PROVE  Placed(S, C, R \cup {u}, [stat EXCEPT ![u] = "READY"], cur, gone)
BY DEF Placed, Status

\* P() puts the running thread on the queue of s.
LEMMA PlacedP ==
  ASSUME NEW S, NEW C, NEW R, NEW stat, NEW cur, NEW gone,
         Placed(S, C, R, stat, cur, gone),
         NEW t \in Thread, stat[t] = "RUNNING", NEW s \in Semaphore
  PROVE  Placed([S EXCEPT ![s] = @ \cup {t}], C, R,
                [stat EXCEPT ![t] = "BLOCKED"], cur, gone)
BY DEF Placed, Status

\* Wait() puts the running thread on the queue of c.
LEMMA PlacedWait ==
  ASSUME NEW S, NEW C, NEW R, NEW stat, NEW cur, NEW gone,
         Placed(S, C, R, stat, cur, gone),
         NEW t \in Thread, stat[t] = "RUNNING", NEW c \in Condition
  PROVE  Placed(S, [C EXCEPT ![c] = @ \cup {t}], R,
                [stat EXCEPT ![t] = "BLOCKED"], cur, gone)
BY DEF Placed, Status

\* Finish() puts the running thread nowhere.
LEMMA PlacedFinish ==
  ASSUME NEW S, NEW C, NEW R, NEW stat, NEW cur, NEW gone,
         Placed(S, C, R, stat, cur, gone),
         NEW t \in Thread, stat[t] = "RUNNING"
  PROVE  Placed(S, C, R, [stat EXCEPT ![t] = "BLOCKED"], cur, gone \cup {t})
BY DEF Placed, Status

\* Run() takes a thread off the ready list, when the processor is free.
LEMMA PlacedRun ==
  ASSUME NEW S, NEW C, NEW R, NEW stat, NEW cur, NEW gone,
         Placed(S, C, R, stat, cur, gone),
         stat[cur] # "RUNNING", NEW n \in R, R \subseteq Thread
  PROVE  Placed(S, C, R \ {n}, [stat EXCEPT ![n] = "RUNNING"], n, gone)
BY DEF Placed, Status

\* What the scheduler keeps of finished threads.
Kept(gone) ==
  /\ destroyed \subseteq gone
  /\ current \notin destroyed
  /\ carcass \in gone \cup {NULL}

\* Run() of the head of the list, from a state with the processor free.
LEMMA RunPlaced ==
  ASSUME NEW S, NEW C, NEW stat, NEW gone,
         NEW ready \in Seq(Thread), ready # <<>>, IsInjective(ready),
         NEW cur, Placed(S, C, Range(ready), stat, cur, gone), stat[cur] # "RUNNING",
         NEW dead \in gone \cup {NULL}, destroyed \subseteq gone,
         NEW rest, IsInjective(rest), Range(rest) = Range(ready) \ {Head(ready)},
         Run(Head(ready), rest, stat, dead)
  PROVE  /\ Placed(S, C, Range(readyList'), status', current', gone)
         /\ IsInjective(readyList')
         /\ destroyed' \subseteq gone /\ current' \notin destroyed'
         /\ carcass' \in gone \cup {NULL}
         /\ current' = Head(ready)
         /\ status' = [stat EXCEPT ![current'] = "RUNNING"]
<1>1. Head(ready) \in Range(ready) /\ Range(ready) \subseteq Thread
  BY RemoveFacts, RangeOfSequence
<1>2. current' = Head(ready) /\ readyList' = rest
      /\ status' = [stat EXCEPT ![Head(ready)] = "RUNNING"]
  BY DEF Run
<1>3. Placed(S, C, Range(readyList'), status', current', gone)
  <2>1. Placed(S, C, Range(ready) \ {Head(ready)},
               [stat EXCEPT ![Head(ready)] = "RUNNING"], Head(ready), gone)
    BY <1>1, PlacedRun
  <2> QED
    BY <1>2, <2>1
<1>4. Head(ready) \notin gone
  BY <1>1 DEF Placed
<1>5. destroyed' \subseteq gone /\ carcass' \in gone \cup {NULL}
  BY DEF Run
<1> QED
  BY <1>2, <1>3, <1>4, <1>5 DEF Run

\* Sleep(): the caller is where it sleeps, the head of the ready list runs.
LEMMA SleepPlaced ==
  ASSUME NEW S, NEW C, NEW stat, NEW gone, NEW t, t = current,
         NEW ready \in Seq(Thread), IsInjective(ready),
         ready = <<>> => readyList = <<>>,
         stat \in [Thread -> Status], t \in Thread,
         Placed(S, C, Range(ready), [stat EXCEPT ![t] = "BLOCKED"], current, gone),
         NEW dead \in gone \cup {NULL}, destroyed \subseteq gone, current \notin destroyed,
         SleepWith(t, ready, stat, dead)
  PROVE  /\ Placed(S, C, Range(readyList'), status', current', gone)
         /\ IsInjective(readyList')
         /\ destroyed' \subseteq gone /\ current' \notin destroyed'
         /\ carcass' \in gone \cup {NULL}
<1> DEFINE blocked == [stat EXCEPT ![t] = "BLOCKED"]
<1>1. CASE ready # <<>>
  <2>1. IsInjective(Tail(ready)) /\ Range(Tail(ready)) = Range(ready) \ {Head(ready)}
    BY <1>1, RemoveFacts
  <2>2. Run(Head(ready), Tail(ready), blocked, dead)
    BY <1>1 DEF SleepWith
  <2>3. blocked[current] # "RUNNING"
    OBVIOUS
  <2> HIDE DEF blocked
  <2> QED
    BY <1>1, <2>1, <2>2, <2>3, RunPlaced DEF blocked
<1>2. CASE ready = <<>>
  <2>1. status' = blocked /\ carcass' = dead /\ readyList' = ready
        /\ current' = current /\ destroyed' = destroyed
    BY <1>2 DEF SleepWith
  <2> QED
    BY <2>1
<1> QED
  BY <1>1, <1>2

-----------------------------------------------------------------------------
(* The inductive invariant of the places, over sets: PlaceInv says the     *)
(* same of the lists.                                                      *)

QueueSets == Sets(Semaphore, queue)

Injective ==
  /\ IsInjective(readyList)
  /\ \A s \in Semaphore : IsInjective(queue[s])
  /\ \A c \in Condition : IsInjective(condQueue[c])

\* What a sleeping thread will re-test when it runs again.
Sleepers(S, C, re, lock) ==
  /\ \A s \in Semaphore : \A t \in S[s] : re[t] = s
  /\ \A c \in Condition : \A t \in C[c] : re[t] = lock[c]
  /\ \A c \in Condition : C[c] # {} => lock[c] \in Lock

Where ==
  /\ Injective
  /\ Placed(QueueSets, WaitSet, Range(readyList), status, current, finished)
  /\ Sleepers(QueueSets, WaitSet, inP, condLock)
  /\ Kept(finished)

\* V() on a semaphore: what it makes of the queues, of the ready list and of
\* the statuses, before anybody sleeps.
LEMMA VPlaced ==
  ASSUME SynchTypeOK, Where, NEW s \in Semaphore, SemaphoreV(s)
  PROVE  /\ \A x \in Semaphore : IsInjective(queue'[x])
         /\ IsInjective(ReadyAfterV(s))
         /\ Placed(QueueSets', WaitSet, Range(ReadyAfterV(s)), StatusAfterV(s),
                   current, finished)
         /\ \A x \in Semaphore : QueueSets'[x] \subseteq QueueSets[x]
         /\ ReadyAfterV(s) = <<>> => readyList = <<>>
         /\ \A t \in Thread : status[t] = "RUNNING" => StatusAfterV(s)[t] = "RUNNING"
<1>1. /\ queue \in [Semaphore -> Seq(Thread)] /\ readyList \in Seq(Thread)
      /\ status \in [Thread -> Status]
  BY DEF SynchTypeOK, SchedTypeOK
<1>2. /\ Placed(QueueSets, WaitSet, Range(readyList), status, current, finished)
      /\ IsInjective(readyList)
      /\ \A x \in Semaphore : IsInjective(queue[x])
  BY DEF Where, Injective
<1>3. CASE queue[s] = <<>>
  <2>1. queue' = queue
    BY <1>1, <1>3 DEF SemaphoreV
  <2>2. ReadyAfterV(s) = readyList /\ StatusAfterV(s) = status
    BY <1>3 DEF ReadyAfterV, StatusAfterV
  <2>3. QueueSets' = QueueSets
    BY <2>1 DEF QueueSets, Sets
  <2> QED
    BY <1>2, <2>1, <2>2, <2>3
<1>4. CASE queue[s] # <<>>
  <2> DEFINE u == Head(queue[s])
  <2>1. queue' = [queue EXCEPT ![s] = Tail(@)]
    BY <1>4 DEF SemaphoreV
  <2>2. /\ u \in QueueSets[s]
        /\ \A x \in Semaphore : IsInjective(queue'[x])
        /\ QueueSets' = [QueueSets EXCEPT ![s] = @ \ {u}]
    <3>1. \A x \in Semaphore : queue'[x] = IF x = s THEN Tail(queue[s]) ELSE queue[x]
      BY <1>1, <2>1
    <3>2. /\ u \in Range(queue[s])
          /\ \A x \in Semaphore : IsInjective(queue'[x])
          /\ \A x \in Semaphore : Range(queue'[x]) = IF x = s THEN Range(queue[s]) \ {u}
                                                              ELSE Range(queue[x])
      <4>1. /\ IsInjective(Tail(queue[s])) /\ u \in Range(queue[s])
            /\ Range(Tail(queue[s])) = Range(queue[s]) \ {u}
        BY <1>1, <1>2, <1>4, RemoveFacts
      <4> HIDE DEF u
      <4> QED
        BY <1>2, <3>1, <4>1
    <3> HIDE DEF u
    <3> QED
      BY <3>2 DEF QueueSets, Sets
  <2>3. ReadyAfterV(s) = SortedInsert(readyList, u)
        /\ StatusAfterV(s) = [status EXCEPT ![u] = "READY"]
    BY <1>4 DEF ReadyAfterV, StatusAfterV
  <2>4. u \in Thread /\ status[u] = "BLOCKED" /\ u \notin Range(readyList)
    BY <1>2, <2>2 DEF Placed
  <2> HIDE DEF u
  <2>5. /\ Range(ReadyAfterV(s)) = Range(readyList) \cup {u}
        /\ IsInjective(ReadyAfterV(s)) /\ ReadyAfterV(s) # <<>>
    BY <1>1, <1>2, <2>3, <2>4, SortedInsertFacts
  <2>6. Placed(QueueSets', WaitSet, Range(ReadyAfterV(s)), StatusAfterV(s),
               current, finished)
    <3>1. Placed([QueueSets EXCEPT ![s] = @ \ {u}], WaitSet, Range(readyList) \cup {u},
                 [status EXCEPT ![u] = "READY"], current, finished)
      BY <1>2, <2>2, PlacedV
    <3> QED
      BY <2>2, <2>3, <2>5, <3>1
  <2>7. \A x \in Semaphore : QueueSets'[x] \subseteq QueueSets[x]
    BY <1>2, <2>2 DEF Placed
  <2>8. \A t \in Thread : status[t] = "RUNNING" => StatusAfterV(s)[t] = "RUNNING"
    BY <1>1, <2>3, <2>4
  <2> QED
    BY <2>2, <2>5, <2>6, <2>7, <2>8
<1> QED
  BY <1>3, <1>4

\* V() and Release().
LEMMA VWhere ==
  ASSUME SynchTypeOK, Where, NEW s \in Semaphore, SemaphoreV(s),
         readyList' = ReadyAfterV(s), status' = StatusAfterV(s),
         UNCHANGED <<current, carcass, finished, destroyed, inP, condQueue, condLock>>
  PROVE  Where'
<1>1. WaitSet' = WaitSet
  BY DEF WaitSet
<1>2. Injective'
  BY VPlaced DEF Where, Injective
<1>3. Placed(QueueSets, WaitSet, Range(readyList), status, current, finished)'
  BY <1>1, VPlaced
<1>4. Sleepers(QueueSets, WaitSet, inP, condLock)'
  BY <1>1, VPlaced DEF Where, Sleepers
<1>5. Kept(finished)'
  BY DEF Where, Kept
<1> QED
  BY <1>2, <1>3, <1>4, <1>5 DEF Where

\* P() and Acquire().
LEMMA PWhere ==
  ASSUME SynchTypeOK, Where, NEW t \in Thread, NEW s \in Semaphore, Running(t),
         SemaphoreP(t, s), UNCHANGED <<condQueue, condLock>>
  PROVE  Where'
<1>1. WaitSet' = WaitSet
  BY DEF WaitSet
<1>2. /\ queue \in [Semaphore -> Seq(Thread)] /\ readyList \in Seq(Thread)
      /\ status \in [Thread -> Status] /\ value \in [Semaphore -> Nat]
      /\ inP \in [Thread -> Semaphore \cup {NULL}]
  BY DEF SynchTypeOK, SchedTypeOK
<1>3. /\ Placed(QueueSets, WaitSet, Range(readyList), status, current, finished)
      /\ Injective /\ Sleepers(QueueSets, WaitSet, inP, condLock) /\ Kept(finished)
  BY DEF Where
<1>4. /\ t = current /\ status[t] = "RUNNING"
      /\ \A x \in Semaphore : t \notin QueueSets[x]
      /\ \A c \in Condition : t \notin WaitSet[c]
  BY <1>3 DEF Running, Placed
<1>5. CASE value[s] > 0
  <2>1. inP' = [inP EXCEPT ![t] = NULL] /\ UNCHANGED <<queue, schedVars>>
    BY <1>5 DEF SemaphoreP
  <2>2. QueueSets' = QueueSets
    BY <2>1 DEF QueueSets, Sets
  <2>3. Sleepers(QueueSets, WaitSet, inP, condLock)'
    BY <1>1, <1>2, <1>3, <1>4, <2>1, <2>2 DEF Sleepers, Placed
  <2>4. Injective' /\ Kept(finished)'
    BY <1>3, <2>1 DEF Injective, Kept, schedVars
  <2>5. Placed(QueueSets, WaitSet, Range(readyList), status, current, finished)'
    BY <1>1, <1>3, <2>1, <2>2 DEF schedVars
  <2> QED
    BY <2>3, <2>4, <2>5 DEF Where
<1>6. CASE value[s] = 0
  <2>1. /\ queue' = [queue EXCEPT ![s] = Append(@, t)] /\ inP' = [inP EXCEPT ![t] = s]
        /\ SleepWith(t, readyList, status, carcass) /\ finished' = finished
    BY <1>6 DEF SemaphoreP, Sleep
  <2>2. /\ \A x \in Semaphore : IsInjective(queue'[x])
        /\ QueueSets' = [QueueSets EXCEPT ![s] = @ \cup {t}]
    <3>1. (\A x \in Semaphore : IsInjective(queue[x])) /\ t \notin Range(queue[s])
      BY <1>3, <1>4 DEF Injective, QueueSets, Sets
    <3>2. \A x \in Semaphore : queue'[x] = IF x = s THEN Append(queue[s], t) ELSE queue[x]
      BY <1>2, <2>1
    <3>3. /\ \A x \in Semaphore : IsInjective(queue'[x])
          /\ \A x \in Semaphore : Range(queue'[x]) = IF x = s THEN Range(queue[s]) \cup {t}
                                                              ELSE Range(queue[x])
      <4>1. /\ IsInjective(Append(queue[s], t))
            /\ Range(Append(queue[s], t)) = Range(queue[s]) \cup {t}
        BY <1>2, <3>1, AppendFacts
      <4> QED
        BY <3>1, <3>2, <4>1
    <3> QED
      BY <3>3 DEF QueueSets, Sets
  <2>3. Placed(QueueSets', WaitSet, Range(readyList), [status EXCEPT ![t] = "BLOCKED"],
               current, finished)
    BY <1>3, <1>4, <2>2, PlacedP
  <2>4. /\ Placed(QueueSets', WaitSet, Range(readyList'), status', current', finished)
        /\ IsInjective(readyList')
        /\ Kept(finished)'
    <3>1. IsInjective(readyList) /\ carcass \in finished \cup {NULL}
          /\ destroyed \subseteq finished /\ current \notin destroyed
      BY <1>3 DEF Injective, Kept
    <3>2. /\ Placed(QueueSets', WaitSet, Range(readyList'), status', current', finished)
          /\ IsInjective(readyList')
          /\ destroyed' \subseteq finished /\ current' \notin destroyed'
          /\ carcass' \in finished \cup {NULL}
      BY <1>2, <1>4, <2>1, <2>3, <3>1, SleepPlaced
    <3> QED
      BY <2>1, <3>2 DEF Kept
  <2>5. Injective'
    BY <1>3, <2>2, <2>4 DEF Injective
  <2>6. Sleepers(QueueSets, WaitSet, inP, condLock)'
    BY <1>1, <1>2, <1>3, <1>4, <2>1, <2>2 DEF Sleepers, Placed
  <2> QED
    BY <1>1, <2>1, <2>4, <2>5, <2>6 DEF Where
<1> QED
  BY <1>2, <1>5, <1>6

\* Wait(): Release() of the lock, then the caller sleeps on the condition.
LEMMA WaitWhere ==
  ASSUME SynchTypeOK, Where, NEW t \in Thread, NEW c \in Condition, NEW l \in Lock,
         Running(t), Wait(t, c, l)
  PROVE  /\ Where'
         /\ t \notin WaitSet[c]
         /\ WaitSet' = [WaitSet EXCEPT ![c] = @ \cup {t}]
<1>1. /\ condQueue \in [Condition -> Seq(Thread)] /\ readyList \in Seq(Thread)
      /\ inP \in [Thread -> Semaphore \cup {NULL}] /\ l \in Semaphore
      /\ condLock \in [Condition -> Lock \cup {NULL}]
      /\ \A x \in Condition : condQueue[x] = <<>> <=> WaitSet[x] = {}
  BY EmptyRange, SemaphoreAssumption DEF SynchTypeOK, SchedTypeOK, WaitSet
<1>2. /\ Placed(QueueSets, WaitSet, Range(readyList), status, current, finished)
      /\ Injective /\ Sleepers(QueueSets, WaitSet, inP, condLock) /\ Kept(finished)
  BY DEF Where
<1>3. /\ t = current /\ status[t] = "RUNNING"
      /\ \A s \in Semaphore : t \notin QueueSets[s]
      /\ \A x \in Condition : t \notin WaitSet[x]
  BY <1>2 DEF Running, Placed
<1>4. /\ SemaphoreV(l) /\ SleepWith(t, ReadyAfterV(l), StatusAfterV(l), carcass)
      /\ condQueue' = [condQueue EXCEPT ![c] = Append(@, t)]
      /\ condLock' = [condLock EXCEPT ![c] = l] /\ inP' = [inP EXCEPT ![t] = l]
      /\ condQueue[c] = <<>> \/ condLock[c] = l
      /\ finished' = finished
  BY DEF Wait
<1>5. /\ \A x \in Semaphore : IsInjective(queue'[x])
      /\ IsInjective(ReadyAfterV(l))
      /\ Placed(QueueSets', WaitSet, Range(ReadyAfterV(l)), StatusAfterV(l),
                current, finished)
      /\ \A x \in Semaphore : QueueSets'[x] \subseteq QueueSets[x]
      /\ ReadyAfterV(l) = <<>> => readyList = <<>>
      /\ StatusAfterV(l)[t] = "RUNNING"
  BY <1>1, <1>3, <1>4, VPlaced
<1>6. /\ \A x \in Condition : IsInjective(condQueue'[x])
      /\ WaitSet' = [WaitSet EXCEPT ![c] = @ \cup {t}]
  <2>1. \A x \in Condition : condQueue'[x] = IF x = c THEN Append(condQueue[c], t)
                                                      ELSE condQueue[x]
    BY <1>1, <1>4
  <2>2. \A x \in Condition : IsInjective(condQueue[x])
    BY <1>2 DEF Injective
  <2>3. t \notin Range(condQueue[c])
    BY <1>3 DEF WaitSet
  <2>4. /\ IsInjective(Append(condQueue[c], t))
        /\ Range(Append(condQueue[c], t)) = Range(condQueue[c]) \cup {t}
    BY <1>1, <2>2, <2>3, AppendFacts
  <2> QED
    BY <2>1, <2>2, <2>4 DEF WaitSet
<1>7. Placed(QueueSets', WaitSet', Range(ReadyAfterV(l)),
             [StatusAfterV(l) EXCEPT ![t] = "BLOCKED"], current, finished)
  BY <1>5, <1>6, PlacedWait
<1>8. /\ ReadyAfterV(l) \in Seq(Thread) /\ StatusAfterV(l) \in [Thread -> Status]
      /\ carcass \in finished \cup {NULL} /\ destroyed \subseteq finished
      /\ current \notin destroyed
  BY <1>1, <1>2, AfterVType DEF Kept
<1>9. /\ Placed(QueueSets', WaitSet', Range(readyList'), status', current', finished)
      /\ IsInjective(readyList')
      /\ destroyed' \subseteq finished /\ current' \notin destroyed'
      /\ carcass' \in finished \cup {NULL}
  BY <1>3, <1>4, <1>5, <1>7, <1>8, SleepPlaced
<1>10. Injective'
  BY <1>5, <1>6, <1>9 DEF Injective
<1>11. Sleepers(QueueSets, WaitSet, inP, condLock)'
  BY <1>1, <1>2, <1>3, <1>4, <1>5, <1>6 DEF Sleepers, Placed
<1> QED
  BY <1>3, <1>4, <1>6, <1>9, <1>10, <1>11 DEF Where, Kept

\* Signal() and one iteration of Broadcast(), of a condition with waiters.
LEMMA NotifyWhere ==
  ASSUME SynchTypeOK, Where, NEW c \in Condition, condQueue[c] # <<>>,
         condQueue' = [condQueue EXCEPT ![c] = Tail(@)],
         ReadyToRun(Head(condQueue[c])), UNCHANGED <<queue, inP, condLock>>
  PROVE  /\ Where'
         /\ Head(condQueue[c]) \in WaitSet[c]
         /\ WaitSet' = [WaitSet EXCEPT ![c] = @ \ {Head(condQueue[c])}]
<1> DEFINE u == Head(condQueue[c])
<1>1. /\ condQueue \in [Condition -> Seq(Thread)] /\ readyList \in Seq(Thread)
      /\ \A x \in Condition : IsInjective(condQueue[x])
      /\ IsInjective(readyList)
  BY DEF SynchTypeOK, SchedTypeOK, Where, Injective
<1>2. Placed(QueueSets, WaitSet, Range(readyList), status, current, finished)
  BY DEF Where
<1>3. /\ u \in WaitSet[c]
      /\ \A x \in Condition : IsInjective(condQueue'[x])
      /\ WaitSet' = [WaitSet EXCEPT ![c] = @ \ {u}]
  <2>1. \A x \in Condition : condQueue'[x] = IF x = c THEN Tail(condQueue[c])
                                                      ELSE condQueue[x]
    BY <1>1
  <2>2. /\ IsInjective(Tail(condQueue[c])) /\ u \in Range(condQueue[c])
        /\ Range(Tail(condQueue[c])) = Range(condQueue[c]) \ {u}
    BY <1>1, RemoveFacts
  <2> HIDE DEF u
  <2> QED
    BY <1>1, <2>1, <2>2 DEF WaitSet
<1>4. u \in Thread /\ u \notin Range(readyList)
  BY <1>2, <1>3 DEF Placed
<1>5. /\ readyList' = SortedInsert(readyList, u) /\ status' = [status EXCEPT ![u] = "READY"]
      /\ UNCHANGED <<current, carcass, finished, destroyed>>
  BY DEF ReadyToRun
<1>6. /\ Range(readyList') = Range(readyList) \cup {u}
      /\ IsInjective(readyList')
  BY <1>1, <1>4, <1>5, SortedInsertFacts
<1>7. QueueSets' = QueueSets
  BY DEF QueueSets, Sets
<1> HIDE DEF u
<1>8. Placed(QueueSets, WaitSet, Range(readyList), status, current, finished)'
  <2>1. Placed(QueueSets, [WaitSet EXCEPT ![c] = @ \ {u}], Range(readyList) \cup {u},
               [status EXCEPT ![u] = "READY"], current, finished)
    BY <1>2, <1>3, PlacedSignal
  <2> QED
    BY <1>3, <1>5, <1>6, <1>7, <2>1
<1>9. Injective'
  BY <1>3, <1>6 DEF Where, Injective
<1>10. Sleepers(QueueSets, WaitSet, inP, condLock)'
  BY <1>2, <1>3, <1>7 DEF Where, Sleepers, Placed
<1>11. Kept(finished)'
  BY <1>5 DEF Where, Kept
<1> QED
  BY <1>3, <1>8, <1>9, <1>10, <1>11 DEF Where, u

\* Fork().
LEMMA ForkWhere ==
  ASSUME SynchTypeOK, Where, NEW u \in Thread, Fork(u), UNCHANGED synchVars
  PROVE  Where'
<1>1. readyList \in Seq(Thread) /\ Injective
      /\ Placed(QueueSets, WaitSet, Range(readyList), status, current, finished)
  BY DEF SynchTypeOK, SchedTypeOK, Where
<1>2. /\ status[u] = "JUST_CREATED"
      /\ readyList' = SortedInsert(readyList, u) /\ status' = [status EXCEPT ![u] = "READY"]
      /\ UNCHANGED <<current, carcass, finished, destroyed>>
  BY DEF Fork, ReadyToRun
<1>3. u \notin Range(readyList)
  BY <1>1, <1>2 DEF Placed
<1>4. Range(readyList') = Range(readyList) \cup {u} /\ IsInjective(readyList')
  BY <1>1, <1>2, <1>3, SortedInsertFacts DEF Injective
<1>5. QueueSets' = QueueSets /\ WaitSet' = WaitSet
  BY DEF synchVars, QueueSets, WaitSet, Sets
<1>6. Placed(QueueSets, WaitSet, Range(readyList), status, current, finished)'
  <2>1. Placed(QueueSets, WaitSet, Range(readyList) \cup {u},
               [status EXCEPT ![u] = "READY"], current, finished)
    BY <1>1, <1>2, PlacedReady
  <2> QED
    BY <1>2, <1>4, <1>5, <2>1
<1> QED
  BY <1>1, <1>2, <1>4, <1>5, <1>6 DEF Where, Injective, Sleepers, Kept, synchVars

\* Yield(), whose caller is on the list only when the next thread is off it.
LEMMA YieldWhere ==
  ASSUME SynchTypeOK, Where, NEW t \in Thread, Running(t), Yield(t), UNCHANGED synchVars
  PROVE  Where'
<1> DEFINE rest == SortedInsert(Tail(readyList), t)
           stat == [status EXCEPT ![t] = "READY"]
           all == SortedInsert(readyList, t)
<1>1. readyList \in Seq(Thread) /\ Injective /\ Kept(finished)
      /\ Placed(QueueSets, WaitSet, Range(readyList), status, current, finished)
  BY DEF SynchTypeOK, SchedTypeOK, Where
<1>2. t = current /\ status[t] = "RUNNING" /\ t \notin Range(readyList)
  BY <1>1 DEF Running, Placed
<1>3. /\ readyList # <<>> /\ finished' = finished
      /\ Run(Head(readyList), rest, stat, carcass)
  BY DEF Yield
<1>4. /\ IsInjective(Tail(readyList)) /\ Tail(readyList) \in Seq(Thread)
      /\ Range(Tail(readyList)) = Range(readyList) \ {Head(readyList)}
      /\ Head(readyList) \in Range(readyList)
      /\ Range(readyList) \subseteq Thread
  BY <1>1, <1>3, RemoveFacts, RangeOfSequence DEF Injective
<1>5. /\ Range(rest) = (Range(readyList) \cup {t}) \ {Head(readyList)}
      /\ IsInjective(rest)
  <2>1. Range(rest) = Range(Tail(readyList)) \cup {t} /\ IsInjective(rest)
    BY <1>2, <1>4, SortedInsertFacts
  <2> HIDE DEF rest
  <2> QED
    BY <1>2, <1>4, <2>1
<1>6. Placed(QueueSets, WaitSet, Range(readyList) \cup {t}, stat, current, finished)
  BY <1>1, <1>2, PlacedReady
<1>7. stat[current] # "RUNNING" /\ Head(readyList) \in Range(readyList) \cup {t}
      /\ Range(readyList) \cup {t} \subseteq Thread
  BY <1>2, <1>4, <1>1 DEF Placed
<1>8. Placed(QueueSets, WaitSet, (Range(readyList) \cup {t}) \ {Head(readyList)},
             [stat EXCEPT ![Head(readyList)] = "RUNNING"], Head(readyList), finished)
  <2> HIDE DEF stat
  <2> QED
    BY <1>6, <1>7, PlacedRun
<1> HIDE DEF rest, stat
<1>9. /\ current' = Head(readyList) /\ readyList' = rest
      /\ status' = [stat EXCEPT ![Head(readyList)] = "RUNNING"]
      /\ destroyed' \subseteq destroyed \cup ({carcass} \ {NULL})
      /\ carcass' \in {carcass, NULL}
  BY <1>3 DEF Run
<1>10. QueueSets' = QueueSets /\ WaitSet' = WaitSet
  BY DEF synchVars, QueueSets, WaitSet, Sets
<1>11. Placed(QueueSets, WaitSet, Range(readyList), status, current, finished)'
  BY <1>3, <1>5, <1>8, <1>9, <1>10
<1>12. Kept(finished)'
  <2>1. Head(readyList) \notin finished
    BY <1>1, <1>4 DEF Placed
  <2> QED
    BY <1>1, <1>3, <1>9, <2>1 DEF Kept
<1>13. Injective'
  BY <1>1, <1>5, <1>9 DEF Injective, synchVars
<1> QED
  BY <1>10, <1>11, <1>12, <1>13 DEF Where, Sleepers, synchVars

\* Finish().
LEMMA FinishWhere ==
  ASSUME SynchTypeOK, Where, NEW t \in Thread, Running(t), Finish(t), UNCHANGED synchVars
  PROVE  Where'
<1> DEFINE gone == finished \cup {t}
<1>1. readyList \in Seq(Thread) /\ Injective /\ Kept(finished) /\ status \in [Thread -> Status]
      /\ Placed(QueueSets, WaitSet, Range(readyList), status, current, finished)
  BY DEF SynchTypeOK, SchedTypeOK, Where
<1>2. t = current /\ status[t] = "RUNNING"
  BY DEF Running
<1>3. finished' = gone /\ SleepWith(t, readyList, status, t)
  BY DEF Finish
<1>4. Placed(QueueSets, WaitSet, Range(readyList), [status EXCEPT ![t] = "BLOCKED"],
             current, gone)
  BY <1>1, <1>2, PlacedFinish
<1>5. IsInjective(readyList) /\ t \in gone \cup {NULL} /\ destroyed \subseteq gone
      /\ current \notin destroyed
  BY <1>1 DEF Injective, Kept
<1> HIDE DEF gone
<1>6. /\ Placed(QueueSets, WaitSet, Range(readyList'), status', current', gone)
      /\ IsInjective(readyList')
      /\ destroyed' \subseteq gone /\ current' \notin destroyed'
      /\ carcass' \in gone \cup {NULL}
  BY <1>1, <1>2, <1>3, <1>4, <1>5, SleepPlaced
<1>7. QueueSets' = QueueSets /\ WaitSet' = WaitSet
  BY DEF synchVars, QueueSets, WaitSet, Sets
<1>8. Placed(QueueSets, WaitSet, Range(readyList), status, current, finished)' /\ Kept(finished)'
  BY <1>3, <1>6, <1>7 DEF Kept
<1> QED
  BY <1>1, <1>6, <1>7, <1>8 DEF Where, Injective, Sleepers, synchVars

\* The loop of Sleep() finds a ready thread.
LEMMA DispatchWhere ==
  ASSUME SynchTypeOK, Where, Dispatch, UNCHANGED synchVars
  PROVE  Where'
<1>1. readyList \in Seq(Thread) /\ Injective /\ Kept(finished)
      /\ Placed(QueueSets, WaitSet, Range(readyList), status, current, finished)
  BY DEF SynchTypeOK, SchedTypeOK, Where
<1>2. /\ status[current] # "RUNNING" /\ readyList # <<>> /\ finished' = finished
      /\ Run(Head(readyList), Tail(readyList), status, carcass)
  BY DEF Dispatch, Idling
<1>3. /\ IsInjective(Tail(readyList)) /\ IsInjective(readyList)
      /\ Range(Tail(readyList)) = Range(readyList) \ {Head(readyList)}
  BY <1>1, <1>2, RemoveFacts DEF Injective
<1>4. carcass \in finished \cup {NULL} /\ destroyed \subseteq finished
  BY <1>1 DEF Kept
<1>5. /\ Placed(QueueSets, WaitSet, Range(readyList'), status', current', finished)
      /\ IsInjective(readyList')
      /\ destroyed' \subseteq finished /\ current' \notin destroyed'
      /\ carcass' \in finished \cup {NULL}
  BY <1>1, <1>2, <1>3, <1>4, RunPlaced
<1>6. QueueSets' = QueueSets /\ WaitSet' = WaitSet
  BY DEF synchVars, QueueSets, WaitSet, Sets
<1>7. Placed(QueueSets, WaitSet, Range(readyList), status, current, finished)' /\ Kept(finished)'
  BY <1>2, <1>5, <1>6 DEF Kept
<1> QED
  BY <1>1, <1>5, <1>6, <1>7 DEF Where, Injective, Sleepers, synchVars

LEMMA InitWhere == SynchInit => Where
<1> SUFFICES ASSUME SynchInit PROVE Where
  OBVIOUS
<1>1. /\ readyList = <<>> /\ current = Main /\ carcass = NULL /\ finished = {}
      /\ destroyed = {}
      /\ status = [t \in Thread |-> IF t = Main THEN "RUNNING" ELSE "JUST_CREATED"]
      /\ queue = [s \in Semaphore |-> <<>>] /\ condQueue = [c \in Condition |-> <<>>]
  BY DEF SynchInit, SchedInit
<1>2. <<>> \in Seq(Thread) /\ Len(<<>>) = 0 /\ Range(<<>>) = {}
  BY EmptySeq, EmptyRange
<1>3. IsInjective(<<>>)
  BY <1>2 DEF IsInjective
<1>4. QueueSets = [s \in Semaphore |-> {}] /\ WaitSet = [c \in Condition |-> {}]
  BY <1>1, <1>2 DEF QueueSets, WaitSet, Sets
<1>5. Placed(QueueSets, WaitSet, Range(readyList), status, current, finished)
  BY <1>1, <1>2, <1>4, ThreadAssumption DEF Placed, Status
<1>6. Sleepers(QueueSets, WaitSet, inP, condLock)
  BY <1>4 DEF Sleepers
<1> QED
  BY <1>1, <1>3, <1>5, <1>6 DEF Where, Injective, Kept

LEMMA StepWhere ==
  ASSUME SynchTypeOK, Where, SynchStep
  PROVE  Where'
<1>v. ASSUME NEW s \in Semaphore, V(s)
      PROVE  Where'
  BY <1>v, VWhere DEF V, condVars
<1>u. ASSUME UNCHANGED <<condQueue, condLock, schedVars, semVars>>
      PROVE  Where'
  BY <1>u DEF Where, Injective, Sleepers, Kept, QueueSets, WaitSet, Sets, schedVars, semVars
<1>1. ASSUME NEW t \in Thread, Running(t), Routine(t)
      PROVE  Where'
  <2>1. CASE \E s \in Semaphore : P(t, s)
    BY <1>1, <2>1, PWhere DEF P, condVars
  <2>2. CASE \E l \in Lock : Acquire(t, l)
    BY <1>1, <2>2, PWhere, SemaphoreAssumption DEF Acquire, condVars
  <2>3. CASE \E l \in Lock : Release(t, l)
    BY <2>3, VWhere, SemaphoreAssumption DEF Release, condVars
  <2>4. CASE \E c \in Condition, l \in Lock : Wait(t, c, l)
    BY <1>1, <2>4, WaitWhere
  <2>5. CASE \E c \in Condition, l \in Lock : Signal(t, c, l) \/ Broadcast(t, c, l)
    <3>1. PICK c \in Condition, l \in Lock : Signal(t, c, l) \/ Broadcast(t, c, l)
      BY <2>5
    <3>2. CASE condQueue[c] = <<>>
      BY <3>1, <3>2, <1>u DEF Signal, Broadcast
    <3>3. CASE condQueue[c] # <<>>
      BY <3>1, <3>3, NotifyWhere DEF Signal, Broadcast, semVars
    <3> QED
      BY <3>2, <3>3
  <2>6. CASE Yield(t) /\ UNCHANGED synchVars
    BY <1>1, <2>6, YieldWhere
  <2>7. CASE (\E u \in Thread : Fork(u)) /\ UNCHANGED synchVars
    BY <2>7, ForkWhere
  <2>8. CASE Finish(t) /\ UNCHANGED synchVars
    BY <1>1, <2>8, FinishWhere
  <2> QED
    BY <1>1, <2>1, <2>2, <2>3, <2>4, <2>5, <2>6, <2>7, <2>8 DEF Routine
<1>2. CASE Dispatch /\ UNCHANGED synchVars
  BY <1>2, DispatchWhere
<1>3. CASE UNCHANGED <<schedVars, synchVars>>
  BY <1>3, <1>u DEF synchVars, semVars
<1> QED
  BY <1>v, <1>1, <1>2, <1>3 DEF SynchStep

-----------------------------------------------------------------------------
(* The order of the ready list, and who runs next.                         *)

\* The head of a sorted list is as urgent as any other element.
LEMMA SortedTail ==
  ASSUME NEW list \in Seq(Thread), Sorted(list), list # <<>>
  PROVE  /\ Sorted(Tail(list))
         /\ \A t \in Range(Tail(list)) : Priority[Head(list)] <= Priority[t]
<1> DEFINE r == Tail(list)
<1>1. /\ r \in Seq(Thread) /\ Len(r) = Len(list) - 1
      /\ \A i \in 1 .. Len(r) : r[i] = list[i + 1]
      /\ Head(list) = list[1] /\ Len(list) \in Nat /\ Len(list) >= 1
  BY HeadTailProperties, LenProperties, EmptySeq
<1>2. DOMAIN r = 1 .. Len(r) /\ DOMAIN list = 1 .. Len(list) /\ Range(r) = {r[i] : i \in 1 .. Len(r)}
  BY <1>1, LenProperties, RangeOfSequence
<1> HIDE DEF r
<1> QED
  BY <1>1, <1>2 DEF Sorted, r

\* SortedInsert() keeps the order.
LEMMA SortedInsertSorted ==
  ASSUME NEW list \in Seq(Thread), Sorted(list), NEW t \in Thread
  PROVE  Sorted(SortedInsert(list, t))
<1> DEFINE p == InsertPosition(list, t)
           r == SortedInsert(list, t)
           n == Len(list)
<1>1. /\ p \in 1 .. n + 1
      /\ \A i \in 1 .. p - 1 : Priority[list[i]] <= Priority[t]
      /\ p <= n => Priority[t] < Priority[list[p]]
  BY InsertPositionFacts
<1>2. /\ r \in Seq(Thread) /\ Len(r) = n + 1
      /\ \A i \in 1 .. n + 1 : r[i] = IF i < p THEN list[i] ELSE IF i = p THEN t ELSE list[i - 1]
  <2>1. r = InsertAt(list, p, t) /\ p \in 1 .. Len(list) + 1
    BY <1>1 DEF SortedInsert
  <2>2. r \in Seq(Thread) /\ Inserted(r, list, p, t)
    <3> HIDE DEF p, r
    <3> QED
      BY <2>1, InsertAtFacts
  <2> QED
    BY <2>2 DEF Inserted
<1>3. DOMAIN r = 1 .. n + 1 /\ DOMAIN list = 1 .. n /\ n \in Nat
  BY <1>2, LenProperties
<1>4. /\ \A i \in 1 .. n : Priority[list[i]] \in Int
      /\ Priority[t] \in Int
  BY ElementOfSeq, PriorityAssumption
<1> HIDE DEF p, r, n
<1>5. \A i, j \in 1 .. n : i <= j => Priority[list[i]] <= Priority[list[j]]
  BY <1>3, <1>4 DEF Sorted
<1>6. \A i \in p .. n : Priority[t] <= Priority[list[i]]
  BY <1>1, <1>3, <1>4, <1>5
<1>7. SUFFICES ASSUME NEW i \in 1 .. n + 1, NEW j \in 1 .. n + 1, i < j
               PROVE  Priority[r[i]] <= Priority[r[j]]
  BY <1>3 DEF Sorted, r
<1>8. CASE j < p
  <2>1. i \in 1 .. n /\ j \in 1 .. n /\ r[i] = list[i] /\ r[j] = list[j]
    BY <1>1, <1>2, <1>3, <1>7, <1>8
  <2> QED
    BY <1>5, <1>7, <2>1
<1>9. CASE j = p
  <2>1. i \in 1 .. p - 1 /\ r[i] = list[i] /\ r[j] = t
    BY <1>1, <1>2, <1>3, <1>7, <1>9
  <2> QED
    BY <1>1, <2>1
<1>10. CASE j > p /\ i = p
  <2>1. j - 1 \in p .. n /\ r[j] = list[j - 1] /\ r[i] = t
    BY <1>1, <1>2, <1>3, <1>7, <1>10
  <2> QED
    BY <1>6, <2>1
<1>11. CASE j > p /\ i < p
  <2>1. j - 1 \in 1 .. n /\ i \in 1 .. n /\ i <= j - 1 /\ r[j] = list[j - 1] /\ r[i] = list[i]
    BY <1>1, <1>2, <1>3, <1>7, <1>11
  <2> QED
    BY <1>5, <2>1
<1>12. CASE j > p /\ i > p
  <2>1. /\ j - 1 \in 1 .. n /\ i - 1 \in 1 .. n /\ i - 1 <= j - 1
        /\ r[j] = list[j - 1] /\ r[i] = list[i - 1]
    BY <1>1, <1>2, <1>3, <1>7, <1>12
  <2> QED
    BY <1>5, <2>1
<1> QED
  BY <1>1, <1>8, <1>9, <1>10, <1>11, <1>12

MostUrgent ==
  current' # current =>
    \A t \in Range(readyList') : t = current \/ Priority[current'] <= Priority[t]

\* Sleep() runs the most urgent thread, and the others stay sorted.
LEMMA SleepSorted ==
  ASSUME NEW t, NEW ready \in Seq(Thread), Sorted(ready), ready = <<>> => readyList = <<>>,
         NEW stat, NEW dead, SleepWith(t, ready, stat, dead)
  PROVE  Sorted(readyList') /\ MostUrgent
<1>1. CASE ready = <<>>
  BY <1>1 DEF SleepWith, MostUrgent
<1>2. CASE ready # <<>>
  <2>1. current' = Head(ready) /\ readyList' = Tail(ready)
    BY <1>2 DEF SleepWith, Run
  <2> QED
    BY <1>2, <2>1, SortedTail DEF MostUrgent
<1> QED
  BY <1>1, <1>2

\* What V() makes of the ready list is sorted.
LEMMA AfterVSorted ==
  ASSUME SynchTypeOK, Sorted(readyList), NEW s \in Semaphore
  PROVE  /\ ReadyAfterV(s) \in Seq(Thread) /\ Sorted(ReadyAfterV(s))
         /\ ReadyAfterV(s) = <<>> => readyList = <<>>
<1>1. queue[s] \in Seq(Thread) /\ readyList \in Seq(Thread) /\ Sorted(readyList)
  BY DEF SynchTypeOK, SchedTypeOK
<1>2. CASE queue[s] = <<>>
  BY <1>1, <1>2 DEF ReadyAfterV
<1>3. CASE queue[s] # <<>>
  <2>1. Head(queue[s]) \in Thread
    BY <1>1, <1>3, RemoveFacts
  <2> QED
    BY <1>1, <1>3, <2>1, SortedInsertSorted, SortedInsertFacts DEF ReadyAfterV
<1> QED
  BY <1>2, <1>3

LEMMA StepSorted ==
  ASSUME SynchTypeOK, Sorted(readyList), SynchStep
  PROVE  Sorted(readyList') /\ MostUrgent
<1>t. readyList \in Seq(Thread) /\ Lock \subseteq Semaphore
  BY SemaphoreAssumption DEF SynchTypeOK, SchedTypeOK
<1>u. ASSUME UNCHANGED <<current, readyList>>
      PROVE  Sorted(readyList') /\ MostUrgent
  BY <1>u DEF MostUrgent
<1>n. ASSUME NEW u \in Thread, ReadyToRun(u)
      PROVE  Sorted(readyList') /\ MostUrgent
  BY <1>n, <1>t, SortedInsertSorted DEF ReadyToRun, MostUrgent
<1>v. ASSUME NEW s \in Semaphore, readyList' = ReadyAfterV(s), current' = current
      PROVE  Sorted(readyList') /\ MostUrgent
  BY <1>v, AfterVSorted DEF MostUrgent
<1>p. ASSUME NEW t \in Thread, NEW s \in Semaphore, SemaphoreP(t, s)
      PROVE  Sorted(readyList') /\ MostUrgent
  BY <1>p, <1>t, <1>u, SleepSorted DEF SemaphoreP, Sleep, schedVars
<1>1. ASSUME NEW t \in Thread, Running(t), Routine(t)
      PROVE  Sorted(readyList') /\ MostUrgent
  <2>1. CASE \E s \in Semaphore : P(t, s) \/ Acquire(t, s)
    BY <2>1, <1>p DEF P, Acquire
  <2>2. CASE \E l \in Lock : Release(t, l)
    BY <1>t, <2>2, <1>v DEF Release
  <2>3. CASE \E c \in Condition, l \in Lock : Wait(t, c, l)
    BY <2>3, <1>t, AfterVSorted, SleepSorted DEF Wait
  <2>4. CASE \E c \in Condition, l \in Lock : Signal(t, c, l) \/ Broadcast(t, c, l)
    <3>1. PICK c \in Condition, l \in Lock : Signal(t, c, l) \/ Broadcast(t, c, l)
      BY <2>4
    <3>2. CASE condQueue[c] = <<>>
      BY <3>1, <3>2, <1>u DEF Signal, Broadcast, schedVars
    <3>3. CASE condQueue[c] # <<>>
      <4>1. Head(condQueue[c]) \in Thread
        BY <3>3, RemoveFacts DEF SynchTypeOK
      <4> QED
        BY <3>1, <3>3, <4>1, <1>n DEF Signal, Broadcast
    <3> QED
      BY <3>2, <3>3
  <2>5. CASE Yield(t)
    <3>1. /\ readyList # <<>> /\ current = t
          /\ current' = Head(readyList) /\ readyList' = SortedInsert(Tail(readyList), t)
      BY <1>1, <2>5 DEF Running, Yield, Run
    <3>2. /\ Tail(readyList) \in Seq(Thread) /\ Sorted(Tail(readyList))
          /\ \A x \in Range(Tail(readyList)) : Priority[Head(readyList)] <= Priority[x]
      BY <1>t, <3>1, RemoveFacts, SortedTail
    <3>3. /\ Sorted(readyList')
          /\ Range(readyList') = Range(Tail(readyList)) \cup {t}
      BY <3>1, <3>2, SortedInsertFacts, SortedInsertSorted
    <3> QED
      BY <3>1, <3>2, <3>3 DEF MostUrgent
  <2>6. CASE \E u \in Thread : Fork(u)
    BY <2>6, <1>n DEF Fork
  <2>7. CASE Finish(t)
    BY <2>7, <1>t, SleepSorted DEF Finish
  <2> QED
    BY <1>1, <1>t, <2>1, <2>2, <2>3, <2>4, <2>5, <2>6, <2>7 DEF Routine
<1>2. CASE \E s \in Semaphore \ Lock : V(s)
  BY <1>2, <1>v DEF V
<1>3. CASE Dispatch
  <2>1. readyList # <<>> /\ current' = Head(readyList) /\ readyList' = Tail(readyList)
    BY <1>3 DEF Dispatch, Run
  <2> QED
    BY <1>t, <2>1, SortedTail DEF MostUrgent
<1>4. CASE UNCHANGED <<schedVars, synchVars>>
  BY <1>4, <1>u DEF schedVars
<1> QED
  BY <1>1, <1>2, <1>3, <1>4 DEF SynchStep

-----------------------------------------------------------------------------
(* The order of arrival on the ready list.                                 *)

\* Between the ready lists old and new, no thread overtakes another of its
\* priority: ArrivalOrder is this, of the list before a step and after it.
InOrder(old, new) ==
  \A t \in Range(old), u \in Thread :
    /\ {t, u} \subseteq Range(new)
    /\ Priority[t] = Priority[u]
    /\ u \notin Range(old) \/ Before(old, t, u)
    => t = u \/ Before(new, t, u)

\* Taking the first thread off the list leaves the others where they are.
LEMMA TailInOrder ==
  ASSUME NEW queued \in Seq(Thread), queued # <<>>, IsInjective(queued)
  PROVE  InOrder(queued, Tail(queued))
<1> DEFINE r == Tail(queued)
<1>1. /\ r \in Seq(Thread) /\ Len(r) = Len(queued) - 1
      /\ \A i \in 1 .. Len(r) : r[i] = queued[i + 1]
      /\ Head(queued) = queued[1] /\ Len(queued) \in Nat /\ Len(queued) >= 1
  BY HeadTailProperties, LenProperties, EmptySeq
<1>2. /\ DOMAIN r = 1 .. Len(r) /\ DOMAIN queued = 1 .. Len(queued)
      /\ Head(queued) \notin Range(r) /\ Range(r) \subseteq Range(queued)
  BY <1>1, LenProperties, RemoveFacts
<1> HIDE DEF r
<1>3. ASSUME NEW t, NEW u, t \in Range(r), Before(queued, t, u)
      PROVE  Before(r, t, u)
  <2>1. PICK i \in 1 .. Len(queued), j \in 1 .. Len(queued) : i < j /\ queued[i] = t /\ queued[j] = u
    BY <1>2, <1>3 DEF Before
  <2>2. i # 1
    BY <1>1, <1>2, <1>3, <2>1
  <2>3. /\ i - 1 \in 1 .. Len(r) /\ j - 1 \in 1 .. Len(r) /\ i - 1 < j - 1
        /\ r[i - 1] = t /\ r[j - 1] = u
    BY <1>1, <2>1, <2>2
  <2> QED
    BY <1>2, <2>3 DEF Before
<1> QED
  BY <1>2, <1>3 DEF InOrder, r

\* SortedInsert() puts a thread behind those of its priority (list.cc:203-216).
LEMMA InsertInOrder ==
  ASSUME NEW queued \in Seq(Thread), Sorted(queued), NEW x \in Thread, x \notin Range(queued)
  PROVE  InOrder(queued, SortedInsert(queued, x))
<1> DEFINE p == InsertPosition(queued, x)
           r == SortedInsert(queued, x)
           n == Len(queued)
<1>1. /\ p \in 1 .. n + 1
      /\ p <= n => Priority[x] < Priority[queued[p]]
  BY InsertPositionFacts
<1>2. /\ r \in Seq(Thread) /\ Len(r) = n + 1
      /\ \A i \in 1 .. n + 1 : r[i] = IF i < p THEN queued[i] ELSE IF i = p THEN x ELSE queued[i - 1]
  <2>1. r = InsertAt(queued, p, x) /\ p \in 1 .. Len(queued) + 1
    BY <1>1 DEF SortedInsert
  <2>2. r \in Seq(Thread) /\ Inserted(r, queued, p, x)
    <3> HIDE DEF p, r
    <3> QED
      BY <2>1, InsertAtFacts
  <2> QED
    BY <2>2 DEF Inserted
<1>3. /\ DOMAIN r = 1 .. n + 1 /\ DOMAIN queued = 1 .. n /\ n \in Nat
      /\ Range(queued) = {queued[i] : i \in 1 .. n} /\ Range(r) = Range(queued) \cup {x}
  <2>1. n \in Nat /\ DOMAIN queued = 1 .. n /\ Range(queued) = {queued[i] : i \in 1 .. n}
    BY LenProperties, RangeOfSequence
  <2>2. Range(r) = Range(queued) \cup {x}
    BY SortedInsertFacts
  <2>3. DOMAIN r = 1 .. n + 1
    <3> HIDE DEF r, n
    <3> QED
      BY <1>2, LenProperties
  <2> QED
    BY <2>1, <2>2, <2>3
<1>4. /\ \A i \in 1 .. n : Priority[queued[i]] \in Int
      /\ Priority[x] \in Int
  BY ElementOfSeq, PriorityAssumption
<1> HIDE DEF p, r, n
<1>5. \A i, j \in 1 .. n : i <= j => Priority[queued[i]] <= Priority[queued[j]]
  BY <1>3, <1>4 DEF Sorted
\* Where an element of queued is in r.
<1> DEFINE to(i) == IF i < p THEN i ELSE i + 1
<1>6. \A i \in 1 .. n : to(i) \in 1 .. n + 1 /\ r[to(i)] = queued[i]
  <2> SUFFICES ASSUME NEW i \in 1 .. n PROVE to(i) \in 1 .. n + 1 /\ r[to(i)] = queued[i]
    OBVIOUS
  <2>1. CASE i < p
    BY <1>1, <1>2, <1>3, <2>1
  <2>2. CASE ~(i < p)
    <3>1. i + 1 \in 1 .. n + 1 /\ ~(i + 1 < p) /\ i + 1 # p /\ (i + 1) - 1 = i
      BY <1>1, <1>3, <2>2
    <3> QED
      BY <1>2, <2>2, <3>1
  <2> QED
    BY <2>1, <2>2
<1>7. \A i, j \in 1 .. n : i < j => to(i) < to(j)
  BY <1>1, <1>3
<1>8. ASSUME NEW t \in Range(queued), Priority[t] = Priority[x]
      PROVE  Before(r, t, x)
  <2>1. PICK i \in 1 .. n : queued[i] = t
    BY <1>3
  <2>2. i < p
    <3> SUFFICES ASSUME p <= i PROVE FALSE
      BY <1>1, <1>3
    <3>1. p \in 1 .. n /\ Priority[queued[p]] <= Priority[queued[i]]
      BY <1>1, <1>3, <1>5
    <3> QED
      BY <1>1, <1>4, <1>8, <2>1, <3>1
  <2>3. /\ i \in 1 .. n + 1 /\ p \in 1 .. n + 1 /\ r[i] = t /\ r[p] = x
    BY <1>1, <1>2, <1>3, <2>1, <2>2
  <2> QED
    BY <1>3, <2>2, <2>3 DEF Before
<1>9. ASSUME NEW t, NEW u, Before(queued, t, u)
      PROVE  Before(r, t, u)
  <2>1. PICK i \in 1 .. n, j \in 1 .. n : i < j /\ queued[i] = t /\ queued[j] = u
    BY <1>3, <1>9 DEF Before
  <2>2. /\ to(i) \in 1 .. n + 1 /\ to(j) \in 1 .. n + 1 /\ to(i) < to(j)
        /\ r[to(i)] = t /\ r[to(j)] = u
    BY <1>6, <1>7, <2>1
  <2> HIDE DEF to
  <2> QED
    BY <1>3, <2>2 DEF Before
<1> QED
  BY <1>3, <1>8, <1>9 DEF InOrder, r

\* Two changes of the queued in one step keep the order, when no thread leaves
\* in the first and comes back in the second.
LEMMA InOrderTwice ==
  ASSUME NEW a, NEW b, NEW c, InOrder(a, b), InOrder(b, c),
         Range(a) \cap Range(c) \subseteq Range(b)
  PROVE  InOrder(a, c)
BY DEF InOrder

LEMMA SameInOrder == \A queued : InOrder(queued, queued)
BY DEF InOrder

\* SleepWith() dispatches the head of the ready list that its caller made.
LEMMA SleepInOrder ==
  ASSUME readyList \in Seq(Thread), NEW t, NEW ready \in Seq(Thread), IsInjective(ready),
         InOrder(readyList, ready), Range(readyList) \subseteq Range(ready),
         NEW stat, NEW dead, SleepWith(t, ready, stat, dead)
  PROVE  InOrder(readyList, readyList')
<1>0. PICK old \in Seq(Thread) : old = readyList
  OBVIOUS
<1>1. CASE ready = <<>>
  <2>1. readyList' = readyList
    BY <1>1 DEF SleepWith
  <2> QED
    BY <2>1, SameInOrder
<1>2. CASE ready # <<>>
  <2>1. readyList' = Tail(ready)
    BY <1>2 DEF SleepWith, Run
  <2>2. InOrder(ready, Tail(ready))
    BY <1>2, TailInOrder
  <2>3. InOrder(old, Tail(ready))
    BY <1>0, <2>2, InOrderTwice
  <2> QED
    BY <1>0, <2>1, <2>3
<1> QED
  BY <1>1, <1>2

\* A step that inserts x, which was in no list, in the ready list.
LEMMA ReadyInOrder ==
  ASSUME SynchTypeOK, Injective, Sorted(readyList), NEW x \in Thread, x \notin Range(readyList)
  PROVE  /\ InOrder(readyList, SortedInsert(readyList, x))
         /\ SortedInsert(readyList, x) \in Seq(Thread)
         /\ IsInjective(SortedInsert(readyList, x))
         /\ Range(readyList) \subseteq Range(SortedInsert(readyList, x))
<1>0. PICK old \in Seq(Thread) : old = readyList
  BY DEF SynchTypeOK, SchedTypeOK
<1>1. IsInjective(old) /\ Sorted(old) /\ x \notin Range(old)
  BY <1>0 DEF Injective
<1>2. /\ InOrder(old, SortedInsert(old, x)) /\ SortedInsert(old, x) \in Seq(Thread)
      /\ IsInjective(SortedInsert(old, x)) /\ Range(old) \subseteq Range(SortedInsert(old, x))
  BY <1>1, InsertInOrder, SortedInsertFacts
<1> QED
  BY <1>0, <1>2

LEMMA AfterVInOrder ==
  ASSUME SynchTypeOK, Where, Sorted(readyList), NEW s \in Semaphore
  PROVE  /\ InOrder(readyList, ReadyAfterV(s)) /\ ReadyAfterV(s) \in Seq(Thread)
         /\ IsInjective(ReadyAfterV(s)) /\ Range(readyList) \subseteq Range(ReadyAfterV(s))
<1>1. readyList \in Seq(Thread) /\ queue[s] \in Seq(Thread) /\ Injective
  BY DEF SynchTypeOK, SchedTypeOK, Where
<1>2. CASE queue[s] = <<>>
  BY <1>1, <1>2, SameInOrder DEF ReadyAfterV, Injective
<1>3. CASE queue[s] # <<>>
  <2>1. Head(queue[s]) \in Thread /\ Head(queue[s]) \in QueueSets[s]
    BY <1>1, <1>3, RemoveFacts DEF QueueSets, Sets
  <2>2. Head(queue[s]) \notin Range(readyList)
    BY <2>1 DEF Where, Placed
  <2> QED
    BY <1>1, <1>3, <2>1, <2>2, ReadyInOrder DEF ReadyAfterV
<1> QED
  BY <1>2, <1>3

LEMMA StepInOrder ==
  ASSUME SynchTypeOK, Where, Sorted(readyList), SynchStep
  PROVE  InOrder(readyList, readyList')
<1> DEFINE Goal == InOrder(readyList, readyList')
<1>t. /\ readyList \in Seq(Thread) /\ Lock \subseteq Semaphore /\ Injective
      /\ IsInjective(readyList)
  BY SemaphoreAssumption DEF SynchTypeOK, SchedTypeOK, Where, Injective
<1>w. Placed(QueueSets, WaitSet, Range(readyList), status, current, finished)
  BY DEF Where
<1>u. readyList' = readyList => Goal
  BY SameInOrder
<1>n. ASSUME NEW u \in Thread, u \notin Range(readyList), ReadyToRun(u)
      PROVE  Goal
  BY <1>n, <1>t, ReadyInOrder DEF ReadyToRun
<1>v. ASSUME NEW s \in Semaphore, readyList' = ReadyAfterV(s)
      PROVE  Goal
  BY <1>v, AfterVInOrder
<1>s. ASSUME NEW t, NEW stat, NEW dead, SleepWith(t, readyList, stat, dead)
      PROVE  Goal
  BY <1>t, <1>s, SleepInOrder, SameInOrder
<1>p. ASSUME NEW t \in Thread, NEW s \in Semaphore, SemaphoreP(t, s)
      PROVE  Goal
  <2> HIDE DEF Goal
  <2> QED
    BY <1>p, <1>u, <1>s DEF SemaphoreP, Sleep, schedVars
<1>d. ASSUME readyList # <<>>, readyList' = Tail(readyList)
      PROVE  Goal
  BY <1>t, <1>d, TailInOrder
<1>1. ASSUME NEW t \in Thread, Running(t), Routine(t)
      PROVE  Goal
  <2>1. CASE \E s \in Semaphore : P(t, s) \/ Acquire(t, s)
    BY <2>1, <1>p DEF P, Acquire
  <2>2. CASE \E l \in Lock : Release(t, l)
    BY <1>t, <2>2, <1>v DEF Release
  <2>3. CASE \E c \in Condition, l \in Lock : Wait(t, c, l)
    <3>1. PICK l \in Lock : SleepWith(t, ReadyAfterV(l), StatusAfterV(l), carcass)
      BY <2>3 DEF Wait
    <3>2. l \in Semaphore
      BY <1>t
    <3> QED
      BY <1>t, <3>1, <3>2, AfterVInOrder, SleepInOrder
  <2>4. CASE \E c \in Condition, l \in Lock : Signal(t, c, l) \/ Broadcast(t, c, l)
    <3>1. PICK c \in Condition, l \in Lock : Signal(t, c, l) \/ Broadcast(t, c, l)
      BY <2>4
    <3>2. CASE condQueue[c] = <<>>
      BY <3>1, <3>2, <1>u DEF Signal, Broadcast, schedVars
    <3>3. CASE condQueue[c] # <<>>
      <4>1. Head(condQueue[c]) \in Thread /\ Head(condQueue[c]) \in WaitSet[c]
        BY <3>3, RemoveFacts DEF SynchTypeOK, WaitSet
      <4>2. Head(condQueue[c]) \notin Range(readyList)
        BY <1>w, <4>1 DEF Placed
      <4> QED
        BY <3>1, <3>3, <4>1, <4>2, <1>n DEF Signal, Broadcast
    <3> QED
      BY <3>2, <3>3
  <2>5. CASE Yield(t)
    <3>0. PICK old \in Seq(Thread) : old = readyList
      BY <1>t
    <3>1. old # <<>> /\ readyList' = SortedInsert(Tail(old), t)
      BY <2>5, <3>0 DEF Yield, Run
    <3>2. t \notin Range(old)
      BY <1>1, <1>w, <3>0 DEF Placed, Running
    <3>3. /\ InOrder(old, Tail(old)) /\ Tail(old) \in Seq(Thread) /\ Sorted(Tail(old))
          /\ Range(Tail(old)) \subseteq Range(old)
      BY <1>t, <3>0, <3>1, TailInOrder, RemoveFacts, SortedTail
    <3>4. t \notin Range(Tail(old))
      BY <3>2, <3>3
    <3>5. /\ InOrder(Tail(old), SortedInsert(Tail(old), t))
          /\ Range(SortedInsert(Tail(old), t)) = Range(Tail(old)) \cup {t}
      BY Zenon, <3>3, <3>4, InsertInOrder, SortedInsertFacts
    <3>6. InOrder(old, SortedInsert(Tail(old), t))
      BY <3>2, <3>3, <3>5, InOrderTwice
    <3> QED
      BY <3>0, <3>1, <3>6
  <2>6. CASE \E u \in Thread : Fork(u)
    <3>1. PICK u \in Thread : status[u] = "JUST_CREATED" /\ ReadyToRun(u)
      BY <2>6 DEF Fork
    <3>2. u \notin Range(readyList)
      BY <1>w, <3>1 DEF Placed
    <3> QED
      BY <3>1, <3>2, <1>n
  <2>7. CASE Finish(t)
    BY <2>7, <1>s DEF Finish
  <2> HIDE DEF Goal
  <2> QED
    BY <1>1, <1>t, <2>1, <2>2, <2>3, <2>4, <2>5, <2>6, <2>7 DEF Routine
<1>2. CASE \E s \in Semaphore \ Lock : V(s)
  BY <1>2, <1>v DEF V
<1>3. CASE Dispatch
  BY <1>3, <1>d DEF Dispatch, Run
<1>4. CASE UNCHANGED <<schedVars, synchVars>>
  BY <1>4, <1>u DEF schedVars
<1> QED
  BY <1>1, <1>2, <1>3, <1>4 DEF SynchStep

-----------------------------------------------------------------------------
(* No lost wake-up.  A step may leave a semaphore with an empty queue or   *)
(* the value 0; or it keeps the value and the woken threads; or it adds to *)
(* both; or it takes one from both.                                        *)

StillServed(s) ==
  \/ queue'[s] = <<>>
  \/ value'[s] = 0
  \/ /\ queue[s] # <<>> /\ value'[s] = value[s]
     /\ Woken(s) \subseteq Woken(s)'
  \/ /\ queue[s] # <<>> /\ value'[s] = value[s] + 1
     /\ \E u \in Thread \ Woken(s) : Woken(s) \cup {u} \subseteq Woken(s)'
  \/ /\ queue[s] # <<>> /\ value'[s] = value[s] - 1
     /\ \E u \in Thread : Woken(s) \ {u} \subseteq Woken(s)'

LEMMA ServedCount ==
  ASSUME SynchTypeOK, SynchTypeOK', NEW s \in Semaphore, StillServed(s),
         queue[s] # <<>> => value[s] <= Cardinality(Woken(s)), queue'[s] # <<>>
  PROVE  value'[s] <= Cardinality(Woken(s)')
<1> DEFINE A == Woken(s)
           B == Woken(s)'
<1>1. A \subseteq Thread /\ B \subseteq Thread /\ IsFiniteSet(Thread)
  BY ThreadAssumption DEF Woken
<1>2. value[s] \in Nat /\ value'[s] \in Nat
  BY DEF SynchTypeOK
<1> HIDE DEF A, B
<1>3. IsFiniteSet(A) /\ IsFiniteSet(B) /\ Cardinality(A) \in Nat /\ Cardinality(B) \in Nat
  BY <1>1, FS_Subset, FS_CardinalityType
<1>4. CASE value'[s] = 0
  BY <1>3, <1>4 DEF B
<1>5. CASE queue[s] # <<>> /\ value'[s] = value[s] /\ A \subseteq B
  <2>1. Cardinality(A) <= Cardinality(B)
    BY <1>3, <1>5, FS_Subset
  <2> QED
    BY <1>2, <1>3, <1>5, <2>1 DEF A, B
<1>6. CASE /\ queue[s] # <<>> /\ value'[s] = value[s] + 1
           /\ \E u \in Thread \ A : A \cup {u} \subseteq B
  <2>1. PICK u \in Thread \ A : A \cup {u} \subseteq B
    BY <1>6
  <2>2. Cardinality(A \cup {u}) = Cardinality(A) + 1
    BY <1>3, <2>1, FS_AddElement
  <2>3. Cardinality(A \cup {u}) <= Cardinality(B)
    BY <1>3, <2>1, FS_Subset
  <2> QED
    BY <1>2, <1>3, <1>6, <2>2, <2>3 DEF A, B
<1>7. CASE /\ queue[s] # <<>> /\ value'[s] = value[s] - 1
           /\ \E u \in Thread : A \ {u} \subseteq B
  <2>1. PICK u \in Thread : A \ {u} \subseteq B
    BY <1>7
  <2>2. Cardinality(A \ {u}) >= Cardinality(A) - 1 /\ Cardinality(A \ {u}) \in Nat
    BY <1>3, FS_RemoveElement, FS_CardinalityType
  <2>3. Cardinality(A \ {u}) <= Cardinality(B)
    BY <1>3, <2>1, FS_Subset
  <2> QED
    BY <1>2, <1>3, <1>7, <2>2, <2>3 DEF A, B
<1> QED
  BY <1>4, <1>5, <1>6, <1>7 DEF StillServed, A, B

\* Sleep() blocks its caller and nobody else.
LEMMA SleepStatus ==
  ASSUME NEW t \in Thread, NEW ready \in Seq(Thread), NEW stat \in [Thread -> Status],
         NEW dead, SleepWith(t, ready, stat, dead)
  PROVE  \A x \in Thread \ {t} : stat[x] # "BLOCKED" => status'[x] # "BLOCKED"
<1>1. CASE ready = <<>>
  BY <1>1 DEF SleepWith, Status
<1>2. CASE ready # <<>>
  <2>1. Head(ready) \in Thread
    BY <1>2, RemoveFacts
  <2> QED
    BY <1>2, <2>1 DEF SleepWith, Run, Status
<1> QED
  BY <1>1, <1>2

\* P(), called or resumed: one woken thread takes one unit.
LEMMA ServedP ==
  ASSUME SynchTypeOK, NEW t \in Thread, NEW p \in Semaphore, Running(t), inP[t] \in {NULL, p},
         SemaphoreP(t, p), NEW s \in Semaphore
  PROVE  StillServed(s)
<1>1. /\ value \in [Semaphore -> Nat] /\ queue \in [Semaphore -> Seq(Thread)]
      /\ inP \in [Thread -> Semaphore \cup {NULL}] /\ NULL \notin Semaphore
      /\ readyList \in Seq(Thread) /\ status \in [Thread -> Status]
  BY SemaphoreAssumption DEF SynchTypeOK, SchedTypeOK
<1>2. \A x \in Woken(s) : x \in Thread /\ inP[x] = s /\ status[x] # "BLOCKED"
  BY DEF Woken
<1>3. CASE value[p] > 0
  <2>1. /\ value' = [value EXCEPT ![p] = @ - 1] /\ inP' = [inP EXCEPT ![t] = NULL]
        /\ queue' = queue /\ status' = status
    BY <1>3 DEF SemaphoreP, schedVars
  <2>2. Woken(s) \ {t} \subseteq Woken(s)'
    BY <1>1, <1>2, <2>1 DEF Woken
  <2>3. CASE s = p
    BY <1>1, <2>1, <2>2, <2>3 DEF StillServed
  <2>4. CASE s # p
    <3>1. t \notin Woken(s)
      BY <1>1, <1>2, <2>4
    <3> QED
      BY <1>1, <2>1, <2>2, <2>4, <3>1 DEF StillServed
  <2> QED
    BY <2>3, <2>4
<1>4. CASE value[p] = 0
  <2>1. /\ value' = value /\ queue' = [queue EXCEPT ![p] = Append(@, t)]
        /\ inP' = [inP EXCEPT ![t] = p] /\ SleepWith(t, readyList, status, carcass)
    BY <1>4 DEF SemaphoreP, Sleep
  <2>2. CASE s = p
    BY <1>4, <2>1, <2>2 DEF StillServed
  <2>3. CASE s # p
    <3>1. t \notin Woken(s)
      BY <1>1, <1>2, <2>3
    <3>2. Woken(s) \subseteq Woken(s)'
      BY <1>1, <1>2, <2>1, <3>1, SleepStatus DEF Woken
    <3> QED
      BY <1>1, <2>1, <2>3, <3>2 DEF StillServed
  <2> QED
    BY <2>2, <2>3
<1> QED
  BY <1>1, <1>3, <1>4

\* V(): a thread that it wakes counts for the unit that it adds.  The
\* statuses are those after the Sleep() of t, if there is one.
LEMMA ServedV ==
  ASSUME SynchTypeOK, Where, NEW v \in Semaphore, SemaphoreV(v), NEW s \in Semaphore,
         \A x \in Thread : StatusAfterV(v)[x] # "BLOCKED" /\ inP[x] # NULL => status'[x] # "BLOCKED",
         \A x \in Thread : inP[x] # NULL => inP'[x] = inP[x]
  PROVE  StillServed(s)
<1>1. /\ value \in [Semaphore -> Nat] /\ queue \in [Semaphore -> Seq(Thread)]
      /\ inP \in [Thread -> Semaphore \cup {NULL}] /\ NULL \notin Semaphore
      /\ status \in [Thread -> Status]
  BY SemaphoreAssumption DEF SynchTypeOK, SchedTypeOK
<1>2. \A x \in Woken(s) : x \in Thread /\ inP[x] = s /\ status[x] # "BLOCKED"
  BY DEF Woken
<1>3. value' = [value EXCEPT ![v] = @ + 1]
  BY DEF SemaphoreV
<1>4. CASE queue[v] = <<>>
  <2>1. queue' = queue /\ StatusAfterV(v) = status
    BY <1>1, <1>4 DEF SemaphoreV, StatusAfterV
  <2>2. Woken(s) \subseteq Woken(s)'
    BY <1>1, <1>2, <2>1 DEF Woken
  <2> QED
    BY <1>1, <1>3, <1>4, <2>1, <2>2 DEF StillServed
<1>5. CASE queue[v] # <<>>
  <2> DEFINE u == Head(queue[v])
  <2>1. queue' = [queue EXCEPT ![v] = Tail(@)] /\ StatusAfterV(v) = [status EXCEPT ![u] = "READY"]
    BY <1>5 DEF SemaphoreV, StatusAfterV
  <2>2. u \in Thread /\ u \in QueueSets[v]
    BY <1>1, <1>5, RemoveFacts DEF QueueSets, Sets
  <2>3. inP[u] = v /\ status[u] = "BLOCKED"
    BY <2>2 DEF Where, Placed, Sleepers
  <2> HIDE DEF u
  <2>4. Woken(s) \subseteq Woken(s)'
    BY <1>1, <1>2, <2>1, <2>2 DEF Woken
  <2>5. CASE s = v
    <3>1. u \in Woken(s)' /\ u \notin Woken(s)
      BY <1>1, <2>1, <2>2, <2>3, <2>5 DEF Woken
    <3> QED
      BY <1>1, <1>3, <1>5, <2>2, <2>4, <2>5, <3>1 DEF StillServed
  <2>6. CASE s # v
    BY <1>1, <1>3, <2>1, <2>4, <2>6 DEF StillServed
  <2> QED
    BY <2>5, <2>6
<1> QED
  BY <1>4, <1>5

\* A step that leaves the semaphores alone wakes or runs threads at most; a
\* thread that it blocks waits for no semaphore.
LEMMA ServedElse ==
  ASSUME SynchTypeOK, NEW s \in Semaphore, UNCHANGED semVars,
         \A x \in Thread : status[x] # "BLOCKED" /\ inP[x] # NULL => status'[x] # "BLOCKED"
  PROVE  StillServed(s)
<1>1. s # NULL
  BY SemaphoreAssumption
<1>2. Woken(s) \subseteq Woken(s)'
  BY <1>1 DEF Woken, semVars
<1> QED
  BY <1>2 DEF StillServed, semVars

LEMMA StepServed ==
  ASSUME SynchTypeOK, Where, SynchStep, NEW s \in Semaphore
  PROVE  StillServed(s)
<1>t. /\ inP \in [Thread -> Semaphore \cup {NULL}] /\ readyList \in Seq(Thread)
      /\ status \in [Thread -> Status] /\ Lock \subseteq Semaphore
  BY SemaphoreAssumption DEF SynchTypeOK, SchedTypeOK
<1>v. ASSUME NEW v \in Semaphore, SemaphoreV(v), status' = StatusAfterV(v), inP' = inP
      PROVE  StillServed(s)
  BY <1>v, ServedV
<1>n. ASSUME NEW u \in Thread, ReadyToRun(u), UNCHANGED semVars
      PROVE  StillServed(s)
  BY <1>t, <1>n, ServedElse DEF ReadyToRun, Status
<1>1. ASSUME NEW t \in Thread, Running(t), Routine(t)
      PROVE  StillServed(s)
  <2>1. CASE \E p \in Semaphore : inP[t] \in {NULL, p} /\ (P(t, p) \/ Acquire(t, p))
    BY <1>1, <2>1, ServedP DEF P, Acquire
  <2>2. CASE \E l \in Lock : Release(t, l)
    BY <1>t, <2>2, <1>v DEF Release
  <2>3. CASE inP[t] = NULL /\ \E c \in Condition, l \in Lock : Wait(t, c, l)
    <3>1. PICK c \in Condition, l \in Lock : Wait(t, c, l)
      BY <2>3
    <3>2. /\ SemaphoreV(l) /\ l \in Semaphore
          /\ inP' = [inP EXCEPT ![t] = l]
          /\ SleepWith(t, ReadyAfterV(l), StatusAfterV(l), carcass)
      BY <1>t, <3>1 DEF Wait
    <3>3. ReadyAfterV(l) \in Seq(Thread) /\ StatusAfterV(l) \in [Thread -> Status]
      BY <3>2, AfterVType
    <3>4. \A x \in Thread \ {t} : StatusAfterV(l)[x] # "BLOCKED" => status'[x] # "BLOCKED"
      BY <3>2, <3>3, SleepStatus
    <3> QED
      BY <1>t, <2>3, <3>2, <3>4, ServedV
  <2>4. CASE \E c \in Condition, l \in Lock : Signal(t, c, l) \/ Broadcast(t, c, l)
    <3>1. PICK c \in Condition, l \in Lock : Signal(t, c, l) \/ Broadcast(t, c, l)
      BY <2>4
    <3>2. CASE condQueue[c] = <<>>
      BY <3>1, <3>2, ServedElse DEF Signal, Broadcast, schedVars
    <3>3. CASE condQueue[c] # <<>>
      <4>1. Head(condQueue[c]) \in Thread
        BY <3>3, RemoveFacts DEF SynchTypeOK
      <4> QED
        BY <3>1, <3>3, <4>1, <1>n DEF Signal, Broadcast
    <3> QED
      BY <3>2, <3>3
  <2>5. CASE Yield(t) /\ UNCHANGED synchVars
    <3>1. Head(readyList) \in Thread
      BY <1>t, <2>5, RemoveFacts DEF Yield
    <3>2. \A x \in Thread : status[x] # "BLOCKED" => status'[x] # "BLOCKED"
      BY <1>t, <2>5, <3>1 DEF Yield, Run, Status
    <3> QED
      BY <2>5, <3>2, ServedElse DEF synchVars, semVars
  <2>6. CASE (\E u \in Thread : Fork(u)) /\ UNCHANGED synchVars
    BY <2>6, <1>n DEF Fork, synchVars, semVars
  <2>7. CASE inP[t] = NULL /\ Finish(t) /\ UNCHANGED synchVars
    <3>1. \A x \in Thread \ {t} : status[x] # "BLOCKED" => status'[x] # "BLOCKED"
      BY <1>t, <2>7, SleepStatus DEF Finish
    <3> QED
      BY <2>7, <3>1, ServedElse DEF synchVars, semVars
  <2> QED
    BY <1>1, <1>t, <2>1, <2>2, <2>3, <2>4, <2>5, <2>6, <2>7 DEF Routine
<1>2. CASE \E d \in Semaphore \ Lock : V(d)
  BY <1>2, <1>v DEF V
<1>3. CASE Dispatch /\ UNCHANGED synchVars
  <2>1. Head(readyList) \in Thread
    BY <1>t, <1>3, RemoveFacts DEF Dispatch
  <2>2. \A x \in Thread : status[x] # "BLOCKED" => status'[x] # "BLOCKED"
    BY <1>t, <1>3, <2>1 DEF Dispatch, Run, Status
  <2> QED
    BY <1>3, <2>2, ServedElse DEF synchVars, semVars
<1>4. CASE UNCHANGED <<schedVars, synchVars>>
  BY <1>4, ServedElse DEF schedVars, synchVars, semVars
<1> QED
  BY <1>1, <1>2, <1>3, <1>4 DEF SynchStep

\* While threads queue for a semaphore of positive value, enough others are
\* on their way to take it: a V() that finds the value positive already must
\* still wake a waiter, as synch.cc:100-101 does.
LEMMA StepNoLostWakeup ==
  ASSUME SynchTypeOK, Where, NoLostWakeup, SynchStep
  PROVE  NoLostWakeup'
<1>1. SynchTypeOK'
  BY StepType
<1>2. SUFFICES ASSUME NEW s \in Semaphore, queue'[s] # <<>>
               PROVE  value'[s] <= Cardinality(Woken(s)')
  BY DEF NoLostWakeup
<1> QED
  BY <1>1, <1>2, StepServed, ServedCount DEF NoLostWakeup
\* Once a thread is forked, it is never JUST_CREATED again.
LEMMA SleepCreated ==
  ASSUME NEW t \in Thread, NEW ready \in Seq(Thread), NEW stat \in [Thread -> Status],
         NEW dead, SleepWith(t, ready, stat, dead)
  PROVE  \A x \in Thread : status'[x] = "JUST_CREATED" => stat[x] = "JUST_CREATED"
<1>1. CASE ready = <<>>
  BY <1>1 DEF SleepWith
<1>2. CASE ready # <<>>
  <2>1. status' = [[stat EXCEPT ![t] = "BLOCKED"] EXCEPT ![Head(ready)] = "RUNNING"]
    BY <1>2 DEF SleepWith, Run
  <2> QED
    BY <2>1
<1> QED
  BY <1>1, <1>2

LEMMA StepCreated ==
  ASSUME SynchTypeOK, SynchStep
  PROVE  \A x \in Thread : status'[x] = "JUST_CREATED" => status[x] = "JUST_CREATED"
<1>t. /\ readyList \in Seq(Thread) /\ status \in [Thread -> Status]
      /\ queue \in [Semaphore -> Seq(Thread)] /\ Lock \subseteq Semaphore
      /\ carcass \in Thread \cup {NULL}
  BY SemaphoreAssumption DEF SynchTypeOK, SchedTypeOK
<1> DEFINE Fewer(stat) == \A x \in Thread : stat[x] = "JUST_CREATED" => status[x] = "JUST_CREATED"
<1>a. ASSUME NEW s \in Semaphore
      PROVE  /\ ReadyAfterV(s) \in Seq(Thread) /\ StatusAfterV(s) \in [Thread -> Status]
             /\ Fewer(StatusAfterV(s))
  <2>1. Fewer(StatusAfterV(s))
    BY <1>t DEF StatusAfterV
  <2> QED
    BY <2>1, AfterVType
<1>s. ASSUME NEW t \in Thread, NEW s \in Semaphore, SemaphoreP(t, s)
      PROVE  Fewer(status')
  BY <1>s, <1>t, SleepCreated DEF SemaphoreP, Sleep, schedVars
<1>r. ASSUME NEW u, ReadyToRun(u)
      PROVE  Fewer(status')
  BY <1>r, <1>t DEF ReadyToRun
<1>1. ASSUME NEW t \in Thread, Routine(t)
      PROVE  Fewer(status')
  <2>1. CASE (\E s \in Semaphore : P(t, s)) \/ (\E l \in Lock : Acquire(t, l))
    BY <1>s, <1>t, <2>1 DEF P, Acquire
  <2>2. CASE \E l \in Lock : Release(t, l)
    BY <1>a, <1>t, <2>2 DEF Release
  <2>3. CASE \E c \in Condition, l \in Lock : Wait(t, c, l)
    <3>1. PICK l \in Lock : SleepWith(t, ReadyAfterV(l), StatusAfterV(l), carcass)
      BY <2>3 DEF Wait
    <3>2. l \in Semaphore
      BY <1>t
    <3>3. /\ ReadyAfterV(l) \in Seq(Thread) /\ StatusAfterV(l) \in [Thread -> Status]
          /\ Fewer(StatusAfterV(l))
      BY <1>a, <3>2
    <3>4. \A x \in Thread : status'[x] = "JUST_CREATED" => StatusAfterV(l)[x] = "JUST_CREATED"
      BY <3>1, <3>3, SleepCreated
    <3> QED
      BY <3>3, <3>4
  <2>4. CASE \E c \in Condition, l \in Lock : Signal(t, c, l) \/ Broadcast(t, c, l)
    BY <1>r, <2>4 DEF Signal, Broadcast, schedVars
  <2>5. CASE Yield(t)
    <3>1. status' = [[status EXCEPT ![t] = "READY"] EXCEPT ![Head(readyList)] = "RUNNING"]
      BY <2>5 DEF Yield, Run
    <3> QED
      BY <1>t, <3>1
  <2>6. CASE \E u \in Thread : Fork(u)
    BY <1>r, <2>6 DEF Fork
  <2>7. CASE Finish(t)
    BY <1>t, <2>7, SleepCreated DEF Finish
  <2> QED
    BY <1>1, <2>1, <2>2, <2>3, <2>4, <2>5, <2>6, <2>7 DEF Routine
<1>2. CASE \E s \in Semaphore : V(s)
  BY <1>a, <1>2 DEF V
<1>3. CASE Dispatch
  BY <1>3, <1>t DEF Dispatch, Run
<1>4. CASE UNCHANGED schedVars
  BY <1>4 DEF schedVars
<1> QED
  BY <1>1, <1>2, <1>3, <1>4 DEF SynchStep

(***************************************************************************)
(* What each kernel call of a program does to its threads: the label, the  *)
(* semaphore it sleeps in, the owner of the lock and the threads that wait *)
(* on conditions.  The proofs about the programs start from these facts.   *)
(***************************************************************************)

\* Everything about a thread and the semaphores that are not locks stays.
Still ==
  /\ pc' = pc /\ inP' = inP /\ owner' = owner /\ WaitSet' = WaitSet /\ finished' = finished
  /\ broadcasting' = broadcasting
  /\ \A s \in Semaphore \ Lock : value'[s] = value[s]

\* Acquire(), at once or with a Sleep() first.
Acquires(t, l, from, to) ==
  /\ pc[t] = from /\ status[t] = "RUNNING"
  /\ WaitSet' = WaitSet /\ finished' = finished /\ broadcasting' = broadcasting
  /\ \A s \in Semaphore \ Lock : value'[s] = value[s]
  /\ \/ /\ owner[l] = NULL /\ owner' = [owner EXCEPT ![l] = t]
        /\ Goto(t, to) /\ inP' = [inP EXCEPT ![t] = NULL]
     \/ /\ owner' = owner
        /\ pc' = pc /\ inP' = [inP EXCEPT ![t] = l]

LEMMA CallAcquireFacts ==
  ASSUME SynchTypeOK, LockInv, NEW t \in Thread, NEW l \in Lock, NEW from, NEW to,
         CallAcquire(t, l, from, to)
  PROVE  Acquires(t, l, from, to)
<1>1. /\ value \in [Semaphore -> Nat] /\ owner \in [Lock -> Thread \cup {NULL}]
      /\ l \in Semaphore
  BY SemaphoreAssumption DEF SynchTypeOK
<1>2. /\ pc[t] = from /\ status[t] = "RUNNING" /\ SemaphoreP(t, l)
      /\ WaitSet' = WaitSet /\ finished' = finished /\ broadcasting' = broadcasting
      /\ owner' = IF value[l] > 0 THEN [owner EXCEPT ![l] = t] ELSE owner
      /\ pc' = IF value[l] > 0 THEN [pc EXCEPT ![t] = to] ELSE pc
  BY DEF CallAcquire, Acquire, Running, condVars, WaitSet, SemaphoreP, Sleep, schedVars
<1>3. \A s \in Semaphore \ Lock : value'[s] = value[s]
  BY <1>1, <1>2 DEF SemaphoreP
<1>4. CASE value[l] > 0
  <2>1. owner[l] = NULL
    BY <1>4 DEF LockInv
  <2>2. inP' = [inP EXCEPT ![t] = NULL]
    BY <1>1, <1>2, <1>4 DEF SemaphoreP
  <2> QED
    BY <1>2, <1>3, <1>4, <2>1, <2>2 DEF Acquires, Goto
<1>5. CASE ~(value[l] > 0)
  <2>1. inP' = [inP EXCEPT ![t] = l]
    BY <1>1, <1>2, <1>5 DEF SemaphoreP
  <2> QED
    BY <1>2, <1>3, <1>5, <2>1 DEF Acquires
<1> QED
  BY <1>4, <1>5

Releases(t, l, from, to) ==
  /\ pc[t] = from /\ status[t] = "RUNNING" /\ inP[t] = NULL
  /\ owner[l] = t /\ owner' = [owner EXCEPT ![l] = NULL]
  /\ Goto(t, to) /\ inP' = inP
  /\ WaitSet' = WaitSet /\ finished' = finished /\ broadcasting' = broadcasting
  /\ \A s \in Semaphore \ Lock : value'[s] = value[s]

LEMMA CallReleaseFacts ==
  ASSUME SynchTypeOK, NEW t \in Thread, NEW l \in Lock, NEW from, NEW to,
         CallRelease(t, l, from, to)
  PROVE  Releases(t, l, from, to)
<1>1. value \in [Semaphore -> Nat]
  BY DEF SynchTypeOK
<1>2. \A s \in Semaphore \ Lock : value'[s] = value[s]
  BY <1>1 DEF CallRelease, Release, SemaphoreV
<1> QED
  BY <1>2 DEF CallRelease, AtUserCode, Running, Release, condVars, WaitSet, Releases

\* P() of a semaphore that is no lock.
Downs(t, s, from, to) ==
  /\ pc[t] = from /\ status[t] = "RUNNING"
  /\ WaitSet' = WaitSet /\ finished' = finished /\ owner' = owner
  /\ broadcasting' = broadcasting
  /\ \A x \in Semaphore \ {s} : value'[x] = value[x]
  /\ \/ /\ value[s] > 0 /\ value'[s] = value[s] - 1
        /\ Goto(t, to) /\ inP' = [inP EXCEPT ![t] = NULL]
     \/ /\ value[s] = 0 /\ value'[s] = 0
        /\ pc' = pc /\ inP' = [inP EXCEPT ![t] = s]

LEMMA CallPFacts ==
  ASSUME SynchTypeOK, NEW t \in Thread, NEW s \in Semaphore, NEW from, NEW to,
         CallP(t, s, from, to)
  PROVE  Downs(t, s, from, to)
<1>1. value \in [Semaphore -> Nat]
  BY DEF SynchTypeOK
<1>2. /\ pc[t] = from /\ status[t] = "RUNNING" /\ SemaphoreP(t, s)
      /\ WaitSet' = WaitSet /\ finished' = finished /\ owner' = owner
      /\ broadcasting' = broadcasting
      /\ pc' = IF value[s] > 0 THEN [pc EXCEPT ![t] = to] ELSE pc
  BY DEF CallP, P, Running, condVars, WaitSet, SemaphoreP, Sleep, schedVars
<1> QED
  BY <1>1, <1>2 DEF Downs, SemaphoreP, Goto

\* V() by an interrupt handler.
LEMMA VFacts ==
  ASSUME SynchTypeOK, NEW s \in Semaphore, V(s)
  PROVE  /\ inP' = inP /\ owner' = owner /\ WaitSet' = WaitSet /\ finished' = finished
         /\ broadcasting' = broadcasting
         /\ value'[s] = value[s] + 1
         /\ \A x \in Semaphore \ {s} : value'[x] = value[x]
BY DEF V, SemaphoreV, condVars, WaitSet, SynchTypeOK

Signals(t, c, l, from, to) ==
  /\ pc[t] = from /\ status[t] = "RUNNING" /\ inP[t] = NULL
  /\ owner[l] = t /\ owner' = owner
  /\ Goto(t, to) /\ inP' = inP /\ finished' = finished /\ value' = value
  /\ broadcasting' = broadcasting
  /\ \/ WaitSet[c] = {} /\ WaitSet' = WaitSet
     \/ \E u \in WaitSet[c] : WaitSet' = [WaitSet EXCEPT ![c] = @ \ {u}]

LEMMA CallSignalFacts ==
  ASSUME SynchTypeOK, Where, NEW t \in Thread, NEW c \in Condition, NEW l \in Lock,
         NEW from, NEW to, CallSignal(t, c, l, from, to)
  PROVE  Signals(t, c, l, from, to)
<1>1. condQueue \in [Condition -> Seq(Thread)]
  BY DEF SynchTypeOK
<1>2. /\ pc[t] = from /\ status[t] = "RUNNING" /\ inP[t] = NULL
      /\ owner[l] = t /\ owner' = owner
      /\ Goto(t, to) /\ inP' = inP /\ finished' = finished /\ value' = value
      /\ broadcasting' = broadcasting
  BY DEF CallSignal, AtUserCode, Running, Signal, semVars, schedVars, ReadyToRun
<1>3. CASE condQueue[c] = <<>>
  <2>1. WaitSet[c] = {}
    BY <1>1, <1>3, EmptyRange DEF WaitSet
  <2>2. WaitSet' = WaitSet
    BY <1>3 DEF CallSignal, Signal, WaitSet
  <2> QED
    BY <1>2, <2>1, <2>2 DEF Signals
<1>4. CASE condQueue[c] # <<>>
  <2>1. /\ condQueue' = [condQueue EXCEPT ![c] = Tail(@)]
        /\ ReadyToRun(Head(condQueue[c])) /\ UNCHANGED <<queue, inP, condLock>>
    BY <1>4 DEF CallSignal, Signal, semVars
  <2> DEFINE u == Head(condQueue[c])
  <2>2. u \in WaitSet[c] /\ WaitSet' = [WaitSet EXCEPT ![c] = @ \ {u}]
    BY <1>4, <2>1, NotifyWhere
  <2> HIDE DEF u
  <2> QED
    BY <1>2, <2>2 DEF Signals
<1> QED
  BY <1>3, <1>4

\* Wait() up to its Sleep().
Waits(t, c, l, from) ==
  /\ pc[t] = from /\ status[t] = "RUNNING" /\ inP[t] = NULL /\ inP' = [inP EXCEPT ![t] = l]
  /\ owner[l] = t /\ owner' = [owner EXCEPT ![l] = NULL]
  /\ pc' = pc /\ finished' = finished /\ broadcasting' = broadcasting
  /\ WaitSet' = [WaitSet EXCEPT ![c] = @ \cup {t}]
  /\ \A s \in Semaphore \ Lock : value'[s] = value[s]

LEMMA CallWaitFacts ==
  ASSUME SynchTypeOK, Where, LockInv, NEW t \in Thread, NEW c \in Condition, NEW l \in Lock,
         NEW from, NEW to, CallWait(t, c, l, from, to)
  PROVE  \/ inP[t] = NULL /\ Waits(t, c, l, from)
         \/ inP[t] # NULL /\ Acquires(t, l, from, to)
<1>1. CASE inP[t] = NULL
  <2>1. Running(t) /\ pc[t] = from /\ Wait(t, c, l) /\ pc' = pc
    BY <1>1 DEF CallWait
  <2>2. WaitSet' = [WaitSet EXCEPT ![c] = @ \cup {t}]
    BY <2>1, WaitWhere
  <2>3. \A s \in Semaphore \ Lock : value'[s] = value[s]
    BY <2>1 DEF Wait, SemaphoreV, SynchTypeOK
  <2> QED
    BY <1>1, <2>1, <2>2, <2>3 DEF Waits, Wait, Running
<1>2. CASE inP[t] # NULL
  <2>1. CallAcquire(t, l, from, to)
    BY <1>2 DEF CallWait, CallAcquire
  <2> QED
    BY <1>2, <2>1, CallAcquireFacts
<1> QED
  BY <1>1, <1>2

\* Finish() of a thread at its label from.
Ends(t, from) ==
  /\ pc[t] = from /\ status[t] = "RUNNING" /\ inP[t] = NULL
  /\ Goto(t, "done") /\ finished' = finished \cup {t}
  /\ inP' = inP /\ owner' = owner /\ WaitSet' = WaitSet /\ value' = value
  /\ broadcasting' = broadcasting

LEMMA CallFinishFacts ==
  ASSUME NEW t \in Thread, NEW from, CallFinish(t, from)
  PROVE  Ends(t, from)
BY DEF CallFinish, AtUserCode, Running, Finish, synchVars, WaitSet, Ends

\* V() by an interrupt handler, seen from the program.
Raises(s) ==
  /\ pc' = pc /\ inP' = inP /\ owner' = owner /\ WaitSet' = WaitSet /\ finished' = finished
  /\ broadcasting' = broadcasting
  /\ value'[s] = value[s] + 1 /\ \A x \in Semaphore \ {s} : value'[x] = value[x]

\* Yield(), or a step of the thread's own.
Passes(t, from, to) ==
  /\ pc[t] = from /\ status[t] = "RUNNING" /\ inP[t] = NULL
  /\ Goto(t, to) /\ finished' = finished
  /\ inP' = inP /\ owner' = owner /\ WaitSet' = WaitSet /\ value' = value
  /\ broadcasting' = broadcasting

LEMMA CallYieldFacts ==
  ASSUME NEW t \in Thread, NEW from, NEW to, CallYield(t, from, to)
  PROVE  Passes(t, from, to)
BY DEF CallYield, AtUserCode, Running, Yield, schedVars, synchVars, WaitSet, Passes

\* One iteration of Broadcast(): the last one, or one that leaves waiters.
Broadcasts(t, c, l, from, to) ==
  /\ pc[t] = from /\ status[t] = "RUNNING" /\ inP[t] = NULL
  /\ owner[l] = t /\ owner' = owner
  /\ inP' = inP /\ finished' = finished /\ value' = value /\ status'[t] = "RUNNING"
  /\ \/ /\ Goto(t, to) /\ WaitSet' = [WaitSet EXCEPT ![c] = {}]
        /\ broadcasting' = NULL \/ (broadcasting' = broadcasting /\ WaitSet[c] = {})
     \/ /\ pc' = pc /\ broadcasting' = c
        /\ WaitSet'[c] # {} /\ \A d \in Condition : WaitSet'[d] \subseteq WaitSet[d]

LEMMA CallBroadcastFacts ==
  ASSUME SynchTypeOK, Where, NEW t \in Thread, NEW c \in Condition, NEW l \in Lock,
         NEW from, NEW to, CallBroadcast(t, c, l, from, to)
  PROVE  Broadcasts(t, c, l, from, to)
<1>1. /\ condQueue \in [Condition -> Seq(Thread)] /\ status \in [Thread -> Status]
      /\ WaitSet = [d \in Condition |-> Range(condQueue[d])]
  BY DEF SynchTypeOK, SchedTypeOK, WaitSet
<1>2. /\ pc[t] = from /\ status[t] = "RUNNING" /\ inP[t] = NULL
      /\ owner[l] = t /\ owner' = owner
      /\ inP' = inP /\ finished' = finished /\ value' = value
      /\ pc' = IF Len(condQueue[c]) > 1 THEN pc ELSE [pc EXCEPT ![t] = to]
  BY DEF CallBroadcast, Running, Broadcast, semVars, schedVars, ReadyToRun
<1>3. CASE condQueue[c] = <<>>
  <2>1. WaitSet[c] = {} /\ ~(Len(condQueue[c]) > 1)
    BY <1>1, <1>3, EmptyRange
  <2>2. WaitSet' = WaitSet /\ broadcasting' = broadcasting /\ status' = status
    BY <1>3 DEF CallBroadcast, Broadcast, schedVars, WaitSet
  <2> QED
    BY <1>1, <1>2, <2>1, <2>2 DEF Broadcasts, Goto
<1>4. CASE condQueue[c] # <<>>
  <2>1. /\ condQueue' = [condQueue EXCEPT ![c] = Tail(@)]
        /\ broadcasting' = IF Len(condQueue[c]) > 1 THEN c ELSE NULL
        /\ ReadyToRun(Head(condQueue[c])) /\ UNCHANGED <<queue, inP, condLock>>
    BY <1>4 DEF CallBroadcast, Broadcast, semVars
  <2> DEFINE u == Head(condQueue[c])
  <2>2. u \in WaitSet[c] /\ WaitSet' = [WaitSet EXCEPT ![c] = @ \ {u}]
    BY <1>4, <2>1, NotifyWhere
  <2>3. status'[t] = "RUNNING"
    BY <1>1, <1>2, <2>1, <2>2 DEF Where, Placed, ReadyToRun
  <2>4. /\ Tail(condQueue[c]) \in Seq(Thread) /\ WaitSet'[c] = Range(Tail(condQueue[c]))
        /\ Len(Tail(condQueue[c])) = Len(condQueue[c]) - 1 /\ Len(condQueue[c]) \in Nat
    BY <1>1, <1>4, <2>1 DEF WaitSet
  <2>5. WaitSet'[c] = {} <=> ~(Len(condQueue[c]) > 1)
    <3>1. Tail(condQueue[c]) = <<>> <=> Len(Tail(condQueue[c])) = 0
      BY <2>4, EmptySeq
    <3>2. Tail(condQueue[c]) = <<>> <=> Range(Tail(condQueue[c])) = {}
      BY <2>4, EmptyRange
    <3>3. Len(condQueue[c]) # 0
      BY <1>1, <1>4, EmptySeq
    <3> DEFINE n == Len(condQueue[c])
               m == Len(Tail(condQueue[c]))
    <3>4. WaitSet'[c] = {} <=> m = 0
      BY <2>4, <3>1, <3>2
    <3>5. n \in Nat /\ m = n - 1 /\ n # 0
      BY <2>4, <3>3
    <3> HIDE DEF n, m
    <3>6. WaitSet'[c] = {} <=> ~(n > 1)
      BY <3>4, <3>5
    <3> QED
      BY <3>6 DEF n
  <2> HIDE DEF u
  <2>6. CASE Len(condQueue[c]) > 1
    BY <1>1, <1>2, <2>1, <2>2, <2>3, <2>5, <2>6 DEF Broadcasts
  <2>7. CASE ~(Len(condQueue[c]) > 1)
    <3>1. WaitSet' = [WaitSet EXCEPT ![c] = {}]
      BY <1>1, <2>2, <2>5, <2>7
    <3> QED
      BY <1>2, <2>1, <2>3, <2>7, <3>1 DEF Broadcasts, Goto
  <2> QED
    BY <2>6, <2>7
<1> QED
  BY <1>3, <1>4

\* The running thread waits on no condition.
LEMMA NotWaiting ==
  ASSUME SynchTypeOK, Where, NEW t \in Thread, status[t] = "RUNNING"
  PROVE  \A c \in Condition : t \notin WaitSet[c]
BY DEF Where, Placed

=============================================================================
