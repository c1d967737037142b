---------------------------- MODULE KernelProofs ----------------------------
(***************************************************************************)
(* Theorems of Kernel, for any number of threads, semaphores, locks and    *)
(* conditions.  Every step of Kernel is a step of SynchProofs, where what  *)
(* the routines keep true is proved.                                       *)
(***************************************************************************)
EXTENDS Kernel, SynchProofs

\* The calls of Kernel are those of SynchProofs.
LEMMA KernelStep ==
  ASSUME TypeOK, [Next]_vars
  PROVE  SynchStep
<1>1. ASSUME NEW t \in Thread, ThreadStep(t)
      PROVE  SynchStep
  <2>1. CASE \E s \in Semaphore \ Lock : ThreadV(t, s)
    BY <2>1 DEF ThreadV, SynchStep
  <2>2. CASE Resume(t)
    <3>1. inP[t] \in Semaphore
      BY <2>2 DEF Resume, TypeOK, SynchTypeOK
    <3> QED
      BY <2>2, <3>1 DEF Resume, SynchStep, Routine
  <2>3. CASE ~Resume(t) /\ ~\E s \in Semaphore \ Lock : ThreadV(t, s)
    <3>1. Running(t) /\ Routine(t)
      BY <1>1, <2>3
      DEF ThreadStep, ThreadP, ThreadAcquire, ThreadRelease, ThreadWait, ThreadSignal, ThreadBroadcast,
          ThreadYield, ThreadFork, ThreadFinish, AtUserCode, Routine
    <3> QED
      BY <3>1 DEF SynchStep
  <2> QED
    BY <2>1, <2>2, <2>3
<1>2. CASE \E s \in DeviceSemaphore : DeviceInterrupt(s)
  BY <1>2, DeviceAssumption DEF DeviceInterrupt, SynchStep
<1>3. CASE LeaveIdle \/ UNCHANGED vars
  BY <1>3 DEF LeaveIdle, vars, SynchStep
<1> QED
  BY <1>1, <1>2, <1>3 DEF Next

\* The state of the kernel is always of the declared types: in particular
\* no semaphore value goes below 0 (synch.h:51), whatever the threads do.
THEOREM KernelTypeCorrect == Spec => []TypeOK
<1>1. Init => TypeOK
  BY InitType DEF Init, TypeOK
<1>2. TypeOK /\ [Next]_vars => TypeOK'
  BY KernelStep, StepType DEF TypeOK
<1> QED
  BY <1>1, <1>2, PTL DEF Spec

\* Lock::Acquire() and Release() keep the lock's semaphore at 0 exactly
\* while the lock has an owner, so no two threads own it (synch.cc:133-156).
THEOREM KernelLockExclusion == Spec => []LockInv
<1>1. Init => LockInv
  BY SemaphoreAssumption DEF Init, SynchInit, LockInv
<1>2. TypeOK /\ LockInv /\ [Next]_vars => LockInv'
  BY KernelStep, StepLock DEF TypeOK
<1> QED
  BY <1>1, <1>2, KernelTypeCorrect, PTL DEF Spec

\* A thread leaves Acquire() or Wait() as the owner of a lock that was free.
THEOREM KernelLeavesWithLock == Spec => LeavesWithLock
<1> DEFINE Leaves == \A t \in Thread, l \in Lock :
                       inP[t] = l /\ inP'[t] # l => owner[l] = NULL /\ owner'[l] = t
<1>1. ASSUME TypeOK, LockInv, [Next]_vars
      PROVE  [Leaves]_vars
  <2> SUFFICES ASSUME NEW u \in Thread, NEW l \in Lock, inP[u] = l, inP'[u] # l
               PROVE  owner[l] = NULL /\ owner'[l] = u
    OBVIOUS
  <2>1. /\ value \in [Semaphore -> Nat] /\ owner \in [Lock -> Thread \cup {NULL}]
        /\ inP \in [Thread -> Semaphore \cup {NULL}] /\ Lock \subseteq Semaphore
        /\ NULL \notin Semaphore
    BY <1>1, SemaphoreAssumption DEF TypeOK, SynchTypeOK
  <2>2. Resume(u) /\ inP' # inP
    <3>1. \A t \in Thread, s \in Semaphore :
            SemaphoreP(t, s) => inP' = inP \/ \E x \in Semaphore \cup {NULL} :
                                                inP' = [inP EXCEPT ![t] = x]
      BY DEF SemaphoreP
    <3>2. PICK t \in Thread : ThreadStep(t)
      BY <1>1 DEF Next, DeviceInterrupt, V, LeaveIdle, vars, synchVars
    <3>3. \A s \in Semaphore : ThreadP(t, s) => t # u
      BY <2>1 DEF ThreadP, AtUserCode
    <3>4. CASE \E s \in Semaphore \ Lock : ThreadP(t, s)
      BY <2>1, <3>1, <3>3, <3>4 DEF ThreadP, P
    <3>5. CASE \E k \in Lock : ThreadAcquire(t, k)
      BY <2>1, <3>1, <3>5 DEF ThreadAcquire, Acquire, AtUserCode
    <3>6. CASE \E c \in Condition, k \in Lock : ThreadWait(t, c, k)
      BY <2>1, <3>6 DEF ThreadWait, Wait, AtUserCode
    <3>7. CASE Resume(t)
      <4>1. inP[t] \in Semaphore
        BY <2>1, <3>7 DEF Resume
      <4>2. SemaphoreP(t, inP[t])
        BY <3>7 DEF Resume, P, Acquire
      <4> QED
        BY <2>1, <3>1, <3>7, <4>1, <4>2
    <3>8. CASE inP' = inP
      BY <3>8
    <3> QED
      BY <3>2, <3>4, <3>5, <3>6, <3>7, <3>8
      DEF ThreadStep, ThreadV, V, ThreadRelease, Release, ThreadSignal, Signal, ThreadBroadcast,
          Broadcast, ThreadYield, ThreadFork, ThreadFinish, semVars, synchVars
  <2>3. Acquire(u, l)
    BY <2>2 DEF Resume
  <2>4. value[l] > 0
    BY <2>1, <2>2, <2>3 DEF Acquire, SemaphoreP
  <2> QED
    BY <1>1, <2>1, <2>3, <2>4 DEF Acquire, LockInv
<1>2. TypeOK /\ LockInv /\ [Next]_vars => [Leaves]_vars
  BY <1>1
<1>3. Spec => [][Leaves]_vars
  BY <1>2, KernelTypeCorrect, KernelLockExclusion, PTL DEF Spec
<1> QED
  BY <1>3 DEF LeavesWithLock

LEMMA WhereIsPlaceInv ==
  ASSUME TypeOK
  PROVE  PlaceInv <=> Where /\ ReadyListSorted
<1>1. /\ \A s \in Semaphore : QueueSets[s] = Range(queue[s])
      /\ \A c \in Condition : WaitSet[c] = Range(condQueue[c])
      /\ QueueSets = [s \in Semaphore |-> Range(queue[s])]
      /\ WaitSet = [c \in Condition |-> Range(condQueue[c])]
  BY DEF QueueSets, WaitSet, Sets
<1>2. /\ \A s \in Semaphore : Range(queue[s]) \subseteq Thread
      /\ \A c \in Condition : Range(condQueue[c]) \subseteq Thread
      /\ \A c \in Condition : condQueue[c] # <<>> <=> Range(condQueue[c]) # {}
      /\ status \in [Thread -> Status]
  BY RangeOfSequence, EmptyRange DEF TypeOK, SynchTypeOK, SchedTypeOK
<1>3. /\ QueueSets \in [Semaphore -> SUBSET Thread]
      /\ WaitSet \in [Condition -> SUBSET Thread]
  BY <1>1, <1>2
<1>4. Sleepers(QueueSets, WaitSet, inP, condLock) <=>
        /\ \A s \in Semaphore : \A t \in Range(queue[s]) : inP[t] = s
        /\ \A c \in Condition : \A t \in Range(condQueue[c]) : inP[t] = condLock[c]
        /\ \A c \in Condition : condQueue[c] # <<>> => condLock[c] \in Lock
  BY <1>1, <1>2 DEF Sleepers
<1>5. ASSUME PlaceInv PROVE Where /\ ReadyListSorted
  <2>1. Placed(QueueSets, WaitSet, Range(readyList), status, current, finished)
    <3> SUFFICES
          /\ \A s1, s2 \in Semaphore : s1 # s2 => QueueSets[s1] \cap QueueSets[s2] = {}
          /\ \A c1, c2 \in Condition : c1 # c2 => WaitSet[c1] \cap WaitSet[c2] = {}
          /\ \A s \in Semaphore, c \in Condition : QueueSets[s] \cap WaitSet[c] = {}
          /\ \A t \in Thread :
               /\ status[t] = "READY" <=> t \in Range(readyList)
               /\ status[t] = "BLOCKED" <=>
                    \/ t \in finished
                    \/ \E s \in Semaphore : t \in QueueSets[s]
                    \/ \E c \in Condition : t \in WaitSet[c]
               /\ status[t] = "RUNNING" => t = current
          /\ \A t \in finished :
               /\ t \notin Range(readyList)
               /\ \A s \in Semaphore : t \notin QueueSets[s]
               /\ \A c \in Condition : t \notin WaitSet[c]
      BY <1>2, <1>3 DEF Placed
    <3>1. /\ \A s1, s2 \in Semaphore : s1 # s2 => QueueSets[s1] \cap QueueSets[s2] = {}
          /\ \A c1, c2 \in Condition : c1 # c2 => WaitSet[c1] \cap WaitSet[c2] = {}
          /\ \A s \in Semaphore, c \in Condition : QueueSets[s] \cap WaitSet[c] = {}
      BY <1>1, <1>5, Zenon DEF PlaceInv, NoDuplicates
    <3>2. \A t \in Thread :
            /\ status[t] = "READY" <=> t \in Range(readyList)
            /\ status[t] = "BLOCKED" <=>
                 \/ t \in finished
                 \/ \E s \in Semaphore : t \in QueueSets[s]
                 \/ \E c \in Condition : t \in WaitSet[c]
            /\ status[t] = "RUNNING" => t = current
      BY <1>1, <1>5 DEF PlaceInv, StatusMatchesPlace, OnSemaphore, OnCondition, OnReadyList
    <3>3. \A t \in finished :
            /\ t \notin Range(readyList)
            /\ \A s \in Semaphore : t \notin QueueSets[s]
            /\ \A c \in Condition : t \notin WaitSet[c]
      BY <1>1, <1>5 DEF PlaceInv, NoUseAfterDelete, OnSemaphore, OnCondition, OnReadyList
    <3> QED
      BY <3>1, <3>2, <3>3
  <2> QED
    BY <1>4, <1>5, <2>1
    DEF PlaceInv, NoDuplicates, NoUseAfterDelete, Bookkeeping, Where, Injective, Kept
<1>6. ASSUME Where, ReadyListSorted PROVE PlaceInv
  <2>1. Placed(QueueSets, WaitSet, Range(readyList), status, current, finished)
    BY <1>6 DEF Where
  <2>2. NoDuplicates
    BY <1>1, <1>6, <2>1 DEF Where, Injective, NoDuplicates, Placed
  <2>3. StatusMatchesPlace
    BY <1>1, <2>1 DEF StatusMatchesPlace, Placed, OnSemaphore, OnCondition, OnReadyList
  <2>4. NoUseAfterDelete
    BY <1>1, <1>6, <2>1
    DEF Where, Kept, NoUseAfterDelete, Placed, OnSemaphore, OnCondition, OnReadyList
  <2>5. Bookkeeping
    BY <1>4, <1>6 DEF Where, Kept, Bookkeeping
  <2> QED
    BY <1>6, <2>2, <2>3, <2>4, <2>5 DEF PlaceInv
<1> QED
  BY <1>5, <1>6

LEMMA KernelWhere == Spec => []Where
<1>1. Init => Where
  BY InitWhere DEF Init
<1>2. TypeOK /\ Where /\ [Next]_vars => Where'
  BY KernelStep, StepWhere DEF TypeOK
<1> QED
  BY <1>1, <1>2, KernelTypeCorrect, PTL DEF Spec

LEMMA KernelSorted == Spec => []ReadyListSorted
<1>1. Init => ReadyListSorted
  <2>1. Len(<<>>) = 0
    BY EmptySeq
  <2> QED
    BY <2>1 DEF Init, SynchInit, SchedInit, ReadyListSorted, Sorted
<1>2. TypeOK /\ ReadyListSorted /\ [Next]_vars => ReadyListSorted'
  BY KernelStep, StepSorted DEF TypeOK, ReadyListSorted
<1> QED
  BY <1>1, <1>2, KernelTypeCorrect, PTL DEF Spec

\* The scheduler runs the most urgent of the ready threads (scheduler.cc),
\* except that Thread::Yield() passes its caller over (thread.cc:193-210).
THEOREM KernelDispatchMostUrgent == Spec => DispatchMostUrgent
<1>1. TypeOK /\ ReadyListSorted /\ [Next]_vars => [MostUrgent]_vars
  BY KernelStep, StepSorted DEF TypeOK, ReadyListSorted
<1>2. Spec => [][MostUrgent]_vars
  BY <1>1, KernelTypeCorrect, KernelSorted, PTL DEF Spec
<1> QED
  BY <1>2 DEF DispatchMostUrgent, MostUrgent

\* Every thread is exactly where its status says: thread.cc, scheduler.cc
\* and synch.cc together never put a thread on two lists, forget one that
\* sleeps, run one that is blocked or touch one that is deleted.
THEOREM KernelPlaces == Spec => []PlaceInv
<1>1. TypeOK /\ Where /\ ReadyListSorted => PlaceInv
  BY WhereIsPlaceInv
<1> QED
  BY <1>1, KernelTypeCorrect, KernelWhere, KernelSorted, PTL

\* While threads queue for a semaphore of positive value, enough others are
\* on their way to take it: a V() that finds the value positive already must
\* still wake a waiter, as synch.cc:100-101 does.
THEOREM KernelNoLostWakeup == Spec => []NoLostWakeup
<1>1. Init => NoLostWakeup
  BY DEF Init, SynchInit, NoLostWakeup
<1>2. TypeOK /\ Where /\ NoLostWakeup /\ [Next]_vars => NoLostWakeup'
  BY KernelStep, StepNoLostWakeup DEF TypeOK
<1> QED
  BY <1>1, <1>2, KernelTypeCorrect, KernelWhere, PTL DEF Spec

-----------------------------------------------------------------------------
(* The kernel implements the monitor: each routine is one step of it, or   *)
(* none.                                                                   *)

MonitorStep == M!Next \/ UNCHANGED <<owner, WaitSet>>

LEMMA AcquireEnters ==
  ASSUME TypeOK, Where, LockInv, NEW t \in Thread, NEW l \in Lock, Running(t), Acquire(t, l)
  PROVE  MonitorStep
<1>1. WaitSet' = WaitSet
  BY DEF Acquire, condVars, WaitSet
<1>2. \A c \in Condition : t \notin WaitSet[c]
  BY DEF Where, Placed, Running
<1>3. CASE value[l] > 0
  <2>1. owner[l] = NULL /\ owner' = [owner EXCEPT ![l] = t]
    BY <1>3 DEF Acquire, LockInv
  <2>2. M!Enter(t, l)
    BY <1>1, <1>2, <2>1 DEF M!Enter
  <2> QED
    BY <2>2 DEF MonitorStep, M!Next
<1>4. CASE ~(value[l] > 0)
  BY <1>1, <1>4 DEF Acquire, MonitorStep
<1> QED
  BY <1>3, <1>4

LEMMA NextMonitor ==
  ASSUME TypeOK, Where, LockInv, [Next]_vars
  PROVE  MonitorStep
<1>1. ASSUME NEW t \in Thread, ThreadStep(t)
      PROVE  MonitorStep
  <2>1. CASE \E s \in Semaphore \ Lock : ThreadP(t, s) \/ ThreadV(t, s)
    BY <2>1 DEF ThreadP, P, ThreadV, V, condVars, WaitSet, MonitorStep
  <2>2. CASE \E l \in Lock : ThreadAcquire(t, l)
    BY <2>2, AcquireEnters DEF ThreadAcquire, AtUserCode
  <2>3. CASE \E l \in Lock : ThreadRelease(t, l)
    <3>1. PICK l \in Lock : ThreadRelease(t, l)
      BY <2>3
    <3>2. M!Leave(t, l)
      BY <3>1 DEF ThreadRelease, Release, condVars, WaitSet, M!Leave
    <3> QED
      BY <3>2 DEF MonitorStep, M!Next
  <2>4. CASE \E c \in Condition, l \in Lock : ThreadWait(t, c, l)
    <3>1. PICK c \in Condition, l \in Lock : ThreadWait(t, c, l)
      BY <2>4
    <3>2. t \notin WaitSet[c] /\ WaitSet' = [WaitSet EXCEPT ![c] = @ \cup {t}]
      BY <3>1, WaitWhere DEF ThreadWait, AtUserCode, TypeOK
    <3>3. M!Wait(t, c, l)
      BY <3>1, <3>2 DEF ThreadWait, Wait, M!Wait
    <3> QED
      BY <3>3 DEF MonitorStep, M!Next
  <2>5. CASE \E c \in Condition, l \in Lock : ThreadSignal(t, c, l) \/ ThreadBroadcast(t, c, l)
    <3>1. PICK c \in Condition, l \in Lock : ThreadSignal(t, c, l) \/ ThreadBroadcast(t, c, l)
      BY <2>5
    <3>2. CASE condQueue[c] = <<>>
      BY <3>1, <3>2 DEF ThreadSignal, Signal, ThreadBroadcast, Broadcast, WaitSet, MonitorStep
    <3>3. CASE condQueue[c] # <<>>
      <4> DEFINE u == Head(condQueue[c])
      <4>1. /\ condQueue' = [condQueue EXCEPT ![c] = Tail(@)]
            /\ ReadyToRun(u) /\ UNCHANGED <<queue, inP, condLock>>
            /\ owner' = owner /\ owner[l] = t
        BY <3>1, <3>3 DEF ThreadSignal, Signal, ThreadBroadcast, Broadcast, semVars
      <4>2. u \in WaitSet[c] /\ WaitSet' = [WaitSet EXCEPT ![c] = @ \ {u}]
        BY <3>3, <4>1, NotifyWhere DEF TypeOK
      <4>3. u \in Thread
        BY <3>3, RemoveFacts DEF TypeOK, SynchTypeOK
      <4> HIDE DEF u
      <4>4. M!Notify(t, c, u)
        BY <4>1, <4>2 DEF M!Notify
      <4> QED
        BY <4>3, <4>4 DEF MonitorStep, M!Next
    <3> QED
      BY <3>2, <3>3
  <2>6. CASE Resume(t)
    BY <2>6, AcquireEnters DEF Resume, P, condVars, WaitSet, MonitorStep
  <2>7. CASE ThreadYield(t) \/ (\E u \in Thread : ThreadFork(t, u)) \/ ThreadFinish(t)
    BY <2>7 DEF ThreadYield, ThreadFork, ThreadFinish, synchVars, WaitSet, MonitorStep
  <2> QED
    BY <1>1, <2>1, <2>2, <2>3, <2>4, <2>5, <2>6, <2>7 DEF ThreadStep
<1>2. CASE \E s \in DeviceSemaphore : DeviceInterrupt(s)
  BY <1>2 DEF DeviceInterrupt, V, condVars, WaitSet, MonitorStep
<1>3. CASE LeaveIdle \/ UNCHANGED vars
  BY <1>3 DEF LeaveIdle, vars, synchVars, WaitSet, MonitorStep
<1> QED
  BY <1>1, <1>2, <1>3 DEF Next

\* Locks and conditions, built in synch.cc from semaphores, queues and calls
\* of the scheduler, implement the monitor that synch.h describes: every step
\* of the kernel is a step of Monitor or leaves the monitor as it is.
THEOREM KernelImplementsMonitor == Spec => MonitorSpec
<1>1. Init => M!Init
  <2> SUFFICES ASSUME Init PROVE M!Init
    OBVIOUS
  <2>1. Range(<<>>) = {}
    BY EmptySeq, EmptyRange
  <2> QED
    BY <2>1 DEF Init, SynchInit, WaitSet, M!Init
<1>2. TypeOK /\ Where /\ LockInv /\ [Next]_vars => [M!Next]_(M!monitorVars)
  BY NextMonitor DEF MonitorStep, M!monitorVars
<1> QED
  BY <1>1, <1>2, KernelTypeCorrect, KernelWhere, KernelLockExclusion, PTL
  DEF Spec, MonitorSpec, M!Spec

=============================================================================
