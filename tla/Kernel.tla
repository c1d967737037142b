------------------------------- MODULE Kernel -------------------------------
(***************************************************************************)
(* The kernel under its most general client: threads that call the         *)
(* routines of thread.cc and synch.cc in any order their ASSERTs allow, a  *)
(* timer that may force a Yield() wherever interrupts are enabled, and     *)
(* devices whose interrupt handlers call V().  The state of a thread is    *)
(* what the kernel knows of it, so what holds here holds whatever code the *)
(* threads run.                                                            *)
(***************************************************************************)
EXTENDS Synch

CONSTANTS
  DeviceSemaphore,  \* the semaphores that interrupt handlers V()
  MaxValue          \* bound: V() is not called on a semaphore at this value

ASSUME DeviceAssumption == DeviceSemaphore \subseteq Semaphore \ Lock

vars == <<schedVars, synchVars>>

Init == SynchInit

-----------------------------------------------------------------------------
ThreadP(t, s) == AtUserCode(t) /\ P(t, s)

ThreadV(t, s) == AtUserCode(t) /\ value[s] < MaxValue /\ V(s)

ThreadAcquire(t, l) == AtUserCode(t) /\ Acquire(t, l)

ThreadRelease(t, l) == AtUserCode(t) /\ Release(t, l)

ThreadWait(t, c, l) == AtUserCode(t) /\ Wait(t, c, l)

ThreadSignal(t, c, l) == AtUserCode(t) /\ Signal(t, c, l)

ThreadBroadcast(t, c, l) ==
  /\ Running(t)
  /\ inP[t] = NULL
  /\ broadcasting \in {NULL, c}
  /\ Broadcast(t, c, l)

\* A thread dispatched inside P(), Acquire() or Wait() goes on from there.
Resume(t) ==
  /\ Running(t)
  /\ inP[t] # NULL
  /\ IF inP[t] \in Lock THEN Acquire(t, inP[t]) ELSE P(t, inP[t])

\* Called by the thread, or by Interrupt::OneTick() after the timer's handler.
ThreadYield(t) == AtUserCode(t) /\ Yield(t) /\ UNCHANGED synchVars

ThreadFork(t, u) == AtUserCode(t) /\ Fork(u) /\ UNCHANGED synchVars

ThreadFinish(t) == AtUserCode(t) /\ Finish(t) /\ UNCHANGED synchVars

ThreadStep(t) ==
  \/ \E s \in Semaphore \ Lock : ThreadP(t, s) \/ ThreadV(t, s)
  \/ \E l \in Lock : ThreadAcquire(t, l) \/ ThreadRelease(t, l)
  \/ \E c \in Condition, l \in Lock :
       ThreadWait(t, c, l) \/ ThreadSignal(t, c, l) \/ ThreadBroadcast(t, c, l)
  \/ Resume(t)
  \/ ThreadYield(t)
  \/ \E u \in Thread : ThreadFork(t, u)
  \/ ThreadFinish(t)

\* A device's handler runs in OneTick(), with the current thread at user
\* code, or in Idle().
DeviceInterrupt(s) ==
  /\ Idling \/ AtUserCode(current)
  /\ value[s] < MaxValue
  /\ V(s)

LeaveIdle == Dispatch /\ UNCHANGED synchVars

Next ==
  \/ \E t \in Thread : ThreadStep(t)
  \/ \E s \in DeviceSemaphore : DeviceInterrupt(s)
  \/ LeaveIdle

Spec == Init /\ [][Next]_vars

-----------------------------------------------------------------------------
TypeOK == SynchTypeOK

\* The places where a thread can be found: the queue of a semaphore, that of
\* a condition, or the ready list.
OnSemaphore(t, s) == t \in Range(queue[s])
OnCondition(t, c) == t \in Range(condQueue[c])
OnReadyList(t) == t \in Range(readyList)

\* No list holds a thread twice, and no thread is on two lists: a routine
\* that readies or queues a thread never leaves a stale entry behind that
\* would run it twice (synch.cc, thread.cc, scheduler.cc together).
NoDuplicates ==
  /\ IsInjective(readyList)
  /\ \A s \in Semaphore : IsInjective(queue[s])
  /\ \A c \in Condition : IsInjective(condQueue[c])
  /\ \A s1, s2 \in Semaphore :
       s1 # s2 => Range(queue[s1]) \cap Range(queue[s2]) = {}
  /\ \A c1, c2 \in Condition :
       c1 # c2 => Range(condQueue[c1]) \cap Range(condQueue[c2]) = {}
  /\ \A s \in Semaphore, c \in Condition :
       Range(queue[s]) \cap Range(condQueue[c]) = {}

\* A thread's status and where it is agree: READY on the ready list, BLOCKED
\* on a queue or finished, RUNNING the current one.  In particular no thread
\* is lost, out of every list with its status still promising a return.
StatusMatchesPlace ==
  \A t \in Thread :
    /\ status[t] = "READY" <=> OnReadyList(t)
    /\ status[t] = "BLOCKED" <=>
         \/ t \in finished
         \/ \E s \in Semaphore : OnSemaphore(t, s)
         \/ \E c \in Condition : OnCondition(t, c)
    /\ status[t] = "RUNNING" => t = current

\* A finished thread is on no list, and only finished threads are deleted,
\* never the one whose stack is in use by a thread that can still run.
NoUseAfterDelete ==
  /\ destroyed \subseteq finished
  /\ current \notin destroyed
  /\ \A t \in finished :
       /\ ~OnReadyList(t)
       /\ \A s \in Semaphore : ~OnSemaphore(t, s)
       /\ \A c \in Condition : ~OnCondition(t, c)

\* What P() and Wait() noted of their sleepers, and the carcass: with the
\* properties above this is inductive (KernelProofs).
Bookkeeping ==
  /\ \A s \in Semaphore : \A t \in Range(queue[s]) : inP[t] = s
  /\ \A c \in Condition : \A t \in Range(condQueue[c]) : inP[t] = condLock[c]
  /\ \A c \in Condition : condQueue[c] # <<>> => condLock[c] \in Lock
  /\ carcass \in finished \cup {NULL}

\* The ready list is in the order of the priorities, although V(), Signal(),
\* Fork() and Yield() all insert into it.
ReadyListSorted == Sorted(readyList)

\* Every thread is exactly where its status says, and finished ones nowhere:
\* no call of synch.cc or thread.cc leaves a thread behind on a list, forgets
\* one, or touches one that is deleted; the ready list stays sorted; and P()
\* takes no semaphore below zero.
PlaceInv ==
  TypeOK /\ NoDuplicates /\ StatusMatchesPlace /\ NoUseAfterDelete /\ Bookkeeping /\ ReadyListSorted

\* A context switch goes to the most urgent ready thread, except that the
\* thread that yields is passed over.
DispatchMostUrgent ==
  [][current' # current =>
       \A t \in Range(readyList') : t = current \/ Priority[current'] <= Priority[t]]_vars

\* A thread leaves Acquire() or Wait() as the owner of the lock, which
\* nobody owned before that step.
LeavesWithLock ==
  [][\A t \in Thread, l \in Lock :
       inP[t] = l /\ inP'[t] # l => owner[l] = NULL /\ owner'[l] = t]_vars

M == INSTANCE Monitor WITH waiting <- WaitSet

\* Locks and conditions implement the monitor of synch.h's comments.
MonitorSpec == M!Spec

-----------------------------------------------------------------------------
\* An instance for TLC: main is the most urgent thread, then those of Urgent.
CONSTANT Urgent

MCPriority == [t \in Thread |-> IF t = Main THEN 0 ELSE IF t \in Urgent THEN 5 ELSE 7]
MCInitialValue == [s \in Semaphore |-> IF s \in Lock THEN 1 ELSE 0]

=============================================================================
