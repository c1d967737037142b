------------------------------- MODULE Synch -------------------------------
(***************************************************************************)
(* Semaphores, locks and condition variables: synch.cc.                    *)
(*                                                                         *)
(* Every routine of synch.cc disables interrupts on entry, so it is atomic *)
(* up to the point where it sleeps.  A thread that is dispatched again     *)
(* inside P() finds interrupts still disabled and re-tests the semaphore   *)
(* at once; inP says which semaphore that is.  A lock is named by its      *)
(* binary semaphore, so Lock is a subset of Semaphore.                     *)
(***************************************************************************)
EXTENDS Scheduler

CONSTANTS
  Semaphore,     \* every semaphore, those inside the locks included
  Lock,          \* the semaphores that are locks
  Condition,     \* the condition variables
  InitialValue   \* the constructor's argument, for each semaphore

ASSUME SemaphoreAssumption ==
  /\ Lock \subseteq Semaphore
  /\ InitialValue \in [Semaphore -> Nat]
  /\ \A l \in Lock : InitialValue[l] = 1
  /\ NULL \notin Semaphore
  /\ NULL \notin Condition

VARIABLES
  value,        \* Semaphore::value
  queue,        \* Semaphore::queue
  owner,        \* Lock::owner
  condQueue,    \* Condition::queue
  condLock,     \* Condition::lock
  inP,          \* the semaphore whose P() a thread sleeps in, or will re-test
  broadcasting  \* the condition whose Broadcast() loop is running

semVars == <<value, queue, inP>>
condVars == <<condQueue, condLock, broadcasting>>
synchVars == <<value, queue, inP, owner, condQueue, condLock, broadcasting>>

SynchTypeOK ==
  /\ SchedTypeOK
  /\ value \in [Semaphore -> Nat]
  /\ queue \in [Semaphore -> Seq(Thread)]
  /\ owner \in [Lock -> Thread \cup {NULL}]
  /\ condQueue \in [Condition -> Seq(Thread)]
  /\ condLock \in [Condition -> Lock \cup {NULL}]
  /\ inP \in [Thread -> Semaphore \cup {NULL}]
  /\ broadcasting \in Condition \cup {NULL}

SynchInit ==
  /\ SchedInit
  /\ value = InitialValue
  /\ queue = [s \in Semaphore |-> <<>>]
  /\ owner = [l \in Lock |-> NULL]
  /\ condQueue = [c \in Condition |-> <<>>]
  /\ condLock = [c \in Condition |-> NULL]
  /\ inP = [t \in Thread |-> NULL]
  /\ broadcasting = NULL

\* t runs with interrupts enabled: it is not in the middle of a routine.
AtUserCode(t) == Running(t) /\ inP[t] = NULL /\ broadcasting = NULL

-----------------------------------------------------------------------------
\* Semaphore::P(), from the call or from the return of the Sleep() in its
\* loop: consume the value, or queue up (again, at the end) and sleep.
SemaphoreP(t, s) ==
  \/ /\ value[s] > 0
     /\ value' = [value EXCEPT ![s] = @ - 1]
     /\ inP' = [inP EXCEPT ![t] = NULL]
     /\ UNCHANGED <<queue, schedVars>>
  \/ /\ value[s] = 0
     /\ queue' = [queue EXCEPT ![s] = Append(@, t)]
     /\ inP' = [inP EXCEPT ![t] = s]
     /\ Sleep(t)
     /\ UNCHANGED value

P(t, s) == SemaphoreP(t, s) /\ UNCHANGED <<owner, condVars>>

\* The effect of Semaphore::V() on the scheduler and on the semaphore: the
\* first waiter becomes ready, and the value grows whether or not there is one.
ReadyAfterV(s) ==
  IF queue[s] = <<>> THEN readyList ELSE SortedInsert(readyList, Head(queue[s]))

StatusAfterV(s) ==
  IF queue[s] = <<>> THEN status ELSE [status EXCEPT ![Head(queue[s])] = "READY"]

SemaphoreV(s) ==
  /\ queue' = [queue EXCEPT ![s] = IF @ = <<>> THEN @ ELSE Tail(@)]
  /\ value' = [value EXCEPT ![s] = @ + 1]

\* Mutant: only the V() that finds the value 0 wakes a waiter.
V_WakesAtZero(s) ==
  /\ value' = [value EXCEPT ![s] = @ + 1]
  /\ IF value[s] = 0 /\ queue[s] # <<>>
       THEN /\ queue' = [queue EXCEPT ![s] = Tail(@)]
            /\ ReadyToRun(Head(queue[s]))
       ELSE UNCHANGED <<queue, schedVars>>
  /\ UNCHANGED <<inP, owner, condVars>>

\* Semaphore::V()
V(s) ==
  /\ SemaphoreV(s)
  /\ readyList' = ReadyAfterV(s)
  /\ status' = StatusAfterV(s)
  /\ UNCHANGED <<current, started, carcass, finished, destroyed, inP, owner, condVars>>

-----------------------------------------------------------------------------
\* Mutant: P() tests the value with an "if", not again after its Sleep().
Acquire_TestsOnce(t, l) ==
  /\ IF inP[t] = l \/ value[l] > 0
       THEN /\ value' = [value EXCEPT ![l] = 0]
            /\ inP' = [inP EXCEPT ![t] = NULL]
            /\ owner' = [owner EXCEPT ![l] = t]
            /\ UNCHANGED <<queue, schedVars>>
       ELSE /\ SemaphoreP(t, l)
            /\ UNCHANGED owner
  /\ UNCHANGED condVars

\* Lock::Acquire(): the owner is recorded once P() gets through.
Acquire(t, l) ==
  /\ SemaphoreP(t, l)
  /\ owner' = IF value[l] > 0 THEN [owner EXCEPT ![l] = t] ELSE owner
  /\ UNCHANGED condVars

\* Mutant: the owner is not cleared.
Release_KeepsOwner(t, l) ==
  /\ owner[l] = t
  /\ SemaphoreV(l)
  /\ readyList' = ReadyAfterV(l)
  /\ status' = StatusAfterV(l)
  /\ UNCHANGED <<current, started, carcass, finished, destroyed, inP, owner, condVars>>

\* Lock::Release(), whose ASSERT is the first conjunct.
Release(t, l) ==
  /\ owner[l] = t
  /\ owner' = [owner EXCEPT ![l] = NULL]
  /\ SemaphoreV(l)
  /\ readyList' = ReadyAfterV(l)
  /\ status' = StatusAfterV(l)
  /\ UNCHANGED <<current, started, carcass, finished, destroyed, inP, condVars>>

\* Condition::Wait() up to its Sleep(): queue up, Release() the lock, sleep.
\* The Acquire() that follows is an Acquire of the thread that sleeps in it.
Wait(t, c, l) ==
  /\ owner[l] = t
  /\ condQueue[c] = <<>> \/ condLock[c] = l
  /\ condLock' = [condLock EXCEPT ![c] = l]
  /\ condQueue' = [condQueue EXCEPT ![c] = Append(@, t)]
  /\ owner' = [owner EXCEPT ![l] = NULL]
  /\ SemaphoreV(l)
  /\ inP' = [inP EXCEPT ![t] = l]
  /\ SleepWith(t, ReadyAfterV(l), StatusAfterV(l), carcass)
  /\ UNCHANGED <<finished, broadcasting>>

\* Mutant: the lock need not be held.
Signal_AnyCaller(t, c, l) ==
  /\ condQueue[c] # <<>>
  /\ condQueue' = [condQueue EXCEPT ![c] = Tail(@)]
  /\ ReadyToRun(Head(condQueue[c]))
  /\ UNCHANGED <<semVars, owner, condLock, broadcasting>>

\* Condition::Signal(): the first waiter becomes ready.
Signal(t, c, l) ==
  /\ owner[l] = t
  /\ condQueue[c] = <<>> \/ condLock[c] = l
  /\ IF condQueue[c] = <<>>
       THEN UNCHANGED <<condQueue, schedVars>>
       ELSE /\ condQueue' = [condQueue EXCEPT ![c] = Tail(@)]
            /\ ReadyToRun(Head(condQueue[c]))
  /\ UNCHANGED <<semVars, owner, condLock, broadcasting>>

\* Condition::Broadcast(): one iteration of its loop.  Interrupts stay
\* disabled until the queue is empty, and broadcasting holds back every
\* other step until then.
Broadcast(t, c, l) ==
  /\ owner[l] = t
  /\ condQueue[c] = <<>> \/ condLock[c] = l
  /\ IF condQueue[c] = <<>>
       THEN UNCHANGED <<condQueue, broadcasting, schedVars>>
       ELSE /\ condQueue' = [condQueue EXCEPT ![c] = Tail(@)]
            /\ broadcasting' = IF Len(condQueue[c]) > 1 THEN c ELSE NULL
            /\ ReadyToRun(Head(condQueue[c]))
  /\ UNCHANGED <<semVars, owner, condLock>>

-----------------------------------------------------------------------------
\* A lock's semaphore is 0 exactly while the lock has an owner: Acquire()
\* and Release() never let two threads in, nor lose the lock.
LockInv == \A l \in Lock : value[l] = IF owner[l] = NULL THEN 1 ELSE 0

\* The threads that a V() (or a notification) took off a queue and that have
\* not yet re-tested semaphore s.
Woken(s) == {t \in Thread : inP[t] = s /\ status[t] # "BLOCKED"}

\* No wake-up is lost: while threads queue for a semaphore of positive
\* value, at least that many threads are on their way to test it again.
NoLostWakeup ==
  \A s \in Semaphore : queue[s] # <<>> => value[s] <= Cardinality(Woken(s))

\* The threads that wait on each condition.
WaitSet == [c \in Condition |-> Range(condQueue[c])]

=============================================================================
