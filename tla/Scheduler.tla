----------------------------- MODULE Scheduler -----------------------------
(***************************************************************************)
(* Nachos kernel threads on the one simulated processor: thread.cc,        *)
(* scheduler.cc and the sorted list of list.cc that is the ready list.     *)
(*                                                                         *)
(* Each operator below is the part of a kernel call that runs with         *)
(* interrupts disabled.  The calls that end with the CPU being given away  *)
(* (Sleep, Yield, Finish) include the dispatch of the next thread, because *)
(* nothing can come between the two on a uniprocessor.                     *)
(***************************************************************************)
EXTENDS Integers, FiniteSets, Sequences, SequencesExt

CONSTANTS
  Thread,    \* the Thread objects of the run
  Main,      \* the thread Initialize() makes of the process itself
  Priority,  \* Thread::priority, smaller runs first
  NULL

ASSUME ThreadAssumption == IsFiniteSet(Thread) /\ Main \in Thread
ASSUME PriorityAssumption == Priority \in [Thread -> Int]
ASSUME NullAssumption == NULL \notin Thread

VARIABLES
  current,    \* currentThread
  readyList,  \* Scheduler::readyList
  status,     \* Thread::status
  started,    \* the threads that have been dispatched at least once
  carcass,    \* threadToBeDestroyed
  finished,   \* history: the threads that called Finish()
  destroyed   \* history: the threads whose destructor ran

schedVars == <<current, readyList, status, started, carcass, finished, destroyed>>

Status == {"JUST_CREATED", "RUNNING", "READY", "BLOCKED"}

SchedTypeOK ==
  /\ current \in Thread
  /\ readyList \in Seq(Thread)
  /\ status \in [Thread -> Status]
  /\ started \subseteq Thread
  /\ carcass \in Thread \cup {NULL}
  /\ finished \subseteq Thread
  /\ destroyed \subseteq Thread

SchedInit ==
  /\ current = Main
  /\ readyList = <<>>
  /\ status = [t \in Thread |-> IF t = Main THEN "RUNNING" ELSE "JUST_CREATED"]
  /\ started = {Main}
  /\ carcass = NULL
  /\ finished = {}
  /\ destroyed = {}

\* t executes its own code (the CPU is not idling inside t's Sleep()).
Running(t) == current = t /\ status[t] = "RUNNING"

Idling == status[current] # "RUNNING"

-----------------------------------------------------------------------------
\* Mutant: before the first element whose key is not smaller.
InsertPosition_BeforeEqual(list, t) ==
  LET notSmaller == {i \in DOMAIN list : Priority[t] <= Priority[list[i]]}
  IN  IF notSmaller = {} THEN Len(list) + 1 ELSE Min(notSmaller)

\* Where List::SortedInsert() puts an element: before the first one with a
\* strictly bigger key, so that equal keys stay in arrival order.
InsertPosition(list, t) ==
  LET bigger == {i \in DOMAIN list : Priority[t] < Priority[list[i]]}
  IN  IF bigger = {} THEN Len(list) + 1 ELSE Min(bigger)

SortedInsert(list, t) == InsertAt(list, InsertPosition(list, t), t)

\* Whether a list is in the order in which SortedInsert() keeps it.
Sorted(list) ==
  \A i, j \in DOMAIN list : i < j => Priority[list[i]] <= Priority[list[j]]

\* Whether t comes before u in a list of threads.
Before(queued, t, u) ==
  \E i, j \in DOMAIN queued : i < j /\ queued[i] = t /\ queued[j] = u

\* Scheduler::Run(): hand the CPU to next.  A thread that has run before
\* comes back from SWITCH inside Run() and deletes the carcass; a new one
\* starts in ThreadRoot and never sees that code.
Run(next, ready, stat, dead) ==
  /\ current' = next
  /\ readyList' = ready
  /\ status' = [stat EXCEPT ![next] = "RUNNING"]
  /\ started' = started \cup {next}
  /\ IF next \in started
       THEN /\ carcass' = NULL
            /\ destroyed' = destroyed \cup ({dead} \ {NULL})
       ELSE /\ carcass' = dead
            /\ UNCHANGED destroyed

\* Thread::Sleep(), after its caller has made ready the list and stat the
\* states: dispatch the first ready thread, or idle inside Sleep().
SleepWith(t, ready, stat, dead) ==
  LET blocked == [stat EXCEPT ![t] = "BLOCKED"]
  IN  IF ready # <<>>
        THEN Run(Head(ready), Tail(ready), blocked, dead)
        ELSE /\ status' = blocked
             /\ carcass' = dead
             /\ UNCHANGED <<current, readyList, started, destroyed>>

Sleep(t) == SleepWith(t, readyList, status, carcass) /\ UNCHANGED finished

\* Mutant: the scheduler takes the last element of the ready list.
Dispatch_Last ==
  /\ Idling
  /\ readyList # <<>>
  /\ Run(Last(readyList), Front(readyList), status, carcass)
  /\ UNCHANGED finished

\* The loop in Sleep(): an interrupt handler made a thread ready while the
\* CPU was idle.
Dispatch ==
  /\ Idling
  /\ readyList # <<>>
  /\ Run(Head(readyList), Tail(readyList), status, carcass)
  /\ UNCHANGED finished

\* Scheduler::ReadyToRun()
ReadyToRun(t) ==
  /\ readyList' = SortedInsert(readyList, t)
  /\ status' = [status EXCEPT ![t] = "READY"]
  /\ UNCHANGED <<current, started, carcass, finished, destroyed>>

\* Thread::Fork() of u by the running thread.
Fork(u) ==
  /\ status[u] = "JUST_CREATED"
  /\ ReadyToRun(u)

\* Mutant: the thread that yields is not put back on the ready list.
Yield_Dropped(t) ==
  /\ readyList # <<>>
  /\ Run(Head(readyList), Tail(readyList), [status EXCEPT ![t] = "READY"], carcass)
  /\ UNCHANGED finished

\* Thread::Yield(): the next thread is taken off the list before the caller
\* is put on it, so the caller gives way even to a less urgent thread.
Yield(t) ==
  /\ readyList # <<>>
  /\ Run(Head(readyList), SortedInsert(Tail(readyList), t),
         [status EXCEPT ![t] = "READY"], carcass)
  /\ UNCHANGED finished

\* Thread::Finish(): leave the carcass to the next thread and never return.
Finish(t) ==
  /\ finished' = finished \cup {t}
  /\ SleepWith(t, readyList, status, t)

=============================================================================
