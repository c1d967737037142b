----------------------------- MODULE SynchDisk -----------------------------
(***************************************************************************)
(* The synchronous disk of synchdisk.cc over the device of disk.cc: one    *)
(* request at a time behind a lock, and a semaphore that the disk's        *)
(* interrupt handler signals.  The threads each make a number of reads and *)
(* writes.  How long a request takes (ComputeLatency()) is left open: the  *)
(* interrupt comes at any later point where interrupts are enabled.        *)
(***************************************************************************)
EXTENDS Program

CONSTANTS
  Client,      \* the threads that use the disk
  Requests,    \* bound: how many requests each of them makes
  Sector, Data, Blank,
  lock, semaphore

VARIABLES
  active,    \* Disk::active
  contents,  \* the UNIX file behind the disk
  buffer,    \* each thread's arguments: sectorNumber, and data's content
  num,       \* how many requests each thread has completed
  serving    \* history: whose request the device works on

progVars == <<active, contents, buffer, num, serving>>
vars == <<kernelVars, pc, progVars>>

Init ==
  /\ SynchInit
  /\ pc = [t \in Thread |-> IF t = Main THEN "fork" ELSE "Acquire"]
  /\ active = FALSE
  /\ contents = [s \in Sector |-> Blank]
  /\ buffer = [t \in Client |-> [sector |-> NULL, data |-> Blank]]
  /\ num = [t \in Client |-> 0]
  /\ serving = NULL

-----------------------------------------------------------------------------
\* The threads are alike, so the order of the forks does not matter.
MainFork ==
  /\ \E t \in Client : status[t] = "JUST_CREATED"
  /\ CallFork(Main, CHOOSE t \in Client : status[t] = "JUST_CREATED", "fork")
  /\ UNCHANGED progVars

MainFinish ==
  /\ \A t \in Client : status[t] # "JUST_CREATED"
  /\ CallFinish(Main, "fork")
  /\ UNCHANGED progVars

\* ReadSector() and WriteSector(), up to their Acquire().
AcquireLock(t) ==
  /\ num[t] < Requests
  /\ CallAcquire(t, lock, "Acquire", "request")
  /\ UNCHANGED progVars

\* Disk::ReadRequest(): the data is transferred at once, the interrupt comes
\* later.  Then semaphore->P(), with no break between.
ReadRequest(t) ==
  /\ inP[t] = NULL
  /\ ~active
  /\ CallP(t, semaphore, "request", "release")
  /\ \E s \in Sector :
       buffer' = [buffer EXCEPT ![t] = [sector |-> s, data |-> contents[s]]]
  /\ active' = TRUE
  /\ serving' = t
  /\ UNCHANGED <<contents, num>>

\* Disk::WriteRequest(), then semaphore->P().
WriteRequest(t) ==
  /\ inP[t] = NULL
  /\ ~active
  /\ CallP(t, semaphore, "request", "release")
  /\ \E s \in Sector, d \in Data :
       /\ contents' = [contents EXCEPT ![s] = d]
       /\ buffer' = [buffer EXCEPT ![t] = [sector |-> s, data |-> d]]
  /\ active' = TRUE
  /\ serving' = t
  /\ UNCHANGED num

\* The thread is woken inside semaphore->P().
AwaitInterrupt(t) ==
  /\ inP[t] = semaphore
  /\ CallP(t, semaphore, "request", "release")
  /\ UNCHANGED progVars

ReleaseLock(t) ==
  /\ CallRelease(t, lock, "release", "Acquire")
  /\ num' = [num EXCEPT ![t] = @ + 1]
  /\ UNCHANGED <<active, contents, buffer, serving>>

ClientFinish(t) ==
  /\ num[t] = Requests
  /\ CallFinish(t, "Acquire")
  /\ UNCHANGED progVars

\* Disk::HandleInterrupt() and SynchDisk::RequestDone()
DiskInterrupt ==
  /\ active
  /\ Idling \/ AtUserCode(current)
  /\ V(semaphore)
  /\ active' = FALSE
  /\ serving' = NULL
  /\ UNCHANGED <<pc, contents, buffer, num>>

LeaveIdle == Dispatch /\ UNCHANGED <<synchVars, pc, progVars>>

TimeSlice == Preempt /\ UNCHANGED progVars

ClientStep(t) ==
  \/ AcquireLock(t) \/ ReadRequest(t) \/ WriteRequest(t)
  \/ AwaitInterrupt(t) \/ ReleaseLock(t) \/ ClientFinish(t)

Next ==
  \/ MainFork \/ MainFinish
  \/ \E t \in Client : ClientStep(t)
  \/ DiskInterrupt \/ LeaveIdle \/ TimeSlice

Spec == Init /\ [][Next]_vars

-----------------------------------------------------------------------------
\* Disk::ReadRequest() and WriteRequest() ASSERT(!active): the lock and the
\* semaphore together never let a thread in while the device is busy, nor
\* leave a signal behind for the next request.
RequestOnlyWhenIdle ==
  \A t \in Client :
    pc[t] = "request" /\ inP[t] = NULL => ~active /\ value[semaphore] = 0

\* A thread gets past semaphore->P() only after the interrupt for its own
\* request ("Return only after the data has been read", synchdisk.cc:63).
ReturnsWhenDone ==
  \A t \in Client : pc[t] = "release" => serving # t /\ ~active

\* What a thread read or wrote is still on the disk until it releases the
\* lock: nobody else's request comes between.
BufferIsOnDisk ==
  \A t \in Client :
    pc[t] = "release" \/ inP[t] = semaphore =>
      contents[buffer[t].sector] = buffer[t].data

\* The machine stops only when every request of every thread is served.
StopsWhenServed == Halted /\ ~active => {Main} \cup Client \subseteq finished

=============================================================================
