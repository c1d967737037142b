---------------------------- MODULE NachosProofs ----------------------------
(***************************************************************************)
(* Theorems of Nachos, for any numbers of threads, crossings, items,       *)
(* requests and characters: the bridge is safe, the synchronized list is a *)
(* FIFO queue, the disk serves one request at a time, the console echoes   *)
(* its input, and the machine stops only when the work is done.            *)
(***************************************************************************)
EXTENDS Nachos, SynchProofs

(* The inductive invariant.  Its first parts are about whichever program   *)
(* runs: there is one lock, and a label says whether a thread holds it.    *)

\* The threads that main forks.
Crew ==
  CASE program = "SynchTest" -> Car
    [] program = "SynchList" -> Appender \cup Remover
    [] program = "SynchDisk" -> Client
    [] OTHER -> {}

CarLabel == {"Arrive", "test", "ready", "cross", "Exit", "broadcast", "release", "away", "done"}
Label ==
  CarLabel \cup {"fork", "Append", "signal", "append.Release", "Remove",
                 "Acquire", "request", "read", "echo", "next", "halted"}

\* Where a thread of the program can be; one that is not forked stays where it is.
Labels(t) ==
  CASE t = Main -> IF program = "ConsoleTest" THEN {"read", "echo", "next", "halted"}
                                              ELSE {"fork", "done"}
    [] t # Main /\ program = "SynchTest" -> IF t \in Car THEN CarLabel ELSE {"Arrive"}
    [] t # Main /\ program = "SynchList" ->
         IF t \in Appender THEN {"Append", "signal", "append.Release", "done"}
         ELSE IF t \in Remover THEN {"Remove", "test", "done"} ELSE {"Remove"}
    [] t # Main /\ program = "SynchDisk" ->
         IF t \in Client THEN {"Acquire", "request", "release", "done"} ELSE {"Acquire"}
    [] OTHER -> {"read"}

\* The semaphores whose P() a thread can be in at a label.
AwaitedAt(label) ==
  CASE label \in {"Arrive", "test", "Exit", "Append", "Remove", "Acquire"} -> {lock}
    [] label = "request" -> {semaphore}
    [] label = "read" -> {readAvail}
    [] label = "echo" -> {writeDone}
    [] OTHER -> {}

\* The labels at which a thread has the lock.
Holds(t) ==
  \/ pc[t] \in {"broadcast", "release", "signal", "append.Release", "request"}
  \/ pc[t] = "test" /\ inP[t] = NULL

Control ==
  /\ TypeOK
  /\ pc \in [Thread -> Label] /\ \A t \in Thread : pc[t] \in Labels(t)
  /\ status[Main] # "JUST_CREATED"
  /\ pc[Main] = "done" => \A t \in Crew : status[t] # "JUST_CREATED"
  /\ \A t \in Thread :
       /\ inP[t] \in {NULL} \cup AwaitedAt(pc[t])
       /\ status[t] = "JUST_CREATED" => inP[t] = NULL /\ ~Holds(t)
       /\ pc[t] = "done" <=> t \in finished

Ownership == \A t \in Thread : owner[lock] = t <=> Holds(t)

\* Cars wait before the bridge, removers for an item.
Waiters ==
  \A c \in Condition : \A t \in WaitSet[c] :
    /\ pc[t] = "test" /\ inP[t] = lock
    /\ \/ program = "SynchTest" /\ c = bridgeFull
       \/ program = "SynchList" /\ c = listEmpty

-----------------------------------------------------------------------------
(* Bridge.  While a Broadcast() runs, its caller has given its spot back;  *)
(* and as long as cars wait, one that will broadcast has not left.         *)
Crossing(car) == pc[car] \in {"ready", "cross", "Exit", "broadcast"}
CarInv ==
  /\ numCars \in 0 .. Capacity /\ currentDirec \in {0, 1} /\ num \in [Car -> 0 .. Crossings]
  /\ \A car \in Car : pc[car] \notin {"Arrive", "done"} => num[car] < Crossings
  /\ B!BridgeSafe
  /\ broadcasting # NULL =>
       /\ broadcasting = bridgeFull /\ WaitSet[bridgeFull] # {}
       /\ \E car \in Car : pc[car] = "broadcast" /\ status[car] = "RUNNING"
  /\ WaitSet[bridgeFull] # {} => \E car \in Car : Crossing(car)

(* SynchList.  Every item in the list has been appended, none twice; and   *)
(* while removers wait, others are on their way to each item.              *)
Item == [thread_id : Appender, value : Nat]
OnTheWay == {r \in Remover : pc[r] = "test" /\ r \notin WaitSet[listEmpty]}
ListInv ==
  /\ list \in Seq(Item) /\ num \in [Appender -> 0 .. Items]
  /\ \A a \in Appender : pc[a] = "signal" => num[a] < Items
  /\ IsInjective(list) /\ \A m \in Range(list) : m.value < num[m.thread_id]
  /\ WaitSet[listEmpty] # {} => Len(list) <= Cardinality(OnTheWay)

(* SynchDisk.  The request of the client that waits in P() is at the       *)
(* device, or its signal has come; nobody else has either.                 *)
InDisk(t) == pc[t] = "request" /\ inP[t] # NULL
ClientInv ==
  /\ active \in BOOLEAN /\ (serving # NULL => active)
  /\ contents \in [Sector -> Data]
  /\ buffer \in [Client -> [sector : Sector \cup {NULL}, data : Data]]
  /\ value[semaphore] + (IF active THEN 1 ELSE 0)
       = IF \E t \in Client : InDisk(t) THEN 1 ELSE 0
  /\ D!BufferIsOnDisk

(* Console.  A character is in the buffer while its signal waits or the    *)
(* thread that took it has not read it; and so for the display.            *)
EchoInv ==
  /\ typed \in Seq(Char) /\ shown \in Seq(Char)
  /\ incoming \in Char \cup {EOF} /\ putBusy \in BOOLEAN
  /\ value[readAvail] + (IF pc[Main] = "echo" /\ inP[Main] = NULL THEN 1 ELSE 0)
       = IF incoming # EOF THEN 1 ELSE 0
  /\ value[writeDone] + (IF putBusy THEN 1 ELSE 0)
       = IF pc[Main] = "echo" /\ inP[Main] # NULL THEN 1 ELSE 0
  /\ typed = IF incoming = EOF THEN shown ELSE Append(shown, incoming)

\* The calls of the bridge are those of the kernel that the programs share.
LEMMA BridgeCalls ==
  ASSUME NEW t, NEW u, NEW c, NEW from, NEW to
  PROVE  /\ B!CallFork(t, u, from) <=> CallFork(t, u, from)
         /\ B!CallFinish(t, from) <=> CallFinish(t, from)
         /\ B!CallYield(t, from, to) <=> CallYield(t, from, to)
         /\ B!CallAcquire(t, lock, from, to) <=> CallAcquire(t, lock, from, to)
         /\ B!CallRelease(t, lock, from, to) <=> CallRelease(t, lock, from, to)
         /\ B!CallWait(t, c, lock, from, to) <=> CallWait(t, c, lock, from, to)
         /\ B!CallBroadcast(t, c, lock, from, to) <=> CallBroadcast(t, c, lock, from, to)
         /\ B!Preempt <=> Preempt
         /\ B!SynchInit <=> SynchInit
         /\ B!Halted <=> Halted
<1>1. B!CallFork(t, u, from) <=> CallFork(t, u, from)
  BY DEF B!CallFork, CallFork, B!Fork, Fork, B!ReadyToRun, ReadyToRun,
    B!synchVars, synchVars, B!AtUserCode, AtUserCode, B!Running, Running,
    B!SortedInsert, SortedInsert, B!InsertPosition, InsertPosition,
    B!InsertAt, InsertAt, B!Min, Min
<1>2. B!CallFinish(t, from) <=> CallFinish(t, from)
  BY DEF B!CallFinish, CallFinish, B!Finish, Finish, B!SleepWith, SleepWith,
    B!Run, Run, B!Goto, Goto, B!synchVars, synchVars, B!AtUserCode,
    AtUserCode, B!Running, Running
<1>3. B!CallYield(t, from, to) <=> CallYield(t, from, to)
  BY DEF B!CallYield, CallYield, B!Yield, Yield, B!Run, Run, B!Goto, Goto,
    B!schedVars, schedVars, B!synchVars, synchVars, B!AtUserCode, AtUserCode,
    B!Running, Running, B!SortedInsert, SortedInsert, B!InsertPosition,
    InsertPosition, B!InsertAt, InsertAt, B!Min, Min
<1>4. B!CallAcquire(t, lock, from, to) <=> CallAcquire(t, lock, from, to)
  BY DEF B!CallAcquire, CallAcquire, B!Acquire, Acquire, B!Running, Running,
    B!SemaphoreP, SemaphoreP, B!Sleep, Sleep, B!SleepWith, SleepWith, B!Run,
    Run, B!schedVars, schedVars, B!condVars, condVars
<1>5. B!CallRelease(t, lock, from, to) <=> CallRelease(t, lock, from, to)
  BY DEF B!CallRelease, CallRelease, B!Release, Release, B!Goto, Goto,
    B!condVars, condVars, B!AtUserCode, AtUserCode, B!Running, Running,
    B!SemaphoreV, SemaphoreV, B!ReadyAfterV, ReadyAfterV, B!StatusAfterV,
    StatusAfterV, B!SortedInsert, SortedInsert, B!InsertPosition,
    InsertPosition, B!InsertAt, InsertAt, B!Min, Min
<1>6. B!CallWait(t, c, lock, from, to) <=> CallWait(t, c, lock, from, to)
  BY DEF B!CallWait, CallWait, B!Wait, Wait, B!Acquire, Acquire, B!Running,
    Running, B!SemaphoreP, SemaphoreP, B!Sleep, Sleep, B!SleepWith, SleepWith,
    B!Run, Run, B!schedVars, schedVars, B!condVars, condVars, B!SemaphoreV,
    SemaphoreV, B!ReadyAfterV, ReadyAfterV, B!StatusAfterV, StatusAfterV,
    B!SortedInsert, SortedInsert, B!InsertPosition, InsertPosition,
    B!InsertAt, InsertAt, B!Min, Min
<1>7. B!CallBroadcast(t, c, lock, from, to) <=> CallBroadcast(t, c, lock, from, to)
  BY DEF B!CallBroadcast, CallBroadcast, B!Broadcast, Broadcast, B!Running,
    Running, B!ReadyToRun, ReadyToRun, B!semVars, semVars, B!schedVars,
    schedVars, B!SortedInsert, SortedInsert, B!InsertPosition, InsertPosition,
    B!InsertAt, InsertAt, B!Min, Min
<1>8. B!Preempt <=> Preempt
  BY DEF B!Preempt, Preempt, B!Yield, Yield, B!Run, Run, B!synchVars,
    synchVars, B!AtUserCode, AtUserCode, B!Running, Running, B!SortedInsert,
    SortedInsert, B!InsertPosition, InsertPosition, B!InsertAt, InsertAt,
    B!Min, Min
<1>9. B!SynchInit <=> SynchInit
  BY DEF B!SynchInit, SynchInit, B!SchedInit, SchedInit
<1>10. B!Halted <=> Halted
  BY DEF B!Halted, Halted, B!Idling, Idling
<1> QED
  BY <1>1, <1>2, <1>3, <1>4, <1>5, <1>6, <1>7, <1>8, <1>9, <1>10

\* And so for the synchronized list,
LEMMA ListCalls ==
  ASSUME NEW t, NEW u, NEW c, NEW from, NEW to
  PROVE  /\ L!CallFork(t, u, from) <=> CallFork(t, u, from)
         /\ L!CallFinish(t, from) <=> CallFinish(t, from)
         /\ L!CallAcquire(t, lock, from, to) <=> CallAcquire(t, lock, from, to)
         /\ L!CallRelease(t, lock, from, to) <=> CallRelease(t, lock, from, to)
         /\ L!CallWait(t, c, lock, from, to) <=> CallWait(t, c, lock, from, to)
         /\ L!CallSignal(t, c, lock, from, to) <=> CallSignal(t, c, lock, from, to)
         /\ L!Preempt <=> Preempt
         /\ L!SynchInit <=> SynchInit
         /\ L!Halted <=> Halted
<1>1. L!CallFork(t, u, from) <=> CallFork(t, u, from)
  BY DEF L!CallFork, CallFork, L!Fork, Fork, L!ReadyToRun, ReadyToRun,
    L!synchVars, synchVars, L!AtUserCode, AtUserCode, L!Running, Running,
    L!SortedInsert, SortedInsert, L!InsertPosition, InsertPosition,
    L!InsertAt, InsertAt, L!Min, Min
<1>2. L!CallFinish(t, from) <=> CallFinish(t, from)
  BY DEF L!CallFinish, CallFinish, L!Finish, Finish, L!SleepWith, SleepWith,
    L!Run, Run, L!Goto, Goto, L!synchVars, synchVars, L!AtUserCode,
    AtUserCode, L!Running, Running
<1>3. L!CallAcquire(t, lock, from, to) <=> CallAcquire(t, lock, from, to)
  BY DEF L!CallAcquire, CallAcquire, L!Acquire, Acquire, L!Running, Running,
    L!SemaphoreP, SemaphoreP, L!Sleep, Sleep, L!SleepWith, SleepWith, L!Run,
    Run, L!schedVars, schedVars, L!condVars, condVars
<1>4. L!CallRelease(t, lock, from, to) <=> CallRelease(t, lock, from, to)
  BY DEF L!CallRelease, CallRelease, L!Release, Release, L!Goto, Goto,
    L!condVars, condVars, L!AtUserCode, AtUserCode, L!Running, Running,
    L!SemaphoreV, SemaphoreV, L!ReadyAfterV, ReadyAfterV, L!StatusAfterV,
    StatusAfterV, L!SortedInsert, SortedInsert, L!InsertPosition,
    InsertPosition, L!InsertAt, InsertAt, L!Min, Min
<1>5. L!CallWait(t, c, lock, from, to) <=> CallWait(t, c, lock, from, to)
  BY DEF L!CallWait, CallWait, L!Wait, Wait, L!Acquire, Acquire, L!Running,
    Running, L!SemaphoreP, SemaphoreP, L!Sleep, Sleep, L!SleepWith, SleepWith,
    L!Run, Run, L!schedVars, schedVars, L!condVars, condVars, L!SemaphoreV,
    SemaphoreV, L!ReadyAfterV, ReadyAfterV, L!StatusAfterV, StatusAfterV,
    L!SortedInsert, SortedInsert, L!InsertPosition, InsertPosition,
    L!InsertAt, InsertAt, L!Min, Min
<1>6. L!CallSignal(t, c, lock, from, to) <=> CallSignal(t, c, lock, from, to)
  BY DEF L!CallSignal, CallSignal, L!Signal, Signal, L!Goto, Goto,
    L!ReadyToRun, ReadyToRun, L!semVars, semVars, L!schedVars, schedVars,
    L!AtUserCode, AtUserCode, L!Running, Running, L!SortedInsert,
    SortedInsert, L!InsertPosition, InsertPosition, L!InsertAt, InsertAt,
    L!Min, Min
<1>7. L!Preempt <=> Preempt
  BY DEF L!Preempt, Preempt, L!Yield, Yield, L!Run, Run, L!synchVars,
    synchVars, L!AtUserCode, AtUserCode, L!Running, Running, L!SortedInsert,
    SortedInsert, L!InsertPosition, InsertPosition, L!InsertAt, InsertAt,
    L!Min, Min
<1>8. L!SynchInit <=> SynchInit
  BY DEF L!SynchInit, SynchInit, L!SchedInit, SchedInit
<1>9. L!Halted <=> Halted
  BY DEF L!Halted, Halted, L!Idling, Idling
<1> QED
  BY <1>1, <1>2, <1>3, <1>4, <1>5, <1>6, <1>7, <1>8, <1>9

\* the synchronous disk
LEMMA DiskCalls ==
  ASSUME NEW t, NEW u, NEW s, NEW from, NEW to
  PROVE  /\ D!CallFork(t, u, from) <=> CallFork(t, u, from)
         /\ D!CallFinish(t, from) <=> CallFinish(t, from)
         /\ D!CallP(t, s, from, to) <=> CallP(t, s, from, to)
         /\ D!CallAcquire(t, lock, from, to) <=> CallAcquire(t, lock, from, to)
         /\ D!CallRelease(t, lock, from, to) <=> CallRelease(t, lock, from, to)
         /\ D!Preempt <=> Preempt
         /\ D!V(s) <=> V(s)
         /\ D!Dispatch <=> Dispatch
         /\ D!AtUserCode(t) <=> AtUserCode(t)
         /\ D!SynchInit <=> SynchInit
         /\ D!Halted <=> Halted
<1>1. D!CallFork(t, u, from) <=> CallFork(t, u, from)
  BY DEF D!CallFork, CallFork, D!Fork, Fork, D!ReadyToRun, ReadyToRun,
    D!synchVars, synchVars, D!AtUserCode, AtUserCode, D!Running, Running,
    D!SortedInsert, SortedInsert, D!InsertPosition, InsertPosition,
    D!InsertAt, InsertAt, D!Min, Min
<1>2. D!CallFinish(t, from) <=> CallFinish(t, from)
  BY DEF D!CallFinish, CallFinish, D!Finish, Finish, D!SleepWith, SleepWith,
    D!Run, Run, D!Goto, Goto, D!synchVars, synchVars, D!AtUserCode,
    AtUserCode, D!Running, Running
<1>3. D!CallP(t, s, from, to) <=> CallP(t, s, from, to)
  BY DEF D!CallP, CallP, D!P, P, D!Running, Running, D!SemaphoreP, SemaphoreP,
    D!Sleep, Sleep, D!SleepWith, SleepWith, D!Run, Run, D!schedVars,
    schedVars, D!condVars, condVars
<1>4. D!CallAcquire(t, lock, from, to) <=> CallAcquire(t, lock, from, to)
  BY DEF D!CallAcquire, CallAcquire, D!Acquire, Acquire, D!Running, Running,
    D!SemaphoreP, SemaphoreP, D!Sleep, Sleep, D!SleepWith, SleepWith, D!Run,
    Run, D!schedVars, schedVars, D!condVars, condVars
<1>5. D!CallRelease(t, lock, from, to) <=> CallRelease(t, lock, from, to)
  BY DEF D!CallRelease, CallRelease, D!Release, Release, D!Goto, Goto,
    D!condVars, condVars, D!AtUserCode, AtUserCode, D!Running, Running,
    D!SemaphoreV, SemaphoreV, D!ReadyAfterV, ReadyAfterV, D!StatusAfterV,
    StatusAfterV, D!SortedInsert, SortedInsert, D!InsertPosition,
    InsertPosition, D!InsertAt, InsertAt, D!Min, Min
<1>6. D!Preempt <=> Preempt
  BY DEF D!Preempt, Preempt, D!Yield, Yield, D!Run, Run, D!synchVars,
    synchVars, D!AtUserCode, AtUserCode, D!Running, Running, D!SortedInsert,
    SortedInsert, D!InsertPosition, InsertPosition, D!InsertAt, InsertAt,
    D!Min, Min
<1>7. D!V(s) <=> V(s)
  BY DEF D!V, V, D!condVars, condVars, D!SemaphoreV, SemaphoreV,
    D!ReadyAfterV, ReadyAfterV, D!StatusAfterV, StatusAfterV, D!SortedInsert,
    SortedInsert, D!InsertPosition, InsertPosition, D!InsertAt, InsertAt,
    D!Min, Min
<1>8. D!Dispatch <=> Dispatch
  BY DEF D!Dispatch, Dispatch, D!Idling, Idling, D!Run, Run
<1>9. D!AtUserCode(t) <=> AtUserCode(t)
  BY DEF D!AtUserCode, AtUserCode, D!Running, Running
<1>10. D!SynchInit <=> SynchInit
  BY DEF D!SynchInit, SynchInit, D!SchedInit, SchedInit
<1>11. D!Halted <=> Halted
  BY DEF D!Halted, Halted, D!Idling, Idling
<1> QED
  BY <1>1, <1>2, <1>3, <1>4, <1>5, <1>6, <1>7, <1>8, <1>9, <1>10, <1>11

\* and the console.
LEMMA ConsoleCalls ==
  ASSUME NEW t, NEW s, NEW from, NEW to
  PROVE  /\ C!CallP(t, s, from, to) <=> CallP(t, s, from, to)
         /\ C!V(s) <=> V(s)
         /\ C!Dispatch <=> Dispatch
         /\ C!AtUserCode(t) <=> AtUserCode(t)
         /\ C!SynchInit <=> SynchInit
<1>1. C!CallP(t, s, from, to) <=> CallP(t, s, from, to)
  BY DEF C!CallP, CallP, C!P, P, C!Running, Running, C!SemaphoreP, SemaphoreP,
    C!Sleep, Sleep, C!SleepWith, SleepWith, C!Run, Run, C!schedVars,
    schedVars, C!condVars, condVars
<1>2. C!V(s) <=> V(s)
  BY DEF C!V, V, C!condVars, condVars, C!SemaphoreV, SemaphoreV,
    C!ReadyAfterV, ReadyAfterV, C!StatusAfterV, StatusAfterV, C!SortedInsert,
    SortedInsert, C!InsertPosition, InsertPosition, C!InsertAt, InsertAt,
    C!Min, Min
<1>3. C!Dispatch <=> Dispatch
  BY DEF C!Dispatch, Dispatch, C!Idling, Idling, C!Run, Run
<1>4. C!AtUserCode(t) <=> AtUserCode(t)
  BY DEF C!AtUserCode, AtUserCode, C!Running, Running
<1>5. C!SynchInit <=> SynchInit
  BY DEF C!SynchInit, SynchInit, C!SchedInit, SchedInit
<1> QED
  BY <1>1, <1>2, <1>3, <1>4, <1>5

-----------------------------------------------------------------------------
LEMMA Distinguished ==
  /\ Main \in Thread /\ lock \in Lock /\ lock \in Semaphore /\ Lock = {lock}
  /\ {semaphore, readAvail, writeDone} \subseteq Semaphore \ Lock
  /\ semaphore # readAvail /\ semaphore # writeDone /\ readAvail # writeDone
  /\ lock # semaphore /\ lock # readAvail /\ lock # writeDone
  /\ bridgeFull \in Condition /\ listEmpty \in Condition
  /\ Car \subseteq Thread /\ Appender \subseteq Thread /\ Remover \subseteq Thread
  /\ Client \subseteq Thread /\ Crew \subseteq Thread
  /\ Main \notin Car \cup Appender \cup Remover \cup Client
  /\ Appender \cap Remover = {}
  /\ NULL \notin Thread /\ NULL \notin Semaphore /\ NULL \notin Condition
BY NachosAssumption, ThreadAssumption, NullAssumption, SemaphoreAssumption DEF Crew

\* Each kernel call of a program is a step of SynchProofs, when its thread
\* sleeps in no P() but the one it is called in.
LEMMA CallStep ==
  ASSUME SynchTypeOK, NEW t \in Thread, inP[t] \in {NULL} \cup AwaitedAt(pc[t]),
         NEW from, NEW to
  PROVE  /\ \A s \in Semaphore \ Lock :
              CallP(t, s, from, to) /\ AwaitedAt(from) \subseteq {s} => SynchStep
         /\ CallAcquire(t, lock, from, to) /\ AwaitedAt(from) \subseteq {lock} => SynchStep
         /\ CallRelease(t, lock, from, to) => SynchStep
         /\ \A c \in Condition :
              /\ CallSignal(t, c, lock, from, to) => SynchStep
              /\ CallBroadcast(t, c, lock, from, to) => SynchStep
              /\ CallWait(t, c, lock, from, to) /\ AwaitedAt(from) \subseteq {lock} => SynchStep
         /\ CallYield(t, from, to) => SynchStep
         /\ CallFinish(t, from) => SynchStep
         /\ \A u \in Thread : CallFork(t, u, from) => SynchStep
<1>a. /\ inP[t] \in Semaphore \cup {NULL} /\ lock \in Lock
  BY Distinguished DEF SynchTypeOK
<1>1. ASSUME NEW s \in Semaphore \ Lock, CallP(t, s, from, to), AwaitedAt(from) \subseteq {s}
      PROVE  SynchStep
  BY <1>1 DEF CallP, Routine, SynchStep
<1>2. ASSUME CallAcquire(t, lock, from, to), AwaitedAt(from) \subseteq {lock}
      PROVE  SynchStep
  BY <1>a, <1>2 DEF CallAcquire, Routine, SynchStep
<1>3. ASSUME CallRelease(t, lock, from, to)
      PROVE  SynchStep
  BY <1>a, <1>3 DEF CallRelease, AtUserCode, Routine, SynchStep
<1>4. ASSUME NEW c \in Condition, CallSignal(t, c, lock, from, to)
      PROVE  SynchStep
  BY <1>a, <1>4 DEF CallSignal, AtUserCode, Routine, SynchStep
<1>5. ASSUME NEW c \in Condition, CallBroadcast(t, c, lock, from, to)
      PROVE  SynchStep
  BY <1>a, <1>5 DEF CallBroadcast, Routine, SynchStep
<1>6. ASSUME NEW c \in Condition, CallWait(t, c, lock, from, to),
             AwaitedAt(from) \subseteq {lock}
      PROVE  SynchStep
  <2>1. CASE inP[t] = NULL
    BY <1>a, <1>6, <2>1 DEF CallWait, Routine, SynchStep
  <2>2. CASE inP[t] # NULL
    BY <1>2, <1>6, <2>2 DEF CallWait, CallAcquire
  <2> QED
    BY <2>1, <2>2
<1>7. ASSUME CallYield(t, from, to)
      PROVE  SynchStep
  BY <1>7 DEF CallYield, AtUserCode, Routine, SynchStep
<1>8. ASSUME CallFinish(t, from)
      PROVE  SynchStep
  BY <1>8 DEF CallFinish, AtUserCode, Routine, SynchStep
<1>9. ASSUME NEW u \in Thread, CallFork(t, u, from)
      PROVE  SynchStep
  BY <1>9 DEF CallFork, AtUserCode, Routine, SynchStep
<1> QED
  BY <1>1, <1>2, <1>3, <1>4, <1>5, <1>6, <1>7, <1>8, <1>9

\* What a Yield() at the timer's request and a Fork() leave alone.
LEMMA QuietCalls ==
  ASSUME NEW t \in Thread, NEW u, NEW from
  PROVE  /\ CallFork(t, u, from) => Still /\ broadcasting = NULL
         /\ Preempt => Still /\ broadcasting = NULL
         /\ Dispatch /\ UNCHANGED <<synchVars, pc>> => Still
BY DEF CallFork, Fork, ReadyToRun, Preempt, Yield, Dispatch, AtUserCode, Still, WaitSet, synchVars
-----------------------------------------------------------------------------
(* What a step of each program does.                                       *)

CarEffect(car) ==
  \/ /\ num[car] < Crossings /\ Acquires(car, lock, "Arrive", "test")
     /\ UNCHANGED <<carVars, num>>
  \/ B!MustWait(car) /\ Waits(car, bridgeFull, lock, "test") /\ UNCHANGED <<carVars, num>>
  \/ inP[car] # NULL /\ Acquires(car, lock, "test", "test") /\ UNCHANGED <<carVars, num>>
  \/ /\ ~B!MustWait(car) /\ Releases(car, lock, "test", "ready")
     /\ numCars' = numCars + 1 /\ currentDirec' = B!direc(car) /\ num' = num
  \/ Passes(car, "ready", "cross") /\ UNCHANGED <<carVars, num>>
  \/ Passes(car, "cross", "Exit") /\ UNCHANGED <<carVars, num>>
  \/ Acquires(car, lock, "Exit", "broadcast") /\ UNCHANGED <<carVars, num>>
  \/ /\ Broadcasts(car, bridgeFull, lock, "broadcast", "release")
     /\ numCars' = IF broadcasting = NULL THEN numCars - 1 ELSE numCars
     /\ UNCHANGED <<currentDirec, num>>
  \/ Releases(car, lock, "release", "away") /\ UNCHANGED <<carVars, num>>
  \/ /\ Passes(car, "away", "Arrive")
     /\ num' = [num EXCEPT ![car] = @ + 1] /\ UNCHANGED carVars
  \/ Ends(car, "Arrive") /\ UNCHANGED <<carVars, num>>

AppendEffect(a) ==
  \/ num[a] < Items /\ Acquires(a, lock, "Append", "signal") /\ UNCHANGED <<listVars, num>>
  \/ /\ Signals(a, listEmpty, lock, "signal", "append.Release")
     /\ list' = Append(list, [thread_id |-> a, value |-> num[a]])
     /\ num' = [num EXCEPT ![a] = @ + 1] /\ removed' = removed
  \/ Releases(a, lock, "append.Release", "Append") /\ UNCHANGED <<listVars, num>>
  \/ num[a] = Items /\ Ends(a, "Append") /\ UNCHANGED <<listVars, num>>

RemoveEffect(r) ==
  \/ Acquires(r, lock, "Remove", "test") /\ UNCHANGED <<listVars, num>>
  \/ list = <<>> /\ Waits(r, listEmpty, lock, "test") /\ UNCHANGED <<listVars, num>>
  \/ inP[r] # NULL /\ Acquires(r, lock, "test", "test") /\ UNCHANGED <<listVars, num>>
  \/ /\ list # <<>> /\ Releases(r, lock, "test", "Remove")
     /\ list' = Tail(list) /\ removed' = [removed EXCEPT ![r] = Append(@, Head(list))]
     /\ num' = num
  \/ Ends(r, "Remove") /\ UNCHANGED <<listVars, num>>

\* Disk::ReadRequest() or WriteRequest(), before the P().
Requested(t) ==
  /\ active' = TRUE /\ serving' = t
  /\ \E s \in Sector : \E d \in Data :
       /\ \/ d = contents[s] /\ contents' = contents
          \/ contents' = [contents EXCEPT ![s] = d]
       /\ buffer' = [buffer EXCEPT ![t] = [sector |-> s, data |-> d]]

ClientEffect(t) ==
  \/ Acquires(t, lock, "Acquire", "request") /\ UNCHANGED diskVars
  \/ inP[t] = NULL /\ Downs(t, semaphore, "request", "release") /\ Requested(t)
  \/ inP[t] = semaphore /\ Downs(t, semaphore, "request", "release") /\ UNCHANGED diskVars
  \/ Releases(t, lock, "release", "Acquire") /\ UNCHANGED diskVars
  \/ num[t] = Requests /\ Ends(t, "Acquire") /\ UNCHANGED diskVars

DiskInterruptEffect ==
  /\ active /\ active' = FALSE /\ serving' = NULL /\ Raises(semaphore)
  /\ UNCHANGED <<contents, buffer>>

EchoEffect ==
  \/ Downs(Main, readAvail, "read", "echo") /\ UNCHANGED consoleVars
  \/ /\ inP[Main] = NULL /\ ~putBusy /\ Downs(Main, writeDone, "echo", "next")
     /\ incoming' = EOF /\ putBusy' = TRUE /\ shown' = Append(shown, incoming)
     /\ typed' = typed
  \/ /\ inP[Main] = writeDone /\ Downs(Main, writeDone, "echo", "next")
     /\ UNCHANGED consoleVars
  \/ /\ Passes(Main, "next", "halted") \/ Passes(Main, "next", "read")
     /\ UNCHANGED consoleVars

ConsoleInterruptEffect ==
  \/ /\ incoming = EOF /\ Raises(readAvail)
     /\ \E c \in Char : incoming' = c /\ typed' = Append(typed, c)
     /\ UNCHANGED <<putBusy, shown>>
  \/ /\ putBusy /\ putBusy' = FALSE /\ Raises(writeDone)
     /\ UNCHANGED <<incoming, typed, shown>>

progVars == <<num, carVars, listVars, diskVars, consoleVars>>

Effect ==
  /\ program' = program
  /\ \/ /\ Still /\ UNCHANGED progVars
        /\ program = "SynchTest" => broadcasting = NULL \/ status' = status
     \/ /\ Ends(Main, "fork") /\ program # "ConsoleTest" /\ UNCHANGED progVars
        /\ \A t \in Crew : status[t] # "JUST_CREATED"
     \/ program = "SynchTest" /\ \E car \in Car : CarEffect(car)
     \/ program = "SynchList" /\ \E a \in Appender : AppendEffect(a)
     \/ program = "SynchList" /\ \E r \in Remover : RemoveEffect(r)
     \/ program = "SynchDisk" /\ \E t \in Client : ClientEffect(t)
     \/ program = "SynchDisk" /\ DiskInterruptEffect
     \/ program = "ConsoleTest" /\ (EchoEffect \/ ConsoleInterruptEffect)


LEMMA BridgeEffect ==
  ASSUME SynchTypeOK, Where, LockInv, Control, SynchTest,
         \/ B!MainFork \/ B!MainFinish \/ B!TimeSlice
         \/ \E t \in Worker : t \in Car /\ B!CarStep(t)
  PROVE  SynchStep /\ Effect
<1>1. /\ program' = program /\ program = "SynchTest" /\ UNCHANGED <<listVars, diskVars>>
      /\ UNCHANGED consoleVars /\ Main \in Thread /\ Crew = Car /\ bridgeFull \in Condition
      /\ lock \in Lock /\ Car \subseteq Thread /\ current \in Thread
  BY Distinguished DEF SynchTest, Crew, SynchTypeOK, SchedTypeOK
<1>2. \A t \in Thread : inP[t] \in {NULL} \cup AwaitedAt(pc[t])
  BY DEF Control
<1>3. CASE B!MainFork
  <2>1. PICK u \in Car : B!CallFork(Main, u, "fork")
    BY <1>3 DEF B!MainFork
  <2>2. UNCHANGED <<carVars, num>>
    BY <1>3 DEF B!MainFork, B!progVars, carVars
  <2>3. CallFork(Main, u, "fork")
    BY <2>1, BridgeCalls
  <2> QED
    BY Zenon, <1>1, <1>2, <2>1, <2>2, <2>3, CallStep, QuietCalls DEF Effect, progVars
<1>4. CASE B!MainFinish
  <2>1. CallFinish(Main, "fork") /\ UNCHANGED <<carVars, num>>
    BY <1>4, BridgeCalls DEF B!MainFinish, B!progVars, carVars
  <2>2. Ends(Main, "fork") /\ SynchStep
    BY Zenon, <1>1, <1>2, <2>1, CallStep, CallFinishFacts
  <2> QED
    BY <1>1, <1>4, <2>1, <2>2 DEF B!MainFinish, Effect, progVars
<1>5. CASE B!TimeSlice
  <2>1. Preempt /\ UNCHANGED <<carVars, num>>
    BY <1>5, BridgeCalls DEF B!TimeSlice, B!progVars, carVars
  <2>2. SynchStep
    BY <1>1, <2>1 DEF Preempt, AtUserCode, Running, Routine, SynchStep
  <2> QED
    BY <1>1, <2>1, <2>2, QuietCalls DEF Effect, progVars
<1>6. ASSUME NEW car \in Car, B!CarStep(car)
      PROVE  SynchStep /\ CarEffect(car)
  <2>0. car \in Thread /\ inP[car] \in {NULL} \cup AwaitedAt(pc[car])
    BY <1>1, <1>2
  <2>1. CASE B!ArriveAcquire(car)
    <3>1. CallAcquire(car, lock, "Arrive", "test") /\ num[car] < Crossings
          /\ UNCHANGED <<carVars, num>>
      BY <2>1, BridgeCalls DEF B!ArriveAcquire, B!progVars, carVars
    <3>2. SynchStep
      BY <2>0, <3>1, CallStep DEF AwaitedAt
    <3> QED
      BY <1>1, <2>0, <3>1, <3>2, CallAcquireFacts DEF CarEffect
  <2>2. CASE B!ArriveWait(car)
    <3>1. /\ CallWait(car, bridgeFull, lock, "test", "test") /\ UNCHANGED <<carVars, num>>
          /\ B!MustWait(car) \/ inP[car] # NULL
      BY <2>2, BridgeCalls DEF B!ArriveWait, B!progVars, carVars
    <3>2. SynchStep
      BY Zenon, <1>1, <2>0, <3>1, CallStep DEF AwaitedAt
    <3>3. \/ inP[car] = NULL /\ Waits(car, bridgeFull, lock, "test")
          \/ inP[car] # NULL /\ Acquires(car, lock, "test", "test")
      BY <1>1, <2>0, <3>1, CallWaitFacts
    <3> QED
      BY <3>1, <3>2, <3>3 DEF CarEffect
  <2>3. CASE B!ArriveEnter(car)
    <3>1. /\ CallRelease(car, lock, "test", "ready") /\ ~B!MustWait(car)
          /\ numCars' = numCars + 1 /\ currentDirec' = B!direc(car) /\ num' = num
      BY <2>3, BridgeCalls DEF B!ArriveEnter
    <3>2. SynchStep
      BY <2>0, <3>1, CallStep
    <3> QED
      BY <1>1, <2>0, <3>1, <3>2, CallReleaseFacts DEF CarEffect
  <2>4. CASE B!YieldReady(car)
    <3>1. CallYield(car, "ready", "cross") /\ UNCHANGED <<carVars, num>>
      BY <2>4, BridgeCalls DEF B!YieldReady, B!progVars, carVars
    <3>2. SynchStep
      BY <2>0, <3>1, CallStep
    <3> QED
      BY <2>0, <3>1, <3>2, CallYieldFacts DEF CarEffect
  <2>5. CASE B!YieldCross(car)
    <3>1. CallYield(car, "cross", "Exit") /\ UNCHANGED <<carVars, num>>
      BY <2>5, BridgeCalls DEF B!YieldCross, B!progVars, carVars
    <3>2. SynchStep
      BY <2>0, <3>1, CallStep
    <3> QED
      BY <2>0, <3>1, <3>2, CallYieldFacts DEF CarEffect
  <2>6. CASE B!ExitAcquire(car)
    <3>1. CallAcquire(car, lock, "Exit", "broadcast") /\ UNCHANGED <<carVars, num>>
      BY <2>6, BridgeCalls DEF B!ExitAcquire, B!progVars, carVars
    <3>2. SynchStep
      BY <2>0, <3>1, CallStep DEF AwaitedAt
    <3> QED
      BY <1>1, <2>0, <3>1, <3>2, CallAcquireFacts DEF CarEffect
  <2>7. CASE B!ExitBroadcast(car)
    <3>1. /\ CallBroadcast(car, bridgeFull, lock, "broadcast", "release")
          /\ numCars' = IF broadcasting = NULL THEN numCars - 1 ELSE numCars
          /\ UNCHANGED <<currentDirec, num>>
      BY <2>7, BridgeCalls DEF B!ExitBroadcast
    <3>2. SynchStep
      BY Zenon, <1>1, <2>0, <3>1, CallStep
    <3> QED
      BY <1>1, <2>0, <3>1, <3>2, CallBroadcastFacts DEF CarEffect
  <2>8. CASE B!ExitRelease(car)
    <3>1. CallRelease(car, lock, "release", "away") /\ UNCHANGED <<carVars, num>>
      BY <2>8, BridgeCalls DEF B!ExitRelease, B!progVars, carVars
    <3>2. SynchStep
      BY <2>0, <3>1, CallStep
    <3> QED
      BY <1>1, <2>0, <3>1, <3>2, CallReleaseFacts DEF CarEffect
  <2>9. CASE B!YieldAway(car)
    <3>1. /\ CallYield(car, "away", "Arrive") /\ UNCHANGED carVars
          /\ num' = [num EXCEPT ![car] = @ + 1]
      BY <2>9, BridgeCalls DEF B!YieldAway, carVars
    <3>2. SynchStep
      BY <2>0, <3>1, CallStep
    <3> QED
      BY <2>0, <3>1, <3>2, CallYieldFacts DEF CarEffect
  <2>10. CASE B!CarFinish(car)
    <3>1. CallFinish(car, "Arrive") /\ UNCHANGED <<carVars, num>>
      BY <2>10, BridgeCalls DEF B!CarFinish, B!progVars, carVars
    <3>2. SynchStep
      BY <2>0, <3>1, CallStep
    <3> QED
      BY <2>0, <3>1, <3>2, CallFinishFacts DEF CarEffect
  <2> QED
    BY <1>6, <2>1, <2>2, <2>3, <2>4, <2>5, <2>6, <2>7, <2>8, <2>9, <2>10 DEF B!CarStep
<1> QED
  BY <1>1, <1>3, <1>4, <1>5, <1>6 DEF Effect

LEMMA ListEffect ==
  ASSUME SynchTypeOK, Where, LockInv, Control, ListTest,
         \/ L!MainFork \/ L!MainFinish \/ L!TimeSlice
         \/ \E t \in Worker : t \in Appender \cup Remover /\ L!ThreadStep(t)
  PROVE  SynchStep /\ Effect
<1>1. /\ program' = program /\ program = "SynchList" /\ UNCHANGED <<carVars, diskVars>>
      /\ UNCHANGED consoleVars /\ Main \in Thread /\ Crew = Appender \cup Remover
      /\ listEmpty \in Condition /\ lock \in Lock /\ current \in Thread
      /\ Appender \subseteq Thread /\ Remover \subseteq Thread
  BY Distinguished DEF ListTest, Crew, SynchTypeOK, SchedTypeOK
<1>2. \A t \in Thread : inP[t] \in {NULL} \cup AwaitedAt(pc[t])
  BY DEF Control
<1>3. CASE L!MainFork
  <2>1. PICK u \in Appender \cup Remover :
          L!CallFork(Main, u, "fork") /\ UNCHANGED <<listVars, num>>
    BY <1>3 DEF L!MainFork, L!progVars, listVars
  <2>2. CallFork(Main, u, "fork") /\ u \in Thread
    BY <1>1, <2>1, ListCalls
  <2>3. SynchStep /\ Still
    BY Zenon, <1>1, <1>2, <2>2, CallStep, QuietCalls
  <2> QED
    BY <1>1, <2>1, <2>3 DEF Effect, progVars
<1>4. CASE L!MainFinish
  <2>1. CallFinish(Main, "fork") /\ UNCHANGED <<listVars, num>>
    BY <1>4, ListCalls DEF L!MainFinish, L!progVars, listVars
  <2>2. Ends(Main, "fork") /\ SynchStep
    BY Zenon, <1>1, <1>2, <2>1, CallStep, CallFinishFacts
  <2> QED
    BY <1>1, <1>4, <2>1, <2>2 DEF L!MainFinish, Effect, progVars
<1>5. CASE L!TimeSlice
  <2>1. Preempt /\ UNCHANGED <<listVars, num>>
    BY <1>5, ListCalls DEF L!TimeSlice, L!progVars, listVars
  <2>2. SynchStep
    BY <1>1, <2>1 DEF Preempt, AtUserCode, Running, Routine, SynchStep
  <2> QED
    BY <1>1, <2>1, <2>2, QuietCalls DEF Effect, progVars
<1>6. ASSUME NEW a \in Appender,
             L!AppendAcquire(a) \/ L!AppendSignal(a) \/ L!AppendRelease(a) \/ L!AppenderFinish(a)
      PROVE  SynchStep /\ AppendEffect(a)
  <2>0. a \in Thread /\ inP[a] \in {NULL} \cup AwaitedAt(pc[a])
    BY <1>1, <1>2
  <2>1. CASE L!AppendAcquire(a)
    <3>1. CallAcquire(a, lock, "Append", "signal") /\ num[a] < Items
          /\ UNCHANGED <<listVars, num>>
      BY <2>1, ListCalls DEF L!AppendAcquire, L!progVars, listVars
    <3>2. SynchStep
      BY <2>0, <3>1, CallStep DEF AwaitedAt
    <3> QED
      BY <1>1, <2>0, <3>1, <3>2, CallAcquireFacts DEF AppendEffect
  <2>2. CASE L!AppendSignal(a)
    <3>1. /\ CallSignal(a, listEmpty, lock, "signal", "append.Release")
          /\ list' = Append(list, [thread_id |-> a, value |-> num[a]])
          /\ num' = [num EXCEPT ![a] = @ + 1] /\ removed' = removed
      BY <2>2, ListCalls DEF L!AppendSignal
    <3>2. SynchStep
      BY Zenon, <1>1, <2>0, <3>1, CallStep
    <3> QED
      BY <1>1, <2>0, <3>1, <3>2, CallSignalFacts DEF AppendEffect
  <2>3. CASE L!AppendRelease(a)
    <3>1. CallRelease(a, lock, "append.Release", "Append") /\ UNCHANGED <<listVars, num>>
      BY <2>3, ListCalls DEF L!AppendRelease, L!progVars, listVars
    <3>2. SynchStep
      BY <2>0, <3>1, CallStep
    <3> QED
      BY <1>1, <2>0, <3>1, <3>2, CallReleaseFacts DEF AppendEffect
  <2>4. CASE L!AppenderFinish(a)
    <3>1. CallFinish(a, "Append") /\ num[a] = Items /\ UNCHANGED <<listVars, num>>
      BY <2>4, ListCalls DEF L!AppenderFinish, L!progVars, listVars
    <3>2. SynchStep
      BY <2>0, <3>1, CallStep
    <3> QED
      BY <2>0, <3>1, <3>2, CallFinishFacts DEF AppendEffect
  <2> QED
    BY <1>6, <2>1, <2>2, <2>3, <2>4
<1>7. ASSUME NEW r \in Remover,
             L!RemoveAcquire(r) \/ L!RemoveWait(r) \/ L!RemoveItem(r) \/ L!RemoverFinish(r)
      PROVE  SynchStep /\ RemoveEffect(r)
  <2>0. r \in Thread /\ inP[r] \in {NULL} \cup AwaitedAt(pc[r])
    BY <1>1, <1>2
  <2>1. CASE L!RemoveAcquire(r)
    <3>1. CallAcquire(r, lock, "Remove", "test") /\ UNCHANGED <<listVars, num>>
      BY <2>1, ListCalls DEF L!RemoveAcquire, L!progVars, listVars
    <3>2. SynchStep
      BY <2>0, <3>1, CallStep DEF AwaitedAt
    <3> QED
      BY <1>1, <2>0, <3>1, <3>2, CallAcquireFacts DEF RemoveEffect
  <2>2. CASE L!RemoveWait(r)
    <3>1. /\ CallWait(r, listEmpty, lock, "test", "test") /\ UNCHANGED <<listVars, num>>
          /\ list = <<>> \/ inP[r] # NULL
      BY <2>2, ListCalls DEF L!RemoveWait, L!progVars, listVars
    <3>2. SynchStep
      BY Zenon, <1>1, <2>0, <3>1, CallStep DEF AwaitedAt
    <3>3. \/ inP[r] = NULL /\ Waits(r, listEmpty, lock, "test")
          \/ inP[r] # NULL /\ Acquires(r, lock, "test", "test")
      BY <1>1, <2>0, <3>1, CallWaitFacts
    <3> QED
      BY <3>1, <3>2, <3>3 DEF RemoveEffect
  <2>3. CASE L!RemoveItem(r)
    <3>1. /\ CallRelease(r, lock, "test", "Remove") /\ list # <<>> /\ list' = Tail(list)
          /\ removed' = [removed EXCEPT ![r] = Append(@, Head(list))] /\ num' = num
      BY <2>3, ListCalls DEF L!RemoveItem
    <3>2. SynchStep
      BY <2>0, <3>1, CallStep
    <3> QED
      BY <1>1, <2>0, <3>1, <3>2, CallReleaseFacts DEF RemoveEffect
  <2>4. CASE L!RemoverFinish(r)
    <3>1. CallFinish(r, "Remove") /\ UNCHANGED <<listVars, num>>
      BY <2>4, ListCalls DEF L!RemoverFinish, L!progVars, listVars
    <3>2. SynchStep
      BY <2>0, <3>1, CallStep
    <3> QED
      BY <2>0, <3>1, <3>2, CallFinishFacts DEF RemoveEffect
  <2> QED
    BY <1>7, <2>1, <2>2, <2>3, <2>4
<1> QED
  BY <1>1, <1>3, <1>4, <1>5, <1>6, <1>7 DEF Effect, L!ThreadStep

LEMMA DiskEffect ==
  ASSUME SynchTypeOK, Where, LockInv, Control, ClientInv, DiskTest,
         \/ D!MainFork \/ D!MainFinish \/ D!TimeSlice \/ D!LeaveIdle \/ D!DiskInterrupt
         \/ \E t \in Worker : t \in Client /\ D!ClientStep(t)
  PROVE  SynchStep /\ Effect
<1>1. /\ program' = program /\ program = "SynchDisk" /\ UNCHANGED <<carVars, listVars>>
      /\ UNCHANGED consoleVars /\ Main \in Thread /\ Crew = Client
      /\ semaphore \in Semaphore \ Lock /\ lock \in Lock /\ current \in Thread
      /\ Client \subseteq Thread
  BY Distinguished DEF DiskTest, Crew, SynchTypeOK, SchedTypeOK
<1>2. \A t \in Thread : inP[t] \in {NULL} \cup AwaitedAt(pc[t])
  BY DEF Control
<1>3. CASE D!MainFork
  <2>1. PICK u \in Client : u = CHOOSE t \in Client : status[t] = "JUST_CREATED"
    BY <1>3 DEF D!MainFork
  <2>2. D!CallFork(Main, u, "fork") /\ UNCHANGED <<diskVars, num>>
    BY <1>3, <2>1 DEF D!MainFork, D!progVars, diskVars
  <2>3. CallFork(Main, u, "fork") /\ u \in Thread
    BY <1>1, <2>2, DiskCalls
  <2>4. SynchStep /\ Still
    BY Zenon, <1>1, <1>2, <2>3, CallStep, QuietCalls
  <2> QED
    BY <1>1, <2>2, <2>4 DEF Effect, progVars
<1>4. CASE D!MainFinish
  <2>1. CallFinish(Main, "fork") /\ UNCHANGED <<diskVars, num>>
    BY <1>4, DiskCalls DEF D!MainFinish, D!progVars, diskVars
  <2>2. Ends(Main, "fork") /\ SynchStep
    BY <1>1, <1>2, <2>1, CallStep, CallFinishFacts
  <2> QED
    BY <1>1, <1>4, <2>1, <2>2 DEF D!MainFinish, Effect, progVars
<1>5. CASE D!TimeSlice
  <2>1. Preempt /\ UNCHANGED <<diskVars, num>>
    BY <1>5, DiskCalls DEF D!TimeSlice, D!progVars, diskVars
  <2>2. SynchStep
    BY <1>1, <2>1 DEF Preempt, AtUserCode, Running, Routine, SynchStep
  <2> QED
    BY <1>1, <2>1, <2>2, QuietCalls DEF Effect, progVars
<1>6. CASE D!LeaveIdle
  <2>1. Dispatch /\ UNCHANGED <<synchVars, pc>> /\ UNCHANGED <<diskVars, num>>
    BY <1>6, DiskCalls DEF D!LeaveIdle, D!progVars, diskVars, D!synchVars, synchVars
  <2>2. Still
    BY <1>1, <2>1, QuietCalls
  <2> QED
    BY <1>1, <2>1, <2>2 DEF Effect, progVars, SynchStep
<1>7. CASE D!DiskInterrupt
  <2>1. /\ active /\ V(semaphore) /\ active' = FALSE /\ serving' = NULL
        /\ UNCHANGED <<pc, contents, buffer, num>>
    BY <1>7, DiskCalls DEF D!DiskInterrupt
  <2>2. Raises(semaphore)
    BY <1>1, <2>1, VFacts DEF Raises
  <2> QED
    BY <1>1, <2>1, <2>2 DEF Effect, DiskInterruptEffect, SynchStep
<1>8. ASSUME NEW t \in Client, D!ClientStep(t)
      PROVE  SynchStep /\ ClientEffect(t)
  <2>0. t \in Thread /\ inP[t] \in {NULL} \cup AwaitedAt(pc[t])
    BY <1>1, <1>2
  <2>1. CASE D!AcquireLock(t)
    <3>1. CallAcquire(t, lock, "Acquire", "request") /\ UNCHANGED diskVars
      BY <2>1, DiskCalls DEF D!AcquireLock, D!progVars, diskVars
    <3>2. SynchStep
      BY <2>0, <3>1, CallStep DEF AwaitedAt
    <3> QED
      BY <1>1, <2>0, <3>1, <3>2, CallAcquireFacts DEF ClientEffect
  <2>2. CASE D!ReadRequest(t) \/ D!WriteRequest(t)
    <3>1. inP[t] = NULL /\ CallP(t, semaphore, "request", "release")
      BY <2>2, DiskCalls DEF D!ReadRequest, D!WriteRequest
    <3>2. Requested(t)
      BY <2>2 DEF D!ReadRequest, D!WriteRequest, Requested, ClientInv
    <3>3. SynchStep
      BY Zenon, <1>1, <2>0, <3>1, CallStep DEF AwaitedAt
    <3> QED
      BY <1>1, <2>0, <3>1, <3>2, <3>3, CallPFacts DEF ClientEffect
  <2>3. CASE D!AwaitInterrupt(t)
    <3>1. /\ inP[t] = semaphore /\ CallP(t, semaphore, "request", "release")
          /\ UNCHANGED diskVars
      BY <2>3, DiskCalls DEF D!AwaitInterrupt, D!progVars, diskVars
    <3>2. SynchStep
      BY Zenon, <1>1, <2>0, <3>1, CallStep DEF AwaitedAt
    <3> QED
      BY <1>1, <2>0, <3>1, <3>2, CallPFacts DEF ClientEffect
  <2>4. CASE D!ReleaseLock(t)
    <3>1. CallRelease(t, lock, "release", "Acquire") /\ UNCHANGED diskVars
      BY <2>4, DiskCalls DEF D!ReleaseLock, diskVars
    <3>2. SynchStep
      BY <2>0, <3>1, CallStep
    <3> QED
      BY <1>1, <2>0, <3>1, <3>2, CallReleaseFacts DEF ClientEffect
  <2>5. CASE D!ClientFinish(t)
    <3>1. CallFinish(t, "Acquire") /\ num[t] = Requests /\ UNCHANGED diskVars
      BY <2>5, DiskCalls DEF D!ClientFinish, D!progVars, diskVars
    <3>2. SynchStep
      BY <2>0, <3>1, CallStep
    <3> QED
      BY <2>0, <3>1, <3>2, CallFinishFacts DEF ClientEffect
  <2> QED
    BY <1>8, <2>1, <2>2, <2>3, <2>4, <2>5 DEF D!ClientStep
<1> QED
  BY <1>1, <1>3, <1>4, <1>5, <1>6, <1>7, <1>8 DEF Effect

LEMMA EchoSteps ==
  ASSUME SynchTypeOK, Where, LockInv, Control, ConsoleTest,
         C!TestStep \/ C!WriteDone \/ C!CheckCharAvail \/ C!LeaveIdle
  PROVE  SynchStep /\ Effect
<1>1. /\ program' = program /\ program = "ConsoleTest" /\ Main \in Thread
      /\ UNCHANGED <<num, carVars, listVars, diskVars>>
      /\ readAvail \in Semaphore \ Lock /\ writeDone \in Semaphore \ Lock
      /\ inP[Main] \in {NULL} \cup AwaitedAt(pc[Main])
  BY Distinguished DEF ConsoleTest, Control
<1>2. CASE C!AwaitChar
  <2>1. CallP(Main, readAvail, "read", "echo") /\ UNCHANGED consoleVars
    BY <1>2, ConsoleCalls DEF C!AwaitChar, C!progVars, consoleVars
  <2>2. SynchStep
    BY Zenon, <1>1, <2>1, CallStep DEF AwaitedAt
  <2> QED
    BY <1>1, <2>1, <2>2, CallPFacts DEF EchoEffect, Effect
<1>3. CASE C!Echo
  <2>1. /\ CallP(Main, writeDone, "echo", "next") /\ inP[Main] = NULL /\ ~putBusy
        /\ incoming' = EOF /\ putBusy' = TRUE /\ shown' = Append(shown, incoming)
        /\ typed' = typed
    BY <1>3, ConsoleCalls DEF C!Echo
  <2>2. SynchStep
    BY Zenon, <1>1, <2>1, CallStep DEF AwaitedAt
  <2> QED
    BY <1>1, <2>1, <2>2, CallPFacts DEF EchoEffect, Effect
<1>4. CASE C!AwaitWritten
  <2>1. /\ CallP(Main, writeDone, "echo", "next") /\ inP[Main] = writeDone
        /\ UNCHANGED consoleVars
    BY <1>4, ConsoleCalls DEF C!AwaitWritten, C!progVars, consoleVars
  <2>2. SynchStep
    BY Zenon, <1>1, <2>1, CallStep DEF AwaitedAt
  <2> QED
    BY <1>1, <2>1, <2>2, CallPFacts DEF EchoEffect, Effect
<1>5. CASE C!NextChar
  <2>1. /\ AtUserCode(Main) /\ pc[Main] = "next" /\ UNCHANGED kernelVars
        /\ UNCHANGED consoleVars
        /\ pc' = [pc EXCEPT ![Main] = "halted"] \/ pc' = [pc EXCEPT ![Main] = "read"]
    BY Zenon, <1>5, ConsoleCalls
    DEF C!NextChar, C!progVars, consoleVars, C!Goto, C!kernelVars, kernelVars,
        C!schedVars, schedVars, C!synchVars, synchVars
  <2>2. Passes(Main, "next", "halted") \/ Passes(Main, "next", "read")
    BY <2>1 DEF AtUserCode, Running, kernelVars, schedVars, synchVars, WaitSet, Passes, Goto
  <2> QED
    BY <1>1, <2>1, <2>2 DEF EchoEffect, Effect, SynchStep, kernelVars
<1>6. CASE C!WriteDone
  <2>1. putBusy /\ putBusy' = FALSE /\ V(writeDone) /\ UNCHANGED <<pc, incoming, typed, shown>>
    BY <1>6, ConsoleCalls DEF C!WriteDone
  <2>2. Raises(writeDone)
    BY <1>1, <2>1, VFacts DEF Raises
  <2> QED
    BY Zenon, <1>1, <2>1, <2>2 DEF Effect, ConsoleInterruptEffect, SynchStep
<1>7. CASE C!CheckCharAvail
  <2>1. /\ incoming = EOF /\ V(readAvail) /\ UNCHANGED <<pc, putBusy, shown>>
        /\ \E c \in Char : incoming' = c /\ typed' = Append(typed, c)
    BY <1>7, ConsoleCalls DEF C!CheckCharAvail
  <2>2. Raises(readAvail)
    BY <1>1, <2>1, VFacts DEF Raises
  <2> QED
    BY <1>1, <2>1, <2>2 DEF Effect, ConsoleInterruptEffect, SynchStep
<1>8. CASE C!LeaveIdle
  <2>1. Dispatch /\ UNCHANGED <<synchVars, pc>> /\ UNCHANGED consoleVars
    BY <1>8, ConsoleCalls DEF C!LeaveIdle, C!progVars, consoleVars, C!synchVars, synchVars
  <2>2. Still
    BY <1>1, <2>1, QuietCalls
  <2> QED
    BY <1>1, <2>1, <2>2 DEF Effect, progVars, SynchStep
<1> QED
  BY <1>2, <1>3, <1>4, <1>5, <1>6, <1>7, <1>8 DEF C!TestStep

LEMMA NextEffect ==
  ASSUME SynchTypeOK, Where, LockInv, Control, program = "SynchDisk" => ClientInv, [Next]_vars
  PROVE  SynchStep /\ Effect
<1>1. CASE MainStep
  BY <1>1, BridgeEffect, ListEffect, DiskEffect, EchoSteps DEF MainStep, DiskTest
<1>2. ASSUME NEW t \in Worker, WorkerStep(t)
      PROVE  SynchStep /\ Effect
  BY <1>2, BridgeEffect, ListEffect, DiskEffect DEF WorkerStep, DiskTest
<1>3. CASE RequestDone
  BY <1>3, DiskEffect, EchoSteps DEF RequestDone, DiskTest
<1>4. CASE KeyTyped
  BY <1>4, EchoSteps DEF KeyTyped
<1>5. CASE LeaveIdle
  BY <1>5, DiskEffect, EchoSteps DEF LeaveIdle, DiskTest
<1>6. CASE TimeSlice
  BY <1>6, BridgeEffect, ListEffect, DiskEffect DEF TimeSlice, DiskTest
<1>7. CASE UNCHANGED vars
  BY <1>7 DEF vars, kernelVars, synchVars, schedVars, SynchStep, Effect, Still, WaitSet,
              carVars, listVars, diskVars, consoleVars, progVars
<1> QED
  BY <1>1, <1>2, <1>3, <1>4, <1>5, <1>6, <1>7 DEF Next

-----------------------------------------------------------------------------
(* What all those steps have in common: a running thread goes on to a      *)
(* label of its own, and takes the lock or gives it back as the label says.*)
Turn(t) ==
  /\ status[t] = "RUNNING" /\ pc[t] # "done"
  /\ pc' = [pc EXCEPT ![t] = pc'[t]] /\ inP' = [inP EXCEPT ![t] = inP'[t]]
  /\ pc'[t] \in Labels(t) /\ inP'[t] \in {NULL} \cup AwaitedAt(pc'[t])
  /\ finished' = IF pc'[t] = "done" THEN finished \cup {t} ELSE finished
  /\ \/ owner' = owner /\ (Holds(t)' <=> Holds(t))
     \/ owner[lock] = NULL /\ owner' = [owner EXCEPT ![lock] = t] /\ Holds(t)'
     \/ owner[lock] = t /\ owner' = [owner EXCEPT ![lock] = NULL] /\ ~Holds(t)'
  /\ \A c \in Condition : \A u \in WaitSet'[c] :
       \/ u \in WaitSet[c]
       \/ /\ u = t /\ pc'[t] = "test" /\ inP'[t] = lock
          /\ \/ program = "SynchTest" /\ c = bridgeFull
             \/ program = "SynchList" /\ c = listEmpty

\* Or an interrupt handler or the scheduler runs, and no thread goes on.
Quiet ==
  pc' = pc /\ inP' = inP /\ owner' = owner /\ WaitSet' = WaitSet /\ finished' = finished

LEMMA CarTurn ==
  ASSUME SynchTypeOK, Control, program = "SynchTest", NEW car \in Car, CarEffect(car)
  PROVE  Turn(car)
<1>1. /\ car \in Thread /\ car # Main /\ lock \in Lock /\ bridgeFull \in Condition
      /\ lock # NULL /\ NULL \notin Thread
      /\ pc \in [Thread -> Label] /\ inP \in [Thread -> Semaphore \cup {NULL}]
      /\ owner \in [Lock -> Thread \cup {NULL}] /\ WaitSet \in [Condition -> SUBSET Thread]
  <2>1. WaitSet \in [Condition -> SUBSET Thread]
    BY RangeOfSequence DEF SynchTypeOK, WaitSet
  <2> QED
    BY <2>1, Distinguished DEF Control, SynchTypeOK
<1>2. Labels(car) = CarLabel
  BY <1>1 DEF Labels
<1>3. ASSUME NEW from, NEW to, from \in {"Arrive", "Exit", "test"},
             to = (IF from = "Exit" THEN "broadcast" ELSE "test"),
             from = "test" => inP[car] # NULL, Acquires(car, lock, from, to)
      PROVE  Turn(car)
  <2>1. CASE owner[lock] = NULL /\ owner' = [owner EXCEPT ![lock] = car]
             /\ Goto(car, to) /\ inP' = [inP EXCEPT ![car] = NULL]
    BY <1>1, <1>2, <1>3, <2>1 DEF Acquires, Turn, Goto, Holds, CarLabel
  <2>2. CASE owner' = owner /\ pc' = pc /\ inP' = [inP EXCEPT ![car] = lock]
    BY <1>1, <1>2, <1>3, <2>2 DEF Acquires, Turn, Holds, AwaitedAt, CarLabel
  <2> QED
    BY <1>3, <2>1, <2>2 DEF Acquires
<1>4. CASE Waits(car, bridgeFull, lock, "test")
  BY <1>1, <1>2, <1>4 DEF Waits, Turn, Holds, AwaitedAt, CarLabel
<1>5. ASSUME NEW from, NEW to, from \in {"test", "release"}, to \in {"ready", "away"},
             Releases(car, lock, from, to)
      PROVE  Turn(car)
  BY <1>1, <1>2, <1>5 DEF Releases, Turn, Goto, Holds, CarLabel
<1>6. ASSUME NEW from, NEW to, from \in {"ready", "cross", "away"},
             to \in {"cross", "Exit", "Arrive"}, Passes(car, from, to)
      PROVE  Turn(car)
  BY <1>1, <1>2, <1>6 DEF Passes, Turn, Goto, Holds, CarLabel
<1>7. CASE Broadcasts(car, bridgeFull, lock, "broadcast", "release")
  <2>1. \A c \in Condition : \A u \in WaitSet'[c] : u \in WaitSet[c]
    BY <1>1, <1>7 DEF Broadcasts
  <2>2. CASE Goto(car, "release")
    BY <1>1, <1>2, <1>7, <2>1, <2>2 DEF Broadcasts, Turn, Goto, Holds, CarLabel
  <2>3. CASE pc' = pc
    BY <1>1, <1>2, <1>7, <2>1, <2>3 DEF Broadcasts, Turn, Holds, CarLabel
  <2> QED
    BY <1>7, <2>2, <2>3 DEF Broadcasts
<1>8. CASE Ends(car, "Arrive")
  BY <1>1, <1>2, <1>8 DEF Ends, Turn, Goto, Holds, CarLabel
<1> QED
  BY <1>3, <1>4, <1>5, <1>6, <1>7, <1>8 DEF CarEffect

LEMMA AppendTurn ==
  ASSUME SynchTypeOK, Control, program = "SynchList", NEW a \in Appender, AppendEffect(a)
  PROVE  Turn(a)
<1>1. /\ a \in Thread /\ a # Main /\ lock \in Lock /\ listEmpty \in Condition
      /\ lock # NULL /\ NULL \notin Thread
      /\ pc \in [Thread -> Label] /\ inP \in [Thread -> Semaphore \cup {NULL}]
      /\ owner \in [Lock -> Thread \cup {NULL}] /\ WaitSet \in [Condition -> SUBSET Thread]
  <2>1. WaitSet \in [Condition -> SUBSET Thread]
    BY RangeOfSequence DEF SynchTypeOK, WaitSet
  <2> QED
    BY <2>1, Distinguished DEF Control, SynchTypeOK
<1>2. Labels(a) = {"Append", "signal", "append.Release", "done"}
  BY <1>1 DEF Labels
<1>3. CASE Acquires(a, lock, "Append", "signal")
  <2>1. CASE owner[lock] = NULL /\ owner' = [owner EXCEPT ![lock] = a]
             /\ Goto(a, "signal") /\ inP' = [inP EXCEPT ![a] = NULL]
    BY <1>1, <1>2, <1>3, <2>1 DEF Acquires, Turn, Goto, Holds
  <2>2. CASE owner' = owner /\ pc' = pc /\ inP' = [inP EXCEPT ![a] = lock]
    BY <1>1, <1>2, <1>3, <2>2 DEF Acquires, Turn, Holds, AwaitedAt
  <2> QED
    BY <1>3, <2>1, <2>2 DEF Acquires
<1>4. CASE Signals(a, listEmpty, lock, "signal", "append.Release")
  <2>1. \A c \in Condition : \A u \in WaitSet'[c] : u \in WaitSet[c]
    BY <1>1, <1>4 DEF Signals
  <2> QED
    BY <1>1, <1>2, <1>4, <2>1 DEF Signals, Turn, Goto, Holds
<1>5. CASE Releases(a, lock, "append.Release", "Append")
  BY <1>1, <1>2, <1>5 DEF Releases, Turn, Goto, Holds
<1>6. CASE Ends(a, "Append")
  BY <1>1, <1>2, <1>6 DEF Ends, Turn, Goto, Holds
<1> QED
  BY <1>3, <1>4, <1>5, <1>6 DEF AppendEffect

LEMMA RemoveTurn ==
  ASSUME SynchTypeOK, Control, program = "SynchList", NEW r \in Remover, RemoveEffect(r)
  PROVE  Turn(r)
<1>1. /\ r \in Thread /\ r # Main /\ lock \in Lock /\ listEmpty \in Condition
      /\ lock # NULL /\ NULL \notin Thread /\ r \notin Appender
      /\ pc \in [Thread -> Label] /\ inP \in [Thread -> Semaphore \cup {NULL}]
      /\ owner \in [Lock -> Thread \cup {NULL}] /\ WaitSet \in [Condition -> SUBSET Thread]
  <2>1. WaitSet \in [Condition -> SUBSET Thread]
    BY RangeOfSequence DEF SynchTypeOK, WaitSet
  <2> QED
    BY <2>1, Distinguished DEF Control, SynchTypeOK
<1>2. Labels(r) = {"Remove", "test", "done"}
  BY <1>1 DEF Labels
<1>3. ASSUME NEW from, from \in {"Remove", "test"}, from = "test" => inP[r] # NULL,
             Acquires(r, lock, from, "test")
      PROVE  Turn(r)
  <2>1. CASE owner[lock] = NULL /\ owner' = [owner EXCEPT ![lock] = r]
             /\ Goto(r, "test") /\ inP' = [inP EXCEPT ![r] = NULL]
    BY <1>1, <1>2, <1>3, <2>1 DEF Acquires, Turn, Goto, Holds
  <2>2. CASE owner' = owner /\ pc' = pc /\ inP' = [inP EXCEPT ![r] = lock]
    BY <1>1, <1>2, <1>3, <2>2 DEF Acquires, Turn, Holds, AwaitedAt
  <2> QED
    BY <1>3, <2>1, <2>2 DEF Acquires
<1>4. CASE Waits(r, listEmpty, lock, "test")
  BY <1>1, <1>2, <1>4 DEF Waits, Turn, Holds, AwaitedAt
<1>5. CASE Releases(r, lock, "test", "Remove")
  BY <1>1, <1>2, <1>5 DEF Releases, Turn, Goto, Holds
<1>6. CASE Ends(r, "Remove")
  BY <1>1, <1>2, <1>6 DEF Ends, Turn, Goto, Holds
<1> QED
  BY <1>3, <1>4, <1>5, <1>6 DEF RemoveEffect

LEMMA ClientTurn ==
  ASSUME SynchTypeOK, Control, program = "SynchDisk", NEW t \in Client, ClientEffect(t)
  PROVE  Turn(t)
<1>1. /\ t \in Thread /\ t # Main /\ lock \in Lock /\ semaphore # lock
      /\ lock # NULL /\ NULL \notin Thread
      /\ pc \in [Thread -> Label] /\ inP \in [Thread -> Semaphore \cup {NULL}]
      /\ owner \in [Lock -> Thread \cup {NULL}]
  BY Distinguished DEF Control, SynchTypeOK
<1>2. Labels(t) = {"Acquire", "request", "release", "done"}
  BY <1>1 DEF Labels
<1>3. CASE Acquires(t, lock, "Acquire", "request")
  <2>1. CASE owner[lock] = NULL /\ owner' = [owner EXCEPT ![lock] = t]
             /\ Goto(t, "request") /\ inP' = [inP EXCEPT ![t] = NULL]
    BY <1>1, <1>2, <1>3, <2>1 DEF Acquires, Turn, Goto, Holds
  <2>2. CASE owner' = owner /\ pc' = pc /\ inP' = [inP EXCEPT ![t] = lock]
    BY <1>1, <1>2, <1>3, <2>2 DEF Acquires, Turn, Holds, AwaitedAt
  <2> QED
    BY <1>3, <2>1, <2>2 DEF Acquires
<1>4. CASE Downs(t, semaphore, "request", "release")
  <2>1. CASE Goto(t, "release") /\ inP' = [inP EXCEPT ![t] = NULL]
    BY <1>1, <1>2, <1>4, <2>1 DEF Downs, Turn, Goto, Holds
  <2>2. CASE pc' = pc /\ inP' = [inP EXCEPT ![t] = semaphore]
    BY <1>1, <1>2, <1>4, <2>2 DEF Downs, Turn, Holds, AwaitedAt
  <2> QED
    BY <1>4, <2>1, <2>2 DEF Downs
<1>5. CASE Releases(t, lock, "release", "Acquire")
  BY <1>1, <1>2, <1>5 DEF Releases, Turn, Goto, Holds
<1>6. CASE Ends(t, "Acquire")
  BY <1>1, <1>2, <1>6 DEF Ends, Turn, Goto, Holds
<1> QED
  BY <1>3, <1>4, <1>5, <1>6 DEF ClientEffect

LEMMA EchoTurn ==
  ASSUME SynchTypeOK, Control, program = "ConsoleTest", EchoEffect
  PROVE  Turn(Main)
<1>1. /\ Main \in Thread /\ readAvail # lock /\ writeDone # lock
      /\ pc \in [Thread -> Label] /\ inP \in [Thread -> Semaphore \cup {NULL}]
  BY Distinguished DEF Control, SynchTypeOK
<1>2. Labels(Main) = {"read", "echo", "next", "halted"}
  BY <1>1 DEF Labels
<1>3. ASSUME NEW s, NEW from, NEW to,
             \/ s = readAvail /\ from = "read" /\ to = "echo"
             \/ s = writeDone /\ from = "echo" /\ to = "next",
             Downs(Main, s, from, to)
      PROVE  Turn(Main)
  <2>1. CASE Goto(Main, to) /\ inP' = [inP EXCEPT ![Main] = NULL]
    BY <1>1, <1>2, <1>3, <2>1 DEF Downs, Turn, Goto, Holds
  <2>2. CASE pc' = pc /\ inP' = [inP EXCEPT ![Main] = s]
    BY <1>1, <1>2, <1>3, <2>2 DEF Downs, Turn, Holds, AwaitedAt
  <2> QED
    BY <1>3, <2>1, <2>2 DEF Downs
<1>4. ASSUME NEW to, to \in {"halted", "read"}, Passes(Main, "next", to)
      PROVE  Turn(Main)
  BY <1>1, <1>2, <1>4 DEF Passes, Turn, Goto, Holds
<1> QED
  BY <1>3, <1>4 DEF EchoEffect

LEMMA EffectIsTurn ==
  ASSUME SynchTypeOK, Control, Effect
  PROVE  /\ program' = program
         /\ \/ Quiet
            \/ \E t \in Thread \ {Main} : Turn(t)
            \/ program = "ConsoleTest" /\ Turn(Main)
            \/ Turn(Main) /\ \A t \in Crew : status[t] # "JUST_CREATED"
<1>1. Car \cup Appender \cup Remover \cup Client \subseteq Thread \ {Main}
  BY Distinguished
<1>2. CASE Still \/ DiskInterruptEffect \/ ConsoleInterruptEffect
  BY <1>2 DEF Still, DiskInterruptEffect, ConsoleInterruptEffect, Raises, Quiet, Effect
<1>3. CASE Ends(Main, "fork") /\ program # "ConsoleTest"
           /\ \A t \in Crew : status[t] # "JUST_CREATED"
  <2>1. Labels(Main) = {"fork", "done"} /\ Main \in Thread /\ Holds(Main) = Holds(Main)
        /\ pc \in [Thread -> Label] /\ inP \in [Thread -> Semaphore \cup {NULL}]
    BY <1>3, Distinguished DEF Labels, Control, SynchTypeOK
  <2>2. Turn(Main)
    BY <1>3, <2>1 DEF Ends, Turn, Goto, Holds
  <2> QED
    BY <1>3, <2>2 DEF Effect
<1>4. CASE program = "SynchTest" /\ \E car \in Car : CarEffect(car)
  BY <1>1, <1>4, CarTurn DEF Effect
<1>5. CASE program = "SynchList" /\ \E a \in Appender : AppendEffect(a)
  BY <1>1, <1>5, AppendTurn DEF Effect
<1>6. CASE program = "SynchList" /\ \E r \in Remover : RemoveEffect(r)
  BY <1>1, <1>6, RemoveTurn DEF Effect
<1>7. CASE program = "SynchDisk" /\ \E t \in Client : ClientEffect(t)
  BY <1>1, <1>7, ClientTurn DEF Effect
<1>8. CASE program = "ConsoleTest" /\ EchoEffect
  BY <1>8, EchoTurn DEF Effect
<1> QED
  BY <1>2, <1>3, <1>4, <1>5, <1>6, <1>7, <1>8 DEF Effect

\* The parts of the invariant that the programs share are kept.
LEMMA StepControl ==
  ASSUME SynchTypeOK, Where, Control, Ownership, Waiters, SynchStep, Effect
  PROVE  Control' /\ Ownership' /\ Waiters'
<1>1. /\ program' = program /\ Crew' = Crew /\ \A u \in Thread : Labels(u)' = Labels(u)
      /\ \A t \in Thread : status'[t] = "JUST_CREATED" => status[t] = "JUST_CREATED"
      /\ pc \in [Thread -> Label] /\ inP \in [Thread -> Semaphore \cup {NULL}]
      /\ owner \in [Lock -> Thread \cup {NULL}] /\ Main \in Thread /\ lock \in Lock
      /\ Crew \subseteq Thread /\ NULL \notin Thread /\ TypeOK'
  BY StepCreated, Distinguished DEF Effect, Crew, Labels, Control, SynchTypeOK, TypeOK
<1>2. CASE Quiet
  BY <1>1, <1>2 DEF Quiet, Control, Ownership, Waiters, Holds
<1>3. ASSUME NEW t \in Thread, Turn(t),
             t = Main => program = "ConsoleTest" \/ \A u \in Crew : status[u] # "JUST_CREATED"
      PROVE  Control' /\ Ownership' /\ Waiters'
  <2>1. /\ pc' = [pc EXCEPT ![t] = pc'[t]] /\ inP' = [inP EXCEPT ![t] = inP'[t]]
        /\ pc'[t] \in Labels(t) /\ inP'[t] \in {NULL} \cup AwaitedAt(pc'[t])
        /\ finished' = IF pc'[t] = "done" THEN finished \cup {t} ELSE finished
        /\ status[t] = "RUNNING" /\ pc[t] # "done"
    BY <1>3 DEF Turn
  <2>2. Control'
    <3>1. Labels(t) \subseteq Label
      BY DEF Labels, Label, CarLabel
    <3>2. \A u \in Thread : pc'[u] = (IF u = t THEN pc'[t] ELSE pc[u])
                            /\ inP'[u] = (IF u = t THEN inP'[t] ELSE inP[u])
      BY <1>1, <2>1
    <3>3. pc' \in [Thread -> Label]
      BY <1>1, <2>1, <3>1
    <3>4. \A u \in Thread : pc'[u] \in Labels(u)
      BY <2>1, <3>2 DEF Control
    <3>5. pc'[Main] = "done" => \A u \in Crew : status'[u] # "JUST_CREATED"
      BY <1>1, <1>3, <2>1, <3>2 DEF Control, Crew
    <3>6. \A u \in Thread :
            /\ inP'[u] \in {NULL} \cup AwaitedAt(pc'[u])
            /\ status'[u] = "JUST_CREATED" => inP'[u] = NULL /\ ~Holds(u)'
            /\ pc'[u] = "done" <=> u \in finished'
      <4> SUFFICES ASSUME NEW u \in Thread
                   PROVE  /\ inP'[u] \in {NULL} \cup AwaitedAt(pc'[u])
                          /\ status'[u] = "JUST_CREATED" => inP'[u] = NULL /\ ~Holds(u)'
                          /\ pc'[u] = "done" <=> u \in finished'
        OBVIOUS
      <4>1. CASE u = t
        BY <1>1, <2>1, <4>1 DEF Control
      <4>2. CASE u # t
        BY <1>1, <2>1, <3>2, <4>2 DEF Control, Holds
      <4> QED
        BY <4>1, <4>2
    <3> QED
      BY <1>1, <3>3, <3>4, <3>5, <3>6 DEF Control, AwaitedAt
  <2>3. Ownership'
    <3>1. \A u \in Thread \ {t} : Holds(u)' <=> Holds(u)
      BY <1>1, <2>1 DEF Holds
    <3>2. CASE owner' = owner /\ (Holds(t)' <=> Holds(t))
      BY <3>1, <3>2 DEF Ownership
    <3>3. CASE owner[lock] = NULL /\ owner' = [owner EXCEPT ![lock] = t] /\ Holds(t)'
      <4>1. \A u \in Thread : ~Holds(u)
        BY <1>1, <3>3 DEF Ownership
      <4>2. owner'[lock] = t
        BY <1>1, <3>3
      <4> QED
        BY <3>1, <3>3, <4>1, <4>2 DEF Ownership
    <3>4. CASE owner[lock] = t /\ owner' = [owner EXCEPT ![lock] = NULL] /\ ~Holds(t)'
      <4>1. owner'[lock] = NULL
        BY <1>1, <3>4
      <4> QED
        BY <1>1, <3>1, <3>4, <4>1 DEF Ownership
    <3> QED
      BY <1>3, <3>2, <3>3, <3>4 DEF Turn
  <2>4. Waiters'
    <3> SUFFICES ASSUME NEW c \in Condition, NEW u \in WaitSet'[c]
                 PROVE  /\ pc'[u] = "test" /\ inP'[u] = lock
                        /\ \/ program = "SynchTest" /\ c = bridgeFull
                           \/ program = "SynchList" /\ c = listEmpty
      BY <1>1 DEF Waiters
    <3>1. CASE u \in WaitSet[c]
      <4>1. u # t /\ u \in Thread
        BY <1>1, <2>1, <3>1 DEF Where, Placed
      <4> QED
        BY <1>1, <2>1, <3>1, <4>1 DEF Waiters
    <3>2. CASE u \notin WaitSet[c]
      BY <1>3, <3>2 DEF Turn
    <3> QED
      BY <3>1, <3>2
  <2> QED
    BY <2>2, <2>3, <2>4
<1> QED
  BY <1>1, <1>2, <1>3, EffectIsTurn

-----------------------------------------------------------------------------
(* Bridge.                                                                 *)

\* Interrupts are disabled while a Broadcast() runs, so its caller is alone.
LEMMA AloneInBroadcast ==
  ASSUME SynchTypeOK, Where, CarInv, NEW t \in Thread, status[t] = "RUNNING",
         pc[t] # "broadcast"
  PROVE  broadcasting = NULL
<1>1. Car \subseteq Thread
  BY Distinguished
<1> QED
  BY <1>1 DEF CarInv, Where, Placed

LEMMA BridgeFinite ==
  ASSUME NEW S, S \subseteq Car
  PROVE  IsFiniteSet(S)
BY Distinguished, ThreadAssumption, FS_Subset

LEMMA BridgeCount == \A S : B!Cardinality(S) = Cardinality(S)
BY DEF B!Cardinality, Cardinality

LEMMA StepCarInv ==
  ASSUME SynchTypeOK, Where, Control, Ownership, CarInv, program = "SynchTest",
         SynchTypeOK', Effect
  PROVE  CarInv'
<1>1. /\ Car \subseteq Thread /\ Main \in Thread /\ Main \notin Car /\ bridgeFull \in Condition
      /\ pc \in [Thread -> Label] /\ lock \in Lock /\ NULL \notin Thread /\ NULL \notin Condition
      /\ broadcasting \in Condition \cup {NULL} /\ broadcasting' \in Condition \cup {NULL}
      /\ Capacity \in Nat /\ Crossings \in Nat /\ WaitSet \in [Condition -> SUBSET Thread]
  <2>1. WaitSet \in [Condition -> SUBSET Thread]
    BY RangeOfSequence DEF SynchTypeOK, WaitSet
  <2> QED
    BY Zenon, <2>1, Distinguished, NachosAssumption DEF Control, SynchTypeOK
<1>2. /\ numCars \in 0 .. Capacity /\ currentDirec \in {0, 1} /\ num \in [Car -> 0 .. Crossings]
      /\ \A car \in Car : pc[car] \notin {"Arrive", "done"} => num[car] < Crossings
      /\ numCars = Cardinality(B!OnBridge) /\ Cardinality(B!OnBridge) <= Capacity
      /\ \A car \in B!OnBridge : num[car] % 2 = currentDirec
  <2>1. /\ numCars \in 0 .. Capacity /\ currentDirec \in {0, 1} /\ num \in [Car -> 0 .. Crossings]
        /\ \A car \in Car : pc[car] \notin {"Arrive", "done"} => num[car] < Crossings
        /\ B!BridgeSafe
    BY DEF CarInv
  <2>2. /\ numCars = Cardinality(B!OnBridge) /\ Cardinality(B!OnBridge) <= Capacity
        /\ \A car \in B!OnBridge : num[car] % 2 = currentDirec
    BY <2>1, BridgeCount DEF B!BridgeSafe, B!direc
  <2> QED
    BY <2>1, <2>2
<1> DEFINE Same ==
      /\ broadcasting = NULL /\ broadcasting' = NULL
      /\ numCars' = numCars /\ currentDirec' = currentDirec /\ WaitSet' = WaitSet
<1>3. CASE Still /\ UNCHANGED progVars /\ (broadcasting = NULL \/ status' = status)
  <2>1. /\ pc' = pc /\ WaitSet' = WaitSet /\ broadcasting' = broadcasting
        /\ numCars' = numCars /\ currentDirec' = currentDirec /\ num' = num
    BY <1>3 DEF Still, progVars, carVars
  <2> QED
    BY <1>3, <2>1 DEF CarInv, B!BridgeSafe, B!OnBridge, B!direc, Crossing
<1>4. ASSUME NEW t \in Thread, NEW x, Same, pc' = [pc EXCEPT ![t] = x],
             \/ t = Main /\ num' = num
             \/ /\ t \in Car
                /\ pc[t] \in {"ready", "cross", "Exit", "broadcast"}
                     <=> x \in {"ready", "cross", "Exit", "broadcast"}
                /\ \/ num' = num /\ (x \notin {"Arrive", "done"} => num[t] < Crossings)
                   \/ /\ num' = [num EXCEPT ![t] = @ + 1] /\ pc[t] = "away"
                      /\ x = "Arrive"
      PROVE  CarInv'
  <2>1. B!OnBridge' = B!OnBridge
    BY <1>1, <1>4 DEF B!OnBridge
  <2>2. /\ num' \in [Car -> 0 .. Crossings]
        /\ \A car \in Car : pc'[car] \notin {"Arrive", "done"} => num'[car] < Crossings
        /\ \A car \in B!OnBridge : num'[car] = num[car]
    <3>1. CASE num' = num
      BY <1>1, <1>2, <1>4, <3>1
    <3>2. CASE t \in Car /\ num' = [num EXCEPT ![t] = @ + 1] /\ pc[t] = "away" /\ x = "Arrive"
      BY <1>1, <1>2, <1>4, <3>2 DEF B!OnBridge
    <3> QED
      BY <1>4, <3>1, <3>2
  <2>3. WaitSet'[bridgeFull] # {} => \E car \in Car : Crossing(car)'
    BY <1>1, <1>4 DEF CarInv, Crossing
  <2>4. \A car \in B!OnBridge : num'[car] % 2 = currentDirec'
    BY <1>2, <1>4, <2>2
  <2> QED
    BY Zenon, <1>2, <1>4, <2>1, <2>2, <2>3, <2>4 DEF CarInv, B!BridgeSafe, B!direc
<1>5. CASE Ends(Main, "fork") /\ UNCHANGED progVars
  <2>1. Same
    BY <1>1, <1>5, AloneInBroadcast DEF Ends, progVars, carVars
  <2> QED
    BY Zenon, <1>1, <1>4, <1>5, <2>1 DEF Ends, Goto, progVars
<1>6. ASSUME NEW car \in Car, CarEffect(car)
      PROVE  CarInv'
  <2>0. car \in Thread /\ pc[car] \in Label
    BY <1>1
  <2>1. ASSUME NEW from, NEW to, from # "broadcast", Acquires(car, lock, from, to),
               UNCHANGED <<carVars, num>>, num[car] < Crossings,
               from \in {"ready", "cross", "Exit", "broadcast"}
                 <=> to \in {"ready", "cross", "Exit", "broadcast"}
        PROVE  CarInv'
    <3>1. Same
      BY <1>1, <2>0, <2>1, AloneInBroadcast DEF Acquires, carVars
    <3>2. pc' = [pc EXCEPT ![car] = to] \/ pc' = [pc EXCEPT ![car] = from]
      BY <1>1, <2>0, <2>1 DEF Acquires, Goto
    <3> QED
      BY <1>4, <2>0, <2>1, <3>1, <3>2 DEF Acquires
  <2>2. ASSUME NEW from, NEW to, from # "broadcast", to # "done",
               Passes(car, from, to) \/ Releases(car, lock, from, to),
               UNCHANGED carVars,
               from \in {"ready", "cross", "Exit", "broadcast"}
                 <=> to \in {"ready", "cross", "Exit", "broadcast"},
               \/ num' = num /\ num[car] < Crossings
               \/ num' = [num EXCEPT ![car] = @ + 1] /\ from = "away" /\ to = "Arrive"
        PROVE  CarInv'
    <3>1. Same
      BY <1>1, <2>0, <2>2, AloneInBroadcast DEF Passes, Releases, carVars
    <3>2. pc' = [pc EXCEPT ![car] = to] /\ pc[car] = from
      BY <2>2 DEF Passes, Releases, Goto
    <3> QED
      BY Zenon, <1>4, <2>0, <2>2, <3>1, <3>2
  <2>3. CASE num[car] < Crossings /\ Acquires(car, lock, "Arrive", "test")
             /\ UNCHANGED <<carVars, num>>
    BY <2>1, <2>3
  <2>4. CASE B!MustWait(car) /\ Waits(car, bridgeFull, lock, "test") /\ UNCHANGED <<carVars, num>>
    <3>1. /\ pc' = pc /\ pc[car] = "test" /\ broadcasting = NULL /\ broadcasting' = NULL
          /\ numCars' = numCars /\ currentDirec' = currentDirec /\ num' = num
      BY <1>1, <2>0, <2>4, AloneInBroadcast DEF Waits, carVars
    <3>2. numCars > 0
      BY <2>4 DEF B!MustWait
    <3>3. B!OnBridge # {}
      BY <1>2, <3>2, FS_EmptySet
    <3>4. \E c \in Car : Crossing(c)'
      BY <3>1, <3>3 DEF B!OnBridge, Crossing
    <3>5. B!OnBridge' = B!OnBridge
      BY <3>1 DEF B!OnBridge
    <3> QED
      BY Zenon, <1>2, <3>1, <3>4, <3>5 DEF CarInv, B!BridgeSafe, B!direc
  <2>5. CASE inP[car] # NULL /\ Acquires(car, lock, "test", "test") /\ UNCHANGED <<carVars, num>>
    <3>1. num[car] < Crossings
      BY <1>2, <2>5 DEF Acquires
    <3> QED
      BY <2>1, <2>5, <3>1
  <2>6. CASE /\ ~B!MustWait(car) /\ Releases(car, lock, "test", "ready")
             /\ numCars' = numCars + 1 /\ currentDirec' = B!direc(car) /\ num' = num
    <3>1. /\ pc' = [pc EXCEPT ![car] = "ready"] /\ pc[car] = "test"
          /\ broadcasting = NULL /\ broadcasting' = NULL
      BY <1>1, <2>0, <2>6, AloneInBroadcast DEF Releases, Goto
    <3>2. B!OnBridge' = B!OnBridge \cup {car} /\ car \notin B!OnBridge
      BY <1>1, <3>1 DEF B!OnBridge
    <3>3. IsFiniteSet(B!OnBridge)
      BY BridgeFinite DEF B!OnBridge
    <3>4. Cardinality(B!OnBridge') = Cardinality(B!OnBridge) + 1
      BY <3>2, <3>3, FS_AddElement
    <3>5. \/ B!OnBridge = {}
          \/ numCars < Capacity /\ num[car] % 2 = currentDirec
      BY <1>1, <1>2, <2>6, <3>3, FS_EmptySet DEF B!MustWait, B!direc
    <3>6. numCars + 1 <= Capacity
      BY <1>1, <1>2, <2>6, NachosAssumption DEF B!MustWait
    <3>7. num[car] % 2 \in {0, 1} /\ num[car] < Crossings
      BY <1>1, <1>2, <3>1
    <3>8. \A c \in B!OnBridge' : num'[c] % 2 = currentDirec'
      BY <1>2, <2>6, <3>2, <3>5 DEF B!direc
    <3>9. Crossing(car)'
      BY <1>1, <3>1 DEF Crossing
    <3>10. numCars' \in 0 .. Capacity /\ currentDirec' \in {0, 1}
           /\ numCars' = Cardinality(B!OnBridge') /\ Cardinality(B!OnBridge') <= Capacity
      BY <1>1, <1>2, <2>6, <3>4, <3>6, <3>7 DEF B!direc
    <3>11. \A c \in Car : pc'[c] \notin {"Arrive", "done"} => num'[c] < Crossings
      BY <1>1, <1>2, <2>6, <3>1, <3>7
    <3>12. B!BridgeSafe'
      BY <3>8, <3>10, BridgeCount DEF B!BridgeSafe, B!direc
    <3> QED
      BY <1>1, <1>2, <2>6, <3>1, <3>9, <3>10, <3>11, <3>12 DEF CarInv
  <2>7. CASE Passes(car, "ready", "cross") /\ UNCHANGED <<carVars, num>>
    <3>1. num[car] < Crossings
      BY <1>2, <2>7 DEF Passes
    <3> QED
      BY <2>2, <2>7, <3>1
  <2>8. CASE Passes(car, "cross", "Exit") /\ UNCHANGED <<carVars, num>>
    <3>1. num[car] < Crossings
      BY <1>2, <2>8 DEF Passes
    <3> QED
      BY <2>2, <2>8, <3>1
  <2>9. CASE Acquires(car, lock, "Exit", "broadcast") /\ UNCHANGED <<carVars, num>>
    <3>1. num[car] < Crossings
      BY <1>2, <2>9 DEF Acquires
    <3> QED
      BY <2>1, <2>9, <3>1
  <2>10. CASE /\ Broadcasts(car, bridgeFull, lock, "broadcast", "release")
              /\ numCars' = IF broadcasting = NULL THEN numCars - 1 ELSE numCars
              /\ UNCHANGED <<currentDirec, num>>
    <3>1. /\ pc[car] = "broadcast" /\ num[car] < Crossings
          /\ \A c \in Car \ {car} : pc[c] # "broadcast"
      <4>1. pc[car] = "broadcast" /\ owner[lock] = car
        BY <2>10 DEF Broadcasts
      <4> QED
        BY <1>1, <1>2, <4>1 DEF Ownership, Holds
    <3>2. \/ /\ pc' = [pc EXCEPT ![car] = "release"] /\ broadcasting' = NULL
             /\ WaitSet'[bridgeFull] = {}
          \/ /\ pc' = pc /\ broadcasting' = bridgeFull /\ WaitSet'[bridgeFull] # {}
             /\ status'[car] = "RUNNING"
      BY <1>1, <2>10 DEF Broadcasts, Goto, CarInv
    <3>3. B!OnBridge' = B!OnBridge \ {car} /\ (car \in B!OnBridge <=> broadcasting = NULL)
      BY <1>1, <3>1, <3>2 DEF B!OnBridge
    <3>4. IsFiniteSet(B!OnBridge)
      BY BridgeFinite DEF B!OnBridge
    <3>5. Cardinality(B!OnBridge') =
            IF car \in B!OnBridge THEN Cardinality(B!OnBridge) - 1 ELSE Cardinality(B!OnBridge)
      BY <3>3, <3>4, FS_RemoveElement
    <3>6. Cardinality(B!OnBridge') \in Nat
      <4>1. IsFiniteSet(B!OnBridge \ {car})
        BY <3>4, FS_Subset
      <4> QED
        BY <3>3, <4>1, FS_CardinalityType
    <3>7. numCars' \in 0 .. Capacity /\ numCars' = Cardinality(B!OnBridge')
          /\ Cardinality(B!OnBridge') <= Capacity
      BY <1>1, <1>2, <2>10, <3>3, <3>5, <3>6
    <3>8. \A c \in Car : pc'[c] \notin {"Arrive", "done"} => num'[c] < Crossings
      BY <1>1, <1>2, <2>10, <3>1, <3>2
    <3>9. \A c \in B!OnBridge' : num'[c] % 2 = currentDirec'
      BY <1>2, <2>10, <3>3
    <3>10. WaitSet'[bridgeFull] # {} => \E c \in Car : Crossing(c)'
      BY <1>1, <3>1, <3>2 DEF Crossing
    <3>11. broadcasting' # NULL =>
             /\ broadcasting' = bridgeFull /\ WaitSet'[bridgeFull] # {}
             /\ \E c \in Car : pc'[c] = "broadcast" /\ status'[c] = "RUNNING"
      BY <1>1, <3>1, <3>2
    <3>12. B!BridgeSafe'
      BY <3>7, <3>9, BridgeCount DEF B!BridgeSafe, B!direc
    <3> QED
      BY <1>2, <2>10, <3>7, <3>8, <3>10, <3>11, <3>12 DEF CarInv
  <2>11. CASE Releases(car, lock, "release", "away") /\ UNCHANGED <<carVars, num>>
    <3>1. num[car] < Crossings
      BY <1>2, <2>11 DEF Releases
    <3> QED
      BY <2>2, <2>11, <3>1
  <2>12. CASE Passes(car, "away", "Arrive") /\ num' = [num EXCEPT ![car] = @ + 1]
              /\ UNCHANGED carVars
    BY <2>2, <2>12
  <2>13. CASE Ends(car, "Arrive") /\ UNCHANGED <<carVars, num>>
    <3>1. Same
      BY <1>1, <2>0, <2>13, AloneInBroadcast DEF Ends, carVars
    <3> QED
      BY Zenon, <1>4, <2>0, <2>13, <3>1 DEF Ends, Goto
  <2> QED
    BY <1>6, <2>3, <2>4, <2>5, <2>6, <2>7, <2>8, <2>9, <2>10, <2>11, <2>12, <2>13
    DEF CarEffect
<1> QED
  BY <1>3, <1>5, <1>6 DEF Effect

-----------------------------------------------------------------------------
(* SynchList.                                                              *)

LEMMA StepListInv ==
  ASSUME SynchTypeOK, Where, Control, Waiters, ListInv, program = "SynchList",
         SynchTypeOK', Effect
  PROVE  ListInv'
<1>1. /\ Appender \subseteq Thread /\ Remover \subseteq Thread /\ Main \in Thread
      /\ Main \notin Appender \cup Remover /\ Appender \cap Remover = {}
      /\ listEmpty \in Condition /\ pc \in [Thread -> Label] /\ lock \in Lock
      /\ IsFiniteSet(Remover) /\ Items \in Nat /\ WaitSet \in [Condition -> SUBSET Thread]
  <2>1. WaitSet \in [Condition -> SUBSET Thread]
    BY RangeOfSequence DEF SynchTypeOK, WaitSet
  <2>2. IsFiniteSet(Remover)
    BY Distinguished, ThreadAssumption, FS_Subset
  <2> QED
    BY <2>1, <2>2, Distinguished, NachosAssumption DEF Control
<1>2. /\ list \in Seq(Item) /\ num \in [Appender -> 0 .. Items]
      /\ \A a \in Appender : pc[a] = "signal" => num[a] < Items
      /\ IsInjective(list) /\ \A m \in Range(list) : m.value < num[m.thread_id]
      /\ WaitSet[listEmpty] # {} => Len(list) <= Cardinality(OnTheWay)
  BY DEF ListInv
<1>3. /\ IsFiniteSet(OnTheWay) /\ Cardinality(OnTheWay) \in Nat
      /\ IsFiniteSet(OnTheWay') /\ Cardinality(OnTheWay') \in Nat
      /\ OnTheWay \subseteq OnTheWay' => Cardinality(OnTheWay) <= Cardinality(OnTheWay')
  <2>1. OnTheWay \subseteq Remover /\ OnTheWay' \subseteq Remover
    BY DEF OnTheWay
  <2> QED
    BY <1>1, <2>1, FS_Subset, FS_CardinalityType
<1>4. Len(list) \in Nat
  BY <1>2
<1>5. ASSUME list' = list, num' = num, WaitSet' = WaitSet, OnTheWay \subseteq OnTheWay',
             \A a \in Appender : pc'[a] = "signal" => num[a] < Items
      PROVE  ListInv'
  BY <1>2, <1>3, <1>4, <1>5 DEF ListInv
<1>6. CASE (Still \/ Ends(Main, "fork")) /\ UNCHANGED progVars
  <2>1. /\ list' = list /\ num' = num /\ WaitSet' = WaitSet
        /\ \A u \in Appender \cup Remover : pc'[u] = pc[u]
    BY <1>1, <1>6 DEF Still, Ends, Goto, progVars, listVars
  <2>2. OnTheWay \subseteq OnTheWay'
    BY <2>1 DEF OnTheWay
  <2> QED
    BY <1>2, <1>5, <2>1, <2>2
<1>7. ASSUME NEW a \in Appender, AppendEffect(a)
      PROVE  ListInv'
  <2>1. a \in Thread /\ a \notin Remover
    BY <1>1
  <2>2. ASSUME NEW x, pc' = [pc EXCEPT ![a] = x] \/ pc' = pc, WaitSet' = WaitSet,
               UNCHANGED <<listVars, num>>, x = "signal" => num[a] < Items
        PROVE  ListInv'
    <3>1. OnTheWay \subseteq OnTheWay'
      BY <1>1, <2>1, <2>2 DEF OnTheWay
    <3>2. \A u \in Appender : pc'[u] = "signal" => num[u] < Items
      BY <1>1, <1>2, <2>1, <2>2
    <3> QED
      BY <1>5, <2>2, <3>1, <3>2 DEF listVars
  <2>3. CASE num[a] < Items /\ Acquires(a, lock, "Append", "signal")
             /\ UNCHANGED <<listVars, num>>
    BY <2>2, <2>3 DEF Acquires, Goto
  <2>4. CASE /\ Signals(a, listEmpty, lock, "signal", "append.Release")
             /\ list' = Append(list, [thread_id |-> a, value |-> num[a]])
             /\ num' = [num EXCEPT ![a] = @ + 1] /\ removed' = removed
    <3>1. /\ pc[a] = "signal" /\ pc' = [pc EXCEPT ![a] = "append.Release"]
          /\ num[a] \in Nat /\ num[a] < Items
      BY <1>1, <1>2, <2>1, <2>4 DEF Signals, Goto
    <3> DEFINE m == [thread_id |-> a, value |-> num[a]]
    <3>2. m \in Item /\ m \notin Range(list)
      <4>1. m \in Item
        BY <3>1 DEF Item
      <4>2. m \in Range(list) => num[a] < num[a]
        BY <1>2
      <4> QED
        BY <3>1, <4>1, <4>2
    <3>3. /\ list' \in Seq(Item) /\ IsInjective(list') /\ Len(list') = Len(list) + 1
          /\ Range(list') = Range(list) \cup {m}
      <4> HIDE DEF m
      <4>1. list' = Append(list, m)
        BY <2>4 DEF m
      <4> QED
        BY <1>2, <3>2, <4>1, AppendFacts
    <3>4. /\ num' \in [Appender -> 0 .. Items]
          /\ \A u \in Appender : num[u] <= num'[u] /\ num[u] \in Nat /\ num'[u] \in Nat
          /\ num'[a] = num[a] + 1
      BY <1>1, <1>2, <2>4, <3>1
    <3>5. \A e \in Range(list') : e.value < num'[e.thread_id]
      <4>1. \A e \in Range(list) : e.thread_id \in Appender /\ e.value \in Nat
        <5>1. Range(list) \subseteq Item
          BY <1>2, RangeOfSequence
        <5> QED
          BY <5>1 DEF Item
      <4>2. \A e \in Range(list) : e.value < num'[e.thread_id]
        BY <1>2, <3>4, <4>1
      <4>3. m.value < num'[m.thread_id]
        BY <3>1, <3>4
      <4> QED
        BY <3>3, <4>2, <4>3
    <3>6. \A u \in Appender : pc'[u] = "signal" => num'[u] < Items
      BY <1>1, <1>2, <2>1, <2>4, <3>1
    <3>7. WaitSet'[listEmpty] # {} => Len(list') <= Cardinality(OnTheWay')
      <4>1. CASE WaitSet[listEmpty] = {} /\ WaitSet' = WaitSet
        BY <4>1
      <4>2. ASSUME NEW u \in WaitSet[listEmpty],
                   WaitSet' = [WaitSet EXCEPT ![listEmpty] = @ \ {u}]
            PROVE  Len(list') <= Cardinality(OnTheWay')
        <5>1. pc[u] = "test" /\ u \in Thread
          BY <1>1 DEF Waiters
        <5>2. u \in Remover
          BY <1>1, <5>1 DEF Control, Labels
        <5>3. OnTheWay' = OnTheWay \cup {u} /\ u \notin OnTheWay
          BY <1>1, <2>1, <3>1, <4>2, <5>1, <5>2 DEF OnTheWay
        <5>4. Cardinality(OnTheWay') = Cardinality(OnTheWay) + 1
          BY <1>3, <5>3, FS_AddElement
        <5> QED
          BY <1>2, <1>3, <1>4, <3>3, <5>4
      <4> QED
        BY <2>4, <4>1, <4>2 DEF Signals
    <3> QED
      BY <3>3, <3>4, <3>5, <3>6, <3>7 DEF ListInv
  <2>5. CASE Releases(a, lock, "append.Release", "Append") /\ UNCHANGED <<listVars, num>>
    <3>1. pc' = [pc EXCEPT ![a] = "Append"] /\ WaitSet' = WaitSet /\ "Append" # "signal"
      BY <2>5 DEF Releases, Goto
    <3> QED
      BY Zenon, <2>2, <2>5, <3>1
  <2>6. CASE num[a] = Items /\ Ends(a, "Append") /\ UNCHANGED <<listVars, num>>
    <3>1. pc' = [pc EXCEPT ![a] = "done"] /\ WaitSet' = WaitSet /\ "done" # "signal"
      BY <2>6 DEF Ends, Goto
    <3> QED
      BY Zenon, <2>2, <2>6, <3>1
  <2> QED
    BY <1>7, <2>3, <2>4, <2>5, <2>6 DEF AppendEffect
<1>8. ASSUME NEW r \in Remover, RemoveEffect(r)
      PROVE  ListInv'
  <2>1. r \in Thread /\ r \notin Appender
    BY <1>1
  <2>2. ASSUME NEW x, pc' = [pc EXCEPT ![r] = x] \/ pc' = pc, WaitSet' = WaitSet,
               UNCHANGED <<listVars, num>>, pc[r] # "test" \/ x = "test"
        PROVE  ListInv'
    <3>1. OnTheWay \subseteq OnTheWay'
      BY <1>1, <2>1, <2>2 DEF OnTheWay
    <3>2. \A u \in Appender : pc'[u] = "signal" => num[u] < Items
      BY <1>1, <1>2, <2>1, <2>2
    <3> QED
      BY <1>5, <2>2, <3>1, <3>2 DEF listVars
  <2>3. CASE Acquires(r, lock, "Remove", "test") /\ UNCHANGED <<listVars, num>>
    BY <2>2, <2>3 DEF Acquires, Goto
  <2>4. CASE list = <<>> /\ Waits(r, listEmpty, lock, "test") /\ UNCHANGED <<listVars, num>>
    <3>1. list' = list /\ num' = num /\ pc' = pc /\ Len(list) = 0
      BY <2>4, EmptySeq DEF Waits, listVars
    <3> QED
      BY <1>2, <1>3, <3>1 DEF ListInv
  <2>5. CASE inP[r] # NULL /\ Acquires(r, lock, "test", "test") /\ UNCHANGED <<listVars, num>>
    BY <2>2, <2>5 DEF Acquires, Goto
  <2>6. CASE /\ list # <<>> /\ Releases(r, lock, "test", "Remove")
             /\ list' = Tail(list) /\ removed' = [removed EXCEPT ![r] = Append(@, Head(list))]
             /\ num' = num
    <3>1. /\ pc[r] = "test" /\ pc' = [pc EXCEPT ![r] = "Remove"] /\ WaitSet' = WaitSet
          /\ status[r] = "RUNNING"
      BY <2>6 DEF Releases, Goto
    <3>2. /\ list' \in Seq(Item) /\ IsInjective(list') /\ Len(list') = Len(list) - 1
          /\ Range(list') \subseteq Range(list)
      BY <1>2, <2>6, RemoveFacts
    <3>3. OnTheWay' = OnTheWay \ {r} /\ r \in OnTheWay
      <4>1. r \notin WaitSet[listEmpty]
        BY <1>1, <2>1, <3>1, NotWaiting
      <4> QED
        BY <1>1, <2>1, <3>1, <4>1 DEF OnTheWay
    <3>4. Cardinality(OnTheWay') = Cardinality(OnTheWay) - 1
      BY <1>3, <3>3, FS_RemoveElement
    <3>5. \A u \in Appender : pc'[u] = "signal" => num'[u] < Items
      BY <1>1, <1>2, <2>1, <2>6, <3>1
    <3>6. WaitSet'[listEmpty] # {} => Len(list') <= Cardinality(OnTheWay')
      BY <1>2, <1>3, <1>4, <3>1, <3>2, <3>4
    <3> QED
      BY <1>2, <2>6, <3>2, <3>5, <3>6 DEF ListInv
  <2>7. CASE Ends(r, "Remove") /\ UNCHANGED <<listVars, num>>
    BY Zenon, <2>2, <2>7 DEF Ends, Goto
  <2> QED
    BY <1>8, <2>3, <2>4, <2>5, <2>6, <2>7 DEF RemoveEffect
<1> QED
  BY <1>6, <1>7, <1>8 DEF Effect

\* The items appended and not yet removed are never as many as the appenders
\* may append in all, while one of them still has an item to append.
LEMMA ListHasRoom ==
  ASSUME ListInv, NEW a \in Appender, num[a] < Items
  PROVE  Len(list) < Items * Cardinality(Appender)
<1>1. /\ list \in Seq(Item) /\ num \in [Appender -> 0 .. Items] /\ Items \in Nat
      /\ IsInjective(list) /\ \A m \in Range(list) : m.value < num[m.thread_id]
      /\ IsFiniteSet(Appender)
  BY Distinguished, NachosAssumption, ThreadAssumption, FS_Subset DEF ListInv
<1> DEFINE n == Len(list)
           Numbers == 0 .. Items - 1
           All == Appender \X Numbers
           f == [i \in 0 .. n |-> IF i = 0 THEN <<a, num[a]>>
                                           ELSE <<list[i].thread_id, list[i].value>>]
<1>2. n \in Nat /\ \A i \in 1 .. n : list[i] \in Item /\ list[i] \in Range(list)
  BY <1>1, RangeOfSequence
<1>3. \A i \in 1 .. n : /\ list[i] = [thread_id |-> list[i].thread_id, value |-> list[i].value]
                        /\ list[i].thread_id \in Appender /\ list[i].value \in Numbers
                        /\ list[i].value < num[list[i].thread_id]
  BY <1>1, <1>2 DEF Item
<1>4. a \in Appender /\ num[a] \in Numbers
  BY <1>1
<1>5. f \in [0 .. n -> All]
  <2>1. <<a, num[a]>> \in All
    BY <1>4
  <2>2. \A i \in 1 .. n : <<list[i].thread_id, list[i].value>> \in All
    BY Zenon, <1>3
  <2>3. \A i \in 0 .. n : i = 0 \/ i \in 1 .. n
    BY <1>2
  <2> HIDE DEF All, n
  <2> QED
    BY <2>1, <2>2, <2>3
<1>6. ASSUME NEW i \in 0 .. n, NEW j \in 0 .. n, f[i] = f[j]
      PROVE  i = j
  <2>1. \A k \in 1 .. n : f[k] = <<list[k].thread_id, list[k].value>> /\ k # 0
    BY <1>2
  <2>2. f[0] = <<a, num[a]>> /\ 0 \in 0 .. n
    BY <1>2
  <2>3. \A k \in 1 .. n : f[k] # f[0]
    <3> SUFFICES ASSUME NEW k \in 1 .. n, f[k] = f[0]
                 PROVE  FALSE
      BY Zenon
    <3>1. list[k].thread_id = a /\ list[k].value = num[a]
      BY <2>1, <2>2
    <3>2. num[a] \in Int
      BY <1>4
    <3>3. num[a] < num[a]
      BY Zenon, <1>3, <3>1
    <3> QED
      BY <3>2, <3>3
  <2>4. CASE i \in 1 .. n /\ j \in 1 .. n
    <3>1. list[i].thread_id = list[j].thread_id /\ list[i].value = list[j].value
      BY <1>6, <2>1, <2>4
    <3>2. list[i] = list[j]
      BY Zenon, <1>3, <2>4, <3>1
    <3> QED
      BY <1>1, <2>4, <3>2, RangeOfSequence
  <2>5. i = 0 \/ i \in 1 .. n
    BY <1>2
  <2>6. j = 0 \/ j \in 1 .. n
    BY <1>2
  <2> HIDE DEF f
  <2> QED
    BY <1>6, <2>3, <2>4, <2>5, <2>6
<1>7. f \in Injection(0 .. n, All)
  <2> HIDE DEF f, All
  <2> QED
    BY <1>5, <1>6 DEF Injection, IsInjective
<1>8. IsFiniteSet(All) /\ Cardinality(All) = Cardinality(Appender) * Items
  <2>1. IsFiniteSet(Numbers) /\ Cardinality(Numbers) = Items
    <3>1. 0 \in Int /\ Items - 1 \in Int
      BY <1>1
    <3>2. /\ IsFiniteSet(Numbers)
          /\ Cardinality(Numbers) = IF 0 > Items - 1 THEN 0 ELSE (Items - 1) - 0 + 1
      BY <3>1, FS_Interval
    <3> QED
      BY <1>1, <3>2
  <2> QED
    BY <1>1, <2>1, FS_Product
<1>9. Cardinality(0 .. n) = n + 1
  BY <1>2, FS_Interval
<1>10. n + 1 <= Cardinality(Appender) * Items /\ Cardinality(Appender) \in Nat
  <2> HIDE DEF f, All
  <2> QED
    BY <1>1, <1>7, <1>8, <1>9, FS_Injection, FS_CardinalityType
<1>11. Cardinality(Appender) * Items = Items * Cardinality(Appender)
       /\ Items * Cardinality(Appender) \in Nat
  BY <1>1, <1>10
<1> QED
  BY <1>2, <1>10, <1>11

-----------------------------------------------------------------------------
(* SynchDisk.                                                              *)

LEMMA StepClientInv ==
  ASSUME SynchTypeOK, Control, Ownership, ClientInv, program = "SynchDisk",
         SynchTypeOK', Effect
  PROVE  ClientInv'
<1>1. /\ Client \subseteq Thread /\ Main \in Thread /\ Main \notin Client
      /\ lock \in Lock /\ semaphore \in Semaphore \ Lock /\ semaphore # NULL
      /\ semaphore # lock /\ NULL \notin Thread
      /\ pc \in [Thread -> Label] /\ inP \in [Thread -> Semaphore \cup {NULL}]
      /\ value[semaphore] \in Nat
  BY Zenon, Distinguished DEF Control, SynchTypeOK
<1> DEFINE Use == IF \E t \in Client : InDisk(t) THEN 1 ELSE 0
           OnDisk(t) == pc[t] = "release" \/ inP[t] = semaphore
<1>2. /\ active \in BOOLEAN /\ (serving # NULL => active) /\ contents \in [Sector -> Data]
      /\ buffer \in [Client -> [sector : Sector \cup {NULL}, data : Data]]
      /\ value[semaphore] + (IF active THEN 1 ELSE 0) = Use
      /\ \A t \in Client : OnDisk(t) => contents[buffer[t].sector] = buffer[t].data
  BY DEF ClientInv, D!BufferIsOnDisk
<1>3. \A t \in Client : inP[t] = semaphore => pc[t] = "request"
  <2>1. \A t \in Client : inP[t] \in {NULL} \cup AwaitedAt(pc[t])
    BY <1>1 DEF Control
  <2> QED
    BY <1>1, <2>1, Distinguished DEF AwaitedAt
<1>4. \A t, u \in Client : Holds(t) /\ Holds(u) => t = u
  BY <1>1 DEF Ownership
<1>5. \A t \in Client : InDisk(t) \/ OnDisk(t) => Holds(t)
  BY <1>3 DEF InDisk, Holds
<1>6. ASSUME UNCHANGED diskVars, value'[semaphore] = value[semaphore],
             \A t \in Client : InDisk(t)' <=> InDisk(t),
             \A t \in Client : OnDisk(t)' => OnDisk(t)
      PROVE  ClientInv'
  BY <1>2, <1>6 DEF ClientInv, D!BufferIsOnDisk, diskVars
<1>7. CASE (Still \/ Ends(Main, "fork")) /\ UNCHANGED progVars
  <2>1. /\ inP' = inP /\ value'[semaphore] = value[semaphore] /\ UNCHANGED diskVars
        /\ \A t \in Client : pc'[t] = pc[t]
    BY <1>1, <1>7 DEF Still, Ends, Goto, progVars
  <2> QED
    BY <1>6, <2>1 DEF InDisk
<1>8. CASE DiskInterruptEffect
  <2>1. /\ active /\ active' = FALSE /\ serving' = NULL /\ contents' = contents
        /\ buffer' = buffer /\ pc' = pc /\ inP' = inP
        /\ value'[semaphore] = value[semaphore] + 1
    BY <1>8 DEF DiskInterruptEffect, Raises
  <2>2. Use' = Use
    BY <2>1 DEF InDisk
  <2>3. value'[semaphore] + (IF active' THEN 1 ELSE 0) = Use'
    BY <1>1, <1>2, <2>1, <2>2
  <2> QED
    BY Zenon, <1>2, <2>1, <2>3 DEF ClientInv, D!BufferIsOnDisk
<1>9. ASSUME NEW t \in Client, ClientEffect(t)
      PROVE  ClientInv'
  <2>0. t \in Thread
    BY <1>1
  <2>1. CASE Acquires(t, lock, "Acquire", "request") /\ UNCHANGED diskVars
    <3>1. \/ pc' = [pc EXCEPT ![t] = "request"] /\ inP' = [inP EXCEPT ![t] = NULL]
          \/ pc' = pc /\ inP' = [inP EXCEPT ![t] = lock]
      BY <2>1 DEF Acquires, Goto
    <3>2. pc[t] = "Acquire" /\ value'[semaphore] = value[semaphore]
      BY <1>1, <2>1 DEF Acquires
    <3>3. \A u \in Client : (InDisk(u)' <=> InDisk(u)) /\ (OnDisk(u)' => OnDisk(u))
      BY <1>1, <2>0, <3>1, <3>2 DEF InDisk
    <3> QED
      BY <1>6, <2>1, <3>2, <3>3
  <2>2. CASE inP[t] = NULL /\ Downs(t, semaphore, "request", "release") /\ Requested(t)
    <3>1. pc[t] = "request" /\ Holds(t) /\ ~InDisk(t)
      BY <2>2 DEF Downs, Holds, InDisk
    <3>2. \A u \in Client : ~InDisk(u)
      BY <1>4, <1>5, <3>1
    <3>3. value[semaphore] = 0
      BY <1>1, <1>2, <3>2
    <3>4. pc' = pc /\ inP' = [inP EXCEPT ![t] = semaphore] /\ value'[semaphore] = 0
      BY <2>2, <3>3 DEF Downs
    <3>5. InDisk(t)'
      BY <1>1, <2>0, <3>1, <3>4 DEF InDisk
    <3>6. active' = TRUE /\ value'[semaphore] + (IF active' THEN 1 ELSE 0) = Use'
      BY <2>2, <3>4, <3>5 DEF Requested
    <3>7. PICK s \in Sector, d \in Data :
            /\ \/ d = contents[s] /\ contents' = contents
               \/ contents' = [contents EXCEPT ![s] = d]
            /\ buffer' = [buffer EXCEPT ![t] = [sector |-> s, data |-> d]]
      BY Zenon, <2>2 DEF Requested
    <3>8. contents' \in [Sector -> Data] /\ contents'[s] = d
          /\ buffer'[t] = [sector |-> s, data |-> d]
          /\ buffer' \in [Client -> [sector : Sector \cup {NULL}, data : Data]]
      BY <1>2, <3>7
    <3>9. \A u \in Client : OnDisk(u)' => u = t
      <4>1. \A u \in Client : u # t => ~OnDisk(u)
        BY <1>4, <1>5, <3>1
      <4>2. \A u \in Client : u # t => (OnDisk(u)' <=> OnDisk(u))
        BY <1>1, <3>4
      <4> QED
        BY <4>1, <4>2
    <3>10. \A u \in Client : OnDisk(u)' => contents'[buffer'[u].sector] = buffer'[u].data
      BY <3>8, <3>9
    <3> QED
      BY <3>6, <3>8, <3>10 DEF ClientInv, D!BufferIsOnDisk
  <2>3. CASE inP[t] = semaphore /\ Downs(t, semaphore, "request", "release")
             /\ UNCHANGED diskVars
    <3>1. pc[t] = "request" /\ InDisk(t) /\ Holds(t) /\ OnDisk(t)
      BY <1>1, <2>3 DEF Downs, Holds, InDisk
    <3>2. CASE /\ value[semaphore] > 0 /\ value'[semaphore] = value[semaphore] - 1
               /\ Goto(t, "release") /\ inP' = [inP EXCEPT ![t] = NULL]
      <4>1. value'[semaphore] = 0 /\ active = FALSE
        BY <1>1, <1>2, <3>1, <3>2
      <4>2. \A u \in Client : ~InDisk(u)'
        <5>1. \A u \in Client : u # t => ~InDisk(u)
          BY <1>4, <1>5, <3>1
        <5>2. \A u \in Client : u # t => (InDisk(u)' <=> InDisk(u))
          BY <1>1, <3>2 DEF InDisk, Goto
        <5>3. ~InDisk(t)'
          BY <1>1, <2>0, <3>2 DEF InDisk
        <5> QED
          BY <5>1, <5>2, <5>3
      <4>3. \A u \in Client : OnDisk(u)' => OnDisk(u)
        BY <1>1, <3>1, <3>2 DEF Goto
      <4>4. active' = active /\ serving' = serving /\ contents' = contents /\ buffer' = buffer
        BY <2>3 DEF diskVars
      <4>5. value'[semaphore] + (IF active' THEN 1 ELSE 0) = Use'
        BY <4>1, <4>2, <4>4
      <4> QED
        BY <1>2, <4>3, <4>4, <4>5 DEF ClientInv, D!BufferIsOnDisk
    <3>3. CASE /\ value[semaphore] = 0 /\ value'[semaphore] = 0
               /\ pc' = pc /\ inP' = [inP EXCEPT ![t] = semaphore]
      <4>1. inP' = inP
        BY <1>1, <2>0, <2>3, <3>3
      <4> QED
        BY <1>6, <2>3, <3>3, <4>1 DEF InDisk
    <3> QED
      BY <2>3, <3>2, <3>3 DEF Downs
  <2>4. ASSUME NEW x, pc' = [pc EXCEPT ![t] = x], x \notin {"request", "release"},
               inP' = inP, inP[t] = NULL, value'[semaphore] = value[semaphore],
               UNCHANGED diskVars
        PROVE  ClientInv'
    <3>1. \A u \in Client : (InDisk(u)' <=> InDisk(u)) /\ (OnDisk(u)' => OnDisk(u))
      BY <1>1, <2>0, <2>4 DEF InDisk
    <3> QED
      BY <1>6, <2>4, <3>1
  <2>5. CASE Releases(t, lock, "release", "Acquire") /\ UNCHANGED diskVars
    <3>1. /\ pc' = [pc EXCEPT ![t] = "Acquire"] /\ inP' = inP /\ inP[t] = NULL
          /\ value'[semaphore] = value[semaphore] /\ "Acquire" \notin {"request", "release"}
      BY <1>1, <2>5 DEF Releases, Goto
    <3> QED
      BY Zenon, <2>4, <2>5, <3>1
  <2>6. CASE num[t] = Requests /\ Ends(t, "Acquire") /\ UNCHANGED diskVars
    <3>1. /\ pc' = [pc EXCEPT ![t] = "done"] /\ inP' = inP /\ inP[t] = NULL
          /\ value'[semaphore] = value[semaphore] /\ "done" \notin {"request", "release"}
      BY <2>6 DEF Ends, Goto
    <3> QED
      BY Zenon, <2>4, <2>6, <3>1
  <2> QED
    BY <1>9, <2>1, <2>2, <2>3, <2>5, <2>6 DEF ClientEffect
<1> QED
  BY <1>7, <1>8, <1>9 DEF Effect

-----------------------------------------------------------------------------
(* Console.                                                                *)

LEMMA StepEchoInv ==
  ASSUME SynchTypeOK, Control, EchoInv, program = "ConsoleTest", SynchTypeOK', Effect
  PROVE  EchoInv'
<1>1. /\ Main \in Thread /\ EOF \notin Char /\ pc \in [Thread -> Label]
      /\ {readAvail, writeDone} \subseteq Semaphore \ Lock
      /\ readAvail # writeDone /\ readAvail # NULL /\ writeDone # NULL
      /\ inP \in [Thread -> Semaphore \cup {NULL}]
      /\ value[readAvail] \in Nat /\ value[writeDone] \in Nat
      /\ inP[Main] \in {NULL} \cup AwaitedAt(pc[Main])
  BY Zenon, Distinguished, NachosAssumption DEF Control, SynchTypeOK
<1> DEFINE Reading == IF pc[Main] = "echo" /\ inP[Main] = NULL THEN 1 ELSE 0
           Writing == IF pc[Main] = "echo" /\ inP[Main] # NULL THEN 1 ELSE 0
<1>2. /\ typed \in Seq(Char) /\ shown \in Seq(Char)
      /\ incoming \in Char \cup {EOF} /\ putBusy \in BOOLEAN
      /\ value[readAvail] + Reading = IF incoming # EOF THEN 1 ELSE 0
      /\ value[writeDone] + (IF putBusy THEN 1 ELSE 0) = Writing
      /\ typed = IF incoming = EOF THEN shown ELSE Append(shown, incoming)
  BY DEF EchoInv
<1>3. ASSUME UNCHANGED consoleVars,
             value'[readAvail] + Reading' = value[readAvail] + Reading,
             value'[writeDone] = value[writeDone] /\ Writing' = Writing
      PROVE  EchoInv'
  BY <1>2, <1>3 DEF EchoInv, consoleVars
<1>4. CASE Still /\ UNCHANGED progVars
  BY <1>1, <1>3, <1>4 DEF Still, progVars
<1>5. CASE Downs(Main, readAvail, "read", "echo") /\ UNCHANGED consoleVars
  <2>1. pc[Main] = "read" /\ value'[writeDone] = value[writeDone]
    BY <1>1, <1>5 DEF Downs
  <2>2. CASE /\ value[readAvail] > 0 /\ value'[readAvail] = value[readAvail] - 1
             /\ Goto(Main, "echo") /\ inP' = [inP EXCEPT ![Main] = NULL]
    BY <1>1, <1>3, <1>5, <2>1, <2>2 DEF Goto
  <2>3. CASE /\ value[readAvail] = 0 /\ value'[readAvail] = 0
             /\ pc' = pc /\ inP' = [inP EXCEPT ![Main] = readAvail]
    BY <1>1, <1>3, <1>5, <2>1, <2>3
  <2> QED
    BY <1>5, <2>2, <2>3 DEF Downs
<1>6. CASE /\ inP[Main] = NULL /\ ~putBusy /\ Downs(Main, writeDone, "echo", "next")
           /\ incoming' = EOF /\ putBusy' = TRUE /\ shown' = Append(shown, incoming)
           /\ typed' = typed
  <2>1. pc[Main] = "echo" /\ value'[readAvail] = value[readAvail]
    BY <1>1, <1>6 DEF Downs
  <2>2. incoming # EOF /\ value[readAvail] = 0 /\ value[writeDone] = 0
    <3>1. Reading = 1 /\ Writing = 0
      BY <1>6, <2>1
    <3>2. value[readAvail] + 1 = IF incoming # EOF THEN 1 ELSE 0
      BY <1>2, <3>1
    <3>3. value[writeDone] + (IF putBusy THEN 1 ELSE 0) = 0
      BY <1>2, <3>1
    <3> HIDE DEF Reading, Writing
    <3>4. value[writeDone] = 0
      BY <1>1, <1>6, <3>3
    <3>5. incoming # EOF /\ value[readAvail] = 0
      BY <1>1, <3>2
    <3> QED
      BY <3>4, <3>5
  <2>3. value'[writeDone] = 0 /\ pc' = pc /\ inP' = [inP EXCEPT ![Main] = writeDone]
    BY <1>6, <2>2 DEF Downs
  <2>4. typed = Append(shown, incoming) /\ incoming \in Char
    BY <1>2, <2>2
  <2>5. Reading' = 0 /\ Writing' = 1
    BY <1>1, <2>1, <2>3
  <2> QED
    BY <1>2, <1>6, <2>1, <2>2, <2>3, <2>4, <2>5 DEF EchoInv
<1>7. CASE /\ inP[Main] = writeDone /\ Downs(Main, writeDone, "echo", "next")
           /\ UNCHANGED consoleVars
  <2>1. pc[Main] = "echo" /\ value'[readAvail] = value[readAvail]
    BY <1>1, <1>7 DEF Downs
  <2>2. CASE /\ value[writeDone] > 0 /\ value'[writeDone] = value[writeDone] - 1
             /\ Goto(Main, "next") /\ inP' = [inP EXCEPT ![Main] = NULL]
    <3>1. Reading' = 0 /\ Reading = 0 /\ Writing = 1 /\ Writing' = 0
      BY <1>1, <1>7, <2>1, <2>2 DEF Goto
    <3>2. putBusy = FALSE /\ value'[writeDone] = 0
      BY <1>1, <1>2, <2>2, <3>1
    <3> QED
      BY <1>2, <1>7, <2>1, <3>1, <3>2 DEF EchoInv, consoleVars
  <2>3. CASE /\ value[writeDone] = 0 /\ value'[writeDone] = 0
             /\ pc' = pc /\ inP' = [inP EXCEPT ![Main] = writeDone]
    <3>1. inP' = inP
      BY <1>1, <1>7, <2>3
    <3> QED
      BY <1>3, <1>7, <2>1, <2>3, <3>1
  <2> QED
    BY <1>7, <2>2, <2>3 DEF Downs
<1>8. CASE /\ Passes(Main, "next", "halted") \/ Passes(Main, "next", "read")
           /\ UNCHANGED consoleVars
  <2>1. pc[Main] = "next" /\ pc'[Main] # "echo" /\ inP' = inP /\ value' = value
    BY <1>1, <1>8 DEF Passes, Goto
  <2> QED
    BY <1>3, <1>8, <2>1
<1>9. CASE /\ incoming = EOF /\ Raises(readAvail)
           /\ \E c \in Char : incoming' = c /\ typed' = Append(typed, c)
           /\ UNCHANGED <<putBusy, shown>>
  <2>1. /\ pc' = pc /\ inP' = inP /\ value'[readAvail] = value[readAvail] + 1
        /\ value'[writeDone] = value[writeDone]
    BY <1>1, <1>9 DEF Raises
  <2>2. PICK c \in Char : incoming' = c /\ typed' = Append(typed, c)
    BY <1>9
  <2>3. typed = shown /\ c # EOF /\ typed' \in Seq(Char)
    BY <1>1, <1>2, <1>9, <2>2
  <2> QED
    BY <1>1, <1>2, <1>9, <2>1, <2>2, <2>3 DEF EchoInv
<1>10. CASE /\ putBusy /\ putBusy' = FALSE /\ Raises(writeDone)
            /\ UNCHANGED <<incoming, typed, shown>>
  <2>1. /\ pc' = pc /\ inP' = inP /\ value'[writeDone] = value[writeDone] + 1
        /\ value'[readAvail] = value[readAvail]
    BY <1>1, <1>10 DEF Raises
  <2>2. Reading' = Reading /\ Writing' = Writing
    BY <2>1
  <2>3. value'[writeDone] + (IF putBusy' THEN 1 ELSE 0) = Writing'
    BY <1>1, <1>2, <1>10, <2>1, <2>2
  <2> QED
    BY Zenon, <1>2, <1>10, <2>1, <2>2, <2>3 DEF EchoInv
<1> QED
  BY Zenon, <1>4, <1>5, <1>6, <1>7, <1>8, <1>9, <1>10
  DEF Effect, EchoEffect, ConsoleInterruptEffect

-----------------------------------------------------------------------------
(* The invariant: of the kernel's routines, of the programs' threads, and  *)
(* of what each program shares.                                            *)
KernelInv == SynchTypeOK /\ Where /\ LockInv /\ NoLostWakeup /\ Sorted(readyList)

Inv ==
  /\ KernelInv /\ Control /\ Ownership /\ Waiters
  /\ program = "SynchTest" => CarInv
  /\ program = "SynchList" => ListInv
  /\ program = "SynchDisk" => ClientInv
  /\ program = "ConsoleTest" => EchoInv

LEMMA InitKernelInv ==
  ASSUME SynchInit
  PROVE  /\ KernelInv /\ Main \in Thread /\ lock \in Lock
         /\ status = [t \in Thread |-> IF t = Main THEN "RUNNING" ELSE "JUST_CREATED"]
         /\ owner = [l \in Lock |-> NULL] /\ inP = [t \in Thread |-> NULL]
         /\ finished = {} /\ broadcasting = NULL
         /\ \A c \in Condition : WaitSet[c] = {}
         /\ \A s \in Semaphore \ Lock : value[s] = 0
<1>1. Len(<<>>) = 0 /\ Range(<<>>) = {}
  BY Zenon, EmptySeq, EmptyRange
<1>2. Sorted(readyList)
  BY <1>1 DEF SynchInit, SchedInit, Sorted
<1>3. LockInv
  BY SemaphoreAssumption DEF SynchInit, LockInv
<1>4. NoLostWakeup
  BY DEF SynchInit, NoLostWakeup
<1>5. \A c \in Condition : WaitSet[c] = {}
  BY <1>1 DEF SynchInit, WaitSet
<1>6. \A s \in Semaphore \ Lock : value[s] = 0
  BY NachosAssumption DEF SynchInit
<1> QED
  BY <1>2, <1>3, <1>4, <1>5, <1>6, InitType, InitWhere, Distinguished
  DEF KernelInv, SynchInit, SchedInit

LEMMA InitInv == Init => Inv
<1> SUFFICES ASSUME Init PROVE Inv
  OBVIOUS
<1>a. /\ Car \subseteq Thread /\ Appender \subseteq Thread /\ Remover \subseteq Thread
      /\ Client \subseteq Thread /\ Main \notin Car \cup Appender \cup Remover \cup Client
      /\ Appender \cap Remover = {} /\ NULL \notin Thread
      /\ readAvail \in Semaphore \ Lock /\ writeDone \in Semaphore \ Lock
      /\ semaphore \in Semaphore \ Lock /\ lock \in Lock
      /\ bridgeFull \in Condition /\ listEmpty \in Condition
  BY Distinguished
<1>b. SynchInit
  BY BridgeCalls, ListCalls, DiskCalls, ConsoleCalls DEF Init, B!Init, L!Init, D!Init, C!Init
<1>c. /\ KernelInv /\ Main \in Thread
      /\ status = [t \in Thread |-> IF t = Main THEN "RUNNING" ELSE "JUST_CREATED"]
      /\ owner[lock] = NULL /\ inP = [t \in Thread |-> NULL]
      /\ finished = {} /\ broadcasting = NULL
      /\ \A c \in Condition : WaitSet[c] = {}
      /\ \A s \in Semaphore \ Lock : value[s] = 0
  BY <1>a, <1>b, InitKernelInv
<1>1. ASSUME NEW first \in [Thread -> Label], pc = first, TypeOK,
             \A t \in Thread : first[t] \in Labels(t) /\ first[t] # "done",
             \A t \in Thread : first[t] \in {"fork", "Arrive", "Append", "Remove", "Acquire", "read"}
      PROVE  Control /\ Ownership /\ Waiters
  <2>1. \A t \in Thread : ~Holds(t)
    BY <1>1 DEF Holds
  <2> QED
    BY <1>a, <1>c, <1>1, <2>1 DEF Control, Ownership, Waiters
<1>2. CASE program = "SynchTest" /\ B!Init
  <2>1. /\ pc = [t \in Thread |-> IF t = Main THEN "fork" ELSE "Arrive"]
        /\ numCars = 0 /\ currentDirec = 0 /\ num = [car \in Car |-> 0]
    BY <1>2 DEF B!Init
  <2>2. Control /\ Ownership /\ Waiters
    BY <1>2, <1>1, <2>1 DEF TypeOK, Labels, Label, CarLabel
  <2>3. B!OnBridge = {}
    BY <1>a, <2>1 DEF B!OnBridge
  <2>4. B!BridgeSafe
    BY <2>1, <2>3, BridgeCount, FS_EmptySet, NachosAssumption DEF B!BridgeSafe
  <2>5. CarInv
    BY <1>a, <1>c, <2>1, <2>4, NachosAssumption DEF CarInv
  <2> QED
    BY <1>2, <1>c, <2>2, <2>5 DEF Inv
<1>3. CASE program = "SynchList" /\ L!Init
  <2>1. /\ pc = [t \in Thread |-> CASE t = Main -> "fork"
                                    [] t \in Appender -> "Append"
                                    [] OTHER -> "Remove"]
        /\ list = <<>> /\ num = [a \in Appender |-> 0]
    BY <1>3 DEF L!Init
  <2>2. \A t \in Thread : pc[t] = IF t = Main THEN "fork"
                                  ELSE IF t \in Appender THEN "Append" ELSE "Remove"
    BY <1>a, <2>1
  <2>3. Control /\ Ownership /\ Waiters
    <3>1. pc \in [Thread -> Label]
      BY <2>1, <2>2 DEF Label
    <3>2. \A t \in Thread : pc[t] \in Labels(t)
      BY <1>3, <2>2 DEF Labels
    <3> QED
      BY <1>3, <1>1, <2>2, <3>1, <3>2 DEF TypeOK
  <2>4. list \in Seq(Item) /\ IsInjective(list) /\ Range(list) = {}
    <3> DEFINE none == <<>>
    <3>1. none \in Seq(Item) /\ Len(none) = 0
      BY EmptySeq
    <3> HIDE DEF none
    <3>2. IsInjective(none) <=> \A i, j \in 1 .. Len(none) : none[i] = none[j] => i = j
      BY Zenon, <3>1, RangeOfSequence
    <3>3. IsInjective(none)
      BY <3>1, <3>2
    <3>4. Range(<<>>) = {}
      BY Zenon, EmptySeq, EmptyRange
    <3> QED
      BY <2>1, <3>1, <3>3, <3>4 DEF none
  <2>5. ListInv
    BY <1>a, <1>c, <2>1, <2>2, <2>4, NachosAssumption DEF ListInv
  <2> QED
    BY <1>3, <1>c, <2>3, <2>5 DEF Inv
<1>4. CASE program = "SynchDisk" /\ D!Init
  <2>1. /\ pc = [t \in Thread |-> IF t = Main THEN "fork" ELSE "Acquire"]
        /\ active = FALSE /\ serving = NULL
        /\ contents = [s \in Sector |-> Blank]
        /\ buffer = [t \in Client |-> [sector |-> NULL, data |-> Blank]]
    BY <1>4 DEF D!Init
  <2>2. Control /\ Ownership /\ Waiters
    BY <1>4, <1>1, <2>1 DEF TypeOK, Labels, Label
  <2>3. \A t \in Client : pc[t] = "Acquire" /\ inP[t] = NULL /\ ~InDisk(t)
    BY <1>a, <1>c, <2>1 DEF InDisk
  <2>4. D!BufferIsOnDisk
    BY <1>a, <2>3, Distinguished DEF D!BufferIsOnDisk
  <2>5. /\ contents \in [Sector -> Data]
        /\ buffer \in [Client -> [sector : Sector \cup {NULL}, data : Data]]
    BY <2>1, NachosAssumption
  <2>6. value[semaphore] + (IF active THEN 1 ELSE 0) = 0
    BY <1>a, <1>c, <2>1
  <2>7. ClientInv
    BY Zenon, <2>1, <2>3, <2>4, <2>5, <2>6 DEF ClientInv
  <2> QED
    BY <1>4, <1>c, <2>2, <2>7 DEF Inv
<1>5. CASE program = "ConsoleTest" /\ C!Init
  <2>1. /\ pc = [t \in Thread |-> "read"] /\ incoming = EOF /\ putBusy = FALSE
        /\ typed = <<>> /\ shown = <<>>
    BY <1>5 DEF C!Init
  <2>2. Control /\ Ownership /\ Waiters
    BY <1>5, <1>1, <2>1 DEF TypeOK, Labels, Label
  <2>3. value[readAvail] = 0 /\ value[writeDone] = 0 /\ pc[Main] = "read"
    BY <1>a, <1>c, <2>1
  <2>4. typed \in Seq(Char) /\ shown \in Seq(Char) /\ typed = shown
    BY <2>1, EmptySeq
  <2>5. incoming = EOF /\ putBusy = FALSE
    BY <2>1
  <2>6. EchoInv
    <3>1. incoming \in Char \cup {EOF} /\ putBusy \in BOOLEAN
      BY Zenon, <2>5
    <3>2. value[readAvail] + (IF pc[Main] = "echo" /\ inP[Main] = NULL THEN 1 ELSE 0)
            = IF incoming # EOF THEN 1 ELSE 0
      BY <2>3, <2>5
    <3>3. value[writeDone] + (IF putBusy THEN 1 ELSE 0)
            = IF pc[Main] = "echo" /\ inP[Main] # NULL THEN 1 ELSE 0
      BY <2>3, <2>5
    <3>4. typed = IF incoming = EOF THEN shown ELSE Append(shown, incoming)
      BY <2>4, <2>5
    <3> QED
      BY <2>4, <3>1, <3>2, <3>3, <3>4 DEF EchoInv
  <2> QED
    BY <1>5, <1>c, <2>2, <2>6 DEF Inv
<1> QED
  BY <1>2, <1>3, <1>4, <1>5 DEF Init

LEMMA StepInv ==
  ASSUME Inv, [Next]_vars
  PROVE  Inv'
<1>1. SynchStep /\ Effect
  BY NextEffect DEF Inv, KernelInv
<1>2. KernelInv'
  BY <1>1, StepType, StepWhere, StepLock, StepNoLostWakeup, StepSorted DEF Inv, KernelInv
<1>3. Control' /\ Ownership' /\ Waiters'
  BY <1>1, StepControl DEF Inv, KernelInv
<1>4. program' = program
  BY <1>1 DEF Effect
<1>5. SynchTypeOK /\ SynchTypeOK' /\ Where /\ Control /\ Ownership /\ Waiters
  BY <1>2 DEF Inv, KernelInv
<1>6. program = "SynchTest" => CarInv'
  BY <1>1, <1>5, StepCarInv DEF Inv
<1>7. program = "SynchList" => ListInv'
  BY <1>1, <1>5, StepListInv DEF Inv
<1>8. program = "SynchDisk" => ClientInv'
  BY <1>1, <1>5, StepClientInv DEF Inv
<1>9. program = "ConsoleTest" => EchoInv'
  BY <1>1, <1>5, StepEchoInv DEF Inv
<1> QED
  BY <1>2, <1>3, <1>4, <1>6, <1>7, <1>8, <1>9 DEF Inv

LEMMA NachosInvariant == Spec => []Inv
<1>1. Inv /\ [Next]_vars => Inv'
  BY StepInv
<1> QED
  BY InitInv, <1>1, PTL DEF Spec

LEMMA BridgeIsSafe ==
  ASSUME Inv
  PROVE  BridgeInv
<1> SUFFICES ASSUME program = "SynchTest" PROVE B!TypeOK /\ B!BridgeSafe
  BY DEF BridgeInv, Inv, Control
<1>1. CarInv /\ SynchTypeOK /\ Control
  BY DEF Inv, KernelInv
<1>2. B!SynchTypeOK
  BY <1>1 DEF SynchTypeOK, B!SynchTypeOK, SchedTypeOK, B!SchedTypeOK, Status, B!Status
<1>3. pc \in [Thread -> {"fork", "Arrive", "test", "ready", "cross", "Exit",
                         "broadcast", "release", "away", "done"}]
  <2>1. \A t \in Thread : pc[t] \in {"fork", "Arrive", "test", "ready", "cross", "Exit",
                                     "broadcast", "release", "away", "done"}
    BY <1>1 DEF Control, Labels, CarLabel
  <2> QED
    BY <1>1, <2>1 DEF Control
<1>4. /\ numCars \in 0 .. Capacity /\ currentDirec \in {0, 1} /\ num \in [Car -> 0 .. Crossings]
      /\ B!BridgeSafe
  BY <1>1 DEF CarInv
<1> QED
  BY <1>2, <1>3, <1>4 DEF B!TypeOK, B!Direction

LEMMA DiskIsServed ==
  ASSUME Inv
  PROVE  DiskInv
<1> SUFFICES ASSUME program = "SynchDisk"
             PROVE  D!RequestOnlyWhenIdle /\ D!ReturnsWhenDone /\ D!BufferIsOnDisk
  BY DEF DiskInv
<1>1. ClientInv /\ Ownership /\ value[semaphore] \in Nat /\ Client \subseteq Thread
      /\ NULL \notin Thread
  BY Distinguished DEF Inv, KernelInv, SynchTypeOK
<1>2. ASSUME NEW t \in Client, Holds(t), ~InDisk(t)
      PROVE  ~active /\ value[semaphore] = 0 /\ serving # t
  <2>1. \A u \in Client : ~InDisk(u)
    BY <1>1, <1>2 DEF Ownership, InDisk, Holds
  <2>2. value[semaphore] + (IF active THEN 1 ELSE 0) = 0 /\ active \in BOOLEAN
    BY <1>1, <2>1 DEF ClientInv
  <2> QED
    BY <1>1, <2>2 DEF ClientInv
<1>3. D!RequestOnlyWhenIdle
  BY <1>2 DEF D!RequestOnlyWhenIdle, InDisk, Holds
<1>4. D!ReturnsWhenDone
  BY <1>2 DEF D!ReturnsWhenDone, InDisk, Holds
<1> QED
  BY <1>1, <1>3, <1>4 DEF ClientInv

LEMMA PrefixFacts ==
  ASSUME NEW S, NEW s \in Seq(S), NEW e \in S
  PROVE  C!IsPrefix(s, s) /\ C!IsPrefix(s, Append(s, e))
BY DEF C!IsPrefix

LEMMA ConsoleEchoes ==
  ASSUME Inv
  PROVE  ConsoleInv
<1> SUFFICES ASSUME program = "ConsoleTest"
             PROVE  C!SignalsMatchDevice /\ C!EchoesInput
  BY DEF ConsoleInv
<1>1. EchoInv /\ value[readAvail] \in Nat /\ value[writeDone] \in Nat
  BY Distinguished DEF Inv, KernelInv, SynchTypeOK
<1>2. C!SignalsMatchDevice
  <2> SUFFICES ASSUME pc[Main] = "echo", inP[Main] = NULL
               PROVE  ~putBusy /\ incoming # EOF /\ value[writeDone] = 0
    BY DEF C!SignalsMatchDevice
  <2>1. /\ value[readAvail] + 1 = IF incoming # EOF THEN 1 ELSE 0
        /\ value[writeDone] + (IF putBusy THEN 1 ELSE 0) = 0 /\ putBusy \in BOOLEAN
    BY <1>1 DEF EchoInv
  <2> QED
    BY <1>1, <2>1
<1>3. C!EchoesInput
  <2>1. /\ typed = IF incoming = EOF THEN shown ELSE Append(shown, incoming)
        /\ shown \in Seq(Char) /\ (incoming # EOF => incoming \in Char) /\ quit \in Char
    BY <1>1, NachosAssumption DEF EchoInv
  <2>2. C!IsPrefix(shown, typed)
    <3>1. PICK s \in Seq(Char) : s = shown
      BY <2>1
    <3>2. CASE incoming = EOF
      BY <2>1, <3>1, <3>2, PrefixFacts
    <3>3. CASE incoming # EOF
      <4>1. PICK e \in Char : e = incoming
        BY <2>1, <3>3
      <4>2. C!IsPrefix(s, Append(s, e))
        BY PrefixFacts
      <4> QED
        BY <2>1, <3>1, <3>3, <4>1, <4>2
    <3> QED
      BY <3>2, <3>3
  <2> QED
    BY <2>1, <2>2 DEF C!EchoesInput
<1> QED
  BY <1>2, <1>3

\* On the one-lane bridge of synchtest.cc no two cars meet and no more are on
\* it than it holds; the synchronous disk of synchdisk.cc serves one request
\* at a time, each thread returns after its own interrupt and finds on the
\* disk what it read or wrote; the console of ConsoleTest() shows what was
\* typed, in order: for any number of threads, crossings, requests and keys.
THEOREM NachosPrograms == Spec => []ProgramInv
<1>1. Inv => ProgramInv
  BY BridgeIsSafe, DiskIsServed, ConsoleEchoes DEF ProgramInv
<1> QED
  BY <1>1, NachosInvariant, PTL

-----------------------------------------------------------------------------
(* When the machine halts.                                                 *)

\* With no thread ready and none running, every thread that was forked is
\* finished, waits on a condition, or sleeps in a P() of a semaphore that is 0.
LEMMA HaltedThreads ==
  ASSUME Inv, Halted
  PROVE  \A t \in Thread :
           \/ status[t] = "JUST_CREATED"
           \/ pc[t] = "done"
           \/ \E c \in Condition : t \in WaitSet[c]
           \/ inP[t] \in Semaphore /\ value[inP[t]] = 0
<1> SUFFICES ASSUME NEW t \in Thread, status[t] # "JUST_CREATED", pc[t] # "done",
                    \A c \in Condition : t \notin WaitSet[c]
             PROVE  inP[t] \in Semaphore /\ value[inP[t]] = 0
  OBVIOUS
<1>1. /\ SynchTypeOK /\ Where /\ NoLostWakeup /\ Control
      /\ status \in [Thread -> Status] /\ value \in [Semaphore -> Nat]
      /\ queue \in [Semaphore -> Seq(Thread)] /\ NULL \notin Semaphore
  BY Distinguished DEF Inv, KernelInv, SynchTypeOK, SchedTypeOK
<1>2. Range(readyList) = {}
  BY Zenon, EmptySeq, EmptyRange DEF Halted
<1>3. \A u \in Thread : status[u] \in {"JUST_CREATED", "BLOCKED"}
  BY <1>1, <1>2 DEF Where, Placed, Halted, Idling, Status
<1>4. PICK s \in Semaphore : t \in QueueSets[s]
  BY <1>1, <1>3 DEF Where, Placed, Control
<1>5. inP[t] = s
  BY <1>1, <1>4 DEF Where, Sleepers
<1>6. queue[s] # <<>>
  BY <1>1, <1>4, EmptyRange DEF QueueSets, Sets
<1>7. Woken(s) = {}
  BY <1>1, <1>3 DEF Woken, Control
<1>8. value[s] <= 0
  BY Zenon, <1>1, <1>6, <1>7, FS_EmptySet DEF NoLostWakeup
<1> QED
  BY <1>1, <1>5, <1>8

\* Unless the disk is at work, nobody holds the lock then, so nobody waits
\* for it.
LEMMA HaltedUnlocked ==
  ASSUME Inv, Halted, program # "ConsoleTest", program = "SynchDisk" => ~active
  PROVE  /\ \A t \in Thread : ~Holds(t)
         /\ \A t \in Thread \ {Main} :
              \/ status[t] = "JUST_CREATED" \/ pc[t] = "done"
              \/ pc[t] = "test" /\ t \in WaitSet[IF program = "SynchTest" THEN bridgeFull
                                                 ELSE listEmpty]
<1>1. /\ Control /\ Ownership /\ Waiters /\ LockInv /\ lock \in Lock /\ lock # semaphore
      /\ lock # NULL
      /\ owner \in [Lock -> Thread \cup {NULL}] /\ value \in [Semaphore -> Nat]
      /\ semaphore \in Semaphore /\ NULL \notin Thread /\ NULL \notin Semaphore
      /\ \A t \in Thread : inP[t] \in {NULL} \cup AwaitedAt(pc[t])
      /\ Client \subseteq Thread
  BY Distinguished DEF Inv, KernelInv, Control, SynchTypeOK
<1>2. ASSUME NEW t \in Thread, inP[t] = semaphore
      PROVE  value[semaphore] # 0
  <2>1. pc[t] = "request"
    BY <1>1, <1>2, Distinguished DEF AwaitedAt
  <2>2. program = "SynchDisk" /\ t \in Client
    BY <1>1, <2>1 DEF Control, Labels, CarLabel, TypeOK
  <2>3. InDisk(t) /\ ClientInv /\ active = FALSE
    BY <1>1, <1>2, <2>1, <2>2 DEF InDisk, Inv, ClientInv
  <2>4. value[semaphore] + 0 = 1
    BY <2>2, <2>3 DEF ClientInv
  <2> QED
    BY <1>1, <2>4
<1>3. \A t \in Thread : ~Holds(t)
  <2> SUFFICES ASSUME NEW t \in Thread, Holds(t)
               PROVE  FALSE
    OBVIOUS
  <2>1. status[t] # "JUST_CREATED" /\ pc[t] # "done" /\ \A c \in Condition : t \notin WaitSet[c]
    BY <1>1 DEF Control, Holds, Waiters
  <2>2. inP[t] \in Semaphore /\ value[inP[t]] = 0
    BY <2>1, HaltedThreads
  <2>3. inP[t] = semaphore
    BY <1>1, <2>2 DEF Holds, AwaitedAt
  <2> QED
    BY <1>2, <2>2, <2>3
<1>4. value[lock] = 1
  BY <1>1, <1>3 DEF Ownership, LockInv
<1>5. ASSUME NEW t \in Thread \ {Main}, status[t] # "JUST_CREATED", pc[t] # "done"
      PROVE  pc[t] = "test" /\ t \in WaitSet[IF program = "SynchTest" THEN bridgeFull
                                             ELSE listEmpty]
  <2>1. ~(inP[t] \in Semaphore /\ value[inP[t]] = 0)
    <3> SUFFICES ASSUME inP[t] \in Semaphore, value[inP[t]] = 0
                 PROVE  FALSE
      OBVIOUS
    <3>1. inP[t] # lock /\ inP[t] # semaphore /\ inP[t] # NULL
      BY <1>1, <1>2, <1>4
    <3>2. pc[t] \in {"read", "echo"}
      BY <1>1, <3>1 DEF AwaitedAt
    <3>3. pc[t] \in Labels(t) /\ program \in {"SynchTest", "SynchList", "SynchDisk"}
      BY <1>1 DEF Control, TypeOK
    <3> QED
      BY <1>5, <3>2, <3>3 DEF Labels, CarLabel
  <2>2. PICK c \in Condition : t \in WaitSet[c]
    BY <1>5, <2>1, HaltedThreads
  <2> QED
    BY <1>1, <2>2 DEF Waiters
<1> QED
  BY <1>3, <1>5

\* The machine stops only when main and the threads it forked are done: no
\* car waits before a bridge it could enter, no remover sleeps beside an item
\* that nobody else will take, no client waits for a signal that was lost.
THEOREM NachosHaltsOnlyWhenDone == Spec => []HaltsOnlyWhenDone
<1>1. ASSUME Inv, Halted
      PROVE  CASE program = "SynchTest" -> {Main} \cup Car \subseteq finished
               [] program = "SynchList" -> L!Settled
               [] program = "SynchDisk" -> ~active => {Main} \cup Client \subseteq finished
               [] OTHER -> TRUE
  <2> SUFFICES ASSUME program \in {"SynchTest", "SynchList", "SynchDisk"},
                      program = "SynchDisk" => ~active
               PROVE  CASE program = "SynchTest" -> {Main} \cup Car \subseteq finished
                        [] program = "SynchList" -> L!Settled
                        [] program = "SynchDisk" -> {Main} \cup Client \subseteq finished
    BY Zenon
  <2>1. /\ Control /\ Waiters /\ Crew \subseteq Thread /\ Main \in Thread /\ Main \notin Crew
        /\ program # "ConsoleTest"
    BY <1>1, Distinguished DEF Inv, Crew
  <2>2. /\ \A t \in Thread : ~Holds(t)
        /\ \A t \in Thread \ {Main} :
             \/ status[t] = "JUST_CREATED" \/ pc[t] = "done"
             \/ pc[t] = "test" /\ t \in WaitSet[IF program = "SynchTest" THEN bridgeFull
                                                ELSE listEmpty]
    BY <1>1, <2>1, HaltedUnlocked
  <2>3. pc[Main] = "done"
    <3>1. pc[Main] \in {"fork", "done"} /\ status[Main] # "JUST_CREATED"
      BY <2>1 DEF Control, Labels
    <3>2. inP[Main] \in {NULL} \cup AwaitedAt(pc[Main])
      BY <2>1 DEF Control
    <3>3. pc[Main] = "fork" => inP[Main] = NULL /\ NULL \notin Semaphore
      BY <3>2, Distinguished DEF AwaitedAt
    <3>4. pc[Main] = "fork" => \A c \in Condition : Main \notin WaitSet[c]
      BY <2>1 DEF Waiters
    <3> QED
      BY <1>1, <2>1, <3>1, <3>3, <3>4, HaltedThreads
  <2>4. /\ Main \in finished
        /\ \A t \in Crew : \/ t \in finished
                           \/ pc[t] = "test" /\ t \in WaitSet[IF program = "SynchTest"
                                                              THEN bridgeFull ELSE listEmpty]
    BY <2>1, <2>2, <2>3 DEF Control
  <2>5. CASE program = "SynchTest"
    <3>1. \A car \in Car : pc[car] \in {"done", "test"}
      BY <2>1, <2>4, <2>5 DEF Crew, Control
    <3>2. WaitSet[bridgeFull] = {}
      BY <1>1, <2>5, <3>1 DEF Inv, CarInv, Crossing
    <3> QED
      BY <2>4, <2>5, <3>2 DEF Crew
  <2>6. CASE program = "SynchList"
    <3>1. Appender \cup Remover = Crew /\ Appender \subseteq Thread /\ Remover \subseteq Thread
      BY <2>6, Distinguished DEF Crew
    <3>2. \A a \in Appender : pc[a] # "test"
      BY <2>1, <2>6, <3>1 DEF Control, Labels
    <3>3. Appender \subseteq finished
      BY <2>4, <3>1, <3>2
    <3>4. CASE WaitSet[listEmpty] = {}
      <4>1. Remover \subseteq finished
        BY <2>4, <2>6, <3>1, <3>4
      <4> QED
        BY <2>4, <2>6, <3>3, <4>1 DEF L!Settled
    <3>5. CASE WaitSet[listEmpty] # {}
      <4>1. OnTheWay = {}
        BY <2>1, <2>4, <2>6, <3>1 DEF OnTheWay, Control
      <4>2. list \in Seq(Item) /\ Len(list) <= 0
        BY <1>1, <2>6, <3>5, <4>1, FS_EmptySet DEF Inv, ListInv
      <4>3. list = <<>>
        BY <4>2, EmptySeq
      <4> QED
        BY <2>4, <2>6, <3>3, <4>3 DEF L!Settled
    <3> QED
      BY Zenon, <3>4, <3>5
  <2>7. CASE program = "SynchDisk"
    <3>1. \A t \in Client : pc[t] # "test"
      BY <2>1, <2>7, Distinguished DEF Control, Labels
    <3> QED
      BY <2>4, <2>7, <3>1 DEF Crew
  <2> QED
    BY Zenon, <2>5, <2>6, <2>7
<1>2. (B!Halted <=> Halted) /\ (L!Halted <=> Halted) /\ (D!Halted <=> Halted)
  BY BridgeCalls, ListCalls, DiskCalls
<1>3. Inv => HaltsOnlyWhenDone
  BY <1>1, <1>2
  DEF HaltsOnlyWhenDone, B!HaltsOnlyWhenDone, L!HaltsOnlyWhenEmpty, D!StopsWhenServed
<1> QED
  BY <1>3, NachosInvariant, PTL

-----------------------------------------------------------------------------
(* The synchronized list is the queue of Fifo.                             *)

LEMMA ListCount == \A S : L!Cardinality(S) = Cardinality(S)
BY DEF L!Cardinality, Cardinality

LEMMA InitQueue ==
  ASSUME Init, program = "SynchList"
  PROVE  L!Q!Init
<1>1. L!Init
  BY DEF Init
<1> QED
  BY <1>1 DEF L!Init, L!Q!Init

LEMMA StepQueue ==
  ASSUME Inv, [Next]_vars, program = "SynchList"
  PROVE  L!Q!Next \/ UNCHANGED <<list, num, removed>>
<1>1. Effect /\ ListInv
  BY NextEffect DEF Inv, KernelInv
<1>2. ASSUME NEW a \in Appender, AppendEffect(a)
      PROVE  L!Q!Next \/ UNCHANGED <<list, num, removed>>
  <2>1. CASE /\ Signals(a, listEmpty, lock, "signal", "append.Release")
             /\ list' = Append(list, [thread_id |-> a, value |-> num[a]])
             /\ num' = [num EXCEPT ![a] = @ + 1] /\ removed' = removed
    <3>1. num[a] < Items
      BY <1>1, <2>1 DEF ListInv, Signals
    <3>2. Len(list) < Items * L!Cardinality(Appender)
      BY <1>1, <3>1, ListHasRoom, ListCount
    <3>3. L!Q!Send(a)
      BY <2>1, <3>1, <3>2 DEF L!Q!Send
    <3> QED
      BY <3>3 DEF L!Q!Next
  <2>2. CASE UNCHANGED <<listVars, num>>
    BY <2>2 DEF listVars
  <2> QED
    BY <1>2, <2>1, <2>2 DEF AppendEffect
<1>3. ASSUME NEW r \in Remover, RemoveEffect(r)
      PROVE  L!Q!Next \/ UNCHANGED <<list, num, removed>>
  <2>1. CASE /\ list # <<>> /\ Releases(r, lock, "test", "Remove")
             /\ list' = Tail(list) /\ removed' = [removed EXCEPT ![r] = Append(@, Head(list))]
             /\ num' = num
    <3>1. L!Q!Receive(r)
      BY <2>1 DEF L!Q!Receive
    <3> QED
      BY <3>1 DEF L!Q!Next
  <2>2. CASE UNCHANGED <<listVars, num>>
    BY <2>2 DEF listVars
  <2> QED
    BY <1>3, <2>1, <2>2 DEF RemoveEffect
<1>4. CASE UNCHANGED progVars
  BY <1>4 DEF progVars, listVars
<1> QED
  BY <1>1, <1>2, <1>3, <1>4 DEF Effect

\* The synchronized list of synchlist.cc is a FIFO queue: an Append() sends
\* the appender's next item, a Remove() receives the oldest one, and every
\* other step of the lock, the condition and the scheduler stutters.
THEOREM NachosQueue == Spec => QueueSpec
<1>1. Inv /\ [Next]_vars
        => [program = "SynchList" => L!Q!Next \/ UNCHANGED <<list, num, removed>>]_vars
  BY StepQueue
<1>2. Init => (program = "SynchList" => L!Q!Init)
  BY InitQueue
<1> QED
  BY <1>1, <1>2, NachosInvariant, PTL DEF Spec, QueueSpec

-----------------------------------------------------------------------------
\* Threads of one priority are dispatched in the order in which they became
\* ready, under every program: SortedInsert() puts a thread behind those of its
\* priority (list.cc), and only the head leaves the list (Scheduler,
\* Thread::Yield, Thread::Sleep).
THEOREM NachosArrivalOrder == Spec => ArrivalOrder
<1>1. ASSUME Inv, [Next]_vars
      PROVE  InOrder(readyList, readyList')
  <2>1. SynchTypeOK /\ Where /\ Sorted(readyList)
    BY <1>1 DEF Inv, KernelInv
  <2>2. SynchStep
    BY <1>1, NextEffect DEF Inv, KernelInv
  <2> QED
    BY <2>1, <2>2, StepInOrder
<1>2. Inv /\ [Next]_vars
        => [\A t \in Range(readyList), u \in Thread :
              /\ {t, u} \subseteq Range(readyList')
              /\ Priority[t] = Priority[u]
              /\ u \notin Range(readyList) \/ Before(readyList, t, u)
              => t = u \/ Before(readyList', t, u)]_vars
  BY <1>1 DEF InOrder
<1> QED
  BY <1>2, NachosInvariant, PTL DEF Spec, ArrivalOrder
=============================================================================
