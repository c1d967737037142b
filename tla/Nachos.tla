------------------------------- MODULE Nachos -------------------------------
(***************************************************************************)
(* The test programs that run on the kernel.  Every build of nachos has    *)
(* the same threads and the same devices, and main() (threads/main.cc)     *)
(* starts one program: a behaviour here is a run of one of them, and the   *)
(* fairness that the scheduler and the devices give is stated once.  A     *)
(* worker that the program does not fork stays JUST_CREATED.               *)
(***************************************************************************)
EXTENDS Program

CONSTANTS
  Worker,                     \* the threads that a program may fork
  Car, Crossings, Capacity,   \* Bridge
  Appender, Remover, Items, Takes,               \* SynchList
  Client, Requests, Sector, Data, Blank,         \* SynchDisk
  Char, quit, EOF, MaxTyped,                     \* Console
  lock, bridgeFull, listEmpty, semaphore, readAvail, writeDone

ASSUME NachosAssumption ==
  /\ Thread = {Main} \cup Worker /\ Main \notin Worker
  /\ Car \cup Appender \cup Remover \cup Client \subseteq Worker
  /\ Appender \cap Remover = {}
  /\ {Crossings, Items, Takes, Requests, MaxTyped} \subseteq Nat
  /\ Capacity \in Nat \ {0}
  /\ Semaphore = {lock, semaphore, readAvail, writeDone}
  /\ lock \notin {semaphore, readAvail, writeDone}
  /\ semaphore \notin {readAvail, writeDone} /\ readAvail # writeDone
  /\ Lock = {lock} /\ Condition = {bridgeFull, listEmpty}
  /\ InitialValue = [s \in Semaphore |-> IF s = lock THEN 1 ELSE 0]
  /\ Blank \in Data
  /\ quit \in Char /\ EOF \notin Char

VARIABLES
  program,                          \* the program of this run
  numCars, currentDirec, num,       \* Bridge, SynchList, SynchDisk
  list, removed,                    \* SynchList
  active, contents, buffer, serving,   \* SynchDisk
  incoming, putBusy, ch, typed, shown  \* Console

carVars == <<numCars, currentDirec>>
listVars == <<list, removed>>
diskVars == <<active, contents, buffer, serving>>
consoleVars == <<incoming, putBusy, ch, typed, shown>>
vars == <<kernelVars, pc, program, num, carVars, listVars, diskVars, consoleVars>>

B == INSTANCE Bridge
L == INSTANCE SynchList
D == INSTANCE SynchDisk
C == INSTANCE Console

-----------------------------------------------------------------------------
\* The variables of the programs that do not run.
NoCars == numCars = NULL /\ currentDirec = NULL
NoList == list = NULL /\ removed = NULL
NoDisk == active = NULL /\ contents = NULL /\ buffer = NULL /\ serving = NULL
NoConsole == incoming = NULL /\ putBusy = NULL /\ ch = NULL /\ typed = NULL /\ shown = NULL

Init ==
  \/ program = "SynchTest" /\ B!Init /\ NoList /\ NoDisk /\ NoConsole
  \/ program = "SynchList" /\ L!Init /\ NoCars /\ NoDisk /\ NoConsole
  \/ program = "SynchDisk" /\ D!Init /\ NoCars /\ NoList /\ NoConsole
  \/ program = "ConsoleTest" /\ C!Init /\ num = NULL /\ NoCars /\ NoList /\ NoDisk

SynchTest ==
  program = "SynchTest" /\ UNCHANGED <<program, listVars, diskVars, consoleVars>>
ListTest ==
  program = "SynchList" /\ UNCHANGED <<program, carVars, diskVars, consoleVars>>
DiskTest ==
  program = "SynchDisk" /\ UNCHANGED <<program, carVars, listVars, consoleVars>>
ConsoleTest ==
  program = "ConsoleTest" /\ UNCHANGED <<program, num, carVars, listVars, diskVars>>

\* The next call of the main thread.
MainStep ==
  \/ SynchTest /\ (B!MainFork \/ B!MainFinish)
  \/ ListTest /\ (L!MainFork \/ L!MainFinish)
  \/ DiskTest /\ (D!MainFork \/ D!MainFinish)
  \/ ConsoleTest /\ C!TestStep

\* The next call of a thread that main forked.
WorkerStep(t) ==
  \/ SynchTest /\ t \in Car /\ B!CarStep(t)
  \/ ListTest /\ t \in Appender \cup Remover /\ L!ThreadStep(t)
  \/ DiskTest /\ t \in Client /\ D!ClientStep(t)

\* The interrupt that ends a request to the disk or to the display.
RequestDone ==
  \/ DiskTest /\ D!DiskInterrupt
  \/ ConsoleTest /\ C!WriteDone

KeyTyped == ConsoleTest /\ C!CheckCharAvail

LeaveIdle ==
  \/ DiskTest /\ D!LeaveIdle
  \/ ConsoleTest /\ C!LeaveIdle

TimeSlice ==
  \/ SynchTest /\ B!TimeSlice
  \/ ListTest /\ L!TimeSlice
  \/ DiskTest /\ D!TimeSlice

Next ==
  \/ MainStep
  \/ \E t \in Worker : WorkerStep(t)
  \/ RequestDone \/ KeyTyped \/ LeaveIdle
  \/ TimeSlice

\* Nobody is promised the CPU: who is dispatched is up to the ready list and the
\* priorities in it.  But a thread that gets the CPU again and again also executes
\* its next call, for each interval of the timer is drawn anew (timer.cc), and one
\* that is longer than a call comes.  A device answers every request (Interrupt's
\* SleeperWakes), and the idle loop dispatches.  Neither a time slice nor a typed
\* key is assumed ever to come.
Fairness ==
  /\ SF_vars(MainStep)
  /\ \A t \in Worker : SF_vars(WorkerStep(t))
  /\ SF_vars(RequestDone) /\ WF_vars(LeaveIdle)

Spec == Init /\ [][Next]_vars /\ Fairness

-----------------------------------------------------------------------------
TypeOK ==
  program \in {"SynchTest", "SynchList", "SynchDisk", "ConsoleTest"}

\* No head-on collision and no overload on the bridge of synchtest.cc.
BridgeInv == TypeOK /\ (program = "SynchTest" => B!TypeOK /\ B!BridgeSafe)

\* The list of synchlist.cc, from the first Append() to the last Remove(), is
\* an unbounded FIFO queue: each item goes to one remover, in the order of the
\* Append()s.
QueueSpec ==
  /\ program = "SynchList" => L!Q!Init
  /\ [][program = "SynchList" => L!Q!Next \/ UNCHANGED <<list, num, removed>>]_vars

\* Disk::ReadRequest() and WriteRequest() ASSERT(!active); ReadSector() and
\* WriteSector() return only once their own request is done; and what a thread
\* reads or writes is what the disk holds until it returns.
DiskInv ==
  program = "SynchDisk" =>
    D!RequestOnlyWhenIdle /\ D!ReturnsWhenDone /\ D!BufferIsOnDisk

\* The semaphores of ConsoleTest() agree with the device's flags, so that
\* PutChar()'s ASSERT(putBusy == FALSE) holds, and the console shows what was
\* typed, in order and without loss.
ConsoleInv ==
  program = "ConsoleTest" => C!SignalsMatchDevice /\ C!EchoesInput

\* Whichever program runs, what its threads share is in order whenever one of
\* them may be preempted or interrupted.
ProgramInv == BridgeInv /\ DiskInv /\ ConsoleInv

\* When nothing can run and no device is at work, every thread is done: no
\* notification or signal is lost and nobody waits for anybody in a circle
\* (removers may wait, but only on an empty list).
HaltsOnlyWhenDone ==
  Halted =>
    CASE program = "SynchTest" -> B!HaltsOnlyWhenDone
      [] program = "SynchList" -> L!HaltsOnlyWhenEmpty
      [] program = "SynchDisk" -> D!StopsWhenServed
      [] OTHER -> TRUE

\* Threads of one priority are dispatched in the order in which they became
\* ready, whatever they run: one that joins the ready list goes behind those
\* of its priority, and they never change places (list.cc's SortedInsert,
\* Thread::Yield).
ArrivalOrder ==
  [][\A t \in Range(readyList), u \in Thread :
       /\ {t, u} \subseteq Range(readyList')
       /\ Priority[t] = Priority[u]
       /\ u \notin Range(readyList) \/ Before(readyList, t, u)
       => t = u \/ Before(readyList', t, u)]_vars

\* Every program gets its work done: the cars cross, the list's items find
\* their removers, the disk serves every request, and every character typed
\* is shown, up to the 'q' that ends the test.
WorkGetsDone ==
  []<>CASE program = "SynchTest" -> {Main} \cup Car \subseteq finished
        [] program = "SynchList" -> L!Settled
        [] program = "SynchDisk" -> {Main} \cup Client \subseteq finished
        [] program = "ConsoleTest" -> C!CaughtUp

-----------------------------------------------------------------------------
\* An instance for TLC.  The cars have the priorities that synchtest.cc gives
\* them; the other workers have the default one (thread.h:87).
MCThread == {Main} \cup Worker
MCCarPriority ==
  CHOOSE p \in [Car -> 0 .. Cardinality(Car) - 1] :
    \A car, other \in Car : p[car] = p[other] => car = other
MCPriority ==
  [t \in MCThread |->
     IF t = Main THEN 0 ELSE IF t \in Car THEN MCCarPriority[t] ELSE 7]
MCInitialValue == [s \in Semaphore |-> IF s = lock THEN 1 ELSE 0]

=============================================================================
