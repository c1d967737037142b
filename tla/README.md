# Verification of the CPP1 repository

The repository holds five unrelated programs.  The largest is `OperatingSystem/`: the
Nachos teaching kernel with the extensions its authors made (thread priorities, a bridge and a
producer/consumer exercise, files that grow through an index block, demand paging with a swap
file), with the tools that build its user programs.  The other four are sequential:
`BAPS` (allocation of berths to vessels), `t2opencv_image_segmeentation` (graph-cut
segmentation), `BeliefPropagation` (sum-product on a tree) and `opengl` (a polygon editor).

Contents: 1 inventory; 2 modules and how they compose; 3 runs and bounds; 4 fairness;
5 proofs; 6 what the code does against its comments; 7 what is not modelled; 8 plan.

## 1. Inventory

### OperatingSystem: the Nachos kernel

Nachos is one UNIX process.  It simulates one processor, its devices and an interrupt
controller.  Kernel threads switch on that processor by `SWITCH`, so that at every moment
one thread runs kernel code, and the only things that can come between two of its instructions
are the interrupt handlers - which run inside `Interrupt::OneTick()`, that is, when the thread
enables interrupts again or a user instruction has been executed.  A thread loses the
processor only by `Sleep`, `Yield`, `Finish`, or because the timer's handler asked for a
`Yield` on return from the interrupt.

| part (directory) | state | operations | correct when |
|---|---|---|---|
| threads and scheduler (`threads/thread.cc`, `scheduler.cc`) | `currentThread`, the ready list sorted by priority, each thread's status, `threadToBeDestroyed` | `Fork`, `Yield`, `Sleep`, `Finish`, `ReadyToRun`, `FindNextToRun`, `Run` | a thread is in exactly the place its status says; the most urgent ready thread is dispatched, ties in order of arrival; a finished thread is touched by nobody |
| lists (`threads/list.cc`) | linked list with keys | `Append`, `Remove`, `SortedInsert`, `SortedRemove` | they are the sequence operations the kernel takes them for; equal keys keep their order |
| semaphores, locks, conditions (`threads/synch.cc`) | semaphore value and queue, lock owner, condition queue | `P`, `V`, `Acquire`, `Release`, `Wait`, `Signal`, `Broadcast` | no lost wake-up, mutual exclusion, `Wait` is atomic with respect to `Signal` and returns with the lock |
| bridge (`threads/synchtest.cc`) | cars on the bridge, direction | `Arrive`, `Cross`, `Exit` | one direction at a time, at most three cars, everyone crosses |
| synchronized list (`threads/synchlist.cc`) | a list behind a lock and a condition | `Append`, `Remove`, `Mapcar` | a FIFO queue; a remover sleeps only while it is empty |
| producers and consumers (`lab3/`) | a ring, three semaphores | `Ring::Put`, `Ring::Get`, the two thread bodies | a bounded FIFO buffer, nobody waits for ever |
| interrupts, timer, clock (`machine/interrupt.cc`, `timer.cc`, `stats.cc`) | pending interrupts by time, interrupt level, machine status, `yieldOnReturn`, `totalTicks` | `SetLevel`, `OneTick`, `Schedule`, `CheckIfDue`, `Idle`, `Halt`, the timer's rescheduling | handled in order, none early or left behind; the machine halts only if nothing can happen any more |
| console (`machine/console.cc`, `userprog/progtest.cc`) | one input character, the busy flag | `CheckCharAvail`, `WriteDone`, `GetChar`, `PutChar`, the echo loop | no character overwritten, lost or written over one in transit |
| disk, synchronous disk (`machine/disk.cc`, `filesys/synchdisk.cc`) | `active`, the sectors, a lock, a semaphore | `ReadRequest`, `WriteRequest`, `HandleInterrupt`, `ReadSector`, `WriteSector`, `RequestDone` | one request at a time, each caller returns when its own is done |
| network, post office (`machine/network.cc`, `network/post.cc`) | one-packet inbox, packets under way, mail boxes | `Send`, `CheckPktAvail`, `Receive`, `PostalDelivery`, `MailBox::Put/Get` | a message arrives at most once, unaltered, in its own box |
| file system (`filesys/filesys.cc`, `filehdr.cc`, `directory.cc`, `fstest.cc`, `userprog/bitmap.cc`) | bitmap, directory and headers on the disk | copy, append, append to the middle, remove; `Allocate`, `AppSector`, `Deallocate`, `WriteBack` | no sector belongs to two files, the bitmap agrees with the headers, what the directory names can be read, a command does all or nothing |
| open files (`filesys/openfile.cc`) | seek position | `Seek`, `Read`, `Write`, `ReadAt`, `WriteAt` | a byte array, though the disk moves sectors |
| demand paging (`userprog/addrspace.cc`, `machine/translate.cc`) | page table, FIFO queue of resident pages, swap file and its bitmap | `AddrSpace()`, `Translate`, `SwapHandler`, `ReadMem`/`WriteMem` | each page is in one place, and what was written is read again |
| page faults and restart (`userprog/exception.cc`, `machine/mipssim.cc`) | `PCReg`, `NextPCReg` | `OneInstruction`, the page fault handler | the faulting instruction is executed once after the fault |
| instruction set (`machine/mipssim.cc`), stand-alone simulator (`bin/execute.c`) | registers, `HI`, `LO`, the pending load, two program counters, memory | `Decode`, `OneInstruction`, `DelayedLoad`, `Mult`; `runprogram` | both execute the same program alike, and as the machine's manual says |
| executable tools (`bin/coff2noff.c`, `bin/coff2flat.c`) | the segments written so far | one section at a time | the file holds every byte of the program at its address |
| tests (`threads/threadtest.cc`, `network/nettest.cc`), other tools (`bin/`), host interface (`machine/sysdep.cc`, `threads/switch.s`), user programs (`test/`) | - | - | - |

How they interact: every blocking operation ends in `Semaphore::P` or `Condition::Wait`, both
in `Thread::Sleep` and `Scheduler::Run`; every device answers through `Interrupt::Schedule`
and a handler that calls `V`; when no thread is ready, `Sleep` runs `Interrupt::Idle`, which
advances the clock to the next interrupt or halts the machine.  The file system reaches the
disk through `SynchDisk`, mail boxes are `SynchList`s, and the user program reaches the pager
through the machine's exceptions.

What is hard in it: (a) the order of threads between the moment one is woken and the moment it
runs - here a wake-up gives nothing away, the woken thread must test again; (b) multi-step kernel
calls (`Wait` is queue, release, sleep) interleaved with others; (c) that a lost wake-up does not
hang but looks like a normal halt; (d) handlers that schedule interrupts while the pending list is
being emptied; (e) ctl-C between two sector writes; (f) full disks, full swap files, full rings,
one-packet and one-character buffers; (g) a page's life between memory, executable and swap
file; (h) restarting an instruction on a processor with delay slots.  PROJECT.json lists each
of these at its line, with the properties that watch it.

### The other four programs

| part | state | operations | correct when |
|---|---|---|---|
| BAPS package and solver (`BAPS/src`) | the instance, its time zones, the solution | five file readers, `ComputeTimeZones`, `AnalyzeSolution`, `VerifySolution`, the jobs of `baps` | the time zones lose no moment at which two vessels are berthed together; a solution that was written reads back as it was and is valid |
| BAPS partitioners (`BAPS/partitioning/{SA,GREEDY,TV}`) | the vessels of each section, each section's free capacity per time zone, the current and the best vector | random and greedy construction, trial exchanges, conversion between vector and section form, annealing | no section exceeds its capacity, after any sequence of trial exchanges; the cost of a vector is the cost that is stored in it; the search ends |
| BAPS packing (`BAPS/packing`) | - | `Solve()` is empty | - |
| segmentation (`t2opencv_image_segmeentation/main.cpp`, `kmeans.cpp`) | marks, clusters, labels | k-means, the energy of two labels, the decision of each pixel | clusters improve, the program ends |
| energy minimisation (`GCoptimization.cpp`, `mrf.cpp`) | the labelling | expansion and swap moves | each move finds the best labelling it can reach |
| minimum cut (`graph.cpp`, `maxflow.cpp`, `energy.h`) | nodes, arcs, two search trees, orphans, time stamps | building the graph, its forward star in blocks, grow, augment, adopt | the trees stay trees; the cut is minimal |
| belief propagation (`BeliefPropagation`) | messages on the edges of a tree | two depth-first passes | the marginals are exact |
| polygon editor (`opengl/polygon`) | polygons, selection, mode, the file `po.txt` | menu, key, mouse and motion callbacks | a click changes only what is selected; a saved scene comes back |

These are sequential: what is hard in them is long sequences of legal steps (trial exchanges that are
undone, search trees that are mended and not rebuilt, modes that keep a selection), arithmetic that wraps
around, and loops whose end depends on the data.

## 2. Modules

    Scheduler <- Synch <- Kernel                 any client          refines Monitor
                       <- Program <- ProdCons                        refines Fifo
                                  <- Bridge     \
                                  <- SynchList   > Nachos            SynchList refines Fifo
                                  <- SynchDisk  /  (one kernel, the four programs)
                                  <- Console   /
                                  <- PostOffice  \ MCDevices         PostOffice refines Mail
    Interrupt                                    /
    FileSystem                                   \ MCFileSystem      refines FileTable
    OpenFile                                     /                   refines ByteFile
    VirtualMemory                                \
    Coff, AddressLayout, FaultRestart            / MCUserProgram
    Processor <- Execute
    BAPPackage <- BAPPartitioner <- BAPSolver    MCBerth
    MaxFlow <- GCoptimization <- Segmentation    \
    BeliefPropagation, PolygonEditor             / MCApplications

    Program <- SynchProofs <- KernelProofs          (with Kernel)
                           <- ProdConsProofs        (with ProdCons)
                           <- NachosProofs          (with Nachos)
                           <- DevicesProofs         (with MCDevices)
    MCFileSystem <- FileSystemProofs
    MCUserProgram <- VirtualMemoryProofs
    BAPSolver <- BerthProofs

`<-` is EXTENDS, except that `Nachos` takes its four programs by INSTANCE over one set of
threads, semaphores and variables of the kernel.  A module named on the right joins several subjects in one run: its initial
state chooses the variable `subject`, only the variables of that subject change afterwards, and each
property is that of its subject.  The subjects have nothing else in common.

| module | code | state and actions |
|---|---|---|
| `Scheduler` | `thread.cc`, `scheduler.cc`, `list.cc`, `system.cc` | `current`, `readyList`, `status`, `finished`.  One operator per stretch that runs with interrupts off; `Sleep`, `Yield` and `Finish` include the dispatch, for nothing comes between on a uniprocessor.  `InsertPosition` is `SortedInsert`'s loop.  With no thread ready, `current` stays the thread that went to sleep and no status is RUNNING: the machine idles |
| `Synch` | `synch.cc` | `value`, `queue`, `owner`, `condQueue`, and `inP`, the semaphore in whose `while` loop a thread sleeps.  `Acquire` is `P` on the lock's semaphore; `Wait` = queue, `Release`, sleep |
| `Kernel` | the same, every order of calls | The most general client: each thread makes any call its ASSERTs allow; a timer may force `Yield` wherever interrupts are enabled; handlers call `V` |
| `Monitor` | `synch.h` (comments) | abstract: the owner of each lock, the un-notified waiters of each condition |
| `Program` | - | `pc`, and each kernel call as a step from label to label.  A step runs from one point where the thread may be preempted to the next |
| `ProdCons` | `lab3/prodcons++.cc`, `ring.cc` | the two thread bodies with the ring's `Put` and `Get`; `main` forks them |
| `Bridge`, `SynchList`, `SynchDisk`, `Console` | `synchtest.cc`; `synchlist.cc`; `synchdisk.cc` and `disk.cc`; `progtest.cc` and `console.cc` | the thread bodies, the device's registers, and one action per device interrupt |
| `Nachos` | `main.cc`, `system.cc` | the variable `program` says which of the four was started; the fairness is stated here |
| `Fifo` | `ring.h`, `synchlist.h` | abstract: a FIFO buffer, bounded or not |
| `PostOffice`, `Mail` | `post.cc`, `network.cc`; `Mail` is abstract | senders, worker, receivers; `transit` holds delayed packets, `socket` those that arrived, `inHdr` the one-packet inbox |
| `Interrupt` | `interrupt.cc`, `timer.cc`, `stats.cc` | `pending` as a sequence of entries with the time *left* (`when - totalTicks`), level, status, `yieldOnReturn`; one action per loop iteration of `OneTick` and `Idle` |
| `FileSystem`, `FileTable` | `filesys.cc`, `filehdr.cc`, `directory.cc`, `bitmap.cc`, `fstest.cc`; `FileTable` is abstract | `disk` maps sectors to header, index block, bitmap, directory or data.  A command computes in memory and leaves a list `writes` of sector writes, which `WriteSector` carries out one at a time; `CtlC` forgets the rest; `lost` remembers the index blocks that the code forgets; a failed ASSERT ends the run of nachos, `Restart` starts the next |
| `OpenFile`, `ByteFile` | `openfile.cc`; `ByteFile` is abstract | the sectors' bytes and the seek position; `Write` is the read-modify-write of whole sectors |
| `VirtualMemory` | `addrspace.cc`, `translate.cc` | page table, queue, swap file; a page's contents are one value.  `SwapHandler` is `SwapClean`, `SwapDirty` or `SwapFails` according to the page it replaces |
| `AddressLayout` | `addrspace.cc` | the constructor's page table for all small layouts, and `Translate` on every address |
| `FaultRestart` | `mipssim.cc`, `exception.cc` | the two program counters over all small programs with at most one jump |
| `Processor` | `mipssim.cc` | `registers` with the pending load and both program counters, `mainMemory`; one action is one `OneInstruction`.  A word has four bytes of `ByteBits` bits, and every width, mask, sign and carry follows from that |
| `Execute` | `execute.c` | `runprogram`'s registers beside those of `Processor`; the two take turns at the same instruction.  `Excused` names the instructions and situations in which the sources differ |
| `Coff` | `coff2noff.c`, `coff2flat.c` | the section at which the tool is, the segments' headers and the bytes written |
| `BAPPackage` | `BAPPackage.cpp` | a file is a sequence of keywords and rows; readers are folds over it; `ComputeTimeZones` is the sweep over arrivals and departures |
| `BAPPartitioner` | `BAP*Partitioner.cpp`, `BAPSASection.cpp`, `BAPSAVessel.cpp` | the working copies of sections and vessels; each random draw is a choice.  The annealing's steps are the draws of a first and of ten more exchanges, and accepting or rejecting the best of them |
| `BAPSolver` | `baps.cpp`, `BAPSolver.cpp` | load, read the parameters, solve, write, by job |
| `MaxFlow` | `graph.cpp`, `energy.h`, `maxflow.cpp` | nodes and arcs in blocks, which `prepare_graph` sorts in place by cycles; the trees with parents, time stamps, distances and the two queues; one action per active node, path and orphan |
| `GCoptimization` | `GCoptimization.cpp`, `mrf.cpp`, `LinkedBlockList.cpp` | `mrf` is the problem; a move builds an energy of binary terms and starts `MaxFlow` |
| `Segmentation` | `main.cpp`, `kmeans.cpp` | marks, two clusterings and the labelling, phase by phase |
| `BeliefPropagation` | `bp.cpp` | the recursion of the two searches as a stack; a message is a ratio in lowest terms |
| `PolygonEditor` | `Source.cpp` | the globals of the program; one action is one callback, up to its `display()` |

Modules whose name starts with `MC` give the constants their values; `Kernel`, `Nachos`, `ProdCons`,
`VirtualMemory` and `Execute` end with the few definitions that their configurations need.

## 3. Runs

| run | question | bounds, and why they are enough |
|---|---|---|
| `kernel` | Is every thread where its status says, is no wake-up lost, do locks exclude, and do locks and conditions make a monitor? | Four threads of priorities 0, 7, 5, 5 (one more urgent, one less, a tie), a semaphore signalled by a device, a lock, a condition; semaphores up to 2 (`MaxValue`).  Two waiters and one that barges in are what a lost wake-up needs, and the fourth thread holds the lock meanwhile |
| `programs` | Do the bridge, the synchronized list, the synchronous disk and the console keep their promises on the kernel, and does their work get done? | Three cars beside `main`, or three other workers; a bridge of capacity 2 instead of 3, so that three cars overfill it, two crossings each (once in each direction), of priorities 0, 1 and 2 in the order of the forks, as `SynchTest` gives its seven; the other workers have the default priority; 3 items and 2 takes by each of two removers, so that one remover is left waiting on the empty list; two disk clients with two requests each; up to three characters typed (`MaxTyped`) |
| `prod_cons` | Do three semaphores and a ring make a bounded FIFO buffer? | Two producers of two messages, two consumers, a ring of two: it wraps, gets full and empty.  The threads are forked in one order, as in the code; time slices may reorder them at once |
| `devices` | Does the simulated hardware handle every interrupt, in order and in time, and halt only when nothing can happen?  What survives of a message? | A timer with a short and a long interval, two one-shot devices, one polled device, two threads; delays 2 and 5 against a tick of 3 (system) or 1 (user), so that interrupts are due before, at and after a tick, and together.  Time is kept relative, so there is no bound on it.  Two senders of one message each, a receiver of two, two boxes, loss and delay |
| `file_system` | Do commands keep the files apart and the bitmap exact, and does each take effect at once?  Is an open file a byte array? | Two names on ten sectors of two units, one sector listed in the header before the index block (`NumHdr`), sources of length 2, files up to 7, so lengths 2, 4 and 6, and 3, 5 and 7 once `-hap` has halved one: without an index block, with one, and growing with one; the disk gets full in every command.  At most one ctl-C (`MaxCtlC`).  Bitmap and directory fit a sector each.  The names are symmetric (the four properties are safety properties and name none).  The open file has five bytes in three sectors of two (the last is partial), counts from 0 to 6, positions up to one past the end |
| `user_program` | Are pages, frames and slots in agreement?  Do the two loaders agree?  Does each address of each segment have its own byte, and does a fault read the right one?  What does a page fault do to the program counters? | Five pages of all four kinds, three frames, two slots: replacement starts with the fourth page and the swap file fills up.  Executables of the linker's five sections of up to two bytes with and without a gap; all sizes up to 9 bytes of three segments in pages of 4.  All programs of six instructions in three code pages with two data pages, one forward jump or none, three frames; `executed` saturates at 2 |
| `simulators` | Do the two simulators execute every program alike? | Some 250 programs of one to four instructions that cover every instruction, with delay slots, loads into them and jumps across regions, over registers at the edges.  `ByteBits` = 2 gives words of 8 bits and half-words of 4; `JumpSpan` = 64 and `MemorySize` = 8 keep the jump regions and the memory in proportion |
| `berth` | Are the partitioners' working copies, costs and capacities right whatever they try, does a solution read back, does the search end? | Three ports of 2 to 4 vessels and one or two sections: exchanges are possible, a vessel is left over, nothing can be exchanged; three algorithms, a missing parameter file, four jobs.  `ROUNDS` = 2 (44 x 50 in the code) and `EXCHANGES` = 2 (10): every try goes through the same steps, and the second follows an accepted and a rejected one.  `WORD` = 2^21 stands for the unsigned word of 32 bits; it is above twice the `INFINITY` of the code, which is kept |
| `applications` | Is every cut minimal and every move optimal, does the segmentation end, are marginals exact, does a scene survive? | Three pictures of six pixels; eight labelling problems on grids and rings, with arrays, weights and functions, and five energies given term by term, among them one in which a node that was given up is reached again.  Blocks of 3 nodes, 5 arcs and 2 list entries, so that every graph needs several; two clusters (64 in the code), three passes of the k-means loop (`PASSES`), `SCALE` 10.  Four trees of six nodes from every root, two tables of potentials.  Two polygons (100) of two points in all, two colours, drags of one step (`DRIFT`), the program restarted at any time |
| `virtual_memory_lost`, `fault_restart_twice`, `or_ignores_rt` | The three disagreements of section 6 | The instances above |

What the properties say is in the comment before each of them; here is what they are for.

* `PlaceInv`, `NoLostWakeup`, `DispatchMostUrgent` (kernel).  A woken thread is on the ready list,
  not inside the semaphore; `NoLostWakeup` says that for every unit of a semaphore with a
  queue, someone is on the way to test it.  That is the reason the `while` in `P` is needed and suffices.
* `MonitorSpec`, `LeavesWithLock` (kernel).  `Wait` is atomic to the other threads although it is
  three steps, and returns owning the lock although others may have had it in between.
* `ProgramInv` (the bridge's, the disk's and the console's part), `QueueSpec`, `RingInv`, `FifoSpec`: the
  programs' data under every interleaving of their threads, time slices and device interrupts.
* `HaltsOnlyWhenDone`, `WorkGetsDone`.  Nachos halts when nobody can run; these say that this is
  never a deadlock in disguise, and, under the fairness of section 4, that nobody waits for ever.
  `RingInv` and `NetworkInv` contain the same for their programs.
* `ArrivalOrder`: threads of equal priority never overtake one another on the ready list.
* `InterruptInv`, `FiresInOrder`, `SleeperWakes` (devices): nothing due is left, the timer is armed once,
  the machine halts only when idle; order of time; nobody who sleeps for the end of a request is forgotten.
  A poll may find nothing and wake nobody (`console.cc:96`, `network.cc:75`), so nothing is said of who sleeps for input.
* `MailSpec`, `NetworkInv` (devices): at most once, unaltered, in its own box; the worker never reads an
  empty inbox, a sender never overtakes the network, and when all is quiet what survived was delivered.
* `DiskInv`, `OnlyIndexBlocksLeak`, `FilesSpec`, `BytesSpec` (file_system).  The first holds between any two
  sector writes; these are about commands that ctl-C did not interrupt (`ctlC = 0`), for the code makes
  no promise about the other ones.  `OnlyIndexBlocksLeak` is an equation: the sectors marked in vain are those of the
  history variable `lost`, to which a removal and an append add an index block at the moment the code forgets it.  States after a ctl-C are explored, with the
  assertion failures they lead to.
* `PagingInv`, `ExecutableIntact` (user_program).
* `SimulatorsAgree`, `MultipliesExactly` (simulators), `LoadersAgree` (user_program): two implementations of one
  thing, compared after every instruction and at every byte.
* `FaultReadsRightPage` (user_program).  Every address has a byte of its own and a fault reads it, except for the data of
  programs with both kinds of it whose segments share a page in the linker's layout, where the constructor and
  `Translate` disagree (section 6).
* `RestartInv` (user_program): what the handler's `PCReg -= 4` leaves true - nothing is skipped, a
  jump in whose delay slot the fault happens is still taken.
* `BerthInv`, `CostInv`, `ReadBackVerified`, `BestOnlyImproves`, `EndsUnlessStuck` (berth).  `BerthInv` restates the
  capacity by the schedule itself and not by time zones.  `CostInv` has three parts: each vector carries its own cost
  (`VectorsAgree`), none has wrapped around (`NoOverflow`), the cost derived for an exchange is the exchange's
  (`DeltExact`).  The last needs distances that are the same both ways, which no reader checks and `MCDistances`
  states of the three ports.  `EndsUnlessStuck` admits the one way in which the search
  does not end (`BAPSAPartitioner.cpp:445`).
* `MaxflowInv`, `OptimalMoves`, `ClustersImprove`, `SegmentationEnds`, `MarginalsExact`, `PolygonsKept` (applications).
  Cut, move and marginals are compared with the minimum over all cuts, the minimum over all labellings in reach
  and the sum over all assignments.

CHECK_DEADLOCK is FALSE where the system stops: a machine that halts, commands that the
length bound excludes, a swap file that is full, a program at its end, a file that is written.

Each property is accompanied by a mutant: a change of the code (a dropped loop, a swapped order, a
missing reset) under which it is violated.

## 4. Fairness

* `Nachos`: strong fairness of `main`, of each worker and of the device's answer, weak fairness of
  leaving the idle loop.  A worker's step is enabled only while the worker has the processor, and who has it is
  decided by the model's ready list with the priorities of the code, so the assumption gives no thread a turn:
  a less urgent car runs when the more urgent ones wait or are done, and `WorkGetsDone` shows that this happens
  because the crossings are finitely many.  What is assumed is that a thread that gets the processor again and
  again is not interrupted before its next call every time: time slices come only with `-rs`, and each
  interval is then drawn anew from 1 to 200 ticks (`timer.cc`, `TimerTicks` in `stats.h`).  `TimeSlice` itself has no
  fairness.  A device's interrupt is scheduled by the request itself and handled
  (`SleeperWakes` of `Interrupt`).  A key being typed is not assumed.
* `Interrupt` (in `DevicesSpec`): weak fairness of the simulator as a whole, which never stops by itself, and strong
  fairness of `OneTick`: a program does not only switch modes for ever.
* `BAPSolver` and `Segmentation`: weak fairness of the next step (`KeepsRunning` is the same, written out).  A
  batch program goes on while it can; which random numbers it draws is left open, so `EndsUnlessStuck` and
  `SegmentationEnds` hold for every sequence of them.
* All other subjects are about safety and use no fairness.

## 5. Proofs

TLAPS proves the following for every value of the constants that meets the modules' named ASSUMEs:
finitely many threads with integer priorities, a lock's semaphore that starts at 1, semaphores and
threads of the programs that are distinct and all there are, a bridge and a ring with room for at
least one, a process with at least as many pages as frames, sectors of at least one byte, bytes among
which there is 0, a disk with more than the four sectors of its bitmap and directory, headers that list at
least one sector, a `Nothing` that is neither a length nor a pending command; executables whose sections are
as the linker's script makes them (one of code, none overlapping, the stored bytes before the others); a page size, a program and a stack that are
not empty; code pages of at least one word; complete datasets (every vessel has a length and leaves
after it arrives, every section has a length, distances and flows are natural), projects that name one of them,
loop counts and a word of at least one.  TLC evaluates each of these assumptions in a run.  Every invariant below that is
stronger than the property it serves was checked by TLC on the run's instance before it was proved.

**The kernel for any client** (`SynchProofs`, which the next four modules share).  The lists
of `list.cc` as sequences: what insertion, removal and taking the head do to the elements, to their
order and to their number.  Then one step relation, `SynchStep`: any thread calls any routine of `synch.cc`
or `thread.cc`, or a handler calls `V`.  A lemma for each routine and each of these says that it is kept:

* the types (`StepType`); the lock invariant (`StepLock`: `Acquire` passes only at a positive value, which
  means no owner, `Release` is guarded by ownership, a thread that wakes inside `P` takes value and ownership
  in one step or neither, no device signals a lock's semaphore); the order of the ready list (`StepSorted`);
* `Where`: each thread is on at most one of the ready list, one semaphore's queue and one condition's
  queue, at most once, and its status says which; no finished thread is on any.  It ties `status`, the lists
  and `inP` together and is what `PlaceInv` needs to be inductive;
* `NoLostWakeup`, by counting: with `Where`, the threads that queue for a semaphore and those on their way to
  test it are disjoint sets, and each `P`, `V` and dispatch moves one thread from one to the other.

**Kernel** (`KernelProofs`).  Each action of `Kernel` is a `SynchStep`; from the lemmas follow
`KernelTypeCorrect`, `KernelLockExclusion` (`LockInv`), `KernelPlaces` (`PlaceInv`), `KernelNoLostWakeup`, and
the action properties `KernelLeavesWithLock` and `KernelDispatchMostUrgent` (by the order of the ready
list).  `KernelImplementsMonitor` is the refinement of `Monitor`: initial states map to initial states, and each
routine is a monitor step or leaves owners and waiters alone.

**Producers and consumers** (`ProdConsProofs`).  The invariant says where each thread is in its program and which
semaphore it can be inside (`Control`), counts the slots - the value of `nempty`, the full slots and the
threads between their `P` and their `V` add up to the size of the ring, and so for `nfull` and `mutex` - and
says that the ring between `out` and `in` holds what was put and not taken.  `ProdConsImplementsFifo` is the
refinement of the bounded `Fifo`; `ProdConsRing` (`RingInv`) contains that the program never stops early: with
`NoLostWakeup`, a state in which all wait would have all three counts wrong.

**Nachos's programs** (`NachosProofs`; what each call does to label, owner and waiting threads is in `SynchProofs`).
One invariant for the four programs: labels and the lock (`Control`, `Ownership`: a thread owns the lock exactly
at the labels where the program holds it; `Waiters`), and a part for each program: the bridge's cars are counted by
the threads at the labels on it and, while cars wait, one that will broadcast has not left (`CarInv`); no item
is twice in the list and, while removers wait, each item has one on its way (`ListInv`); the request of the client
in `P` is at the device or its signal has come (`ClientInv`); a character is in the buffer while its signal
waits or has been taken (`EchoInv`).  From it:
`NachosPrograms` (`ProgramInv`), `NachosHaltsOnlyWhenDone` (the machine stops with a car before the bridge, a
remover beside an item or a client in `P` only if one of those counts were wrong), `NachosQueue` (the
refinement of the unbounded `Fifo`) and `NachosArrivalOrder` (`ArrivalOrder`).

**Post office and interrupts** (`DevicesProofs`).  The post office's invariant has the same shape: labels, ownership of
the send lock and the box locks, `SendHandshake` and `ReceiveHandshake` (a signal on the semaphore or a packet
under way, never both), `BoxServed` (a box with waiting receivers has one on the way to each message) and
`Distinct` (no message in two places).  Theorems: `PostOfficeNetwork` (`NetworkInv`) and `PostOfficeImplementsMail`
(the refinement of `Mail`).  For the interrupts, the pending list is in order of time with one entry of each type
(`Agenda`), a waiting thread's device is on it, and runnable and waiting threads are counted (`Threads`); with
these `DevicesInterrupts` (`InterruptInv`) and the action property `DevicesFireInOrder`.

**Open files** (`FileSystemProofs`).  `FileSystemImplementsBytes` is the refinement of `ByteFile`: `ReadAt` and
`WriteAt` move whole sectors, and whatever the sector size, the length and the position, the bytes of the
file change and are delivered as in an array.  The work is the arithmetic of first and last sector.

**File system** (`FileSystemProofs`).  The inductive invariant `FInv` is about the writes that the command in
progress has planned.  `After(d, w, k)` is the disk `d` after the first `k` of the writes `w`.  Until the first
ctl-C the plan is `Good`: it writes no sector twice; after each `k` the disk is `Safe` (files apart, every entry's
header on the disk with its index block, or that block written next); in the end it is `Whole` (headers and
index blocks agree, used sectors are marked and hold their file's data, index blocks are marked); and each
write makes a step of the table of files.  `Neat`, that nothing is marked in vain but the index blocks given up
(`Tidy`, `GivesUp`), holds until a run ends with an assertion.  After a ctl-C only the types remain: bitmap,
directory, headers and index blocks are where they belong, so that the next command can be followed.  The steps:

* the operators: `FindFacts` (`BitMap::Find` hands out clear sectors, each once, then -1), `GrowFacts`
  (`Allocate` and `AppSector`), `ReadBack` (`FetchFrom` reads what `WriteBack` wrote);
* the plans: `CreateGood`, `FillGood`, `RemoveGood` and `ExtendGood`, each by following its writes one by one.  In
  `ExtendGood` the last sector of a full disk may be -1 (`AppSector` asks for one sector too few): the plan then
  ends at the write that the disk refuses, and the disk before it is whole;
* the step: `OneWritten`, a good plan is good for the rest of its writes on the disk with the first one done.

From `FInv` follow `FileSystemDisk` (`DiskInv`), `FileSystemLeaks` (`OnlyIndexBlocksLeak`) and
`FileSystemImplementsTable` (`FilesSpec`, the refinement of `FileTable`).

**Demand paging, layout, restart and loaders** (`VirtualMemoryProofs`, over `MCUserProgram`; `PagingInside` takes the
theorems of `VirtualMemory` there).

* `VirtualMemoryPaging` (`PagingInv`): the inductive invariant is the conjunction of `QueueIsResident`,
  `SlotsOwned` and `KeepsWrites`; each needs the others.  That a slot has one owner needs that the
  replaced page is a resident one (otherwise its slot could be given again); that writes are kept needs
  that nobody else's frame or slot is overwritten.  `FreedSlot` and the lemmas per action are about what
  the handler does to one page.
* `VirtualMemoryExecutable`: if the program writes no page of the executable (a hypothesis of the
  theorem, `ReadOnlyExecutable`), then `ExecutableIntact`.  The strengthening is that no resident page of
  the executable is dirty.

* `FaultsSkipNothing` (`RestartInv`): that every instruction of the path before `PCReg` has been executed
  (`NothingSkipped`) is inductive with `OneDelaySlot`: `NextPCReg` follows `PCReg`, but in the delay slot of the jump.
* `AddressesFound` (`FaultReadsRightPage`): `LayoutInv` says, step by step of the constructor, which pages have their
  type and file address already.  The rest is arithmetic: the number of pages is the least that holds the bytes
  (`DivideBy`), and the three segments and the stack do not share one (`SegmentsApart`).
* `LoadersMakeOneProgram` (`LoadersAgree`): the invariant `LoaderInv` says of the sections passed so far that their
  bytes are in the file (`SegmentsStored`, `FlatWritten`), and the uninitialized ones in the one segment that
  grows (`UninitKept`).

**Berth allocation** (`BerthProofs`).  The inductive invariant `BerthIInv` (`BerthIInvHolds`) has three parts:
the working copies are those of the package, vessels and sections agree, each section's free length is its
length less that of its vessels, and it is not negative (`CopiesInv`); the candidates are exactly the vessels
not yet placed (`WaitingInv`); each vector of the annealing is a solution that fits and carries its cost, and the
current one is what the copies hold (`VectorsInv`).  From it:

* `BerthInvHolds` (`BerthInv`).  Two things had to be shown.  *The schedule*: the sweep over arrivals and departures
  puts all the vessels that are at the terminal together into one time zone (`ZonesCover`, by an invariant of the
  sweep), and a vessel's zones are an interval, so that room in every zone is room at every moment.  *The steps*: a
  trial exchange takes two vessels out and puts them back as they were (`SwapFeasible`), and rebuilding the copies
  from a vector gives the solution of that vector, whatever they held before (`RebuiltPlaced`).
* `BestOnlyImprovesHolds` (`BestOnlyImproves`) and `AnnealingVectors`, the first part of `CostInv`.
* `ExchangesPriced`: `CalcObjValByDelt` derives the cost of an exchange of two berthed vessels exactly.  The cost of a
  vector is a sum over the pairs of vessels (`FullCost`), a vessel left behind being at the distance `INFINITY`; an exchange changes only the terms of the two vessels
  (`PairsExchanged`), and by what the code adds (`ExchangeGain`); in unsigned arithmetic, the
  equation then holds for the stored remainders (`UnsignedAdd`).  Its hypothesis is that distances are the same both
  ways and 0 from a section to itself: true of the 40 datasets in the repository, required by no reader.
* `OverflowDetected`, with no hypothesis on the data: each vector's cost is its true price (`Moves` and `LeftBehind`, sums
  of natural numbers) modulo a word, and the two `assert`s behind each computed cost (`BAPSAPartitioner.cpp:408`,
  `:987`) pass exactly when the sum of the two parts has not wrapped, as long as each part fits a word.  A part may not:
  every container left behind costs `INFINITY`, and the `assert`s cannot see that.  That no cost wraps
  (`NoOverflow`) depends on the dataset, and is only model-checked.
* `ReadBackVerifiedHolds` (`ReadBackVerified`), again for distances that are the same both ways: the partitioner
  charges one distance for what two vessels exchange, the package adds up both directions.  `FileInv` says that a
  written file reads back; it is shown where `Report` writes it.  The reader is followed line by line: the header
  leaves the costs, and the rows, which list every vessel once (`NthLists`), leave the sections.  The solution read
  is then feasible because the sections of the partitioner were never overfull, and costs what was written.

Sums over sets are folds, whose order of summation the definitions leave open.  That any order gives the same sum
(`SumAnyOrder`) needs induction over finite sets.  The library's induction theorems take an operator as a
parameter, which the provers cannot instantiate; `Induction` states it for a *set* of numbers
instead and follows from the well-foundedness of <, so that what is proved by induction is first made a set.

**Only model-checked**, and why:

* `WorkGetsDone`, `SleeperWakes`, `EndsUnlessStuck`, `SegmentationEnds`: liveness.  The prover does not handle
  fairness and ENABLED.
* `NoOverflow` in `CostInv`; its other two parts are `AnnealingVectors` and `ExchangesPriced`.
* `SimulatorsAgree`, `MultipliesExactly`: `Processor`'s AND, OR and XOR are the bitwise operators of the community
  modules, and those are recursive: the prover loses its arithmetic there.
* `MaxflowInv`, `OptimalMoves`, `ClustersImprove`, `MarginalsExact`, `PolygonsKept`: their run's module has recursive
  operators (the ways up the search trees, the greatest common divisor).  But for the last, what they say is about
  minima and sums over all cuts, labellings and assignments.

## 6. The code against its comments

Three disagreements are runs that TLC refutes:

1. `ReadsLastWrite` (`addrspace.cc:124`).  When a page is read back from the swap file its slot is given up
   and the page is clean; replaced again without a new write, it is saved nowhere, and the next fault clears
   the frame as if the page had never been written.  What is true is `KeepsWrites`: written data is in
   memory or in the slot *once it was swapped out and until it is read back*.
2. `ExecutedOnce` (`exception.cc:112`).  The handler moves `PCReg` back by one instruction, but a faulting
   instruction has not advanced it: the instruction before it in memory runs again, and at the
   target of a jump one that the program does not reach.
3. `OrsBothRegisters` (`mipssim.cc:379`).  The OR instruction is printed and decoded as `OR rd,rs,rt`
   (`mipssim.h:202`), and executed as `rs | rs`.

Others were met and are not runs of their own:

* `thread.cc:171-173` says that a thread that yields runs again when the others had their turn; by
  `FindNextToRun` and priorities, less urgent threads may wait for ever.
* `synch.cc:94` says that a woken thread consumes the `V` at once; it does not, the value is left for
  whoever comes first.  The `while` of `P` makes that harmless (`NoLostWakeup`).
* `FileHeader::Deallocate` (`filehdr.cc:159`) does not free the index block of a removed file, and `AppSector`
  (`filehdr.cc:134`) takes a new one each time a file that already has one gets more sectors, and forgets the old one:
  `OnlyIndexBlocksLeak` states the two leaks and that nothing else leaks.  `AppSector` (`filehdr.cc:115`) asks for room for the data
  sectors only; on a disk with exactly that room the index block becomes sector -1 and an ASSERT ends
  nachos (`failed = "sectorNumber"` in `FileSystem`).
* `NAppend` (`fstest.cc:246`) writes past the end of its target and fails for every non-empty source;
  `PerformanceTest` (`fstest.cc:326`) writes to a file of length 0.
* `AddrSpace()` gives a page of data the wrong type when a program has both kinds of data and the linker
  packs them into fewer pages than `Translate` counts; `FaultReadsRightPage` says when it is right.
* `Network` never sets `sendBusy` to TRUE, so that the ASSERT in `Send` checks nothing; `NetworkInv` states
  and checks what it was meant to.
* `coff2noff.c:204` refuses `.bss` and `.sbss` when they are contiguous, and accepts them when not;
  `coff2flat.c:153` writes one section behind the other wherever the linker put them.  `LoadersAgree` says of
  which executables both are right.
* The two simulators differ, beside OR, in: arithmetic shifts by SRL on a negative number (`mipssim.cc:449`,
  the temporary is signed), JALR through the register it links (`mipssim.cc:228`), the use of a register whose load
  is still pending, transfers in delay slots and across regions, masks of negative immediates, the carry into HI
  in `execute.c:156`, division by zero, misaligned addresses, overflow, and the partial loads and stores.
  `Excused` in `Execute` is that list; everything else agrees.
* `CalcObjValByDelt` (`BAPSAPartitioner.cpp:305`) is wrong when one vessel has no section; the
  annealing recomputes the cost there (`CostInv`).
* `Source.cpp:337` (polygon editor) takes any selection for a hit of this click, "a polygon was selected": after a
  hit, a click beside every polygon deletes once more, down to a negative number of polygons.

## 7. Not modelled

* Contents of stacks, registers and floating point; statistics but for the clock; printing and debugging.
* The seek and rotation times of the disk and the lengths of delays outside `Interrupt`: in the other
  modules an interrupt comes at any later point where interrupts are enabled, which includes the
  moments the simulator would choose.
* The overflow of `totalTicks`, and the leak of a thread's memory when the next one starts in
  `ThreadRoot` (`thread.cc:164`).
* `Exec` (it takes over the frames of the running program and never returns), the TLB, system calls other
  than the halt at a program's end, and the swap file shared by two programs.
* File system commands that only print, formatting (it is the initial state) and the two broken commands above;
  concurrent commands, which `filesys.cc` excludes.
* In `Console` the character 0xFF, which reads as EOF.  In `PostOffice` the other machine: packets come
  back to the one modelled.
* In `Processor` and `Execute`: the system calls of `execute.c`, tracing, the debugger, and programs that modify
  their own code.  The offset of the memory (`memoffset`) and `argc`/`argv` are left out.
* In BAPS: printing, trace files, temperatures (any worse solution may be accepted or rejected), the neighbour
  searches that nothing calls, malformed files, and the packing, whose `Solve()` is empty.
* In the segmentation: windows and image files, three colour channels (a colour is one number), doubles (integers
  of `SCALE`), lack of memory, more than 22000 marked values (`main.cpp:33`), horizontal and vertical cues.
* In belief propagation: rounding.  In the polygon editor: geometry - any set of polygons may be under the pointer -,
  the size of the window, what follows a write outside the array, and points with negative coordinates, which a
  click in the window does not give and which `load()` would take for the end of a polygon.
* Vendored and generated code (OpenCV, GLUT, Nachos' `switch.s`), and pure I/O.

## 8. Plan

Order of the modules: 1 `Scheduler`, `Synch`, `Kernel`, `Monitor` - everything else rests on them; 2 the
programs (`ProdCons`, then `Bridge`, `SynchList`, `SynchDisk`, `Console`, joined in `Nachos`, then `PostOffice`);
3 `Interrupt`; 4 `FileSystem` and `OpenFile`; 5 `VirtualMemory`, `AddressLayout`, `FaultRestart`; 6 `Processor`,
`Execute`, `Coff`; 7 BAPS; 8 `MaxFlow` to `Segmentation`; 9 `BeliefPropagation`, `PolygonEditor`.  These exist.
To come:

1. *Proofs.*  That every cut of `MaxFlow` is minimal, for which the flow must be made a function
   of the arcs and the trees' recursion one over their depth.
2. *User programs as one system.*  `Processor` on the page table of `VirtualMemory` and the layout of
   `AddressLayout`: faults of an instruction sequence in real pages.
3. *The rest of the tools.*  The system calls of `execute.c`.
