------------------------------ MODULE ProdCons ------------------------------
(***************************************************************************)
(* The producer/consumer program of lab3: prodcons++.cc and ring.cc on the *)
(* semaphores of Synch.                                                    *)
(***************************************************************************)
EXTENDS Program

CONSTANTS
  Producer, Consumer,    \* the forked threads
  ForkOrder,             \* the order in which main forks them
  nempty, nfull, mutex,  \* the three semaphores
  BUFF_SIZE, N_MESSG

ASSUME ProdConsAssumption ==
  /\ BUFF_SIZE \in Nat \ {0} /\ N_MESSG \in Nat
  /\ Producer \cap Consumer = {} /\ Consumer # {}
  /\ Thread = {Main} \cup Producer \cup Consumer
  /\ Main \notin Producer \cup Consumer
  /\ ForkOrder \in Seq(Thread) /\ Range(ForkOrder) = Producer \cup Consumer
  /\ Semaphore = {nempty, nfull, mutex} /\ Lock = {} /\ Condition = {}
  /\ nempty # nfull /\ nempty # mutex /\ nfull # mutex
  /\ InitialValue[nempty] = BUFF_SIZE
  /\ InitialValue[nfull] = 0
  /\ InitialValue[mutex] = 1

VARIABLES
  num,      \* Producer()'s loop counter
  buffer,   \* Ring::buffer, indexed from 0
  in, out,  \* Ring::in, Ring::out
  message,  \* the slot each thread passes to Put() and Get()
  log,      \* what each consumer has written to its file
  got       \* history: the messages each consumer took from the ring

ringVars == <<buffer, in, out>>
progVars == <<num, buffer, in, out, message, log, got>>
vars == <<kernelVars, pc, progVars>>

Slot == [thread_id : Producer \cup {NULL}, value : 0 .. N_MESSG]
EmptySlot == [thread_id |-> NULL, value |-> 0]

ForkPending == {i \in DOMAIN ForkOrder : status[ForkOrder[i]] = "JUST_CREATED"}

Init ==
  /\ SynchInit
  /\ pc = [t \in Thread |-> CASE t = Main -> "fork"
                              [] t \in Producer -> "nempty.P"
                              [] OTHER -> "nfull.P"]
  /\ num = [p \in Producer |-> 0]
  /\ buffer = [i \in 0 .. BUFF_SIZE - 1 |-> EmptySlot]
  /\ in = 0
  /\ out = 0
  /\ message = [t \in Producer \cup Consumer |-> EmptySlot]
  /\ log = [c \in Consumer |-> <<>>]
  /\ got = [c \in Consumer |-> <<>>]

-----------------------------------------------------------------------------
\* ProdCons(): main forks every thread, then finishes.
MainFork ==
  /\ ForkPending # {}
  /\ CallFork(Main, ForkOrder[Min(ForkPending)], "fork")
  /\ UNCHANGED progVars

MainFinish ==
  /\ ForkPending = {}
  /\ CallFinish(Main, "fork")
  /\ UNCHANGED progVars

-----------------------------------------------------------------------------
\* Mutant: the index runs one past the end before it wraps.
PutSlot_BadWrap(m) ==
  /\ buffer' = [buffer EXCEPT ![in] = m]
  /\ in' = (in + 1) % (IF BUFF_SIZE > 1 THEN BUFF_SIZE - 1 ELSE 1)

\* Ring::Put()
PutSlot(m) ==
  /\ buffer' = [buffer EXCEPT ![in] = m]
  /\ in' = (in + 1) % BUFF_SIZE

\* Ring::Get()
GetSlot(t) ==
  /\ message' = [message EXCEPT ![t] = buffer[out]]
  /\ out' = (out + 1) % BUFF_SIZE

\* Producer(): one action per call of its loop.
ProducerEmptyP(p) ==
  /\ p \in Producer /\ num[p] < N_MESSG
  /\ CallP(p, nempty, "nempty.P", "mutex.P")
  /\ message' = [message EXCEPT ![p] = [thread_id |-> p, value |-> num[p]]]
  /\ UNCHANGED <<num, ringVars, log, got>>

ProducerMutexP(p) ==
  /\ p \in Producer
  /\ CallP(p, mutex, "mutex.P", "mutex.V")
  /\ UNCHANGED <<num, ringVars, message, log, got>>

ProducerPut(p) ==
  /\ p \in Producer
  /\ PutSlot(message[p])
  /\ CallV(p, mutex, "mutex.V", "nfull.V")
  /\ UNCHANGED <<num, out, message, log, got>>

ProducerFullV(p) ==
  /\ p \in Producer
  /\ CallV(p, nfull, "nfull.V", "nempty.P")
  /\ num' = [num EXCEPT ![p] = @ + 1]
  /\ UNCHANGED <<ringVars, message, log, got>>

ProducerFinish(p) ==
  /\ p \in Producer /\ num[p] = N_MESSG
  /\ CallFinish(p, "nempty.P")
  /\ UNCHANGED progVars

\* Consumer(): the record of the last message is written before the next
\* nfull->P() (not again when a sleeper resumes).
ConsumerFullP(c) ==
  /\ c \in Consumer
  /\ CallP(c, nfull, "nfull.P", "mutex.P")
  /\ log' = [log EXCEPT ![c] =
               IF Len(@) < Len(got[c]) THEN Append(@, message[c]) ELSE @]
  /\ UNCHANGED <<num, ringVars, message, got>>

ConsumerMutexP(c) ==
  /\ c \in Consumer
  /\ CallP(c, mutex, "mutex.P", "mutex.V")
  /\ UNCHANGED <<num, ringVars, message, log, got>>

ConsumerGet(c) ==
  /\ c \in Consumer
  /\ GetSlot(c)
  /\ CallV(c, mutex, "mutex.V", "nempty.V")
  /\ got' = [got EXCEPT ![c] = Append(@, message'[c])]
  /\ UNCHANGED <<num, buffer, in, log>>

\* Mutant: the consumer signals the wrong semaphore.
ConsumerEmptyV_Wrong(c) ==
  /\ c \in Consumer
  /\ CallV(c, nfull, "nempty.V", "nfull.P")
  /\ UNCHANGED <<num, ringVars, message, log, got>>

ConsumerEmptyV(c) ==
  /\ c \in Consumer
  /\ CallV(c, nempty, "nempty.V", "nfull.P")
  /\ UNCHANGED <<num, ringVars, message, log, got>>

ThreadStep(t) ==
  \/ ProducerEmptyP(t) \/ ProducerMutexP(t) \/ ProducerPut(t)
  \/ ProducerFullV(t) \/ ProducerFinish(t)
  \/ ConsumerFullP(t) \/ ConsumerMutexP(t) \/ ConsumerGet(t) \/ ConsumerEmptyV(t)

TimeSlice == Preempt /\ UNCHANGED progVars

Next == MainFork \/ MainFinish \/ (\E t \in Thread : ThreadStep(t)) \/ TimeSlice

Spec == Init /\ [][Next]_vars

-----------------------------------------------------------------------------
Label == {"fork", "nempty.P", "nfull.P", "mutex.P", "mutex.V", "nfull.V", "nempty.V", "done"}

TypeOK ==
  /\ SynchTypeOK
  /\ pc \in [Thread -> Label]
  /\ num \in [Producer -> 0 .. N_MESSG]
  /\ buffer \in [0 .. BUFF_SIZE - 1 -> Slot]
  /\ in \in 0 .. BUFF_SIZE - 1 /\ out \in 0 .. BUFF_SIZE - 1
  /\ message \in [Producer \cup Consumer -> Slot]
  /\ log \in [Consumer -> Seq(Slot)] /\ got \in [Consumer -> Seq(Slot)]

Sent == [p \in Producer |-> num[p] + (IF pc[p] = "nfull.V" THEN 1 ELSE 0)]

\* The sum of the counts f, as the number of things counted.
Total(f) == Cardinality(UNION {{t} \X (1 .. f[t]) : t \in DOMAIN f})

\* How many messages are in the ring.
Filled == Total(Sent) - Total([c \in Consumer |-> Len(got[c])])

\* Every slot of the ring is accounted for once: free for a producer to claim
\* (nempty), claimed by one that has not Put() yet, filled, or emptied by a
\* consumer that has not signalled yet; and nfull counts the filled slots
\* less those already promised to a consumer (prodcons++.cc's P/V pairing).
SlotAccounting ==
  /\ TypeOK
  /\ value[nempty] + At(Producer, "mutex.P") + At(Producer, "mutex.V")
       + Filled + At(Consumer, "nempty.V") = BUFF_SIZE
  /\ value[nfull] + At(Producer, "nfull.V")
       + At(Consumer, "mutex.P") + At(Consumer, "mutex.V") = Filled
  /\ value[mutex] + At(Thread, "mutex.V") = 1

\* The ring as the queue it represents: Filled slots from out on.
Chan == [i \in 1 .. Filled |-> buffer[(out + i - 1) % BUFF_SIZE]]

F == INSTANCE Fifo WITH chan <- Chan, sent <- Sent, received <- got,
                        Size <- BUFF_SIZE, Count <- N_MESSG

\* The ring and its semaphores implement a bounded FIFO buffer: no message
\* is overwritten, lost, read twice or read before it was put.
FifoSpec == F!Spec

Messages == [thread_id : Producer, value : 0 .. N_MESSG - 1]

Logged == UNION {Range(log[c]) : c \in Consumer}

\* Nachos halts when no thread is ready: that never happens before every
\* message of every producer is in some consumer's file (no deadlock).
HaltsOnlyWhenDone ==
  Halted =>
    /\ Logged = Messages
    /\ finished = Producer \cup {Main}

\* The two together: prodcons++.cc neither overruns the ring nor stops early.
RingInv == SlotAccounting /\ HaltsOnlyWhenDone

-----------------------------------------------------------------------------
\* An instance for TLC: main gives way to the threads it forks.
MCPriority == [t \in Thread |-> IF t = Main THEN 0 ELSE 7]
MCForkOrder == SetToSeq(Producer) \o SetToSeq(Consumer)
MCInitialValue ==
  [s \in Semaphore |-> IF s = nempty THEN BUFF_SIZE ELSE IF s = nfull THEN 0 ELSE 1]

=============================================================================
