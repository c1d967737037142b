--------------------------- MODULE DevicesProofs ---------------------------
(***************************************************************************)
(* Theorems of PostOffice, for any numbers of senders, receivers, boxes    *)
(* and messages: the handshakes between post.cc and network.cc hold, and   *)
(* no message is duplicated, altered or misdelivered.  And of Interrupt as *)
(* MCDevices instantiates it, for any number of threads and devices and    *)
(* any delays: nothing that is due is left behind, the timer is armed      *)
(* once, the machine halts only when idle, and interrupts are handled in   *)
(* order of time.                                                          *)
(***************************************************************************)
EXTENDS MCDevices, SynchProofs

(***************************************************************************)
(* The post office.                                                        *)
(***************************************************************************)

(* The inductive invariant.                                                *)

Label == {"fork", "Send", "network", "unlock", "PostalDelivery", "Put", "Put.signal",
          "Put.Release", "Receive", "Get", "done"}

TypeOK ==
  /\ SynchTypeOK
  /\ pc \in [Thread -> Label]
  /\ socket \in Seq(Message)
  /\ {inHdr, delayBuf, mail} \subseteq Message \cup {NULL}
  /\ sending \in BOOLEAN
  /\ messages \in [Box -> Seq(Message)]
  /\ num \in [Sender -> 0 .. Count]
  /\ got \in [Receiver -> Seq(Message)]

\* The semaphores whose P() a thread can be in at its label.
Awaited(t) ==
  CASE pc[t] = "Send" -> {sendLock}
    [] pc[t] = "network" -> {messageSent}
    [] pc[t] = "PostalDelivery" -> {messageAvailable}
    [] pc[t] = "Put" -> IF mail = NULL THEN {} ELSE {boxLock(mail.to)}
    [] pc[t] \in {"Receive", "Get"} -> {boxLock(BoxOf(t))}
    [] OTHER -> {}

\* Where each thread is in its program.
Control ==
  /\ pc[Main] \in {"fork", "done"} /\ status[Main] # "JUST_CREATED"
  /\ pc[worker] \in {"PostalDelivery", "Put", "Put.signal", "Put.Release"}
  /\ mail # NULL <=> \/ pc[worker] = "Put" /\ inP[worker] # NULL
                     \/ pc[worker] \in {"Put.signal", "Put.Release"}
  /\ \A s \in Sender :
       /\ pc[s] \in {"Send", "network", "unlock", "done"}
       /\ \/ pc[s] = "network" /\ inP[s] = NULL
          \/ pc[s] = "Send" /\ inP[s] # NULL
          => num[s] < Count
  /\ \A r \in Receiver : pc[r] \in {"Receive", "Get", "done"}
  /\ \A t \in Thread :
       /\ inP[t] \in {NULL} \cup Awaited(t)
       /\ pc[t] = "done" <=> t \in finished
  /\ pc[Main] = "done" => \A t \in Thread : status[t] # "JUST_CREATED"

\* Which thread is where the program holds a lock.
Holds(t, l) ==
  \/ t \in Sender /\ pc[t] \in {"network", "unlock"} /\ l = sendLock
  \/ t = worker /\ pc[t] \in {"Put.signal", "Put.Release"} /\ l = boxLock(mail.to)
  \/ t \in Receiver /\ pc[t] = "Get" /\ inP[t] = NULL /\ l = boxLock(BoxOf(t))

Ownership == \A t \in Thread, l \in Lock : owner[l] = t <=> Holds(t, l)

\* Only receivers wait on a condition, each on that of its box.
Waiters ==
  \A c \in Condition : \A t \in WaitSet[c] :
    t \in Receiver /\ c = boxCond(BoxOf(t)) /\ pc[t] = "Get" /\ inP[t] # NULL

\* A sender that waits for the network has one signal coming; nobody else has.
AwaitsSent(s) == pc[s] = "network" /\ inP[s] # NULL
SendHandshake ==
  value[messageSent] + (IF sending THEN 1 ELSE 0)
    = IF \E s \in Sender : AwaitsSent(s) THEN 1 ELSE 0

\* The buffered packet has a signal waiting for the worker, or the worker has
\* taken the signal and not yet the packet.
ReceiveHandshake ==
  value[messageAvailable] + (IF pc[worker] = "Put" /\ inP[worker] = NULL THEN 1 ELSE 0)
    = IF inHdr # NULL THEN 1 ELSE 0

\* While receivers wait at a box, others are on their way to take each of the
\* messages in it.
OnTheWay(b) == {r \in Receiver : BoxOf(r) = b /\ pc[r] = "Get" /\ r \notin WaitSet[boxCond(b)]}
BoxServed ==
  \A b \in Box : WaitSet[boxCond(b)] # {} => Len(messages[b]) <= Cardinality(OnTheWay(b))

Invariant ==
  /\ TypeOK /\ Control /\ Ownership /\ Waiters
  /\ SendHandshake /\ ReceiveHandshake /\ BoxServed

\* No message is in two places.
Carried == IF pc[worker] = "Put.Release" THEN {} ELSE {mail} \ {NULL}
Boxed == [b \in Box |-> Range(messages[b])]
Apart(S, H, D, M, X) ==
  /\ S \cap (H \cup D \cup M) = {} /\ H \cap (D \cup M) = {} /\ D \cap M = {}
  /\ \A b \in Box : X[b] \cap (S \cup H \cup D \cup M) = {}
Distinct ==
  /\ IsInjective(socket) /\ \A b \in Box : IsInjective(messages[b])
  /\ Apart(Range(socket), {inHdr} \ {NULL}, {delayBuf} \ {NULL}, Carried, Boxed)
  /\ \A m \in UnderWay : m.value < num[m.from]
  /\ \A b \in Box : \A m \in Boxed[b] : m.to = b

-----------------------------------------------------------------------------
(* What a step of the program does, action by action.                      *)

SenderEffect(s) ==
  \/ /\ num[s] < Count /\ Acquires(s, sendLock, "Send", "network")
     /\ UNCHANGED progVars
  \/ /\ inP[s] = NULL /\ Downs(s, messageSent, "network", "unlock")
     /\ \E b \in Box : Transmit([from |-> s, value |-> num[s], to |-> b])
     /\ sending' = TRUE /\ num' = [num EXCEPT ![s] = @ + 1]
     /\ UNCHANGED <<inHdr, messages, mail, got>>
  \/ /\ inP[s] = messageSent /\ Downs(s, messageSent, "network", "unlock")
     /\ UNCHANGED progVars
  \/ Releases(s, sendLock, "unlock", "Send") /\ UNCHANGED progVars
  \/ num[s] = Count /\ Ends(s, "Send") /\ UNCHANGED progVars

WorkerEffect ==
  \/ Downs(worker, messageAvailable, "PostalDelivery", "Put") /\ UNCHANGED progVars
  \/ /\ inP[worker] = NULL /\ inHdr # NULL
     /\ Acquires(worker, boxLock(inHdr.to), "Put", "Put.signal")
     /\ mail' = inHdr /\ inHdr' = NULL
     /\ UNCHANGED <<socket, delayBuf, sending, messages, num, got>>
  \/ /\ inP[worker] # NULL /\ Acquires(worker, boxLock(mail.to), "Put", "Put.signal")
     /\ UNCHANGED progVars
  \/ /\ Signals(worker, boxCond(mail.to), boxLock(mail.to), "Put.signal", "Put.Release")
     /\ messages' = [messages EXCEPT ![mail.to] = Append(@, mail)]
     /\ UNCHANGED <<socket, inHdr, delayBuf, sending, mail, num, got>>
  \/ /\ Releases(worker, boxLock(mail.to), "Put.Release", "PostalDelivery")
     /\ mail' = NULL
     /\ UNCHANGED <<socket, inHdr, delayBuf, sending, messages, num, got>>

ReceiverEffect(r) ==
  \/ Acquires(r, boxLock(BoxOf(r)), "Receive", "Get") /\ UNCHANGED progVars
  \/ /\ messages[BoxOf(r)] = <<>>
     /\ Waits(r, boxCond(BoxOf(r)), boxLock(BoxOf(r)), "Get") /\ UNCHANGED progVars
  \/ /\ inP[r] # NULL /\ Acquires(r, boxLock(BoxOf(r)), "Get", "Get")
     /\ UNCHANGED progVars
  \/ /\ messages[BoxOf(r)] # <<>>
     /\ Releases(r, boxLock(BoxOf(r)), "Get", "Receive")
     /\ got' = [got EXCEPT ![r] = Append(@, Head(messages[BoxOf(r)]))]
     /\ messages' = [messages EXCEPT ![BoxOf(r)] = Tail(@)]
     /\ UNCHANGED <<socket, inHdr, delayBuf, sending, mail, num>>
  \/ Ends(r, "Receive") /\ UNCHANGED progVars

\* The two interrupt handlers.
HandlerEffect ==
  \/ /\ sending /\ sending' = FALSE /\ Raises(messageSent)
     /\ UNCHANGED <<socket, inHdr, delayBuf, messages, mail, num, got>>
  \/ /\ inHdr = NULL /\ socket # <<>> /\ Raises(messageAvailable)
     /\ inHdr' = Head(socket) /\ socket' = Tail(socket)
     /\ UNCHANGED <<delayBuf, sending, messages, mail, num, got>>

Effect ==
  \/ Still /\ UNCHANGED progVars
  \/ /\ Ends(Main, "fork") /\ UNCHANGED progVars
     /\ \A t \in Thread : status[t] # "JUST_CREATED"
  \/ \E s \in Sender : SenderEffect(s)
  \/ WorkerEffect
  \/ \E r \in Receiver : ReceiverEffect(r)
  \/ HandlerEffect

LEMMA Distinguished ==
  /\ Sender \subseteq Thread /\ Receiver \subseteq Thread /\ Sender \cap Receiver = {}
  /\ Main \in Thread /\ worker \in Thread /\ Main # worker
  /\ Main \notin Sender \cup Receiver /\ worker \notin Sender \cup Receiver
  /\ Thread = {Main, worker} \cup Sender \cup Receiver
  /\ messageAvailable \in Semaphore \ Lock /\ messageSent \in Semaphore \ Lock
  /\ messageAvailable # messageSent
  /\ sendLock \in Lock /\ Lock \subseteq Semaphore
  /\ Lock = {sendLock} \cup {boxLock(b) : b \in Box}
  /\ \A b \in Box : boxLock(b) \in Lock /\ boxCond(b) \in Condition /\ boxLock(b) # sendLock
  /\ \A a, b \in Box : a # b => boxLock(a) # boxLock(b) /\ boxCond(a) # boxCond(b)
  /\ Condition = {boxCond(b) : b \in Box}
  /\ \A r \in Receiver : BoxOf(r) \in Box
  /\ NULL \notin Message /\ NULL \notin Semaphore /\ NULL \notin Thread
  /\ \A m \in Message : m.to \in Box /\ m.from \in Sender /\ m.value \in Nat
  /\ Count \in Nat
BY PostOfficeAssumption, SemaphoreAssumption, NullAssumption DEF Message

\* The constructor of the post office forks the worker, and so on.
LEMMA NextForked ==
  ASSUME ForkPending # {}
  PROVE  ForkOrder[Min(ForkPending)] \in Thread
<1>1. ForkOrder \in Seq(Thread)
  BY PostOfficeAssumption
<1>2. DOMAIN ForkOrder = 1 .. Len(ForkOrder) /\ Len(ForkOrder) \in Nat
  BY <1>1, LenProperties
<1>3. ForkPending \in SUBSET Nat /\ ForkPending \subseteq 1 .. Len(ForkOrder)
  BY <1>2 DEF ForkPending
<1>4. Min(ForkPending) \in 1 .. Len(ForkOrder)
  BY <1>3, MinFacts
<1> QED
  BY <1>1, <1>4, ElementOfSeq

LEMMA AllForked ==
  ASSUME ForkPending = {}, status[Main] # "JUST_CREATED"
  PROVE  \A t \in Thread : status[t] # "JUST_CREATED"
<1>1. Range(ForkOrder) = {ForkOrder[j] : j \in DOMAIN ForkOrder}
  BY DEF Range
<1>2. \A t \in Thread \ {Main} : \E j \in DOMAIN ForkOrder : t = ForkOrder[j]
  BY <1>1, PostOfficeAssumption
<1> QED
  BY <1>2 DEF ForkPending
-----------------------------------------------------------------------------
\* The calls of the program are those of SynchProofs.
LEMMA PostStep ==
  ASSUME TypeOK, Control, [Next]_vars
  PROVE  SynchStep
<1>a. /\ inP \in [Thread -> Semaphore \cup {NULL}] /\ current \in Thread
      /\ \A t \in Thread : inP[t] \in {NULL} \cup Awaited(t)
      /\ mail \in Message \cup {NULL} /\ inHdr \in Message \cup {NULL}
      /\ mail # NULL <=> \/ pc[worker] = "Put" /\ inP[worker] # NULL
                         \/ pc[worker] \in {"Put.signal", "Put.Release"}
  BY DEF TypeOK, SynchTypeOK, SchedTypeOK, Control
<1>p. ASSUME NEW t \in Thread, NEW s \in Semaphore \ Lock, NEW from, NEW to,
             CallP(t, s, from, to), Awaited(t) \subseteq {s}
      PROVE  SynchStep
  BY <1>a, <1>p DEF CallP, Routine, SynchStep
<1>q. ASSUME NEW t \in Thread, NEW l \in Lock, NEW from, NEW to,
             CallAcquire(t, l, from, to), Awaited(t) \subseteq {l}
      PROVE  SynchStep
  BY <1>a, <1>q DEF CallAcquire, Routine, SynchStep
<1>r. ASSUME NEW t \in Thread, NEW l \in Lock, NEW from, NEW to, CallRelease(t, l, from, to)
      PROVE  SynchStep
  BY <1>r DEF CallRelease, AtUserCode, Routine, SynchStep
<1>f. ASSUME NEW t \in Thread, NEW from, CallFinish(t, from)
      PROVE  SynchStep
  BY <1>f DEF CallFinish, AtUserCode, Routine, SynchStep
<1>1. CASE MainFork
  <2>1. PICK u \in Thread : CallFork(Main, u, "fork")
    BY <1>1, NextForked DEF MainFork
  <2> QED
    BY Distinguished, <2>1 DEF CallFork, AtUserCode, Routine, SynchStep
<1>2. CASE MainFinish
  BY <1>2, <1>f, Distinguished DEF MainFinish
<1>3. ASSUME NEW s \in Sender, SenderStep(s)
      PROVE  SynchStep
  <2>a. s \in Thread /\ sendLock \in Lock /\ messageSent \in Semaphore \ Lock
    BY Distinguished
  <2>1. CASE SendAcquire(s)
    <3>1. Awaited(s) \subseteq {sendLock}
      BY <2>1 DEF SendAcquire, CallAcquire, Awaited
    <3> QED
      BY <1>q, <2>a, <2>1, <3>1 DEF SendAcquire
  <2>2. CASE NetworkSend(s) \/ AwaitSent(s)
    <3>1. CallP(s, messageSent, "network", "unlock")
      BY <2>2 DEF NetworkSend, AwaitSent
    <3>2. Awaited(s) \subseteq {messageSent}
      BY <3>1 DEF CallP, Awaited
    <3> QED
      BY <1>p, <2>a, <3>1, <3>2
  <2>3. CASE SendRelease(s)
    BY <1>r, <2>a, <2>3 DEF SendRelease
  <2>4. CASE SenderFinish(s)
    BY <1>f, <2>a, <2>4 DEF SenderFinish
  <2> QED
    BY <1>3, <2>1, <2>2, <2>3, <2>4 DEF SenderStep
<1>4. CASE WorkerStep
  <2>a. worker \in Thread /\ messageAvailable \in Semaphore \ Lock
    BY Distinguished
  <2>1. CASE AwaitMessage
    <3>1. Awaited(worker) \subseteq {messageAvailable}
      BY <2>1 DEF AwaitMessage, CallP, Awaited
    <3> QED
      BY <1>p, <2>a, <2>1, <3>1 DEF AwaitMessage
  <2>2. CASE PutAcquire
    <3>1. Awaited(worker) \subseteq {} /\ inHdr \in Message
      BY <1>a, <2>2 DEF PutAcquire, Awaited
    <3> QED
      BY <1>q, <2>a, <2>2, <3>1, Distinguished DEF PutAcquire
  <2>3. CASE PutReacquire
    <3>1. mail \in Message
      BY <1>a, <2>3 DEF PutReacquire
    <3>2. Awaited(worker) \subseteq {boxLock(mail.to)} /\ boxLock(mail.to) \in Lock
      BY <2>3, <3>1, Distinguished DEF PutReacquire, Awaited
    <3> QED
      BY <1>q, <2>a, <2>3, <3>2 DEF PutReacquire
  <2>4. CASE PutSignal
    <3>1. mail \in Message
      BY <1>a, <2>4 DEF PutSignal
    <3>2. boxCond(mail.to) \in Condition /\ boxLock(mail.to) \in Lock
      BY <3>1, Distinguished
    <3> QED
      BY <2>a, <2>4, <3>2 DEF PutSignal, CallSignal, AtUserCode, Routine, SynchStep
  <2>5. CASE PutRelease
    <3>1. mail \in Message
      BY <1>a, <2>5 DEF PutRelease
    <3>2. boxLock(mail.to) \in Lock
      BY <3>1, Distinguished
    <3> QED
      BY <1>r, <2>a, <2>5, <3>2 DEF PutRelease
  <2> QED
    BY <1>4, <2>1, <2>2, <2>3, <2>4, <2>5 DEF WorkerStep
<1>5. ASSUME NEW r \in Receiver, ReceiverStep(r)
      PROVE  SynchStep
  <2>a. /\ r \in Thread /\ boxLock(BoxOf(r)) \in Lock /\ boxCond(BoxOf(r)) \in Condition
    BY Distinguished
  <2>1. CASE GetAcquire(r)
    <3>1. Awaited(r) \subseteq {boxLock(BoxOf(r))}
      BY <2>1 DEF GetAcquire, CallAcquire, Awaited
    <3> QED
      BY <1>q, <2>a, <2>1, <3>1 DEF GetAcquire
  <2>2. CASE GetWait(r)
    <3>1. /\ CallWait(r, boxCond(BoxOf(r)), boxLock(BoxOf(r)), "Get", "Get")
          /\ Awaited(r) \subseteq {boxLock(BoxOf(r))}
      BY <2>2 DEF GetWait, CallWait, Awaited
    <3>2. CASE inP[r] = NULL
      BY <2>a, <3>1, <3>2 DEF CallWait, Routine, SynchStep
    <3>3. CASE inP[r] # NULL
      <4>1. CallAcquire(r, boxLock(BoxOf(r)), "Get", "Get")
        BY <3>1, <3>3 DEF CallWait, CallAcquire
      <4> QED
        BY <1>q, <2>a, <3>1, <4>1
    <3> QED
      BY <3>2, <3>3
  <2>3. CASE GetItem(r)
    BY <1>r, <2>a, <2>3 DEF GetItem
  <2>4. CASE ReceiverFinish(r)
    BY <1>f, <2>a, <2>4 DEF ReceiverFinish
  <2> QED
    BY <1>5, <2>1, <2>2, <2>3, <2>4 DEF ReceiverStep
<1>6. CASE SendDone \/ CheckPktAvail
  BY <1>6, Distinguished DEF SendDone, CheckPktAvail, SynchStep
<1>7. CASE LeaveIdle
  BY <1>7 DEF LeaveIdle, SynchStep
<1>8. CASE TimeSlice
  BY <1>8, <1>a DEF TimeSlice, Preempt, AtUserCode, Routine, SynchStep
<1>9. CASE UNCHANGED vars
  BY <1>9 DEF vars, kernelVars, SynchStep
<1> QED
  BY <1>1, <1>2, <1>3, <1>4, <1>5, <1>6, <1>7, <1>8, <1>9 DEF Next

LEMMA PostEffect ==
  ASSUME TypeOK, Control, Where, LockInv, [Next]_vars
  PROVE  Effect
<1>a. /\ SynchTypeOK /\ status[Main] # "JUST_CREATED"
      /\ mail \in Message \cup {NULL} /\ inHdr \in Message \cup {NULL}
      /\ mail # NULL <=> \/ pc[worker] = "Put" /\ inP[worker] # NULL
                         \/ pc[worker] \in {"Put.signal", "Put.Release"}
  BY DEF TypeOK, Control
<1>1. CASE MainFork \/ TimeSlice \/ LeaveIdle \/ UNCHANGED vars
  <2>1. CASE MainFork
    BY <2>1 DEF MainFork, CallFork, Fork, ReadyToRun, synchVars, Still, WaitSet, Effect
  <2>2. CASE TimeSlice
    BY <2>2 DEF TimeSlice, Preempt, Yield, synchVars, Still, WaitSet, Effect
  <2>3. CASE LeaveIdle
    BY <2>3 DEF LeaveIdle, Dispatch, synchVars, Still, WaitSet, Effect
  <2>4. CASE UNCHANGED vars
    BY <2>4 DEF vars, kernelVars, schedVars, synchVars, Still, WaitSet, Effect
  <2> QED
    BY <1>1, <2>1, <2>2, <2>3, <2>4
<1>2. CASE MainFinish
  BY <1>2, <1>a, CallFinishFacts, AllForked, Distinguished DEF MainFinish, Effect
<1>3. ASSUME NEW s \in Sender, SenderStep(s)
      PROVE  SenderEffect(s)
  <2>a. s \in Thread /\ sendLock \in Lock /\ messageSent \in Semaphore
    BY Distinguished
  <2>1. CASE SendAcquire(s)
    BY <1>a, <2>a, <2>1, CallAcquireFacts DEF SendAcquire, SenderEffect
  <2>2. CASE NetworkSend(s)
    BY <1>a, <2>a, <2>2, CallPFacts DEF NetworkSend, SenderEffect
  <2>3. CASE AwaitSent(s)
    BY <1>a, <2>a, <2>3, CallPFacts DEF AwaitSent, SenderEffect
  <2>4. CASE SendRelease(s)
    BY <1>a, <2>a, <2>4, CallReleaseFacts DEF SendRelease, SenderEffect
  <2>5. CASE SenderFinish(s)
    BY <1>a, <2>a, <2>5, CallFinishFacts DEF SenderFinish, SenderEffect
  <2> QED
    BY <1>3, <2>1, <2>2, <2>3, <2>4, <2>5 DEF SenderStep
<1>4. ASSUME WorkerStep
      PROVE  WorkerEffect
  <2>a. worker \in Thread /\ messageAvailable \in Semaphore
    BY Distinguished
  <2>1. CASE AwaitMessage
    BY <1>a, <2>a, <2>1, CallPFacts DEF AwaitMessage, WorkerEffect
  <2>2. CASE PutAcquire
    <3>1. boxLock(inHdr.to) \in Lock
      BY <1>a, <2>2, Distinguished DEF PutAcquire
    <3> QED
      BY <1>a, <2>a, <2>2, <3>1, CallAcquireFacts DEF PutAcquire, WorkerEffect
  <2>m. CASE PutReacquire \/ PutSignal \/ PutRelease
    <3>1. mail \in Message
      BY <1>a, <2>m DEF PutReacquire, PutSignal, PutRelease
    <3>2. boxLock(mail.to) \in Lock /\ boxCond(mail.to) \in Condition
      BY <3>1, Distinguished
    <3>3. CASE PutReacquire
      BY <1>a, <2>a, <3>2, <3>3, CallAcquireFacts DEF PutReacquire, WorkerEffect
    <3>4. CASE PutSignal
      BY <1>a, <2>a, <3>2, <3>4, CallSignalFacts DEF PutSignal, WorkerEffect
    <3>5. CASE PutRelease
      BY <1>a, <2>a, <3>2, <3>5, CallReleaseFacts DEF PutRelease, WorkerEffect
    <3> QED
      BY <2>m, <3>3, <3>4, <3>5
  <2> QED
    BY <1>4, <2>1, <2>2, <2>m DEF WorkerStep
<1>5. ASSUME NEW r \in Receiver, ReceiverStep(r)
      PROVE  ReceiverEffect(r)
  <2>a. /\ r \in Thread /\ boxLock(BoxOf(r)) \in Lock /\ boxCond(BoxOf(r)) \in Condition
    BY Distinguished
  <2>1. CASE GetAcquire(r)
    BY <1>a, <2>a, <2>1, CallAcquireFacts DEF GetAcquire, ReceiverEffect
  <2>2. CASE GetWait(r)
    BY <1>a, <2>a, <2>2, CallWaitFacts DEF GetWait, ReceiverEffect
  <2>3. CASE GetItem(r)
    BY <1>a, <2>a, <2>3, CallReleaseFacts DEF GetItem, ReceiverEffect
  <2>4. CASE ReceiverFinish(r)
    BY <1>a, <2>a, <2>4, CallFinishFacts DEF ReceiverFinish, ReceiverEffect
  <2> QED
    BY <1>5, <2>1, <2>2, <2>3, <2>4 DEF ReceiverStep
<1>6. CASE SendDone \/ CheckPktAvail
  BY <1>6, <1>a, VFacts, Distinguished
  DEF SendDone, CheckPktAvail, Raises, HandlerEffect, Effect
<1> QED
  BY <1>1, <1>2, <1>3, <1>4, <1>5, <1>6 DEF Next, Effect
-----------------------------------------------------------------------------
(* Each part of the invariant is kept.                                     *)

LEMMA StepProgramType ==
  ASSUME TypeOK, Control, [Next]_vars, Effect
  PROVE  TypeOK'
<1>1. SynchTypeOK'
  BY PostStep, StepType DEF TypeOK
<1>b. /\ pc \in [Thread -> Label] /\ socket \in Seq(Message)
      /\ inHdr \in Message \cup {NULL} /\ delayBuf \in Message \cup {NULL}
      /\ mail \in Message \cup {NULL} /\ sending \in BOOLEAN
      /\ messages \in [Box -> Seq(Message)]
      /\ num \in [Sender -> 0 .. Count] /\ got \in [Receiver -> Seq(Message)]
  BY DEF TypeOK
<1> DEFINE Rest == /\ pc' \in [Thread -> Label] /\ socket' \in Seq(Message)
                   /\ inHdr' \in Message \cup {NULL} /\ delayBuf' \in Message \cup {NULL}
                   /\ mail' \in Message \cup {NULL} /\ sending' \in BOOLEAN
                   /\ messages' \in [Box -> Seq(Message)]
                   /\ num' \in [Sender -> 0 .. Count] /\ got' \in [Receiver -> Seq(Message)]
<1>l. Label = {"fork", "Send", "network", "unlock", "PostalDelivery", "Put", "Put.signal",
               "Put.Release", "Receive", "Get", "done"}
  BY DEF Label
<1>g. ASSUME NEW t \in Thread, NEW to \in Label, Goto(t, to) \/ pc' = pc
      PROVE  pc' \in [Thread -> Label]
  BY <1>b, <1>g DEF Goto
<1>2. ASSUME Still, UNCHANGED progVars
      PROVE  Rest
  BY <1>b, <1>2 DEF Still, progVars
<1>3. ASSUME Ends(Main, "fork"), UNCHANGED progVars
      PROVE  Rest
  BY <1>b, <1>g, <1>l, <1>3, Distinguished DEF Ends, progVars
<1>4. ASSUME NEW s \in Sender, SenderEffect(s)
      PROVE  Rest
  <2>1. pc' \in [Thread -> Label]
    BY <1>g, <1>l, <1>4, Distinguished DEF SenderEffect, Acquires, Downs, Releases, Ends
  <2>2. CASE UNCHANGED progVars
    BY <1>b, <2>1, <2>2 DEF progVars
  <2>3. CASE /\ inP[s] = NULL /\ Downs(s, messageSent, "network", "unlock")
             /\ \E b \in Box : Transmit([from |-> s, value |-> num[s], to |-> b])
             /\ sending' = TRUE /\ num' = [num EXCEPT ![s] = @ + 1]
             /\ UNCHANGED <<inHdr, messages, mail, got>>
    <3>1. num[s] \in 0 .. Count /\ num[s] < Count
      BY <1>b, <2>3 DEF Control, Downs
    <3>2. num' \in [Sender -> 0 .. Count]
      BY <1>b, <2>3, <3>1, Distinguished
    <3>3. PICK b \in Box : Transmit([from |-> s, value |-> num[s], to |-> b])
      BY <2>3
    <3> DEFINE m == [from |-> s, value |-> num[s], to |-> b]
    <3>4. m \in Message
      BY <3>1 DEF Message
    <3>5. Transmit(m)
      BY <3>3
    <3> HIDE DEF m
    <3>6. socket' \in Seq(Message) /\ delayBuf' \in Message \cup {NULL}
      <4>1. Append(socket, m) \in Seq(Message)
        BY <1>b, <3>4, AppendFacts
      <4>2. delayBuf # NULL => Append(socket, delayBuf) \in Seq(Message)
        BY <1>b, AppendFacts
      <4> QED
        BY <1>b, <3>4, <3>5, <4>1, <4>2 DEF Transmit
    <3> QED
      BY <1>b, <2>1, <2>3, <3>2, <3>6
  <2> QED
    BY <1>4, <2>2, <2>3 DEF SenderEffect
<1>5. ASSUME WorkerEffect
      PROVE  Rest
  <2>1. pc' \in [Thread -> Label]
    BY <1>g, <1>l, <1>5, Distinguished DEF WorkerEffect, Acquires, Downs, Releases, Signals
  <2>2. CASE UNCHANGED progVars
    BY <1>b, <2>1, <2>2 DEF progVars
  <2>3. CASE /\ mail' = inHdr /\ inHdr' = NULL
             /\ UNCHANGED <<socket, delayBuf, sending, messages, num, got>>
    BY <1>b, <2>1, <2>3
  <2>4. CASE /\ Signals(worker, boxCond(mail.to), boxLock(mail.to), "Put.signal", "Put.Release")
             /\ messages' = [messages EXCEPT ![mail.to] = Append(@, mail)]
             /\ UNCHANGED <<socket, inHdr, delayBuf, sending, mail, num, got>>
    <3>1. mail \in Message
      BY <1>b, <2>4 DEF Control, Signals
    <3>2. mail.to \in Box /\ messages[mail.to] \in Seq(Message)
      BY <1>b, <3>1, Distinguished
    <3>3. Append(messages[mail.to], mail) \in Seq(Message)
      BY <3>1, <3>2, AppendFacts
    <3> QED
      BY <1>b, <2>1, <2>4, <3>2, <3>3
  <2>5. CASE mail' = NULL /\ UNCHANGED <<socket, inHdr, delayBuf, sending, messages, num, got>>
    BY <1>b, <2>1, <2>5
  <2> QED
    BY <1>5, <2>2, <2>3, <2>4, <2>5 DEF WorkerEffect
<1>6. ASSUME NEW r \in Receiver, ReceiverEffect(r)
      PROVE  Rest
  <2>1. pc' \in [Thread -> Label]
    BY <1>g, <1>l, <1>6, Distinguished DEF ReceiverEffect, Acquires, Waits, Releases, Ends
  <2>2. CASE UNCHANGED progVars
    BY <1>b, <2>1, <2>2 DEF progVars
  <2>3. CASE /\ messages[BoxOf(r)] # <<>>
             /\ got' = [got EXCEPT ![r] = Append(@, Head(messages[BoxOf(r)]))]
             /\ messages' = [messages EXCEPT ![BoxOf(r)] = Tail(@)]
             /\ UNCHANGED <<socket, inHdr, delayBuf, sending, mail, num>>
    <3>1. messages[BoxOf(r)] \in Seq(Message)
      BY <1>b, Distinguished
    <3>2. Head(messages[BoxOf(r)]) \in Message /\ Tail(messages[BoxOf(r)]) \in Seq(Message)
      BY <2>3, <3>1, RemoveFacts
    <3>3. Append(got[r], Head(messages[BoxOf(r)])) \in Seq(Message)
      BY <1>b, <3>2, AppendFacts
    <3> QED
      BY <1>b, <2>1, <2>3, <3>2, <3>3
  <2> QED
    BY <1>6, <2>2, <2>3 DEF ReceiverEffect
<1>7. ASSUME HandlerEffect
      PROVE  Rest
  <2>1. socket # <<>> => Head(socket) \in Message /\ Tail(socket) \in Seq(Message)
    BY <1>b, RemoveFacts
  <2> QED
    BY <1>b, <1>7, <2>1 DEF HandlerEffect, Raises
<1> QED
  BY <1>1, <1>2, <1>3, <1>4, <1>5, <1>6, <1>7 DEF Effect, TypeOK

\* The parts of Control that are about one thread: pp, ii and mm are its label,
\* its inP and the worker's mail, gone whether it has finished.
AwaitedAt(t, pp, mm) ==
  CASE pp = "Send" -> {sendLock}
    [] pp = "network" -> {messageSent}
    [] pp = "PostalDelivery" -> {messageAvailable}
    [] pp = "Put" -> IF mm = NULL THEN {} ELSE {boxLock(mm.to)}
    [] pp \in {"Receive", "Get"} -> {boxLock(BoxOf(t))}
    [] OTHER -> {}

LEMMA AwaitedThere ==
  /\ \A t, mm : /\ AwaitedAt(t, "Send", mm) = {sendLock}
                /\ AwaitedAt(t, "network", mm) = {messageSent}
                /\ AwaitedAt(t, "PostalDelivery", mm) = {messageAvailable}
                /\ AwaitedAt(t, "Receive", mm) = {boxLock(BoxOf(t))}
                /\ AwaitedAt(t, "Get", mm) = {boxLock(BoxOf(t))}
                /\ mm # NULL => AwaitedAt(t, "Put", mm) = {boxLock(mm.to)}
  /\ \A t, pp, m1, m2 : pp # "Put" => AwaitedAt(t, pp, m1) = AwaitedAt(t, pp, m2)
<1>1. \A t, mm : /\ AwaitedAt(t, "Send", mm) = {sendLock}
                 /\ AwaitedAt(t, "network", mm) = {messageSent}
                 /\ AwaitedAt(t, "PostalDelivery", mm) = {messageAvailable}
                 /\ AwaitedAt(t, "Receive", mm) = {boxLock(BoxOf(t))}
                 /\ AwaitedAt(t, "Get", mm) = {boxLock(BoxOf(t))}
                 /\ mm # NULL => AwaitedAt(t, "Put", mm) = {boxLock(mm.to)}
  BY DEF AwaitedAt
<1>2. ASSUME NEW t, NEW pp, NEW m1, NEW m2, pp # "Put"
      PROVE  AwaitedAt(t, pp, m1) = AwaitedAt(t, pp, m2)
  BY <1>2 DEF AwaitedAt
<1> QED
  BY <1>1, <1>2

SenderControl(s) ==
  /\ pc[s] \in {"Send", "network", "unlock", "done"}
  /\ \/ pc[s] = "network" /\ inP[s] = NULL
     \/ pc[s] = "Send" /\ inP[s] # NULL
     => num[s] < Count
ThreadControl(t) ==
  /\ inP[t] \in {NULL} \cup AwaitedAt(t, pc[t], mail)
  /\ pc[t] = "done" <=> t \in finished
MailControl ==
  mail # NULL <=> \/ pc[worker] = "Put" /\ inP[worker] # NULL
                  \/ pc[worker] \in {"Put.signal", "Put.Release"}
MainControl ==
  /\ pc[Main] \in {"fork", "done"} /\ status[Main] # "JUST_CREATED"
  /\ pc[Main] = "done" => \A t \in Thread : status[t] # "JUST_CREATED"

LEMMA ControlParts ==
  Control <=> /\ MainControl /\ MailControl
              /\ pc[worker] \in {"PostalDelivery", "Put", "Put.signal", "Put.Release"}
              /\ \A s \in Sender : SenderControl(s)
              /\ \A r \in Receiver : pc[r] \in {"Receive", "Get", "done"}
              /\ \A t \in Thread : ThreadControl(t)
<1>1. \A t \in Thread : Awaited(t) = AwaitedAt(t, pc[t], mail)
  BY DEF Awaited, AwaitedAt
<1> QED
  BY <1>1 DEF Control, MainControl, MailControl, SenderControl, ThreadControl

\* Only thread t moves, from one label to the other, and does not finish.
Moves(t, to) ==
  /\ finished' = finished /\ pc[t] # "done"
  /\ \A u \in Thread \ {t} : pc'[u] = pc[u] /\ inP'[u] = inP[u]
  /\ \/ pc'[t] = to /\ inP'[t] = NULL
     \/ pc'[t] = pc[t]

LEMMA EffectMoves ==
  ASSUME TypeOK, NEW t \in Thread, NEW from, NEW to, NEW s, NEW c, from # "done"
  PROVE  /\ Acquires(t, s, from, to) => Moves(t, to) /\ pc[t] = from
         /\ Downs(t, s, from, to) => Moves(t, to) /\ pc[t] = from
         /\ Releases(t, s, from, to) => Moves(t, to) /\ pc[t] = from
         /\ Signals(t, c, s, from, to) => Moves(t, to) /\ pc[t] = from
         /\ Waits(t, c, s, from) => Moves(t, to) /\ pc[t] = from
<1>1. pc \in [Thread -> Label] /\ inP \in [Thread -> Semaphore \cup {NULL}]
  BY DEF TypeOK, SynchTypeOK
<1> QED
  BY <1>1 DEF Acquires, Downs, Releases, Signals, Waits, Moves, Goto

LEMMA MovesControl ==
  ASSUME TypeOK, Control, NEW t \in Thread, NEW to, Moves(t, to), to # "done",
         t # worker => mail' = mail,
         inP'[t] \in {NULL} \cup AwaitedAt(t, pc'[t], mail')
  PROVE  \A u \in Thread : ThreadControl(u)'
<1>1. \A u \in Thread : ThreadControl(u)
  BY ControlParts
<1>2. pc[worker] # "Put" => mail = NULL \/ pc[worker] # "Put"
  OBVIOUS
<1>3. ASSUME NEW u \in Thread \ {t}
      PROVE  AwaitedAt(u, pc'[u], mail') = AwaitedAt(u, pc[u], mail)
  <2>1. pc'[u] = pc[u]
    BY <1>3 DEF Moves
  <2>2. CASE t # worker
    BY <2>1, <2>2
  <2>3. CASE t = worker
    <3>1. u \in {Main} \cup Sender \cup Receiver
      BY <1>3, <2>3, Distinguished
    <3>2. pc[u] # "Put"
      BY <3>1, ControlParts DEF MainControl, SenderControl
    <3> QED
      BY <2>1, <3>2, AwaitedThere
  <2> QED
    BY <2>2, <2>3
<1>4. pc'[t] # "done" /\ t \notin finished
  BY <1>1 DEF Moves, ThreadControl
<1>5. ASSUME NEW u \in Thread
      PROVE  /\ inP'[u] \in {NULL} \cup AwaitedAt(u, pc'[u], mail')
             /\ pc'[u] = "done" <=> u \in finished'
  <2>1. CASE u = t
    BY <1>4, <2>1 DEF Moves
  <2>2. CASE u # t
    BY <1>1, <1>3, <2>2 DEF Moves, ThreadControl
  <2> QED
    BY <2>1, <2>2
<1> QED
  BY <1>5 DEF ThreadControl

\* Finish() of a thread at its label from.
LEMMA EndsControl ==
  ASSUME TypeOK, Control, NEW t \in Thread, NEW from, Ends(t, from), mail' = mail
  PROVE  /\ \A u \in Thread : ThreadControl(u)'
         /\ pc'[t] = "done" /\ \A u \in Thread \ {t} : pc'[u] = pc[u]
         /\ inP' = inP
<1>1. \A u \in Thread : ThreadControl(u)
  BY ControlParts
<1>2. /\ pc'[t] = "done" /\ \A u \in Thread \ {t} : pc'[u] = pc[u]
      /\ inP' = inP /\ inP[t] = NULL /\ finished' = finished \cup {t}
  BY DEF Ends, Goto, TypeOK
<1>3. ASSUME NEW u \in Thread
      PROVE  /\ inP'[u] \in {NULL} \cup AwaitedAt(u, pc'[u], mail')
             /\ pc'[u] = "done" <=> u \in finished'
  <2>1. CASE u = t
    BY <1>2, <2>1
  <2>2. CASE u # t
    BY <1>1, <1>2, <2>2 DEF ThreadControl
  <2> QED
    BY <2>1, <2>2
<1> QED
  BY <1>2, <1>3 DEF ThreadControl

LEMMA StepControl ==
  ASSUME TypeOK, Control, [Next]_vars, Effect
  PROVE  Control'
<1>a. /\ pc \in [Thread -> Label] /\ inP \in [Thread -> Semaphore \cup {NULL}]
      /\ num \in [Sender -> 0 .. Count] /\ mail \in Message \cup {NULL}
      /\ inHdr \in Message \cup {NULL}
  BY DEF TypeOK, SynchTypeOK
<1>b. /\ MainControl /\ MailControl
      /\ pc[worker] \in {"PostalDelivery", "Put", "Put.signal", "Put.Release"}
      /\ \A s \in Sender : SenderControl(s)
      /\ \A r \in Receiver : pc[r] \in {"Receive", "Get", "done"}
      /\ \A t \in Thread : ThreadControl(t)
  BY ControlParts
<1>c. \A t \in Thread : status'[t] = "JUST_CREATED" => status[t] = "JUST_CREATED"
  BY PostStep, StepCreated DEF TypeOK
<1>d. pc'[Main] = pc[Main] => MainControl'
  BY <1>b, <1>c, Distinguished DEF MainControl
<1>e. /\ MainControl' /\ MailControl'
      /\ pc'[worker] \in {"PostalDelivery", "Put", "Put.signal", "Put.Release"}
      /\ \A s \in Sender : SenderControl(s)'
      /\ \A r \in Receiver : pc'[r] \in {"Receive", "Get", "done"}
      /\ \A t \in Thread : ThreadControl(t)'
      => Control'
  <2>1. \A t \in Thread : Awaited(t)' = AwaitedAt(t, pc'[t], mail')
    BY DEF Awaited, AwaitedAt
  <2> QED
    BY <2>1 DEF Control, MainControl, MailControl, SenderControl, ThreadControl
<1>2. CASE Still /\ UNCHANGED progVars
  BY <1>2, <1>b, <1>d, <1>e
  DEF Still, progVars, MailControl, SenderControl, ThreadControl
<1>3. CASE /\ Ends(Main, "fork") /\ UNCHANGED progVars
           /\ \A t \in Thread : status[t] # "JUST_CREATED"
  <2>1. /\ \A u \in Thread : ThreadControl(u)'
        /\ pc'[Main] = "done" /\ \A u \in Thread \ {Main} : pc'[u] = pc[u]
        /\ inP' = inP
    BY <1>3, EndsControl, Distinguished DEF progVars
  <2>2. MainControl'
    BY <1>3, <1>c, <2>1, Distinguished DEF MainControl
  <2> QED
    BY <1>3, <1>b, <1>e, <2>1, <2>2, Distinguished DEF progVars, MailControl, SenderControl
<1>4. ASSUME NEW s \in Sender, SenderEffect(s)
      PROVE  Control'
  <2>a. s \in Thread /\ s \notin Receiver /\ s # worker /\ s # Main
    BY Distinguished
  <2>o. ASSUME \A u \in Thread \ {s} : pc'[u] = pc[u] /\ inP'[u] = inP[u],
               \A x \in Sender \ {s} : num'[x] = num[x], mail' = mail,
               SenderControl(s)', \A u \in Thread : ThreadControl(u)'
        PROVE  Control'
    <3>1. \A x \in Sender : SenderControl(x)'
      BY <1>b, <2>o, Distinguished DEF SenderControl
    <3>2. MailControl' /\ \A r \in Receiver : pc'[r] \in {"Receive", "Get", "done"}
      BY <1>b, <2>a, <2>o, Distinguished DEF MailControl
    <3> QED
      BY <1>b, <1>d, <1>e, <2>a, <2>o, <3>1, <3>2, Distinguished
  <2>1. CASE Ends(s, "Send") /\ UNCHANGED progVars
    <3>1. /\ \A u \in Thread : ThreadControl(u)'
          /\ pc'[s] = "done" /\ \A u \in Thread \ {s} : pc'[u] = pc[u]
          /\ inP' = inP
      BY <2>1, <2>a, EndsControl DEF progVars
    <3> QED
      BY <2>o, <2>1, <3>1 DEF progVars, SenderControl
  <2>2. CASE num[s] < Count /\ Acquires(s, sendLock, "Send", "network") /\ UNCHANGED progVars
    <3>1. Moves(s, "network") /\ pc[s] = "Send" /\ mail' = mail /\ num' = num
      BY <2>2, <2>a, EffectMoves DEF progVars
    <3>2. \/ pc'[s] = "network" /\ inP'[s] = NULL
          \/ pc'[s] = "Send" /\ inP'[s] = sendLock
      BY <1>a, <2>a, <2>2 DEF Acquires, Goto
    <3>3. inP'[s] \in {NULL} \cup AwaitedAt(s, pc'[s], mail')
      BY <3>2, AwaitedThere
    <3>4. \A u \in Thread : ThreadControl(u)'
      BY <2>a, <3>1, <3>3, MovesControl
    <3>5. SenderControl(s)'
      BY <2>2, <3>1, <3>2 DEF SenderControl
    <3> QED
      BY <2>o, <3>1, <3>4, <3>5 DEF Moves
  <2>3. CASE /\ Downs(s, messageSent, "network", "unlock") /\ mail' = mail
             /\ \A x \in Sender \ {s} : num'[x] = num[x]
    <3>1. Moves(s, "unlock") /\ pc[s] = "network"
      BY <2>3, <2>a, EffectMoves
    <3>2. \/ pc'[s] = "unlock" /\ inP'[s] = NULL
          \/ pc'[s] = "network" /\ inP'[s] = messageSent
      BY <1>a, <2>a, <2>3 DEF Downs, Goto
    <3>3. inP'[s] \in {NULL} \cup AwaitedAt(s, pc'[s], mail')
      BY <3>2, AwaitedThere
    <3>4. \A u \in Thread : ThreadControl(u)'
      BY <2>a, <2>3, <3>1, <3>3, MovesControl
    <3>5. SenderControl(s)'
      BY <3>2, Distinguished DEF SenderControl
    <3> QED
      BY <2>o, <2>3, <3>1, <3>4, <3>5 DEF Moves
  <2>4. CASE Releases(s, sendLock, "unlock", "Send") /\ UNCHANGED progVars
    <3>1. Moves(s, "Send") /\ pc[s] = "unlock" /\ mail' = mail /\ num' = num
      BY <2>4, <2>a, EffectMoves DEF progVars
    <3>2. pc'[s] = "Send" /\ inP'[s] = NULL
      BY <1>a, <2>a, <2>4 DEF Releases, Goto
    <3>4. \A u \in Thread : ThreadControl(u)'
      BY <2>a, <3>1, <3>2, MovesControl
    <3>5. SenderControl(s)'
      BY <3>2 DEF SenderControl
    <3> QED
      BY <2>o, <3>1, <3>4, <3>5 DEF Moves
  <2>5. mail' = mail /\ \A x \in Sender \ {s} : num'[x] = num[x]
    BY <1>a, <1>4 DEF SenderEffect, progVars
  <2> QED
    BY <1>4, <2>1, <2>2, <2>3, <2>4, <2>5 DEF SenderEffect
<1>5. CASE WorkerEffect
  <2>a. worker \in Thread /\ worker \notin Sender \cup Receiver /\ worker # Main
    BY Distinguished
  <2>o. ASSUME NEW to \in {"PostalDelivery", "Put", "Put.signal", "Put.Release"},
               Moves(worker, to), num' = num, MailControl',
               inP'[worker] \in {NULL} \cup AwaitedAt(worker, pc'[worker], mail')
        PROVE  Control'
    <3>1. \A u \in Thread : ThreadControl(u)'
      BY <2>a, <2>o, MovesControl
    <3>2. \A x \in Sender : SenderControl(x)'
      BY <1>b, <2>a, <2>o, Distinguished DEF Moves, SenderControl
    <3>3. /\ \A r \in Receiver : pc'[r] \in {"Receive", "Get", "done"}
          /\ pc'[worker] \in {"PostalDelivery", "Put", "Put.signal", "Put.Release"}
      BY <1>b, <2>a, <2>o, Distinguished DEF Moves
    <3> QED
      BY <1>b, <1>d, <1>e, <2>a, <2>o, <3>1, <3>2, <3>3, Distinguished DEF Moves
  <2>1. CASE Downs(worker, messageAvailable, "PostalDelivery", "Put") /\ UNCHANGED progVars
    <3>1. Moves(worker, "Put") /\ pc[worker] = "PostalDelivery" /\ mail' = mail /\ num' = num
      BY <2>1, <2>a, EffectMoves DEF progVars
    <3>2. \/ pc'[worker] = "Put" /\ inP'[worker] = NULL
          \/ pc'[worker] = "PostalDelivery" /\ inP'[worker] = messageAvailable
      BY <1>a, <2>a, <2>1 DEF Downs, Goto
    <3>3. MailControl'
      BY <1>b, <3>1, <3>2 DEF MailControl
    <3> QED
      BY <2>o, <3>1, <3>2, <3>3, AwaitedThere
  <2>2. CASE /\ Acquires(worker, boxLock(mail'.to), "Put", "Put.signal")
             /\ mail' # NULL /\ mail' \in Message /\ num' = num
    <3>1. Moves(worker, "Put.signal") /\ pc[worker] = "Put"
      BY <2>2, <2>a, EffectMoves
    <3>2. \/ pc'[worker] = "Put.signal" /\ inP'[worker] = NULL
          \/ pc'[worker] = "Put" /\ inP'[worker] = boxLock(mail'.to)
      BY <1>a, <2>a, <2>2 DEF Acquires, Goto
    <3>3. MailControl'
      BY <2>2, <3>2, Distinguished DEF MailControl
    <3> QED
      BY <2>o, <2>2, <3>1, <3>2, <3>3, AwaitedThere
  <2>3. CASE /\ Signals(worker, boxCond(mail.to), boxLock(mail.to), "Put.signal", "Put.Release")
             /\ mail' = mail /\ num' = num
    <3>1. Moves(worker, "Put.Release") /\ pc[worker] = "Put.signal"
      BY <2>3, <2>a, EffectMoves
    <3>2. pc'[worker] = "Put.Release" /\ inP'[worker] = NULL
      BY <1>a, <2>a, <2>3 DEF Signals, Goto
    <3>3. MailControl'
      BY <1>b, <2>3, <3>1, <3>2 DEF MailControl
    <3> QED
      BY <2>o, <2>3, <3>1, <3>2, <3>3
  <2>4. CASE /\ Releases(worker, boxLock(mail.to), "Put.Release", "PostalDelivery")
             /\ mail' = NULL /\ num' = num
    <3>1. Moves(worker, "PostalDelivery")
      BY <2>4, <2>a, EffectMoves
    <3>2. pc'[worker] = "PostalDelivery" /\ inP'[worker] = NULL
      BY <1>a, <2>a, <2>4 DEF Releases, Goto
    <3>3. MailControl'
      BY <2>4, <3>2 DEF MailControl
    <3> QED
      BY <2>o, <2>4, <3>1, <3>2, <3>3
  <2>5. CASE inP[worker] # NULL /\ Acquires(worker, boxLock(mail.to), "Put", "Put.signal")
             /\ UNCHANGED progVars
    <3>1. mail \in Message /\ mail # NULL
      BY <1>a, <1>b, <2>5 DEF MailControl, Acquires
    <3> QED
      BY <2>2, <2>5, <3>1 DEF progVars
  <2>6. CASE /\ inP[worker] = NULL /\ inHdr # NULL
             /\ Acquires(worker, boxLock(inHdr.to), "Put", "Put.signal")
             /\ mail' = inHdr /\ num' = num
    BY <1>a, <2>2, <2>6
  <2> QED
    BY <1>5, <2>1, <2>3, <2>4, <2>5, <2>6 DEF WorkerEffect
<1>6. ASSUME NEW r \in Receiver, ReceiverEffect(r)
      PROVE  Control'
  <2>a. r \in Thread /\ r \notin Sender /\ r # worker /\ r # Main /\ mail' = mail /\ num' = num
    BY <1>6, Distinguished DEF ReceiverEffect, progVars
  <2>o. ASSUME \A u \in Thread \ {r} : pc'[u] = pc[u] /\ inP'[u] = inP[u],
               pc'[r] \in {"Receive", "Get", "done"}, \A u \in Thread : ThreadControl(u)'
        PROVE  Control'
    <3>1. \A x \in Sender : SenderControl(x)'
      BY <1>b, <2>a, <2>o, Distinguished DEF SenderControl
    <3>2. MailControl' /\ \A q \in Receiver : pc'[q] \in {"Receive", "Get", "done"}
      BY <1>b, <2>a, <2>o, Distinguished DEF MailControl
    <3> QED
      BY <1>b, <1>d, <1>e, <2>a, <2>o, <3>1, <3>2, Distinguished
  <2>m. ASSUME NEW to \in {"Receive", "Get"}, Moves(r, to), pc[r] \in {"Receive", "Get"},
               inP'[r] \in {NULL, boxLock(BoxOf(r))}
        PROVE  Control'
    <3>1. pc'[r] \in {"Receive", "Get"}
      BY <2>m DEF Moves
    <3>2. inP'[r] \in {NULL} \cup AwaitedAt(r, pc'[r], mail')
      BY <2>m, <3>1, AwaitedThere
    <3>3. \A u \in Thread : ThreadControl(u)'
      BY <2>a, <2>m, <3>2, MovesControl
    <3> QED
      BY <2>m, <2>o, <3>1, <3>3 DEF Moves
  <2>1. CASE Ends(r, "Receive")
    <3>1. /\ \A u \in Thread : ThreadControl(u)'
          /\ pc'[r] = "done" /\ \A u \in Thread \ {r} : pc'[u] = pc[u]
          /\ inP' = inP
      BY <2>1, <2>a, EndsControl
    <3> QED
      BY <2>o, <3>1
  <2>2. CASE Acquires(r, boxLock(BoxOf(r)), "Receive", "Get")
    <3>1. Moves(r, "Get") /\ pc[r] = "Receive"
      BY <2>2, <2>a, EffectMoves
    <3>2. inP'[r] \in {NULL, boxLock(BoxOf(r))}
      BY <1>a, <2>a, <2>2 DEF Acquires
    <3> QED
      BY <2>m, <3>1, <3>2
  <2>3. CASE Acquires(r, boxLock(BoxOf(r)), "Get", "Get")
    <3>1. Moves(r, "Get") /\ pc[r] = "Get"
      BY <2>3, <2>a, EffectMoves
    <3>2. inP'[r] \in {NULL, boxLock(BoxOf(r))}
      BY <1>a, <2>a, <2>3 DEF Acquires
    <3> QED
      BY <2>m, <3>1, <3>2
  <2>4. CASE Waits(r, boxCond(BoxOf(r)), boxLock(BoxOf(r)), "Get")
    <3>1. Moves(r, "Get") /\ pc[r] = "Get"
      BY <2>4, <2>a, EffectMoves
    <3>2. inP'[r] \in {NULL, boxLock(BoxOf(r))}
      BY <1>a, <2>a, <2>4 DEF Waits
    <3> QED
      BY <2>m, <3>1, <3>2
  <2>5. CASE Releases(r, boxLock(BoxOf(r)), "Get", "Receive")
    <3>1. Moves(r, "Receive") /\ pc[r] = "Get"
      BY <2>5, <2>a, EffectMoves
    <3>2. inP'[r] \in {NULL, boxLock(BoxOf(r))}
      BY <1>a, <2>a, <2>5 DEF Releases
    <3> QED
      BY <2>m, <3>1, <3>2
  <2> QED
    BY <1>6, <2>1, <2>2, <2>3, <2>4, <2>5 DEF ReceiverEffect
<1>7. CASE HandlerEffect
  BY <1>7, <1>b, <1>d, <1>e
  DEF HandlerEffect, Raises, MailControl, SenderControl, ThreadControl
<1> QED
  BY <1>2, <1>3, <1>4, <1>5, <1>6, <1>7 DEF Effect

\* How one step of thread t keeps Ownership.
LEMMA OwnershipMoves ==
  ASSUME TypeOK, Ownership, NEW t \in Thread, t # worker => mail' = mail,
         \A u \in Thread \ {t} : pc'[u] = pc[u] /\ inP'[u] = inP[u],
         \/ owner' = owner /\ \A l \in Lock : Holds(t, l)' <=> Holds(t, l)
         \/ \E k \in Lock : /\ owner[k] = NULL /\ owner' = [owner EXCEPT ![k] = t]
                            /\ \A l \in Lock : (Holds(t, l)' <=> l = k) /\ ~Holds(t, l)
         \/ \E k \in Lock : /\ owner[k] = t /\ owner' = [owner EXCEPT ![k] = NULL]
                            /\ \A l \in Lock : ~Holds(t, l)'
  PROVE  Ownership'
<1>1. owner \in [Lock -> Thread \cup {NULL}] /\ NULL \notin Thread
  BY NullAssumption DEF TypeOK, SynchTypeOK
<1>2. \A u \in Thread, l \in Lock : owner[l] = u <=> Holds(u, l)
  BY DEF Ownership
<1>3. ASSUME NEW u \in Thread \ {t}, NEW l \in Lock
      PROVE  Holds(u, l)' <=> Holds(u, l)
  BY <1>3 DEF Holds
<1>4. ASSUME NEW u \in Thread, NEW k \in Lock, NEW l \in Lock, Holds(u, k), Holds(u, l)
      PROVE  k = l
  BY <1>4, Distinguished DEF Holds
<1>5. CASE owner' = owner /\ \A l \in Lock : Holds(t, l)' <=> Holds(t, l)
  BY <1>2, <1>3, <1>5 DEF Ownership
<1>6. CASE \E k \in Lock : /\ owner[k] = NULL /\ owner' = [owner EXCEPT ![k] = t]
                           /\ \A l \in Lock : (Holds(t, l)' <=> l = k) /\ ~Holds(t, l)
  <2>1. PICK k \in Lock : /\ owner[k] = NULL /\ owner' = [owner EXCEPT ![k] = t]
                          /\ \A l \in Lock : (Holds(t, l)' <=> l = k) /\ ~Holds(t, l)
    BY <1>6
  <2>2. owner'[k] = t /\ \A l \in Lock \ {k} : owner'[l] = owner[l]
    BY <1>1, <2>1
  <2> QED
    BY <1>1, <1>2, <1>3, <2>1, <2>2 DEF Ownership
<1>7. CASE \E k \in Lock : /\ owner[k] = t /\ owner' = [owner EXCEPT ![k] = NULL]
                           /\ \A l \in Lock : ~Holds(t, l)'
  <2>1. PICK k \in Lock : /\ owner[k] = t /\ owner' = [owner EXCEPT ![k] = NULL]
                          /\ \A l \in Lock : ~Holds(t, l)'
    BY <1>7
  <2>2. owner'[k] = NULL /\ \A l \in Lock \ {k} : owner'[l] = owner[l]
    BY <1>1, <2>1
  <2>3. Holds(t, k) /\ \A l \in Lock \ {k} : owner[l] # t
    BY <1>2, <1>4, <2>1
  <2> QED
    BY <1>1, <1>2, <1>3, <2>1, <2>2, <2>3 DEF Ownership
<1> QED
  BY <1>5, <1>6, <1>7

LEMMA StepOwnership ==
  ASSUME TypeOK, Control, Ownership, Effect
  PROVE  Ownership'
<1>a. /\ pc \in [Thread -> Label] /\ inP \in [Thread -> Semaphore \cup {NULL}]
      /\ mail \in Message \cup {NULL} /\ inHdr \in Message \cup {NULL}
      /\ MailControl
  BY ControlParts DEF TypeOK, SynchTypeOK
<1>2. CASE Still /\ UNCHANGED progVars
  BY <1>2 DEF Still, progVars, Ownership, Holds
<1>3. CASE Ends(Main, "fork") /\ UNCHANGED progVars
  <2>1. pc' = [pc EXCEPT ![Main] = "done"] /\ inP' = inP /\ owner' = owner /\ mail' = mail
    BY <1>3 DEF Ends, Goto, progVars
  <2>2. \A l \in Lock : ~Holds(Main, l) /\ ~Holds(Main, l)'
    BY Distinguished DEF Holds
  <2> QED
    BY <1>a, <2>1, <2>2, OwnershipMoves, Distinguished
<1>4. ASSUME NEW s \in Sender, SenderEffect(s)
      PROVE  Ownership'
  <2>a. /\ s \in Thread /\ s \notin Receiver /\ s # worker /\ mail' = mail /\ sendLock \in Lock
        /\ \A l \in Lock : (Holds(s, l) <=> pc[s] \in {"network", "unlock"} /\ l = sendLock)
        /\ \A l \in Lock : (Holds(s, l)' <=> pc'[s] \in {"network", "unlock"} /\ l = sendLock)
    BY <1>4, Distinguished DEF SenderEffect, progVars, Holds
  <2>o. ASSUME \A u \in Thread \ {s} : pc'[u] = pc[u] /\ inP'[u] = inP[u],
               \/ owner' = owner /\ \A l \in Lock : Holds(s, l)' <=> Holds(s, l)
               \/ \E k \in Lock : /\ owner[k] = NULL /\ owner' = [owner EXCEPT ![k] = s]
                                  /\ \A l \in Lock : (Holds(s, l)' <=> l = k) /\ ~Holds(s, l)
               \/ \E k \in Lock : /\ owner[k] = s /\ owner' = [owner EXCEPT ![k] = NULL]
                                  /\ \A l \in Lock : ~Holds(s, l)'
        PROVE  Ownership'
    BY <2>a, <2>o, OwnershipMoves
  <2>1. CASE Acquires(s, sendLock, "Send", "network")
    <3>1. /\ \A u \in Thread \ {s} : pc'[u] = pc[u] /\ inP'[u] = inP[u]
          /\ pc[s] = "Send"
          /\ \/ owner[sendLock] = NULL /\ owner' = [owner EXCEPT ![sendLock] = s]
                /\ pc'[s] = "network"
             \/ owner' = owner /\ pc'[s] = pc[s]
      BY <1>a, <2>a, <2>1 DEF Acquires, Goto
    <3> QED
      BY <2>a, <2>o, <3>1
  <2>2. CASE Downs(s, messageSent, "network", "unlock")
    <3>1. /\ \A u \in Thread \ {s} : pc'[u] = pc[u] /\ inP'[u] = inP[u]
          /\ pc[s] = "network" /\ pc'[s] \in {"network", "unlock"} /\ owner' = owner
      BY <1>a, <2>a, <2>2 DEF Downs, Goto
    <3> QED
      BY <2>a, <2>o, <3>1
  <2>3. CASE Releases(s, sendLock, "unlock", "Send")
    <3>1. /\ \A u \in Thread \ {s} : pc'[u] = pc[u] /\ inP'[u] = inP[u]
          /\ pc'[s] = "Send"
          /\ owner[sendLock] = s /\ owner' = [owner EXCEPT ![sendLock] = NULL]
      BY <1>a, <2>a, <2>3 DEF Releases, Goto
    <3> QED
      BY <2>a, <2>o, <3>1
  <2>4. CASE Ends(s, "Send")
    <3>1. /\ \A u \in Thread \ {s} : pc'[u] = pc[u] /\ inP'[u] = inP[u]
          /\ pc[s] = "Send" /\ pc'[s] = "done" /\ owner' = owner
      BY <1>a, <2>a, <2>4 DEF Ends, Goto
    <3> QED
      BY <2>a, <2>o, <3>1
  <2> QED
    BY <1>4, <2>1, <2>2, <2>3, <2>4 DEF SenderEffect
<1>5. CASE WorkerEffect
  <2>a. /\ worker \in Thread /\ worker \notin Sender \cup Receiver
        /\ \A l \in Lock : Holds(worker, l) <=>
             pc[worker] \in {"Put.signal", "Put.Release"} /\ l = boxLock(mail.to)
        /\ \A l \in Lock : Holds(worker, l)' <=>
             pc'[worker] \in {"Put.signal", "Put.Release"} /\ l = boxLock(mail'.to)
        /\ \A m \in Message : boxLock(m.to) \in Lock
    BY Distinguished DEF Holds
  <2>o. ASSUME \A u \in Thread \ {worker} : pc'[u] = pc[u] /\ inP'[u] = inP[u],
               \/ owner' = owner /\ \A l \in Lock : Holds(worker, l)' <=> Holds(worker, l)
               \/ \E k \in Lock :
                    /\ owner[k] = NULL /\ owner' = [owner EXCEPT ![k] = worker]
                    /\ \A l \in Lock : (Holds(worker, l)' <=> l = k) /\ ~Holds(worker, l)
               \/ \E k \in Lock : /\ owner[k] = worker /\ owner' = [owner EXCEPT ![k] = NULL]
                                  /\ \A l \in Lock : ~Holds(worker, l)'
        PROVE  Ownership'
    BY <2>a, <2>o, OwnershipMoves
  <2>1. CASE Downs(worker, messageAvailable, "PostalDelivery", "Put")
    <3>1. /\ \A u \in Thread \ {worker} : pc'[u] = pc[u] /\ inP'[u] = inP[u]
          /\ pc[worker] = "PostalDelivery" /\ pc'[worker] \in {"PostalDelivery", "Put"}
          /\ owner' = owner
      BY <1>a, <2>a, <2>1 DEF Downs, Goto
    <3> QED
      BY <2>a, <2>o, <3>1
  <2>2. CASE Acquires(worker, boxLock(mail'.to), "Put", "Put.signal") /\ mail' \in Message
    <3>1. /\ \A u \in Thread \ {worker} : pc'[u] = pc[u] /\ inP'[u] = inP[u]
          /\ pc[worker] = "Put"
          /\ \/ /\ owner[boxLock(mail'.to)] = NULL
                /\ owner' = [owner EXCEPT ![boxLock(mail'.to)] = worker]
                /\ pc'[worker] = "Put.signal"
             \/ owner' = owner /\ pc'[worker] = pc[worker]
      BY <1>a, <2>a, <2>2 DEF Acquires, Goto
    <3> QED
      BY <2>a, <2>o, <2>2, <3>1
  <2>3. CASE /\ Signals(worker, boxCond(mail.to), boxLock(mail.to), "Put.signal", "Put.Release")
             /\ mail' = mail
    <3>1. /\ \A u \in Thread \ {worker} : pc'[u] = pc[u] /\ inP'[u] = inP[u]
          /\ pc[worker] = "Put.signal" /\ pc'[worker] = "Put.Release" /\ owner' = owner
      BY <1>a, <2>a, <2>3 DEF Signals, Goto
    <3> QED
      BY <2>a, <2>o, <2>3, <3>1
  <2>4. CASE Releases(worker, boxLock(mail.to), "Put.Release", "PostalDelivery")
    <3>1. /\ \A u \in Thread \ {worker} : pc'[u] = pc[u] /\ inP'[u] = inP[u]
          /\ pc'[worker] = "PostalDelivery" /\ mail \in Message
          /\ owner[boxLock(mail.to)] = worker
          /\ owner' = [owner EXCEPT ![boxLock(mail.to)] = NULL]
      BY <1>a, <2>a, <2>4 DEF Releases, Goto, MailControl
    <3> QED
      BY <2>a, <2>o, <3>1
  <2>5. CASE inP[worker] # NULL /\ Acquires(worker, boxLock(mail.to), "Put", "Put.signal")
             /\ UNCHANGED progVars
    BY <1>a, <2>2, <2>5 DEF Acquires, MailControl, progVars
  <2>6. CASE /\ inHdr # NULL /\ Acquires(worker, boxLock(inHdr.to), "Put", "Put.signal")
             /\ mail' = inHdr
    BY <1>a, <2>2, <2>6
  <2> QED
    BY <1>5, <2>1, <2>3, <2>4, <2>5, <2>6 DEF WorkerEffect
<1>6. ASSUME NEW r \in Receiver, ReceiverEffect(r)
      PROVE  Ownership'
  <2> DEFINE k == boxLock(BoxOf(r))
  <2>a. /\ r \in Thread /\ r \notin Sender /\ r # worker /\ mail' = mail /\ k \in Lock
        /\ \A l \in Lock : (Holds(r, l) <=> pc[r] = "Get" /\ inP[r] = NULL /\ l = k)
        /\ \A l \in Lock : (Holds(r, l)' <=> pc'[r] = "Get" /\ inP'[r] = NULL /\ l = k)
        /\ NULL \notin Lock
    BY <1>6, Distinguished DEF ReceiverEffect, progVars, Holds
  <2> HIDE DEF k
  <2>o. ASSUME \A u \in Thread \ {r} : pc'[u] = pc[u] /\ inP'[u] = inP[u],
               \/ owner' = owner /\ \A l \in Lock : Holds(r, l)' <=> Holds(r, l)
               \/ /\ owner[k] = NULL /\ owner' = [owner EXCEPT ![k] = r]
                  /\ \A l \in Lock : (Holds(r, l)' <=> l = k) /\ ~Holds(r, l)
               \/ /\ owner[k] = r /\ owner' = [owner EXCEPT ![k] = NULL]
                  /\ \A l \in Lock : ~Holds(r, l)'
        PROVE  Ownership'
    BY <2>a, <2>o, OwnershipMoves
  <2>1. ASSUME NEW from, Acquires(r, k, from, "Get"),
               from = "Receive" \/ inP[r] # NULL
        PROVE  Ownership'
    <3>1. /\ \A u \in Thread \ {r} : pc'[u] = pc[u] /\ inP'[u] = inP[u]
          /\ pc[r] = "Receive" \/ inP[r] # NULL
          /\ \/ owner[k] = NULL /\ owner' = [owner EXCEPT ![k] = r]
                /\ pc'[r] = "Get" /\ inP'[r] = NULL
             \/ owner' = owner /\ pc'[r] = pc[r] /\ inP'[r] = k
      BY <1>a, <2>a, <2>1 DEF Acquires, Goto
    <3> QED
      BY <2>a, <2>o, <3>1
  <2>2. CASE Waits(r, boxCond(BoxOf(r)), k, "Get")
    <3>1. /\ \A u \in Thread \ {r} : pc'[u] = pc[u] /\ inP'[u] = inP[u]
          /\ inP'[r] = k
          /\ owner[k] = r /\ owner' = [owner EXCEPT ![k] = NULL]
      BY <1>a, <2>a, <2>2 DEF Waits
    <3> QED
      BY <2>a, <2>o, <3>1
  <2>3. CASE Releases(r, k, "Get", "Receive")
    <3>1. /\ \A u \in Thread \ {r} : pc'[u] = pc[u] /\ inP'[u] = inP[u]
          /\ pc'[r] = "Receive"
          /\ owner[k] = r /\ owner' = [owner EXCEPT ![k] = NULL]
      BY <1>a, <2>a, <2>3 DEF Releases, Goto
    <3> QED
      BY <2>a, <2>o, <3>1
  <2>4. CASE Ends(r, "Receive")
    <3>1. /\ \A u \in Thread \ {r} : pc'[u] = pc[u] /\ inP'[u] = inP[u]
          /\ pc[r] = "Receive" /\ pc'[r] = "done" /\ owner' = owner
      BY <1>a, <2>a, <2>4 DEF Ends, Goto
    <3> QED
      BY <2>a, <2>o, <3>1
  <2> QED
    BY <1>6, <2>1, <2>2, <2>3, <2>4 DEF ReceiverEffect, k
<1>7. CASE HandlerEffect
  BY <1>7 DEF HandlerEffect, Raises, Ownership, Holds
<1> QED
  BY <1>2, <1>3, <1>4, <1>5, <1>6, <1>7 DEF Effect

LEMMA StepWaiters ==
  ASSUME TypeOK, Control, Where, Waiters, Effect
  PROVE  Waiters'
<1>a. /\ pc \in [Thread -> Label] /\ inP \in [Thread -> Semaphore \cup {NULL}]
      /\ SynchTypeOK /\ NULL \notin Semaphore /\ Lock \subseteq Semaphore
  BY Distinguished DEF TypeOK, SynchTypeOK
<1>b. WaitSet \in [Condition -> SUBSET Thread]
  BY DEF Where, Placed
<1>w. \A c \in Condition : \A u \in WaitSet[c] :
        u \in Receiver /\ c = boxCond(BoxOf(u)) /\ pc[u] = "Get" /\ inP[u] # NULL
  BY DEF Waiters
\* A thread that runs waits on no condition, so only it may move.
<1>o. ASSUME NEW t \in Thread, status[t] = "RUNNING",
             \A u \in Thread \ {t} : pc'[u] = pc[u] /\ inP'[u] = inP[u],
             \A c \in Condition : WaitSet'[c] \subseteq WaitSet[c]
      PROVE  Waiters'
  <2>1. \A c \in Condition : t \notin WaitSet[c]
    BY <1>a, <1>o, NotWaiting
  <2> QED
    BY <1>b, <1>w, <1>o, <2>1 DEF Waiters
<1>e. ASSUME NEW t \in Thread, NEW from, Ends(t, from)
      PROVE  Waiters'
  BY <1>a, <1>e, <1>o DEF Ends, Goto
<1>q. ASSUME NEW t \in Thread, NEW l, NEW from, NEW to, Acquires(t, l, from, to)
      PROVE  Waiters'
  BY <1>a, <1>q, <1>o DEF Acquires, Goto
<1>p. ASSUME NEW t \in Thread, NEW l, NEW from, NEW to, Downs(t, l, from, to)
      PROVE  Waiters'
  BY <1>a, <1>p, <1>o DEF Downs, Goto
<1>r. ASSUME NEW t \in Thread, NEW l, NEW from, NEW to, Releases(t, l, from, to)
      PROVE  Waiters'
  BY <1>a, <1>r, <1>o DEF Releases, Goto
<1>s. ASSUME NEW t \in Thread, NEW c, NEW l, NEW from, NEW to, Signals(t, c, l, from, to)
      PROVE  Waiters'
  <2>1. \A d \in Condition : WaitSet'[d] \subseteq WaitSet[d]
    BY <1>b, <1>s DEF Signals
  <2>2. status[t] = "RUNNING" /\ \A u \in Thread \ {t} : pc'[u] = pc[u] /\ inP'[u] = inP[u]
    BY <1>a, <1>s DEF Signals, Goto
  <2> QED
    BY <1>o, <2>1, <2>2
<1>2. CASE Still
  BY <1>2 DEF Still, Waiters
<1>3. CASE HandlerEffect
  BY <1>3 DEF HandlerEffect, Raises, Waiters
<1>4. ASSUME NEW r \in Receiver, Waits(r, boxCond(BoxOf(r)), boxLock(BoxOf(r)), "Get")
      PROVE  Waiters'
  <2> DEFINE c == boxCond(BoxOf(r))
             l == boxLock(BoxOf(r))
  <2>1. r \in Thread /\ c \in Condition /\ l \in Semaphore
    BY <1>a, Distinguished
  <2>2. /\ WaitSet'[c] = WaitSet[c] \cup {r}
        /\ \A d \in Condition \ {c} : WaitSet'[d] = WaitSet[d]
        /\ pc' = pc /\ pc[r] = "Get" /\ inP'[r] = l
        /\ \A u \in Thread \ {r} : inP'[u] = inP[u]
    BY <1>a, <1>b, <1>4, <2>1 DEF Waits
  <2>3. l # NULL /\ c = boxCond(BoxOf(r))
    BY <1>a, <2>1
  <2> HIDE DEF c, l
  <2> QED
    BY <1>a, <1>b, <1>w, <2>1, <2>2, <2>3 DEF Waiters
<1>5. ASSUME NEW s \in Sender, SenderEffect(s)
      PROVE  Waiters'
  BY <1>5, <1>e, <1>q, <1>p, <1>r, Distinguished DEF SenderEffect
<1>6. CASE WorkerEffect
  BY <1>6, <1>q, <1>p, <1>r, <1>s, Distinguished DEF WorkerEffect
<1>7. ASSUME NEW r \in Receiver, ReceiverEffect(r)
      PROVE  Waiters'
  BY <1>7, <1>e, <1>q, <1>r, <1>4, Distinguished DEF ReceiverEffect
<1> QED
  BY <1>2, <1>3, <1>e, <1>5, <1>6, <1>7, Distinguished DEF Effect

\* Of the senders only the owner of the lock can wait for the network.
LEMMA OneAwaits ==
  ASSUME TypeOK, Ownership, NEW s \in Sender, pc[s] \in {"network", "unlock"}
  PROVE  \A x \in Sender : pc[x] \in {"network", "unlock"} => x = s
<1>1. \A x \in Sender : pc[x] \in {"network", "unlock"} => Holds(x, sendLock)
  BY DEF Holds
<1>2. \A x \in Sender : pc[x] \in {"network", "unlock"} => owner[sendLock] = x
  BY <1>1, Distinguished DEF Ownership
<1> QED
  BY <1>2

LEMMA StepSendHandshake ==
  ASSUME TypeOK, Control, Ownership, SendHandshake, Effect
  PROVE  SendHandshake'
<1>a. /\ pc \in [Thread -> Label] /\ inP \in [Thread -> Semaphore \cup {NULL}]
      /\ value \in [Semaphore -> Nat] /\ sending \in BOOLEAN
  BY DEF TypeOK, SynchTypeOK
<1>d. /\ messageSent \in Semaphore \ Lock /\ messageSent # messageAvailable
      /\ messageSent # NULL /\ messageSent \in Semaphore
  BY Distinguished
<1> DEFINE awaited == \E s \in Sender : AwaitsSent(s)
\* Nobody begins to wait or is answered.
<1>o. ASSUME \A x \in Sender : AwaitsSent(x)' <=> AwaitsSent(x),
             value'[messageSent] = value[messageSent], sending' = sending
      PROVE  SendHandshake'
  BY <1>o DEF SendHandshake
<1>t. ASSUME NEW t \in Thread \ Sender,
             \A u \in Thread \ {t} : pc'[u] = pc[u] /\ inP'[u] = inP[u],
             value'[messageSent] = value[messageSent], sending' = sending
      PROVE  SendHandshake'
  <2>1. \A x \in Sender : pc'[x] = pc[x] /\ inP'[x] = inP[x]
    BY <1>t, Distinguished
  <2> QED
    BY <1>o, <1>t, <2>1 DEF AwaitsSent
<1>2. CASE Still /\ UNCHANGED progVars
  BY <1>2, <1>d, <1>o DEF Still, progVars, AwaitsSent
<1>3. CASE Ends(Main, "fork") /\ UNCHANGED progVars
  BY <1>3, <1>a, <1>t, Distinguished DEF Ends, Goto, progVars
<1>4. ASSUME NEW s \in Sender, SenderEffect(s)
      PROVE  SendHandshake'
  <2>a. s \in Thread
    BY Distinguished
  <2>o. ASSUME \A u \in Thread \ {s} : pc'[u] = pc[u] /\ inP'[u] = inP[u],
               pc[s] # "network", pc'[s] # "network" \/ inP'[s] = NULL,
               value'[messageSent] = value[messageSent], UNCHANGED progVars
        PROVE  SendHandshake'
    <3>1. \A x \in Sender : AwaitsSent(x)' <=> AwaitsSent(x)
      BY <2>o, Distinguished DEF AwaitsSent
    <3> QED
      BY <1>o, <2>o, <3>1 DEF progVars
  <2>1. CASE Acquires(s, sendLock, "Send", "network") /\ UNCHANGED progVars
    BY <1>a, <1>d, <2>a, <2>o, <2>1 DEF Acquires, Goto
  <2>2. CASE Releases(s, sendLock, "unlock", "Send") /\ UNCHANGED progVars
    BY <1>a, <1>d, <2>a, <2>o, <2>2 DEF Releases, Goto
  <2>3. CASE Ends(s, "Send") /\ UNCHANGED progVars
    BY <1>a, <1>d, <2>a, <2>o, <2>3 DEF Ends, Goto
  <2>4. CASE /\ inP[s] = NULL /\ Downs(s, messageSent, "network", "unlock")
             /\ sending' = TRUE
    <3>1. pc[s] = "network"
      BY <2>4 DEF Downs
    <3>2. ~awaited
      BY <2>4, <3>1, OneAwaits DEF AwaitsSent
    <3>3. value[messageSent] = 0 /\ sending = FALSE
      BY <1>a, <1>d, <3>2 DEF SendHandshake
    <3>4. value'[messageSent] = 0 /\ pc' = pc /\ inP'[s] = messageSent
      BY <1>a, <2>a, <2>4, <3>3 DEF Downs
    <3>5. AwaitsSent(s)'
      BY <1>d, <3>1, <3>4 DEF AwaitsSent
    <3> QED
      BY <2>4, <3>4, <3>5 DEF SendHandshake
  <2>5. CASE inP[s] = messageSent /\ Downs(s, messageSent, "network", "unlock")
             /\ UNCHANGED progVars
    <3>1. pc[s] = "network" /\ AwaitsSent(s) /\ sending' = sending
      BY <1>d, <2>5 DEF Downs, AwaitsSent, progVars
    <3>2. value[messageSent] + (IF sending THEN 1 ELSE 0) = 1
      BY <3>1 DEF SendHandshake
    <3>3. CASE value[messageSent] = 0
      <4>1. value'[messageSent] = 0 /\ pc' = pc /\ inP'[s] = messageSent
        BY <1>a, <2>a, <2>5, <3>3 DEF Downs
      <4>2. AwaitsSent(s)'
        BY <1>d, <3>1, <4>1 DEF AwaitsSent
      <4> QED
        BY <3>1, <3>2, <3>3, <4>1, <4>2 DEF SendHandshake
    <3>4. CASE value[messageSent] > 0
      <4>1. value[messageSent] = 1 /\ sending = FALSE
        BY <1>a, <1>d, <3>2, <3>4
      <4>2. /\ value'[messageSent] = 0 /\ pc'[s] = "unlock"
            /\ \A u \in Thread \ {s} : pc'[u] = pc[u]
        BY <1>a, <2>a, <2>5, <4>1 DEF Downs, Goto
      <4>3. \A x \in Sender : ~AwaitsSent(x)'
        BY <3>1, <4>2, OneAwaits, Distinguished DEF AwaitsSent
      <4> QED
        BY <3>1, <4>1, <4>2, <4>3 DEF SendHandshake
    <3> QED
      BY <1>a, <1>d, <3>3, <3>4
  <2> QED
    BY <1>4, <2>1, <2>2, <2>3, <2>4, <2>5 DEF SenderEffect
<1>5. CASE WorkerEffect
  <2>1. worker \in Thread \ Sender /\ sending' = sending
    BY <1>5, Distinguished DEF WorkerEffect, progVars
  <2>2. /\ \A u \in Thread \ {worker} : pc'[u] = pc[u] /\ inP'[u] = inP[u]
        /\ value'[messageSent] = value[messageSent]
    BY <1>a, <1>d, <1>5 DEF WorkerEffect, Acquires, Releases, Signals, Downs, Goto
  <2> QED
    BY <1>t, <2>1, <2>2
<1>6. ASSUME NEW r \in Receiver, ReceiverEffect(r)
      PROVE  SendHandshake'
  <2>1. r \in Thread \ Sender /\ sending' = sending
    BY <1>6, Distinguished DEF ReceiverEffect, progVars
  <2>2. /\ \A u \in Thread \ {r} : pc'[u] = pc[u] /\ inP'[u] = inP[u]
        /\ value'[messageSent] = value[messageSent]
    BY <1>a, <1>d, <1>6 DEF ReceiverEffect, Acquires, Releases, Waits, Ends, Goto
  <2> QED
    BY <1>t, <2>1, <2>2
<1>7. CASE HandlerEffect
  <2>1. (\E s \in Sender : AwaitsSent(s))' <=> awaited
    BY <1>7 DEF HandlerEffect, Raises, AwaitsSent
  <2>2. CASE sending /\ sending' = FALSE /\ Raises(messageSent)
    BY <1>a, <1>d, <2>1, <2>2 DEF Raises, SendHandshake
  <2>3. CASE Raises(messageAvailable) /\ sending' = sending
    BY <1>a, <1>d, <2>1, <2>3 DEF Raises, SendHandshake
  <2> QED
    BY <1>7, <2>2, <2>3 DEF HandlerEffect
<1> QED
  BY <1>2, <1>3, <1>4, <1>5, <1>6, <1>7 DEF Effect

LEMMA StepReceiveHandshake ==
  ASSUME TypeOK, Control, ReceiveHandshake, Effect
  PROVE  ReceiveHandshake'
<1>a. /\ pc \in [Thread -> Label] /\ inP \in [Thread -> Semaphore \cup {NULL}]
      /\ value \in [Semaphore -> Nat] /\ inHdr \in Message \cup {NULL} /\ mail \in Message \cup {NULL}
      /\ socket \in Seq(Message) /\ MailControl
  BY ControlParts DEF TypeOK, SynchTypeOK
<1>d. /\ messageAvailable \in Semaphore \ Lock /\ messageSent # messageAvailable
      /\ messageAvailable \in Semaphore /\ NULL \notin Message /\ NULL \notin Semaphore
      /\ \A m \in Message : boxLock(m.to) \in Semaphore
      /\ worker \in Thread
  BY Distinguished
<1>o. ASSUME pc'[worker] = pc[worker], inP'[worker] = inP[worker],
             value'[messageAvailable] = value[messageAvailable], inHdr' = inHdr
      PROVE  ReceiveHandshake'
  BY <1>o DEF ReceiveHandshake
<1>2. CASE Still /\ UNCHANGED progVars
  BY <1>2, <1>d, <1>o DEF Still, progVars
<1>3. CASE Ends(Main, "fork") /\ UNCHANGED progVars
  BY <1>3, <1>a, <1>o, Distinguished DEF Ends, Goto, progVars
<1>4. ASSUME NEW s \in Sender, SenderEffect(s)
      PROVE  ReceiveHandshake'
  <2>1. s \in Thread /\ s # worker /\ inHdr' = inHdr
    BY <1>4, Distinguished DEF SenderEffect, progVars
  <2>2. /\ pc'[worker] = pc[worker] /\ inP'[worker] = inP[worker]
        /\ value'[messageAvailable] = value[messageAvailable]
    BY <1>a, <1>d, <1>4, <2>1 DEF SenderEffect, Acquires, Releases, Downs, Ends, Goto
  <2> QED
    BY <1>o, <2>1, <2>2
<1>5. ASSUME NEW r \in Receiver, ReceiverEffect(r)
      PROVE  ReceiveHandshake'
  <2>1. r \in Thread /\ r # worker /\ inHdr' = inHdr
    BY <1>5, Distinguished DEF ReceiverEffect, progVars
  <2>2. /\ pc'[worker] = pc[worker] /\ inP'[worker] = inP[worker]
        /\ value'[messageAvailable] = value[messageAvailable]
    BY <1>a, <1>d, <1>5, <2>1 DEF ReceiverEffect, Acquires, Releases, Waits, Ends, Goto
  <2> QED
    BY <1>o, <2>1, <2>2
<1>6. CASE WorkerEffect
  <2>1. CASE Downs(worker, messageAvailable, "PostalDelivery", "Put") /\ UNCHANGED progVars
    BY <1>a, <1>d, <2>1 DEF Downs, Goto, progVars, ReceiveHandshake
  <2>2. CASE /\ inP[worker] = NULL /\ inHdr # NULL
             /\ Acquires(worker, boxLock(inHdr.to), "Put", "Put.signal")
             /\ inHdr' = NULL
    <3>1. boxLock(inHdr.to) # NULL /\ pc[worker] = "Put"
      BY <1>a, <1>d, <2>2 DEF Acquires
    <3>2. value[messageAvailable] = 0
      BY <1>a, <1>d, <2>2, <3>1 DEF ReceiveHandshake
    <3>3. ~(pc'[worker] = "Put" /\ inP'[worker] = NULL)
      BY <1>a, <1>d, <2>2, <3>1 DEF Acquires, Goto
    <3>4. value'[messageAvailable] = 0
      BY <1>d, <2>2, <3>2 DEF Acquires
    <3> QED
      BY <2>2, <3>3, <3>4 DEF ReceiveHandshake
  <2>3. CASE /\ inP[worker] # NULL /\ Acquires(worker, boxLock(mail.to), "Put", "Put.signal")
             /\ UNCHANGED progVars
    <3>1. boxLock(mail.to) # NULL /\ pc[worker] = "Put"
      BY <1>a, <1>d, <2>3 DEF Acquires, MailControl
    <3>2. ~(pc'[worker] = "Put" /\ inP'[worker] = NULL)
      BY <1>a, <1>d, <2>3, <3>1 DEF Acquires, Goto
    <3>3. value'[messageAvailable] = value[messageAvailable] /\ inHdr' = inHdr
      BY <1>d, <2>3 DEF Acquires, progVars
    <3> QED
      BY <2>3, <3>2, <3>3 DEF ReceiveHandshake
  <2>4. CASE /\ Signals(worker, boxCond(mail.to), boxLock(mail.to), "Put.signal", "Put.Release")
             /\ inHdr' = inHdr
    BY <1>a, <1>d, <2>4 DEF Signals, Goto, ReceiveHandshake
  <2>5. CASE /\ Releases(worker, boxLock(mail.to), "Put.Release", "PostalDelivery")
             /\ inHdr' = inHdr
    BY <1>a, <1>d, <2>5 DEF Releases, Goto, ReceiveHandshake
  <2> QED
    BY <1>6, <2>1, <2>2, <2>3, <2>4, <2>5 DEF WorkerEffect
<1>7. CASE HandlerEffect
  <2>1. socket # <<>> => Head(socket) \in Message
    BY <1>a, RemoveFacts
  <2> QED
    BY <1>a, <1>d, <1>7, <2>1 DEF HandlerEffect, Raises, ReceiveHandshake
<1> QED
  BY <1>2, <1>3, <1>4, <1>5, <1>6, <1>7 DEF Effect

\* How many receivers are on their way to a box.
LEMMA OnTheWayFacts ==
  ASSUME NEW b \in Box
  PROVE  /\ IsFiniteSet(OnTheWay(b)) /\ Cardinality(OnTheWay(b)) \in Nat
         /\ IsFiniteSet(OnTheWay(b)') /\ Cardinality(OnTheWay(b)') \in Nat
         /\ OnTheWay(b) \subseteq OnTheWay(b)' =>
              Cardinality(OnTheWay(b)) <= Cardinality(OnTheWay(b)')
         /\ \A r \in OnTheWay(b) : OnTheWay(b) \ {r} \subseteq OnTheWay(b)' =>
              Cardinality(OnTheWay(b)) <= Cardinality(OnTheWay(b)') + 1
         /\ \A r : r \notin OnTheWay(b) /\ OnTheWay(b) \cup {r} \subseteq OnTheWay(b)' =>
              Cardinality(OnTheWay(b)) + 1 <= Cardinality(OnTheWay(b)')
<1> DEFINE A == OnTheWay(b)
           B == OnTheWay(b)'
<1>1. A \subseteq Thread /\ B \subseteq Thread /\ IsFiniteSet(Thread)
  BY Distinguished, ThreadAssumption DEF OnTheWay
<1> HIDE DEF A, B
<1>2. IsFiniteSet(A) /\ IsFiniteSet(B) /\ Cardinality(A) \in Nat /\ Cardinality(B) \in Nat
  BY <1>1, FS_Subset, FS_CardinalityType
<1>3. A \subseteq B => Cardinality(A) <= Cardinality(B)
  BY <1>2, FS_Subset
<1>4. ASSUME NEW r \in A, A \ {r} \subseteq B
      PROVE  Cardinality(A) <= Cardinality(B) + 1
  <2>1. IsFiniteSet(A \ {r}) /\ Cardinality(A \ {r}) = Cardinality(A) - 1
    BY <1>2, <1>4, FS_RemoveElement
  <2>2. Cardinality(A \ {r}) <= Cardinality(B)
    BY <1>2, <1>4, FS_Subset
  <2> QED
    BY <1>2, <2>1, <2>2
<1>5. ASSUME NEW r, r \notin A, A \cup {r} \subseteq B
      PROVE  Cardinality(A) + 1 <= Cardinality(B)
  <2>1. Cardinality(A \cup {r}) = Cardinality(A) + 1
    BY <1>2, <1>5, FS_AddElement
  <2>2. Cardinality(A \cup {r}) <= Cardinality(B)
    BY <1>2, <1>5, FS_Subset
  <2> QED
    BY <1>2, <2>1, <2>2
<1> QED
  BY <1>2, <1>3, <1>4, <1>5 DEF A, B

ServedAt(b) == WaitSet[boxCond(b)] # {} => Len(messages[b]) <= Cardinality(OnTheWay(b))

LEMMA StepBoxServed ==
  ASSUME TypeOK, Control, Where, Waiters, BoxServed, Effect
  PROVE  BoxServed'
<1>a. /\ pc \in [Thread -> Label] /\ inP \in [Thread -> Semaphore \cup {NULL}]
      /\ SynchTypeOK /\ messages \in [Box -> Seq(Message)] /\ mail \in Message \cup {NULL}
      /\ MailControl
  BY ControlParts DEF TypeOK, SynchTypeOK
<1>b. WaitSet \in [Condition -> SUBSET Thread]
  BY DEF Where, Placed
<1>c. \A b \in Box : boxCond(b) \in Condition /\ Len(messages[b]) \in Nat
  BY <1>a, Distinguished, LenProperties
<1>d. \A a, b \in Box : a # b => boxCond(a) # boxCond(b)
  BY Distinguished
<1>s. \A b \in Box : ServedAt(b)
  BY DEF BoxServed, ServedAt
<1>q. (\A b \in Box : ServedAt(b)') => BoxServed'
  BY DEF BoxServed, ServedAt
\* Nobody begins to wait at b, and nobody on the way turns round.
<1>o. ASSUME NEW b \in Box, WaitSet'[boxCond(b)] \subseteq WaitSet[boxCond(b)],
             messages'[b] = messages[b], OnTheWay(b) \subseteq OnTheWay(b)'
      PROVE  ServedAt(b)'
  <2>1. Cardinality(OnTheWay(b)) <= Cardinality(OnTheWay(b)')
    BY <1>o, OnTheWayFacts
  <2>2. /\ Cardinality(OnTheWay(b)) \in Nat /\ Cardinality(OnTheWay(b)') \in Nat
    BY OnTheWayFacts
  <2>3. WaitSet[boxCond(b)] # {} => Len(messages[b]) <= Cardinality(OnTheWay(b))
    BY <1>s DEF ServedAt
  <2> QED
    BY <1>o, <1>c, <2>1, <2>2, <2>3 DEF ServedAt
\* A thread that was not on the way to a box moves.
<1>t. ASSUME NEW t \in Thread, WaitSet' = WaitSet, messages' = messages,
             \A u \in Thread \ {t} : pc'[u] = pc[u],
             t \notin Receiver \/ pc[t] # "Get" \/ pc'[t] = "Get"
      PROVE  BoxServed'
  <2>1. ASSUME NEW b \in Box PROVE OnTheWay(b) \subseteq OnTheWay(b)'
    BY <1>t, Distinguished DEF OnTheWay
  <2> QED
    BY <1>o, <1>q, <1>t, <2>1
<1>2. CASE (Still \/ HandlerEffect) /\ messages' = messages
  <2>1. pc' = pc /\ WaitSet' = WaitSet
    BY <1>2 DEF Still, HandlerEffect, Raises
  <2> QED
    BY <1>2, <1>t, <2>1, Distinguished
<1>3. CASE Ends(Main, "fork") /\ messages' = messages
  BY <1>3, <1>a, <1>t, Distinguished DEF Ends, Goto
<1>4. ASSUME NEW s \in Sender, SenderEffect(s)
      PROVE  BoxServed'
  <2>1. s \in Thread /\ s \notin Receiver /\ messages' = messages
    BY <1>4, Distinguished DEF SenderEffect, progVars
  <2>2. WaitSet' = WaitSet /\ \A u \in Thread \ {s} : pc'[u] = pc[u]
    BY <1>a, <1>4, <2>1 DEF SenderEffect, Acquires, Releases, Downs, Ends, Goto
  <2> QED
    BY <1>t, <2>1, <2>2
<1>5. CASE WorkerEffect
  <2>1. CASE /\ Signals(worker, boxCond(mail.to), boxLock(mail.to), "Put.signal", "Put.Release")
             /\ messages' = [messages EXCEPT ![mail.to] = Append(@, mail)]
    <3>1. mail \in Message /\ mail.to \in Box
      BY <1>a, <2>1, Distinguished DEF Signals, MailControl
    <3>0. PICK b \in Box : b = mail.to
      BY <3>1
    <3> DEFINE c == boxCond(b)
    <3>2. b \in Box /\ c \in Condition
      BY <1>c
    <3>3. /\ messages'[b] = Append(messages[b], mail)
          /\ \A d \in Box \ {b} : messages'[d] = messages[d]
      BY <1>a, <2>1, <3>0, <3>2
    <3>4. Len(messages'[b]) = Len(messages[b]) + 1
      BY <1>a, <3>1, <3>2, <3>3, AppendProperties
    <3>5. /\ \A u \in Thread \ {worker} : pc'[u] = pc[u]
          /\ worker \in Thread \ Receiver
      BY <1>a, <2>1, Distinguished DEF Signals, Goto
    <3>w. \/ WaitSet[c] = {} /\ WaitSet' = WaitSet
          \/ \E u \in WaitSet[c] : WaitSet' = [WaitSet EXCEPT ![c] = @ \ {u}]
      BY <2>1, <3>0 DEF Signals
    <3> HIDE DEF c
    <3>n. \A d \in Box \ {b} : boxCond(d) # c /\ boxCond(d) \in Condition
      BY <1>c, <1>d, <3>2 DEF c
    <3>6. ASSUME NEW d \in Box \ {b}
          PROVE  ServedAt(d)'
      <4>1. WaitSet'[boxCond(d)] = WaitSet[boxCond(d)]
        BY <1>b, <3>n, <3>w
      <4>2. OnTheWay(d) \subseteq OnTheWay(d)'
        BY <3>5, <4>1, Distinguished DEF OnTheWay
      <4> QED
        BY <1>o, <3>3, <4>1, <4>2
    <3>7. ServedAt(b)'
      <4>1. CASE WaitSet[c] = {} /\ WaitSet' = WaitSet
        BY <4>1 DEF ServedAt, c
      <4>2. CASE \E u \in WaitSet[c] : WaitSet' = [WaitSet EXCEPT ![c] = @ \ {u}]
        <5>1. PICK u \in WaitSet[c] : WaitSet' = [WaitSet EXCEPT ![c] = @ \ {u}]
          BY <4>2
        <5>2. WaitSet'[c] = WaitSet[c] \ {u}
          BY <1>b, <3>2, <5>1
        <5>3. u \in Receiver /\ c = boxCond(BoxOf(u)) /\ pc[u] = "Get"
          BY <3>2, <5>1 DEF Waiters
        <5>4. BoxOf(u) = b
          BY <1>d, <5>3, Distinguished DEF c
        <5>5. u \notin OnTheWay(b)
          BY <5>1 DEF OnTheWay, c
        <5>6. OnTheWay(b) \cup {u} \subseteq OnTheWay(b)'
          BY <3>5, <5>2, <5>3, <5>4, Distinguished DEF OnTheWay, c
        <5>7. Cardinality(OnTheWay(b)) + 1 <= Cardinality(OnTheWay(b)')
          BY <3>2, <5>5, <5>6, OnTheWayFacts
        <5>8. Len(messages[b]) <= Cardinality(OnTheWay(b))
          BY <1>s, <3>2, <5>1 DEF ServedAt, c
        <5>9. /\ Cardinality(OnTheWay(b)) \in Nat /\ Cardinality(OnTheWay(b)') \in Nat
              /\ Len(messages[b]) \in Nat
          BY <1>c, <3>2, OnTheWayFacts
        <5>10. Len(messages'[b]) <= Cardinality(OnTheWay(b)')
          BY <3>4, <5>7, <5>8, <5>9
        <5> QED
          BY <5>10 DEF ServedAt
      <4> QED
        BY <3>w, <4>1, <4>2
    <3> QED
      BY <1>q, <3>6, <3>7
  <2>2. CASE messages' = messages
    <3>1. CASE \/ \E l, from, to : Acquires(worker, l, from, to)
               \/ \E l, from, to : Releases(worker, l, from, to)
               \/ \E l, from, to : Downs(worker, l, from, to)
      <4>1. WaitSet' = WaitSet /\ \A u \in Thread \ {worker} : pc'[u] = pc[u]
        BY <1>a, <3>1, Distinguished DEF Acquires, Releases, Downs, Goto
      <4> QED
        BY <1>t, <2>2, <4>1, Distinguished
    <3> QED
      BY <1>5, <2>1, <3>1 DEF WorkerEffect
  <2> QED
    BY <1>5, <2>1, <2>2 DEF WorkerEffect, progVars
<1>6. ASSUME NEW r \in Receiver, ReceiverEffect(r)
      PROVE  BoxServed'
  <2> DEFINE b == BoxOf(r)
             c == boxCond(b)
  <2>a. r \in Thread /\ b \in Box /\ c \in Condition
    BY <1>c, Distinguished
  <2>1. CASE messages' = messages /\ \E l, from : Acquires(r, l, from, "Get")
    <3>1. /\ WaitSet' = WaitSet /\ \A u \in Thread \ {r} : pc'[u] = pc[u]
          /\ pc'[r] \in {pc[r], "Get"}
      BY <1>a, <2>a, <2>1 DEF Acquires, Goto
    <3> QED
      BY <1>t, <2>a, <2>1, <3>1
  <2>2. CASE messages' = messages /\ Ends(r, "Receive")
    <3>1. /\ WaitSet' = WaitSet /\ \A u \in Thread \ {r} : pc'[u] = pc[u]
          /\ pc[r] = "Receive"
      BY <1>a, <2>a, <2>2 DEF Ends, Goto
    <3> QED
      BY <1>t, <2>a, <2>2, <3>1
  <2>n. \A d \in Box \ {b} : boxCond(d) # c /\ boxCond(d) \in Condition
    BY <1>c, <1>d, <2>a
  <2>3. CASE /\ messages' = messages /\ messages[b] = <<>>
             /\ Waits(r, c, boxLock(b), "Get")
    <3>1. WaitSet' = [WaitSet EXCEPT ![c] = @ \cup {r}] /\ pc' = pc
      BY <2>3 DEF Waits
    <3> HIDE DEF c
    <3>2. ASSUME NEW d \in Box \ {b}
          PROVE  ServedAt(d)'
      <4>1. WaitSet'[boxCond(d)] = WaitSet[boxCond(d)]
        BY <1>b, <2>n, <3>1
      <4>2. OnTheWay(d) \subseteq OnTheWay(d)'
        BY <3>1, <4>1 DEF OnTheWay
      <4> QED
        BY <1>o, <2>3, <4>1, <4>2
    <3>3. ServedAt(b)'
      <4>1. Len(messages'[b]) = 0
        BY <2>3, EmptySeq
      <4>2. Cardinality(OnTheWay(b)') \in Nat
        BY <2>a, OnTheWayFacts
      <4> HIDE DEF b
      <4> QED
        BY <4>1, <4>2 DEF ServedAt
    <3> HIDE DEF b
    <3> QED
      BY <1>q, <3>2, <3>3
  <2>4. CASE /\ messages[b] # <<>> /\ Releases(r, boxLock(b), "Get", "Receive")
             /\ messages' = [messages EXCEPT ![b] = Tail(@)]
    <3>1. /\ messages'[b] = Tail(messages[b])
          /\ \A d \in Box \ {b} : messages'[d] = messages[d]
      BY <1>a, <2>a, <2>4
    <3>2. Len(messages'[b]) = Len(messages[b]) - 1
      BY <1>a, <2>a, <2>4, <3>1, HeadTailProperties
    <3>3. /\ WaitSet' = WaitSet /\ \A u \in Thread \ {r} : pc'[u] = pc[u]
          /\ pc[r] = "Get" /\ status[r] = "RUNNING"
      BY <1>a, <2>a, <2>4 DEF Releases, Goto
    <3>4. r \notin WaitSet[c]
      BY <1>a, <2>a, <3>3, NotWaiting
    <3>5. ASSUME NEW d \in Box \ {b}
          PROVE  ServedAt(d)'
      <4>1. OnTheWay(d) \subseteq OnTheWay(d)'
        BY <3>3, Distinguished DEF OnTheWay
      <4> QED
        BY <1>o, <3>1, <3>3, <4>1
    <3>6. ServedAt(b)'
      <4>1. r \in OnTheWay(b) /\ OnTheWay(b) \ {r} \subseteq OnTheWay(b)'
        BY <2>a, <3>3, <3>4, Distinguished DEF OnTheWay
      <4>2. Cardinality(OnTheWay(b)) <= Cardinality(OnTheWay(b)') + 1
        BY <2>a, <4>1, OnTheWayFacts
      <4>3. /\ Cardinality(OnTheWay(b)) \in Nat /\ Cardinality(OnTheWay(b)') \in Nat
            /\ Len(messages[b]) \in Nat
        BY <1>c, <2>a, OnTheWayFacts
      <4>4. WaitSet[boxCond(b)] # {} => Len(messages[b]) <= Cardinality(OnTheWay(b))
        BY <1>s, <2>a DEF ServedAt
      <4> HIDE DEF b, c
      <4> QED
        BY <3>2, <3>3, <4>2, <4>3, <4>4 DEF ServedAt
    <3> HIDE DEF b
    <3> QED
      BY <1>q, <3>5, <3>6
  <2> HIDE DEF b, c
  <2> QED
    BY <1>6, <2>1, <2>2, <2>3, <2>4 DEF ReceiverEffect, progVars, b, c
<1> QED
  BY <1>2, <1>3, <1>4, <1>5, <1>6 DEF Effect, HandlerEffect, progVars
-----------------------------------------------------------------------------
(* No message is duplicated: where the messages go.                        *)

Buffered == {inHdr} \ {NULL}
Delayed == {delayBuf} \ {NULL}

LEMMA UnderWayParts ==
  /\ UnderWay = (UNION {Boxed[b] : b \in Box}) \cup (Range(socket) \cup Buffered \cup Delayed
                                                  \cup Carried)
  /\ UnderWay' = (UNION {Boxed'[b] : b \in Box}) \cup (Range(socket') \cup Buffered' \cup Delayed'
                                                    \cup Carried')
<1>1. \A s : ToSet(s) = Range(s)
  BY DEF ToSet, Range
<1>2. Range(socket) = ToSet(socket) /\ Range(socket') = ToSet(socket')
  BY <1>1
<1>3. /\ UNION {Boxed[b] : b \in Box} = UNION {ToSet(messages[b]) : b \in Box}
      /\ UNION {Boxed'[b] : b \in Box} = UNION {ToSet(messages'[b]) : b \in Box}
  BY <1>1 DEF Boxed
<1> QED
  BY <1>2, <1>3 DEF UnderWay, Buffered, Delayed, Carried

\* What a step does to the messages: Mail's actions, with the mapping.
Posts(s) ==
  /\ num[s] < Count /\ num' = [num EXCEPT ![s] = @ + 1] /\ got' = got
  /\ \/ UnderWay' = UnderWay
     \/ \E b \in Box : UnderWay' = UnderWay \cup {[from |-> s, value |-> num[s], to |-> b]}
Collects(r) ==
  \E m \in UnderWay :
    /\ m.to = BoxOf(r) /\ UnderWay' = UnderWay \ {m} /\ num' = num
    /\ got' = [got EXCEPT ![r] = Append(@, m)]
Carries == UnderWay' = UnderWay /\ num' = num /\ got' = got

LEMMA StepDistinct ==
  ASSUME TypeOK, Control, Distinct, [Next]_vars, Effect
  PROVE  Distinct' /\ \/ \E s \in Sender : Posts(s)
                      \/ \E r \in Receiver : Collects(r)
                      \/ Carries
<1>a. /\ pc \in [Thread -> Label] /\ socket \in Seq(Message) /\ num \in [Sender -> 0 .. Count]
      /\ inHdr \in Message \cup {NULL} /\ delayBuf \in Message \cup {NULL}
      /\ mail \in Message \cup {NULL} /\ messages \in [Box -> Seq(Message)]
      /\ MailControl
  BY ControlParts DEF TypeOK
<1>b. /\ IsInjective(socket) /\ \A b \in Box : IsInjective(messages[b])
      /\ Apart(Range(socket), Buffered, Delayed, Carried, Boxed)
      /\ \A m \in UnderWay : m.value < num[m.from]
      /\ \A b \in Box : \A m \in Boxed[b] : m.to = b
  BY DEF Distinct, Buffered, Delayed
<1>d. /\ IsInjective(socket') /\ \A b \in Box : IsInjective(messages'[b])
      /\ Apart(Range(socket'), Buffered', Delayed', Carried', Boxed')
      /\ \A m \in UnderWay' : m.value < num'[m.from]
      /\ \A b \in Box : \A m \in Boxed'[b] : m.to = b
      => Distinct'
  BY DEF Distinct, Buffered, Delayed
<1> DEFINE Goal == Distinct' /\ \/ \E s \in Sender : Posts(s)
                                \/ \E r \in Receiver : Collects(r)
                                \/ Carries
<1>u. UnderWay \subseteq Message
  <2>1. Range(socket) \subseteq Message /\ \A b \in Box : Range(messages[b]) \subseteq Message
    BY <1>a, RangeOfSequence
  <2> QED
    BY <1>a, <2>1, UnderWayParts DEF Boxed, Buffered, Delayed, Carried
<1>2. ASSUME UNCHANGED <<socket, inHdr, delayBuf, messages, num, got>>, Carried' = Carried
      PROVE  Goal
  <2>1. Boxed' = Boxed /\ Buffered' = Buffered /\ Delayed' = Delayed /\ Range(socket') = Range(socket)
    BY <1>2 DEF Boxed, Buffered, Delayed
  <2>2. UnderWay' = UnderWay
    BY <1>2, <2>1, UnderWayParts
  <2> QED
    BY <1>b, <1>d, <1>2, <2>1, <2>2 DEF Carries
<1>3. ASSUME NEW s \in Sender, SenderEffect(s)
      PROVE  Goal
  <2>1. Carried' = Carried
    <3>1. pc'[worker] = pc[worker] /\ mail' = mail
      BY <1>a, <1>3, Distinguished
      DEF SenderEffect, Acquires, Releases, Downs, Ends, Goto, progVars
    <3> QED
      BY <3>1 DEF Carried
  <2>2. CASE UNCHANGED progVars
    BY <1>2, <2>1, <2>2 DEF progVars
  <2>3. ASSUME NEW b \in Box, Transmit([from |-> s, value |-> num[s], to |-> b]),
               num' = [num EXCEPT ![s] = @ + 1], UNCHANGED <<inHdr, messages, mail, got>>,
               num[s] < Count
        PROVE  Goal
    <3> DEFINE m == [from |-> s, value |-> num[s], to |-> b]
    <3>1. m \in Message /\ m.from = s /\ m.value = num[s]
      BY <1>a DEF Message
    <3>2. m \notin UnderWay
      <4>1. \A x \in UnderWay : x.value < num[x.from]
        BY <1>b
      <4>2. num[s] \in Nat
        BY <1>a
      <4> QED
        BY <3>1, <4>1, <4>2
    <3>t. Transmit(m)
      BY <2>3
    <3>4. Posts(s) <=> \/ UnderWay' = UnderWay
                       \/ \E c \in Box : UnderWay' = UnderWay \cup {[from |-> s, value |-> num[s],
                                                                     to |-> c]}
      BY <2>3 DEF Posts
    <3>5. UnderWay' = UnderWay \/ UnderWay' = UnderWay \cup {m} => Posts(s)
      BY <3>4
    <3>6. \A x \in UnderWay \cup {m} : x.value < num'[x.from]
      <4>1. num'[s] = num[s] + 1 /\ \A q \in Sender \ {s} : num'[q] = num[q]
        BY <1>a, <2>3
      <4>2. \A x \in UnderWay : x.from \in Sender /\ x.value \in Nat /\ x.value < num[x.from]
        BY <1>b, <1>u, Distinguished
      <4>3. \A q \in Sender : num[q] \in Nat
        BY <1>a
      <4> HIDE DEF m
      <4> QED
        BY <3>1, <4>1, <4>2, <4>3
    <3> HIDE DEF m
    <3>7. /\ Boxed' = Boxed /\ Buffered' = Buffered
          /\ \A c \in Box : IsInjective(messages'[c])
      BY <1>b, <2>3 DEF Boxed, Buffered
    <3>8. /\ m \notin Range(socket) /\ m \notin Buffered /\ m \notin Delayed /\ m \notin Carried
          /\ \A c \in Box : m \notin Boxed[c]
      BY <3>2, UnderWayParts
    <3>9. CASE UNCHANGED <<socket, delayBuf>>
      <4>1. Delayed' = Delayed /\ Range(socket') = Range(socket)
        BY <3>9 DEF Delayed
      <4>2. UnderWay' = UnderWay
        BY <2>1, <3>7, <4>1, UnderWayParts
      <4> QED
        BY <1>b, <1>d, <2>1, <3>5, <3>6, <3>7, <3>9, <4>1, <4>2
    <3>10. CASE /\ socket' = IF delayBuf = NULL THEN socket ELSE Append(socket, delayBuf)
                /\ delayBuf' = m
      <4>1. Delayed' = {m}
        BY <3>1, <3>10, Distinguished DEF Delayed
      <4>2. Range(socket') = Range(socket) \cup Delayed /\ IsInjective(socket')
        <5>1. CASE delayBuf = NULL
          BY <1>b, <3>10, <5>1 DEF Delayed
        <5>2. CASE delayBuf # NULL
          <6>1. delayBuf \in Message /\ delayBuf \notin Range(socket) /\ Delayed = {delayBuf}
            BY <1>a, <1>b, <5>2 DEF Delayed, Apart
          <6> QED
            BY <1>a, <1>b, <3>10, <5>2, <6>1, AppendFacts
        <5> QED
          BY <5>1, <5>2
      <4>3. UnderWay' = UnderWay \cup {m}
        BY <2>1, <3>7, <4>1, <4>2, UnderWayParts
      <4>4. Apart(Range(socket'), Buffered', Delayed', Carried', Boxed')
        BY <1>b, <2>1, <3>7, <3>8, <4>1, <4>2 DEF Apart
      <4> QED
        BY <1>b, <1>d, <3>5, <3>6, <3>7, <4>2, <4>3, <4>4
    <3>11. CASE socket' = Append(socket, m) /\ UNCHANGED delayBuf
      <4>1. Delayed' = Delayed
        BY <3>11 DEF Delayed
      <4>2. Range(socket') = Range(socket) \cup {m} /\ IsInjective(socket')
        BY <1>a, <1>b, <3>1, <3>8, <3>11, AppendFacts
      <4>3. UnderWay' = UnderWay \cup {m}
        BY <2>1, <3>7, <4>1, <4>2, UnderWayParts
      <4>4. Apart(Range(socket'), Buffered', Delayed', Carried', Boxed')
        BY <1>b, <2>1, <3>7, <3>8, <4>1, <4>2 DEF Apart
      <4> QED
        BY <1>b, <1>d, <3>5, <3>6, <3>7, <4>2, <4>3, <4>4
    <3> QED
      BY <3>t, <3>9, <3>10, <3>11 DEF Transmit
  <2>4. inP[s] = NULL /\ Downs(s, messageSent, "network", "unlock") => num[s] < Count
    BY DEF Downs, Control
  <2> HIDE DEF Goal
  <2> QED
    BY <1>3, <2>2, <2>3, <2>4 DEF SenderEffect
<1>4. CASE HandlerEffect
  <2>1. pc'[worker] = pc[worker] /\ mail' = mail
    BY <1>4 DEF HandlerEffect, Raises
  <2>2. Carried' = Carried
    BY <2>1 DEF Carried
  <2>3. CASE UNCHANGED <<socket, inHdr, delayBuf, messages, mail, num, got>>
    BY <1>2, <2>2, <2>3
  <2>4. CASE /\ inHdr = NULL /\ socket # <<>> /\ inHdr' = Head(socket) /\ socket' = Tail(socket)
             /\ UNCHANGED <<delayBuf, messages, num, got>>
    <3> DEFINE m == Head(socket)
    <3>1. /\ m \in Message /\ Range(socket) = Range(socket') \cup {m}
          /\ IsInjective(socket') /\ m \notin Range(socket')
      BY <1>a, <1>b, <2>4, RemoveFacts
    <3>2. inHdr' = m
      BY <2>4
    <3> HIDE DEF m
    <3>3. /\ Buffered = {} /\ Buffered' = {m} /\ Delayed' = Delayed /\ Boxed' = Boxed
      BY <2>4, <3>1, <3>2, Distinguished DEF Buffered, Delayed, Boxed
    <3>4. UnderWay' = UnderWay
      BY <2>2, <3>1, <3>3, UnderWayParts
    <3>5. Apart(Range(socket'), Buffered', Delayed', Carried', Boxed')
      BY <1>b, <2>2, <3>1, <3>3 DEF Apart
    <3> QED
      BY <1>b, <1>d, <2>4, <3>1, <3>3, <3>4, <3>5 DEF Carries
  <2> QED
    BY <1>4, <2>3, <2>4 DEF HandlerEffect
<1>5. CASE WorkerEffect
  <2>1. CASE UNCHANGED progVars
    <3>1. Carried' = Carried
      <4>1. \/ pc'[worker] = pc[worker]
            \/ pc[worker] # "Put.Release" /\ pc'[worker] # "Put.Release"
        BY <1>a, <1>5, <2>1, Distinguished
        DEF WorkerEffect, Acquires, Downs, Releases, Signals, Goto, progVars, MailControl
      <4> QED
        BY <2>1, <4>1 DEF progVars, Carried
    <3> QED
      BY <1>2, <2>1, <3>1 DEF progVars
  <2>2. CASE /\ inP[worker] = NULL /\ inHdr # NULL
             /\ Acquires(worker, boxLock(inHdr.to), "Put", "Put.signal")
             /\ mail' = inHdr /\ inHdr' = NULL
             /\ UNCHANGED <<socket, delayBuf, messages, num, got>>
    <3>1. pc[worker] = "Put" /\ mail = NULL /\ pc'[worker] # "Put.Release"
      BY <1>a, <2>2, Distinguished DEF Acquires, Goto, MailControl
    <3>2. /\ Carried = {} /\ Carried' = Buffered /\ Buffered' = {} /\ Delayed' = Delayed
          /\ Boxed' = Boxed
      BY <2>2, <3>1 DEF Carried, Buffered, Delayed, Boxed
    <3>3. UnderWay' = UnderWay
      BY <2>2, <3>2, UnderWayParts
    <3>4. Apart(Range(socket'), Buffered', Delayed', Carried', Boxed')
      BY <1>b, <2>2, <3>2 DEF Apart
    <3> QED
      BY <1>b, <1>d, <2>2, <3>2, <3>3, <3>4 DEF Carries
  <2>3. CASE /\ Signals(worker, boxCond(mail.to), boxLock(mail.to), "Put.signal", "Put.Release")
             /\ messages' = [messages EXCEPT ![mail.to] = Append(@, mail)]
             /\ UNCHANGED <<socket, inHdr, delayBuf, sending, mail, num, got>>
    <3>1. /\ pc[worker] = "Put.signal" /\ pc'[worker] = "Put.Release"
          /\ mail \in Message /\ mail.to \in Box
      BY <1>a, <2>3, Distinguished DEF Signals, Goto, MailControl
    <3>2. /\ Carried = {mail} /\ Carried' = {} /\ Buffered' = Buffered /\ Delayed' = Delayed
      BY <2>3, <3>1, Distinguished DEF Carried, Buffered, Delayed
    <3>3. PICK b \in Box : b = mail.to
      BY <3>1
    <3>4. PICK m \in Message : m = mail
      BY <3>1
    <3>5. /\ messages'[b] = Append(messages[b], m)
          /\ \A c \in Box \ {b} : messages'[c] = messages[c]
      BY <1>a, <2>3, <3>3, <3>4
    <3>6. m \notin Boxed[b]
      BY <1>b, <3>2, <3>4 DEF Apart
    <3>7. Range(messages'[b]) = Range(messages[b]) \cup {m} /\ IsInjective(messages'[b])
      BY <1>a, <1>b, <3>5, <3>6, AppendFacts DEF Boxed
    <3>8. /\ Boxed'[b] = Boxed[b] \cup {m} /\ \A c \in Box \ {b} : Boxed'[c] = Boxed[c]
      BY <3>5, <3>7 DEF Boxed
    <3>9. UnderWay' = UnderWay
      <4>1. UNION {Boxed'[c] : c \in Box} = (UNION {Boxed[c] : c \in Box}) \cup {m}
        BY <3>8
      <4> QED
        BY <2>3, <3>2, <3>4, <4>1, UnderWayParts
    <3>10. Apart(Range(socket'), Buffered', Delayed', Carried', Boxed')
      BY <1>b, <2>3, <3>2, <3>4, <3>8 DEF Apart
    <3>11. \A c \in Box : IsInjective(messages'[c])
      BY <1>b, <3>5, <3>7
    <3>12. \A c \in Box : \A x \in Boxed'[c] : x.to = c
      BY <1>b, <3>3, <3>4, <3>8
    <3> QED
      BY <1>b, <1>d, <2>3, <3>9, <3>10, <3>11, <3>12 DEF Carries
  <2>4. CASE /\ Releases(worker, boxLock(mail.to), "Put.Release", "PostalDelivery")
             /\ mail' = NULL
             /\ UNCHANGED <<socket, inHdr, delayBuf, sending, messages, num, got>>
    <3>1. Carried = {} /\ Carried' = {}
      BY <2>4 DEF Releases, Carried
    <3> QED
      BY <1>2, <2>4, <3>1
  <2> HIDE DEF Goal
  <2> QED
    BY <1>5, <2>1, <2>2, <2>3, <2>4 DEF WorkerEffect, Goal
<1>6. ASSUME NEW r \in Receiver, ReceiverEffect(r)
      PROVE  Goal
  <2>1. Carried' = Carried
    <3>1. pc'[worker] = pc[worker] /\ mail' = mail
      BY <1>a, <1>6, Distinguished
      DEF ReceiverEffect, Acquires, Releases, Waits, Ends, Goto, progVars
    <3> QED
      BY <3>1 DEF Carried
  <2>2. CASE UNCHANGED progVars
    BY <1>2, <2>1, <2>2 DEF progVars
  <2>3. CASE /\ messages[BoxOf(r)] # <<>>
             /\ got' = [got EXCEPT ![r] = Append(@, Head(messages[BoxOf(r)]))]
             /\ messages' = [messages EXCEPT ![BoxOf(r)] = Tail(@)]
             /\ UNCHANGED <<socket, inHdr, delayBuf, sending, mail, num>>
    <3> DEFINE b == BoxOf(r)
    <3>1. b \in Box /\ messages[b] \in Seq(Message)
      BY <1>a, Distinguished
    <3>2. PICK m \in Message : m = Head(messages[b])
      BY <2>3, <3>1, RemoveFacts
    <3>3. /\ messages'[b] = Tail(messages[b])
          /\ \A c \in Box \ {b} : messages'[c] = messages[c]
      BY <1>a, <2>3, <3>1
    <3>4. /\ Range(messages[b]) = Range(messages'[b]) \cup {m}
          /\ IsInjective(messages'[b]) /\ m \notin Range(messages'[b])
      BY <1>b, <2>3, <3>1, <3>2, <3>3, RemoveFacts
    <3>5. /\ Boxed[b] = Boxed'[b] \cup {m} /\ m \notin Boxed'[b]
          /\ \A c \in Box \ {b} : Boxed'[c] = Boxed[c]
      BY <3>1, <3>3, <3>4 DEF Boxed
    <3>6. Buffered' = Buffered /\ Delayed' = Delayed /\ Range(socket') = Range(socket)
      BY <2>3 DEF Buffered, Delayed
    <3>7. m.to = b /\ m \in UnderWay
      BY <1>b, <3>1, <3>5, UnderWayParts
    <3>8. \A c \in Box : m \notin Boxed'[c]
      BY <1>b, <3>1, <3>5, <3>7
    <3>9. UnderWay' = UnderWay \ {m}
      <4>1. UNION {Boxed'[c] : c \in Box} = (UNION {Boxed[c] : c \in Box}) \ {m}
        BY <3>1, <3>5, <3>8
      <4>2. /\ m \notin Range(socket) /\ m \notin Buffered /\ m \notin Delayed
            /\ m \notin Carried
        BY <1>b, <3>1, <3>5 DEF Apart
      <4> QED
        BY <2>1, <3>6, <4>1, <4>2, UnderWayParts
    <3>10. Apart(Range(socket'), Buffered', Delayed', Carried', Boxed')
      <4>1. \A c \in Box : Boxed'[c] \subseteq Boxed[c]
        BY <3>5
      <4> QED
        BY <1>b, <2>1, <3>6, <4>1 DEF Apart
    <3>11. \A c \in Box : IsInjective(messages'[c])
      BY <1>b, <3>3, <3>4
    <3>12. \A c \in Box : \A x \in Boxed'[c] : x.to = c
      BY <1>b, <3>5
    <3>13. Collects(r)
      BY <2>3, <3>2, <3>7, <3>9 DEF Collects
    <3> HIDE DEF b
    <3> QED
      BY <1>b, <1>d, <2>3, <3>9, <3>10, <3>11, <3>12, <3>13
  <2> QED
    BY <1>6, <2>2, <2>3 DEF ReceiverEffect
<1>7. CASE (Still \/ Ends(Main, "fork")) /\ UNCHANGED progVars
  <2>1. pc'[worker] = pc[worker]
    BY <1>a, <1>7, Distinguished DEF Still, Ends, Goto
  <2>2. Carried' = Carried
    BY <1>7, <2>1 DEF Carried, progVars
  <2> QED
    BY <1>2, <1>7, <2>2 DEF progVars
<1> HIDE DEF Goal
<1>q. Goal
  BY <1>3, <1>4, <1>5, <1>6, <1>7 DEF Effect, Goal
<1> QED
  BY <1>q DEF Goal
-----------------------------------------------------------------------------
(* The invariant, and what it says.                                        *)

IInv == Invariant /\ Where /\ LockInv /\ NoLostWakeup /\ Distinct

LEMMA InitInvariant == Init => IInv
<1> SUFFICES ASSUME Init PROVE IInv
  OBVIOUS
<1>e. <<>> \in Seq(Message)
  BY EmptySeq
<1>1. SynchTypeOK /\ Where
  BY InitType, InitWhere DEF Init
<1>2. /\ pc \in [Thread -> Label] /\ pc[Main] = "fork" /\ pc[worker] = "PostalDelivery"
      /\ \A s \in Sender : pc[s] = "Send"
      /\ \A r \in Receiver : pc[r] = "Receive"
  BY Distinguished DEF Init, Label
<1>3. /\ socket = <<>> /\ inHdr = NULL /\ delayBuf = NULL /\ sending = FALSE
      /\ messages = [b \in Box |-> <<>>] /\ mail = NULL
      /\ num = [s \in Sender |-> 0] /\ got = [r \in Receiver |-> <<>>]
  BY DEF Init
<1>4. /\ \A t \in Thread : inP[t] = NULL /\ t \notin finished
      /\ \A l \in Lock : owner[l] = NULL /\ value[l] = 1
      /\ value[messageSent] = 0 /\ value[messageAvailable] = 0
      /\ status[Main] = "RUNNING" /\ \A s \in Semaphore : queue[s] = <<>>
      /\ \A c \in Condition : condQueue[c] = <<>>
  BY PostOfficeAssumption, SemaphoreAssumption, Distinguished DEF Init, SynchInit, SchedInit
<1>5. TypeOK
  <2>1. num \in [Sender -> 0 .. Count]
    BY <1>3, Distinguished
  <2>2. messages \in [Box -> Seq(Message)] /\ got \in [Receiver -> Seq(Message)]
    BY <1>e, <1>3
  <2>3. socket \in Seq(Message) /\ {inHdr, delayBuf, mail} \subseteq Message \cup {NULL}
    BY <1>e, <1>3
  <2> QED
    BY <1>1, <1>2, <1>3, <2>1, <2>2, <2>3 DEF TypeOK
<1>6. Control
  <2>1. \A t \in Thread : pc[t] # "done"
    BY <1>2, Distinguished
  <2> QED
    BY <1>2, <1>3, <1>4, <2>1, Distinguished DEF Control
<1>7. Ownership
  BY <1>2, <1>4, Distinguished DEF Ownership, Holds
<1>8. \A c \in Condition : WaitSet[c] = {}
  <2>1. Range(<<>>) = {}
    BY EmptySeq, EmptyRange
  <2> QED
    BY <1>4, <2>1 DEF WaitSet
<1>9. Waiters /\ BoxServed
  BY <1>8, Distinguished DEF Waiters, BoxServed
<1>10. SendHandshake
  BY <1>2, <1>3, <1>4 DEF SendHandshake, AwaitsSent
<1>11. ReceiveHandshake
  BY <1>2, <1>3, <1>4 DEF ReceiveHandshake
<1>12. LockInv /\ NoLostWakeup
  BY <1>4 DEF LockInv, NoLostWakeup
<1>13. Distinct
  <2>1. Range(<<>>) = {}
    BY EmptySeq, EmptyRange
  <2>2. IsInjective(<<>>)
    <3> DEFINE none == <<>>
    <3>1. none \in Seq(Message) /\ Len(none) = 0
      BY EmptySeq
    <3> HIDE DEF none
    <3>2. IsInjective(none) <=> \A i, j \in 1 .. Len(none) : none[i] = none[j] => i = j
      BY <3>1, RangeOfSequence
    <3>3. IsInjective(none)
      BY <3>1, <3>2
    <3> QED
      BY <3>3 DEF none
  <2>3. /\ Range(socket) = {} /\ Buffered = {} /\ Delayed = {} /\ Carried = {}
        /\ \A b \in Box : Boxed[b] = {} /\ messages[b] = <<>>
    BY <1>2, <1>3, <2>1 DEF Buffered, Delayed, Carried, Boxed
  <2>4. UnderWay = {}
    BY <2>3, UnderWayParts
  <2>5. Apart(Range(socket), Buffered, Delayed, Carried, Boxed)
    BY <2>3 DEF Apart
  <2> QED
    BY <1>3, <2>2, <2>3, <2>4, <2>5 DEF Distinct, Buffered, Delayed
<1> QED
  BY <1>1, <1>5, <1>6, <1>7, <1>9, <1>10, <1>11, <1>12, <1>13 DEF IInv, Invariant

LEMMA StepInvariant ==
  ASSUME IInv, [Next]_vars
  PROVE  IInv'
<1>1. /\ TypeOK /\ Control /\ Ownership /\ Waiters /\ SendHandshake /\ ReceiveHandshake
      /\ BoxServed /\ Where /\ LockInv /\ NoLostWakeup /\ Distinct /\ SynchTypeOK
  BY DEF IInv, Invariant, TypeOK
<1>2. SynchStep /\ Effect
  BY <1>1, PostStep, PostEffect
<1>3. Where' /\ LockInv' /\ NoLostWakeup'
  BY <1>1, <1>2, StepWhere, StepLock, StepNoLostWakeup
<1>4. TypeOK' /\ Control'
  BY <1>1, <1>2, StepProgramType, StepControl
<1>5. Ownership' /\ Waiters' /\ SendHandshake' /\ ReceiveHandshake' /\ BoxServed'
  BY <1>1, <1>2, StepOwnership, StepWaiters, StepSendHandshake, StepReceiveHandshake,
     StepBoxServed
<1>6. Distinct'
  BY <1>1, <1>2, StepDistinct
<1> QED
  BY <1>3, <1>4, <1>5, <1>6 DEF IInv, Invariant

LEMMA PostOfficeInvariant == Spec => []IInv
<1>1. IInv /\ [Next]_vars => IInv'
  BY StepInvariant
<1> QED
  BY <1>1, InitInvariant, PTL DEF Spec

LEMMA HandshakesReady ==
  ASSUME IInv
  PROVE  ReadyForIt
<1>1. /\ TypeOK /\ Ownership /\ SendHandshake /\ ReceiveHandshake
      /\ value \in [Semaphore -> Nat] /\ sending \in BOOLEAN
      /\ messageSent \in Semaphore /\ messageAvailable \in Semaphore
  BY Distinguished DEF IInv, Invariant, TypeOK, SynchTypeOK
<1>2. ASSUME NEW s \in Sender, pc[s] = "network", inP[s] = NULL
      PROVE  ~sending /\ value[messageSent] = 0
  <2>1. ~\E x \in Sender : AwaitsSent(x)
    BY <1>1, <1>2, OneAwaits DEF AwaitsSent
  <2> QED
    BY <1>1, <2>1 DEF SendHandshake
<1>3. ASSUME pc[worker] = "Put", inP[worker] = NULL
      PROVE  inHdr # NULL
  BY <1>1, <1>3 DEF ReceiveHandshake
<1> QED
  BY <1>2, <1>3 DEF ReadyForIt

\* When nobody can run, each thread is finished, or waits for mail at its box,
\* or sleeps in a P() whose semaphore is 0.
LEMMA HaltedFacts ==
  ASSUME IInv, Halted
  PROVE  /\ Main \in finished
         /\ \A t \in Thread : \/ t \in finished
                              \/ t \in Receiver /\ t \in WaitSet[boxCond(BoxOf(t))]
                              \/ inP[t] \in Semaphore /\ value[inP[t]] = 0
<1>a. /\ TypeOK /\ Control /\ Waiters /\ Where /\ NoLostWakeup /\ NULL \notin Semaphore
      /\ Main \in Thread /\ Main \notin Receiver
  BY Distinguished DEF IInv, Invariant
<1>b. /\ status \in [Thread -> Status] /\ readyList = <<>> /\ status[current] # "RUNNING"
      /\ value \in [Semaphore -> Nat] /\ queue \in [Semaphore -> Seq(Thread)]
  BY <1>a DEF TypeOK, SynchTypeOK, SchedTypeOK, Halted, Idling
<1>c. /\ \A t \in Thread :
           /\ status[t] = "READY" <=> t \in Range(readyList)
           /\ status[t] = "BLOCKED" <=>
                \/ t \in finished
                \/ \E s \in Semaphore : t \in QueueSets[s]
                \/ \E c \in Condition : t \in WaitSet[c]
           /\ status[t] = "RUNNING" => t = current
      /\ \A s \in Semaphore : \A t \in QueueSets[s] : inP[t] = s
  BY <1>a DEF Where, Placed, Sleepers
<1>1. Range(readyList) = {}
  BY <1>b, EmptyRange, EmptySeq
<1>2. \A t \in Thread : status[t] \in {"JUST_CREATED", "BLOCKED"}
  BY <1>1, <1>b, <1>c DEF Status
<1>3. ASSUME NEW t \in Thread, status[t] = "BLOCKED", t \notin finished
      PROVE  \/ t \in Receiver /\ t \in WaitSet[boxCond(BoxOf(t))]
             \/ \E s \in Semaphore : t \in QueueSets[s] /\ inP[t] = s
  BY <1>3, <1>a, <1>c DEF Waiters
<1>4. Main \in finished
  <2>1. status[Main] = "BLOCKED" /\ pc[Main] \in {"fork", "done"}
    BY <1>2, <1>a DEF Control
  <2>2. inP[Main] = NULL
    <3>1. Awaited(Main) = {}
      BY <2>1 DEF Awaited
    <3> QED
      BY <1>a, <3>1 DEF Control
  <2> QED
    BY <1>3, <1>a, <2>1, <2>2
<1>5. \A t \in Thread : status[t] = "BLOCKED"
  <2>1. pc[Main] = "done"
    BY <1>4, <1>a DEF Control
  <2> QED
    BY <1>2, <1>a, <2>1 DEF Control
<1>6. ASSUME NEW t \in Thread, t \notin finished,
             ~(t \in Receiver /\ t \in WaitSet[boxCond(BoxOf(t))])
      PROVE  inP[t] \in Semaphore /\ value[inP[t]] = 0
  <2>1. PICK s \in Semaphore : t \in QueueSets[s] /\ inP[t] = s
    BY <1>3, <1>5, <1>6
  <2>2. QueueSets[s] = Range(queue[s]) /\ queue[s] \in Seq(Thread)
    BY <1>b DEF QueueSets, Sets
  <2>3. queue[s] # <<>>
    BY <2>1, <2>2, EmptyRange
  <2>4. Woken(s) = {}
    BY <1>5 DEF Woken
  <2>5. value[s] <= 0
    BY <1>a, <2>3, <2>4, FS_EmptySet DEF NoLostWakeup
  <2> QED
    BY <1>b, <2>1, <2>5
<1> QED
  BY <1>4, <1>6

LEMMA Quiet ==
  ASSUME IInv
  PROVE  QuietWhenDelivered
<1> SUFFICES ASSUME Halted, ~sending, inHdr = NULL, socket = <<>>
             PROVE  /\ {Main} \cup Sender \subseteq finished
                    /\ mail = NULL
                    /\ \A r \in Receiver : r \in finished \/ messages[BoxOf(r)] = <<>>
  BY DEF QuietWhenDelivered
<1>a. /\ TypeOK /\ Control /\ Ownership /\ Waiters /\ SendHandshake /\ BoxServed /\ LockInv
      /\ MailControl /\ mail \in Message \cup {NULL} /\ owner \in [Lock -> Thread \cup {NULL}]
      /\ messages \in [Box -> Seq(Message)]
  BY ControlParts DEF IInv, Invariant, TypeOK, SynchTypeOK
<1>c. /\ pc[worker] \in {"PostalDelivery", "Put", "Put.signal", "Put.Release"}
      /\ \A s \in Sender : pc[s] \in {"Send", "network", "unlock", "done"}
      /\ \A r \in Receiver : pc[r] \in {"Receive", "Get", "done"}
      /\ \A t \in Thread : inP[t] \in {NULL} \cup Awaited(t) /\ (pc[t] = "done" <=> t \in finished)
  BY <1>a DEF Control
<1>1. /\ Main \in finished
      /\ \A t \in Thread : \/ t \in finished
                           \/ t \in Receiver /\ t \in WaitSet[boxCond(BoxOf(t))]
                           \/ inP[t] \in Semaphore /\ value[inP[t]] = 0
  BY HaltedFacts
\* Nobody is in the middle of the network's call, so the lock is free.
<1>2. ASSUME NEW s \in Sender
      PROVE  pc[s] \in {"Send", "done"}
  <2>1. s \in Thread /\ s \notin Receiver
    BY Distinguished
  <2>2. CASE pc[s] = "network"
    <3>1. Awaited(s) = {messageSent}
      BY <2>2 DEF Awaited
    <3>2. inP[s] = messageSent /\ value[messageSent] = 0
      BY <1>1, <1>c, <2>1, <2>2, <3>1, Distinguished
    <3>3. AwaitsSent(s)
      BY <2>2, <3>2, Distinguished DEF AwaitsSent
    <3> QED
      BY <1>a, <3>2, <3>3 DEF SendHandshake
  <2>3. CASE pc[s] = "unlock"
    <3>1. Awaited(s) = {}
      BY <2>3 DEF Awaited
    <3> QED
      BY <1>1, <1>c, <2>1, <2>3, <3>1, Distinguished
  <2> QED
    BY <1>c, <2>2, <2>3
<1>3. pc[worker] \in {"PostalDelivery", "Put"}
  <2>1. pc[worker] \in {"Put.signal", "Put.Release"} => Awaited(worker) = {}
    BY DEF Awaited
  <2> QED
    BY <1>1, <1>c, <2>1, Distinguished
<1>4. \A r \in Receiver : pc[r] = "Get" => inP[r] # NULL
  <2>1. \A r \in Receiver : r \in WaitSet[boxCond(BoxOf(r))] => inP[r] # NULL
    BY <1>a, Distinguished DEF Waiters
  <2> QED
    BY <1>1, <1>c, <2>1, Distinguished
<1>5. ASSUME NEW l \in Lock
      PROVE  value[l] = 1
  <2>1. \A t \in Thread : ~Holds(t, l)
    BY <1>2, <1>3, <1>4 DEF Holds
  <2>2. owner[l] = NULL
    BY <1>a, <2>1 DEF Ownership
  <2> QED
    BY <1>a, <2>2 DEF LockInv
\* So nobody sleeps in the P() of a lock.
<1>6. ASSUME NEW t \in Thread, t \notin finished, inP[t] \in Lock
      PROVE  t \in Receiver /\ t \in WaitSet[boxCond(BoxOf(t))]
  BY <1>1, <1>5, <1>6
<1>7. \A s \in Sender : s \in finished
  <2>1. ASSUME NEW s \in Sender, pc[s] = "Send"
        PROVE  FALSE
    <3>1. Awaited(s) = {sendLock}
      BY <2>1 DEF Awaited
    <3>2. s \in Thread /\ s \notin Receiver /\ s \notin finished
      BY <1>c, <2>1, Distinguished
    <3> QED
      BY <1>1, <1>6, <1>c, <3>1, <3>2, Distinguished
  <2> QED
    BY <1>2, <1>c, <2>1, Distinguished
<1>8. mail = NULL
  <2>1. SUFFICES ASSUME mail # NULL PROVE FALSE
    OBVIOUS
  <2>2. pc[worker] = "Put" /\ inP[worker] # NULL /\ mail \in Message
    BY <1>a, <1>3, <2>1 DEF MailControl
  <2>3. Awaited(worker) = {boxLock(mail.to)}
    BY <2>1, <2>2 DEF Awaited
  <2> QED
    BY <1>6, <1>c, <2>2, <2>3, Distinguished
<1>9. ASSUME NEW r \in Receiver, r \notin finished
      PROVE  pc[r] = "Get" /\ r \in WaitSet[boxCond(BoxOf(r))]
  <2>1. r \in Thread /\ pc[r] \in {"Receive", "Get"}
    BY <1>c, <1>9, Distinguished
  <2>2. Awaited(r) = {boxLock(BoxOf(r))}
    BY <2>1 DEF Awaited
  <2>3. r \in WaitSet[boxCond(BoxOf(r))]
    BY <1>1, <1>6, <1>9, <1>c, <2>1, <2>2, Distinguished
  <2> QED
    BY <1>a, <2>3, Distinguished DEF Waiters
<1>10. ASSUME NEW r \in Receiver, r \notin finished
       PROVE  messages[BoxOf(r)] = <<>>
  <2>1. OnTheWay(BoxOf(r)) = {}
    BY <1>9, <1>c, Distinguished DEF OnTheWay
  <2>2. BoxOf(r) \in Box /\ messages[BoxOf(r)] \in Seq(Message)
    BY <1>a, Distinguished
  <2>3. Len(messages[BoxOf(r)]) <= 0
    BY <1>a, <1>9, <1>10, <2>1, <2>2, FS_EmptySet DEF BoxServed
  <2>4. Len(messages[BoxOf(r)]) = 0
    BY <2>2, <2>3, LenProperties
  <2> QED
    BY <2>2, <2>4, EmptySeq
<1> QED
  BY <1>1, <1>7, <1>8, <1>10

\* post.cc and network.cc are ready for each other: a sender that calls
\* Network::Send() finds the packet before sent and its signal taken, the
\* worker that calls Network::Receive() finds a packet; and nothing is left
\* behind for want of a signal, however many senders, receivers and boxes
\* there are and whatever the network loses.
THEOREM PostOfficeNetwork == Spec => []NetworkInv
<1>1. IInv => NetworkInv
  BY HandshakesReady, Quiet DEF NetworkInv
<1> QED
  BY <1>1, PostOfficeInvariant, PTL

\* The post office delivers what was sent, at most once and only to the box it
\* was sent to: every step of post.cc and network.cc is a step of Mail, for
\* what is in the socket, the network's buffers, the worker's hands and boxes.
THEOREM PostOfficeImplementsMail == Spec => MailSpec
<1>1. Init => Abstract!Init
  <2> SUFFICES ASSUME Init PROVE Abstract!Init
    OBVIOUS
  <2>1. Range(<<>>) = {}
    BY EmptySeq, EmptyRange
  <2>2. UnderWay = {}
    BY <2>1, UnderWayParts DEF Init, Buffered, Delayed, Carried, Boxed
  <2> QED
    BY <2>2 DEF Init, Abstract!Init
<1>2. IInv /\ [Next]_vars => [Abstract!Next]_(Abstract!mailVars)
  <2> SUFFICES ASSUME IInv, [Next]_vars
               PROVE  [Abstract!Next]_(Abstract!mailVars)
    OBVIOUS
  <2>1. Effect /\ TypeOK /\ Control /\ Distinct
    BY PostEffect DEF IInv, Invariant
  <2>2. \/ \E s \in Sender : Posts(s)
        \/ \E r \in Receiver : Collects(r)
        \/ Carries
    BY <2>1, StepDistinct
  <2>3. ASSUME NEW s \in Sender, Posts(s)
        PROVE  Abstract!Send(s) \/ Abstract!Lose(s)
    BY <2>3 DEF Posts, Abstract!Send, Abstract!Lose
  <2>4. ASSUME NEW r \in Receiver, Collects(r)
        PROVE  Abstract!Receive(r)
    BY <2>4 DEF Collects, Abstract!Receive
  <2>5. CASE Carries
    BY <2>5 DEF Carries, Abstract!mailVars
  <2> QED
    BY <2>2, <2>3, <2>4, <2>5 DEF Abstract!Next
<1> QED
  BY <1>1, <1>2, PostOfficeInvariant, PTL DEF Spec, MailSpec, Abstract!Spec

(***************************************************************************)
(* The interrupts.                                                         *)
(***************************************************************************)

\* The list of pending interrupts, from now on "the list", is in order of time
\* and holds one entry of each type.
InTime(list) ==
  \A i, j \in 1 .. Len(list) : i < j => list[i].left <= list[j].left

OneEach(list) ==
  \A i, j \in 1 .. Len(list) : list[i].type = list[j].type => i = j

Agenda(list) == list \in Seq(I!Entry) /\ InTime(list) /\ OneEach(list)

\* A sleeping thread's device is on the list; somebody runs unless the machine
\* idles; and no thread is counted twice.
Threads ==
  /\ waiting \subseteq I!Types(pending)
  /\ at \in {"code", "tick"} => runnable > 0
  /\ at \in {"idle", "halted"} => runnable = 0
  /\ at = "halted" => I!Types(pending) = {"timer"}
  /\ IsFiniteSet(waiting) /\ runnable + Cardinality(waiting) <= NumThreads

MachineInv ==
  /\ I!NothingOverdue
  /\ Agenda(pending) /\ "timer" \in I!Types(pending)
  /\ Threads
-----------------------------------------------------------------------------
(* The list of pending interrupts: list.cc's sorted list with the time as  *)
(* the key.                                                                *)

LEMMA HardwareLists ==
  /\ \A S : I!Min(S) = Min(S)
  /\ \A s, i, e : I!InsertAt(s, i, e) = InsertAt(s, i, e)
  /\ \A S : I!Cardinality(S) = Cardinality(S)
BY DEF I!Min, Min, I!InsertAt, InsertAt, I!Cardinality, Cardinality

\* An entry of the list has a type and a time.
LEMMA EntryFacts ==
  ASSUME NEW list \in Seq(I!Entry)
  PROVE  /\ Len(list) \in Nat /\ DOMAIN list = 1 .. Len(list)
         /\ I!Types(list) = {list[i].type : i \in 1 .. Len(list)}
         /\ \A i \in 1 .. Len(list) :
              /\ list[i] \in I!Entry /\ list[i].left \in Int
              /\ list[i].type \in I!Device \cup {"timer"}
<1>1. Len(list) \in Nat /\ DOMAIN list = 1 .. Len(list)
  BY LenProperties
<1>2. \A i \in 1 .. Len(list) : list[i] \in I!Entry
  BY ElementOfSeq
<1> QED
  BY <1>1, <1>2 DEF I!Types, I!Entry

\* Interrupt::Schedule() adds one entry, in its place.
LEMMA ScheduleFacts ==
  ASSUME NEW list, Agenda(list), NEW type \in I!Device \cup {"timer"}, type \notin I!Types(list),
         NEW d \in Int
  PROVE  LET r == I!Schedule(list, type, d)
         IN  /\ Agenda(r) /\ I!Types(r) = I!Types(list) \cup {type}
             /\ \A i \in 1 .. Len(r) :
                  \/ r[i].left = d /\ r[i].type = type
                  \/ \E j \in 1 .. Len(list) : r[i] = list[j]
<1> DEFINE e == [type |-> type, left |-> d]
           later == {i \in DOMAIN list : e.left < list[i].left}
           p == IF later = {} THEN Len(list) + 1 ELSE Min(later)
           n == Len(list)
           r == I!Schedule(list, type, d)
<1>1. /\ list \in Seq(I!Entry) /\ n \in Nat /\ DOMAIN list = 1 .. n
      /\ I!Types(list) = {list[i].type : i \in 1 .. n}
      /\ \A i \in 1 .. n : list[i].left \in Int
      /\ \A i, j \in 1 .. n : i < j => list[i].left <= list[j].left
      /\ \A i, j \in 1 .. n : list[i].type = list[j].type => i = j
  BY EntryFacts DEF Agenda, InTime, OneEach
<1>2. e \in I!Entry /\ e.left = d /\ e.type = type
  BY DEF I!Entry
<1> HIDE DEF e
<1>3. /\ p \in 1 .. n + 1
      /\ \A i \in 1 .. p - 1 : list[i].left <= d
      /\ p <= n => d < list[p].left
  <2>1. later \in SUBSET Nat /\ \A i : i \in later <=> i \in 1 .. n /\ d < list[i].left
    BY <1>1, <1>2
  <2>2. later # {} => Min(later) \in later /\ \A y \in later : Min(later) <= y
    BY <2>1, MinFacts
  <2>3. p = IF later = {} THEN n + 1 ELSE Min(later)
    OBVIOUS
  <2> HIDE DEF later, p, n
  <2>4. CASE later = {}
    BY <1>1, <2>1, <2>3, <2>4
  <2>5. CASE later # {}
    <3>1. p \in 1 .. n /\ d < list[p].left /\ \A y \in later : p <= y
      BY <2>1, <2>2, <2>3, <2>5
    <3>2. \A i \in 1 .. p - 1 : i \in 1 .. n /\ i \notin later
      BY <1>1, <3>1
    <3> QED
      BY <1>1, <2>1, <3>1, <3>2
  <2> QED
    BY <2>4, <2>5
<1>4. r = InsertAt(list, p, e)
  BY HardwareLists DEF I!Schedule, I!SortedInsert, e
<1> HIDE DEF p, r
<1>5. /\ r \in Seq(I!Entry) /\ Len(r) = n + 1
      /\ \A i \in 1 .. n + 1 : r[i] = IF i < p THEN list[i] ELSE IF i = p THEN e ELSE list[i - 1]
  <2>1. p \in 1 .. Len(list) + 1 /\ e \in I!Entry
    BY <1>2, <1>3
  <2>2. r \in Seq(I!Entry) /\ Inserted(r, list, p, e)
    BY <1>1, <1>4, <2>1, InsertAtFacts
  <2> QED
    BY <2>2 DEF Inserted
<1> HIDE DEF n
<1> DEFINE back(k) == IF k < p THEN k ELSE k - 1
<1>6. \A k \in 1 .. n + 1 : k # p => back(k) \in 1 .. n /\ r[k] = list[back(k)]
  BY <1>1, <1>3, <1>5
<1>7. r[p] = e /\ p \in 1 .. n + 1
  BY <1>1, <1>3, <1>5
<1>8. I!Types(r) = {r[i].type : i \in 1 .. n + 1}
  BY <1>5, EntryFacts
<1>9. \A i \in 1 .. n : list[i].type # type
  BY <1>1
<1>10. OneEach(r)
  <2> SUFFICES ASSUME NEW i \in 1 .. n + 1, NEW j \in 1 .. n + 1, r[i].type = r[j].type
               PROVE  i = j
    BY <1>5 DEF OneEach
  <2>1. CASE i # p /\ j # p
    <3>1. back(i) = back(j)
      BY <1>1, <1>6, <2>1
    <3> QED
      BY <1>3, <2>1, <3>1
  <2>2. CASE i = p /\ j # p
    BY <1>2, <1>6, <1>7, <1>9, <2>2
  <2>3. CASE i # p /\ j = p
    BY <1>2, <1>6, <1>7, <1>9, <2>3
  <2> QED
    BY <2>1, <2>2, <2>3
<1>11. InTime(r)
  <2> SUFFICES ASSUME NEW i \in 1 .. n + 1, NEW j \in 1 .. n + 1, i < j
               PROVE  r[i].left <= r[j].left
    BY <1>5 DEF InTime
  <2>1. CASE i # p /\ j # p
    <3>1. back(i) < back(j)
      BY <1>3, <2>1
    <3> QED
      BY <1>1, <1>6, <2>1, <3>1
  <2>2. CASE i = p
    <3>1. p <= n /\ j - 1 \in p .. n /\ j # p /\ back(j) = j - 1
      BY <1>1, <1>3, <2>2
    <3>2. p = j - 1 \/ list[p].left <= list[j - 1].left
      BY <1>1, <1>3, <3>1
    <3>3. r[j] = list[j - 1] /\ list[p].left \in Int /\ list[j - 1].left \in Int
      BY <1>1, <1>3, <1>6, <3>1
    <3> QED
      BY <1>2, <1>3, <1>7, <2>2, <3>1, <3>2, <3>3
  <2>3. CASE j = p
    <3>1. i \in 1 .. p - 1 /\ i # p /\ back(i) = i
      BY <1>3, <2>3
    <3> QED
      BY <1>2, <1>3, <1>6, <1>7, <2>3, <3>1
  <2> QED
    BY <2>1, <2>2, <2>3
<1>12. I!Types(r) = I!Types(list) \cup {type}
  <2>1. \A k \in 1 .. n + 1 : r[k].type = type \/ r[k].type \in I!Types(list)
    BY <1>1, <1>2, <1>6, <1>7
  <2>2. type \in I!Types(r)
    BY <1>2, <1>7, <1>8
  <2>3. \A i \in 1 .. n : list[i].type \in I!Types(r)
    <3> SUFFICES ASSUME NEW i \in 1 .. n PROVE \E k \in 1 .. n + 1 : r[k] = list[i]
      BY <1>8
    <3>1. CASE i < p
      BY <1>1, <1>5, <3>1
    <3>2. CASE ~(i < p)
      <4>1. i + 1 \in 1 .. n + 1 /\ ~(i + 1 < p) /\ i + 1 # p /\ (i + 1) - 1 = i
        BY <1>1, <1>3, <3>2
      <4> QED
        BY <1>5, <4>1
    <3> QED
      BY <3>1, <3>2
  <2> QED
    BY <1>1, <1>8, <2>1, <2>2, <2>3
<1>13. \A k \in 1 .. n + 1 :
         (r[k].left = d /\ r[k].type = type) \/ \E j \in 1 .. n : r[k] = list[j]
  BY <1>2, <1>6, <1>7
<1> QED
  BY <1>5, <1>10, <1>11, <1>12, <1>13 DEF Agenda, r, n

\* As time passes, every entry comes nearer by as much.
LEMMA AdvanceFacts ==
  ASSUME NEW list, Agenda(list), NEW ticks \in Int
  PROVE  LET r == I!Advance(list, ticks)
         IN  /\ Agenda(r) /\ I!Types(r) = I!Types(list) /\ Len(r) = Len(list)
             /\ \A i \in 1 .. Len(list) :
                  r[i].type = list[i].type /\ r[i].left = list[i].left - ticks
<1> DEFINE n == Len(list)
           r == I!Advance(list, ticks)
<1>1. /\ list \in Seq(I!Entry) /\ n \in Nat /\ DOMAIN list = 1 .. n
      /\ I!Types(list) = {list[i].type : i \in 1 .. n}
      /\ \A i \in 1 .. n : list[i] \in I!Entry
      /\ \A i, j \in 1 .. n : i < j => list[i].left <= list[j].left
      /\ \A i, j \in 1 .. n : list[i].type = list[j].type => i = j
  BY EntryFacts DEF Agenda, InTime, OneEach
<1>2. r = [i \in 1 .. n |-> [list[i] EXCEPT !.left = @ - ticks]]
  BY <1>1 DEF I!Advance
<1> HIDE DEF n, r
<1>3. \A i \in 1 .. n : /\ list[i].left \in Int /\ r[i] \in I!Entry
                        /\ r[i].type = list[i].type /\ r[i].left = list[i].left - ticks
  BY <1>1, <1>2 DEF I!Entry
<1>4. r \in Seq(I!Entry) /\ Len(r) = n
  <2>1. r = [i \in 1 .. n |-> r[i]]
    BY <1>2
  <2>2. r \in [1 .. n -> I!Entry]
    BY <1>3, <2>1
  <2> QED
    BY <1>1, <2>2
<1>5. I!Types(r) = {r[i].type : i \in 1 .. n}
  BY <1>4, EntryFacts
<1>6. InTime(r)
  <2> SUFFICES ASSUME NEW i \in 1 .. n, NEW j \in 1 .. n, i < j
               PROVE  r[i].left <= r[j].left
    BY <1>4 DEF InTime
  <2>1. list[i].left <= list[j].left /\ list[i].left \in Int /\ list[j].left \in Int
    BY <1>1, <1>3
  <2>2. r[i].left = list[i].left - ticks /\ r[j].left = list[j].left - ticks
    BY <1>3
  <2> QED
    BY <2>1, <2>2
<1>6a. OneEach(r)
  <2> SUFFICES ASSUME NEW i \in 1 .. n, NEW j \in 1 .. n, r[i].type = r[j].type
               PROVE  i = j
    BY <1>4 DEF OneEach
  <2> QED
    BY <1>1, <1>3
<1>7. I!Types(r) = I!Types(list)
  BY <1>1, <1>3, <1>5
<1> QED
  BY <1>3, <1>4, <1>6, <1>6a, <1>7 DEF Agenda, n, r

\* The head of the list is due first, and taking it off leaves the others.
LEMMA TakeFacts ==
  ASSUME NEW list, Agenda(list), list # <<>>
  PROVE  /\ Agenda(Tail(list)) /\ I!Types(Tail(list)) = I!Types(list) \ {Head(list).type}
         /\ Head(list) = list[1] /\ Head(list).type \in I!Types(list)
         /\ Head(list).type \in I!Device \cup {"timer"} /\ Head(list).left \in Int
         /\ \A i \in 1 .. Len(list) : Head(list).left <= list[i].left
<1> DEFINE r == Tail(list)
           n == Len(list)
<1>1. /\ list \in Seq(I!Entry) /\ n \in Nat /\ DOMAIN list = 1 .. n
      /\ I!Types(list) = {list[i].type : i \in 1 .. n}
      /\ \A i \in 1 .. n : list[i].left \in Int /\ list[i].type \in I!Device \cup {"timer"}
      /\ \A i, j \in 1 .. n : i < j => list[i].left <= list[j].left
      /\ \A i, j \in 1 .. n : list[i].type = list[j].type => i = j
  BY EntryFacts DEF Agenda, InTime, OneEach
<1>2. /\ r \in Seq(I!Entry) /\ Len(r) = n - 1 /\ n >= 1 /\ Head(list) = list[1]
      /\ \A i \in 1 .. n - 1 : r[i] = list[i + 1]
  BY <1>1, HeadTailProperties, LenProperties, EmptySeq
<1>3. I!Types(r) = {r[i].type : i \in 1 .. n - 1}
  <2> HIDE DEF r, n
  <2> QED
    BY <1>2, EntryFacts
<1> HIDE DEF r, n
<1>4. InTime(r) /\ OneEach(r)
  <2>1. ASSUME NEW i \in 1 .. n - 1, NEW j \in 1 .. n - 1
        PROVE  /\ i < j => r[i].left <= r[j].left
               /\ r[i].type = r[j].type => i = j
    <3>1. i + 1 \in 1 .. n /\ j + 1 \in 1 .. n /\ (i < j => i + 1 < j + 1)
      BY <1>1
    <3>2. i + 1 = j + 1 => i = j
      OBVIOUS
    <3> QED
      BY <1>1, <1>2, <3>1, <3>2
  <2> QED
    BY <1>2, <2>1 DEF InTime, OneEach
<1>5. I!Types(r) = I!Types(list) \ {list[1].type}
  <2>1. \A i \in 1 .. n - 1 : r[i].type \in I!Types(list) /\ r[i].type # list[1].type
    BY <1>1, <1>2
  <2>2. ASSUME NEW i \in 1 .. n, list[i].type # list[1].type
        PROVE  list[i].type \in I!Types(r)
    <3>1. i - 1 \in 1 .. n - 1
      BY <1>1, <2>2
    <3>2. r[i - 1] = list[i]
      BY <1>1, <1>2, <3>1
    <3> QED
      BY <1>3, <3>1, <3>2
  <2>3. ASSUME NEW t \in I!Types(r)
        PROVE  t \in I!Types(list) \ {list[1].type}
    <3>1. PICK i \in 1 .. n - 1 : t = r[i].type
      BY <1>3
    <3> QED
      BY <2>1, <3>1
  <2>4. ASSUME NEW t \in I!Types(list), t # list[1].type
        PROVE  t \in I!Types(r)
    <3>1. PICK i \in 1 .. n : t = list[i].type
      BY <1>1
    <3> QED
      BY <2>2, <2>4, <3>1
  <2> QED
    BY <2>3, <2>4
<1>6. \A i \in 1 .. n : list[1].left <= list[i].left
  <2>1. 1 \in 1 .. n
    BY <1>1, <1>2
  <2> QED
    BY <1>1, <2>1
<1> QED
  BY <1>1, <1>2, <1>4, <1>5, <1>6 DEF Agenda, r, n

-----------------------------------------------------------------------------
(* The steps of the machine.                                               *)

Accounted(list) ==
  /\ waiting \subseteq I!Types(list) \cap I!Device
  /\ IsFiniteSet(waiting) /\ runnable \in Nat
  /\ runnable + Cardinality(waiting) <= NumThreads

LEMMA HardwareConstants ==
  /\ NumThreads \in Nat \ {0}
  /\ SystemTick \in Nat \ {0} /\ UserTick \in Nat \ {0}
  /\ TimerDelay \subseteq Nat \ {0} /\ DeviceDelay \subseteq Nat \ {0}
  /\ "timer" \notin I!Device
BY InterruptAssumption DEF I!ConstantsOK, I!Device

\* A handler takes the first entry off the list; the timer and the pollers put
\* it back at once, and a thread that slept for it is ready.
LEMMA HandleFacts ==
  ASSUME NEW list, Agenda(list), list # <<>>, "timer" \in I!Types(list), Accounted(list),
         yieldOnReturn \in BOOLEAN, I!Handle(Head(list), Tail(list))
  PROVE  /\ Agenda(pending') /\ "timer" \in I!Types(pending')
         /\ I!Types(list) \ {Head(list).type} \subseteq I!Types(pending')
         /\ waiting' \subseteq I!Types(pending') \cap I!Device /\ IsFiniteSet(waiting')
         /\ runnable' \in Nat /\ runnable' + Cardinality(waiting') <= NumThreads
         /\ yieldOnReturn' \in BOOLEAN
<1> DEFINE e == Head(list)
           rest == Tail(list)
<1>1. /\ Agenda(rest) /\ I!Types(rest) = I!Types(list) \ {e.type}
      /\ e.type \in I!Device \cup {"timer"} /\ e.type \in I!Types(list)
  BY TakeFacts
<1> HIDE DEF rest
<1>2. /\ \/ /\ waiting' = waiting \ {e.type}
            /\ runnable' = IF e.type \in waiting THEN runnable + 1 ELSE runnable
         \/ e.type \in Poller /\ waiting' = waiting /\ runnable' = runnable
      /\ \/ /\ \/ e.type = "timer" /\ \E d \in TimerDelay : pending' = I!Schedule(rest, "timer", d)
               \/ e.type # "timer" /\ \E d \in DeviceDelay : pending' = I!Schedule(rest, e.type, d)
         \/ e.type # "timer" /\ e.type \notin Poller /\ pending' = rest
      /\ yieldOnReturn' \in BOOLEAN
  BY DEF I!Handle, I!Wake, rest
<1> HIDE DEF e
<1>3. ASSUME NEW d \in Int, pending' = I!Schedule(rest, e.type, d)
      PROVE  Agenda(pending') /\ I!Types(pending') = I!Types(list)
  <2>1. e.type \notin I!Types(rest)
    BY <1>1
  <2>2. PICK r : r = I!Schedule(rest, e.type, d)
    OBVIOUS
  <2>3. Agenda(r) /\ I!Types(r) = I!Types(rest) \cup {e.type}
    BY <1>1, <2>1, <2>2, ScheduleFacts
  <2> QED
    BY <1>1, <1>3, <2>2, <2>3
<1>4. \/ Agenda(pending') /\ I!Types(pending') = I!Types(list)
      \/ /\ e.type # "timer" /\ e.type \notin Poller /\ Agenda(pending')
         /\ I!Types(pending') = I!Types(list) \ {e.type}
  <2>1. \A d \in TimerDelay \cup DeviceDelay : d \in Int
    BY HardwareConstants
  <2> QED
    BY <1>1, <1>2, <1>3, <2>1
<1>5. /\ IsFiniteSet(waiting') /\ runnable' \in Nat
      /\ runnable' + Cardinality(waiting') <= NumThreads
  <2>1. IsFiniteSet(waiting) /\ Cardinality(waiting) \in Nat /\ runnable \in Nat
        /\ runnable + Cardinality(waiting) <= NumThreads /\ NumThreads \in Nat
    BY FS_CardinalityType, HardwareConstants DEF Accounted
  <2>2. CASE e.type \in waiting /\ waiting' = waiting \ {e.type} /\ runnable' = runnable + 1
    <3>1. PICK w, x : w = waiting /\ x = e.type
      OBVIOUS
    <3>2. IsFiniteSet(w \ {x}) /\ Cardinality(w \ {x}) = Cardinality(w) - 1
      BY <2>1, <2>2, <3>1, FS_RemoveElement
    <3> QED
      BY <2>1, <2>2, <3>1, <3>2
  <2>3. CASE waiting' = waiting /\ runnable' = runnable
    BY <2>1, <2>3
  <2>4. e.type \notin waiting => waiting \ {e.type} = waiting
    OBVIOUS
  <2> QED
    BY <1>2, <2>2, <2>3, <2>4
<1> QED
  BY <1>1, <1>2, <1>4, <1>5 DEF Accounted, e

\* Interrupt.cc's clock, timer, devices and idle loop keep the invariant.
LEMMA StepMachine ==
  ASSUME MachineInv, I!Next
  PROVE  MachineInv'
<1>t. /\ level \in {"IntOn", "IntOff"} /\ yieldOnReturn \in BOOLEAN
      /\ machineStatus \in {"SystemMode", "UserMode", "IdleMode"}
      /\ at \in {"code", "tick", "idle", "idleLoop", "halted"}
      /\ runnable \in 0 .. NumThreads /\ waiting \subseteq I!Device
      /\ pending \in Seq(I!Entry)
  BY DEF MachineInv, I!NothingOverdue, I!TypeOK
<1>o. at = "code" => /\ \A i \in DOMAIN pending : pending[i].left > 0 \/ pending[i].type = "timer"
                     /\ ~yieldOnReturn
  BY DEF MachineInv, I!NothingOverdue
<1>a. Agenda(pending) /\ "timer" \in I!Types(pending) /\ Threads
  BY DEF MachineInv
<1>b. /\ waiting \subseteq I!Types(pending)
      /\ at \in {"code", "tick"} => runnable > 0
      /\ at \in {"idle", "halted"} => runnable = 0
      /\ at = "halted" => I!Types(pending) = {"timer"}
      /\ IsFiniteSet(waiting) /\ Cardinality(waiting) \in Nat
      /\ runnable + Cardinality(waiting) <= NumThreads
  BY <1>a, FS_CardinalityType DEF Threads
<1>c. /\ NumThreads \in Nat \ {0} /\ "timer" \notin I!Device
      /\ SystemTick \in Nat \ {0} /\ UserTick \in Nat \ {0}
  BY HardwareConstants
<1>d. pending # <<>> /\ Accounted(pending) /\ DOMAIN pending = 1 .. Len(pending)
  <2>1. I!Types(<<>>) = {}
    BY DEF I!Types
  <2> QED
    BY <1>t, <1>a, <1>b, <2>1, LenProperties DEF Accounted
\* What a step has to show.
<1>g. ASSUME level' \in {"IntOn", "IntOff"}, yieldOnReturn' \in BOOLEAN,
             machineStatus' \in {"SystemMode", "UserMode", "IdleMode"},
             at' \in {"code", "tick", "idle", "idleLoop", "halted"},
             Agenda(pending'), "timer" \in I!Types(pending'),
             at' = "code" =>
               /\ \A i \in 1 .. Len(pending') : pending'[i].left > 0 \/ pending'[i].type = "timer"
               /\ yieldOnReturn' = FALSE,
             runnable' \in Nat, waiting' \subseteq I!Device, Threads'
      PROVE  MachineInv'
  <2>1. pending' \in Seq(I!Entry)
    BY <1>g DEF Agenda
  <2>2. DOMAIN pending' = 1 .. Len(pending')
    BY <2>1, LenProperties
  <2>3. runnable' \in 0 .. NumThreads
    <3>1. IsFiniteSet(waiting') /\ runnable' + Cardinality(waiting') <= NumThreads
      BY <1>g DEF Threads
    <3>2. Cardinality(waiting') \in Nat
      BY <3>1, FS_CardinalityType
    <3> QED
      BY <1>c, <1>g, <3>1, <3>2
  <2>4. I!TypeOK'
    BY <1>g, <2>1, <2>3 DEF I!TypeOK
  <2>5. I!NothingOverdue'
    BY <1>g, <2>2, <2>4 DEF I!NothingOverdue
  <2> QED
    BY <1>g, <2>5 DEF MachineInv
<1>q. at = "code" => /\ \A i \in 1 .. Len(pending) : pending[i].left > 0 \/ pending[i].type = "timer"
                     /\ yieldOnReturn = FALSE
  BY <1>t, <1>o, <1>d
<1>1. CASE I!Disable \/ I!EnterUser \/ I!EnterSystem
  <2>1. /\ level' \in {"IntOn", "IntOff"} /\ machineStatus' \in {"SystemMode", "UserMode", "IdleMode"}
        /\ UNCHANGED <<pending, yieldOnReturn, at, runnable, waiting>>
    BY <1>t, <1>1 DEF I!Disable, I!EnterUser, I!EnterSystem
  <2>2. Threads'
    BY <1>b, <2>1 DEF Threads
  <2>3. at' = "code" =>
          /\ \A i \in 1 .. Len(pending') : pending'[i].left > 0 \/ pending'[i].type = "timer"
          /\ yieldOnReturn' = FALSE
    BY <1>q, <2>1
  <2>4. Agenda(pending') /\ "timer" \in I!Types(pending')
    BY <1>a, <2>1
  <2>5. /\ at' \in {"code", "tick", "idle", "idleLoop", "halted"} /\ yieldOnReturn' \in BOOLEAN
        /\ runnable' \in Nat /\ waiting' \subseteq I!Device
    BY <1>t, <2>1
  <2> QED
    BY <2>1, <2>2, <2>3, <2>4, <2>5, <1>g
<1>2. CASE I!OneTick
  <2>1. PICK ticks \in Int : pending' = I!Advance(pending, ticks)
    BY <1>c, <1>2 DEF I!OneTick
  <2>2. Agenda(pending') /\ I!Types(pending') = I!Types(pending)
    BY <1>a, <2>1, AdvanceFacts
  <2>3. /\ at' = "tick" /\ level' = "IntOff" /\ at = "code"
        /\ UNCHANGED <<yieldOnReturn, machineStatus, runnable, waiting>>
    BY <1>2 DEF I!OneTick
  <2> QED
    BY <1>t, <1>a, <1>b, <2>2, <2>3, <1>g DEF Threads
<1>3. ASSUME NEW d \in I!Device, I!StartDevice(d)
      PROVE  MachineInv'
  <2>1. PICK fromNow \in DeviceDelay : pending' = I!Schedule(pending, d, fromNow)
    BY <1>3 DEF I!StartDevice
  <2>2. fromNow \in Int /\ fromNow > 0 /\ d \notin I!Types(pending)
    BY <1>3, HardwareConstants DEF I!StartDevice
  <2>3. /\ Agenda(pending') /\ I!Types(pending') = I!Types(pending) \cup {d}
        /\ \A i \in 1 .. Len(pending') :
             \/ pending'[i].left = fromNow /\ pending'[i].type = d
             \/ \E j \in 1 .. Len(pending) : pending'[i] = pending[j]
    BY <1>a, <2>1, <2>2, ScheduleFacts
  <2>4. at = "code" /\ UNCHANGED <<level, yieldOnReturn, machineStatus, at, runnable, waiting>>
    BY <1>3 DEF I!StartDevice
  <2>5. \A i \in 1 .. Len(pending') : pending'[i].left > 0 \/ pending'[i].type = "timer"
    BY <1>q, <2>2, <2>3, <2>4
  <2>6. Threads'
    BY <1>b, <2>3, <2>4 DEF Threads
  <2>7. yieldOnReturn' = FALSE
    BY <1>q, <2>4
  <2>8. "timer" \in I!Types(pending') /\ runnable' \in Nat /\ waiting' \subseteq I!Device
    BY <1>t, <1>a, <2>3, <2>4
  <2> QED
    BY <1>t, <2>3, <2>4, <2>5, <2>6, <2>7, <2>8, <1>g
<1>l. ASSUME I!LeaveCPU, at = "code", UNCHANGED <<pending, level, yieldOnReturn>>,
             waiting' \subseteq I!Types(pending) \cap I!Device, IsFiniteSet(waiting'),
             runnable' + Cardinality(waiting') <= NumThreads
      PROVE  MachineInv'
  <2>1. /\ runnable' = runnable - 1 /\ runnable > 0
        /\ \/ runnable > 1 /\ at' = at /\ machineStatus' = machineStatus
           \/ ~(runnable > 1) /\ at' = "idle" /\ machineStatus' = "IdleMode"
    BY <1>b, <1>l DEF I!LeaveCPU
  <2>2. /\ runnable' \in Nat /\ at' \in {"code", "idle"}
        /\ at' = "code" => runnable' > 0
        /\ at' = "idle" => runnable' = 0
    BY <1>t, <1>l, <2>1
  <2>3. Threads'
    BY <1>l, <2>2 DEF Threads
  <2>4. at' = "code" =>
          /\ \A i \in 1 .. Len(pending') : pending'[i].left > 0 \/ pending'[i].type = "timer"
          /\ yieldOnReturn' = FALSE
    BY <1>q, <1>l
  <2>5. Agenda(pending') /\ "timer" \in I!Types(pending') /\ waiting' \subseteq I!Device
    BY <1>a, <1>l
  <2>6. machineStatus' \in {"SystemMode", "UserMode", "IdleMode"}
    BY <1>t, <2>1
  <2> QED
    BY <1>t, <1>l, <2>2, <2>3, <2>4, <2>5, <2>6, <1>g
<1>4. ASSUME NEW d \in I!Device, I!Sleep(d)
      PROVE  MachineInv'
  <2>1. /\ at = "code" /\ d \in I!Types(pending) /\ d \notin waiting
        /\ waiting' = waiting \cup {d} /\ I!LeaveCPU
        /\ UNCHANGED <<pending, level, yieldOnReturn>>
    BY <1>4 DEF I!Sleep
  <2>2. PICK w : w = waiting
    OBVIOUS
  <2>3. IsFiniteSet(w \cup {d}) /\ Cardinality(w \cup {d}) = Cardinality(w) + 1
    BY <1>b, <2>1, <2>2, FS_AddElement
  <2>4. runnable' = runnable - 1
    BY <2>1 DEF I!LeaveCPU
  <2>5. IsFiniteSet(waiting') /\ runnable' + Cardinality(waiting') <= NumThreads
    BY <1>t, <1>b, <2>1, <2>2, <2>3, <2>4
  <2> QED
    BY <1>t, <1>b, <2>1, <2>5, <1>l
<1>5. CASE I!Finish
  <2>1. /\ at = "code" /\ I!LeaveCPU /\ waiting' = waiting
        /\ UNCHANGED <<pending, level, yieldOnReturn>> /\ runnable' = runnable - 1
    BY <1>5 DEF I!Finish, I!LeaveCPU
  <2>2. IsFiniteSet(waiting') /\ runnable' + Cardinality(waiting') <= NumThreads
    BY <1>t, <1>b, <1>c, <2>1
  <2> QED
    BY <1>t, <1>b, <2>1, <2>2, <1>l
<1>6. CASE I!Fire
  <2>1. /\ at \in {"tick", "idleLoop"} /\ I!Handle(Head(pending), Tail(pending))
        /\ UNCHANGED <<level, machineStatus, at>>
    BY <1>6 DEF I!Fire
  <2>2. /\ Agenda(pending') /\ "timer" \in I!Types(pending')
        /\ waiting' \subseteq I!Types(pending') \cap I!Device /\ IsFiniteSet(waiting')
        /\ runnable' \in Nat /\ runnable' + Cardinality(waiting') <= NumThreads
        /\ yieldOnReturn' \in BOOLEAN
    BY <1>t, <1>a, <1>d, <2>1, HandleFacts
  <2>3. runnable' >= runnable
    BY <1>t, <2>1 DEF I!Handle, I!Wake
  <2>4. at' = "tick" => runnable' > 0
    BY <1>t, <1>b, <2>1, <2>2, <2>3
  <2>5. Threads'
    BY <2>1, <2>2, <2>4 DEF Threads
  <2> QED
    BY <1>t, <2>1, <2>2, <2>5, <1>g
<1>p. \A i \in 1 .. Len(pending) : /\ pending[i].left \in Int /\ Head(pending).left \in Int
                                   /\ Head(pending).left <= pending[i].left
                                   /\ pending[i].type \in I!Types(pending)
  BY <1>t, <1>a, <1>d, TakeFacts, EntryFacts
<1>7. CASE I!TickDone
  <2>1. /\ at = "tick" /\ at' = "code" /\ UNCHANGED <<pending, runnable, waiting>>
        /\ ~(Head(pending).left <= 0)
        /\ \/ yieldOnReturn' = FALSE /\ machineStatus' = "SystemMode" /\ level' = level
           \/ yieldOnReturn = FALSE /\ level' = "IntOn" /\ UNCHANGED <<yieldOnReturn, machineStatus>>
    BY <1>t, <1>d, <1>7 DEF I!TickDone, I!HeadDue
  <2>2. \A i \in 1 .. Len(pending') : pending'[i].left > 0
    BY <1>p, <2>1
  <2>3. Threads'
    BY <1>b, <2>1 DEF Threads
  <2>4. /\ yieldOnReturn' = FALSE /\ level' \in {"IntOn", "IntOff"}
        /\ machineStatus' \in {"SystemMode", "UserMode", "IdleMode"}
    BY <1>t, <2>1
  <2>5. /\ Agenda(pending') /\ "timer" \in I!Types(pending')
        /\ runnable' \in Nat /\ waiting' \subseteq I!Device
    BY <1>t, <1>a, <2>1
  <2> QED
    BY <2>1, <2>2, <2>3, <2>4, <2>5, <1>g
<1>8. CASE I!Idle
  <2> DEFINE first == Head(pending)
             ticks == IF first.left > 0 THEN first.left ELSE 0
  <2>0. ticks \in Int
    BY <1>a, <1>d, TakeFacts
  <2>1. PICK now : now = I!Advance(pending, ticks)
    OBVIOUS
  <2>2. /\ Agenda(now) /\ I!Types(now) = I!Types(pending) /\ Len(now) = Len(pending)
    BY <1>a, <2>0, <2>1, AdvanceFacts
  <2>3. /\ at = "idle" /\ UNCHANGED <<level, machineStatus>>
        /\ \/ /\ first.type = "timer" /\ Len(pending) = 1
              /\ at' = "halted" /\ pending' = now /\ UNCHANGED <<yieldOnReturn, waiting, runnable>>
           \/ at' = "idleLoop" /\ I!Handle(Head(now), Tail(now))
    BY <1>8, <2>1 DEF I!Idle
  <2> HIDE DEF ticks
  <2>4. CASE /\ first.type = "timer" /\ Len(pending) = 1
             /\ at' = "halted" /\ pending' = now /\ UNCHANGED <<yieldOnReturn, waiting, runnable>>
    <3>1. I!Types(pending) = {"timer"}
      <4>1. first = pending[1]
        BY <1>a, <1>d, TakeFacts
      <4>2. I!Types(pending) = {pending[i].type : i \in 1 .. Len(pending)}
        BY <1>t, EntryFacts
      <4> QED
        BY <2>4, <4>1, <4>2
    <3>2. Threads'
      BY <1>b, <2>2, <2>3, <2>4, <3>1 DEF Threads
    <3> QED
      BY <1>t, <1>a, <2>2, <2>3, <2>4, <3>2, <1>g
  <2>5. CASE at' = "idleLoop" /\ I!Handle(Head(now), Tail(now))
    <3>0. now # <<>>
      <4>1. I!Types(<<>>) = {}
        BY DEF I!Types
      <4> QED
        BY <1>a, <2>2, <4>1
    <3>1. Accounted(now)
      BY <1>d, <2>2 DEF Accounted
    <3>2. /\ Agenda(pending') /\ "timer" \in I!Types(pending')
          /\ waiting' \subseteq I!Types(pending') \cap I!Device /\ IsFiniteSet(waiting')
          /\ runnable' \in Nat /\ runnable' + Cardinality(waiting') <= NumThreads
          /\ yieldOnReturn' \in BOOLEAN
      BY <1>t, <1>a, <2>2, <2>5, <3>0, <3>1, HandleFacts
    <3>3. Threads'
      BY <2>5, <3>2 DEF Threads
    <3> QED
      BY <1>t, <2>3, <2>5, <3>2, <3>3, <1>g
  <2> QED
    BY <2>3, <2>4, <2>5
<1>9. CASE I!IdleDone
  <2>1. /\ at = "idleLoop" /\ UNCHANGED <<pending, level, runnable, waiting>>
        /\ ~(Head(pending).left <= 0) \/ I!Types(pending) = {"timer"}
        /\ yieldOnReturn' = FALSE
        /\ machineStatus' = IF runnable = 0 THEN "IdleMode" ELSE "SystemMode"
        /\ at' = IF runnable = 0 THEN "idle" ELSE "code"
    BY <1>d, <1>9 DEF I!IdleDone, I!HeadDue, I!OnlyTimerInIdle
  <2>2. \A i \in 1 .. Len(pending') : pending'[i].left > 0 \/ pending'[i].type = "timer"
    BY <1>p, <2>1
  <2>3. Threads'
    BY <1>t, <1>b, <2>1 DEF Threads
  <2>4. /\ machineStatus' \in {"SystemMode", "UserMode", "IdleMode"}
        /\ at' \in {"code", "tick", "idle", "idleLoop", "halted"} /\ yieldOnReturn' \in BOOLEAN
    BY <2>1
  <2>5. /\ Agenda(pending') /\ "timer" \in I!Types(pending') /\ level' \in {"IntOn", "IntOff"}
        /\ runnable' \in Nat /\ waiting' \subseteq I!Device
    BY <1>t, <1>a, <2>1
  <2> QED
    BY <2>1, <2>2, <2>3, <2>4, <2>5, <1>g
<1> QED
  BY <1>1, <1>2, <1>3, <1>4, <1>5, <1>6, <1>7, <1>8, <1>9 DEF I!Next

\* The machine is switched on with the timer armed and every thread ready.
LEMMA InitMachine ==
  ASSUME I!Init
  PROVE  MachineInv
<1>1. Agenda(<<>>) /\ I!Types(<<>>) = {}
  BY EmptySeq DEF Agenda, InTime, OneEach, I!Types
<1>2. PICK d \in TimerDelay : pending = I!Schedule(<<>>, "timer", d)
  BY DEF I!Init
<1>3. d \in Int /\ "timer" \notin I!Types(<<>>)
  BY <1>1, HardwareConstants
<1>4. /\ Agenda(pending) /\ I!Types(pending) = {"timer"}
      /\ \A i \in 1 .. Len(pending) :
           \/ pending[i].left = d /\ pending[i].type = "timer"
           \/ \E j \in 1 .. Len(<<>>) : pending[i] = <<>>[j]
  BY <1>1, <1>2, <1>3, ScheduleFacts
<1>5. \A i \in DOMAIN pending : pending[i].type = "timer"
  BY <1>4 DEF I!Types
<1>6. /\ level = "IntOn" /\ yieldOnReturn = FALSE /\ machineStatus = "SystemMode"
      /\ at = "code" /\ runnable = NumThreads /\ waiting = {}
  BY DEF I!Init
<1>7. Threads
  <2>1. IsFiniteSet({}) /\ Cardinality({}) = 0
    BY FS_EmptySet
  <2>2. NumThreads \in Nat \ {0}
    BY HardwareConstants
  <2>3. runnable > 0 /\ runnable + Cardinality(waiting) <= NumThreads
    BY <1>6, <2>1, <2>2
  <2> QED
    BY <1>6, <2>1, <2>3 DEF Threads
<1>8. I!TypeOK
  <2>1. runnable \in 0 .. NumThreads
    BY <1>6, HardwareConstants
  <2>2. pending \in Seq(I!Entry)
    BY <1>4 DEF Agenda
  <2> QED
    BY <1>6, <2>1, <2>2 DEF I!TypeOK
<1>9. I!NothingOverdue
  BY <1>5, <1>6, <1>8 DEF I!NothingOverdue
<1> QED
  BY <1>4, <1>7, <1>9 DEF MachineInv

\* The invariant says what the run checks.
LEMMA MachineSound ==
  ASSUME MachineInv
  PROVE  I!NothingOverdue /\ I!TimerArmed /\ I!HaltsOnlyWhenIdle
<1>1. /\ Agenda(pending) /\ "timer" \in I!Types(pending) /\ Threads
      /\ pending \in Seq(I!Entry) /\ waiting \subseteq I!Device
  BY DEF MachineInv, I!NothingOverdue, I!TypeOK
<1>2. /\ DOMAIN pending = 1 .. Len(pending)
      /\ I!Types(pending) = {pending[i].type : i \in 1 .. Len(pending)}
  BY <1>1, EntryFacts
<1>3. I!TimerArmed
  <2>1. PICK k \in 1 .. Len(pending) : pending[k].type = "timer"
    BY <1>1, <1>2
  <2>2. {i \in DOMAIN pending : pending[i].type = "timer"} = {k}
    BY <1>1, <1>2, <2>1 DEF Agenda, OneEach
  <2>3. Cardinality({k}) = 1
    BY FS_Singleton
  <2> QED
    BY <2>2, <2>3, HardwareLists DEF I!TimerArmed
<1>4. I!HaltsOnlyWhenIdle
  BY <1>1, HardwareConstants DEF Threads, I!HaltsOnlyWhenIdle
<1> QED
  BY <1>3, <1>4 DEF MachineInv

LEMMA DevicesStep ==
  ASSUME subject = "interrupt" => MachineInv, [DevicesNext]_everyVar
  PROVE  (subject = "interrupt" => MachineInv)'
<1>1. CASE Interrupts /\ I!Next
  BY <1>1, StepMachine DEF Interrupts
<1>2. CASE subject = "mail" /\ Next /\ UNCHANGED <<subject, interruptVars>>
  BY <1>2
<1>3. CASE UNCHANGED everyVar
  BY <1>3 DEF everyVar, interruptVars, MachineInv, Agenda, InTime, OneEach, Threads, I!Types,
    I!NothingOverdue, I!TypeOK
<1> QED
  BY <1>1, <1>2, <1>3 DEF DevicesNext

\* Nothing that was due is left behind when a thread's code runs, the timer is
\* armed exactly once, and the machine halts only when nothing but the timer
\* is pending and nobody waits: CheckIfDue(), OneTick() and Idle() in
\* interrupt.cc, for any number of threads and devices and any delays.
THEOREM DevicesInterrupts == DevicesSpec => []InterruptInv
<1>1. DevicesInit => (subject = "interrupt" => MachineInv)
  BY InitMachine DEF DevicesInit
<1>2. (subject = "interrupt" => MachineInv) /\ [DevicesNext]_everyVar
        => (subject = "interrupt" => MachineInv)'
  BY DevicesStep
<1>3. (subject = "interrupt" => MachineInv) => InterruptInv
  BY MachineSound DEF InterruptInv
<1> QED
  BY <1>1, <1>2, <1>3, PTL DEF DevicesSpec

-----------------------------------------------------------------------------
(* The order in which interrupts are handled.                              *)

\* What the code may do to the entry of a device that does not rearm itself.
InOrderStep ==
  \A d \in OneShot :
    d \in I!Types(pending) /\ d \notin I!Types(pending') =>
      LET left == pending[CHOOSE i \in DOMAIN pending : pending[i].type = d].left
      IN  /\ left <= 0 \/ (at = "idle" /\ pending[1].type = d)
          /\ \A i \in DOMAIN pending : left <= pending[i].left

\* Only a handler takes an entry off the list, and it takes the first.
LEMMA StepInTime ==
  ASSUME MachineInv, I!Next
  PROVE  InOrderStep
<1>1. /\ Agenda(pending) /\ "timer" \in I!Types(pending) /\ Accounted(pending)
      /\ pending # <<>> /\ yieldOnReturn \in BOOLEAN
  <2>1. I!Types(<<>>) = {}
    BY DEF I!Types
  <2> QED
    BY <2>1 DEF MachineInv, Threads, I!NothingOverdue, I!TypeOK, Accounted
<1>2. /\ DOMAIN pending = 1 .. Len(pending) /\ Len(pending) \in Nat
      /\ I!Types(pending) = {pending[i].type : i \in 1 .. Len(pending)}
  BY <1>1, EntryFacts DEF Agenda
<1>3. /\ Head(pending) = pending[1] /\ 1 \in 1 .. Len(pending)
      /\ \A i \in 1 .. Len(pending) : Head(pending).left <= pending[i].left
  BY <1>1, <1>2, TakeFacts, LenProperties, EmptySeq DEF Agenda
<1> SUFFICES ASSUME NEW d \in OneShot, d \in I!Types(pending), d \notin I!Types(pending')
             PROVE  LET left == pending[CHOOSE i \in DOMAIN pending : pending[i].type = d].left
                    IN  /\ left <= 0 \/ (at = "idle" /\ pending[1].type = d)
                        /\ \A i \in DOMAIN pending : left <= pending[i].left
  BY DEF InOrderStep
<1>4. ASSUME pending[1].type = d, Head(pending).left <= 0 \/ at = "idle"
      PROVE  LET left == pending[CHOOSE i \in DOMAIN pending : pending[i].type = d].left
             IN  /\ left <= 0 \/ (at = "idle" /\ pending[1].type = d)
                 /\ \A i \in DOMAIN pending : left <= pending[i].left
  <2>1. (CHOOSE i \in DOMAIN pending : pending[i].type = d) = 1
    BY <1>1, <1>2, <1>3, <1>4 DEF Agenda, OneEach
  <2> QED
    BY <1>2, <1>3, <1>4, <2>1
<1>5. CASE UNCHANGED pending
  BY <1>5
<1>6. CASE I!OneTick
  <2>1. PICK ticks \in Int : pending' = I!Advance(pending, ticks)
    BY <1>6, HardwareConstants DEF I!OneTick
  <2> QED
    BY <1>1, <2>1, AdvanceFacts
<1>7. ASSUME NEW e \in I!Device, I!StartDevice(e)
      PROVE  FALSE
  <2>1. PICK fromNow \in DeviceDelay : pending' = I!Schedule(pending, e, fromNow)
    BY <1>7 DEF I!StartDevice
  <2>2. fromNow \in Int /\ e \notin I!Types(pending)
    BY <1>7, HardwareConstants DEF I!StartDevice
  <2>3. I!Types(pending') = I!Types(pending) \cup {e}
    BY <1>1, <2>1, <2>2, ScheduleFacts
  <2> QED
    BY <2>3
<1>8. CASE I!Fire
  <2>1. Head(pending).left <= 0 /\ I!Handle(Head(pending), Tail(pending))
    BY <1>8 DEF I!Fire, I!HeadDue
  <2>2. I!Types(pending) \ {Head(pending).type} \subseteq I!Types(pending')
    BY <1>1, <2>1, HandleFacts
  <2>3. pending[1].type = d
    BY <1>3, <2>2
  <2> QED
    BY <1>4, <2>1, <2>3
<1>9. CASE I!Idle
  <2> DEFINE ticks == IF Head(pending).left > 0 THEN Head(pending).left ELSE 0
  <2>1. ticks \in Int
    BY <1>1, TakeFacts
  <2>2. PICK now : now = I!Advance(pending, ticks)
    OBVIOUS
  <2>3. /\ Agenda(now) /\ I!Types(now) = I!Types(pending) /\ Len(now) = Len(pending)
        /\ \A i \in 1 .. Len(pending) : now[i].type = pending[i].type
    BY <1>1, <2>1, <2>2, AdvanceFacts
  <2>4. at = "idle" /\ (pending' = now \/ I!Handle(Head(now), Tail(now)))
    BY <1>9, <2>2 DEF I!Idle
  <2> HIDE DEF ticks
  <2>5. I!Handle(Head(now), Tail(now))
    BY <2>3, <2>4
  <2>6. now # <<>> /\ Accounted(now)
    <3>1. I!Types(<<>>) = {}
      BY DEF I!Types
    <3> QED
      BY <1>1, <2>3, <3>1 DEF Accounted
  <2>7. I!Types(now) \ {Head(now).type} \subseteq I!Types(pending')
    BY <1>1, <2>3, <2>5, <2>6, HandleFacts
  <2>8. Head(now) = now[1]
    BY <2>3, <2>6, TakeFacts
  <2>9. pending[1].type = d
    BY <1>3, <2>3, <2>7, <2>8
  <2> QED
    BY <1>4, <2>4, <2>9
<1>10. \/ UNCHANGED pending \/ I!OneTick \/ I!Fire \/ I!Idle
       \/ \E e \in I!Device : I!StartDevice(e)
  BY DEF I!Next, I!Disable, I!EnterUser, I!EnterSystem, I!Sleep, I!Finish, I!TickDone, I!IdleDone
<1> QED
  BY <1>5, <1>6, <1>7, <1>8, <1>9, <1>10

\* A device's interrupt is handled when it is due and not before - or when
\* the idle machine rolls the clock forward to it - and never before another
\* that is due earlier: SortedInsert(), CheckIfDue() and Idle().
THEOREM DevicesFireInOrder == DevicesSpec => FiresInOrder
<1>1. DevicesInit => (subject = "interrupt" => MachineInv)
  BY InitMachine DEF DevicesInit
<1>2. (subject = "interrupt" => MachineInv) /\ [DevicesNext]_everyVar
        => (subject = "interrupt" => MachineInv)'
  BY DevicesStep
<1>3. (subject = "interrupt" => MachineInv) /\ [DevicesNext]_everyVar => [InOrderStep]_I!vars
  <2> SUFFICES ASSUME subject = "interrupt" => MachineInv, [DevicesNext]_everyVar
               PROVE  InOrderStep \/ UNCHANGED interruptVars
    BY DEF interruptVars, I!vars
  <2>1. CASE Interrupts /\ I!Next
    BY <2>1, StepInTime DEF Interrupts
  <2>2. CASE UNCHANGED interruptVars
    BY <2>2
  <2> QED
    BY <2>1, <2>2 DEF DevicesNext, everyVar
<1>4. DevicesSpec => [][InOrderStep]_I!vars
  BY <1>1, <1>2, <1>3, PTL DEF DevicesSpec
<1> QED
  BY <1>4, PTL DEF FiresInOrder, I!FiresInOrder, InOrderStep

=============================================================================
