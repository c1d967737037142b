----------------------------- MODULE PostOffice -----------------------------
(***************************************************************************)
(* The post office of post.cc over the network device of network.cc, on    *)
(* one machine that mails itself: threads that send, threads that receive  *)
(* from a mail box, and the postal worker between the device and the       *)
(* boxes.  The boxes are the lists of synchlist.cc.  The network loses and *)
(* delays packets; when its interrupts come is left open.                  *)
(***************************************************************************)
EXTENDS Program

CONSTANTS
  Sender, Receiver, worker,          \* the threads
  ForkOrder,                         \* the order in which they are forked
  Count,                             \* bound: how many messages each sender sends
  Takes,                             \* bound: how many each receiver receives
  Box,                               \* the mail boxes
  BoxOf(_),                          \* the box a receiver reads
  CanLose, CanDelay,                 \* reliability < 1, orderability < 1
  messageAvailable, messageSent, sendLock,
  boxLock(_), boxCond(_)             \* each box's lock and condition

\* The header of a message that is on its way.
Message == [from : Sender, value : Nat, to : Box]

ASSUME PostOfficeAssumption ==
  /\ Count \in Nat /\ Takes \in Nat
  /\ Thread = {Main, worker} \cup Sender \cup Receiver
  /\ Main # worker /\ {Main, worker} \cap (Sender \cup Receiver) = {}
  /\ Sender \cap Receiver = {}
  /\ ForkOrder \in Seq(Thread) /\ Range(ForkOrder) = Thread \ {Main}
  /\ Head(ForkOrder) = worker
  /\ Lock = {sendLock} \cup {boxLock(b) : b \in Box}
  /\ Semaphore = {messageAvailable, messageSent} \cup Lock
  /\ messageAvailable # messageSent
  /\ messageAvailable \notin Lock /\ messageSent \notin Lock
  /\ Condition = {boxCond(b) : b \in Box}
  /\ \A b \in Box : boxLock(b) # sendLock
  /\ \A a, b \in Box : a # b => boxLock(a) # boxLock(b) /\ boxCond(a) # boxCond(b)
  /\ InitialValue[messageAvailable] = 0 /\ InitialValue[messageSent] = 0
  /\ \A r \in Receiver : BoxOf(r) \in Box
  /\ NULL \notin Message

VARIABLES
  socket,    \* the packets sent to this machine and not yet read
  inHdr,     \* the packet read from the socket and not yet Receive()d, or NULL
  delayBuf,  \* the delayed packet, or NULL
  sending,   \* whether an interrupt NetworkSendDone is scheduled
  messages,  \* the messages in each box
  mail,      \* the worker's local variable, or NULL
  num,       \* how many messages each sender has handed to the network
  got        \* history: what each receiver has received

progVars == <<socket, inHdr, delayBuf, sending, messages, mail, num, got>>
vars == <<kernelVars, pc, progVars>>

Init ==
  /\ SynchInit
  /\ pc = [t \in Thread |-> CASE t = Main -> "fork"
                              [] t = worker -> "PostalDelivery"
                              [] t \in Sender -> "Send"
                              [] OTHER -> "Receive"]
  /\ socket = <<>>
  /\ inHdr = NULL
  /\ delayBuf = NULL
  /\ sending = FALSE
  /\ messages = [b \in Box |-> <<>>]
  /\ mail = NULL
  /\ num = [s \in Sender |-> 0]
  /\ got = [r \in Receiver |-> <<>>]

-----------------------------------------------------------------------------
ForkPending == {i \in DOMAIN ForkOrder : status[ForkOrder[i]] = "JUST_CREATED"}

\* The PostOffice constructor forks the worker before anybody can use it.
MainFork ==
  /\ ForkPending # {}
  /\ CallFork(Main, ForkOrder[Min(ForkPending)], "fork")
  /\ UNCHANGED progVars

MainFinish ==
  /\ ForkPending = {}
  /\ CallFinish(Main, "fork")
  /\ UNCHANGED progVars

\* PostOffice::Send()
SendAcquire(s) ==
  /\ num[s] < Count
  /\ CallAcquire(s, sendLock, "Send", "network")
  /\ UNCHANGED progVars

\* Mutant: the delayed packet is sent again with every later one.
Transmit_DelayedTwice(packet) ==
  \/ CanLose /\ UNCHANGED <<socket, delayBuf>>
  \/ /\ CanDelay /\ delayBuf = NULL
     /\ delayBuf' = packet
     /\ UNCHANGED socket
  \/ /\ socket' = (IF delayBuf = NULL THEN socket ELSE Append(socket, delayBuf))
                   \o <<packet>>
     /\ UNCHANGED delayBuf

\* Network::Send(): lost, delayed (the packet delayed before is let go) or sent.
Transmit(packet) ==
  \/ CanLose /\ UNCHANGED <<socket, delayBuf>>
  \/ /\ CanDelay
     /\ socket' = IF delayBuf = NULL THEN socket ELSE Append(socket, delayBuf)
     /\ delayBuf' = packet
  \/ /\ socket' = Append(socket, packet)
     /\ UNCHANGED delayBuf

\* network->Send() and messageSent->P(), with no break between.
NetworkSend(s) ==
  /\ inP[s] = NULL
  /\ CallP(s, messageSent, "network", "unlock")
  /\ \E b \in Box : Transmit([from |-> s, value |-> num[s], to |-> b])
  /\ sending' = TRUE
  /\ num' = [num EXCEPT ![s] = @ + 1]
  /\ UNCHANGED <<inHdr, messages, mail, got>>

AwaitSent(s) ==
  /\ inP[s] = messageSent
  /\ CallP(s, messageSent, "network", "unlock")
  /\ UNCHANGED progVars

SendRelease(s) ==
  /\ CallRelease(s, sendLock, "unlock", "Send")
  /\ UNCHANGED progVars

SenderFinish(s) ==
  /\ num[s] = Count
  /\ CallFinish(s, "Send")
  /\ UNCHANGED progVars

-----------------------------------------------------------------------------
\* The interrupt handlers, called from the idle loop or when the running
\* thread enables interrupts.

\* Mutant: the handler is not called.
SendDone_Silent ==
  /\ sending
  /\ Idling \/ AtUserCode(current)
  /\ sending' = FALSE
  /\ UNCHANGED <<kernelVars, pc, socket, inHdr, delayBuf, messages, mail, num, got>>

\* Network::SendDone() and PostOffice::PacketSent()
SendDone ==
  /\ sending
  /\ Idling \/ AtUserCode(current)
  /\ sending' = FALSE
  /\ V(messageSent)
  /\ UNCHANGED <<pc, socket, inHdr, delayBuf, messages, mail, num, got>>

\* Network::CheckPktAvail() and PostOffice::IncomingPacket()
CheckPktAvail ==
  /\ inHdr = NULL /\ socket # <<>>
  /\ Idling \/ AtUserCode(current)
  /\ inHdr' = Head(socket)
  /\ socket' = Tail(socket)
  /\ V(messageAvailable)
  /\ UNCHANGED <<pc, delayBuf, sending, messages, mail, num, got>>

LeaveIdle == Dispatch /\ UNCHANGED <<synchVars, pc, progVars>>

-----------------------------------------------------------------------------
\* PostOffice::PostalDelivery()
AwaitMessage ==
  /\ CallP(worker, messageAvailable, "PostalDelivery", "Put")
  /\ UNCHANGED progVars

\* network->Receive(), then MailBox::Put() up to its Acquire().
PutAcquire ==
  /\ inP[worker] = NULL /\ pc[worker] = "Put" /\ inHdr # NULL
  /\ CallAcquire(worker, boxLock(inHdr.to), "Put", "Put.signal")
  /\ mail' = inHdr
  /\ inHdr' = NULL
  /\ UNCHANGED <<socket, delayBuf, sending, messages, num, got>>

PutReacquire ==
  /\ inP[worker] # NULL /\ pc[worker] = "Put"
  /\ CallAcquire(worker, boxLock(mail.to), "Put", "Put.signal")
  /\ UNCHANGED progVars

PutSignal ==
  /\ pc[worker] = "Put.signal"
  /\ CallSignal(worker, boxCond(mail.to), boxLock(mail.to), "Put.signal", "Put.Release")
  /\ messages' = [messages EXCEPT ![mail.to] = Append(@, mail)]
  /\ UNCHANGED <<socket, inHdr, delayBuf, sending, mail, num, got>>

PutRelease ==
  /\ pc[worker] = "Put.Release"
  /\ CallRelease(worker, boxLock(mail.to), "Put.Release", "PostalDelivery")
  /\ mail' = NULL
  /\ UNCHANGED <<socket, inHdr, delayBuf, sending, messages, num, got>>

-----------------------------------------------------------------------------
\* PostOffice::Receive(): MailBox::Get()
GetAcquire(r) ==
  /\ Len(got[r]) < Takes
  /\ CallAcquire(r, boxLock(BoxOf(r)), "Receive", "Get")
  /\ UNCHANGED progVars

GetWait(r) ==
  /\ messages[BoxOf(r)] = <<>> \/ inP[r] # NULL
  /\ CallWait(r, boxCond(BoxOf(r)), boxLock(BoxOf(r)), "Get", "Get")
  /\ UNCHANGED progVars

GetItem(r) ==
  /\ messages[BoxOf(r)] # <<>>
  /\ CallRelease(r, boxLock(BoxOf(r)), "Get", "Receive")
  /\ got' = [got EXCEPT ![r] = Append(@, Head(messages[BoxOf(r)]))]
  /\ messages' = [messages EXCEPT ![BoxOf(r)] = Tail(@)]
  /\ UNCHANGED <<socket, inHdr, delayBuf, sending, mail, num>>

ReceiverFinish(r) ==
  /\ Len(got[r]) = Takes
  /\ CallFinish(r, "Receive")
  /\ UNCHANGED progVars

SenderStep(s) ==
  SendAcquire(s) \/ NetworkSend(s) \/ AwaitSent(s) \/ SendRelease(s) \/ SenderFinish(s)

WorkerStep == AwaitMessage \/ PutAcquire \/ PutReacquire \/ PutSignal \/ PutRelease

ReceiverStep(r) == GetAcquire(r) \/ GetWait(r) \/ GetItem(r) \/ ReceiverFinish(r)

TimeSlice == Preempt /\ UNCHANGED progVars

Next ==
  \/ MainFork \/ MainFinish
  \/ \E s \in Sender : SenderStep(s)
  \/ WorkerStep
  \/ \E r \in Receiver : ReceiverStep(r)
  \/ SendDone \/ CheckPktAvail \/ LeaveIdle \/ TimeSlice

Spec == Init /\ [][Next]_vars

-----------------------------------------------------------------------------
\* Network::Send() is called only when the network is done with the packet
\* before: its ASSERT(sendBusy == FALSE), though the code never sets sendBusy,
\* and no signal is left over for the next sender.  And when the worker calls
\* Receive() a packet is buffered: it never takes the header of a message from
\* a buffer that nothing was read into.
ReadyForIt ==
  /\ \A s \in Sender :
       pc[s] = "network" /\ inP[s] = NULL => ~sending /\ value[messageSent] = 0
  /\ pc[worker] = "Put" /\ inP[worker] = NULL => inHdr # NULL

\* The machine stops stepping only with nothing left to read or to deliver.
QuietWhenDelivered ==
  Halted /\ ~sending /\ inHdr = NULL /\ socket = <<>> =>
    /\ {Main} \cup Sender \subseteq finished
    /\ mail = NULL
    /\ \A r \in Receiver : r \in finished \/ messages[BoxOf(r)] = <<>>

\* The handshake of post.cc and network.cc, with two senders and losses: each
\* side is ready when the other calls it, and no message is left behind for
\* want of a signal.
NetworkInv == ReadyForIt /\ QuietWhenDelivered

UnderWay ==
  ToSet(socket) \cup (UNION {ToSet(messages[b]) : b \in Box})
  \cup ({inHdr, delayBuf} \ {NULL})
  \cup (IF mail # NULL /\ pc[worker] # "Put.Release" THEN {mail} ELSE {})

Abstract == INSTANCE Mail WITH transit <- UnderWay, sent <- num, received <- got

\* No message arrives twice, altered, or in another box than its own.
MailSpec == Abstract!Spec

=============================================================================
