----------------------------- MODULE MCDevices -----------------------------
(***************************************************************************)
(* The devices and those who use them, one subject at a time, chosen at    *)
(* the start.                                                              *)
(*   "interrupt"  Interrupt: a disk, an output device and a polled input   *)
(*                device between two threads and the timer                 *)
(*   "mail"       PostOffice: some senders, one receiver for each mail box *)
(***************************************************************************)
EXTENDS PostOffice, TLC

CONSTANTS
  OneShot, Poller, NumThreads, SystemTick, UserTick, TimerDelay, DeviceDelay

VARIABLES
  subject,
  pending, level, yieldOnReturn, machineStatus, at, runnable, waiting

I == INSTANCE Interrupt WITH status <- machineStatus, pc <- at

ASSUME InterruptAssumption == I!ConstantsOK

interruptVars == <<pending, level, yieldOnReturn, machineStatus, at, runnable, waiting>>
everyVar == <<vars, interruptVars, subject>>

\* A machine that is switched off: no time passes on it.
NoInterrupts ==
  /\ pending = <<>> /\ level = NULL /\ yieldOnReturn = NULL
  /\ machineStatus = NULL /\ at = NULL /\ runnable = NULL /\ waiting = {}

\* The post office is always there, but nobody uses it in the first subject.
DevicesInit ==
  /\ Init
  /\ \/ subject = "interrupt" /\ I!Init
     \/ subject = "mail" /\ NoInterrupts

Interrupts == subject = "interrupt" /\ UNCHANGED <<subject, vars>>

DevicesNext ==
  \/ Interrupts /\ I!Next
  \/ subject = "mail" /\ Next /\ UNCHANGED <<subject, interruptVars>>

\* The simulator never stops by itself, and user programs do not only switch
\* between the two modes.
DevicesSpec ==
  /\ DevicesInit /\ [][DevicesNext]_everyVar
  /\ WF_everyVar(Interrupts /\ I!Next) /\ SF_everyVar(Interrupts /\ I!OneTick)

-----------------------------------------------------------------------------
\* What was due is done, the timer is armed once, and the machine halts only
\* when nothing is left to wait for.
InterruptInv ==
  subject = "interrupt" => I!NothingOverdue /\ I!TimerArmed /\ I!HaltsOnlyWhenIdle

\* An interrupt is handled when it is due and not before, in order of time.
FiresInOrder == I!FiresInOrder

\* A thread that sleeps for the end of a request to a device is woken.
SleeperWakes == I!SleeperWakes

-----------------------------------------------------------------------------
\* The constants of the post office.
CONSTANTS main, lock1, lock2, cond1, cond2, box1, box2, receiver1

MCThread == {main, worker} \cup Sender \cup Receiver
MCPriority == [t \in MCThread |-> IF t = main THEN 0 ELSE 7]
MCForkOrder == <<worker, receiver1>> \o SetToSeq(Sender)
MCBoxOf(r) == IF r = receiver1 THEN box1 ELSE box2
MCBoxLock(b) == IF b = box1 THEN lock1 ELSE lock2
MCBoxCond(b) == IF b = box1 THEN cond1 ELSE cond2
MCLock == {sendLock} \cup {MCBoxLock(b) : b \in Box}
MCSemaphore == {messageAvailable, messageSent} \cup MCLock
MCCondition == {MCBoxCond(b) : b \in Box}
MCInitialValue == [s \in MCSemaphore |-> IF s \in MCLock THEN 1 ELSE 0]
=============================================================================
