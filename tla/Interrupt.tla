----------------------------- MODULE Interrupt -----------------------------
(***************************************************************************)
(* The simulated interrupt hardware: interrupt.cc, with timer.cc and the   *)
(* device simulators seen as users of Interrupt::Schedule().               *)
(*                                                                         *)
(* Simulated time is kept relative: an entry of pending holds the ticks    *)
(* left until it is due (when - stats->totalTicks), and time passes by     *)
(* lowering all of them.  Of the threads this module knows how many can    *)
(* run and which device each of the others sleeps for.                     *)
(***************************************************************************)
EXTENDS Integers, FiniteSets, Sequences, SequencesExt

CONSTANTS
  OneShot,      \* devices that interrupt once per request (disk, console and
                \* network output)
  Poller,       \* devices that rearm themselves for ever (console and
                \* network input)
  NumThreads,
  SystemTick, UserTick,
  TimerDelay,   \* what Timer::TimeOfNextInterrupt() may return
  DeviceDelay   \* the fromNow of the device simulators

Device == OneShot \cup Poller

\* What holds of the constants: assumed by the module that gives them values.
ConstantsOK ==
  /\ NumThreads \in Nat \ {0}
  /\ SystemTick \in Nat \ {0} /\ UserTick \in Nat \ {0}
  /\ TimerDelay \subseteq Nat \ {0} /\ TimerDelay # {}
  /\ DeviceDelay \subseteq Nat \ {0} /\ DeviceDelay # {}
  /\ "timer" \notin Device

VARIABLES
  pending,        \* Interrupt::pending
  level,          \* Interrupt::level
  yieldOnReturn,  \* Interrupt::yieldOnReturn
  status,         \* Interrupt::status
  pc,             \* "code", or where in OneTick() and Idle() the CPU is
  runnable,       \* how many threads run or are ready
  waiting         \* the devices for which a thread sleeps

vars == <<pending, level, yieldOnReturn, status, pc, runnable, waiting>>

Entry == [type : Device \cup {"timer"}, left : Int]

Types(list) == {list[i].type : i \in DOMAIN list}

\* List::SortedInsert() with when as the key: equal keys in arrival order.
SortedInsert(list, e) ==
  LET later == {i \in DOMAIN list : e.left < list[i].left}
  IN  InsertAt(list, IF later = {} THEN Len(list) + 1 ELSE Min(later), e)

\* Mutant: the list is not kept sorted.
Schedule_AtEnd(list, type, fromNow) == Append(list, [type |-> type, left |-> fromNow])

\* Interrupt::Schedule()
Schedule(list, type, fromNow) == SortedInsert(list, [type |-> type, left |-> fromNow])

\* stats->totalTicks advances.
Advance(list, ticks) == [i \in DOMAIN list |-> [list[i] EXCEPT !.left = @ - ticks]]

Init ==
  /\ \E d \in TimerDelay : pending = Schedule(<<>>, "timer", d)
  /\ level = "IntOn"
  /\ yieldOnReturn = FALSE
  /\ status = "SystemMode"
  /\ pc = "code"
  /\ runnable = NumThreads
  /\ waiting = {}

-----------------------------------------------------------------------------
\* SetLevel(IntOff)
Disable ==
  /\ pc = "code" /\ level = "IntOn" /\ status = "SystemMode"
  /\ level' = "IntOff"
  /\ UNCHANGED <<pending, yieldOnReturn, status, pc, runnable, waiting>>

\* OneTick() up to its loop: from SetLevel(IntOn), or after a user instruction.
OneTick ==
  /\ pc = "code"
  /\ (level = "IntOff" /\ status = "SystemMode") \/ status = "UserMode"
  /\ pending' = Advance(pending, IF status = "SystemMode" THEN SystemTick ELSE UserTick)
  /\ level' = "IntOff"
  /\ pc' = "tick"
  /\ UNCHANGED <<yieldOnReturn, status, runnable, waiting>>

\* Machine::Run() and Machine::RaiseException() switch the mode.
EnterUser ==
  /\ pc = "code" /\ level = "IntOn" /\ status = "SystemMode"
  /\ status' = "UserMode"
  /\ UNCHANGED <<pending, level, yieldOnReturn, pc, runnable, waiting>>

EnterSystem ==
  /\ pc = "code" /\ status = "UserMode"
  /\ status' = "SystemMode"
  /\ UNCHANGED <<pending, level, yieldOnReturn, pc, runnable, waiting>>

\* A device simulator is given a request (or, for a poller, is created).
StartDevice(d) ==
  /\ pc = "code" /\ status = "SystemMode"
  /\ d \notin Types(pending)
  /\ \E fromNow \in DeviceDelay : pending' = Schedule(pending, d, fromNow)
  /\ UNCHANGED <<level, yieldOnReturn, status, pc, runnable, waiting>>

\* The running thread leaves the CPU: to the next ready thread, or to Idle().
LeaveCPU ==
  /\ runnable' = runnable - 1
  /\ IF runnable > 1
       THEN UNCHANGED <<pc, status>>
       ELSE pc' = "idle" /\ status' = "IdleMode"

\* Thread::Sleep() until device d interrupts.
Sleep(d) ==
  /\ pc = "code" /\ level = "IntOff"
  /\ d \in Types(pending) /\ d \notin waiting
  /\ waiting' = waiting \cup {d}
  /\ LeaveCPU
  /\ UNCHANGED <<pending, level, yieldOnReturn>>

Finish ==
  /\ pc = "code" /\ level = "IntOff"
  /\ LeaveCPU
  /\ UNCHANGED <<pending, level, yieldOnReturn, waiting>>

-----------------------------------------------------------------------------
\* The V() of a device's handler readies the thread that sleeps for it.
Wake(d) ==
  /\ waiting' = waiting \ {d}
  /\ runnable' = IF d \in waiting THEN runnable + 1 ELSE runnable

\* The handler of the entry just taken off the list: the timer and the
\* pollers rearm themselves, a device wakes its sleeper.  A poll that finds
\* nothing to read, or the last character or packet still in its buffer,
\* wakes nobody.  CheckIfDue() sets SystemMode around the handler, so the
\* test for IdleMode in TimerInterruptHandler() never fails.
Handle(e, rest) ==
  /\ IF e.type = "timer"
       THEN /\ \E d \in TimerDelay : pending' = Schedule(rest, "timer", d)
            /\ yieldOnReturn' = TRUE
       ELSE /\ IF e.type \in Poller
                 THEN \E d \in DeviceDelay : pending' = Schedule(rest, e.type, d)
                 ELSE pending' = rest
            /\ UNCHANGED yieldOnReturn
  /\ \/ Wake(e.type)
     \/ e.type \in Poller /\ UNCHANGED <<waiting, runnable>>

HeadDue == pending # <<>> /\ Head(pending).left <= 0

\* CheckIfDue() puts a timer interrupt back when it is the only one and the
\* machine is idle, even one that is due: Idle()'s loop ends there.
OnlyTimerInIdle == status = "IdleMode" /\ Types(pending) = {"timer"}

\* One round of "while (CheckIfDue(FALSE))" in OneTick() and in Idle().
Fire ==
  /\ pc \in {"tick", "idleLoop"} /\ HeadDue /\ ~OnlyTimerInIdle
  /\ Handle(Head(pending), Tail(pending))
  /\ UNCHANGED <<level, status, pc>>

\* The end of OneTick(): interrupts on again, or straight into the Yield()
\* the timer asked for, which turns them off.
TickDone ==
  /\ pc = "tick" /\ ~HeadDue
  /\ pc' = "code"
  /\ IF yieldOnReturn
       THEN yieldOnReturn' = FALSE /\ status' = "SystemMode" /\ UNCHANGED level
       ELSE level' = "IntOn" /\ UNCHANGED <<yieldOnReturn, status>>
  /\ UNCHANGED <<pending, runnable, waiting>>

\* Mutant: the clock is not rolled forward.
Idle_NoAdvance ==
  /\ pc = "idle"
  /\ IF HeadDue
       THEN pc' = "idleLoop" /\ Handle(Head(pending), Tail(pending))
       ELSE pc' = "halted" /\ UNCHANGED <<pending, yieldOnReturn, waiting, runnable>>
  /\ UNCHANGED <<level, status>>

\* Idle()'s CheckIfDue(TRUE): roll time forward to the first entry.  If that
\* is the timer and nothing else is pending the machine halts.
Idle ==
  /\ pc = "idle"
  /\ LET first == Head(pending)
         now == Advance(pending, IF first.left > 0 THEN first.left ELSE 0)
     IN  IF first.type = "timer" /\ Len(pending) = 1
           THEN /\ pc' = "halted"
                /\ pending' = now
                /\ UNCHANGED <<yieldOnReturn, waiting, runnable>>
           ELSE /\ pc' = "idleLoop"
                /\ Handle(Head(now), Tail(now))
  /\ UNCHANGED <<level, status>>

\* Mutant: the request of a timer that fired while idle is kept.
IdleDone_KeepsYield ==
  /\ pc = "idleLoop"
  /\ ~HeadDue \/ OnlyTimerInIdle
  /\ status' = IF runnable = 0 THEN "IdleMode" ELSE "SystemMode"
  /\ pc' = IF runnable = 0 THEN "idle" ELSE "code"
  /\ UNCHANGED <<pending, level, yieldOnReturn, runnable, waiting>>

\* Idle() returns to the loop in Thread::Sleep(), which calls it again until
\* a thread is ready.
IdleDone ==
  /\ pc = "idleLoop"
  /\ ~HeadDue \/ OnlyTimerInIdle
  /\ yieldOnReturn' = FALSE
  /\ status' = IF runnable = 0 THEN "IdleMode" ELSE "SystemMode"
  /\ pc' = IF runnable = 0 THEN "idle" ELSE "code"
  /\ UNCHANGED <<pending, level, runnable, waiting>>

Next ==
  \/ Disable \/ OneTick \/ EnterUser \/ EnterSystem
  \/ \E d \in Device : StartDevice(d) \/ Sleep(d)
  \/ Finish
  \/ Fire \/ TickDone \/ Idle \/ IdleDone

\* The simulator never stops by itself, and user programs do not only switch
\* between the two modes.
Spec == Init /\ [][Next]_vars /\ WF_vars(Next) /\ SF_vars(OneTick)

-----------------------------------------------------------------------------
TypeOK ==
  /\ pending \in Seq(Entry)
  /\ level \in {"IntOn", "IntOff"}
  /\ yieldOnReturn \in BOOLEAN
  /\ status \in {"SystemMode", "UserMode", "IdleMode"}
  /\ pc \in {"code", "tick", "idle", "idleLoop", "halted"}
  /\ runnable \in 0 .. NumThreads
  /\ waiting \subseteq Device

\* When a thread's code runs, every interrupt that was due has been handled,
\* none is left behind by a tick or by the idle loop (interrupt.cc) - but the
\* timer's, which the idle loop puts back when it is the last one.  Nor is the
\* timer's request for a context switch, made for a tick long past.
NothingOverdue ==
  /\ TypeOK
  /\ pc = "code" =>
       /\ \A i \in DOMAIN pending :
            pending[i].left > 0 \/ pending[i].type = "timer"
       /\ ~yieldOnReturn

\* The timer is armed exactly once, whatever fires beside it and whatever
\* Idle() takes off the list and puts back.
TimerArmed == Cardinality({i \in DOMAIN pending : pending[i].type = "timer"}) = 1

\* The machine halts only when no thread sleeps for a device, and never
\* while a device that rearms itself is in use (interrupt.cc:225-228).
HaltsOnlyWhenIdle ==
  pc = "halted" => /\ waiting = {}
                   /\ runnable = 0
                   /\ Types(pending) = {"timer"}

\* An interrupt is handled when it is due and not before, in order of time.
FiresInOrder ==
  [][\A d \in OneShot :
       d \in Types(pending) /\ d \notin Types(pending') =>
         LET left == pending[CHOOSE i \in DOMAIN pending : pending[i].type = d].left
         IN  /\ left <= 0 \/ (pc = "idle" /\ pending[1].type = d)
             /\ \A i \in DOMAIN pending : left <= pending[i].left]_vars

\* A thread that sleeps for the end of a request is woken.  Who sleeps for
\* input may sleep for ever, and nothing is said of him.
SleeperWakes == \A d \in OneShot : d \in waiting ~> d \notin waiting

=============================================================================
