------------------------------ MODULE Program ------------------------------
(***************************************************************************)
(* What the threads of a concrete program add to Synch: a program counter, *)
(* and the kernel calls as steps from one label to the next.               *)
(*                                                                         *)
(* The running thread can be preempted only where interrupts are enabled   *)
(* again at the end of a kernel call, so a step runs from one such point   *)
(* to the next: the code before a call belongs to the step of that call.   *)
(***************************************************************************)
EXTENDS Synch

VARIABLE pc  \* the label of each thread

kernelVars == <<schedVars, synchVars>>

At(threads, label) == Cardinality({t \in threads : pc[t] = label})

Goto(t, label) == pc' = [pc EXCEPT ![t] = label]

\* s->P(): the thread gets to the next label unless it sleeps.
CallP(t, s, from, to) ==
  /\ Running(t) /\ pc[t] = from
  /\ P(t, s)
  /\ pc' = IF value[s] > 0 THEN [pc EXCEPT ![t] = to] ELSE pc

CallV(t, s, from, to) ==
  /\ AtUserCode(t) /\ pc[t] = from
  /\ V(s)
  /\ Goto(t, to)

CallAcquire(t, l, from, to) ==
  /\ Running(t) /\ pc[t] = from
  /\ Acquire(t, l)
  /\ pc' = IF value[l] > 0 THEN [pc EXCEPT ![t] = to] ELSE pc

CallRelease(t, l, from, to) ==
  /\ AtUserCode(t) /\ pc[t] = from
  /\ Release(t, l)
  /\ Goto(t, to)

CallSignal(t, c, l, from, to) ==
  /\ AtUserCode(t) /\ pc[t] = from
  /\ Signal(t, c, l)
  /\ Goto(t, to)

\* c->Wait(l): the call and, when the thread is woken, its Acquire().
CallWait(t, c, l, from, to) ==
  /\ Running(t) /\ pc[t] = from
  /\ IF inP[t] = NULL
       THEN /\ broadcasting = NULL
            /\ Wait(t, c, l)
            /\ UNCHANGED pc
       ELSE /\ Acquire(t, l)
            /\ pc' = IF value[l] > 0 THEN [pc EXCEPT ![t] = to] ELSE pc

\* c->Broadcast(l): as many steps as there are waiters.
CallBroadcast(t, c, l, from, to) ==
  /\ Running(t) /\ inP[t] = NULL /\ broadcasting \in {NULL, c}
  /\ pc[t] = from
  /\ Broadcast(t, c, l)
  /\ pc' = IF Len(condQueue[c]) > 1 THEN pc ELSE [pc EXCEPT ![t] = to]

CallYield(t, from, to) ==
  /\ AtUserCode(t) /\ pc[t] = from
  /\ IF readyList = <<>> THEN UNCHANGED schedVars ELSE Yield(t)
  /\ Goto(t, to)
  /\ UNCHANGED synchVars

CallFork(t, u, from) ==
  /\ AtUserCode(t) /\ pc[t] = from
  /\ Fork(u)
  /\ UNCHANGED <<synchVars, pc>>

CallFinish(t, from) ==
  /\ AtUserCode(t) /\ pc[t] = from
  /\ Finish(t)
  /\ Goto(t, "done")
  /\ UNCHANGED synchVars

\* The timer's handler asks for a Yield() when interrupts come on again.
Preempt ==
  /\ AtUserCode(current)
  /\ Yield(current)
  /\ UNCHANGED <<synchVars, pc>>

\* Nobody can run: without a device that interrupts, the machine halts here.
Halted == Idling /\ readyList = <<>>

=============================================================================
