------------------------------- MODULE Bridge -------------------------------
(***************************************************************************)
(* The one-lane bridge of synchtest.cc: cars cross it back and forth, at   *)
(* most Capacity at a time and all in one direction, behind a lock and one    *)
(* condition variable.                                                     *)
(***************************************************************************)
EXTENDS Program

CONSTANTS
  Car,        \* the threads that SynchTest() forks
  Crossings,  \* how often SynchThread() crosses (5 in the code)
  Capacity,   \* how many cars the bridge holds (3 in the code)
  lock, bridgeFull

VARIABLES
  numCars,       \* Bridge::numCars
  currentDirec,  \* Bridge::currentDirec
  num            \* SynchThread()'s loop counter

progVars == <<numCars, currentDirec, num>>
vars == <<kernelVars, pc, progVars>>

Direction == {0, 1}

direc(car) == num[car] % 2

Init ==
  /\ SynchInit
  /\ pc = [t \in Thread |-> IF t = Main THEN "fork" ELSE "Arrive"]
  /\ numCars = 0
  /\ currentDirec = 0
  /\ num = [car \in Car |-> 0]

-----------------------------------------------------------------------------
\* SynchTest(): the loop counter is the priority of the car it creates and
\* forks, so the most urgent car of those left is the next.
MainFork ==
  /\ \E t \in Car :
       /\ \A u \in Car : status[u] = "JUST_CREATED" => Priority[t] <= Priority[u]
       /\ CallFork(Main, t, "fork")
  /\ UNCHANGED progVars

MainFinish ==
  /\ \A car \in Car : status[car] # "JUST_CREATED"
  /\ CallFinish(Main, "fork")
  /\ UNCHANGED progVars

\* Mutant: a car of the wrong direction need not wait once there is room.
MustWait_RoomOnly(car) == numCars >= Capacity

\* The condition of Bridge::Arrive()'s loop.
MustWait(car) == numCars > 0 /\ (numCars >= Capacity \/ direc(car) # currentDirec)

ArriveAcquire(car) ==
  /\ num[car] < Crossings
  /\ CallAcquire(car, lock, "Arrive", "test")
  /\ UNCHANGED progVars

ArriveWait(car) ==
  /\ MustWait(car) \/ inP[car] # NULL
  /\ CallWait(car, bridgeFull, lock, "test", "test")
  /\ UNCHANGED progVars

\* Out of the loop: reserve the spot and Release(), with no break between.
ArriveEnter(car) ==
  /\ ~MustWait(car)
  /\ CallRelease(car, lock, "test", "ready")
  /\ numCars' = numCars + 1
  /\ currentDirec' = direc(car)
  /\ UNCHANGED num

YieldReady(car) == CallYield(car, "ready", "cross") /\ UNCHANGED progVars

YieldCross(car) == CallYield(car, "cross", "Exit") /\ UNCHANGED progVars

ExitAcquire(car) ==
  /\ CallAcquire(car, lock, "Exit", "broadcast")
  /\ UNCHANGED progVars

\* Bridge::Exit(): the count and the first iteration of Broadcast() are one
\* step, the other iterations follow.
ExitBroadcast(car) ==
  /\ CallBroadcast(car, bridgeFull, lock, "broadcast", "release")
  /\ numCars' = IF broadcasting = NULL THEN numCars - 1 ELSE numCars
  /\ UNCHANGED <<currentDirec, num>>

ExitRelease(car) ==
  /\ CallRelease(car, lock, "release", "away")
  /\ UNCHANGED progVars

YieldAway(car) ==
  /\ CallYield(car, "away", "Arrive")
  /\ num' = [num EXCEPT ![car] = @ + 1]
  /\ UNCHANGED <<numCars, currentDirec>>

CarFinish(car) ==
  /\ num[car] = Crossings
  /\ CallFinish(car, "Arrive")
  /\ UNCHANGED progVars

CarStep(car) ==
  \/ ArriveAcquire(car) \/ ArriveWait(car) \/ ArriveEnter(car)
  \/ YieldReady(car) \/ YieldCross(car)
  \/ ExitAcquire(car) \/ ExitBroadcast(car) \/ ExitRelease(car)
  \/ YieldAway(car) \/ CarFinish(car)

TimeSlice == Preempt /\ UNCHANGED progVars

Next == MainFork \/ MainFinish \/ (\E car \in Car : CarStep(car)) \/ TimeSlice

Spec == Init /\ [][Next]_vars

-----------------------------------------------------------------------------
TypeOK ==
  /\ SynchTypeOK
  /\ pc \in [Thread -> {"fork", "Arrive", "test", "ready", "cross", "Exit",
                        "broadcast", "release", "away", "done"}]
  /\ numCars \in 0 .. Capacity
  /\ currentDirec \in Direction
  /\ num \in [Car -> 0 .. Crossings]

\* The cars that have a spot and have not given it back.
OnBridge == {car \in Car : pc[car] \in {"ready", "cross", "Exit"} \/
                           (pc[car] = "broadcast" /\ broadcasting = NULL)}

\* No head-on collision, no overload (synchtest.cc:15-17): the cars on the
\* bridge are those numCars counts, no more than it holds, in the current direction.
BridgeSafe ==
  /\ numCars = Cardinality(OnBridge)
  /\ Cardinality(OnBridge) <= Capacity
  /\ \A car \in OnBridge : direc(car) = currentDirec

\* The machine halts with every car done, never with a car left waiting
\* before a bridge it could enter (no lost notification, no deadlock).
HaltsOnlyWhenDone == Halted => {Main} \cup Car \subseteq finished

=============================================================================
