------------------------------ MODULE Monitor ------------------------------
(***************************************************************************)
(* What synch.h promises of locks and condition variables together: a lock *)
(* has at most one owner; Wait gives up the lock and starts waiting in one *)
(* step; a waiter comes back only after a holder of the lock notified it,  *)
(* and then has to get the lock like anybody else ("Mesa" semantics).      *)
(***************************************************************************)
CONSTANTS Thread, Lock, Condition, NULL

VARIABLES
  owner,    \* who holds each lock
  waiting   \* the threads that wait on each condition and were not notified

monitorVars == <<owner, waiting>>

Init ==
  /\ owner = [l \in Lock |-> NULL]
  /\ waiting = [c \in Condition |-> {}]

Enter(t, l) ==
  /\ owner[l] = NULL
  /\ \A c \in Condition : t \notin waiting[c]
  /\ owner' = [owner EXCEPT ![l] = t]
  /\ UNCHANGED waiting

Leave(t, l) ==
  /\ owner[l] = t
  /\ owner' = [owner EXCEPT ![l] = NULL]
  /\ UNCHANGED waiting

Wait(t, c, l) ==
  /\ owner[l] = t
  /\ t \notin waiting[c]
  /\ owner' = [owner EXCEPT ![l] = NULL]
  /\ waiting' = [waiting EXCEPT ![c] = @ \cup {t}]

Notify(t, c, u) ==
  /\ \E l \in Lock : owner[l] = t
  /\ u \in waiting[c]
  /\ waiting' = [waiting EXCEPT ![c] = @ \ {u}]
  /\ UNCHANGED owner

Next ==
  \E t \in Thread :
    \/ \E l \in Lock : Enter(t, l) \/ Leave(t, l)
    \/ \E c \in Condition, l \in Lock : Wait(t, c, l)
    \/ \E c \in Condition, u \in Thread : Notify(t, c, u)

Spec == Init /\ [][Next]_monitorVars

=============================================================================
