----------------------------- MODULE SynchList -----------------------------
(***************************************************************************)
(* The synchronized list of synchlist.cc, used by threads that append a    *)
(* number of items each and threads that remove a number of items each     *)
(* (the mail boxes of post.cc are such lists).  The list inside is         *)
(* list.cc's.                                                              *)
(***************************************************************************)
EXTENDS Program

CONSTANTS
  Appender, Remover,  \* the threads
  Items,              \* bound: how many items each appender appends
  Takes,              \* bound: how many items each remover removes
  lock, listEmpty

VARIABLES
  list,     \* the List inside the SynchList
  num,      \* how many items each appender has appended
  removed   \* history: what each remover's calls of Remove() returned

progVars == <<list, num, removed>>
vars == <<kernelVars, pc, progVars>>

Init ==
  /\ SynchInit
  /\ pc = [t \in Thread |-> CASE t = Main -> "fork"
                              [] t \in Appender -> "Append"
                              [] OTHER -> "Remove"]
  /\ list = <<>>
  /\ num = [a \in Appender |-> 0]
  /\ removed = [r \in Remover |-> <<>>]

-----------------------------------------------------------------------------
\* The client: some thread forks the others.
MainFork ==
  /\ \E t \in Appender \cup Remover : CallFork(Main, t, "fork")
  /\ UNCHANGED progVars

MainFinish ==
  /\ \A t \in Appender \cup Remover : status[t] # "JUST_CREATED"
  /\ CallFinish(Main, "fork")
  /\ UNCHANGED progVars

\* SynchList::Append()
AppendAcquire(a) ==
  /\ num[a] < Items
  /\ CallAcquire(a, lock, "Append", "signal")
  /\ UNCHANGED progVars

\* Mutant: only the item that ends the emptiness is signalled.
AppendSignal_WhenEmpty(a) ==
  /\ IF list = <<>>
       THEN CallSignal(a, listEmpty, lock, "signal", "append.Release")
       ELSE /\ AtUserCode(a) /\ pc[a] = "signal"
            /\ Goto(a, "append.Release")
            /\ UNCHANGED kernelVars
  /\ list' = Append(list, [thread_id |-> a, value |-> num[a]])
  /\ num' = [num EXCEPT ![a] = @ + 1]
  /\ UNCHANGED removed

AppendSignal(a) ==
  /\ CallSignal(a, listEmpty, lock, "signal", "append.Release")
  /\ list' = Append(list, [thread_id |-> a, value |-> num[a]])
  /\ num' = [num EXCEPT ![a] = @ + 1]
  /\ UNCHANGED removed

AppendRelease(a) ==
  /\ CallRelease(a, lock, "append.Release", "Append")
  /\ UNCHANGED progVars

AppenderFinish(a) ==
  /\ num[a] = Items
  /\ CallFinish(a, "Append")
  /\ UNCHANGED progVars

\* SynchList::Remove()
RemoveAcquire(r) ==
  /\ Len(removed[r]) < Takes
  /\ CallAcquire(r, lock, "Remove", "test")
  /\ UNCHANGED progVars

RemoveWait(r) ==
  /\ list = <<>> \/ inP[r] # NULL
  /\ CallWait(r, listEmpty, lock, "test", "test")
  /\ UNCHANGED progVars

\* Mutant: the newest item is returned.
RemoveItem_Newest(r) ==
  /\ list # <<>>
  /\ CallRelease(r, lock, "test", "Remove")
  /\ list' = Front(list)
  /\ removed' = [removed EXCEPT ![r] = Append(@, Last(list))]
  /\ UNCHANGED num

\* Out of the loop: take the oldest item and Release(), with no break between.
RemoveItem(r) ==
  /\ list # <<>>
  /\ CallRelease(r, lock, "test", "Remove")
  /\ list' = Tail(list)
  /\ removed' = [removed EXCEPT ![r] = Append(@, Head(list))]
  /\ UNCHANGED num

RemoverFinish(r) ==
  /\ Len(removed[r]) = Takes
  /\ CallFinish(r, "Remove")
  /\ UNCHANGED progVars

ThreadStep(t) ==
  \/ /\ t \in Appender
     /\ AppendAcquire(t) \/ AppendSignal(t) \/ AppendRelease(t) \/ AppenderFinish(t)
  \/ /\ t \in Remover
     /\ RemoveAcquire(t) \/ RemoveWait(t) \/ RemoveItem(t) \/ RemoverFinish(t)

TimeSlice == Preempt /\ UNCHANGED progVars

Next == MainFork \/ MainFinish \/ (\E t \in Thread : ThreadStep(t)) \/ TimeSlice

Spec == Init /\ [][Next]_vars

-----------------------------------------------------------------------------
\* The list, from the first Append() to the last Remove(), is an unbounded
\* FIFO queue: each item goes to one remover, in the order of the Append()s.
Q == INSTANCE Fifo WITH chan <- list, sent <- num, received <- removed,
                        Producer <- Appender, Consumer <- Remover,
                        Size <- Items * Cardinality(Appender), Count <- Items

QueueSpec == Q!Spec

\* Every appender is done, and so is every remover unless the list is empty.
Settled ==
  /\ {Main} \cup Appender \subseteq finished
  /\ list = <<>> \/ Remover \subseteq finished

\* When nothing can run, every appender is done, and so is every remover
\* unless the list is empty: no remover sleeps beside an item that nobody
\* else will take (no lost notification, no deadlock).
HaltsOnlyWhenEmpty == Halted => Settled

=============================================================================
