-------------------------------- MODULE Fifo --------------------------------
(***************************************************************************)
(* What the producer/consumer exercise asks for: a bounded first-in        *)
(* first-out buffer, each producer's messages sent in order, each message  *)
(* given to one consumer.                                                  *)
(***************************************************************************)
EXTENDS Naturals, Sequences

CONSTANTS Producer, Consumer, Size, Count

VARIABLES
  chan,      \* the messages in transit, oldest first
  sent,      \* how many messages each producer has sent
  received   \* the messages each consumer has got, in order

fifoVars == <<chan, sent, received>>

Init ==
  /\ chan = <<>>
  /\ sent = [p \in Producer |-> 0]
  /\ received = [c \in Consumer |-> <<>>]

Send(p) ==
  /\ sent[p] < Count
  /\ Len(chan) < Size
  /\ chan' = Append(chan, [thread_id |-> p, value |-> sent[p]])
  /\ sent' = [sent EXCEPT ![p] = @ + 1]
  /\ UNCHANGED received

Receive(c) ==
  /\ chan # <<>>
  /\ chan' = Tail(chan)
  /\ received' = [received EXCEPT ![c] = Append(@, Head(chan))]
  /\ UNCHANGED sent

Next == (\E p \in Producer : Send(p)) \/ (\E c \in Consumer : Receive(c))

Spec == Init /\ [][Next]_fifoVars

=============================================================================
