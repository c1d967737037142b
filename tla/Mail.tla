-------------------------------- MODULE Mail --------------------------------
(***************************************************************************)
(* What a post office over an unreliable network promises: a message may   *)
(* be lost or overtaken, but it arrives at most once, as it was sent, and  *)
(* only in the mail box it was addressed to.                               *)
(***************************************************************************)
EXTENDS Naturals, Sequences

CONSTANTS Sender, Receiver, Count, Box, BoxOf(_)

VARIABLES
  transit,   \* the messages under way
  sent,      \* how many messages each sender has sent
  received   \* the messages each receiver has got, in order

mailVars == <<transit, sent, received>>

Init ==
  /\ transit = {}
  /\ sent = [s \in Sender |-> 0]
  /\ received = [r \in Receiver |-> <<>>]

Send(s) ==
  /\ sent[s] < Count
  /\ sent' = [sent EXCEPT ![s] = @ + 1]
  /\ \E b \in Box :
       transit' = transit \cup {[from |-> s, value |-> sent[s], to |-> b]}
  /\ UNCHANGED received

Lose(s) ==
  /\ sent[s] < Count
  /\ sent' = [sent EXCEPT ![s] = @ + 1]
  /\ UNCHANGED <<transit, received>>

Receive(r) ==
  \E m \in transit :
    /\ m.to = BoxOf(r)
    /\ transit' = transit \ {m}
    /\ received' = [received EXCEPT ![r] = Append(@, m)]
    /\ UNCHANGED sent

Next == (\E s \in Sender : Send(s) \/ Lose(s)) \/ (\E r \in Receiver : Receive(r))

Spec == Init /\ [][Next]_mailVars

=============================================================================
