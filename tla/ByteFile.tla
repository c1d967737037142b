------------------------------ MODULE ByteFile ------------------------------
(***************************************************************************)
(* What openfile.h offers its caller: a sequence of bytes of fixed length, *)
(* with a position that reading and writing move.                          *)
(***************************************************************************)
EXTENDS Naturals, Sequences

CONSTANTS FileLength, Byte, MaxCount

VARIABLES bytes, position, got

byteVars == <<bytes, position, got>>

Init ==
  /\ bytes \in [1 .. FileLength -> Byte]
  /\ position = 0
  /\ got = <<>>

\* How many of "count" bytes there are from the position on.
Available(count) ==
  IF position >= FileLength THEN 0
  ELSE IF position + count > FileLength THEN FileLength - position ELSE count

Seek(p) ==
  /\ position' = p
  /\ UNCHANGED <<bytes, got>>

Read(count) ==
  /\ got' = SubSeq(bytes, position + 1, position + Available(count))
  /\ position' = position + Available(count)
  /\ UNCHANGED bytes

Write(count, b) ==
  /\ bytes' = [i \in 1 .. FileLength |->
                 IF i \in position + 1 .. position + Available(count) THEN b ELSE bytes[i]]
  /\ position' = position + Available(count)
  /\ UNCHANGED got

Next ==
  \/ \E p \in 0 .. FileLength + 1 : Seek(p)
  \/ \E count \in 0 .. MaxCount : Read(count) \/ \E b \in Byte : Write(count, b)

Spec == Init /\ [][Next]_byteVars

=============================================================================
