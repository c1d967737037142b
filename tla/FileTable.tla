----------------------------- MODULE FileTable -----------------------------
(***************************************************************************)
(* What the comments of filesys.cc and fstest.cc promise of a file system: *)
(* a table of files, each with a length, that a command changes at once or *)
(* not at all, and that no command on another file touches.                *)
(***************************************************************************)
EXTENDS Naturals

CONSTANTS Name, Absent

VARIABLE length  \* each file's length, or Absent

Init == length = [n \in Name |-> Absent]

Becomes(n, k) == length' = [length EXCEPT ![n] = k]

Create(n) ==
  /\ length[n] = Absent
  /\ length'[n] \in Nat /\ Becomes(n, length'[n])

Remove(n) == length[n] # Absent /\ Becomes(n, Absent)

\* At the end of the file, or from its middle.
Append(n) ==
  /\ length[n] # Absent
  /\ length'[n] \in Nat /\ length'[n] > length[n] \div 2
  /\ Becomes(n, length'[n])

Next == \E n \in Name : Create(n) \/ Remove(n) \/ Append(n)

Spec == Init /\ [][Next]_length

=============================================================================
