------------------------------ MODULE Console ------------------------------
(***************************************************************************)
(* The console device of console.cc under ConsoleTest() (progtest.cc): a   *)
(* thread that echoes characters, the keyboard that is polled, the display *)
(* that is busy until its interrupt, and the two semaphores that their     *)
(* handlers signal.  Characters are any but the one that reads as EOF.     *)
(***************************************************************************)
EXTENDS Program, SequencesExt

CONSTANTS
  Char, quit,   \* the characters typed; the one that ends the test
  EOF,          \* in Console::incoming: nothing buffered
  MaxTyped,     \* bound: how many characters are typed
  readAvail, writeDone

VARIABLES
  incoming, putBusy,   \* the device
  ch,                  \* ConsoleTest's character
  typed, shown         \* history: the input read, and the output

progVars == <<incoming, putBusy, ch, typed, shown>>
vars == <<kernelVars, pc, progVars>>

Init ==
  /\ SynchInit
  /\ pc = [t \in Thread |-> "read"]
  /\ incoming = EOF /\ putBusy = FALSE
  /\ ch = EOF
  /\ typed = <<>> /\ shown = <<>>

-----------------------------------------------------------------------------
\* readAvail->P()
AwaitChar == CallP(Main, readAvail, "read", "echo") /\ UNCHANGED progVars

\* GetChar() and PutChar(), then writeDone->P().
Echo ==
  /\ inP[Main] = NULL /\ ~putBusy
  /\ CallP(Main, writeDone, "echo", "next")
  /\ ch' = incoming /\ incoming' = EOF
  /\ putBusy' = TRUE
  /\ shown' = Append(shown, incoming)
  /\ UNCHANGED typed

\* The thread is woken inside writeDone->P().
AwaitWritten ==
  /\ inP[Main] = writeDone
  /\ CallP(Main, writeDone, "echo", "next")
  /\ UNCHANGED progVars

\* The end of the loop; after 'q' main() halts the machine.
NextChar ==
  /\ AtUserCode(Main) /\ pc[Main] = "next"
  /\ Goto(Main, IF ch = quit THEN "halted" ELSE "read")
  /\ UNCHANGED <<kernelVars, progVars>>

Interruptible == pc[Main] # "halted" /\ (Idling \/ AtUserCode(current))

\* Console::CheckCharAvail(): the next character, unless one is buffered.
CheckCharAvail ==
  /\ Interruptible
  /\ incoming = EOF
  /\ Len(typed) < MaxTyped
  /\ \E c \in Char : incoming' = c /\ typed' = Append(typed, c)
  /\ V(readAvail)
  /\ UNCHANGED <<pc, putBusy, ch, shown>>

\* Mutant: the handler does not signal.
WriteDone_Silent ==
  /\ Interruptible
  /\ putBusy
  /\ putBusy' = FALSE
  /\ UNCHANGED <<kernelVars, pc, incoming, ch, typed, shown>>

\* Console::WriteDone()
WriteDone ==
  /\ Interruptible
  /\ putBusy
  /\ putBusy' = FALSE
  /\ V(writeDone)
  /\ UNCHANGED <<pc, incoming, ch, typed, shown>>

LeaveIdle == Dispatch /\ UNCHANGED <<synchVars, pc, progVars>>

TestStep == AwaitChar \/ Echo \/ AwaitWritten \/ NextChar

Next == TestStep \/ CheckCharAvail \/ WriteDone \/ LeaveIdle

Spec == Init /\ [][Next]_vars

-----------------------------------------------------------------------------
\* PutChar() ASSERTs that the display is not busy, and GetChar() finds a
\* character: the counts of the two semaphores always say what the device's
\* flags say.
SignalsMatchDevice ==
  pc[Main] = "echo" /\ inP[Main] = NULL =>
    ~putBusy /\ incoming # EOF /\ value[writeDone] = 0

\* What is shown is what was typed, in order and without a character lost to
\* one typed before it was read: at most one waits.
EchoesInput ==
  /\ IsPrefix(shown, typed)
  /\ typed = IF incoming = EOF THEN shown ELSE Append(shown, incoming)

\* Everything typed is shown, or the test is over.
CaughtUp == Len(shown) = Len(typed) \/ pc[Main] = "halted"

=============================================================================
