---------------------------- MODULE MCFileSystem ----------------------------
(***************************************************************************)
(* The file system, one subject at a time, chosen at the start.            *)
(*   "commands"  FileSystem: the commands of main.cc on the whole disk     *)
(*   "bytes"     OpenFile: the calls of a program on one open file         *)
(***************************************************************************)
EXTENDS FileSystem, TLC

CONSTANTS FileLength, Byte, MaxCount

VARIABLES subject, sector, seekPosition, into

O == INSTANCE OpenFile

\* A byte may be zero, as those of a file that nobody has written to.
ASSUME OpenFileAssumption == O!ConstantsOK /\ 0 \in Byte

openVars == <<sector, seekPosition, into>>
everyVar == <<vars, openVars, subject>>

\* The file is open in both subjects, but nobody uses it in the first; and the
\* disk as a whole is as it was formatted in the second.
FilesInit ==
  /\ Init
  /\ \/ /\ subject = "commands"
        /\ seekPosition = 0 /\ into = <<>>
        /\ sector = [o \in O!Offset |-> 0]
     \/ subject = "bytes" /\ O!Init

FilesNext ==
  \/ subject = "commands" /\ Next /\ UNCHANGED <<subject, openVars>>
  \/ subject = "bytes" /\ O!Next /\ UNCHANGED <<subject, vars>>

FileSystemSpec == FilesInit /\ [][FilesNext]_everyVar

SomeSizes == {2}

\* No command treats one name differently from another.
NameSymmetry == Permutations(Name)

-----------------------------------------------------------------------------
\* A file is what its bytes up to its length are, whatever is beyond it in the
\* last sector: "we must first read in any sectors that will be partially
\* written, so that we don't overwrite the unmodified portion"
\* (openfile.cc:140-144).
BytesSpec == O!BytesSpec

=============================================================================
