------------------------------ MODULE OpenFile ------------------------------
(***************************************************************************)
(* Reading and writing part of an open file (openfile.cc): the disk moves  *)
(* whole sectors, so a partial sector is read first and its other bytes    *)
(* are written back as they were.  The file's length does not change.      *)
(***************************************************************************)
EXTENDS Integers, Sequences

CONSTANTS
  SectorSize,
  FileLength,   \* the length in the file's header
  Byte,
  MaxCount      \* bound: how many bytes one call asks for

\* What holds of the constants: assumed by the module that gives them values.
ConstantsOK ==
  /\ SectorSize \in Nat \ {0} /\ FileLength \in Nat \ {0} /\ MaxCount \in Nat

VARIABLES
  sector,        \* the bytes of the file's sectors, byte 0 first
  seekPosition,
  into           \* what the last Read() returned

vars == <<sector, seekPosition, into>>

divRoundDown(n, s) == n \div s
SectorsOfFile == (FileLength + SectorSize - 1) \div SectorSize
Offset == 0 .. SectorsOfFile * SectorSize - 1

Init ==
  /\ sector \in [Offset -> Byte]
  /\ seekPosition = 0
  /\ into = <<>>

Seek(position) ==
  /\ seekPosition' = position
  /\ UNCHANGED <<sector, into>>

Clip(numBytes, position) ==
  IF position + numBytes > FileLength THEN FileLength - position ELSE numBytes

ReadAt(numBytes, position) ==
  IF numBytes <= 0 \/ position >= FileLength THEN <<>>
  ELSE LET count == Clip(numBytes, position)
           firstSector == divRoundDown(position, SectorSize)
           buf == [i \in 1 .. SectorsOfFile * SectorSize - firstSector * SectorSize |->
                     sector[firstSector * SectorSize + i - 1]]
       IN SubSeq(buf, position - firstSector * SectorSize + 1,
                      position - firstSector * SectorSize + count)

Read(numBytes) ==
  /\ into' = ReadAt(numBytes, seekPosition)
  /\ seekPosition' = seekPosition + Len(ReadAt(numBytes, seekPosition))
  /\ UNCHANGED sector

\* Mutant: the last sector is not read when the request is within one sector.
ReadsLast_OtherOnly(position, count, firstSector, lastSector) ==
  /\ position + count # (lastSector + 1) * SectorSize
  /\ firstSector # lastSector

ReadsLast(position, count, firstSector, lastSector) ==
  /\ position + count # (lastSector + 1) * SectorSize
  /\ firstSector # lastSector \/ position = firstSector * SectorSize

\* The sectors that are read into the buffer before it is modified.
ReadFirst(position, count) ==
  LET firstSector == divRoundDown(position, SectorSize)
      lastSector == divRoundDown(position + count - 1, SectorSize)
  IN {s \in firstSector .. lastSector :
        \/ s = firstSector /\ position # firstSector * SectorSize
        \/ s = lastSector /\ ReadsLast(position, count, firstSector, lastSector)}

\* The buffer's bytes that nothing is read into, garbage, are written too;
\* there may be some beyond the end of the file.
Write(numBytes, b) ==
  /\ UNCHANGED into
  /\ \/ /\ numBytes <= 0 \/ seekPosition > FileLength
        /\ UNCHANGED <<sector, seekPosition>>
     \/ /\ numBytes > 0 /\ seekPosition <= FileLength
        /\ LET count == Clip(numBytes, seekPosition)
               written == {o \in Offset : divRoundDown(o, SectorSize) \in
                             divRoundDown(seekPosition, SectorSize) ..
                             divRoundDown(seekPosition + count - 1, SectorSize)}
               kept == {o \in Offset : /\ o < FileLength
                                       /\ divRoundDown(o, SectorSize)
                                            \in ReadFirst(seekPosition, count)}
           IN \E garbage \in Byte :
                /\ sector' = [o \in Offset |->
                     IF o \in seekPosition .. seekPosition + count - 1 THEN b
                     ELSE IF o \in written /\ o \notin kept THEN garbage
                     ELSE sector[o]]
                /\ seekPosition' = seekPosition + count

Next ==
  \/ \E position \in 0 .. FileLength + 1 : Seek(position)
  \/ \E numBytes \in 0 .. MaxCount :
       Read(numBytes) \/ \E b \in Byte : Write(numBytes, b)

Spec == Init /\ [][Next]_vars

-----------------------------------------------------------------------------
\* A file is what its bytes up to its length are, whatever is beyond it in the
\* last sector: "we must first read in any sectors that will be partially
\* written, so that we don't overwrite the unmodified portion"
\* (openfile.cc:140-144).
Bytes == INSTANCE ByteFile
  WITH bytes <- [i \in 1 .. FileLength |-> sector[i - 1]],
       position <- seekPosition, got <- into

BytesSpec == Bytes!Spec

=============================================================================
