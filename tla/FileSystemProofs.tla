-------------------------- MODULE FileSystemProofs --------------------------
(***************************************************************************)
(* Theorems of OpenFile and FileSystem, as MCFileSystem instantiates them. *)
(*                                                                         *)
(* An open file is the array of bytes that openfile.h describes, for any   *)
(* sector size and any length.                                             *)
(*                                                                         *)
(* The files on the disk are intact between any two writes of any command, *)
(* and a table of files to whoever looks at them, for any number of files  *)
(* and sectors and any sequence of commands.  The argument is about the    *)
(* writes a command has planned: After(d, w, k) is the disk d after the    *)
(* first k of the writes w, and Good(d, w, skip) says of each k what is    *)
(* promised of it.  One lemma per command proves that its plan is good     *)
(* (CreateGood, FillGood, ExtendGood, RemoveGood); that a write keeps a    *)
(* good plan good is then one lemma for all of them (OneWritten).          *)
(***************************************************************************)
EXTENDS MCFileSystem, FiniteSetTheorems, SequenceTheorems, WellFoundedInduction, TLAPS

(* The arithmetic of sectors.                                              *)

\* A quotient, its multiple and the rest.
LEMMA Division ==
  ASSUME NEW s \in Nat \ {0}, NEW a \in Nat
  PROVE  /\ a \div s \in Nat /\ (a \div s) * s \in Nat
         /\ (a \div s) * s <= a /\ a < ((a \div s) * s) + s
OBVIOUS

\* Whole sectors before a later one.
LEMMA Earlier ==
  ASSUME NEW s \in Nat \ {0}, NEW a \in Nat, NEW b \in Nat, a < b
  PROVE  (a * s) + s <= b * s
OBVIOUS

\* Dividing keeps the order.
LEMMA DivisionKeepsOrder ==
  ASSUME NEW s \in Nat \ {0}, NEW a \in Nat, NEW b \in Nat, a <= b
  PROVE  a \div s <= b \div s
<1>1. /\ a \div s \in Nat /\ b \div s \in Nat
      /\ (a \div s) * s <= a /\ b < ((b \div s) * s) + s
      /\ (a \div s) * s \in Nat /\ (b \div s) * s \in Nat
  BY Division
<1>2. ~(b \div s < a \div s)
  <2>1. ASSUME b \div s < a \div s PROVE FALSE
    <3>1. ((b \div s) * s) + s <= (a \div s) * s
      BY <1>1, <2>1, Earlier
    <3> QED
      BY <1>1, <3>1
  <2> QED
    BY <2>1
<1> QED
  BY <1>1, <1>2

\* What is known of the constants of the open file.
LEMMA ByteConstants ==
  /\ SectorSize \in Nat \ {0} /\ FileLength \in Nat \ {0} /\ MaxCount \in Nat /\ 0 \in Byte
  /\ O!SectorsOfFile \in Nat /\ O!SectorsOfFile * SectorSize \in Nat
  /\ FileLength <= O!SectorsOfFile * SectorSize
<1>1. SectorSize \in Nat \ {0} /\ FileLength \in Nat \ {0} /\ MaxCount \in Nat /\ 0 \in Byte
  BY OpenFileAssumption DEF O!ConstantsOK
<1>2. FileLength + SectorSize - 1 \in Nat
  BY <1>1
<1>3. PICK a \in Nat : a = FileLength + SectorSize - 1
  BY <1>2
<1>4. /\ a \div SectorSize \in Nat /\ (a \div SectorSize) * SectorSize \in Nat
      /\ a < ((a \div SectorSize) * SectorSize) + SectorSize
  BY <1>1, <1>3, Division
<1>5. O!SectorsOfFile = a \div SectorSize
  BY <1>3 DEF O!SectorsOfFile
<1> HIDE DEF O!SectorsOfFile
<1>6. FileLength <= (a \div SectorSize) * SectorSize
  BY <1>1, <1>3, <1>4
<1> QED
  BY <1>1, <1>4, <1>5, <1>6

-----------------------------------------------------------------------------
(* The bytes of an open file.                                              *)

FileBytes == [i \in 1 .. FileLength |-> sector[i - 1]]

Available(count, p) == IF p >= FileLength THEN 0 ELSE O!Clip(count, p)

\* The bytes of a file are in its sectors.
LEMMA BytesInSectors == \A i \in 1 .. FileLength : i - 1 \in O!Offset
BY ByteConstants DEF O!Offset

\* What is asked for and there, is there.
LEMMA AvailableFacts ==
  ASSUME NEW count \in Nat, NEW p \in Nat
  PROVE  /\ Available(count, p) \in 0 .. count
         /\ Available(count, p) > 0 => p + Available(count, p) <= FileLength
         /\ count = 0 => Available(count, p) = 0
BY ByteConstants DEF Available, O!Clip

\* OpenFile::ReadAt() finds its bytes behind the first sector's beginning.
LEMMA ReadAtFacts ==
  ASSUME NEW count \in Nat, seekPosition \in Nat
  PROVE  /\ O!ReadAt(count, seekPosition)
              = SubSeq(FileBytes, seekPosition + 1, seekPosition + Available(count, seekPosition))
         /\ Len(O!ReadAt(count, seekPosition)) = Available(count, seekPosition)
<1>1. PICK p \in Nat : p = seekPosition
  OBVIOUS
<1> DEFINE k == Available(count, p)
<1>2. k \in 0 .. count /\ (k > 0 => p + k <= FileLength) /\ (count = 0 => k = 0)
  BY AvailableFacts
<1>3. CASE count <= 0 \/ p >= FileLength
  <2>1. k = 0
    BY <1>2, <1>3 DEF Available
  <2>2. SubSeq(FileBytes, p + 1, p + k) = <<>>
    BY <2>1
  <2>3. O!ReadAt(count, p) = <<>>
    BY <1>3 DEF O!ReadAt
  <2> QED
    BY <1>1, <2>1, <2>2, <2>3
<1>4. CASE ~(count <= 0 \/ p >= FileLength)
  <2> DEFINE first == (p \div SectorSize) * SectorSize
             size == O!SectorsOfFile * SectorSize
             buf == [i \in 1 .. size - first |-> sector[first + i - 1]]
  <2>1. k = O!Clip(count, p) /\ k \in Nat \ {0} /\ p + k <= FileLength
    BY <1>1, <1>2, <1>4, ByteConstants DEF Available, O!Clip
  <2>2. O!ReadAt(count, p) = SubSeq(buf, (p - first) + 1, (p - first) + k)
    BY <1>4, <2>1 DEF O!ReadAt, O!divRoundDown
  <2>3. first \in Nat /\ first <= p /\ size \in Nat /\ FileLength <= size /\ FileLength \in Nat
    BY ByteConstants, Division
  <2> HIDE DEF k, first, size
  <2>4. p - first \in Nat /\ (p - first) + k <= size - first /\ size - first \in Nat
    BY <2>1, <2>3
  <2>5. Len(buf) = size - first
    BY <2>4
  <2>6. SubSeq(buf, (p - first) + 1, (p - first) + k) = [i \in 1 .. k |-> buf[(p - first) + i]]
    <3> HIDE DEF buf
    <3>1. PICK o \in Nat : o = p - first
      BY <2>4
    <3>2. SubSeq(buf, o + 1, o + k) = [i \in 1 .. k |-> buf[o + i]]
      BY <2>1
    <3> QED
      BY <3>1, <3>2
  <2>7. SubSeq(FileBytes, p + 1, p + k) = [i \in 1 .. k |-> FileBytes[p + i]]
    BY <2>1 DEF FileBytes
  <2>8. \A i \in 1 .. k : buf[(p - first) + i] = FileBytes[p + i]
    <3> SUFFICES ASSUME NEW i \in 1 .. k PROVE buf[(p - first) + i] = FileBytes[p + i]
      OBVIOUS
    <3>1. (p - first) + i \in 1 .. size - first /\ first + ((p - first) + i) - 1 = p + i - 1
      BY <2>1, <2>3, <2>4
    <3>2. p + i \in 1 .. FileLength
      BY <2>1, <2>3
    <3>3. buf[(p - first) + i] = sector[first + ((p - first) + i) - 1]
      BY <3>1
    <3> QED
      BY <3>1, <3>2, <3>3 DEF FileBytes
  <2> HIDE DEF buf
  <2>9. O!ReadAt(count, p) = SubSeq(FileBytes, p + 1, p + k)
    BY <2>2, <2>6, <2>7, <2>8
  <2>10. Len(SubSeq(FileBytes, p + 1, p + k)) = k
    <3>1. Len([i \in 1 .. k |-> FileBytes[p + i]]) = k
      BY <2>1
    <3> QED
      BY <2>7, <3>1
  <2> QED
    BY <1>1, <2>9, <2>10 DEF k
<1> QED
  BY <1>3, <1>4

BytesInv == sector \in [O!Offset -> Byte] /\ seekPosition \in Nat

\* openfile.h and openfile.cc have the same bytes available.
LEMMA SameAvailable ==
  ASSUME NEW count \in Nat
  PROVE  O!Bytes!Available(count) = Available(count, seekPosition)
BY DEF O!Bytes!Available, Available, O!Clip

\* A byte before or after those that are written is in a sector that was read,
\* or in none that is written.
LEMMA OthersKept ==
  ASSUME NEW p \in Nat, NEW k \in Nat, p + k <= FileLength, k > 0 \/ p = FileLength,
         NEW o \in 0 .. FileLength - 1, o \notin p .. p + k - 1,
         o \div SectorSize \in (p \div SectorSize) .. ((p + k - 1) \div SectorSize)
  PROVE  o \div SectorSize \in O!ReadFirst(p, k)
<1>1. SectorSize \in Nat \ {0} /\ FileLength \in Nat \ {0}
  BY ByteConstants
<1>2. PICK q \in Nat : q = p + k - 1
  BY <1>1
<1> DEFINE first == p \div SectorSize
           last == q \div SectorSize
           s == o \div SectorSize
<1>3. /\ first \in Nat /\ last \in Nat /\ s \in Nat /\ s \in first .. last
      /\ first * SectorSize \in Nat /\ first * SectorSize <= p
      /\ s * SectorSize \in Nat /\ s * SectorSize <= o /\ o < (s * SectorSize) + SectorSize
      /\ last * SectorSize \in Nat /\ q < (last * SectorSize) + SectorSize
      /\ last * SectorSize <= q
  BY <1>1, <1>2, Division
<1>4. (last + 1) * SectorSize = (last * SectorSize) + SectorSize
  BY <1>1, <1>3
<1>5. o \div SectorSize \in O!ReadFirst(p, k)
        <=> \/ s = first /\ p # first * SectorSize
            \/ /\ s = last /\ p + k # (last + 1) * SectorSize
               /\ first # last \/ p = first * SectorSize
  BY <1>2, <1>3 DEF O!ReadFirst, O!ReadsLast, O!divRoundDown
<1>6. CASE o < p
  <2>1. ~(first < s)
    <3>1. ASSUME first < s PROVE FALSE
      <4>1. p < (first * SectorSize) + SectorSize
        BY <1>1, Division
      <4>2. (first * SectorSize) + SectorSize <= s * SectorSize
        BY <1>1, <1>3, <3>1, Earlier
      <4> HIDE DEF first, s, last
      <4> QED
        BY <1>1, <1>3, <1>6, <4>1, <4>2
    <3> QED
      BY <3>1
  <2>2. s = first
    <3> HIDE DEF first, s, last
    <3> QED
      BY <1>3, <2>1
  <2>3. first * SectorSize <= o
    BY <1>3, <2>2
  <2> HIDE DEF first, s, last
  <2>4. p # first * SectorSize
    BY <1>3, <1>6, <2>3
  <2> QED
    BY <1>5, <2>2, <2>4
<1>7. CASE o >= p + k
  <2>1. k > 0
    BY <1>1, <1>7
  <2>2. ~(s < last)
    <3>1. ASSUME s < last PROVE FALSE
      <4>1. (s * SectorSize) + SectorSize <= last * SectorSize
        BY <1>1, <1>3, <3>1, Earlier
      <4> HIDE DEF first, s, last
      <4> QED
        BY <1>1, <1>2, <1>3, <1>7, <4>1
    <3> QED
      BY <3>1
  <2>3. s = last
    <3> HIDE DEF first, s, last
    <3> QED
      BY <1>3, <2>2
  <2>4. o < (last * SectorSize) + SectorSize
    BY <1>3, <2>3
  <2> HIDE DEF first, s, last
  <2>5. p + k # (last + 1) * SectorSize
    BY <1>1, <1>3, <1>4, <1>7, <2>4
  <2> QED
    BY <1>5, <2>3, <2>5
<1>8. o < p \/ o >= p + k
  BY <1>1
<1> QED
  BY <1>6, <1>7, <1>8

\* OpenFile::Write() changes the bytes that it is asked to, and no other.
LEMMA WriteBytes ==
  ASSUME BytesInv, NEW count \in 0 .. MaxCount, NEW b \in Byte, O!Write(count, b)
  PROVE  BytesInv' /\ O!Bytes!Write(count, b)
<1>1. count \in Nat /\ FileLength \in Nat \ {0} /\ SectorSize \in Nat \ {0}
      /\ DOMAIN sector = O!Offset /\ sector \in [O!Offset -> Byte]
  BY ByteConstants DEF BytesInv
<1>2. PICK p \in Nat : p = seekPosition
  BY DEF BytesInv
<1>3. PICK k : k = Available(count, p)
  OBVIOUS
<1>4. k \in 0 .. count /\ (k > 0 => p + k <= FileLength)
  BY <1>1, <1>3, AvailableFacts
<1>5. ASSUME seekPosition' = p + k, into' = into,
             \A i \in 1 .. FileLength :
               sector'[i - 1] = IF i \in p + 1 .. p + k THEN b ELSE sector[i - 1]
      PROVE  O!Bytes!Write(count, b)
  <2>1. O!Bytes!Available(count) = k
    BY <1>1, <1>2, <1>3, SameAvailable
  <2> QED
    BY <1>2, <1>5, <2>1 DEF O!Bytes!Write
<1>6. CASE count <= 0 \/ p > FileLength
  <2>1. k = 0
    BY <1>1, <1>3, <1>6, AvailableFacts DEF Available
  <2>2. UNCHANGED <<sector, seekPosition, into>>
    BY <1>1, <1>2, <1>6 DEF O!Write
  <2>3. \A i \in 1 .. FileLength : i \notin p + 1 .. p + k
    BY <2>1
  <2>4. seekPosition' = p + k
    BY <1>2, <2>1, <2>2
  <2> QED
    BY <1>5, <2>2, <2>3, <2>4 DEF BytesInv
<1>7. CASE ~(count <= 0 \/ p > FileLength)
  <2>1. k = O!Clip(count, p) /\ p + k <= FileLength /\ (k > 0 \/ p = FileLength)
    BY <1>1, <1>3, <1>4, <1>7 DEF Available, O!Clip
  <2> DEFINE div(o) == o \div SectorSize
             written == {o \in O!Offset : div(o) \in div(p) .. div(p + k - 1)}
             kept == {o \in O!Offset : o < FileLength /\ div(o) \in O!ReadFirst(p, k)}
  <2>2. PICK garbage \in Byte :
          sector' = [o \in O!Offset |-> IF o \in p .. p + k - 1 THEN b
                                        ELSE IF o \in written /\ o \notin kept THEN garbage
                                        ELSE sector[o]]
    BY <1>2, <1>7, <2>1 DEF O!Write, O!divRoundDown
  <2>3. seekPosition' = p + k /\ into' = into
    BY <1>2, <1>7, <2>1 DEF O!Write
  <2>4. \A o \in 0 .. FileLength - 1 : o \notin p .. p + k - 1 => ~(o \in written /\ o \notin kept)
    <3> SUFFICES ASSUME NEW o \in 0 .. FileLength - 1, o \notin p .. p + k - 1, o \in written
                 PROVE  o \in kept
      OBVIOUS
    <3>1. div(o) \in O!ReadFirst(p, k)
      BY <1>4, <2>1, OthersKept
    <3> QED
      BY <1>1, <3>1
  <2> HIDE DEF written, kept
  <2>5. \A i \in 1 .. FileLength :
          sector'[i - 1] = IF i \in p + 1 .. p + k THEN b ELSE sector[i - 1]
    <3> SUFFICES ASSUME NEW i \in 1 .. FileLength
                 PROVE  sector'[i - 1] = IF i \in p + 1 .. p + k THEN b ELSE sector[i - 1]
      OBVIOUS
    <3>1. PICK o \in 0 .. FileLength - 1 : o = i - 1 /\ o \in O!Offset
      BY <1>1, BytesInSectors
    <3>2. o \in p .. p + k - 1 <=> i \in p + 1 .. p + k
      BY <1>1, <1>4, <3>1
    <3> QED
      BY <2>2, <2>4, <3>1, <3>2
  <2>6. BytesInv'
    BY <1>1, <1>4, <2>2, <2>3 DEF BytesInv
  <2> QED
    BY <1>5, <2>3, <2>5, <2>6
<1> QED
  BY <1>6, <1>7

\* A call of openfile.cc is the same call on the array of bytes.
LEMMA BytesStep ==
  ASSUME BytesInv, O!Next
  PROVE  BytesInv' /\ O!Bytes!Next
<1>1. ASSUME NEW position \in 0 .. FileLength + 1, O!Seek(position)
      PROVE  BytesInv' /\ O!Bytes!Seek(position)
  BY <1>1, ByteConstants DEF O!Seek, O!Bytes!Seek, BytesInv
<1>2. ASSUME NEW count \in 0 .. MaxCount, O!Read(count)
      PROVE  BytesInv' /\ O!Bytes!Read(count)
  <2>1. count \in Nat /\ seekPosition \in Nat
    BY ByteConstants DEF BytesInv
  <2>2. PICK k, r : k = Available(count, seekPosition) /\ r = O!ReadAt(count, seekPosition)
    OBVIOUS
  <2>3. /\ r = SubSeq(FileBytes, seekPosition + 1, seekPosition + k) /\ Len(r) = k /\ k \in Nat
    <3>1. PICK p \in Nat : p = seekPosition
      BY <2>1
    <3>2. Available(count, p) \in Nat
      BY <2>1, AvailableFacts
    <3> QED
      BY <2>1, <2>2, <3>1, <3>2, ReadAtFacts
  <2>4. into' = r /\ seekPosition' = seekPosition + Len(r) /\ sector' = sector
    BY <1>2, <2>2 DEF O!Read
  <2>5. O!Bytes!Available(count) = k
    BY <2>1, <2>2, SameAvailable
  <2>6. BytesInv'
    BY <2>1, <2>3, <2>4 DEF BytesInv
  <2> QED
    BY <2>3, <2>4, <2>5, <2>6 DEF O!Bytes!Read, FileBytes
<1>3. ASSUME NEW count \in 0 .. MaxCount, NEW b \in Byte, O!Write(count, b)
      PROVE  BytesInv' /\ O!Bytes!Write(count, b)
  BY <1>3, WriteBytes
<1> QED
  BY <1>1, <1>2, <1>3 DEF O!Next, O!Bytes!Next

\* The file starts as the array of bytes does.
LEMMA BytesInit ==
  ASSUME FilesInit
  PROVE  BytesInv /\ O!Bytes!Init
<1>1. sector \in [O!Offset -> Byte] /\ seekPosition = 0 /\ into = <<>>
  BY ByteConstants DEF FilesInit, O!Init
<1> QED
  BY <1>1, BytesInSectors DEF BytesInv, O!Bytes!Init

\* The open file of openfile.cc implements the array of bytes of openfile.h
\* call by call: Read() returns the bytes at the position, as many as there
\* are, and Write() changes those bytes and no other, although the disk reads
\* and writes whole sectors.
THEOREM FileSystemImplementsBytes == FileSystemSpec => BytesSpec
<1>1. FilesInit => BytesInv /\ O!Bytes!Init
  BY BytesInit
<1>2. BytesInv /\ [FilesNext]_everyVar => BytesInv' /\ [O!Bytes!Next]_(O!Bytes!byteVars)
  <2> SUFFICES ASSUME BytesInv, [FilesNext]_everyVar
               PROVE  BytesInv' /\ [O!Bytes!Next]_(O!Bytes!byteVars)
    OBVIOUS
  <2>1. CASE O!Next
    BY <2>1, BytesStep
  <2>2. CASE UNCHANGED openVars
    BY <2>2 DEF openVars, BytesInv, O!Bytes!byteVars
  <2> QED
    BY <2>1, <2>2 DEF FilesNext, everyVar
<1> QED
  BY <1>1, <1>2, PTL DEF FileSystemSpec, BytesSpec, O!BytesSpec, O!Bytes!Spec
(***************************************************************************)
(* The file system: what the bitmap hands out.                             *)
(***************************************************************************)

\* What is known of the constants of the disk.
LEMMA DiskConstants ==
  /\ NumSectors \in Nat /\ NumSectors > 4 /\ SectorSize \in Nat \ {0} /\ NumHdr \in Nat \ {0}
  /\ MaxLength \in Nat /\ MaxCtlC \in Nat /\ Sizes \subseteq Nat
  /\ IsFiniteSet(Sector) /\ Sector \subseteq Nat /\ -1 \notin Sector
<1>1. /\ NumSectors \in Nat /\ NumSectors > 4 /\ SectorSize \in Nat \ {0} /\ NumHdr \in Nat \ {0}
      /\ MaxLength \in Nat /\ MaxCtlC \in Nat /\ Sizes \subseteq Nat
  BY FileSystemAssumption
<1>2. IsFiniteSet(Sector)
  BY <1>1, FS_Interval DEF Sector
<1>3. Sector \subseteq Nat /\ -1 \notin Sector
  BY <1>1 DEF Sector
<1> QED
  BY <1>1, <1>2, <1>3

\* The sectors of the bitmap and of the directory, always marked; those that
\* files may use; and what BitMap::Find() may return.
Reserved == {FreeMapSector, DirectorySector, MapData, DirData}
Usable == Sector \ Reserved
Slot == Usable \cup {-1}

\* No file uses the sectors of the bitmap and the directory.
LEMMA SlotFacts ==
  /\ Reserved \subseteq Sector /\ Usable \subseteq Sector
  /\ \A s \in Usable : s \in Nat /\ s > 0 /\ s # -1 /\ s \notin {0, 1, 2, 3}
  /\ Slot \subseteq Int
BY DiskConstants DEF Sector, Usable, Slot, Reserved, FreeMapSector, DirectorySector, MapData, DirData

\* What is not a sector is -1.
LEMMA SlotPositive == \A x \in Slot : x > 0 <=> x # -1
BY SlotFacts DEF Slot

\* A set of numbers that is not empty has a smallest element.
LEMMA Smallest ==
  ASSUME NEW T \in SUBSET Nat, T # {}
  PROVE  \E x \in T : \A y \in T : x <= y
<1> DEFINE R == {ss \in Nat \X Nat : ss[1] < ss[2]}
<1>1. IsWellFoundedOn(R, Nat)
  BY NatLessThanWellFounded, Zenon DEF OpToRel
<1>2. PICK x \in T : \A y \in T : ~(<<y, x>> \in R)
  <2> HIDE DEF R
  <2> QED
    BY <1>1, WFMin
<1>3. ASSUME NEW y \in T, y < x
      PROVE  FALSE
  <2> DEFINE yx == <<y, x>>
  <2>1. yx \in Nat \X Nat /\ yx[1] = y /\ yx[2] = x
    OBVIOUS
  <2>2. yx \notin R
    BY <1>2
  <2> HIDE DEF yx
  <2>3. yx \in R
    BY <1>3, <2>1
  <2> QED
    BY <2>2, <2>3
<1> QED
  BY <1>3

\* The elements of a finite set of numbers can be counted in their order.
LEMMA RankExists ==
  ASSUME NEW C \in SUBSET Nat, IsFiniteSet(C)
  PROVE  \A i \in 1 .. Cardinality(C) :
           \E s \in C : Cardinality({c \in C : c < s}) = i - 1
<1> DEFINE Rank(s) == Cardinality({c \in C : c < s})
           n == Cardinality(C)
           T == {i \in 1 .. n : \A s \in C : Rank(s) # i - 1}
<1>1. n \in Nat /\ \A c \in C : c \in Nat
  BY FS_CardinalityType
<1> HIDE DEF n
<1>2. SUFFICES ASSUME T # {}
               PROVE  FALSE
  BY DEF n
<1>3. PICK i \in T : \A j \in T : i <= j
  <2>1. T \in SUBSET Nat
    OBVIOUS
  <2> HIDE DEF T
  <2> QED
    BY <1>2, <2>1, Smallest
<1>4. CASE i = 1
  <2>1. C # {}
    BY <1>1, <1>3, FS_EmptySet DEF n
  <2>2. PICK s \in C : \A c \in C : s <= c
    BY <2>1, Smallest
  <2>3. {c \in C : c < s} = {}
    <3>1. \A c \in C : ~(c < s)
      BY <1>1, <2>2
    <3> QED
      BY <3>1, Zenon
  <2>4. Rank(s) = 0
    BY <2>3, FS_EmptySet
  <2> QED
    BY <1>3, <1>4, <2>4
<1>5. CASE i # 1
  <2>1. i - 1 \in 1 .. n /\ i - 1 \notin T
    BY <1>1, <1>3, <1>5
  <2>2. PICK s \in C : Rank(s) = (i - 1) - 1
    BY <2>1
  <2> DEFINE below == {c \in C : c < s}
             above == {c \in C : c > s}
  <2>3. IsFiniteSet(below) /\ Cardinality(below) = i - 2
    <3>1. IsFiniteSet(below)
      BY FS_Subset
    <3> QED
      BY <1>1, <1>3, <2>2, <3>1
  <2>4. Cardinality(below \cup {s}) = i - 1 /\ IsFiniteSet(below \cup {s})
    <3>1. s \notin below
      OBVIOUS
    <3> HIDE DEF below
    <3> QED
      BY <1>1, <1>3, <2>3, <3>1, FS_AddElement
  <2>5. above # {}
    <3>1. ASSUME above = {} PROVE FALSE
      <4>1. C = below \cup {s}
        <5>1. \A c \in C : c < s \/ c = s
          <6>1. \A c \in C : ~(c > s)
            BY <3>1, Zenon
          <6> QED
            BY <1>1, <6>1
        <5> QED
          BY <5>1, Zenon
      <4> HIDE DEF below
      <4> QED
        BY <1>1, <1>3, <2>4, <4>1 DEF n
    <3> QED
      BY <3>1
  <2>6. PICK t \in above : \A c \in above : t <= c
    BY <2>5, Smallest
  <2>7. {c \in C : c < t} = below \cup {s}
    <3>1. t \in C /\ t > s
      BY <2>6
    <3>2. \A c \in C : c > s => t <= c
      BY <2>6
    <3>3. \A c \in C : c < t <=> (c < s \/ c = s)
      BY <1>1, <3>1, <3>2
    <3> QED
      BY <3>3, Zenon
  <2>8. t \in C /\ Rank(t) = i - 1
    BY <2>4, <2>6, <2>7
  <2> QED
    BY <1>3, <2>8
<1> QED
  BY <1>4, <1>5

\* BitMap::Find() returns the clear sectors in their order, each once, and -1
\* when there is none left.
LEMMA FindFacts ==
  ASSUME NEW map, map \subseteq Sector, NEW k \in Nat
  PROVE  LET found == FindAll(map, k)
             clear == NumClear(map)
         IN  /\ clear \in Nat
             /\ found \in Seq(Sector \cup {-1}) /\ Len(found) = k /\ DOMAIN found = 1 .. k
             /\ \A i \in 1 .. k : i <= clear => found[i] \in Sector \ map
             /\ \A i \in 1 .. k : i > clear => found[i] = -1
             /\ \A i, j \in 1 .. k : found[i] = found[j] /\ found[i] # -1 => i = j
<1> DEFINE found == FindAll(map, k)
           C == Sector \ map
           n == NumClear(map)
           Rank(s) == Cardinality({c \in C : c < s})
<1>1. C \in SUBSET Nat /\ IsFiniteSet(C) /\ n = Cardinality(C) /\ n \in Nat
  BY DiskConstants, FS_Difference, FS_CardinalityType DEF NumClear
<1>2. \A i \in 1 .. Cardinality(C) : \E s \in C : Rank(s) = i - 1
  BY <1>1, RankExists
<1>3. found = [i \in 1 .. k |-> IF i > n THEN -1 ELSE CHOOSE s \in C : Rank(s) = i - 1]
  BY <1>1 DEF FindAll
<1> HIDE DEF found, Rank, C, n
<1>4. \A i \in 1 .. k : i <= n => found[i] \in C /\ Rank(found[i]) = i - 1
  BY <1>1, <1>2, <1>3
<1>5. \A i \in 1 .. k : i > n => found[i] = -1
  BY <1>3
<1>6. -1 \notin C /\ C \subseteq Sector
  BY DiskConstants DEF C
<1>7. \A i \in 1 .. k : found[i] \in Sector \cup {-1}
  <2> SUFFICES ASSUME NEW i \in 1 .. k PROVE found[i] \in Sector \cup {-1}
    OBVIOUS
  <2>1. i <= n \/ i > n
    BY <1>1
  <2> QED
    BY <1>4, <1>5, <1>6, <2>1
<1>8. \A i, j \in 1 .. k : found[i] = found[j] /\ found[i] # -1 => i = j
  <2> SUFFICES ASSUME NEW i \in 1 .. k, NEW j \in 1 .. k, found[i] = found[j], found[i] # -1
               PROVE  i = j
    OBVIOUS
  <2>1. i <= n /\ j <= n
    BY <1>1, <1>5
  <2>2. Rank(found[i]) = i - 1 /\ Rank(found[i]) = j - 1
    BY <1>4, <2>1
  <2> QED
    BY <2>2
<1>9. found \in [1 .. k -> Sector \cup {-1}]
  BY <1>3, <1>7
<1>10. found \in Seq(Sector \cup {-1}) /\ Len(found) = k /\ DOMAIN found = 1 .. k
  BY <1>9
<1> QED
  BY <1>1, <1>4, <1>5, <1>8, <1>10 DEF found, C, n

\* A header in memory.
MemHeader == [numBytes : Nat, flag : Slot, dataSectors : Seq(Slot)]

\* Room(new, old, k, flag, map, clear): k sectors behind the old ones, and an
\* index block if the header does not hold them all.  They were clear, and the
\* last one is -1 at most if there were not as many clear sectors.
Room(new, old, k, flag, map, clear) ==
  /\ \A i \in old + 1 .. old + k : new[i] = -1 \/ new[i] \in Sector \ map
  /\ \A i, j \in old + 1 .. old + k : new[i] = new[j] /\ new[i] # -1 => i = j
  /\ flag = -1 \/ flag \in Sector \ map
  /\ flag # -1 => \A i \in old + 1 .. old + k : new[i] # flag
  /\ old + k <= NumHdr => flag = -1
  /\ clear >= k => \A i \in old + 1 .. old + k - 1 : new[i] # -1
  /\ clear >= k /\ (old + k <= NumHdr \/ clear > k) => \A i \in old + 1 .. old + k : new[i] # -1
  /\ clear >= k /\ k > 0 /\ old + k > NumHdr => flag # -1

\* What Grow() does to a header h.
Grown(h, map, k, r) ==
  LET old == Len(h.dataSectors)
      new == r.hdr.dataSectors
  IN  /\ r.hdr \in MemHeader /\ r.hdr.numBytes = h.numBytes
      /\ Len(new) = old + k /\ old \in Nat
      /\ \A i \in 1 .. old : new[i] = h.dataSectors[i]
      /\ Room(new, old, k, r.hdr.flag, map, NumClear(map))
      /\ r.map = map \cup (({new[i] : i \in old + 1 .. old + k} \cup {r.hdr.flag}) \ {-1})

\* FileHeader::Allocate() and AppSector() hand out clear sectors.
LEMMA GrowFacts ==
  ASSUME NEW h \in MemHeader, NEW map, map \subseteq Sector, Reserved \subseteq map, NEW k \in Nat
  PROVE  Grown(h, map, k, Grow(h, map, k))
<1> DEFINE L == h.dataSectors
           old == Len(L)
           direct == IF old > NumHdr THEN 0 ELSE NumHdr - old
           n == old + k
           m == IF n <= NumHdr THEN k ELSE k + 1
           found == FindAll(map, m)
           clear == NumClear(map)
           r == Grow(h, map, k)
           new == r.hdr.dataSectors
           flag == r.hdr.flag
           at(i) == IF n <= NumHdr \/ i <= direct THEN i ELSE i + 1
<1>1. L \in Seq(Slot) /\ old \in Nat /\ h.numBytes \in Nat /\ NumHdr \in Nat /\ n \in Nat /\ m \in Nat
  BY DiskConstants, LenProperties DEF MemHeader
<1>2. direct \in Nat /\ (n > NumHdr => direct < k \/ (direct = 0 /\ k = 0))
  BY <1>1
<1>3. /\ clear \in Nat /\ found \in Seq(Sector \cup {-1}) /\ Len(found) = m /\ DOMAIN found = 1 .. m
      /\ \A i \in 1 .. m : i <= clear => found[i] \in Sector \ map
      /\ \A i \in 1 .. m : i > clear => found[i] = -1
      /\ \A i, j \in 1 .. m : found[i] = found[j] /\ found[i] # -1 => i = j
  BY <1>1, FindFacts
<1>4. r = [map |-> Mark(map, found),
           hdr |-> IF n <= NumHdr
                   THEN [h EXCEPT !.flag = -1, !.dataSectors = @ \o found]
                   ELSE [h EXCEPT !.flag = found[direct + 1],
                                  !.dataSectors = @ \o SubSeq(found, 1, direct)
                                                    \o SubSeq(found, direct + 2, k + 1)]]
  BY DEF Grow
<1>5. /\ r.map = Mark(map, found) /\ r.hdr.numBytes = h.numBytes
      /\ r.hdr = [numBytes |-> h.numBytes, flag |-> flag, dataSectors |-> new]
      /\ n <= NumHdr => flag = -1 /\ new = L \o found
      /\ ~(n <= NumHdr) => /\ flag = found[direct + 1]
                           /\ new = (L \o SubSeq(found, 1, direct)) \o SubSeq(found, direct + 2, k + 1)
  <2>1. r.map = Mark(map, found)
    BY <1>4
  <2>2. CASE n <= NumHdr
    <3>1. r.hdr = [h EXCEPT !.flag = -1, !.dataSectors = @ \o found]
      BY <1>4, <2>2
    <3> HIDE DEF r, found
    <3>2. r.hdr = [numBytes |-> h.numBytes, flag |-> -1, dataSectors |-> L \o found]
      BY <3>1 DEF MemHeader
    <3>3. flag = -1 /\ new = L \o found /\ r.hdr.numBytes = h.numBytes
      BY <3>2
    <3>4. r.hdr = [numBytes |-> h.numBytes, flag |-> flag, dataSectors |-> new]
      BY <3>2, <3>3
    <3> HIDE DEF flag, new
    <3> QED
      BY <2>1, <2>2, <3>3, <3>4
  <2>3. CASE ~(n <= NumHdr)
    <3>1. r.hdr = [h EXCEPT !.flag = found[direct + 1],
                            !.dataSectors = (@ \o SubSeq(found, 1, direct)) \o SubSeq(found, direct + 2, k + 1)]
      BY <1>4, <2>3
    <3> HIDE DEF r, found, direct
    <3> DEFINE ds == (L \o SubSeq(found, 1, direct)) \o SubSeq(found, direct + 2, k + 1)
               fl == found[direct + 1]
    <3>2. r.hdr = [numBytes |-> h.numBytes, flag |-> fl, dataSectors |-> ds]
      BY <3>1 DEF MemHeader
    <3> HIDE DEF ds, fl
    <3>2a. flag = fl /\ new = ds /\ r.hdr.numBytes = h.numBytes
      BY <3>2
    <3>3. /\ flag = found[direct + 1] /\ r.hdr.numBytes = h.numBytes
          /\ new = (L \o SubSeq(found, 1, direct)) \o SubSeq(found, direct + 2, k + 1)
      BY <3>2a DEF ds, fl
    <3>4. r.hdr = [numBytes |-> h.numBytes, flag |-> flag, dataSectors |-> new]
      BY <3>2, <3>2a
    <3> HIDE DEF flag, new
    <3> QED
      BY <2>1, <2>3, <3>3, <3>4
  <2> QED
    BY <2>2, <2>3
<1> HIDE DEF L, r, new, flag, found, clear, direct, m
<1>6. \A i \in 1 .. m : found[i] \in Slot /\ (found[i] = -1 \/ found[i] \in Sector \ map)
  <2> SUFFICES ASSUME NEW i \in 1 .. m PROVE found[i] = -1 \/ found[i] \in Sector \ map
    BY DEF Slot, Usable
  <2>1. i <= clear \/ i > clear
    BY <1>1, <1>3
  <2> QED
    BY <1>3, <2>1
<1>7. found \in Seq(Slot)
  <2>1. found = [i \in 1 .. m |-> found[i]]
    BY <1>3, LenProperties
  <2>2. found \in [1 .. m -> Slot]
    BY <1>6, <2>1
  <2> QED
    BY <1>1, <2>2
\* Where the new sectors come from.
<1>8. /\ new \in Seq(Slot) /\ Len(new) = n
      /\ \A i \in 1 .. old : new[i] = L[i]
      /\ \A i \in 1 .. k : new[old + i] = found[at(i)] /\ at(i) \in 1 .. m
  <2>1. CASE n <= NumHdr
    <3>1. m = k /\ new = L \o found
      BY <1>5, <2>1 DEF m
    <3>1a. L \in Seq(Slot) /\ found \in Seq(Slot) /\ Len(L) = old /\ Len(found) = k
      BY <1>1, <1>3, <1>7, <3>1
    <3>1b. /\ L \o found \in Seq(Slot) /\ Len(L \o found) = old + k
           /\ \A i \in 1 .. old + k : (L \o found)[i] = IF i <= old THEN L[i] ELSE found[i - old]
      BY <3>1a, ConcatProperties
    <3>2. /\ new \in Seq(Slot) /\ Len(new) = old + k
          /\ \A i \in 1 .. old + k : new[i] = IF i <= old THEN L[i] ELSE found[i - old]
      BY <3>1, <3>1b
    <3>3. \A i \in 1 .. k : old + i \in 1 .. old + k /\ ~(old + i <= old) /\ (old + i) - old = i /\ at(i) = i
      BY <1>1, <2>1
    <3>4. \A i \in 1 .. old : i \in 1 .. old + k /\ i <= old
      BY <1>1
    <3> QED
      BY <1>1, <3>1, <3>2, <3>3, <3>4
  <2>2. CASE ~(n <= NumHdr)
    <3> DEFINE a == SubSeq(found, 1, direct)
               b == SubSeq(found, direct + 2, k + 1)
    <3>0. m = k + 1 /\ direct <= k
      BY <1>1, <1>2, <2>2 DEF m, direct
    <3>1. m = k + 1 /\ new = (L \o a) \o b /\ direct <= k
      BY <1>5, <2>2, <3>0
    <3>2. a \in Seq(Slot) /\ Len(a) = direct /\ \A i \in 1 .. direct : a[i] = found[i]
      <4>1. \A i \in 1 .. direct : found[i] \in Slot
        BY <1>1, <1>2, <1>6, <3>1
      <4> QED
        BY <1>2, <4>1, SubSeqProperties
    <3>3. /\ b \in Seq(Slot) /\ Len(b) = k - direct
          /\ \A i \in 1 .. k - direct : b[i] = found[direct + 1 + i]
      <4>1. \A i \in direct + 2 .. k + 1 : found[i] \in Slot
        BY <1>1, <1>2, <1>6, <3>1
      <4>2. PICK p, q \in Int : p = direct + 2 /\ q = k + 1
        BY <1>2
      <4>3. /\ b \in Seq(Slot) /\ Len(b) = (IF p <= q THEN q - p + 1 ELSE 0)
            /\ \A i \in 1 .. q - p + 1 : b[i] = found[p + i - 1]
        BY <4>1, <4>2, SubSeqProperties
      <4> HIDE DEF b
      <4>4. Len(b) = k - direct
        BY <1>2, <3>1, <4>2, <4>3
      <4>5. \A i \in 1 .. k - direct : i \in 1 .. q - p + 1 /\ p + i - 1 = direct + 1 + i
        BY <1>2, <4>2
      <4> QED
        BY <4>3, <4>4, <4>5
    <3> HIDE DEF a, b
    <3> DEFINE c == L \o a
    <3>4. /\ c \in Seq(Slot) /\ Len(c) = old + direct
          /\ \A i \in 1 .. old + direct : c[i] = IF i <= old THEN L[i] ELSE a[i - old]
      BY <1>1, <3>2, ConcatProperties
    <3>4a. new = c \o b
      BY <3>1
    <3> HIDE DEF c
    <3>5. /\ new \in Seq(Slot) /\ Len(new) = (old + direct) + (k - direct)
          /\ \A i \in 1 .. (old + direct) + (k - direct) :
               new[i] = IF i <= old + direct THEN c[i] ELSE b[i - (old + direct)]
      <4>1. PICK p, q \in Nat : p = old + direct /\ q = k - direct
        BY <1>1, <1>2, <3>0
      <4>2. Len(c) = p /\ Len(b) = q /\ c \in Seq(Slot) /\ b \in Seq(Slot)
        BY <3>3, <3>4, <4>1
      <4>3. /\ new \in Seq(Slot) /\ Len(new) = p + q
            /\ \A i \in 1 .. p + q : new[i] = IF i <= p THEN c[i] ELSE b[i - p]
        BY <3>4a, <4>2, ConcatProperties
      <4> QED
        BY <4>1, <4>3
    <3>6. Len(new) = n
      BY <1>1, <1>2, <3>5
    <3>7. \A i \in 1 .. old : new[i] = L[i]
      <4>1. \A i \in 1 .. old : /\ i \in 1 .. (old + direct) + (k - direct) /\ i <= old + direct
                                /\ i \in 1 .. old + direct
        BY <1>1, <1>2, <3>1
      <4> QED
        BY <3>4, <3>5, <4>1
    <3>8. ASSUME NEW i \in 1 .. k
          PROVE  new[old + i] = found[at(i)] /\ at(i) \in 1 .. m
      <4>0. old + i \in 1 .. (old + direct) + (k - direct)
        BY <1>1, <1>2, <3>1
      <4>1. CASE i <= direct
        <5>1. old + i <= old + direct /\ old + i \in 1 .. old + direct /\ ~(old + i <= old) /\ (old + i) - old = i
              /\ i \in 1 .. direct
          BY <1>1, <1>2, <4>1
        <5>2. new[old + i] = c[old + i]
          BY <3>5, <4>0, <5>1
        <5>3. c[old + i] = a[i]
          BY <3>4, <5>1
        <5>4. a[i] = found[i]
          BY <3>2, <5>1
        <5>5. at(i) = i /\ i \in 1 .. m
          BY <3>1, <4>1
        <5> QED
          BY <5>2, <5>3, <5>4, <5>5
      <4>2. CASE ~(i <= direct)
        <5>1. /\ ~(old + i <= old + direct) /\ (old + i) - (old + direct) = i - direct
              /\ i - direct \in 1 .. k - direct /\ direct + 1 + (i - direct) = i + 1
          BY <1>1, <1>2, <4>2
        <5>2. new[old + i] = b[i - direct]
          BY <3>5, <4>0, <5>1
        <5>3. b[i - direct] = found[i + 1]
          BY <3>3, <5>1
        <5>4. at(i) = i + 1 /\ i + 1 \in 1 .. m
          BY <2>2, <3>1, <4>2
        <5> QED
          BY <5>2, <5>3, <5>4
      <4> QED
        BY <4>1, <4>2
    <3> QED
      BY <3>5, <3>6, <3>7, <3>8
  <2> QED
    BY <2>1, <2>2
<1>9. /\ \A i, j \in 1 .. k : at(i) = at(j) => i = j
      /\ \A i \in 1 .. k : n > NumHdr => at(i) # direct + 1
      /\ n > NumHdr => direct + 1 \in 1 .. m
      /\ \A j \in 1 .. m : (\E i \in 1 .. k : at(i) = j) \/ (n > NumHdr /\ j = direct + 1)
  <2>1. n > NumHdr <=> ~(n <= NumHdr)
    BY <1>1
  <2>2. ASSUME NEW j \in 1 .. m
        PROVE  (\E i \in 1 .. k : at(i) = j) \/ (n > NumHdr /\ j = direct + 1)
    <3>1. CASE n <= NumHdr
      <4>1. j \in 1 .. k /\ at(j) = j
        BY <3>1 DEF m
      <4> QED
        BY <4>1
    <3>2. CASE n > NumHdr /\ j <= direct
      <4>1. j \in 1 .. k /\ at(j) = j
        BY <1>1, <1>2, <3>2
      <4> QED
        BY <4>1
    <3>3. CASE n > NumHdr /\ j > direct + 1
      <4>1. j - 1 \in 1 .. k /\ at(j - 1) = j
        BY <1>1, <1>2, <3>3 DEF m
      <4> QED
        BY <4>1
    <3> QED
      BY <1>1, <1>2, <3>1, <3>2, <3>3
  <2>3. n > NumHdr => direct + 1 \in 1 .. m
    BY <1>1, <1>2 DEF m
  <2>4. \A i, j \in 1 .. k : at(i) = at(j) => i = j
    BY <1>2
  <2>5. \A i \in 1 .. k : n > NumHdr => at(i) # direct + 1
    BY <1>1, <1>2
  <2> HIDE DEF at
  <2> QED
    BY <2>2, <2>3, <2>4, <2>5
<1>10. flag = IF n <= NumHdr THEN -1 ELSE found[direct + 1]
  BY <1>5
<1>11. flag \in Slot /\ (flag = -1 \/ flag \in Sector \ map)
  BY <1>1, <1>6, <1>9, <1>10 DEF Slot
<1>12. r.hdr \in MemHeader
  BY <1>1, <1>5, <1>8, <1>11 DEF MemHeader
<1> DEFINE fresh == {new[i] : i \in old + 1 .. old + k}
<1>13. \A i \in old + 1 .. old + k : i - old \in 1 .. k /\ old + (i - old) = i
  BY <1>1
<1>13a. \A i \in 1 .. k : old + i \in old + 1 .. old + k
  BY <1>1
<1> HIDE DEF at, n, old
<1>14. \A i \in old + 1 .. old + k : new[i] = found[at(i - old)] /\ at(i - old) \in 1 .. m
  BY <1>8, <1>13
<1>15. r.map = map \cup ((fresh \cup {flag}) \ {-1})
  <2>1. ToSet(found) = {found[j] : j \in 1 .. m}
    BY <1>3 DEF ToSet
  <2>2. \A x : x # -1 => (x \in ToSet(found) <=> x \in fresh \cup {flag})
    <3>1. ASSUME NEW j \in 1 .. m
          PROVE  found[j] \in fresh \cup {flag}
      <4>1. CASE \E i \in 1 .. k : at(i) = j
        <5>1. PICK i \in 1 .. k : at(i) = j
          BY <4>1
        <5>2. new[old + i] = found[j] /\ old + i \in old + 1 .. old + k
          BY <1>8, <1>13a, <5>1
        <5> QED
          BY <5>2
      <4>2. CASE n > NumHdr /\ j = direct + 1
        <5>1. ~(n <= NumHdr)
          BY <1>1, <4>2
        <5> QED
          BY <1>10, <4>2, <5>1
      <4> QED
        BY <1>9, <4>1, <4>2
    <3>2. \A x \in fresh : x \in ToSet(found)
      BY <1>14, <2>1
    <3>3. flag # -1 => flag \in ToSet(found)
      BY <1>1, <1>9, <1>10, <2>1
    <3> QED
      BY <2>1, <3>1, <3>2, <3>3
  <2> QED
    BY <1>5, <2>2 DEF Mark
<1>16. Room(new, old, k, flag, map, clear)
  <2>1. \A i \in old + 1 .. old + k : new[i] = -1 \/ new[i] \in Sector \ map
    BY <1>6, <1>14
  <2>2. \A i, j \in old + 1 .. old + k : new[i] = new[j] /\ new[i] # -1 => i = j
    <3> SUFFICES ASSUME NEW i \in old + 1 .. old + k, NEW j \in old + 1 .. old + k,
                        new[i] = new[j], new[i] # -1
                 PROVE  i = j
      OBVIOUS
    <3>1. at(i - old) = at(j - old)
      BY <1>3, <1>14
    <3>2. i - old = j - old
      BY <1>9, <1>13, <3>1
    <3> QED
      BY <1>13, <3>2
  <2>3. flag # -1 => \A i \in old + 1 .. old + k : new[i] # flag
    <3> SUFFICES ASSUME flag # -1, NEW i \in old + 1 .. old + k, new[i] = flag
                 PROVE  FALSE
      OBVIOUS
    <3>1. n > NumHdr /\ flag = found[direct + 1]
      BY <1>1, <1>10
    <3>2. at(i - old) = direct + 1
      BY <1>3, <1>9, <1>14, <3>1
    <3> QED
      BY <1>9, <1>13, <3>1, <3>2
  <2>4. clear >= k => \A i \in old + 1 .. old + k - 1 : new[i] # -1
    <3> SUFFICES ASSUME clear >= k, NEW i \in old + 1 .. old + k - 1
                 PROVE  new[i] # -1
      OBVIOUS
    <3>1. i \in old + 1 .. old + k /\ i - old \in 1 .. k - 1
      BY <1>1
    <3>2. at(i - old) <= k
      BY <1>1, <3>1 DEF at
    <3>3. at(i - old) <= clear /\ at(i - old) \in 1 .. m
      <4>1. at(i - old) \in 1 .. m
        BY <1>14, <3>1
      <4> HIDE DEF at
      <4>2. at(i - old) \in Int
        BY <4>1
      <4> QED
        BY <1>1, <1>3, <3>2, <4>1, <4>2
    <3>4. new[i] \in Sector
      BY <1>3, <1>14, <3>1, <3>3
    <3> QED
      BY <3>4, DiskConstants
  <2>5. clear >= k /\ (n <= NumHdr \/ clear > k) => \A i \in old + 1 .. old + k : new[i] # -1
    <3> SUFFICES ASSUME clear >= k, n <= NumHdr \/ clear > k, NEW i \in old + 1 .. old + k
                 PROVE  new[i] # -1
      OBVIOUS
    <3>1. i - old \in 1 .. k /\ at(i - old) \in 1 .. m
      BY <1>13, <1>14
    <3>2. at(i - old) <= clear
      BY <1>1, <1>3, <3>1 DEF at
    <3>4. new[i] \in Sector
      BY <1>3, <1>14, <3>1, <3>2
    <3> QED
      BY <3>4, DiskConstants
  <2>6. clear >= k /\ k > 0 /\ n > NumHdr => flag # -1
    <3> SUFFICES ASSUME clear >= k, k > 0, n > NumHdr
                 PROVE  flag # -1
      OBVIOUS
    <3>1. direct + 1 <= clear /\ direct + 1 \in 1 .. m /\ flag = found[direct + 1]
      BY <1>1, <1>2, <1>3, <1>9, <1>10
    <3> QED
      BY <1>3, <3>1, DiskConstants
  <2> QED
    BY <1>10, <1>11, <2>1, <2>2, <2>3, <2>4, <2>5, <2>6 DEF Room, n
<1> QED
  BY <1>1, <1>5, <1>8, <1>12, <1>15, <1>16 DEF L, old, n, r, new, flag, clear, Grown

-----------------------------------------------------------------------------
(* What is on the disk while a command writes.                             *)

\* What a sector may hold: a header, an index block or data, but for the
\* sectors of the bitmap and of the directory.
HeaderC(c) ==
  /\ DOMAIN c = {"numBytes", "flag", "direct"}
  /\ c.numBytes \in Nat /\ c.flag \in Slot /\ c.direct \in Seq(Slot)
IndexC(c) == DOMAIN c = {"index"} /\ c.index \in Seq(Slot)
DataC(c) == DOMAIN c = {"data"}
MapC(c) == DOMAIN c = {"map"} /\ Reserved \subseteq c.map /\ c.map \subseteq Sector
DirC(c) ==
  /\ DOMAIN c = {"dir"}
  /\ DOMAIN c.dir \subseteq Name
  /\ \A n \in DOMAIN c.dir : c.dir[n] \in Usable

Fit(s, c) ==
  /\ s = MapData => MapC(c)
  /\ s = DirData => DirC(c)
  /\ s \notin {MapData, DirData} => HeaderC(c) \/ IndexC(c) \/ DataC(c)

Disk(D) ==
  /\ D = [s \in Sector |-> D[s]]
  /\ \A s \in Sector \ {FreeMapSector, DirectorySector} : Fit(s, D[s])

\* The parts of a disk D, whether or not it is the one there is now.
Hdr(c) == "numBytes" \in DOMAIN c
Idx(c) == "index" \in DOMAIN c
MapOf(D) == D[MapData].map
DirOf(D) == D[DirData].dir
Listing(D, s) ==
  D[s].direct \o (IF D[s].flag > 0 /\ Idx(D[D[s].flag]) THEN D[D[s].flag].index ELSE <<>>)
UsesOf(D, s) == ({s} \cup ToSet(Listing(D, s))) \cup ({D[s].flag} \ {-1})

\* The disk d after the first k of the writes w.
After(d, w, k) ==
  [s \in Sector |-> IF \E i \in 1 .. k : w[i].at = s
                    THEN w[CHOOSE i \in 1 .. k : w[i].at = s].put
                    ELSE d[s]]

IsSeq(w) == w \in Seq(ToSet(w))
Fitting(w) ==
  /\ IsSeq(w)
  /\ \A i \in 1 .. Len(w) : w[i].at \in Slot \cup {MapData, DirData} /\ Fit(w[i].at, w[i].put)
Distinct(w) == \A i, j \in 1 .. Len(w) : w[i].at = w[j].at => i = j

\* Sequences, whatever their elements.
LEMMA SeqFacts ==
  /\ \A w : IsSeq(w) => Len(w) \in Nat /\ DOMAIN w = 1 .. Len(w)
                        /\ ToSet(w) = {w[i] : i \in 1 .. Len(w)}
  /\ \A S : \A w \in Seq(S) : IsSeq(w)
<1>1. ASSUME NEW w, IsSeq(w)
      PROVE  Len(w) \in Nat /\ DOMAIN w = 1 .. Len(w) /\ ToSet(w) = {w[i] : i \in 1 .. Len(w)}
  <2>1. Len(w) \in Nat /\ DOMAIN w = 1 .. Len(w)
    BY <1>1, LenProperties DEF IsSeq
  <2> QED
    BY <2>1 DEF ToSet
<1>2. ASSUME NEW S, NEW w \in Seq(S)
      PROVE  IsSeq(w)
  <2>1. Len(w) \in Nat /\ DOMAIN w = 1 .. Len(w) /\ w \in [1 .. Len(w) -> S]
    BY LenProperties
  <2>2. \A i \in 1 .. Len(w) : w[i] \in ToSet(w)
    BY <2>1 DEF ToSet
  <2>3. w = [i \in 1 .. Len(w) |-> w[i]]
    BY <2>1
  <2>4. w \in [1 .. Len(w) -> ToSet(w)]
    BY <2>2, <2>3
  <2> QED
    BY <2>1, <2>4 DEF IsSeq
<1> QED
  BY <1>1, <1>2

\* The elements of two sequences in a row.
LEMMA Joined ==
  \A a, b : IsSeq(a) /\ IsSeq(b) =>
    /\ IsSeq(a \o b) /\ Len(a \o b) = Len(a) + Len(b)
    /\ \A i \in 1 .. Len(a) : (a \o b)[i] = a[i]
    /\ \A i \in 1 .. Len(b) : (a \o b)[Len(a) + i] = b[i]
<1> SUFFICES ASSUME NEW a, NEW b, IsSeq(a), IsSeq(b)
             PROVE  /\ IsSeq(a \o b) /\ Len(a \o b) = Len(a) + Len(b)
                    /\ \A i \in 1 .. Len(a) : (a \o b)[i] = a[i]
                    /\ \A i \in 1 .. Len(b) : (a \o b)[Len(a) + i] = b[i]
  OBVIOUS
<1> DEFINE S == ToSet(a) \cup ToSet(b)
           c == a \o b
<1>1. a \in Seq(S) /\ b \in Seq(S)
  BY SeqMonotonic DEF IsSeq
<1>2. Len(a) \in Nat /\ Len(b) \in Nat
  BY <1>1, LenProperties
<1> HIDE DEF S
<1>3. /\ c \in Seq(S) /\ Len(c) = Len(a) + Len(b)
      /\ \A i \in 1 .. Len(a) + Len(b) : c[i] = IF i <= Len(a) THEN a[i] ELSE b[i - Len(a)]
  BY <1>1, ConcatProperties
<1> HIDE DEF c
<1>4. IsSeq(c)
  BY <1>3, SeqFacts
<1>5. \A i \in 1 .. Len(a) : c[i] = a[i]
  <2>1. \A i \in 1 .. Len(a) : i \in 1 .. Len(a) + Len(b) /\ i <= Len(a)
    BY <1>2
  <2> QED
    BY <1>3, <2>1
<1>6. \A i \in 1 .. Len(b) : c[Len(a) + i] = b[i]
  <2>1. \A i \in 1 .. Len(b) : /\ Len(a) + i \in 1 .. Len(a) + Len(b)
                               /\ ~(Len(a) + i <= Len(a)) /\ (Len(a) + i) - Len(a) = i
    BY <1>2
  <2> QED
    BY <1>3, <2>1
<1> QED
  BY <1>3, <1>4, <1>5, <1>6 DEF c

\* What a sector holds after k writes to distinct sectors.
LEMMA AfterPut ==
  \A d, w, k : IsSeq(w) /\ Distinct(w) /\ k \in 0 .. Len(w) =>
    \A i \in 1 .. k : w[i].at \in Sector => After(d, w, k)[w[i].at] = w[i].put
<1> SUFFICES ASSUME NEW d, NEW w, NEW k, IsSeq(w), Distinct(w), k \in 0 .. Len(w),
                    NEW i \in 1 .. k, w[i].at \in Sector
             PROVE  After(d, w, k)[w[i].at] = w[i].put
  OBVIOUS
<1>0. Len(w) \in Nat
  BY SeqFacts
<1> DEFINE j == CHOOSE j \in 1 .. k : w[j].at = w[i].at
<1>1. j \in 1 .. k /\ w[j].at = w[i].at
  OBVIOUS
<1>2. After(d, w, k)[w[i].at] = w[j].put
  BY DEF After
<1> HIDE DEF j
<1>3. j = i
  BY <1>0, <1>1 DEF Distinct
<1> QED
  BY <1>2, <1>3

\* What a sector holds that is not written.
LEMMA AfterKept ==
  \A d, w, k : DOMAIN After(d, w, k) = Sector
               /\ \A s \in Sector : (\A i \in 1 .. k : w[i].at # s) => After(d, w, k)[s] = d[s]
BY DEF After

\* Writes that fit leave a disk.
LEMMA AfterFits ==
  ASSUME NEW d, Disk(d), NEW w, Fitting(w), NEW k \in 0 .. Len(w)
  PROVE  Disk(After(d, w, k))
<1>0. Len(w) \in Nat
  BY SeqFacts DEF Fitting
<1>1. ASSUME NEW s \in Sector \ {FreeMapSector, DirectorySector}
      PROVE  Fit(s, After(d, w, k)[s])
  <2>1. CASE \E i \in 1 .. k : w[i].at = s
    <3> DEFINE j == CHOOSE j \in 1 .. k : w[j].at = s
    <3>1. j \in 1 .. k /\ w[j].at = s
      BY <2>1
    <3>2. After(d, w, k)[s] = w[j].put
      BY <2>1 DEF After
    <3> HIDE DEF j
    <3>3. j \in 1 .. Len(w)
      BY <1>0, <3>1
    <3> QED
      BY <3>1, <3>2, <3>3 DEF Fitting
  <2>2. CASE ~(\E i \in 1 .. k : w[i].at = s)
    <3>1. After(d, w, k)[s] = d[s]
      BY <2>2 DEF After
    <3> QED
      BY <3>1 DEF Disk
  <2> QED
    BY <2>1, <2>2
<1>2. After(d, w, k) = [s \in Sector |-> After(d, w, k)[s]]
  BY DEF After
<1> QED
  BY <1>1, <1>2 DEF Disk

\* Before the first write.
LEMMA AfterNone == \A d, w : Disk(d) => After(d, w, 0) = d
<1> SUFFICES ASSUME NEW d, Disk(d), NEW w PROVE After(d, w, 0) = d
  OBVIOUS
<1>1. d = [s \in Sector |-> d[s]]
  BY DEF Disk
<1>2. \A s \in Sector : After(d, w, 0)[s] = d[s]
  BY AfterKept
<1>3. After(d, w, 0) = [s \in Sector |-> After(d, w, 0)[s]]
  BY DEF After
<1> QED
  BY <1>1, <1>2, <1>3

\* One write at a time.
LEMMA AfterOne ==
  ASSUME NEW d, Disk(d), NEW w, IsSeq(w), Distinct(w), w # <<>>, w[1].at \in Sector,
         NEW k \in 0 .. Len(w) - 1
  PROVE  After([d EXCEPT ![w[1].at] = w[1].put], Tail(w), k) = After(d, w, k + 1)
<1>0. PICK e, v : e = [d EXCEPT ![w[1].at] = w[1].put] /\ v = Tail(w)
  OBVIOUS
<1>1. /\ Len(w) \in Nat \ {0} /\ Len(v) = Len(w) - 1 /\ IsSeq(v)
      /\ \A i \in 1 .. Len(v) : v[i] = w[i + 1]
  <2>1. w \in Seq(ToSet(w))
    BY DEF IsSeq
  <2>2. Len(w) \in Nat \ {0}
    BY <2>1, EmptySeq
  <2>3. v \in Seq(ToSet(w)) /\ Len(v) = Len(w) - 1 /\ \A i \in 1 .. Len(v) : v[i] = w[i + 1]
    BY <1>0, <2>1, HeadTailProperties
  <2> QED
    BY <2>2, <2>3, SeqFacts
<1>2. Distinct(v)
  <2> SUFFICES ASSUME NEW i \in 1 .. Len(v), NEW j \in 1 .. Len(v), v[i].at = v[j].at
               PROVE  i = j
    BY DEF Distinct
  <2>1. i + 1 \in 1 .. Len(w) /\ j + 1 \in 1 .. Len(w)
    BY <1>1
  <2>2. i + 1 = j + 1
    BY <1>1, <2>1 DEF Distinct
  <2> QED
    BY <2>2
<1>3. e = [s \in Sector |-> IF s = w[1].at THEN w[1].put ELSE d[s]]
  BY <1>0 DEF Disk
<1> DEFINE l == k + 1
<1>3a. PICK A : A = After(e, v, k)
  OBVIOUS
<1>3b. PICK B : B = After(d, w, l)
  OBVIOUS
<1>4. /\ DOMAIN A = Sector
      /\ \A i \in 1 .. k : v[i].at \in Sector => A[v[i].at] = v[i].put
      /\ \A s \in Sector : (\A i \in 1 .. k : v[i].at # s) => A[s] = e[s]
  <2>1. k \in 0 .. Len(v)
    BY <1>1
  <2>2. IsSeq(v)
    BY <1>1
  <2>3. DOMAIN A = Sector
    BY <1>2, <1>3a, <2>1, <2>2, AfterPut, AfterKept
  <2>4. \A i \in 1 .. k : v[i].at \in Sector => A[v[i].at] = v[i].put
    BY <1>2, <1>3a, <2>1, <2>2, AfterPut, AfterKept
  <2>5. \A s \in Sector : (\A i \in 1 .. k : v[i].at # s) => A[s] = e[s]
    BY <1>2, <1>3a, <2>1, <2>2, AfterPut, AfterKept
  <2> QED
    BY <2>3, <2>4, <2>5
<1>5. /\ DOMAIN B = Sector
      /\ \A i \in 1 .. k + 1 : w[i].at \in Sector => B[w[i].at] = w[i].put
      /\ \A s \in Sector : (\A i \in 1 .. k + 1 : w[i].at # s) => B[s] = d[s]
  <2>1. l \in 0 .. Len(w)
    BY <1>1
  <2> HIDE DEF l
  <2>3. DOMAIN B = Sector
    BY <1>3b, <2>1, AfterPut, AfterKept
  <2>4. \A i \in 1 .. l : w[i].at \in Sector => B[w[i].at] = w[i].put
    BY <1>3b, <2>1, AfterPut, AfterKept
  <2>5. \A s \in Sector : (\A i \in 1 .. l : w[i].at # s) => B[s] = d[s]
    BY <1>3b, <2>1, AfterPut, AfterKept
  <2> QED
    BY <2>3, <2>4, <2>5 DEF l
<1>6. A = [s \in Sector |-> A[s]] /\ B = [s \in Sector |-> B[s]]
  BY <1>3a, <1>3b DEF After
<1>7. ASSUME NEW s \in Sector
      PROVE  A[s] = B[s]
  <2>1. CASE \E i \in 1 .. k : v[i].at = s
    <3>1. PICK i \in 1 .. k : v[i].at = s
      BY <2>1
    <3>2. i \in 1 .. Len(v) /\ i + 1 \in 1 .. k + 1 /\ v[i] = w[i + 1]
      BY <1>1
    <3>3. A[s] = v[i].put
      BY <1>4, <3>1
    <3>4. B[s] = w[i + 1].put
      BY <1>5, <3>1, <3>2
    <3> QED
      BY <3>2, <3>3, <3>4
  <2>2. CASE ~(\E i \in 1 .. k : v[i].at = s)
    <3>1. A[s] = IF s = w[1].at THEN w[1].put ELSE d[s]
      BY <1>3, <1>4, <2>2
    <3>2. CASE s = w[1].at
      <4>1. 1 \in 1 .. k + 1
        BY <1>1
      <4> QED
        BY <1>5, <3>1, <3>2, <4>1
    <3>3. CASE s # w[1].at
      <4>1. ASSUME NEW i \in 1 .. k + 1 PROVE w[i].at # s
        <5>1. CASE i = 1
          BY <3>3, <5>1
        <5>2. CASE i # 1
          <6>1. i - 1 \in 1 .. k /\ i - 1 \in 1 .. Len(v) /\ (i - 1) + 1 = i
            BY <1>1, <5>2
          <6> QED
            BY <1>1, <2>2, <6>1
        <5> QED
          BY <5>1, <5>2
      <4> QED
        BY <1>5, <3>1, <3>3, <4>1
    <3> QED
      BY <3>2, <3>3
  <2> QED
    BY <2>1, <2>2
<1> QED
  BY <1>0, <1>3a, <1>3b, <1>6, <1>7, Zenon DEF l

-----------------------------------------------------------------------------
(* Files on a disk.                                                        *)

\* A file's header and index block hold together.
WellFormed(D, s) ==
  LET L == Listing(D, s) IN
  /\ Hdr(D[s])
  /\ D[s].flag # -1 => D[s].flag # s /\ Idx(D[D[s].flag])
  /\ Len(D[s].direct) = Min2(Len(L), NumHdr)
  /\ IsInjective(L)
  /\ ToSet(L) \subseteq Usable \ {s, D[s].flag}
  /\ Len(L) * SectorSize >= D[s].numBytes

\* Its sectors hold what was written to it.
Filled(D, n) == \A t \in ToSet(Listing(D, DirOf(D)[n])) : D[t] = Written(n)

Apart(D) ==
  \A m, n \in DOMAIN DirOf(D) : m # n => UsesOf(D, DirOf(D)[m]) \cap UsesOf(D, DirOf(D)[n]) = {}

\* A disk between commands; the file in skip has yet to be filled.
Whole(D, skip) ==
  /\ \A n \in DOMAIN DirOf(D) : /\ WellFormed(D, DirOf(D)[n])
                                /\ UsesOf(D, DirOf(D)[n]) \subseteq MapOf(D)
                                /\ n \notin skip => Filled(D, n)
  /\ Apart(D)
  /\ \A t \in Sector \ MapOf(D) : ~Idx(D[t])

\* Some file uses sector t.
Claimed(D, t) == \E n \in DOMAIN DirOf(D) : t \in UsesOf(D, DirOf(D)[n])

\* What is marked and not used is what is gone.
Tidy(D, gone) ==
  \A t : t \in gone <=> t \in MapOf(D) /\ t \notin Reserved /\ ~Claimed(D, t)

\* b is a, and index block f if the file has another one, g, from now on.
GivesUp(a, b, f, g) == \A t : t \in b <=> t \in a \/ (t = f /\ t # -1 /\ t # g)

\* A disk at any time, if sector "at" is written next.
Safe(D, at) ==
  /\ \A n \in DOMAIN DirOf(D) :
       LET s == DirOf(D)[n] IN
       /\ Hdr(D[s])
       /\ D[s].flag # -1 => Idx(D[D[s].flag]) \/ at = D[s].flag
       /\ IsInjective(Listing(D, s)) /\ UsesOf(D, s) \cap Reserved = {}
  /\ Apart(D)

\* What a disk holds.
LEMMA DiskFacts ==
  \A D : Disk(D) =>
    /\ MapC(D[MapData]) /\ DirC(D[DirData])
    /\ MapOf(D) \subseteq Sector /\ Reserved \subseteq MapOf(D)
    /\ DOMAIN DirOf(D) \subseteq Name
    /\ \A n \in DOMAIN DirOf(D) : DirOf(D)[n] \in Usable
    /\ \A s \in Usable : HeaderC(D[s]) \/ IndexC(D[s]) \/ DataC(D[s])
    /\ \A s \in Usable : Hdr(D[s]) => HeaderC(D[s])
    /\ \A s \in Usable : Idx(D[s]) => IndexC(D[s])
<1> SUFFICES ASSUME NEW D, Disk(D)
             PROVE  /\ MapC(D[MapData]) /\ DirC(D[DirData])
                    /\ \A s \in Usable : HeaderC(D[s]) \/ IndexC(D[s]) \/ DataC(D[s])
                    /\ \A s \in Usable : Hdr(D[s]) => HeaderC(D[s])
                    /\ \A s \in Usable : Idx(D[s]) => IndexC(D[s])
  BY DEF MapC, DirC, MapOf, DirOf
<1>1. MapC(D[MapData]) /\ DirC(D[DirData])
  <2>1. MapData \in Sector \ {FreeMapSector, DirectorySector} /\ DirData \in Sector \ {FreeMapSector, DirectorySector}
    BY SlotFacts DEF Reserved, FreeMapSector, DirectorySector, MapData, DirData
  <2> QED
    BY <2>1 DEF Disk, Fit
<1>2. ASSUME NEW s \in Usable
      PROVE  HeaderC(D[s]) \/ IndexC(D[s]) \/ DataC(D[s])
  BY DEF Usable, Reserved, Disk, Fit
<1>3. ASSUME NEW s \in Usable
      PROVE  (Hdr(D[s]) => HeaderC(D[s])) /\ (Idx(D[s]) => IndexC(D[s]))
  <2>1. /\ IndexC(D[s]) => ~Hdr(D[s])
        /\ DataC(D[s]) => ~Hdr(D[s]) /\ ~Idx(D[s])
        /\ HeaderC(D[s]) => ~Idx(D[s])
    BY DEF HeaderC, IndexC, DataC, Hdr, Idx
  <2> QED
    BY <1>2, <2>1
<1> QED
  BY <1>1, <1>2, <1>3

\* What a header says.
LEMMA HeaderFacts ==
  \A D : Disk(D) => \A s \in Usable : Hdr(D[s]) =>
    /\ D[s].numBytes \in Nat /\ D[s].flag \in Slot /\ D[s].direct \in Seq(Slot)
    /\ D[s].flag > 0 <=> D[s].flag # -1
    /\ Listing(D, s) \in Seq(Slot)
    /\ D[s].flag = -1 => Listing(D, s) = D[s].direct
    /\ D[s].flag # -1 /\ Idx(D[D[s].flag]) =>
         D[D[s].flag].index \in Seq(Slot) /\ Listing(D, s) = D[s].direct \o D[D[s].flag].index
    /\ D[s].flag # -1 /\ ~Idx(D[D[s].flag]) => Listing(D, s) = D[s].direct
<1> SUFFICES ASSUME NEW D, Disk(D), NEW s \in Usable, Hdr(D[s])
             PROVE  /\ D[s].numBytes \in Nat /\ D[s].flag \in Slot /\ D[s].direct \in Seq(Slot)
                    /\ D[s].flag > 0 <=> D[s].flag # -1
                    /\ Listing(D, s) \in Seq(Slot)
                    /\ D[s].flag = -1 => Listing(D, s) = D[s].direct
                    /\ D[s].flag # -1 /\ Idx(D[D[s].flag]) =>
                         D[D[s].flag].index \in Seq(Slot) /\ Listing(D, s) = D[s].direct \o D[D[s].flag].index
                    /\ D[s].flag # -1 /\ ~Idx(D[D[s].flag]) => Listing(D, s) = D[s].direct
  OBVIOUS
<1>1. D[s].numBytes \in Nat /\ D[s].flag \in Slot /\ D[s].direct \in Seq(Slot)
  BY DiskFacts DEF HeaderC
<1> DEFINE f == D[s].flag
           a == D[s].direct
           b == D[f].index
<1>2. (f > 0 <=> f # -1) /\ (f # -1 => f \in Usable)
  BY <1>1, SlotFacts DEF Slot
<1>3. f # -1 /\ Idx(D[f]) => b \in Seq(Slot)
  BY <1>2, DiskFacts DEF IndexC
<1>4. Listing(D, s) = a \o (IF f > 0 /\ Idx(D[f]) THEN b ELSE <<>>)
  BY DEF Listing
<1>4a. a \o <<>> = a
  BY <1>1, ConcatEmptySeq
<1> HIDE DEF f, a, b
<1>5. /\ f = -1 \/ ~Idx(D[f]) => Listing(D, s) = a
      /\ f # -1 /\ Idx(D[f]) => Listing(D, s) = a \o b
  BY <1>2, <1>4, <1>4a
<1>6. Listing(D, s) \in Seq(Slot)
  BY <1>1, <1>3, <1>5, ConcatProperties DEF a
<1> QED
  BY <1>1, <1>2, <1>3, <1>5, <1>6 DEF a, b, f

\* A file is listed alike on two disks that agree on its header and index
\* block, and is the same if they agree on all its sectors.
LEMMA SameHeader ==
  \A D, E : \A s \in Usable :
    /\ Disk(D) /\ Disk(E) /\ Hdr(D[s]) /\ E[s] = D[s]
    /\ D[s].flag # -1 => E[D[s].flag] = D[D[s].flag]
    => /\ Listing(E, s) = Listing(D, s) /\ UsesOf(E, s) = UsesOf(D, s)
       /\ WellFormed(E, s) <=> WellFormed(D, s)
<1> SUFFICES ASSUME NEW D, NEW E, NEW s \in Usable, Disk(D), Disk(E), Hdr(D[s]), E[s] = D[s],
                    D[s].flag # -1 => E[D[s].flag] = D[D[s].flag]
             PROVE  /\ Listing(E, s) = Listing(D, s) /\ UsesOf(E, s) = UsesOf(D, s)
                    /\ WellFormed(E, s) <=> WellFormed(D, s)
  OBVIOUS
<1>1. Listing(E, s) = Listing(D, s)
  <2>1. CASE D[s].flag > 0
    <3>1. E[D[s].flag] = D[D[s].flag]
      BY <2>1, HeaderFacts
    <3> QED
      BY <3>1 DEF Listing
  <2>2. CASE ~(D[s].flag > 0)
    BY <2>2 DEF Listing
  <2> QED
    BY <2>1, <2>2
<1>2. UsesOf(E, s) = UsesOf(D, s)
  BY <1>1 DEF UsesOf
<1>3. WellFormed(E, s) <=> WellFormed(D, s)
  <2>1. CASE D[s].flag = -1
    BY <1>1, <2>1 DEF WellFormed
  <2>2. CASE D[s].flag # -1
    BY <1>1, <2>2 DEF WellFormed
  <2> QED
    BY <2>1, <2>2
<1> QED
  BY <1>1, <1>2, <1>3

LEMMA SameFile ==
  \A D, E : \A s \in Usable :
    Disk(D) /\ Disk(E) /\ Hdr(D[s]) /\ (\A t \in UsesOf(D, s) : E[t] = D[t]) =>
      /\ E[s] = D[s] /\ Listing(E, s) = Listing(D, s) /\ UsesOf(E, s) = UsesOf(D, s)
      /\ WellFormed(E, s) <=> WellFormed(D, s)
      /\ D[s].flag # -1 => E[D[s].flag] = D[D[s].flag]
<1> SUFFICES ASSUME NEW D, NEW E, NEW s \in Usable, Disk(D), Disk(E), Hdr(D[s]),
                    \A t \in UsesOf(D, s) : E[t] = D[t]
             PROVE  /\ E[s] = D[s] /\ Listing(E, s) = Listing(D, s) /\ UsesOf(E, s) = UsesOf(D, s)
                    /\ WellFormed(E, s) <=> WellFormed(D, s)
                    /\ D[s].flag # -1 => E[D[s].flag] = D[D[s].flag]
  OBVIOUS
<1>1. E[s] = D[s] /\ (D[s].flag # -1 => E[D[s].flag] = D[D[s].flag])
  BY DEF UsesOf
<1> QED
  BY <1>1, SameHeader

\* The files of E, but for those of N, are files of D with the same contents.
Unchanged(D, E, N) ==
  \A m \in DOMAIN DirOf(E) \ N :
    /\ m \in DOMAIN DirOf(D) /\ DirOf(E)[m] = DirOf(D)[m]
    /\ \A t \in UsesOf(D, DirOf(D)[m]) : E[t] = D[t]

\* What a well-formed file uses.
LEMMA FileFacts ==
  \A D : \A s \in Usable : Disk(D) /\ WellFormed(D, s) =>
    /\ s \in UsesOf(D, s) /\ UsesOf(D, s) \subseteq Usable
    /\ ToSet(Listing(D, s)) \subseteq UsesOf(D, s)
    /\ D[s].flag # -1 => D[s].flag \in UsesOf(D, s) /\ D[s].flag \in Usable
    /\ \A t : t \in UsesOf(D, s) <=> t = s \/ t \in ToSet(Listing(D, s)) \/ (t = D[s].flag /\ t # -1)
<1> SUFFICES ASSUME NEW D, NEW s \in Usable, Disk(D), WellFormed(D, s)
             PROVE  /\ s \in UsesOf(D, s) /\ UsesOf(D, s) \subseteq Usable
                    /\ ToSet(Listing(D, s)) \subseteq UsesOf(D, s)
                    /\ D[s].flag # -1 => D[s].flag \in UsesOf(D, s) /\ D[s].flag \in Usable
                    /\ \A t : t \in UsesOf(D, s) <=> t = s \/ t \in ToSet(Listing(D, s)) \/ (t = D[s].flag /\ t # -1)
  OBVIOUS
<1>1. Hdr(D[s]) /\ ToSet(Listing(D, s)) \subseteq Usable
  BY DEF WellFormed
<1>2. D[s].flag \in Slot
  BY <1>1, HeaderFacts
<1>3. D[s].flag # -1 => D[s].flag \in Usable
  BY <1>2 DEF Slot
<1>4. \A t : t \in UsesOf(D, s) <=> t = s \/ t \in ToSet(Listing(D, s)) \/ (t = D[s].flag /\ t # -1)
  BY DEF UsesOf
<1> QED
  BY <1>1, <1>3, <1>4

\* The files that a command leaves alone stay as they were.
LEMMA OthersFacts ==
  ASSUME NEW D, NEW E, Disk(D), Disk(E), NEW skip, Whole(D, skip), NEW N, Unchanged(D, E, N)
  PROVE  /\ \A m \in DOMAIN DirOf(E) \ N :
              LET s == DirOf(E)[m] IN
              /\ s \in Usable /\ s = DirOf(D)[m] /\ m \in DOMAIN DirOf(D)
              /\ Hdr(E[s]) /\ WellFormed(E, s) /\ E[s] = D[s]
              /\ UsesOf(E, s) = UsesOf(D, s) /\ UsesOf(E, s) \subseteq Usable
              /\ UsesOf(E, s) \subseteq MapOf(D)
              /\ m \notin skip => Filled(E, m)
         /\ \A m, n \in DOMAIN DirOf(E) \ N :
              m # n => UsesOf(E, DirOf(E)[m]) \cap UsesOf(E, DirOf(E)[n]) = {}
<1>1. ASSUME NEW m \in DOMAIN DirOf(E) \ N, NEW s, s = DirOf(E)[m]
      PROVE  /\ s \in Usable /\ s = DirOf(D)[m] /\ m \in DOMAIN DirOf(D)
             /\ Hdr(E[s]) /\ WellFormed(E, s) /\ E[s] = D[s]
             /\ UsesOf(E, s) = UsesOf(D, s) /\ UsesOf(E, s) \subseteq Usable
             /\ UsesOf(E, s) \subseteq MapOf(D)
             /\ m \notin skip => Filled(E, m)
  <2>1. m \in DOMAIN DirOf(D) /\ s = DirOf(D)[m] /\ \A t \in UsesOf(D, s) : E[t] = D[t]
    BY <1>1 DEF Unchanged
  <2>2. s \in Usable
    BY <2>1, DiskFacts
  <2>3. WellFormed(D, s) /\ UsesOf(D, s) \subseteq MapOf(D) /\ (m \notin skip => Filled(D, m))
    BY <2>1 DEF Whole
  <2>4. Hdr(D[s])
    BY <2>3 DEF WellFormed
  <2>5. /\ E[s] = D[s] /\ Listing(E, s) = Listing(D, s) /\ UsesOf(E, s) = UsesOf(D, s)
        /\ WellFormed(E, s)
    BY <2>1, <2>2, <2>3, <2>4, SameFile
  <2>6. UsesOf(D, s) \subseteq Usable /\ ToSet(Listing(D, s)) \subseteq UsesOf(D, s)
    BY <2>2, <2>3, FileFacts
  <2>7. m \notin skip => Filled(E, m)
    <3> SUFFICES ASSUME m \notin skip, NEW t \in ToSet(Listing(E, s)) PROVE E[t] = Written(m)
      BY <1>1 DEF Filled
    <3>1. t \in ToSet(Listing(D, s)) /\ t \in UsesOf(D, s)
      BY <2>5, <2>6
    <3>2. D[t] = Written(m)
      BY <2>1, <2>3, <3>1 DEF Filled
    <3> QED
      BY <2>1, <3>1, <3>2
  <2> QED
    BY <2>1, <2>2, <2>3, <2>4, <2>5, <2>6, <2>7
<1>2. ASSUME NEW m \in DOMAIN DirOf(E) \ N, NEW n \in DOMAIN DirOf(E) \ N, m # n
      PROVE  UsesOf(E, DirOf(E)[m]) \cap UsesOf(E, DirOf(E)[n]) = {}
  <2>1. /\ UsesOf(E, DirOf(E)[m]) = UsesOf(D, DirOf(D)[m]) /\ m \in DOMAIN DirOf(D)
        /\ UsesOf(E, DirOf(E)[n]) = UsesOf(D, DirOf(D)[n]) /\ n \in DOMAIN DirOf(D)
    BY <1>1
  <2> QED
    BY <1>2, <2>1 DEF Whole, Apart
<1>3. \A m \in DOMAIN DirOf(E) \ N : LET s == DirOf(E)[m] IN
        /\ s \in Usable /\ s = DirOf(D)[m] /\ m \in DOMAIN DirOf(D)
        /\ Hdr(E[s]) /\ WellFormed(E, s) /\ E[s] = D[s]
        /\ UsesOf(E, s) = UsesOf(D, s) /\ UsesOf(E, s) \subseteq Usable
        /\ UsesOf(E, s) \subseteq MapOf(D)
        /\ m \notin skip => Filled(E, m)
  BY <1>1, Zenon
<1> QED
  BY <1>2, <1>3, Zenon

\* What a changed file must be like on a disk that is safe, or whole.
SafeFile(E, n, at) ==
  LET s == DirOf(E)[n] IN
  /\ Hdr(E[s])
  /\ E[s].flag # -1 => Idx(E[E[s].flag]) \/ at = E[s].flag
  /\ IsInjective(Listing(E, s)) /\ UsesOf(E, s) \subseteq Usable
  /\ \A m \in DOMAIN DirOf(E) : m # n => UsesOf(E, s) \cap UsesOf(E, DirOf(E)[m]) = {}

WholeFile(E, n, skip) ==
  LET s == DirOf(E)[n] IN
  /\ WellFormed(E, s) /\ UsesOf(E, s) \subseteq MapOf(E)
  /\ n \notin skip => Filled(E, n)
  /\ \A m \in DOMAIN DirOf(E) : m # n => UsesOf(E, s) \cap UsesOf(E, DirOf(E)[m]) = {}

\* Every index block is marked.
IndexesMarked(E) == \A t \in Sector \ MapOf(E) : ~Idx(E[t])

\* A disk is safe if the files of N are, and no other file has changed.
LEMMA SafeFrom ==
  ASSUME NEW D, NEW E, Disk(D), Disk(E), NEW skip, Whole(D, skip), NEW N, Unchanged(D, E, N),
         NEW at,
         \A n \in DOMAIN DirOf(E) \cap N : SafeFile(E, n, at)
  PROVE  Safe(E, at)
<1>1. ASSUME NEW n \in DOMAIN DirOf(E)
      PROVE  LET s == DirOf(E)[n] IN
             /\ Hdr(E[s])
             /\ E[s].flag # -1 => Idx(E[E[s].flag]) \/ at = E[s].flag
             /\ IsInjective(Listing(E, s)) /\ UsesOf(E, s) \cap Reserved = {}
  <2> DEFINE s == DirOf(E)[n]
  <2>1. CASE n \in N
    <3>1. /\ Hdr(E[s])
          /\ E[s].flag # -1 => Idx(E[E[s].flag]) \/ at = E[s].flag
          /\ IsInjective(Listing(E, s)) /\ UsesOf(E, s) \subseteq Usable
      BY <2>1 DEF SafeFile
    <3> HIDE DEF s
    <3> QED
      BY <3>1 DEF Usable, s
  <2>2. CASE n \notin N
    <3>1. Hdr(E[s]) /\ WellFormed(E, s) /\ UsesOf(E, s) \subseteq Usable
      BY <2>2, OthersFacts
    <3> HIDE DEF s
    <3>2. UsesOf(E, s) \cap Reserved = {}
      BY <3>1 DEF Usable
    <3>3. (E[s].flag # -1 => Idx(E[E[s].flag])) /\ IsInjective(Listing(E, s))
      BY <3>1 DEF WellFormed
    <3> QED
      BY <3>1, <3>2, <3>3 DEF s
  <2> QED
    BY <2>1, <2>2
<1>2. ASSUME NEW m \in DOMAIN DirOf(E), NEW n \in DOMAIN DirOf(E), m # n
      PROVE  UsesOf(E, DirOf(E)[m]) \cap UsesOf(E, DirOf(E)[n]) = {}
  <2>1. CASE m \in N
    BY <1>2, <2>1 DEF SafeFile
  <2>2. CASE n \in N
    <3>1. UsesOf(E, DirOf(E)[n]) \cap UsesOf(E, DirOf(E)[m]) = {}
      BY <1>2, <2>2 DEF SafeFile
    <3> QED
      BY <3>1
  <2>3. CASE m \notin N /\ n \notin N
    BY <1>2, <2>3, OthersFacts
  <2> QED
    BY <2>1, <2>2, <2>3
<1> QED
  BY <1>1, <1>2 DEF Safe, Apart

\* Likewise for a whole disk.
LEMMA WholeFrom ==
  ASSUME NEW D, NEW E, Disk(D), Disk(E), NEW skip, Whole(D, skip), NEW N, Unchanged(D, E, N),
         NEW left,
         \A n \in DOMAIN DirOf(E) \cap N : WholeFile(E, n, left),
         \A m \in DOMAIN DirOf(E) \ N : UsesOf(D, DirOf(D)[m]) \subseteq MapOf(E),
         skip \subseteq left \cup N, IndexesMarked(E)
  PROVE  Whole(E, left)
<1>1. ASSUME NEW n \in DOMAIN DirOf(E)
      PROVE  /\ WellFormed(E, DirOf(E)[n])
             /\ UsesOf(E, DirOf(E)[n]) \subseteq MapOf(E)
             /\ n \notin left => Filled(E, n)
  <2>1. CASE n \in N
    BY <2>1 DEF WholeFile
  <2>2. CASE n \notin N
    <3>1. /\ WellFormed(E, DirOf(E)[n]) /\ DirOf(E)[n] = DirOf(D)[n]
          /\ UsesOf(E, DirOf(E)[n]) = UsesOf(D, DirOf(D)[n])
          /\ n \notin skip => Filled(E, n)
      BY <2>2, OthersFacts
    <3> QED
      BY <2>2, <3>1
  <2> QED
    BY <2>1, <2>2
<1>2. ASSUME NEW m \in DOMAIN DirOf(E), NEW n \in DOMAIN DirOf(E), m # n
      PROVE  UsesOf(E, DirOf(E)[m]) \cap UsesOf(E, DirOf(E)[n]) = {}
  <2>1. CASE m \in N
    BY <1>2, <2>1 DEF WholeFile
  <2>2. CASE n \in N
    <3>1. UsesOf(E, DirOf(E)[n]) \cap UsesOf(E, DirOf(E)[m]) = {}
      BY <1>2, <2>2 DEF WholeFile
    <3> QED
      BY <3>1
  <2>3. CASE m \notin N /\ n \notin N
    BY <1>2, <2>3, OthersFacts
  <2> QED
    BY <2>1, <2>2, <2>3
<1> QED
  BY <1>1, <1>2 DEF Whole, Apart, IndexesMarked

\* A whole disk is safe.
LEMMA WholeIsSafe ==
  \A D, skip, at : Disk(D) /\ Whole(D, skip) => Safe(D, at)
<1> SUFFICES ASSUME NEW D, NEW skip, NEW at, Disk(D), Whole(D, skip)
             PROVE  Safe(D, at)
  OBVIOUS
<1>1. Unchanged(D, D, {})
  BY DEF Unchanged
<1> QED
  BY <1>1, SafeFrom

-----------------------------------------------------------------------------
(* Writing a header, and reading it again.                                 *)

HeaderOf(h) ==
  [numBytes |-> h.numBytes, flag |-> h.flag,
   direct |-> SubSeq(h.dataSectors, 1, Min2(Len(h.dataSectors), NumHdr))]
IndexOf(h) == [index |-> SubSeq(h.dataSectors, NumHdr + 1, Len(h.dataSectors))]

\* FileHeader::WriteBack() writes one sector or two.
LEMMA HeaderWritesFacts ==
  ASSUME NEW s, NEW h \in MemHeader, NEW w, w = HeaderWrites(s, h)
  PROVE  /\ IsSeq(w) /\ Len(w) = (IF h.flag = -1 THEN 1 ELSE 2)
         /\ w[1] = Write(s, HeaderOf(h))
         /\ h.flag # -1 => w[2] = Write(h.flag, IndexOf(h))
<1> DEFINE a == <<Write(s, HeaderOf(h))>>
           b == <<Write(h.flag, IndexOf(h))>>
<1>1. w = a \o (IF h.flag = -1 THEN <<>> ELSE b)
  BY DEF HeaderWrites, HeaderOf, IndexOf
<1>2. IsSeq(a) /\ Len(a) = 1 /\ a[1] = Write(s, HeaderOf(h))
  <2> DEFINE x == Write(s, HeaderOf(h))
  <2> HIDE DEF x
  <2>1. <<x>> \in Seq({x}) /\ Len(<<x>>) = 1 /\ <<x>>[1] = x
    OBVIOUS
  <2>2. IsSeq(<<x>>)
    BY <2>1, SeqFacts
  <2> QED
    BY <2>1, <2>2 DEF x
<1>3. IsSeq(b) /\ Len(b) = 1 /\ b[1] = Write(h.flag, IndexOf(h))
  <2> DEFINE x == Write(h.flag, IndexOf(h))
  <2> HIDE DEF x
  <2>1. <<x>> \in Seq({x}) /\ Len(<<x>>) = 1 /\ <<x>>[1] = x
    OBVIOUS
  <2>2. IsSeq(<<x>>)
    BY <2>1, SeqFacts
  <2> QED
    BY <2>1, <2>2 DEF x
<1> HIDE DEF a, b
<1>4. CASE h.flag = -1
  <2>1. w = a
    BY <1>1, <1>2, <1>4, ConcatEmptySeq DEF IsSeq
  <2> QED
    BY <1>2, <1>4, <2>1
<1>5. CASE h.flag # -1
  <2>1. w = a \o b
    BY <1>1, <1>5
  <2>2. IsSeq(w) /\ Len(w) = 2 /\ w[1] = a[1] /\ w[2] = b[1]
    <3>0. IsSeq(a) /\ IsSeq(b)
      BY <1>2, <1>3
    <3>1. IsSeq(a \o b) /\ Len(a \o b) = Len(a) + Len(b)
      BY <3>0, Joined
    <3>1a. \A i \in 1 .. Len(a) : (a \o b)[i] = a[i]
      BY <3>0, Joined
    <3>1b. \A i \in 1 .. Len(b) : (a \o b)[Len(a) + i] = b[i]
      BY <3>0, Joined
    <3>2. 1 \in 1 .. Len(a) /\ 1 \in 1 .. Len(b) /\ Len(a) + 1 = 2 /\ Len(a) + Len(b) = 2
      BY <1>2, <1>3
    <3>3. (a \o b)[1] = a[1] /\ (a \o b)[Len(a) + 1] = b[1]
      BY <3>1a, <3>1b, <3>2
    <3> QED
      BY <2>1, <3>1, <3>2, <3>3
  <2> QED
    BY <1>2, <1>3, <1>5, <2>2
<1> QED
  BY <1>4, <1>5

\* What goes into the header and what into the index block.
LEMMA HeaderParts ==
  ASSUME NEW h \in MemHeader
  PROVE  LET ds == h.dataSectors
             a == SubSeq(ds, 1, Min2(Len(ds), NumHdr))
             b == SubSeq(ds, NumHdr + 1, Len(ds))
         IN  /\ a \in Seq(Slot) /\ Len(a) = Min2(Len(ds), NumHdr)
             /\ \A i \in 1 .. Len(a) : a[i] = ds[i]
             /\ b \in Seq(Slot) /\ a \o b = ds
             /\ Len(ds) \in Nat /\ Min2(Len(ds), NumHdr) \in 0 .. Len(ds)
             /\ Len(ds) <= NumHdr => a = ds
             /\ HeaderC(HeaderOf(h)) /\ IndexC(IndexOf(h))
<1> DEFINE ds == h.dataSectors
           n == Len(ds)
           k == Min2(n, NumHdr)
           a == SubSeq(ds, 1, k)
           b == SubSeq(ds, NumHdr + 1, n)
<1>1. ds \in Seq(Slot) /\ n \in Nat /\ DOMAIN ds = 1 .. n /\ h.numBytes \in Nat /\ h.flag \in Slot
      /\ \A i \in 1 .. n : ds[i] \in Slot
  BY LenProperties, ElementOfSeq DEF MemHeader
<1>2. NumHdr \in Nat /\ k \in 0 .. n /\ (n <= NumHdr => k = n) /\ (~(n <= NumHdr) => k = NumHdr)
  BY <1>1, DiskConstants DEF Min2
<1> HIDE DEF ds, n, k
<1>3. a \in Seq(Slot) /\ Len(a) = k /\ \A i \in 1 .. k : a[i] = ds[i]
  <2>1. \A i \in 1 .. k : ds[i] \in Slot
    BY <1>1, <1>2
  <2>2. k \in Int
    BY <1>2
  <2> QED
    BY <1>2, <2>1, <2>2, SubSeqProperties
<1>4. b \in Seq(Slot)
  <2>1. \A i \in NumHdr + 1 .. n : ds[i] \in Slot
    BY <1>1, <1>2
  <2>2. PICK p \in Int : p = NumHdr + 1
    BY <1>2
  <2> QED
    BY <1>1, <2>1, <2>2, SubSeqProperties
<1>5. SubSeq(ds, 1, n) = ds
  BY <1>1, SubSeqFull DEF n
<1>6. n <= NumHdr => a = ds
  BY <1>2, <1>5
<1>7. a \o b = ds
  <2>1. CASE n <= NumHdr
    <3>1. PICK p \in Int : p = NumHdr + 1 /\ n < p
      BY <1>1, <1>2, <2>1
    <3>2. b = <<>>
      BY <1>1, <3>1, SubSeqEmpty
    <3> QED
      BY <1>1, <1>6, <2>1, <3>2, ConcatEmptySeq
  <2>2. CASE ~(n <= NumHdr)
    <3>1. PICK p \in Nat : p = NumHdr /\ k = p
      BY <1>2, <2>2
    <3>2. 1 \in 1 .. n + 1 /\ p \in 1 - 1 .. n /\ n \in p .. n
      BY <1>1, <1>2, <3>1
    <3>3. SubSeq(ds, 1, p) \o SubSeq(ds, p + 1, n) = SubSeq(ds, 1, n)
      BY <1>1, <3>2, ConcatAdjacentSubSeq DEF n
    <3> QED
      BY <1>5, <3>1, <3>3
  <2> QED
    BY <2>1, <2>2
<1>8. HeaderOf(h) = [numBytes |-> h.numBytes, flag |-> h.flag, direct |-> a] /\ IndexOf(h) = [index |-> b]
  BY DEF HeaderOf, IndexOf, ds, n, k
<1> HIDE DEF a, b
<1>9. HeaderC(HeaderOf(h)) /\ IndexC(IndexOf(h))
  BY <1>1, <1>3, <1>4, <1>8 DEF HeaderC, IndexC
<1> QED
  BY <1>1, <1>2, <1>3, <1>4, <1>6, <1>7, <1>9 DEF a, b, ds, n, k

\* A header with its index block, or before that has been written.
LEMMA ReadBack ==
  ASSUME NEW E, Disk(E), NEW s \in Usable, NEW h \in MemHeader, E[s] = HeaderOf(h)
  PROVE  LET ds == h.dataSectors
         IN  /\ Hdr(E[s]) /\ E[s].numBytes = h.numBytes /\ E[s].flag = h.flag
             /\ Len(E[s].direct) = Min2(Len(ds), NumHdr)
             /\ (h.flag = -1 => Len(ds) <= NumHdr) /\ (h.flag # -1 => E[h.flag] = IndexOf(h)) =>
                  Listing(E, s) = ds
             /\ h.flag # -1 /\ ~Idx(E[h.flag]) =>
                  /\ IsInjective(ds) => IsInjective(Listing(E, s))
                  /\ ToSet(Listing(E, s)) \subseteq ToSet(ds)
<1> DEFINE ds == h.dataSectors
           a == SubSeq(ds, 1, Min2(Len(ds), NumHdr))
           b == SubSeq(ds, NumHdr + 1, Len(ds))
<1>1. E[s] = [numBytes |-> h.numBytes, flag |-> h.flag, direct |-> a] /\ IndexOf(h) = [index |-> b]
  BY DEF HeaderOf, IndexOf
<1>2. /\ a \in Seq(Slot) /\ Len(a) = Min2(Len(ds), NumHdr)
      /\ \A i \in 1 .. Len(a) : a[i] = ds[i]
      /\ b \in Seq(Slot) /\ a \o b = ds
      /\ Len(ds) \in Nat /\ Min2(Len(ds), NumHdr) \in 0 .. Len(ds)
      /\ Len(ds) <= NumHdr => a = ds
  BY HeaderParts
<1>2a. ds \in Seq(Slot)
  BY DEF MemHeader
<1> HIDE DEF a, b, ds
<1>3. Hdr(E[s]) /\ E[s].numBytes = h.numBytes /\ E[s].flag = h.flag /\ E[s].direct = a
  BY <1>1 DEF Hdr
<1>4. ASSUME h.flag = -1 => Len(ds) <= NumHdr, h.flag # -1 => E[h.flag] = IndexOf(h)
      PROVE  Listing(E, s) = ds
  <2>1. CASE h.flag = -1
    BY <1>2, <1>3, <1>4, <2>1, HeaderFacts
  <2>2. CASE h.flag # -1
    <3>1. E[h.flag].index = b /\ Idx(E[h.flag])
      BY <1>1, <1>4, <2>2 DEF Idx
    <3>2. Listing(E, s) = a \o b
      BY <1>3, <2>2, <3>1, HeaderFacts
    <3> QED
      BY <1>2, <3>2
  <2> QED
    BY <2>1, <2>2
<1>5. ASSUME h.flag # -1, ~Idx(E[h.flag])
      PROVE  /\ IsInjective(ds) => IsInjective(Listing(E, s))
             /\ ToSet(Listing(E, s)) \subseteq ToSet(ds)
  <2>1. Listing(E, s) = a
    BY <1>3, <1>5, HeaderFacts
  <2>2. DOMAIN a = 1 .. Len(a) /\ DOMAIN ds = 1 .. Len(ds) /\ Len(a) \in Nat /\ Len(a) <= Len(ds)
    BY <1>2, <1>2a, LenProperties
  <2>3. \A i \in DOMAIN a : i \in DOMAIN ds /\ a[i] = ds[i]
    BY <1>2, <2>2
  <2>4. ToSet(a) \subseteq ToSet(ds)
    BY <2>3 DEF ToSet
  <2>5. IsInjective(ds) => IsInjective(a)
    BY <2>3 DEF IsInjective
  <2> QED
    BY <2>1, <2>4, <2>5
<1> QED
  BY <1>2, <1>3, <1>4, <1>5 DEF ds

-----------------------------------------------------------------------------
(* What the writes of a command do.                                        *)

\* The lengths of the files, and what a write may do to them.
LenOf(D) == [n \in Name |-> IF n \in DOMAIN DirOf(D) THEN D[DirOf(D)[n]].numBytes ELSE Nothing]
LenStep(a, b) ==
  \/ a = b
  \/ \E n \in Name :
       /\ \A m \in Name \ {n} : b[m] = a[m]
       /\ \/ a[n] = Nothing /\ b[n] \in Nat
          \/ a[n] \in Nat /\ b[n] = Nothing
          \/ a[n] \in Nat /\ b[n] \in Nat /\ b[n] > a[n] \div 2

\* The sector that is written after k writes, or 0.
At(w, k) == IF k < Len(w) THEN w[k + 1].at ELSE 0

\* After k writes.
State(D, w, skip, k) ==
  LET E == After(D, w, k) IN
  /\ Safe(E, At(w, k))
  /\ k = Len(w) => Whole(E, skip)
  /\ At(w, k) = -1 => Whole(E, {})
  /\ k < Len(w) /\ At(w, k) # -1 => LenStep(LenOf(E), LenOf(After(D, w, k + 1)))

\* The writes w do what they should, up to one that is not of a sector.
Reached(w, k) == \A i \in 1 .. k : w[i].at # -1
Good(D, w, skip) ==
  /\ Distinct(w)
  /\ \A k \in 0 .. Len(w) : Reached(w, k) => State(D, w, skip, k)

\* In the end nothing is marked in vain but what is gone.
Neat(D, w, gone) == Reached(w, Len(w)) => Tidy(After(D, w, Len(w)), gone)

\* No header changes its length.
LEMMA SameLengths ==
  ASSUME NEW D, NEW E, Disk(D), Disk(E), DirOf(E) = DirOf(D),
         \A m \in DOMAIN DirOf(D) : E[DirOf(D)[m]].numBytes = D[DirOf(D)[m]].numBytes
  PROVE  LenOf(E) = LenOf(D)
BY DEF LenOf

\* A file gets a length, or another.
LEMMA NewLength ==
  ASSUME NEW D, NEW E, Disk(D), Disk(E), NEW n \in DOMAIN DirOf(E), n \in Name,
         NEW l, E[DirOf(E)[n]].numBytes = l, DOMAIN DirOf(E) = DOMAIN DirOf(D) \cup {n},
         \A m \in DOMAIN DirOf(D) \ {n} : E[DirOf(E)[m]].numBytes = D[DirOf(D)[m]].numBytes
  PROVE  LenOf(E) = [LenOf(D) EXCEPT ![n] = l]
<1> DEFINE a == LenOf(D)
           b == LenOf(E)
<1>1. \A m \in Name :
        /\ b[m] = (IF m \in DOMAIN DirOf(E) THEN E[DirOf(E)[m]].numBytes ELSE Nothing)
        /\ a[m] = (IF m \in DOMAIN DirOf(D) THEN D[DirOf(D)[m]].numBytes ELSE Nothing)
  BY DEF LenOf
<1>2. a = [m \in Name |-> a[m]] /\ b = [m \in Name |-> b[m]]
  BY DEF LenOf
<1> HIDE DEF a, b
<1>3. \A m \in Name : b[m] = IF m = n THEN l ELSE a[m]
  BY <1>1
<1>4. [a EXCEPT ![n] = l] = [m \in Name |-> IF m = n THEN l ELSE a[m]]
  BY <1>2
<1> QED
  BY <1>2, <1>3, <1>4 DEF a, b

\* The writes of Create(): the header, its index block, the directory, the map.
Creating(w, s, h, dir, map) ==
  LET p == IF h.flag = -1 THEN 1 ELSE 2 IN
  /\ IsSeq(w) /\ Len(w) = p + 2
  /\ w[1] = Write(s, HeaderOf(h))
  /\ h.flag # -1 => w[2] = Write(h.flag, IndexOf(h))
  /\ w[p + 1] = DirWrite(dir) /\ w[p + 2] = MapWrite(map)

\* Create() plans these writes.
LEMMA CreatingHolds ==
  ASSUME NEW s, NEW h \in MemHeader, NEW dir, NEW map
  PROVE  Creating(HeaderWrites(s, h) \o <<DirWrite(dir), MapWrite(map)>>, s, h, dir, map)
<1>1. PICK a, b, x, y : a = HeaderWrites(s, h) /\ b = <<x, y>> /\ x = DirWrite(dir) /\ y = MapWrite(map)
  OBVIOUS
<1> DEFINE p == IF h.flag = -1 THEN 1 ELSE 2
<1>2. /\ IsSeq(a) /\ Len(a) = p
      /\ a[1] = Write(s, HeaderOf(h))
      /\ h.flag # -1 => a[2] = Write(h.flag, IndexOf(h))
  BY <1>1, HeaderWritesFacts
<1>3. IsSeq(b) /\ Len(b) = 2 /\ b[1] = x /\ b[2] = y
  <2>1. b \in Seq({x, y}) /\ Len(b) = 2 /\ b[1] = x /\ b[2] = y
    BY <1>1
  <2> QED
    BY <2>1, SeqFacts
<1>3a. p = 1 \/ (p = 2 /\ h.flag # -1)
  OBVIOUS
<1> HIDE DEF p
<1>4. IsSeq(a) /\ IsSeq(b)
  BY <1>2, <1>3
<1>5. PICK w : w = a \o b
  OBVIOUS
<1>6. IsSeq(w) /\ Len(w) = Len(a) + Len(b)
  BY <1>4, <1>5, Joined
<1>7. \A i \in 1 .. Len(a) : w[i] = a[i]
  BY <1>4, <1>5, Joined
<1>8. \A i \in 1 .. Len(b) : w[Len(a) + i] = b[i]
  BY <1>4, <1>5, Joined
<1>9. w[1] = a[1] /\ (h.flag # -1 /\ p = 2 => w[2] = a[2]) /\ w[p + 1] = x /\ w[p + 2] = y
  <2>1. p \in {1, 2}
    BY <1>3a
  <2>2. 1 \in 1 .. Len(b) /\ 2 \in 1 .. Len(b) /\ 1 \in 1 .. Len(a) /\ (p = 2 => 2 \in 1 .. Len(a))
    BY <1>2, <1>3, <2>1
  <2> QED
    BY <1>2, <1>3, <1>7, <1>8, <2>2
<1>10. h.flag # -1 => p = 2
  BY DEF p
<1> QED
  BY <1>1, <1>2, <1>3, <1>5, <1>6, <1>9, <1>10 DEF Creating, p

\* They put into each sector what belongs there, and into each once.
LEMMA CreatingFits ==
  ASSUME NEW d, Disk(d), NEW s \in Usable, NEW h \in MemHeader, h.flag # s,
         NEW dir, DirC([dir |-> dir]), NEW map, MapC([map |-> map]),
         NEW w, Creating(w, s, h, dir, map)
  PROVE  /\ Fitting(w) /\ Distinct(w)
         /\ \A i \in 1 .. Len(w) : w[i].at \in Sector
<1> DEFINE f == h.flag
           p == IF f = -1 THEN 1 ELSE 2
<1>1. /\ IsSeq(w) /\ Len(w) = p + 2
      /\ w[1] = Write(s, HeaderOf(h)) /\ (f # -1 => w[2] = Write(f, IndexOf(h)))
      /\ w[p + 1] = DirWrite(dir) /\ w[p + 2] = MapWrite(map)
  BY DEF Creating
<1>2. f \in Slot /\ (f # -1 => f \in Usable)
  BY DEF MemHeader, Slot
<1>3. f # s
  OBVIOUS
<1>4. HeaderC(HeaderOf(h)) /\ IndexC(IndexOf(h))
  BY HeaderParts
<1>5. MapData # DirData /\ \A t \in Usable : t # MapData /\ t # DirData
  BY SlotFacts DEF MapData, DirData
<1>5a. /\ Usable \subseteq Sector /\ Usable \subseteq Slot
       /\ MapData \in Sector /\ DirData \in Sector
  BY SlotFacts DEF Slot, Reserved
<1>5b. (p = 1 /\ f = -1) \/ (p = 2 /\ f # -1)
  OBVIOUS
<1> HIDE DEF f, p
<1>6. ASSUME NEW i \in 1 .. Len(w)
      PROVE  \/ i = 1 /\ w[i].at = s /\ w[i].put = HeaderOf(h)
             \/ f # -1 /\ i = 2 /\ w[i].at = f /\ w[i].put = IndexOf(h)
             \/ i = p + 1 /\ w[i].at = DirData /\ w[i].put = [dir |-> dir]
             \/ i = p + 2 /\ w[i].at = MapData /\ w[i].put = [map |-> map]
  <2>1. i = 1 \/ (p = 2 /\ i = 2) \/ i = p + 1 \/ i = p + 2
    BY <1>1, <1>5b
  <2> QED
    BY <1>1, <1>5b, <2>1 DEF Write, DirWrite, MapWrite
<1>7. Distinct(w)
  <2> SUFFICES ASSUME NEW i \in 1 .. Len(w), NEW j \in 1 .. Len(w), w[i].at = w[j].at
               PROVE  i = j
    BY DEF Distinct
  <2> QED
    BY <1>2, <1>3, <1>5, <1>6
<1>8. ASSUME NEW i \in 1 .. Len(w)
      PROVE  /\ w[i].at \in Slot \cup {MapData, DirData} /\ Fit(w[i].at, w[i].put)
             /\ w[i].at \in Sector
  <2>1. CASE w[i].at = s /\ w[i].put = HeaderOf(h)
    BY <1>4, <1>5, <1>5a, <2>1 DEF Fit
  <2>2. CASE f # -1 /\ w[i].at = f /\ w[i].put = IndexOf(h)
    BY <1>2, <1>4, <1>5, <1>5a, <2>2 DEF Fit
  <2>3. CASE w[i].at = DirData /\ w[i].put = [dir |-> dir]
    BY <1>5, <1>5a, <2>3 DEF Fit
  <2>4. CASE w[i].at = MapData /\ w[i].put = [map |-> map]
    BY <1>5, <1>5a, <2>4 DEF Fit
  <2> QED
    BY <1>6, <2>1, <2>2, <2>3, <2>4
<1> QED
  BY <1>1, <1>7, <1>8 DEF Fitting

\* What the disk is like after k of them.
CreatingDone(d, s, h, dir, map, k, E) ==
  LET p == IF h.flag = -1 THEN 1 ELSE 2 IN
  /\ Disk(E)
  /\ \A t \in Usable : t # s /\ t # h.flag => E[t] = d[t]
  /\ k >= 1 => E[s] = HeaderOf(h)
  /\ k >= p /\ h.flag # -1 => E[h.flag] = IndexOf(h)
  /\ DirOf(E) = (IF k > p THEN dir ELSE DirOf(d))
  /\ MapOf(E) = (IF k > p + 1 THEN map ELSE MapOf(d))

\* The disk after some of them.
LEMMA CreatingAfter ==
  \A d, s, h, dir, map, w, k :
    /\ Disk(d) /\ s \in Usable /\ h \in MemHeader /\ h.flag # s
    /\ DirC([dir |-> dir]) /\ MapC([map |-> map])
    /\ Creating(w, s, h, dir, map)
    /\ k \in 0 .. Len(w)
    => CreatingDone(d, s, h, dir, map, k, After(d, w, k))
<1> SUFFICES ASSUME NEW d, Disk(d), NEW s \in Usable, NEW h \in MemHeader, h.flag # s,
                    NEW dir, DirC([dir |-> dir]), NEW map, MapC([map |-> map]),
                    NEW w, Creating(w, s, h, dir, map), NEW k \in 0 .. Len(w)
             PROVE  CreatingDone(d, s, h, dir, map, k, After(d, w, k))
  OBVIOUS
<1>0. PICK E, p : E = After(d, w, k) /\ p = IF h.flag = -1 THEN 1 ELSE 2
  OBVIOUS
<1> DEFINE f == h.flag
<1>1. /\ IsSeq(w) /\ Len(w) = p + 2
      /\ w[1] = Write(s, HeaderOf(h)) /\ (f # -1 => w[2] = Write(f, IndexOf(h)))
      /\ w[p + 1] = DirWrite(dir) /\ w[p + 2] = MapWrite(map)
  BY <1>0 DEF Creating
<1>2. Fitting(w) /\ Distinct(w) /\ \A i \in 1 .. Len(w) : w[i].at \in Sector
  BY CreatingFits
<1>3. (p = 1 /\ f = -1) \/ (p = 2 /\ f # -1)
  BY <1>0
<1>3a. (f # -1 => f \in Usable) /\ f # s
  BY DEF MemHeader, Slot
<1>4. MapData # DirData /\ MapData \in Sector /\ DirData \in Sector /\ \A t \in Usable : t # MapData /\ t # DirData /\ t \in Sector
  BY SlotFacts DEF MapData, DirData, Reserved
<1> HIDE DEF f
<1>5. Disk(E)
  BY <1>0, <1>2, AfterFits
<1>6. \A i \in 1 .. k : E[w[i].at] = w[i].put
  <2>1. \A i \in 1 .. k : i \in 1 .. Len(w) /\ w[i].at \in Sector
    BY <1>1, <1>2, <1>3
  <2> QED
    BY <1>0, <1>1, <1>2, <2>1, AfterPut
<1>7. \A t \in Sector : (\A i \in 1 .. k : w[i].at # t) => E[t] = d[t]
  BY <1>0, AfterKept
<1>8. /\ w[1].at = s /\ w[1].put = HeaderOf(h)
      /\ f # -1 => w[2].at = f /\ w[2].put = IndexOf(h)
      /\ w[p + 1].at = DirData /\ w[p + 1].put = [dir |-> dir]
      /\ w[p + 2].at = MapData /\ w[p + 2].put = [map |-> map]
  BY <1>1 DEF Write, DirWrite, MapWrite
<1>9. \A i \in 1 .. k : i = 1 \/ (f # -1 /\ i = 2) \/ i = p + 1 \/ i = p + 2
  BY <1>1, <1>3
<1>10. \A t \in Usable : t # s /\ t # f => E[t] = d[t]
  <2> SUFFICES ASSUME NEW t \in Usable, t # s, t # f
               PROVE  \A i \in 1 .. k : w[i].at # t
    BY <1>4, <1>7
  <2>1. t # MapData /\ t # DirData
    BY <1>4
  <2> QED
    BY <1>8, <1>9, <2>1
<1>11. k >= 1 => E[s] = HeaderOf(h)
  <2>1. k >= 1 => 1 \in 1 .. k
    BY <1>1, <1>3
  <2> QED
    BY <1>6, <1>8, <2>1
<1>12. k >= p /\ f # -1 => E[f] = IndexOf(h)
  <2>1. k >= p /\ f # -1 => 2 \in 1 .. k
    BY <1>1, <1>3
  <2> QED
    BY <1>6, <1>8, <2>1
<1>13. DirOf(E) = (IF k > p THEN dir ELSE DirOf(d))
  <2>1. CASE k > p
    <3>1. p + 1 \in 1 .. k
      BY <1>1, <1>3, <2>1
    <3> QED
      BY <1>6, <1>8, <2>1, <3>1 DEF DirOf
  <2>2. CASE ~(k > p)
    <3>1. \A i \in 1 .. k : i # p + 1 /\ i # p + 2
      BY <1>1, <1>3, <2>2
    <3>2. E[DirData] = d[DirData]
      BY <1>3a, <1>4, <1>7, <1>8, <1>9, <3>1
    <3> QED
      BY <2>2, <3>2 DEF DirOf
  <2> QED
    BY <2>1, <2>2
<1>14. MapOf(E) = (IF k > p + 1 THEN map ELSE MapOf(d))
  <2>1. CASE k > p + 1
    <3>1. p + 2 \in 1 .. k
      BY <1>1, <1>3, <2>1
    <3> QED
      BY <1>6, <1>8, <2>1, <3>1 DEF MapOf
  <2>2. CASE ~(k > p + 1)
    <3>1. \A i \in 1 .. k : i # p + 2
      BY <1>1, <1>3, <2>2
    <3>2. \A i \in 1 .. k : w[i].at # MapData
      <4>1. s # MapData /\ (f # -1 => f # MapData) /\ DirData # MapData
        BY <1>3a, <1>4
      <4> QED
        BY <1>8, <1>9, <3>1, <4>1
    <3>3. E[MapData] = d[MapData]
      BY <1>4, <1>7, <3>2
    <3> QED
      BY <2>2, <3>3 DEF MapOf
  <2> QED
    BY <2>1, <2>2
<1> QED
  BY <1>0, <1>1, <1>5, <1>10, <1>11, <1>12, <1>13, <1>14 DEF f, CreatingDone

\* Create() is safe at every write, and leaves the disk whole.
LEMMA CreateGood ==
  ASSUME NEW d, Disk(d), Whole(d, {}),
         NEW n \in Name, n \notin DOMAIN DirOf(d), NEW s \in Sector \ MapOf(d),
         NEW h \in MemHeader,
         \A t \in ToSet(h.dataSectors) : t \in Sector \ MapOf(d) /\ t # s /\ t # h.flag,
         IsInjective(h.dataSectors),
         h.flag = -1 \/ h.flag \in Sector \ MapOf(d), h.flag # s,
         h.flag = -1 => Len(h.dataSectors) <= NumHdr,
         Len(h.dataSectors) * SectorSize >= h.numBytes,
         NEW dir, dir = [m \in DOMAIN DirOf(d) \cup {n} |-> IF m = n THEN s ELSE DirOf(d)[m]],
         NEW map, map = MapOf(d) \cup (({s} \cup ToSet(h.dataSectors)) \cup ({h.flag} \ {-1})),
         NEW skip, n \in skip \/ ToSet(h.dataSectors) = {}, Nothing \notin Nat,
         NEW w, Creating(w, s, h, dir, map)
  PROVE  Good(d, w, skip) /\ (\A gone : Tidy(d, gone) => Neat(d, w, gone)) /\ Fitting(w)
<1> DEFINE f == h.flag
           ds == h.dataSectors
           mine == ({s} \cup ToSet(ds)) \cup ({f} \ {-1})
           p == IF f = -1 THEN 1 ELSE 2
<1>1. /\ Reserved \subseteq MapOf(d) /\ MapOf(d) \subseteq Sector
      /\ DOMAIN DirOf(d) \subseteq Name /\ \A m \in DOMAIN DirOf(d) : DirOf(d)[m] \in Usable
  BY DiskFacts
<1>2. s \in Usable /\ mine \subseteq Usable /\ mine \cap MapOf(d) = {} /\ map = MapOf(d) \cup mine
  BY <1>1 DEF Usable
<1>3. MapC([map |-> map]) /\ DirC([dir |-> dir])
  <2>1. Reserved \subseteq map /\ map \subseteq Sector
    BY <1>1, <1>2 DEF Usable
  <2>2. DOMAIN dir \subseteq Name /\ \A m \in DOMAIN dir : dir[m] \in Usable
    BY <1>1, <1>2
  <2> HIDE DEF mine
  <2> QED
    BY <2>1, <2>2 DEF MapC, DirC
<1>4. Fitting(w) /\ Distinct(w) /\ \A i \in 1 .. Len(w) : w[i].at \in Sector
  BY <1>2, <1>3, CreatingFits
<1>5. /\ n \in DOMAIN dir /\ dir[n] = s /\ DOMAIN dir = DOMAIN DirOf(d) \cup {n}
      /\ \A m \in DOMAIN DirOf(d) : m # n /\ dir[m] = DirOf(d)[m]
  OBVIOUS
<1>6. \A m \in DOMAIN DirOf(d) : /\ UsesOf(d, DirOf(d)[m]) \subseteq MapOf(d) /\ WellFormed(d, DirOf(d)[m])
                                 /\ UsesOf(d, DirOf(d)[m]) \subseteq Usable
                                 /\ DirOf(d)[m] \in UsesOf(d, DirOf(d)[m])
  BY <1>1, FileFacts DEF Whole
<1>7. p \in {1, 2} /\ h.numBytes \in Nat
  BY DEF MemHeader
<1> HIDE DEF p
<1>8. ASSUME NEW k \in 0 .. Len(w), NEW E, E = After(d, w, k)
      PROVE  /\ Disk(E) /\ Len(w) = p + 2 /\ k \in Nat
             /\ \A t \in Usable : t # s /\ t # f => E[t] = d[t]
             /\ k >= 1 => E[s] = HeaderOf(h)
             /\ k >= p /\ f # -1 => E[f] = IndexOf(h)
             /\ DirOf(E) = (IF k > p THEN dir ELSE DirOf(d))
             /\ MapOf(E) = (IF k > p + 1 THEN map ELSE MapOf(d))
  <2>1. Len(w) = p + 2 /\ k \in Nat
    BY <1>7 DEF Creating, p
  <2>1a. CreatingDone(d, s, h, dir, map, k, E)
    BY <1>2, <1>3, <1>8, CreatingAfter
  <2>2. Disk(E) /\ \A t \in Usable : t # s /\ t # f => E[t] = d[t]
    BY <2>1a DEF p, CreatingDone
  <2>3. (k >= 1 => E[s] = HeaderOf(h)) /\ (k >= p /\ f # -1 => E[f] = IndexOf(h))
    BY <2>1a DEF p, CreatingDone
  <2>4. DirOf(E) = (IF k > p THEN dir ELSE DirOf(d)) /\ MapOf(E) = (IF k > p + 1 THEN map ELSE MapOf(d))
    BY <2>1a DEF p, CreatingDone
  <2> QED
    BY <2>1, <2>2, <2>3, <2>4
\* What files had before is untouched.
<1>9. ASSUME NEW k \in 0 .. Len(w), NEW E, E = After(d, w, k)
      PROVE  \A t \in Usable \cap MapOf(d) : E[t] = d[t]
  <2>1. \A t \in Usable \cap MapOf(d) : t # s /\ t # f
    BY SlotFacts
  <2> QED
    BY <1>8, <1>9, <2>1
\* Before the directory is written.
<1>10. ASSUME NEW k \in 0 .. Len(w), NEW E, E = After(d, w, k), ~(k > p)
       PROVE  LenOf(E) = LenOf(d) /\ \A at : Safe(E, at)
  <2>1. DirOf(E) = DirOf(d) /\ Disk(E)
    BY <1>8, <1>10
  <2>2. \A m \in DOMAIN DirOf(d) : \A t \in UsesOf(d, DirOf(d)[m]) : E[t] = d[t]
    BY <1>6, <1>9, <1>10
  <2>3. Unchanged(d, E, {})
    BY <2>1, <2>2 DEF Unchanged
  <2>4. \A at : Safe(E, at)
    BY <2>1, <2>3, SafeFrom
  <2>5. LenOf(E) = LenOf(d)
    BY <1>6, <2>1, <2>2, SameLengths
  <2> QED
    BY <2>4, <2>5
\* And afterwards.
<1>11. ASSUME NEW k \in 0 .. Len(w), NEW E, E = After(d, w, k), k > p
       PROVE  /\ LenOf(E) = [LenOf(d) EXCEPT ![n] = h.numBytes]
              /\ \A at : Safe(E, at)
              /\ k = Len(w) => Whole(E, skip) /\ \A gone : Tidy(d, gone) => Tidy(E, gone)
  <2>1. DirOf(E) = dir /\ Disk(E) /\ E[s] = HeaderOf(h) /\ (f # -1 => E[f] = IndexOf(h))
    BY <1>7, <1>8, <1>11
  <2>2. \A m \in DOMAIN DirOf(d) : \A t \in UsesOf(d, DirOf(d)[m]) : E[t] = d[t]
    BY <1>6, <1>9, <1>11
  <2>3. Unchanged(d, E, {n})
    BY <1>5, <2>1, <2>2 DEF Unchanged
  <2>4. /\ Hdr(E[s]) /\ E[s].numBytes = h.numBytes /\ E[s].flag = f
        /\ Len(E[s].direct) = Min2(Len(ds), NumHdr)
        /\ Listing(E, s) = ds
    BY <1>2, <2>1, ReadBack
  <2>5. UsesOf(E, s) = mine
    BY <2>4 DEF UsesOf
  <2>6. f # -1 => f # s /\ Idx(E[f])
    BY <2>1 DEF Idx, IndexOf
  <2>7. ToSet(ds) \subseteq Usable \ {s, f}
    BY <1>2
  <2>8. WellFormed(E, s)
    BY <2>4, <2>6, <2>7 DEF WellFormed
  <2>9. \A m \in DOMAIN DirOf(E) : m # n => /\ UsesOf(E, DirOf(E)[m]) = UsesOf(d, DirOf(d)[m])
                                            /\ m \in DOMAIN DirOf(d) /\ E[DirOf(E)[m]] = d[DirOf(d)[m]]
                                            /\ UsesOf(E, s) \cap UsesOf(E, DirOf(E)[m]) = {}
    <3> SUFFICES ASSUME NEW m \in DOMAIN DirOf(E), m # n
                 PROVE  /\ UsesOf(E, DirOf(E)[m]) = UsesOf(d, DirOf(d)[m])
                        /\ m \in DOMAIN DirOf(d) /\ E[DirOf(E)[m]] = d[DirOf(d)[m]]
                        /\ UsesOf(E, s) \cap UsesOf(E, DirOf(E)[m]) = {}
      OBVIOUS
    <3>1. m \in DOMAIN DirOf(E) \ {n}
      OBVIOUS
    <3>2. /\ UsesOf(E, DirOf(E)[m]) = UsesOf(d, DirOf(d)[m]) /\ m \in DOMAIN DirOf(d)
          /\ UsesOf(E, DirOf(E)[m]) \subseteq MapOf(d)
          /\ E[DirOf(E)[m]] = d[DirOf(d)[m]]
      BY <2>1, <2>3, <3>1, OthersFacts
    <3> QED
      BY <1>2, <2>5, <3>2
  <2>10. \A at : Safe(E, at)
    <3> SUFFICES ASSUME NEW at PROVE Safe(E, at)
      OBVIOUS
    <3>0. DirOf(E)[n] = s /\ UsesOf(E, s) \subseteq Usable
      BY <1>2, <1>5, <2>1, <2>5
    <3> HIDE DEF mine
    <3>1. SafeFile(E, n, at)
      BY <2>4, <2>6, <2>9, <3>0 DEF SafeFile
    <3> QED
      BY <2>1, <2>3, <3>1, SafeFrom
  <2>11. LenOf(E) = [LenOf(d) EXCEPT ![n] = h.numBytes]
    <3>1. n \in DOMAIN DirOf(E) /\ E[DirOf(E)[n]].numBytes = h.numBytes
          /\ DOMAIN DirOf(E) = DOMAIN DirOf(d) \cup {n}
      BY <1>5, <2>1, <2>4
    <3>2. \A m \in DOMAIN DirOf(d) \ {n} : E[DirOf(E)[m]].numBytes = d[DirOf(d)[m]].numBytes
      BY <1>5, <2>1, <2>9
    <3> QED
      BY <2>1, <3>1, <3>2, NewLength
  <2>12. ASSUME k = Len(w)
         PROVE  Whole(E, skip)
    <3>1. MapOf(E) = map
      BY <1>7, <1>8, <1>11, <2>12
    <3>2. IndexesMarked(E)
      <4> SUFFICES ASSUME NEW t \in Sector \ map PROVE ~Idx(E[t])
        BY <3>1 DEF IndexesMarked
      <4>1. t \in Usable /\ t \notin mine /\ t # s /\ t # f /\ t \in Sector \ MapOf(d)
        BY <1>1, <1>2, SlotFacts DEF Usable
      <4>2. E[t] = d[t]
        BY <1>8, <1>11, <4>1
      <4> QED
        BY <4>1, <4>2 DEF Whole
    <3>3. n \notin skip => Filled(E, n)
      BY <1>5, <2>1, <2>4 DEF Filled
    <3>3a. DirOf(E)[n] = s /\ UsesOf(E, s) \subseteq MapOf(E)
      BY <1>2, <1>5, <2>1, <2>5, <3>1
    <3> HIDE DEF mine
    <3>4. WholeFile(E, n, skip)
      BY <2>8, <2>9, <3>3, <3>3a DEF WholeFile
    <3>5. \A m \in DOMAIN DirOf(E) \ {n} : UsesOf(d, DirOf(d)[m]) \subseteq MapOf(E)
      BY <1>2, <1>5, <1>6, <2>1, <3>1
    <3> QED
      BY <2>1, <2>3, <3>2, <3>4, <3>5, WholeFrom
  <2>13. ASSUME k = Len(w), NEW gone, Tidy(d, gone)
         PROVE  Tidy(E, gone)
    <3>1. MapOf(E) = map
      BY <1>7, <1>8, <1>11, <2>13
    <3>2. ASSUME NEW t
          PROVE  t \in gone <=> t \in MapOf(E) /\ t \notin Reserved /\ ~Claimed(E, t)
      <4>1. t \in gone <=> t \in MapOf(d) /\ t \notin Reserved /\ ~Claimed(d, t)
        BY <2>13 DEF Tidy
      <4>2. t \in mine => t \notin MapOf(d) /\ Claimed(E, t)
        BY <1>2, <1>5, <2>1, <2>5 DEF Claimed
      <4>3. ASSUME Claimed(d, t) PROVE Claimed(E, t)
        <5>1. PICK m \in DOMAIN DirOf(d) : t \in UsesOf(d, DirOf(d)[m])
          BY <4>3 DEF Claimed
        <5>2. m \in DOMAIN DirOf(E) /\ m # n
          BY <1>5, <2>1
        <5>3. t \in UsesOf(E, DirOf(E)[m])
          BY <2>9, <5>1, <5>2
        <5> QED
          BY <5>2, <5>3 DEF Claimed
      <4>4. ASSUME Claimed(E, t), t \notin mine PROVE Claimed(d, t)
        <5>1. PICK m \in DOMAIN DirOf(E) : t \in UsesOf(E, DirOf(E)[m])
          BY <4>4 DEF Claimed
        <5>2. m # n
          BY <1>5, <2>1, <2>5, <4>4, <5>1
        <5>3. m \in DOMAIN DirOf(d) /\ t \in UsesOf(d, DirOf(d)[m])
          BY <2>9, <5>1, <5>2
        <5> QED
          BY <5>3 DEF Claimed
      <4>5. t \in MapOf(E) <=> t \in MapOf(d) \/ t \in mine
        BY <1>2, <3>1
      <4> HIDE DEF mine
      <4> QED
        BY <4>1, <4>2, <4>3, <4>4, <4>5
    <3> QED
      BY <3>2 DEF Tidy
  <2> QED
    BY <2>10, <2>11, <2>12, <2>13
<1>12. ASSUME NEW k \in 0 .. Len(w)
       PROVE  State(d, w, skip, k)
  <2>1. PICK E : E = After(d, w, k)
    OBVIOUS
  <2>2. Len(w) = p + 2 /\ k \in Nat
    BY <1>8, <2>1
  <2>3. Safe(E, At(w, k))
    BY <1>10, <1>11, <2>1
  <2>4. k = Len(w) => Whole(E, skip)
    BY <1>7, <1>11, <2>1, <2>2
  <2>5. At(w, k) # -1
    <3>1. k < Len(w) => k + 1 \in 1 .. Len(w)
      BY <1>7, <2>2
    <3> QED
      BY <1>4, <3>1, DiskConstants DEF At
  <2>6. ASSUME k < Len(w)
        PROVE  LenStep(LenOf(E), LenOf(After(d, w, k + 1)))
    <3>1. PICK l : l = k + 1 /\ l \in 0 .. Len(w)
      BY <1>7, <2>2, <2>6
    <3>2. PICK F : F = After(d, w, l)
      OBVIOUS
    <3>3. CASE ~(l > p)
      <4>1. ~(k > p)
        BY <1>7, <2>2, <3>1, <3>3
      <4>2. LenOf(E) = LenOf(d) /\ LenOf(F) = LenOf(d)
        BY <1>10, <2>1, <3>2, <3>1, <3>3, <4>1
      <4> QED
        BY <3>1, <3>2, <4>2 DEF LenStep
    <3>4. CASE k > p
      <4>1. l > p
        BY <1>7, <2>2, <3>1, <3>4
      <4>2. LenOf(E) = LenOf(F)
        BY <1>11, <2>1, <3>2, <3>1, <3>4, <4>1
      <4> QED
        BY <3>1, <3>2, <4>2 DEF LenStep
    <3>5. CASE l > p /\ ~(k > p)
      <4>1. LenOf(E) = LenOf(d) /\ LenOf(F) = [LenOf(d) EXCEPT ![n] = h.numBytes]
        BY <1>10, <1>11, <2>1, <3>1, <3>2, <3>5
      <4>2. LenOf(d)[n] = Nothing
        BY DEF LenOf
      <4>3. LenOf(F)[n] = h.numBytes /\ \A m \in Name \ {n} : LenOf(F)[m] = LenOf(E)[m]
        <5>1. LenOf(d) = [m \in Name |-> LenOf(d)[m]]
          BY DEF LenOf
        <5> QED
          BY <4>1, <5>1
      <4> QED
        BY <1>7, <3>1, <3>2, <4>1, <4>2, <4>3 DEF LenStep
    <3> QED
      BY <3>3, <3>4, <3>5
  <2> QED
    BY <2>1, <2>3, <2>4, <2>5, <2>6 DEF State
<1>13. \A gone : Tidy(d, gone) => Neat(d, w, gone)
  <2>1. Len(w) \in 0 .. Len(w) /\ Len(w) > p
    BY <1>7 DEF Creating, p
  <2>2. PICK E : E = After(d, w, Len(w))
    OBVIOUS
  <2> QED
    BY <1>11, <2>1, <2>2 DEF Neat
<1> QED
  BY <1>4, <1>12, <1>13 DEF Good

\* What OpenFile::WriteAt() writes of a new file fills it.
LEMMA FillGood ==
  ASSUME NEW d, Disk(d), NEW n \in DOMAIN DirOf(d), Whole(d, {n}),
         NEW L, L = Listing(d, DirOf(d)[n]),
         NEW w, IsSeq(w), Len(w) = Len(L), \A i \in 1 .. Len(w) : w[i] = Write(L[i], Written(n))
  PROVE  Good(d, w, {}) /\ (\A gone : Tidy(d, gone) => Neat(d, w, gone)) /\ Fitting(w)
<1> DEFINE s == DirOf(d)[n]
<1>0. s \in Usable /\ WellFormed(d, s) /\ Hdr(d[s]) /\ UsesOf(d, s) \subseteq MapOf(d)
  BY DiskFacts DEF Whole, WellFormed
<1>1. L \in Seq(Slot) /\ Len(L) \in Nat /\ DOMAIN L = 1 .. Len(L) /\ ToSet(L) = {L[i] : i \in 1 .. Len(L)}
  <2>1. L \in Seq(Slot)
    BY <1>0, HeaderFacts
  <2> QED
    BY <2>1, SeqFacts
<1>2. /\ ToSet(L) \subseteq Usable /\ s \notin ToSet(L) /\ d[s].flag \notin ToSet(L) /\ IsInjective(L)
      /\ ToSet(L) \subseteq UsesOf(d, s) /\ UsesOf(d, s) \subseteq Usable
      /\ d[s].flag # -1 => d[s].flag \in Usable /\ Idx(d[d[s].flag])
  BY <1>0, FileFacts DEF WellFormed
<1>3. \A i \in 1 .. Len(w) : w[i].at = L[i] /\ w[i].put = Written(n) /\ w[i].at \in ToSet(L)
  <2> SUFFICES ASSUME NEW i \in 1 .. Len(w)
               PROVE  w[i].at = L[i] /\ w[i].put = Written(n) /\ L[i] \in ToSet(L)
    OBVIOUS
  <2>1. w[i] = [at |-> L[i], put |-> Written(n)]
    BY DEF Write
  <2> QED
    BY <1>1, <2>1
<1>4. /\ \A t \in Usable : t # MapData /\ t # DirData /\ t \in Sector /\ t # -1
      /\ MapData \in Sector /\ DirData \in Sector
  BY SlotFacts DEF MapData, DirData, Reserved
<1>5. Fitting(w) /\ Distinct(w)
  <2>1. DataC(Written(n)) /\ ~Idx(Written(n))
    BY DEF DataC, Written, Idx
  <2>2. \A i \in 1 .. Len(w) : w[i].at \in Slot \cup {MapData, DirData} /\ Fit(w[i].at, w[i].put)
    BY <1>2, <1>3, <1>4, <2>1 DEF Fit, Slot
  <2>3. Distinct(w)
    BY <1>1, <1>2, <1>3 DEF Distinct, IsInjective
  <2> QED
    BY <2>2, <2>3 DEF Fitting
<1> HIDE DEF s
<1>6. ASSUME NEW k \in 0 .. Len(w), NEW E, E = After(d, w, k)
      PROVE  /\ Disk(E)
             /\ \A t \in Sector : E[t] = d[t] \/ (t \in ToSet(L) /\ E[t] = Written(n))
             /\ \A t \in Sector : t \notin ToSet(L) => E[t] = d[t]
             /\ k = Len(w) => \A t \in ToSet(L) : E[t] = Written(n)
  <2>1. Disk(E)
    BY <1>5, <1>6, AfterFits
  <2>2. \A i \in 1 .. k : i \in 1 .. Len(w) /\ w[i].at \in Sector
    BY <1>1, <1>2, <1>3, <1>4
  <2>3. \A i \in 1 .. k : E[w[i].at] = w[i].put
    BY <1>5, <1>6, <2>2, AfterPut
  <2>4. \A t \in Sector : (\A i \in 1 .. k : w[i].at # t) => E[t] = d[t]
    BY <1>6, AfterKept
  <2>5. \A t \in Sector : E[t] = d[t] \/ (t \in ToSet(L) /\ E[t] = Written(n))
    BY <1>3, <2>2, <2>3, <2>4
  <2>6. \A t \in Sector : t \notin ToSet(L) => E[t] = d[t]
    BY <1>3, <2>2, <2>4
  <2>7. ASSUME k = Len(w), NEW t \in ToSet(L)
        PROVE  E[t] = Written(n)
    <3>1. PICK i \in 1 .. Len(L) : t = L[i]
      BY <1>1
    <3> QED
      BY <1>3, <2>3, <2>7, <3>1
  <2> QED
    BY <2>1, <2>5, <2>6, <2>7
<1>7. ASSUME NEW k \in 0 .. Len(w), NEW E, E = After(d, w, k)
      PROVE  /\ DirOf(E) = DirOf(d) /\ MapOf(E) = MapOf(d)
             /\ E[s] = d[s] /\ Listing(E, s) = L /\ UsesOf(E, s) = UsesOf(d, s)
             /\ WellFormed(E, s) /\ Unchanged(d, E, {n})
             /\ \A m \in DOMAIN DirOf(d) : UsesOf(E, DirOf(d)[m]) = UsesOf(d, DirOf(d)[m])
  <2>1. /\ \A t \in Sector : t \notin ToSet(L) => E[t] = d[t]
        /\ Disk(E)
    BY <1>6, <1>7
  <2>2. DirOf(E) = DirOf(d) /\ MapOf(E) = MapOf(d)
    BY <1>2, <1>4, <2>1 DEF DirOf, MapOf
  <2>3. E[s] = d[s] /\ (d[s].flag # -1 => E[d[s].flag] = d[d[s].flag])
    BY <1>0, <1>2, <1>4, <2>1
  <2>4. Listing(E, s) = L /\ UsesOf(E, s) = UsesOf(d, s) /\ WellFormed(E, s)
    BY <1>0, <2>1, <2>3, SameHeader DEF s
  <2>5. \A m \in DOMAIN DirOf(d) : m # n => \A t \in UsesOf(d, DirOf(d)[m]) : E[t] = d[t]
    <3> SUFFICES ASSUME NEW m \in DOMAIN DirOf(d), m # n, NEW t \in UsesOf(d, DirOf(d)[m])
                 PROVE  E[t] = d[t]
      OBVIOUS
    <3>1. t \notin UsesOf(d, s)
      BY DEF Whole, Apart, s
    <3>2. t \in Sector
      BY DiskFacts DEF Whole
    <3> QED
      BY <1>2, <2>1, <3>1, <3>2
  <2>6. Unchanged(d, E, {n})
    BY <2>2, <2>5 DEF Unchanged
  <2>7. \A m \in DOMAIN DirOf(d) : UsesOf(E, DirOf(d)[m]) = UsesOf(d, DirOf(d)[m])
    <3> SUFFICES ASSUME NEW m \in DOMAIN DirOf(d) PROVE UsesOf(E, DirOf(d)[m]) = UsesOf(d, DirOf(d)[m])
      OBVIOUS
    <3>1. m = n \/ m \in DOMAIN DirOf(E) \ {n}
      BY <2>2
    <3> QED
      BY <2>1, <2>2, <2>4, <2>6, <3>1, OthersFacts DEF s
  <2> QED
    BY <2>2, <2>3, <2>4, <2>6, <2>7
<1>8. \A m \in DOMAIN DirOf(d) : m # n => UsesOf(d, s) \cap UsesOf(d, DirOf(d)[m]) = {}
  BY DEF Whole, Apart, s
<1>9. ASSUME NEW k \in 0 .. Len(w), NEW E, E = After(d, w, k)
      PROVE  LenOf(E) = LenOf(d) /\ \A at : Safe(E, at)
  <2>1. /\ DirOf(E) = DirOf(d) /\ E[s] = d[s] /\ Listing(E, s) = L /\ UsesOf(E, s) = UsesOf(d, s)
        /\ WellFormed(E, s) /\ Unchanged(d, E, {n}) /\ Disk(E)
        /\ \A m \in DOMAIN DirOf(d) : UsesOf(E, DirOf(d)[m]) = UsesOf(d, DirOf(d)[m])
    BY <1>6, <1>7, <1>9
  <2>2. ASSUME NEW at PROVE SafeFile(E, n, at)
    BY <1>2, <1>8, <2>1 DEF SafeFile, WellFormed, s
  <2>3. \A at : Safe(E, at)
    BY <2>1, <2>2, SafeFrom
  <2>4. \A m \in DOMAIN DirOf(d) : E[DirOf(d)[m]] = d[DirOf(d)[m]]
    <3> SUFFICES ASSUME NEW m \in DOMAIN DirOf(d) PROVE E[DirOf(d)[m]] = d[DirOf(d)[m]]
      OBVIOUS
    <3>1. CASE m = n
      BY <2>1, <3>1 DEF s
    <3>2. CASE m # n
      <4>1. m \in DOMAIN DirOf(E) \ {n}
        BY <2>1, <3>2
      <4> QED
        BY <2>1, <4>1, OthersFacts
    <3> QED
      BY <3>1, <3>2
  <2>5. LenOf(E) = LenOf(d)
    BY <2>1, <2>4, SameLengths
  <2> QED
    BY <2>3, <2>5
<1>10. ASSUME NEW E, E = After(d, w, Len(w))
       PROVE  Whole(E, {}) /\ \A gone : Tidy(d, gone) => Tidy(E, gone)
  <2>0. Len(w) \in 0 .. Len(w)
    BY <1>1
  <2>1. /\ DirOf(E) = DirOf(d) /\ MapOf(E) = MapOf(d) /\ Listing(E, s) = L /\ UsesOf(E, s) = UsesOf(d, s)
        /\ WellFormed(E, s) /\ Unchanged(d, E, {n}) /\ Disk(E)
        /\ \A m \in DOMAIN DirOf(d) : UsesOf(E, DirOf(d)[m]) = UsesOf(d, DirOf(d)[m])
    BY <1>6, <1>7, <1>10, <2>0
  <2>2. /\ \A t \in Sector : t \notin ToSet(L) => E[t] = d[t]
        /\ \A t \in ToSet(L) : E[t] = Written(n)
    BY <1>6, <1>10, <2>0
  <2>3. IndexesMarked(E)
    <3> SUFFICES ASSUME NEW t \in Sector \ MapOf(d) PROVE ~Idx(E[t])
      BY <2>1 DEF IndexesMarked
    <3>1. t \notin ToSet(L)
      BY <1>0, <1>2
    <3> QED
      BY <2>2, <3>1 DEF Whole
  <2>4. WholeFile(E, n, {})
    <3>1. Filled(E, n)
      BY <2>1, <2>2 DEF Filled, s
    <3> QED
      BY <1>0, <1>8, <2>1, <3>1 DEF WholeFile, s
  <2>5. \A m \in DOMAIN DirOf(E) \ {n} : UsesOf(d, DirOf(d)[m]) \subseteq MapOf(E)
    BY <2>1 DEF Whole
  <2>6. Whole(E, {})
    BY <2>1, <2>3, <2>4, <2>5, WholeFrom
  <2>7. ASSUME NEW gone, Tidy(d, gone) PROVE Tidy(E, gone)
    <3>1. ASSUME NEW t PROVE Claimed(E, t) <=> Claimed(d, t)
      BY <2>1 DEF Claimed
    <3> QED
      BY <2>1, <2>7, <3>1 DEF Tidy
  <2> QED
    BY <2>6, <2>7
<1>11. ASSUME NEW k \in 0 .. Len(w)
       PROVE  State(d, w, {}, k)
  <2>1. PICK E : E = After(d, w, k)
    OBVIOUS
  <2>2. Safe(E, At(w, k)) /\ LenOf(E) = LenOf(d)
    BY <1>9, <2>1
  <2>3. k = Len(w) => Whole(E, {})
    BY <1>10, <2>1
  <2>4. At(w, k) # -1
    <3>1. k < Len(w) => k + 1 \in 1 .. Len(w)
      BY <1>1
    <3> QED
      BY <1>2, <1>3, <1>4, <3>1 DEF At
  <2>5. ASSUME k < Len(w)
        PROVE  LenStep(LenOf(E), LenOf(After(d, w, k + 1)))
    <3>1. PICK l : l = k + 1 /\ l \in 0 .. Len(w)
      BY <1>1, <2>5
    <3>2. PICK F : F = After(d, w, l)
      OBVIOUS
    <3>3. LenOf(F) = LenOf(d)
      BY <1>9, <3>1, <3>2
    <3> QED
      BY <2>2, <3>1, <3>2, <3>3 DEF LenStep
  <2> QED
    BY <2>1, <2>2, <2>3, <2>4, <2>5 DEF State
<1>12. \A gone : Tidy(d, gone) => Neat(d, w, gone)
  <2>1. PICK E : E = After(d, w, Len(w))
    OBVIOUS
  <2> QED
    BY <1>10, <2>1 DEF Neat
<1> QED
  BY <1>5, <1>11, <1>12 DEF Good

\* The writes of Remove(): the map and the directory.
Removing(w, map, dir) ==
  IsSeq(w) /\ Len(w) = 2 /\ w[1] = MapWrite(map) /\ w[2] = DirWrite(dir)

\* Remove() plans these writes.
LEMMA RemovingHolds ==
  ASSUME NEW map, NEW dir
  PROVE  Removing(<<MapWrite(map), DirWrite(dir)>>, map, dir)
<1>1. PICK w, x, y : x = MapWrite(map) /\ y = DirWrite(dir) /\ w = <<x, y>>
  OBVIOUS
<1>2. w \in Seq({x, y}) /\ Len(w) = 2 /\ w[1] = x /\ w[2] = y
  BY <1>1
<1> QED
  BY <1>1, <1>2, SeqFacts DEF Removing

\* Remove() is safe at every write, and leaves the disk whole.
LEMMA RemoveGood ==
  ASSUME NEW d, Disk(d), NEW n \in DOMAIN DirOf(d), Whole(d, {}),
         NEW map, map = MapOf(d) \ (ToSet(Listing(d, DirOf(d)[n])) \cup {DirOf(d)[n]}),
         NEW dir, dir = [m \in DOMAIN DirOf(d) \ {n} |-> DirOf(d)[m]], Nothing \notin Nat,
         NEW w, Removing(w, map, dir)
  PROVE  /\ Good(d, w, {}) /\ Fitting(w)
         /\ \A a, b : Tidy(d, a) /\ GivesUp(a, b, d[DirOf(d)[n]].flag, -1) => Neat(d, w, b)
<1> DEFINE s == DirOf(d)[n]
           L == Listing(d, s)
<1>0. /\ s \in Usable /\ WellFormed(d, s) /\ Hdr(d[s]) /\ UsesOf(d, s) \subseteq MapOf(d)
      /\ Filled(d, n) /\ n \in Name
  BY DiskFacts DEF Whole, WellFormed
<1>1. /\ ToSet(L) \subseteq Usable /\ UsesOf(d, s) \subseteq Usable
      /\ d[s].flag # -1 => Idx(d[d[s].flag])
      /\ \A t : t \in UsesOf(d, s) <=> t = s \/ t \in ToSet(L) \/ (t = d[s].flag /\ t # -1)
  BY <1>0, FileFacts DEF WellFormed
<1>2. /\ w[1].at = MapData /\ w[1].put = [map |-> map]
      /\ w[2].at = DirData /\ w[2].put = [dir |-> dir]
      /\ Len(w) = 2 /\ IsSeq(w)
  BY DEF Removing, MapWrite, DirWrite, Write
<1>2a. IsSeq(w)
  BY <1>2
<1>3. /\ \A t \in Usable : t # MapData /\ t # DirData /\ t \in Sector /\ t # -1
      /\ MapData \in Sector /\ DirData \in Sector /\ MapData # DirData
      /\ MapData # -1 /\ DirData # -1
      /\ Reserved \subseteq MapOf(d) /\ MapOf(d) \subseteq Sector /\ Usable \cap Reserved = {}
  BY SlotFacts, DiskFacts DEF MapData, DirData, Reserved, Usable
<1>4. Fitting(w) /\ Distinct(w)
  <2>1. MapC([map |-> map])
    BY <1>0, <1>1, <1>3 DEF MapC
  <2>2. DirC([dir |-> dir])
    <3>1. DOMAIN dir = DOMAIN DirOf(d) \ {n} /\ \A m \in DOMAIN dir : dir[m] = DirOf(d)[m]
      OBVIOUS
    <3> QED
      BY <3>1, DiskFacts DEF DirC
  <2>3. \A i \in 1 .. Len(w) : i = 1 \/ i = 2
    BY <1>2
  <2>4. \A i \in 1 .. Len(w) : w[i].at \in Slot \cup {MapData, DirData} /\ Fit(w[i].at, w[i].put)
    BY <1>2, <1>3, <2>1, <2>2, <2>3 DEF Fit
  <2>5. Distinct(w)
    BY <1>2, <1>3, <2>3 DEF Distinct
  <2> QED
    BY <1>2, <2>4, <2>5 DEF Fitting
<1>5. /\ DOMAIN dir = DOMAIN DirOf(d) \ {n} /\ \A m \in DOMAIN dir : dir[m] = DirOf(d)[m]
  OBVIOUS
<1> HIDE DEF s, L
<1>6. ASSUME NEW k \in 0 .. Len(w), NEW E, E = After(d, w, k)
      PROVE  /\ Disk(E) /\ k \in Nat /\ k <= 2
             /\ \A t \in Sector : t # MapData /\ t # DirData => E[t] = d[t]
             /\ k = 0 => MapOf(E) = MapOf(d)
             /\ k # 0 => MapOf(E) = map
             /\ k < 2 => DirOf(E) = DirOf(d)
             /\ k = 2 => DirOf(E) = dir
  <2>1. Disk(E)
    BY <1>4, <1>6, AfterFits
  <2>2. \A i \in 1 .. k : w[i].at \in Sector /\ (i = 1 \/ i = 2)
    BY <1>2, <1>3
  <2>3. \A i \in 1 .. k : E[w[i].at] = w[i].put
    BY <1>2a, <1>4, <1>6, <2>2, AfterPut
  <2>4. \A t \in Sector : (\A i \in 1 .. k : w[i].at # t) => E[t] = d[t]
    BY <1>6, AfterKept
  <2>5. \A t \in Sector : t # MapData /\ t # DirData => E[t] = d[t]
    <3> SUFFICES ASSUME NEW t \in Sector, t # MapData, t # DirData PROVE \A i \in 1 .. k : w[i].at # t
      BY <2>4
    <3> QED
      BY <1>2, <2>2
  <2>6. k \in Nat /\ k <= 2
    BY <1>2
  <2>7. k = 0 => MapOf(E) = MapOf(d)
    BY <1>3, <2>4 DEF MapOf
  <2>8. k # 0 => MapOf(E) = map
    <3>1. k # 0 => 1 \in 1 .. k
      BY <2>6
    <3>2. k # 0 => E[MapData] = [map |-> map]
      BY <1>2, <2>3, <3>1
    <3> QED
      BY <3>2 DEF MapOf
  <2>9. k < 2 => DirOf(E) = DirOf(d)
    <3>1. ASSUME k < 2, NEW i \in 1 .. k PROVE w[i].at # DirData
      <4>1. i = 1
        BY <2>6, <3>1
      <4> QED
        BY <1>2, <1>3, <4>1
    <3> QED
      BY <1>3, <2>4, <3>1 DEF DirOf
  <2>10. k = 2 => DirOf(E) = dir
    <3>1. k = 2 => 2 \in 1 .. k
      OBVIOUS
    <3> QED
      BY <1>2, <2>3, <3>1 DEF DirOf
  <2> QED
    BY <2>1, <2>5, <2>6, <2>7, <2>8, <2>9, <2>10
<1>7. \A m \in DOMAIN DirOf(d) : /\ UsesOf(d, DirOf(d)[m]) \subseteq MapOf(d)
                                 /\ UsesOf(d, DirOf(d)[m]) \subseteq Usable /\ DirOf(d)[m] \in UsesOf(d, DirOf(d)[m])
                                 /\ m # n => UsesOf(d, DirOf(d)[m]) \cap UsesOf(d, s) = {}
  BY DiskFacts, FileFacts DEF Whole, Apart, s
<1>8. ASSUME NEW k \in 0 .. Len(w), NEW E, E = After(d, w, k)
      PROVE  /\ Unchanged(d, E, {}) /\ \A at : Safe(E, at)
             /\ \A m \in DOMAIN DirOf(d) : E[DirOf(d)[m]] = d[DirOf(d)[m]]
  <2>1. /\ \A t \in Sector : t # MapData /\ t # DirData => E[t] = d[t]
        /\ DirOf(E) = DirOf(d) \/ DirOf(E) = dir
        /\ Disk(E)
    <3>1. k < 2 \/ k = 2
      BY <1>6, <1>8
    <3> QED
      BY <1>6, <1>8, <3>1
  <2>2. \A m \in DOMAIN DirOf(d) : \A t \in UsesOf(d, DirOf(d)[m]) : E[t] = d[t]
    <3> SUFFICES ASSUME NEW m \in DOMAIN DirOf(d), NEW t \in UsesOf(d, DirOf(d)[m])
                 PROVE  E[t] = d[t]
      OBVIOUS
    <3>1. t \in Usable
      BY <1>7
    <3> QED
      BY <1>3, <2>1, <3>1
  <2>3. Unchanged(d, E, {})
    BY <1>5, <2>1, <2>2 DEF Unchanged
  <2>4. \A at : Safe(E, at)
    BY <2>1, <2>3, SafeFrom
  <2> QED
    BY <1>7, <2>2, <2>3, <2>4
<1>9. ASSUME NEW E, E = After(d, w, 2)
      PROVE  /\ Whole(E, {})
             /\ \A a, b : Tidy(d, a) /\ GivesUp(a, b, d[s].flag, -1) => Tidy(E, b)
  <2>0. 2 \in 0 .. Len(w)
    BY <1>2
  <2>0a. PICK k : k = 2 /\ k \in 0 .. Len(w) /\ E = After(d, w, k)
    BY <1>9, <2>0
  <2>1. /\ Disk(E) /\ MapOf(E) = map /\ DirOf(E) = dir
        /\ \A t \in Sector : t # MapData /\ t # DirData => E[t] = d[t]
        /\ Unchanged(d, E, {})
    BY <1>6, <1>8, <2>0a
  <2>2. IndexesMarked(E)
    <3> SUFFICES ASSUME NEW t \in Sector \ map PROVE ~Idx(E[t])
      BY <2>1 DEF IndexesMarked
    <3>1. CASE t \in MapOf(d)
      <4>1. t = s \/ t \in ToSet(L)
        BY <3>1 DEF s, L
      <4>2. t \in Usable
        BY <1>0, <1>1, <4>1 DEF s
      <4>3. E[t] = d[t]
        BY <1>3, <2>1, <4>2
      <4>4. ~Idx(d[t])
        <5>1. CASE t = s
          <6>1. HeaderC(d[s])
            BY <1>0, DiskFacts
          <6> QED
            BY <5>1, <6>1 DEF HeaderC, Idx
        <5>2. CASE t \in ToSet(L)
          <6>1. d[t] = Written(n)
            BY <1>0, <5>2 DEF Filled, L, s
          <6> QED
            BY <6>1 DEF Written, Idx
        <5> QED
          BY <4>1, <5>1, <5>2
      <4> QED
        BY <4>3, <4>4
    <3>2. CASE t \notin MapOf(d)
      <4>1. t # MapData /\ t # DirData
        BY <1>3, <3>2 DEF Reserved
      <4> QED
        BY <2>1, <3>2, <4>1 DEF Whole
    <3> QED
      BY <3>1, <3>2
  <2>3. \A m \in DOMAIN DirOf(E) \ {} : UsesOf(d, DirOf(d)[m]) \subseteq MapOf(E)
    <3> SUFFICES ASSUME NEW m \in DOMAIN dir, NEW t \in UsesOf(d, DirOf(d)[m])
                 PROVE  t \in map
      BY <2>1
    <3>1. m \in DOMAIN DirOf(d) /\ m # n
      BY <1>5
    <3>2. t \in MapOf(d) /\ t \notin UsesOf(d, s)
      BY <1>7, <3>1
    <3> QED
      BY <1>1, <3>2 DEF s, L
  <2>4. Whole(E, {})
    BY <2>1, <2>2, <2>3, WholeFrom
  <2>5. ASSUME NEW a, NEW b, Tidy(d, a), GivesUp(a, b, d[s].flag, -1)
        PROVE  Tidy(E, b)
    <3>1. \A m \in DOMAIN DirOf(E) : /\ m \in DOMAIN DirOf(d) /\ m # n
                                     /\ UsesOf(E, DirOf(E)[m]) = UsesOf(d, DirOf(d)[m])
      <4> SUFFICES ASSUME NEW m \in DOMAIN DirOf(E)
                   PROVE  /\ m \in DOMAIN DirOf(d) /\ m # n
                          /\ UsesOf(E, DirOf(E)[m]) = UsesOf(d, DirOf(d)[m])
        OBVIOUS
      <4>1. m \in DOMAIN DirOf(d) /\ m # n
        BY <1>5, <2>1
      <4>2. m \in DOMAIN DirOf(E) \ {}
        OBVIOUS
      <4>3. UsesOf(E, DirOf(E)[m]) = UsesOf(d, DirOf(d)[m])
        BY <2>1, <4>2, OthersFacts
      <4> QED
        BY <4>1, <4>3
    <3>2. ASSUME NEW t
          PROVE  t \in b <=> t \in MapOf(E) /\ t \notin Reserved /\ ~Claimed(E, t)
      <4>1. t \in a <=> t \in MapOf(d) /\ t \notin Reserved /\ ~Claimed(d, t)
        BY <2>5 DEF Tidy
      <4>2. t \in b <=> t \in a \/ (t = d[s].flag /\ t # -1)
        BY <2>5 DEF GivesUp
      <4>3. t \in UsesOf(d, s) => t \in MapOf(d) /\ t \notin Reserved /\ Claimed(d, t)
        BY <1>0, <1>1, <1>3 DEF Claimed, s
      <4>4. Claimed(E, t) => Claimed(d, t) /\ t \notin UsesOf(d, s)
        BY <1>7, <3>1 DEF Claimed
      <4>5. Claimed(d, t) => Claimed(E, t) \/ t \in UsesOf(d, s)
        <5> SUFFICES ASSUME NEW m \in DOMAIN DirOf(d), t \in UsesOf(d, DirOf(d)[m]), m # n
                     PROVE  Claimed(E, t)
          BY DEF Claimed, s
        <5>1. m \in DOMAIN DirOf(E)
          BY <1>5, <2>1
        <5> QED
          BY <3>1, <5>1 DEF Claimed
      <4>6. t \in MapOf(E) <=> t \in MapOf(d) /\ t # s /\ t \notin ToSet(L)
        BY <2>1 DEF s, L
      <4>7. t \in UsesOf(d, s) <=> t = s \/ t \in ToSet(L) \/ (t = d[s].flag /\ t # -1)
        BY <1>1
      <4>8. t = d[s].flag /\ t # -1 => t # s /\ t \notin ToSet(L)
        BY <1>0 DEF WellFormed, L
      <4> QED
        BY <4>1, <4>2, <4>3, <4>4, <4>5, <4>6, <4>7, <4>8
    <3> QED
      BY <3>2 DEF Tidy
  <2> QED
    BY <2>4, <2>5
<1>10. ASSUME NEW k \in 0 .. Len(w)
       PROVE  State(d, w, {}, k)
  <2>1. PICK E : E = After(d, w, k)
    OBVIOUS
  <2>2. Safe(E, At(w, k)) /\ Disk(E) /\ k \in Nat /\ k <= 2
        /\ \A m \in DOMAIN DirOf(d) : E[DirOf(d)[m]] = d[DirOf(d)[m]]
    BY <1>6, <1>8, <2>1
  <2>3. k = Len(w) => Whole(E, {})
    BY <1>2, <1>9, <2>1
  <2>4. At(w, k) # -1
    <3>1. k < Len(w) => k + 1 = 1 \/ k + 1 = 2
      BY <1>2, <2>2
    <3> QED
      BY <1>2, <1>3, <3>1 DEF At
  <2>5. ASSUME k < Len(w)
        PROVE  LenStep(LenOf(E), LenOf(After(d, w, k + 1)))
    <3>0. k = 0 \/ k = 1
      BY <1>2, <2>2, <2>5
    <3>1. PICK l : l = k + 1 /\ l \in 0 .. Len(w)
      BY <1>2, <2>2, <2>5
    <3>2. PICK F : F = After(d, w, l)
      OBVIOUS
    <3>3. LenOf(E) = LenOf(d)
      <4>1. DirOf(E) = DirOf(d)
        BY <1>6, <2>1, <3>0
      <4> QED
        BY <2>2, <4>1, SameLengths
    <3>4. Disk(F) /\ \A m \in DOMAIN DirOf(d) : F[DirOf(d)[m]] = d[DirOf(d)[m]]
      <4>1. l \in 0 .. Len(w)
        BY <3>1
      <4>2. Disk(F)
        BY <1>6, <3>2, <4>1
      <4>3. \A m \in DOMAIN DirOf(d) : F[DirOf(d)[m]] = d[DirOf(d)[m]]
        BY <1>8, <3>2, <4>1
      <4> QED
        BY <4>2, <4>3
    <3>5. CASE k = 0
      <4>1. DirOf(F) = DirOf(d)
        BY <1>6, <3>1, <3>2, <3>5
      <4>2. LenOf(F) = LenOf(d)
        BY <3>4, <4>1, SameLengths
      <4> QED
        BY <3>1, <3>2, <3>3, <4>2 DEF LenStep
    <3>6. CASE k = 1
      <4>1. DirOf(F) = dir
        BY <1>6, <3>1, <3>2, <3>6
      <4>2. \A m \in Name : m # n => LenOf(F)[m] = LenOf(d)[m]
        BY <1>5, <3>4, <4>1 DEF LenOf
      <4>3. LenOf(F)[n] = Nothing
        BY <1>0, <1>5, <4>1 DEF LenOf
      <4>4. LenOf(d)[n] \in Nat
        BY <1>0, HeaderFacts DEF LenOf, s
      <4> QED
        BY <1>0, <3>1, <3>2, <3>3, <4>2, <4>3, <4>4 DEF LenStep
    <3> QED
      BY <3>0, <3>5, <3>6
  <2> QED
    BY <2>1, <2>2, <2>3, <2>4, <2>5 DEF State
<1>11. \A a, b : Tidy(d, a) /\ GivesUp(a, b, d[s].flag, -1) => Neat(d, w, b)
  <2>1. PICK E : E = After(d, w, 2)
    OBVIOUS
  <2> QED
    BY <1>2, <1>9, <2>1 DEF Neat
<1> QED
  BY <1>4, <1>10, <1>11 DEF Good, s
-----------------------------------------------------------------------------
\* The writes of AppFileSize(), of the bytes and of WriteBack(): the map, the
\* sectors with the new bytes, the header and its index block.
Extending(w, n, s, h, map, first, c) ==
  LET p == IF h.flag = -1 THEN 0 ELSE 1 IN
  /\ IsSeq(w) /\ Len(w) = (c + 2) + p
  /\ w[1] = MapWrite(map)
  /\ \A i \in 2 .. c + 1 : w[i] = Write(h.dataSectors[first + (i - 1)], Written(n))
  /\ w[c + 2] = Write(s, HeaderOf(h))
  /\ h.flag # -1 => w[c + 3] = Write(h.flag, IndexOf(h))

\* A planned write.
LEMMA WriteParts == \A t, x : Write(t, x).at = t /\ Write(t, x).put = x
BY DEF Write

\* An append plans these writes.
LEMMA ExtendingHolds ==
  ASSUME NEW n, NEW s, NEW h \in MemHeader, NEW map, NEW first \in Nat, NEW c \in Nat,
         NEW b, b = [i \in 1 .. c |-> Write(h.dataSectors[first + i], Written(n))]
  PROVE  Extending(<<MapWrite(map)>> \o b \o HeaderWrites(s, h), n, s, h, map, first, c)
<1>1. PICK a, e, x, y : /\ a = <<MapWrite(map)>>
                     /\ e = HeaderWrites(s, h) /\ x = a \o b /\ y = x \o e
  OBVIOUS
<1>1p. PICK p : p = IF h.flag = -1 THEN 0 ELSE 1
  OBVIOUS
<1>2. IsSeq(a) /\ Len(a) = 1 /\ a[1] = MapWrite(map)
  <2>1. a \in Seq({MapWrite(map)}) /\ Len(a) = 1 /\ a[1] = MapWrite(map)
    BY <1>1
  <2> QED
    BY <2>1, SeqFacts
<1>3. IsSeq(b) /\ Len(b) = c /\ \A i \in 1 .. c : b[i] = Write(h.dataSectors[first + i], Written(n))
  <2> DEFINE T == {b[i] : i \in 1 .. c}
  <2>0. b = [i \in 1 .. c |-> b[i]] /\ \A i \in 1 .. c : b[i] \in T
    OBVIOUS
  <2> HIDE DEF T
  <2>0a. b \in [1 .. c -> T]
    BY <2>0
  <2>1. b \in Seq(T) /\ Len(b) = c
    BY <2>0a
  <2>2. IsSeq(b)
    BY <2>1, SeqFacts
  <2> QED
    BY <2>1, <2>2
<1>4. /\ IsSeq(e) /\ Len(e) = (IF h.flag = -1 THEN 1 ELSE 2)
      /\ e[1] = Write(s, HeaderOf(h))
      /\ h.flag # -1 => e[2] = Write(h.flag, IndexOf(h))
  BY <1>1, HeaderWritesFacts
<1>5. /\ IsSeq(x) /\ Len(x) = Len(a) + Len(b)
      /\ \A i \in 1 .. Len(a) : x[i] = a[i]
      /\ \A i \in 1 .. Len(b) : x[Len(a) + i] = b[i]
  <2>1. IsSeq(a) /\ IsSeq(b)
    BY <1>2, <1>3
  <2> QED
    BY <1>1, <2>1, Joined
<1>6. /\ IsSeq(y) /\ Len(y) = Len(x) + Len(e)
      /\ \A i \in 1 .. Len(x) : y[i] = x[i]
      /\ \A i \in 1 .. Len(e) : y[Len(x) + i] = e[i]
  <2>1. IsSeq(x) /\ IsSeq(e)
    BY <1>4, <1>5
  <2> QED
    BY <1>1, <2>1, Joined
<1>7. (h.flag = -1 /\ p = 0 /\ Len(e) = 1) \/ (h.flag # -1 /\ p = 1 /\ Len(e) = 2)
  <2>1. Len(e) = (IF h.flag = -1 THEN 1 ELSE 2)
    BY <1>4
  <2> QED
    BY <1>1p, <2>1
<1>8. Len(x) = c + 1 /\ Len(y) = (c + 2) + p
  <2>1. Len(a) = 1 /\ Len(b) = c /\ Len(x) = Len(a) + Len(b) /\ Len(y) = Len(x) + Len(e)
    BY <1>2, <1>3, <1>5, <1>6
  <2>2. Len(x) = c + 1
    BY <2>1
  <2>3. CASE p = 0
    <3>1. Len(e) = 1
      BY <1>7, <2>3
    <3> QED
      BY <2>1, <2>2, <2>3, <3>1
  <2>4. CASE p = 1
    <3>1. Len(e) = 2
      BY <1>7, <2>4
    <3> QED
      BY <2>1, <2>2, <2>4, <3>1
  <2> QED
    BY <1>7, <2>3, <2>4
<1>9. y[1] = MapWrite(map)
  <2>1. 1 \in 1 .. Len(a) /\ 1 \in 1 .. Len(x)
    BY <1>2, <1>8
  <2> QED
    BY <1>2, <1>5, <1>6, <2>1
<1>10. ASSUME NEW i \in 2 .. c + 1
       PROVE  y[i] = Write(h.dataSectors[first + (i - 1)], Written(n))
  <2>1. PICK j \in 1 .. c : j = i - 1
    OBVIOUS
  <2>2. i = Len(a) + j /\ i \in 1 .. Len(x) /\ j \in 1 .. Len(b)
    BY <1>2, <1>3, <1>8, <2>1
  <2>3. y[i] = b[j]
    BY <1>5, <1>6, <2>2
  <2>4. b[j] = Write(h.dataSectors[first + j], Written(n))
    BY <1>3
  <2>5. PICK q : q = first + (i - 1)
    OBVIOUS
  <2>6. q = first + j
    BY <2>1, <2>5
  <2>7. y[i] = Write(h.dataSectors[q], Written(n))
    BY <2>3, <2>4, <2>6
  <2> QED
    BY <2>5, <2>7, Zenon
<1>11. y[c + 2] = Write(s, HeaderOf(h)) /\ (h.flag # -1 => y[c + 3] = Write(h.flag, IndexOf(h)))
  <2>1. 1 \in 1 .. Len(e) /\ c + 2 = Len(x) + 1 /\ c + 3 = Len(x) + 2
        /\ (h.flag # -1 => 2 \in 1 .. Len(e))
    <3>1. c + 2 = Len(x) + 1 /\ c + 3 = Len(x) + 2
      BY <1>8
    <3>2. CASE p = 0
      BY <1>7, <3>1, <3>2
    <3>3. CASE p = 1
      <4>1. Len(e) = 2
        BY <1>7, <3>3
      <4> QED
        BY <3>1, <4>1
    <3> QED
      BY <1>7, <3>2, <3>3
  <2>2. y[Len(x) + 1] = e[1] /\ (h.flag # -1 => y[Len(x) + 2] = e[2])
    BY <1>6, <2>1
  <2> QED
    BY <1>4, <2>1, <2>2
<1>12. Extending(y, n, s, h, map, first, c)
  BY <1>1p, <1>6, <1>8, <1>9, <1>10, <1>11 DEF Extending
<1> QED
  BY <1>1, <1>12

\* The i-th of these writes.
OneOf(w, n, s, ds, f, h, map, first, c, i) ==
  \/ i = 1 /\ w[i].at = MapData /\ w[i].put = [map |-> map]
  \/ i \in 2 .. c + 1 /\ w[i].at = ds[first + (i - 1)] /\ w[i].put = Written(n)
  \/ i = c + 2 /\ w[i].at = s /\ w[i].put = HeaderOf(h)
  \/ f # -1 /\ i = c + 3 /\ w[i].at = f /\ w[i].put = IndexOf(h)

\* Each write is one of these.
LEMMA ExtendingAt ==
  \A w, n, s, h, map, first : \A c \in Nat : Extending(w, n, s, h, map, first, c) =>
    \A i \in 1 .. Len(w) : OneOf(w, n, s, h.dataSectors, h.flag, h, map, first, c, i)
<1> SUFFICES ASSUME NEW w, NEW n, NEW s, NEW h, NEW map, NEW first, NEW c \in Nat,
                    Extending(w, n, s, h, map, first, c), NEW i \in 1 .. Len(w)
             PROVE  OneOf(w, n, s, h.dataSectors, h.flag, h, map, first, c, i)
  OBVIOUS
<1>1. PICK p : p = IF h.flag = -1 THEN 0 ELSE 1
  OBVIOUS
<1>2. /\ Len(w) = (c + 2) + p
      /\ w[1] = MapWrite(map)
      /\ \A j \in 2 .. c + 1 : w[j] = Write(h.dataSectors[first + (j - 1)], Written(n))
      /\ w[c + 2] = Write(s, HeaderOf(h))
      /\ h.flag # -1 => w[c + 3] = Write(h.flag, IndexOf(h))
  <2>1. Len(w) = (c + 2) + p
    BY <1>1 DEF Extending
  <2>2. /\ w[1] = MapWrite(map)
        /\ \A j \in 2 .. c + 1 : w[j] = Write(h.dataSectors[first + (j - 1)], Written(n))
        /\ w[c + 2] = Write(s, HeaderOf(h))
        /\ h.flag # -1 => w[c + 3] = Write(h.flag, IndexOf(h))
    BY DEF Extending
  <2> QED
    BY <2>1, <2>2
<1>3. i = 1 \/ i \in 2 .. c + 1 \/ i = c + 2 \/ (h.flag # -1 /\ i = c + 3)
  BY <1>1, <1>2
<1>4. CASE i = 1
  <2>1. w[1] = MapWrite(map)
    BY <1>2
  <2> QED
    BY <1>4, <2>1 DEF Write, MapWrite, OneOf
<1>5. CASE i \in 2 .. c + 1
  <2>1. w[i] = Write(h.dataSectors[first + (i - 1)], Written(n))
    BY <1>2, <1>5
  <2>1a. PICK q : q = h.dataSectors[first + (i - 1)]
    OBVIOUS
  <2>1b. w[i] = Write(q, Written(n))
    BY <2>1, <2>1a
  <2>1c. w[i].at = q /\ w[i].put = Written(n)
    BY <2>1b, WriteParts
  <2>2. w[i].at = h.dataSectors[first + (i - 1)] /\ w[i].put = Written(n)
    BY <2>1a, <2>1c
  <2> QED
    BY <1>5, <2>2, Zenon DEF OneOf
<1>6. CASE i = c + 2
  <2>1. w[i] = Write(s, HeaderOf(h))
    BY <1>2, <1>6
  <2> QED
    BY <1>6, <2>1 DEF Write, OneOf
<1>7. CASE h.flag # -1 /\ i = c + 3
  <2>1. w[i] = Write(h.flag, IndexOf(h))
    BY <1>2, <1>7
  <2> QED
    BY <1>7, <2>1 DEF Write, OneOf
<1> QED
  BY <1>3, <1>4, <1>5, <1>6, <1>7

\* They put into each sector what belongs there.
LEMMA ExtendingFits ==
  ASSUME NEW n, NEW s \in Usable, NEW h \in MemHeader, NEW map, MapC([map |-> map]),
         NEW first \in Nat, NEW c \in Nat, first + c <= Len(h.dataSectors),
         NEW w, Extending(w, n, s, h, map, first, c)
  PROVE  Fitting(w)
<1>1. IsSeq(w)
  BY DEF Extending
<1>2. HeaderC(HeaderOf(h)) /\ IndexC(IndexOf(h)) /\ DataC(Written(n))
  BY HeaderParts DEF DataC, Written
<1>3. \A t \in Slot : t # MapData /\ t # DirData
  BY SlotFacts DEF MapData, DirData, Slot
<1>4. MapData # DirData /\ s \in Slot /\ h.flag \in Slot
  BY DEF MapData, DirData, MemHeader, Slot
<1>5. ASSUME NEW i \in 2 .. c + 1 PROVE h.dataSectors[first + (i - 1)] \in Slot
  <2>1. h.dataSectors \in Seq(Slot) /\ Len(h.dataSectors) \in Nat
    BY DEF MemHeader
  <2>2. first + (i - 1) \in 1 .. Len(h.dataSectors)
    BY <2>1
  <2> QED
    BY <2>1, <2>2, ElementOfSeq
<1>6. ASSUME NEW i \in 1 .. Len(w)
      PROVE  w[i].at \in Slot \cup {MapData, DirData} /\ Fit(w[i].at, w[i].put)
  <2>1. OneOf(w, n, s, h.dataSectors, h.flag, h, map, first, c, i)
    BY ExtendingAt
  <2> QED
    BY <1>2, <1>3, <1>4, <1>5, <2>1 DEF Fit, OneOf
<1> QED
  BY <1>1, <1>6 DEF Fitting
\* The header h of the file at s with some more sectors: those it had, then new
\* ones that were clear, the last of them -1 if the disk is full; the index block
\* is new if sectors are.  The sectors from the first one on are written.
Longer(d, s, h, more, map, first, c) ==
  LET ds == h.dataSectors
      old == Len(Listing(d, s))
  IN  /\ Len(ds) = old + more /\ \A i \in 1 .. old : ds[i] = Listing(d, s)[i]
      /\ \A i \in old + 1 .. old + more : ds[i] = -1 \/ ds[i] \in Sector \ MapOf(d)
      /\ \A i \in old + 1 .. old + more - 1 : ds[i] # -1
      /\ \A i, j \in old + 1 .. old + more : ds[i] = ds[j] /\ ds[i] # -1 => i = j
      /\ more = 0 => h.flag = d[s].flag
      /\ more > 0 => h.flag = -1 \/ h.flag \in Sector \ MapOf(d)
      /\ more > 0 /\ h.flag # -1 => \A i \in old + 1 .. old + more : ds[i] # h.flag
      /\ h.flag = -1 => Len(ds) <= NumHdr
      /\ map = MapOf(d) \cup (({ds[i] : i \in old + 1 .. old + more} \cup {h.flag}) \ {-1})
      /\ first <= old /\ first + c <= old + more /\ (more > 0 => first + c = old + more)
      /\ Len(ds) * SectorSize >= h.numBytes

\* Put as sets.
Larger(d, n, s, h, map) ==
  LET ds == h.dataSectors
      L == Listing(d, s)
  IN  /\ s \in Usable /\ s = DirOf(d)[n] /\ WellFormed(d, s) /\ UsesOf(d, s) \subseteq MapOf(d)
      /\ ds \in Seq(Slot) /\ Len(ds) \in Nat /\ ToSet(ds) = {ds[i] : i \in 1 .. Len(ds)}
      /\ ToSet(ds) \subseteq Slot
      /\ IsInjective(ds) /\ s \notin ToSet(ds) /\ h.flag # s
      /\ h.flag # -1 => h.flag \in Usable /\ h.flag \notin ToSet(ds)
      /\ ToSet(L) \subseteq ToSet(ds)
      /\ \A t \in ToSet(ds) : t \in ToSet(L) \/ t = -1 \/ t \in Sector \ MapOf(d)
      /\ \/ h.flag = -1
         \/ h.flag \in Sector \ MapOf(d)
         \/ h.flag = d[s].flag /\ Len(ds) = Len(L) /\ \A i \in 1 .. Len(L) : ds[i] = L[i]
      /\ d[s].flag # -1 => d[s].flag \in UsesOf(d, s) /\ d[s].flag \notin ToSet(ds)
      /\ h.flag = -1 => Len(ds) <= NumHdr
      /\ map = MapOf(d) \cup ((ToSet(ds) \cup {h.flag}) \ {-1})
      /\ MapC([map |-> map])
      /\ Len(ds) * SectorSize >= h.numBytes

\* A longer header, as sets.
LEMMA LongerIsLarger ==
  ASSUME NEW d, Disk(d), Whole(d, {}), NEW n \in DOMAIN DirOf(d), NEW s, s = DirOf(d)[n],
         NEW h \in MemHeader, NEW more \in Nat, NEW map, NEW first \in Nat, NEW c \in Nat,
         Longer(d, s, h, more, map, first, c)
  PROVE  Larger(d, n, s, h, map)
<1>1. PICK ds, L, old, new : /\ ds = h.dataSectors /\ L = Listing(d, s) /\ old = Len(L)
                        /\ new = {ds[i] : i \in old + 1 .. old + more}
  OBVIOUS
<1>2. /\ Len(ds) = old + more /\ \A i \in 1 .. old : ds[i] = L[i]
      /\ \A i \in old + 1 .. old + more : ds[i] = -1 \/ ds[i] \in Sector \ MapOf(d)
      /\ \A i \in old + 1 .. old + more - 1 : ds[i] # -1
      /\ \A i, j \in old + 1 .. old + more : ds[i] = ds[j] /\ ds[i] # -1 => i = j
      /\ more = 0 => h.flag = d[s].flag
      /\ more > 0 => h.flag = -1 \/ h.flag \in Sector \ MapOf(d)
      /\ more > 0 /\ h.flag # -1 => \A i \in old + 1 .. old + more : ds[i] # h.flag
      /\ h.flag = -1 => Len(ds) <= NumHdr
      /\ map = MapOf(d) \cup ((new \cup {h.flag}) \ {-1})
      /\ Len(ds) * SectorSize >= h.numBytes
  <2>1. /\ Len(ds) = old + more /\ \A i \in 1 .. old : ds[i] = L[i]
        /\ \A i \in old + 1 .. old + more : ds[i] = -1 \/ ds[i] \in Sector \ MapOf(d)
        /\ \A i \in old + 1 .. old + more - 1 : ds[i] # -1
    BY <1>1 DEF Longer
  <2>2. \A i, j \in old + 1 .. old + more : ds[i] = ds[j] /\ ds[i] # -1 => i = j
    <3>1. \A i, j \in Len(Listing(d, s)) + 1 .. Len(Listing(d, s)) + more :
            h.dataSectors[i] = h.dataSectors[j] /\ h.dataSectors[i] # -1 => i = j
      BY Zenon DEF Longer
    <3>2. ds = h.dataSectors /\ old = Len(Listing(d, s))
      BY <1>1
    <3>3. old + 1 = Len(Listing(d, s)) + 1 /\ old + more = Len(Listing(d, s)) + more
      BY <3>2, Zenon
    <3> SUFFICES ASSUME NEW i \in old + 1 .. old + more, NEW j \in old + 1 .. old + more,
                        ds[i] = ds[j], ds[i] # -1
                 PROVE  i = j
      OBVIOUS
    <3>4. /\ i \in Len(Listing(d, s)) + 1 .. Len(Listing(d, s)) + more
          /\ j \in Len(Listing(d, s)) + 1 .. Len(Listing(d, s)) + more
      BY <3>3, Zenon
    <3>5. h.dataSectors[i] = h.dataSectors[j] /\ h.dataSectors[i] # -1
      BY <3>2, Zenon
    <3> QED
      BY <3>1, <3>4, <3>5, Zenon
  <2>3. /\ more = 0 => h.flag = d[s].flag
        /\ more > 0 => h.flag = -1 \/ h.flag \in Sector \ MapOf(d)
        /\ h.flag = -1 => Len(ds) <= NumHdr
        /\ map = MapOf(d) \cup ((new \cup {h.flag}) \ {-1})
        /\ Len(ds) * SectorSize >= h.numBytes
    BY <1>1 DEF Longer
  <2>4. more > 0 /\ h.flag # -1 => \A i \in old + 1 .. old + more : ds[i] # h.flag
    BY <1>1 DEF Longer
  <2> QED
    BY <2>1, <2>2, <2>3, <2>4
<1>3. s \in Usable /\ WellFormed(d, s) /\ Hdr(d[s]) /\ UsesOf(d, s) \subseteq MapOf(d)
  BY DiskFacts DEF Whole, WellFormed
<1>4. /\ L \in Seq(Slot) /\ Len(L) \in Nat /\ DOMAIN L = 1 .. Len(L) /\ ToSet(L) = {L[i] : i \in 1 .. Len(L)}
  <2>1. L \in Seq(Slot)
    BY <1>1, <1>3, HeaderFacts
  <2> QED
    BY <2>1, SeqFacts
<1>5. /\ ds \in Seq(Slot) /\ Len(ds) \in Nat /\ DOMAIN ds = 1 .. Len(ds)
      /\ ToSet(ds) = {ds[i] : i \in 1 .. Len(ds)} /\ h.flag \in Slot
  <2>1. ds \in Seq(Slot) /\ h.flag \in Slot
    BY <1>1 DEF MemHeader
  <2> QED
    BY <2>1, SeqFacts
<1>6. /\ ToSet(L) \subseteq Usable /\ s \notin ToSet(L) /\ d[s].flag \notin ToSet(L) /\ IsInjective(L)
      /\ ToSet(L) \subseteq UsesOf(d, s) /\ s \in UsesOf(d, s)
      /\ d[s].flag # -1 => d[s].flag \in Usable /\ d[s].flag \in UsesOf(d, s)
      /\ d[s].flag # s
  <2>1. s # -1
    BY <1>3, SlotFacts
  <2> QED
    BY <1>1, <1>3, <2>1, FileFacts DEF WellFormed
<1>7. /\ Reserved \subseteq MapOf(d) /\ MapOf(d) \subseteq Sector /\ -1 \notin Sector
  BY DiskFacts, DiskConstants
<1>8. old \in Nat
  BY <1>1, <1>4
<1>9. \A i \in 1 .. Len(ds) : \/ i \in 1 .. old /\ ds[i] = L[i] /\ ds[i] \in ToSet(L)
                              \/ i \in old + 1 .. old + more /\ ds[i] \in new
  <2> SUFFICES ASSUME NEW i \in 1 .. Len(ds)
               PROVE  \/ i \in 1 .. old /\ ds[i] = L[i] /\ ds[i] \in ToSet(L)
                      \/ i \in old + 1 .. old + more /\ ds[i] \in new
    OBVIOUS
  <2>1. i \in 1 .. old \/ i \in old + 1 .. old + more
    BY <1>2, <1>8
  <2>2. i \in 1 .. old => ds[i] = L[i] /\ L[i] \in ToSet(L)
    BY <1>1, <1>2, <1>4
  <2> QED
    BY <1>1, <2>1, <2>2
<1>10. \A t \in new : t = -1 \/ t \in Sector \ MapOf(d)
  BY <1>1, <1>2
<1>11. ToSet(L) \subseteq ToSet(ds) /\ new \subseteq ToSet(ds)
  <2>1. \A i \in 1 .. old : i \in 1 .. Len(ds) /\ L[i] = ds[i]
    BY <1>2, <1>8
  <2>2. \A i \in old + 1 .. old + more : i \in 1 .. Len(ds)
    BY <1>2, <1>8
  <2>3. ToSet(L) \subseteq ToSet(ds)
    BY <1>1, <1>4, <1>5, <2>1
  <2>4. new \subseteq ToSet(ds)
    BY <1>1, <1>5, <2>2
  <2> QED
    BY <2>3, <2>4
<1>12. \A t \in ToSet(ds) : t \in ToSet(L) \/ t \in new
  BY <1>5, <1>9
<1>13. \A t \in ToSet(L) : t \in MapOf(d) /\ t # -1
  BY <1>3, <1>6, <1>7
<1>14. IsInjective(ds)
  <2> SUFFICES ASSUME NEW i \in 1 .. Len(ds), NEW j \in 1 .. Len(ds), ds[i] = ds[j]
               PROVE  i = j
    BY <1>5 DEF IsInjective
  <2>1. CASE i \in 1 .. old /\ j \in 1 .. old
    <3>1. L[i] = L[j] /\ i \in DOMAIN L /\ j \in DOMAIN L
      BY <1>1, <1>2, <1>4, <2>1
    <3> QED
      BY <1>6, <3>1 DEF IsInjective
  <2>2. CASE i \in old + 1 .. old + more /\ j \in old + 1 .. old + more
    <3>1. CASE ds[i] # -1
      BY <1>2, <2>2, <3>1
    <3>2. CASE ds[i] = -1
      <4>1. ~(i \in old + 1 .. old + more - 1) /\ ~(j \in old + 1 .. old + more - 1)
        BY <1>2, <3>2
      <4> QED
        BY <1>8, <2>2, <4>1
    <3> QED
      BY <3>1, <3>2
  <2>3. ~(i \in 1 .. old /\ j \in old + 1 .. old + more)
    <3>1. ~(ds[i] \in ToSet(L) /\ ds[j] \in new)
      BY <1>10, <1>13
    <3> QED
      BY <1>1, <1>2, <1>4, <3>1
  <2>4. ~(j \in 1 .. old /\ i \in old + 1 .. old + more)
    <3>1. ~(ds[j] \in ToSet(L) /\ ds[i] \in new)
      BY <1>10, <1>13
    <3> QED
      BY <1>1, <1>2, <1>4, <3>1
  <2> QED
    BY <1>9, <2>1, <2>2, <2>3, <2>4
<1>15. s \notin ToSet(ds) /\ (d[s].flag # -1 => d[s].flag \notin ToSet(ds))
  <2>1. s \in MapOf(d) /\ s # -1 /\ (d[s].flag # -1 => d[s].flag \in MapOf(d))
    BY <1>3, <1>6, <1>7
  <2> QED
    BY <1>6, <1>10, <1>12, <2>1
<1>16. h.flag # -1 => h.flag \in Usable /\ h.flag \notin ToSet(ds)
  <2> SUFFICES ASSUME h.flag # -1 PROVE h.flag \in Usable /\ h.flag \notin ToSet(ds)
    OBVIOUS
  <2>1. h.flag \in Usable
    BY <1>5 DEF Slot
  <2>2. CASE more = 0
    BY <1>2, <1>15, <2>1, <2>2
  <2>3. CASE more > 0
    <3>1. h.flag \in Sector \ MapOf(d) /\ h.flag \notin new
      BY <1>1, <1>2, <2>3
    <3> QED
      BY <1>12, <1>13, <2>1, <3>1
  <2> QED
    BY <2>2, <2>3
<1>17. h.flag # s
  <2>1. CASE more = 0
    BY <1>2, <1>6, <2>1
  <2>2. CASE more > 0
    <3>1. s \in MapOf(d) /\ s # -1
      BY <1>3, <1>6, <1>7
    <3> QED
      BY <1>2, <2>2, <3>1
  <2> QED
    BY <2>1, <2>2
<1>18. \/ h.flag = -1
       \/ h.flag \in Sector \ MapOf(d)
       \/ h.flag = d[s].flag /\ Len(ds) = Len(L) /\ \A i \in 1 .. Len(L) : ds[i] = L[i]
  <2>1. more = 0 => Len(ds) = Len(L) /\ \A i \in 1 .. Len(L) : ds[i] = L[i]
    BY <1>1, <1>2, <1>8
  <2> QED
    BY <1>2, <2>1
<1>19. map = MapOf(d) \cup ((ToSet(ds) \cup {h.flag}) \ {-1})
  <2>1. \A t : t \in map <=> t \in MapOf(d) \cup ((ToSet(ds) \cup {h.flag}) \ {-1})
    <3>1. \A t : t \in ToSet(ds) => t \in MapOf(d) \/ t \in new
      BY <1>12, <1>13
    <3> QED
      BY <1>2, <1>11, <3>1
  <2> QED
    BY <2>1
<1>20. MapC([map |-> map])
  <2>1. \A t \in new : t = -1 \/ t \in Sector
    BY <1>10
  <2>2. h.flag = -1 \/ h.flag \in Sector
    BY <1>16, SlotFacts
  <2>3. Reserved \subseteq map /\ map \subseteq Sector
    BY <1>2, <1>7, <2>1, <2>2
  <2> QED
    BY <2>3 DEF MapC
<1>21. ToSet(ds) \subseteq Slot
  <2>1. \A t \in Sector \ MapOf(d) : t \in Usable
    BY <1>7 DEF Usable
  <2> QED
    BY <1>6, <1>10, <1>12, <2>1 DEF Slot
<1>22. \A t \in ToSet(ds) : t \in ToSet(L) \/ t = -1 \/ t \in Sector \ MapOf(d)
  BY <1>10, <1>12
<1>23. /\ s = DirOf(d)[n] /\ Len(ds) * SectorSize >= h.numBytes
       /\ h.flag = -1 => Len(ds) <= NumHdr
  BY <1>2
<1> QED
  BY <1>1, <1>3, <1>5, <1>6, <1>11, <1>14, <1>15, <1>16, <1>17, <1>18, <1>19, <1>20,
     <1>21, <1>22, <1>23 DEF Larger
\* What the disk is like after k of these writes.
ExtendingDone(d, n, s, h, map, first, c, k, E) ==
  LET ds == h.dataSectors IN
  /\ Disk(E) /\ DirOf(E) = DirOf(d)
  /\ MapOf(E) = (IF k = 0 THEN MapOf(d) ELSE map)
  /\ \A t \in Usable : t # s /\ t # h.flag => E[t] = d[t] \/ (t \in ToSet(ds) /\ E[t] = Written(n))
  /\ k <= c + 1 => E[s] = d[s]
  /\ k <= c + 2 /\ h.flag # -1 => E[h.flag] = d[h.flag]
  /\ k >= c + 2 => E[s] = HeaderOf(h)
  /\ k >= c + 2 => \A j \in 1 .. c : ds[first + j] \in Usable => E[ds[first + j]] = Written(n)
  /\ k > c + 2 /\ h.flag # -1 => E[h.flag] = IndexOf(h)

\* An append writes no sector twice.
LEMMA ExtendingDistinct ==
  ASSUME NEW d, NEW n, NEW s, NEW h \in MemHeader, NEW map, Larger(d, n, s, h, map),
         NEW first \in Nat, NEW c \in Nat, first + c <= Len(h.dataSectors),
         NEW w, Extending(w, n, s, h, map, first, c)
  PROVE  Distinct(w) /\ \A i \in 2 .. c + 1 : w[i].at \in ToSet(h.dataSectors)
<1>1. PICK ds : ds = h.dataSectors
  OBVIOUS
<1>2. /\ ds \in Seq(Slot) /\ Len(ds) \in Nat /\ ToSet(ds) = {ds[i] : i \in 1 .. Len(ds)}
      /\ IsInjective(ds) /\ s \notin ToSet(ds) /\ h.flag # s /\ s \in Usable
      /\ h.flag # -1 => h.flag \in Usable /\ h.flag \notin ToSet(ds)
      /\ ToSet(ds) \subseteq Slot
  BY <1>1 DEF Larger
<1>2a. DOMAIN ds = 1 .. Len(ds)
  BY <1>2, SeqFacts
<1>3. \A t \in Slot : t # MapData
  BY SlotFacts DEF MapData, Slot
<1>4. \A i \in 2 .. c + 1 : first + (i - 1) \in 1 .. Len(ds) /\ ds[first + (i - 1)] \in ToSet(ds)
  <2> SUFFICES ASSUME NEW i \in 2 .. c + 1
               PROVE  first + (i - 1) \in 1 .. Len(ds) /\ ds[first + (i - 1)] \in ToSet(ds)
    OBVIOUS
  <2>1. first + (i - 1) \in 1 .. Len(ds)
    BY <1>1, <1>2
  <2> QED
    BY <1>2, <2>1
<1>5. \A i \in 1 .. Len(w) :
        \/ i = 1 /\ w[i].at = MapData
        \/ i \in 2 .. c + 1 /\ w[i].at = ds[first + (i - 1)] /\ w[i].at \in ToSet(ds)
        \/ i = c + 2 /\ w[i].at = s
        \/ h.flag # -1 /\ i = c + 3 /\ w[i].at = h.flag
  <2> SUFFICES ASSUME NEW i \in 1 .. Len(w)
               PROVE  \/ i = 1 /\ w[i].at = MapData
                      \/ i \in 2 .. c + 1 /\ w[i].at = ds[first + (i - 1)] /\ w[i].at \in ToSet(ds)
                      \/ i = c + 2 /\ w[i].at = s
                      \/ h.flag # -1 /\ i = c + 3 /\ w[i].at = h.flag
    OBVIOUS
  <2>1. OneOf(w, n, s, h.dataSectors, h.flag, h, map, first, c, i)
    BY ExtendingAt
  <2>2. OneOf(w, n, s, ds, h.flag, h, map, first, c, i)
    BY <1>1, <2>1
  <2> QED
    BY <1>4, <2>2 DEF OneOf
<1>6. Distinct(w)
  <2> SUFFICES ASSUME NEW i \in 1 .. Len(w), NEW j \in 1 .. Len(w), w[i].at = w[j].at
               PROVE  i = j
    BY DEF Distinct
  <2>1. CASE i \in 2 .. c + 1 /\ j \in 2 .. c + 1
    <3>0. i # 1 /\ i # c + 2 /\ i # c + 3 /\ j # 1 /\ j # c + 2 /\ j # c + 3
      BY <2>1
    <3>1. w[i].at = ds[first + (i - 1)] /\ w[j].at = ds[first + (j - 1)]
      BY <1>5, <3>0, Zenon
    <3>2. first + (i - 1) = first + (j - 1)
      <4>1. \A a, b \in DOMAIN ds : ds[a] = ds[b] => a = b
        BY <1>2 DEF IsInjective
      <4>2. first + (i - 1) \in DOMAIN ds /\ first + (j - 1) \in DOMAIN ds
        BY <1>2a, <1>4, <2>1
      <4> QED
        BY <3>1, <4>1, <4>2
    <3> QED
      BY <2>1, <3>2
  <2>2. CASE ~(i \in 2 .. c + 1) /\ ~(j \in 2 .. c + 1)
    <3>1. s \in Slot /\ (h.flag # -1 => h.flag \in Slot)
      BY <1>2 DEF Slot
    <3> QED
      BY <1>2, <1>3, <1>5, <2>2, <3>1
  <2>3. \A a \in ToSet(ds) : a # MapData /\ a # s /\ (h.flag # -1 => a # h.flag)
    BY <1>2, <1>3
  <2> QED
    BY <1>5, <2>1, <2>2, <2>3
<1>7. ASSUME NEW i \in 2 .. c + 1 PROVE w[i].at \in ToSet(ds)
  <2>1. w[i] = Write(h.dataSectors[first + (i - 1)], Written(n))
    BY DEF Extending
  <2>1a. PICK q : q = h.dataSectors[first + (i - 1)]
    OBVIOUS
  <2>1b. w[i] = Write(q, Written(n))
    BY <2>1, <2>1a
  <2>2. w[i].at = h.dataSectors[first + (i - 1)]
    BY <2>1a, <2>1b, WriteParts
  <2> QED
    BY <1>1, <1>4, <2>2
<1> QED
  BY <1>1, <1>6, <1>7

\* The disk after some of the writes.
LEMMA ExtendingAfter ==
  \A d, n, s, h, map, first, c, w, k :
    /\ Disk(d) /\ h \in MemHeader /\ Larger(d, n, s, h, map)
    /\ first \in Nat /\ c \in Nat \ {0} /\ first + c <= Len(h.dataSectors)
    /\ Extending(w, n, s, h, map, first, c)
    /\ k \in 0 .. Len(w)
    => ExtendingDone(d, n, s, h, map, first, c, k, After(d, w, k))
<1> SUFFICES ASSUME NEW d, Disk(d), NEW n, NEW s, NEW h \in MemHeader, NEW map,
                    Larger(d, n, s, h, map), NEW first \in Nat, NEW c \in Nat \ {0},
                    first + c <= Len(h.dataSectors),
                    NEW w, Extending(w, n, s, h, map, first, c), NEW k \in 0 .. Len(w)
             PROVE  ExtendingDone(d, n, s, h, map, first, c, k, After(d, w, k))
  OBVIOUS
<1>0. PICK E, ds, f : E = After(d, w, k) /\ ds = h.dataSectors /\ f = h.flag
  OBVIOUS
<1>1. /\ ds \in Seq(Slot) /\ Len(ds) \in Nat /\ ToSet(ds) = {ds[i] : i \in 1 .. Len(ds)}
      /\ s \notin ToSet(ds) /\ f # s /\ s \in Usable
      /\ f # -1 => f \in Usable /\ f \notin ToSet(ds)
      /\ ToSet(ds) \subseteq Slot /\ MapC([map |-> map])
  <2>1. /\ ds \in Seq(Slot) /\ Len(ds) \in Nat /\ ToSet(ds) = {ds[i] : i \in 1 .. Len(ds)}
        /\ s \notin ToSet(ds) /\ ToSet(ds) \subseteq Slot
    BY <1>0 DEF Larger
  <2>2. f # s /\ s \in Usable /\ (f # -1 => f \in Usable /\ f \notin ToSet(ds)) /\ MapC([map |-> map])
    BY <1>0 DEF Larger
  <2> QED
    BY <2>1, <2>2
<1>2. Fitting(w)
  BY <1>1, ExtendingFits
<1>3. Distinct(w) /\ IsSeq(w) /\ \A i \in 2 .. c + 1 : w[i].at \in ToSet(ds)
  <2>1. Distinct(w) /\ \A i \in 2 .. c + 1 : w[i].at \in ToSet(ds)
    BY <1>0, ExtendingDistinct
  <2> QED
    BY <2>1 DEF Extending
<1>4. \A t \in Slot : t # MapData /\ t # DirData /\ t # DirectorySector
  BY SlotFacts DEF MapData, DirData, DirectorySector, Slot
<1>4a. /\ MapData # DirData /\ MapData \in Sector /\ DirData \in Sector
       /\ \A t \in Usable : t \in Sector /\ t \in Slot /\ t # -1
       /\ \A t \in Slot : t \in Sector <=> t # -1
  BY SlotFacts, DiskConstants DEF MapData, DirData, Reserved, Slot
<1>5. Disk(E)
  BY <1>0, <1>2, AfterFits
<1>6. \A i \in 1 .. Len(w) :
        \/ i = 1 /\ w[i].at = MapData /\ w[i].put = [map |-> map]
        \/ /\ i \in 2 .. c + 1 /\ w[i].at = ds[first + (i - 1)] /\ w[i].at \in ToSet(ds)
           /\ w[i].put = Written(n)
        \/ i = c + 2 /\ w[i].at = s /\ w[i].put = HeaderOf(h)
        \/ f # -1 /\ i = c + 3 /\ w[i].at = f /\ w[i].put = IndexOf(h)
  <2> SUFFICES ASSUME NEW i \in 1 .. Len(w)
               PROVE  \/ i = 1 /\ w[i].at = MapData /\ w[i].put = [map |-> map]
                      \/ /\ i \in 2 .. c + 1 /\ w[i].at = ds[first + (i - 1)] /\ w[i].at \in ToSet(ds)
                         /\ w[i].put = Written(n)
                      \/ i = c + 2 /\ w[i].at = s /\ w[i].put = HeaderOf(h)
                      \/ f # -1 /\ i = c + 3 /\ w[i].at = f /\ w[i].put = IndexOf(h)
    OBVIOUS
  <2>1. OneOf(w, n, s, h.dataSectors, h.flag, h, map, first, c, i)
    BY ExtendingAt
  <2>2. OneOf(w, n, s, ds, f, h, map, first, c, i)
    BY <1>0, <2>1
  <2> QED
    BY <1>3, <2>2 DEF OneOf
<1>7. Len(w) \in Nat /\ Len(w) >= c + 2 /\ (f # -1 => Len(w) = c + 3) /\ (f = -1 => Len(w) = c + 2)
  BY <1>0 DEF Extending
<1>7a. \A i \in 1 .. k : i \in 1 .. Len(w)
  BY <1>7
<1>8. \A i \in 1 .. k : w[i].at \in Sector => E[w[i].at] = w[i].put
  BY <1>0, <1>3, AfterPut
<1>9. \A t \in Sector : (\A i \in 1 .. k : w[i].at # t) => E[t] = d[t]
  BY <1>0, AfterKept
<1>10. DirOf(E) = DirOf(d)
  <2>1. \A i \in 1 .. k : w[i].at # DirData
    <3>1. \A t \in ToSet(ds) : t # DirData
      BY <1>1, <1>4
    <3>2. s # DirData /\ (f # -1 => f # DirData) /\ MapData # DirData
      BY <1>1, <1>4, <1>4a
    <3> QED
      BY <1>6, <1>7a, <3>1, <3>2
  <2> QED
    BY <1>4a, <1>9, <2>1 DEF DirOf
<1>11. MapOf(E) = (IF k = 0 THEN MapOf(d) ELSE map)
  <2>1. CASE k = 0
    <3>1. E[MapData] = d[MapData]
      BY <1>4a, <1>9, <2>1
    <3> QED
      BY <2>1, <3>1 DEF MapOf
  <2>2. CASE k # 0
    <3>1. 1 \in 1 .. k
      BY <1>7, <2>2
    <3>2. w[1].at = MapData /\ w[1].put = [map |-> map]
      BY DEF Extending, MapWrite, Write
    <3>3. E[MapData] = [map |-> map]
      BY <1>4a, <1>8, <3>1, <3>2
    <3> QED
      BY <2>2, <3>3 DEF MapOf
  <2> QED
    BY <2>1, <2>2
<1>12. \A t \in Usable : t # s /\ t # f => E[t] = d[t] \/ (t \in ToSet(ds) /\ E[t] = Written(n))
  <2> SUFFICES ASSUME NEW t \in Usable, t # s, t # f
               PROVE  E[t] = d[t] \/ (t \in ToSet(ds) /\ E[t] = Written(n))
    OBVIOUS
  <2>1. CASE \A i \in 1 .. k : w[i].at # t
    BY <1>4a, <1>9, <2>1
  <2>2. CASE \E i \in 1 .. k : w[i].at = t
    <3>1. PICK i \in 1 .. k : w[i].at = t
      BY <2>2
    <3>2. t # MapData /\ t \in Sector
      BY <1>4, <1>4a
    <3>3. w[i].at \in ToSet(ds) /\ w[i].put = Written(n)
      BY <1>6, <1>7a, <3>1, <3>2
    <3> QED
      BY <1>8, <3>1, <3>2, <3>3
  <2> QED
    BY <2>1, <2>2
<1>13. k <= c + 1 => E[s] = d[s]
  <2> SUFFICES ASSUME k <= c + 1 PROVE E[s] = d[s]
    OBVIOUS
  <2>1. \A i \in 1 .. k : i # c + 2 /\ i # c + 3
    BY <1>7
  <2>2. s # MapData /\ s \in Sector
    BY <1>1, <1>4, <1>4a
  <2>3. \A i \in 1 .. k : w[i].at # s
    BY <1>1, <1>6, <1>7a, <2>1, <2>2
  <2> QED
    BY <1>9, <2>2, <2>3
<1>14. k <= c + 2 /\ f # -1 => E[f] = d[f]
  <2> SUFFICES ASSUME k <= c + 2, f # -1 PROVE E[f] = d[f]
    OBVIOUS
  <2>1. \A i \in 1 .. k : i # c + 3
    BY <1>7
  <2>2. f # MapData /\ f \in Sector
    BY <1>1, <1>4, <1>4a
  <2>3. \A i \in 1 .. k : w[i].at # f
    BY <1>1, <1>6, <1>7a, <2>1, <2>2
  <2> QED
    BY <1>9, <2>2, <2>3
<1>15. k >= c + 2 => E[s] = HeaderOf(h)
  <2> SUFFICES ASSUME k >= c + 2 PROVE E[s] = HeaderOf(h)
    OBVIOUS
  <2>1. c + 2 \in 1 .. k
    BY <1>7
  <2>2. w[c + 2].at = s /\ w[c + 2].put = HeaderOf(h)
    BY DEF Extending, Write
  <2> QED
    BY <1>1, <1>4a, <1>8, <2>1, <2>2
<1>16. ASSUME k >= c + 2, NEW j \in 1 .. c, ds[first + j] \in Usable
       PROVE  E[ds[first + j]] = Written(n)
  <2>1. PICK i : i = j + 1 /\ i \in 2 .. c + 1 /\ i \in 1 .. k /\ j = i - 1
    BY <1>7, <1>16
  <2>2. w[i].at = ds[first + (i - 1)] /\ w[i].put = Written(n)
    <3>1. w[i] = Write(ds[first + (i - 1)], Written(n))
      BY <1>0, <2>1 DEF Extending
    <3> QED
      BY <3>1 DEF Write
  <2>3. w[i].at = ds[first + j] /\ w[i].at \in Sector
    BY <1>4a, <1>16, <2>1, <2>2
  <2> QED
    BY <1>8, <2>1, <2>2, <2>3
<1>17. k > c + 2 /\ f # -1 => E[f] = IndexOf(h)
  <2> SUFFICES ASSUME k > c + 2, f # -1 PROVE E[f] = IndexOf(h)
    OBVIOUS
  <2>1. c + 3 \in 1 .. k
    BY <1>7
  <2>2. w[c + 3].at = f /\ w[c + 3].put = IndexOf(h)
    BY <1>0 DEF Extending, Write
  <2> QED
    BY <1>1, <1>4a, <1>8, <2>1, <2>2
<1> QED
  BY <1>0, <1>5, <1>10, <1>11, <1>12, <1>13, <1>14, <1>15, <1>16, <1>17 DEF ExtendingDone
\* A header that lists what it listed before, with the index block it had.
LEMMA ListedAgain ==
  ASSUME NEW d, Disk(d), NEW E, Disk(E), NEW s \in Usable, WellFormed(d, s),
         NEW h \in MemHeader, E[s] = HeaderOf(h), h.flag = d[s].flag, h.flag # -1,
         E[h.flag] = d[h.flag], Len(h.dataSectors) = Len(Listing(d, s)),
         \A i \in 1 .. Len(Listing(d, s)) : h.dataSectors[i] = Listing(d, s)[i]
  PROVE  Listing(E, s) = Listing(d, s)
<1>1. PICK ds, L, a, b, x : /\ ds = h.dataSectors /\ L = Listing(d, s) /\ a = E[s].direct
                         /\ b = d[s].direct /\ x = d[h.flag].index
  OBVIOUS
<1>2. /\ Hdr(d[s]) /\ Len(b) = Min2(Len(L), NumHdr) /\ Idx(d[h.flag])
  BY <1>1 DEF WellFormed
<1>3. Hdr(E[s]) /\ E[s].flag = h.flag /\ Len(a) = Min2(Len(ds), NumHdr)
  BY <1>1, ReadBack
<1>4. L = b \o x /\ b \in Seq(Slot) /\ x \in Seq(Slot) /\ L \in Seq(Slot)
  <2>1. Hdr(d[s]) /\ d[s].flag # -1 /\ Idx(d[d[s].flag]) /\ h.flag = d[s].flag
    BY <1>2
  <2>2. d[s].direct \in Seq(Slot) /\ Listing(d, s) \in Seq(Slot)
    BY <2>1, HeaderFacts
  <2>3. d[d[s].flag].index \in Seq(Slot) /\ Listing(d, s) = d[s].direct \o d[d[s].flag].index
    BY <2>1, HeaderFacts
  <2> QED
    BY <1>1, <2>1, <2>2, <2>3, Zenon
<1>5. Listing(E, s) = a \o x /\ a \in Seq(Slot)
  <2>1. E[s].flag # -1 /\ E[E[s].flag] = d[h.flag]
    BY <1>3
  <2>2. Idx(E[E[s].flag]) /\ E[E[s].flag].index = x
    BY <1>1, <1>2, <2>1
  <2> QED
    BY <1>1, <1>3, <2>1, <2>2, HeaderFacts
<1>6. Len(a) = Len(b) /\ Len(b) \in Nat /\ Len(L) \in Nat /\ Len(L) = Len(b) + Len(x) /\ Len(x) \in Nat
  <2>1. Len(b) \in Nat /\ Len(x) \in Nat /\ Len(L) \in Nat
    BY <1>4, LenProperties
  <2>2. Len(L) = Len(b) + Len(x)
    BY <1>4, ConcatProperties
  <2>3. Len(ds) = Len(L)
    BY <1>1
  <2>4. Len(a) = Len(b)
    BY <1>2, <1>3, <2>3
  <2> QED
    BY <2>1, <2>2, <2>4
<1>7. ASSUME NEW i \in 1 .. Len(a) PROVE a[i] = b[i]
  <2>1. a[i] = ds[i]
    <3>0. HeaderOf(h).direct = SubSeq(h.dataSectors, 1, Min2(Len(h.dataSectors), NumHdr))
      BY DEF HeaderOf
    <3>1. a = SubSeq(ds, 1, Min2(Len(ds), NumHdr))
      BY <1>1, <3>0
    <3> QED
      BY <1>1, <1>3, <3>1, HeaderParts
  <2>2. i \in 1 .. Len(b) /\ i \in 1 .. Len(L)
    BY <1>6
  <2>3. L[i] = b[i]
    BY <1>4, <2>2, ConcatProperties
  <2> QED
    BY <1>1, <2>1, <2>2, <2>3
<1>8. a = b
  BY <1>4, <1>5, <1>6, <1>7, SeqEqual
<1> QED
  BY <1>1, <1>4, <1>5, <1>8

\* An append is safe at every write, and leaves the disk whole.
LEMMA ExtendGood ==
  ASSUME NEW d, Disk(d), Whole(d, {}), NEW n \in DOMAIN DirOf(d), NEW s, s = DirOf(d)[n],
         NEW h \in MemHeader, NEW more \in Nat, NEW map, NEW first \in Nat, NEW c \in Nat \ {0},
         Longer(d, s, h, more, map, first, c), h.numBytes > d[s].numBytes \div 2,
         NEW w, Extending(w, n, s, h, map, first, c)
  PROVE  /\ Good(d, w, {}) /\ Fitting(w)
         /\ \A a, b : Tidy(d, a) /\ GivesUp(a, b, d[s].flag, h.flag) => Neat(d, w, b)
<1>1. PICK ds, L, f : ds = h.dataSectors /\ L = Listing(d, s) /\ f = h.flag
  OBVIOUS
<1>2. Larger(d, n, s, h, map) /\ first + c <= Len(ds)
  <2>1. Larger(d, n, s, h, map)
    BY LongerIsLarger
  <2> QED
    BY <1>1, <2>1 DEF Longer
<1>3. /\ s \in Usable /\ WellFormed(d, s) /\ UsesOf(d, s) \subseteq MapOf(d) /\ Hdr(d[s])
      /\ Len(ds) \in Nat /\ ToSet(ds) = {ds[i] : i \in 1 .. Len(ds)} /\ ToSet(ds) \subseteq Slot
      /\ IsInjective(ds) /\ s \notin ToSet(ds) /\ f # s
      /\ f # -1 => f \in Usable /\ f \notin ToSet(ds)
      /\ ToSet(L) \subseteq ToSet(ds)
      /\ \A t \in ToSet(ds) : t \in ToSet(L) \/ t = -1 \/ t \in Sector \ MapOf(d)
      /\ d[s].flag # -1 => d[s].flag \in UsesOf(d, s) /\ d[s].flag \notin ToSet(ds)
      /\ f = -1 => Len(ds) <= NumHdr
      /\ map = MapOf(d) \cup ((ToSet(ds) \cup {f}) \ {-1}) /\ MapC([map |-> map])
      /\ Len(ds) * SectorSize >= h.numBytes
  BY <1>1, <1>2 DEF Larger, WellFormed
<1>4. \/ f = -1
      \/ f \in Sector \ MapOf(d)
      \/ f = d[s].flag /\ Len(ds) = Len(L) /\ \A i \in 1 .. Len(L) : ds[i] = L[i]
  BY <1>1, <1>2 DEF Larger
<1>5. /\ ToSet(L) \subseteq UsesOf(d, s) /\ UsesOf(d, s) \subseteq Usable /\ s \in UsesOf(d, s)
      /\ d[s].numBytes \in Nat /\ h.numBytes \in Nat
  BY <1>1, <1>3, FileFacts, HeaderFacts DEF MemHeader
<1>6. Fitting(w) /\ Distinct(w) /\ \A i \in 2 .. c + 1 : w[i].at \in ToSet(ds)
  BY <1>1, <1>2, <1>3, ExtendingFits, ExtendingDistinct
<1>7. \A k \in 0 .. Len(w) : ExtendingDone(d, n, s, h, map, first, c, k, After(d, w, k))
  BY <1>1, <1>2, ExtendingAfter
<1>8. /\ Len(w) \in Nat /\ Len(w) >= c + 2 /\ (f # -1 => Len(w) = c + 3) /\ (f = -1 => Len(w) = c + 2)
      /\ w[1].at = MapData /\ w[c + 2].at = s /\ (f # -1 => w[c + 3].at = f)
  BY <1>1 DEF Extending, MapWrite, Write
<1>9. \A i \in 1 .. c : w[i + 1].at = ds[first + i]
  <2> SUFFICES ASSUME NEW i \in 1 .. c PROVE w[i + 1].at = ds[first + i]
    OBVIOUS
  <2>1. PICK j \in 2 .. c + 1 : j = i + 1 /\ i = j - 1
    OBVIOUS
  <2>2. w[j] = Write(ds[first + (j - 1)], Written(n))
    BY <1>1 DEF Extending
  <2> QED
    BY <2>1, <2>2 DEF Write
<1>10. \A t \in Usable : t \in Sector /\ t # -1 /\ t # MapData /\ t # DirData
  BY SlotFacts DEF MapData, DirData
<1>11. MapOf(d) \subseteq Sector /\ -1 \notin MapOf(d) /\ \A m \in DOMAIN DirOf(d) : DirOf(d)[m] \in Usable
  BY DiskFacts, DiskConstants
<1>12. \A t \in ToSet(L) : d[t] = Written(n)
  BY <1>1 DEF Whole, Filled
\* The other files are untouched, and have nothing in common with this one.
<1>13. ASSUME NEW m \in DOMAIN DirOf(d), m # n, NEW t \in UsesOf(d, DirOf(d)[m])
       PROVE  t \in Usable /\ t \in MapOf(d) /\ t # s /\ t \notin ToSet(ds) /\ t # f
  <2>1. t \notin UsesOf(d, s)
    BY <1>13 DEF Whole, Apart
  <2>2. t \in Usable /\ t \in MapOf(d)
    BY <1>11, <1>13, FileFacts DEF Whole
  <2> QED
    BY <1>3, <1>4, <1>5, <1>10, <2>1, <2>2
<1>14. ASSUME NEW k, NEW E, ExtendingDone(d, n, s, h, map, first, c, k, E)
       PROVE  /\ Disk(E) /\ DirOf(E) = DirOf(d) /\ Unchanged(d, E, {n})
              /\ \A m \in DOMAIN DirOf(d) : m # n => UsesOf(E, DirOf(E)[m]) = UsesOf(d, DirOf(d)[m])
              /\ \A t \in Usable : t # s /\ t # f => E[t] = d[t] \/ (t \in ToSet(ds) /\ E[t] = Written(n))
  <2>1. /\ Disk(E) /\ DirOf(E) = DirOf(d)
        /\ \A t \in Usable : t # s /\ t # f => E[t] = d[t] \/ (t \in ToSet(ds) /\ E[t] = Written(n))
    BY <1>1, <1>14 DEF ExtendingDone
  <2>2. Unchanged(d, E, {n})
    <3> SUFFICES ASSUME NEW m \in DOMAIN DirOf(d), m # n, NEW t \in UsesOf(d, DirOf(d)[m])
                 PROVE  E[t] = d[t]
      BY <2>1 DEF Unchanged
    <3> QED
      BY <1>13, <2>1
  <2>3. \A m \in DOMAIN DirOf(d) : m # n => UsesOf(E, DirOf(E)[m]) = UsesOf(d, DirOf(d)[m])
    <3> SUFFICES ASSUME NEW m \in DOMAIN DirOf(d), m # n
                 PROVE  UsesOf(E, DirOf(E)[m]) = UsesOf(d, DirOf(d)[m])
      OBVIOUS
    <3>1. m \in DOMAIN DirOf(E) \ {n}
      BY <2>1
    <3> QED
      BY <2>1, <2>2, <3>1, OthersFacts
  <2> QED
    BY <2>1, <2>2, <2>3
\* Until the header is written the disk is whole.
<1>15. ASSUME NEW k \in 0 .. c + 1, NEW E, ExtendingDone(d, n, s, h, map, first, c, k, E)
       PROVE  Whole(E, {}) /\ LenOf(E) = LenOf(d)
  <2>1. /\ Disk(E) /\ DirOf(E) = DirOf(d)
        /\ \A t \in Usable : t # s /\ t # f => E[t] = d[t] \/ (t \in ToSet(ds) /\ E[t] = Written(n))
    BY <1>14, <1>15
  <2>2. E[s] = d[s] /\ (f # -1 => E[f] = d[f]) /\ MapOf(E) = (IF k = 0 THEN MapOf(d) ELSE map)
    <3>1. k <= c + 1 /\ k <= c + 2
      OBVIOUS
    <3> QED
      BY <1>1, <1>15, <3>1 DEF ExtendingDone
  <2>3. MapOf(d) \subseteq MapOf(E)
    BY <1>3, <2>2
  <2>4. ASSUME NEW t \in MapOf(d), t \in Usable PROVE E[t] = d[t]
    <3>1. CASE t = s \/ t = f
      BY <1>10, <2>2, <2>4, <3>1
    <3>2. CASE t # s /\ t # f /\ t \in ToSet(ds) /\ E[t] = Written(n)
      <4>1. t \in ToSet(L)
        BY <1>3, <1>11, <2>4, <3>2
      <4> QED
        BY <1>12, <3>2, <4>1
    <3> QED
      BY <2>1, <2>4, <3>1, <3>2
  <2>5. ASSUME NEW m \in DOMAIN DirOf(d), NEW t \in UsesOf(d, DirOf(d)[m])
        PROVE  E[t] = d[t]
    <3>1. t \in MapOf(d) /\ t \in Usable
      BY <1>11, FileFacts DEF Whole
    <3> QED
      BY <2>4, <3>1
  <2>6. Unchanged(d, E, {})
    BY <2>1, <2>5 DEF Unchanged
  <2>7. IndexesMarked(E)
    <3> SUFFICES ASSUME NEW t \in Sector \ MapOf(E) PROVE ~Idx(E[t])
      BY DEF IndexesMarked
    <3>1. t \notin MapOf(d) /\ ~Idx(d[t])
      BY <2>3 DEF Whole
    <3>2. t \in Usable
      BY <2>1, DiskFacts DEF Usable
    <3>3. ~Idx(Written(n))
      BY DEF Idx, Written
    <3>4. E[t] = d[t] \/ E[t] = Written(n)
      <4>1. t # -1 /\ t # s
        BY <1>3, <1>5, <1>10, <3>1, <3>2
      <4> QED
        BY <2>1, <2>2, <3>2, <4>1
    <3> QED
      BY <3>1, <3>3, <3>4
  <2>8. \A m \in DOMAIN DirOf(E) : UsesOf(d, DirOf(d)[m]) \subseteq MapOf(E)
    BY <2>1, <2>3 DEF Whole
  <2>9. Whole(E, {})
    BY <2>1, <2>6, <2>7, <2>8, WholeFrom
  <2>10. \A m \in DOMAIN DirOf(d) : E[DirOf(d)[m]].numBytes = d[DirOf(d)[m]].numBytes
    <3> SUFFICES ASSUME NEW m \in DOMAIN DirOf(d) PROVE E[DirOf(d)[m]] = d[DirOf(d)[m]]
      OBVIOUS
    <3>1. DirOf(d)[m] \in UsesOf(d, DirOf(d)[m])
      BY <1>11, FileFacts DEF Whole
    <3> QED
      BY <2>5, <3>1
  <2>11. LenOf(E) = LenOf(d)
    BY <2>1, <2>10, SameLengths
  <2> QED
    BY <2>9, <2>11
\* When it is, all new sectors are.
<1>16. ASSUME NEW k \in c + 2 .. Len(w), Reached(w, k)
       PROVE  ToSet(ds) \subseteq Usable
  <2> SUFFICES ASSUME NEW i \in 1 .. Len(ds), ds[i] = -1
               PROVE  FALSE
    BY <1>3 DEF Slot
  <2>1. ds[i] \notin ToSet(L)
    BY <1>5, <1>10
  <2>2. i \in first + 1 .. first + c
    <3>1. /\ Len(ds) = Len(L) + more /\ \A j \in 1 .. Len(L) : ds[j] = L[j]
          /\ first <= Len(L) /\ (more > 0 => first + c = Len(L) + more)
      BY <1>1 DEF Longer
    <3>2. L \in Seq(Slot)
      BY <1>1, <1>3, HeaderFacts
    <3>3. Len(L) \in Nat /\ \A j \in 1 .. Len(L) : L[j] \in ToSet(L)
      BY <3>2, SeqFacts
    <3>4. i > Len(L)
      BY <2>1, <3>1, <3>3
    <3> QED
      BY <3>1, <3>3, <3>4
  <2>3. PICK j \in 1 .. c : i = first + j
    <3>1. i - first \in 1 .. c /\ i = first + (i - first)
      BY <2>2
    <3> QED
      BY <3>1
  <2>4. j + 1 \in 1 .. k
    BY <1>8
  <2> QED
    BY <1>9, <1>16, <2>3, <2>4 DEF Reached
<1>17. ASSUME NEW k \in c + 2 .. Len(w), Reached(w, k), NEW E,
              ExtendingDone(d, n, s, h, map, first, c, k, E)
       PROVE  /\ MapOf(E) = map /\ E[s] = HeaderOf(h) /\ LenOf(E) = [LenOf(d) EXCEPT ![n] = h.numBytes]
              /\ Hdr(E[s]) /\ E[s].flag = f
              /\ \A m \in DOMAIN DirOf(d) : m # n => UsesOf(d, DirOf(d)[m]) \cap (({s} \cup ToSet(ds)) \cup {f}) = {}
  <2>1. k # 0 /\ k >= c + 2
    BY <1>8
  <2>2. Disk(E) /\ DirOf(E) = DirOf(d) /\ Unchanged(d, E, {n})
    BY <1>14, <1>17
  <2>3. MapOf(E) = map /\ E[s] = HeaderOf(h)
    BY <1>17, <2>1 DEF ExtendingDone
  <2>4. Hdr(E[s]) /\ E[s].flag = f /\ E[s].numBytes = h.numBytes
    BY <1>1, <1>3, <2>2, <2>3, ReadBack
  <2>5. LenOf(E) = [LenOf(d) EXCEPT ![n] = h.numBytes]
    <3>1. \A m \in DOMAIN DirOf(d) \ {n} : E[DirOf(E)[m]].numBytes = d[DirOf(d)[m]].numBytes
      <4> SUFFICES ASSUME NEW m \in DOMAIN DirOf(d) \ {n} PROVE E[DirOf(d)[m]] = d[DirOf(d)[m]]
        BY <2>2, Zenon
      <4>1. DirOf(d)[m] \in UsesOf(d, DirOf(d)[m])
        BY <1>11, FileFacts DEF Whole
      <4> QED
        BY <2>2, <4>1 DEF Unchanged
    <3>2. n \in Name /\ n \in DOMAIN DirOf(E) /\ E[DirOf(E)[n]].numBytes = h.numBytes
      BY <2>2, <2>4, DiskFacts
    <3>3. DOMAIN DirOf(E) = DOMAIN DirOf(d) \cup {n}
      BY <2>2
    <3>4. PICK l : l = h.numBytes
      OBVIOUS
    <3>5. LenOf(E) = [LenOf(d) EXCEPT ![n] = l]
      <4>1. E[DirOf(E)[n]].numBytes = l
        BY <3>2, <3>4
      <4>2. Disk(E) /\ n \in Name /\ n \in DOMAIN DirOf(E)
        BY <2>2, <3>2
      <4> QED
        BY <3>1, <3>3, <4>1, <4>2, NewLength
    <3> QED
      BY <3>4, <3>5
  <2>6. ASSUME NEW m \in DOMAIN DirOf(d), m # n, NEW t \in UsesOf(d, DirOf(d)[m])
        PROVE  t \notin (({s} \cup ToSet(ds)) \cup {f})
    BY <1>13, <2>6
  <2> QED
    BY <2>3, <2>4, <2>5, <2>6
\* Between the header and its index block the disk is safe.
<1>18. ASSUME f # -1, NEW k \in {c + 2}, Reached(w, k), NEW E,
              ExtendingDone(d, n, s, h, map, first, c, k, E)
       PROVE  Safe(E, f)
  <2>0. k \in c + 2 .. Len(w)
    BY <1>8
  <2>1. /\ Disk(E) /\ DirOf(E) = DirOf(d) /\ Unchanged(d, E, {n})
        /\ \A m \in DOMAIN DirOf(d) : m # n => UsesOf(E, DirOf(E)[m]) = UsesOf(d, DirOf(d)[m])
    BY <1>14, <1>18
  <2>2. /\ E[s] = HeaderOf(h) /\ Hdr(E[s]) /\ E[s].flag = f
        /\ \A m \in DOMAIN DirOf(d) : m # n => UsesOf(d, DirOf(d)[m]) \cap (({s} \cup ToSet(ds)) \cup {f}) = {}
    BY <1>17, <1>18, <2>0
  <2>3. ToSet(ds) \subseteq Usable
    BY <1>16, <1>18, <2>0
  <2>4. E[f] = d[f]
    <3>1. k <= c + 2
      OBVIOUS
    <3> QED
      BY <1>1, <1>18, <3>1 DEF ExtendingDone
  <2>5. IsInjective(Listing(E, s)) /\ ToSet(Listing(E, s)) \subseteq ToSet(ds)
    <3>1. CASE f \in Sector \ MapOf(d)
      <4>1. ~Idx(E[f])
        BY <2>4, <3>1 DEF Whole
      <4>2. h.flag # -1 /\ ~Idx(E[h.flag])
        BY <1>1, <1>18, <4>1
      <4>3. /\ IsInjective(h.dataSectors) => IsInjective(Listing(E, s))
            /\ ToSet(Listing(E, s)) \subseteq ToSet(h.dataSectors)
        BY <1>3, <2>1, <2>2, <4>2, ReadBack
      <4> QED
        BY <1>1, <1>3, <4>3
    <3>2. CASE f = d[s].flag /\ Len(ds) = Len(L) /\ \A i \in 1 .. Len(L) : ds[i] = L[i]
      <4>1. Listing(E, s) = L
        <5>1. /\ h.flag = d[s].flag /\ h.flag # -1 /\ E[h.flag] = d[h.flag]
              /\ Len(h.dataSectors) = Len(Listing(d, s))
          BY <1>1, <1>18, <2>4, <3>2
        <5>2. \A i \in 1 .. Len(Listing(d, s)) : h.dataSectors[i] = Listing(d, s)[i]
          BY <1>1, <3>2
        <5>3. Listing(E, s) = Listing(d, s)
          BY <1>3, <2>1, <2>2, <5>1, <5>2, ListedAgain
        <5> QED
          BY <1>1, <5>3
      <4>2. IsInjective(L)
        BY <1>1, <1>3 DEF WellFormed
      <4> QED
        BY <1>3, <4>1, <4>2
    <3> QED
      BY <1>4, <1>18, <3>1, <3>2
  <2>6. UsesOf(E, s) \subseteq (({s} \cup ToSet(ds)) \cup {f})
    BY <2>2, <2>5 DEF UsesOf
  <2>7. SafeFile(E, n, f)
    <3>1. DirOf(E)[n] = s
      BY <2>1
    <3>2. UsesOf(E, s) \subseteq Usable
      BY <1>3, <1>18, <2>3, <2>6
    <3>3. ASSUME NEW m \in DOMAIN DirOf(E), m # n PROVE UsesOf(E, s) \cap UsesOf(E, DirOf(E)[m]) = {}
      BY <2>1, <2>2, <2>6, <3>3
    <3> QED
      BY <2>2, <2>5, <3>1, <3>2, <3>3 DEF SafeFile
  <2> QED
    BY <2>1, <2>7, SafeFrom
\* In the end.
<1>19. ASSUME NEW k \in {Len(w)}, Reached(w, k), NEW E,
              ExtendingDone(d, n, s, h, map, first, c, k, E)
       PROVE  /\ Whole(E, {})
              /\ \A a, b : Tidy(d, a) /\ GivesUp(a, b, d[s].flag, f) => Tidy(E, b)
  <2>0. k \in c + 2 .. Len(w)
    BY <1>8
  <2>1. /\ Disk(E) /\ DirOf(E) = DirOf(d) /\ Unchanged(d, E, {n})
        /\ \A m \in DOMAIN DirOf(d) : m # n => UsesOf(E, DirOf(E)[m]) = UsesOf(d, DirOf(d)[m])
        /\ \A t \in Usable : t # s /\ t # f => E[t] = d[t] \/ (t \in ToSet(ds) /\ E[t] = Written(n))
    BY <1>14, <1>19
  <2>2. /\ MapOf(E) = map /\ E[s] = HeaderOf(h) /\ Hdr(E[s]) /\ E[s].flag = f
        /\ \A m \in DOMAIN DirOf(d) : m # n => UsesOf(d, DirOf(d)[m]) \cap (({s} \cup ToSet(ds)) \cup {f}) = {}
    BY <1>17, <1>19, <2>0
  <2>3. ToSet(ds) \subseteq Usable
    BY <1>16, <1>19, <2>0
  <2>4. /\ f # -1 => E[f] = IndexOf(h)
        /\ \A j \in 1 .. c : ds[first + j] \in Usable => E[ds[first + j]] = Written(n)
    <3>1. k >= c + 2 /\ (f # -1 => k > c + 2)
      BY <1>8
    <3> QED
      BY <1>1, <1>19, <3>1 DEF ExtendingDone
  <2>5. /\ Listing(E, s) = ds /\ Len(E[s].direct) = Min2(Len(ds), NumHdr) /\ E[s].numBytes = h.numBytes
    BY <1>1, <1>3, <2>1, <2>2, <2>4, ReadBack
  <2>6. UsesOf(E, s) = ({s} \cup ToSet(ds)) \cup ({f} \ {-1})
    BY <2>2, <2>5 DEF UsesOf
  <2>7. f # -1 => Idx(E[f])
    BY <2>4 DEF Idx, IndexOf
  <2>8. WellFormed(E, s)
    <3>1. ToSet(ds) \subseteq Usable \ {s, f}
      BY <1>3, <1>10, <2>3
    <3> QED
      BY <1>3, <2>2, <2>5, <2>7, <3>1 DEF WellFormed
  <2>9. ASSUME NEW t \in ToSet(ds) PROVE E[t] = Written(n)
    <3>1. t \in Usable /\ t # s /\ t # f
      BY <1>3, <1>10, <2>3
    <3>2. CASE t \in ToSet(L)
      BY <1>12, <2>1, <3>1, <3>2
    <3>3. CASE t \notin ToSet(L)
      <4>1. PICK i \in 1 .. Len(ds) : t = ds[i]
        BY <1>3
      <4>2. /\ Len(ds) = Len(L) + more /\ \A j \in 1 .. Len(L) : ds[j] = L[j]
            /\ first <= Len(L) /\ (more > 0 => first + c = Len(L) + more)
        BY <1>1 DEF Longer
      <4>3. L \in Seq(Slot)
        BY <1>1, <1>3, HeaderFacts
      <4>4. Len(L) \in Nat /\ \A j \in 1 .. Len(L) : L[j] \in ToSet(L)
        BY <4>3, SeqFacts
      <4>5. i > Len(L)
        BY <3>3, <4>1, <4>2, <4>4
      <4>6. i - first \in 1 .. c /\ i = first + (i - first)
        BY <4>2, <4>4, <4>5
      <4>7. PICK j \in 1 .. c : i = first + j
        BY <4>6
      <4> QED
        BY <2>4, <3>1, <4>1, <4>7
    <3> QED
      BY <3>2, <3>3
  <2>10. WholeFile(E, n, {})
    <3>1. DirOf(E)[n] = s
      BY <2>1
    <3>2. UsesOf(E, s) \subseteq MapOf(E)
      <4>1. s \in MapOf(d) /\ -1 \notin ToSet(ds)
        BY <1>3, <1>5, <1>10, <2>3
      <4> QED
        BY <1>3, <2>2, <2>6, <4>1
    <3>3. Filled(E, n)
      BY <2>5, <2>9, <3>1 DEF Filled
    <3>4. ASSUME NEW m \in DOMAIN DirOf(E), m # n PROVE UsesOf(E, s) \cap UsesOf(E, DirOf(E)[m]) = {}
      BY <2>1, <2>2, <2>6, <3>4
    <3> QED
      BY <2>8, <3>1, <3>2, <3>3, <3>4 DEF WholeFile
  <2>11. IndexesMarked(E)
    <3> SUFFICES ASSUME NEW t \in Sector \ MapOf(E) PROVE ~Idx(E[t])
      BY DEF IndexesMarked
    <3>1. t \notin MapOf(d) /\ ~Idx(d[t]) /\ t \notin ToSet(ds) /\ t # f
      <4>1. t # -1
        BY DiskConstants
      <4>2. t \notin MapOf(d) /\ t \notin ToSet(ds) /\ t # f
        BY <1>3, <2>2, <4>1
      <4> QED
        BY <4>2 DEF Whole
    <3>2. t \in Usable
      BY <2>1, DiskFacts DEF Usable
    <3>3. t # s
      BY <1>3, <1>5, <3>1
    <3> QED
      BY <2>1, <3>1, <3>2, <3>3
  <2>12. \A m \in DOMAIN DirOf(E) \ {n} : UsesOf(d, DirOf(d)[m]) \subseteq MapOf(E)
    BY <1>3, <2>1, <2>2 DEF Whole
  <2>13. \A m \in DOMAIN DirOf(E) \cap {n} : WholeFile(E, m, {})
    BY <2>10
  <2>14. Whole(E, {})
    BY <2>1, <2>11, <2>12, <2>13, WholeFrom
  <2>15. ASSUME NEW a, NEW b, Tidy(d, a), GivesUp(a, b, d[s].flag, f)
         PROVE  Tidy(E, b)
    <3>1. ASSUME NEW t
          PROVE  t \in b <=> t \in MapOf(E) /\ t \notin Reserved /\ ~Claimed(E, t)
      <4> DEFINE others == \E m \in DOMAIN DirOf(d) : m # n /\ t \in UsesOf(d, DirOf(d)[m])
                 now == t = s \/ t \in ToSet(ds) \/ (t = f /\ t # -1)
      <4>1. t \in a <=> t \in MapOf(d) /\ t \notin Reserved /\ ~Claimed(d, t)
        BY <2>15 DEF Tidy
      <4>2. t \in b <=> t \in a \/ (t = d[s].flag /\ t # -1 /\ t # f)
        BY <2>15 DEF GivesUp
      <4>3. Claimed(d, t) <=> others \/ t \in UsesOf(d, s)
        BY DEF Claimed
      <4>4. Claimed(E, t) <=> others \/ now
        <5>1. t \in UsesOf(E, s) <=> now
          BY <2>6
        <5>2. Claimed(E, t) <=> others \/ t \in UsesOf(E, s)
          BY <2>1 DEF Claimed
        <5> QED
          BY <5>1, <5>2
      <4>5. others => t \notin UsesOf(d, s) /\ ~now
        <5> SUFFICES ASSUME NEW m \in DOMAIN DirOf(d), m # n, t \in UsesOf(d, DirOf(d)[m])
                     PROVE  t \notin UsesOf(d, s) /\ ~now
          OBVIOUS
        <5>1. t \notin UsesOf(d, s)
          BY DEF Whole, Apart
        <5> QED
          BY <1>13, <5>1
      <4>6. t \in UsesOf(d, s) => t \in MapOf(d) /\ t \notin Reserved
        BY <1>3, <1>5 DEF Usable
      <4>7. t \in UsesOf(d, s) <=> t = s \/ t \in ToSet(L) \/ (t = d[s].flag /\ t # -1)
        BY <1>1, <1>3, FileFacts
      <4>8. now => t \in UsesOf(d, s) \/ t \notin MapOf(d)
        BY <1>3, <1>4, <1>5, <1>11, <4>7
      <4>9. t \in MapOf(E) <=> t \in MapOf(d) \/ ((t \in ToSet(ds) \/ t = f) /\ t # -1)
        BY <1>3, <2>2
      <4>10. t = d[s].flag /\ t # -1 => t # s /\ t \notin ToSet(ds)
        BY <1>3 DEF WellFormed
      <4>11. t \in ToSet(L) => t \in ToSet(ds)
        BY <1>3
      <4>12. t \in ToSet(ds) => t # -1
        BY <1>10, <2>3
      <4> HIDE DEF others, now
      <4>13. ASSUME t \in b PROVE t \in MapOf(E) /\ t \notin Reserved /\ ~Claimed(E, t)
        <5>1. CASE t \in a
          BY <4>1, <4>3, <4>4, <4>8, <4>9, <5>1
        <5>2. CASE t = d[s].flag /\ t # -1 /\ t # f
          BY <4>4, <4>5, <4>6, <4>7, <4>9, <4>10, <5>2 DEF now
        <5> QED
          BY <4>2, <4>13, <5>1, <5>2
      <4>14. ASSUME t \in MapOf(E), t \notin Reserved, ~Claimed(E, t) PROVE t \in b
        <5>1. ~others /\ ~now
          BY <4>4, <4>14
        <5>2. t \in MapOf(d)
          BY <4>9, <4>14, <5>1 DEF now
        <5>3. CASE t \in UsesOf(d, s)
          BY <4>2, <4>7, <4>11, <5>1, <5>3 DEF now
        <5> QED
          BY <4>1, <4>2, <4>3, <4>14, <5>1, <5>2, <5>3
      <4> QED
        BY <4>13, <4>14
    <3> QED
      BY <3>1 DEF Tidy
  <2> QED
    BY <2>14, <2>15
<1>20. ASSUME NEW k \in 0 .. Len(w), Reached(w, k)
       PROVE  State(d, w, {}, k)
  <2>1. PICK E : E = After(d, w, k)
    OBVIOUS
  <2>2. ExtendingDone(d, n, s, h, map, first, c, k, E) /\ Disk(E)
    BY <1>7, <1>14, <2>1
  <2>3. Safe(E, At(w, k))
    <3>1. CASE k <= c + 1
      <4>1. Whole(E, {})
        BY <1>15, <2>2, <3>1
      <4> QED
        BY <2>2, <4>1, WholeIsSafe
    <3>2. CASE k > c + 1 /\ k < Len(w)
      <4>1. f # -1 /\ k \in {c + 2} /\ At(w, k) = f
        <5>1. f # -1 /\ k = c + 2 /\ k + 1 = c + 3
          BY <1>8, <3>2
        <5> QED
          BY <1>8, <3>2, <5>1 DEF At
      <4> QED
        BY <1>18, <1>20, <2>2, <4>1
    <3>3. CASE k = Len(w)
      <4>1. Whole(E, {})
        BY <1>19, <1>20, <2>2, <3>3
      <4> QED
        BY <2>2, <4>1, WholeIsSafe
    <3> QED
      BY <1>8, <3>1, <3>2, <3>3
  <2>4. k = Len(w) => Whole(E, {})
    BY <1>19, <1>20, <2>2
  <2>5. ASSUME At(w, k) = -1 PROVE Whole(E, {})
    <3>1. k <= c + 1
      <4> SUFFICES ASSUME k > c + 1 PROVE FALSE
        BY <1>8
      <4>1. k < Len(w)
        BY <2>5 DEF At
      <4>2. f # -1 /\ k + 1 = c + 3
        BY <1>8, <4>1
      <4> QED
        BY <1>8, <2>5, <4>1, <4>2 DEF At
    <3> QED
      BY <1>15, <2>2, <3>1
  <2>6. ASSUME k < Len(w), At(w, k) # -1
        PROVE  LenStep(LenOf(E), LenOf(After(d, w, k + 1)))
    <3>1. PICK l : l = k + 1 /\ l \in 0 .. Len(w)
      BY <1>8, <2>6
    <3>2. PICK F : F = After(d, w, l)
      OBVIOUS
    <3>3. ExtendingDone(d, n, s, h, map, first, c, l, F)
      BY <1>7, <3>1, <3>2
    <3>4. Reached(w, l)
      <4>1. \A i \in 1 .. l : i \in 1 .. k \/ i = k + 1
        BY <3>1
      <4>2. w[k + 1].at # -1
        BY <2>6 DEF At
      <4> QED
        BY <1>20, <4>1, <4>2 DEF Reached
    <3>5. CASE l <= c + 1
      <4>1. LenOf(E) = LenOf(d) /\ LenOf(F) = LenOf(d)
        BY <1>15, <2>2, <3>1, <3>3, <3>5
      <4> QED
        BY <3>1, <3>2, <4>1 DEF LenStep
    <3>6. CASE l = c + 2
      <4>1. LenOf(E) = LenOf(d)
        BY <1>15, <2>2, <3>1, <3>6
      <4>2. LenOf(F) = [LenOf(d) EXCEPT ![n] = h.numBytes]
        BY <1>8, <1>17, <3>1, <3>3, <3>4, <3>6
      <4>3. n \in Name /\ LenOf(d)[n] = d[s].numBytes
        BY DiskFacts DEF LenOf
      <4>4. PICK a, b : a = LenOf(d) /\ b = LenOf(F)
        OBVIOUS
      <4>5. DOMAIN a = Name
        BY <4>4 DEF LenOf
      <4>6. (\A m \in Name \ {n} : b[m] = a[m]) /\ b[n] = h.numBytes /\ a[n] = d[s].numBytes
        BY <4>2, <4>3, <4>4, <4>5
      <4>7. LenStep(a, b)
        BY <1>5, <4>3, <4>6 DEF LenStep
      <4> QED
        BY <3>1, <3>2, <4>1, <4>4, <4>7
    <3>7. CASE l > c + 2
      <4>1. LenOf(E) = [LenOf(d) EXCEPT ![n] = h.numBytes]
        BY <1>8, <1>17, <1>20, <2>2, <3>1, <3>7
      <4>2. LenOf(F) = [LenOf(d) EXCEPT ![n] = h.numBytes]
        BY <1>8, <1>17, <3>1, <3>3, <3>4, <3>7
      <4> QED
        BY <3>1, <3>2, <4>1, <4>2 DEF LenStep
    <3> QED
      BY <3>1, <3>5, <3>6, <3>7
  <2> QED
    BY <2>1, <2>3, <2>4, <2>5, <2>6 DEF State
<1>21. \A a, b : Tidy(d, a) /\ GivesUp(a, b, d[s].flag, f) => Neat(d, w, b)
  <2> SUFFICES ASSUME NEW a, NEW b, Tidy(d, a), GivesUp(a, b, d[s].flag, f), Reached(w, Len(w))
               PROVE  Tidy(After(d, w, Len(w)), b)
    BY DEF Neat
  <2>1. PICK E : E = After(d, w, Len(w))
    OBVIOUS
  <2>2. ExtendingDone(d, n, s, h, map, first, c, Len(w), E)
    <3>1. Len(w) \in 0 .. Len(w)
      BY <1>8
    <3> QED
      BY <1>7, <2>1, <3>1
  <2> QED
    BY <1>19, <2>1, <2>2
<1> QED
  BY <1>1, <1>6, <1>20, <1>21 DEF Good

-----------------------------------------------------------------------------
(* The plans of the commands.                                              *)

\* divRoundUp() is the least number of sectors that is enough.
LEMMA RoundUp ==
  ASSUME NEW x \in Nat, NEW z \in Nat \ {0}
  PROVE  /\ divRoundUp(x, z) \in Nat /\ divRoundUp(x, z) * z >= x
         /\ x = 0 => divRoundUp(x, z) = 0
         /\ x > 0 => divRoundUp(x, z) = ((x - 1) \div z) + 1
<1>1. PICK q : q = (x + z - 1) \div z
  OBVIOUS
<1>2. q \in Nat /\ q * z \in Nat /\ q * z <= x + z - 1 /\ x + z - 1 < (q * z) + z
  <2>1. x + z - 1 \in Nat
    OBVIOUS
  <2> QED
    BY <1>1, <2>1, Division
<1>3. q * z >= x
  BY <1>2
<1>4. x = 0 => q = 0
  <2>1. ASSUME x = 0, q # 0 PROVE FALSE
    <3>1. (0 * z) + z <= q * z
      BY <1>2, <2>1, Earlier
    <3> QED
      BY <1>2, <2>1, <3>1
  <2> QED
    BY <2>1
<1>5. ASSUME x > 0 PROVE q = ((x - 1) \div z) + 1
  <2>1. PICK p : p = (x - 1) \div z
    OBVIOUS
  <2>2. p \in Nat /\ p * z \in Nat /\ p * z <= x - 1 /\ x - 1 < (p * z) + z
    <3>1. x - 1 \in Nat
      BY <1>5
    <3> QED
      BY <2>1, <3>1, Division
  <2>3. ~(q < p + 1)
    <3>1. ASSUME q < p PROVE FALSE
      <4>1. (q * z) + z <= p * z
        BY <1>2, <2>2, <3>1, Earlier
      <4> QED
        BY <1>2, <1>3, <2>2, <4>1
    <3>2. q # p
      BY <1>3, <2>2
    <3> QED
      BY <1>2, <2>2, <3>1, <3>2
  <2>4. ~(p + 1 < q)
    <3>1. ASSUME p + 1 < q PROVE FALSE
      <4>1. PICK r \in Nat : r = p + 1
        BY <2>2
      <4>2. (r * z) + z <= q * z
        BY <1>2, <3>1, <4>1, Earlier
      <4>3. (p * z) + z <= r * z
        BY <2>2, <4>1, Earlier
      <4> QED
        BY <1>2, <2>2, <4>2, <4>3
    <3> QED
      BY <3>1
  <2> QED
    BY <1>2, <2>1, <2>2, <2>3, <2>4
<1> QED
  BY <1>1, <1>2, <1>3, <1>4, <1>5 DEF divRoundUp

\* A file that is about to be created, with k sectors.
NewFile(d, n, s, h, dir, map, k) ==
  /\ s \in Sector \ MapOf(d) /\ h \in MemHeader /\ Len(h.dataSectors) = k
  /\ \A t \in ToSet(h.dataSectors) : t \in Sector \ MapOf(d) /\ t # s /\ t # h.flag
  /\ IsInjective(h.dataSectors)
  /\ h.flag = -1 \/ h.flag \in Sector \ MapOf(d)
  /\ h.flag # s
  /\ h.flag = -1 => Len(h.dataSectors) <= NumHdr
  /\ Len(h.dataSectors) * SectorSize >= h.numBytes
  /\ dir = [m \in DOMAIN DirOf(d) \cup {n} |-> IF m = n THEN s ELSE DirOf(d)[m]]
  /\ map = MapOf(d) \cup (({s} \cup ToSet(h.dataSectors)) \cup ({h.flag} \ {-1}))

\* FileSystem::Create() computes such a file.
LEMMA CreateParts ==
  ASSUME NEW d, Disk(d), NEW n, NEW size \in Nat, NEW found, found = FindAll(MapOf(d), 1),
         found[1] # -1, NEW marked, marked = Mark(MapOf(d), found), Fits(marked, size),
         NEW new, new = Allocate(marked, size),
         NEW dir, dir = [m \in DOMAIN DirOf(d) \cup {n} |-> IF m = n THEN found[1] ELSE DirOf(d)[m]]
  PROVE  NewFile(d, n, found[1], new.hdr, dir, new.map, divRoundUp(size, SectorSize))
<1>1. MapOf(d) \subseteq Sector /\ Reserved \subseteq MapOf(d) /\ -1 \notin Sector
      /\ SectorSize \in Nat \ {0} /\ NumHdr \in Nat
  BY DiskFacts, DiskConstants
<1>2. PICK s : s = found[1]
  OBVIOUS
<1>3. s \in Sector \ MapOf(d) /\ ToSet(found) = {s}
  <2>0x. PICK m : m = MapOf(d)
    OBVIOUS
  <2>0y. PICK k \in Nat : k = 1
    OBVIOUS
  <2>0. m = MapOf(d) /\ k = 1
    BY <2>0x, <2>0y
  <2>0a. /\ NumClear(m) \in Nat
         /\ DOMAIN FindAll(m, k) = 1 .. k
         /\ \A i \in 1 .. k : i <= NumClear(m) => FindAll(m, k)[i] \in Sector \ m
         /\ \A i \in 1 .. k : i > NumClear(m) => FindAll(m, k)[i] = -1
    BY <1>1, <2>0, FindFacts
  <2>0b. found = FindAll(m, k)
    BY <2>0
  <2>1. /\ NumClear(m) \in Nat
        /\ DOMAIN found = 1 .. 1
        /\ 1 <= NumClear(m) => found[1] \in Sector \ m
        /\ 1 > NumClear(m) => found[1] = -1
    BY <2>0, <2>0a, <2>0b
  <2>2. ToSet(found) = {found[1]}
    BY <2>1 DEF ToSet
  <2> QED
    BY <1>2, <2>0, <2>1, <2>2
<1>4. marked = MapOf(d) \cup {s} /\ marked \subseteq Sector /\ Reserved \subseteq marked
  BY <1>1, <1>2, <1>3 DEF Mark
<1>5. PICK k, clear, z : k = divRoundUp(size, SectorSize) /\ clear = NumClear(marked)
                         /\ z = [numBytes |-> size, flag |-> -1, dataSectors |-> <<>>]
  OBVIOUS
<1>6. k \in Nat /\ clear \in Nat /\ clear > k /\ k * SectorSize >= size
  <2>1. k \in Nat /\ k * SectorSize >= size
    BY <1>1, <1>5, RoundUp
  <2>2. clear \in Nat
    BY <1>4, <1>5, FindFacts
  <2>3. clear - 1 >= k
    BY <1>5 DEF Fits
  <2> QED
    BY <2>1, <2>2, <2>3
<1>7. z \in MemHeader /\ z.dataSectors = <<>> /\ z.numBytes = size /\ Len(z.dataSectors) = 0
  <2>1. <<>> \in Seq(Slot) /\ -1 \in Slot
    BY EmptySeq DEF Slot
  <2> QED
    BY <1>5, <2>1 DEF MemHeader
<1>8. new = Grow(z, marked, k)
  BY <1>5 DEF Allocate, NoFile
<1>9. PICK ds, f, o : ds = new.hdr.dataSectors /\ f = new.hdr.flag /\ o = Len(z.dataSectors)
  OBVIOUS
<1>10. /\ new.hdr \in MemHeader /\ new.hdr.numBytes = size
       /\ Len(ds) = o + k /\ o = 0
       /\ Room(ds, o, k, f, marked, clear)
       /\ new.map = marked \cup (({ds[i] : i \in o + 1 .. o + k} \cup {f}) \ {-1})
  <2>1. /\ new.hdr \in MemHeader /\ new.hdr.numBytes = z.numBytes
        /\ Len(ds) = o + k
        /\ Room(ds, o, k, f, marked, clear)
        /\ new.map = marked \cup (({ds[i] : i \in o + 1 .. o + k} \cup {f}) \ {-1})
    <3>1. Grown(z, marked, k, new)
      BY <1>4, <1>6, <1>7, <1>8, GrowFacts
    <3> QED
      BY <1>5, <1>9, <3>1 DEF Grown
  <2> QED
    BY <1>7, <1>9, <2>1
<1>11. Len(ds) = k /\ \A i : i \in o + 1 .. o + k <=> i \in 1 .. k
  BY <1>6, <1>10
<1>12. ds \in Seq(Slot) /\ DOMAIN ds = 1 .. k /\ ToSet(ds) = {ds[i] : i \in 1 .. k}
  <2>1. ds \in Seq(Slot)
    BY <1>9, <1>10 DEF MemHeader
  <2> QED
    BY <1>11, <2>1, SeqFacts
<1>13. /\ \A i \in 1 .. k : ds[i] \in Sector \ marked /\ ds[i] # f
       /\ \A i, j \in 1 .. k : ds[i] = ds[j] => i = j
       /\ f = -1 \/ f \in Sector \ marked
       /\ f = -1 => Len(ds) <= NumHdr
  <2>1. /\ \A i \in o + 1 .. o + k : ds[i] = -1 \/ ds[i] \in Sector \ marked
        /\ f = -1 \/ f \in Sector \ marked
        /\ f # -1 => \A i \in o + 1 .. o + k : ds[i] # f
    BY <1>10 DEF Room
  <2>2. \A i, j \in o + 1 .. o + k : ds[i] = ds[j] /\ ds[i] # -1 => i = j
    BY <1>10 DEF Room
  <2>3. /\ clear >= k /\ (o + k <= NumHdr \/ clear > k) => \A i \in o + 1 .. o + k : ds[i] # -1
        /\ clear >= k /\ k > 0 /\ o + k > NumHdr => f # -1
    BY <1>10 DEF Room
  <2>4. clear >= k /\ clear > k
    BY <1>6
  <2>5. \A i \in 1 .. k : ds[i] # -1
    BY <1>11, <2>3, <2>4
  <2>6. \A i \in 1 .. k : ds[i] \in Sector \ marked
    BY <1>11, <2>1, <2>5
  <2>7. \A i \in 1 .. k : ds[i] # f
    BY <1>1, <1>11, <2>1, <2>6
  <2>8. \A i, j \in 1 .. k : ds[i] = ds[j] => i = j
    BY <1>11, <2>2, <2>5
  <2>9. f = -1 => Len(ds) <= NumHdr
    BY <1>1, <1>6, <1>10, <1>11, <2>3
  <2> QED
    BY <2>1, <2>6, <2>7, <2>8, <2>9
<1>14. IsInjective(ds)
  BY <1>12, <1>13 DEF IsInjective
<1>15. \A t \in ToSet(ds) : t \in Sector \ MapOf(d) /\ t # s /\ t # f
  BY <1>4, <1>12, <1>13
<1>16. (f = -1 \/ f \in Sector \ MapOf(d)) /\ f # s
  BY <1>1, <1>3, <1>4, <1>13
<1>17. new.map = MapOf(d) \cup (({s} \cup ToSet(ds)) \cup ({f} \ {-1}))
  <2>1. {ds[i] : i \in o + 1 .. o + k} = ToSet(ds)
    BY <1>11, <1>12
  <2>2. -1 \notin ToSet(ds)
    BY <1>1, <1>15
  <2>3. new.map = marked \cup ((ToSet(ds) \cup {f}) \ {-1})
    BY <1>10, <2>1
  <2> QED
    BY <1>4, <2>2, <2>3
<1>18. Len(ds) * SectorSize >= new.hdr.numBytes
  BY <1>6, <1>10, <1>11
<1>19. dir = [m \in DOMAIN DirOf(d) \cup {n} |-> IF m = n THEN s ELSE DirOf(d)[m]]
  BY <1>2
<1>20. NewFile(d, n, s, new.hdr, dir, new.map, k)
  <2>1. new.hdr \in MemHeader /\ Len(new.hdr.dataSectors) = k /\ IsInjective(new.hdr.dataSectors)
    BY <1>9, <1>10, <1>11, <1>14
  <2>2. \A t \in ToSet(new.hdr.dataSectors) : t \in Sector \ MapOf(d) /\ t # s /\ t # new.hdr.flag
    BY <1>9, <1>15
  <2>3. /\ new.hdr.flag = -1 \/ new.hdr.flag \in Sector \ MapOf(d)
        /\ new.hdr.flag # s
        /\ new.hdr.flag = -1 => Len(new.hdr.dataSectors) <= NumHdr
        /\ Len(new.hdr.dataSectors) * SectorSize >= new.hdr.numBytes
    BY <1>9, <1>13, <1>16, <1>18
  <2>4. new.map = MapOf(d) \cup (({s} \cup ToSet(new.hdr.dataSectors)) \cup ({new.hdr.flag} \ {-1}))
    BY <1>9, <1>17
  <2> QED
    BY <1>3, <1>19, <2>1, <2>2, <2>3, <2>4 DEF NewFile
<1> QED
  BY <1>2, <1>5, <1>20

\* A quotient is determined by its multiples.
LEMMA Quotient ==
  ASSUME NEW z \in Nat \ {0}, NEW a \in Nat, NEW q \in Nat, q * z <= a, a < (q * z) + z
  PROVE  a \div z = q
<1>1. PICK p : p = a \div z
  OBVIOUS
<1>2. p \in Nat /\ p * z \in Nat /\ p * z <= a /\ a < (p * z) + z /\ q * z \in Nat
  BY <1>1, Division
<1>3. ~(p < q)
  <2>1. ASSUME p < q PROVE FALSE
    <3>1. (p * z) + z <= q * z
      BY <1>2, <2>1, Earlier
    <3> QED
      BY <1>2, <3>1
  <2> QED
    BY <2>1
<1>4. ~(q < p)
  <2>1. ASSUME q < p PROVE FALSE
    <3>1. (q * z) + z <= p * z
      BY <1>2, <2>1, Earlier
    <3> QED
      BY <1>2, <3>1
  <2> QED
    BY <2>1
<1> QED
  BY <1>1, <1>2, <1>3, <1>4

\* The sectors an append needs, and those it writes.
AppendSum(z, old, start, size, more, first, last) ==
  /\ more \in Nat /\ first \in Nat /\ last \in Nat /\ first <= last
  /\ last + 1 <= old + more /\ (more > 0 => last + 1 = old + more)
  /\ start <= old * z => first <= old
  /\ (old + more) * z >= start + size

LEMMA AppendArithmetic ==
  ASSUME NEW z \in Nat \ {0}, NEW old \in Nat, NEW start \in Nat, NEW size \in Nat \ {0},
         NEW more, more = IF (old * z) - start >= size THEN 0
                          ELSE divRoundUp(size - ((old * z) - start), z),
         NEW first, first = start \div z, NEW last, last = ((start + size) - 1) \div z
  PROVE  AppendSum(z, old, start, size, more, first, last)
<1>1. PICK end : end = (start + size) - 1
  OBVIOUS
<1>2. end \in Nat /\ start <= end
  BY <1>1
<1>3. /\ first \in Nat /\ first * z \in Nat /\ first * z <= start /\ start < (first * z) + z
  BY Division
<1>4. /\ last \in Nat /\ last * z \in Nat /\ last * z <= end /\ end < (last * z) + z /\ first <= last
  <2>1. last = end \div z
    BY <1>1
  <2> QED
    BY <1>2, <2>1, Division, DivisionKeepsOrder
<1>5. old * z \in Nat
  OBVIOUS
<1>6. start <= old * z => first <= old
  <2>1. ASSUME start <= old * z, old < first PROVE FALSE
    <3>1. (old * z) + z <= first * z
      BY <1>3, <2>1, Earlier
    <3> QED
      BY <1>3, <1>5, <2>1, <3>1
  <2> QED
    BY <1>3, <2>1
<1>7. CASE (old * z) - start >= size
  <2>1. more = 0 /\ end < old * z
    BY <1>1, <1>5, <1>7
  <2>2. last < old
    <3>1. ASSUME old < last PROVE FALSE
      <4>1. (old * z) + z <= last * z
        BY <1>4, <3>1, Earlier
      <4> QED
        BY <1>2, <1>4, <1>5, <2>1, <4>1
    <3>2. old # last
      BY <1>2, <1>4, <1>5, <2>1
    <3> QED
      BY <1>4, <3>1, <3>2
  <2>3. old * z >= start + size
    BY <1>5, <1>7
  <2> QED
    BY <1>3, <1>4, <1>6, <2>1, <2>2, <2>3 DEF AppendSum
<1>8. CASE ~((old * z) - start >= size)
  <2>1. PICK x \in Nat \ {0} : x = size - ((old * z) - start)
    BY <1>5, <1>8
  <2>2. more = divRoundUp(x, z)
    BY <1>8, <2>1
  <2>3. PICK p : p = (x - 1) \div z
    OBVIOUS
  <2>4. more = p + 1
    <3>1. x \in Nat /\ x > 0
      OBVIOUS
    <3>2. x > 0 => divRoundUp(x, z) = ((x - 1) \div z) + 1
      BY <3>1, RoundUp
    <3> QED
      BY <2>2, <2>3, <3>1, <3>2, Zenon
  <2>5. p \in Nat /\ p * z \in Nat /\ p * z <= x - 1 /\ x - 1 < (p * z) + z
    <3>1. x - 1 \in Nat
      OBVIOUS
    <3> QED
      BY <2>3, <3>1, Division
  <2>6. PICK q \in Nat : q = p + old
    BY <2>5
  <2>7. q * z = (p * z) + (old * z)
    BY <2>5, <2>6
  <2>8. q * z <= end /\ end < (q * z) + z
    BY <1>1, <1>5, <2>1, <2>5, <2>7
  <2>9. last = q
    <3>1. last = end \div z
      BY <1>1
    <3> QED
      BY <1>2, <2>8, <3>1, Quotient
  <2>10. last + 1 = old + more /\ more \in Nat
    BY <2>4, <2>5, <2>6, <2>9
  <2>11. (old + more) * z = (last * z) + z
    BY <1>4, <2>10
  <2>12. (old + more) * z >= start + size
    BY <1>1, <1>4, <2>11
  <2> QED
    BY <1>3, <1>4, <1>6, <2>10, <2>12 DEF AppendSum
<1> QED
  BY <1>7, <1>8

\* A header that was read in.
Fetched(d, s) == [numBytes |-> d[s].numBytes, flag |-> d[s].flag, dataSectors |-> Listing(d, s)]

\* What AppFileSize() makes of it.
Appended(d, s, size, half, start, more, first, c, r) ==
  /\ r.hdr \in MemHeader /\ r.hdr.numBytes = start + size /\ MapC([map |-> r.map])
  /\ start \in Nat /\ more \in Nat /\ first \in Nat /\ c \in Nat \ {0}
  /\ first + c <= Len(r.hdr.dataSectors)
  /\ WellFormed(d, s) /\ UsesOf(d, s) \subseteq MapOf(d) => Longer(d, s, r.hdr, more, r.map, first, c)
  /\ start + size > d[s].numBytes \div 2

\* AppFileSize() computes a longer header.
LEMMA AppendParts ==
  ASSUME NEW d, Disk(d), NEW s \in Usable, Hdr(d[s]),
         NEW h, h = Fetched(d, s), NEW size \in Nat \ {0}, NEW half,
         NEW map, map = MapOf(d), CanAppend(h, map, size, half),
         NEW r, r = AppSector(h, map, size, half),
         NEW start, start = Kept(h, half), NEW more, more = MoreSectors(h, size, half),
         NEW first, first = start \div SectorSize,
         NEW last, last = ((start + size) - 1) \div SectorSize, NEW c, c = (last - first) + 1
  PROVE  Appended(d, s, size, half, start, more, first, c, r)
<1>1. /\ map \subseteq Sector /\ Reserved \subseteq map /\ -1 \notin Sector
      /\ SectorSize \in Nat \ {0} /\ NumHdr \in Nat \ {0}
  BY DiskFacts, DiskConstants
<1>2. PICK L, f, z, b : L = Listing(d, s) /\ f = d[s].flag /\ z = SectorSize /\ b = d[s].numBytes
  OBVIOUS
<1>3. /\ b \in Nat /\ f \in Slot /\ L \in Seq(Slot) /\ d[s].direct \in Seq(Slot)
      /\ f = -1 => L = d[s].direct
  BY <1>2, HeaderFacts
<1>4. /\ h.numBytes = b /\ h.flag = f /\ h.dataSectors = L
      /\ h = [numBytes |-> b, flag |-> f, dataSectors |-> L]
  BY <1>2 DEF Fetched
<1>5. PICK old : old = Len(L)
  OBVIOUS
<1>5a. old \in Nat
  BY <1>3, <1>5, LenProperties
<1>6. start \in Nat /\ start <= b /\ start >= b \div 2
  <2>1. start = b \/ start = b \div 2
    BY <1>4 DEF Kept
  <2>2. b \div 2 \in Nat /\ b \div 2 <= b
    BY <1>3
  <2> QED
    BY <1>3, <2>1, <2>2
<1>7. more = IF (old * z) - start >= size THEN 0 ELSE divRoundUp(size - ((old * z) - start), z)
  BY <1>2, <1>4, <1>5 DEF MoreSectors, RestBytes
<1>8. /\ more \in Nat /\ first \in Nat /\ last \in Nat /\ first <= last
      /\ last + 1 <= old + more /\ (more > 0 => last + 1 = old + more)
      /\ start <= old * z => first <= old
      /\ (old + more) * z >= start + size
  <2>1. z \in Nat \ {0} /\ first = start \div z /\ last = ((start + size) - 1) \div z
    BY <1>1, <1>2
  <2>2. AppendSum(z, old, start, size, more, first, last)
    BY <1>5a, <1>6, <1>7, <2>1, AppendArithmetic
  <2> QED
    BY <2>2 DEF AppendSum
<1>8a. start \in Nat /\ more \in Nat /\ first \in Nat
  BY <1>6, <1>8
<1>9. /\ c \in Nat \ {0} /\ first + c = last + 1 /\ first + c <= old + more
      /\ more > 0 => first + c = old + more
  BY <1>8
<1>10. PICK g : g = [numBytes |-> start + size, flag |-> f, dataSectors |-> L]
  OBVIOUS
<1>11. g \in MemHeader /\ g.dataSectors = L /\ g.flag = f /\ g.numBytes = start + size
  <2>1. start + size \in Nat
    BY <1>6
  <2>2. [numBytes |-> start + size, flag |-> f, dataSectors |-> L] \in MemHeader
    BY <1>3, <2>1 DEF MemHeader
  <2>3. g.dataSectors = L /\ g.flag = f /\ g.numBytes = start + size
    BY <1>10
  <2> QED
    BY <1>10, <2>2, <2>3, Zenon
<1>12. r = IF more = 0 THEN [map |-> map, hdr |-> g] ELSE Grow(g, map, more)
  <2>1. [h EXCEPT !.numBytes = Kept(h, half) + size] = g
    <3>1. PICK k : k = start + size
      OBVIOUS
    <3>2. [h EXCEPT !.numBytes = k] = [numBytes |-> k, flag |-> f, dataSectors |-> L]
      BY <1>4
    <3> QED
      BY <1>10, <3>1, <3>2
  <2> QED
    BY <2>1 DEF AppSector
<1>13. start + size > b \div 2
  BY <1>3, <1>6
<1>14. CASE more = 0
  <2>1. r.map = map /\ r.hdr = g
    BY <1>12, <1>14
  <2>2. Len(r.hdr.dataSectors) = old /\ r.hdr \in MemHeader /\ r.hdr.numBytes = start + size
    BY <1>5, <1>11, <2>1
  <2>3. MapC([map |-> r.map])
    BY <1>1, <2>1 DEF MapC
  <2>4. ASSUME WellFormed(d, s), UsesOf(d, s) \subseteq MapOf(d)
        PROVE  Longer(d, s, r.hdr, more, r.map, first, c)
    <3>1. old * z >= b /\ Len(d[s].direct) = Min2(old, NumHdr) /\ (f # -1 => f \in MapOf(d))
      BY <1>2, <1>5, <2>4 DEF WellFormed, UsesOf
    <3>2. first <= old
      <4>1. PICK y \in Nat : y = old * z
        BY <1>1, <1>2, <1>5a
      <4>2. start <= y
        BY <1>3, <1>6, <3>1, <4>1
      <4>3. start <= old * z => first <= old
        BY <1>8
      <4> QED
        BY <4>1, <4>2, <4>3
    <3>3. f = -1 => old <= NumHdr
      BY <1>1, <1>3, <1>5, <1>5a, <3>1 DEF Min2
    <3>4. \A i : i \notin old + 1 .. old + more /\ i \notin old + 1 .. old + more - 1
      BY <1>5a, <1>14
    <3>5. r.map = MapOf(d) \cup (({L[i] : i \in old + 1 .. old + more} \cup {f}) \ {-1})
      <4>1. {L[i] : i \in old + 1 .. old + more} = {}
        BY <3>4
      <4> QED
        BY <2>1, <3>1, <4>1
    <3>6. Len(L) = old + more /\ first + c <= old + more /\ (more > 0 => first + c = old + more)
      BY <1>5, <1>5a, <1>9, <1>14
    <3>7. old * z >= start + size
      BY <1>5a, <1>8, <1>14
    <3>8. PICK hh : hh = r.hdr
      OBVIOUS
    <3>9. PICK ds, e : ds = L /\ e = f
      OBVIOUS
    <3>10. /\ hh.dataSectors = ds /\ hh.flag = e /\ Listing(d, s) = L /\ d[s].flag = e /\ SectorSize = z
           /\ hh.numBytes = start + size /\ Len(L) = old
      BY <1>2, <1>5, <1>11, <2>1, <3>8, <3>9
    <3>11. more = 0 /\ ~(more > 0)
      BY <1>14
    <3>12. Len(ds) = old + more /\ (\A i \in 1 .. old : ds[i] = L[i])
      BY <3>6, <3>9
    <3>13. e = -1 => Len(ds) <= NumHdr
      BY <1>5, <3>3, <3>9
    <3>14. r.map = MapOf(d) \cup (({ds[i] : i \in old + 1 .. old + more} \cup {e}) \ {-1})
      BY <3>5, <3>9
    <3>15. Len(ds) * z >= hh.numBytes
      BY <1>5, <3>7, <3>9, <3>10
    <3>16. first <= old /\ first + c <= old + more /\ (more > 0 => first + c = old + more)
      BY <3>2, <3>6
    <3>17. Longer(d, s, hh, more, r.map, first, c)
      BY <3>4, <3>10, <3>11, <3>12, <3>13, <3>14, <3>15, <3>16 DEF Longer
    <3> QED
      BY <3>8, <3>17
  <2>5. first + c <= Len(r.hdr.dataSectors)
    BY <1>9, <1>14, <2>2, <1>5a
  <2> QED
    BY <1>2, <1>8a, <1>9, <1>13, <2>2, <2>3, <2>4, <2>5 DEF Appended
<1>15. CASE more # 0
  <2>1. Grown(g, map, more, r)
    BY <1>1, <1>8, <1>11, <1>12, <1>15, GrowFacts
  <2>2. PICK ds, e, clear : ds = r.hdr.dataSectors /\ e = r.hdr.flag /\ clear = NumClear(map)
    OBVIOUS
  <2>3. /\ r.hdr \in MemHeader /\ r.hdr.numBytes = start + size
        /\ Len(ds) = old + more
        /\ \A i \in 1 .. old : ds[i] = L[i]
        /\ Room(ds, old, more, e, map, clear)
        /\ r.map = map \cup (({ds[i] : i \in old + 1 .. old + more} \cup {e}) \ {-1})
    BY <1>5, <1>11, <2>1, <2>2 DEF Grown
  <2>4. clear \in Nat /\ clear >= more
    <3>1. clear \in Nat
      BY <1>1, <1>8, <2>2, FindFacts
    <3> QED
      BY <2>2, <3>1 DEF CanAppend
  <2>5. /\ \A i \in old + 1 .. old + more : ds[i] = -1 \/ ds[i] \in Sector \ map
        /\ \A i, j \in old + 1 .. old + more : ds[i] = ds[j] /\ ds[i] # -1 => i = j
    BY <2>3 DEF Room
  <2>6. /\ e = -1 \/ e \in Sector \ map
        /\ e # -1 => \A i \in old + 1 .. old + more : ds[i] # e
    BY <2>3 DEF Room
  <2>7. \A i \in old + 1 .. old + more - 1 : ds[i] # -1
    BY <2>3, <2>4 DEF Room
  <2>8. e = -1 => Len(ds) <= NumHdr
    <3>1. clear >= more /\ more > 0 /\ old + more > NumHdr => e # -1
      BY <2>3 DEF Room
    <3>2. more \in Nat /\ more > 0
      BY <1>8, <1>15
    <3>3. old + more > NumHdr => e # -1
      BY <2>4, <3>1, <3>2
    <3>4. Len(ds) = old + more
      BY <2>3
    <3> QED
      BY <1>1, <1>5a, <3>2, <3>3, <3>4
  <2>9. MapC([map |-> r.map])
    <3>1. {ds[i] : i \in old + 1 .. old + more} \subseteq Sector \cup {-1}
      BY <2>5
    <3>2. Reserved \subseteq r.map /\ r.map \subseteq Sector
      BY <1>1, <2>3, <2>6, <3>1
    <3> QED
      BY <3>2 DEF MapC
  <2>10. ASSUME WellFormed(d, s), UsesOf(d, s) \subseteq MapOf(d)
         PROVE  Longer(d, s, r.hdr, more, r.map, first, c)
    <3>1. old * z >= b
      BY <1>2, <1>5, <2>10 DEF WellFormed
    <3>2. first <= old
      <4>1. PICK y \in Nat : y = old * z
        BY <1>1, <1>2, <1>5a
      <4>2. start <= y
        BY <1>3, <1>6, <3>1, <4>1
      <4>3. start <= old * z => first <= old
        BY <1>8
      <4> QED
        BY <4>1, <4>2, <4>3
    <3>3. PICK hh : hh = r.hdr
      OBVIOUS
    <3>4. /\ hh.dataSectors = ds /\ hh.flag = e /\ Listing(d, s) = L /\ Len(L) = old /\ MapOf(d) = map
          /\ SectorSize = z
      BY <1>2, <1>5, <2>2, <3>3
    <3>5. /\ Len(ds) = old + more /\ (\A i \in 1 .. old : ds[i] = L[i])
          /\ Len(ds) * z >= hh.numBytes /\ more # 0
      BY <1>8, <1>15, <2>3, <3>3
    <3> HIDE <1>7, <1>8
    <3>6. Longer(d, s, hh, more, r.map, first, c)
      BY <1>9, <2>3, <2>5, <2>6, <2>7, <2>8, <3>2, <3>4, <3>5 DEF Longer
    <3> QED
      BY <3>3, <3>6
  <2>11. first + c <= Len(r.hdr.dataSectors)
    BY <1>9, <2>2, <2>3
  <2> QED
    BY <1>2, <1>8a, <1>9, <1>13, <2>3, <2>9, <2>10, <2>11 DEF Appended
<1> QED
  BY <1>14, <1>15

-----------------------------------------------------------------------------
(* The state between two steps.                                            *)

TaskType == [do : {"fill", "append"}, name : Name, size : Nat, half : BOOLEAN]

\* Nothing is neither a length nor a task.
LEMMA TaskConstants == Nothing \notin Nat /\ Nothing \notin TaskType
BY FileSystemAssumption DEF TaskType

\* File n exists and lists k sectors.
Has(D, n, k) ==
  /\ n \in DOMAIN DirOf(D) /\ Hdr(D[DirOf(D)[n]])
  /\ Len(Listing(D, DirOf(D)[n])) = k

\* The rest of a command, on the disk that its writes leave behind.
TaskOK(D, task) ==
  /\ task \in TaskType /\ task.size > 0
  /\ task.name \in DOMAIN DirOf(D)
  /\ task.do = "fill" => Has(D, task.name, divRoundUp(task.size, SectorSize))

Pend(d, w, task) == task # Nothing => Distinct(w) /\ TaskOK(After(d, w, Len(w)), task)
Skip(task) == IF task # Nothing /\ task.do = "fill" THEN {task.name} ELSE {}

\* Whatever the user interrupts, a sector holds what belongs there; and until
\* the first ctl-C the writes to come do what they should.
FState(d, w, task, fl, c, ab, gone) ==
  /\ Disk(d) /\ Fitting(w) /\ Pend(d, w, task)
  /\ fl \in {"", "sectorNumber", "freeMap->Test"} /\ ab \in BOOLEAN /\ c \in 0 .. MaxCtlC
  /\ c = 0 => Good(d, w, Skip(task)) /\ (~ab => Neat(d, w, gone)) /\ fl # "freeMap->Test"

FInv == FState(disk, writes, next, failed, ctlC, aborted, lost)

\* When nothing is left to write.
LEMMA EmptyPlan ==
  \A d, skip : Disk(d) =>
    /\ Fitting(<<>>) /\ Distinct(<<>>) /\ Len(<<>>) = 0 /\ After(d, <<>>, 0) = d
    /\ Good(d, <<>>, skip) <=> Whole(d, skip)
    /\ \A gone : Neat(d, <<>>, gone) <=> Tidy(d, gone)
<1> SUFFICES ASSUME NEW d, NEW skip, Disk(d)
             PROVE  /\ Fitting(<<>>) /\ Distinct(<<>>) /\ Len(<<>>) = 0 /\ After(d, <<>>, 0) = d
                    /\ Good(d, <<>>, skip) <=> Whole(d, skip)
                    /\ \A gone : Neat(d, <<>>, gone) <=> Tidy(d, gone)
  OBVIOUS
<1>1. PICK w : w = <<>>
  OBVIOUS
<1>2. IsSeq(w) /\ Len(w) = 0
  BY <1>1, EmptySeq DEF IsSeq
<1>3. \A i : i \notin 1 .. 0
  OBVIOUS
<1>4. Fitting(w) /\ Distinct(w)
  BY <1>2, <1>3 DEF Fitting, Distinct
<1>5. After(d, w, 0) = d
  BY AfterNone
<1>6. \A gone : Neat(d, w, gone) <=> Tidy(d, gone)
  BY <1>2, <1>3, <1>5 DEF Neat, Reached
<1>7. At(w, 0) = 0 /\ 0 # -1
  BY <1>2 DEF At
<1>8. State(d, w, skip, 0) <=> Whole(d, skip)
  BY <1>2, <1>5, <1>7, WholeIsSafe DEF State
<1>9. Good(d, w, skip) <=> State(d, w, skip, 0)
  <2>1. \A k : k \in 0 .. Len(w) <=> k = 0
    BY <1>2
  <2>2. Reached(w, 0)
    BY <1>3 DEF Reached
  <2> QED
    BY <1>4, <2>1, <2>2 DEF Good
<1> QED
  BY <1>1, <1>2, <1>4, <1>5, <1>6, <1>8, <1>9

\* One more sector is written.
Advanced(d, w, e, v) ==
  /\ Disk(e) /\ Fitting(v)
  /\ Distinct(w) => /\ Distinct(v) /\ e = After(d, w, 1)
                    /\ After(e, v, Len(v)) = After(d, w, Len(w))
  /\ \A skip : Good(d, w, skip) => Good(e, v, skip)
  /\ \A gone : Distinct(w) /\ Neat(d, w, gone) => Neat(e, v, gone)

LEMMA OneWritten ==
  ASSUME NEW d, Disk(d), NEW w, Fitting(w), w # <<>>, w[1].at # -1,
         NEW e, e = [d EXCEPT ![w[1].at] = w[1].put], NEW v, v = Tail(w)
  PROVE  Advanced(d, w, e, v)
<1>1. IsSeq(w) /\ Len(w) \in Nat /\ Len(w) > 0
  <2>1. IsSeq(w)
    BY DEF Fitting
  <2>2. w \in Seq(ToSet(w)) /\ Len(w) \in Nat
    BY <2>1, SeqFacts DEF IsSeq
  <2>3. Len(w) # 0
    BY <2>2, EmptySeq
  <2> QED
    BY <2>1, <2>2, <2>3
<1>2. IsSeq(v) /\ Len(v) \in Nat /\ Len(v) = Len(w) - 1 /\ \A i \in 1 .. Len(v) : v[i] = w[i + 1]
  <2>1. w \in Seq(ToSet(w))
    BY <1>1 DEF IsSeq
  <2>2. v \in Seq(ToSet(w)) /\ Len(v) = Len(w) - 1 /\ \A i \in 1 .. Len(v) : v[i] = w[i + 1]
    BY <2>1, HeadTailProperties
  <2> QED
    BY <2>2, <1>1, SeqFacts
<1>3. PICK at, put : at = w[1].at /\ put = w[1].put
  OBVIOUS
<1>4. at \in Sector /\ at \in Usable \cup {MapData, DirData} /\ Fit(at, put)
  <2>1. w[1].at \in Slot \cup {MapData, DirData} /\ Fit(w[1].at, w[1].put)
    BY <1>1 DEF Fitting
  <2>2. MapData \in Sector /\ DirData \in Sector
    BY SlotFacts DEF Reserved
  <2> QED
    BY <1>3, <2>1, <2>2, SlotFacts DEF Slot
<1>5. e = [d EXCEPT ![at] = put]
  BY <1>3
<1>6. Disk(e)
  <2>1. d = [s \in Sector |-> d[s]] /\ \A s \in Sector \ {FreeMapSector, DirectorySector} : Fit(s, d[s])
    BY DEF Disk
  <2>2. DOMAIN d = Sector
    BY <2>1
  <2>3. e = [s \in Sector |-> e[s]] /\ \A s \in Sector : e[s] = IF s = at THEN put ELSE d[s]
    BY <1>4, <1>5, <2>2
  <2>4. \A s \in Sector \ {FreeMapSector, DirectorySector} : Fit(s, e[s])
    BY <1>4, <2>1, <2>3
  <2> QED
    BY <2>3, <2>4 DEF Disk
<1>7. Fitting(v)
  <2>1. \A i \in 1 .. Len(v) : i + 1 \in 1 .. Len(w)
    BY <1>1, <1>2
  <2> QED
    BY <1>2, <2>1 DEF Fitting
<1>8. ASSUME Distinct(w) PROVE Distinct(v)
  <2>1. \A i \in 1 .. Len(v) : i \in Nat /\ i + 1 \in 1 .. Len(w)
    BY <1>1, <1>2
  <2>2. ASSUME NEW i \in 1 .. Len(v), NEW j \in 1 .. Len(v), v[i].at = v[j].at PROVE i = j
    <3>1. w[i + 1].at = w[j + 1].at
      BY <1>2, <2>2
    <3>2. i + 1 = j + 1
      BY <1>8, <2>1, <3>1 DEF Distinct
    <3> QED
      BY <2>1, <3>2
  <2> QED
    BY <2>2 DEF Distinct
<1>9. ASSUME Distinct(w), NEW k \in 0 .. Len(w) - 1 PROVE After(e, v, k) = After(d, w, k + 1)
  BY <1>1, <1>3, <1>4, <1>9, AfterOne
<1>10. ASSUME Distinct(w) PROVE e = After(d, w, 1) /\ After(e, v, Len(v)) = After(d, w, Len(w))
  <2>1. 0 \in 0 .. Len(w) - 1 /\ Len(v) \in 0 .. Len(w) - 1 /\ Len(v) + 1 = Len(w)
    BY <1>1, <1>2
  <2>2. After(e, v, 0) = After(d, w, 1)
    <3>1. PICK k, l : k = 0 /\ l = k + 1
      OBVIOUS
    <3>2. After(e, v, k) = After(d, w, l)
      BY <1>9, <1>10, <2>1, <3>1
    <3>3. l = 1
      BY <3>1
    <3> QED
      BY <3>1, <3>2, <3>3
  <2>3. After(e, v, Len(v)) = After(d, w, Len(w))
    <3>1. PICK k, l : k = Len(v) /\ l = k + 1
      OBVIOUS
    <3>2. After(e, v, k) = After(d, w, l)
      BY <1>9, <1>10, <2>1, <3>1
    <3>3. l = Len(w)
      BY <2>1, <3>1
    <3> QED
      BY <3>1, <3>2, <3>3
  <2>4. After(e, v, 0) = e
    BY <1>6, AfterNone
  <2> QED
    BY <2>2, <2>3, <2>4
<1>11. ASSUME NEW k \in 0 .. Len(v), Reached(v, k) PROVE Reached(w, k + 1)
  <2>1. \A i \in 1 .. k + 1 : i = 1 \/ (i - 1 \in 1 .. k /\ i - 1 \in 1 .. Len(v) /\ (i - 1) + 1 = i)
    BY <1>2
  <2> QED
    BY <1>2, <1>11, <2>1 DEF Reached
<1>12. ASSUME NEW k \in 0 .. Len(v) PROVE At(v, k) = At(w, k + 1) /\ (k < Len(v) <=> k + 1 < Len(w)) /\ (k = Len(v) <=> k + 1 = Len(w))
  <2>1. (k < Len(v) <=> k + 1 < Len(w)) /\ (k = Len(v) <=> k + 1 = Len(w))
    BY <1>1, <1>2
  <2>2. k < Len(v) => v[k + 1] = w[(k + 1) + 1]
    BY <1>2
  <2> QED
    BY <2>1, <2>2 DEF At
<1>13. ASSUME NEW skip, Good(d, w, skip) PROVE Good(e, v, skip)
  <2>1. Distinct(w) /\ \A k \in 0 .. Len(w) : Reached(w, k) => State(d, w, skip, k)
    BY <1>13 DEF Good
  <2>2. ASSUME NEW k \in 0 .. Len(v), Reached(v, k) PROVE State(e, v, skip, k)
    <3>1. PICK m \in Nat : m = k + 1
      BY <1>2
    <3>2. m \in 0 .. Len(w) /\ k \in 0 .. Len(w) - 1 /\ (k < Len(v) => m \in 0 .. Len(w) - 1)
      BY <1>1, <1>2, <3>1
    <3>3. State(d, w, skip, m)
      BY <1>11, <2>1, <2>2, <3>1, <3>2
    <3>4. After(e, v, k) = After(d, w, m)
      BY <1>9, <2>1, <3>1, <3>2
    <3>5. k < Len(v) => After(e, v, k + 1) = After(d, w, m + 1)
      BY <1>9, <2>1, <3>1, <3>2
    <3>6. At(v, k) = At(w, m) /\ (k < Len(v) <=> m < Len(w)) /\ (k = Len(v) <=> m = Len(w))
      BY <1>12, <3>1
    <3> QED
      BY <3>3, <3>4, <3>5, <3>6 DEF State
  <2> QED
    BY <1>8, <2>1, <2>2 DEF Good
<1>14. ASSUME Distinct(w), NEW gone, Neat(d, w, gone) PROVE Neat(e, v, gone)
  <2>1. Len(v) \in 0 .. Len(v) /\ Len(v) + 1 = Len(w)
    BY <1>1, <1>2
  <2>2. Reached(v, Len(v)) => Reached(w, Len(w))
    BY <1>11, <2>1
  <2> QED
    BY <1>10, <1>14, <2>2 DEF Neat
<1> QED
  BY <1>6, <1>7, <1>8, <1>10, <1>13, <1>14 DEF Advanced

\* One that is not of a sector.
LEMMA NotWritten ==
  ASSUME NEW d, Disk(d), NEW w, IsSeq(w), w # <<>>, w[1].at = -1, NEW skip, Good(d, w, skip)
  PROVE  Whole(d, {})
<1>1. Len(w) \in Nat /\ 0 < Len(w)
  BY EmptySeq, SeqFacts DEF IsSeq
<1>2. Reached(w, 0)
  BY DEF Reached
<1>3. State(d, w, skip, 0)
  BY <1>1, <1>2 DEF Good
<1>4. At(w, 0) = -1
  BY <1>1 DEF At
<1> QED
  BY <1>3, <1>4, AfterNone DEF State

-----------------------------------------------------------------------------
(* The writes of each command.                                             *)

\* What Create() plans for a file of k sectors.
CreatePlanned(d, w, n, k) ==
  /\ Fitting(w) /\ Distinct(w) /\ Has(After(d, w, Len(w)), n, k)
  /\ \A skip : Whole(d, {}) /\ n \notin DOMAIN DirOf(d) /\ (n \in skip \/ k = 0) =>
       Good(d, w, skip) /\ (\A gone : Tidy(d, gone) => Neat(d, w, gone))

\* A new file can be created with these writes.
LEMMA CreatePlan ==
  ASSUME NEW d, Disk(d), NEW n \in Name, NEW s, NEW h, NEW dir, NEW map, NEW k \in Nat,
         NewFile(d, n, s, h, dir, map, k), NEW w, Creating(w, s, h, dir, map)
  PROVE  CreatePlanned(d, w, n, k)
<1>1. /\ s \in Sector \ MapOf(d) /\ h \in MemHeader /\ Len(h.dataSectors) = k
      /\ \A t \in ToSet(h.dataSectors) : t \in Sector \ MapOf(d) /\ t # s /\ t # h.flag
      /\ IsInjective(h.dataSectors)
      /\ h.flag = -1 \/ h.flag \in Sector \ MapOf(d)
      /\ h.flag # s
      /\ h.flag = -1 => Len(h.dataSectors) <= NumHdr
      /\ Len(h.dataSectors) * SectorSize >= h.numBytes
      /\ dir = [m \in DOMAIN DirOf(d) \cup {n} |-> IF m = n THEN s ELSE DirOf(d)[m]]
      /\ map = MapOf(d) \cup (({s} \cup ToSet(h.dataSectors)) \cup ({h.flag} \ {-1}))
  BY DEF NewFile
<1>2. /\ MapOf(d) \subseteq Sector /\ Reserved \subseteq MapOf(d) /\ DOMAIN DirOf(d) \subseteq Name
      /\ \A m \in DOMAIN DirOf(d) : DirOf(d)[m] \in Usable
  BY DiskFacts
<1>3. s \in Usable
  BY <1>1, <1>2 DEF Usable
<1>4. DirC([dir |-> dir])
  <2>1. DOMAIN dir \subseteq Name /\ \A m \in DOMAIN dir : dir[m] \in Usable
    BY <1>1, <1>2, <1>3
  <2> QED
    BY <2>1 DEF DirC
<1>5. MapC([map |-> map])
  <2>1. Reserved \subseteq map /\ map \subseteq Sector
    BY <1>1, <1>2
  <2> QED
    BY <2>1 DEF MapC
<1>6. Fitting(w) /\ Distinct(w)
  BY <1>1, <1>3, <1>4, <1>5, CreatingFits
<1>7. PICK E, p : E = After(d, w, Len(w)) /\ p = (IF h.flag = -1 THEN 1 ELSE 2)
  OBVIOUS
<1>8. Len(w) = p + 2 /\ p \in {1, 2} /\ p \in Nat
  BY <1>7 DEF Creating
<1>9. CreatingDone(d, s, h, dir, map, Len(w), E)
  <2>1. Len(w) \in 0 .. Len(w)
    BY <1>8
  <2> QED
    BY <1>1, <1>3, <1>4, <1>5, <1>7, <2>1, CreatingAfter
<1>10. /\ Disk(E) /\ DirOf(E) = dir /\ E[s] = HeaderOf(h) /\ (h.flag # -1 => E[h.flag] = IndexOf(h))
  <2>1. PICK m \in Nat : m = Len(w)
    BY <1>8
  <2>2. m >= 1 /\ m >= p /\ m > p
    BY <1>8, <2>1
  <2>3. CreatingDone(d, s, h, dir, map, m, E)
    BY <1>9, <2>1
  <2> QED
    BY <1>7, <2>2, <2>3 DEF CreatingDone
<1>11. Hdr(E[s]) /\ Listing(E, s) = h.dataSectors
  BY <1>1, <1>3, <1>10, ReadBack
<1>12. n \in DOMAIN DirOf(E) /\ DirOf(E)[n] = s
  BY <1>1, <1>10
<1>13. Has(E, n, k)
  BY <1>1, <1>11, <1>12 DEF Has
<1>14. ASSUME NEW skip, Whole(d, {}), n \notin DOMAIN DirOf(d), n \in skip \/ k = 0
       PROVE  Good(d, w, skip) /\ (\A gone : Tidy(d, gone) => Neat(d, w, gone))
  <2>1. n \in skip \/ ToSet(h.dataSectors) = {}
    <3>1. h.dataSectors \in Seq(Slot)
      BY <1>1 DEF MemHeader
    <3>2. k = 0 => ToSet(h.dataSectors) = {}
      BY <1>1, <3>1, SeqFacts
    <3> QED
      BY <1>14, <3>2
  <2> QED
    BY <1>1, <1>14, <2>1, TaskConstants, CreateGood
<1> QED
  BY <1>6, <1>7, <1>13, <1>14 DEF CreatePlanned

\* CreateWrites() is such a plan.
LEMMA CreateWritesPlan ==
  ASSUME Disk(disk), NEW n \in Name, NEW size \in Nat, CanCreate(n, size)
  PROVE  /\ CreatePlanned(disk, CreateWrites(n, size), n, divRoundUp(size, SectorSize))
         /\ n \notin DOMAIN DirOf(disk)
<1>1. PICK d : d = disk
  OBVIOUS
<1>2. FreeMap = MapOf(d) /\ Directory = DirOf(d)
  BY <1>1 DEF FreeMap, Directory, MapOf, DirOf
<1>3. PICK found : found = FindAll(MapOf(d), 1)
  OBVIOUS
<1>4. PICK marked : marked = Mark(MapOf(d), found)
  OBVIOUS
<1>5. PICK new : new = Allocate(marked, size)
  OBVIOUS
<1>6. PICK dir : dir = [m \in DOMAIN DirOf(d) \cup {n} |-> IF m = n THEN found[1] ELSE DirOf(d)[m]]
  OBVIOUS
<1>7. n \notin DOMAIN DirOf(d) /\ found[1] # -1 /\ Fits(marked, size)
  BY <1>2, <1>3, <1>4 DEF CanCreate, Exists
<1>8. NewFile(d, n, found[1], new.hdr, dir, new.map, divRoundUp(size, SectorSize))
  BY <1>1, <1>3, <1>4, <1>5, <1>6, <1>7, CreateParts
<1>9. PICK w : w = CreateWrites(n, size)
  OBVIOUS
<1>10. w = HeaderWrites(found[1], new.hdr) \o <<DirWrite(dir), MapWrite(new.map)>>
  BY <1>2, <1>3, <1>4, <1>5, <1>6, <1>9 DEF CreateWrites
<1>11. PICK k, s, h, map : k = divRoundUp(size, SectorSize) /\ s = found[1] /\ h = new.hdr /\ map = new.map
  OBVIOUS
<1>12. k \in Nat
  BY <1>11, DiskConstants, RoundUp
<1>13. NewFile(d, n, s, h, dir, map, k)
  BY <1>8, <1>11
<1>14. Creating(w, s, h, dir, map)
  <2>1. h \in MemHeader
    BY <1>13 DEF NewFile
  <2> QED
    BY <1>10, <1>11, <2>1, CreatingHolds
<1>15. CreatePlanned(d, w, n, k)
  BY <1>1, <1>12, <1>13, <1>14, CreatePlan
<1> QED
  BY <1>1, <1>7, <1>9, <1>11, <1>15

\* What Remove() plans for a file with index block f.
RemovePlanned(d, w, f) ==
  /\ Fitting(w)
  /\ Whole(d, {}) => /\ Good(d, w, {})
                     /\ \A a, b : Tidy(d, a) /\ GivesUp(a, b, f, -1) => Neat(d, w, b)

\* The map and the directory that Remove() writes.
LEMMA RemovePlan ==
  ASSUME NEW d, Disk(d), NEW n \in DOMAIN DirOf(d), NEW s, s = DirOf(d)[n], Hdr(d[s]),
         NEW map, map = MapOf(d) \ (ToSet(Listing(d, s)) \cup {s}),
         NEW dir, dir = [m \in DOMAIN DirOf(d) \ {n} |-> DirOf(d)[m]],
         NEW w, w = <<MapWrite(map), DirWrite(dir)>>
  PROVE  RemovePlanned(d, w, d[s].flag)
<1>1. Removing(w, map, dir)
  BY RemovingHolds
<1>2. /\ MapOf(d) \subseteq Sector /\ Reserved \subseteq MapOf(d) /\ DOMAIN DirOf(d) \subseteq Name
      /\ \A m \in DOMAIN DirOf(d) : DirOf(d)[m] \in Usable
  BY DiskFacts
<1>3. ToSet(Listing(d, s)) \subseteq Slot
  <2>1. Listing(d, s) \in Seq(Slot)
    BY <1>2, HeaderFacts
  <2> QED
    BY <2>1, ElementOfSeq, SeqFacts
<1>4. MapC([map |-> map])
  <2>1. Reserved \cap Slot = {} /\ s \notin Reserved
    BY <1>2, SlotFacts, DiskConstants DEF Slot, Usable
  <2>2. Reserved \subseteq map /\ map \subseteq Sector
    BY <1>2, <1>3, <2>1
  <2> QED
    BY <2>2 DEF MapC
<1>5. DirC([dir |-> dir])
  <2>1. DOMAIN dir \subseteq Name /\ \A m \in DOMAIN dir : dir[m] \in Usable
    BY <1>2
  <2> QED
    BY <2>1 DEF DirC
<1>6. Fitting(w)
  <2>1. IsSeq(w) /\ Len(w) = 2 /\ w[1] = MapWrite(map) /\ w[2] = DirWrite(dir)
    BY <1>1 DEF Removing
  <2>2. /\ w[1].at = MapData /\ w[1].put = [map |-> map]
        /\ w[2].at = DirData /\ w[2].put = [dir |-> dir]
    BY <2>1, WriteParts DEF MapWrite, DirWrite
  <2>3. Fit(w[1].at, w[1].put) /\ Fit(w[2].at, w[2].put)
    BY <1>4, <1>5, <2>2 DEF Fit, MapData, DirData
  <2>4. \A i \in 1 .. Len(w) : i = 1 \/ i = 2
    BY <2>1
  <2> QED
    BY <2>1, <2>2, <2>3, <2>4 DEF Fitting
<1>7. ASSUME Whole(d, {})
      PROVE  /\ Good(d, w, {})
             /\ \A a, b : Tidy(d, a) /\ GivesUp(a, b, d[s].flag, -1) => Neat(d, w, b)
  BY <1>1, <1>7, TaskConstants, RemoveGood
<1> QED
  BY <1>6, <1>7 DEF RemovePlanned

\* A header that can be read in.
LEMMA ReadIn ==
  \A s \in Usable : Disk(disk) /\ Readable(s) => Hdr(disk[s]) /\ FetchFrom(s) = Fetched(disk, s)
<1> SUFFICES ASSUME NEW s \in Usable, Disk(disk), Readable(s)
             PROVE  Hdr(disk[s]) /\ FetchFrom(s) = Fetched(disk, s)
  OBVIOUS
<1>1. Hdr(disk[s])
  BY DEF Readable, IsHeader, Hdr
<1>2. disk[s].flag > 0 => Idx(disk[disk[s].flag])
  BY DEF Readable, IsIndex, Idx
<1>3. CASE disk[s].flag > 0
  BY <1>1, <1>2, <1>3 DEF FetchFrom, Fetched, Listing
<1>4. CASE ~(disk[s].flag > 0)
  BY <1>1, <1>4 DEF FetchFrom, Fetched, Listing
<1> QED
  BY <1>3, <1>4

\* What OpenFile::WriteAt() plans for a file that was just created.
FillPlanned(d, w, n) ==
  /\ Fitting(w)
  /\ Whole(d, {n}) => Good(d, w, {}) /\ (\A gone : Tidy(d, gone) => Neat(d, w, gone))

\* DataWrites() fills a new file.
LEMMA FillPlan ==
  ASSUME NEW d, Disk(d), NEW n, NEW size \in Nat \ {0}, Has(d, n, divRoundUp(size, SectorSize)),
         NEW h, h = Fetched(d, DirOf(d)[n]), NEW w, w = DataWrites(n, h, 0, size)
  PROVE  FillPlanned(d, w, n)
<1>1. PICK s, L, z : s = DirOf(d)[n] /\ L = Listing(d, s) /\ z = SectorSize
  OBVIOUS
<1>2. n \in DOMAIN DirOf(d) /\ s \in Usable /\ Hdr(d[s]) /\ Len(L) = divRoundUp(size, z)
  BY <1>1, DiskFacts DEF Has
<1>3. z \in Nat \ {0} /\ h.dataSectors = L
  BY <1>1, DiskConstants DEF Fetched
<1>4. PICK c : c = Len(L)
  OBVIOUS
<1>5. L \in Seq(Slot) /\ c \in Nat /\ \A i \in 1 .. c : L[i] \in Slot
  <2>1. L \in Seq(Slot)
    BY <1>1, <1>2, HeaderFacts
  <2> QED
    BY <1>4, <2>1, LenProperties, ElementOfSeq
<1>6. 0 \div z = 0
  <2>1. 0 * z = 0 /\ 0 < (0 * z) + z
    BY <1>3
  <2> QED
    BY <1>3, <2>1, Quotient
<1>7. c = ((size - 1) \div z) + 1
  BY <1>2, <1>3, <1>4, RoundUp
<1>8. w = [i \in 1 .. c |-> Write(L[i], Written(n))]
  <2>1. PICK last : last = (size - 1) \div z
    OBVIOUS
  <2>2. size - 1 \in Nat /\ last \in Nat
    <3>1. size - 1 \in Nat
      OBVIOUS
    <3> QED
      BY <1>3, <2>1, <3>1, Division
  <2>3. last - 0 + 1 = c /\ \A i \in 1 .. c : 0 + i = i
    BY <1>5, <1>7, <2>1, <2>2
  <2>4. w = [i \in 1 .. last - 0 + 1 |-> Write(L[0 + i], Written(n))]
    BY <1>1, <1>3, <1>6, <2>1 DEF DataWrites
  <2>5. [i \in 1 .. c |-> Write(L[0 + i], Written(n))] = [i \in 1 .. c |-> Write(L[i], Written(n))]
    BY <2>3
  <2> QED
    BY <2>3, <2>4, <2>5
<1>9. IsSeq(w) /\ Len(w) = c /\ \A i \in 1 .. c : w[i] = Write(L[i], Written(n))
  <2>1. DOMAIN w = 1 .. c /\ \A i \in 1 .. c : w[i] = Write(L[i], Written(n))
    BY <1>8
  <2>2. PICK T : T = {w[i] : i \in 1 .. c}
    OBVIOUS
  <2>3. w = [i \in 1 .. c |-> w[i]] /\ \A i \in 1 .. c : w[i] \in T
    BY <1>8, <2>1, <2>2
  <2>4. w \in [1 .. c -> T]
    BY <2>3
  <2>5. w \in Seq(T)
    BY <1>5, <2>4
  <2>6. Len(w) = c
    BY <1>5, <2>4, <2>5, LenProperties
  <2> QED
    BY <2>1, <2>5, <2>6, SeqFacts
<1>10. Fitting(w)
  <2>1. ASSUME NEW i \in 1 .. Len(w)
        PROVE  w[i].at \in Slot \cup {MapData, DirData} /\ Fit(w[i].at, w[i].put)
    <3>1. w[i].at \in Slot /\ w[i].put = Written(n)
      BY <1>5, <1>9, <2>1, WriteParts
    <3>2. w[i].at \notin {MapData, DirData}
      BY <3>1, SlotFacts DEF Slot, MapData, DirData
    <3>3. DataC(Written(n))
      BY DEF DataC, Written
    <3> QED
      BY <3>1, <3>2, <3>3 DEF Fit
  <2> QED
    BY <1>9, <2>1 DEF Fitting
<1>11. ASSUME Whole(d, {n}) PROVE Good(d, w, {}) /\ (\A gone : Tidy(d, gone) => Neat(d, w, gone))
  <2>1. L = Listing(d, DirOf(d)[n]) /\ Len(w) = Len(L)
    BY <1>1, <1>4, <1>9
  <2>2. \A i \in 1 .. Len(w) : w[i] = Write(L[i], Written(n))
    BY <1>9
  <2> QED
    BY <1>2, <1>9, <1>11, <2>1, <2>2, FillGood
<1> QED
  BY <1>10, <1>11 DEF FillPlanned

\* What AppFileSize(), WriteAt() and WriteBack() plan, where the index block of
\* the header is f before and g afterwards.
ExtendPlanned(d, w, f, g) ==
  /\ Fitting(w)
  /\ Whole(d, {}) => /\ Good(d, w, {})
                     /\ \A a, b : Tidy(d, a) /\ GivesUp(a, b, f, g) => Neat(d, w, b)

ExtendWrites(d, n, s, size, half, h, map, r, start, w) ==
  /\ h = Fetched(d, s) /\ map = MapOf(d) /\ CanAppend(h, map, size, half)
  /\ r = AppSector(h, map, size, half) /\ start = Kept(h, half)
  /\ w = <<MapWrite(r.map)>> \o DataWrites(n, r.hdr, start, start + size) \o HeaderWrites(s, r.hdr)

\* Extend plans the writes of an append.
LEMMA ExtendPlan ==
  ASSUME NEW d, Disk(d), NEW n \in DOMAIN DirOf(d), NEW s, s = DirOf(d)[n], Hdr(d[s]),
         NEW size \in Nat \ {0}, NEW half, NEW h, NEW map, NEW r, NEW start, NEW w,
         ExtendWrites(d, n, s, size, half, h, map, r, start, w)
  PROVE  r.hdr.flag \in Slot /\ ExtendPlanned(d, w, d[s].flag, r.hdr.flag)
<1>0. /\ h = Fetched(d, s) /\ map = MapOf(d) /\ CanAppend(h, map, size, half)
      /\ r = AppSector(h, map, size, half) /\ start = Kept(h, half)
      /\ w = <<MapWrite(r.map)>> \o DataWrites(n, r.hdr, start, start + size) \o HeaderWrites(s, r.hdr)
  BY DEF ExtendWrites
<1>1. s \in Usable
  BY DiskFacts
<1>2. PICK more, first, last : /\ more = MoreSectors(h, size, half)
                               /\ first = start \div SectorSize
                               /\ last = ((start + size) - 1) \div SectorSize
  OBVIOUS
<1>3. PICK c : c = (last - first) + 1
  OBVIOUS
<1>4. Appended(d, s, size, half, start, more, first, c, r)
  BY <1>0, <1>1, <1>2, <1>3, AppendParts
<1>5. PICK g, m : g = r.hdr /\ m = r.map
  OBVIOUS
<1>6. /\ g \in MemHeader /\ g.numBytes = start + size /\ MapC([map |-> m])
      /\ start \in Nat /\ more \in Nat /\ first \in Nat /\ c \in Nat \ {0}
      /\ first + c <= Len(g.dataSectors)
      /\ start + size > d[s].numBytes \div 2
  BY <1>4, <1>5 DEF Appended
<1>7. WellFormed(d, s) /\ UsesOf(d, s) \subseteq MapOf(d) => Longer(d, s, g, more, m, first, c)
  BY <1>4, <1>5 DEF Appended
<1>8. PICK dw : /\ dw = [i \in 1 .. c |-> Write(g.dataSectors[first + i], Written(n))]
                /\ w = <<MapWrite(m)>> \o dw \o HeaderWrites(s, g)
  <2>1. DataWrites(n, g, start, start + size)
          = [i \in 1 .. (last - first) + 1 |-> Write(g.dataSectors[first + i], Written(n))]
    BY <1>2 DEF DataWrites
  <2>2. DataWrites(n, g, start, start + size)
          = [i \in 1 .. c |-> Write(g.dataSectors[first + i], Written(n))]
    BY <1>3, <2>1, Zenon
  <2>3. PICK dw : dw = DataWrites(n, g, start, start + size)
    OBVIOUS
  <2>4. w = <<MapWrite(m)>> \o dw \o HeaderWrites(s, g)
    BY <1>0, <1>5, <2>3
  <2> QED
    BY <2>2, <2>3, <2>4
<1>9. Extending(w, n, s, g, m, first, c)
  BY <1>6, <1>8, ExtendingHolds
<1>10. Fitting(w)
  BY <1>1, <1>6, <1>9, ExtendingFits
<1>11. ASSUME Whole(d, {})
       PROVE  /\ Good(d, w, {})
              /\ \A a, b : Tidy(d, a) /\ GivesUp(a, b, d[s].flag, g.flag) => Neat(d, w, b)
  <2>1. WellFormed(d, s) /\ UsesOf(d, s) \subseteq MapOf(d)
    BY <1>11 DEF Whole
  <2>2. g.numBytes > d[s].numBytes \div 2
    BY <1>6
  <2> QED
    BY <1>6, <1>7, <1>9, <1>11, <2>1, <2>2, ExtendGood
<1>12. g.flag \in Slot
  BY <1>6 DEF MemHeader
<1>13. ExtendPlanned(d, w, d[s].flag, g.flag)
  BY <1>10, <1>11 DEF ExtendPlanned
<1> QED
  BY <1>5, <1>12, <1>13

-----------------------------------------------------------------------------
(* Every step keeps the invariant.                                         *)

\* The formatted disk.
LEMMA FInitHolds ==
  ASSUME Init
  PROVE  FInv
<1>1. PICK d : d = disk
  OBVIOUS
<1>2. /\ {0, 1, 2, 3} \subseteq Sector /\ Reserved = {0, 1, 2, 3} /\ Reserved \subseteq Sector
      /\ MapData = 2 /\ DirData = 3 /\ FreeMapSector = 0 /\ DirectorySector = 1
  BY DiskConstants DEF Sector, Reserved, MapData, DirData, FreeMapSector, DirectorySector
<1>3. /\ DOMAIN d = Sector /\ d = [s \in Sector |-> d[s]]
      /\ d[2] = [map |-> {0, 1, 2, 3}] /\ d[3] = [dir |-> <<>>]
      /\ \A s \in Sector \ {0, 1, 2, 3} : d[s] = Garbage
  <2>1. d = [s \in Sector |->
               CASE s = FreeMapSector -> [numBytes |-> SectorSize, flag |-> -1, direct |-> <<MapData>>]
                 [] s = DirectorySector -> [numBytes |-> SectorSize, flag |-> -1, direct |-> <<DirData>>]
                 [] s = MapData -> [map |-> {FreeMapSector, DirectorySector, MapData, DirData}]
                 [] s = DirData -> [dir |-> <<>>]
                 [] OTHER -> Garbage]
    BY <1>1 DEF Init
  <2>2. DOMAIN d = Sector /\ d = [s \in Sector |-> d[s]]
    BY <2>1
  <2>3. \A s \in Sector : s # FreeMapSector /\ s # DirectorySector =>
          /\ s = MapData /\ s # DirData => d[s] = [map |-> {FreeMapSector, DirectorySector, MapData, DirData}]
          /\ s # MapData /\ s = DirData => d[s] = [dir |-> <<>>]
          /\ s # MapData /\ s # DirData => d[s] = Garbage
    BY <2>1
  <2>4. /\ MapData \in Sector /\ MapData # FreeMapSector /\ MapData # DirectorySector
        /\ DirData \in Sector /\ DirData # FreeMapSector /\ DirData # DirectorySector
        /\ DirData # MapData /\ {FreeMapSector, DirectorySector, MapData, DirData} = {0, 1, 2, 3}
    BY <1>2
  <2> QED
    BY <1>2, <2>2, <2>3, <2>4
<1>4. DataC(Garbage) /\ ~Idx(Garbage)
  BY DEF Garbage, DataC, Idx
<1>5. MapOf(d) = Reserved /\ DirOf(d) = <<>> /\ DOMAIN DirOf(d) = {}
  <2>1. MapOf(d) = Reserved /\ DirOf(d) = <<>>
    BY <1>2, <1>3 DEF MapOf, DirOf
  <2>2. DOMAIN <<>> = {}
    OBVIOUS
  <2> QED
    BY <2>1, <2>2
<1>6. Disk(d)
  <2>1. MapC(d[2])
    BY <1>2, <1>3 DEF MapC
  <2>2. DirC(d[3])
    <3>1. d[3].dir = DirOf(d)
      BY <1>2 DEF DirOf
    <3>2. DOMAIN d[3] = {"dir"}
      BY <1>3
    <3> QED
      BY <1>5, <3>1, <3>2 DEF DirC
  <2>3. \A s \in Sector \ {0, 1} : Fit(s, d[s])
    BY <1>2, <1>3, <1>4, <2>1, <2>2 DEF Fit
  <2> QED
    BY <1>2, <1>3, <2>3 DEF Disk
<1>7. Whole(d, {}) /\ Tidy(d, {})
  <2>1. \A t \in Sector \ MapOf(d) : ~Idx(d[t])
    BY <1>2, <1>3, <1>4, <1>5
  <2> QED
    BY <1>5, <2>1 DEF Whole, Apart, Tidy, Claimed
<1>8. writes = <<>> /\ next = Nothing /\ failed = "" /\ ctlC = 0 /\ aborted = FALSE /\ lost = {}
  BY DEF Init
<1>9. Skip(Nothing) = {}
  BY DEF Skip
<1>10. Fitting(<<>>) /\ Good(d, <<>>, {}) /\ Neat(d, <<>>, {})
  BY <1>6, <1>7, EmptyPlan
<1>11. Pend(d, <<>>, Nothing)
  BY DEF Pend
<1>12. 0 \in 0 .. MaxCtlC /\ FALSE \in BOOLEAN
  BY DiskConstants
<1>13. FState(d, <<>>, Nothing, "", 0, FALSE, {})
  BY <1>6, <1>9, <1>10, <1>11, <1>12 DEF FState
<1> QED
  BY <1>1, <1>8, <1>13 DEF FInv

\* A command begins to write.
LEMMA BeginStep ==
  ASSUME FInv, NEW w, NEW t, Begin(w, t), Fitting(w), Pend(disk, w, t),
         ctlC = 0 => Good(disk, w, Skip(t)) /\ (~aborted => Neat(disk, w, lost'))
  PROVE  FInv'
<1>1. PICK d, fl, c, ab, g : d = disk /\ fl = failed /\ c = ctlC /\ ab = aborted /\ g = lost'
  OBVIOUS
<1>2. FState(d, w, t, fl, c, ab, g)
  BY <1>1 DEF FInv, FState
<1>3. writes' = w /\ next' = t /\ disk' = d /\ failed' = fl /\ ctlC' = c /\ aborted' = ab /\ lost' = g
  BY <1>1 DEF Begin
<1> QED
  BY <1>2, <1>3 DEF FInv

\* When nothing is being written.
LEMMA AtRest ==
  ASSUME FInv, writes = <<>>
  PROVE  /\ Disk(disk) /\ Fitting(<<>>) /\ Distinct(<<>>)
         /\ After(disk, <<>>, Len(<<>>)) = disk
         /\ ctlC = 0 => Whole(disk, Skip(next)) /\ (~aborted => Tidy(disk, lost))
         /\ next # Nothing => TaskOK(disk, next)
<1>1. PICK d, t : d = disk /\ t = next
  OBVIOUS
<1>2. /\ Disk(d) /\ Pend(d, <<>>, t)
      /\ ctlC = 0 => Good(d, <<>>, Skip(t)) /\ (~aborted => Neat(d, <<>>, lost))
  BY <1>1 DEF FInv, FState
<1>3. /\ Fitting(<<>>) /\ Distinct(<<>>) /\ Len(<<>>) = 0 /\ After(d, <<>>, 0) = d
      /\ Good(d, <<>>, Skip(t)) <=> Whole(d, Skip(t))
      /\ \A gone : Neat(d, <<>>, gone) <=> Tidy(d, gone)
  BY <1>2, EmptyPlan
<1>4. After(d, <<>>, Len(<<>>)) = d
  BY <1>3
<1> QED
  BY <1>1, <1>2, <1>3, <1>4 DEF Pend

\* -cp: the file is created with its length, and has yet to be filled.
LEMMA CopyStep ==
  ASSUME FInv, NEW n \in Name, NEW size \in Sizes, Copy(n, size)
  PROVE  FInv'
<1>1. PICK d : d = disk
  OBVIOUS
<1>2. PICK w, t : w = CreateWrites(n, size) /\ t = IF size > 0 THEN Task("fill", n, size, FALSE) ELSE Nothing
  OBVIOUS
<1>3. writes = <<>> /\ next = Nothing /\ CanCreate(n, size) /\ Begin(w, t) /\ lost' = lost
  BY <1>2 DEF Copy, Idle
<1>4. size \in Nat /\ Skip(Nothing) = {}
  BY DiskConstants DEF Skip
<1>5. Disk(d) /\ (ctlC = 0 => Whole(d, {}) /\ (~aborted => Tidy(d, lost)))
  BY <1>1, <1>3, <1>4, AtRest
<1>6. PICK k : k = divRoundUp(size, SectorSize)
  OBVIOUS
<1>7. CreatePlanned(d, w, n, k) /\ n \notin DOMAIN DirOf(d)
  <2>1. Disk(disk) /\ CanCreate(n, size) /\ size \in Nat
    BY <1>1, <1>3, <1>4, <1>5
  <2>2. /\ CreatePlanned(disk, CreateWrites(n, size), n, divRoundUp(size, SectorSize))
        /\ n \notin DOMAIN DirOf(disk)
    BY <2>1, CreateWritesPlan
  <2>3. w = CreateWrites(n, size)
    BY <1>2
  <2> QED
    BY <1>1, <1>6, <2>2, <2>3
<1>8. Fitting(w) /\ Distinct(w) /\ Has(After(d, w, Len(w)), n, k)
  BY <1>7 DEF CreatePlanned
<1>9. CASE size > 0
  <2>1. t \in TaskType /\ t # Nothing /\ t.do = "fill" /\ t.name = n /\ t.size = size
    <3>1. t = [do |-> "fill", name |-> n, size |-> size, half |-> FALSE]
      BY <1>2, <1>9 DEF Task
    <3>2. t \in TaskType
      BY <1>4, <3>1 DEF TaskType
    <3> QED
      BY <3>1, <3>2, TaskConstants
  <2>2. Pend(d, w, t)
    BY <1>6, <1>8, <1>9, <2>1 DEF Pend, TaskOK, Has
  <2>3. Skip(t) = {n}
    BY <2>1 DEF Skip
  <2>4. ctlC = 0 => Good(d, w, Skip(t)) /\ (~aborted => Neat(d, w, lost'))
    BY <1>3, <1>5, <1>7, <2>3 DEF CreatePlanned
  <2> QED
    BY <1>1, <1>3, <1>8, <2>2, <2>4, BeginStep
<1>10. CASE ~(size > 0)
  <2>1. t = Nothing
    BY <1>2, <1>10
  <2>2. k = 0
    BY <1>4, <1>6, <1>10, DiskConstants, RoundUp
  <2>3. Pend(d, w, t)
    BY <2>1 DEF Pend
  <2>4. ctlC = 0 => Good(d, w, Skip(t)) /\ (~aborted => Neat(d, w, lost'))
    BY <1>3, <1>4, <1>5, <1>7, <2>1, <2>2 DEF CreatePlanned
  <2> QED
    BY <1>1, <1>3, <1>8, <2>3, <2>4, BeginStep
<1> QED
  BY <1>9, <1>10

\* -ap, -hap: a file that is not there is created empty.
LEMMA AppendToStep ==
  ASSUME FInv, NEW n \in Name, NEW size \in Sizes, NEW half \in BOOLEAN, AppendTo(n, size, half)
  PROVE  FInv'
<1>1. PICK d, t : d = disk /\ t = Task("append", n, size, half)
  OBVIOUS
<1>2. writes = <<>> /\ next = Nothing /\ size > 0 /\ OpenOrCreate(n, t) /\ lost' = lost
  BY <1>1 DEF AppendTo, Idle
<1>3. size \in Nat /\ Skip(Nothing) = {} /\ 0 \in Nat
  BY DiskConstants DEF Skip
<1>4. /\ Disk(d) /\ Fitting(<<>>) /\ Distinct(<<>>) /\ After(d, <<>>, Len(<<>>)) = d
      /\ ctlC = 0 => Whole(d, {}) /\ (~aborted => Tidy(d, lost))
  BY <1>1, <1>2, <1>3, AtRest
<1>5. t \in TaskType /\ t # Nothing /\ t.do = "append" /\ t.do # "fill" /\ t.name = n /\ t.size = size
  BY <1>1, <1>3, TaskConstants DEF Task, TaskType
<1>6. Skip(t) = {}
  BY <1>5 DEF Skip
<1>7. CASE Exists(n) /\ Begin(<<>>, t)
  <2>1. n \in DOMAIN DirOf(d)
    BY <1>1, <1>7 DEF Exists, Directory, DirOf
  <2>2. Pend(d, <<>>, t)
    BY <1>2, <1>4, <1>5, <2>1 DEF Pend, TaskOK
  <2>3. ctlC = 0 => Good(d, <<>>, Skip(t)) /\ (~aborted => Neat(d, <<>>, lost'))
    BY <1>2, <1>4, <1>6, EmptyPlan
  <2> QED
    BY <1>1, <1>4, <1>7, <2>2, <2>3, BeginStep
<1>8. CASE CanCreate(n, 0) /\ Begin(CreateWrites(n, 0), t)
  <2>1. PICK w, k : w = CreateWrites(n, 0) /\ k = divRoundUp(0, SectorSize)
    OBVIOUS
  <2>2. k = 0
    BY <1>3, <2>1, DiskConstants, RoundUp
  <2>3. CreatePlanned(d, w, n, k) /\ n \notin DOMAIN DirOf(d)
    BY <1>1, <1>3, <1>4, <1>8, <2>1, CreateWritesPlan
  <2>4. Fitting(w) /\ Distinct(w) /\ Has(After(d, w, Len(w)), n, k)
    BY <2>3 DEF CreatePlanned
  <2>5. Pend(d, w, t)
    BY <1>2, <1>5, <2>4 DEF Pend, TaskOK, Has
  <2>6. ctlC = 0 => Good(d, w, Skip(t)) /\ (~aborted => Neat(d, w, lost'))
    BY <1>2, <1>4, <1>6, <2>2, <2>3 DEF CreatePlanned
  <2> QED
    BY <1>1, <1>8, <2>1, <2>4, <2>5, <2>6, BeginStep
<1> QED
  BY <1>2, <1>7, <1>8 DEF OpenOrCreate

\* The bytes of a new file are written.
LEMMA FillStep ==
  ASSUME FInv, Fill
  PROVE  FInv'
<1>1. PICK d, t : d = disk /\ t = next
  OBVIOUS
<1>2. writes = <<>> /\ t # Nothing /\ t.do = "fill" /\ lost' = lost
  BY <1>1 DEF Fill, Pending
<1>3. Disk(d) /\ TaskOK(d, t) /\ (ctlC = 0 => Whole(d, Skip(t)) /\ (~aborted => Tidy(d, lost)))
  BY <1>1, <1>2, AtRest
<1>4. PICK n, size, s : n = t.name /\ size = t.size /\ s = DirOf(d)[n]
  OBVIOUS
<1>5. size \in Nat \ {0} /\ Has(d, n, divRoundUp(size, SectorSize)) /\ n \in DOMAIN DirOf(d)
  <2>1. t \in TaskType /\ t.size > 0
    BY <1>3 DEF TaskOK
  <2>2. t.size \in Nat
    BY <2>1 DEF TaskType
  <2> QED
    BY <1>2, <1>3, <1>4, <2>1, <2>2 DEF TaskOK
<1>6. Skip(t) = {n} /\ Skip(Nothing) = {}
  BY <1>2, <1>4 DEF Skip
<1>7. PICK h, w : h = Fetched(d, s) /\ w = DataWrites(n, h, 0, size)
  OBVIOUS
<1>8. s \in Usable
  BY <1>3, <1>4, <1>5, DiskFacts
<1>9. Begin(w, Nothing)
  <2>1. Directory[next.name] = s
    BY <1>1, <1>4 DEF Directory, DirOf
  <2>2. Readable(s) /\ Begin(DataWrites(n, FetchFrom(s), 0, size), Nothing)
    BY <1>1, <1>4, <2>1 DEF Fill
  <2>3. FetchFrom(s) = h
    BY <1>1, <1>3, <1>7, <1>8, <2>2, ReadIn
  <2> QED
    BY <1>7, <2>2, <2>3
<1>10. FillPlanned(d, w, n)
  BY <1>3, <1>4, <1>5, <1>7, FillPlan
<1>11. Fitting(w) /\ Pend(d, w, Nothing)
  BY <1>10 DEF FillPlanned, Pend
<1>12. ctlC = 0 => Good(d, w, Skip(Nothing)) /\ (~aborted => Neat(d, w, lost'))
  BY <1>2, <1>3, <1>6, <1>10 DEF FillPlanned
<1> QED
  BY <1>1, <1>9, <1>11, <1>12, BeginStep

\* What a header that changes gives up.
LEMMA GivenUp ==
  ASSUME NEW a, NEW b, NEW h, NEW g, h.flag \in Slot, g.flag \in Slot,
         b = a \cup (IndexBlock(h) \ IndexBlock(g))
  PROVE  GivesUp(a, b, h.flag, g.flag)
<1>1. PICK x, y : x = h.flag /\ y = g.flag
  OBVIOUS
<1>2. x \in Slot /\ y \in Slot /\ (x > 0 <=> x # -1) /\ (y > 0 <=> y # -1)
  BY <1>1, SlotPositive
<1>3. \A t : (t \in IndexBlock(h) <=> t = x /\ x # -1) /\ (t \in IndexBlock(g) <=> t = y /\ y # -1)
  BY <1>1, <1>2 DEF IndexBlock
<1> QED
  BY <1>1, <1>3 DEF GivesUp

\* And one that is removed.
LEMMA AllGivenUp ==
  ASSUME NEW a, NEW b, NEW h, h.flag \in Slot, b = a \cup (IndexBlock(h) \ {})
  PROVE  GivesUp(a, b, h.flag, -1)
<1>1. PICK x : x = h.flag
  OBVIOUS
<1>2. x > 0 <=> x # -1
  BY <1>1, SlotPositive
<1>3. \A t : t \in IndexBlock(h) <=> t = x /\ x # -1
  BY <1>1, <1>2 DEF IndexBlock
<1> QED
  BY <1>1, <1>3 DEF GivesUp

\* A file is appended to, or is not if that does not fit.
LEMMA ExtendStep ==
  ASSUME FInv, Extend
  PROVE  FInv'
<1>1. PICK d, t : d = disk /\ t = next
  OBVIOUS
<1>2. writes = <<>> /\ t # Nothing /\ t.do = "append"
  BY <1>1 DEF Extend, Pending
<1>3. /\ Disk(d) /\ TaskOK(d, t)
      /\ ctlC = 0 => Whole(d, Skip(t)) /\ (~aborted => Tidy(d, lost))
      /\ Fitting(<<>>)
  BY <1>1, <1>2, AtRest
<1>4. PICK n, size, half, s : n = t.name /\ size = t.size /\ half = t.half /\ s = DirOf(d)[n]
  OBVIOUS
<1>5. size \in Nat \ {0} /\ n \in DOMAIN DirOf(d) /\ s \in Usable
  <2>1. t \in TaskType /\ t.size > 0 /\ n \in DOMAIN DirOf(d)
    BY <1>3, <1>4 DEF TaskOK
  <2>2. t.size \in Nat
    BY <2>1 DEF TaskType
  <2> QED
    BY <1>3, <1>4, <2>1, <2>2, DiskFacts
<1>6. Skip(t) = {} /\ Skip(Nothing) = {}
  BY <1>2 DEF Skip
<1>7. Directory[next.name] = s /\ FreeMap = MapOf(d)
  BY <1>1, <1>4 DEF Directory, DirOf, FreeMap, MapOf
<1>8. Readable(s)
  BY <1>7 DEF Extend
<1>9. Hdr(d[s]) /\ FetchFrom(s) = Fetched(d, s)
  BY <1>1, <1>3, <1>5, <1>8, ReadIn
<1>10. PICK h, map, start, r : /\ h = Fetched(d, s) /\ map = MapOf(d) /\ start = Kept(h, half)
                               /\ r = AppSector(h, map, size, half)
  OBVIOUS
<1>11. PICK w : w = <<MapWrite(r.map)>> \o DataWrites(n, r.hdr, start, start + size)
                      \o HeaderWrites(s, r.hdr)
  OBVIOUS
<1>12. \/ /\ CanAppend(h, map, size, half) /\ Begin(w, Nothing)
          /\ lost' = lost \cup (IndexBlock(h) \ IndexBlock(r.hdr))
       \/ Begin(<<>>, Nothing) /\ lost' = lost
  <2>1. Directory[next.name] = s /\ next.name = n /\ next.size = size /\ next.half = half
        /\ FetchFrom(s) = h /\ FreeMap = map
    BY <1>1, <1>4, <1>7, <1>9, <1>10
  <2>2. PICK ns : ns = Directory[next.name]
    OBVIOUS
  <2>3. LET longer == AppSector(FetchFrom(ns), FreeMap, next.size, next.half)
            begin == Kept(FetchFrom(ns), next.half)
        IN \/ /\ CanAppend(FetchFrom(ns), FreeMap, next.size, next.half)
              /\ Begin(<<MapWrite(longer.map)>>
                         \o DataWrites(next.name, longer.hdr, begin, begin + next.size)
                         \o HeaderWrites(ns, longer.hdr), Nothing)
              /\ lost' = lost \cup (IndexBlock(FetchFrom(ns)) \ IndexBlock(longer.hdr))
           \/ Begin(<<>>, Nothing) /\ lost' = lost
    BY <2>2 DEF Extend
  <2>4. ns = s
    BY <2>1, <2>2
  <2>5. \/ /\ CanAppend(h, map, size, half)
           /\ Begin(<<MapWrite(AppSector(h, map, size, half).map)>>
                     \o DataWrites(n, AppSector(h, map, size, half).hdr, Kept(h, half), Kept(h, half) + size)
                     \o HeaderWrites(s, AppSector(h, map, size, half).hdr), Nothing)
           /\ lost' = lost \cup (IndexBlock(h) \ IndexBlock(AppSector(h, map, size, half).hdr))
        \/ Begin(<<>>, Nothing) /\ lost' = lost
    BY <2>1, <2>3, <2>4
  <2>6. \/ /\ CanAppend(h, map, size, half)
           /\ Begin(<<MapWrite(r.map)>> \o DataWrites(n, r.hdr, start, start + size)
                     \o HeaderWrites(s, r.hdr), Nothing)
           /\ lost' = lost \cup (IndexBlock(h) \ IndexBlock(r.hdr))
        \/ Begin(<<>>, Nothing) /\ lost' = lost
    BY <1>10, <2>5
  <2> QED
    BY <1>11, <2>6
<1>13. CASE /\ CanAppend(h, map, size, half) /\ Begin(w, Nothing)
            /\ lost' = lost \cup (IndexBlock(h) \ IndexBlock(r.hdr))
  <2>1. r.hdr.flag \in Slot /\ ExtendPlanned(d, w, d[s].flag, r.hdr.flag)
    <3>1. ExtendWrites(d, n, s, size, half, h, map, r, start, w)
      BY <1>10, <1>11, <1>13 DEF ExtendWrites
    <3> QED
      BY <1>3, <1>4, <1>5, <1>9, <3>1, ExtendPlan
  <2>2. Fitting(w) /\ Pend(d, w, Nothing)
    BY <2>1 DEF ExtendPlanned, Pend
  <2>3. ctlC = 0 => Good(d, w, Skip(Nothing)) /\ (~aborted => Neat(d, w, lost'))
    <3>1. h.flag = d[s].flag /\ d[s].flag \in Slot
      BY <1>3, <1>5, <1>9, <1>10, HeaderFacts DEF Fetched
    <3>2. GivesUp(lost, lost', d[s].flag, r.hdr.flag)
      BY <1>13, <2>1, <3>1, GivenUp
    <3> QED
      BY <1>3, <1>6, <2>1, <3>2 DEF ExtendPlanned
  <2> QED
    BY <1>1, <1>13, <2>2, <2>3, BeginStep
<1>14. CASE Begin(<<>>, Nothing) /\ lost' = lost
  <2>1. Pend(d, <<>>, Nothing)
    BY DEF Pend
  <2>2. ctlC = 0 => Good(d, <<>>, Skip(Nothing)) /\ (~aborted => Neat(d, <<>>, lost'))
    BY <1>3, <1>6, <1>14, EmptyPlan
  <2> QED
    BY <1>1, <1>3, <1>14, <2>1, <2>2, BeginStep
<1> QED
  BY <1>12, <1>13, <1>14

\* -r
LEMMA RemoveFileStep ==
  ASSUME FInv, NEW n \in Name, RemoveFile(n)
  PROVE  FInv'
<1>1. PICK d : d = disk
  OBVIOUS
<1>2. writes = <<>> /\ next = Nothing
  BY DEF RemoveFile, Idle
<1>3. Skip(Nothing) = {}
  BY DEF Skip
<1>4. Disk(d) /\ (ctlC = 0 => Whole(d, {}) /\ (~aborted => Tidy(d, lost)))
  BY <1>1, <1>2, <1>3, AtRest
<1>5. PICK s : s = DirOf(d)[n]
  OBVIOUS
<1>6. Directory = DirOf(d) /\ FreeMap = MapOf(d) /\ n \in DOMAIN DirOf(d) /\ Readable(s)
  BY <1>1, <1>5 DEF RemoveFile, Exists, Directory, DirOf, FreeMap, MapOf
<1>7. s \in Usable
  BY <1>4, <1>5, <1>6, DiskFacts
<1>8. Hdr(d[s]) /\ Freed(n) = Listing(d, s)
  <2>1. Hdr(d[s]) /\ FetchFrom(s) = Fetched(d, s)
    BY <1>1, <1>4, <1>6, <1>7, ReadIn
  <2>2. Freed(n) = FetchFrom(s).dataSectors
    BY <1>5, <1>6 DEF Freed
  <2> QED
    BY <2>1, <2>2 DEF Fetched
<1>9. PICK map, dir : /\ map = MapOf(d) \ (ToSet(Listing(d, s)) \cup {s})
                      /\ dir = [m \in DOMAIN DirOf(d) \ {n} |-> DirOf(d)[m]]
  OBVIOUS
<1>10. PICK w : w = <<MapWrite(map), DirWrite(dir)>>
  OBVIOUS
<1>11. Begin(w, Nothing)
  <2>1. FreeMap \ (ToSet(Freed(n)) \cup {Directory[n]}) = map
    BY <1>5, <1>6, <1>8, <1>9
  <2>2. [m \in DOMAIN Directory \ {n} |-> Directory[m]] = dir
    BY <1>6, <1>9
  <2> QED
    BY <1>10, <2>1, <2>2 DEF RemoveFile
<1>12. RemovePlanned(d, w, d[s].flag)
  BY <1>4, <1>5, <1>6, <1>8, <1>9, <1>10, RemovePlan
<1>13. Fitting(w) /\ Pend(d, w, Nothing)
  BY <1>12 DEF RemovePlanned, Pend
<1>14. ctlC = 0 => Good(d, w, Skip(Nothing)) /\ (~aborted => Neat(d, w, lost'))
  <2>1. lost' = lost \cup (IndexBlock(d[s]) \ {})
    BY <1>1, <1>5, <1>6 DEF RemoveFile
  <2>2. d[s].flag \in Slot
    BY <1>4, <1>7, <1>8, HeaderFacts
  <2>3. GivesUp(lost, lost', d[s].flag, -1)
    BY <2>1, <2>2, AllGivenUp
  <2> QED
    BY <1>3, <1>4, <1>12, <2>3 DEF RemovePlanned
<1> QED
  BY <1>1, <1>11, <1>13, <1>14, BeginStep

\* A run ends with an assertion, and nothing more is written.
LEMMA FailStep ==
  ASSUME FInv, NEW a \in {"sectorNumber", "freeMap->Test"}, Fail(a),
         ctlC = 0 => Whole(disk, {}) /\ a # "freeMap->Test"
  PROVE  FInv'
<1>1. PICK d, c, gone : d = disk /\ c = ctlC /\ gone = lost
  OBVIOUS
<1>2. Disk(d) /\ c \in 0 .. MaxCtlC
  BY <1>1 DEF FInv, FState
<1>3. Fitting(<<>>) /\ Pend(d, <<>>, Nothing) /\ Skip(Nothing) = {}
  BY <1>2, EmptyPlan DEF Pend, Skip
<1>4. c = 0 => Good(d, <<>>, Skip(Nothing))
  BY <1>1, <1>2, <1>3, EmptyPlan
<1>5. FState(d, <<>>, Nothing, a, c, TRUE, gone)
  BY <1>1, <1>2, <1>3, <1>4 DEF FState
<1>6. writes' = <<>> /\ next' = Nothing /\ disk' = d /\ failed' = a /\ ctlC' = c /\ aborted' = TRUE /\ lost' = gone
  BY <1>1 DEF Fail
<1> QED
  BY <1>5, <1>6 DEF FInv

\* Deallocate() never finds a sector of the file clear.
LEMMA RemoveAssertsStep ==
  ASSUME FInv, NEW n \in Name, RemoveAsserts(n)
  PROVE  FInv'
<1>1. PICK d : d = disk
  OBVIOUS
<1>2. writes = <<>> /\ next = Nothing
  BY DEF RemoveAsserts, Idle
<1>3. Skip(Nothing) = {}
  BY DEF Skip
<1>4. Disk(d) /\ (ctlC = 0 => Whole(d, {}))
  BY <1>1, <1>2, <1>3, AtRest
<1>5. PICK s : s = DirOf(d)[n]
  OBVIOUS
<1>6. Directory = DirOf(d) /\ FreeMap = MapOf(d) /\ n \in DOMAIN DirOf(d) /\ Readable(s)
  BY <1>1, <1>5 DEF RemoveAsserts, Exists, Directory, DirOf, FreeMap, MapOf
<1>7. s \in Usable
  BY <1>4, <1>5, <1>6, DiskFacts
<1>8. Freed(n) = Listing(d, s)
  <2>1. FetchFrom(s) = Fetched(d, s)
    BY <1>1, <1>4, <1>6, <1>7, ReadIn
  <2>2. Freed(n) = FetchFrom(s).dataSectors
    BY <1>5, <1>6 DEF Freed
  <2> QED
    BY <2>1, <2>2 DEF Fetched
<1>9. ctlC # 0
  <2>1. ASSUME Whole(d, {}) PROVE FALSE
    <3>1. WellFormed(d, s) /\ UsesOf(d, s) \subseteq MapOf(d)
      BY <1>5, <1>6, <2>1 DEF Whole
    <3>2. IsInjective(Listing(d, s)) /\ ToSet(Listing(d, s)) \subseteq MapOf(d)
      BY <3>1 DEF WellFormed, UsesOf
    <3> QED
      BY <1>6, <1>8, <3>2 DEF RemoveAsserts
  <2> QED
    BY <1>4, <2>1
<1>10. Fail("freeMap->Test")
  BY DEF RemoveAsserts
<1> QED
  BY <1>9, <1>10, FailStep

\* One sector is written, or the disk refuses its number.
LEMMA WriteSectorStep ==
  ASSUME FInv, WriteSector
  PROVE  FInv'
<1>1. PICK d, w, t, fl, c, ab, gone :
        /\ d = disk /\ w = writes /\ t = next
        /\ fl = failed /\ c = ctlC /\ ab = aborted /\ gone = lost
  OBVIOUS
<1>2. FState(d, w, t, fl, c, ab, gone)
  BY <1>1 DEF FInv
<1>3. /\ Disk(d) /\ Fitting(w) /\ Pend(d, w, t)
      /\ fl \in {"", "sectorNumber", "freeMap->Test"} /\ ab \in BOOLEAN /\ c \in 0 .. MaxCtlC
      /\ c = 0 => Good(d, w, Skip(t)) /\ (~ab => Neat(d, w, gone)) /\ fl # "freeMap->Test"
  BY <1>2 DEF FState
<1>4. IsSeq(w) /\ w # <<>> /\ Head(writes) = w[1]
  <2>1. IsSeq(w) /\ w # <<>>
    BY <1>1, <1>3 DEF WriteSector, Fitting
  <2>2. w \in Seq(ToSet(w))
    BY <2>1 DEF IsSeq
  <2> QED
    BY <1>1, <2>1, <2>2
<1>5. -1 \notin Sector /\ (w[1].at \in Sector \/ w[1].at = -1)
  <2>1. w[1].at \in Slot \cup {MapData, DirData}
    <3>1. 1 \in 1 .. Len(w)
      BY <1>4, EmptySeq, SeqFacts DEF IsSeq
    <3> QED
      BY <1>3, <3>1 DEF Fitting
  <2> QED
    BY <2>1, SlotFacts, DiskConstants DEF Slot, Reserved
<1>6. CASE w[1].at \in Sector
  <2>1. PICK e, v : e = [d EXCEPT ![w[1].at] = w[1].put] /\ v = Tail(w)
    OBVIOUS
  <2>2. disk' = e /\ writes' = v /\ next' = t /\ failed' = fl /\ ctlC' = c /\ aborted' = ab /\ lost' = gone
    BY <1>1, <1>4, <1>6, <2>1 DEF WriteSector
  <2>3a. Advanced(d, w, e, v)
    <3>1. w[1].at # -1
      BY <1>5, <1>6
    <3> QED
      BY <1>3, <1>4, <2>1, <3>1, OneWritten
  <2>3. /\ Disk(e) /\ Fitting(v)
        /\ Distinct(w) => Distinct(v) /\ After(e, v, Len(v)) = After(d, w, Len(w))
        /\ \A skip : Good(d, w, skip) => Good(e, v, skip)
        /\ \A a : Distinct(w) /\ Neat(d, w, a) => Neat(e, v, a)
    BY <2>3a DEF Advanced
  <2>4. Pend(e, v, t)
    BY <1>3, <2>3 DEF Pend
  <2>5. c = 0 => Good(e, v, Skip(t)) /\ (~ab => Neat(e, v, gone)) /\ fl # "freeMap->Test"
    BY <1>3, <2>3 DEF Good
  <2>6. FState(e, v, t, fl, c, ab, gone)
    BY <1>3, <2>3, <2>4, <2>5 DEF FState
  <2> QED
    BY <2>2, <2>6 DEF FInv
<1>7. CASE w[1].at \notin Sector
  <2>1. Fail("sectorNumber")
    BY <1>4, <1>7 DEF WriteSector
  <2>2. c = 0 => Whole(d, {})
    BY <1>3, <1>4, <1>5, <1>7, NotWritten
  <2> QED
    BY <1>1, <2>1, <2>2, FailStep
<1> QED
  BY <1>6, <1>7

\* After a ctl-C the disk is only typed.
LEMMA CtlCStep ==
  ASSUME FInv, CtlC
  PROVE  FInv'
<1>1. PICK d, fl, c, ab, gone :
        d = disk /\ fl = failed /\ c = ctlC + 1 /\ ab = aborted /\ gone = lost
  OBVIOUS
<1>2. /\ Disk(d) /\ fl \in {"", "sectorNumber", "freeMap->Test"} /\ ab \in BOOLEAN
      /\ ctlC \in 0 .. MaxCtlC
  BY <1>1 DEF FInv, FState
<1>3. c \in 0 .. MaxCtlC /\ c # 0
  <2>1. ctlC < MaxCtlC
    BY DEF CtlC
  <2>2. MaxCtlC \in Nat
    BY DiskConstants
  <2>3. ctlC \in Nat
    <3>1. ctlC \in 0 .. MaxCtlC
      BY DEF FInv, FState
    <3> QED
      BY <2>2, <3>1
  <2> QED
    BY <1>1, <2>1, <2>2, <2>3
<1>4. Fitting(<<>>) /\ Pend(d, <<>>, Nothing)
  BY <1>2, EmptyPlan DEF Pend
<1>5. FState(d, <<>>, Nothing, fl, c, ab, gone)
  BY <1>2, <1>3, <1>4 DEF FState
<1>6. writes' = <<>> /\ next' = Nothing /\ disk' = d /\ failed' = fl /\ ctlC' = c /\ aborted' = ab /\ lost' = gone
  BY <1>1 DEF CtlC
<1> QED
  BY <1>5, <1>6 DEF FInv

\* The next run finds the disk as it is.
LEMMA RestartStep ==
  ASSUME FInv, Restart
  PROVE  FInv'
BY DEF FInv, FState, Restart

\* Every step keeps the invariant.
LEMMA FStep ==
  ASSUME FInv, FilesNext
  PROVE  FInv'
<1>1. CASE Next
  <2>1. CASE \E n \in Name, size \in Sizes : Copy(n, size)
    BY <2>1, CopyStep
  <2>2. CASE \E n \in Name, size \in Sizes, half \in BOOLEAN : AppendTo(n, size, half)
    BY <2>2, AppendToStep
  <2>3. CASE \E n \in Name : RemoveFile(n)
    BY <2>3, RemoveFileStep
  <2>4. CASE \E n \in Name : RemoveAsserts(n)
    BY <2>4, RemoveAssertsStep
  <2>5. CASE Fill \/ Extend \/ WriteSector \/ CtlC \/ Restart
    BY <2>5, FillStep, ExtendStep, WriteSectorStep, CtlCStep, RestartStep
  <2> QED
    BY <1>1, <2>1, <2>2, <2>3, <2>4, <2>5 DEF Next, Command
<1>2. CASE UNCHANGED vars
  BY <1>2 DEF vars, FInv
<1> QED
  BY <1>1, <1>2 DEF FilesNext

-----------------------------------------------------------------------------
(* What the invariant says.                                                *)

\* Enough sectors are at least as many as divRoundUp().
LEMMA RoundUpLeast ==
  ASSUME NEW x \in Nat, NEW z \in Nat \ {0}, NEW l \in Nat, x <= l * z
  PROVE  divRoundUp(x, z) <= l
<1>1. PICK k : k = divRoundUp(x, z)
  OBVIOUS
<1>2. k \in Nat /\ (x = 0 => k = 0) /\ (x > 0 => k = ((x - 1) \div z) + 1)
  BY <1>1, RoundUp
<1>3. ASSUME x > 0 PROVE k <= l
  <2>1. PICK q : q = (x - 1) \div z
    OBVIOUS
  <2>2. x - 1 \in Nat
    BY <1>3
  <2>3. q \in Nat /\ q * z \in Nat /\ q * z <= x - 1
    BY <2>1, <2>2, Division
  <2>4. ASSUME l < q PROVE FALSE
    <3>1. (l * z) + z <= q * z
      BY <2>3, <2>4, Earlier
    <3> QED
      BY <2>3, <3>1
  <2>5. l # q
    BY <2>3
  <2>6. k = q + 1
    BY <1>2, <1>3, <2>1
  <2> QED
    BY <2>3, <2>4, <2>5, <2>6
<1> QED
  BY <1>1, <1>2, <1>3

\* The properties speak of the disk there is now.
LEMMA FileNow ==
  ASSUME Disk(disk), NEW n \in DOMAIN DirOf(disk), NEW s, s = DirOf(disk)[n], Hdr(disk[s])
  PROVE  /\ Directory[n] = s /\ s \in Usable /\ IsHeader(s)
         /\ Listed(n) = Listing(disk, s) /\ Uses(n) = UsesOf(disk, s)
         /\ disk[s].flag \in Slot /\ (disk[s].flag > 0 <=> disk[s].flag # -1)
         /\ \A f \in Usable : IsIndex(f) <=> Idx(disk[f])
<1>1. Directory[n] = s
  BY DEF Directory, DirOf
<1>2. s \in Usable /\ IsHeader(s)
  BY DiskFacts, SlotFacts DEF IsHeader, Hdr
<1>3. \A f \in Usable : IsIndex(f) <=> Idx(disk[f])
  BY SlotFacts DEF IsIndex, Idx
<1>4. PICK f : f = disk[s].flag
  OBVIOUS
<1>5. f \in Slot /\ (f > 0 <=> f # -1) /\ (f # -1 => f \in Usable)
  <2>1. f \in Slot /\ (f > 0 <=> f # -1)
    BY <1>2, <1>4, HeaderFacts
  <2> QED
    BY <2>1 DEF Slot
<1>6. Listed(n) = Listing(disk, s)
  <2>1. CASE f > 0 /\ Idx(disk[f])
    <3>1. IsIndex(f)
      BY <1>3, <1>5, <2>1
    <3> QED
      BY <1>1, <1>2, <1>4, <2>1, <3>1 DEF Listed, Listing
  <2>2. CASE ~(f > 0 /\ Idx(disk[f]))
    <3>1. ~(f > 0 /\ IsIndex(f))
      BY <1>3, <1>5, <2>2
    <3> QED
      BY <1>1, <1>2, <1>4, <2>2, <3>1 DEF Listed, Listing
  <2> QED
    BY <2>1, <2>2
<1>7. Uses(n) = UsesOf(disk, s)
  <2>1. Uses(n) = {s} \cup ToSet(Listing(disk, s)) \cup (IF f > 0 THEN {f} ELSE {})
    BY <1>1, <1>2, <1>4, <1>6 DEF Uses
  <2>2. UsesOf(disk, s) = ({s} \cup ToSet(Listing(disk, s))) \cup ({f} \ {-1})
    BY <1>4 DEF UsesOf
  <2> QED
    BY <1>5, <2>1, <2>2
<1> QED
  BY <1>1, <1>2, <1>3, <1>4, <1>5, <1>6, <1>7

\* Until the first ctl-C.
LEMMA SafeNow ==
  ASSUME FInv, ctlC = 0
  PROVE  Disk(disk) /\ Fitting(writes) /\ Safe(disk, At(writes, 0))
<1>1. PICK d, w, t : d = disk /\ w = writes /\ t = next
  OBVIOUS
<1>2. Disk(d) /\ Fitting(w) /\ Good(d, w, Skip(t))
  BY <1>1 DEF FInv, FState
<1>3. Len(w) \in Nat /\ 0 \in 0 .. Len(w) /\ Reached(w, 0)
  <2>1. IsSeq(w)
    BY <1>2 DEF Fitting
  <2>2. Len(w) \in Nat
    BY <2>1, SeqFacts
  <2> QED
    BY <2>2 DEF Reached
<1>4. State(d, w, Skip(t), 0)
  BY <1>2, <1>3 DEF Good
<1>5. After(d, w, 0) = d
  BY <1>2, AfterNone
<1> QED
  BY <1>1, <1>2, <1>4, <1>5 DEF State

\* Between commands.
LEMMA WholeNow ==
  ASSUME FInv, ctlC = 0, Idle
  PROVE  Disk(disk) /\ Whole(disk, {}) /\ (~aborted => Tidy(disk, lost))
<1>1. writes = <<>> /\ next = Nothing /\ Skip(Nothing) = {}
  BY DEF Idle, Skip
<1> QED
  BY <1>1, AtRest

\* The invariant implies DiskInv.
LEMMA DiskInvHolds ==
  ASSUME FInv
  PROVE  DiskInv
<1>1. Disk(disk) /\ Fitting(writes)
  BY DEF FInv, FState
<1>2. Directory = DirOf(disk) /\ FreeMap = MapOf(disk)
  BY DEF Directory, DirOf, FreeMap, MapOf
<1>3. TypeOK
  <2>1. DOMAIN disk = Sector
    BY <1>1 DEF Disk
  <2>2. FreeMap \subseteq Sector /\ \A n \in DOMAIN Directory : n \in Name /\ Directory[n] \in Sector
    BY <1>1, <1>2, DiskFacts, SlotFacts
  <2>3. \A i \in DOMAIN writes : writes[i].at \in Sector \cup {-1}
    <3>1. DOMAIN writes = 1 .. Len(writes) /\ \A i \in 1 .. Len(writes) : writes[i].at \in Slot \cup {MapData, DirData}
      BY <1>1, SeqFacts DEF Fitting
    <3>2. Slot \cup {MapData, DirData} \subseteq Sector \cup {-1}
      BY SlotFacts DEF Slot, Reserved
    <3> QED
      BY <3>1, <3>2
  <2>4. ctlC \in 0 .. MaxCtlC
    BY DEF FInv, FState
  <2>5. failed \in {"", "sectorNumber", "freeMap->Test"} /\ aborted \in BOOLEAN
    BY DEF FInv, FState
  <2> QED
    BY <2>1, <2>2, <2>3, <2>4, <2>5 DEF TypeOK
<1>4. ASSUME ctlC = 0, NEW n \in DOMAIN Directory
      PROVE  LET s == DirOf(disk)[n] IN
             /\ Hdr(disk[s])
             /\ disk[s].flag # -1 => Idx(disk[disk[s].flag]) \/ At(writes, 0) = disk[s].flag
             /\ IsInjective(Listing(disk, s)) /\ UsesOf(disk, s) \cap Reserved = {}
             /\ \A m \in DOMAIN DirOf(disk) : m # n => UsesOf(disk, DirOf(disk)[m]) \cap UsesOf(disk, s) = {}
  <2>1. Safe(disk, At(writes, 0))
    BY <1>4, SafeNow
  <2> QED
    BY <1>2, <1>4, <2>1 DEF Safe, Apart
<1>5. NoSharing
  <2> SUFFICES ASSUME ctlC = 0, NEW n \in DOMAIN Directory
               PROVE  /\ IsInjective(Listed(n))
                      /\ Uses(n) \cap {FreeMapSector, DirectorySector, MapData, DirData} = {}
                      /\ \A m \in DOMAIN Directory \ {n} : Uses(n) \cap Uses(m) = {}
    BY DEF NoSharing
  <2>1. \A m \in DOMAIN Directory : Hdr(disk[DirOf(disk)[m]])
    BY <1>4
  <2>2. \A m \in DOMAIN Directory : Listed(m) = Listing(disk, DirOf(disk)[m])
                                    /\ Uses(m) = UsesOf(disk, DirOf(disk)[m])
    BY <1>1, <1>2, <2>1, FileNow
  <2>3. IsInjective(Listed(n)) /\ Uses(n) \cap Reserved = {}
    BY <1>4, <2>2
  <2>4. \A m \in DOMAIN Directory \ {n} : Uses(n) \cap Uses(m) = {}
    BY <1>2, <1>4, <2>2
  <2> QED
    BY <2>3, <2>4 DEF Reserved
<1>6. Consistent
  <2> SUFFICES ASSUME Idle, ctlC = 0, NEW n \in DOMAIN Directory
               PROVE  /\ Uses(n) \subseteq FreeMap
                      /\ \A i \in 1 .. divRoundUp(disk[Directory[n]].numBytes, SectorSize) :
                           disk[Listed(n)[i]] = Written(n)
    BY DEF Consistent
  <2>1. PICK s, L : s = DirOf(disk)[n] /\ L = Listing(disk, s)
    OBVIOUS
  <2>2. WellFormed(disk, s) /\ UsesOf(disk, s) \subseteq MapOf(disk) /\ Filled(disk, n)
    BY <1>2, <2>1, WholeNow DEF Whole
  <2>3. Hdr(disk[s])
    BY <2>2 DEF WellFormed
  <2>4. Directory[n] = s /\ s \in Usable /\ Listed(n) = L /\ Uses(n) = UsesOf(disk, s)
    BY <1>1, <1>2, <2>1, <2>3, FileNow
  <2>5. PICK x, z, k : x = disk[s].numBytes /\ z = SectorSize /\ k = divRoundUp(x, z)
    OBVIOUS
  <2>6. x \in Nat /\ z \in Nat \ {0} /\ L \in Seq(Slot)
    BY <1>1, <2>1, <2>3, <2>4, <2>5, HeaderFacts, DiskConstants
  <2>7. Len(L) \in Nat /\ x <= Len(L) * z /\ DOMAIN L = 1 .. Len(L)
    <3>1. Len(L) * z >= x
      BY <2>1, <2>2, <2>5 DEF WellFormed
    <3>2. Len(L) \in Nat /\ DOMAIN L = 1 .. Len(L)
      BY <2>6, LenProperties
    <3>3. Len(L) * z \in Nat
      BY <2>6, <3>2
    <3> QED
      BY <2>6, <3>1, <3>2, <3>3
  <2>8. k \in Nat /\ k <= Len(L)
    BY <2>5, <2>6, <2>7, RoundUp, RoundUpLeast
  <2>9. ASSUME NEW i \in 1 .. k PROVE disk[L[i]] = Written(n)
    <3>1. i \in DOMAIN L
      BY <2>7, <2>8
    <3>2. L[i] \in ToSet(L)
      BY <3>1 DEF ToSet
    <3> QED
      BY <2>1, <2>2, <3>2 DEF Filled
  <2> QED
    BY <1>2, <2>2, <2>4, <2>5, <2>9
<1>7. EntryReadable
  <2> SUFFICES ASSUME ctlC = 0, NEW n \in DOMAIN Directory
               PROVE  /\ IsHeader(Directory[n])
                      /\ LET flag == disk[Directory[n]].flag IN
                         flag > 0 => IsIndex(flag) \/ (writes # <<>> /\ Head(writes).at = flag)
    BY DEF EntryReadable
  <2>1. PICK s, f, w : s = DirOf(disk)[n] /\ f = disk[s].flag /\ w = writes
    OBVIOUS
  <2>2. Hdr(disk[s]) /\ (f # -1 => Idx(disk[f]) \/ At(w, 0) = f)
    BY <1>4, <2>1
  <2>3. /\ Directory[n] = s /\ IsHeader(s) /\ f \in Slot /\ (f > 0 <=> f # -1)
        /\ \A g \in Usable : IsIndex(g) <=> Idx(disk[g])
    BY <1>1, <1>2, <2>1, <2>2, FileNow
  <2>4. ASSUME f > 0 PROVE IsIndex(f) \/ (w # <<>> /\ Head(w).at = f)
    <3>1. f \in Usable
      BY <2>3, <2>4 DEF Slot
    <3>2. CASE Idx(disk[f])
      BY <2>3, <3>1, <3>2
    <3>3. CASE At(w, 0) = f
      <4>1. IsSeq(w) /\ w \in Seq(ToSet(w))
        BY <1>1, <2>1 DEF Fitting, IsSeq
      <4>2. 0 < Len(w)
        BY <2>4, <3>3 DEF At
      <4>3. w # <<>>
        BY <4>2
      <4>4. Head(w) = w[1]
        BY <4>1, <4>3
      <4> QED
        BY <3>3, <4>2, <4>3, <4>4 DEF At
    <3> QED
      BY <2>2, <2>3, <2>4, <3>2, <3>3
  <2> QED
    BY <2>1, <2>3, <2>4
<1>8. failed = "freeMap->Test" => ctlC > 0
  <2>1. ctlC \in Nat /\ (ctlC = 0 => failed # "freeMap->Test")
    <3>1. ctlC \in 0 .. MaxCtlC
      BY DEF FInv, FState
    <3>2. ctlC = 0 => failed # "freeMap->Test"
      BY DEF FInv, FState
    <3> QED
      BY <3>1, <3>2, DiskConstants
  <2> QED
    BY <2>1
<1> QED
  BY <1>3, <1>5, <1>6, <1>7, <1>8 DEF DiskInv

\* The invariant implies OnlyIndexBlocksLeak.
LEMMA LeaksHold ==
  ASSUME FInv
  PROVE  OnlyIndexBlocksLeak
<1> SUFFICES ASSUME Idle, ctlC = 0, ~aborted
             PROVE  FreeMap \ (Reserved \cup UNION {Uses(n) : n \in DOMAIN Directory}) = lost
  BY DEF OnlyIndexBlocksLeak, Reserved
<1>1. Disk(disk) /\ Whole(disk, {}) /\ Tidy(disk, lost)
  BY WholeNow
<1>2. Directory = DirOf(disk) /\ FreeMap = MapOf(disk)
  BY DEF Directory, DirOf, FreeMap, MapOf
<1>3. \A n \in DOMAIN DirOf(disk) : Uses(n) = UsesOf(disk, DirOf(disk)[n])
  <2> SUFFICES ASSUME NEW n \in DOMAIN DirOf(disk)
               PROVE  Uses(n) = UsesOf(disk, DirOf(disk)[n])
    OBVIOUS
  <2>1. Hdr(disk[DirOf(disk)[n]])
    BY <1>1 DEF Whole, WellFormed
  <2> QED
    BY <1>1, <2>1, FileNow
<1>4. ASSUME NEW t
      PROVE  t \in UNION {Uses(n) : n \in DOMAIN Directory} <=> Claimed(disk, t)
  BY <1>2, <1>3 DEF Claimed
<1>5. ASSUME NEW t
      PROVE  t \in lost <=> t \in FreeMap /\ t \notin Reserved /\ ~Claimed(disk, t)
  BY <1>1, <1>2 DEF Tidy
<1> QED
  BY <1>4, <1>5

-----------------------------------------------------------------------------
(* The table of the files.                                                 *)

\* The lengths that the headers on the disk say.
LEMMA LengthsNow ==
  ASSUME FInv, ctlC = 0
  PROVE  Lengths = LenOf(disk)
<1>1. Disk(disk) /\ Safe(disk, At(writes, 0))
  BY SafeNow
<1>2. Directory = DirOf(disk)
  BY DEF Directory, DirOf
<1>3. ASSUME NEW n \in Name
      PROVE  LengthOf(n) = IF n \in DOMAIN DirOf(disk) THEN disk[DirOf(disk)[n]].numBytes ELSE Nothing
  <2>1. CASE n \in DOMAIN DirOf(disk)
    <3>1. IsHeader(Directory[n])
      BY <1>1, <1>2, <2>1, FileNow DEF Safe
    <3> QED
      BY <1>2, <2>1, <3>1 DEF LengthOf, Exists
  <2>2. CASE n \notin DOMAIN DirOf(disk)
    BY <1>2, <2>2 DEF LengthOf, Exists
  <2> QED
    BY <2>1, <2>2
<1> QED
  BY <1>3 DEF Lengths, LenOf

\* A change of the lengths is one that the table may make.
LEMMA TableStep ==
  ASSUME NEW a, NEW b, LenStep(a, b), Lengths = a, Lengths' = b,
         a = [n \in Name |-> a[n]], b = [n \in Name |-> b[n]]
  PROVE  Files!Next \/ UNCHANGED Lengths
<1>1. CASE a = b
  BY <1>1
<1>2. ASSUME NEW n \in Name, \A m \in Name \ {n} : b[m] = a[m],
             \/ a[n] = Nothing /\ b[n] \in Nat
             \/ a[n] \in Nat /\ b[n] = Nothing
             \/ a[n] \in Nat /\ b[n] \in Nat /\ b[n] > a[n] \div 2
      PROVE  Files!Next
  <2>1. b = [a EXCEPT ![n] = b[n]]
    BY <1>2
  <2>2. Lengths' = [Lengths EXCEPT ![n] = b[n]]
    BY <2>1
  <2>3. CASE a[n] = Nothing /\ b[n] \in Nat
    <3>1. Files!Create(n)
      BY <2>2, <2>3 DEF Files!Create, Files!Becomes
    <3> QED
      BY <3>1 DEF Files!Next
  <2>4. CASE a[n] \in Nat /\ b[n] = Nothing
    <3>1. Files!Remove(n)
      BY <2>2, <2>4, TaskConstants DEF Files!Remove, Files!Becomes
    <3> QED
      BY <3>1 DEF Files!Next
  <2>5. CASE a[n] \in Nat /\ b[n] \in Nat /\ b[n] > a[n] \div 2
    <3>1. Files!Append(n)
      BY <2>2, <2>5, TaskConstants DEF Files!Append, Files!Becomes
    <3> QED
      BY <3>1 DEF Files!Next
  <2> QED
    BY <1>2, <2>3, <2>4, <2>5
<1> QED
  BY <1>1, <1>2 DEF LenStep

\* A step that writes nothing changes no length.
LEMMA SameLengthsNow ==
  ASSUME disk' = disk
  PROVE  UNCHANGED Lengths
BY DEF Lengths, LengthOf, Exists, IsHeader, Directory

\* A write changes the lengths as the table may.
LEMMA WriteLengths ==
  ASSUME FInv, FInv', WriteSector, disk' # disk, ctlC' = 0
  PROVE  Files!Next \/ UNCHANGED Lengths
<1>1. PICK d, w, t : d = disk /\ w = writes /\ t = next
  OBVIOUS
<1>2. ctlC = 0 /\ w # <<>> /\ Head(writes).at \in Sector
      /\ disk' = [disk EXCEPT ![Head(writes).at] = Head(writes).put]
  BY <1>1 DEF WriteSector, Fail
<1>3. Disk(d) /\ Fitting(w) /\ Good(d, w, Skip(t))
  BY <1>1, <1>2 DEF FInv, FState
<1>4. w \in Seq(ToSet(w)) /\ Len(w) \in Nat /\ Len(w) > 0
  <2>1. IsSeq(w) /\ w \in Seq(ToSet(w))
    BY <1>3 DEF Fitting, IsSeq
  <2> QED
    BY <1>2, <2>1, EmptySeq, SeqFacts
<1>5. Head(writes) = w[1]
  BY <1>1, <1>2, <1>4
<1>6. PICK e, v : e = [d EXCEPT ![w[1].at] = w[1].put] /\ v = Tail(w)
  OBVIOUS
<1>7. disk' = e /\ w[1].at \in Sector /\ w[1].at # -1
  BY <1>1, <1>2, <1>5, <1>6, DiskConstants
<1>8. Advanced(d, w, e, v)
  BY <1>2, <1>3, <1>6, <1>7, OneWritten
<1>9. e = After(d, w, 1)
  BY <1>3, <1>8 DEF Advanced, Good
<1>10. State(d, w, Skip(t), 0) /\ After(d, w, 0) = d
  <2>1. 0 \in 0 .. Len(w) /\ Reached(w, 0)
    BY <1>4 DEF Reached
  <2> QED
    BY <1>3, <2>1, AfterNone DEF Good
<1>11. LenStep(LenOf(d), LenOf(e))
  <2>1. PICK k, l : k = 0 /\ l = k + 1
    OBVIOUS
  <2>2. k < Len(w) /\ l = 1 /\ At(w, k) = w[1].at
    BY <1>4, <2>1 DEF At
  <2>3. LenStep(LenOf(After(d, w, k)), LenOf(After(d, w, l)))
    BY <1>7, <1>10, <2>1, <2>2 DEF State
  <2> QED
    BY <1>9, <1>10, <2>1, <2>2, <2>3
<1>12. Lengths = LenOf(d)
  BY <1>1, <1>2, LengthsNow
<1>13. Lengths' = LenOf(e)
  <2>1. (FInv /\ ctlC = 0 => Lengths = LenOf(disk))'
    BY LengthsNow, PTL
  <2>2. LenOf(disk)' = LenOf(disk')
    OBVIOUS
  <2> QED
    BY <1>7, <2>1, <2>2
<1>14. PICK a, b : a = LenOf(d) /\ b = LenOf(e)
  OBVIOUS
<1>15. a = [n \in Name |-> a[n]] /\ b = [n \in Name |-> b[n]]
  BY <1>14 DEF LenOf
<1> QED
  BY <1>11, <1>12, <1>13, <1>14, <1>15, TableStep

\* A step of the file system is one of the table, or changes no length.
LEMMA FilesStep ==
  ASSUME FInv, FInv', [FilesNext]_everyVar, ctlC' = 0
  PROVE  Files!Next \/ UNCHANGED Lengths
<1>1. CASE disk' = disk
  BY <1>1, SameLengthsNow
<1>2. CASE disk' # disk
  <2>1. Next
    BY <1>2 DEF FilesNext, everyVar, vars
  <2>2. WriteSector
    BY <1>2, <2>1 DEF Next, Command, Copy, AppendTo, OpenOrCreate, RemoveFile, RemoveAsserts, Fail,
                      Fill, Extend, Begin, CtlC, Restart
  <2> QED
    BY <1>2, <2>2, WriteLengths
<1> QED
  BY <1>1, <1>2

\* The invariant holds.
LEMMA FileSystemInvariant == FileSystemSpec => []FInv
<1>1. FilesInit => FInv
  BY FInitHolds DEF FilesInit
<1>2. FInv /\ [FilesNext]_everyVar => FInv'
  <2> SUFFICES ASSUME FInv, [FilesNext]_everyVar PROVE FInv'
    OBVIOUS
  <2>1. CASE FilesNext
    BY <2>1, FStep
  <2>2. CASE UNCHANGED everyVar
    BY <2>2 DEF everyVar, vars, FInv
  <2> QED
    BY <2>1, <2>2
<1> QED
  BY <1>1, <1>2, PTL DEF FileSystemSpec

\* The writes of Create(), Append() and Remove() are ordered so that, until the
\* user interrupts one, no two files share a sector, every sector in use is
\* marked, every entry of the directory can be read, and no assertion of
\* FileHeader::Deallocate() fails - between any two of the writes, for any
\* number of files and sectors and any sequence of commands.
THEOREM FileSystemDisk == FileSystemSpec => []DiskInv
<1>1. FInv => DiskInv
  BY DiskInvHolds
<1> QED
  BY <1>1, FileSystemInvariant, PTL

\* What FileSystem::Remove() frees, FileHeader::AppSector() takes and a failed
\* command leaves: between commands, what is marked in vain is exactly the index
\* blocks that removed files had (Deallocate() does not clear them) and those that
\* files had before they grew (AppSector() takes a new one).
THEOREM FileSystemLeaks == FileSystemSpec => []OnlyIndexBlocksLeak
<1>1. FInv => OnlyIndexBlocksLeak
  BY LeaksHold
<1> QED
  BY <1>1, FileSystemInvariant, PTL

\* The commands of main.cc implement the table of files: each takes effect on
\* its own file alone and at one of its writes, DirWrite() for a new or removed
\* file and the write of the header for a longer one.
THEOREM FileSystemImplementsTable == FileSystemSpec => FilesSpec
<1>1. FilesInit => Files!Init
  <2> SUFFICES ASSUME FilesInit PROVE Files!Init
    OBVIOUS
  <2>1. FInv /\ ctlC = 0
    BY FInitHolds DEF FilesInit, Init
  <2>2. Lengths = LenOf(disk)
    BY <2>1, LengthsNow
  <2>3. DirOf(disk) = <<>>
    <3>1. /\ DirData \in Sector /\ DirData # FreeMapSector /\ DirData # DirectorySector
          /\ DirData # MapData
      BY SlotFacts DEF Reserved, DirData, FreeMapSector, DirectorySector, MapData
    <3>2. disk[DirData] = [dir |-> <<>>]
      BY <3>1 DEF FilesInit, Init
    <3> QED
      BY <3>2 DEF DirOf
  <2>4. DOMAIN DirOf(disk) = {}
    BY <2>3
  <2> QED
    BY <2>2, <2>4 DEF Files!Init, LenOf
<1>2. FInv /\ FInv' /\ [FilesNext]_everyVar => [ctlC' = 0 => Files!Next \/ UNCHANGED Lengths]_vars
  BY FilesStep
<1> QED
  BY <1>1, <1>2, FileSystemInvariant, PTL DEF FileSystemSpec, FilesSpec
=============================================================================
