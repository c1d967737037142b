----------------------------- MODULE FileSystem -----------------------------
(***************************************************************************)
(* The file system of filesys/: a bitmap of the sectors in use, a          *)
(* directory and one header per file, all kept on the disk and fetched     *)
(* afresh by every command of main.cc.  A command computes on copies in    *)
(* memory and then writes sectors one by one; between two of them the user *)
(* may hit ctl-C, and what is on the disk is what the next run of nachos   *)
(* finds.  Commands do not overlap: "this implementation assumes there is  *)
(* no concurrent access to the file system".                               *)
(*                                                                         *)
(* The contents of a data sector are the name of the file it was written   *)
(* for.  The bitmap and the directory take one sector each.                *)
(***************************************************************************)
EXTENDS Integers, Sequences, FiniteSets, SequencesExt

CONSTANTS
  Name,           \* the names of the files
  NumSectors, SectorSize, NumDirEntries,
  NumHdr,         \* how many sectors a header lists before its index block
  Sizes,          \* bound: the lengths of the UNIX files that are copied
  MaxLength,      \* bound: no command makes a file longer than this
  Commands,       \* bound: the commands the user gives
  MaxCtlC,        \* bound: how often the user interrupts a command
  Nothing         \* no pending command

ASSUME FileSystemAssumption ==
  /\ {NumSectors, SectorSize, NumDirEntries, NumHdr, MaxLength, MaxCtlC} \subseteq Nat
  /\ NumSectors > 4 /\ SectorSize > 0 /\ NumHdr > 0
  /\ Sizes \subseteq Nat
  /\ Commands \subseteq {"-cp", "-ap", "-hap", "-r"}
  /\ Nothing \notin Nat
  /\ Nothing \notin [do : {"fill", "append"}, name : Name, size : Nat, half : BOOLEAN]

VARIABLES
  disk,     \* the contents of each sector
  writes,   \* the sectors the current command is about to write, in order
  next,     \* what it does after that, or Nothing
  failed,   \* the assertion that ended the run, or ""
  ctlC,     \* how often the user has interrupted a command
  aborted,  \* history: whether an assertion has ever ended a run
  lost      \* history: the index blocks that files have given up

vars == <<disk, writes, next, failed, ctlC, aborted, lost>>

Sector == 0 .. NumSectors - 1
FreeMapSector == 0
DirectorySector == 1
MapData == 2        \* the data sectors of those two files
DirData == 3

Written(n) == [data |-> n]
Garbage == [data |-> Nothing]

Min2(a, b) == IF a < b THEN a ELSE b
divRoundUp(n, s) == (n + s - 1) \div s

-----------------------------------------------------------------------------
(* What is on the disk.                                                    *)

FreeMap == disk[MapData].map
Directory == disk[DirData].dir
Exists(n) == n \in DOMAIN Directory

IsHeader(s) == s \in Sector /\ "numBytes" \in DOMAIN disk[s]
IsIndex(s) == s \in Sector /\ "index" \in DOMAIN disk[s]

\* A header that was read in: its index block, if any, is part of it.
FetchFrom(s) ==
  LET h == disk[s] IN
  [numBytes |-> h.numBytes, flag |-> h.flag,
   dataSectors |-> h.direct \o (IF h.flag > 0 THEN disk[h.flag].index ELSE <<>>)]

Readable(s) == IsHeader(s) /\ (disk[s].flag > 0 => IsIndex(disk[s].flag))

\* The index block of a header, if it has one.
IndexBlock(h) == IF h.flag > 0 THEN {h.flag} ELSE {}

-----------------------------------------------------------------------------
(* Operations on copies in memory.                                         *)

NumClear(map) == Cardinality(Sector \ map)

\* What k calls of BitMap::Find() return.
FindAll(map, k) ==
  LET Clear == Sector \ map IN
  [i \in 1 .. k |->
     IF i > Cardinality(Clear) THEN -1
     ELSE CHOOSE s \in Clear : Cardinality({c \in Clear : c < s}) = i - 1]

\* Mutant: Find() does not mark what it returns.
Mark_Nothing(map, found) == map

Mark(map, found) == map \cup (ToSet(found) \ {-1})

\* The header and the bitmap once k more sectors have been added to header h,
\* with a new index block if the header does not hold them all.
Grow(h, map, k) ==
  LET old == Len(h.dataSectors)
      direct == IF old > NumHdr THEN 0 ELSE NumHdr - old
      n == old + k
      found == FindAll(map, IF n <= NumHdr THEN k ELSE k + 1)
  IN [map |-> Mark(map, found),
      hdr |->
        IF n <= NumHdr
        THEN [h EXCEPT !.flag = -1, !.dataSectors = @ \o found]
        ELSE [h EXCEPT !.flag = found[direct + 1],
                       !.dataSectors = @ \o SubSeq(found, 1, direct)
                                         \o SubSeq(found, direct + 2, k + 1)]]

NoFile == [numBytes |-> 0, flag |-> -1, dataSectors |-> <<>>]

Fits(map, size) == NumClear(map) - 1 >= divRoundUp(size, SectorSize)

Allocate(map, size) ==
  Grow([NoFile EXCEPT !.numBytes = size], map, divRoundUp(size, SectorSize))

\* The bytes that are left in the header's last sector, and the new length.
Kept(h, half) == IF half THEN h.numBytes \div 2 ELSE h.numBytes
RestBytes(h, half) == Len(h.dataSectors) * SectorSize - Kept(h, half)
MoreSectors(h, size, half) ==
  IF RestBytes(h, half) >= size THEN 0
  ELSE divRoundUp(size - RestBytes(h, half), SectorSize)

CanAppend(h, map, size, half) == NumClear(map) >= MoreSectors(h, size, half)

AppSector(h, map, size, half) ==
  LET more == MoreSectors(h, size, half)
      longer == [h EXCEPT !.numBytes = Kept(h, half) + size]
  IN IF more = 0 THEN [map |-> map, hdr |-> longer] ELSE Grow(longer, map, more)

-----------------------------------------------------------------------------
(* The sectors that are written back.                                      *)

Write(s, contents) == [at |-> s, put |-> contents]

HeaderWrites(s, h) ==
  LET n == Len(h.dataSectors) IN
  <<Write(s, [numBytes |-> h.numBytes, flag |-> h.flag,
              direct |-> SubSeq(h.dataSectors, 1, Min2(n, NumHdr))])>>
  \o (IF h.flag = -1 THEN <<>>
      ELSE <<Write(h.flag, [index |-> SubSeq(h.dataSectors, NumHdr + 1, n)])>>)

MapWrite(map) == Write(MapData, [map |-> map])
DirWrite(dir) == Write(DirData, [dir |-> dir])

\* The sectors that hold the bytes from "position" up to "end".
DataWrites(n, h, position, end) ==
  LET first == position \div SectorSize
      last == (end - 1) \div SectorSize
  IN [i \in 1 .. last - first + 1 |-> Write(h.dataSectors[first + i], Written(n))]

-----------------------------------------------------------------------------
(* The commands.  One that fails before it writes leaves no trace and is   *)
(* not an action.                                                          *)

Init ==
  /\ disk = [s \in Sector |->
       CASE s = FreeMapSector -> [numBytes |-> SectorSize, flag |-> -1, direct |-> <<MapData>>]
         [] s = DirectorySector -> [numBytes |-> SectorSize, flag |-> -1, direct |-> <<DirData>>]
         [] s = MapData -> [map |-> {FreeMapSector, DirectorySector, MapData, DirData}]
         [] s = DirData -> [dir |-> <<>>]
         [] OTHER -> Garbage]
  /\ writes = <<>>
  /\ next = Nothing
  /\ failed = ""
  /\ ctlC = 0
  /\ aborted = FALSE
  /\ lost = {}

Idle == writes = <<>> /\ next = Nothing /\ failed = ""

Begin(w, then) ==
  /\ writes' = w
  /\ next' = then
  /\ UNCHANGED <<disk, failed, ctlC, aborted>>

Fail(assertion) ==
  /\ failed' = assertion
  /\ writes' = <<>>
  /\ next' = Nothing
  /\ aborted' = TRUE
  /\ UNCHANGED <<disk, ctlC, lost>>

Task(what, n, size, half) == [do |-> what, name |-> n, size |-> size, half |-> half]
Pending(what) == writes = <<>> /\ next # Nothing /\ next.do = what

CanCreate(n, size) ==
  LET sector == FindAll(FreeMap, 1) IN
  /\ ~Exists(n)
  /\ sector[1] # -1
  /\ Cardinality(DOMAIN Directory) < NumDirEntries
  /\ Fits(Mark(FreeMap, sector), size)

\* Mutant: the directory is flushed before the header.
CreateWrites_DirectoryFirst(n, size) ==
  LET sector == FindAll(FreeMap, 1)
      new == Allocate(Mark(FreeMap, sector), size)
  IN <<DirWrite([m \in DOMAIN Directory \cup {n} |->
                   IF m = n THEN sector[1] ELSE Directory[m]])>>
     \o HeaderWrites(sector[1], new.hdr) \o <<MapWrite(new.map)>>

CreateWrites(n, size) ==
  LET sector == FindAll(FreeMap, 1)
      new == Allocate(Mark(FreeMap, sector), size)
  IN HeaderWrites(sector[1], new.hdr)
     \o <<DirWrite([m \in DOMAIN Directory \cup {n} |->
                      IF m = n THEN sector[1] ELSE Directory[m]]),
          MapWrite(new.map)>>

\* -cp: create the file, and then fill it.
Copy(n, size) ==
  /\ "-cp" \in Commands /\ Idle
  /\ CanCreate(n, size)
  /\ Begin(CreateWrites(n, size),
           IF size > 0 THEN Task("fill", n, size, FALSE) ELSE Nothing)
  /\ UNCHANGED lost

Fill ==
  /\ Pending("fill")
  /\ Readable(Directory[next.name])
  /\ Begin(DataWrites(next.name, FetchFrom(Directory[next.name]), 0, next.size), Nothing)
  /\ UNCHANGED lost

OpenOrCreate(n, then) ==
  \/ Exists(n) /\ Begin(<<>>, then)
  \/ CanCreate(n, 0) /\ Begin(CreateWrites(n, 0), then)

\* -ap, -hap: open the file, creating it if need be.
AppendTo(n, size, half) ==
  /\ (IF half THEN "-hap" ELSE "-ap") \in Commands /\ Idle
  /\ size > 0
  /\ OpenOrCreate(n, Task("append", n, size, half))
  /\ UNCHANGED lost

\* OpenFile::AppFileSize(), the writes, and OpenFile::WriteBack().
Extend ==
  /\ Pending("append")
  /\ Readable(Directory[next.name])
  /\ LET n == next.name
         h == FetchFrom(Directory[n])
         start == Kept(h, next.half)
         longer == AppSector(h, FreeMap, next.size, next.half)
     IN IF CanAppend(h, FreeMap, next.size, next.half) /\ start + next.size <= MaxLength
        THEN /\ Begin(<<MapWrite(longer.map)>>
                        \o DataWrites(n, longer.hdr, start, start + next.size)
                        \o HeaderWrites(Directory[n], longer.hdr), Nothing)
             /\ lost' = lost \cup (IndexBlock(h) \ IndexBlock(longer.hdr))
        ELSE Begin(<<>>, Nothing) /\ UNCHANGED lost

Freed(n) == FetchFrom(Directory[n]).dataSectors

\* Mutant: the header's sector is not cleared.
RemoveFile_KeepsHeader(n) ==
  /\ "-r" \in Commands /\ Idle
  /\ Exists(n) /\ Readable(Directory[n])
  /\ ToSet(Freed(n)) \subseteq FreeMap /\ IsInjective(Freed(n))
  /\ Begin(<<MapWrite(FreeMap \ ToSet(Freed(n))),
             DirWrite([m \in DOMAIN Directory \ {n} |-> Directory[m]])>>, Nothing)
  /\ lost' = lost \cup IndexBlock(disk[Directory[n]])

\* -r
RemoveFile(n) ==
  /\ "-r" \in Commands /\ Idle
  /\ Exists(n) /\ Readable(Directory[n])
  /\ ToSet(Freed(n)) \subseteq FreeMap /\ IsInjective(Freed(n))
  /\ Begin(<<MapWrite(FreeMap \ (ToSet(Freed(n)) \cup {Directory[n]})),
             DirWrite([m \in DOMAIN Directory \ {n} |-> Directory[m]])>>, Nothing)
  /\ lost' = lost \cup IndexBlock(disk[Directory[n]])

RemoveAsserts(n) ==
  /\ "-r" \in Commands /\ Idle
  /\ Exists(n) /\ Readable(Directory[n])
  /\ ~(ToSet(Freed(n)) \subseteq FreeMap /\ IsInjective(Freed(n)))
  /\ Fail("freeMap->Test")

\* SynchDisk::WriteSector(), with the assertion of Disk::WriteRequest().
WriteSector ==
  /\ writes # <<>>
  /\ LET w == Head(writes) IN
     IF w.at \in Sector
     THEN /\ disk' = [disk EXCEPT ![w.at] = w.put]
          /\ writes' = Tail(writes)
          /\ UNCHANGED <<next, failed, ctlC, aborted, lost>>
     ELSE Fail("sectorNumber")

\* The user hits ctl-C in the middle of a command and runs nachos again.
CtlC ==
  /\ ~Idle /\ failed = ""
  /\ ctlC < MaxCtlC
  /\ ctlC' = ctlC + 1
  /\ writes' = <<>> /\ next' = Nothing
  /\ UNCHANGED <<disk, failed, aborted, lost>>

\* The user runs nachos again after an assertion has failed.
Restart ==
  /\ failed # ""
  /\ failed' = ""
  /\ UNCHANGED <<disk, writes, next, ctlC, aborted, lost>>

Command ==
  \E n \in Name :
    \/ \E size \in Sizes : Copy(n, size)
    \/ \E size \in Sizes, half \in BOOLEAN : AppendTo(n, size, half)
    \/ RemoveFile(n)
    \/ RemoveAsserts(n)

Next ==
  \/ Command
  \/ Fill \/ Extend
  \/ WriteSector
  \/ CtlC \/ Restart

Spec == Init /\ [][Next]_vars

-----------------------------------------------------------------------------
(* Properties.                                                             *)

\* The types of the variables, and of what the disk holds.
TypeOK ==
  /\ DOMAIN disk = Sector
  /\ FreeMap \subseteq Sector
  /\ \A n \in DOMAIN Directory : n \in Name /\ Directory[n] \in Sector
  /\ \A i \in DOMAIN writes : writes[i].at \in Sector \cup {-1}
  /\ failed \in {"", "sectorNumber", "freeMap->Test"} /\ aborted \in BOOLEAN
  /\ ctlC \in 0 .. MaxCtlC

\* What the header of a file lists, as far as it can be read.
Listed(n) ==
  LET h == disk[Directory[n]] IN
  IF ~IsHeader(Directory[n]) THEN <<>>
  ELSE h.direct \o (IF h.flag > 0 /\ IsIndex(h.flag) THEN disk[h.flag].index ELSE <<>>)

Uses(n) ==
  {Directory[n]} \cup ToSet(Listed(n))
  \cup (IF IsHeader(Directory[n]) /\ disk[Directory[n]].flag > 0 THEN {disk[Directory[n]].flag} ELSE {})

\* The writes are ordered so that the directory on the disk never names a
\* sector that does not hold a header, with its index block if it has one,
\* whenever the user hits ctl-C (Create()).  The exception is the step between
\* the two writes of a header that Append() has just given an index block.
EntryReadable ==
  ctlC = 0 => \A n \in DOMAIN Directory :
    /\ IsHeader(Directory[n])
    /\ LET flag == disk[Directory[n]].flag IN
       flag > 0 => IsIndex(flag) \/ (writes # <<>> /\ Head(writes).at = flag)

\* At no point of any command do two files on the disk share a sector, nor a
\* file list one twice, nor one of the bitmap's and the directory's.
NoSharing ==
  ctlC = 0 => \A n \in DOMAIN Directory :
    /\ IsInjective(Listed(n))
    /\ Uses(n) \cap {FreeMapSector, DirectorySector, MapData, DirData} = {}
    /\ \A m \in DOMAIN Directory \ {n} : Uses(n) \cap Uses(m) = {}

\* Between commands every sector in use is marked in the bitmap, and every
\* sector of a file's length holds what was written to that file.
Consistent ==
  Idle /\ ctlC = 0 => \A n \in DOMAIN Directory :
    /\ Uses(n) \subseteq FreeMap
    /\ \A i \in 1 .. divRoundUp(disk[Directory[n]].numBytes, SectorSize) :
         disk[Listed(n)[i]] = Written(n)

\* Sharing, marking and the order of the writes together, for the assertions of
\* Create(), of Remove() and of FileHeader::Deallocate() (filehdr.cc:160) rest
\* on all of them: without a ctl-C they never fail, whatever the commands.
DiskInv ==
  /\ TypeOK /\ NoSharing /\ Consistent /\ EntryReadable
  /\ failed = "freeMap->Test" => ctlC > 0

\* Remove() frees what a file used (filesys.cc:267-271), and a command that
\* fails leaves nothing marked: between commands, the sectors marked in the
\* bitmap are those of the bitmap, of the directory and of the files, and the
\* index blocks that are lost, one by one: that of each file that was removed
\* (Deallocate() does not clear it) and the old one of each file that grew
\* (AppSector() takes a new one every time, filehdr.cc:134).
OnlyIndexBlocksLeak ==
  Idle /\ ctlC = 0 /\ ~aborted =>
    FreeMap \ ({FreeMapSector, DirectorySector, MapData, DirData}
                \cup UNION {Uses(n) : n \in DOMAIN Directory})
      = lost

LengthOf(n) ==
  IF ~Exists(n) THEN Nothing
  ELSE IF IsHeader(Directory[n]) THEN disk[Directory[n]].numBytes ELSE -1

Lengths == [n \in Name |-> LengthOf(n)]

Files == INSTANCE FileTable WITH Absent <- Nothing, length <- Lengths

\* Every command takes effect on its own file alone, by one of its writes: the
\* file appears, disappears or gets its new length there.
FilesSpec ==
  Files!Init /\ [][ctlC' = 0 => Files!Next \/ UNCHANGED Lengths]_vars

=============================================================================
