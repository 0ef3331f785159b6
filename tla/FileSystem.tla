----------------------------- MODULE FileSystem -----------------------------
(***************************************************************************)
(* The file system of the final kernel (filesys/): the bitmap of free      *)
(* sectors, the directory, file headers with a table of direct sectors and *)
(* one doubly indirect sector, and open files that grow when they are      *)
(* written past their end.  Calls come one after the other: the code       *)
(* "assumes there is no concurrent access to the file system"              *)
(* (filesys.cc:170).  The machine may stop between any two disk writes     *)
(* and boot again from the same disk.                                      *)
(*                                                                         *)
(* Granularity.  A call reads what it needs, then writes sectors in the    *)
(* order of the code; `todo` holds the writes still to come, and each is   *)
(* one step.  The bitmap and the directory, which are files themselves,    *)
(* are written in one step each.                                           *)
(***************************************************************************)
EXTENDS Integers, FiniteSets, Sequences

CONSTANTS
  Name,           \* file names
  Handle,         \* OpenFile objects
  NumSectors, SectorSize,
  NumDirect,      \* entries of dataSectors
  PerIndirect,    \* sectorPerIndirect
  NumDirEntries,
  SystemSectors,  \* headers and contents of the bitmap and the directory: the first sectors
  Slack,          \* what WriteAt adds when it extends a file (4000 bytes)
  FileSize,       \* bound: sizes that Create is called with
  WriteRange,     \* bound: pairs of position and length that WriteAt is called with
  NoName

ASSUME FileSystemAssumption ==
  /\ {NumSectors, SectorSize, NumDirect, PerIndirect, NumDirEntries} \subseteq Nat \ {0}
  /\ SystemSectors \in 2 .. NumSectors
  /\ PerIndirect * PerIndirect >= NumSectors
  /\ Slack \in Nat /\ Slack >= NumDirect * SectorSize
  /\ FileSize \subseteq Nat
  /\ WriteRange \subseteq Nat \X (Nat \ {0})
  /\ \A r \in WriteRange : (r[1] + r[2] - 1) \div SectorSize < PerIndirect * PerIndirect
  /\ NoName \notin Name

VARIABLES
  disk,     \* disk[s]: what sector s holds
  freeMap,  \* the bitmap on disk: the sectors in use
  dir,      \* the directory on disk
  open,     \* open[h]: the name and the header that OpenFile h keeps in memory, or Closed
  call,     \* the call under way
  todo,     \* the writes it has still to do
  torn,     \* it has written one of two structures that belong together
  damaged   \* the machine stopped while torn: the disk is not to be used again

vars == <<disk, freeMap, dir, open, call, todo, torn, damaged>>

Sector == 0 .. NumSectors - 1
Slot   == 0 .. PerIndirect - 1
None   == -1                      \* no sector: what FindAndSet answers on a full disk
Unset  == -2                      \* an entry of dataSectors that was never assigned
Zero == 0  Junk == 2              \* the byte '\0'; a byte nobody wrote as data
Byte == 0 .. Junk
Unreadable == Junk + 1            \* reading this byte stops the kernel

Header == [length : Nat, sectors : Nat,
           direct : [0 .. NumDirect - 1 -> Sector \cup {Unset}],
           doubly : Sector \cup {None}]
Pointers == [Slot -> Sector \cup {None}]
Content == [kind : {"data"}, bytes : [0 .. SectorSize - 1 -> Byte]]
             \cup [kind : {"header"}, header : Header]
             \cup [kind : {"pointers"}, slots : Pointers]
Blank == [kind |-> "data", bytes |-> [k \in 0 .. SectorSize - 1 |-> Zero]]

Closed  == [name |-> NoName]
NoEntry == [name |-> NoName]
NoCall  == [op |-> "none", name |-> NoName]

divRoundUp(n, s) == (n + s - 1) \div s

(* A disk write; `links` when what it changes is reachable from the directory and needs    *)
(* the writes that follow to be consistent.                                                *)
ToSector(s, c, links) == [to |-> "sector", at |-> s, put |-> c, links |-> links]
ToMap(m) == [to |-> "map", at |-> 0, put |-> m, links |-> TRUE]
ToDir(d) == [to |-> "dir", at |-> 1, put |-> d, links |-> TRUE]

-----------------------------------------------------------------------------
(* Bitmap *)

NumClear(m) == Cardinality(Sector \ m)

(* Mutant: the loop looks at one bit too many. *)
FindAndSetBeyond(m, k) ==
  LET kth == {s \in 0 .. NumSectors \ m : Cardinality({r \in 0 .. s : r \notin m}) = k}
  IN IF kth = {} THEN None ELSE CHOOSE s \in kth : TRUE
(* What the k-th of consecutive calls of FindAndSet answers. *)
FindAndSet(m, k) ==
  LET free == Sector \ m
      kth  == {s \in free : Cardinality({r \in free : r <= s}) = k}
  IN IF kth = {} THEN None ELSE CHOOSE s \in kth : TRUE

(* The bitmap after k calls of FindAndSet. *)
AfterFindAndSet(m, k) == m \cup ({FindAndSet(m, i) : i \in 1 .. k} \ {None})

-----------------------------------------------------------------------------
(* Indirect blocks *)

NoPointers == [j \in Slot |-> None]
PointersAt(s) == IF s # None /\ disk[s].kind = "pointers" THEN disk[s].slots ELSE NoPointers

IndirectOf(doubly, i) == PointersAt(PointersAt(doubly)[i \div PerIndirect])[i % PerIndirect]

(* The pointers of the doubly indirect block that are set, in a row. *)
FilledPointers(doubly) ==
  {i \in 0 .. PerIndirect * PerIndirect - 1 : IndirectOf(doubly, i) # None}
IndirectBlocks(doubly) == {j \in Slot : PointersAt(doubly)[j] # None}

(* FileHeader::Allocate and extendFileSize fill `need` more pointers.  `before` calls of   *)
(* FindAndSet went before the first one; a block of pointers is found before its entries.  *)
(* The result: the tables to write, each under its sector, and the number of calls.        *)
Chain(m, doubly, before, need) ==
  LET filled == Cardinality(FilledPointers(doubly))
      blocks == Cardinality(IndirectBlocks(doubly))
      last   == (IF filled + need <= PerIndirect * PerIndirect
                   THEN filled + need ELSE PerIndirect * PerIndirect) - 1
      newBlocks(i) == IF i \div PerIndirect < blocks THEN 0 ELSE i \div PerIndirect + 1 - blocks
      nth(i)   == before + newBlocks(i) + i - filled + 1
      block(j) == IF j < blocks THEN PointersAt(doubly)[j]
                  ELSE FindAndSet(m, nth(j * PerIndirect) - 1)
      pointer(i) == CASE i < filled -> IndirectOf(doubly, i)
                      [] i \in filled .. last -> FindAndSet(m, nth(i))
                      [] OTHER -> None
      used == last \div PerIndirect
  IN [blocks |-> [j \in 1 .. used + 1 |->
                    [at |-> block(j - 1),
                     slots |-> [k \in Slot |-> pointer((j - 1) * PerIndirect + k)]]],
      doubly |-> [j \in Slot |-> IF j <= used THEN block(j) ELSE PointersAt(doubly)[j]],
      calls |-> nth(last)]

(* The tables go to disk, block after block, then the doubly indirect one. *)
ChainWrites(chain, doubly, links) ==
  [j \in 1 .. Len(chain.blocks) |->
     ToSector(chain.blocks[j].at, [kind |-> "pointers", slots |-> chain.blocks[j].slots], links)]
  \o <<ToSector(doubly, [kind |-> "pointers", slots |-> chain.doubly], links)>>

-----------------------------------------------------------------------------
(* FileHeader *)

(* Allocate(freeMap, size): the header, the writes it does, and the bitmap after it.       *)
Allocate(m, size) ==
  LET n == divRoundUp(size, SectorSize)
      indirect == n > NumDirect
      header == [length |-> size, sectors |-> n,
                 direct |-> [i \in 0 .. NumDirect - 1 |->
                               IF i < n THEN FindAndSet(m, i + 1) ELSE Unset],
                 doubly |-> IF indirect THEN FindAndSet(m, NumDirect + 1) ELSE None]
      chain == Chain(m, None, NumDirect + 1, n - NumDirect)
  IN [header |-> header,
      writes |-> IF indirect THEN ChainWrites(chain, header.doubly, FALSE) ELSE <<>>,
      map |-> AfterFindAndSet(m, IF indirect THEN chain.calls ELSE n)]

(* The sectors Deallocate clears. *)
PointersOf(doubly) ==
  IF doubly = None THEN {}
  ELSE {doubly} \cup {PointersAt(doubly)[j] : j \in IndirectBlocks(doubly)}
                \cup {IndirectOf(doubly, i) : i \in FilledPointers(doubly)}
DirectOf(header) ==
  {header.direct[i] : i \in {i \in 0 .. NumDirect - 1 : i < header.sectors}} \ {Unset}
SectorsOf(header) == DirectOf(header) \cup PointersOf(header.doubly)

(* Deallocate fetches the doubly indirect block whenever the direct table is full, even    *)
(* if there is none: the disk then stops the kernel.                                       *)
DeallocateStops(header) == header.sectors >= NumDirect /\ header.doubly = None

(* The sector of the i-th part of the file.  The pointers are counted from the start of    *)
(* the file, not from the end of the direct table.                                         *)
ByteToSector(header, i) ==
  IF i < NumDirect THEN header.direct[i] ELSE IndirectOf(header.doubly, i)

(* extendFileSize: possible when the sectors for the data alone are free. *)
CanExtend(header, extra) ==
  LET n == divRoundUp(extra, SectorSize)
  IN /\ NumClear(freeMap) >= n
     /\ divRoundUp(header.length, SectorSize) + n <= NumSectors

(* A file that does not fill the direct table has all of it assigned anew, from entry 0.   *)
Extend(header, extra, linked) ==
  LET n == divRoundUp(extra, SectorSize)
      smaller(a, b) == IF a < b THEN a ELSE b
      direct == IF divRoundUp(header.length, SectorSize) < NumDirect
                  THEN smaller(NumDirect, n) ELSE 0
      newDoubly == IF header.doubly = None THEN 1 ELSE 0
      doubly == IF newDoubly = 1 THEN FindAndSet(freeMap, direct + 1) ELSE header.doubly
      chain == Chain(freeMap, header.doubly, direct + newDoubly, n - direct)
  IN [header |-> [length |-> header.length + extra, sectors |-> header.sectors + n,
                  direct |-> [i \in 0 .. NumDirect - 1 |->
                                IF i < direct THEN FindAndSet(freeMap, i + 1)
                                ELSE header.direct[i]],
                  doubly |-> IF n > direct THEN doubly ELSE header.doubly],
      writes |-> IF n > direct THEN ChainWrites(chain, doubly, linked) ELSE <<>>,
      map |-> AfterFindAndSet(freeMap, IF n > direct THEN chain.calls ELSE n)]

-----------------------------------------------------------------------------
(* Directory *)

Entry == 0 .. NumDirEntries - 1
Listed(f) == \E i \in Entry : dir[i].name = f
FindIndex(f) == CHOOSE i \in Entry : dir[i].name = f
Find(f) == dir[FindIndex(f)].sector
HeaderOf(f) == disk[Find(f)].header

FreeEntries == {i \in Entry : dir[i] = NoEntry}
DirectoryAdd(f, s) ==
  LET first == CHOOSE i \in FreeEntries : \A j \in FreeEntries : i <= j
  IN [dir EXCEPT ![first] = [name |-> f, sector |-> s]]
DirectoryRemove(f) == [dir EXCEPT ![FindIndex(f)] = NoEntry]

-----------------------------------------------------------------------------
(* FileSystem(TRUE): a disk just formatted. *)
Init ==
  /\ disk = [s \in Sector |-> Blank]
  /\ freeMap = 0 .. SystemSectors - 1
  /\ dir = [i \in Entry |-> NoEntry]
  /\ open = [h \in Handle |-> Closed]
  /\ call = NoCall
  /\ todo = <<>>
  /\ torn = FALSE
  /\ damaged = FALSE

Idle == call = NoCall /\ ~damaged

(* Mutant: the bitmap is not written. *)
CreateWritesNoMap(f, sector, a) ==
  a.writes \o <<ToSector(sector, [kind |-> "header", header |-> a.header], FALSE),
                ToDir(DirectoryAdd(f, sector))>>
(* The header, then the directory, then the bitmap. *)
CreateWrites(f, sector, a) ==
  a.writes \o <<ToSector(sector, [kind |-> "header", header |-> a.header], FALSE),
                ToDir(DirectoryAdd(f, sector)), ToMap(a.map)>>

(* FileSystem::Create.  A call that is refused writes nothing and is not shown. *)
Create(f, size) ==
  LET sector == FindAndSet(freeMap, 1)
      m      == AfterFindAndSet(freeMap, 1)
  IN /\ Idle
     /\ ~Listed(f)
     /\ sector # None
     /\ FreeEntries # {}
     /\ NumClear(m) >= divRoundUp(size, SectorSize)
     /\ call' = [op |-> "create", name |-> f]
     /\ todo' = CreateWrites(f, sector, Allocate(m, size))
     /\ UNCHANGED <<disk, freeMap, dir, open, torn, damaged>>

(* FileSystem::Open: the header stays in memory while the file is open. *)
Open(h, f) ==
  /\ Idle
  /\ open[h] = Closed
  /\ Listed(f)
  /\ open' = [open EXCEPT ![h] = [name |-> f, header |-> HeaderOf(f)]]
  /\ UNCHANGED <<disk, freeMap, dir, call, todo, torn, damaged>>

(* ~OpenFile: the header in memory is dropped, never written. *)
Close(h) ==
  /\ Idle
  /\ open[h] # Closed
  /\ open' = [open EXCEPT ![h] = Closed]
  /\ UNCHANGED <<disk, freeMap, dir, call, todo, torn, damaged>>

(* What Remove clears in the bitmap. *)
RemoveSectors(f) == {Find(f)} \cup SectorsOf(HeaderOf(f))

(* FileSystem::Remove: the bitmap, then the directory.  Nobody writes through an OpenFile  *)
(* of the file afterwards.                                                                 *)
Remove(f) ==
  /\ Idle
  /\ Listed(f)
  /\ call' = [op |-> "remove", name |-> f]
  /\ open' = [h \in Handle |-> IF open[h].name = f THEN Closed ELSE open[h]]
  /\ todo' = IF DeallocateStops(HeaderOf(f))
               THEN <<ToSector(None, Blank, FALSE)>>
               ELSE <<ToMap(freeMap \ RemoveSectors(f)), ToDir(DirectoryRemove(f))>>
  /\ UNCHANGED <<disk, freeMap, dir, torn, damaged>>

-----------------------------------------------------------------------------
(* OpenFile *)

(* What ReadAt finds at byte p. *)
ByteAt(header, p) ==
  LET s == ByteToSector(header, p \div SectorSize)
  IN CASE s = None -> Unreadable
       [] s = Unset -> Junk
       [] OTHER -> IF disk[s].kind = "data" THEN disk[s].bytes[p % SectorSize] ELSE Junk
Bytes(header) == [p \in 0 .. header.length - 1 |-> ByteAt(header, p)]

Sectors(p, n) == p \div SectorSize .. (p + n - 1) \div SectorSize

(* The parts of the file that WriteAt reads first, because it writes them in part. *)
Partial(p, n) ==
  {i \in Sectors(p, n) : i * SectorSize < p \/ p + n < (i + 1) * SectorSize}

(* The buffer of WriteAt: the caller's bytes and a '\0', what was read, and garbage where  *)
(* ReadAt stopped at the end of the file.                                                  *)
Buffer(header, p, n, v, i) ==
  [k \in 0 .. SectorSize - 1 |->
     LET q == i * SectorSize + k
     IN CASE q \in p .. p + n - 1 -> v
          [] q = p + n -> Zero
          [] q \notin p .. p + n /\ i \in Partial(p, n) /\ q < header.length -> ByteAt(header, q)
          [] OTHER -> Junk]

(* ReadAt, called by a user: it changes nothing unless a sector cannot be read, and then   *)
(* the kernel stops.                                                                       *)
ReadAtStops(h, p, n) ==
  /\ Idle
  /\ open[h] # Closed
  /\ \E q \in p .. p + n - 1 : q < open[h].header.length
                               /\ ByteAt(open[h].header, q) = Unreadable
  /\ call' = [op |-> "read", name |-> open[h].name]
  /\ todo' = <<ToSector(None, Blank, FALSE)>>
  /\ UNCHANGED <<disk, freeMap, dir, open, torn, damaged>>

(* Mutant: extend keeps the bitmap to itself. *)
ExtendWritesNoMap(grown) == grown.writes
ExtendWrites(grown) == grown.writes \o <<ToMap(grown.map)>>

(* WriteAt, up to the end of FileSystem::extend.  The new header is not written back: the  *)
(* file on disk keeps its old one.                                                         *)
WriteAt(h, p, n, v) ==
  LET f      == open[h].name
      header == open[h].header
      extra  == p + n - header.length + Slack
      linked == header.doubly # None /\ header.doubly = HeaderOf(f).doubly
      grown  == Extend(header, extra, linked)
  IN /\ Idle
     /\ open[h] # Closed
     /\ call' = [op |-> "write", name |-> f, handle |-> h, at |-> p, length |-> n, value |-> v,
                 before |-> Bytes(header)]
     /\ IF p + n > header.length /\ CanExtend(header, extra)
          THEN /\ todo' = ExtendWrites(grown)
               /\ open' = [open EXCEPT ![h].header = grown.header]
          ELSE UNCHANGED <<todo, open>>
     /\ UNCHANGED <<disk, freeMap, dir, torn, damaged>>

(* WriteAt, the rest: read what is written in part, then write sector after sector. *)
WriteData ==
  LET header == open[call.handle].header
      p == call.at  n == call.length
      first == p \div SectorSize
      unreadable == \E i \in Partial(p, n) : /\ i * SectorSize < header.length
                                             /\ ByteToSector(header, i) = None
  IN /\ call.op = "write" /\ todo = <<>>
     /\ call' = [call EXCEPT !.op = "written"]
     /\ todo' = IF unreadable THEN <<ToSector(None, Blank, FALSE)>>
                ELSE [j \in 1 .. Cardinality(Sectors(p, n)) |->
                        ToSector(ByteToSector(header, first + j - 1),
                                 [kind |-> "data",
                                  bytes |-> Buffer(header, p, n, call.value, first + j - 1)],
                                 FALSE)]
     /\ UNCHANGED <<disk, freeMap, dir, open, torn, damaged>>

-----------------------------------------------------------------------------
(* The disk *)

(* The machine stops and boots again: FileSystem(FALSE). *)
Reboot ==
  /\ open' = [h \in Handle |-> Closed]
  /\ call' = NoCall
  /\ todo' = <<>>
  /\ torn' = FALSE
  /\ damaged' = torn
  /\ UNCHANGED <<disk, freeMap, dir>>

(* The next write reaches the disk. *)
DiskWrite ==
  LET w == Head(todo)
  IN /\ todo # <<>> /\ w.at \in Sector
     /\ disk' = IF w.to = "sector" THEN [disk EXCEPT ![w.at] = w.put] ELSE disk
     /\ freeMap' = IF w.to = "map" THEN w.put ELSE freeMap
     /\ dir' = IF w.to = "dir" THEN w.put ELSE dir
     /\ todo' = Tail(todo)
     /\ torn' = (Tail(todo) # <<>> /\ (torn \/ w.links))
     /\ UNCHANGED <<open, call, damaged>>

(* An assertion of Disk fails: no such sector. *)
DiskStops ==
  /\ todo # <<>> /\ Head(todo).at = None
  /\ Reboot

(* A header entry that was never assigned names any sector. *)
WildWrite ==
  /\ todo # <<>> /\ Head(todo).at = Unset
  /\ damaged' = TRUE
  /\ todo' = <<>>
  /\ UNCHANGED <<disk, freeMap, dir, open, call, torn>>

Crash == ~damaged /\ Reboot

Return ==
  /\ call.op \in {"create", "remove", "written"} /\ todo = <<>> /\ ~damaged
  /\ call' = NoCall
  /\ UNCHANGED <<disk, freeMap, dir, open, todo, torn, damaged>>

Next ==
  \/ \E f \in Name, size \in FileSize : Create(f, size)
  \/ \E f \in Name : Remove(f)
  \/ \E h \in Handle, f \in Name : Open(h, f)
  \/ \E h \in Handle : Close(h)
  \/ \E h \in Handle, r \in WriteRange : ReadAtStops(h, r[1], r[2]) \/ WriteAt(h, r[1], r[2], 1)
  \/ WriteData
  \/ DiskWrite
  \/ DiskStops
  \/ WildWrite
  \/ Crash
  \/ Return

Spec == Init /\ [][Next]_vars

-----------------------------------------------------------------------------
TypeOK ==
  /\ disk \in [Sector -> Content]
  /\ freeMap \subseteq Sector
  /\ \A i \in Entry : dir[i] = NoEntry \/ (dir[i].name \in Name /\ dir[i].sector \in Sector)
  /\ \A h \in Handle : open[h] = Closed \/ (open[h].name \in Name /\ open[h].header \in Header)
  /\ call.op \in {"none", "create", "remove", "read", "write", "written"}
  /\ \A j \in 1 .. Len(todo) : todo[j].at \in Sector \cup {None, Unset}
  /\ {torn, damaged} \subseteq BOOLEAN

(* No sector belongs to two files, or to a file and the system, and every sector of a      *)
(* file is marked in the bitmap, whatever the sizes, the growth through several OpenFiles  *)
(* and the stops of the machine: only a stop between the two writes that a call makes to   *)
(* linked structures can end that.                                                         *)
FileSectors(f) ==
  (IF Listed(f) THEN {Find(f)} \cup SectorsOf(HeaderOf(f)) ELSE {})
    \cup UNION {SectorsOf(open[h].header) : h \in {h \in Handle : open[h].name = f}}

NoSharedSectors ==
  call = NoCall /\ ~damaged =>
    /\ \A f \in Name : FileSectors(f) \subseteq freeMap \ (0 .. SystemSectors - 1)
    /\ \A f, g \in Name : f # g => FileSectors(f) \cap FileSectors(g) = {}

(* A call on one file, wherever it stops, changes nothing that a reader of another file    *)
(* sees.                                                                                   *)
View(f) == IF disk[Find(f)].kind = "header" THEN Bytes(HeaderOf(f)) ELSE <<>>

FilesAreIsolated ==
  [][\A f \in Name :
       f # call.name /\ Listed(f) /\ Listed(f)' /\ ~damaged' /\ call # NoCall
         => View(f)' = View(f)]_vars

(* "We must first read in any sectors that will be partially written, so that we don't     *)
(* overwrite the unmodified portion" (openfile.cc:103): bytes outside the range that       *)
(* WriteAt was given stay as they were, as the writer itself sees them.                    *)
WriteKeepsTheRest ==
  call.op = "written" /\ todo = <<>> /\ ~damaged =>
    \A p \in DOMAIN call.before :
      p \notin call.at .. call.at + call.length - 1
        => ByteAt(open[call.handle].header, p) = call.before[p]
=============================================================================
