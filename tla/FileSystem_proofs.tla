------------------------- MODULE FileSystem_proofs --------------------------
(***************************************************************************)
(* Proofs about FileSystem, for disks, tables, directories and files of    *)
(* any size: the types; no sector belongs to two files or is free while it *)
(* belongs to one; a call on one file leaves the others alone.             *)
(***************************************************************************)
EXTENDS FileSystem, FiniteSetTheorems, WellFoundedInduction, TLAPS

-----------------------------------------------------------------------------
(* Types. *)
Directory == [Entry -> {NoEntry} \cup [name : Name, sector : Sector]]
OpenFile  == [name : Name, header : Header]
Write == [to : {"sector"}, at : Sector \cup {None, Unset}, put : Content, links : BOOLEAN]
           \cup [to : {"map"}, at : {0}, put : SUBSET Sector, links : {TRUE}]
           \cup [to : {"dir"}, at : {1}, put : Directory, links : {TRUE}]

TypeInv ==
  /\ disk \in [Sector -> Content]
  /\ freeMap \subseteq Sector
  /\ dir \in Directory
  /\ open \in [Handle -> {Closed} \cup OpenFile]
  /\ todo \in Seq(Write)
  /\ torn \in BOOLEAN /\ damaged \in BOOLEAN
  /\ call.op \in {"none", "create", "remove", "read", "write", "written"}

Elements(list) == {list[j] : j \in 1 .. Len(list)}

(* The call under way.  Nothing is written any more to a disk that is damaged; only the     *)
(* data of a file is ever written to a sector that was never assigned. *)
CallInv ==
  /\ call.op = "none" => call = NoCall /\ todo = <<>>
  /\ todo = <<>> => ~torn
  /\ damaged => todo = <<>> /\ call.op # "write"
  /\ call.op = "write" =>
       /\ call = [op |-> "write", name |-> call.name, handle |-> call.handle, at |-> call.at,
                  length |-> call.length, value |-> call.value, before |-> call.before]
       /\ call.handle \in Handle /\ open[call.handle] # Closed
       /\ open[call.handle].name = call.name
       /\ <<call.at, call.length>> \in WriteRange /\ call.value = 1
  /\ call.op = "written" => ~torn
  /\ \A w \in Elements(todo) : /\ w.at = Unset => call.op = "written"
                               /\ w.links => call.op # "written"

(* Contents of sectors: a header that names sectors of As and a doubly indirect one of Ds;  *)
(* a table whose pointers lead to S, or anything that nobody takes for a table.             *)
HeaderIn(header, As, Ds) ==
  /\ header \in Header
  /\ \A i \in 0 .. NumDirect - 1 : header.direct[i] \in As \cup {Unset}
  /\ header.doubly \in Ds \cup {None}
Headers(As, Ds) ==
  {c \in Content : /\ c.kind = "header" /\ HeaderIn(c.header, As, Ds)
                   /\ divRoundUp(c.header.length, SectorSize) <= NumSectors}
Tables(S) == {c \in Content : c.kind = "pointers" => \A j \in Slot : c.slots[j] \in S \cup {None}}

(* When the writes q are done: sector s of the disk k holds something from C, the directory *)
(* d is r, the bitmap b is m. *)
Targets(w, s) == w.to = "sector" /\ w.at = s
Becomes(k, q, s, C) ==
  /\ \A w \in q : Targets(w, s) => w.put \in C
  /\ k[s] \in C \/ \E w \in q : Targets(w, s)
BecomesDir(d, q, r) ==
  /\ \A w \in q : w.to = "dir" => w.put = r
  /\ d = r \/ \E w \in q : w.to = "dir"
BecomesMap(b, q, m) ==
  /\ \A w \in q : w.to = "map" => w.put = m
  /\ b = m \/ \E w \in q : w.to = "map"

(* Who owns which sectors.  Data[f] are sectors for the contents of f, Doubly[f] the doubly *)
(* indirect ones of its headers, on disk and in memory, Blocks[d] the blocks of pointers    *)
(* that belong to the doubly indirect sector d.                                             *)
Owned(Data, Doubly, Blocks, f) == Data[f] \cup Doubly[f] \cup UNION {Blocks[d] : d \in Doubly[f]}

Ownership(Data, Doubly, Blocks) ==
  /\ Data \in [Name -> SUBSET Sector]
  /\ Doubly \in [Name -> SUBSET Sector]
  /\ Blocks \in [Sector -> SUBSET Sector]

DirOK(r) ==
  \A i, j \in Entry : i # j /\ r[i] # NoEntry /\ r[j] # NoEntry =>
    r[i].name # r[j].name /\ r[i].sector # r[j].sector
HeadersOK(k, q, r, m, Data, Doubly, Blocks) ==
  \A i \in Entry : r[i] # NoEntry =>
    /\ r[i].sector \in m \ (0 .. SystemSectors - 1)
    /\ \A g \in Name : r[i].sector \notin Owned(Data, Doubly, Blocks, g)
    /\ Becomes(k, q, r[i].sector, Headers(Data[r[i].name], Doubly[r[i].name]))
OwnersOK(m, Data, Doubly, Blocks) ==
  /\ 0 .. SystemSectors - 1 \subseteq m
  /\ \A f \in Name : Owned(Data, Doubly, Blocks, f) \subseteq m \ (0 .. SystemSectors - 1)
  /\ \A f, g \in Name : f # g =>
       Owned(Data, Doubly, Blocks, f) \cap Owned(Data, Doubly, Blocks, g) = {}
ChainsOK(k, q, Data, Doubly, Blocks) ==
  \A f \in Name : \A d \in Doubly[f] :
    /\ Becomes(k, q, d, Tables(Blocks[d]))
    /\ \A b \in Blocks[d] : Becomes(k, q, b, Tables(Data[f]))
    /\ \A e \in Doubly[f] : e \notin Blocks[d] /\ (e # d => Blocks[d] \cap Blocks[e] = {})
OpenOK(o, Data, Doubly) ==
  \A h \in Handle : o[h] # Closed => HeaderIn(o[h].header, Data[o[h].name], Doubly[o[h].name])

Good(k, q, r, m, o, Data, Doubly, Blocks) ==
  /\ DirOK(r)
  /\ HeadersOK(k, q, r, m, Data, Doubly, Blocks)
  /\ OwnersOK(m, Data, Doubly, Blocks)
  /\ ChainsOK(k, q, Data, Doubly, Blocks)
  /\ OpenOK(o, Data, Doubly)

(* A call on file c that does the writes q and leaves the directory r instead of d stays    *)
(* out of other files.                                                                      *)
ForeignOK(c, d, q, r, Data, Doubly, Blocks) ==
  /\ \A i \in Entry : r[i] # d[i] => {r[i].name, d[i].name} \subseteq {c, NoName}
  /\ \A w \in q : w.to = "sector" =>
       /\ \A g \in Name \ {c} : w.at \notin Owned(Data, Doubly, Blocks, g)
       /\ \A i \in Entry : r[i] # NoEntry /\ r[i].name # c => w.at # r[i].sector

(* The call under way ends in a good state.                                                 *)
FinalOK(q, r, m, Data, Doubly, Blocks) ==
  /\ Ownership(Data, Doubly, Blocks)
  /\ r \in Directory /\ m \subseteq Sector
  /\ BecomesDir(dir, q, r) /\ BecomesMap(freeMap, q, m)
  /\ Good(disk, q, r, m, open, Data, Doubly, Blocks)
  /\ ForeignOK(call.name, dir, q, r, Data, Doubly, Blocks)
FinalInv ==
  ~damaged => \E r, m, Data, Doubly, Blocks : FinalOK(Elements(todo), r, m, Data, Doubly, Blocks)

(* Unless it is torn, the disk is good as it is, with the files closed, and of the writes   *)
(* to come those before the first link leave it so.                                         *)
AllClosed == [h \in Handle |-> Closed]
Harmless(w, d, Doubly, Blocks) ==
  /\ w.to = "sector"
  /\ \A i \in Entry : d[i] # NoEntry => w.at # d[i].sector
  /\ w.put.kind # "data" => \A f \in Name : \A e \in Doubly[f] : w.at # e /\ w.at \notin Blocks[e]
CrashOK(q, Data, Doubly, Blocks) ==
  /\ Ownership(Data, Doubly, Blocks)
  /\ Good(disk, {}, dir, freeMap, AllClosed, Data, Doubly, Blocks)
  /\ \A w \in q : w.links \/ Harmless(w, dir, Doubly, Blocks)
CrashInv ==
  ~damaged /\ ~torn => \E Data, Doubly, Blocks : CrashOK(Elements(todo), Data, Doubly, Blocks)

IInv == TypeInv /\ CallInv /\ FinalInv /\ CrashInv

-----------------------------------------------------------------------------
(* Numbers                                                                                  *)

LEMMA Constants ==
  /\ NumSectors \in Nat \ {0} /\ SectorSize \in Nat \ {0} /\ NumDirect \in Nat \ {0}
  /\ PerIndirect \in Nat \ {0} /\ NumDirEntries \in Nat \ {0}
  /\ NumSectors >= 2 /\ SystemSectors >= 2 /\ SystemSectors \in Nat
  /\ 0 .. SystemSectors - 1 \subseteq Sector
  /\ Sector \subseteq Nat /\ None \notin Sector /\ Unset \notin Sector
  /\ 0 \in Sector /\ 1 \in Sector /\ None # Unset
  /\ IsFiniteSet(Sector) /\ Cardinality(Sector) = NumSectors
<1>1. /\ NumSectors \in Nat \ {0} /\ SectorSize \in Nat \ {0} /\ NumDirect \in Nat \ {0}
      /\ PerIndirect \in Nat \ {0} /\ NumDirEntries \in Nat \ {0}
      /\ SystemSectors \in 2 .. NumSectors
  BY FileSystemAssumption
<1>2. IsFiniteSet(Sector) /\ Cardinality(Sector) = NumSectors
  <2>1. 0 \in Int /\ NumSectors - 1 \in Int /\ ~(0 > NumSectors - 1) /\ NumSectors - 1 - 0 + 1 = NumSectors
    BY <1>1
  <2>2. /\ IsFiniteSet(0 .. NumSectors - 1)
        /\ Cardinality(0 .. NumSectors - 1)
             = IF 0 > NumSectors - 1 THEN 0 ELSE NumSectors - 1 - 0 + 1
    BY <2>1, FS_Interval
  <2> QED BY <2>1, <2>2 DEF Sector
<1> QED BY <1>1, <1>2 DEF Sector, None, Unset

LEMMA LeastNumber ==
  ASSUME NEW T, T \subseteq Nat, T # {}
  PROVE  \E x \in T : \A y \in T : x <= y
<1>1. IsWellFoundedOn(OpToRel(<, Nat), Nat)
  BY NatLessThanWellFounded
<1>2. PICK x \in T : \A y \in T : ~(<<y, x>> \in OpToRel(<, Nat))
  <2> HIDE DEF OpToRel
  <2> QED BY <1>1, WFMin
<1>3. \A y \in T : ~(y < x)
  BY <1>2 DEF OpToRel
<1> QED BY <1>3

(* A place in a file, and the place of a pointer in the tables. *)
LEMMA DivFacts ==
  ASSUME NEW d \in Nat \ {0}, NEW i \in Nat
  PROVE  /\ i \div d \in Nat /\ i % d \in 0 .. d - 1
         /\ d * (i \div d) <= i /\ i < d * (i \div d) + d
OBVIOUS

LEMMA Times ==
  ASSUME NEW d \in Nat \ {0}, NEW x \in Nat, NEW y \in Nat, x < y
  PROVE  d * x + d <= d * y
<1>1. PICK z \in Nat : y = x + 1 + z
  <2>1. y - (x + 1) \in Nat /\ y = x + 1 + (y - (x + 1))
    OBVIOUS
  <2> QED BY <2>1
<1>2. d * y = d * x + d + d * z
  BY <1>1
<1>3. d * z >= 0
  OBVIOUS
<1>4. d * x \in Int /\ d * z \in Int
  OBVIOUS
<1> QED BY <1>2, <1>3, <1>4

LEMMA DivMonotone ==
  ASSUME NEW d \in Nat \ {0}, NEW i \in Nat, NEW j \in Nat, i <= j
  PROVE  i \div d <= j \div d
<1> DEFINE x == i \div d
           y == j \div d
<1>1. /\ x \in Nat /\ y \in Nat /\ d * x <= i /\ i < d * x + d /\ d * y <= j /\ j < d * y + d
  BY DivFacts
<1> HIDE DEF x, y
<1>2. ~(y < x)
  <2> SUFFICES ASSUME y < x PROVE FALSE
    OBVIOUS
  <2>1. d * y + d <= d * x
    BY <1>1, Times
  <2>2. d * y \in Int /\ d * x \in Int
    BY <1>1
  <2> QED BY <1>1, <2>1, <2>2
<1>3. x <= y
  BY <1>1, <1>2
<1> QED BY <1>3 DEF x, y

LEMMA DivBound ==
  ASSUME NEW d \in Nat \ {0}, NEW i \in Nat, NEW n \in Nat, i < d * n
  PROVE  i \div d < n
<1> DEFINE x == i \div d
<1>1. x \in Nat /\ d * x <= i
  BY DivFacts
<1> HIDE DEF x
<1>2. ~(n <= x)
  <2> SUFFICES ASSUME n <= x PROVE FALSE
    OBVIOUS
  <2>1. d * n <= d * x
    <3>1. CASE n = x
      BY <3>1, <1>1
    <3>2. CASE n < x
      <4>1. d * n + d <= d * x
        BY <3>2, <1>1, Times
      <4>2. d * n \in Int /\ d * x \in Int
        BY <1>1
      <4> QED BY <4>1, <4>2
    <3> QED BY <3>1, <3>2, <1>1
  <2>2. d * n \in Int /\ d * x \in Int
    BY <1>1
  <2> QED BY <1>1, <2>1, <2>2
<1>3. x < n
  BY <1>1, <1>2
<1> QED BY <1>3 DEF x

-----------------------------------------------------------------------------
(* The bitmap                                                                               *)

Rank(m, s) == Cardinality({r \in Sector \ m : r <= s})

LEMMA RankFinite ==
  ASSUME NEW m, NEW s
  PROVE  /\ IsFiniteSet({r \in Sector \ m : r <= s}) /\ Rank(m, s) \in Nat
         /\ IsFiniteSet(Sector \ m) /\ NumClear(m) \in Nat /\ NumClear(m) <= NumSectors
<1>1. {r \in Sector \ m : r <= s} \in SUBSET Sector /\ Sector \ m \in SUBSET Sector
  OBVIOUS
<1>2. IsFiniteSet({r \in Sector \ m : r <= s}) /\ IsFiniteSet(Sector \ m)
  BY <1>1, Constants, FS_Subset
<1>3. Rank(m, s) \in Nat /\ NumClear(m) \in Nat
  BY <1>2, FS_CardinalityType DEF Rank, NumClear
<1>4. NumClear(m) <= NumSectors
  BY <1>1, Constants, FS_Subset DEF NumClear
<1> QED BY <1>2, <1>3, <1>4

(* FindAndSet answers a free sector, and different calls different ones. *)
LEMMA FindRank ==
  ASSUME NEW m, NEW k, FindAndSet(m, k) # None
  PROVE  FindAndSet(m, k) \in Sector \ m /\ Rank(m, FindAndSet(m, k)) = k
<1> DEFINE kth == {s \in Sector \ m : Rank(m, s) = k}
<1>1. FindAndSet(m, k) = IF kth = {} THEN None ELSE CHOOSE s \in kth : TRUE
  BY DEF FindAndSet, Rank
<1>2. kth # {}
  BY <1>1
<1>3. FindAndSet(m, k) \in kth
  BY <1>1, <1>2
<1> QED BY <1>3

LEMMA FindFree ==
  ASSUME NEW m, NEW k
  PROVE  /\ FindAndSet(m, k) \in (Sector \ m) \cup {None}
         /\ FindAndSet(m, k) # None => k \in Nat \ {0}
         /\ \A l : FindAndSet(m, k) # None /\ FindAndSet(m, l) = FindAndSet(m, k) => k = l
<1>1. CASE FindAndSet(m, k) = None
  BY <1>1
<1>2. CASE FindAndSet(m, k) # None
  <2> DEFINE s == FindAndSet(m, k)
             T == {r \in Sector \ m : r <= s}
  <2>1. s \in Sector \ m /\ Rank(m, s) = k
    BY <1>2, FindRank
  <2>2. \A l : FindAndSet(m, l) = s => Rank(m, s) = l
    BY <1>2, FindRank
  <2>3. s \in T
    <3>1. s \in Nat
      BY <2>1, Constants
    <3>2. s <= s
      BY <3>1
    <3> QED BY <2>1, <3>2
  <2>4. IsFiniteSet(T) /\ Rank(m, s) = Cardinality(T) /\ Cardinality(T) \in Nat
    BY RankFinite DEF Rank
  <2> HIDE DEF T
  <2>5. Cardinality(T) # 0
    BY <2>3, <2>4, FS_EmptySet
  <2> QED BY <2>1, <2>2, <2>4, <2>5
<1> QED BY <1>1, <1>2

(* It answers one as long as there are free sectors. *)
LEMMA FindEnough ==
  ASSUME NEW m, NEW k \in Nat \ {0}, k <= NumClear(m)
  PROVE  FindAndSet(m, k) # None
<1> DEFINE T == {s \in Sector : k <= Rank(m, s)}
<1>1. T \subseteq Nat /\ NumSectors - 1 \in T
  <2>1. NumSectors - 1 \in Sector /\ \A r \in Sector : r <= NumSectors - 1
    BY Constants DEF Sector
  <2>2. {r \in Sector \ m : r <= NumSectors - 1} = Sector \ m
    BY <2>1
  <2>3. Rank(m, NumSectors - 1) = NumClear(m)
    BY <2>2 DEF Rank, NumClear
  <2> QED BY <2>1, <2>3, Constants
<1>2. PICK s \in T : \A t \in T : s <= t
  <2> HIDE DEF T
  <2> QED BY <1>1, LeastNumber
<1>3. s \in Sector /\ s \in Nat /\ k <= Rank(m, s) /\ Rank(m, s) \in Nat
  BY Constants, RankFinite
<1> DEFINE below == {r \in Sector \ m : r <= s - 1}
           upto == {r \in Sector \ m : r <= s}
<1>4. Cardinality(below) \in Nat /\ Cardinality(below) < k /\ IsFiniteSet(below)
  <2>1. IsFiniteSet(below) /\ Cardinality(below) = Rank(m, s - 1) /\ Rank(m, s - 1) \in Nat
    BY RankFinite DEF Rank
  <2>2. CASE s = 0
    <3>1. below = {}
      <4>1. \A r \in Sector : r \in Nat
        BY Constants
      <4>2. \A r \in Sector : ~(r <= s - 1)
        BY <4>1, <2>2
      <4> QED BY <4>2
    <3> HIDE DEF below
    <3> QED BY <2>1, <3>1, FS_EmptySet
  <2>3. CASE s # 0
    <3>1. s - 1 \in Sector /\ ~(s <= s - 1)
      BY <2>3, <1>3, Constants DEF Sector
    <3>2. s - 1 \notin T
      BY <1>2, <3>1
    <3> QED BY <2>1, <3>1, <3>2
  <2> QED BY <2>2, <2>3
<1>5. s \in Sector \ m /\ Rank(m, s) = k
  <2>1. upto \subseteq below \cup {s} /\ below \subseteq upto /\ s \notin below
    <3>1. \A r \in Sector : r \in Nat
      BY Constants
    <3>2. \A r \in Sector : (r <= s <=> r <= s - 1 \/ r = s) /\ ~(s <= s - 1) /\ (r <= s - 1 => r <= s)
      BY <3>1, <1>3
    <3> QED BY <3>2, <1>3
  <2>2. s \notin m => upto = below \cup {s}
    BY <2>1, <1>3
  <2>3. s \in m => upto = below
    BY <2>1
  <2>4. Rank(m, s) = Cardinality(upto)
    BY DEF Rank
  <2> HIDE DEF below, upto
  <2>5. Cardinality(below \cup {s}) = Cardinality(below) + 1
    BY <2>1, <1>4, FS_AddElement
  <2>6. s \notin m
    BY <2>3, <2>4, <1>3, <1>4
  <2> QED BY <2>2, <2>4, <2>5, <2>6, <1>3, <1>4
<1> DEFINE kth == {r \in Sector \ m : Rank(m, r) = k}
<1>6. FindAndSet(m, k) = IF kth = {} THEN None ELSE CHOOSE r \in kth : TRUE
  BY DEF FindAndSet, Rank
<1>7. s \in kth
  BY <1>5
<1>8. FindAndSet(m, k) \in Sector
  BY <1>6, <1>7
<1> QED BY <1>8, Constants

(* The sectors that n calls find. *)
Found(m, n) == {FindAndSet(m, i) : i \in 1 .. n} \ {None}

LEMMA FoundFacts ==
  ASSUME NEW m, NEW n \in Nat
  PROVE  /\ Found(m, n) \subseteq Sector \ m
         /\ AfterFindAndSet(m, n) = m \cup Found(m, n)
         /\ \A k \in Int : k <= n => FindAndSet(m, k) \in Found(m, n) \cup {None}
<1>1. \A k : FindAndSet(m, k) \in (Sector \ m) \cup {None}
  BY FindFree
<1>2. ASSUME NEW k \in Int, k <= n PROVE FindAndSet(m, k) \in Found(m, n) \cup {None}
  <2>1. CASE FindAndSet(m, k) # None
    <3>1. k \in 1 .. n
      BY <2>1, <1>2, FindFree
    <3> QED BY <3>1 DEF Found
  <2> QED BY <2>1
<1> QED BY <1>1, <1>2 DEF Found, AfterFindAndSet

-----------------------------------------------------------------------------
(* Tables of pointers                                                                       *)

LEMMA ContentFacts ==
  ASSUME NEW c \in Content
  PROVE  /\ c.kind \in {"data", "header", "pointers"}
         /\ c.kind = "header" => c.header \in Header
         /\ c.kind = "pointers" => c.slots \in Pointers
         /\ c.kind = "data" => c.bytes \in [0 .. SectorSize - 1 -> Byte]
<1> HIDE DEF Header, Pointers, Byte
<1> QED BY DEF Content

LEMMA ContentMade ==
  /\ \A b \in [0 .. SectorSize - 1 -> Byte] : [kind |-> "data", bytes |-> b] \in Content
  /\ \A h \in Header : [kind |-> "header", header |-> h] \in Content
  /\ \A p \in Pointers : [kind |-> "pointers", slots |-> p] \in Content
  /\ Blank \in Content /\ Blank.kind = "data"
<1>1. [k \in 0 .. SectorSize - 1 |-> Zero] \in [0 .. SectorSize - 1 -> Byte]
  BY DEF Zero, Byte, Junk
<1> HIDE DEF Header, Pointers, Byte
<1> QED BY <1>1 DEF Content, Blank

LEMMA PointersType ==
  ASSUME disk \in [Sector -> Content], NEW s \in Sector \cup {None}
  PROVE  PointersAt(s) \in Pointers
<1>1. NoPointers \in Pointers
  BY DEF NoPointers, Pointers
<1>2. s # None => disk[s] \in Content
  OBVIOUS
<1> QED BY <1>1, <1>2, ContentFacts DEF PointersAt

(* The place of pointer i. *)
LEMMA PointerPlace ==
  ASSUME NEW i \in Nat, i < PerIndirect * PerIndirect
  PROVE  i \div PerIndirect \in Slot /\ i % PerIndirect \in Slot
<1>1. PerIndirect \in Nat \ {0}
  BY Constants
<1>2. i \div PerIndirect \in Nat /\ i % PerIndirect \in 0 .. PerIndirect - 1
  BY <1>1, DivFacts
<1>3. i \div PerIndirect < PerIndirect
  BY <1>1, DivBound
<1> QED BY <1>1, <1>2, <1>3 DEF Slot

(* The doubly indirect sector leads to the blocks Bs and they to the sectors As. *)
LeadsTo(doubly, Bs, As) ==
  /\ \A j \in Slot : PointersAt(doubly)[j] \in Bs \cup {None}
  /\ \A b \in Bs : \A k \in Slot : PointersAt(b)[k] \in As \cup {None}

LEMMA NonePointers == \A j \in Slot : PointersAt(None)[j] = None
BY DEF PointersAt, NoPointers

LEMMA IndirectLeads ==
  ASSUME NEW doubly, NEW Bs, NEW As, LeadsTo(doubly, Bs, As),
         NEW i \in Nat, i < PerIndirect * PerIndirect
  PROVE  IndirectOf(doubly, i) \in As \cup {None}
<1>1. i \div PerIndirect \in Slot /\ i % PerIndirect \in Slot
  BY PointerPlace
<1>2. PointersAt(doubly)[i \div PerIndirect] \in Bs \cup {None}
  BY <1>1 DEF LeadsTo
<1> QED BY <1>1, <1>2, NonePointers DEF LeadsTo, IndirectOf

LEMMA CountsFinite ==
  ASSUME NEW doubly
  PROVE  /\ Cardinality(FilledPointers(doubly)) \in 0 .. PerIndirect * PerIndirect
         /\ Cardinality(IndirectBlocks(doubly)) \in Nat
         /\ doubly = None => /\ Cardinality(FilledPointers(doubly)) = 0
                             /\ Cardinality(IndirectBlocks(doubly)) = 0
<1> DEFINE pp == PerIndirect * PerIndirect
<1>1. PerIndirect \in Nat \ {0} /\ pp \in Nat \ {0}
  <2>1. PerIndirect \in Nat \ {0}
    BY Constants
  <2> QED BY <2>1
<1>2. FilledPointers(doubly) \in SUBSET (0 .. pp - 1)
  BY DEF FilledPointers
<1>3. IndirectBlocks(doubly) \in SUBSET (0 .. PerIndirect - 1)
  BY DEF IndirectBlocks, Slot
<1>4. doubly = None => FilledPointers(doubly) = {} /\ IndirectBlocks(doubly) = {}
  <2> SUFFICES ASSUME doubly = None PROVE FilledPointers(None) = {} /\ IndirectBlocks(None) = {}
    OBVIOUS
  <2>1. \A i \in 0 .. pp - 1 : IndirectOf(None, i) = None
    <3> SUFFICES ASSUME NEW i \in 0 .. pp - 1 PROVE IndirectOf(None, i) = None
      OBVIOUS
    <3>1. i \in Nat /\ i < PerIndirect * PerIndirect
      BY <1>1
    <3>2. i \div PerIndirect \in Slot /\ i % PerIndirect \in Slot
      BY <3>1, PointerPlace
    <3> QED BY <3>2, NonePointers DEF IndirectOf
  <2> QED BY <2>1, NonePointers DEF FilledPointers, IndirectBlocks
<1> HIDE DEF pp
<1>5. IsFiniteSet(0 .. pp - 1) /\ Cardinality(0 .. pp - 1) = pp
  <2>1. 0 \in Int /\ pp - 1 \in Int /\ ~(0 > pp - 1) /\ pp - 1 - 0 + 1 = pp
    BY <1>1
  <2>2. /\ IsFiniteSet(0 .. pp - 1)
        /\ Cardinality(0 .. pp - 1) = IF 0 > pp - 1 THEN 0 ELSE pp - 1 - 0 + 1
    BY <2>1, FS_Interval
  <2> QED BY <2>1, <2>2
<1>6. IsFiniteSet(0 .. PerIndirect - 1)
  <2>1. 0 \in Int /\ PerIndirect - 1 \in Int
    BY <1>1
  <2> QED BY <2>1, FS_Interval
<1>7. /\ IsFiniteSet(FilledPointers(doubly)) /\ Cardinality(FilledPointers(doubly)) <= pp
      /\ IsFiniteSet(IndirectBlocks(doubly))
  BY <1>2, <1>3, <1>5, <1>6, FS_Subset
<1>8. Cardinality(FilledPointers(doubly)) \in Nat /\ Cardinality(IndirectBlocks(doubly)) \in Nat
  BY <1>7, FS_CardinalityType
<1>9. Cardinality(FilledPointers(doubly)) \in 0 .. pp
  BY <1>1, <1>7, <1>8
<1>10. doubly = None => /\ Cardinality(FilledPointers(doubly)) = 0
                        /\ Cardinality(IndirectBlocks(doubly)) = 0
  BY <1>4, FS_EmptySet
<1> QED BY <1>8, <1>9, <1>10 DEF pp

-----------------------------------------------------------------------------
(* The chain of tables: its blocks are those there are and those it finds, its pointers     *)
(* lead to the sectors there are and to those it finds; it finds them after `before`.       *)
LaterFound(m, before, n) == {FindAndSet(m, i) : i \in before + 1 .. n} \ {None}

BlocksAt(chain) == {chain.blocks[j].at : j \in 1 .. Len(chain.blocks)} \ {None}

LEMMA ChainFacts ==
  ASSUME NEW m, NEW doubly, NEW Bs, NEW As, NEW before, NEW need, NEW chain,
         LeadsTo(doubly, Bs, As), before \in Nat, need \in Nat \ {0},
         chain = Chain(m, doubly, before, need)
  PROVE  LET New == Found(m, chain.calls)
             NewBlocks == IF doubly = None THEN LaterFound(m, before, chain.calls) ELSE New
         IN /\ chain.calls \in Nat /\ before <= chain.calls
            /\ Len(chain.blocks) \in Nat /\ DOMAIN chain.blocks = 1 .. Len(chain.blocks)
            /\ chain.blocks = [j \in 1 .. Len(chain.blocks) |-> chain.blocks[j]]
            /\ \A j \in 1 .. Len(chain.blocks) :
                 /\ chain.blocks[j].at \in Bs \cup NewBlocks \cup {None}
                 /\ chain.blocks[j].slots \in [Slot -> As \cup New \cup {None}]
            /\ chain.doubly \in [Slot -> Bs \cup BlocksAt(chain) \cup {None}]
<1> DEFINE
      filled == Cardinality(FilledPointers(doubly))
      blocks == Cardinality(IndirectBlocks(doubly))
      last   == (IF filled + need <= PerIndirect * PerIndirect
                   THEN filled + need ELSE PerIndirect * PerIndirect) - 1
      newBlocks(i) == IF i \div PerIndirect < blocks THEN 0 ELSE i \div PerIndirect + 1 - blocks
      nth(i)   == before + newBlocks(i) + i - filled + 1
      block(j) == IF j < blocks THEN PointersAt(doubly)[j]
                  ELSE FindAndSet(m, nth(j * PerIndirect) - 1)
      pointer(i) == CASE i < filled -> IndirectOf(doubly, i)
                      [] i \in filled .. last -> FindAndSet(m, nth(i))
                      [] OTHER -> None
      used == last \div PerIndirect
      New == Found(m, nth(last))
      NewBlocks == IF doubly = None THEN LaterFound(m, before, nth(last)) ELSE New
      cb == [j \in 1 .. used + 1 |->
              [at |-> block(j - 1),
               slots |-> [k \in Slot |-> pointer((j - 1) * PerIndirect + k)]]]
      cd == [j \in Slot |-> IF j <= used THEN block(j) ELSE PointersAt(doubly)[j]]
<1>1. chain = [blocks |-> cb, doubly |-> cd, calls |-> nth(last)]
  BY DEF Chain
<1>2. chain.blocks = cb /\ chain.doubly = cd /\ chain.calls = nth(last)
  BY <1>1
<1>3. PerIndirect \in Nat \ {0} /\ PerIndirect * PerIndirect \in Nat /\ PerIndirect <= PerIndirect * PerIndirect
  <2>1. PerIndirect \in Nat \ {0}
    BY Constants
  <2> QED BY <2>1
<1>4. filled \in 0 .. PerIndirect * PerIndirect /\ blocks \in Nat
      /\ (doubly = None => filled = 0 /\ blocks = 0)
  BY CountsFinite
<1> HIDE DEF filled, blocks
<1>5. last \in Nat /\ last < PerIndirect * PerIndirect /\ filled <= last + 1
  BY <1>3, <1>4
<1> HIDE DEF last
<1>6. used \in Nat /\ used < PerIndirect /\ PerIndirect * used <= last
  BY <1>3, <1>5, DivFacts, DivBound
<1>7. \A i \in Nat : /\ i \div PerIndirect \in Nat /\ newBlocks(i) \in Nat /\ nth(i) \in Int
                     /\ (i <= last => nth(i) <= nth(last))
  <2> SUFFICES ASSUME NEW i \in Nat
               PROVE  /\ i \div PerIndirect \in Nat /\ newBlocks(i) \in Nat /\ nth(i) \in Int
                      /\ (i <= last => nth(i) <= nth(last))
    OBVIOUS
  <2> DEFINE x == i \div PerIndirect
  <2>1. x \in Nat /\ (i <= last => x <= used)
    BY <1>3, <1>5, DivFacts, DivMonotone
  <2> HIDE DEF x, used
  <2>2. newBlocks(i) = (IF x < blocks THEN 0 ELSE x + 1 - blocks)
        /\ newBlocks(last) = (IF used < blocks THEN 0 ELSE used + 1 - blocks)
    BY DEF x, used
  <2>3. newBlocks(i) \in Nat /\ newBlocks(last) \in Nat /\ (i <= last => newBlocks(i) <= newBlocks(last))
    BY <2>1, <2>2, <1>4, <1>6
  <2> HIDE DEF newBlocks
  <2> QED BY <2>1, <2>3, <1>4, <1>5 DEF x
<1>8. nth(last) \in Nat /\ before <= nth(last)
  <2>1. newBlocks(last) \in Nat
    BY <1>5, <1>7
  <2> HIDE DEF newBlocks
  <2> QED BY <2>1, <1>4, <1>5
<1>9. \A k \in Int : k <= nth(last) => FindAndSet(m, k) \in New \cup {None}
  <2> HIDE DEF nth
  <2> QED BY <1>8, FoundFacts
<1>10. ASSUME NEW j \in Nat, j <= used PROVE block(j) \in Bs \cup NewBlocks \cup {None}
  <2>1. j \in Slot
    BY <1>3, <1>6, <1>10 DEF Slot
  <2>2. CASE j < blocks
    BY <2>1, <2>2 DEF LeadsTo
  <2>3. CASE ~(j < blocks)
    <3> DEFINE i == j * PerIndirect
               l == nth(i) - 1
    <3>1. i \in Nat /\ i <= last
      <4>1. i <= PerIndirect * used
        <5>1. CASE j = used
          BY <5>1, <1>3, <1>6
        <5>2. CASE j < used
          <6>1. PerIndirect * j + PerIndirect <= PerIndirect * used
            BY <5>2, <1>3, <1>6, Times
          <6>2. i = PerIndirect * j /\ PerIndirect * j \in Int /\ PerIndirect * used \in Int
            BY <1>3, <1>6
          <6> QED BY <6>1, <6>2, <1>3
        <5> QED BY <5>1, <5>2, <1>6, <1>10
      <4>2. i \in Nat /\ PerIndirect * used \in Int
        BY <1>3, <1>6
      <4> QED BY <4>1, <4>2, <1>5, <1>6
    <3>2. i \div PerIndirect = j
      <4> DEFINE y == i \div PerIndirect
      <4>1. y \in Nat /\ PerIndirect * y <= i /\ i < PerIndirect * y + PerIndirect
        BY <3>1, <1>3, DivFacts
      <4>2. i = PerIndirect * j
        BY <1>3
      <4> HIDE DEF y, i
      <4>3. ~(y < j)
        <5> SUFFICES ASSUME y < j PROVE FALSE
          OBVIOUS
        <5>1. PerIndirect * y + PerIndirect <= PerIndirect * j
          BY <4>1, <1>3, Times
        <5>2. PerIndirect * y \in Int /\ PerIndirect * j \in Int
          BY <4>1, <1>3
        <5> QED BY <4>1, <4>2, <5>1, <5>2, <1>3
      <4>4. ~(j < y)
        <5> SUFFICES ASSUME j < y PROVE FALSE
          OBVIOUS
        <5>1. PerIndirect * j + PerIndirect <= PerIndirect * y
          BY <4>1, <1>3, Times
        <5>2. PerIndirect * y \in Int /\ PerIndirect * j \in Int
          BY <4>1, <1>3
        <5> QED BY <4>1, <4>2, <5>1, <5>2, <1>3
      <4>5. y = j
        BY <4>1, <4>3, <4>4
      <4> QED BY <4>5 DEF y
    <3>3. l \in Int /\ l <= nth(last)
      <4>1. nth(i) \in Int /\ nth(i) <= nth(last)
        BY <3>1, <1>7
      <4> HIDE DEF nth, i
      <4> QED BY <4>1, <1>8
    <3>4. block(j) = FindAndSet(m, l)
      BY <2>3
    <3>5. doubly = None => before + 1 <= l
      <4> SUFFICES ASSUME doubly = None PROVE before + 1 <= l
        OBVIOUS
      <4>1. newBlocks(i) = j + 1
        BY <2>3, <3>2, <1>4
      <4>2. l = before + newBlocks(i) + i
        <5>1. newBlocks(i) \in Nat
          BY <4>1
        <5> HIDE DEF newBlocks, i
        <5> QED BY <5>1, <3>1, <1>4
      <4> HIDE DEF newBlocks, i, l
      <4> QED BY <4>1, <4>2, <3>1
    <3> HIDE DEF l, nth
    <3>6. FindAndSet(m, l) \in New \cup {None}
      BY <3>3, <1>9
    <3>7. doubly = None => FindAndSet(m, l) \in LaterFound(m, before, nth(last)) \cup {None}
      BY <3>3, <3>5, <1>8 DEF LaterFound
    <3> QED BY <3>4, <3>6, <3>7
  <2> QED BY <2>2, <2>3
<1>11. ASSUME NEW i \in Nat PROVE pointer(i) \in As \cup New \cup {None}
  <2>1. CASE i < filled
    <3> HIDE DEF nth
    <3>1. i < PerIndirect * PerIndirect
      <4> DEFINE pp == PerIndirect * PerIndirect
      <4>1. filled \in 0 .. pp /\ pp \in Nat
        BY <1>3, <1>4
      <4> HIDE DEF pp
      <4>2. i < pp
        BY <2>1, <4>1
      <4> QED BY <4>2 DEF pp
    <3>2. IndirectOf(doubly, i) \in As \cup {None}
      BY <3>1, IndirectLeads
    <3>3. ~(i \in filled .. last)
      BY <2>1, <1>4, <1>5
    <3> HIDE DEF New
    <3>4. pointer(i) = IndirectOf(doubly, i)
      BY <2>1, <3>3
    <3> QED BY <3>2, <3>4
  <2>2. CASE ~(i < filled) /\ i \in filled .. last
    <3>1. nth(i) \in Int /\ nth(i) <= nth(last)
      BY <2>2, <1>7
    <3>2. pointer(i) = FindAndSet(m, nth(i))
      BY <2>2
    <3> HIDE DEF nth
    <3> QED BY <3>1, <3>2, <1>9
  <2>3. CASE ~(i < filled) /\ ~(i \in filled .. last)
    BY <2>3
  <2> QED BY <2>1, <2>2, <2>3
<1> HIDE DEF block, pointer, New, NewBlocks, nth, used
<1>12. /\ cb \in [1 .. used + 1 -> [at : Bs \cup NewBlocks \cup {None},
                                     slots : [Slot -> As \cup New \cup {None}]]]
       /\ used + 1 \in Nat
  <2> DEFINE R == [at : Bs \cup NewBlocks \cup {None}, slots : [Slot -> As \cup New \cup {None}]]
             e(j) == [at |-> block(j - 1),
                      slots |-> [k \in Slot |-> pointer((j - 1) * PerIndirect + k)]]
  <2>1. ASSUME NEW j \in 1 .. used + 1 PROVE e(j) \in R
    <3>1. j - 1 \in Nat /\ j - 1 <= used
      BY <1>6
    <3>2. \A k \in Slot : (j - 1) * PerIndirect + k \in Nat
      BY <3>1, <1>3 DEF Slot
    <3>3. block(j - 1) \in Bs \cup NewBlocks \cup {None}
      BY <3>1, <1>10
    <3>4. [k \in Slot |-> pointer((j - 1) * PerIndirect + k)] \in [Slot -> As \cup New \cup {None}]
      BY <3>2, <1>11
    <3> QED BY <3>3, <3>4
  <2>2. cb = [j \in 1 .. used + 1 |-> e(j)]
    OBVIOUS
  <2> HIDE DEF e, R, cb
  <2>3. cb \in [1 .. used + 1 -> R]
    BY <2>1, <2>2
  <2> QED BY <2>3, <1>6 DEF R
<1>13. /\ \A j \in Slot : j <= used => cd[j] = cb[j + 1].at /\ j + 1 \in 1 .. used + 1
       /\ \A j \in Slot : ~(j <= used) => cd[j] \in Bs \cup {None}
       /\ cd = [j \in Slot |-> cd[j]]
  <2>1. ASSUME NEW j \in Slot, j <= used PROVE cd[j] = cb[j + 1].at /\ j + 1 \in 1 .. used + 1
    <3>1. j \in Nat /\ j + 1 \in 1 .. used + 1 /\ (j + 1) - 1 = j
      BY <2>1, <1>6 DEF Slot
    <3>2. cb[j + 1] = [at |-> block((j + 1) - 1),
                       slots |-> [k \in Slot |-> pointer(((j + 1) - 1) * PerIndirect + k)]]
      BY <3>1
    <3>3. cb[j + 1].at = block(j)
      BY <3>1, <3>2
    <3>4. cd[j] = block(j)
      BY <2>1
    <3> QED BY <3>1, <3>3, <3>4
  <2>2. ASSUME NEW j \in Slot, ~(j <= used) PROVE cd[j] \in Bs \cup {None}
    BY <2>2 DEF LeadsTo
  <2> QED BY <2>1, <2>2
<1> HIDE DEF cb, cd
<1>14. /\ Len(cb) \in Nat /\ Len(cb) = used + 1 /\ DOMAIN cb = 1 .. Len(cb) /\ cb = [j \in 1 .. Len(cb) |-> cb[j]]
       /\ \A j \in 1 .. Len(cb) : /\ cb[j].at \in Bs \cup NewBlocks \cup {None}
                                  /\ cb[j].slots \in [Slot -> As \cup New \cup {None}]
  <2> DEFINE R == [at : Bs \cup NewBlocks \cup {None}, slots : [Slot -> As \cup New \cup {None}]]
             n == used + 1
  <2>1. cb \in [1 .. n -> R] /\ n \in Nat
    BY <1>12
  <2>2. \A x \in R : /\ x.at \in Bs \cup NewBlocks \cup {None}
                     /\ x.slots \in [Slot -> As \cup New \cup {None}]
    OBVIOUS
  <2> HIDE DEF R, n
  <2>3. cb \in Seq(R) /\ Len(cb) = n /\ DOMAIN cb = 1 .. n
    BY <2>1
  <2>4. \A j \in 1 .. n : cb[j] \in R
    BY <2>1
  <2>5. Len(cb) \in Nat /\ cb = [j \in 1 .. Len(cb) |-> cb[j]]
    BY <2>1, <2>3
  <2> QED BY <2>2, <2>3, <2>4, <2>5 DEF n
<1>15. New = Found(m, chain.calls)
       /\ NewBlocks = IF doubly = None THEN LaterFound(m, before, chain.calls) ELSE Found(m, chain.calls)
  BY <1>2 DEF New, NewBlocks
<1>16. chain.doubly \in [Slot -> Bs \cup BlocksAt(chain) \cup {None}]
  <2>1. ASSUME NEW j \in Slot PROVE cd[j] \in Bs \cup BlocksAt(chain) \cup {None}
    BY <1>2, <1>13, <1>14 DEF BlocksAt
  <2> QED BY <2>1, <1>2, <1>13
<1> QED BY <1>2, <1>8, <1>14, <1>15, <1>16

-----------------------------------------------------------------------------
(* The writes of a call                                                                     *)

LEMMA ElementsFacts ==
  ASSUME NEW S
  PROVE  /\ Elements(<<>>) = {}
         /\ \A w \in S : <<w>> \in Seq(S) /\ Elements(<<w>>) = {w}
         /\ \A w, v \in S : <<w, v>> \in Seq(S) /\ Elements(<<w, v>>) = {w, v}
         /\ \A p, q \in Seq(S) : p \o q \in Seq(S) /\ Elements(p \o q) = Elements(p) \cup Elements(q)
         /\ \A p \in Seq(S) : p # <<>> =>
              /\ Head(p) \in S /\ Tail(p) \in Seq(S)
              /\ Elements(p) = {Head(p)} \cup Elements(Tail(p))
         /\ \A p \in Seq(S) : Elements(p) \subseteq S
<1>1. ASSUME NEW p \in Seq(S), NEW q \in Seq(S)
      PROVE  p \o q \in Seq(S) /\ Elements(p \o q) = Elements(p) \cup Elements(q)
  <2> DEFINE pq == p \o q
  <2>1. /\ Len(p) \in Nat /\ Len(q) \in Nat /\ Len(pq) = Len(p) + Len(q) /\ pq \in Seq(S)
        /\ \A j \in 1 .. Len(p) : pq[j] = p[j]
        /\ \A j \in 1 .. Len(q) : pq[j + Len(p)] = q[j]
    OBVIOUS
  <2> HIDE DEF pq
  <2>2. \A j \in 1 .. Len(pq) : j \in 1 .. Len(p) \/ (j - Len(p) \in 1 .. Len(q) /\ pq[j] = q[j - Len(p)])
    <3> SUFFICES ASSUME NEW j \in 1 .. Len(pq), j \notin 1 .. Len(p)
                 PROVE  j - Len(p) \in 1 .. Len(q) /\ pq[j] = q[j - Len(p)]
      OBVIOUS
    <3>1. j - Len(p) \in 1 .. Len(q) /\ (j - Len(p)) + Len(p) = j
      BY <2>1
    <3> QED BY <3>1, <2>1
  <2>3. Elements(pq) \subseteq Elements(p) \cup Elements(q)
    BY <2>1, <2>2 DEF Elements
  <2>4. \A j \in 1 .. Len(p) : j \in 1 .. Len(pq)
    BY <2>1
  <2>5. \A j \in 1 .. Len(q) : j + Len(p) \in 1 .. Len(pq)
    BY <2>1
  <2>6. Elements(p) \subseteq Elements(pq)
    BY <2>1, <2>4 DEF Elements
  <2>7. Elements(q) \subseteq Elements(pq)
    BY <2>1, <2>5 DEF Elements
  <2> QED BY <2>1, <2>3, <2>6, <2>7 DEF pq
<1>2. ASSUME NEW p \in Seq(S), p # <<>>
      PROVE  /\ Head(p) \in S /\ Tail(p) \in Seq(S)
             /\ Elements(p) = {Head(p)} \cup Elements(Tail(p))
  <2> DEFINE r == Tail(p)
             n == Len(p)
  <2>1. /\ n \in Nat \ {0} /\ Head(p) = p[1] /\ Head(p) \in S /\ r \in Seq(S) /\ Len(r) = n - 1
        /\ \A j \in 1 .. n - 1 : r[j] = p[j + 1]
    BY <1>2
  <2> HIDE DEF r, n
  <2>2. \A j \in 1 .. n : j = 1 \/ (j - 1 \in 1 .. Len(r) /\ r[j - 1] = p[j])
    <3> SUFFICES ASSUME NEW j \in 1 .. n, j # 1 PROVE j - 1 \in 1 .. Len(r) /\ r[j - 1] = p[j]
      OBVIOUS
    <3>1. j - 1 \in 1 .. n - 1 /\ (j - 1) + 1 = j
      BY <2>1
    <3> QED BY <3>1, <2>1
  <2>3. \A j \in 1 .. Len(r) : j + 1 \in 1 .. n /\ r[j] = p[j + 1]
    BY <2>1
  <2>4. 1 \in 1 .. n
    BY <2>1
  <2>5. Elements(p) \subseteq {Head(p)} \cup Elements(r)
    <3> SUFFICES ASSUME NEW j \in 1 .. n PROVE p[j] \in {Head(p)} \cup Elements(r)
      BY DEF Elements, n
    <3>1. CASE j = 1
      BY <3>1, <2>1
    <3>2. CASE j - 1 \in 1 .. Len(r) /\ r[j - 1] = p[j]
      BY <3>2 DEF Elements
    <3> QED BY <3>1, <3>2, <2>2
  <2>6. {Head(p)} \cup Elements(r) \subseteq Elements(p)
    BY <2>1, <2>3, <2>4 DEF Elements, n
  <2> QED BY <2>1, <2>5, <2>6 DEF r
<1>3. Elements(<<>>) = {}
  BY DEF Elements
<1>4. \A w \in S : <<w>> \in Seq(S) /\ Elements(<<w>>) = {w}
  BY DEF Elements
<1>5. ASSUME NEW w \in S, NEW v \in S PROVE <<w, v>> \in Seq(S) /\ Elements(<<w, v>>) = {w, v}
  <2> DEFINE p == <<w, v>>
  <2>1. p \in Seq(S) /\ Len(p) = 2 /\ p[1] = w /\ p[2] = v /\ 1 .. 2 = {1, 2}
    OBVIOUS
  <2> HIDE DEF p
  <2>2. Elements(p) = {w, v}
    BY <2>1 DEF Elements
  <2> QED BY <2>1, <2>2 DEF p
<1>6. \A p \in Seq(S) : Elements(p) \subseteq S
  BY DEF Elements
<1> QED BY <1>1, <1>2, <1>3, <1>4, <1>5, <1>6

LEMMA TablesMade ==
  ASSUME NEW S, NEW p, S \subseteq Sector, p \in [Slot -> S \cup {None}]
  PROVE  LET c == [kind |-> "pointers", slots |-> p]
         IN c \in Content /\ c \in Tables(S) /\ c.kind = "pointers"
<1>1. p \in Pointers
  <2> HIDE DEF Slot
  <2> QED BY DEF Pointers
<1>2. [kind |-> "pointers", slots |-> p] \in Content
  BY <1>1, ContentMade
<1> HIDE DEF Content, Slot
<1> QED BY <1>2 DEF Tables

LEMMA SectorWrite ==
  ASSUME NEW s, NEW c, NEW links, s \in Sector \cup {None, Unset}, c \in Content, links \in BOOLEAN
  PROVE  LET w == ToSector(s, c, links)
         IN w \in Write /\ w.to = "sector" /\ w.at = s /\ w.put = c /\ w.links = links
<1> HIDE DEF Content, Sector, None, Unset
<1> QED BY DEF ToSector, Write

(* The tables of a chain: blocks at Bs with pointers to As.                                 *)
ChainShape(chain, Bs, As) ==
  /\ Bs \subseteq Sector /\ As \subseteq Sector /\ Len(chain.blocks) \in Nat
  /\ \A j \in 1 .. Len(chain.blocks) : /\ chain.blocks[j].at \in Bs \cup {None}
                                       /\ chain.blocks[j].slots \in [Slot -> As \cup {None}]
  /\ chain.doubly \in [Slot -> Bs \cup {None}]

LEMMA ChainWritesFacts ==
  ASSUME NEW chain, NEW doubly, NEW links, NEW Bs, NEW As,
         ChainShape(chain, Bs, As), doubly \in Sector \cup {None}, links \in BOOLEAN
  PROVE  LET q == ChainWrites(chain, doubly, links)
         IN /\ q \in Seq(Write)
            /\ \A w \in Elements(q) :
                 /\ w.to = "sector" /\ w.links = links /\ w.put.kind = "pointers"
                 /\ \/ w.at \in Bs \cup {None} /\ w.put \in Tables(As)
                    \/ w.at = doubly /\ w.put \in Tables(Bs)
            /\ \A s \in BlocksAt(chain) \cup {doubly} : \E w \in Elements(q) : Targets(w, s)
<1> DEFINE n == Len(chain.blocks)
           put(j) == [kind |-> "pointers", slots |-> chain.blocks[j].slots]
           e(j) == ToSector(chain.blocks[j].at, put(j), links)
           p == [j \in 1 .. n |-> e(j)]
           lastPut == [kind |-> "pointers", slots |-> chain.doubly]
           l == ToSector(doubly, lastPut, links)
           q == ChainWrites(chain, doubly, links)
<1> USE DEF ChainShape
<1>1. q = p \o <<l>>
  BY DEF ChainWrites
<1>2. ASSUME NEW j \in 1 .. n
      PROVE  /\ e(j) \in Write /\ e(j).to = "sector" /\ e(j).links = links
             /\ e(j).put.kind = "pointers" /\ e(j).put \in Tables(As)
             /\ e(j).at = chain.blocks[j].at /\ e(j).at \in Bs \cup {None}
  <2>1. put(j) \in Content /\ put(j) \in Tables(As) /\ put(j).kind = "pointers"
    BY TablesMade
  <2> HIDE DEF put
  <2>2. chain.blocks[j].at \in Sector \cup {None, Unset}
    OBVIOUS
  <2>3. /\ e(j) \in Write /\ e(j).to = "sector" /\ e(j).links = links
        /\ e(j).put = put(j) /\ e(j).at = chain.blocks[j].at
    BY <2>1, <2>2, SectorWrite
  <2> HIDE DEF e
  <2> QED BY <2>1, <2>3
<1>3. /\ l \in Write /\ l.to = "sector" /\ l.links = links /\ l.put.kind = "pointers"
      /\ l.at = doubly /\ l.put \in Tables(Bs)
  <2>1. lastPut \in Content /\ lastPut \in Tables(Bs) /\ lastPut.kind = "pointers"
    BY TablesMade
  <2> HIDE DEF lastPut
  <2>2. doubly \in Sector \cup {None, Unset}
    OBVIOUS
  <2>3. l \in Write /\ l.to = "sector" /\ l.links = links /\ l.put = lastPut /\ l.at = doubly
    BY <2>1, <2>2, SectorWrite
  <2> HIDE DEF l
  <2> QED BY <2>1, <2>3
<1> HIDE DEF e, l, put, lastPut, q
<1>4. p \in Seq(Write) /\ Elements(p) = {e(j) : j \in 1 .. n}
  <2>1. \A j \in 1 .. n : e(j) \in Write
    BY <1>2
  <2> HIDE DEF Write, n
  <2>2. n \in Nat
    BY DEF n
  <2>3. p \in [1 .. n -> Write]
    BY <2>1
  <2>4. p \in Seq(Write) /\ Len(p) = n
    BY <2>2, <2>3
  <2> QED BY <2>4 DEF Elements
<1>5. q \in Seq(Write) /\ Elements(q) = {e(j) : j \in 1 .. n} \cup {l}
  <2> HIDE DEF p, n
  <2> HIDE DEF Write
  <2> DEFINE r == <<l>>
  <2>1. r \in Seq(Write) /\ Elements(r) = {l}
    BY <1>3, ElementsFacts
  <2>2. q = p \o r
    BY <1>1
  <2> HIDE DEF r
  <2>3. p \in Seq(Write)
    BY <1>4
  <2>4. p \o r \in Seq(Write) /\ Elements(p \o r) = Elements(p) \cup Elements(r)
    BY <2>1, <2>3, ElementsFacts
  <2> QED BY <2>1, <2>2, <2>4, <1>4
<1>6. \A w \in Elements(q) :
        /\ w.to = "sector" /\ w.links = links /\ w.put.kind = "pointers"
        /\ \/ w.at \in Bs \cup {None} /\ w.put \in Tables(As)
           \/ w.at = doubly /\ w.put \in Tables(Bs)
  BY <1>2, <1>3, <1>5
<1>7. \A s \in BlocksAt(chain) \cup {doubly} : \E w \in Elements(q) : Targets(w, s)
  <2>1. Targets(l, doubly)
    BY <1>3 DEF Targets
  <2>2. \A j \in 1 .. n : Targets(e(j), chain.blocks[j].at)
    BY <1>2 DEF Targets
  <2> QED BY <2>1, <2>2, <1>5 DEF BlocksAt
<1> QED BY <1>5, <1>6, <1>7 DEF q

-----------------------------------------------------------------------------
(* What Allocate and extendFileSize do alike: from the bitmap m and a header whose tables   *)
(* start at `doubly` and lead to the blocks Bs and the sectors As, they make a header, the  *)
(* writes of its tables, among them the new blocks Ns, and a bitmap.                        *)
TableWrite(w, links, doubly, Bs, As) ==
  /\ w.to = "sector" /\ w.links = links /\ w.put.kind = "pointers"
  /\ \/ w.at \in Bs \cup {None} /\ w.put \in Tables(As)
     \/ w.at = doubly /\ w.put \in Tables(Bs)
NewTables(m, doubly, new, Bs, As, links, writes, map, Ns) ==
  /\ m \subseteq map /\ map \subseteq Sector /\ Ns \subseteq map \ m
  /\ new # doubly =>
       /\ doubly = None /\ new \in (map \ m) \ Ns
       /\ \E w \in Elements(writes) : Targets(w, new)
  /\ writes \in Seq(Write)
  /\ \A w \in Elements(writes) : TableWrite(w, links, new, Bs \cup Ns, As \cup (map \ m))
  /\ \A s \in Ns : \E w \in Elements(writes) : Targets(w, s)
Growth(m, doubly, Bs, As, links, header, writes, map, Ns) ==
  /\ NewTables(m, doubly, header.doubly, Bs, As, links, writes, map, Ns)
  /\ header \in Header
  /\ \A i \in 0 .. NumDirect - 1 : header.direct[i] \in As \cup (map \ m) \cup {Unset}

ChainFrom(m, doubly, new, Bs, As, links, before, need) ==
  /\ m \subseteq Sector /\ Bs \subseteq m /\ As \subseteq m /\ LeadsTo(doubly, Bs, As)
  /\ links \in BOOLEAN /\ before \in Nat /\ need \in Nat \ {0} /\ doubly \in Sector \cup {None}
  /\ new = doubly \/ (doubly = None /\ \E k \in 1 .. before : new = FindAndSet(m, k))

LEMMA ChainGrowth ==
  ASSUME NEW m, NEW doubly, NEW new, NEW Bs, NEW As, NEW links, NEW before, NEW need, NEW chain,
         ChainFrom(m, doubly, new, Bs, As, links, before, need),
         chain = Chain(m, doubly, before, need)
  PROVE  /\ chain.calls \in Nat /\ before <= chain.calls
         /\ AfterFindAndSet(m, chain.calls) \ m = Found(m, chain.calls)
         /\ \E Ns : NewTables(m, doubly, new, Bs, As, links, ChainWrites(chain, new, links),
                              AfterFindAndSet(m, chain.calls), Ns)
<1> USE DEF ChainFrom
<1> DEFINE writes == ChainWrites(chain, new, links)
           map    == AfterFindAndSet(m, chain.calls)
           New == Found(m, chain.calls)
           NewBlocks == IF doubly = None THEN LaterFound(m, before, chain.calls) ELSE New
           Ns == BlocksAt(chain) \ Bs
<1>1. /\ chain.calls \in Nat /\ before <= chain.calls
      /\ Len(chain.blocks) \in Nat
      /\ \A j \in 1 .. Len(chain.blocks) :
           /\ chain.blocks[j].at \in Bs \cup NewBlocks \cup {None}
           /\ chain.blocks[j].slots \in [Slot -> As \cup New \cup {None}]
      /\ chain.doubly \in [Slot -> Bs \cup BlocksAt(chain) \cup {None}]
  BY ChainFacts
<1> HIDE DEF writes
<1>2. New \subseteq Sector \ m /\ map = m \cup New
  BY <1>1, FoundFacts
<1>3. /\ m \subseteq map /\ map \subseteq Sector /\ map \ m = New
  BY <1>2
<1>4. NewBlocks \subseteq New
  <2>1. \A k \in before + 1 .. chain.calls : k \in 1 .. chain.calls
    BY <1>1
  <2> QED BY <2>1 DEF LaterFound, Found
<1>5. Ns \subseteq NewBlocks /\ BlocksAt(chain) \subseteq Bs \cup Ns /\ Bs \cup BlocksAt(chain) = Bs \cup Ns
  BY <1>1 DEF BlocksAt
<1>6. new # doubly => doubly = None /\ new \in New \cup {None}
  <2> SUFFICES ASSUME new # doubly PROVE doubly = None /\ new \in New \cup {None}
    OBVIOUS
  <2>1. PICK k \in 1 .. before : new = FindAndSet(m, k)
    OBVIOUS
  <2>2. k \in Int /\ k <= chain.calls
    BY <1>1
  <2>3. FindAndSet(m, k) \in New \cup {None}
    BY <2>2, <1>1, FoundFacts
  <2> QED BY <2>1, <2>3
<1>7. new # doubly => new \notin Ns /\ new # None
  <2> SUFFICES ASSUME new # doubly PROVE new \notin Ns /\ new # None
    OBVIOUS
  <2>1. PICK k \in 1 .. before : doubly = None /\ new = FindAndSet(m, k)
    OBVIOUS
  <2>2. new # None
    BY <2>1
  <2>3. ASSUME new \in Ns PROVE FALSE
    <3>1. PICK i \in before + 1 .. chain.calls : new = FindAndSet(m, i)
      BY <2>1, <2>3, <1>5 DEF LaterFound
    <3>2. i = k
      BY <2>1, <2>2, <3>1, FindFree
    <3> QED BY <3>2, <1>1
  <2> QED BY <2>2, <2>3
<1>8. new \in Sector \cup {None}
  BY <1>3, <1>6
<1>9. /\ writes \in Seq(Write)
      /\ \A w \in Elements(writes) :
           /\ w.to = "sector" /\ w.links = links /\ w.put.kind = "pointers"
           /\ \/ w.at \in (Bs \cup Ns) \cup {None} /\ w.put \in Tables(As \cup New)
              \/ w.at = new /\ w.put \in Tables(Bs \cup Ns)
      /\ \A s \in BlocksAt(chain) \cup {new} : \E w \in Elements(writes) : Targets(w, s)
  <2> DEFINE Bt == Bs \cup Ns
             At == As \cup New
  <2>1. \A j \in 1 .. Len(chain.blocks) : /\ chain.blocks[j].at \in Bt \cup {None}
                                          /\ chain.blocks[j].slots \in [Slot -> At \cup {None}]
    <3> SUFFICES ASSUME NEW j \in 1 .. Len(chain.blocks)
                 PROVE  /\ chain.blocks[j].at \in Bt \cup {None}
                        /\ chain.blocks[j].slots \in [Slot -> At \cup {None}]
      OBVIOUS
    <3>1. chain.blocks[j].at \in BlocksAt(chain) \cup {None}
      BY DEF BlocksAt
    <3> QED BY <3>1, <1>1, <1>5
  <2>2. chain.doubly \in [Slot -> Bt \cup {None}] /\ Bt \subseteq Sector /\ At \subseteq Sector
    BY <1>1, <1>2, <1>4, <1>5
  <2> HIDE DEF Bt, At, Ns, New, NewBlocks, map
  <2>3. ChainShape(chain, Bt, At)
    BY <2>1, <2>2, <1>1 DEF ChainShape
  <2>4. new \in Sector \cup {None} /\ links \in BOOLEAN
    BY <1>8
  <2>5. LET q == ChainWrites(chain, new, links)
         IN /\ q \in Seq(Write)
            /\ \A w \in Elements(q) :
                 /\ w.to = "sector" /\ w.links = links /\ w.put.kind = "pointers"
                 /\ \/ w.at \in Bt \cup {None} /\ w.put \in Tables(At)
                    \/ w.at = new /\ w.put \in Tables(Bt)
            /\ \A s \in BlocksAt(chain) \cup {new} : \E w \in Elements(q) : Targets(w, s)
    BY <2>3, <2>4, ChainWritesFacts
  <2> QED BY <2>5 DEF Bt, At, writes
<1>10. \A w \in Elements(writes) : TableWrite(w, links, new, Bs \cup Ns, As \cup (map \ m))
  BY <1>3, <1>9 DEF TableWrite
<1>11. \A s \in Ns : \E w \in Elements(writes) : Targets(w, s)
  BY <1>9
<1>12. Ns \subseteq map \ m
  BY <1>3, <1>4, <1>5
<1> HIDE DEF Ns, map, New, NewBlocks
<1>13. new # doubly => /\ doubly = None /\ new \in (map \ m) \ Ns
                       /\ \E w \in Elements(writes) : Targets(w, new)
  BY <1>3, <1>6, <1>7, <1>9
<1>14. NewTables(m, doubly, new, Bs, As, links, writes, map, Ns)
  BY <1>3, <1>9, <1>10, <1>11, <1>12, <1>13 DEF NewTables
<1> QED BY <1>1, <1>3, <1>14 DEF map, writes, New

LEMMA RoundUp ==
  ASSUME NEW n \in Nat
  PROVE  /\ divRoundUp(n, SectorSize) \in Nat
         /\ n > 0 => divRoundUp(n, SectorSize) > 0
<1>1. SectorSize \in Nat \ {0} /\ n + SectorSize - 1 \in Nat
  <2>1. SectorSize \in Nat \ {0}
    BY Constants
  <2> QED BY <2>1
<1> DEFINE x == (n + SectorSize - 1) \div SectorSize
<1>2. x \in Nat /\ n + SectorSize - 1 < SectorSize * x + SectorSize
  BY <1>1, DivFacts
<1>3. divRoundUp(n, SectorSize) = x
  BY DEF divRoundUp
<1> HIDE DEF x
<1>4. n > 0 => x # 0
  BY <1>1, <1>2
<1> QED BY <1>2, <1>3, <1>4

(* The direct entries that are found. *)
LEMMA DirectFound ==
  ASSUME NEW m, NEW n, NEW c, NEW i, n \in Nat, c \in Nat, n <= NumClear(m), n <= c,
         i \in Nat, i < n
  PROVE  FindAndSet(m, i + 1) \in Found(m, c)
<1>1. i + 1 \in Nat \ {0} /\ i + 1 <= NumClear(m) /\ i + 1 <= c /\ i + 1 \in Int
  <2>1. NumClear(m) \in Nat
    BY RankFinite
  <2> QED BY <2>1
<1>2. FindAndSet(m, i + 1) # None
  BY <1>1, FindEnough
<1>3. FindAndSet(m, i + 1) \in Found(m, c) \cup {None}
  BY <1>1, FoundFacts
<1> QED BY <1>2, <1>3

LEMMA AllocateFacts ==
  ASSUME NEW m, NEW size, NEW a, m \subseteq Sector, size \in Nat,
         NumClear(m) >= divRoundUp(size, SectorSize), a = Allocate(m, size)
  PROVE  /\ \E Ns : Growth(m, None, {}, {}, FALSE, a.header, a.writes, a.map, Ns)
         /\ divRoundUp(a.header.length, SectorSize) <= NumSectors
<1> DEFINE
      n == divRoundUp(size, SectorSize)
      indirect == n > NumDirect
      direct == [i \in 0 .. NumDirect - 1 |-> IF i < n THEN FindAndSet(m, i + 1) ELSE Unset]
      doubly == IF indirect THEN FindAndSet(m, NumDirect + 1) ELSE None
      header == [length |-> size, sectors |-> n, direct |-> direct, doubly |-> doubly]
      chain == Chain(m, None, NumDirect + 1, n - NumDirect)
      writes == IF indirect THEN ChainWrites(chain, doubly, FALSE) ELSE <<>>
      calls == IF indirect THEN chain.calls ELSE n
      map == AfterFindAndSet(m, calls)
<1>1. a = [header |-> header, writes |-> writes, map |-> map]
  BY DEF Allocate
<1>2. a.header = header /\ a.writes = writes /\ a.map = map
  BY <1>1
<1>3. n \in Nat /\ NumDirect \in Nat \ {0} /\ n <= NumClear(m) /\ NumClear(m) <= NumSectors
      /\ NumClear(m) \in Nat
  BY RoundUp, Constants, RankFinite
<1> HIDE DEF n
<1>4. /\ calls \in Nat /\ (n <= calls \/ (indirect /\ NumDirect + 1 <= calls))
      /\ map \ m = Found(m, calls) /\ map \subseteq Sector /\ doubly \in Sector \cup {None}
      /\ \E Ns : NewTables(m, None, doubly, {}, {}, FALSE, writes, map, Ns)
  <2>1. CASE indirect
    <3> DEFINE before == NumDirect + 1
               need == n - NumDirect
    <3>1. before \in Nat /\ need \in Nat \ {0} /\ before \in 1 .. before
      BY <2>1, <1>3
    <3>2. doubly = FindAndSet(m, before)
      BY <2>1
    <3>3. LeadsTo(None, {}, {})
      BY NonePointers DEF LeadsTo
    <3>4. chain = Chain(m, None, before, need)
      OBVIOUS
    <3>5. writes = ChainWrites(chain, doubly, FALSE) /\ calls = chain.calls
          /\ map = AfterFindAndSet(m, chain.calls)
      BY <2>1
    <3>6. doubly \in Sector \cup {None}
      BY <3>2, FindFree
    <3> HIDE DEF before, need, chain, doubly, writes, calls, map
    <3>7. ChainFrom(m, None, doubly, {}, {}, FALSE, before, need)
      BY <3>1, <3>2, <3>3 DEF ChainFrom
    <3>8. /\ chain.calls \in Nat /\ before <= chain.calls
          /\ AfterFindAndSet(m, chain.calls) \ m = Found(m, chain.calls)
          /\ \E Ns : NewTables(m, None, doubly, {}, {}, FALSE, ChainWrites(chain, doubly, FALSE),
                               AfterFindAndSet(m, chain.calls), Ns)
      <4> DEFINE no == None
                 empty == {}
                 unlinked == FALSE
      <4>1. ChainFrom(m, no, doubly, empty, empty, unlinked, before, need)
        BY <3>7
      <4>2. chain = Chain(m, no, before, need)
        BY <3>4
      <4> HIDE DEF no, empty, unlinked
      <4>3. /\ chain.calls \in Nat /\ before <= chain.calls
            /\ AfterFindAndSet(m, chain.calls) \ m = Found(m, chain.calls)
            /\ \E Ns : NewTables(m, no, doubly, empty, empty, unlinked,
                                 ChainWrites(chain, doubly, unlinked),
                                 AfterFindAndSet(m, chain.calls), Ns)
        BY <4>1, <4>2, ChainGrowth
      <4> QED BY <4>3 DEF no, empty, unlinked
    <3>9. map \subseteq Sector
      BY <3>5, <3>8 DEF NewTables
    <3> QED BY <2>1, <3>5, <3>6, <3>8, <3>9 DEF before
  <2>2. CASE ~indirect
    <3>1. calls = n /\ writes = <<>> /\ doubly = None
      BY <2>2
    <3>2. map = m \cup Found(m, n) /\ Found(m, n) \subseteq Sector \ m
      BY <3>1, <1>3, FoundFacts
    <3> HIDE DEF calls, writes, doubly, map
    <3>3. Elements(writes) = {} /\ writes \in Seq(Write)
      BY <3>1 DEF Elements
    <3>4. NewTables(m, None, doubly, {}, {}, FALSE, writes, map, {})
      BY <3>1, <3>2, <3>3 DEF NewTables
    <3>5. n <= calls /\ calls \in Nat
      BY <3>1, <1>3
    <3> QED BY <3>1, <3>2, <3>4, <3>5
  <2> QED BY <2>1, <2>2
<1>5. \A i \in 0 .. NumDirect - 1 : direct[i] \in Found(m, calls) \cup {Unset}
  <2> SUFFICES ASSUME NEW i \in 0 .. NumDirect - 1
               PROVE  (IF i < n THEN FindAndSet(m, i + 1) ELSE Unset) \in Found(m, calls) \cup {Unset}
    OBVIOUS
  <2> HIDE DEF calls
  <2>1. CASE i < n /\ n <= calls /\ calls \in Nat
    <3>1. i \in Nat /\ i < n
      BY <2>1, <1>3
    <3>2. FindAndSet(m, i + 1) \in Found(m, calls)
      BY <2>1, <3>1, <1>3, DirectFound
    <3> QED BY <2>1, <3>2
  <2>2. CASE i < n /\ indirect /\ NumDirect + 1 <= calls /\ calls \in Nat
    <3>1. i \in Nat /\ i < NumDirect /\ NumDirect <= calls /\ NumDirect <= NumClear(m) /\ NumDirect \in Nat
      BY <2>2, <1>3
    <3>2. FindAndSet(m, i + 1) \in Found(m, calls)
      BY <2>2, <3>1, DirectFound
    <3> QED BY <2>2, <3>2
  <2> QED BY <2>1, <2>2, <1>4
<1>6. Found(m, calls) \subseteq Sector /\ doubly \in Sector \cup {None}
  BY <1>4
<1>7. header \in Header /\ header.direct = direct /\ header.doubly = doubly /\ header.length = size
  <2>1. direct \in [0 .. NumDirect - 1 -> Sector \cup {Unset}]
    <3> HIDE DEF calls
    <3>1. \A i \in 0 .. NumDirect - 1 : direct[i] \in Sector \cup {Unset}
      BY <1>5, <1>6
    <3> QED BY <3>1
  <2> HIDE DEF direct, doubly, Sector
  <2> QED BY <2>1, <1>3, <1>6 DEF Header
<1>8. divRoundUp(a.header.length, SectorSize) <= NumSectors
  <2>1. divRoundUp(a.header.length, SectorSize) = n
    BY <1>2, <1>7 DEF n
  <2>2. NumSectors \in Nat
    BY Constants
  <2> QED BY <2>1, <2>2, <1>3
<1> HIDE DEF header, writes, map, direct, doubly, calls, chain
<1>9. \E Ns : Growth(m, None, {}, {}, FALSE, header, writes, map, Ns)
  <2>1. PICK Ns : NewTables(m, None, doubly, {}, {}, FALSE, writes, map, Ns)
    BY <1>4
  <2>2. \A i \in 0 .. NumDirect - 1 : header.direct[i] \in {} \cup (map \ m) \cup {Unset}
    BY <1>4, <1>5, <1>7
  <2>3. Growth(m, None, {}, {}, FALSE, header, writes, map, Ns)
    BY <2>1, <2>2, <1>7 DEF Growth
  <2> QED BY <2>3
<1> QED BY <1>2, <1>8, <1>9

ExtendFrom(header, Bs, As, extra, linked) ==
  /\ freeMap \subseteq Sector /\ Bs \subseteq freeMap /\ As \subseteq freeMap
  /\ header \in Header /\ LeadsTo(header.doubly, Bs, As)
  /\ \A i \in 0 .. NumDirect - 1 : header.direct[i] \in As \cup {Unset}
  /\ extra \in Nat \ {0} /\ CanExtend(header, extra) /\ linked \in BOOLEAN

LEMMA ExtendFacts ==
  ASSUME NEW header, NEW Bs, NEW As, NEW extra, NEW linked, NEW grown,
         ExtendFrom(header, Bs, As, extra, linked), grown = Extend(header, extra, linked)
  PROVE  \E Ns : Growth(freeMap, header.doubly, Bs, As, linked,
                        grown.header, grown.writes, grown.map, Ns)
<1> DEFINE
      n == divRoundUp(extra, SectorSize)
      smaller(a, b) == IF a < b THEN a ELSE b
      direct == IF divRoundUp(header.length, SectorSize) < NumDirect
                  THEN smaller(NumDirect, n) ELSE 0
      newDoubly == IF header.doubly = None THEN 1 ELSE 0
      doubly == IF newDoubly = 1 THEN FindAndSet(freeMap, direct + 1) ELSE header.doubly
      chain == Chain(freeMap, header.doubly, direct + newDoubly, n - direct)
      entries == [i \in 0 .. NumDirect - 1 |->
                    IF i < direct THEN FindAndSet(freeMap, i + 1) ELSE header.direct[i]]
      top == IF n > direct THEN doubly ELSE header.doubly
      new == [length |-> header.length + extra, sectors |-> header.sectors + n,
              direct |-> entries, doubly |-> top]
      writes == IF n > direct THEN ChainWrites(chain, doubly, linked) ELSE <<>>
      calls == IF n > direct THEN chain.calls ELSE n
      map == AfterFindAndSet(freeMap, calls)
<1> USE DEF ExtendFrom
<1>1. grown = [header |-> new, writes |-> writes, map |-> map]
  BY DEF Extend
<1>2. grown.header = new /\ grown.writes = writes /\ grown.map = map
  BY <1>1
<1>3. n \in Nat /\ NumDirect \in Nat \ {0} /\ n <= NumClear(freeMap) /\ NumClear(freeMap) \in Nat
  BY RoundUp, Constants, RankFinite DEF CanExtend
<1>4. /\ header.length \in Nat /\ header.sectors \in Nat /\ header.doubly \in Sector \cup {None}
      /\ header.direct \in [0 .. NumDirect - 1 -> Sector \cup {Unset}]
  <2> HIDE DEF Sector, None, Unset
  <2> QED BY DEF Header
<1> HIDE DEF n, chain
<1>5. direct \in Nat /\ direct <= n /\ newDoubly \in Nat
  BY <1>3
<1> HIDE DEF direct
<1>6. /\ calls \in Nat /\ direct <= calls
      /\ map \ freeMap = Found(freeMap, calls) /\ map \subseteq Sector /\ top \in Sector \cup {None}
      /\ \E Ns : NewTables(freeMap, header.doubly, top, Bs, As, linked, writes, map, Ns)
  <2>1. CASE n > direct
    <3> DEFINE before == direct + newDoubly
               need == n - direct
               old == header.doubly
    <3>1. before \in Nat /\ need \in Nat \ {0} /\ direct <= before
      BY <2>1, <1>3, <1>5
    <3>2. doubly = old \/ (old = None /\ \E k \in 1 .. before : doubly = FindAndSet(freeMap, k))
      <4>1. CASE header.doubly = None
        <5>1. newDoubly = 1 /\ doubly = FindAndSet(freeMap, direct + 1)
          BY <4>1
        <5>2. direct + 1 \in 1 .. before
          BY <5>1, <1>5
        <5> QED BY <4>1, <5>1, <5>2
      <4>2. CASE header.doubly # None
        BY <4>2
      <4> QED BY <4>1, <4>2
    <3>3. chain = Chain(freeMap, old, before, need)
      BY DEF chain
    <3>4. top = doubly /\ writes = ChainWrites(chain, doubly, linked) /\ calls = chain.calls
          /\ map = AfterFindAndSet(freeMap, chain.calls)
      BY <2>1
    <3>5. doubly \in Sector \cup {None}
      BY <3>2, <1>4, FindFree
    <3>6. ChainFrom(freeMap, old, doubly, Bs, As, linked, before, need)
      BY <3>1, <3>2, <1>4 DEF ChainFrom
    <3> HIDE DEF before, need, doubly, writes, calls, map, top, old, ExtendFrom
    <3>7. /\ chain.calls \in Nat /\ before <= chain.calls
          /\ AfterFindAndSet(freeMap, chain.calls) \ freeMap = Found(freeMap, chain.calls)
          /\ \E Ns : NewTables(freeMap, old, doubly, Bs, As, linked,
                               ChainWrites(chain, doubly, linked),
                               AfterFindAndSet(freeMap, chain.calls), Ns)
      BY <3>3, <3>6, ChainGrowth
    <3>8. map \subseteq Sector
      BY <3>4, <3>7 DEF NewTables
    <3>9. direct <= calls
      BY <3>1, <3>4, <3>7, <1>5
    <3> QED BY <3>4, <3>5, <3>7, <3>8, <3>9 DEF old
  <2>2. CASE ~(n > direct)
    <3>1. calls = n /\ writes = <<>> /\ top = header.doubly
      BY <2>2
    <3>2. map = freeMap \cup Found(freeMap, n) /\ Found(freeMap, n) \subseteq Sector \ freeMap
      BY <3>1, <1>3, FoundFacts
    <3> HIDE DEF calls, writes, top, map
    <3>3. Elements(writes) = {} /\ writes \in Seq(Write)
      BY <3>1 DEF Elements
    <3>4. NewTables(freeMap, header.doubly, top, Bs, As, linked, writes, map, {})
      BY <3>1, <3>2, <3>3 DEF NewTables
    <3> QED BY <3>1, <3>2, <3>4, <1>3, <1>4, <1>5
  <2> QED BY <2>1, <2>2
<1> HIDE DEF calls
<1>7. \A i \in 0 .. NumDirect - 1 : entries[i] \in As \cup Found(freeMap, calls) \cup {Unset}
  <2> SUFFICES ASSUME NEW i \in 0 .. NumDirect - 1
               PROVE  (IF i < direct THEN FindAndSet(freeMap, i + 1) ELSE header.direct[i])
                        \in As \cup Found(freeMap, calls) \cup {Unset}
    OBVIOUS
  <2>1. CASE i < direct
    <3>1. i \in Nat /\ i < direct /\ direct <= NumClear(freeMap)
      BY <2>1, <1>3, <1>5
    <3>2. FindAndSet(freeMap, i + 1) \in Found(freeMap, calls)
      BY <3>1, <1>5, <1>6, DirectFound
    <3> QED BY <2>1, <3>2
  <2>2. CASE ~(i < direct)
    BY <2>2
  <2> QED BY <2>1, <2>2
<1>8. new \in Header /\ new.direct = entries /\ new.doubly = top
  <2>1. entries \in [0 .. NumDirect - 1 -> Sector \cup {Unset}]
    <3>1. As \subseteq Sector /\ Found(freeMap, calls) \subseteq Sector
      BY <1>6
    <3>2. \A i \in 0 .. NumDirect - 1 : entries[i] \in Sector \cup {Unset}
      BY <1>7, <3>1
    <3> QED BY <3>2
  <2>2. header.length + extra \in Nat /\ header.sectors + n \in Nat
    BY <1>3, <1>4
  <2> HIDE DEF entries, top, Sector
  <2> QED BY <2>1, <2>2, <1>6 DEF Header
<1> HIDE DEF new, writes, map, entries, top
<1>9. PICK Ns : NewTables(freeMap, header.doubly, top, Bs, As, linked, writes, map, Ns)
  BY <1>6
<1>10. \A i \in 0 .. NumDirect - 1 : new.direct[i] \in As \cup (map \ freeMap) \cup {Unset}
  BY <1>6, <1>7, <1>8
<1>11. Growth(freeMap, header.doubly, Bs, As, linked, new, writes, map, Ns)
  BY <1>8, <1>9, <1>10 DEF Growth
<1> QED BY <1>2, <1>11

-----------------------------------------------------------------------------
(* A write reaches the disk                                                                 *)

(* The disk after write w. *)
Written(k, w) == IF w.to = "sector" THEN [k EXCEPT ![w.at] = w.put] ELSE k

LEMMA BecomesWritten ==
  ASSUME NEW k, NEW w, NEW q, NEW s, NEW C, k \in [Sector -> Content], w.at \in Sector, s \in Sector,
         Becomes(k, {w} \cup q, s, C)
  PROVE  Becomes(Written(k, w), q, s, C)
<1>1. CASE Targets(w, s)
  <2>1. w.put \in C
    BY <1>1 DEF Becomes
  <2>2. Written(k, w)[s] = w.put
    BY <1>1 DEF Written, Targets
  <2> QED BY <2>1, <2>2 DEF Becomes
<1>2. CASE ~Targets(w, s)
  <2>1. Written(k, w)[s] = k[s]
    BY <1>2 DEF Written, Targets
  <2> QED BY <2>1, <1>2 DEF Becomes
<1> QED BY <1>1, <1>2

LEMMA GoodWritten ==
  ASSUME NEW k, NEW w, NEW q, NEW r, NEW m, NEW o, NEW Data, NEW Doubly, NEW Blocks,
         k \in [Sector -> Content], w.at \in Sector, r \in Directory,
         Ownership(Data, Doubly, Blocks),
         Good(k, {w} \cup q, r, m, o, Data, Doubly, Blocks)
  PROVE  Good(Written(k, w), q, r, m, o, Data, Doubly, Blocks)
<1> DEFINE l == Written(k, w)
<1> USE DEF Good
<1>1. HeadersOK(l, q, r, m, Data, Doubly, Blocks)
  <2> SUFFICES ASSUME NEW i \in Entry, r[i] # NoEntry
               PROVE  Becomes(l, q, r[i].sector, Headers(Data[r[i].name], Doubly[r[i].name]))
    BY DEF HeadersOK
  <2>1. r[i].sector \in Sector
    BY DEF Directory, NoEntry
  <2>2. Becomes(k, {w} \cup q, r[i].sector, Headers(Data[r[i].name], Doubly[r[i].name]))
    BY DEF HeadersOK
  <2> QED BY <2>1, <2>2, BecomesWritten
<1>2. ChainsOK(l, q, Data, Doubly, Blocks)
  <2> SUFFICES ASSUME NEW f \in Name, NEW d \in Doubly[f]
               PROVE  /\ Becomes(l, q, d, Tables(Blocks[d]))
                      /\ \A b \in Blocks[d] : Becomes(l, q, b, Tables(Data[f]))
    BY DEF ChainsOK
  <2>1. d \in Sector /\ Blocks[d] \subseteq Sector
    BY DEF Ownership
  <2>2. Becomes(l, q, d, Tables(Blocks[d]))
    <3>1. Becomes(k, {w} \cup q, d, Tables(Blocks[d]))
      BY DEF ChainsOK
    <3> QED BY <2>1, <3>1, BecomesWritten
  <2>3. ASSUME NEW b \in Blocks[d] PROVE Becomes(l, q, b, Tables(Data[f]))
    <3>1. Becomes(k, {w} \cup q, b, Tables(Data[f])) /\ b \in Sector
      BY <2>1 DEF ChainsOK
    <3> QED BY <3>1, BecomesWritten
  <2> QED BY <2>2, <2>3
<1> HIDE DEF l
<1>3. Good(l, q, r, m, o, Data, Doubly, Blocks)
  BY <1>1, <1>2
<1> QED BY <1>3 DEF l

(* One that is harmless leaves a good disk good. *)
LEMMA HarmlessWritten ==
  ASSUME NEW k, NEW w, NEW r, NEW m, NEW o, NEW Data, NEW Doubly, NEW Blocks,
         k \in [Sector -> Content], w.at \in Sector, w.put \in Content, r \in Directory,
         Ownership(Data, Doubly, Blocks), Harmless(w, r, Doubly, Blocks),
         Good(k, {}, r, m, o, Data, Doubly, Blocks)
  PROVE  Good(Written(k, w), {}, r, m, o, Data, Doubly, Blocks)
<1> DEFINE l == Written(k, w)
<1> USE DEF Good
<1>1. \A s \in Sector : s # w.at => l[s] = k[s]
  BY DEF Written
<1>2. l[w.at] = w.put
  BY DEF Written, Harmless
<1> HIDE DEF l
<1>3. HeadersOK(l, {}, r, m, Data, Doubly, Blocks)
  <2> SUFFICES ASSUME NEW i \in Entry, r[i] # NoEntry
               PROVE  Becomes(l, {}, r[i].sector, Headers(Data[r[i].name], Doubly[r[i].name]))
    BY DEF HeadersOK
  <2>1. r[i].sector \in Sector /\ r[i].sector # w.at
    BY DEF Directory, NoEntry, Harmless
  <2>2. Becomes(k, {}, r[i].sector, Headers(Data[r[i].name], Doubly[r[i].name]))
    BY DEF HeadersOK
  <2> QED BY <2>1, <2>2, <1>1 DEF Becomes
<1>4. ChainsOK(l, {}, Data, Doubly, Blocks)
  <2> SUFFICES ASSUME NEW f \in Name, NEW d \in Doubly[f]
               PROVE  /\ l[d] \in Tables(Blocks[d])
                      /\ \A b \in Blocks[d] : l[b] \in Tables(Data[f])
    BY DEF ChainsOK, Becomes
  <2>1. d \in Sector /\ Blocks[d] \subseteq Sector
    BY DEF Ownership
  <2>2. k[d] \in Tables(Blocks[d]) /\ \A b \in Blocks[d] : k[b] \in Tables(Data[f])
    BY DEF ChainsOK, Becomes
  <2>3. w.put.kind = "data" => \A S : w.put \in Tables(S)
    <3> HIDE DEF Content
    <3> QED BY DEF Tables
  <2>4. w.put.kind # "data" => w.at # d /\ w.at \notin Blocks[d]
    BY DEF Harmless
  <2>5. l[d] \in Tables(Blocks[d])
    <3>1. CASE d = w.at
      BY <3>1, <1>2, <2>3, <2>4
    <3>2. CASE d # w.at
      BY <3>2, <1>1, <2>1, <2>2
    <3> QED BY <3>1, <3>2
  <2>6. ASSUME NEW b \in Blocks[d] PROVE l[b] \in Tables(Data[f])
    <3>1. CASE b = w.at
      BY <3>1, <1>2, <2>3, <2>4
    <3>2. CASE b # w.at
      BY <3>2, <1>1, <2>1, <2>2
    <3> QED BY <3>1, <3>2
  <2> QED BY <2>5, <2>6
<1>5. Good(l, {}, r, m, o, Data, Doubly, Blocks)
  BY <1>3, <1>4
<1> QED BY <1>5 DEF l

LEMMA WriteFacts ==
  ASSUME NEW w \in Write
  PROVE  /\ w.to \in {"sector", "map", "dir"} /\ w.at \in Sector \cup {None, Unset}
         /\ w.to = "sector" => w.put \in Content
         /\ w.to = "map" => w.put \subseteq Sector /\ w.links /\ w.at = 0
         /\ w.to = "dir" => w.put \in Directory /\ w.links /\ w.at = 1
<1>1. 0 \in Sector /\ 1 \in Sector
  BY Constants
<1> HIDE DEF Content, Directory, Sector
<1> QED BY <1>1 DEF Write

(* What the invariant says of the good states, with the writes in one set. *)
LEMMA LastWrite ==
  ASSUME TypeInv, todo # <<>>
  PROVE  /\ Head(todo) \in Write /\ Tail(todo) \in Seq(Write)
         /\ Elements(todo) = {Head(todo)} \cup Elements(Tail(todo))
         /\ Elements(Tail(todo)) \subseteq Write
         /\ Elements(<<>>) = {}
<1> HIDE DEF Write
<1>1. todo \in Seq(Write)
  BY DEF TypeInv
<1> QED BY <1>1, ElementsFacts

LEMMA DiskWriteKeeps == IInv /\ DiskWrite => IInv'
<1> SUFFICES ASSUME IInv, DiskWrite PROVE IInv'
  OBVIOUS
<1> DEFINE w == Head(todo)
           rest == Elements(Tail(todo))
<1>1. /\ todo # <<>> /\ w.at \in Sector /\ todo' = Tail(todo) /\ disk' = Written(disk, w)
      /\ freeMap' = IF w.to = "map" THEN w.put ELSE freeMap
      /\ dir' = IF w.to = "dir" THEN w.put ELSE dir
      /\ torn' = (Tail(todo) # <<>> /\ (torn \/ w.links))
      /\ open' = open /\ call' = call /\ damaged' = damaged
  BY DEF DiskWrite, Written
<1>2. /\ w \in Write /\ Tail(todo) \in Seq(Write) /\ Elements(todo) = {w} \cup rest
      /\ rest \subseteq Write /\ Elements(<<>>) = {}
  BY <1>1, LastWrite DEF IInv
<1>3. /\ w.to \in {"sector", "map", "dir"}
      /\ w.to = "sector" => w.put \in Content
      /\ w.to = "map" => w.put \subseteq Sector /\ w.links
      /\ w.to = "dir" => w.put \in Directory /\ w.links
  BY <1>2, WriteFacts
<1> HIDE DEF w, rest
<1>4. TypeInv'
  <2>1. disk' \in [Sector -> Content]
    <3>1. disk \in [Sector -> Content]
      BY DEF IInv, TypeInv
    <3> HIDE DEF Sector, Content
    <3> QED BY <3>1, <1>1, <1>3 DEF Written
  <2>2. freeMap' \subseteq Sector /\ dir' \in Directory
    <3> HIDE DEF Sector, Directory
    <3> QED BY <1>1, <1>3 DEF IInv, TypeInv
  <2>3. todo' \in Seq(Write)
    BY <1>1, <1>2
  <2>4. torn' \in BOOLEAN
    BY <1>1
  <2> HIDE DEF Sector, Content, Directory, Write, OpenFile
  <2> QED BY <2>1, <2>2, <2>3, <2>4, <1>1 DEF IInv, TypeInv
<1>5. ~damaged /\ ~damaged'
  BY <1>1 DEF IInv, CallInv
<1>6. CallInv'
  <2>1. /\ call.op = "none" => call = NoCall /\ todo' = <<>>
        /\ ~damaged'
        /\ \A v \in Elements(todo)' : /\ v.at = Unset => call.op = "written"
                                      /\ v.links => call.op # "written"
    BY <1>1, <1>2, <1>5 DEF IInv, CallInv, rest
  <2>2. (todo' = <<>> => ~torn') /\ (call.op = "written" => ~torn')
    <3>1. call.op = "written" => ~torn /\ ~w.links
      BY <1>2 DEF IInv, CallInv
    <3> QED BY <3>1, <1>1
  <2>3. call.op = "write" =>
          /\ call = [op |-> "write", name |-> call.name, handle |-> call.handle, at |-> call.at,
                     length |-> call.length, value |-> call.value, before |-> call.before]
          /\ call.handle \in Handle /\ open[call.handle] # Closed
          /\ open[call.handle].name = call.name
          /\ <<call.at, call.length>> \in WriteRange /\ call.value = 1
    BY DEF IInv, CallInv
  <2> QED BY <2>1, <2>2, <2>3, <1>1 DEF CallInv
<1>7. PICK r, m, Data, Doubly, Blocks : FinalOK(Elements(todo), r, m, Data, Doubly, Blocks)
  BY <1>5 DEF IInv, FinalInv
<1>8. disk \in [Sector -> Content]
  BY DEF IInv, TypeInv
<1>9. /\ Ownership(Data, Doubly, Blocks) /\ r \in Directory /\ m \subseteq Sector
      /\ BecomesDir(dir', rest, r) /\ BecomesMap(freeMap', rest, m)
      /\ Good(disk', rest, r, m, open', Data, Doubly, Blocks)
      /\ ForeignOK(call'.name, dir', rest, r, Data, Doubly, Blocks)
  <2>1. /\ Ownership(Data, Doubly, Blocks) /\ r \in Directory /\ m \subseteq Sector
        /\ BecomesDir(dir, {w} \cup rest, r) /\ BecomesMap(freeMap, {w} \cup rest, m)
        /\ Good(disk, {w} \cup rest, r, m, open, Data, Doubly, Blocks)
        /\ ForeignOK(call.name, dir, {w} \cup rest, r, Data, Doubly, Blocks)
    BY <1>2, <1>7 DEF FinalOK
  <2>2. BecomesDir(dir', rest, r) /\ BecomesMap(freeMap', rest, m)
    BY <2>1, <1>1 DEF BecomesDir, BecomesMap
  <2>3. Good(disk', rest, r, m, open', Data, Doubly, Blocks)
    BY <2>1, <1>1, <1>8, GoodWritten
  <2>4. ForeignOK(call'.name, dir', rest, r, Data, Doubly, Blocks)
    <3>1. \A i \in Entry : r[i] # dir'[i] => dir' = dir
      BY <2>1, <1>1 DEF BecomesDir
    <3>2. \A i \in Entry : r[i] # dir'[i] => {r[i].name, dir'[i].name} \subseteq {call.name, NoName}
      BY <2>1, <3>1 DEF ForeignOK
    <3> QED BY <2>1, <3>2, <1>1 DEF ForeignOK
  <2> QED BY <2>1, <2>2, <2>3, <2>4
<1>10. FinalOK(Elements(todo), r, m, Data, Doubly, Blocks)'
  BY <1>9, <1>1 DEF FinalOK, rest
<1>11. FinalInv'
  BY <1>10 DEF FinalInv
<1>12. CrashInv'
  <2>1. CASE Tail(todo) = <<>>
    <3>1. rest = {} /\ Elements(todo)' = {}
      BY <2>1, <1>1, <1>2 DEF rest
    <3>2. dir' = r /\ freeMap' = m
      BY <1>9, <3>1 DEF BecomesDir, BecomesMap
    <3>3. Good(disk', {}, dir', freeMap', AllClosed, Data, Doubly, Blocks)
      BY <1>9, <3>1, <3>2 DEF Good, OpenOK, AllClosed
    <3>4. CrashOK(Elements(todo), Data, Doubly, Blocks)'
      BY <1>9, <3>1, <3>3 DEF CrashOK, AllClosed
    <3> QED BY <3>4 DEF CrashInv
  <2>2. CASE Tail(todo) # <<>> /\ ~torn'
    <3>1. ~torn /\ ~w.links
      BY <2>2, <1>1
    <3>2. PICK D, E, B : CrashOK(Elements(todo), D, E, B)
      BY <3>1, <1>5 DEF IInv, CrashInv
    <3>3. w.to = "sector" /\ w.put \in Content /\ dir' = dir /\ freeMap' = freeMap
      BY <3>1, <1>1, <1>3
    <3>4. /\ Ownership(D, E, B) /\ Good(disk, {}, dir, freeMap, AllClosed, D, E, B)
          /\ Harmless(w, dir, E, B)
          /\ \A v \in rest : v.links \/ Harmless(v, dir, E, B)
      BY <3>1, <3>2, <1>2 DEF CrashOK
    <3>5. dir \in Directory
      BY DEF IInv, TypeInv
    <3>6. Good(disk', {}, dir, freeMap, AllClosed, D, E, B)
      BY <3>3, <3>4, <3>5, <1>1, <1>8, HarmlessWritten
    <3>7. CrashOK(Elements(todo), D, E, B)'
      BY <3>3, <3>4, <3>6, <1>1 DEF CrashOK, AllClosed, rest
    <3> QED BY <3>7 DEF CrashInv
  <2>3. CASE torn'
    BY <2>3 DEF CrashInv
  <2> QED BY <2>1, <2>2, <2>3
<1> QED BY <1>4, <1>6, <1>11, <1>12 DEF IInv

-----------------------------------------------------------------------------
(* The machine stops                                                                        *)

LEMMA RebootKeeps == IInv /\ ~damaged /\ Reboot => IInv'
<1> SUFFICES ASSUME IInv, ~damaged, Reboot PROVE IInv'
  OBVIOUS
<1>1. /\ open' = AllClosed /\ call' = NoCall /\ todo' = <<>> /\ torn' = FALSE /\ damaged' = torn
      /\ disk' = disk /\ freeMap' = freeMap /\ dir' = dir
  BY DEF Reboot, AllClosed
<1>2. Elements(todo)' = {} /\ todo' \in Seq(Write)
  BY <1>1 DEF Elements
<1>3. TypeInv'
  <2>1. open' \in [Handle -> {Closed} \cup OpenFile]
    BY <1>1 DEF AllClosed
  <2>2. call'.op = "none"
    BY <1>1 DEF NoCall
  <2> HIDE DEF Sector, Content, Directory, Write, OpenFile
  <2> QED BY <1>1, <1>2, <2>1, <2>2 DEF IInv, TypeInv
<1>4. CallInv'
  <2>1. call'.op = "none" /\ NoCall.op = "none"
    BY <1>1 DEF NoCall
  <2> QED BY <1>1, <1>2, <2>1 DEF CallInv
<1>5. CASE damaged'
  BY <1>3, <1>4, <1>5 DEF IInv, FinalInv, CrashInv
<1>6. CASE ~damaged'
  <2>1. PICK Data, Doubly, Blocks : CrashOK(Elements(todo), Data, Doubly, Blocks)
    BY <1>1, <1>6 DEF IInv, CrashInv
  <2>2. CrashOK(Elements(todo), Data, Doubly, Blocks)'
    BY <1>1, <1>2, <2>1 DEF CrashOK, AllClosed
  <2>3. dir \in Directory /\ freeMap \subseteq Sector
    BY DEF IInv, TypeInv
  <2>4. BecomesDir(dir, {}, dir) /\ BecomesMap(freeMap, {}, freeMap)
    BY DEF BecomesDir, BecomesMap
  <2>5. ForeignOK(call'.name, dir, {}, dir, Data, Doubly, Blocks)
    BY DEF ForeignOK
  <2>6. FinalOK(Elements(todo), dir, freeMap, Data, Doubly, Blocks)'
    BY <1>1, <1>2, <2>1, <2>3, <2>4, <2>5 DEF FinalOK, CrashOK
  <2>7. CrashInv'
    BY <2>2 DEF CrashInv
  <2>8. FinalInv'
    <3>1. \E r, m, D, E, B : FinalOK(Elements(todo), r, m, D, E, B)'
      BY <1>1, <2>6
    <3> QED BY <3>1 DEF FinalInv
  <2> QED BY <1>3, <1>4, <2>7, <2>8 DEF IInv
<1> QED BY <1>5, <1>6

LEMMA StopsKeep == IInv /\ (DiskStops \/ WildWrite \/ Crash \/ Return) => IInv'
<1> SUFFICES ASSUME IInv, DiskStops \/ WildWrite \/ Crash \/ Return PROVE IInv'
  OBVIOUS
<1>1. CASE DiskStops
  <2>1. Reboot /\ ~damaged
    BY <1>1 DEF DiskStops, IInv, CallInv
  <2> QED BY <2>1, RebootKeeps
<1>2. CASE WildWrite
  <2>1. /\ todo # <<>> /\ Head(todo).at = Unset /\ damaged' /\ todo' = <<>>
        /\ disk' = disk /\ freeMap' = freeMap /\ dir' = dir /\ open' = open /\ call' = call
        /\ torn' = torn
    BY <1>2 DEF WildWrite
  <2>2. Head(todo) \in Elements(todo) /\ Elements(<<>>) = {}
    BY <2>1, LastWrite DEF IInv
  <2>3. call.op = "written" /\ ~torn
    BY <2>1, <2>2 DEF IInv, CallInv
  <2>4. TypeInv'
    <3>1. todo' \in Seq(Write) /\ damaged' \in BOOLEAN
      BY <2>1, <1>2 DEF WildWrite
    <3> HIDE DEF Sector, Content, Directory, Write, OpenFile
    <3> QED BY <2>1, <3>1 DEF IInv, TypeInv
  <2>5. CallInv'
    BY <2>1, <2>2, <2>3 DEF CallInv
  <2> QED BY <2>1, <2>4, <2>5 DEF IInv, FinalInv, CrashInv
<1>3. CASE Crash
  BY <1>3, RebootKeeps DEF Crash
<1>4. CASE Return
  <2>1. /\ todo = <<>> /\ ~damaged /\ call' = NoCall /\ todo' = todo
        /\ disk' = disk /\ freeMap' = freeMap /\ dir' = dir /\ open' = open
        /\ torn' = torn /\ damaged' = damaged
    BY <1>4 DEF Return
  <2>2. Elements(todo) = {} /\ Elements(todo)' = {}
    BY <2>1 DEF Elements
  <2>3. NoCall.op = "none"
    BY DEF NoCall
  <2>4. TypeInv'
    <3> HIDE DEF Sector, Content, Directory, Write, OpenFile
    <3> QED BY <2>1, <2>3 DEF IInv, TypeInv
  <2>5. CallInv'
    <3>1. ~torn
      BY <2>1 DEF IInv, CallInv
    <3> QED BY <2>1, <2>2, <2>3, <3>1 DEF CallInv
  <2>6. CrashInv'
    <3>1. PICK D, E, B : ~torn => CrashOK(Elements(todo), D, E, B)
      BY <2>1 DEF IInv, CrashInv
    <3>2. ~torn' => CrashOK(Elements(todo), D, E, B)'
      BY <2>1, <2>2, <3>1 DEF CrashOK, AllClosed
    <3> QED BY <3>2 DEF CrashInv
  <2>7. FinalInv'
    <3>1. PICK r, m, D, E, B : FinalOK(Elements(todo), r, m, D, E, B)
      BY <2>1 DEF IInv, FinalInv
    <3>2. dir = r
      BY <2>2, <3>1 DEF FinalOK, BecomesDir
    <3>3. ForeignOK(call'.name, dir', {}, r, D, E, B)
      BY <2>1, <3>2 DEF ForeignOK
    <3>4. FinalOK(Elements(todo), r, m, D, E, B)'
      BY <2>1, <2>2, <3>1, <3>3 DEF FinalOK
    <3> QED BY <3>4 DEF FinalInv
  <2> QED BY <2>4, <2>5, <2>6, <2>7 DEF IInv
<1> QED BY <1>1, <1>2, <1>3, <1>4

LEMMA StutterKeeps == IInv /\ UNCHANGED vars => IInv'
<1> SUFFICES ASSUME IInv, UNCHANGED vars PROVE IInv'
  OBVIOUS
<1>1. /\ disk' = disk /\ freeMap' = freeMap /\ dir' = dir /\ open' = open
      /\ call' = call /\ todo' = todo /\ torn' = torn /\ damaged' = damaged
  BY DEF vars
<1> QED BY <1>1 DEF IInv, TypeInv, CallInv, FinalInv, CrashInv, FinalOK, CrashOK, AllClosed

-----------------------------------------------------------------------------
(* Between calls                                                                            *)

Resting(Data, Doubly, Blocks) ==
  /\ Ownership(Data, Doubly, Blocks)
  /\ Good(disk, {}, dir, freeMap, open, Data, Doubly, Blocks)

LEMMA AtRest ==
  ASSUME IInv, todo = <<>>, ~damaged
  PROVE  \E Data, Doubly, Blocks : Resting(Data, Doubly, Blocks)
<1>1. PICK r, m, Data, Doubly, Blocks : FinalOK(Elements(todo), r, m, Data, Doubly, Blocks)
  BY DEF IInv, FinalInv
<1>2. Elements(todo) = {}
  BY DEF Elements
<1>3. dir = r /\ freeMap = m
  BY <1>1, <1>2 DEF FinalOK, BecomesDir, BecomesMap
<1>4. Resting(Data, Doubly, Blocks)
  BY <1>1, <1>2, <1>3 DEF FinalOK, Resting
<1> QED BY <1>4

LEMMA IdleRests ==
  ASSUME IInv, Idle
  PROVE  /\ todo = <<>> /\ ~damaged /\ ~torn /\ call = NoCall /\ call.op = "none"
         /\ \E Data, Doubly, Blocks : Resting(Data, Doubly, Blocks)
<1>1. call = NoCall /\ ~damaged /\ call.op = "none"
  BY DEF Idle, NoCall
<1>2. todo = <<>> /\ ~torn
  BY <1>1 DEF IInv, CallInv
<1> QED BY <1>1, <1>2, AtRest

(* A call that leaves nothing to write and the disk good. *)
LEMMA RestsAgain ==
  ASSUME NEW Data, NEW Doubly, NEW Blocks,
         todo' = <<>>, dir' \in Directory, freeMap' \subseteq Sector, Resting(Data, Doubly, Blocks)'
  PROVE  FinalInv' /\ CrashInv'
<1>1. Elements(todo)' = {}
  BY DEF Elements
<1>2. /\ BecomesDir(dir', {}, dir') /\ BecomesMap(freeMap', {}, freeMap')
      /\ ForeignOK(call'.name, dir', {}, dir', Data, Doubly, Blocks)
  BY DEF BecomesDir, BecomesMap, ForeignOK
<1>3. /\ Ownership(Data, Doubly, Blocks)
      /\ Good(disk', {}, dir', freeMap', open', Data, Doubly, Blocks)
  BY DEF Resting
<1>4. FinalInv'
  <2>1. \E r, m, D, E, B : FinalOK(Elements(todo), r, m, D, E, B)'
    BY <1>1, <1>2, <1>3 DEF FinalOK
  <2> QED BY <2>1 DEF FinalInv
<1>5. CrashInv'
  <2>1. Good(disk', {}, dir', freeMap', AllClosed, Data, Doubly, Blocks)
    BY <1>3 DEF Good, OpenOK, AllClosed
  <2>2. CrashOK(Elements(todo), Data, Doubly, Blocks)'
    BY <1>1, <1>3, <2>1 DEF CrashOK, AllClosed
  <2> QED BY <2>2 DEF CrashInv
<1> QED BY <1>4, <1>5

(* The entry and the header of a file. *)
LEMMA FindFacts ==
  ASSUME TypeInv, NEW f \in Name, Listed(f)
  PROVE  /\ FindIndex(f) \in Entry /\ dir[FindIndex(f)] # NoEntry
         /\ dir[FindIndex(f)].name = f /\ dir[FindIndex(f)].sector = Find(f)
         /\ Find(f) \in Sector /\ f # NoName
<1>1. FindIndex(f) \in Entry /\ dir[FindIndex(f)].name = f
  BY DEF Listed, FindIndex
<1>2. f # NoName
  BY FileSystemAssumption
<1>3. dir[FindIndex(f)] # NoEntry
  BY <1>1, <1>2 DEF NoEntry
<1>4. dir[FindIndex(f)] \in [name : Name, sector : Sector]
  BY <1>1, <1>3 DEF TypeInv, Directory
<1> QED BY <1>1, <1>2, <1>3, <1>4 DEF Find

LEMMA HeaderFacts ==
  ASSUME TypeInv, NEW f \in Name, NEW Data, NEW Doubly, NEW Blocks, Listed(f),
         Resting(Data, Doubly, Blocks)
  PROVE  /\ disk[Find(f)] \in Headers(Data[f], Doubly[f])
         /\ HeaderIn(HeaderOf(f), Data[f], Doubly[f]) /\ HeaderOf(f) \in Header
         /\ \A g \in Name : Find(f) \notin Owned(Data, Doubly, Blocks, g)
         /\ Find(f) \in freeMap \ (0 .. SystemSectors - 1)
         /\ \A i \in Entry : i # FindIndex(f) /\ dir[i] # NoEntry =>
              dir[i].name # f /\ dir[i].sector # Find(f)
<1>1. /\ FindIndex(f) \in Entry /\ dir[FindIndex(f)] # NoEntry
      /\ dir[FindIndex(f)].name = f /\ dir[FindIndex(f)].sector = Find(f)
  BY FindFacts
<1>2. /\ DirOK(dir) /\ HeadersOK(disk, {}, dir, freeMap, Data, Doubly, Blocks)
  BY DEF Resting, Good
<1>3. disk[Find(f)] \in Headers(Data[f], Doubly[f])
  BY <1>1, <1>2 DEF HeadersOK, Becomes
<1>4. HeaderIn(HeaderOf(f), Data[f], Doubly[f])
  <2> HIDE DEF Content
  <2> QED BY <1>3 DEF Headers, HeaderOf
<1>5. /\ \A g \in Name : Find(f) \notin Owned(Data, Doubly, Blocks, g)
      /\ Find(f) \in freeMap \ (0 .. SystemSectors - 1)
  BY <1>1, <1>2 DEF HeadersOK
<1>6. \A i \in Entry : i # FindIndex(f) /\ dir[i] # NoEntry =>
        dir[i].name # f /\ dir[i].sector # Find(f)
  BY <1>1, <1>2 DEF DirOK
<1> QED BY <1>3, <1>4, <1>5, <1>6 DEF HeaderIn

LEMMA OpenKeeps ==
  ASSUME IInv, NEW h \in Handle, NEW f \in Name, Open(h, f) \/ Close(h)
  PROVE  IInv'
<1>1. /\ Idle /\ call' = call /\ todo' = todo /\ disk' = disk /\ freeMap' = freeMap
      /\ dir' = dir /\ torn' = torn /\ damaged' = damaged
  BY DEF Open, Close
<1>2. /\ todo = <<>> /\ ~damaged /\ ~torn /\ call = NoCall /\ call.op = "none"
  BY <1>1, IdleRests
<1>3. PICK Data, Doubly, Blocks : Resting(Data, Doubly, Blocks)
  BY <1>1, IdleRests
<1>4. TypeInv
  BY DEF IInv
<1>5. \E v : /\ open' = [open EXCEPT ![h] = v]
             /\ v = Closed \/ (v \in OpenFile /\ HeaderIn(v.header, Data[v.name], Doubly[v.name]))
  <2>1. CASE Open(h, f)
    <3> DEFINE v == [name |-> f, header |-> HeaderOf(f)]
    <3>1. Listed(f) /\ open' = [open EXCEPT ![h] = v]
      BY <2>1 DEF Open
    <3>2. HeaderIn(HeaderOf(f), Data[f], Doubly[f]) /\ HeaderOf(f) \in Header
      BY <1>3, <1>4, <3>1, HeaderFacts
    <3>3. v \in OpenFile /\ v.name = f /\ v.header = HeaderOf(f)
      <4> HIDE DEF Header
      <4> QED BY <3>2 DEF OpenFile
    <3> HIDE DEF v
    <3> QED BY <3>1, <3>2, <3>3
  <2>2. CASE Close(h)
    BY <2>2 DEF Close
  <2> QED BY <2>1, <2>2
<1>6. PICK v : /\ open' = [open EXCEPT ![h] = v]
               /\ v = Closed \/ (v \in OpenFile /\ HeaderIn(v.header, Data[v.name], Doubly[v.name]))
  BY <1>5
<1>7. open \in [Handle -> {Closed} \cup OpenFile]
  BY <1>4 DEF TypeInv
<1>8. TypeInv'
  <2> HIDE DEF Sector, Content, Directory, Write, OpenFile
  <2>1. open' \in [Handle -> {Closed} \cup OpenFile]
    BY <1>6, <1>7
  <2> QED BY <2>1, <1>1, <1>4 DEF TypeInv
<1>9. CallInv'
  <2>1. Elements(todo)' = {}
    BY <1>1, <1>2 DEF Elements
  <2> QED BY <2>1, <1>1, <1>2 DEF CallInv
<1>10. Resting(Data, Doubly, Blocks)'
  <2>1. OpenOK(open', Data, Doubly)
    <3>1. OpenOK(open, Data, Doubly)
      BY <1>3 DEF Resting, Good
    <3> QED BY <3>1, <1>6, <1>7 DEF OpenOK
  <2> QED BY <2>1, <1>1, <1>3 DEF Resting, Good
<1>11. FinalInv' /\ CrashInv'
  <2>1. todo' = <<>> /\ dir' \in Directory /\ freeMap' \subseteq Sector
    BY <1>1, <1>2, <1>4 DEF TypeInv
  <2> QED BY <2>1, <1>10, RestsAgain
<1> QED BY <1>8, <1>9, <1>11 DEF IInv

-----------------------------------------------------------------------------
(* Writes of data                                                                           *)

DataWrites(q, c, Data) ==
  \A w \in q : /\ w.to = "sector" /\ w.put \in Content /\ w.put.kind = "data"
               /\ w.at \in {None, Unset} \/ (c \in Name /\ w.at \in Data[c])

LEMMA DataWritesGood ==
  ASSUME NEW k, NEW d, NEW b, NEW o, NEW c, NEW q, NEW Data, NEW Doubly, NEW Blocks,
         d \in Directory, Ownership(Data, Doubly, Blocks), DataWrites(q, c, Data),
         Good(k, {}, d, b, o, Data, Doubly, Blocks)
  PROVE  /\ BecomesDir(d, q, d) /\ BecomesMap(b, q, b)
         /\ Good(k, q, d, b, o, Data, Doubly, Blocks)
         /\ ForeignOK(c, d, q, d, Data, Doubly, Blocks)
         /\ \A w \in q : Harmless(w, d, Doubly, Blocks)
<1> USE DEF Good
<1>1. \A w \in q : /\ w.to = "sector" /\ w.put \in Content /\ w.put.kind = "data"
                   /\ w.at \in {None, Unset} \/ (c \in Name /\ w.at \in Data[c])
  BY DEF DataWrites
<1>2. BecomesDir(d, q, d) /\ BecomesMap(b, q, b)
  BY <1>1 DEF BecomesDir, BecomesMap
<1>3. \A w \in q : \A S : w.put \in Tables(S)
  <2> HIDE DEF Content
  <2> QED BY <1>1 DEF Tables
<1>4. \A i \in Entry : d[i] # NoEntry => d[i].sector \in Sector
  BY DEF Directory, NoEntry
<1>5. None \notin Sector /\ Unset \notin Sector
  BY Constants
<1>6. ASSUME NEW w \in q, NEW i \in Entry, d[i] # NoEntry PROVE w.at # d[i].sector
  <2>1. c \in Name => d[i].sector \notin Data[c]
    BY <1>6 DEF HeadersOK, Owned
  <2> QED BY <2>1, <1>1, <1>4, <1>5, <1>6
<1>7. HeadersOK(k, q, d, b, Data, Doubly, Blocks)
  BY <1>6 DEF HeadersOK, Becomes, Targets
<1>8. ChainsOK(k, q, Data, Doubly, Blocks)
  <2> SUFFICES ASSUME NEW f \in Name, NEW x \in Doubly[f]
               PROVE  /\ Becomes(k, q, x, Tables(Blocks[x]))
                      /\ \A y \in Blocks[x] : Becomes(k, q, y, Tables(Data[f]))
    BY DEF ChainsOK
  <2>1. k[x] \in Tables(Blocks[x]) /\ \A y \in Blocks[x] : k[y] \in Tables(Data[f])
    BY DEF ChainsOK, Becomes
  <2> QED BY <2>1, <1>3 DEF Becomes
<1>9. ASSUME NEW w \in q, NEW g \in Name \ {c} PROVE w.at \notin Owned(Data, Doubly, Blocks, g)
  <2>1. Owned(Data, Doubly, Blocks, g) \subseteq Sector
    BY DEF Owned, Ownership
  <2>2. c \in Name => Owned(Data, Doubly, Blocks, g) \cap Owned(Data, Doubly, Blocks, c) = {}
    BY DEF OwnersOK
  <2>3. Data[c] \subseteq Owned(Data, Doubly, Blocks, c)
    BY DEF Owned
  <2> QED BY <2>1, <2>2, <2>3, <1>1, <1>5
<1>10. ForeignOK(c, d, q, d, Data, Doubly, Blocks)
  BY <1>6, <1>9 DEF ForeignOK
<1>11. \A w \in q : Harmless(w, d, Doubly, Blocks)
  BY <1>1, <1>6 DEF Harmless
<1> QED BY <1>2, <1>7, <1>8, <1>10, <1>11

LEMMA DataWritesKeep ==
  ASSUME NEW Data, NEW Doubly, NEW Blocks, NEW c, NEW q,
         call'.name = c, Elements(todo)' = q, DataWrites(q, c, Data),
         dir' \in Directory, freeMap' \subseteq Sector, Resting(Data, Doubly, Blocks)'
  PROVE  FinalInv' /\ CrashInv'
<1>1. /\ Ownership(Data, Doubly, Blocks)
      /\ Good(disk', {}, dir', freeMap', open', Data, Doubly, Blocks)
  BY DEF Resting
<1>2. /\ BecomesDir(dir', q, dir') /\ BecomesMap(freeMap', q, freeMap')
      /\ Good(disk', q, dir', freeMap', open', Data, Doubly, Blocks)
      /\ ForeignOK(c, dir', q, dir', Data, Doubly, Blocks)
      /\ \A w \in q : Harmless(w, dir', Doubly, Blocks)
  BY <1>1, DataWritesGood
<1>3. FinalInv'
  <2>1. \E r, m, D, E, B : FinalOK(Elements(todo), r, m, D, E, B)'
    BY <1>1, <1>2 DEF FinalOK
  <2> QED BY <2>1 DEF FinalInv
<1>4. CrashInv'
  <2>1. Good(disk', {}, dir', freeMap', AllClosed, Data, Doubly, Blocks)
    BY <1>1 DEF Good, OpenOK, AllClosed
  <2>2. CrashOK(Elements(todo), Data, Doubly, Blocks)'
    BY <1>1, <1>2, <2>1 DEF CrashOK, AllClosed
  <2> QED BY <2>2 DEF CrashInv
<1> QED BY <1>3, <1>4

(* The write that stops the kernel. *)
LEMMA StopWrite ==
  LET w == ToSector(None, Blank, FALSE)
  IN /\ <<w>> \in Seq(Write) /\ <<w>> # <<>> /\ Elements(<<w>>) = {w}
     /\ w.at = None /\ ~w.links
     /\ \A c, Data : DataWrites({w}, c, Data)
<1> DEFINE w == ToSector(None, Blank, FALSE)
<1>1. Blank \in Content /\ Blank.kind = "data"
  BY ContentMade
<1>2. w \in Write /\ w.to = "sector" /\ w.at = None /\ w.put = Blank /\ w.links = FALSE
  <2> DEFINE s == None
             c == Blank
             l == FALSE
  <2>1. s \in Sector \cup {None, Unset} /\ c \in Content /\ l \in BOOLEAN /\ w = ToSector(s, c, l)
    BY <1>1
  <2> HIDE DEF s, c, l, w
  <2>2. w \in Write /\ w.to = "sector" /\ w.at = s /\ w.put = c /\ w.links = l
    BY <2>1, SectorWrite
  <2> QED BY <2>2 DEF s, c, l
<1> HIDE DEF w
<1>3. <<w>> \in Seq(Write) /\ Elements(<<w>>) = {w}
  BY <1>2, ElementsFacts
<1>4. \A c, Data : DataWrites({w}, c, Data)
  BY <1>1, <1>2 DEF DataWrites
<1>5. <<w>> # <<>>
  OBVIOUS
<1> QED BY <1>2, <1>3, <1>4, <1>5 DEF w

LEMMA ReadAtStopsKeeps ==
  ASSUME IInv, NEW h \in Handle, NEW p, NEW n, ReadAtStops(h, p, n)
  PROVE  IInv'
<1> DEFINE w == ToSector(None, Blank, FALSE)
<1>1. /\ Idle /\ call'.op = "read" /\ todo' = <<w>> /\ disk' = disk /\ freeMap' = freeMap
      /\ dir' = dir /\ open' = open /\ torn' = torn /\ damaged' = damaged
  BY DEF ReadAtStops
<1>2. /\ todo = <<>> /\ ~damaged /\ ~torn
  BY <1>1, IdleRests
<1>3. PICK Data, Doubly, Blocks : Resting(Data, Doubly, Blocks)
  BY <1>1, IdleRests
<1>4. TypeInv
  BY DEF IInv
<1>5. /\ <<w>> \in Seq(Write) /\ <<w>> # <<>> /\ Elements(<<w>>) = {w}
      /\ w.at = None /\ ~w.links
      /\ \A c, D : DataWrites({w}, c, D)
  BY StopWrite
<1> HIDE DEF w
<1>6. TypeInv'
  <2> HIDE DEF Sector, Content, Directory, Write, OpenFile
  <2> QED BY <1>1, <1>4, <1>5 DEF TypeInv
<1>7. Elements(todo)' = {w}
  BY <1>1, <1>5
<1>8. CallInv'
  <2>1. None # Unset
    BY Constants
  <2> QED BY <2>1, <1>1, <1>2, <1>5, <1>7 DEF CallInv
<1>9. FinalInv' /\ CrashInv'
  <2>1. Resting(Data, Doubly, Blocks)'
    BY <1>1, <1>3 DEF Resting
  <2>2. dir' \in Directory /\ freeMap' \subseteq Sector
    BY <1>1, <1>4 DEF TypeInv
  <2>3. DataWrites({w}, call'.name, Data)
    BY <1>5
  <2> QED BY <1>7, <2>1, <2>2, <2>3, DataWritesKeep
<1> QED BY <1>6, <1>8, <1>9 DEF IInv

-----------------------------------------------------------------------------
(* What a header leads to                                                                   *)

BlocksOf(Blocks, doubly) == IF doubly = None THEN {} ELSE Blocks[doubly]

Led(f, Data, Doubly, Blocks) ==
  \A d \in Doubly[f] : /\ disk[d] \in Tables(Blocks[d])
                       /\ \A b \in Blocks[d] : disk[b] \in Tables(Data[f])

LEMMA TableLeads ==
  ASSUME TypeInv, NEW s \in Sector, NEW S, disk[s] \in Tables(S)
  PROVE  \A j \in Slot : PointersAt(s)[j] \in S \cup {None}
<1>1. disk[s].kind = "pointers" => \A j \in Slot : disk[s].slots[j] \in S \cup {None}
  BY DEF Tables
<1>2. \A j \in Slot : NoPointers[j] = None
  BY DEF NoPointers
<1> QED BY <1>1, <1>2 DEF PointersAt

LEMMA HeaderLeads ==
  ASSUME TypeInv, NEW f \in Name, NEW Data, NEW Doubly, NEW Blocks, NEW header,
         Ownership(Data, Doubly, Blocks), Led(f, Data, Doubly, Blocks),
         HeaderIn(header, Data[f], Doubly[f])
  PROVE  LeadsTo(header.doubly, BlocksOf(Blocks, header.doubly), Data[f])
<1>1. CASE header.doubly = None
  BY <1>1, NonePointers DEF LeadsTo, BlocksOf
<1>2. CASE header.doubly # None
  <2> DEFINE d == header.doubly
  <2>1. d \in Doubly[f] /\ d \in Sector /\ Blocks[d] \subseteq Sector
    BY <1>2 DEF HeaderIn, Ownership
  <2>2. disk[d] \in Tables(Blocks[d]) /\ \A b \in Blocks[d] : disk[b] \in Tables(Data[f])
    BY <2>1 DEF Led
  <2> HIDE DEF d
  <2>3. \A j \in Slot : PointersAt(d)[j] \in Blocks[d] \cup {None}
    BY <2>1, <2>2, TableLeads
  <2>4. \A b \in Blocks[d] : \A k \in Slot : PointersAt(b)[k] \in Data[f] \cup {None}
    BY <2>1, <2>2, TableLeads
  <2>5. BlocksOf(Blocks, d) = Blocks[d]
    BY <1>2 DEF BlocksOf, d
  <2>6. LeadsTo(d, BlocksOf(Blocks, d), Data[f])
    BY <2>3, <2>4, <2>5 DEF LeadsTo
  <2> QED BY <2>6 DEF d
<1> QED BY <1>1, <1>2

LEMMA RestingLed ==
  ASSUME NEW f \in Name, NEW Data, NEW Doubly, NEW Blocks, Resting(Data, Doubly, Blocks)
  PROVE  Led(f, Data, Doubly, Blocks)
BY DEF Resting, Good, ChainsOK, Becomes, Led

LEMMA SectorsOwned ==
  ASSUME TypeInv, NEW f \in Name, NEW Data, NEW Doubly, NEW Blocks, NEW header,
         Ownership(Data, Doubly, Blocks), Led(f, Data, Doubly, Blocks),
         HeaderIn(header, Data[f], Doubly[f])
  PROVE  SectorsOf(header) \subseteq Owned(Data, Doubly, Blocks, f)
<1> DEFINE d == header.doubly
           Bs == BlocksOf(Blocks, d)
<1>1. LeadsTo(d, Bs, Data[f])
  BY HeaderLeads
<1>2. DirectOf(header) \subseteq Data[f]
  BY DEF DirectOf, HeaderIn
<1>3. CASE d = None
  BY <1>2, <1>3 DEF SectorsOf, PointersOf, Owned
<1>4. CASE d # None
  <2>1. d \in Doubly[f] /\ Bs = Blocks[d]
    BY <1>4 DEF HeaderIn, BlocksOf
  <2> HIDE DEF d, Bs
  <2>2. Bs \subseteq Owned(Data, Doubly, Blocks, f) /\ d \in Owned(Data, Doubly, Blocks, f)
        /\ Data[f] \subseteq Owned(Data, Doubly, Blocks, f)
    BY <2>1 DEF Owned
  <2>3. {PointersAt(d)[j] : j \in IndirectBlocks(d)} \subseteq Bs
    BY <1>1 DEF IndirectBlocks, LeadsTo
  <2>4. {IndirectOf(d, i) : i \in FilledPointers(d)} \subseteq Data[f]
    <3> SUFFICES ASSUME NEW i \in FilledPointers(d) PROVE IndirectOf(d, i) \in Data[f]
      OBVIOUS
    <3>1. i \in 0 .. PerIndirect * PerIndirect - 1 /\ IndirectOf(d, i) # None
      BY DEF FilledPointers
    <3>2. PerIndirect * PerIndirect \in Nat
      BY Constants
    <3>3. i \in Nat /\ i < PerIndirect * PerIndirect
      BY <3>1, <3>2
    <3>4. IndirectOf(d, i) \in Data[f] \cup {None}
      BY <1>1, <3>3, IndirectLeads
    <3> QED BY <3>1, <3>4
  <2>5. SectorsOf(header) \subseteq Owned(Data, Doubly, Blocks, f)
    BY <1>2, <1>4, <2>2, <2>3, <2>4 DEF SectorsOf, PointersOf, d
  <2> QED BY <2>5
<1> QED BY <1>3, <1>4

-----------------------------------------------------------------------------
(* Remove                                                                                   *)

(* The owners without file f. *)
LEMMA GoodRemoved ==
  ASSUME NEW f \in Name, NEW Data, NEW Doubly, NEW Blocks, NEW o, NEW r, NEW m, NEW R, NEW i,
         TypeInv, Resting(Data, Doubly, Blocks),
         i \in Entry, dir[i] # NoEntry, dir[i].name = f,
         r = [dir EXCEPT ![i] = NoEntry],
         R \subseteq {dir[i].sector} \cup Owned(Data, Doubly, Blocks, f), m = freeMap \ R,
         o = [h \in Handle |-> IF open[h].name = f THEN Closed ELSE open[h]]
  PROVE  \E D, E : /\ Ownership(D, E, Blocks)
                   /\ Good(disk, {}, r, m, o, D, E, Blocks)
<1> DEFINE D == [Data EXCEPT ![f] = {}]
           E == [Doubly EXCEPT ![f] = {}]
<1> USE DEF Resting, Good
<1>1. Ownership(Data, Doubly, Blocks)
  OBVIOUS
<1>2. /\ D[f] = {} /\ E[f] = {} /\ \A g \in Name : g # f => D[g] = Data[g] /\ E[g] = Doubly[g]
      /\ Ownership(D, E, Blocks)
  BY <1>1 DEF Ownership
<1> HIDE DEF D, E
<1>3. Owned(D, E, Blocks, f) = {}
      /\ \A g \in Name : g # f => Owned(D, E, Blocks, g) = Owned(Data, Doubly, Blocks, g)
  BY <1>2 DEF Owned
<1>4. \A j \in Entry : r[j] # NoEntry =>
        /\ dir[j] # NoEntry /\ r[j] = dir[j] /\ j # i /\ r[j].name # f /\ r[j].sector # dir[i].sector
        /\ r[j].name \in Name
  <2>1. dir \in [Entry -> {NoEntry} \cup [name : Name, sector : Sector]]
    BY DEF TypeInv, Directory
  <2>2. \A j \in Entry : j # i => r[j] = dir[j]
    BY <2>1
  <2>3. r[i] = NoEntry
    BY <2>1
  <2>4. \A j \in Entry : dir[j] # NoEntry => dir[j].name \in Name
    BY <2>1
  <2> QED BY <2>2, <2>3, <2>4 DEF DirOK
<1>5. DirOK(r)
  BY <1>4 DEF DirOK
<1>6. HeadersOK(disk, {}, r, m, D, E, Blocks)
  <2> SUFFICES ASSUME NEW j \in Entry, r[j] # NoEntry
               PROVE  /\ r[j].sector \in m \ (0 .. SystemSectors - 1)
                      /\ \A g \in Name : r[j].sector \notin Owned(D, E, Blocks, g)
                      /\ Becomes(disk, {}, r[j].sector, Headers(D[r[j].name], E[r[j].name]))
    BY DEF HeadersOK
  <2>1. /\ r[j].sector \in freeMap \ (0 .. SystemSectors - 1)
        /\ \A g \in Name : r[j].sector \notin Owned(Data, Doubly, Blocks, g)
        /\ Becomes(disk, {}, r[j].sector, Headers(Data[r[j].name], Doubly[r[j].name]))
    BY <1>4 DEF HeadersOK
  <2>2. r[j].sector \notin R
    BY <1>4, <2>1
  <2>3. \A g \in Name : r[j].sector \notin Owned(D, E, Blocks, g)
    BY <1>3, <2>1
  <2> QED BY <1>2, <1>4, <2>1, <2>2, <2>3
<1>7. OwnersOK(m, D, E, Blocks)
  <2>1. \A g \in Name : g # f => Owned(Data, Doubly, Blocks, g) \cap R = {}
    <3> SUFFICES ASSUME NEW g \in Name, g # f PROVE Owned(Data, Doubly, Blocks, g) \cap R = {}
      OBVIOUS
    <3>1. Owned(Data, Doubly, Blocks, g) \cap Owned(Data, Doubly, Blocks, f) = {}
      BY DEF OwnersOK
    <3>2. dir[i].sector \notin Owned(Data, Doubly, Blocks, g)
      BY DEF HeadersOK
    <3> QED BY <3>1, <3>2
  <2>2. \A g \in Name : g # f => Owned(D, E, Blocks, g) \subseteq m \ (0 .. SystemSectors - 1)
    BY <1>3, <2>1 DEF OwnersOK
  <2>3. ASSUME NEW g \in Name, NEW h \in Name, g # h
        PROVE  Owned(D, E, Blocks, g) \cap Owned(D, E, Blocks, h) = {}
    BY <1>3, <2>3 DEF OwnersOK
  <2>4. 0 .. SystemSectors - 1 \subseteq m
    BY DEF OwnersOK, HeadersOK
  <2> QED BY <1>3, <2>2, <2>3, <2>4 DEF OwnersOK
<1>8. ChainsOK(disk, {}, D, E, Blocks)
  <2> SUFFICES ASSUME NEW g \in Name, NEW d \in E[g]
               PROVE  /\ Becomes(disk, {}, d, Tables(Blocks[d]))
                      /\ \A b \in Blocks[d] : Becomes(disk, {}, b, Tables(D[g]))
                      /\ \A e \in E[g] : e \notin Blocks[d] /\ (e # d => Blocks[d] \cap Blocks[e] = {})
    BY DEF ChainsOK
  <2>1. g # f /\ E[g] = Doubly[g] /\ D[g] = Data[g]
    BY <1>2
  <2> QED BY <2>1 DEF ChainsOK
<1>9. OpenOK(o, D, E)
  <2> SUFFICES ASSUME NEW h \in Handle, o[h] # Closed
               PROVE  HeaderIn(o[h].header, D[o[h].name], E[o[h].name])
    BY DEF OpenOK
  <2>1. o[h] = open[h] /\ open[h].name # f
    OBVIOUS
  <2>2. HeaderIn(open[h].header, Data[open[h].name], Doubly[open[h].name])
    BY <2>1 DEF OpenOK
  <2>3. open[h].name \in Name
    BY <2>1 DEF TypeInv, OpenFile
  <2> QED BY <1>2, <2>1, <2>2, <2>3
<1>10. Good(disk, {}, r, m, o, D, E, Blocks)
  BY <1>5, <1>6, <1>7, <1>8, <1>9
<1> QED BY <1>2, <1>10

(* Writes of the bitmap and of the directory. *)
LEMMA LinkWrites ==
  ASSUME NEW m, NEW r, m \subseteq Sector, r \in Directory
  PROVE  LET b == ToMap(m)  d == ToDir(r)
         IN /\ b \in Write /\ b.to = "map" /\ b.at = 0 /\ b.put = m /\ b.links
            /\ d \in Write /\ d.to = "dir" /\ d.at = 1 /\ d.put = r /\ d.links
<1> HIDE DEF Content, Directory, Sector
<1> QED BY DEF ToMap, ToDir, Write

LEMMA GoodLinks ==
  ASSUME NEW k, NEW q, NEW l, NEW r, NEW m, NEW o, NEW Data, NEW Doubly, NEW Blocks,
         Good(k, q, r, m, o, Data, Doubly, Blocks), \A w \in l : w.to # "sector"
  PROVE  Good(k, q \cup l, r, m, o, Data, Doubly, Blocks)
<1>1. ASSUME NEW s, NEW C, Becomes(k, q, s, C) PROVE Becomes(k, q \cup l, s, C)
  BY <1>1 DEF Becomes, Targets
<1>2. HeadersOK(k, q \cup l, r, m, Data, Doubly, Blocks)
  BY <1>1 DEF Good, HeadersOK
<1>3. ChainsOK(k, q \cup l, Data, Doubly, Blocks)
  BY <1>1 DEF Good, ChainsOK
<1> QED BY <1>2, <1>3 DEF Good

LEMMA RemoveKeeps ==
  ASSUME IInv, NEW f \in Name, Remove(f)
  PROVE  IInv'
<1> DEFINE i == FindIndex(f)
           r == DirectoryRemove(f)
           R == RemoveSectors(f)
           m == freeMap \ R
           w == ToSector(None, Blank, FALSE)
           o == [h \in Handle |-> IF open[h].name = f THEN Closed ELSE open[h]]
<1>1. /\ Idle /\ Listed(f) /\ call'.op = "remove" /\ call'.name = f
      /\ disk' = disk /\ freeMap' = freeMap
      /\ dir' = dir /\ open' = o /\ torn' = torn /\ damaged' = damaged
      /\ todo' = <<w>> \/ todo' = <<ToMap(m), ToDir(r)>>
  BY DEF Remove
<1>2. /\ todo = <<>> /\ ~damaged /\ ~torn
  BY <1>1, IdleRests
<1>3. PICK Data, Doubly, Blocks : Resting(Data, Doubly, Blocks)
  BY <1>1, IdleRests
<1>4. TypeInv /\ dir \in Directory
  BY DEF IInv, TypeInv
<1>5. /\ i \in Entry /\ dir[i] # NoEntry /\ dir[i].name = f /\ dir[i].sector = Find(f)
  BY <1>1, <1>4, FindFacts
<1>6. /\ r = [dir EXCEPT ![i] = NoEntry] /\ r \in Directory
  BY <1>4 DEF DirectoryRemove, Directory
<1>7. R \subseteq {dir[i].sector} \cup Owned(Data, Doubly, Blocks, f)
  <2> DEFINE header == HeaderOf(f)
  <2>1. HeaderIn(header, Data[f], Doubly[f])
    BY <1>1, <1>3, <1>4, HeaderFacts
  <2>2. Ownership(Data, Doubly, Blocks) /\ Led(f, Data, Doubly, Blocks)
    BY <1>3, RestingLed DEF Resting
  <2> HIDE DEF header
  <2>3. SectorsOf(header) \subseteq Owned(Data, Doubly, Blocks, f)
    BY <1>4, <2>1, <2>2, SectorsOwned
  <2> QED BY <1>5, <2>3 DEF header, RemoveSectors
<1> HIDE DEF i, r, R
<1>8. m \subseteq Sector /\ m = freeMap \ R
  BY <1>4 DEF TypeInv
<1>9. o = [h \in Handle |-> IF open[h].name = f THEN Closed ELSE open[h]]
  OBVIOUS
<1>10. \A h \in Handle : o[h] = Closed \/ (o[h] = open[h] /\ open[h].name # f)
  OBVIOUS
<1> HIDE DEF m, o, w
<1>11. o \in [Handle -> {Closed} \cup OpenFile]
  <2>1. open \in [Handle -> {Closed} \cup OpenFile]
    BY <1>4 DEF TypeInv
  <2> HIDE DEF OpenFile
  <2> QED BY <1>9, <2>1
<1>12. CASE todo' = <<w>>
  <2>1. /\ <<w>> \in Seq(Write) /\ <<w>> # <<>> /\ Elements(<<w>>) = {w}
        /\ w.at = None /\ ~w.links
        /\ \A c, D : DataWrites({w}, c, D)
    BY StopWrite DEF w
  <2>2. TypeInv'
    <3> HIDE DEF Sector, Content, Directory, Write, OpenFile
    <3> QED BY <1>1, <1>4, <1>11, <1>12, <2>1 DEF TypeInv
  <2>3. Elements(todo)' = {w} /\ None # Unset
    BY <1>12, <2>1, Constants
  <2>4. CallInv'
    BY <1>1, <1>2, <1>12, <2>1, <2>3 DEF CallInv
  <2>5. Resting(Data, Doubly, Blocks)'
    <3>1. OpenOK(open, Data, Doubly)
      BY <1>3 DEF Resting, Good
    <3>2. OpenOK(o, Data, Doubly)
      BY <3>1, <1>10 DEF OpenOK
    <3> QED BY <1>1, <1>3, <3>2 DEF Resting, Good
  <2>6. dir' \in Directory /\ freeMap' \subseteq Sector
    BY <2>2 DEF TypeInv
  <2>7. DataWrites({w}, call'.name, Data)
    BY <2>1
  <2>8. FinalInv' /\ CrashInv'
    BY <2>3, <2>5, <2>6, <2>7, DataWritesKeep
  <2> QED BY <2>2, <2>4, <2>8 DEF IInv
<1>13. CASE todo' = <<ToMap(m), ToDir(r)>>
  <2> DEFINE b == ToMap(m)
             d == ToDir(r)
             q == {b, d}
  <2>1. /\ b \in Write /\ b.to = "map" /\ b.at = 0 /\ b.put = m /\ b.links
        /\ d \in Write /\ d.to = "dir" /\ d.at = 1 /\ d.put = r /\ d.links
    BY <1>6, <1>8, LinkWrites
  <2> HIDE DEF b, d
  <2>2. todo' \in Seq(Write) /\ Elements(todo)' = q /\ todo' # <<>>
    <3>1. todo' = <<b, d>>
      BY <1>13 DEF b, d
    <3> QED BY <3>1, <2>1, ElementsFacts
  <2>3. TypeInv'
    <3> HIDE DEF Sector, Content, Directory, Write, OpenFile
    <3> QED BY <1>1, <1>4, <1>11, <2>2 DEF TypeInv
  <2>4. 0 # Unset /\ 1 # Unset
    BY DEF Unset
  <2>5. CallInv'
    BY <1>1, <1>2, <2>1, <2>2, <2>4 DEF CallInv
  <2>6. PICK D, E : Ownership(D, E, Blocks) /\ Good(disk, {}, r, m, o, D, E, Blocks)
    BY <1>3, <1>4, <1>5, <1>6, <1>7, <1>8, <1>9, GoodRemoved
  <2>7. Good(disk, q, r, m, o, D, E, Blocks)
    <3>1. \A v \in q : v.to # "sector"
      BY <2>1
    <3>2. Good(disk, {} \cup q, r, m, o, D, E, Blocks)
      BY <2>6, <3>1, GoodLinks
    <3>3. {} \cup q = q
      OBVIOUS
    <3> QED BY <3>2, <3>3
  <2>8. BecomesDir(dir, q, r) /\ BecomesMap(freeMap, q, m)
    BY <2>1 DEF BecomesDir, BecomesMap
  <2>9. ForeignOK(f, dir, q, r, D, E, Blocks)
    <3>1. \A j \in Entry : r[j] # dir[j] => r[j] = NoEntry /\ dir[j].name = f
      BY <1>4, <1>5, <1>6 DEF Directory
    <3>2. \A j \in Entry : r[j] # dir[j] => {r[j].name, dir[j].name} \subseteq {f, NoName}
      BY <3>1 DEF NoEntry
    <3> QED BY <3>2, <2>1 DEF ForeignOK
  <2>10. \E x, y, F, G, H : FinalOK(Elements(todo), x, y, F, G, H)'
    BY <1>1, <1>6, <1>8, <2>2, <2>6, <2>7, <2>8, <2>9 DEF FinalOK
  <2>11. FinalInv'
    BY <2>10 DEF FinalInv
  <2>12. CrashInv'
    <3>1. Good(disk, {}, dir, freeMap, AllClosed, Data, Doubly, Blocks)
      BY <1>3 DEF Resting, Good, OpenOK, AllClosed
    <3>2. CrashOK(Elements(todo), Data, Doubly, Blocks)'
      BY <1>1, <1>3, <2>1, <2>2, <3>1 DEF CrashOK, AllClosed, Resting
    <3> QED BY <3>2 DEF CrashInv
  <2> QED BY <2>3, <2>5, <2>11, <2>12 DEF IInv
<1> QED BY <1>1, <1>12, <1>13 DEF w, m, r, o

-----------------------------------------------------------------------------
(* A file grows                                                                             *)

LEMMA Wider ==
  ASSUME NEW A, NEW C, NEW D, NEW E, A \subseteq C, D \subseteq E
  PROVE  /\ \A h : HeaderIn(h, A, D) => HeaderIn(h, C, E)
         /\ Headers(A, D) \subseteq Headers(C, E)
         /\ Tables(A) \subseteq Tables(C)
<1>1. \A h : HeaderIn(h, A, D) => HeaderIn(h, C, E)
  BY DEF HeaderIn
<1> HIDE DEF Content
<1>2. Headers(A, D) \subseteq Headers(C, E)
  BY <1>1 DEF Headers
<1>3. Tables(A) \subseteq Tables(C)
  BY DEF Tables
<1> QED BY <1>1, <1>2, <1>3

(* File f, whose header leads to the blocks Bs and sectors As by way of `doubly`, grows.    *)
Grows(k, d, m, o, f, doubly, Bs, As, links, header, writes, map, Ns, Data, Doubly, Blocks) ==
  /\ d \in Directory /\ m \subseteq Sector /\ f \in Name /\ links \in BOOLEAN
  /\ Ownership(Data, Doubly, Blocks) /\ Good(k, {}, d, m, o, Data, Doubly, Blocks)
  /\ doubly \in Doubly[f] \cup {None} /\ Bs = BlocksOf(Blocks, doubly) /\ As \subseteq Data[f]
  /\ Growth(m, doubly, Bs, As, links, header, writes, map, Ns)

(* What it writes belongs to it, or to nobody so far, and is no table of another header.    *)
GrowShape(m, f, doubly, Bs, As, links, header, writes, map, Ns, Data, Doubly, Blocks) ==
  /\ \/ /\ header.doubly = doubly
        /\ doubly # None => doubly \in Doubly[f] /\ Bs = Blocks[doubly] /\ doubly \in Sector
     \/ /\ doubly = None /\ header.doubly \in (map \ m) \ Ns
        /\ \E w \in Elements(writes) : Targets(w, header.doubly)
  /\ doubly = None => Bs = {}
  /\ Bs \subseteq Owned(Data, Doubly, Blocks, f)
  /\ \A x \in Doubly[f] : x \notin Bs
  /\ \A g \in Name : \A x \in Doubly[g] : x # doubly => Blocks[x] \cap Bs = {}
  /\ \A w \in Elements(writes) :
       /\ w.to = "sector" /\ w.links = links /\ w.put.kind = "pointers"
       /\ \/ w.at \in Bs \cup Ns \cup {None} /\ w.put \in Tables(As \cup (map \ m))
          \/ w.at = header.doubly /\ w.put \in Tables(Bs \cup Ns)
       /\ w.at \in Owned(Data, Doubly, Blocks, f) \cup (map \ m) \cup {None}
  /\ m \subseteq map /\ map \subseteq Sector /\ Ns \subseteq map \ m
  /\ \A s \in Ns : \E w \in Elements(writes) : Targets(w, s)

LEMMA GrowWrites ==
  ASSUME NEW k, NEW d, NEW m, NEW o, NEW f, NEW doubly, NEW Bs, NEW As, NEW links, NEW header,
         NEW writes, NEW map, NEW Ns, NEW Data, NEW Doubly, NEW Blocks,
         Grows(k, d, m, o, f, doubly, Bs, As, links, header, writes, map, Ns, Data, Doubly, Blocks)
  PROVE  GrowShape(m, f, doubly, Bs, As, links, header, writes, map, Ns, Data, Doubly, Blocks)
<1> USE DEF Grows
<1>1. NewTables(m, doubly, header.doubly, Bs, As, links, writes, map, Ns)
  BY DEF Growth
<1>2. /\ m \subseteq map /\ map \subseteq Sector /\ Ns \subseteq map \ m
      /\ \A s \in Ns : \E w \in Elements(writes) : Targets(w, s)
      /\ header.doubly # doubly =>
           /\ doubly = None /\ header.doubly \in (map \ m) \ Ns
           /\ \E w \in Elements(writes) : Targets(w, header.doubly)
      /\ \A w \in Elements(writes) : TableWrite(w, links, header.doubly, Bs \cup Ns, As \cup (map \ m))
  BY <1>1 DEF NewTables
<1>3. doubly # None => doubly \in Doubly[f] /\ Bs = Blocks[doubly] /\ doubly \in Sector
  <2>1. Doubly[f] \subseteq Sector
    BY DEF Ownership
  <2> QED BY <2>1 DEF BlocksOf
<1>4. doubly = None => Bs = {}
  BY DEF BlocksOf
<1>5. Bs \subseteq Owned(Data, Doubly, Blocks, f)
  BY <1>3, <1>4 DEF Owned
<1>6. \A x \in Doubly[f] : x \notin Bs
  <2>1. \A y \in Doubly[f] : \A x \in Doubly[f] : x \notin Blocks[y]
    BY DEF Good, ChainsOK
  <2> QED BY <2>1, <1>3, <1>4
<1>7. ASSUME NEW g \in Name, NEW x \in Doubly[g], x # doubly PROVE Blocks[x] \cap Bs = {}
  <2>1. CASE g = f
    <3>1. \A y \in Doubly[f] : x # y => Blocks[x] \cap Blocks[y] = {}
      BY <2>1 DEF Good, ChainsOK
    <3> QED BY <3>1, <1>3, <1>4, <1>7
  <2>2. CASE g # f
    <3>1. Blocks[x] \subseteq Owned(Data, Doubly, Blocks, g)
      BY DEF Owned
    <3>2. Owned(Data, Doubly, Blocks, g) \cap Owned(Data, Doubly, Blocks, f) = {}
      BY <2>2 DEF Good, OwnersOK
    <3> QED BY <3>1, <3>2, <1>5
  <2> QED BY <2>1, <2>2
<1>8. header.doubly \in Owned(Data, Doubly, Blocks, f) \cup (map \ m) \cup {None}
  BY <1>2, <1>3 DEF Owned
<1>9. ASSUME NEW w \in Elements(writes)
      PROVE  /\ w.to = "sector" /\ w.links = links /\ w.put.kind = "pointers"
             /\ \/ w.at \in Bs \cup Ns \cup {None} /\ w.put \in Tables(As \cup (map \ m))
                \/ w.at = header.doubly /\ w.put \in Tables(Bs \cup Ns)
             /\ w.at \in Owned(Data, Doubly, Blocks, f) \cup (map \ m) \cup {None}
  <2>1. TableWrite(w, links, header.doubly, Bs \cup Ns, As \cup (map \ m))
    BY <1>2
  <2>2. /\ w.to = "sector" /\ w.links = links /\ w.put.kind = "pointers"
        /\ \/ w.at \in Bs \cup Ns \cup {None} /\ w.put \in Tables(As \cup (map \ m))
           \/ w.at = header.doubly /\ w.put \in Tables(Bs \cup Ns)
    BY <2>1 DEF TableWrite
  <2> QED BY <2>2, <1>2, <1>5, <1>8
<1>10. \/ /\ header.doubly = doubly
          /\ doubly # None => doubly \in Doubly[f] /\ Bs = Blocks[doubly] /\ doubly \in Sector
       \/ /\ doubly = None /\ header.doubly \in (map \ m) \ Ns
          /\ \E w \in Elements(writes) : Targets(w, header.doubly)
  BY <1>2, <1>3
<1> HIDE DEF Grows
<1> QED BY <1>2, <1>4, <1>5, <1>6, <1>7, <1>9, <1>10 DEF GrowShape

(* The state after its writes is good again, and nothing of other files is touched.         *)
GrowsTo(k, d, o, f, header, writes, m, map, Data, Doubly, Blocks, D, E, B) ==
  /\ Ownership(D, E, B)
  /\ \A g \in Name : /\ Data[g] \subseteq D[g] /\ Doubly[g] \subseteq E[g]
                     /\ Owned(D, E, B, g) \subseteq Owned(Data, Doubly, Blocks, g) \cup (map \ m)
  /\ Good(k, Elements(writes), d, map, o, D, E, B)
  /\ HeaderIn(header, D[f], E[f])
  /\ \A w \in Elements(writes) :
       /\ \A g \in Name \ {f} : w.at \notin Owned(D, E, B, g)
       /\ \A i \in Entry : d[i] # NoEntry => w.at # d[i].sector

LEMMA GrowKeeps ==
  ASSUME NEW k, NEW d, NEW m, NEW o, NEW f, NEW doubly, NEW Bs, NEW As, NEW links, NEW header,
         NEW writes, NEW map, NEW Ns, NEW Data, NEW Doubly, NEW Blocks,
         o \in [Handle -> {Closed} \cup OpenFile],
         Grows(k, d, m, o, f, doubly, Bs, As, links, header, writes, map, Ns, Data, Doubly, Blocks)
  PROVE  \E D, E, B : GrowsTo(k, d, o, f, header, writes, m, map, Data, Doubly, Blocks, D, E, B)
<1> DEFINE top == header.doubly
           New == map \ m
           q == Elements(writes)
           D == [Data EXCEPT ![f] = Data[f] \cup New]
           E == [Doubly EXCEPT ![f] = Doubly[f] \cup ({top} \ {None})]
           B == [x \in Sector |-> IF x = top THEN Bs \cup Ns ELSE Blocks[x]]
           Old(g) == Owned(Data, Doubly, Blocks, g)
<1>1. /\ d \in Directory /\ m \subseteq Sector /\ f \in Name /\ links \in BOOLEAN
      /\ Ownership(Data, Doubly, Blocks) /\ As \subseteq Data[f]
      /\ DirOK(d) /\ HeadersOK(k, {}, d, m, Data, Doubly, Blocks) /\ OwnersOK(m, Data, Doubly, Blocks)
      /\ ChainsOK(k, {}, Data, Doubly, Blocks) /\ OpenOK(o, Data, Doubly)
  BY DEF Grows, Good
<1>2. /\ \/ /\ top = doubly
            /\ doubly # None => doubly \in Doubly[f] /\ Bs = Blocks[doubly] /\ doubly \in Sector
         \/ /\ doubly = None /\ top \in New \ Ns
            /\ \E w \in q : Targets(w, top)
      /\ doubly = None => Bs = {}
      /\ Bs \subseteq Old(f)
      /\ \A x \in Doubly[f] : x \notin Bs
      /\ \A g \in Name : \A x \in Doubly[g] : x # doubly => Blocks[x] \cap Bs = {}
      /\ \A w \in q :
           /\ w.to = "sector" /\ w.links = links /\ w.put.kind = "pointers"
           /\ \/ w.at \in Bs \cup Ns \cup {None} /\ w.put \in Tables(As \cup New)
              \/ w.at = top /\ w.put \in Tables(Bs \cup Ns)
           /\ w.at \in Old(f) \cup New \cup {None}
      /\ m \subseteq map /\ map \subseteq Sector /\ Ns \subseteq New
      /\ \A s \in Ns : \E w \in q : Targets(w, s)
  <2>1. GrowShape(m, f, doubly, Bs, As, links, header, writes, map, Ns, Data, Doubly, Blocks)
    BY GrowWrites
  <2> QED BY <2>1 DEF GrowShape
<1>3. /\ header \in Header
      /\ \A i \in 0 .. NumDirect - 1 : header.direct[i] \in As \cup New \cup {Unset}
  BY DEF Grows, Growth
<1>4. /\ None \notin Sector /\ New \subseteq Sector /\ New \cap m = {} /\ map = m \cup New
  BY <1>2, Constants
<1> HIDE DEF top, New, q
<1>5. /\ \A g \in Name : /\ Data[g] \subseteq Sector /\ Doubly[g] \subseteq Sector
                         /\ \A x \in Doubly[g] : Blocks[x] \subseteq Old(g)
                         /\ Old(g) \subseteq m /\ Doubly[g] \subseteq Old(g) /\ Data[g] \subseteq Old(g)
      /\ \A x \in Sector : Blocks[x] \subseteq Sector
  BY <1>1 DEF Ownership, Owned, OwnersOK
<1>6. /\ D[f] = Data[f] \cup New /\ E[f] = Doubly[f] \cup ({top} \ {None})
      /\ \A g \in Name : g # f => D[g] = Data[g] /\ E[g] = Doubly[g]
      /\ \A x \in Sector : B[x] = IF x = top THEN Bs \cup Ns ELSE Blocks[x]
  BY <1>1 DEF Ownership
<1>7. top \in Old(f) \cup New \cup {None}
  BY <1>1, <1>2, <1>5
<1>8. Old(f) \subseteq Sector /\ Bs \cup Ns \subseteq Sector
  BY <1>1, <1>2, <1>4, <1>5
<1>9. Ownership(D, E, B)
  <2>1. D \in [Name -> SUBSET Sector] /\ E \in [Name -> SUBSET Sector]
    BY <1>1, <1>4, <1>5, <1>7, <1>8 DEF Ownership
  <2>2. B \in [Sector -> SUBSET Sector]
    BY <1>5, <1>8
  <2> QED BY <2>1, <2>2 DEF Ownership
<1> HIDE DEF D, E, B, Old
<1>10. \A g \in Name : Data[g] \subseteq D[g] /\ Doubly[g] \subseteq E[g]
  BY <1>6
<1>11. \A g \in Name : g # f =>
         /\ \A x \in Doubly[g] : x # top /\ x \in Sector /\ B[x] = Blocks[x]
         /\ Old(g) \cap (Old(f) \cup New \cup {None}) = {}
  <2> SUFFICES ASSUME NEW g \in Name, g # f
               PROVE  /\ \A x \in Doubly[g] : x # top /\ x \in Sector /\ B[x] = Blocks[x]
                      /\ Old(g) \cap (Old(f) \cup New \cup {None}) = {}
    OBVIOUS
  <2>1. Old(g) \cap Old(f) = {}
    BY <1>1 DEF OwnersOK, Old
  <2>2. Old(g) \cap (Old(f) \cup New \cup {None}) = {}
    BY <2>1, <1>1, <1>4, <1>5
  <2>3. \A x \in Doubly[g] : x # top /\ x \in Sector
    BY <2>2, <1>5, <1>7
  <2> QED BY <2>2, <2>3, <1>6
<1>12. \A g \in Name : g # f => Owned(D, E, B, g) = Old(g)
  BY <1>6, <1>11 DEF Owned, Old
<1>13. Owned(D, E, B, f) \subseteq Old(f) \cup New
  <2>1. \A x \in E[f] : B[x] \subseteq Old(f) \cup New
    <3> SUFFICES ASSUME NEW x \in E[f] PROVE B[x] \subseteq Old(f) \cup New
      OBVIOUS
    <3>1. x \in Sector
      BY <1>1, <1>9 DEF Ownership
    <3>2. CASE x = top
      BY <3>1, <3>2, <1>2, <1>6
    <3>3. CASE x # top
      <4>1. x \in Doubly[f] /\ B[x] = Blocks[x]
        BY <3>1, <3>3, <1>6
      <4> QED BY <4>1, <1>1, <1>5
    <3> QED BY <3>2, <3>3
  <2>2. D[f] \subseteq Old(f) \cup New /\ E[f] \subseteq Old(f) \cup New
    BY <1>1, <1>5, <1>6, <1>7
  <2> QED BY <2>1, <2>2 DEF Owned
<1>14. \A g \in Name : Owned(D, E, B, g) \subseteq Old(g) \cup New
  BY <1>12, <1>13
<1>15. OwnersOK(map, D, E, B)
  <2>1. 0 .. SystemSectors - 1 \subseteq m /\ \A g \in Name : Old(g) \subseteq m \ (0 .. SystemSectors - 1)
    BY <1>1 DEF OwnersOK, Old
  <2>2. \A g \in Name : Owned(D, E, B, g) \subseteq map \ (0 .. SystemSectors - 1)
    BY <2>1, <1>4, <1>14
  <2>3. ASSUME NEW g \in Name, NEW h \in Name, g # h
        PROVE  Owned(D, E, B, g) \cap Owned(D, E, B, h) = {}
    <3>1. CASE g # f /\ h # f
      BY <2>3, <3>1, <1>1, <1>12 DEF OwnersOK, Old
    <3>2. CASE g = f
      BY <2>3, <3>2, <1>11, <1>12, <1>13
    <3>3. CASE h = f
      BY <2>3, <3>3, <1>11, <1>12, <1>13
    <3> QED BY <3>1, <3>2, <3>3
  <2>4. 0 .. SystemSectors - 1 \subseteq map
    BY <2>1, <1>4
  <2> QED BY <2>2, <2>3, <2>4 DEF OwnersOK
<1>16. \A i \in Entry : d[i] # NoEntry =>
         /\ d[i].name \in Name /\ d[i].sector \in m \ (0 .. SystemSectors - 1)
         /\ d[i].sector \in Sector
         /\ \A g \in Name : d[i].sector \notin Old(g)
         /\ k[d[i].sector] \in Headers(Data[d[i].name], Doubly[d[i].name])
  <2>1. \A i \in Entry : d[i] # NoEntry => d[i].name \in Name
    BY <1>1 DEF Directory
  <2> QED BY <2>1, <1>1 DEF HeadersOK, Becomes, Old
<1>17. \A w \in q : \A i \in Entry : d[i] # NoEntry => w.at # d[i].sector
  BY <1>1, <1>2, <1>4, <1>16
<1>18. HeadersOK(k, q, d, map, D, E, B)
  <2> SUFFICES ASSUME NEW i \in Entry, d[i] # NoEntry
               PROVE  /\ d[i].sector \in map \ (0 .. SystemSectors - 1)
                      /\ \A g \in Name : d[i].sector \notin Owned(D, E, B, g)
                      /\ Becomes(k, q, d[i].sector, Headers(D[d[i].name], E[d[i].name]))
    BY DEF HeadersOK
  <2> DEFINE n == d[i].name
  <2>1. \A g \in Name : d[i].sector \notin Owned(D, E, B, g)
    BY <1>4, <1>14, <1>16
  <2>2. n \in Name /\ k[d[i].sector] \in Headers(Data[n], Doubly[n])
    BY <1>16
  <2> HIDE DEF n
  <2>3. Headers(Data[n], Doubly[n]) \subseteq Headers(D[n], E[n])
    BY <2>2, <1>10, Wider
  <2>4. Becomes(k, q, d[i].sector, Headers(D[n], E[n]))
    BY <2>2, <2>3, <1>17 DEF Becomes, Targets
  <2> QED BY <2>1, <2>4, <1>4, <1>16 DEF n
<1>19. \A w \in q, g \in Name \ {f} : w.at \notin Owned(D, E, B, g)
  BY <1>2, <1>11, <1>12
<1>20. HeaderIn(header, D[f], E[f])
  <2>1. header.doubly \in Sector \cup {None}
    BY <1>7, <1>4, <1>8 DEF top
  <2>2. header.doubly \in E[f] \cup {None}
    BY <1>6 DEF top
  <2>3. As \cup New \subseteq D[f]
    BY <1>1, <1>6
  <2> QED BY <1>3, <2>2, <2>3 DEF HeaderIn
<1>21. OpenOK(o, D, E)
  <2> SUFFICES ASSUME NEW h \in Handle, o[h] # Closed
               PROVE  HeaderIn(o[h].header, D[o[h].name], E[o[h].name])
    BY DEF OpenOK
  <2> DEFINE n == o[h].name
  <2>1. n \in Name
    BY DEF OpenFile
  <2>2. HeaderIn(o[h].header, Data[n], Doubly[n])
    BY <1>1 DEF OpenOK
  <2> HIDE DEF n
  <2>3. HeaderIn(o[h].header, D[n], E[n])
    <3>1. Data[n] \subseteq D[n] /\ Doubly[n] \subseteq E[n]
      BY <2>1, <1>10
    <3>2. \A x : HeaderIn(x, Data[n], Doubly[n]) => HeaderIn(x, D[n], E[n])
      BY <3>1, Wider
    <3> QED BY <2>2, <3>2
  <2> QED BY <2>3 DEF n
<1>22. ASSUME NEW g \in Name, g # f, NEW x \in E[g]
       PROVE  /\ Becomes(k, q, x, Tables(B[x]))
              /\ \A b \in B[x] : Becomes(k, q, b, Tables(D[g]))
              /\ \A e \in E[g] : e \notin B[x] /\ (e # x => B[x] \cap B[e] = {})
  <2>1. E[g] = Doubly[g] /\ D[g] = Data[g] /\ \A e \in Doubly[g] : B[e] = Blocks[e]
    BY <1>6, <1>11, <1>22
  <2>2. /\ k[x] \in Tables(Blocks[x]) /\ \A b \in Blocks[x] : k[b] \in Tables(Data[g])
        /\ \A e \in Doubly[g] : e \notin Blocks[x] /\ (e # x => Blocks[x] \cap Blocks[e] = {})
    BY <2>1, <1>1 DEF ChainsOK, Becomes
  <2>3. \A s \in Old(g) : \A w \in q : ~Targets(w, s)
    BY <1>2, <1>11, <1>22 DEF Targets
  <2>4. x \in Old(g) /\ Blocks[x] \subseteq Old(g)
    BY <2>1, <1>5
  <2> QED BY <2>1, <2>2, <2>3, <2>4 DEF Becomes
<1>23. Tables(As \cup New) \subseteq Tables(D[f]) /\ Tables(Data[f]) \subseteq Tables(D[f])
  <2>1. As \cup New \subseteq D[f] /\ Data[f] \subseteq D[f]
    BY <1>1, <1>6
  <2> QED BY <2>1, Wider
<1>24. /\ top \notin Bs \cup Ns
       /\ \A x \in Doubly[f] : x \notin Bs \cup Ns /\ top \notin Blocks[x]
  <2>1. \A x \in Doubly[f] : x \notin Bs \cup Ns
    BY <1>1, <1>2, <1>4, <1>5
  <2>2. \A x \in Doubly[f] : \A y \in Doubly[f] : y \notin Blocks[x]
    BY <1>1 DEF ChainsOK
  <2>3. \A x \in Doubly[f] : Blocks[x] \subseteq m
    BY <1>1, <1>5
  <2>4. top \notin Bs \cup Ns
    BY <2>1, <1>1, <1>2, <1>4, <1>5, <1>8
  <2>5. ASSUME NEW x \in Doubly[f] PROVE top \notin Blocks[x]
    BY <2>2, <2>3, <1>1, <1>2, <1>4
  <2> QED BY <2>1, <2>4, <2>5
<1>25. ASSUME NEW x \in E[f], x = top
       PROVE  /\ Becomes(k, q, x, Tables(B[x]))
              /\ \A b \in B[x] : Becomes(k, q, b, Tables(D[f]))
              /\ \A e \in E[f] : e \notin B[x] /\ (e # x => B[x] \cap B[e] = {})
  <2>1. x \in Sector /\ B[x] = Bs \cup Ns /\ x # None
    BY <1>1, <1>4, <1>6, <1>9, <1>25 DEF Ownership
  <2>2. (\E w \in q : Targets(w, x)) \/ (x \in Doubly[f] /\ Bs = Blocks[x] /\ doubly = x)
    BY <2>1, <1>2, <1>25
  <2>3. ASSUME NEW w \in q, Targets(w, x) PROVE w.put \in Tables(Bs \cup Ns)
    <3>1. w.at = top /\ w.at \notin Bs \cup Ns \cup {None}
      BY <2>1, <2>3, <1>24, <1>25 DEF Targets
    <3>2. \/ w.at \in Bs \cup Ns \cup {None} /\ w.put \in Tables(As \cup New)
          \/ w.at = top /\ w.put \in Tables(Bs \cup Ns)
      BY <1>2
    <3> QED BY <3>1, <3>2
  <2>4. x \in Doubly[f] /\ Bs = Blocks[x] => k[x] \in Tables(Bs \cup Ns)
    <3>1. x \in Doubly[f] => k[x] \in Tables(Blocks[x])
      BY <1>1 DEF ChainsOK, Becomes
    <3>2. Tables(Bs) \subseteq Tables(Bs \cup Ns)
      <4>1. Bs \subseteq Bs \cup Ns
        OBVIOUS
      <4> QED BY <4>1, Wider
    <3> QED BY <3>1, <3>2
  <2>5. Becomes(k, q, x, Tables(B[x]))
    BY <2>1, <2>2, <2>3, <2>4 DEF Becomes
  <2>6. ASSUME NEW b \in Bs \cup Ns PROVE Becomes(k, q, b, Tables(D[f]))
    <3>1. b # top /\ b # None
      BY <1>4, <1>8, <1>24
    <3>2. \A w \in q : Targets(w, b) => w.put \in Tables(D[f])
      BY <3>1, <1>2, <1>23 DEF Targets
    <3>3. b \in Ns => \E w \in q : Targets(w, b)
      BY <1>2
    <3>4. b \in Bs => k[b] \in Tables(D[f])
      <4> SUFFICES ASSUME b \in Bs PROVE k[b] \in Tables(D[f])
        OBVIOUS
      <4>1. doubly \in Doubly[f] /\ Bs = Blocks[doubly]
        BY <1>2
      <4>2. k[b] \in Tables(Data[f])
        BY <4>1, <1>1 DEF ChainsOK, Becomes
      <4> QED BY <4>2, <1>23
    <3> QED BY <3>2, <3>3, <3>4 DEF Becomes
  <2>7. ASSUME NEW e \in E[f] PROVE e \notin Bs \cup Ns
    BY <1>6, <1>24
  <2>8. ASSUME NEW e \in E[f], e # x PROVE (Bs \cup Ns) \cap B[e] = {}
    <3>1. e \in Doubly[f] /\ e # top /\ e \in Sector /\ B[e] = Blocks[e]
      BY <2>8, <1>1, <1>5, <1>6, <1>25
    <3>2. Blocks[e] \cap Ns = {}
      BY <3>1, <1>1, <1>2, <1>4, <1>5
    <3>3. Blocks[e] \cap Bs = {}
      <4>1. doubly = None => Bs = {}
        BY <1>2
      <4>2. doubly # None => e # doubly
        BY <3>1, <1>2
      <4> QED BY <4>1, <4>2, <3>1, <1>1, <1>2
    <3> QED BY <3>1, <3>2, <3>3
  <2> QED BY <2>1, <2>5, <2>6, <2>7, <2>8
<1>26. ASSUME NEW x \in E[f], x # top
       PROVE  /\ Becomes(k, q, x, Tables(B[x]))
              /\ \A b \in B[x] : Becomes(k, q, b, Tables(D[f]))
              /\ \A e \in E[f] : e \notin B[x] /\ (e # x => B[x] \cap B[e] = {})
  <2>1. x \in Doubly[f] /\ x \in Sector /\ B[x] = Blocks[x] /\ x # None
    BY <1>1, <1>4, <1>5, <1>6, <1>26
  <2>2. /\ k[x] \in Tables(Blocks[x]) /\ \A b \in Blocks[x] : k[b] \in Tables(Data[f])
        /\ \A e \in Doubly[f] : e \notin Blocks[x] /\ (e # x => Blocks[x] \cap Blocks[e] = {})
    BY <2>1, <1>1 DEF ChainsOK, Becomes
  <2>3. \A w \in q : ~Targets(w, x)
    BY <2>1, <1>2, <1>24, <1>26 DEF Targets
  <2>4. ASSUME NEW b \in Blocks[x] PROVE Becomes(k, q, b, Tables(D[f]))
    <3>1. b # top
      BY <2>1, <1>24
    <3>2. \A w \in q : Targets(w, b) => w.put \in Tables(D[f])
      BY <3>1, <1>2, <1>23 DEF Targets
    <3> QED BY <3>2, <2>2, <1>23 DEF Becomes
  <2>5. ASSUME NEW e \in E[f] PROVE e \notin B[x] /\ (e # x => B[x] \cap B[e] = {})
    <3>1. CASE e = top
      <4>1. e \notin B[x]
        BY <3>1, <2>1, <1>24
      <4>2. e \in Sector
        BY <1>1, <1>9 DEF Ownership
      <4>3. B[e] = Bs \cup Ns
        BY <4>2, <3>1, <1>6
      <4>4. Blocks[x] \cap Ns = {}
        BY <2>1, <1>1, <1>2, <1>4, <1>5
      <4>5. Blocks[x] \cap Bs = {}
        <5>1. doubly = None => Bs = {}
          BY <1>2
        <5>2. doubly # None => x # doubly
          BY <1>2, <1>26
        <5> QED BY <5>1, <5>2, <2>1, <1>1, <1>2
      <4> QED BY <4>1, <4>3, <4>4, <4>5, <2>1
    <3>2. CASE e # top
      <4>1. e \in Doubly[f] /\ e \in Sector /\ B[e] = Blocks[e]
        BY <3>2, <1>1, <1>5, <1>6
      <4> QED BY <4>1, <2>1, <2>2
    <3> QED BY <3>1, <3>2
  <2> QED BY <2>1, <2>2, <2>3, <2>4, <2>5 DEF Becomes
<1>27. ChainsOK(k, q, D, E, B)
  BY <1>22, <1>25, <1>26 DEF ChainsOK
<1>28. Good(k, q, d, map, o, D, E, B)
  BY <1>1, <1>15, <1>18, <1>21, <1>27 DEF Good
<1>29. GrowsTo(k, d, o, f, header, writes, m, map, Data, Doubly, Blocks, D, E, B)
  BY <1>9, <1>10, <1>14, <1>17, <1>19, <1>20, <1>28 DEF GrowsTo, q, New, Old
<1> QED BY <1>29

(* The tables it writes are none of those that other doubly indirect sectors lead to.       *)
LEMMA GrowHarmless ==
  ASSUME NEW k, NEW d, NEW m, NEW o, NEW f, NEW doubly, NEW Bs, NEW As, NEW links, NEW header,
         NEW writes, NEW map, NEW Ns, NEW Data, NEW Doubly, NEW Blocks,
         Grows(k, d, m, o, f, doubly, Bs, As, links, header, writes, map, Ns, Data, Doubly, Blocks)
  PROVE  \A w \in Elements(writes) :
           /\ \A g \in Name : \A e \in Doubly[g] :
                e # doubly => w.at # e /\ w.at \notin Blocks[e]
           /\ \A i \in Entry : d[i] # NoEntry => w.at # d[i].sector
           /\ w.at \in Owned(Data, Doubly, Blocks, f) \cup (map \ m) \cup {None}
           /\ w.at \in Sector \cup {None}
<1>1. GrowShape(m, f, doubly, Bs, As, links, header, writes, map, Ns, Data, Doubly, Blocks)
  BY GrowWrites
<1>2. /\ d \in Directory /\ m \subseteq Sector /\ f \in Name
      /\ Ownership(Data, Doubly, Blocks) /\ HeadersOK(k, {}, d, m, Data, Doubly, Blocks)
      /\ OwnersOK(m, Data, Doubly, Blocks) /\ ChainsOK(k, {}, Data, Doubly, Blocks)
  BY DEF Grows, Good
<1>3. None \notin Sector
  BY Constants
<1> DEFINE New == map \ m
           Old(g) == Owned(Data, Doubly, Blocks, g)
<1>4. \A g \in Name : /\ Old(g) \subseteq m /\ Doubly[g] \subseteq Old(g)
                      /\ \A e \in Doubly[g] : Blocks[e] \subseteq Old(g)
  BY <1>2 DEF OwnersOK, Owned
<1> HIDE DEF Old, New
<1> SUFFICES ASSUME NEW w \in Elements(writes)
             PROVE  /\ \A g \in Name : \A e \in Doubly[g] :
                         e # doubly => w.at # e /\ w.at \notin Blocks[e]
                    /\ \A i \in Entry : d[i] # NoEntry => w.at # d[i].sector
                    /\ w.at \in Old(f) \cup New \cup {None}
                    /\ w.at \in Sector \cup {None}
  BY DEF Old, New
<1>5. /\ w.at \in Bs \cup Ns \cup {None} \/ w.at = header.doubly
      /\ w.at \in Old(f) \cup New \cup {None}
      /\ Ns \subseteq New /\ New \subseteq Sector /\ New \cap m = {}
  BY <1>1 DEF GrowShape, Old, New
<1>6. w.at \in Sector \cup {None}
  BY <1>2, <1>4, <1>5
<1>7. ASSUME NEW i \in Entry, d[i] # NoEntry PROVE w.at # d[i].sector
  <2>1. d[i].sector \in m /\ d[i].sector \notin Old(f)
    BY <1>2, <1>7 DEF HeadersOK, Old
  <2> QED BY <2>1, <1>2, <1>3, <1>5
<1>8. ASSUME NEW g \in Name, NEW e \in Doubly[g], e # doubly
      PROVE  w.at # e /\ w.at \notin Blocks[e]
  <2>1. e \in m /\ Blocks[e] \subseteq m
    BY <1>4
  <2>2. CASE w.at \in New \cup {None}
    BY <2>1, <2>2, <1>2, <1>3, <1>5
  <2>3. CASE w.at \notin New \cup {None}
    <3>1. w.at \in Bs \/ (w.at = doubly /\ doubly \in Doubly[f])
      BY <2>3, <1>1, <1>5 DEF GrowShape, New
    <3>2. CASE w.at \in Bs
      <4>1. Bs \cap Blocks[e] = {} /\ (g = f => e \notin Bs) /\ Bs \subseteq Old(f)
        BY <1>1, <1>8 DEF GrowShape, Old
      <4>2. g # f => e \notin Old(f)
        BY <1>2, <1>4 DEF OwnersOK, Old
      <4> QED BY <3>2, <4>1, <4>2
    <3>3. CASE w.at = doubly /\ doubly \in Doubly[f]
      <4>1. g = f => doubly \notin Blocks[e]
        BY <3>3, <1>2 DEF ChainsOK
      <4>2. g # f => Blocks[e] \cap Old(f) = {} /\ doubly \in Old(f)
        BY <3>3, <1>2, <1>4 DEF OwnersOK, Old
      <4> QED BY <3>3, <4>1, <4>2, <1>8
    <3> QED BY <3>1, <3>2, <3>3
  <2> QED BY <2>2, <2>3
<1> QED BY <1>5, <1>6, <1>7, <1>8

-----------------------------------------------------------------------------
(* Create                                                                                   *)

(* Entry i is to name file f, with its header in sector s, that the write w makes.          *)
Creates(k, q, d, m, o, f, i, s, w, D, E, B) ==
  /\ d \in Directory /\ Ownership(D, E, B) /\ Good(k, q, d, m, o, D, E, B)
  /\ f \in Name /\ i \in Entry /\ d[i] = NoEntry
  /\ s \in Sector /\ s \in m \ (0 .. SystemSectors - 1)
  /\ \A g \in Name : s \notin Owned(D, E, B, g)
  /\ \A j \in Entry : d[j] # NoEntry => d[j].name # f /\ d[j].sector # s
  /\ \A v \in q : ~Targets(v, s)
  /\ w.to = "sector" /\ w.at = s /\ w.put \in Headers(D[f], E[f])

LEMMA GoodCreated ==
  ASSUME NEW k, NEW q, NEW d, NEW m, NEW o, NEW f, NEW i, NEW s, NEW w, NEW D, NEW E, NEW B,
         Creates(k, q, d, m, o, f, i, s, w, D, E, B)
  PROVE  Good(k, q \cup {w}, [d EXCEPT ![i] = [name |-> f, sector |-> s]], m, o, D, E, B)
<1> DEFINE r == [d EXCEPT ![i] = [name |-> f, sector |-> s]]
           q2 == q \cup {w}
<1> USE DEF Creates, Good
<1>1. \A j \in Entry : j # i => r[j] = d[j]
  BY DEF Directory
<1>2. r[i].name = f /\ r[i].sector = s
  BY DEF Directory
<1> HIDE DEF r
<1>3. \A x, C : x # s /\ Becomes(k, q, x, C) => Becomes(k, q2, x, C)
  BY DEF Becomes, Targets
<1> HIDE DEF q2
<1>4. DirOK(r)
  <2> SUFFICES ASSUME NEW x \in Entry, NEW y \in Entry, x # y, r[x] # NoEntry, r[y] # NoEntry
               PROVE  r[x].name # r[y].name /\ r[x].sector # r[y].sector
    BY DEF DirOK
  <2>1. CASE x # i /\ y # i
    BY <2>1, <1>1 DEF DirOK
  <2>2. CASE x = i
    BY <2>2, <1>1, <1>2
  <2>3. CASE y = i
    BY <2>3, <1>1, <1>2
  <2> QED BY <2>1, <2>2, <2>3
<1>5. HeadersOK(k, q2, r, m, D, E, B)
  <2> SUFFICES ASSUME NEW x \in Entry, r[x] # NoEntry
               PROVE  /\ r[x].sector \in m \ (0 .. SystemSectors - 1)
                      /\ \A g \in Name : r[x].sector \notin Owned(D, E, B, g)
                      /\ Becomes(k, q2, r[x].sector, Headers(D[r[x].name], E[r[x].name]))
    BY DEF HeadersOK
  <2>1. CASE x = i
    <3>1. Becomes(k, q2, s, Headers(D[f], E[f]))
      BY DEF Becomes, Targets, q2
    <3> QED BY <2>1, <3>1, <1>2
  <2>2. CASE x # i
    <3>1. r[x] = d[x] /\ d[x].sector # s
      BY <2>2, <1>1
    <3>2. /\ d[x].sector \in m \ (0 .. SystemSectors - 1)
          /\ \A g \in Name : d[x].sector \notin Owned(D, E, B, g)
          /\ Becomes(k, q, d[x].sector, Headers(D[d[x].name], E[d[x].name]))
      BY <3>1 DEF HeadersOK
    <3> QED BY <3>1, <3>2, <1>3
  <2> QED BY <2>1, <2>2
<1>6. ChainsOK(k, q2, D, E, B)
  <2> SUFFICES ASSUME NEW g \in Name, NEW x \in E[g]
               PROVE  /\ Becomes(k, q2, x, Tables(B[x]))
                      /\ \A b \in B[x] : Becomes(k, q2, b, Tables(D[g]))
                      /\ \A e \in E[g] : e \notin B[x] /\ (e # x => B[x] \cap B[e] = {})
    BY DEF ChainsOK
  <2>1. x # s /\ s \notin B[x]
    BY DEF Owned
  <2>2. /\ Becomes(k, q, x, Tables(B[x]))
        /\ \A b \in B[x] : Becomes(k, q, b, Tables(D[g]))
        /\ \A e \in E[g] : e \notin B[x] /\ (e # x => B[x] \cap B[e] = {})
    BY DEF ChainsOK
  <2> QED BY <2>1, <2>2, <1>3
<1>7. Good(k, q2, r, m, o, D, E, B)
  BY <1>4, <1>5, <1>6
<1> QED BY <1>7 DEF r, q2

LEMMA GoodMore ==
  ASSUME NEW k, NEW q, NEW d, NEW m, NEW n, NEW o, NEW Data, NEW Doubly, NEW Blocks,
         Good(k, q, d, m, o, Data, Doubly, Blocks), m \subseteq n
  PROVE  Good(k, q, d, n, o, Data, Doubly, Blocks)
<1>1. HeadersOK(k, q, d, n, Data, Doubly, Blocks)
  BY DEF Good, HeadersOK
<1>2. OwnersOK(n, Data, Doubly, Blocks)
  <2>1. /\ 0 .. SystemSectors - 1 \subseteq m
        /\ \A f \in Name : Owned(Data, Doubly, Blocks, f) \subseteq m \ (0 .. SystemSectors - 1)
        /\ \A f, g \in Name : f # g =>
             Owned(Data, Doubly, Blocks, f) \cap Owned(Data, Doubly, Blocks, g) = {}
    BY DEF Good, OwnersOK
  <2>2. \A f \in Name : Owned(Data, Doubly, Blocks, f) \subseteq n \ (0 .. SystemSectors - 1)
    BY <2>1
  <2> QED BY <2>1, <2>2 DEF OwnersOK
<1> QED BY <1>1, <1>2 DEF Good

(* The first entry that is free. *)
LEMMA AddFacts ==
  ASSUME TypeInv, NEW f \in Name, NEW s \in Sector, FreeEntries # {}
  PROVE  /\ DirectoryAdd(f, s) \in Directory
         /\ \E i \in Entry : /\ dir[i] = NoEntry
                             /\ DirectoryAdd(f, s) = [dir EXCEPT ![i] = [name |-> f, sector |-> s]]
<1> DEFINE i == CHOOSE i \in FreeEntries : \A j \in FreeEntries : i <= j
<1>1. \E x \in FreeEntries : \A j \in FreeEntries : x <= j
  <2>1. FreeEntries \subseteq Nat
    BY Constants DEF FreeEntries, Entry
  <2> QED BY <2>1, LeastNumber
<1>2. i \in FreeEntries
  BY <1>1
<1>3. DirectoryAdd(f, s) = [dir EXCEPT ![i] = [name |-> f, sector |-> s]]
  BY DEF DirectoryAdd
<1> HIDE DEF i
<1>4. i \in Entry /\ dir[i] = NoEntry
  BY <1>2 DEF FreeEntries
<1>5. [name |-> f, sector |-> s] \in [name : Name, sector : Sector]
  OBVIOUS
<1>6. dir \in Directory
  BY DEF TypeInv
<1>7. DirectoryAdd(f, s) \in Directory
  <2> HIDE DEF Sector
  <2> QED BY <1>3, <1>4, <1>5, <1>6 DEF Directory
<1> QED BY <1>3, <1>4, <1>7

CreateList(s, a, h, d, b) ==
  a \in Seq(Write) /\ h \in Write /\ d \in Write /\ b \in Write /\ s = a \o <<h, d, b>>

LEMMA CreateWritesFacts ==
  ASSUME NEW s, NEW a, NEW h, NEW d, NEW b, CreateList(s, a, h, d, b)
  PROVE  s \in Seq(Write) /\ s # <<>> /\ Elements(s) = (Elements(a) \cup {h}) \cup {d, b}
<1> USE DEF CreateList
<1> HIDE DEF Write
<1> DEFINE t == <<h, d, b>>
<1>1. /\ t \in Seq(Write) /\ Len(t) = 3 /\ t[1] = h /\ t[2] = d /\ t[3] = b
      /\ 1 .. 3 = {1, 2, 3}
  OBVIOUS
<1>2. s = a \o t
  OBVIOUS
<1> HIDE DEF t
<1>3. Elements(t) = {h, d, b}
  BY <1>1 DEF Elements
<1>4. a \o t \in Seq(Write) /\ Elements(a \o t) = Elements(a) \cup Elements(t)
  BY <1>1, ElementsFacts
<1>5. Elements(<<>>) = {}
  BY DEF Elements
<1> QED BY <1>2, <1>3, <1>4, <1>5

LEMMA CreateKeeps ==
  ASSUME IInv, NEW f \in Name, NEW size \in FileSize, Create(f, size)
  PROVE  IInv'
<1> DEFINE s  == FindAndSet(freeMap, 1)
           m1 == AfterFindAndSet(freeMap, 1)
           a  == Allocate(m1, size)
           hw == ToSector(s, [kind |-> "header", header |-> a.header], FALSE)
           r  == DirectoryAdd(f, s)
           dw == ToDir(r)
           bw == ToMap(a.map)
           q  == Elements(a.writes)
<1>1. /\ Idle /\ ~Listed(f) /\ s # None /\ FreeEntries # {}
      /\ NumClear(m1) >= divRoundUp(size, SectorSize)
      /\ call'.op = "create" /\ call'.name = f
      /\ todo' = a.writes \o <<hw, dw, bw>>
      /\ disk' = disk /\ freeMap' = freeMap /\ dir' = dir /\ open' = open
      /\ torn' = torn /\ damaged' = damaged
  BY DEF Create, CreateWrites
<1>2. /\ todo = <<>> /\ ~damaged /\ ~torn
  BY <1>1, IdleRests
<1>3. PICK Data, Doubly, Blocks : Resting(Data, Doubly, Blocks)
  BY <1>1, IdleRests
<1>4. TypeInv /\ dir \in Directory /\ freeMap \subseteq Sector
      /\ open \in [Handle -> {Closed} \cup OpenFile]
  BY DEF IInv, TypeInv
<1>5. s \in Sector \ freeMap /\ m1 = freeMap \cup {s} /\ m1 \subseteq Sector
  <2>1. s \in Sector \ freeMap
    BY <1>1, FindFree
  <2>2. m1 = freeMap \cup ({FindAndSet(freeMap, i) : i \in 1 .. 1} \ {None})
    BY DEF AfterFindAndSet
  <2>3. {FindAndSet(freeMap, i) : i \in 1 .. 1} = {s}
    BY 1 .. 1 = {1}
  <2> HIDE DEF s, m1
  <2> QED BY <2>1, <2>2, <2>3, <1>1, <1>4
<1>6. size \in Nat
  BY FileSystemAssumption
<1>7. /\ \E Ns : Growth(m1, None, {}, {}, FALSE, a.header, a.writes, a.map, Ns)
      /\ divRoundUp(a.header.length, SectorSize) <= NumSectors
  <2> HIDE DEF m1
  <2>1. m1 \subseteq Sector /\ NumClear(m1) >= divRoundUp(size, SectorSize)
    BY <1>1, <1>5
  <2> HIDE DEF a
  <2>2. a = Allocate(m1, size)
    BY DEF a
  <2> QED BY <1>6, <2>1, <2>2, AllocateFacts
<1>8. PICK Ns : Growth(m1, None, {}, {}, FALSE, a.header, a.writes, a.map, Ns)
  BY <1>7
<1> HIDE DEF a, hw, dw, bw, s, m1, r, q
<1>9. /\ a.header \in Header /\ a.writes \in Seq(Write) /\ m1 \subseteq a.map /\ a.map \subseteq Sector
  BY <1>8 DEF Growth, NewTables
<1> DEFINE no == None
           none == {}
           unlinked == FALSE
<1>10. Grows(disk, dir, m1, open, f, no, none, none, unlinked, a.header, a.writes, a.map, Ns,
             Data, Doubly, Blocks)
  <2>1. Good(disk, {}, dir, freeMap, open, Data, Doubly, Blocks) /\ Ownership(Data, Doubly, Blocks)
    BY <1>3 DEF Resting
  <2>2. freeMap \subseteq m1
    BY <1>5
  <2>3. Good(disk, {}, dir, m1, open, Data, Doubly, Blocks)
    BY <2>1, <2>2, GoodMore
  <2> QED BY <1>4, <1>5, <1>8, <2>1, <2>3 DEF Grows, BlocksOf
<1> HIDE DEF no, none, unlinked
<1>11. \E D, E, B :
         GrowsTo(disk, dir, open, f, a.header, a.writes, m1, a.map, Data, Doubly, Blocks, D, E, B)
  BY <1>4, <1>10, GrowKeeps
<1>12. PICK D, E, B :
         GrowsTo(disk, dir, open, f, a.header, a.writes, m1, a.map, Data, Doubly, Blocks, D, E, B)
  BY <1>11
<1>13. \A w \in q :
         /\ \A g \in Name : \A e \in Doubly[g] :
              e # no => w.at # e /\ w.at \notin Blocks[e]
         /\ \A i \in Entry : dir[i] # NoEntry => w.at # dir[i].sector
         /\ w.at \in Owned(Data, Doubly, Blocks, f) \cup (a.map \ m1) \cup {None}
         /\ w.at \in Sector \cup {None}
  BY <1>10, GrowHarmless DEF q
<1>14. GrowShape(m1, f, no, none, none, unlinked, a.header, a.writes, a.map, Ns, Data, Doubly, Blocks)
  BY <1>10, GrowWrites
<1>15. \A w \in q : w.to = "sector"
  BY <1>14 DEF GrowShape, q
<1>16. /\ \A g \in Name : Owned(Data, Doubly, Blocks, g) \subseteq freeMap
       /\ Ownership(Data, Doubly, Blocks)
       /\ 0 .. SystemSectors - 1 \subseteq freeMap
       /\ \A i \in Entry : dir[i] # NoEntry => dir[i].sector \in freeMap
  BY <1>3 DEF Resting, Good, OwnersOK, HeadersOK
<1>17. /\ hw \in Write /\ hw.to = "sector" /\ hw.at = s
       /\ hw.put \in Headers(D[f], E[f])
  <2> DEFINE c == [kind |-> "header", header |-> a.header]
  <2>1. c \in Content /\ c.kind = "header" /\ c.header = a.header
    BY <1>9, ContentMade
  <2> HIDE DEF c
  <2>2. s \in Sector \cup {None, Unset} /\ unlinked \in BOOLEAN
    BY <1>5 DEF unlinked
  <2>3. hw = ToSector(s, c, unlinked)
    BY DEF hw, c, unlinked
  <2>4. hw \in Write /\ hw.to = "sector" /\ hw.at = s /\ hw.put = c
    BY <2>1, <2>2, <2>3, SectorWrite
  <2>5. HeaderIn(a.header, D[f], E[f])
    BY <1>12 DEF GrowsTo
  <2>6. c \in Headers(D[f], E[f])
    <3> HIDE DEF Content
    <3> QED BY <1>7, <2>1, <2>5 DEF Headers
  <2> QED BY <2>4, <2>6
<1>18. /\ r \in Directory
       /\ \E i \in Entry : dir[i] = NoEntry /\ r = [dir EXCEPT ![i] = [name |-> f, sector |-> s]]
  BY <1>1, <1>4, <1>5, AddFacts DEF r
<1>19. PICK i \in Entry : dir[i] = NoEntry /\ r = [dir EXCEPT ![i] = [name |-> f, sector |-> s]]
  BY <1>18
<1>20. /\ bw \in Write /\ bw.to = "map" /\ bw.at = 0 /\ bw.put = a.map /\ bw.links
       /\ dw \in Write /\ dw.to = "dir" /\ dw.at = 1 /\ dw.put = r /\ dw.links
  BY <1>9, <1>18, LinkWrites DEF bw, dw
<1> DEFINE all == (q \cup {hw}) \cup {dw, bw}
<1>21. todo' \in Seq(Write) /\ todo' # <<>> /\ Elements(todo)' = all
  <2>1. CreateList(todo', a.writes, hw, dw, bw)
    BY <1>1, <1>9, <1>17, <1>20 DEF CreateList
  <2> QED BY <2>1, CreateWritesFacts DEF q
<1>22. TypeInv'
  <2> HIDE DEF Sector, Content, Directory, Write, OpenFile
  <2> QED BY <1>1, <1>4, <1>21 DEF TypeInv
<1>23. \A w \in all : w.at # Unset
  <2>1. Unset \notin Sector /\ None # Unset /\ 0 \in Sector /\ 1 \in Sector
    BY Constants
  <2> QED BY <2>1, <1>5, <1>13, <1>17, <1>20
<1>24. CallInv'
  BY <1>1, <1>2, <1>21, <1>23 DEF CallInv
<1>25. \A g \in Name : s \notin Owned(D, E, B, g)
  <2>1. \A g \in Name : Owned(D, E, B, g) \subseteq Owned(Data, Doubly, Blocks, g) \cup (a.map \ m1)
    BY <1>12 DEF GrowsTo
  <2> QED BY <2>1, <1>5, <1>16
<1>26. Creates(disk, q, dir, a.map, open, f, i, s, hw, D, E, B)
  <2>1. Ownership(D, E, B) /\ Good(disk, q, dir, a.map, open, D, E, B)
    BY <1>12 DEF GrowsTo, q
  <2>2. s \in a.map \ (0 .. SystemSectors - 1)
    BY <1>5, <1>9, <1>16
  <2>3. \A j \in Entry : dir[j] # NoEntry => dir[j].name # f /\ dir[j].sector # s
    BY <1>1, <1>5, <1>16 DEF Listed
  <2>4. \A v \in q : ~Targets(v, s)
    BY <1>5, <1>13, <1>16, Constants DEF Targets
  <2> QED BY <2>1, <2>2, <2>3, <2>4, <1>4, <1>5, <1>17, <1>19, <1>25 DEF Creates
<1>27. Good(disk, all, r, a.map, open, D, E, B)
  <2>1. Good(disk, q \cup {hw}, r, a.map, open, D, E, B)
    BY <1>19, <1>26, GoodCreated
  <2>2. \A w \in {dw, bw} : w.to # "sector"
    BY <1>20
  <2> QED BY <2>1, <2>2, GoodLinks
<1>28. BecomesDir(dir, all, r) /\ BecomesMap(freeMap, all, a.map)
  BY <1>15, <1>17, <1>20 DEF BecomesDir, BecomesMap
<1>29. ForeignOK(f, dir, all, r, D, E, B)
  <2>1. /\ \A j \in Entry : j # i => r[j] = dir[j]
        /\ r[i].name = f /\ r[i].sector = s /\ dir[i].name = NoName
    BY <1>4, <1>19 DEF Directory, NoEntry
  <2>2. \A j \in Entry : r[j] # dir[j] => {r[j].name, dir[j].name} \subseteq {f, NoName}
    BY <2>1
  <2>3. ASSUME NEW w \in all, w.to = "sector"
        PROVE  /\ \A g \in Name \ {f} : w.at \notin Owned(D, E, B, g)
               /\ \A j \in Entry : r[j] # NoEntry /\ r[j].name # f => w.at # r[j].sector
    <3>1. CASE w \in q
      <4>1. /\ \A g \in Name \ {f} : w.at \notin Owned(D, E, B, g)
            /\ \A j \in Entry : dir[j] # NoEntry => w.at # dir[j].sector
        BY <3>1, <1>12 DEF GrowsTo, q
      <4> QED BY <4>1, <2>1
    <3>2. CASE w = hw
      BY <3>2, <2>1, <1>5, <1>16, <1>17, <1>25
    <3> QED BY <3>1, <3>2, <2>3, <1>20
  <2> QED BY <2>2, <2>3 DEF ForeignOK
<1>30. FinalInv'
  <2>1. PICK x, y : x = r /\ y = a.map
    OBVIOUS
  <2>2. Ownership(D, E, B)
    BY <1>12 DEF GrowsTo
  <2> HIDE DEF all
  <2>3. FinalOK(Elements(todo), x, y, D, E, B)'
    BY <2>1, <2>2, <1>1, <1>9, <1>18, <1>21, <1>27, <1>28, <1>29 DEF FinalOK
  <2> QED BY <2>3 DEF FinalInv
<1>31. CrashInv'
  <2>1. Good(disk, {}, dir, freeMap, AllClosed, Data, Doubly, Blocks)
    BY <1>3 DEF Resting, Good, OpenOK, AllClosed
  <2>2. ASSUME NEW w \in all PROVE w.links \/ Harmless(w, dir, Doubly, Blocks)
    <3>1. CASE w \in q
      <4>1. \A g \in Name : \A e \in Doubly[g] : e # no
        BY <1>16, Constants DEF no, Ownership
      <4> QED BY <3>1, <4>1, <1>13, <1>15 DEF Harmless
    <3>2. CASE w = hw
      <4>1. \A g \in Name : \A e \in Doubly[g] : e \in freeMap /\ Blocks[e] \subseteq freeMap
        BY <1>16 DEF Owned
      <4> QED BY <3>2, <4>1, <1>5, <1>16, <1>17 DEF Harmless
    <3> QED BY <3>1, <3>2, <1>20
  <2>3. CrashOK(Elements(todo), Data, Doubly, Blocks)'
    BY <1>1, <1>16, <1>21, <2>1, <2>2 DEF CrashOK, AllClosed
  <2> QED BY <2>3 DEF CrashInv
<1> QED BY <1>22, <1>24, <1>30, <1>31 DEF IInv

-----------------------------------------------------------------------------
(* WriteAt, up to the end of extend                                                         *)

(* Without the doubly indirect sector of a header that is only in memory, the disk is good. *)
LEMMA GoodWithout ==
  ASSUME TypeInv, NEW f \in Name, NEW x, NEW Data, NEW Doubly, NEW Blocks, NEW E,
         Resting(Data, Doubly, Blocks), x = None \/ HeaderOf(f).doubly # x,
         E = [Doubly EXCEPT ![f] = Doubly[f] \ {x}]
  PROVE  /\ Ownership(Data, E, Blocks)
         /\ Good(disk, {}, dir, freeMap, AllClosed, Data, E, Blocks)
<1> USE DEF Resting, Good
<1>1. /\ Ownership(Data, Doubly, Blocks) /\ None \notin Sector
  BY Constants
<1>2. /\ \A g \in Name : E[g] \subseteq Doubly[g]
      /\ \A g \in Name : g # f => E[g] = Doubly[g]
      /\ E[f] = Doubly[f] \ {x}
      /\ Ownership(Data, E, Blocks)
  BY <1>1 DEF Ownership
<1>3. \A g \in Name : Owned(Data, E, Blocks, g) \subseteq Owned(Data, Doubly, Blocks, g)
  BY <1>2 DEF Owned
<1>4. OwnersOK(freeMap, Data, E, Blocks)
  <2>1. /\ 0 .. SystemSectors - 1 \subseteq freeMap
        /\ \A g \in Name : Owned(Data, E, Blocks, g) \subseteq freeMap \ (0 .. SystemSectors - 1)
    BY <1>3 DEF OwnersOK
  <2>2. ASSUME NEW g \in Name, NEW h \in Name, g # h
        PROVE  Owned(Data, E, Blocks, g) \cap Owned(Data, E, Blocks, h) = {}
    <3>1. Owned(Data, Doubly, Blocks, g) \cap Owned(Data, Doubly, Blocks, h) = {}
      BY <2>2 DEF OwnersOK
    <3> QED BY <3>1, <1>3
  <2> QED BY <2>1, <2>2 DEF OwnersOK
<1>5. ChainsOK(disk, {}, Data, E, Blocks)
  <2> SUFFICES ASSUME NEW g \in Name, NEW d \in E[g]
               PROVE  /\ Becomes(disk, {}, d, Tables(Blocks[d]))
                      /\ \A b \in Blocks[d] : Becomes(disk, {}, b, Tables(Data[g]))
                      /\ \A e \in E[g] : e \notin Blocks[d] /\ (e # d => Blocks[d] \cap Blocks[e] = {})
    BY DEF ChainsOK
  <2>1. d \in Doubly[g] /\ \A e \in E[g] : e \in Doubly[g]
    BY <1>2
  <2> QED BY <2>1 DEF ChainsOK
<1>6. HeadersOK(disk, {}, dir, freeMap, Data, E, Blocks)
  <2> SUFFICES ASSUME NEW i \in Entry, dir[i] # NoEntry
               PROVE  /\ dir[i].sector \in freeMap \ (0 .. SystemSectors - 1)
                      /\ \A g \in Name : dir[i].sector \notin Owned(Data, E, Blocks, g)
                      /\ Becomes(disk, {}, dir[i].sector, Headers(Data[dir[i].name], E[dir[i].name]))
    BY DEF HeadersOK
  <2> DEFINE n == dir[i].name
             s == dir[i].sector
             c == disk[s]
  <2>1. /\ s \in freeMap \ (0 .. SystemSectors - 1)
        /\ \A g \in Name : s \notin Owned(Data, Doubly, Blocks, g)
        /\ c \in Headers(Data[n], Doubly[n])
    BY DEF HeadersOK, Becomes
  <2>2. n \in Name
    BY DEF TypeInv, Directory
  <2>3. n = f => c.header.doubly = HeaderOf(f).doubly
    <3> SUFFICES ASSUME n = f PROVE c.header.doubly = HeaderOf(f).doubly
      OBVIOUS
    <3>1. Listed(f)
      BY DEF Listed
    <3>2. /\ FindIndex(f) \in Entry /\ dir[FindIndex(f)] # NoEntry
          /\ dir[FindIndex(f)].name = f /\ dir[FindIndex(f)].sector = Find(f)
      BY <3>1, FindFacts
    <3>3. FindIndex(f) = i
      BY <3>2 DEF DirOK
    <3> QED BY <3>2, <3>3 DEF HeaderOf
  <2> HIDE DEF n, c, s
  <2>4. c \in Headers(Data[n], E[n])
    <3>1. /\ c \in Content /\ c.kind = "header" /\ HeaderIn(c.header, Data[n], Doubly[n])
          /\ divRoundUp(c.header.length, SectorSize) <= NumSectors
      <4> HIDE DEF Content
      <4> QED BY <2>1 DEF Headers
    <3>2. c.header.doubly \in E[n] \cup {None}
      BY <3>1, <2>2, <2>3, <1>1, <1>2 DEF HeaderIn, Ownership
    <3>3. HeaderIn(c.header, Data[n], E[n])
      BY <3>1, <3>2 DEF HeaderIn
    <3> HIDE DEF Content
    <3> QED BY <3>1, <3>3 DEF Headers
  <2>5. Becomes(disk, {}, s, Headers(Data[n], E[n]))
    BY <2>4 DEF Becomes, c
  <2> QED BY <2>1, <2>5, <1>3 DEF n, s
<1>7. OpenOK(AllClosed, Data, E)
  BY DEF OpenOK, AllClosed
<1> QED BY <1>2, <1>4, <1>5, <1>6, <1>7

LEMMA WriteAtKeeps ==
  ASSUME IInv, NEW h \in Handle, NEW p, NEW n, <<p, n>> \in WriteRange, WriteAt(h, p, n, 1)
  PROVE  IInv'
<1> DEFINE f      == open[h].name
           header == open[h].header
           old    == header.doubly
           extra  == p + n - header.length + Slack
           linked == old # None /\ old = HeaderOf(f).doubly
           grown  == Extend(header, extra, linked)
<1>1. /\ Idle /\ open[h] # Closed
      /\ call'.op = "write" /\ call'.name = f /\ call'.handle = h /\ call'.at = p
      /\ call' = [op |-> "write", name |-> call'.name, handle |-> call'.handle, at |-> call'.at,
                   length |-> call'.length, value |-> call'.value, before |-> call'.before]
      /\ call'.length = n /\ call'.value = 1
      /\ disk' = disk /\ freeMap' = freeMap /\ dir' = dir
      /\ torn' = torn /\ damaged' = damaged
      /\ \/ /\ p + n > header.length /\ CanExtend(header, extra)
            /\ todo' = grown.writes \o <<ToMap(grown.map)>>
            /\ open' = [open EXCEPT ![h].header = grown.header]
         \/ todo' = todo /\ open' = open
  BY DEF WriteAt, ExtendWrites
<1>2. /\ todo = <<>> /\ ~damaged /\ ~torn
  BY <1>1, IdleRests
<1>3. PICK Data, Doubly, Blocks : Resting(Data, Doubly, Blocks)
  BY <1>1, IdleRests
<1>4. TypeInv /\ dir \in Directory /\ freeMap \subseteq Sector
      /\ open \in [Handle -> {Closed} \cup OpenFile]
  BY DEF IInv, TypeInv
<1>5. f \in Name /\ header \in Header /\ open[h] = [name |-> f, header |-> header]
  <2>1. open[h] \in OpenFile
    BY <1>1, <1>4
  <2> HIDE DEF Header
  <2> QED BY <2>1 DEF OpenFile
<1>6. CASE todo' = todo /\ open' = open
  <2>1. TypeInv'
    <3> HIDE DEF Sector, Content, Directory, Write, OpenFile
    <3> QED BY <1>1, <1>4, <1>6 DEF TypeInv
  <2>2. Elements(todo)' = {}
    BY <1>2, <1>6 DEF Elements
  <2>3. CallInv'
    BY <1>1, <1>2, <1>6, <2>2 DEF CallInv
  <2>4. Resting(Data, Doubly, Blocks)'
    BY <1>1, <1>3, <1>6 DEF Resting
  <2>5. FinalInv' /\ CrashInv'
    BY <1>1, <1>2, <1>4, <1>6, <2>4, RestsAgain
  <2> QED BY <2>1, <2>3, <2>5 DEF IInv
<1>7. CASE /\ p + n > header.length /\ CanExtend(header, extra)
           /\ todo' = grown.writes \o <<ToMap(grown.map)>>
           /\ open' = [open EXCEPT ![h].header = grown.header]
  <2> DEFINE Bs == BlocksOf(Blocks, old)
             As == Data[f]
             bw == ToMap(grown.map)
             q  == Elements(grown.writes)
  <2>1. /\ Ownership(Data, Doubly, Blocks) /\ Good(disk, {}, dir, freeMap, open, Data, Doubly, Blocks)
        /\ Led(f, Data, Doubly, Blocks)
    BY <1>3, <1>5, RestingLed DEF Resting
  <2>2. HeaderIn(header, As, Doubly[f])
    BY <1>1, <2>1 DEF Good, OpenOK
  <2>3. LeadsTo(old, Bs, As)
    <3> HIDE DEF header, f
    <3>1. LeadsTo(header.doubly, BlocksOf(Blocks, header.doubly), Data[f])
      BY <1>4, <1>5, <2>1, <2>2, HeaderLeads
    <3> QED BY <3>1
  <2>4. As \subseteq freeMap /\ Bs \subseteq freeMap /\ old \in Doubly[f] \cup {None}
    <3>1. old \in Doubly[f] \cup {None}
      BY <2>2 DEF HeaderIn
    <3>2. Owned(Data, Doubly, Blocks, f) \subseteq freeMap
      BY <1>5, <2>1 DEF Good, OwnersOK
    <3> HIDE DEF old, f
    <3> QED BY <3>1, <3>2 DEF Owned, BlocksOf
  <2>5. extra \in Nat \ {0}
    <3>1. p \in Nat /\ n \in Nat \ {0} /\ Slack \in Nat
      <4>1. <<p, n>> \in Nat \X (Nat \ {0}) /\ Slack \in Nat
        BY FileSystemAssumption
      <4> QED BY <4>1
    <3>2. header.length \in Nat
      BY <1>5 DEF Header
    <3> DEFINE l == header.length
    <3>3. l \in Nat /\ p + n > l /\ extra = p + n - l + Slack
      BY <3>2, <1>7
    <3> HIDE DEF l, extra
    <3> QED BY <3>1, <3>3
  <2>6. linked \in BOOLEAN
    OBVIOUS
  <2> HIDE DEF f, header, linked, extra, old, Bs, As
  <2>7. header.doubly = old
    BY DEF old
  <2>8. ExtendFrom(header, Bs, As, extra, linked)
    BY <1>4, <1>5, <1>7, <2>2, <2>3, <2>4, <2>5, <2>6, <2>7 DEF ExtendFrom, HeaderIn
  <2> HIDE DEF grown
  <2>9. \E Ns : Growth(freeMap, old, Bs, As, linked, grown.header, grown.writes, grown.map, Ns)
    <3>1. grown = Extend(header, extra, linked)
      BY DEF grown
    <3> QED BY <3>1, <2>7, <2>8, ExtendFacts
  <2>10. PICK Ns : Growth(freeMap, old, Bs, As, linked, grown.header, grown.writes, grown.map, Ns)
    BY <2>9
  <2>11. Grows(disk, dir, freeMap, open, f, old, Bs, As, linked, grown.header, grown.writes,
               grown.map, Ns, Data, Doubly, Blocks)
    <3>1. Bs = BlocksOf(Blocks, old) /\ As \subseteq Data[f]
      BY DEF Bs, As
    <3> QED BY <3>1, <1>4, <1>5, <2>1, <2>4, <2>6, <2>10 DEF Grows
  <2>12. PICK D, E, B : GrowsTo(disk, dir, open, f, grown.header, grown.writes, freeMap, grown.map,
                                Data, Doubly, Blocks, D, E, B)
    BY <1>4, <2>11, GrowKeeps
  <2>13. \A w \in q :
           /\ \A g \in Name : \A e \in Doubly[g] :
                e # old => w.at # e /\ w.at \notin Blocks[e]
           /\ \A i \in Entry : dir[i] # NoEntry => w.at # dir[i].sector
           /\ w.at \in Owned(Data, Doubly, Blocks, f) \cup (grown.map \ freeMap) \cup {None}
           /\ w.at \in Sector \cup {None}
    BY <2>11, GrowHarmless
  <2>14. GrowShape(freeMap, f, old, Bs, As, linked, grown.header, grown.writes, grown.map, Ns,
                   Data, Doubly, Blocks)
    BY <2>11, GrowWrites
  <2>15. \A w \in q : w.to = "sector" /\ w.links = linked
    BY <2>14 DEF GrowShape
  <2>16. grown.header \in Header /\ grown.writes \in Seq(Write) /\ grown.map \subseteq Sector
    BY <2>10 DEF Growth, NewTables
  <2>17. bw \in Write /\ bw.to = "map" /\ bw.at = 0 /\ bw.put = grown.map /\ bw.links
    BY <1>4, <2>16, LinkWrites
  <2> DEFINE all == q \cup {bw}
  <2>18. todo' \in Seq(Write) /\ todo' # <<>> /\ Elements(todo)' = all
    <3> DEFINE b == <<bw>>
               a == grown.writes
    <3> HIDE DEF Write, bw
    <3>1. b \in Seq(Write) /\ Elements(b) = {bw}
      BY <2>17, ElementsFacts
    <3>2. todo' = a \o b
      BY <1>7 DEF bw
    <3> HIDE DEF b
    <3>3. a \in Seq(Write)
      BY <2>16
    <3> HIDE DEF a
    <3>4. a \o b \in Seq(Write) /\ Elements(a \o b) = Elements(a) \cup Elements(b)
      BY <3>1, <3>3, ElementsFacts
    <3>5. Elements(<<>>) = {}
      BY DEF Elements
    <3> QED BY <3>1, <3>2, <3>4, <3>5 DEF a
  <2> HIDE DEF q, bw
  <2>19. /\ open' \in [Handle -> {Closed} \cup OpenFile]
         /\ \A x \in Handle : x # h => open'[x] = open[x]
         /\ open'[h].name = f /\ open'[h].header = grown.header /\ open'[h] # Closed
    <3> DEFINE v == [name |-> f, header |-> grown.header]
    <3>1. open' = [open EXCEPT ![h] = v]
      <4>1. [open[h] EXCEPT !.header = grown.header] = v
        BY <1>5
      <4>2. open' = [open EXCEPT ![h] = [open[h] EXCEPT !.header = grown.header]]
        BY <1>7
      <4> HIDE DEF v
      <4> QED BY <4>1, <4>2
    <3>2. v \in OpenFile /\ v.name = f /\ v.header = grown.header
      <4> HIDE DEF Header
      <4> QED BY <1>5, <2>16 DEF OpenFile
    <3>3. v # Closed
      BY <1>5, FileSystemAssumption DEF Closed
    <3> HIDE DEF v, OpenFile
    <3> QED BY <3>1, <3>2, <3>3, <1>4
  <2>20. TypeInv'
    <3> HIDE DEF Sector, Content, Directory, Write, OpenFile
    <3> QED BY <1>1, <1>4, <2>18, <2>19 DEF TypeInv
  <2>21. CallInv'
    <3>1. \A w \in all : w.at # Unset
      <4>1. Unset \notin Sector /\ None # Unset /\ 0 \in Sector
        BY Constants
      <4> QED BY <4>1, <2>13, <2>17
    <3> QED BY <1>1, <1>2, <2>18, <2>19, <3>1 DEF CallInv
  <2>22. Good(disk, all, dir, grown.map, open', D, E, B)
    <3>1. Good(disk, q, dir, grown.map, open, D, E, B) /\ HeaderIn(grown.header, D[f], E[f])
      BY <2>12 DEF GrowsTo, q
    <3>2. OpenOK(open', D, E)
      BY <3>1, <2>19 DEF Good, OpenOK
    <3>3. Good(disk, q, dir, grown.map, open', D, E, B)
      BY <3>1, <3>2 DEF Good
    <3>4. \A w \in {bw} : w.to # "sector"
      BY <2>17
    <3> QED BY <3>3, <3>4, GoodLinks
  <2>23. BecomesDir(dir, all, dir) /\ BecomesMap(freeMap, all, grown.map)
    BY <2>15, <2>17 DEF BecomesDir, BecomesMap
  <2>24. ForeignOK(f, dir, all, dir, D, E, B)
    <3>1. \A w \in q :
            /\ \A g \in Name \ {f} : w.at \notin Owned(D, E, B, g)
            /\ \A i \in Entry : dir[i] # NoEntry => w.at # dir[i].sector
      BY <2>12 DEF GrowsTo, q
    <3> QED BY <3>1, <2>17 DEF ForeignOK
  <2>25. FinalInv'
    <3>1. PICK x, y : x = dir /\ y = grown.map
      OBVIOUS
    <3>2. Ownership(D, E, B)
      BY <2>12 DEF GrowsTo
    <3> HIDE DEF all
    <3>3. FinalOK(Elements(todo), x, y, D, E, B)'
      BY <3>1, <3>2, <1>1, <1>4, <2>16, <2>18, <2>22, <2>23, <2>24 DEF FinalOK
    <3> QED BY <3>3 DEF FinalInv
  <2>26. CrashInv'
    <3>1. CASE linked
      <4>1. \A w \in all : w.links
        BY <3>1, <2>15, <2>17
      <4>2. Good(disk, {}, dir, freeMap, AllClosed, Data, Doubly, Blocks)
        BY <2>1 DEF Good, OpenOK, AllClosed
      <4>3. CrashOK(Elements(todo), Data, Doubly, Blocks)'
        BY <1>1, <2>1, <2>18, <4>1, <4>2 DEF CrashOK, AllClosed
      <4> QED BY <4>3 DEF CrashInv
    <3>2. CASE ~linked
      <4>1. PICK x : x = old
        OBVIOUS
      <4>2. x = None \/ HeaderOf(f).doubly # x
        BY <3>2, <4>1 DEF linked
      <4>3. PICK F : F = [Doubly EXCEPT ![f] = Doubly[f] \ {x}]
        OBVIOUS
      <4>4. /\ Ownership(Data, F, Blocks)
            /\ Good(disk, {}, dir, freeMap, AllClosed, Data, F, Blocks)
        BY <1>3, <1>4, <1>5, <4>2, <4>3, GoodWithout
      <4>5. \A g \in Name : \A e \in F[g] : e \in Doubly[g] /\ e # old
        <5>1. \A g \in Name \ {f} : \A e \in Doubly[g] : e # old
          <6>1. \A g \in Name : Doubly[g] \subseteq Owned(Data, Doubly, Blocks, g)
            BY DEF Owned
          <6>2. \A g \in Name \ {f} :
                  Owned(Data, Doubly, Blocks, g) \cap Owned(Data, Doubly, Blocks, f) = {}
            BY <1>5, <2>1 DEF Good, OwnersOK
          <6>3. \A g \in Name : None \notin Doubly[g]
            BY <2>1, Constants DEF Ownership
          <6> QED BY <6>1, <6>2, <6>3, <1>5, <2>4
        <5> QED BY <5>1, <4>1, <4>3, <2>1 DEF Ownership
      <4>6. \A w \in all : w.links \/ Harmless(w, dir, F, Blocks)
        <5>1. ASSUME NEW w \in q PROVE Harmless(w, dir, F, Blocks)
          BY <4>5, <2>13, <2>15 DEF Harmless
        <5> QED BY <5>1, <2>17
      <4>7. CrashOK(Elements(todo), Data, F, Blocks)'
        BY <1>1, <2>18, <4>4, <4>6 DEF CrashOK, AllClosed
      <4> QED BY <4>7 DEF CrashInv
    <3> QED BY <3>1, <3>2
  <2> QED BY <2>20, <2>21, <2>25, <2>26 DEF IInv
<1> QED BY <1>1, <1>6, <1>7

-----------------------------------------------------------------------------
(* WriteAt, the rest                                                                        *)

(* Where part i of a file is, and what is read there. *)
LEMMA PlaceFacts ==
  ASSUME TypeInv, NEW f \in Name, NEW Data, NEW Doubly, NEW Blocks, NEW header,
         Ownership(Data, Doubly, Blocks), Led(f, Data, Doubly, Blocks),
         HeaderIn(header, Data[f], Doubly[f]),
         NEW i \in Nat, i < PerIndirect * PerIndirect
  PROVE  ByteToSector(header, i) \in Data[f] \cup {None, Unset}
<1>1. CASE i < NumDirect
  <2>1. i \in 0 .. NumDirect - 1
    BY <1>1, Constants
  <2> QED BY <1>1, <2>1 DEF ByteToSector, HeaderIn
<1>2. CASE ~(i < NumDirect)
  <2> DEFINE d == header.doubly
             Bs == BlocksOf(Blocks, d)
  <2>1. LeadsTo(d, Bs, Data[f])
    BY HeaderLeads
  <2> HIDE DEF d, Bs
  <2>2. IndirectOf(d, i) \in Data[f] \cup {None}
    BY <2>1, IndirectLeads
  <2> QED BY <1>2, <2>2 DEF ByteToSector, d
<1> QED BY <1>1, <1>2

LEMMA ByteFacts ==
  ASSUME TypeInv, NEW header, NEW p \in Nat,
         ByteToSector(header, p \div SectorSize) \in Sector \cup {Unset}
  PROVE  ByteAt(header, p) \in Byte
<1> DEFINE s == ByteToSector(header, p \div SectorSize)
           k == p % SectorSize
<1>1. k \in 0 .. SectorSize - 1
  BY Constants, DivFacts
<1>2. s # None
  BY Constants
<1>3. ByteAt(header, p) = IF s = Unset THEN Junk
                          ELSE IF disk[s].kind = "data" THEN disk[s].bytes[k] ELSE Junk
  BY <1>2 DEF ByteAt
<1> HIDE DEF s, k
<1>4. Junk \in Byte
  BY DEF Byte, Junk
<1>5. s # Unset /\ disk[s].kind = "data" => disk[s].bytes[k] \in Byte
  <2> SUFFICES ASSUME s # Unset, disk[s].kind = "data" PROVE disk[s].bytes[k] \in Byte
    OBVIOUS
  <2>1. s \in Sector
    BY DEF s
  <2>2. disk[s] \in Content
    BY <2>1 DEF TypeInv
  <2>3. disk[s].bytes \in [0 .. SectorSize - 1 -> Byte]
    BY <2>2, ContentFacts
  <2> HIDE DEF Byte
  <2> QED BY <1>1, <2>3
<1> QED BY <1>3, <1>4, <1>5

(* The parts that a write touches. *)
LEMMA SectorsFacts ==
  ASSUME NEW p, NEW n, <<p, n>> \in WriteRange
  PROVE  /\ p \in Nat /\ n \in Nat \ {0} /\ p \div SectorSize \in Nat
         /\ Cardinality(Sectors(p, n)) \in Nat \ {0}
         /\ \A j \in 1 .. Cardinality(Sectors(p, n)) :
              /\ p \div SectorSize + j - 1 \in Nat
              /\ p \div SectorSize + j - 1 \in Sectors(p, n)
              /\ p \div SectorSize + j - 1 < PerIndirect * PerIndirect
<1>1. p \in Nat /\ n \in Nat \ {0}
  <2>1. <<p, n>> \in Nat \X (Nat \ {0})
    BY FileSystemAssumption
  <2> QED BY <2>1
<1>2. (p + n - 1) \div SectorSize < PerIndirect * PerIndirect
  <2>1. PICK r \in WriteRange : r = <<p, n>>
    OBVIOUS
  <2>2. (r[1] + r[2] - 1) \div SectorSize < PerIndirect * PerIndirect
    BY FileSystemAssumption
  <2>3. r[1] = p /\ r[2] = n
    BY <2>1
  <2> QED BY <2>2, <2>3
<1> DEFINE first == p \div SectorSize
           e == p + n - 1
           last == e \div SectorSize
           pp == PerIndirect * PerIndirect
<1>3. /\ first \in Nat /\ last \in Nat /\ first <= last /\ pp \in Nat /\ last < pp
  <2>1. e \in Nat /\ p <= e /\ SectorSize \in Nat \ {0} /\ pp \in Nat
    BY <1>1, Constants
  <2> HIDE DEF e
  <2> QED BY <2>1, <1>1, <1>2, DivFacts, DivMonotone DEF e
<1>4. Sectors(p, n) = first .. last
  BY DEF Sectors
<1> HIDE DEF first, last, pp
<1>5. Cardinality(first .. last) = last - first + 1
  <2>1. first \in Int /\ last \in Int /\ ~(first > last)
    BY <1>3
  <2>2. Cardinality(first .. last) = IF first > last THEN 0 ELSE last - first + 1
    BY <2>1, FS_Interval
  <2> QED BY <2>1, <2>2
<1>6. \A j \in 1 .. last - first + 1 : first + j - 1 \in Nat /\ first + j - 1 \in first .. last
                                        /\ first + j - 1 < pp
  BY <1>3
<1> QED BY <1>1, <1>3, <1>4, <1>5, <1>6 DEF first, pp

(* The buffer holds bytes when what is read of the file is there. *)
LEMMA BufferFacts ==
  ASSUME TypeInv, NEW header, NEW p, NEW n, NEW i \in Nat, header \in Header,
         <<p, n>> \in WriteRange, i \in Sectors(p, n),
         ByteToSector(header, i) \in Sector \cup {None, Unset},
         \A j \in Partial(p, n) : j * SectorSize < header.length => ByteToSector(header, j) # None
  PROVE  Buffer(header, p, n, 1, i) \in [0 .. SectorSize - 1 -> Byte]
<1> SUFFICES ASSUME NEW k \in 0 .. SectorSize - 1
             PROVE  Buffer(header, p, n, 1, i)[k] \in Byte
  BY DEF Buffer
<1> DEFINE q == i * SectorSize + k
<1>1. /\ SectorSize \in Nat \ {0} /\ i * SectorSize \in Nat /\ k \in Nat /\ header.length \in Nat
  <2>1. header.length \in Nat
    BY DEF Header
  <2> QED BY <2>1, Constants
<1>2. q \in Nat /\ i * SectorSize <= q
  BY <1>1
<1>3. q \div SectorSize = i
  <2> DEFINE y == q \div SectorSize
  <2>1. y \in Nat /\ SectorSize * y <= q /\ q < SectorSize * y + SectorSize
    BY <1>1, <1>2, DivFacts
  <2>2. q < SectorSize * i + SectorSize /\ SectorSize * i <= q
    <3>1. i * SectorSize = SectorSize * i
      BY <1>1
    <3> DEFINE x == i * SectorSize
    <3>2. x \in Nat /\ q = x + k /\ k < SectorSize /\ SectorSize \in Nat
      BY <1>1
    <3> HIDE DEF x, q
    <3>3. q < x + SectorSize /\ x <= q
      BY <3>2, <1>1
    <3> QED BY <3>1, <3>3 DEF x
  <2> HIDE DEF y, q
  <2>3. ~(y < i)
    <3> SUFFICES ASSUME y < i PROVE FALSE
      OBVIOUS
    <3>1. SectorSize * y + SectorSize <= SectorSize * i
      BY <1>1, <2>1, Times
    <3>2. SectorSize * y \in Int /\ SectorSize * i \in Int /\ q \in Int
      BY <1>1, <1>2, <2>1
    <3> QED BY <2>1, <2>2, <3>1, <3>2, <1>1
  <2>4. ~(i < y)
    <3> SUFFICES ASSUME i < y PROVE FALSE
      OBVIOUS
    <3>1. SectorSize * i + SectorSize <= SectorSize * y
      BY <1>1, <2>1, Times
    <3>2. SectorSize * y \in Int /\ SectorSize * i \in Int /\ q \in Int
      BY <1>1, <1>2, <2>1
    <3> QED BY <2>1, <2>2, <3>1, <3>2, <1>1
  <2> QED BY <2>1, <2>3, <2>4 DEF y
<1>4. Buffer(header, p, n, 1, i)[k] =
        CASE q \in p .. p + n - 1 -> 1
          [] q = p + n -> Zero
          [] q \notin p .. p + n /\ i \in Partial(p, n) /\ q < header.length -> ByteAt(header, q)
          [] OTHER -> Junk
  BY DEF Buffer
<1>5. 1 \in Byte /\ Zero \in Byte /\ Junk \in Byte
  BY DEF Byte, Zero, Junk
<1>6. i \in Partial(p, n) /\ q < header.length => ByteAt(header, q) \in Byte
  <2> SUFFICES ASSUME i \in Partial(p, n), q < header.length PROVE ByteAt(header, q) \in Byte
    OBVIOUS
  <2>1. i * SectorSize < header.length
    BY <1>1, <1>2
  <2>2. ByteToSector(header, q \div SectorSize) \in Sector \cup {Unset}
    BY <1>3, <2>1
  <2> HIDE DEF q
  <2> QED BY <1>2, <2>2, ByteFacts
<1> HIDE DEF q
<1>7. \/ Buffer(header, p, n, 1, i)[k] \in {1, Zero, Junk}
      \/ Buffer(header, p, n, 1, i)[k] = ByteAt(header, q) /\ i \in Partial(p, n) /\ q < header.length
  <2>1. CASE q \in p .. p + n - 1 \/ q = p + n
    <3>1. CASE q \in p .. p + n - 1
      <4>1. p \in Nat /\ n \in Nat \ {0}
        BY SectorsFacts
      <4>2. q # p + n /\ q \in p .. p + n
        BY <3>1, <4>1, <1>2
      <4> QED BY <1>4, <3>1, <4>2
    <3>2. CASE q = p + n
      <4>1. p \in Nat /\ n \in Nat \ {0}
        BY SectorsFacts
      <4>2. q \notin p .. p + n - 1 /\ q \in p .. p + n
        BY <3>2, <4>1, <1>2
      <4> QED BY <1>4, <3>2, <4>2
    <3> QED BY <2>1, <3>1, <3>2
  <2>2. CASE ~(q \in p .. p + n - 1 \/ q = p + n)
    <3>1. CASE q \notin p .. p + n /\ i \in Partial(p, n) /\ q < header.length
      BY <1>4, <2>2, <3>1
    <3>2. CASE ~(q \notin p .. p + n /\ i \in Partial(p, n) /\ q < header.length)
      BY <1>4, <2>2, <3>2
    <3> QED BY <3>1, <3>2
  <2> QED BY <2>1, <2>2
<1> QED BY <1>5, <1>6, <1>7

LEMMA ListMade ==
  ASSUME NEW S, NEW c \in Nat, NEW list \in [1 .. c -> S]
  PROVE  list \in Seq(S) /\ Len(list) = c
OBVIOUS

(* The writes of WriteData go to sectors of the file. *)
DataList(part, header, p, n) ==
  part = [j \in 1 .. Cardinality(Sectors(p, n)) |->
            ToSector(ByteToSector(header, p \div SectorSize + j - 1),
                     [kind |-> "data",
                      bytes |-> Buffer(header, p, n, 1, p \div SectorSize + j - 1)],
                     FALSE)]

LEMMA DataParts ==
  ASSUME TypeInv, NEW f \in Name, NEW Data, NEW Doubly, NEW Blocks, NEW header, NEW p, NEW n,
         Ownership(Data, Doubly, Blocks), Led(f, Data, Doubly, Blocks),
         HeaderIn(header, Data[f], Doubly[f]), <<p, n>> \in WriteRange,
         \A j \in Partial(p, n) : j * SectorSize < header.length => ByteToSector(header, j) # None,
         NEW part, DataList(part, header, p, n)
  PROVE  /\ part \in Seq(Write) /\ part # <<>>
         /\ \A w \in Elements(part) : ~w.links
         /\ DataWrites(Elements(part), f, Data)
<1> DEFINE c == Cardinality(Sectors(p, n))
           first == p \div SectorSize
<1>1. /\ c \in Nat \ {0}
      /\ \A j \in 1 .. c : /\ first + j - 1 \in Nat /\ first + j - 1 \in Sectors(p, n)
                           /\ first + j - 1 < PerIndirect * PerIndirect
  BY SectorsFacts
<1>2. Data[f] \subseteq Sector /\ header \in Header
  BY DEF Ownership, HeaderIn
<1> HIDE DEF c, first
<1>3. ASSUME NEW j \in 1 .. c
      PROVE  /\ part[j] \in Write /\ part[j].to = "sector" /\ part[j].put.kind = "data"
             /\ part[j].put \in Content /\ part[j].at \in Data[f] \cup {None, Unset}
             /\ part[j].links = FALSE
  <2> DEFINE i == first + j - 1
             s == ByteToSector(header, i)
             b == Buffer(header, p, n, 1, i)
             k == [kind |-> "data", bytes |-> b]
             l == FALSE
  <2>1. i \in Nat /\ i \in Sectors(p, n) /\ i < PerIndirect * PerIndirect
    BY <1>1
  <2>2. part[j] = ToSector(s, k, l)
    BY DEF c, first, DataList
  <2>3. l \in BOOLEAN
    OBVIOUS
  <2> HIDE DEF i, l
  <2>4. s \in Data[f] \cup {None, Unset}
    BY <2>1, PlaceFacts
  <2>5. b \in [0 .. SectorSize - 1 -> Byte]
    BY <2>1, <2>4, <1>2, BufferFacts
  <2>6. k \in Content /\ k.kind = "data"
    BY <2>5, ContentMade
  <2> HIDE DEF s, k, b
  <2>7. s \in Sector \cup {None, Unset}
    BY <2>4, <1>2
  <2>8. /\ ToSector(s, k, l) \in Write /\ ToSector(s, k, l).to = "sector"
        /\ ToSector(s, k, l).at = s /\ ToSector(s, k, l).put = k /\ ToSector(s, k, l).links = l
    BY <2>3, <2>6, <2>7, SectorWrite
  <2> QED BY <2>2, <2>4, <2>6, <2>8 DEF l
<1>4. part \in [1 .. c -> Write]
  <2> HIDE DEF Write
  <2>1. part = [j \in 1 .. c |-> part[j]]
    BY DEF c, DataList
  <2> QED BY <2>1, <1>3
<1>5. part \in Seq(Write) /\ Len(part) = c
  <2> HIDE DEF Write
  <2>1. c \in Nat
    BY <1>1
  <2> QED BY <2>1, <1>4, ListMade
<1>6. part # <<>>
  BY <1>1, <1>5
<1>7. \A w \in Elements(part) : \E j \in 1 .. c : w = part[j]
  BY <1>5 DEF Elements
<1>8. ASSUME NEW w \in Elements(part)
      PROVE  /\ ~w.links /\ w.to = "sector" /\ w.put \in Content /\ w.put.kind = "data"
             /\ w.at \in Data[f] \cup {None, Unset}
  <2>1. PICK j \in 1 .. c : w = part[j]
    BY <1>7
  <2> HIDE DEF Write, Content
  <2> QED BY <2>1, <1>3
<1>9. DataWrites(Elements(part), f, Data)
  <2> HIDE DEF Write, Content
  <2> QED BY <1>8 DEF DataWrites
<1> QED BY <1>5, <1>6, <1>8, <1>9

LEMMA WriteDataKeeps == IInv /\ WriteData => IInv'
<1> SUFFICES ASSUME IInv, WriteData PROVE IInv'
  OBVIOUS
<1> DEFINE f == call.name
           h == call.handle
           header == open[h].header
           p == call.at
           n == call.length
           stop == ToSector(None, Blank, FALSE)
           part == [j \in 1 .. Cardinality(Sectors(p, n)) |->
                      ToSector(ByteToSector(header, p \div SectorSize + j - 1),
                               [kind |-> "data",
                                bytes |-> Buffer(header, p, n, 1, p \div SectorSize + j - 1)],
                               FALSE)]
<1>1. /\ call.op = "write" /\ todo = <<>> /\ call' = [call EXCEPT !.op = "written"]
      /\ disk' = disk /\ freeMap' = freeMap /\ dir' = dir /\ open' = open
      /\ torn' = torn /\ damaged' = damaged
  BY DEF WriteData
<1>2. /\ ~damaged /\ ~torn /\ h \in Handle /\ open[h] # Closed /\ open[h].name = f
      /\ <<p, n>> \in WriteRange /\ call.value = 1
      /\ call = [op |-> "write", name |-> f, handle |-> h, at |-> p, length |-> n,
                 value |-> call.value, before |-> call.before]
  BY <1>1 DEF IInv, CallInv
<1>3. call'.op = "written" /\ call'.name = f
  BY <1>1, <1>2
<1>4. TypeInv
  BY DEF IInv
<1>5. PICK Data, Doubly, Blocks : Resting(Data, Doubly, Blocks)
  BY <1>1, <1>2, AtRest
<1>6. f \in Name
  <2>1. open[h] \in OpenFile
    BY <1>2, <1>4 DEF TypeInv
  <2> QED BY <2>1, <1>2 DEF OpenFile
<1>7. /\ Ownership(Data, Doubly, Blocks) /\ Led(f, Data, Doubly, Blocks)
      /\ HeaderIn(header, Data[f], Doubly[f])
  <2>1. Led(f, Data, Doubly, Blocks)
    BY <1>5, <1>6, RestingLed
  <2> QED BY <2>1, <1>2, <1>5 DEF Resting, Good, OpenOK
<1>8. /\ todo' \in Seq(Write) /\ todo' # <<>>
      /\ \A w \in Elements(todo)' : ~w.links
      /\ DataWrites(Elements(todo)', f, Data)
  <2> DEFINE unreadable == \E i \in Partial(p, n) : /\ i * SectorSize < header.length
                                                    /\ ByteToSector(header, i) = None
  <2>1. unreadable => todo' = <<stop>>
    BY DEF WriteData
  <2>2. ~unreadable => todo' = part
    BY <1>2 DEF WriteData
  <2>3. CASE unreadable
    <3>1. /\ <<stop>> \in Seq(Write) /\ <<stop>> # <<>> /\ Elements(<<stop>>) = {stop}
          /\ ~stop.links /\ DataWrites({stop}, f, Data)
      BY StopWrite
    <3>2. todo' = <<stop>>
      BY <2>1, <2>3
    <3> HIDE DEF stop, Write
    <3> QED BY <3>1, <3>2
  <2>4. CASE ~unreadable
    <3>1. \A j \in Partial(p, n) : j * SectorSize < header.length => ByteToSector(header, j) # None
      BY <2>4
    <3>2. todo' = part
      BY <2>2, <2>4
    <3>3. PICK list : list = part
      OBVIOUS
    <3>4. /\ list \in Seq(Write) /\ list # <<>>
          /\ \A w \in Elements(list) : ~w.links
          /\ DataWrites(Elements(list), f, Data)
      <4>1. DataList(list, header, p, n)
        BY <3>3 DEF DataList
      <4> HIDE DEF f, header, p, n, part
      <4> QED BY <4>1, <3>1, <1>2, <1>4, <1>6, <1>7, DataParts
    <3>5. todo' = list
      BY <3>2, <3>3
    <3> HIDE DEF part, Write
    <3> QED BY <3>4, <3>5
  <2> QED BY <2>3, <2>4
<1> HIDE DEF part, stop, header, p, n
<1>9. TypeInv'
  <2> HIDE DEF Sector, Content, Directory, Write, OpenFile
  <2> QED BY <1>1, <1>3, <1>4, <1>8 DEF TypeInv
<1>10. CallInv'
  BY <1>1, <1>2, <1>3, <1>8 DEF CallInv
<1>11. FinalInv' /\ CrashInv'
  <2>1. Resting(Data, Doubly, Blocks)'
    BY <1>1, <1>5 DEF Resting
  <2>2. dir' \in Directory /\ freeMap' \subseteq Sector
    BY <1>1, <1>4 DEF TypeInv
  <2>3. PICK q, c : q = Elements(todo)' /\ c = f
    OBVIOUS
  <2>4. Elements(todo)' = q /\ call'.name = c /\ DataWrites(q, c, Data)
    BY <2>3, <1>3, <1>8
  <2> QED BY <2>1, <2>2, <2>4, DataWritesKeep
<1> QED BY <1>9, <1>10, <1>11 DEF IInv

-----------------------------------------------------------------------------
(* The theorems                                                                             *)

LEMMA InitHolds == Init => IInv
<1> SUFFICES ASSUME Init PROVE IInv
  OBVIOUS
<1>1. /\ disk = [s \in Sector |-> Blank] /\ freeMap = 0 .. SystemSectors - 1
      /\ dir = [i \in Entry |-> NoEntry] /\ open = [h \in Handle |-> Closed]
      /\ call = NoCall /\ todo = <<>> /\ torn = FALSE /\ damaged = FALSE
  BY DEF Init
<1>2. call.op = "none"
  BY <1>1 DEF NoCall
<1>3. Elements(todo) = {}
  BY <1>1 DEF Elements
<1>4. TypeInv
  <2>1. Blank \in Content
    BY ContentMade
  <2>2. disk \in [Sector -> Content]
    <3> HIDE DEF Content, Sector, Blank
    <3> QED BY <1>1, <2>1
  <2>3. freeMap \subseteq Sector
    BY <1>1, Constants
  <2>4. dir \in Directory
    BY <1>1 DEF Directory
  <2>5. open \in [Handle -> {Closed} \cup OpenFile]
    BY <1>1
  <2>6. todo \in Seq(Write)
    <3> HIDE DEF Write
    <3> QED BY <1>1
  <2> QED BY <2>2, <2>3, <2>4, <2>5, <2>6, <1>1, <1>2 DEF TypeInv
<1>5. CallInv
  BY <1>1, <1>2, <1>3 DEF CallInv
<1> DEFINE none == [f \in Name |-> {}]
           noBlocks == [s \in Sector |-> {}]
<1>6. PICK Data, Blocks : Data = none /\ Blocks = noBlocks
  OBVIOUS
<1>7. Ownership(Data, Data, Blocks)
  BY <1>6 DEF Ownership
<1>8. /\ \A f \in Name : Owned(Data, Data, Blocks, f) = {} /\ Data[f] = {}
      /\ \A i \in Entry : dir[i] = NoEntry
  BY <1>1, <1>6 DEF Owned
<1>9. Good(disk, {}, dir, freeMap, open, Data, Data, Blocks)
  <2>1. DirOK(dir) /\ HeadersOK(disk, {}, dir, freeMap, Data, Data, Blocks)
    BY <1>8 DEF DirOK, HeadersOK
  <2>2. OwnersOK(freeMap, Data, Data, Blocks) /\ ChainsOK(disk, {}, Data, Data, Blocks)
    BY <1>1, <1>8 DEF OwnersOK, ChainsOK
  <2>3. OpenOK(open, Data, Data)
    BY <1>1 DEF OpenOK
  <2> QED BY <2>1, <2>2, <2>3 DEF Good
<1>10. FinalInv
  <2>1. /\ BecomesDir(dir, {}, dir) /\ BecomesMap(freeMap, {}, freeMap)
        /\ ForeignOK(call.name, dir, {}, dir, Data, Data, Blocks)
    BY DEF BecomesDir, BecomesMap, ForeignOK
  <2>2. FinalOK(Elements(todo), dir, freeMap, Data, Data, Blocks)
    BY <2>1, <1>3, <1>4, <1>7, <1>9 DEF FinalOK, TypeInv
  <2> QED BY <2>2 DEF FinalInv
<1>11. CrashInv
  <2>1. open = AllClosed
    BY <1>1 DEF AllClosed
  <2>2. CrashOK(Elements(todo), Data, Data, Blocks)
    BY <2>1, <1>3, <1>7, <1>9 DEF CrashOK
  <2> QED BY <2>2 DEF CrashInv
<1> QED BY <1>4, <1>5, <1>10, <1>11 DEF IInv

LEMMA StepKeeps == IInv /\ [Next]_vars => IInv'
<1> SUFFICES ASSUME IInv, [Next]_vars PROVE IInv'
  OBVIOUS
<1>1. CASE \E f \in Name, size \in FileSize : Create(f, size)
  BY <1>1, CreateKeeps
<1>2. CASE \E f \in Name : Remove(f)
  BY <1>2, RemoveKeeps
<1>3. CASE \E h \in Handle, f \in Name : Open(h, f)
  BY <1>3, OpenKeeps
<1>4. CASE \E h \in Handle : Close(h)
  <2>1. PICK h \in Handle : Close(h)
    BY <1>4
  <2>2. PICK f \in Name : open[h].name = f
    <3>1. Idle /\ open[h] # Closed
      BY <2>1 DEF Close
    <3>2. open[h] \in OpenFile
      BY <2>1, <3>1 DEF IInv, TypeInv
    <3> QED BY <3>2 DEF OpenFile
  <2> QED BY <2>1, <2>2, OpenKeeps
<1>5. CASE \E h \in Handle, r \in WriteRange :
             ReadAtStops(h, r[1], r[2]) \/ WriteAt(h, r[1], r[2], 1)
  <2>1. PICK h \in Handle, r \in WriteRange :
               ReadAtStops(h, r[1], r[2]) \/ WriteAt(h, r[1], r[2], 1)
    BY <1>5
  <2>2. <<r[1], r[2]>> \in WriteRange
    <3>1. r \in Nat \X (Nat \ {0})
      BY FileSystemAssumption
    <3>2. r = <<r[1], r[2]>>
      BY <3>1
    <3> QED BY <3>2
  <2> QED BY <2>1, <2>2, ReadAtStopsKeeps, WriteAtKeeps
<1>6. CASE WriteData
  BY <1>6, WriteDataKeeps
<1>7. CASE DiskWrite
  BY <1>7, DiskWriteKeeps
<1>8. CASE DiskStops \/ WildWrite \/ Crash \/ Return
  BY <1>8, StopsKeep
<1>9. CASE UNCHANGED vars
  BY <1>9, StutterKeeps
<1> QED BY <1>1, <1>2, <1>3, <1>4, <1>5, <1>6, <1>7, <1>8, <1>9 DEF Next

(* Whatever the calls do and wherever the machine stops, the call under way ends in a state *)
(* where every sector has one owner, and unless the stop tears two linked structures apart  *)
(* the disk is in such a state as it is. *)
THEOREM InvariantHolds == Spec => []IInv
<1>1. Init => IInv
  BY InitHolds
<1>2. IInv /\ [Next]_vars => IInv'
  BY StepKeeps
<1> QED BY <1>1, <1>2, PTL DEF Spec

(* The structures on disk, in memory and in the writes to come keep their types.            *)
THEOREM TypeCorrect == Spec => []TypeOK
<1>1. IInv => TypeOK
  <2> SUFFICES ASSUME IInv PROVE TypeOK
    OBVIOUS
  <2>1. TypeInv
    BY DEF IInv
  <2>2. \A i \in Entry : dir[i] = NoEntry \/ (dir[i].name \in Name /\ dir[i].sector \in Sector)
    <3> HIDE DEF Sector, NoEntry
    <3> QED BY <2>1 DEF TypeInv, Directory
  <2>3. \A h \in Handle : open[h] = Closed \/ (open[h].name \in Name /\ open[h].header \in Header)
    <3> HIDE DEF Header, Closed
    <3> QED BY <2>1 DEF TypeInv, OpenFile
  <2>4. \A j \in 1 .. Len(todo) : todo[j].at \in Sector \cup {None, Unset}
    <3> SUFFICES ASSUME NEW j \in 1 .. Len(todo) PROVE todo[j].at \in Sector \cup {None, Unset}
      OBVIOUS
    <3>1. todo[j] \in Write
      <4> HIDE DEF Write
      <4> QED BY <2>1 DEF TypeInv
    <3> QED BY <3>1, WriteFacts
  <2> HIDE DEF Content, Sector, Header
  <2> QED BY <2>1, <2>2, <2>3, <2>4 DEF TypeInv, TypeOK
<1> QED BY <1>1, InvariantHolds, PTL

(* Two files never own a sector in common, none owns one of the system's, and every sector  *)
(* a file owns is marked in the bitmap: for its header and tables on disk, and for the      *)
(* headers that its OpenFiles hold. *)
THEOREM SectorsNotShared == Spec => []NoSharedSectors
<1>1. IInv => NoSharedSectors
  <2> SUFFICES ASSUME IInv, call = NoCall, ~damaged
               PROVE  /\ \A f \in Name : FileSectors(f) \subseteq freeMap \ (0 .. SystemSectors - 1)
                      /\ \A f, g \in Name : f # g => FileSectors(f) \cap FileSectors(g) = {}
    BY DEF NoSharedSectors
  <2>1. TypeInv
    BY DEF IInv
  <2>2. PICK Data, Doubly, Blocks : Resting(Data, Doubly, Blocks)
    BY IdleRests DEF Idle
  <2>3. /\ Ownership(Data, Doubly, Blocks) /\ OwnersOK(freeMap, Data, Doubly, Blocks)
        /\ OpenOK(open, Data, Doubly)
    BY <2>2 DEF Resting, Good
  <2> DEFINE own(f) == Owned(Data, Doubly, Blocks, f)
             found(f) == IF Listed(f) THEN {Find(f)} ELSE {}
  <2>4. ASSUME NEW f \in Name PROVE FileSectors(f) \subseteq own(f) \cup found(f)
    <3>1. Led(f, Data, Doubly, Blocks)
      BY <2>2, RestingLed
    <3>2. Listed(f) => SectorsOf(HeaderOf(f)) \subseteq own(f)
      <4> SUFFICES ASSUME Listed(f) PROVE SectorsOf(HeaderOf(f)) \subseteq own(f)
        OBVIOUS
      <4>1. HeaderIn(HeaderOf(f), Data[f], Doubly[f])
        BY <2>1, <2>2, HeaderFacts
      <4> QED BY <4>1, <3>1, <2>1, <2>3, SectorsOwned
    <3>3. ASSUME NEW h \in Handle, open[h].name = f PROVE SectorsOf(open[h].header) \subseteq own(f)
      <4>1. open[h] # Closed
        BY <3>3, FileSystemAssumption DEF Closed
      <4>2. HeaderIn(open[h].header, Data[f], Doubly[f])
        BY <4>1, <3>3, <2>3 DEF OpenOK
      <4> QED BY <4>2, <3>1, <2>1, <2>3, SectorsOwned
    <3> HIDE DEF own
    <3> QED BY <3>2, <3>3 DEF FileSectors
  <2>5. ASSUME NEW f \in Name, NEW g \in Name, Listed(f)
        PROVE  /\ Find(f) \in freeMap \ (0 .. SystemSectors - 1) /\ Find(f) \notin own(g)
               /\ Listed(g) /\ f # g => Find(f) # Find(g)
    <3>1. /\ \A x \in Name : Find(f) \notin own(x)
          /\ Find(f) \in freeMap \ (0 .. SystemSectors - 1)
          /\ \A i \in Entry : i # FindIndex(f) /\ dir[i] # NoEntry =>
               dir[i].name # f /\ dir[i].sector # Find(f)
      BY <2>1, <2>2, <2>5, HeaderFacts
    <3>2. Listed(g) => /\ FindIndex(g) \in Entry /\ dir[FindIndex(g)] # NoEntry
                       /\ dir[FindIndex(g)].name = g /\ dir[FindIndex(g)].sector = Find(g)
      BY <2>1, FindFacts
    <3>3. dir[FindIndex(f)].name = f
      BY <2>1, <2>5, FindFacts
    <3> QED BY <3>1, <3>2, <3>3
  <2>6. /\ \A f \in Name : own(f) \subseteq freeMap \ (0 .. SystemSectors - 1)
        /\ \A f, g \in Name : f # g => own(f) \cap own(g) = {}
    BY <2>3 DEF OwnersOK
  <2> HIDE DEF own
  <2>7. \A f \in Name : FileSectors(f) \subseteq freeMap \ (0 .. SystemSectors - 1)
    BY <2>4, <2>5, <2>6
  <2>8. \A f, g \in Name : f # g => FileSectors(f) \cap FileSectors(g) = {}
    <3> SUFFICES ASSUME NEW f \in Name, NEW g \in Name, f # g, NEW s, s \in FileSectors(f),
                        s \in FileSectors(g)
                 PROVE  FALSE
      OBVIOUS
    <3>1. (s \in own(f) \/ (Listed(f) /\ s = Find(f))) /\ (s \in own(g) \/ (Listed(g) /\ s = Find(g)))
      BY <2>4
    <3> QED BY <3>1, <2>5, <2>6
  <2> QED BY <2>7, <2>8
<1> QED BY <1>1, InvariantHolds, PTL

-----------------------------------------------------------------------------
(* Isolation                                                                                *)

(* What a reader sees on the disk k of the file whose header is in sector s.                *)
SlotsIn(k, s) == IF s # None /\ k[s].kind = "pointers" THEN k[s].slots ELSE NoPointers
PlaceIn(k, header, i) ==
  IF i < NumDirect THEN header.direct[i]
  ELSE SlotsIn(k, SlotsIn(k, header.doubly)[i \div PerIndirect])[i % PerIndirect]
ByteIn(k, header, p) ==
  LET s == PlaceIn(k, header, p \div SectorSize)
  IN CASE s = None -> Unreadable
       [] s = Unset -> Junk
       [] OTHER -> IF k[s].kind = "data" THEN k[s].bytes[p % SectorSize] ELSE Junk
ViewIn(k, s) ==
  IF k[s].kind = "header"
    THEN [p \in 0 .. k[s].header.length - 1 |-> ByteIn(k, k[s].header, p)] ELSE <<>>

LEMMA ViewIs ==
  ASSUME NEW f
  PROVE  View(f) = ViewIn(disk, Find(f)) /\ View(f)' = ViewIn(disk', Find(f)')
<1>1. View(f) = ViewIn(disk, Find(f))
  BY DEF View, ViewIn, HeaderOf, Bytes, ByteAt, ByteIn, ByteToSector, PlaceIn, IndirectOf,
         PointersAt, SlotsIn
<1>2. View(f)' = ViewIn(disk', Find(f)')
  BY DEF View, ViewIn, HeaderOf, Bytes, ByteAt, ByteIn, ByteToSector, PlaceIn, IndirectOf,
         PointersAt, SlotsIn
<1> QED BY <1>1, <1>2

(* A disk that differs only in sectors that the file does not own shows the same file.      *)
LEMMA SameView ==
  ASSUME TypeInv, NEW f \in Name, NEW Data, NEW Doubly, NEW Blocks,
         Ownership(Data, Doubly, Blocks), Led(f, Data, Doubly, Blocks),
         NEW s, disk[s] \in Headers(Data[f], Doubly[f]),
         NEW k, k[s] = disk[s], \A x \in Owned(Data, Doubly, Blocks, f) : k[x] = disk[x]
  PROVE  ViewIn(k, s) = ViewIn(disk, s)
<1>1. PICK header : header = disk[s].header
  OBVIOUS
<1>2. /\ disk[s].kind = "header" /\ HeaderIn(header, Data[f], Doubly[f])
      /\ divRoundUp(header.length, SectorSize) <= NumSectors
  <2> HIDE DEF Content
  <2> QED BY <1>1 DEF Headers
<1>3. header.length \in Nat
  BY <1>2 DEF HeaderIn, Header
<1>4. ASSUME NEW p \in 0 .. header.length - 1
      PROVE  ByteIn(k, header, p) = ByteIn(disk, header, p)
  <2> DEFINE i == p \div SectorSize
             d == header.doubly
             own == Owned(Data, Doubly, Blocks, f)
  <2>1. p \in Nat /\ i \in Nat /\ i < PerIndirect * PerIndirect
    <3>1. p \in Nat /\ p < header.length /\ SectorSize \in Nat \ {0}
      BY <1>3, Constants
    <3>2. i \in Nat
      BY <3>1, DivFacts
    <3> DEFINE l == header.length
               e == l + SectorSize - 1
               y == e \div SectorSize
    <3>3. e \in Nat
      BY <3>1, <1>3
    <3>4. y \in Nat /\ e < SectorSize * y + SectorSize /\ y <= NumSectors
      <4> HIDE DEF e
      <4>1. y \in Nat /\ e < SectorSize * y + SectorSize
        BY <3>1, <3>3, DivFacts
      <4> QED BY <4>1, <1>2 DEF divRoundUp, e
    <3>5. p < SectorSize * y
      <4> HIDE DEF y
      <4>1. SectorSize * y \in Int
        BY <3>1, <3>4
      <4> QED BY <3>1, <3>4, <4>1, <1>3
    <3>6. i < y
      <4> HIDE DEF y
      <4> QED BY <3>1, <3>4, <3>5, DivBound
    <3>7. NumSectors <= PerIndirect * PerIndirect /\ NumSectors \in Nat
          /\ PerIndirect * PerIndirect \in Nat
      BY FileSystemAssumption, Constants
    <3> HIDE DEF i, y
    <3> QED BY <3>1, <3>2, <3>4, <3>6, <3>7
  <2>2. ByteToSector(header, i) \in Data[f] \cup {None, Unset}
    <3> HIDE DEF i
    <3> QED BY <1>2, <2>1, PlaceFacts
  <2>3. ByteToSector(header, i) = PlaceIn(disk, header, i)
    BY DEF ByteToSector, IndirectOf, PointersAt, PlaceIn, SlotsIn
  <2>4. PlaceIn(k, header, i) = PlaceIn(disk, header, i)
    <3>1. CASE i < NumDirect
      BY <3>1 DEF PlaceIn
    <3>2. CASE ~(i < NumDirect)
      <4>1. LeadsTo(d, BlocksOf(Blocks, d), Data[f])
        BY <1>2, HeaderLeads
      <4>2. i \div PerIndirect \in Slot /\ i % PerIndirect \in Slot
        <5> HIDE DEF i
        <5> QED BY <2>1, PointerPlace
      <4>3. d # None => d \in Doubly[f] /\ BlocksOf(Blocks, d) = Blocks[d]
        BY <1>2 DEF HeaderIn, BlocksOf
      <4>4. d # None => k[d] = disk[d] /\ \A b \in Blocks[d] : k[b] = disk[b]
        BY <4>3 DEF Owned
      <4> DEFINE b == SlotsIn(disk, d)[i \div PerIndirect]
      <4>5. SlotsIn(k, d) = SlotsIn(disk, d)
        BY <4>4 DEF SlotsIn
      <4>6. b \in BlocksOf(Blocks, d) \cup {None}
        BY <4>1, <4>2 DEF LeadsTo, PointersAt, SlotsIn
      <4>7. b # None => k[b] = disk[b]
        BY <4>3, <4>4, <4>6 DEF BlocksOf
      <4>8. SlotsIn(k, b) = SlotsIn(disk, b)
        <5> HIDE DEF b
        <5> QED BY <4>7 DEF SlotsIn
      <4> QED BY <3>2, <4>5, <4>8 DEF PlaceIn
    <3> QED BY <3>1, <3>2
  <2>5. PICK x : x = PlaceIn(disk, header, i)
    OBVIOUS
  <2>6. x \notin {None, Unset} => k[x] = disk[x]
    BY <2>2, <2>3, <2>5 DEF Owned
  <2> QED BY <2>4, <2>5, <2>6 DEF ByteIn
<1>5. k[s].kind = "header" /\ k[s].header = header
  BY <1>1, <1>2
<1>6. ViewIn(k, s) = [p \in 0 .. header.length - 1 |-> ByteIn(k, header, p)]
  BY <1>5 DEF ViewIn
<1>7. ViewIn(disk, s) = [p \in 0 .. header.length - 1 |-> ByteIn(disk, header, p)]
  BY <1>1, <1>2 DEF ViewIn
<1> QED BY <1>4, <1>6, <1>7

(* A file listed before and after a write, which is not the file of the call.               *)
LEMMA ForeignView ==
  ASSUME IInv, DiskWrite, NEW f \in Name, f # call.name, Listed(f), Listed(f)'
  PROVE  View(f)' = View(f)
<1> DEFINE w == Head(todo)
           q == Elements(todo)
<1>1. /\ todo # <<>>
      /\ disk' = IF w.to = "sector" THEN [disk EXCEPT ![w.at] = w.put] ELSE disk
      /\ dir' = IF w.to = "dir" THEN w.put ELSE dir
      /\ w.at \in Sector
  BY DEF DiskWrite
<1>2. TypeInv /\ ~damaged
  BY <1>1 DEF IInv, CallInv
<1>3. w \in q
  BY <1>1, <1>2, LastWrite
<1>4. PICK r, m, Data, Doubly, Blocks : FinalOK(q, r, m, Data, Doubly, Blocks)
  BY <1>2 DEF IInv, FinalInv
<1> DEFINE c == call.name
<1>5. /\ Ownership(Data, Doubly, Blocks) /\ BecomesDir(dir, q, r)
      /\ DirOK(r) /\ HeadersOK(disk, q, r, m, Data, Doubly, Blocks)
      /\ ChainsOK(disk, q, Data, Doubly, Blocks)
      /\ ForeignOK(c, dir, q, r, Data, Doubly, Blocks)
  BY <1>4 DEF FinalOK, Good
<1> HIDE DEF q, w
<1>6. PICK i \in Entry : /\ i = FindIndex(f) /\ dir[i] # NoEntry /\ dir[i].name = f
                         /\ dir[i].sector = Find(f)
  BY <1>2, FindFacts
<1>7. PICK j \in Entry : /\ j = FindIndex(f)' /\ dir'[j].name = f /\ dir'[j].sector = Find(f)'
  BY DEF Listed, FindIndex, Find
<1>8. f # NoName /\ f # c
  BY FileSystemAssumption
<1>9. \A e \in Entry : dir[e].name = f \/ r[e].name = f => r[e] = dir[e]
  BY <1>5, <1>8 DEF ForeignOK
<1>10. dir' = dir \/ dir' = r
  BY <1>1, <1>3, <1>5 DEF BecomesDir
<1>11. r[j].name = f /\ dir'[j] = r[j] /\ r[j] # NoEntry
  <2>1. r[j].name = f /\ dir'[j] = r[j]
    BY <1>7, <1>9, <1>10
  <2> QED BY <2>1, <1>8 DEF NoEntry
<1>12. r[i] = dir[i]
  BY <1>6, <1>9
<1>13. i = j
  BY <1>5, <1>6, <1>11, <1>12 DEF DirOK
<1>14. PICK s : s = Find(f) /\ s = Find(f)' /\ s = r[i].sector
  BY <1>6, <1>7, <1>11, <1>12, <1>13
<1>15. /\ \A v \in q : v.to = "sector" => v.at # s /\ v.at \notin Owned(Data, Doubly, Blocks, f)
  BY <1>5, <1>6, <1>8, <1>12, <1>14 DEF ForeignOK
<1>16. disk[s] \in Headers(Data[f], Doubly[f])
  <2>1. Becomes(disk, q, s, Headers(Data[f], Doubly[f]))
    BY <1>5, <1>6, <1>12, <1>14 DEF HeadersOK
  <2> QED BY <2>1, <1>15 DEF Becomes, Targets
<1>17. Led(f, Data, Doubly, Blocks)
  <2> SUFFICES ASSUME NEW d \in Doubly[f]
               PROVE  /\ disk[d] \in Tables(Blocks[d])
                      /\ \A b \in Blocks[d] : disk[b] \in Tables(Data[f])
    BY DEF Led
  <2>1. /\ Becomes(disk, q, d, Tables(Blocks[d]))
        /\ \A b \in Blocks[d] : Becomes(disk, q, b, Tables(Data[f]))
    BY <1>5 DEF ChainsOK
  <2>2. d \in Owned(Data, Doubly, Blocks, f) /\ Blocks[d] \subseteq Owned(Data, Doubly, Blocks, f)
    BY DEF Owned
  <2> QED BY <2>1, <2>2, <1>15 DEF Becomes, Targets
<1>18. disk'[s] = disk[s] /\ \A x \in Owned(Data, Doubly, Blocks, f) : disk'[x] = disk[x]
  <2>1. disk \in [Sector -> Content] /\ Owned(Data, Doubly, Blocks, f) \subseteq Sector /\ s \in Sector
    <3>1. s \in Sector
      BY <1>2, <1>14, FindFacts
    <3>2. disk \in [Sector -> Content]
      BY <1>2 DEF TypeInv
    <3>3. Owned(Data, Doubly, Blocks, f) \subseteq Sector
      BY <1>5 DEF Owned, Ownership
    <3> QED BY <3>1, <3>2, <3>3
  <2> HIDE DEF Content, Sector
  <2> QED BY <2>1, <1>1, <1>3, <1>15
<1>19. ViewIn(disk', s) = ViewIn(disk, s)
  <2>1. PICK k : k = disk'
    OBVIOUS
  <2>2. ViewIn(k, s) = ViewIn(disk, s)
    BY <2>1, <1>2, <1>5, <1>16, <1>17, <1>18, SameView
  <2> QED BY <2>1, <2>2
<1> QED BY <1>14, <1>19, ViewIs

(* A call on one file, whatever it writes and wherever the machine stops it, changes        *)
(* nothing that a reader sees of a file which is listed before and after the step. *)
THEOREM Isolated == Spec => FilesAreIsolated
<1> DEFINE A == \A f \in Name :
                  f # call.name /\ Listed(f) /\ Listed(f)' /\ ~damaged' /\ call # NoCall
                    => View(f)' = View(f)
<1>1. IInv /\ [Next]_vars => [A]_vars
  <2> SUFFICES ASSUME IInv, Next, call # NoCall, NEW f \in Name, f # call.name,
                      Listed(f), Listed(f)'
               PROVE  View(f)' = View(f)
    OBVIOUS
  <2>1. DiskWrite \/ (disk' = disk /\ dir' = dir)
    BY DEF Next, Idle, Create, Remove, Open, Close, ReadAtStops, WriteAt, WriteData, DiskStops,
           WildWrite, Crash, Return, Reboot
  <2>2. CASE DiskWrite
    BY <2>2, ForeignView
  <2>3. CASE disk' = disk /\ dir' = dir
    <3>1. Find(f)' = Find(f)
      BY <2>3 DEF Find, FindIndex
    <3> QED BY <2>3, <3>1, ViewIs
  <2> QED BY <2>1, <2>2, <2>3
<1> QED BY <1>1, InvariantHolds, PTL DEF Spec, FilesAreIsolated

=============================================================================
