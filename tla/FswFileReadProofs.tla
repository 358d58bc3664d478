--------------------------- MODULE FswFileReadProofs ---------------------------
(***************************************************************************)
(* For every disk, tree and handle: the search of a reiserfs tree ends at   *)
(* the right item, every block got for it and for an extent is given back,  *)
(* an extent maps what the file's own structures name, and what a read      *)
(* delivers is the file.                                                    *)
(***************************************************************************)
EXTENDS FswFileRead, FswReiserfsTreeProofs

------------------------------------------------------------------------------
(* Division.                                                                  *)

LEMMA Times ==
    ASSUME NEW a \in Nat, NEW b \in Nat, NEW c \in Nat, a <= b
    PROVE  c * a <= c * b /\ c * a \in Nat /\ c * b \in Nat
OBVIOUS

LEMMA Division ==
    ASSUME NEW a \in Nat, NEW b \in Nat \ {0}
    PROVE  /\ a \div b \in Nat /\ a % b \in 0 .. b - 1
           /\ a = (b * (a \div b)) + (a % b)
OBVIOUS

LEMMA DivUnique ==
    ASSUME NEW q \in Nat, NEW r \in Nat, NEW b \in Nat \ {0}, r < b
    PROVE  ((b * q) + r) \div b = q /\ ((b * q) + r) % b = r
OBVIOUS

LEMMA AtMost ==
    ASSUME NEW a \in Nat, NEW b \in Nat \ {0}
    PROVE  a % b \in Nat /\ a % b <= a
<1>1. /\ a \div b \in Nat /\ a % b \in 0 .. b - 1
      /\ a = (b * (a \div b)) + (a % b)
  BY Division
<1>2. b * (a \div b) \in Nat
  BY <1>1
<1>3. QED
  BY <1>1, <1>2

LEMMA Narrow ==
    ASSUME NEW a \in Nat, NEW b \in Nat \ {0}, a < b
    PROVE  a % b = a
OBVIOUS

(* Moving on within a block. *)
LEMMA StayInBlock ==
    ASSUME NEW a \in Nat, NEW k \in Nat, NEW b \in Nat \ {0}, (a % b) + k < b
    PROVE  (a + k) \div b = a \div b /\ (a + k) % b = (a % b) + k
OBVIOUS

(* Dividing twice. *)
LEMMA DivDiv ==
    ASSUME NEW a \in Nat, NEW b \in Nat \ {0}, NEW c \in Nat \ {0}
    PROVE  (a \div b) \div c = a \div (b * c)
<1> DEFINE q == a \div b
           u == q \div c
           r == a % b
           v == q % c
<1>1. /\ a = (b * q) + r /\ q = (c * u) + v /\ r \in 0 .. b - 1 /\ v \in 0 .. c - 1
      /\ q \in Nat /\ u \in Nat
  BY Division
<1> HIDE DEF q, u, r, v
<1>2. a = (b * (c * u)) + ((b * v) + r)
  BY <1>1
<1>3. /\ b * v <= b * (c - 1) /\ (b * v) + r < b * c
      /\ b * c \in Nat \ {0} /\ (b * v) + r \in Nat
  BY <1>1
<1>4. b * (c * u) = (b * c) * u
  BY <1>1
<1>5. a \div (b * c) = u
  BY <1>1, <1>2, <1>3, <1>4, DivUnique
<1>6. QED
  BY <1>5 DEF u, q

(* A position whose block is one of n from s on, relative to s. *)
LEMMA InBlocks ==
    ASSUME NEW p \in Nat, NEW s \in Nat, NEW n \in Nat, NEW b \in Nat \ {0},
           p \div b >= s, p \div b < s + n
    PROVE  p - s * b \in Nat /\ p - s * b < n * b
<1> DEFINE q == p \div b
<1>1. q \in Nat /\ p = (b * q) + (p % b) /\ p % b \in 0 .. b - 1
  BY Division
<1> HIDE DEF q
<1>2. b * s <= b * q /\ b * s \in Nat /\ b * q \in Nat
  BY <1>1, Times DEF q
<1>3. b * (q + 1) <= b * (s + n)
  BY <1>1, Times DEF q
<1>4. b * (q + 1) = (b * q) + b /\ b * (s + n) = (s * b) + (n * b) /\ b * s = s * b
  BY <1>1
<1>5. s * b \in Nat /\ n * b \in Nat
  OBVIOUS
<1>6. QED
  BY <1>1, <1>2, <1>3, <1>4, <1>5

(* A position below n blocks is in one of them. *)
LEMMA BlockBelow ==
    ASSUME NEW p \in Nat, NEW n \in Nat, NEW b \in Nat \ {0}, p < n * b
    PROVE  p \div b < n
<1> DEFINE q == p \div b
<1>1. q \in Nat /\ p = (b * q) + (p % b) /\ p % b \in 0 .. b - 1
  BY Division
<1> HIDE DEF q
<1>2. SUFFICES ASSUME n <= q PROVE FALSE
  BY <1>1 DEF q
<1>3. b * n <= b * q /\ b * n = n * b
  BY <1>1, <1>2, Times
<1>4. QED
  BY <1>1, <1>3

------------------------------------------------------------------------------
(* The pointers of an ext2 file.                                              *)

LEMMA FileTypes ==
    ASSUME FileAssumption, file \in DOMAIN Disk
    PROVE  /\ NDir \in Nat \ {0} /\ IndCount \in Nat \ {0} /\ BlockSize \in Nat \ {0}
           /\ DIndCount \in Nat \ {0} /\ MaxBlocks \in Nat
           /\ DIndCount = IndCount * IndCount
           /\ MaxBlocks = NDir + IndCount + DIndCount + DIndCount * IndCount
           /\ Size \in Nat /\ 2^W \in Int
<1>1. /\ NDir \in Nat \ {0} /\ IndCount \in Nat \ {0} /\ BlockSize \in Nat \ {0} /\ W \in Nat
      /\ Disk[file].size \in Nat
  BY FileAssumption DEF FileAssumption
<1>2. 2^W \in Int
  BY <1>1
<1>3. Size \in Nat /\ 2^W \in Int
  BY <1>1, <1>2 DEF Size
<1>4. IndCount * IndCount \in Nat \ {0}
  BY <1>1
<1>5. DIndCount \in Nat \ {0}
  BY <1>4 DEF DIndCount
<1>6. DIndCount * IndCount \in Nat
  BY <1>1, <1>5
<1>7. MaxBlocks \in Nat
  BY <1>1, <1>5, <1>6 DEF MaxBlocks
<1>8. QED
  BY <1>1, <1>3, <1>5, <1>7 DEF DIndCount, MaxBlocks

(* The path to a block: its first index is into the inode, those after it     *)
(* into indirect blocks.                                                      *)
LEMMA PathShape ==
    ASSUME FileAssumption, file \in DOMAIN Disk, NEW l \in Nat, l < MaxBlocks
    PROVE  LET p == PathTo(l)
           IN  /\ p \in Seq(Nat) /\ Len(p) \in 1 .. 4
               /\ Len(p) = 1 => p[1] = l /\ l < NDir
               /\ Len(p) > 1 => p[1] = NDir + Len(p) - 2
               /\ \A i \in 2 .. Len(p) : p[i] \in Indices
<1> DEFINE ind == l - NDir
           dind == ind - IndCount
           tind == dind - DIndCount
<1>1. /\ NDir \in Nat \ {0} /\ IndCount \in Nat \ {0}
      /\ DIndCount \in Nat \ {0} /\ MaxBlocks \in Nat
      /\ DIndCount = IndCount * IndCount
      /\ MaxBlocks = NDir + IndCount + DIndCount + DIndCount * IndCount
  BY FileTypes, FileAssumption
<1>2. /\ ind \in Int /\ dind \in Int /\ tind \in Int
      /\ l < NDir => ind < 0 /\ dind < 0 /\ tind < 0
      /\ ind < IndCount => dind < 0 /\ tind < 0
      /\ dind < DIndCount => tind < 0
      /\ l >= NDir => ind \in Nat
      /\ ind >= IndCount => dind \in Nat
      /\ dind >= DIndCount => tind \in Nat
      /\ tind < DIndCount * IndCount
  BY <1>1
<1>3. /\ \A x \in Nat : x % IndCount \in Indices
      /\ \A x \in Nat : x < DIndCount => x \div IndCount \in Indices
      /\ \A x \in Nat : x < DIndCount * IndCount => x \div DIndCount \in Indices
  <2>1. \A x \in Nat : x % IndCount \in Indices
    BY <1>1, Division DEF Indices
  <2>2. ASSUME NEW x \in Nat, x < DIndCount PROVE x \div IndCount \in Indices
    <3>1. x \div IndCount \in Nat /\ x \div IndCount < IndCount
      BY <1>1, <2>2, Division, BlockBelow
    <3>2. QED
      BY <1>1, <3>1 DEF Indices
  <2>3. ASSUME NEW x \in Nat, x < DIndCount * IndCount PROVE x \div DIndCount \in Indices
    <3>1. DIndCount * IndCount = IndCount * DIndCount
      BY <1>1
    <3>2. x \div DIndCount \in Nat /\ x \div DIndCount < IndCount
      BY <1>1, <2>3, <3>1, Division, BlockBelow
    <3>3. QED
      BY <1>1, <3>2 DEF Indices
  <2>4. QED
    BY <2>1, <2>2, <2>3
<1>4. Indices \subseteq Nat
  BY <1>1 DEF Indices
<1>5. PathTo(l) =
        CASE l < NDir -> <<l>>
          [] l >= NDir /\ ind < IndCount -> <<NDir, ind>>
          [] ind >= IndCount /\ dind < DIndCount ->
               <<NDir + 1, dind \div IndCount, dind % IndCount>>
          [] OTHER -> <<NDir + 2, tind \div DIndCount, (tind \div IndCount) % IndCount,
                        tind % IndCount>>
  BY DEF PathTo
<1> HIDE DEF ind, dind, tind
<1> DEFINE p == PathTo(l)
           Shape == /\ p \in Seq(Nat) /\ Len(p) \in 1 .. 4
                    /\ Len(p) = 1 => p[1] = l /\ l < NDir
                    /\ Len(p) > 1 => p[1] = NDir + Len(p) - 2
                    /\ \A i \in 2 .. Len(p) : p[i] \in Indices
<1>6. CASE l < NDir
  <2>1. p = <<l>>
    <3>1. l < NDir /\ ~(l >= NDir) /\ ~(ind >= IndCount)
      BY ONLY <1>1, <1>2, <1>6, l \in Nat
    <3>2. QED
      BY ONLY <1>5, <3>1
  <2> HIDE DEF p
  <2>2. p \in Seq(Nat) /\ Len(p) = 1 /\ p[1] = l
    BY <2>1, Tuples
  <2>3. Shape
    BY ONLY <1>6, <2>2
  <2>4. QED
    BY <2>3 DEF p
<1>7. CASE l >= NDir /\ ind < IndCount
  <2>1. p = <<NDir, ind>>
    <3>1. ~(l < NDir) /\ l >= NDir /\ ind < IndCount /\ ~(ind >= IndCount)
      BY ONLY <1>1, <1>2, <1>7, l \in Nat
    <3>2. QED
      BY ONLY <1>5, <3>1
  <2> HIDE DEF p
  <2>2. ind \in Indices
    BY <1>1, <1>2, <1>7 DEF Indices
  <2>3. p \in Seq(Nat) /\ Len(p) = 2 /\ p[1] = NDir /\ p[2] \in Indices
    BY <1>1, <1>4, <2>1, <2>2, Tuples
  <2>4. Shape
    BY ONLY <1>1, <2>3
  <2>5. QED
    BY <2>4 DEF p
<1>8. CASE ind >= IndCount /\ dind < DIndCount
  <2> DEFINE x == dind \div IndCount
             y == dind % IndCount
  <2>1. p = <<NDir + 1, x, y>>
    <3>1. ~(l < NDir) /\ ~(ind < IndCount) /\ ind >= IndCount /\ dind < DIndCount
      BY ONLY <1>1, <1>2, <1>8, l \in Nat
    <3>2. QED
      BY ONLY <1>5, <3>1
  <2>2. x \in Indices /\ y \in Indices
    BY <1>1, <1>2, <1>3, <1>8
  <2> HIDE DEF p, x, y
  <2>3. p \in Seq(Nat) /\ Len(p) = 3 /\ p[1] = NDir + 1 /\ p[2] \in Indices /\ p[3] \in Indices
    BY <1>1, <1>4, <2>1, <2>2, Tuples
  <2>4. Shape
    BY ONLY <1>1, <2>3
  <2>5. QED
    BY <2>4 DEF p
<1>9. CASE l >= NDir /\ ind >= IndCount /\ dind >= DIndCount
  <2> DEFINE x == tind \div DIndCount
             y == (tind \div IndCount) % IndCount
             z == tind % IndCount
  <2>1. p = <<NDir + 2, x, y, z>>
    <3>1. ~(l < NDir) /\ ~(ind < IndCount) /\ ~(dind < DIndCount)
      BY ONLY <1>1, <1>2, <1>9, l \in Nat
    <3>2. QED
      BY ONLY <1>5, <3>1
  <2>2. x \in Indices /\ y \in Indices /\ z \in Indices
    BY <1>1, <1>2, <1>3, <1>9, Division
  <2> HIDE DEF p, x, y, z
  <2>3. /\ p \in Seq(Nat) /\ Len(p) = 4 /\ p[1] = NDir + 2
        /\ p[2] \in Indices /\ p[3] \in Indices /\ p[4] \in Indices
    BY <1>1, <1>4, <2>1, <2>2, Tuples
  <2>4. Shape
    BY ONLY <1>1, <2>3
  <2>5. QED
    BY <2>4 DEF p
<1>10. QED
  BY <1>1, <1>2, <1>6, <1>7, <1>8, <1>9

(* The blocks a walk with n pointers left to follow may have on loan. *)
PointerBlocks(n) ==
    LET ib == Disk[file].i_block
    IN  IF n = 3 THEN {ib[NDir + 2]}
        ELSE IF n = 2 THEN {ib[NDir + 1]} \union {Below(ib[NDir + 2], i) : i \in Indices}
        ELSE IndirectBlocks(ib)

(* A walk in progress: with nothing on loan it is at the inode, and otherwise *)
(* at an indirect block the path leads through.                               *)
ExtWalk ==
    /\ walk \in [path : Seq(Nat)] /\ Len(walk.path) \in 1 .. 4
    /\ held = 0 => walk.path = PathTo(extent.log_start)
    /\ held # 0 => /\ Len(walk.path) \in 1 .. 3
                   /\ held \in PointerBlocks(Len(walk.path))
                   /\ \A i \in 1 .. Len(walk.path) : walk.path[i] \in Indices

LEMMA PointersAtHand ==
    ASSUME FileAssumption, file \in DOMAIN Disk, On("ext2"), held \in Nat, ExtWalk,
           extent.log_start \in Nat, extent.log_start < MaxBlocks
    PROVE  /\ Index = walk.path[1] /\ Index \in Nat
           /\ AtLeaf => Index < BufCount
           /\ Buffer[Index] \in Nat
           /\ \A k \in Nat : Index + k < BufCount => Buffer[Index + k] \in Nat
           /\ ~AtLeaf => Buffer[Index] \in PointerBlocks(Len(walk.path) - 1)
           /\ \A i \in 2 .. Len(walk.path) : walk.path[i] \in Indices
           /\ BufCount \in Nat
           /\ held # 0 => Index < IndCount
<1> DEFINE ib == Disk[file].i_block
           n  == Len(walk.path)
           l  == extent.log_start
<1>1. NDir \in Nat \ {0} /\ IndCount \in Nat \ {0}
  BY FileTypes, FileAssumption
<1>2. ib \in [0 .. NDir + 2 -> Nat] /\ IndirectBlocks(ib) \subseteq DOMAIN Pointers \union {0}
  BY FileAssumption DEF FileAssumption, On
<1>3. \A b \in DOMAIN Pointers : Pointers[b] \in [0 .. IndCount - 1 -> Nat]
  BY FileAssumption DEF FileAssumption
<1>4. n \in 1 .. 4 /\ walk.path \in Seq(Nat) /\ walk.path # <<>>
  <2>1. n \in 1 .. 4 /\ walk.path \in Seq(Nat)
    BY DEF ExtWalk
  <2>2. walk.path # <<>>
    <3>1. Len(<<>>) = 0
      BY EmptySeq
    <3>2. ASSUME walk.path = <<>> PROVE n = 0
      BY <3>1, <3>2, Zenon
    <3> HIDE DEF n
    <3>3. QED
      BY <2>1, <3>2
  <2>3. QED
    BY <2>1, <2>2
<1>5. Index = walk.path[1] /\ Index \in Nat
  <2>1. Index = Head(walk.path)
    BY DEF Index
  <2>2. Head(walk.path) = walk.path[1]
    BY <1>4
  <2>3. walk.path[1] \in Nat
    BY ONLY <1>4, ElementOfSeq
  <2>4. QED
    BY <2>1, <2>2, <2>3
<1>6. AtLeaf <=> n = 1
  BY DEF AtLeaf
<1>7. CASE held = 0
  <2>1. Buffer = ib /\ BufCount = NDir
    BY <1>7 DEF Buffer, BufCount
  <2>2. /\ n = 1 => Index < NDir
        /\ n > 1 => Index = NDir + n - 2
        /\ \A i \in 2 .. n : walk.path[i] \in Indices
    <3>1. walk.path = PathTo(l)
      BY <1>7 DEF ExtWalk
    <3>2. QED
      BY <1>5, <3>1, PathShape, FileAssumption
  <2>3. Index \in 0 .. NDir + 2
    <3> HIDE DEF n
    <3>1. QED
      BY ONLY <1>1, <1>4, <1>5, <2>2
  <2>4. ~AtLeaf => Buffer[Index] \in PointerBlocks(n - 1)
    <3>1. CASE n = 2
      <4>1. Index = NDir
        BY <1>1, <2>2, <3>1
      <4>2. QED
        BY <2>1, <3>1, <4>1 DEF PointerBlocks, IndirectBlocks
    <3>2. CASE n = 3
      <4>1. Index = NDir + 1
        BY <1>1, <2>2, <3>2
      <4>2. QED
        BY <2>1, <3>2, <4>1 DEF PointerBlocks
    <3>3. CASE n = 4
      <4>1. Index = NDir + 2
        BY <1>1, <2>2, <3>3
      <4>2. QED
        BY <2>1, <3>3, <4>1 DEF PointerBlocks
    <3>4. QED
      BY <1>4, <1>6, <3>1, <3>2, <3>3
  <2>5. \A k \in Nat : Index + k < NDir => Index + k \in 0 .. NDir + 2
    BY <1>1, <1>5
  <2> HIDE DEF ib, n
  <2>6. QED
    BY <1>1, <1>2, <1>5, <1>6, <1>7, <2>1, <2>2, <2>3, <2>4, <2>5 DEF n
<1>8. CASE held # 0
  <2>1. Buffer = Pointers[held] /\ BufCount = IndCount
    BY <1>8 DEF Buffer, BufCount
  <2>2. /\ n \in 1 .. 3 /\ held \in PointerBlocks(n)
        /\ \A i \in 1 .. n : walk.path[i] \in Indices
    BY <1>8 DEF ExtWalk
  <2>3. Index \in Indices /\ Index < IndCount
    BY <1>1, <1>4, <1>5, <2>2 DEF Indices
  <2>4. PointerBlocks(n) \subseteq IndirectBlocks(ib)
    BY <2>2 DEF PointerBlocks, IndirectBlocks
  <2>5. held \in DOMAIN Pointers
    BY <1>2, <1>8, <2>2, <2>4
  <2>6. Pointers[held] \in [0 .. IndCount - 1 -> Nat]
    BY <1>3, <2>5
  <2>7. Buffer[Index] = Below(held, Index)
    BY <1>8, <2>1 DEF Below
  <2>8. ~AtLeaf => Buffer[Index] \in PointerBlocks(n - 1)
    <3>1. CASE n = 2
      <4>1. held = ib[NDir + 1] \/ \E i \in Indices : held = Below(ib[NDir + 2], i)
        BY <2>2, <3>1 DEF PointerBlocks
      <4>2. Below(held, Index) \in IndirectBlocks(ib)
        BY <2>3, <4>1 DEF IndirectBlocks
      <4>3. QED
        BY <2>7, <3>1, <4>2 DEF PointerBlocks
    <3>2. CASE n = 3
      <4>1. held = ib[NDir + 2]
        BY <2>2, <3>2 DEF PointerBlocks
      <4>2. QED
        BY <2>3, <2>7, <3>2, <4>1 DEF PointerBlocks
    <3>3. QED
      BY <1>6, <2>2, <3>1, <3>2
  <2>9. \A k \in Nat : Index + k < IndCount => Index + k \in 0 .. IndCount - 1
    BY <1>1, <1>5
  <2>10. Index \in 0 .. IndCount - 1
    BY <2>3 DEF Indices
  <2> HIDE DEF ib, n
  <2>11. /\ Buffer[Index] \in Nat
         /\ \A k \in Nat : Index + k < BufCount => Buffer[Index + k] \in Nat
         /\ BufCount \in Nat /\ Index < BufCount
    BY ONLY <1>1, <1>5, <2>1, <2>3, <2>6, <2>9, <2>10
  <2>12. \A i \in 2 .. n : walk.path[i] \in Indices
    BY ONLY <2>2
  <2>13. QED
    BY <1>5, <2>3, <2>8, <2>11, <2>12 DEF n
<1>9. QED
  BY <1>7, <1>8

(* The run of pointers a leaf leads to stays within the pointer array. *)
LEMMA RunBounds ==
    ASSUME FileAssumption, file \in DOMAIN Disk, Index \in Nat, BufCount \in Nat,
           Index < BufCount, extent.log_start \in Nat
    PROVE  RunLength \in Nat \ {0} /\ Index + RunLength <= BufCount /\ Consecutive(RunLength)
<1> DEFINE runs == {n \in 1 .. Room : Consecutive(n)}
<1>1. FileCount \in Nat
  <2>1. Size \in Nat /\ BlockSize \in Nat \ {0}
    BY FileTypes, FileAssumption
  <2>2. Size + BlockSize - 1 \in Nat
    BY ONLY <2>1
  <2>3. QED
    BY <2>1, <2>2, Division DEF FileCount
<1>2. Room \in Int /\ Room <= BufCount - Index
  <2>1. BufCount - Index \in Int /\ FileCount - extent.log_start \in Int
    BY <1>1
  <2>2. QED
    BY <2>1, MinOfTwo DEF Room
<1>3. Consecutive(1)
  BY DEF Consecutive
<1>4. CASE Room <= 1
  <2>1. RunLength = 1
    BY <1>4 DEF RunLength
  <2>2. QED
    BY <1>3, <2>1
<1>5. CASE Room > 1
  <2>1. RunLength = Max(runs)
    <3>1. ~(Room <= 1)
      BY <1>2, <1>5
    <3>2. QED
      BY <3>1, Zenon DEF RunLength
  <2>2. runs \in SUBSET Nat /\ 1 \in runs /\ \A x \in runs : x <= Room
    BY <1>2, <1>3, <1>5
  <2>3. Room \in Nat
    BY <1>2, <1>5
  <2>4. Max(runs) \in runs
    <3> HIDE DEF runs
    <3>1. QED
      BY <2>2, <2>3, MaxOfNaturals
  <2>5. RunLength \in 1 .. Room /\ Consecutive(RunLength)
    BY <2>1, <2>4
  <2>6. QED
    BY <1>2, <2>5
<1>6. QED
  BY <1>2, <1>4, <1>5

------------------------------------------------------------------------------
(* The handle.                                                                *)

Byte    == Int \X Int
Extents == [type : {"INVALID", "PHYSBLOCK", "SPARSE", "BUFFER"}, log_start : Nat,
            log_count : Nat, phys_start : Nat, buffer : Seq(Byte)]
Calls   == [want : Nat, pos : Nat, data : Seq(Byte), buflen : Nat]

(* What a call has left to read is in the file, after wrapping round too. *)
CallInv == call # NULL => /\ call \in Calls /\ call.want < 2^W
                          /\ pos < Size
                          /\ call.pos + call.buflen <= Size

(* A walk is for the block the call in progress has come to; its block on     *)
(* loan is one it knows of.                                                   *)
WalkInv == walk # NULL =>
    /\ call # NULL /\ call.buflen > 0
    /\ extent.log_start = LogBno /\ extent.log_count = 1
    /\ extent.type \in {"PHYSBLOCK", "SPARSE"}
    /\ \/ On("ext2") /\ ExtWalk
       \/ /\ On("reiserfs") /\ walk \in Searches /\ HoldsItsLeaf(walk) /\ held = walk.held
          /\ walk.want = Disk[file].object \o <<FirstByte>>

HandleInv == /\ file \in DOMAIN Disk /\ pos \in Nat /\ extent \in Extents /\ held \in Nat
             /\ extent.type = "BUFFER" => On("reiserfs")
             /\ CallInv
             /\ WalkInv
             /\ NothingStaysOnLoan

(* In the loop of a read the position is within the file. *)
LEMMA PositionInFile ==
    ASSUME FileAssumption, HandleInv, call # NULL, call.buflen > 0
    PROVE  /\ call.pos \in Nat /\ call.pos < Size /\ LogBno \in Nat
           /\ call.buflen \in Nat /\ call.pos + call.buflen <= Size
           /\ On("ext2") => LogBno < MaxBlocks
<1>1. /\ BlockSize \in Nat \ {0} /\ Size \in Nat /\ MaxBlocks \in Nat
  BY FileTypes, FileAssumption DEF HandleInv
<1>2. call.pos \in Nat /\ call.buflen \in Nat
  BY DEF HandleInv, CallInv, Calls
<1>4. call.pos + call.buflen <= Size
  BY DEF HandleInv, CallInv
<1>5. call.pos < Size
  BY <1>1, <1>2, <1>4
<1>6. LogBno \in Nat
  BY <1>1, <1>2, Division DEF LogBno
<1>7. ASSUME On("ext2") PROVE LogBno < MaxBlocks
  <2>1. Size <= MaxBlocks * BlockSize
    BY <1>7, FileAssumption DEF FileAssumption, HandleInv, On, Size
  <2>2. MaxBlocks * BlockSize \in Nat
    BY <1>1
  <2>3. call.pos < MaxBlocks * BlockSize
    BY <1>1, <1>2, <1>5, <2>1, <2>2
  <2>4. QED
    BY <1>1, <1>2, <2>3, BlockBelow DEF LogBno
<1>8. QED
  BY <1>2, <1>4, <1>5, <1>6, <1>7

(* Where in the extent the next byte is. *)
LEMMA PositionInExtent ==
    ASSUME FileAssumption, HandleInv, Copying, InExtent
    PROVE  /\ PosInExtent \in Nat /\ PosInExtent < extent.log_count * BlockSize
           /\ extent.log_count * BlockSize \in Nat
           /\ extent.log_start * BlockSize \in Nat
           /\ call.pos = extent.log_start * BlockSize + PosInExtent
<1>1. BlockSize \in Nat \ {0}
  BY FileTypes, FileAssumption DEF HandleInv
<1>2. call.pos \in Nat
  BY PositionInFile, FileAssumption DEF Copying
<1>3. extent.log_start \in Nat /\ extent.log_count \in Nat
  BY DEF HandleInv, Extents
<1>4. LogBno >= extent.log_start /\ LogBno < extent.log_start + extent.log_count
  BY DEF InExtent
<1>5. /\ call.pos - extent.log_start * BlockSize \in Nat
      /\ call.pos - extent.log_start * BlockSize < extent.log_count * BlockSize
  BY <1>1, <1>2, <1>3, <1>4, InBlocks DEF LogBno
<1>6. extent.log_count * BlockSize \in Nat /\ extent.log_start * BlockSize \in Nat
  BY <1>1, <1>3
<1>7. QED
  BY <1>2, <1>5, <1>6 DEF PosInExtent

(* Some bytes are delivered. *)
LEMMA DeliverHolds ==
    ASSUME FileAssumption, HandleInv, Copying, NEW bytes \in Seq(Byte),
           NEW n \in 1 .. call.buflen, Len(bytes) = n, Deliver(bytes)
    PROVE  /\ HandleInv'
           /\ call' = [want |-> call.want, pos |-> (call.pos + n) % 2^W,
                       data |-> call.data \o bytes, buflen |-> call.buflen - n]
<1>1. call # NULL /\ walk = NULL /\ call \in Calls
  BY DEF Copying, HandleInv, CallInv
<1>2. UNCHANGED <<file, pos, extent, walk, held, buffers, last>>
  BY DEF Deliver
<1>3. call' = [want |-> call.want, pos |-> (call.pos + n) % 2^W,
               data |-> call.data \o bytes, buflen |-> call.buflen - n]
  BY <1>1 DEF Deliver, Calls
<1> DEFINE m == (call.pos + n) % 2^W
<1>0. m \in Nat /\ m <= call.pos + n
  <2>1. call.pos \in Nat /\ call.want \in Nat /\ call.want < 2^W /\ 2^W \in Int
    BY <1>1, FileTypes, FileAssumption DEF HandleInv, CallInv, Calls
  <2>2. 2^W \in Nat \ {0} /\ call.pos + n \in Nat
    BY <2>1
  <2>3. QED
    BY <2>2, AtMost
<1> HIDE DEF m
<1>4. call.data \o bytes \in Seq(Byte)
  BY <1>1 DEF Calls
<1>5. call' \in Calls
  BY <1>0, <1>1, <1>3, <1>4 DEF Calls, m
<1>6. CallInv'
  <2>1. Size' = Size
    BY <1>2 DEF Size
  <2>2. call'.want = call.want /\ call'.pos = m /\ call'.buflen = call.buflen - n
    BY <1>3 DEF m
  <2>3. call.want < 2^W /\ pos < Size /\ call.pos + call.buflen <= Size
    BY <1>1 DEF HandleInv, CallInv
  <2>4. call.pos \in Nat /\ call.buflen \in Nat /\ Size \in Nat
    BY <1>1, FileTypes, FileAssumption DEF HandleInv, Calls
  <2>5. m + (call.buflen - n) <= Size
    BY <1>0, <2>3, <2>4
  <2>6. QED
    BY <1>2, <1>5, <2>1, <2>2, <2>3, <2>5 DEF CallInv
<1>7. QED
  BY <1>1, <1>2, <1>3, <1>6 DEF HandleInv, WalkInv, NothingStaysOnLoan, On

(* The byte an extent maps its byte j to. *)
MappedBy(ext, j) ==
    CASE ext.type = "SPARSE" -> Zero
      [] ext.type = "PHYSBLOCK" -> <<ext.phys_start + j \div BlockSize, j % BlockSize>>
      [] ext.type = "BUFFER" ->
            IF j < Len(ext.buffer) THEN ext.buffer[j + 1] ELSE Unknown
Mapped(j) == MappedBy(extent, j)

(* A copy delivers at least one byte, and those the extent maps. *)
Copied(bytes) ==
    /\ bytes \in Seq(Byte) /\ Len(bytes) \in 1 .. call.buflen /\ Deliver(bytes)
    /\ \A i \in 1 .. Len(bytes) :
          /\ PosInExtent + i - 1 < extent.log_count * BlockSize
          /\ bytes[i] = Mapped(PosInExtent + i - 1)

LEMMA SeqOfBytes ==
    ASSUME NEW n \in Nat, NEW f \in [1 .. n -> Byte]
    PROVE  f \in Seq(Byte) /\ Len(f) = n /\ \A i \in 1 .. n : f[i] \in Byte
OBVIOUS

LEMMA CopyBlockCopies ==
    ASSUME FileAssumption, HandleInv, CopyBlock
    PROVE  \E bytes : Copied(bytes)
<1> DEFINE n == Min({BlockSize - PosInPhysblock, call.buflen})
           bytes == Bytes(PhysBno, PosInPhysblock, n)
<1>1. Copying /\ InExtent /\ extent.type = "PHYSBLOCK" /\ Deliver(bytes)
  BY DEF CopyBlock, InBlock
<1>2. BlockSize \in Nat \ {0} /\ call.buflen \in Nat \ {0}
  <2>1. BlockSize \in Nat \ {0}
    BY FileTypes, FileAssumption DEF HandleInv
  <2>2. call.buflen \in Nat /\ call.buflen > 0
    BY <1>1, PositionInFile, FileAssumption DEF Copying
  <2>3. QED
    BY <2>1, <2>2
<1>3. /\ PosInExtent \in Nat /\ PosInExtent < extent.log_count * BlockSize
      /\ extent.log_count \in Nat /\ extent.phys_start \in Nat
  BY <1>1, PositionInExtent, FileAssumption DEF HandleInv, Extents
<1>4. /\ PosInPhysblock \in 0 .. BlockSize - 1
      /\ PosInExtent \div BlockSize \in Nat
      /\ PosInPhysblock = PosInExtent % BlockSize
      /\ PhysBno = extent.phys_start + PosInExtent \div BlockSize
      /\ PhysBno \in Nat
  <2>1. PosInExtent \div BlockSize \in Nat /\ PosInExtent % BlockSize \in 0 .. BlockSize - 1
    BY <1>2, <1>3, Division
  <2> DEFINE b == PosInExtent \div BlockSize
  <2>2. PhysBno = extent.phys_start + b /\ PosInPhysblock = PosInExtent % BlockSize
    BY DEF PosInPhysblock, PhysBno
  <2>3. PhysBno \in Nat
    <3> HIDE DEF b
    <3>1. QED
      BY <1>3, <2>1, <2>2 DEF b
  <2>4. QED
    BY <2>1, <2>2, <2>3
<1>5. n \in 1 .. call.buflen /\ n <= BlockSize - PosInPhysblock /\ n \in Nat
  <2>1. BlockSize - PosInPhysblock \in Nat \ {0}
    BY ONLY <1>2, <1>4
  <2>2. n = IF BlockSize - PosInPhysblock <= call.buflen
            THEN BlockSize - PosInPhysblock ELSE call.buflen
    BY <1>2, <2>1, MinOfTwo
  <2> HIDE DEF n
  <2>3. QED
    BY ONLY <1>2, <2>1, <2>2
<1> HIDE DEF n
<1>6. bytes = [i \in 1 .. n |-> <<PhysBno, PosInPhysblock + i - 1>>]
  BY DEF Bytes
<1>7. bytes \in [1 .. n -> Byte]
  BY <1>4, <1>5, <1>6 DEF Byte
<1>8. bytes \in Seq(Byte) /\ Len(bytes) = n
  BY <1>5, <1>7, SeqOfBytes
<1>9. ASSUME NEW i \in 1 .. n
      PROVE  /\ PosInExtent + i - 1 < extent.log_count * BlockSize
             /\ bytes[i] = Mapped(PosInExtent + i - 1)
  <2> DEFINE k == i - 1
             b == PosInExtent \div BlockSize
  <2>1. k \in Nat /\ PosInPhysblock + k < BlockSize /\ PosInExtent + i - 1 = PosInExtent + k
    BY <1>2, <1>3, <1>4, <1>5
  <2>2. /\ (PosInExtent + k) \div BlockSize = b
        /\ (PosInExtent + k) % BlockSize = PosInPhysblock + k
    BY <1>2, <1>3, <1>4, <2>1, StayInBlock
  <2>3. bytes[i] = <<extent.phys_start + b, PosInPhysblock + k>>
    BY <1>4, <1>6
  <2>4. Mapped(PosInExtent + k) =
            <<extent.phys_start + (PosInExtent + k) \div BlockSize, (PosInExtent + k) % BlockSize>>
    BY <1>1 DEF Mapped, MappedBy
  <2>5. PosInExtent + k < extent.log_count * BlockSize
    <3> HIDE DEF k
    <3>1. b < extent.log_count
      BY <1>2, <1>3, BlockBelow
    <3>2. PosInExtent + k = (BlockSize * b) + (PosInPhysblock + k)
      <4>1. PosInExtent = (BlockSize * b) + PosInPhysblock
        BY <1>2, <1>3, <1>4, Division
      <4>2. BlockSize * b \in Nat
        BY <1>2, <1>4
      <4> HIDE DEF b
      <4>3. QED
        BY ONLY <1>3, <1>4, <2>1, <4>1, <4>2
    <3>3. BlockSize * (b + 1) <= BlockSize * extent.log_count
      <4>1. b + 1 \in Nat /\ b + 1 <= extent.log_count
        BY <1>3, <1>4, <3>1
      <4> HIDE DEF b
      <4>2. QED
        BY <1>2, <1>3, <4>1, Times
    <3>4. /\ BlockSize * (b + 1) = (BlockSize * b) + BlockSize /\ BlockSize * b \in Nat
          /\ BlockSize * extent.log_count = extent.log_count * BlockSize
          /\ extent.log_count * BlockSize \in Nat
      BY <1>2, <1>3, <1>4
    <3> HIDE DEF b
    <3>5. QED
      BY ONLY <1>2, <1>4, <2>1, <3>2, <3>3, <3>4
  <2> HIDE DEF k, b
  <2>6. QED
    BY <2>1, <2>2, <2>3, <2>4, <2>5
<1> HIDE DEF bytes
<1>10. QED
  BY <1>1, <1>5, <1>8, <1>9 DEF Copied

(* What is copied of an extent that is not on the disk. *)
LEMMA CopyLenBounds ==
    ASSUME FileAssumption, HandleInv, Copying, InExtent
    PROVE  /\ CopyLen \in 1 .. call.buflen /\ CopyLen \in Nat
           /\ PosInExtent \in Nat /\ extent.log_count * BlockSize \in Nat
           /\ PosInExtent + CopyLen <= extent.log_count * BlockSize
<1> DEFINE e == extent.log_count * BlockSize
<1>1. call.buflen \in Nat \ {0}
  BY PositionInFile, FileAssumption DEF HandleInv, Copying
<1>2. PosInExtent \in Nat /\ PosInExtent < e /\ e \in Nat
  BY PositionInExtent, FileAssumption
<1>3. CopyLen = IF e - PosInExtent <= call.buflen THEN e - PosInExtent ELSE call.buflen
  <2>1. CopyLen = Min({e - PosInExtent, call.buflen})
    BY DEF CopyLen
  <2> HIDE DEF e
  <2>2. QED
    BY <1>1, <1>2, <2>1, MinOfTwo
<1> HIDE DEF e
<1>4. QED
  BY <1>1, <1>2, <1>3 DEF e

LEMMA CopyOtherCopies ==
    ASSUME FileAssumption, HandleInv, CopyBuffer \/ CopyZeros
    PROVE  \E bytes : Copied(bytes)
<1> DEFINE n == CopyLen
<1>1. Copying /\ InExtent
  BY DEF CopyBuffer, CopyZeros
<1>2. /\ n \in 1 .. call.buflen /\ n \in Nat /\ PosInExtent \in Nat
      /\ extent.log_count * BlockSize \in Nat
      /\ PosInExtent + n <= extent.log_count * BlockSize
  BY <1>1, CopyLenBounds, FileAssumption
<1>3. \A i \in 1 .. n : PosInExtent + i - 1 < extent.log_count * BlockSize
  BY ONLY <1>2
<1>4. CASE CopyZeros
  <2> DEFINE bytes == [i \in 1 .. n |-> Zero]
  <2>1. Deliver(bytes) /\ extent.type = "SPARSE"
    BY <1>4 DEF CopyZeros
  <2>2. bytes \in Seq(Byte) /\ Len(bytes) = n
    <3>1. bytes \in [1 .. n -> Byte]
      BY DEF Byte, Zero
    <3> HIDE DEF bytes, n
    <3>2. QED
      BY <1>2, <3>1, SeqOfBytes
  <2>3. \A i \in 1 .. n : bytes[i] = Mapped(PosInExtent + i - 1)
    BY <2>1 DEF Mapped, MappedBy
  <2> HIDE DEF bytes, n
  <2>4. QED
    BY <1>2, <1>3, <2>1, <2>2, <2>3 DEF Copied
<1>5. CASE CopyBuffer
  <2> DEFINE at(k) == IF k <= Len(extent.buffer) THEN extent.buffer[k] ELSE Unknown
             bytes == [i \in 1 .. n |-> at(PosInExtent + i)]
  <2>1. Deliver(bytes) /\ extent.type = "BUFFER"
    BY <1>5 DEF CopyBuffer
  <2>2. extent.buffer \in Seq(Byte)
    BY DEF HandleInv, Extents
  <2>3. Len(extent.buffer) \in Nat
    BY ONLY <2>2, LenProperties
  <2>4. \A k \in Nat \ {0} : at(k) \in Byte
    <3>1. \A k \in 1 .. Len(extent.buffer) : extent.buffer[k] \in Byte
      BY ONLY <2>2, ElementOfSeq
    <3>2. Unknown \in Byte
      BY DEF Unknown, Byte
    <3>3. QED
      BY <2>3, <3>1, <3>2
  <2>5. bytes \in Seq(Byte) /\ Len(bytes) = n
    <3>1. \A i \in 1 .. n : PosInExtent + i \in Nat \ {0}
      BY ONLY <1>2
    <3> HIDE DEF at
    <3>2. bytes \in [1 .. n -> Byte]
      BY <2>4, <3>1
    <3> HIDE DEF bytes, n
    <3>3. QED
      BY <1>2, <3>2, SeqOfBytes
  <2>6. ASSUME NEW i \in 1 .. n PROVE bytes[i] = Mapped(PosInExtent + i - 1)
    <3> DEFINE j == PosInExtent + i - 1
    <3>1. j + 1 = PosInExtent + i /\ j \in Nat
      BY <1>2
    <3>2. bytes[i] = at(j + 1)
      BY <3>1
    <3>3. j < Len(extent.buffer) <=> j + 1 <= Len(extent.buffer)
      BY <2>3, <3>1
    <3>4. Mapped(j) = IF j < Len(extent.buffer) THEN extent.buffer[j + 1] ELSE Unknown
      BY <2>1 DEF Mapped, MappedBy
    <3> HIDE DEF j, bytes
    <3>5. QED
      BY <3>2, <3>3, <3>4 DEF j
  <2> HIDE DEF bytes, n
  <2>7. QED
    BY <1>2, <1>3, <2>1, <2>5, <2>6 DEF Copied
<1>6. QED
  BY <1>4, <1>5

------------------------------------------------------------------------------
(* The steps of a read keep the handle sound.                                 *)

LEMMA ReadHolds ==
    ASSUME FileAssumption, HandleInv, NEW n \in Lengths, Read(n)
    PROVE  HandleInv'
<1>1. /\ call = NULL /\ walk = NULL
      /\ UNCHANGED <<file, pos, extent, walk, held, buffers>>
  BY DEF Read, HandleInv, WalkInv
<1>2. /\ Size' = Size /\ Size \in Nat /\ 2^W \in Nat \ {0} /\ pos \in Nat
      /\ n \in Nat /\ n < 2^W
  <2>1. Size \in Nat /\ 2^W \in Int /\ Lengths \subseteq 0 .. 2^W - 1
    BY FileTypes, FileAssumption DEF FileAssumption, HandleInv
  <2>2. QED
    BY <1>1, <2>1 DEF Size, HandleInv
<1>3. CallInv'
  <2>1. CASE pos >= Size
    BY <1>1, <2>1 DEF Read, CallInv
  <2>2. CASE ~(pos >= Size)
    <3> DEFINE m == pos % 2^W
               left == Min({n, Size - m})
    <3>1. m \in Nat /\ m <= pos
      BY <1>2, AtMost
    <3>2. call' = [want |-> n, pos |-> m, data |-> <<>>, buflen |-> left]
      BY <2>2 DEF Read
    <3> HIDE DEF m
    <3>3. Size - m \in Nat /\ pos < Size
      BY <1>2, <2>2, <3>1
    <3>4. left = IF n <= Size - m THEN n ELSE Size - m
      BY <1>2, <3>3, MinOfTwo
    <3> HIDE DEF left
    <3>5. left \in Nat /\ m + left <= Size
      BY <1>2, <3>1, <3>3, <3>4
    <3>6. call' \in Calls /\ call'.want = n /\ call'.pos = m /\ call'.buflen = left
      BY <1>2, <3>1, <3>2, <3>5, EmptySeq DEF Calls
    <3>7. QED
      BY <1>1, <1>2, <3>3, <3>5, <3>6 DEF CallInv
  <2>3. QED
    BY <2>1, <2>2
<1>4. QED
  BY <1>1, <1>3 DEF HandleInv, WalkInv, NothingStaysOnLoan, On

LEMMA ClientHolds ==
    ASSUME FileAssumption, HandleInv, SetPosition \/ Reopen
    PROVE  HandleInv'
<1>1. /\ call = NULL /\ call' = call /\ file' = file /\ walk' = walk /\ held' = held
      /\ walk = NULL
  BY DEF SetPosition, Reopen, HandleInv, WalkInv
<1>2. CASE SetPosition
  <2>1. pos' \in Nat
    <3>1. Size \in Nat /\ Seeks \subseteq Nat
      BY FileTypes, FileAssumption DEF HandleInv, FileAssumption
    <3>2. QED
      BY <1>2, <3>1 DEF SetPosition
  <2>2. UNCHANGED <<extent, buffers>>
    BY <1>2 DEF SetPosition
  <2>3. QED
    BY <1>1, <2>1, <2>2 DEF HandleInv, CallInv, WalkInv, NothingStaysOnLoan, On
<1>3. CASE Reopen
  <2>1. pos' = 0 /\ extent' = NoExtent /\ buffers' = 0
    BY <1>3 DEF Reopen, HandleInv, NothingStaysOnLoan
  <2>2. NoExtent \in Extents /\ NoExtent.type = "INVALID"
    BY DEF NoExtent, Extents
  <2>3. QED
    BY <1>1, <2>1, <2>2 DEF HandleInv, CallInv, WalkInv, NothingStaysOnLoan
<1>4. QED
  BY <1>2, <1>3

LEMMA CopyHolds ==
    ASSUME FileAssumption, HandleInv, CopyBlock \/ CopyBuffer \/ CopyZeros
    PROVE  HandleInv'
<1>1. PICK bytes : Copied(bytes)
  BY CopyBlockCopies, CopyOtherCopies, FileAssumption
<1>2. Copying
  BY DEF CopyBlock, InBlock, CopyBuffer, CopyZeros
<1>3. QED
  BY <1>1, <1>2, DeliverHolds, FileAssumption DEF Copied

LEMMA CopyEndsHolds ==
    ASSUME FileAssumption, HandleInv, CopyFails \/ ReadDone
    PROVE  HandleInv'
<1>1. /\ call' = NULL /\ walk = NULL
      /\ UNCHANGED <<file, extent, walk, held, buffers>>
  BY DEF CopyFails, InBlock, Copying, ReadDone
<1>2. pos' \in Nat
  BY DEF CopyFails, ReadDone, HandleInv, CallInv, Calls
<1>3. QED
  BY <1>1, <1>2 DEF HandleInv, CallInv, WalkInv, NothingStaysOnLoan, On

(* A walk that ends with an extent. *)
LEMMA ReturnHolds ==
    ASSUME FileAssumption, HandleInv, walk # NULL, NEW ext \in Extents, Return(ext),
           call' \in {call, NULL},
           \/ ext.type # "BUFFER" /\ buffers' = buffers
           \/ ext.type = "BUFFER" /\ buffers' = buffers + 1 /\ On("reiserfs")
    PROVE  HandleInv'
<1>1. /\ extent' = ext /\ walk' = NULL /\ held' = 0 /\ UNCHANGED <<file, pos>>
  BY DEF Return
<1>2. extent.type # "BUFFER" /\ buffers = 0
  BY DEF HandleInv, WalkInv, NothingStaysOnLoan
<1>3. CallInv'
  BY <1>1 DEF HandleInv, CallInv, Size
<1>4. buffers' = IF extent'.type = "BUFFER" THEN 1 ELSE 0
  BY <1>1, <1>2
<1>5. extent'.type = "BUFFER" => On("reiserfs")'
  BY <1>1 DEF On
<1>6. QED
  BY <1>1, <1>3, <1>4, <1>5 DEF HandleInv, WalkInv, NothingStaysOnLoan

LEMMA HoleIsExtent ==
    ASSUME HandleInv
    PROVE  /\ Hole \in Extents /\ Hole.type = "SPARSE"
           /\ [extent EXCEPT !.type = "INVALID"] \in Extents
           /\ [extent EXCEPT !.type = "INVALID"].type = "INVALID"
           /\ \A b \in Nat, n \in Nat : Block(b, n) \in Extents /\ Block(b, n).type = "PHYSBLOCK"
BY DEF HandleInv, Hole, Block, Extents

LEMMA ErrorHolds ==
    ASSUME FileAssumption, HandleInv, walk # NULL, ReturnError
    PROVE  HandleInv'
<1>1. /\ Return([extent EXCEPT !.type = "INVALID"]) /\ call' = NULL /\ buffers' = buffers
  BY DEF ReturnError
<1>2. QED
  BY <1>1, HoleIsExtent, ReturnHolds, FileAssumption

(* ext2: the walk along the pointers. *)
LEMMA GetExtent2Holds ==
    ASSUME FileAssumption, HandleInv, GetExtent2
    PROVE  HandleInv' /\ walk' # NULL
<1>1. /\ On("ext2") /\ NeedExtent /\ walk = NULL /\ call # NULL /\ call.buflen > 0
      /\ Start("PHYSBLOCK", [path |-> PathTo(LogBno)])
  BY DEF GetExtent2, NeedExtent, Copying
<1>2. LogBno \in Nat /\ LogBno < MaxBlocks
  BY <1>1, PositionInFile, FileAssumption
<1>3. /\ walk' = [path |-> PathTo(LogBno)] /\ UNCHANGED <<file, pos, call, held, last>>
      /\ extent' = [extent EXCEPT !.type = "PHYSBLOCK", !.log_start = LogBno,
                                  !.log_count = 1, !.buffer = <<>>]
      /\ buffers' = 0 /\ held = 0
  BY <1>1 DEF Start, HandleInv, NothingStaysOnLoan
<1>4. /\ extent' \in Extents /\ extent'.type = "PHYSBLOCK" /\ extent'.log_start = LogBno
      /\ extent'.log_count = 1
  <2>1. <<>> \in Seq(Byte) /\ extent \in Extents
    BY EmptySeq DEF HandleInv
  <2>2. QED
    BY <1>2, <1>3, <2>1 DEF Extents
<1>5. PathTo(LogBno) \in Seq(Nat) /\ Len(PathTo(LogBno)) \in 1 .. 4
  BY <1>2, PathShape, FileAssumption DEF HandleInv
<1>6. walk' \in [path : Seq(Nat)] /\ walk'.path = PathTo(LogBno)
  BY <1>3, <1>5
<1>7. walk' # NULL
  BY <1>6, FileAssumption DEF FileAssumption
<1>8. LogBno' = LogBno /\ On("ext2")' /\ file' \in DOMAIN Disk
  BY <1>1, <1>3 DEF LogBno, On, HandleInv
<1>9. ExtWalk'
  <2>1. PathTo(extent.log_start)' = PathTo(LogBno)
    BY <1>4 DEF PathTo
  <2>2. QED
    BY <1>3, <1>5, <1>6, <2>1 DEF ExtWalk
<1>10. CallInv'
  BY <1>3 DEF HandleInv, CallInv, Size
<1>11. WalkInv'
  BY <1>1, <1>3, <1>4, <1>8, <1>9 DEF WalkInv
<1>12. QED
  BY <1>3, <1>4, <1>7, <1>8, <1>10, <1>11 DEF HandleInv, NothingStaysOnLoan

(* What is known of a walk along the pointers. *)
LEMMA WalkingExt2 ==
    ASSUME FileAssumption, HandleInv, Walking("ext2")
    PROVE  /\ walk # NULL /\ call # NULL /\ ExtWalk /\ On("ext2") /\ file \in DOMAIN Disk
           /\ extent.log_start = LogBno /\ extent.log_start \in Nat
           /\ extent.log_start < MaxBlocks /\ extent.log_count = 1
           /\ extent.type # "BUFFER" /\ held \in Nat
<1>1. walk # NULL /\ On("ext2")
  BY DEF Walking
<1>2. /\ call # NULL /\ call.buflen > 0 /\ extent.log_start = LogBno
      /\ extent.log_count = 1 /\ extent.type # "BUFFER" /\ ExtWalk
  BY <1>1 DEF HandleInv, WalkInv, On
<1>3. LogBno \in Nat /\ LogBno < MaxBlocks
  BY <1>1, <1>2, PositionInFile, FileAssumption
<1>4. QED
  BY <1>1, <1>2, <1>3 DEF HandleInv

LEMMA WalkEndsHolds ==
    ASSUME FileAssumption, HandleInv, WalkHole \/ WalkLeaf \/ WalkFails
    PROVE  HandleInv'
<1>1. Walking("ext2") /\ walk # NULL
  BY DEF WalkHole, WalkLeaf, WalkFails, Walking
<1>2. CASE WalkHole
  <2>1. Return(Hole) /\ call' = call /\ buffers' = buffers
    BY <1>2 DEF WalkHole
  <2>2. Hole \in Extents /\ Hole.type # "BUFFER"
    BY HoleIsExtent
  <2>3. QED
    BY <1>1, <2>1, <2>2, ReturnHolds, FileAssumption
<1>3. CASE WalkLeaf
  <2>1. /\ Return(Block(Buffer[Index], RunLength)) /\ call' = call /\ buffers' = buffers
        /\ AtLeaf
    BY <1>3 DEF WalkLeaf
  <2>2. /\ Buffer[Index] \in Nat /\ Index \in Nat /\ BufCount \in Nat /\ Index < BufCount
    BY <1>1, <2>1, WalkingExt2, PointersAtHand, FileAssumption
  <2>3. RunLength \in Nat
    BY <1>1, <2>2, WalkingExt2, RunBounds, FileAssumption
  <2> DEFINE ext == Block(Buffer[Index], RunLength)
  <2>4. ext \in Extents /\ ext.type # "BUFFER"
    BY <2>2, <2>3, HoleIsExtent
  <2> HIDE DEF ext
  <2>5. Return(ext)
    BY <2>1 DEF ext
  <2>6. QED
    BY <1>1, <2>1, <2>4, <2>5, ReturnHolds, FileAssumption
<1>4. CASE WalkFails
  BY <1>1, <1>4, ErrorHolds, FileAssumption DEF WalkFails
<1>5. QED
  BY <1>2, <1>3, <1>4

LEMMA TailOfPath ==
    ASSUME NEW p \in Seq(Nat), Len(p) \in 2 .. 4
    PROVE  /\ Tail(p) \in Seq(Nat) /\ Len(Tail(p)) = Len(p) - 1
           /\ \A i \in 1 .. Len(Tail(p)) : i + 1 \in 2 .. Len(p) /\ Tail(p)[i] = p[i + 1]
<1>1. ASSUME p = <<>> PROVE Len(p) = 0
  BY <1>1, EmptySeq, Zenon
<1>2. p # <<>>
  BY <1>1
<1>3. /\ Tail(p) \in Seq(Nat) /\ Len(Tail(p)) = Len(p) - 1
      /\ \A i \in 1 .. Len(Tail(p)) : Tail(p)[i] = p[i + 1]
  BY ONLY <1>2, HeadTailProperties, p \in Seq(Nat)
<1>4. \A i \in 1 .. Len(p) - 1 : i + 1 \in 2 .. Len(p)
  OBVIOUS
<1>5. QED
  BY <1>3, <1>4

LEMMA WalkDownHolds ==
    ASSUME FileAssumption, HandleInv, WalkDown
    PROVE  HandleInv' /\ walk' # NULL
<1> DEFINE p == walk.path
<1>1. /\ Walking("ext2") /\ ~AtLeaf /\ Buffer[Index] # 0 /\ held' = Buffer[Index]
      /\ walk' = [walk EXCEPT !.path = Tail(p)]
      /\ UNCHANGED <<file, pos, extent, call, buffers, last>>
  BY DEF WalkDown
<1>2. /\ walk # NULL /\ call # NULL /\ ExtWalk /\ On("ext2") /\ file \in DOMAIN Disk
      /\ extent.log_start \in Nat /\ extent.log_start < MaxBlocks /\ held \in Nat
  BY <1>1, WalkingExt2, FileAssumption
<1>3. /\ Buffer[Index] \in Nat /\ Buffer[Index] \in PointerBlocks(Len(p) - 1)
      /\ \A i \in 2 .. Len(p) : p[i] \in Indices
  BY <1>1, <1>2, PointersAtHand, FileAssumption
<1>4. walk \in [path : Seq(Nat)] /\ p \in Seq(Nat) /\ Len(p) \in 2 .. 4
  BY <1>1, <1>2 DEF ExtWalk, AtLeaf
<1> HIDE DEF p
<1>5. /\ Tail(p) \in Seq(Nat) /\ Len(Tail(p)) = Len(p) - 1
      /\ \A i \in 1 .. Len(Tail(p)) : i + 1 \in 2 .. Len(p) /\ Tail(p)[i] = p[i + 1]
  BY <1>4, TailOfPath
<1>6. walk' = [path |-> Tail(p)]
  BY <1>1, <1>4 DEF p
<1>7. walk' \in [path : Seq(Nat)] /\ walk'.path = Tail(p)
  BY <1>5, <1>6
<1>8. walk' # NULL
  BY <1>7, FileAssumption DEF FileAssumption
<1>9. \A i \in 1 .. Len(Tail(p)) : Tail(p)[i] \in Indices
  BY ONLY <1>3, <1>5
<1>10. ExtWalk'
  <2> DEFINE n == Len(p) - 1
  <2>1. Len(walk'.path) = n
    BY <1>5, <1>7, Zenon
  <2>2. n \in 1 .. 3
    BY <1>4
  <2>3. Disk[file]' = Disk[file] /\ held' \in PointerBlocks(n)
    BY <1>1, <1>3
  <2> HIDE DEF n
  <2>4. held' \in PointerBlocks(Len(walk.path))'
    BY <2>1, <2>3 DEF PointerBlocks
  <2>5. /\ held' # 0 /\ \A i \in 1 .. Len(walk'.path) : walk'.path[i] \in Indices
    BY <1>1, <1>7, <1>9
  <2>6. Len(walk'.path) \in 1 .. 3 /\ Len(walk'.path) \in 1 .. 4
    BY <2>1, <2>2
  <2>7. QED
    BY <1>7, <2>4, <2>5, <2>6 DEF ExtWalk
<1>11. CallInv'
  BY <1>1 DEF HandleInv, CallInv, Size
<1>12. On("ext2")' /\ LogBno' = LogBno
  BY <1>1, <1>2 DEF On, LogBno
<1>13. WalkInv'
  BY <1>1, <1>2, <1>10, <1>12 DEF HandleInv, WalkInv
<1>14. NothingStaysOnLoan'
  BY <1>1, <1>8 DEF HandleInv, NothingStaysOnLoan
<1>15. held' \in Nat /\ UNCHANGED <<file, pos, extent>>
  BY <1>1, <1>3
<1>16. extent.type = "BUFFER" => On("reiserfs")'
  BY <1>15 DEF HandleInv, On
<1>17. QED
  BY <1>8, <1>11, <1>13, <1>14, <1>15, <1>16 DEF HandleInv

(* iso9660: without a walk. *)
LEMMA GetExtent9660Holds ==
    ASSUME FileAssumption, HandleInv, GetExtent9660
    PROVE  HandleInv'
<1>1. /\ On("iso9660") /\ walk = NULL /\ file \in DOMAIN Disk /\ extent \in Extents
      /\ extent' = [extent EXCEPT !.type = "PHYSBLOCK", !.log_start = 0,
                                  !.phys_start = Disk[file].extent_location,
                                  !.log_count = BlocksFor(Size)]
      /\ UNCHANGED <<file, pos, call, walk, held, buffers, last>>
  BY DEF GetExtent9660, NeedExtent, Copying, HandleInv
<1>2. extent.type # "BUFFER"
  BY <1>1 DEF HandleInv, On
<1>3. BlocksFor(Size) \in Nat
  <2>1. Size \in Nat /\ BlockSize \in Nat \ {0}
    BY <1>1, FileTypes, FileAssumption
  <2>2. Size + BlockSize - 1 \in Nat
    BY ONLY <2>1
  <2>3. QED
    BY <2>1, <2>2, Division DEF BlocksFor
<1>4. Disk[file].extent_location \in Nat
  BY <1>1, FileAssumption DEF FileAssumption, On
<1>5. extent' \in Extents /\ extent'.type = "PHYSBLOCK"
  BY <1>1, <1>3, <1>4 DEF Extents
<1>6. CallInv' /\ WalkInv'
  BY <1>1 DEF HandleInv, CallInv, Size, WalkInv
<1>7. NothingStaysOnLoan'
  BY <1>1, <1>2, <1>5 DEF HandleInv, NothingStaysOnLoan
<1>8. QED
  BY <1>1, <1>5, <1>6, <1>7 DEF HandleInv

(* Every search is a TreeSearch, and so differs from NULL. *)
LEMMA SearchIsNotNull ==
    ASSUME FileAssumption, TreeAssumption, NEW t \in Searches
    PROVE  t # NULL
<1>1. Levels \subseteq Nat /\ DOMAIN Nodes \union {0} \subseteq Nat
  BY TreeAssumption DEF TreeAssumption, Levels, Leaf
<1>2. t \in TreeSearch
  BY <1>1 DEF Searches, TreeSearch
<1>3. QED
  BY <1>2, FileAssumption DEF FileAssumption

LEMMA GetExtentRHolds ==
    ASSUME FileAssumption, TreeAssumption, HandleInv, GetExtentR
    PROVE  /\ HandleInv' /\ walk' # NULL /\ file' = file
           /\ \E want \in Key : walk' = Search(want)
<1> DEFINE n == LogBno * BlockSize + 1
<1>1. /\ On("reiserfs") /\ NeedExtent /\ walk = NULL /\ call # NULL /\ call.buflen > 0
      /\ Start("SPARSE", Search(Disk[file].object \o <<n>>))
  BY DEF GetExtentR, NeedExtent, Copying
<1>2. LogBno \in Nat /\ n \in Nat
  <2>1. LogBno \in Nat /\ BlockSize \in Nat
    BY <1>1, PositionInFile, FileTypes, FileAssumption DEF HandleInv
  <2>2. QED
    BY <2>1
<1>3. Disk[file].object \in Nat \X Nat
  BY <1>1, FileAssumption DEF FileAssumption, On, HandleInv
<1> HIDE DEF n
<1> DEFINE want == Disk[file].object \o <<n>>
<1>4. want \in Key
  BY <1>2, <1>3, KeyOfObject
<1> HIDE DEF want
<1>5. /\ walk' = Search(want) /\ UNCHANGED <<file, pos, call, held, last>>
      /\ extent' = [extent EXCEPT !.type = "SPARSE", !.log_start = LogBno,
                                  !.log_count = 1, !.buffer = <<>>]
      /\ buffers' = 0 /\ held = 0
  BY <1>1 DEF Start, HandleInv, NothingStaysOnLoan, want
<1>6. /\ extent' \in Extents /\ extent'.type = "SPARSE" /\ extent'.log_start = LogBno
      /\ extent'.log_count = 1
  <2>1. <<>> \in Seq(Byte) /\ extent \in Extents
    BY EmptySeq DEF HandleInv
  <2>2. QED
    BY <1>2, <1>5, <2>1 DEF Extents
<1>7. Search(want) \in Searches /\ HoldsItsLeaf(Search(want)) /\ Search(want).want = want
      /\ Search(want).held = 0
  BY <1>4, SearchBegins, TreeAssumption DEF Search
<1>8. walk' # NULL
  BY <1>5, <1>7, SearchIsNotNull, FileAssumption, TreeAssumption
<1>9. On("reiserfs")' /\ LogBno' = LogBno /\ file' \in DOMAIN Disk
  BY <1>1, <1>5 DEF On, LogBno, HandleInv
<1>10. (Disk[file].object \o <<FirstByte>>)' = want
  BY <1>5, <1>6 DEF FirstByte, want, n
<1>11. walk' \in Searches /\ HoldsItsLeaf(walk)' /\ held' = walk'.held /\ walk'.want = want
  BY <1>5, <1>7 DEF HoldsItsLeaf
<1>12. CallInv'
  BY <1>5 DEF HandleInv, CallInv, Size
<1>13. WalkInv'
  BY <1>1, <1>5, <1>6, <1>9, <1>10, <1>11 DEF WalkInv
<1>14. NothingStaysOnLoan'
  BY <1>5, <1>6, <1>8 DEF NothingStaysOnLoan
<1>15. QED
  BY <1>4, <1>5, <1>6, <1>8, <1>9, <1>12, <1>13, <1>14 DEF HandleInv

(* What is known of a search in progress. *)
LEMMA WalkingR ==
    ASSUME FileAssumption, TreeAssumption, HandleInv, Walking("reiserfs")
    PROVE  /\ walk # NULL /\ call # NULL /\ On("reiserfs") /\ file \in DOMAIN Disk
           /\ walk \in Searches /\ HoldsItsLeaf(walk) /\ held = walk.held
           /\ walk.want = Disk[file].object \o <<FirstByte>>
           /\ extent.type \in {"PHYSBLOCK", "SPARSE"} /\ extent \in Extents
           /\ Disk[file].object \in Nat \X Nat /\ FirstByte \in Nat
           /\ extent.log_start = LogBno /\ extent.log_count = 1
<1>1. walk # NULL /\ On("reiserfs") /\ file \in DOMAIN Disk
  BY DEF Walking, HandleInv
<1>2. /\ call # NULL /\ walk \in Searches /\ HoldsItsLeaf(walk) /\ held = walk.held
      /\ walk.want = Disk[file].object \o <<FirstByte>>
      /\ extent.type \in {"PHYSBLOCK", "SPARSE"} /\ extent \in Extents
      /\ extent.log_start = LogBno /\ extent.log_count = 1
  BY <1>1 DEF HandleInv, WalkInv, On
<1>3. Disk[file].object \in Nat \X Nat
  BY <1>1, FileAssumption DEF FileAssumption, On
<1>4. FirstByte \in Nat
  <2>1. extent.log_start \in Nat /\ BlockSize \in Nat
    BY <1>1, <1>2, FileTypes, FileAssumption DEF Extents
  <2>2. QED
    BY <2>1 DEF FirstByte
<1>5. QED
  BY <1>1, <1>2, <1>3, <1>4

LEMMA TreeWalkHolds ==
    ASSUME FileAssumption, TreeAssumption, HandleInv, TreeWalk
    PROVE  HandleInv' /\ walk' # NULL
<1>1. /\ Walking("reiserfs") /\ ~AtRest(walk) /\ walk' \in TreeStep(walk)
      /\ held' = walk'.held /\ UNCHANGED <<file, pos, extent, call, buffers, last>>
  BY DEF TreeWalk
<1>2. /\ walk # NULL /\ call # NULL /\ On("reiserfs") /\ walk \in Searches
      /\ HoldsItsLeaf(walk) /\ walk.want = Disk[file].object \o <<FirstByte>>
  BY <1>1, WalkingR, FileAssumption, TreeAssumption
<1>3. walk.pc = "search"
  BY <1>1, <1>2 DEF AtRest, Searches
<1>4. \A u \in TreeStep(walk) : u \in Searches /\ HoldsItsLeaf(u) /\ u.want = walk.want
  BY <1>2, <1>3, TreeStepHolds, TreeAssumption
<1>5. walk' \in Searches /\ walk'.want = walk.want /\ HoldsItsLeaf(walk)'
  BY <1>1, <1>4 DEF HoldsItsLeaf
<1>6. walk' # NULL
  BY <1>5, SearchIsNotNull, FileAssumption, TreeAssumption
<1>7. held' \in Nat
  BY <1>1, <1>5, TreeAssumption DEF Searches, TreeAssumption
<1>8. UNCHANGED <<On("reiserfs"), LogBno, FirstByte, Disk[file].object>>
  BY <1>1 DEF On, LogBno, FirstByte
<1>9. CallInv'
  BY <1>1 DEF HandleInv, CallInv, Size
<1>10. WalkInv'
  BY <1>1, <1>2, <1>5, <1>8 DEF HandleInv, WalkInv
<1>11. NothingStaysOnLoan'
  BY <1>1, <1>6 DEF HandleInv, NothingStaysOnLoan
<1>12. QED
  BY <1>1, <1>2, <1>6, <1>7, <1>8, <1>9, <1>10, <1>11 DEF HandleInv

(* The search in progress is right about its item, and on the way to it. *)
SearchInv == Walking("reiserfs") => SearchIsRight(walk)

(* What is known of the item a search has found. *)
ItemWellFormed(it) ==
    /\ it.key \in Key
    /\ it.type = "indirect" => it.pointers \in Seq(Nat)
    /\ it.type = "direct" => it.data \in Seq(Byte)

LEMMA ItemFound ==
    ASSUME TreeAssumption, NEW t \in Searches, HoldsItsLeaf(t), t.pc = "found"
    PROVE  /\ ItemWellFormed(AtItem(t)) /\ AtItem(t) \in AllItems
           /\ AtItem(t).type \in ItemTypes
<1> DEFINE n == Nodes[t.held]
           i == t.path_index[Leaf] + 1
<1>1. t.held \in DOMAIN Nodes /\ n.level = Leaf /\ i \in DOMAIN n.items
  BY DEF HoldsItsLeaf, Searches
<1>2. IsNode(n)
  BY <1>1, TreeAssumption DEF TreeAssumption
<1> HIDE DEF i
<1>3. /\ n.items[i].key \in Key /\ n.items[i].type \in ItemTypes
      /\ n.items[i].type = "indirect" => n.items[i].pointers \in Seq(Nat)
      /\ n.items[i].type = "direct" => n.items[i].data \in Seq(Nat \X Nat)
  BY <1>1, <1>2 DEF IsNode
<1>4. AtItem(t) = n.items[i]
  BY DEF AtItem, i
<1>5. Nat \X Nat \subseteq Byte
  BY DEF Byte
<1>6. \A data \in Seq(Nat \X Nat) : data \in Seq(Byte)
  <2>1. SUFFICES ASSUME NEW data \in Seq(Nat \X Nat) PROVE data \in Seq(Byte)
    OBVIOUS
  <2>2. Len(data) \in Nat /\ data \in [1 .. Len(data) -> Nat \X Nat]
    BY LenProperties
  <2>3. data \in [1 .. Len(data) -> Byte]
    BY <1>5, <2>2
  <2>4. QED
    BY <2>2, <2>3, SeqOfBytes
<1>7. AtItem(t) \in AllItems
  BY <1>1, <1>4 DEF AllItems
<1>8. QED
  BY <1>3, <1>4, <1>6, <1>7 DEF ItemWellFormed

LEMMA NoItemHolds ==
    ASSUME FileAssumption, TreeAssumption, HandleInv, NoItem
    PROVE  HandleInv'
<1>1. /\ Walking("reiserfs") /\ walk.pc # "found"
      /\ extent' = [extent EXCEPT !.type = "INVALID"]
      /\ walk' = NULL /\ call' = NULL
      /\ UNCHANGED <<file, pos, held, buffers, last>>
  BY DEF NoItem
<1>2. held = 0 /\ extent.type # "BUFFER" /\ walk # NULL
  BY <1>1, WalkingR, FileAssumption, TreeAssumption DEF HoldsItsLeaf
<1>3. extent' \in Extents /\ extent'.type = "INVALID"
  BY <1>1, HoleIsExtent
<1>4. NothingStaysOnLoan'
  BY <1>1, <1>2, <1>3 DEF HandleInv, NothingStaysOnLoan
<1>5. QED
  BY <1>1, <1>3, <1>4 DEF HandleInv, CallInv, WalkInv

(* The block to read begins at or after the item found for it. *)
LEMMA IntraIsIn ==
    ASSUME FileAssumption, TreeAssumption, HandleInv, SearchInv, Walking("reiserfs"),
           walk.pc = "found"
    PROVE  /\ AtItem(walk) \in ObjectItems(Disk[file].object)
           /\ AtItem(walk).key \in Key /\ AtItem(walk).key[3] <= FirstByte
           /\ \A other \in ObjectItems(Disk[file].object) :
                 other.key[3] <= FirstByte => other.key[3] <= AtItem(walk).key[3]
           /\ IntraOffset \in Nat
<1> DEFINE o == Disk[file].object
<1>1. /\ walk \in Searches /\ HoldsItsLeaf(walk) /\ walk.want = o \o <<FirstByte>>
      /\ o \in Nat \X Nat /\ FirstByte \in Nat
  BY WalkingR, FileAssumption, TreeAssumption
<1>2. walk.want = <<o[1], o[2], FirstByte>>
  BY <1>1, KeyOfObject
<1>3. walk.want[1] = o[1] /\ walk.want[2] = o[2] /\ walk.want[3] = FirstByte
  BY <1>2
<1>4. ObjectItems(walk.want) = ObjectItems(o)
  BY <1>3 DEF ObjectItems
<1>5. ResultIsRight(walk) /\ walk.next = FALSE
  BY <1>1 DEF SearchInv, SearchIsRight, Searches
<1>6. /\ AtItem(walk) \in ObjectItems(walk.want) /\ AtItem(walk).key[3] <= walk.want[3]
      /\ \A other \in ObjectItems(walk.want) :
            other.key[3] <= walk.want[3] => other.key[3] <= AtItem(walk).key[3]
  BY <1>5 DEF ResultIsRight
<1>7. AtItem(walk).key \in Key
  BY <1>1, ItemFound, TreeAssumption DEF ItemWellFormed
<1> HIDE DEF o
<1>8. AtItem(walk).key[3] \in Nat
  BY <1>7 DEF Key
<1>9. IntraOffset \in Nat
  <2>1. AtItem(walk).key[3] <= FirstByte
    BY <1>3, <1>6
  <2> DEFINE k == AtItem(walk).key[3]
  <2>2. IntraOffset = FirstByte - k
    BY DEF IntraOffset
  <2> HIDE DEF k
  <2>3. k \in Nat /\ k <= FirstByte
    BY <1>8, <2>1 DEF k
  <2>4. QED
    BY ONLY <1>1, <2>2, <2>3
<1>10. QED
  BY <1>3, <1>4, <1>6, <1>7, <1>9 DEF o

LEMMA ItemHolds ==
    ASSUME FileAssumption, TreeAssumption, HandleInv, SearchInv,
           NoDataItem \/ Indirect \/ Direct \/ DirectFails \/ Corrupted
    PROVE  HandleInv'
<1>1. Walking("reiserfs") /\ walk # NULL
  BY DEF NoDataItem, Indirect, Direct, DirectFails, Corrupted, AtType, Walking
<1>2. On("reiserfs") /\ walk \in Searches /\ HoldsItsLeaf(walk) /\ extent \in Extents
  BY <1>1, WalkingR, FileAssumption, TreeAssumption
<1>3. CASE NoDataItem
  <2>1. Return(Hole) /\ call' = call /\ buffers' = buffers
    BY <1>3 DEF NoDataItem
  <2>2. Hole \in Extents /\ Hole.type # "BUFFER"
    BY HoleIsExtent
  <2>3. QED
    BY <1>1, <2>1, <2>2, ReturnHolds, FileAssumption
<1>4. CASE Indirect
  <2> DEFINE it == AtItem(walk)
             b  == it.pointers[IntraBno + 1]
             ext == Block(b, 1)
  <2>1. /\ walk.pc = "found" /\ it.type = "indirect" /\ Usable(it)
        /\ Return(ext) /\ call' = call /\ buffers' = buffers
    BY <1>4 DEF Indirect, AtType
  <2>2. b \in Nat
    <3>1. it.pointers \in Seq(Nat) /\ it.key \in Key
      BY <1>2, <2>1, ItemFound, TreeAssumption DEF ItemWellFormed
    <3>2. IntraBno < Len(it.pointers) /\ IntraOffset % BlockSize = 0
      BY <2>1 DEF Usable
    <3>3. IntraBno \in Nat
      <4>1. IntraOffset \in Nat
        BY <1>1, <2>1, IntraIsIn, FileAssumption, TreeAssumption
      <4>2. BlockSize \in Nat \ {0}
        BY FileTypes, FileAssumption DEF HandleInv
      <4>3. QED
        BY <4>1, <4>2, Division DEF IntraBno
    <3>4. QED
      BY <3>1, <3>2, <3>3, ElementOfSeq
  <2>3. ext \in Extents /\ ext.type # "BUFFER"
    BY <2>2, HoleIsExtent
  <2> HIDE DEF ext
  <2>4. QED
    BY <1>1, <2>1, <2>3, ReturnHolds, FileAssumption
<1>5. CASE Direct
  <2> DEFINE it == AtItem(walk)
             ext == [extent EXCEPT !.type = "BUFFER", !.buffer = it.data]
  <2>1. /\ walk.pc = "found" /\ it.type = "direct"
        /\ Return(ext) /\ call' = call /\ buffers' = buffers + 1
    BY <1>5 DEF Direct, AtType
  <2>2. it.data \in Seq(Byte)
    BY <1>2, <2>1, ItemFound, TreeAssumption DEF ItemWellFormed
  <2>3. ext \in Extents /\ ext.type = "BUFFER"
    BY <1>2, <2>2 DEF Extents
  <2> HIDE DEF ext
  <2>4. QED
    BY <1>1, <1>2, <2>1, <2>3, ReturnHolds, FileAssumption
<1>6. CASE DirectFails \/ Corrupted
  BY <1>1, <1>6, ErrorHolds, FileAssumption DEF DirectFails, Corrupted
<1>7. QED
  BY <1>3, <1>4, <1>5, <1>6

(* The search goes on as it began, and every other step ends it. *)
LEMMA SearchInvHolds ==
    ASSUME FileAssumption, TreeAssumption, SearchTreeAssumption, HandleInv, SearchInv,
           [Next]_vars
    PROVE  SearchInv'
<1>1. CASE GetExtentR
  <2>1. PICK want \in Key : walk' = Search(want)
    BY <1>1, GetExtentRHolds, FileAssumption, TreeAssumption
  <2>2. SearchIsRight(Search(want))
    BY SearchStartsRight, TreeAssumption, SearchTreeAssumption
  <2>3. SearchIsRight(walk)'
    BY <2>1, <2>2 DEF SearchIsRight, OnTrack, InReach, ResultIsRight, AtItem
  <2>4. QED
    BY <2>3 DEF SearchInv
<1>2. CASE TreeWalk
  <2>1. /\ Walking("reiserfs") /\ ~AtRest(walk) /\ walk' \in TreeStep(walk)
        /\ walk \in Searches /\ HoldsItsLeaf(walk)
    BY <1>2, WalkingR, FileAssumption, TreeAssumption DEF TreeWalk
  <2>2. walk.pc = "search" /\ SearchIsRight(walk)
    BY <2>1 DEF AtRest, Searches, SearchInv
  <2>3. \A u \in TreeStep(walk) : SearchIsRight(u)
    BY <2>1, <2>2, TreeStepIsRight, TreeAssumption, SearchTreeAssumption
  <2>4. SearchIsRight(walk)'
    BY <2>1, <2>3 DEF SearchIsRight, OnTrack, InReach, ResultIsRight, AtItem
  <2>5. QED
    BY <2>4 DEF SearchInv
<1>3. CASE NoItem \/ NoDataItem \/ Indirect \/ Direct \/ DirectFails \/ Corrupted
              \/ WalkHole \/ WalkLeaf \/ WalkFails
  <2>1. walk' = NULL
    BY <1>3 DEF NoItem, NoDataItem, Indirect, Direct, DirectFails, Corrupted, WalkHole,
                WalkLeaf, WalkFails, ReturnError, Return
  <2>2. QED
    BY <2>1 DEF SearchInv, Walking
<1>4. CASE GetExtent2 \/ WalkDown
  <2>1. On("ext2") /\ file' = file
    BY <1>4 DEF GetExtent2, WalkDown, Walking, Start
  <2>2. QED
    BY <2>1 DEF SearchInv, Walking, On
<1>5. CASE (\E n \in Lengths : Read(n)) \/ SetPosition \/ Reopen \/ CopyBlock \/ CopyBuffer
              \/ CopyZeros \/ CopyFails \/ ReadDone \/ GetExtent9660 \/ UNCHANGED vars
  <2>1. walk' = walk /\ file' = file
    BY <1>5 DEF Read, SetPosition, Reopen, CopyBlock, CopyBuffer, CopyZeros, CopyFails,
                ReadDone, GetExtent9660, Deliver, vars
  <2>2. QED
    BY <2>1 DEF SearchInv, Walking, On, SearchIsRight, OnTrack, InReach, ResultIsRight, AtItem
<1>6. QED
  BY <1>1, <1>2, <1>3, <1>4, <1>5 DEF Next, ShandleRead, GetExtent

LEMMA HandleInvHolds ==
    ASSUME FileAssumption, TreeAssumption, HandleInv, SearchInv, [Next]_vars
    PROVE  HandleInv'
<1>1. CASE (\E n \in Lengths : Read(n)) \/ SetPosition \/ Reopen
  BY <1>1, ReadHolds, ClientHolds, FileAssumption
<1>2. CASE CopyBlock \/ CopyBuffer \/ CopyZeros \/ CopyFails \/ ReadDone
  BY <1>2, CopyHolds, CopyEndsHolds, FileAssumption
<1>3. CASE GetExtent2 \/ WalkHole \/ WalkLeaf \/ WalkDown \/ WalkFails \/ GetExtent9660
  BY <1>3, GetExtent2Holds, WalkEndsHolds, WalkDownHolds, GetExtent9660Holds, FileAssumption
<1>4. CASE GetExtentR \/ TreeWalk \/ NoItem
  BY <1>4, GetExtentRHolds, TreeWalkHolds, NoItemHolds, FileAssumption, TreeAssumption
<1>5. CASE NoDataItem \/ Indirect \/ Direct \/ DirectFails \/ Corrupted
  BY <1>5, ItemHolds, FileAssumption, TreeAssumption
<1>6. CASE UNCHANGED vars
  BY <1>6 DEF vars, HandleInv, CallInv, Size, WalkInv, ExtWalk, PointerBlocks,
              FirstByte, LogBno, On, HoldsItsLeaf, NothingStaysOnLoan
<1>7. QED
  BY <1>1, <1>2, <1>3, <1>4, <1>5, <1>6 DEF Next, ShandleRead, GetExtent

LEMMA HandleStarts ==
    ASSUME FileAssumption, Init
    PROVE  HandleInv /\ SearchInv
<1>1. NoExtent \in Extents /\ NoExtent.type = "INVALID"
  BY EmptySeq DEF NoExtent, Extents
<1>2. QED
  BY <1>1 DEF Init, HandleInv, CallInv, WalkInv, NothingStaysOnLoan, SearchInv, Walking

(* The inductive invariant of a handle: its types, what the call in progress *)
(* has left to read, what a get_extent in progress has on loan and how far   *)
(* its walk or search has come.                                              *)
THEOREM HandleInvariant == Spec => [](HandleInv /\ SearchInv)
<1>1. Init => HandleInv /\ SearchInv
  BY HandleStarts, FileAssumption
<1>2. HandleInv /\ SearchInv /\ [Next]_vars => HandleInv' /\ SearchInv'
  BY HandleInvHolds, SearchInvHolds, FileAssumption, TreeAssumption, SearchTreeAssumption
<1>3. QED
  BY <1>1, <1>2, PTL DEF Spec

(* fsw_*_get_extent gives back every block it got on all of its returns, and *)
(* the handle's buffer is the only one allocated, in any interleaving of     *)
(* reads, seeks, failures and reopenings, on every volume.                   *)
THEOREM NothingStays == Spec => []NothingStaysOnLoan
<1>1. HandleInv => NothingStaysOnLoan
  BY DEF HandleInv
<1>2. QED
  BY <1>1, HandleInvariant, PTL

(* The item fsw_reiserfs_get_extent reads through is the last of the object  *)
(* that does not begin after the block, in every well-formed tree.           *)
THEOREM SearchFindsTheItem == Spec => []FindsTheItem
<1>1. SearchInv => FindsTheItem
  BY DEF SearchInv, SearchIsRight, FindsTheItem
<1>2. QED
  BY <1>1, HandleInvariant, PTL

------------------------------------------------------------------------------
(* What is read is the file, where the extents are its map.                   *)

(* The data gathered so far by a call that does not wrap round, and what the *)
(* last read delivered.                                                      *)
AskedFor(want) == IF want <= Size - pos THEN want ELSE Size - pos
ReadInv ==
    /\ call # NULL /\ pos + AskedFor(call.want) <= 2^W =>
          /\ Len(call.data) + call.buflen = AskedFor(call.want)
          /\ call.buflen > 0 => call.pos = pos + Len(call.data)
          /\ \A i \in 1 .. Len(call.data) : call.data[i] = ByteOfFile(pos + i - 1)
    /\ ReadsTheFile

(* What a read of want bytes at start is to deliver. *)
FileFrom(start, want) == [i \in 1 .. Min({want, Max({0, Size - start})})
                             |-> ByteOfFile(start + i - 1)]

(* The file's bytes depend on nothing but the file. *)
LEMMA SameFile ==
    ASSUME file' = file
    PROVE  /\ Size' = Size
           /\ \A p : ByteOfFile(p)' = ByteOfFile(p)
           /\ last' = last => ReadsTheFile' = ReadsTheFile
<1>1. Size' = Size
  BY DEF Size
<1>2. ASSUME NEW p PROVE ByteOfFile(p)' = ByteOfFile(p)
  BY DEF ByteOfFile, On, BlockOfFile
<1>3. ASSUME last' = last PROVE ReadsTheFile' = ReadsTheFile
  BY <1>1, <1>2, <1>3 DEF ReadsTheFile, ByteOfFile, On, BlockOfFile
<1>4. QED
  BY <1>1, <1>2, <1>3

(* What ExtentIsTheMap says, in terms of Mapped. *)
LEMMA MapOfExtent ==
    ExtentIsTheMap <=>
        (walk = NULL /\ extent.type # "INVALID" =>
            \A j \in 0 .. extent.log_count * BlockSize - 1 :
                extent.log_start * BlockSize + j < Size \/ On("ext2") =>
                    ByteOfFile(extent.log_start * BlockSize + j) = Mapped(j))
BY Zenon DEF ExtentIsTheMap, Mapped, MappedBy

(* One copy adds bytes of the file. *)
LEMMA CopyReads ==
    ASSUME FileAssumption, HandleInv, ExtentIsTheMap, ReadInv,
           CopyBlock \/ CopyBuffer \/ CopyZeros
    PROVE  ReadInv'
<1>1. PICK bytes : Copied(bytes)
  BY CopyBlockCopies, CopyOtherCopies, FileAssumption
<1>2. Copying /\ InExtent
  BY DEF CopyBlock, InBlock, CopyBuffer, CopyZeros
<1> DEFINE m == Len(bytes)
           n == Len(call.data)
<1>3. /\ bytes \in Seq(Byte) /\ m \in 1 .. call.buflen /\ Deliver(bytes)
      /\ \A i \in 1 .. m : /\ PosInExtent + i - 1 < extent.log_count * BlockSize
                           /\ bytes[i] = Mapped(PosInExtent + i - 1)
  BY <1>1 DEF Copied
<1>4. /\ call' = [want |-> call.want, pos |-> (call.pos + m) % 2^W,
                  data |-> call.data \o bytes, buflen |-> call.buflen - m]
      /\ UNCHANGED <<file, pos, extent, walk, held, buffers, last>>
  BY <1>2, <1>3, DeliverHolds, FileAssumption DEF Deliver
<1>0. SUFFICES ASSUME pos + AskedFor(call.want) <= 2^W
               PROVE  /\ Len(call'.data) + call'.buflen = AskedFor(call.want)
                      /\ call'.buflen > 0 => call'.pos = pos + Len(call'.data)
                      /\ \A i \in 1 .. Len(call'.data) :
                            call'.data[i] = ByteOfFile(pos + i - 1)
  <2>1. /\ call'.want = call.want /\ pos' = pos /\ file' = file /\ last' = last
    BY <1>4
  <2>2. ReadsTheFile' /\ AskedFor(call.want)' = AskedFor(call.want)
    BY <2>1, SameFile DEF ReadInv, AskedFor
  <2>3. \A i : ByteOfFile(pos + i - 1)' = ByteOfFile(pos + i - 1)
    BY <2>1, SameFile
  <2>4. (2^W)' = 2^W
    OBVIOUS
  <2>5. QED
    BY <2>1, <2>2, <2>3, <2>4 DEF ReadInv
<1>5. /\ call # NULL /\ call.data \in Seq(Byte) /\ call.pos = pos + n
      /\ n + call.buflen = AskedFor(call.want)
      /\ \A i \in 1 .. n : call.data[i] = ByteOfFile(pos + i - 1)
  BY <1>0, <1>2 DEF Copying, ReadInv, HandleInv, CallInv, Calls
<1>6. /\ PosInExtent \in Nat /\ call.pos = extent.log_start * BlockSize + PosInExtent
      /\ extent.log_start * BlockSize \in Nat /\ extent.log_count * BlockSize \in Nat
  BY <1>2, PositionInExtent, FileAssumption
<1>7. /\ call.pos \in Nat /\ pos \in Nat /\ call.buflen \in Nat /\ Size \in Nat
      /\ call.pos + call.buflen <= Size
  BY <1>2, PositionInFile, FileTypes, FileAssumption DEF Copying, HandleInv
<1>8. ASSUME NEW i \in 1 .. m PROVE bytes[i] = ByteOfFile(call.pos + i - 1)
  <2> DEFINE j == PosInExtent + i - 1
             p == extent.log_start * BlockSize + j
  <2>1. j \in 0 .. extent.log_count * BlockSize - 1
    BY <1>3, <1>6
  <2>2. p = call.pos + i - 1 /\ p < Size
    BY <1>3, <1>6, <1>7
  <2>3. walk = NULL /\ extent.type # "INVALID"
    BY <1>2 DEF Copying, InExtent
  <2> HIDE DEF j
  <2>4. ByteOfFile(p) = Mapped(j)
    <3>1. \A k \in 0 .. extent.log_count * BlockSize - 1 :
             extent.log_start * BlockSize + k < Size \/ On("ext2") =>
                 ByteOfFile(extent.log_start * BlockSize + k) = Mapped(k)
      BY <2>3, MapOfExtent, Zenon
    <3>2. QED
      BY <2>1, <2>2, <3>1, Zenon
  <2>5. bytes[i] = Mapped(j)
    BY <1>3 DEF j
  <2> HIDE DEF p
  <2>6. QED
    BY <2>2, <2>4, <2>5
<1> HIDE DEF m, n
<1>9. /\ call.data \o bytes \in Seq(Byte) /\ Len(call.data \o bytes) = n + m
      /\ \A i \in 1 .. n + m : (call.data \o bytes)[i] =
                                 IF i <= n THEN call.data[i] ELSE bytes[i - n]
  BY <1>3, <1>5, ConcatProperties DEF m, n
<1>10. n \in Nat /\ m \in Nat
  BY <1>3, <1>5 DEF m, n
<1>11. ASSUME NEW i \in 1 .. n + m
       PROVE  (call.data \o bytes)[i] = ByteOfFile(pos + i - 1)
  <2>1. CASE i <= n
    BY <1>5, <1>9, <1>10, <2>1
  <2>2. CASE ~(i <= n)
    <3>1. i - n \in 1 .. m /\ call.pos + (i - n) - 1 = pos + i - 1
      <4>1. call.pos = pos + n /\ call.pos \in Nat /\ pos \in Nat
        BY <1>5, <1>7
      <4>2. i \in 1 .. n + m
        OBVIOUS
      <4>3. QED
        BY ONLY <1>10, <2>2, <4>1, <4>2
    <3>2. (call.data \o bytes)[i] = bytes[i - n]
      BY <1>9, <2>2
    <3>3. bytes[i - n] = ByteOfFile(call.pos + (i - n) - 1)
      BY <1>8, <3>1
    <3>4. QED
      BY <3>1, <3>2, <3>3
  <2>3. QED
    BY <2>1, <2>2
<1>12. /\ call'.data = call.data \o bytes /\ call'.pos = (call.pos + m) % 2^W
       /\ call'.buflen = call.buflen - m
  BY <1>4
<1>13. Len(call'.data) + call'.buflen = AskedFor(call.want)
  BY <1>5, <1>7, <1>9, <1>10, <1>12
<1>14. ASSUME call'.buflen > 0 PROVE call'.pos = pos + Len(call'.data)
  <2>1. call.pos + m = pos + (n + m) /\ call.pos + m \in Nat
    BY <1>5, <1>7, <1>10
  <2>2. call.pos + m < 2^W /\ 2^W \in Nat \ {0}
    <3>1. 2^W \in Int
      BY FileTypes, FileAssumption DEF HandleInv
    <3>2. call.buflen - m > 0 /\ m \in Nat /\ n \in Nat /\ call.buflen \in Nat /\ pos \in Nat
      BY <1>7, <1>10, <1>12, <1>14
    <3> DEFINE asked == AskedFor(call.want)
               top == 2^W
    <3>3. n + call.buflen = asked /\ pos + asked <= top /\ top \in Int
      BY <1>0, <1>5, <3>1
    <3> HIDE DEF asked, top
    <3>4. pos + (n + m) < top /\ top \in Nat \ {0}
      BY ONLY <3>2, <3>3
    <3>5. QED
      BY <2>1, <3>4 DEF top
  <2>3. QED
    BY <1>9, <1>12, <2>1, <2>2, Narrow
<1>15. QED
  BY <1>9, <1>11, <1>12, <1>13, <1>14

LEMMA AskedIs ==
    ASSUME Size \in Nat, pos \in Nat, pos < Size, NEW want \in Nat
    PROVE  /\ Min({want, Max({0, Size - pos})}) = AskedFor(want)
           /\ AskedFor(want) \in Nat
<1>1. Size - pos \in Nat
  OBVIOUS
<1>2. Max({0, Size - pos}) = Size - pos
  BY <1>1, MaxOfTwo
<1>3. Min({want, Size - pos}) = AskedFor(want)
  BY <1>1, MinOfTwo DEF AskedFor
<1>4. QED
  BY <1>1, <1>2, <1>3 DEF AskedFor

LEMMA ReadDoneReads ==
    ASSUME FileAssumption, HandleInv, ReadInv, ReadDone
    PROVE  ReadInv'
<1>1. /\ call # NULL /\ call.buflen = 0 /\ call' = NULL /\ UNCHANGED file
      /\ last' = [start |-> pos, want |-> call.want, data |-> call.data]
  BY DEF ReadDone
<1>2. /\ call.data \in Seq(Byte) /\ call.want \in Nat /\ call.pos \in Nat
      /\ pos < Size
  BY <1>1 DEF HandleInv, CallInv, Calls
<1>3. Size \in Nat /\ pos \in Nat
  BY FileTypes, FileAssumption DEF HandleInv
<1> DEFINE n == Len(call.data)
<1>0. SUFFICES ASSUME pos + AskedFor(call.want) <= 2^W PROVE ReadsTheFile'
  <2>1. last'.start = pos /\ last'.want = call.want /\ Size' = Size
    BY <1>1 DEF Size
  <2>2. Min({last.want, Max({0, Size - last.start})})' = AskedFor(call.want)
    BY <1>2, <1>3, <2>1, AskedIs
  <2>3. CASE pos + AskedFor(call.want) <= 2^W
    BY <1>1, <2>3 DEF ReadInv
  <2>4. CASE ~(pos + AskedFor(call.want) <= 2^W)
    <3>1. ReadsTheFile'
      BY <2>1, <2>2, <2>4, Zenon DEF ReadsTheFile
    <3>2. QED
      BY <1>1, <3>1 DEF ReadInv
  <2>5. QED
    BY <2>3, <2>4
<1>4. n = AskedFor(call.want) /\ \A i \in 1 .. n : call.data[i] = ByteOfFile(pos + i - 1)
  <2>1. /\ n + call.buflen = AskedFor(call.want)
        /\ \A i \in 1 .. n : call.data[i] = ByteOfFile(pos + i - 1)
    BY <1>0, <1>1 DEF ReadInv
  <2>2. n \in Nat
    BY <1>2, LenProperties
  <2>3. QED
    BY <1>1, <2>1, <2>2
<1>5. call.data = [i \in 1 .. n |-> ByteOfFile(pos + i - 1)]
  <2>1. call.data = [i \in 1 .. n |-> call.data[i]]
    BY <1>2
  <2>2. QED
    BY <1>4, <2>1
<1> HIDE DEF n
<1>6. n = Min({call.want, Max({0, Size - pos})})
  BY <1>2, <1>3, <1>4, AskedIs
<1>7. /\ last'.start = pos /\ last'.want = call.want /\ last'.data = call.data
      /\ file' = file
  BY <1>1
<1>8. call.data = FileFrom(pos, call.want)
  BY <1>5, <1>6 DEF FileFrom
<1>9. FileFrom(last.start, last.want)' = FileFrom(pos, call.want)
  BY ONLY <1>7 DEF FileFrom, Size, ByteOfFile, On, BlockOfFile
<1>10. QED
  BY <1>7, <1>8, <1>9 DEF ReadsTheFile, FileFrom

LEMMA ReadReads ==
    ASSUME FileAssumption, HandleInv, ReadInv, NEW n \in Lengths, Read(n)
    PROVE  ReadInv'
<1>1. call = NULL /\ file' = file /\ pos' = pos
  BY DEF Read
<1>2. Size \in Nat /\ pos \in Nat /\ n \in Nat /\ n < 2^W /\ 2^W \in Nat \ {0}
  <2>1. Size \in Nat /\ 2^W \in Int /\ Lengths \subseteq 0 .. 2^W - 1 /\ pos \in Nat
    BY FileTypes, FileAssumption DEF FileAssumption, HandleInv
  <2>2. QED
    BY <2>1
<1>3. CASE pos >= Size
  <2>1. call' = NULL /\ last' = [start |-> pos, want |-> n, data |-> <<>>]
    <3>1. IF pos >= Size
          THEN last' = [start |-> pos, want |-> n, data |-> <<>>] /\ UNCHANGED call
          ELSE TRUE
      BY Zenon DEF Read
    <3>2. QED
      BY <1>1, <1>3, <3>1, Zenon
  <2>2. Max({0, Size - pos}) = 0
    <3> DEFINE left == Size - pos
    <3>1. left \in Int /\ left <= 0
      BY <1>2, <1>3
    <3> HIDE DEF left
    <3>2. Max({0, left}) = IF 0 <= left THEN left ELSE 0
      BY <3>1, MaxOfTwo
    <3>3. Max({0, left}) = 0
      BY ONLY <3>1, <3>2
    <3>4. QED
      BY <3>3 DEF left
  <2>3. Min({n, 0}) = 0
    BY <1>2, MinOfTwo
  <2>4. <<>> = [i \in 1 .. 0 |-> ByteOfFile(pos + i - 1)]
    OBVIOUS
  <2>5. last'.start = pos /\ last'.want = n /\ last'.data = <<>>
    BY <2>1
  <2>6. <<>> = FileFrom(pos, n)
    BY <2>2, <2>3, <2>4 DEF FileFrom
  <2>7. FileFrom(last.start, last.want)' = FileFrom(pos, n)
    BY <1>1, <2>5 DEF FileFrom, Size, ByteOfFile, On, BlockOfFile
  <2>8. ReadsTheFile'
    BY <2>5, <2>6, <2>7 DEF ReadsTheFile, FileFrom
  <2>9. QED
    BY <2>1, <2>8 DEF ReadInv
<1>4. CASE ~(pos >= Size)
  <2> DEFINE m == pos % 2^W
             left == Min({n, Size - m})
  <2>1. last' = NULL /\ call' = [want |-> n, pos |-> m, data |-> <<>>, buflen |-> left]
    BY <1>4, Zenon DEF Read
  <2> HIDE DEF m, left
  <2>2. /\ call'.want = n /\ call'.pos = m /\ call'.data = <<>> /\ call'.buflen = left
        /\ Len(call'.data) = 0
    BY <2>1, EmptySeq
  <2>3. m \in Nat /\ m <= pos
    BY <1>2, AtMost DEF m
  <2>4. Size - m \in Nat
    BY <1>2, <1>4, <2>3
  <2>5. left = IF n <= Size - m THEN n ELSE Size - m
    BY <1>2, <2>4, MinOfTwo DEF left
  <2>6. AskedFor(call.want)' = IF n <= Size - pos THEN n ELSE Size - pos
    BY <1>1, <2>2 DEF AskedFor, Size
  <2>7. ASSUME pos + AskedFor(call.want)' <= 2^W
        PROVE  left = AskedFor(call.want)' /\ (left > 0 => m = pos)
    <3>1. CASE pos < 2^W
      <4>1. m = pos
        BY <1>2, <3>1, Narrow DEF m
      <4>2. QED
        BY <2>5, <2>6, <4>1
    <3>2. CASE ~(pos < 2^W)
      <4>1. AskedFor(call.want)' = 0 /\ n = 0
        BY <1>2, <1>4, <2>6, <2>7, <3>2
      <4>2. left = 0
        BY <2>4, <2>5, <4>1
      <4>3. QED
        BY <4>1, <4>2
    <3>3. QED
      BY <3>1, <3>2
  <2>8. ReadsTheFile'
    BY <2>1 DEF ReadsTheFile
  <2>9. (2^W)' = 2^W /\ left \in Nat
    BY <1>2, <2>4, <2>5
  <2>10. QED
    BY <1>1, <1>2, <2>2, <2>7, <2>8, <2>9 DEF ReadInv
<1>5. QED
  BY <1>3, <1>4

LEMMA ReadInvHolds ==
    ASSUME FileAssumption, HandleInv, ExtentIsTheMap, ReadInv, [Next]_vars
    PROVE  ReadInv'
<1>1. CASE \E n \in Lengths : Read(n)
  BY <1>1, ReadReads, FileAssumption
<1>2. CASE CopyBlock \/ CopyBuffer \/ CopyZeros
  BY <1>2, CopyReads, FileAssumption
<1>3. CASE ReadDone
  BY <1>3, ReadDoneReads, FileAssumption
<1>4. CASE SetPosition \/ Reopen \/ CopyFails \/ ReturnError \/ NoItem
  <2>1. call' = NULL /\ file' = file /\ last' \in {last, NULL}
    BY <1>4 DEF SetPosition, Reopen, CopyFails, ReturnError, Return, NoItem
  <2>2. CASE last' = last
    BY <2>1, <2>2, SameFile DEF ReadInv
  <2>3. CASE last' = NULL
    BY <2>1, <2>3 DEF ReadInv, ReadsTheFile
  <2>4. QED
    BY <2>1, <2>2, <2>3
<1>5. CASE GetExtent2 \/ WalkHole \/ WalkLeaf \/ WalkDown \/ GetExtent9660 \/ GetExtentR
              \/ TreeWalk \/ NoDataItem \/ Indirect \/ Direct \/ UNCHANGED vars
  <2>1. UNCHANGED <<call, file, pos, last>>
    BY <1>5 DEF GetExtent2, WalkHole, WalkLeaf, WalkDown, GetExtent9660, GetExtentR, TreeWalk,
                NoDataItem, Indirect, Direct, Start, Return, vars
  <2>2. QED
    <3>1. AskedFor(call.want)' = AskedFor(call.want)
      BY <2>1, SameFile DEF AskedFor
    <3>2. QED
      BY <2>1, <3>1, SameFile DEF ReadInv
<1>6. QED
  BY <1>1, <1>2, <1>3, <1>4, <1>5
     DEF Next, ShandleRead, GetExtent, WalkFails, DirectFails, Corrupted

(* Whatever extents earlier reads, seeks and failures leave in the handle, a *)
(* read that does not go past 2^W delivers the file's data, as long as each  *)
(* of them maps its bytes.                                                   *)
THEOREM ReadsThroughTheMap == Spec /\ []ExtentIsTheMap => []ReadsTheFile
<1>1. Init => ReadInv
  BY DEF Init, ReadInv, ReadsTheFile
<1>2. HandleInv /\ ExtentIsTheMap /\ ReadInv /\ [Next]_vars => ReadInv'
  BY ReadInvHolds, FileAssumption
<1>3. ReadInv => ReadsTheFile
  BY DEF ReadInv
<1>4. QED
  BY <1>1, <1>2, <1>3, HandleInvariant, PTL DEF Spec

------------------------------------------------------------------------------
(* The extents of ext2 and iso9660 are the map of the file.                   *)

(* The block the first m indices of a path lead to. *)
Via(p, m) ==
    LET ib == Disk[file].i_block
    IN  IF m = 1 THEN ib[p[1]]
        ELSE IF m = 2 THEN Below(ib[p[1]], p[2])
        ELSE IF m = 3 THEN Below(Below(ib[p[1]], p[2]), p[3])
        ELSE Below(Below(Below(ib[p[1]], p[2]), p[3]), p[4])

(* From a hole on the way there is nothing but holes. *)
LEMMA HoleBelow ==
    ASSUME NEW p, NEW m \in 1 .. 4, NEW n \in 1 .. 4, m <= n, Via(p, m) = 0
    PROVE  Via(p, n) = 0
<1>1. \A i : Below(0, i) = 0
  BY DEF Below
<1>2. m \in {1, 2, 3, 4} /\ n \in {1, 2, 3, 4}
  OBVIOUS
<1>3. CASE m = 1
  BY <1>1, <1>2, <1>3 DEF Via
<1>4. CASE m = 2
  BY <1>1, <1>2, <1>4 DEF Via
<1>5. CASE m = 3
  BY <1>1, <1>2, <1>5 DEF Via
<1>6. CASE m = 4
  BY <1>2, <1>6
<1>7. QED
  BY <1>2, <1>3, <1>4, <1>5, <1>6

(* The indices of PathTo lead to the block of the file, and the pointers     *)
(* after the last of them to the blocks that follow.                         *)
LEMMA PathLeads ==
    ASSUME FileAssumption, file \in DOMAIN Disk, NEW l \in Nat, l < MaxBlocks, NEW k \in Nat,
           NEW p, p = PathTo(l), p[Len(p)] + k < IF Len(p) = 1 THEN NDir ELSE IndCount
    PROVE  BlockOfFile(l + k) = IF Len(p) = 1 THEN Disk[file].i_block[p[1] + k]
                                ELSE Below(Via(p, Len(p) - 1), p[Len(p)] + k)
<1> DEFINE ind == l - NDir
           dind == ind - IndCount
           tind == dind - DIndCount
           ib == Disk[file].i_block
<1>1. /\ NDir \in Nat \ {0} /\ IndCount \in Nat \ {0}
      /\ DIndCount \in Nat \ {0}
      /\ DIndCount = IndCount * IndCount
  BY FileTypes, FileAssumption
<1>2. /\ ind \in Int /\ dind \in Int /\ tind \in Int
      /\ l < NDir => ind < 0 /\ dind < 0 /\ tind < 0
      /\ ind < IndCount => dind < 0 /\ tind < 0
      /\ dind < DIndCount => tind < 0
      /\ l >= NDir => ind \in Nat
      /\ ind >= IndCount => dind \in Nat
      /\ dind >= DIndCount => tind \in Nat
  <2>1. l \in Nat /\ NDir \in Nat /\ IndCount \in Nat /\ DIndCount \in Nat
    BY <1>1
  <2>2. QED
    BY ONLY <2>1
<1>3. PathTo(l) =
        CASE l < NDir -> <<l>>
          [] l >= NDir /\ ind < IndCount -> <<NDir, ind>>
          [] ind >= IndCount /\ dind < DIndCount ->
               <<NDir + 1, dind \div IndCount, dind % IndCount>>
          [] OTHER -> <<NDir + 2, tind \div DIndCount, (tind \div IndCount) % IndCount,
                        tind % IndCount>>
  BY DEF PathTo
<1>4. BlockOfFile(l + k) =
        IF ind + k < 0 THEN ib[l + k]
        ELSE IF dind + k < 0 THEN Singly(ib[NDir], ind + k)
        ELSE IF tind + k < 0 THEN Doubly(ib[NDir + 1], dind + k)
        ELSE Triply(ib[NDir + 2], tind + k)
  <2> DEFINE n == l + k
  <2>1. /\ n - NDir = ind + k /\ (n - NDir) - IndCount = dind + k
        /\ ((n - NDir) - IndCount) - DIndCount = tind + k
    <3>1. NDir \in Nat /\ IndCount \in Nat /\ DIndCount \in Nat
      BY ONLY <1>1
    <3>2. QED
      BY ONLY <3>1, l \in Nat, k \in Nat
  <2>2. BlockOfFile(n) =
          IF n - NDir < 0 THEN ib[n]
          ELSE IF (n - NDir) - IndCount < 0 THEN Singly(ib[NDir], n - NDir)
          ELSE IF ((n - NDir) - IndCount) - DIndCount < 0
               THEN Doubly(ib[NDir + 1], (n - NDir) - IndCount)
          ELSE Triply(ib[NDir + 2], ((n - NDir) - IndCount) - DIndCount)
    BY DEF BlockOfFile
  <2> HIDE DEF n, ind, dind, tind, ib
  <2>3. QED
    BY <2>1, <2>2 DEF n
<1> HIDE DEF ind, dind, tind, ib
<1>5. CASE l < NDir
  <2>1. p = <<l>>
    <3>1. l < NDir /\ ~(l >= NDir) /\ ~(ind >= IndCount)
      BY ONLY <1>1, <1>2, <1>5, l \in Nat
    <3>2. PathTo(l) = <<l>>
      BY ONLY <1>3, <3>1
    <3>3. QED
      BY <3>2
  <2>2. Len(p) = 1 /\ p[1] = l
    BY <2>1, Tuples
  <2>3. ind + k < 0
    <3>1. l + k < NDir
      BY <2>2
    <3>2. QED
      BY <1>1, <3>1 DEF ind
  <2>4. BlockOfFile(l + k) = ib[l + k]
    BY ONLY <1>4, <2>3
  <2>5. QED
    BY <2>2, <2>4 DEF ib
<1>6. CASE l >= NDir /\ ind < IndCount
  <2>1. p = <<NDir, ind>>
    <3>1. ~(l < NDir) /\ l >= NDir /\ ind < IndCount /\ ~(ind >= IndCount)
      BY ONLY <1>1, <1>2, <1>6, l \in Nat
    <3>2. PathTo(l) = <<NDir, ind>>
      BY ONLY <1>3, <3>1
    <3>3. QED
      BY <3>2
  <2>2. ind \in Nat
    BY <1>2, <1>6
  <2>3. Len(p) = 2 /\ p[1] = NDir /\ p[2] = ind
    BY <1>1, <2>1, <2>2, Tuples
  <2>4. ind + k < IndCount
    BY <2>3
  <2>5. ~(ind + k < 0) /\ dind + k < 0
    BY <1>1, <2>2, <2>4 DEF dind
  <2>6. BlockOfFile(l + k) = Singly(ib[NDir], ind + k)
    BY ONLY <1>4, <2>5
  <2>7. Via(p, 1) = ib[NDir]
    BY <2>3 DEF Via, ib
  <2>8. QED
    BY <2>3, <2>6, <2>7 DEF Singly
<1>7. CASE ind >= IndCount /\ dind < DIndCount
  <2> DEFINE x == dind \div IndCount
             y == dind % IndCount
  <2>1. p = <<NDir + 1, x, y>>
    <3>1. ~(l < NDir) /\ ~(ind < IndCount) /\ ind >= IndCount /\ dind < DIndCount
      BY ONLY <1>1, <1>2, <1>7, l \in Nat
    <3>2. PathTo(l) = <<NDir + 1, x, y>>
      BY ONLY <1>3, <3>1
    <3>3. QED
      BY <3>2
  <2>2. dind \in Nat /\ x \in Nat /\ y \in 0 .. IndCount - 1 /\ dind = (IndCount * x) + y
    BY <1>1, <1>2, <1>7, Division
  <2>3. x < IndCount
    BY <1>1, <1>7, <2>2, BlockBelow
  <2> HIDE DEF x, y
  <2>4. Len(p) = 3 /\ p[1] = NDir + 1 /\ p[2] = x /\ p[3] = y
    BY <1>1, <2>1, <2>2, Tuples
  <2>5. y + k < IndCount
    BY <2>4
  <2>6. (dind + k) \div IndCount = x /\ (dind + k) % IndCount = y + k
    BY <1>1, <2>2, <2>5, StayInBlock DEF x, y
  <2>7. dind + k < DIndCount
    <3>1. IndCount * (x + 1) <= IndCount * IndCount
      <4>1. x + 1 \in Nat /\ x + 1 <= IndCount
        BY <1>1, <2>2, <2>3
      <4>2. QED
        BY <1>1, <4>1, Times
    <3>2. IndCount * (x + 1) = (IndCount * x) + IndCount /\ IndCount * x \in Nat
      BY <1>1, <2>2
    <3>3. QED
      BY ONLY <1>1, <2>2, <2>5, <3>1, <3>2, k \in Nat
  <2>8. ~(ind + k < 0) /\ ~(dind + k < 0) /\ tind + k < 0
    <3>1. tind = dind - DIndCount
      BY DEF tind
    <3>2. QED
      BY <1>1, <1>2, <1>7, <2>2, <2>7, <3>1
  <2>9. BlockOfFile(l + k) = Doubly(ib[NDir + 1], dind + k)
    BY ONLY <1>4, <2>8
  <2>10. Via(p, 2) = Below(ib[NDir + 1], x)
    BY <2>4 DEF Via, ib
  <2>11. QED
    BY <2>4, <2>6, <2>9, <2>10 DEF Doubly, Singly
<1>8. CASE l >= NDir /\ ind >= IndCount /\ dind >= DIndCount
  <2> DEFINE x == tind \div DIndCount
             q == tind \div IndCount
             y == q % IndCount
             z == tind % IndCount
  <2>1. p = <<NDir + 2, x, y, z>>
    <3>1. ~(l < NDir) /\ ~(ind < IndCount) /\ ~(dind < DIndCount)
      BY ONLY <1>1, <1>2, <1>8, l \in Nat
    <3>2. PathTo(l) = <<NDir + 2, x, y, z>>
      BY ONLY <1>3, <3>1
    <3>3. QED
      BY <3>2
  <2>2. tind \in Nat
    BY <1>2, <1>8, Zenon
  <2>3. x \in Nat /\ q \in Nat /\ z \in 0 .. IndCount - 1
    BY <1>1, <2>2, Division
  <2>4. q \div IndCount = x
    BY <1>1, <2>2, DivDiv
  <2> HIDE DEF x, q
  <2>5. y \in Nat
    BY <1>1, <2>3, Division
  <2> HIDE DEF y, z
  <2>6. Len(p) = 4 /\ p[1] = NDir + 2 /\ p[2] = x /\ p[3] = y /\ p[4] = z
    BY <1>1, <2>1, <2>3, <2>5, Tuples
  <2>7. z + k < IndCount
    BY <2>6
  <2>8. (tind + k) \div IndCount = q /\ (tind + k) % IndCount = z + k
    BY <1>1, <2>2, <2>7, StayInBlock DEF q, z
  <2>9. ~(ind + k < 0) /\ ~(dind + k < 0) /\ ~(tind + k < 0)
    BY <1>1, <1>2, <1>8, <2>2
  <2>10. BlockOfFile(l + k) = Triply(ib[NDir + 2], tind + k)
    BY ONLY <1>4, <2>9
  <2>11. Via(p, 3) = Below(Below(ib[NDir + 2], x), y)
    BY <2>6 DEF Via, ib
  <2>12. Triply(ib[NDir + 2], tind + k) = Below(Doubly(ib[NDir + 2], q), z + k)
    BY <2>8 DEF Triply
  <2>13. Doubly(ib[NDir + 2], q) = Below(Below(ib[NDir + 2], x), y)
    BY <2>4 DEF Doubly, Singly, y
  <2>14. QED
    BY <2>6, <2>10, <2>11, <2>12, <2>13
<1>9. QED
  BY <1>1, <1>2, <1>5, <1>6, <1>7, <1>8

(* A step that leaves an extent behind which maps its bytes. *)
LEMMA MapsNext ==
    ASSUME file' = file, NEW ext, extent' = ext,
           \A j \in 0 .. ext.log_count * BlockSize - 1 :
              ext.log_start * BlockSize + j < Size \/ On("ext2") =>
                 ByteOfFile(ext.log_start * BlockSize + j) = MappedBy(ext, j)
    PROVE  ExtentIsTheMap'
<1>1. SUFFICES ASSUME NEW j \in 0 .. ext.log_count * BlockSize - 1,
                      (ext.log_start * BlockSize + j < Size \/ On("ext2"))'
               PROVE  ByteOfFile(ext.log_start * BlockSize + j)' = MappedBy(ext, j)
  BY Zenon DEF ExtentIsTheMap, MappedBy
<1>2. ext.log_start * BlockSize + j < Size \/ On("ext2")
  BY <1>1 DEF Size, On
<1>3. ByteOfFile(ext.log_start * BlockSize + j) = MappedBy(ext, j)
  BY <1>2
<1>4. QED
  BY <1>3, SameFile

(* Byte j of an extent is in its block j \div BlockSize. *)
LEMMA ByteOfExtent ==
    ASSUME NEW s \in Nat, NEW j \in Nat, NEW b \in Nat \ {0}
    PROVE  (s * b + j) \div b = s + j \div b /\ (s * b + j) % b = j % b
<1> DEFINE q == j \div b
           r == j % b
<1>1. q \in Nat /\ r \in 0 .. b - 1 /\ j = (b * q) + r
  BY Division
<1> HIDE DEF q, r
<1>2. s * b + j = (b * (s + q)) + r
  <2>1. b * (s + q) = (s * b) + (b * q) /\ s * b \in Nat /\ b * q \in Nat
    BY <1>1
  <2> DEFINE u == s * b
             v == b * q
  <2>2. u \in Nat /\ v \in Nat /\ j = v + r /\ b * (s + q) = u + v
    BY <1>1, <2>1
  <2>3. u + j = b * (s + q) + r
    <3> DEFINE t == b * (s + q)
    <3>1. t = u + v
      BY <2>2
    <3> HIDE DEF u, v, t
    <3>2. u + j = t + r
      BY <1>1, <2>2, <3>1
    <3>3. QED
      BY <3>2 DEF t
  <2>4. QED
    BY <2>3
<1>3. s + q \in Nat /\ r \in Nat /\ r < b
  BY <1>1
<1>4. ((b * (s + q)) + r) \div b = s + q /\ ((b * (s + q)) + r) % b = r
  BY ONLY <1>3, DivUnique, b \in Nat \ {0}
<1>5. (s * b + j) \div b = s + q /\ (s * b + j) % b = r
  BY <1>2, <1>4, Zenon
<1>6. QED
  BY <1>5 DEF q, r

LEMMA MapOf9660 ==
    ASSUME FileAssumption, HandleInv, GetExtent9660
    PROVE  ExtentIsTheMap'
<1>1. /\ On("iso9660") /\ file' = file /\ file \in DOMAIN Disk /\ extent \in Extents
      /\ extent' = [extent EXCEPT !.type = "PHYSBLOCK", !.log_start = 0,
                                  !.phys_start = Disk[file].extent_location,
                                  !.log_count = BlocksFor(Size)]
  BY DEF GetExtent9660, HandleInv
<1> DEFINE loc == Disk[file].extent_location
<1>2. /\ extent'.type = "PHYSBLOCK" /\ extent'.log_start = 0 /\ extent'.phys_start = loc
  BY <1>1 DEF Extents
<1>3. BlockSize \in Nat \ {0}
  BY <1>1, FileTypes, FileAssumption
<1>4. ASSUME NEW ext, ext = extent', NEW j \in 0 .. ext.log_count * BlockSize - 1
      PROVE  ByteOfFile(ext.log_start * BlockSize + j) = MappedBy(ext, j)
  <2>1. ext.log_start * BlockSize + j = j
    BY <1>2, <1>3, <1>4
  <2>2. MappedBy(ext, j) = <<loc + j \div BlockSize, j % BlockSize>>
    BY <1>2, <1>4 DEF MappedBy
  <2>3. ByteOfFile(j) = <<loc + j \div BlockSize, j % BlockSize>>
    BY <1>1 DEF ByteOfFile, On
  <2> HIDE DEF loc
  <2>4. QED
    BY <2>1, <2>2, <2>3
<1>5. QED
  BY <1>1, <1>4, MapsNext

(* How far a walk along the path has come: m indices are followed. *)
OnPath(p, m) ==
    /\ Len(walk.path) = Len(p) - m
    /\ \A i \in 1 .. Len(walk.path) : walk.path[i] = p[m + i]
    /\ held # 0 <=> m > 0
    /\ m > 0 => held = Via(p, m)
PathInv == Walking("ext2") => \E m \in 0 .. 3 : OnPath(PathTo(extent.log_start), m)

(* What the walk is at: the block its path leads to next, and at the end the *)
(* pointers to the blocks of the file.                                       *)
LEMMA PointersAreBlocks ==
    ASSUME FileAssumption, HandleInv, Walking("ext2"), NEW m \in 0 .. 3,
           NEW p, p = PathTo(extent.log_start), OnPath(p, m)
    PROVE  /\ Len(p) \in m + 1 .. 4 /\ Index = p[m + 1] /\ Buffer[Index] = Via(p, m + 1)
           /\ AtLeaf <=> Len(p) = m + 1
           /\ AtLeaf => \A k \in Nat : Index + k < BufCount =>
                           BlockOfFile(extent.log_start + k) = Buffer[Index + k]
<1>1. /\ ExtWalk /\ On("ext2") /\ file \in DOMAIN Disk
      /\ extent.log_start \in Nat /\ extent.log_start < MaxBlocks /\ held \in Nat
  BY WalkingExt2, FileAssumption
<1>2. p \in Seq(Nat) /\ Len(p) \in 1 .. 4
  BY <1>1, PathShape, FileAssumption
<1>3. /\ Len(walk.path) \in 1 .. 4 /\ Len(walk.path) = Len(p) - m
      /\ \A i \in 1 .. Len(walk.path) : walk.path[i] = p[m + i]
      /\ held # 0 <=> m > 0
      /\ m > 0 => held = Via(p, m)
  BY <1>1 DEF ExtWalk, OnPath
<1>4. Len(p) \in m + 1 .. 4 /\ 1 \in 1 .. Len(walk.path)
  <2> DEFINE n == Len(p)
             w == Len(walk.path)
  <2>1. n \in 1 .. 4 /\ w \in 1 .. 4 /\ w = n - m
    BY <1>2, <1>3
  <2> HIDE DEF n, w
  <2>2. n \in m + 1 .. 4 /\ 1 \in 1 .. w
    BY <2>1
  <2>3. QED
    BY <2>2 DEF n, w
<1>5. Index = p[m + 1]
  <2>1. Index = walk.path[1]
    BY <1>1, PointersAtHand, FileAssumption
  <2>2. QED
    BY <1>3, <1>4, <2>1
<1>6. CASE m = 0
  <2>1. held = 0 /\ Buffer = Disk[file].i_block /\ BufCount = NDir
    BY <1>3, <1>6 DEF Buffer, BufCount
  <2>2. Buffer[Index] = Via(p, m + 1)
    BY <1>5, <1>6, <2>1 DEF Via
  <2>3. AtLeaf <=> Len(p) = 1
    BY <1>3, <1>6 DEF AtLeaf
  <2>4. ASSUME AtLeaf, NEW k \in Nat, Index + k < BufCount
        PROVE  BlockOfFile(extent.log_start + k) = Buffer[Index + k]
    <3>1. Len(p) = 1 /\ p[Len(p)] + k < NDir
      BY <1>5, <1>6, <2>1, <2>3, <2>4
    <3>2. p[Len(p)] + k < IF Len(p) = 1 THEN NDir ELSE IndCount
      BY <3>1
    <3>3. BlockOfFile(extent.log_start + k) = Disk[file].i_block[p[1] + k]
      BY <1>1, <3>1, <3>2, PathLeads, FileAssumption
    <3>4. QED
      BY <1>5, <1>6, <2>1, <3>3
  <2>5. QED
    BY <1>4, <1>5, <1>6, <2>2, <2>3, <2>4
<1>7. CASE m > 0
  <2>1. /\ held # 0 /\ Buffer = Pointers[held] /\ BufCount = IndCount /\ held = Via(p, m)
    BY <1>3, <1>7 DEF Buffer, BufCount
  <2>2. \A i : Below(held, i) = Buffer[i]
    BY <2>1 DEF Below
  <2>3. Buffer[Index] = Via(p, m + 1)
    <3>1. Via(p, m + 1) = Below(Via(p, m), p[m + 1])
      <4>1. m \in {1, 2, 3}
        BY <1>7
      <4>2. QED
        BY <4>1 DEF Via
    <3>2. QED
      BY <1>5, <2>1, <2>2, <3>1
  <2>4. AtLeaf <=> Len(p) = m + 1
    BY <1>2, <1>3 DEF AtLeaf
  <2>5. ASSUME AtLeaf, NEW k \in Nat, Index + k < BufCount
        PROVE  BlockOfFile(extent.log_start + k) = Buffer[Index + k]
    <3>1. Len(p) = m + 1 /\ Len(p) # 1 /\ Len(p) - 1 = m
      <4>1. Len(p) = m + 1
        BY <2>4, <2>5, Zenon
      <4>2. m \in Nat
        OBVIOUS
      <4>3. QED
        BY ONLY <1>7, <4>1, <4>2
    <3>2. p[Len(p)] = Index
      BY <1>5, <3>1
    <3>3. p[Len(p)] + k < IF Len(p) = 1 THEN NDir ELSE IndCount
      BY <2>1, <2>5, <3>1, <3>2
    <3>4. BlockOfFile(extent.log_start + k) = Below(Via(p, Len(p) - 1), p[Len(p)] + k)
      BY <1>1, <3>1, <3>3, PathLeads, FileAssumption
    <3>5. QED
      BY <2>1, <2>2, <3>1, <3>2, <3>4
  <2>6. QED
    BY <1>4, <1>5, <2>3, <2>4, <2>5
<1>8. QED
  BY <1>6, <1>7

(* Blocks that follow each other one by one are consecutive from the first. *)
LEMMA RunCounts ==
    ASSUME NEW n \in Nat, Consecutive(n), Index \in Nat, Buffer[Index] \in Nat,
           NEW k \in 0 .. n - 1
    PROVE  Buffer[Index + k] = Buffer[Index] + k
<1> DEFINE bad == {j \in 0 .. n - 1 : Buffer[Index + j] # Buffer[Index] + j}
           m == Min(bad)
<1>1. SUFFICES ASSUME bad # {} PROVE FALSE
  OBVIOUS
<1>2. m \in bad /\ \A j \in bad : m <= j
  <2>1. bad \in SUBSET Nat
    OBVIOUS
  <2> HIDE DEF bad
  <2>2. QED
    BY <1>1, <2>1, MinOfNaturals
<1>3. m \in 0 .. n - 1 /\ Buffer[Index + m] # Buffer[Index] + m
  BY <1>2
<1> HIDE DEF m
<1>4. m # 0
  <2>1. Index + 0 = Index /\ Buffer[Index] + 0 = Buffer[Index]
    OBVIOUS
  <2>2. QED
    BY <1>3, <2>1
<1>5. m - 1 \in 0 .. n - 1 /\ m \in 1 .. n - 1 /\ ~(m <= m - 1)
  BY <1>3, <1>4
<1>6. Buffer[Index + (m - 1)] = Buffer[Index] + (m - 1)
  BY <1>2, <1>5
<1>7. Buffer[Index + m] = Buffer[Index + m - 1] + 1
  BY <1>5, Zenon DEF Consecutive
<1>8. Index + m - 1 = Index + (m - 1) /\ (Buffer[Index] + (m - 1)) + 1 = Buffer[Index] + m
  BY <1>5
<1>9. QED
  BY <1>3, <1>6, <1>7, <1>8

LEMMA MapOfLeaf ==
    ASSUME FileAssumption, HandleInv, PathInv, WalkLeaf
    PROVE  ExtentIsTheMap'
<1>1. /\ Walking("ext2") /\ AtLeaf /\ Buffer[Index] # 0 /\ file' = file
      /\ extent' = Block(Buffer[Index], RunLength)
  BY DEF WalkLeaf, Return
<1> DEFINE s == extent.log_start
           b == Buffer[Index]
           n == RunLength
<1>2. /\ s \in Nat /\ s < MaxBlocks /\ On("ext2") /\ file \in DOMAIN Disk
      /\ extent \in Extents /\ BlockSize \in Nat \ {0}
  BY <1>1, WalkingExt2, FileTypes, FileAssumption DEF HandleInv
<1>3. b \in Nat /\ Index \in Nat /\ BufCount \in Nat /\ Index < BufCount
  BY <1>1, WalkingExt2, PointersAtHand, FileAssumption
<1>4. n \in Nat \ {0} /\ Index + n <= BufCount /\ Consecutive(n)
  BY <1>1, <1>2, <1>3, RunBounds, FileAssumption
<1>5. PICK m \in 0 .. 3 : OnPath(PathTo(s), m)
  BY <1>1 DEF PathInv
<1>6. \A k \in Nat : Index + k < BufCount => BlockOfFile(s + k) = Buffer[Index + k]
  BY <1>1, <1>5, PointersAreBlocks, FileAssumption
<1>7. ASSUME NEW k \in 0 .. n - 1
      PROVE  BlockOfFile(s + k) = b + k /\ b + k # 0
  <2>1. k \in Nat /\ Index + k < BufCount
    BY <1>3, <1>4
  <2>2. Buffer[Index + k] = b + k
    BY <1>3, <1>4, RunCounts
  <2>3. BlockOfFile(s + k) = Buffer[Index + k]
    BY <1>6, <2>1
  <2>4. b + k # 0
    <3> HIDE DEF b
    <3>1. b # 0
      BY <1>1 DEF b
    <3>2. QED
      BY ONLY <1>3, <2>1, <3>1
  <2>5. QED
    BY <2>2, <2>3, <2>4
<1> HIDE DEF n, b
<1>8. /\ extent'.type = "PHYSBLOCK" /\ extent'.log_start = s /\ extent'.phys_start = b
      /\ extent'.log_count = n
  BY <1>1, <1>2 DEF Extents, Block, n, b
<1>9. ASSUME NEW ext, ext = extent', NEW j \in 0 .. ext.log_count * BlockSize - 1
      PROVE  ByteOfFile(ext.log_start * BlockSize + j) = MappedBy(ext, j)
  <2> DEFINE k == j \div BlockSize
             r == j % BlockSize
             p == s * BlockSize + j
  <2>1. n * BlockSize \in Nat /\ j \in Nat /\ j < n * BlockSize
    BY <1>2, <1>4, <1>8, <1>9
  <2>2. k \in Nat /\ k < n
    BY <1>2, <1>4, <2>1, Division, BlockBelow
  <2>3. p \div BlockSize = s + k /\ p % BlockSize = r
    <3>1. s \in Nat /\ j \in Nat /\ BlockSize \in Nat \ {0}
      BY <1>2, <2>1
    <3> HIDE DEF s
    <3>2. QED
      BY ONLY <3>1, ByteOfExtent
  <2> HIDE DEF k, r, p
  <2>4. BlockOfFile(s + k) = b + k /\ b + k # 0
    <3>1. k \in 0 .. n - 1
      BY ONLY <1>4, <2>2
    <3>2. QED
      BY <1>7, <3>1
  <2>5. ByteOfFile(p) = <<b + k, r>>
    <3>1. ByteOfFile(p) = Stored(BlockOfFile(p \div BlockSize), p % BlockSize)
      BY <1>2 DEF ByteOfFile, On
    <3>2. QED
      BY <2>3, <2>4, <3>1 DEF Stored
  <2>6. MappedBy(ext, j) = <<b + k, r>>
    BY <1>8, <1>9 DEF MappedBy, k, r
  <2>7. ext.log_start * BlockSize + j = p
    BY <1>8, <1>9 DEF p
  <2>8. QED
    BY <2>5, <2>6, <2>7
<1>10. QED
  BY <1>1, <1>9, MapsNext

(* An extent of one block of zeros. *)
LEMMA MapOfHole ==
    ASSUME FileAssumption, HandleInv, PathInv, WalkHole
    PROVE  ExtentIsTheMap'
<1>1. /\ Walking("ext2") /\ Buffer[Index] = 0 /\ file' = file /\ extent' = Hole
  BY DEF WalkHole, Return
<1> DEFINE s == extent.log_start
           p == PathTo(s)
<1>2. /\ s \in Nat /\ s < MaxBlocks /\ On("ext2") /\ file \in DOMAIN Disk
      /\ extent \in Extents /\ extent.log_count = 1 /\ BlockSize \in Nat \ {0}
  BY <1>1, WalkingExt2, FileTypes, FileAssumption DEF HandleInv
<1>3. PICK m \in 0 .. 3 : OnPath(p, m)
  BY <1>1 DEF PathInv
<1>4. Len(p) \in m + 1 .. 4 /\ Buffer[Index] = Via(p, m + 1)
  BY <1>1, <1>3, PointersAreBlocks, FileAssumption
<1>5. BlockOfFile(s) = 0
  <2>1. p \in Seq(Nat) /\ \A i \in 2 .. Len(p) : p[i] \in Indices
    BY <1>2, PathShape, FileAssumption
  <2>2. Len(p) = 1 => p[1] = s /\ s < NDir
    BY <1>2, PathShape, FileAssumption
  <2> DEFINE n == Len(p)
  <2>3. n \in 1 .. 4 /\ m + 1 \in 1 .. 4 /\ m + 1 <= n /\ \A i \in 2 .. n : p[i] \in Indices
    <3>1. n \in m + 1 .. 4 /\ \A i \in 2 .. n : p[i] \in Indices
      BY <1>4, <2>1, Zenon
    <3> HIDE DEF p, n
    <3>2. QED
      BY <3>1
  <2>4. IndCount \in Nat /\ NDir \in Nat
    BY <1>2, FileTypes, FileAssumption
  <2> HIDE DEF p, n
  <2>5. p[n] + 0 < IF n = 1 THEN NDir ELSE IndCount
    <3>1. CASE n = 1
      BY <1>2, <2>2, <2>4, <3>1 DEF n
    <3>2. CASE n # 1
      <4>1. p[n] \in Indices
        BY ONLY <2>3, <3>2
      <4>2. QED
        BY <2>4, <3>2, <4>1 DEF Indices
    <3>3. QED
      BY <3>1, <3>2
  <2>6. BlockOfFile(s + 0) = IF n = 1 THEN Disk[file].i_block[p[1] + 0]
                             ELSE Below(Via(p, n - 1), p[n] + 0)
    BY <1>2, <2>5, PathLeads, FileAssumption DEF n, p
  <2>7. Via(p, n) = 0
    BY <1>1, <1>4, <2>3, HoleBelow
  <2>8. CASE n = 1
    <3>1. p[1] + 0 = p[1] /\ s + 0 = s
      BY <1>2, <2>2, <2>8 DEF n
    <3>2. QED
      BY <2>6, <2>7, <2>8, <3>1 DEF Via
  <2>9. CASE n # 1
    <3>1. p[n] + 0 = p[n] /\ s + 0 = s
      <4>1. p[n] \in Indices
        BY ONLY <2>3, <2>9
      <4>2. QED
        BY <1>2, <2>4, <4>1 DEF Indices
    <3>2. Via(p, n) = Below(Via(p, n - 1), p[n])
      <4>1. n \in {2, 3, 4}
        BY <2>3, <2>9
      <4>2. QED
        BY <4>1 DEF Via
    <3>3. QED
      BY <2>6, <2>7, <2>9, <3>1, <3>2
  <2>10. QED
    BY <2>8, <2>9
<1>6. extent'.type = "SPARSE" /\ extent'.log_start = s /\ extent'.log_count = 1
  BY <1>1, <1>2 DEF Extents, Hole
<1>7. ASSUME NEW ext, ext = extent', NEW j \in 0 .. ext.log_count * BlockSize - 1
      PROVE  ByteOfFile(ext.log_start * BlockSize + j) = MappedBy(ext, j)
  <2> DEFINE q == s * BlockSize + j
  <2>1. j \in Nat /\ j < BlockSize
    BY <1>2, <1>6, <1>7
  <2>2. j \div BlockSize = 0
    <3>1. (BlockSize * 0) + j = j /\ 0 \in Nat
      BY <1>2, <2>1
    <3>2. ((BlockSize * 0) + j) \div BlockSize = 0
      BY ONLY <1>2, <2>1, <3>1, DivUnique
    <3>3. QED
      BY <3>1, <3>2, Zenon
  <2>3. q \div BlockSize = s
    <3>1. s \in Nat /\ j \in Nat /\ BlockSize \in Nat \ {0}
      BY <1>2, <2>1
    <3> HIDE DEF s
    <3>2. q \div BlockSize = s + j \div BlockSize
      BY ONLY <3>1, ByteOfExtent
    <3>3. QED
      BY ONLY <2>2, <3>1, <3>2
  <2> HIDE DEF q
  <2>4. ByteOfFile(q) = Zero
    <3>1. ByteOfFile(q) = Stored(BlockOfFile(q \div BlockSize), q % BlockSize)
      BY <1>2 DEF ByteOfFile, On
    <3>2. QED
      BY <1>5, <2>3, <3>1 DEF Stored
  <2>5. MappedBy(ext, j) = Zero
    BY <1>6, <1>7 DEF MappedBy
  <2>6. ext.log_start * BlockSize + j = q
    BY <1>6, <1>7 DEF q
  <2>7. QED
    BY <2>4, <2>5, <2>6
<1>8. QED
  BY <1>1, <1>7, MapsNext

(* The walk is set out on the path to its block, and follows it. *)
LEMMA PathInvHolds ==
    ASSUME FileAssumption, TreeAssumption, HandleInv, PathInv, [Next]_vars
    PROVE  PathInv'
<1>1. CASE GetExtent2
  <2>1. /\ walk' = [path |-> PathTo(LogBno)] /\ held' = held /\ walk = NULL
        /\ extent' = [extent EXCEPT !.type = "PHYSBLOCK", !.log_start = LogBno,
                                    !.log_count = 1, !.buffer = <<>>]
        /\ On("ext2") /\ call # NULL /\ call.buflen > 0
    BY <1>1 DEF GetExtent2, Start, NeedExtent, Copying
  <2>2. held' = 0
    BY <2>1 DEF HandleInv, NothingStaysOnLoan
  <2>3. LogBno \in Nat /\ LogBno < MaxBlocks
    BY <2>1, PositionInFile, FileAssumption
  <2> DEFINE p == PathTo(LogBno)
  <2>4. Len(p) \in Nat
    BY <2>3, PathShape, FileAssumption DEF HandleInv
  <2>5. PathTo(extent.log_start)' = p
    <3>1. extent'.log_start = LogBno
      BY <2>1 DEF HandleInv, Extents
    <3>2. QED
      BY <3>1 DEF PathTo
  <2>6. walk'.path = p
    BY <2>1
  <2> HIDE DEF p
  <2>7. /\ Len(walk'.path) = Len(p) - 0 /\ 0 \in 0 .. 3
        /\ \A i \in 1 .. Len(walk'.path) : walk'.path[i] = p[0 + i]
        /\ ~(held' # 0) /\ ~(0 > 0)
    BY <2>2, <2>4, <2>6
  <2>8. OnPath(PathTo(extent.log_start), 0)'
    BY <2>5, <2>7 DEF OnPath
  <2>9. QED
    BY <2>7, <2>8 DEF PathInv
<1>2. CASE WalkDown
  <2> DEFINE p == PathTo(extent.log_start)
             q == walk.path
  <2>1. /\ Walking("ext2") /\ ~AtLeaf /\ Buffer[Index] # 0 /\ held' = Buffer[Index]
        /\ walk' = [walk EXCEPT !.path = Tail(q)]
        /\ file' = file /\ extent' = extent
    BY <1>2 DEF WalkDown
  <2>2. PICK m \in 0 .. 3 : OnPath(p, m)
    BY <2>1 DEF PathInv
  <2>3. /\ Len(p) \in m + 1 .. 4 /\ Buffer[Index] = Via(p, m + 1) /\ Len(p) # m + 1
    BY <2>1, <2>2, PointersAreBlocks, FileAssumption
  <2>4. walk \in [path : Seq(Nat)] /\ q \in Seq(Nat) /\ Len(q) \in 2 .. 4
    BY <2>1, WalkingExt2, FileAssumption DEF ExtWalk, AtLeaf
  <2>5. Len(q) = Len(p) - m /\ \A i \in 1 .. Len(q) : q[i] = p[m + i]
    BY <2>2 DEF OnPath
  <2>6. walk' = [path |-> Tail(q)]
    BY <2>1, <2>4
  <2>7. walk'.path = Tail(q)
    BY <2>6
  <2> HIDE DEF q
  <2>8. /\ Len(Tail(q)) = Len(q) - 1
        /\ \A i \in 1 .. Len(Tail(q)) : i + 1 \in 2 .. Len(q) /\ Tail(q)[i] = q[i + 1]
    BY <2>4, TailOfPath
  <2> HIDE DEF p
  <2>9. m + 1 \in 0 .. 3 /\ Len(Tail(q)) = Len(p) - (m + 1) /\ m + 1 > 0
    <3> DEFINE n == Len(p)
               k == Len(q)
               l == Len(Tail(q))
    <3>1. n \in m + 1 .. 4 /\ n # m + 1 /\ k = n - m /\ l = k - 1
      BY <2>3, <2>5, <2>8, Zenon
    <3> HIDE DEF n, k, l
    <3>2. m + 1 \in 0 .. 3 /\ l = n - (m + 1) /\ m + 1 > 0
      BY <3>1
    <3>3. QED
      BY <3>2 DEF n, l
  <2>10. \A i \in 1 .. Len(Tail(q)) : Tail(q)[i] = p[(m + 1) + i]
    <3>1. ASSUME NEW i \in 1 .. Len(Tail(q)) PROVE Tail(q)[i] = p[(m + 1) + i]
      <4>1. Tail(q)[i] = q[i + 1] /\ i + 1 \in 2 .. Len(q)
        BY <2>8
      <4>2. i + 1 \in 1 .. Len(q)
        BY <2>4, <4>1
      <4>3. q[i + 1] = p[m + (i + 1)]
        BY <2>5, <4>2
      <4>4. m + (i + 1) = (m + 1) + i
        OBVIOUS
      <4>5. QED
        BY <4>1, <4>3, <4>4
    <3>2. QED
      BY <3>1
  <2>11. PathTo(extent.log_start)' = p /\ Via(p, m + 1)' = Via(p, m + 1)
    BY <2>1 DEF PathTo, Via, p
  <2>12. held' = Via(p, m + 1) /\ held' # 0
    BY <2>1, <2>3
  <2>13. Len(walk'.path) = Len(p) - (m + 1)
    BY <2>7, <2>9
  <2>14. \A i \in 1 .. Len(walk'.path) : walk'.path[i] = p[(m + 1) + i]
    BY <2>7, <2>10
  <2>15. \E k \in 0 .. 3 : OnPath(p, k)'
    <3>1. OnPath(p, m + 1)'
      BY <2>9, <2>11, <2>12, <2>13, <2>14 DEF OnPath, p
    <3>2. QED
      BY <2>9, <3>1
  <2>16. QED
    BY <2>15 DEF PathInv, p
<1>3. CASE WalkHole \/ WalkLeaf \/ WalkFails \/ NoItem \/ NoDataItem \/ Indirect \/ Direct
              \/ DirectFails \/ Corrupted
  <2>1. walk' = NULL
    BY <1>3 DEF NoItem, NoDataItem, Indirect, Direct, DirectFails, Corrupted, WalkHole,
                WalkLeaf, WalkFails, ReturnError, Return
  <2>2. QED
    BY <2>1 DEF PathInv, Walking
<1>4. CASE GetExtentR \/ TreeWalk
  <2>1. On("reiserfs") /\ file' = file
    BY <1>4 DEF GetExtentR, TreeWalk, Walking, Start
  <2>2. QED
    BY <2>1 DEF PathInv, Walking, On
<1>5. CASE (\E n \in Lengths : Read(n)) \/ SetPosition \/ Reopen \/ CopyBlock \/ CopyBuffer
              \/ CopyZeros \/ CopyFails \/ ReadDone \/ GetExtent9660
  <2>1. walk' = NULL
    BY <1>5 DEF Read, SetPosition, Reopen, CopyBlock, CopyBuffer, CopyZeros, CopyFails,
                ReadDone, GetExtent9660, NeedExtent, Copying, InBlock, Deliver, HandleInv,
                WalkInv
  <2>2. QED
    BY <2>1 DEF PathInv, Walking
<1>6. CASE UNCHANGED vars
  <2> DEFINE p == PathTo(extent.log_start)
  <2>1. UNCHANGED <<file, walk, held, extent>>
    BY <1>6 DEF vars
  <2>2. p' = p
    BY <2>1 DEF PathTo
  <2>3. ASSUME Walking("ext2")' PROVE \E m \in 0 .. 3 : OnPath(p, m)'
    <3>1. Walking("ext2")
      BY <2>1, <2>3 DEF Walking, On
    <3>2. PICK m \in 0 .. 3 : OnPath(p, m)
      BY <3>1 DEF PathInv
    <3> HIDE DEF p
    <3>3. OnPath(p, m)'
      BY <2>1, <2>2, <3>2 DEF OnPath, Via
    <3>4. QED
      BY <3>3
  <2>4. QED
    BY <2>3 DEF PathInv
<1>7. QED
  BY <1>1, <1>2, <1>3, <1>4, <1>5, <1>6 DEF Next, ShandleRead, GetExtent

(* A file of reiserfs: its bytes are those of the only item that holds them. *)
LEMMA ByteOfItem ==
    ASSUME On("reiserfs"), NEW p, NEW it \in ObjectItems(Disk[file].object), NEW byte,
           ItemByte(it, p) = {byte},
           \A other \in ObjectItems(Disk[file].object) : other # it => ItemByte(other, p) = {}
    PROVE  ByteOfFile(p) = byte
<1> DEFINE found == UNION {ItemByte(x, p) : x \in ObjectItems(Disk[file].object)}
<1>1. found = {byte}
  OBVIOUS
<1>2. ByteOfFile(p) = IF found = {} THEN Zero ELSE CHOOSE b \in found : TRUE
  BY DEF ByteOfFile, On
<1> HIDE DEF found
<1>3. (CHOOSE b \in found : TRUE) \in found
  BY <1>1
<1>4. QED
  BY <1>1, <1>2, <1>3

LEMMA ByteOfNoItem ==
    ASSUME On("reiserfs"), NEW p,
           \A other \in ObjectItems(Disk[file].object) : ItemByte(other, p) = {}
    PROVE  ByteOfFile(p) = Zero
<1> DEFINE found == UNION {ItemByte(x, p) : x \in ObjectItems(Disk[file].object)}
<1>1. found = {}
  OBVIOUS
<1>2. ByteOfFile(p) = IF found = {} THEN Zero ELSE CHOOSE b \in found : TRUE
  BY DEF ByteOfFile, On
<1> HIDE DEF found
<1>3. QED
  BY <1>1, <1>2

(* What begins at a block boundary and not after a byte of block s, begins   *)
(* not after the block.                                                      *)
LEMMA AlignedBegins ==
    ASSUME NEW k \in Nat \ {0}, NEW b \in Nat \ {0}, NEW s \in Nat, NEW j \in 0 .. b - 1,
           (k - 1) % b = 0, k <= s * b + j + 1
    PROVE  k <= s * b + 1
<1> DEFINE c == (k - 1) \div b
<1>1. k - 1 \in Nat
  OBVIOUS
<1>2. c \in Nat /\ k - 1 = (b * c) + 0
  BY <1>1, Division
<1> HIDE DEF c
<1>3. ASSUME c > s PROVE FALSE
  <2>1. b * (s + 1) <= b * c /\ b * c \in Nat
    <3>1. s + 1 \in Nat /\ s + 1 <= c
      BY <1>2, <1>3
    <3>2. QED
      BY <1>2, <3>1, Times
  <2>2. b * (s + 1) = (s * b) + b /\ s * b \in Nat
    OBVIOUS
  <2>3. QED
    BY <1>2, <2>1, <2>2
<1>4. b * c <= b * s /\ b * c \in Nat /\ b * s \in Nat
  <2>1. c <= s
    BY <1>2, <1>3
  <2>2. QED
    BY <1>2, <2>1, Times
<1>5. b * s = s * b
  OBVIOUS
<1>6. QED
  BY <1>2, <1>4, <1>5

(* Byte j of the block at hand, for which the item was found. *)
LEMMA BlockAtHand ==
    ASSUME FileAssumption, TreeAssumption, HandleInv, SearchInv, FileIsWhole,
           Walking("reiserfs"), walk.pc = "found", NEW j \in 0 .. BlockSize - 1,
           extent.log_start * BlockSize + j < Size
    PROVE  LET p  == extent.log_start * BlockSize + j
               it == AtItem(walk)
           IN  /\ IntraOffset \in Nat /\ p + 1 - it.key[3] = IntraOffset + j
               /\ p \in 0 .. Size - 1 /\ it.key[3] \in Nat
               /\ it \in ObjectItems(Disk[file].object)
               /\ it.key[3] = 0 => \A x \in ObjectItems(Disk[file].object) : ItemByte(x, p) = {}
<1> DEFINE s  == extent.log_start
           p  == s * BlockSize + j
           it == AtItem(walk)
           o  == Disk[file].object
<1>1. /\ On("reiserfs") /\ file \in DOMAIN Disk /\ extent \in Extents /\ FirstByte \in Nat
      /\ walk \in Searches
  BY WalkingR, FileAssumption, TreeAssumption
<1>2. /\ s \in Nat /\ BlockSize \in Nat \ {0} /\ Size \in Nat
      /\ FirstByte = s * BlockSize + 1
  BY <1>1, FileTypes, FileAssumption DEF Extents, FirstByte
<1>3. /\ it \in ObjectItems(o) /\ it.key \in Key /\ it.key[3] <= FirstByte
      /\ \A x \in ObjectItems(o) : x.key[3] <= FirstByte => x.key[3] <= it.key[3]
      /\ IntraOffset \in Nat
  BY IntraIsIn, FileAssumption, TreeAssumption
<1>4. it.key[3] \in Nat
  BY <1>3 DEF Key
<1>5. p \in Nat /\ p < Size /\ p \in 0 .. Size - 1
  BY <1>2
<1>6. p + 1 - it.key[3] = IntraOffset + j
  <2> DEFINE k == it.key[3]
             u == s * BlockSize
  <2>1. u \in Nat /\ FirstByte = u + 1 /\ k \in Nat
    BY <1>2, <1>4
  <2>2. IntraOffset = FirstByte - k
    BY DEF IntraOffset
  <2> HIDE DEF u, k, it
  <2>3. (u + j) + 1 - k = IntraOffset + j
    BY <2>1, <2>2
  <2>4. QED
    BY <2>3 DEF u, k
<1> HIDE DEF it, s
<1>7. ASSUME it.key[3] = 0, NEW x \in ObjectItems(o) PROVE ItemByte(x, p) = {}
  <2>1. x.key \in Key
    BY TreeAssumption, ItemsHaveKeys, <1>7 DEF ObjectItems, TreeAssumption
  <2> DEFINE k == x.key[3]
  <2>2. k \in Nat
    BY <2>1 DEF Key
  <2>3. CASE k = 0
    BY <2>3 DEF ItemByte
  <2>4. CASE k # 0
    <3>1. (k - 1) % BlockSize = 0
      <4>1. WithoutHoles(file)
        BY <1>1 DEF FileIsWhole
      <4>2. QED
        BY <2>4, <4>1 DEF WithoutHoles
    <3>2. ~(k <= FirstByte)
      <4>1. ~(k <= it.key[3])
        BY <1>7, <2>2, <2>4
      <4>2. QED
        BY <1>3, <4>1
    <3>3. ~(k <= s * BlockSize + j + 1)
      <4> HIDE DEF k, p
      <4>1. QED
        BY <1>2, <2>2, <2>4, <3>1, <3>2, AlignedBegins
    <3>4. p + 1 - k < 0
      BY <1>2, <2>2, <3>3
    <3>5. QED
      BY <3>4 DEF ItemByte
  <2>5. QED
    BY <2>3, <2>4
<1>8. QED
  BY <1>3, <1>4, <1>5, <1>6, <1>7 DEF it, s

LEMMA MapOfItem ==
    ASSUME FileAssumption, TreeAssumption, HandleInv, SearchInv, FileIsWhole,
           NoDataItem \/ Indirect \/ Direct
    PROVE  ExtentIsTheMap'
<1> DEFINE s  == extent.log_start
           it == AtItem(walk)
           o  == Disk[file].object
<1>1. /\ Walking("reiserfs") /\ walk.pc = "found" /\ file' = file
  BY DEF NoDataItem, Indirect, Direct, AtType, Return
<1>2. /\ On("reiserfs") /\ ~On("ext2") /\ file \in DOMAIN Disk /\ extent \in Extents
      /\ extent.log_count = 1 /\ walk \in Searches /\ HoldsItsLeaf(walk)
  BY <1>1, WalkingR, FileAssumption, TreeAssumption DEF On
<1>3. s \in Nat /\ BlockSize \in Nat \ {0} /\ Size \in Nat
  BY <1>2, FileTypes, FileAssumption DEF Extents
<1>4. /\ ItemWellFormed(it) /\ WithoutHoles(file)
  BY <1>1, <1>2, ItemFound, TreeAssumption DEF FileIsWhole
<1> DEFINE Holds(ext) == \A j \in 0 .. BlockSize - 1 :
                            s * BlockSize + j < Size =>
                               ByteOfFile(s * BlockSize + j) = MappedBy(ext, j)
<1>5. ASSUME NEW ext, extent' = ext, ext.log_start = s, ext.log_count = 1, Holds(ext)
      PROVE  ExtentIsTheMap'
  <2>1. ext.log_count * BlockSize = BlockSize
    BY <1>3, <1>5
  <2>2. \A j \in 0 .. ext.log_count * BlockSize - 1 :
           ext.log_start * BlockSize + j < Size \/ On("ext2") =>
              ByteOfFile(ext.log_start * BlockSize + j) = MappedBy(ext, j)
    BY <1>2, <1>5, <2>1
  <2>3. QED
    BY <1>1, <1>5, <2>2, MapsNext
<1>6. CASE NoDataItem
  <2>1. extent' = Hole /\ it.key[3] = 0
    BY <1>6 DEF NoDataItem, Return
  <2>2. Hole.type = "SPARSE" /\ Hole.log_start = s /\ Hole.log_count = 1
    BY <1>2 DEF Hole, Extents
  <2>3. Holds(Hole)
    <3>1. SUFFICES ASSUME NEW j \in 0 .. BlockSize - 1, s * BlockSize + j < Size
                   PROVE  ByteOfFile(s * BlockSize + j) = MappedBy(Hole, j)
      OBVIOUS
    <3> DEFINE p == s * BlockSize + j
    <3>2. \A x \in ObjectItems(o) : ItemByte(x, p) = {}
      BY <1>1, <2>1, <3>1, BlockAtHand, FileAssumption, TreeAssumption
    <3> HIDE DEF p
    <3>3. ByteOfFile(p) = Zero
      BY <1>2, <3>2, ByteOfNoItem
    <3>4. MappedBy(Hole, j) = Zero
      BY <2>2 DEF MappedBy
    <3>5. QED
      BY <3>3, <3>4 DEF p
  <2> HIDE DEF Holds
  <2>4. QED
    BY <1>5, <2>1, <2>2, <2>3
<1>7. CASE Indirect
  <2> DEFINE b == it.pointers[IntraBno + 1]
             ext == Block(b, 1)
  <2>1. it.type = "indirect" /\ Usable(it) /\ extent' = ext
    BY <1>7 DEF Indirect, AtType, Return
  <2>2. /\ it.key[3] # 0 /\ IntraOffset % BlockSize = 0 /\ IntraBno < Len(it.pointers)
        /\ it.pointers \in Seq(Nat)
    BY <1>4, <2>1 DEF Usable, ItemWellFormed
  <2>3. ext.type = "PHYSBLOCK" /\ ext.log_start = s /\ ext.log_count = 1 /\ ext.phys_start = b
    BY <1>2 DEF Block, Extents
  <2>4. Holds(ext)
    <3>1. SUFFICES ASSUME NEW j \in 0 .. BlockSize - 1, s * BlockSize + j < Size
                   PROVE  ByteOfFile(s * BlockSize + j) = MappedBy(ext, j)
      OBVIOUS
    <3> DEFINE p == s * BlockSize + j
    <3>2. /\ IntraOffset \in Nat /\ p + 1 - it.key[3] = IntraOffset + j
          /\ p \in 0 .. Size - 1 /\ it.key[3] \in Nat /\ it \in ObjectItems(o)
      BY <1>1, <3>1, BlockAtHand, FileAssumption, TreeAssumption
    <3>3. /\ (IntraOffset + j) \div BlockSize = IntraBno
          /\ (IntraOffset + j) % BlockSize = j
          /\ IntraBno \in Nat
      <4>1. (IntraOffset % BlockSize) + j < BlockSize /\ j \in Nat
        BY <1>3, <2>2
      <4>2. /\ (IntraOffset + j) \div BlockSize = IntraOffset \div BlockSize
            /\ (IntraOffset + j) % BlockSize = (IntraOffset % BlockSize) + j
        BY ONLY <1>3, <3>2, <4>1, StayInBlock
      <4>3. IntraOffset \div BlockSize \in Nat
        BY <1>3, <3>2, Division
      <4>4. (IntraOffset % BlockSize) + j = j
        BY <2>2, <4>1
      <4>5. QED
        BY <4>2, <4>3, <4>4 DEF IntraBno
    <3>4. IntraBno + 1 \in DOMAIN it.pointers
      BY <2>2, <3>3
    <3>5. b # 0
      BY <1>4, <2>1, <2>2, <3>2, <3>4 DEF WithoutHoles
    <3>6. ItemByte(it, p) = {<<b, j>>}
      <4> DEFINE intra == p + 1 - it.key[3]
      <4>1. intra \div BlockSize = IntraBno /\ intra % BlockSize = j /\ ~(intra < 0)
        <5>1. ~(IntraOffset + j < 0)
          BY <3>2
        <5>2. QED
          BY <3>2, <3>3, <5>1
      <4>2. ItemByte(it, p) = {Stored(it.pointers[i], intra % BlockSize) :
                                  i \in {intra \div BlockSize + 1} \cap DOMAIN it.pointers}
        BY <2>1, <2>2, <4>1 DEF ItemByte
      <4> HIDE DEF intra
      <4>3. ItemByte(it, p) = {Stored(it.pointers[IntraBno + 1], j)}
        BY <3>4, <4>1, <4>2
      <4>4. QED
        BY <3>5, <4>3 DEF Stored
    <3>7. \A x \in ObjectItems(o) : x # it => ItemByte(x, p) = {}
      <4>1. SUFFICES ASSUME NEW x \in ObjectItems(o), x # it PROVE ItemByte(x, p) = {}
        OBVIOUS
      <4>2. CASE x.key[3] = 0
        BY <4>2 DEF ItemByte
      <4>3. CASE x.key[3] # 0
        <5> HIDE DEF p, it
        <5>1. ItemByte(it, p) = {} \/ ItemByte(x, p) = {}
          BY <1>4, <2>2, <3>2, <4>1, <4>3 DEF WithoutHoles, Size
        <5>2. QED
          BY <3>6, <5>1
      <4>4. QED
        BY <4>2, <4>3
    <3> HIDE DEF p, b
    <3>8. ByteOfFile(p) = <<b, j>>
      BY <1>2, <3>2, <3>6, <3>7, ByteOfItem
    <3>9. MappedBy(ext, j) = <<b, j>>
      <4>1. j \div BlockSize = 0 /\ j % BlockSize = j
        <5>1. (BlockSize * 0) + j = j /\ j \in Nat /\ j < BlockSize /\ 0 \in Nat
          BY <1>3
        <5>2. /\ ((BlockSize * 0) + j) \div BlockSize = 0
              /\ ((BlockSize * 0) + j) % BlockSize = j
          BY ONLY <1>3, <5>1, DivUnique
        <5>3. QED
          BY <5>1, <5>2, Zenon
      <4>2. b + 0 = b
        BY <2>2, <3>3, <3>4 DEF b
      <4>3. QED
        BY <2>3, <4>1, <4>2 DEF MappedBy
    <3>10. QED
      BY <3>8, <3>9 DEF p
  <2> HIDE DEF Holds, ext
  <2>5. QED
    BY <1>5, <2>1, <2>3, <2>4
<1>8. CASE Direct
  <2> DEFINE ext == [extent EXCEPT !.type = "BUFFER", !.buffer = it.data]
  <2>1. it.type = "direct" /\ Usable(it) /\ extent' = ext
    BY <1>8 DEF Direct, AtType, Return
  <2>2. it.key[3] # 0 /\ IntraOffset = 0 /\ it.data \in Seq(Byte)
    BY <1>4, <2>1 DEF Usable, ItemWellFormed
  <2>3. ext.type = "BUFFER" /\ ext.log_start = s /\ ext.log_count = 1 /\ ext.buffer = it.data
    BY <1>2 DEF Extents
  <2>4. Holds(ext)
    <3>1. SUFFICES ASSUME NEW j \in 0 .. BlockSize - 1, s * BlockSize + j < Size
                   PROVE  ByteOfFile(s * BlockSize + j) = MappedBy(ext, j)
      OBVIOUS
    <3> DEFINE p == s * BlockSize + j
               n == Len(it.data)
    <3>2. /\ p + 1 - it.key[3] = j /\ p \in 0 .. Size - 1 /\ it.key[3] \in Nat
          /\ it \in ObjectItems(o)
      <4>1. /\ p + 1 - it.key[3] = IntraOffset + j
            /\ p \in 0 .. Size - 1 /\ it.key[3] \in Nat /\ it \in ObjectItems(o)
        BY <1>1, <3>1, BlockAtHand, FileAssumption, TreeAssumption
      <4>2. QED
        BY <2>2, <4>1
    <3>3. n \in Nat /\ DOMAIN it.data = 1 .. n
      BY <2>2
    <3>4. j < n
      <4>1. n >= BlockSize \/ it.key[3] - 1 + n >= Size
        BY <1>4, <2>1, <2>2, <3>2 DEF WithoutHoles, Size
      <4> DEFINE k == it.key[3]
      <4>2. k \in Nat /\ p \in Nat /\ p < Size /\ p + 1 - k = j
        BY <1>3, <3>2
      <4> HIDE DEF n, k, p
      <4>3. n >= BlockSize \/ k - 1 + n >= Size
        BY <4>1 DEF k
      <4>4. QED
        BY ONLY <1>3, <3>3, <4>2, <4>3, j \in 0 .. BlockSize - 1
    <3>5. ItemByte(it, p) = {it.data[j + 1]}
      <4> DEFINE intra == p + 1 - it.key[3]
      <4>1. intra = j /\ ~(intra < 0)
        BY <3>2
      <4>2. ItemByte(it, p) = {it.data[i] : i \in {intra + 1} \cap DOMAIN it.data}
        BY <2>1, <2>2, <4>1 DEF ItemByte
      <4> HIDE DEF intra
      <4>3. j + 1 \in DOMAIN it.data
        BY <3>3, <3>4
      <4>4. QED
        BY <4>1, <4>2, <4>3
    <3>6. \A x \in ObjectItems(o) : x # it => ItemByte(x, p) = {}
      <4>1. SUFFICES ASSUME NEW x \in ObjectItems(o), x # it PROVE ItemByte(x, p) = {}
        OBVIOUS
      <4>2. CASE x.key[3] = 0
        BY <4>2 DEF ItemByte
      <4>3. CASE x.key[3] # 0
        <5> HIDE DEF p, it
        <5>1. ItemByte(it, p) = {} \/ ItemByte(x, p) = {}
          BY <1>4, <2>2, <3>2, <4>1, <4>3 DEF WithoutHoles, Size
        <5>2. QED
          BY <3>5, <5>1
      <4>4. QED
        BY <4>2, <4>3
    <3> HIDE DEF p
    <3>7. ByteOfFile(p) = it.data[j + 1]
      BY <1>2, <3>2, <3>5, <3>6, ByteOfItem
    <3>8. MappedBy(ext, j) = it.data[j + 1]
      BY <2>3, <3>4 DEF MappedBy
    <3>9. QED
      BY <3>7, <3>8 DEF p
  <2> HIDE DEF Holds, ext
  <2>5. QED
    BY <1>5, <2>1, <2>3, <2>4
<1>9. QED
  BY <1>6, <1>7, <1>8

(* No step changes the file a handle is on. *)
LEMMA FileStays ==
    ASSUME [Next]_vars
    PROVE  file' = file /\ FileIsWhole' = FileIsWhole
<1>1. file' = file
  BY DEF Next, ShandleRead, GetExtent, Read, SetPosition, Reopen, CopyBlock, CopyBuffer, CopyZeros,
         CopyFails, ReadDone, Deliver, GetExtent2, Start, WalkHole, WalkLeaf, WalkDown,
         WalkFails, GetExtent9660, GetExtentR, TreeWalk, NoItem, NoDataItem, Indirect, Direct,
         DirectFails, Corrupted, Return, ReturnError, vars
<1>2. QED
  BY <1>1 DEF FileIsWhole, On, WithoutHoles

LEMMA ExtentIsTheMapHolds ==
    ASSUME FileAssumption, TreeAssumption, HandleInv, SearchInv, PathInv, FileIsWhole,
           ExtentIsTheMap, [Next]_vars
    PROVE  ExtentIsTheMap'
<1>1. file' = file
  BY FileStays
<1>2. CASE WalkHole \/ WalkLeaf \/ GetExtent9660 \/ NoDataItem \/ Indirect \/ Direct
  BY <1>2, MapOfHole, MapOfLeaf, MapOf9660, MapOfItem, FileAssumption, TreeAssumption
<1>3. CASE GetExtent2 \/ WalkDown \/ GetExtentR \/ TreeWalk
  <2>1. walk' # NULL
    BY <1>3, GetExtent2Holds, WalkDownHolds, GetExtentRHolds, TreeWalkHolds,
       FileAssumption, TreeAssumption
  <2>2. QED
    BY <2>1, Zenon DEF ExtentIsTheMap
<1>4. CASE ReturnError \/ NoItem \/ Reopen
  <2>1. [extent EXCEPT !.type = "INVALID"].type = "INVALID" /\ NoExtent.type = "INVALID"
    BY HoleIsExtent DEF NoExtent
  <2>2. extent'.type = "INVALID"
    BY <1>4, <2>1 DEF ReturnError, Return, NoItem, Reopen
  <2>3. QED
    BY <2>2, Zenon DEF ExtentIsTheMap
<1>5. CASE (\E n \in Lengths : Read(n)) \/ SetPosition \/ CopyBlock \/ CopyBuffer \/ CopyZeros
              \/ CopyFails \/ ReadDone \/ UNCHANGED vars
  <2>1. extent' = extent /\ walk' = walk
    BY <1>5 DEF Read, SetPosition, CopyBlock, CopyBuffer, CopyZeros, CopyFails, ReadDone,
                Deliver, vars
  <2>2. CASE walk = NULL /\ extent.type # "INVALID"
    <3>1. \A j \in 0 .. extent.log_count * BlockSize - 1 :
             extent.log_start * BlockSize + j < Size \/ On("ext2") =>
                 ByteOfFile(extent.log_start * BlockSize + j) = MappedBy(extent, j)
      BY <2>2, MapOfExtent, Zenon DEF Mapped
    <3>2. QED
      BY <1>1, <2>1, <3>1, MapsNext
  <2>3. CASE ~(walk = NULL /\ extent.type # "INVALID")
    BY <2>1, <2>3, Zenon DEF ExtentIsTheMap
  <2>4. QED
    BY <2>2, <2>3
<1>6. QED
  BY <1>2, <1>3, <1>4, <1>5
     DEF Next, ShandleRead, GetExtent, WalkFails, DirectFails, Corrupted

(* The extent a handle keeps maps the bytes it covers to where the file's    *)
(* own structures have them: for every ext2 file, with any pointers and      *)
(* holes, for every file of iso9660, and for the reiserfs files without      *)
(* holes; whatever reads, seeks and failures came before.                    *)
THEOREM MapsTheFile == Spec => [](FileIsWhole => ExtentIsTheMap)
<1> DEFINE Inv == PathInv /\ (FileIsWhole => ExtentIsTheMap)
<1>1. Init => Inv
  BY DEF Init, PathInv, Walking, ExtentIsTheMap, NoExtent
<1>2. HandleInv /\ SearchInv /\ Inv /\ [Next]_vars => Inv'
  BY PathInvHolds, ExtentIsTheMapHolds, FileStays, FileAssumption, TreeAssumption
<1>3. Inv => (FileIsWhole => ExtentIsTheMap)
  OBVIOUS
<1>4. QED
  BY <1>1, <1>2, <1>3, HandleInvariant, PTL DEF Spec

(* What fsw_shandle_read delivers is the file's data from the position of    *)
(* the handle on, as much as was asked for and is there, with zeros for the  *)
(* holes of ext2; in a reiserfs file, if that has none, up to 2^W, where a   *)
(* longer one begins anew.                                                   *)
THEOREM ReadsTheFileAsItIs == Spec => [](FileIsWhole => ReadsTheFile)
<1>1. Init => (FileIsWhole => ReadInv)
  BY DEF Init, ReadInv, ReadsTheFile
<1>2. /\ HandleInv /\ (FileIsWhole => ExtentIsTheMap) /\ (FileIsWhole => ReadInv)
      /\ [Next]_vars
      => (FileIsWhole => ReadInv)'
  BY ReadInvHolds, FileStays, FileAssumption
<1>3. (FileIsWhole => ReadInv) => (FileIsWhole => ReadsTheFile)
  BY DEF ReadInv
<1>4. QED
  BY <1>1, <1>2, <1>3, HandleInvariant, MapsTheFile, PTL DEF Spec

================================================================================
