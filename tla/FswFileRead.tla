------------------------------ MODULE FswFileRead ------------------------------
(***************************************************************************)
(* Reading a file through one handle: fsw_shandle_read (fsw/fsw_core.c)     *)
(* with the extent it keeps between calls, fsw_efi_file_setpos, and the     *)
(* get_extent of the three drivers: ext2 walks block pointers               *)
(* (fsw/fsw_ext2.c), iso9660 has one extent per file (fsw/fsw_iso9660.c),   *)
(* reiserfs searches its tree for the item of a block (fsw/fsw_reiserfs.c,  *)
(* module FswReiserfsTree). Any block may fail to be read. Blocks are       *)
(* fetched with fsw_block_get, whose promise is module BlockStore; here     *)
(* only the blocks and buffers on loan are kept.                            *)
(***************************************************************************)
EXTENDS FswReiserfsTree, SequencesExt, FiniteSetsExt

CONSTANTS
    Disk,        \* Disk[f]: the files: of ext2 with i_block, the pointers numbered
                 \*   from 0; of iso9660 with extent_location; of reiserfs with object
    Pointers,    \* Pointers[b]: the pointers in indirect block b, from 0
    NDir,        \* EXT2_NDIR_BLOCKS, 12 in the code
    IndCount,    \* ind_bcnt: pointers in one indirect block
    BlockSize,   \* log_blocksize, which for ext2 is phys_blocksize
    W,           \* width of fsw_u32 and of this machine's UINTN
    Lengths,     \* bound: buffer sizes clients read with
    Seeks,       \* bound: positions clients set, besides the end
    NULL

(* The block that pointer i of an indirect block leads to; none from a hole. *)
Indices     == 0 .. IndCount - 1
Below(b, i) == IF b = 0 THEN 0 ELSE Pointers[b][i]

(* The blocks with pointers of an ext2 file, and how many blocks of data its *)
(* pointers reach.                                                           *)
IndirectBlocks(ib) ==
    {ib[NDir], ib[NDir + 1], ib[NDir + 2]}
        \union {Below(ib[NDir + 1], i) : i \in Indices}
        \union {Below(ib[NDir + 2], i) : i \in Indices}
        \union {Below(Below(ib[NDir + 2], i), j) : i, j \in Indices}

DIndCount == IndCount * IndCount
MaxBlocks == NDir + IndCount + DIndCount + DIndCount * IndCount

ASSUME FileAssumption ==
    /\ NDir \in Nat \ {0} /\ IndCount \in Nat \ {0} /\ BlockSize \in Nat \ {0}
    /\ W \in Nat /\ Lengths \subseteq 0 .. 2^W - 1 /\ Seeks \subseteq Nat
    /\ \A f \in DOMAIN Disk : /\ Disk[f].size \in Nat   \* sd_size has more than W bits
                              /\ Disk[f].fs # "reiserfs" => Disk[f].size < 2^W
                              /\ Disk[f].fs = "ext2" =>
                                    Disk[f].i_block \in [0 .. NDir + 2 -> Nat]
                              /\ Disk[f].fs = "iso9660" => Disk[f].extent_location \in Nat
                              /\ Disk[f].fs = "reiserfs" => Disk[f].object \in Nat \X Nat
    /\ \A b \in DOMAIN Pointers : Pointers[b] \in [0 .. IndCount - 1 -> Nat]
    /\ \A f \in DOMAIN Disk : Disk[f].fs = "ext2" =>
          /\ IndirectBlocks(Disk[f].i_block) \subseteq DOMAIN Pointers \union {0}
          /\ Disk[f].size <= MaxBlocks * BlockSize   \* the tree can hold i_size bytes
    /\ NULL \notin [path : Seq(Nat)] \union TreeSearch

VARIABLES
    file,    \* the file the handle is on
    pos,     \* shand->pos
    extent,  \* shand->extent
    call,    \* the read in progress, or NULL
    walk,    \* the get_extent in progress, or NULL
    held,    \* the block on loan to get_extent, or 0
    buffers, \* how many buffers for extents are allocated
    last     \* what the last read that succeeded delivered, or NULL

vars == <<file, pos, extent, call, walk, held, buffers, last>>

NoExtent == [type |-> "INVALID", log_start |-> 0, log_count |-> 0, phys_start |-> 0,
             buffer |-> <<>>]

Size == Disk[file].size
On(fs) == Disk[file].fs = fs

Init == /\ file \in DOMAIN Disk
        /\ pos = 0
        /\ extent = NoExtent
        /\ call = NULL /\ walk = NULL /\ held = 0 /\ buffers = 0 /\ last = NULL

------------------------------------------------------------------------------
(* fsw_shandle_read *)

(* The position is narrowed to fsw_u32 for the duration of the call, and the *)
(* handle's is set from the narrow one at its end.                           *)
Read(n) ==
    /\ call = NULL
    /\ IF pos >= Size
       THEN /\ last' = [start |-> pos, want |-> n, data |-> <<>>]
            /\ UNCHANGED call
       ELSE /\ call' = [want |-> n, pos |-> pos % 2^W, data |-> <<>>,
                        buflen |-> Min({n, Size - (pos % 2^W)})]
            /\ last' = NULL
    /\ UNCHANGED <<file, pos, extent, walk, held, buffers>>

Copying == call # NULL /\ walk = NULL /\ call.buflen > 0

LogBno == call.pos \div BlockSize

(* Seeded fault: the upper end of the extent at hand is not looked at. *)
InExtentFromStart == extent.type # "INVALID" /\ LogBno >= extent.log_start

InExtent == /\ extent.type # "INVALID"
            /\ LogBno >= extent.log_start
            /\ LogBno < extent.log_start + extent.log_count

PosInExtent == call.pos - extent.log_start * BlockSize

(* The bytes of a block are named <<block, offset>>; Zero stands for a byte  *)
(* in a hole, Unknown for one past the end of a buffer.                      *)
Zero    == <<0, 0>>
Unknown == <<-1, -1>>
Bytes(b, from, n) == [i \in 1..n |-> <<b, from + i - 1>>]

Deliver(bytes) ==
    /\ call' = [call EXCEPT !.data = @ \o bytes,
                            !.pos = (@ + Len(bytes)) % 2^W, !.buflen = @ - Len(bytes)]
    /\ UNCHANGED <<file, pos, extent, walk, held, buffers, last>>

InBlock == Copying /\ InExtent /\ extent.type = "PHYSBLOCK"
PhysBno == extent.phys_start + PosInExtent \div BlockSize
PosInPhysblock == PosInExtent % BlockSize

(* One physical block is fetched, copied from and released. *)
CopyBlock ==
    InBlock /\ Deliver(Bytes(PhysBno, PosInPhysblock,
                             Min({BlockSize - PosInPhysblock, call.buflen})))

(* How much of an extent that is not on the disk is copied: the buffer's own *)
(* length is not known here.                                                 *)
CopyLen == Min({extent.log_count * BlockSize - PosInExtent, call.buflen})

CopyBuffer ==
    /\ Copying /\ InExtent /\ extent.type = "BUFFER"
    /\ Deliver([i \in 1 .. CopyLen |->
                   LET k == PosInExtent + i
                   IN  IF k <= Len(extent.buffer) THEN extent.buffer[k] ELSE Unknown])

CopyZeros ==
    /\ Copying /\ InExtent /\ extent.type = "SPARSE"
    /\ Deliver([i \in 1 .. CopyLen |-> Zero])

(* The block cannot be read: the call fails as a whole, the handle stays at  *)
(* its position.                                                             *)
CopyFails ==
    /\ InBlock
    /\ call' = NULL
    /\ UNCHANGED <<file, pos, extent, walk, held, buffers, last>>

ReadDone ==
    /\ call # NULL /\ walk = NULL /\ call.buflen = 0
    /\ last' = [start |-> pos, want |-> call.want, data |-> call.data]
    /\ pos' = call.pos
    /\ call' = NULL
    /\ UNCHANGED <<file, extent, walk, held, buffers>>

------------------------------------------------------------------------------
(* The call of get_extent and its returns. *)

NeedExtent == Copying /\ ~InExtent

(* The old buffer is freed; the driver fills in the structure as it goes.    *)
Start(type, w) ==
    /\ buffers' = buffers - (IF extent.type = "BUFFER" THEN 1 ELSE 0)
    /\ extent' = [extent EXCEPT !.type = type, !.log_start = LogBno,
                                !.log_count = 1, !.buffer = <<>>]
    /\ walk' = w
    /\ UNCHANGED <<file, pos, call, held, last>>

Return(ext) == /\ extent' = ext
               /\ walk' = NULL
               /\ held' = 0
               /\ UNCHANGED <<file, pos, last>>

Hole        == [extent EXCEPT !.type = "SPARSE"]
Block(b, n) == [extent EXCEPT !.type = "PHYSBLOCK", !.phys_start = b, !.log_count = n]

(* The read fails and leaves no extent. *)
ReturnError == /\ Return([extent EXCEPT !.type = "INVALID"])
               /\ call' = NULL
               /\ UNCHANGED buffers

------------------------------------------------------------------------------
(* fsw_ext2_get_extent *)

(* The indices to follow from the inode to the pointer to a logical block. *)
PathTo(log) ==
    LET ind == log - NDir
        dind == ind - IndCount
        tind == dind - DIndCount
    IN CASE log < NDir -> <<log>>
         [] log >= NDir /\ ind < IndCount -> <<NDir, ind>>
         [] ind >= IndCount /\ dind < DIndCount ->
              <<NDir + 1, dind \div IndCount, dind % IndCount>>
         [] OTHER ->
              <<NDir + 2, tind \div DIndCount, (tind \div IndCount) % IndCount,
                tind % IndCount>>

GetExtent2 == On("ext2") /\ NeedExtent /\ Start("PHYSBLOCK", [path |-> PathTo(LogBno)])

Walking(fs) == walk # NULL /\ On(fs)

(* The pointer array at hand, in the inode or in the block on loan. *)
Buffer    == IF held = 0 THEN Disk[file].i_block ELSE Pointers[held]
BufCount  == IF held = 0 THEN NDir ELSE IndCount
Index     == Head(walk.path)
AtLeaf    == Len(walk.path) = 1

(* The length up to which the following pointers are compared; the code      *)
(* masks the rounded size where a division would give the number of blocks.  *)
FileCount == (Size + BlockSize - 1) % BlockSize

Room == Min({BufCount - Index, FileCount - extent.log_start})
Consecutive(n) == \A k \in 1 .. n - 1 : Buffer[Index + k] = Buffer[Index + k - 1] + 1

(* How many pointers from the leaf on are to consecutive blocks, within the  *)
(* pointer array and within FileCount.                                       *)
RunLength == IF Room <= 1 THEN 1 ELSE Max({n \in 1 .. Room : Consecutive(n)})

(* A zero pointer on the way is a hole, one block long. *)
WalkHole ==
    /\ Walking("ext2") /\ Buffer[Index] = 0
    /\ Return(Hole)
    /\ UNCHANGED <<call, buffers>>

WalkLeaf ==
    /\ Walking("ext2") /\ AtLeaf /\ Buffer[Index] # 0
    /\ Return(Block(Buffer[Index], RunLength))
    /\ UNCHANGED <<call, buffers>>

(* On to the next indirect block; the one at hand is released first. *)
WalkDown ==
    /\ Walking("ext2") /\ ~AtLeaf /\ Buffer[Index] # 0
    /\ held' = Buffer[Index]
    /\ walk' = [walk EXCEPT !.path = Tail(@)]
    /\ UNCHANGED <<file, pos, extent, call, buffers, last>>

WalkFails == Walking("ext2") /\ ~AtLeaf /\ Buffer[Index] # 0 /\ ReturnError

------------------------------------------------------------------------------
(* fsw_iso9660_get_extent: all of the file in one extent, without a walk. *)

(* Seeded fault: the last block is counted only when it is full. *)
FullBlocksFor(n) == n \div BlockSize

BlocksFor(n) == (n + BlockSize - 1) \div BlockSize

GetExtent9660 ==
    /\ On("iso9660") /\ NeedExtent
    /\ extent' = [extent EXCEPT !.type = "PHYSBLOCK", !.log_start = 0,
                                !.phys_start = Disk[file].extent_location,
                                !.log_count = BlocksFor(Size)]
    /\ UNCHANGED <<file, pos, call, walk, held, buffers, last>>

------------------------------------------------------------------------------
(* fsw_reiserfs_get_extent: the item with the first byte of the block, the   *)
(* bytes of a file counted from one.                                         *)

FirstByte == extent.log_start * BlockSize + 1

GetExtentR ==
    /\ On("reiserfs") /\ NeedExtent
    /\ Start("SPARSE", Search(Disk[file].object \o <<LogBno * BlockSize + 1>>))

TreeWalk ==
    /\ Walking("reiserfs") /\ ~AtRest(walk)
    /\ walk' \in TreeStep(walk)
    /\ held' = walk'.held
    /\ UNCHANGED <<file, pos, extent, call, buffers, last>>

(* Without an item there is nothing to release. *)
NoItem ==
    /\ Walking("reiserfs") /\ walk.pc \in {"none", "error"}
    /\ extent' = [extent EXCEPT !.type = "INVALID"]
    /\ walk' = NULL /\ call' = NULL
    /\ UNCHANGED <<file, pos, held, buffers, last>>

AtType(types) == Walking("reiserfs") /\ walk.pc = "found" /\ AtItem(walk).type \in types
IntraOffset   == FirstByte - AtItem(walk).key[3]
IntraBno      == IntraOffset \div BlockSize

(* What get_extent checks of an item with data. *)
Usable(it) == /\ it.key[3] # 0
              /\ \/ it.type = "direct" /\ IntraOffset = 0
                 \/ /\ it.type = "indirect"
                    /\ IntraOffset % BlockSize = 0 /\ IntraBno < Len(it.pointers)

(* Only the stat data comes before the block: the file has no data. *)
NoDataItem ==
    /\ AtType(ItemTypes) /\ AtItem(walk).key[3] = 0
    /\ Return(Hole)
    /\ UNCHANGED <<call, buffers>>

(* Seeded fault: all of the item is taken for one extent. *)
IndirectAsRun ==
    /\ AtType({"indirect"}) /\ Usable(AtItem(walk))
    /\ Return(Block(AtItem(walk).pointers[IntraBno + 1],
                    Len(AtItem(walk).pointers) - IntraBno))
    /\ UNCHANGED <<call, buffers>>

(* The pointer of an indirect item, whatever it is. *)
Indirect ==
    /\ AtType({"indirect"}) /\ Usable(AtItem(walk))
    /\ Return(Block(AtItem(walk).pointers[IntraBno + 1], 1))
    /\ UNCHANGED <<call, buffers>>

(* The data of a direct item is copied, however long it is; ... *)
Direct ==
    /\ AtType({"direct"}) /\ Usable(AtItem(walk))
    /\ Return([extent EXCEPT !.type = "BUFFER", !.buffer = AtItem(walk).data])
    /\ buffers' = buffers + 1
    /\ UNCHANGED call

(* ... there may be no memory for it. *)
DirectFails == AtType({"direct"}) /\ Usable(AtItem(walk)) /\ ReturnError

Corrupted == /\ AtType(ItemTypes) /\ AtItem(walk).key[3] # 0
             /\ ~Usable(AtItem(walk))
             /\ ReturnError

------------------------------------------------------------------------------
(* fsw_efi_file_setpos; the all-ones position is the end of the file. *)
SetPosition ==
    /\ call = NULL
    /\ \E p \in Seeks \union {Size} : pos' = p
    /\ UNCHANGED <<file, extent, call, walk, held, buffers, last>>

(* fsw_shandle_close, which frees the extent's buffer, and a new handle on   *)
(* the same dnode.                                                           *)
Reopen ==
    /\ call = NULL
    /\ buffers' = buffers - (IF extent.type = "BUFFER" THEN 1 ELSE 0)
    /\ pos' = 0 /\ extent' = NoExtent /\ last' = NULL
    /\ UNCHANGED <<file, call, walk, held>>

GetExtent == \/ GetExtent2 \/ WalkHole \/ WalkLeaf \/ WalkDown \/ WalkFails
             \/ GetExtent9660
             \/ GetExtentR \/ TreeWalk \/ NoItem \/ NoDataItem \/ Indirect
             \/ Direct \/ DirectFails \/ Corrupted

ShandleRead == CopyBlock \/ CopyBuffer \/ CopyZeros \/ CopyFails \/ ReadDone \/ GetExtent

Next == (\E n \in Lengths : Read(n)) \/ SetPosition \/ Reopen \/ ShandleRead

Spec == Init /\ [][Next]_vars

(* Once called, the code runs until it returns. *)
FairSpec == Spec /\ WF_vars(ShandleRead)

------------------------------------------------------------------------------
(* Properties. *)

(* An ext2 file's block number n, counted through the pointer tree from left *)
(* to right: Singly, Doubly and Triply count the blocks below an indirect    *)
(* block of each kind.                                                       *)
Singly(b, n)   == Below(b, n)
Doubly(b, n)   == Below(Singly(b, n \div IndCount), n % IndCount)
Triply(b, n)   == Below(Doubly(b, n \div IndCount), n % IndCount)
BlockOfFile(n) ==
    LET ib == Disk[file].i_block
        ind  == n - NDir
        dind == ind - IndCount
        tind == dind - DIndCount
    IN  IF ind < 0 THEN ib[n]
        ELSE IF dind < 0 THEN Singly(ib[NDir], ind)
        ELSE IF tind < 0 THEN Doubly(ib[NDir + 1], dind)
        ELSE Triply(ib[NDir + 2], tind)

(* A byte of a block, or of a hole. *)
Stored(b, i) == IF b = 0 THEN Zero ELSE <<b, i>>

(* The byte of a reiserfs file an item holds, if it does. *)
ItemByte(it, p) ==
    LET intra == p + 1 - it.key[3]
    IN  IF it.key[3] = 0 \/ intra < 0 THEN {}
        ELSE IF it.type = "direct" THEN {it.data[i] : i \in {intra + 1} \cap DOMAIN it.data}
        ELSE {Stored(it.pointers[i], intra % BlockSize) :
                 i \in {intra \div BlockSize + 1} \cap DOMAIN it.pointers}

(* The reiserfs files get_extent is made for: items with data begin at block *)
(* boundaries and do not overlap, no pointer is zero, and only the tail is   *)
(* shorter than a block.                                                     *)
WithoutHoles(f) ==
    LET items == {it \in ObjectItems(Disk[f].object) : it.key[3] # 0}
    IN  \A it \in items :
            /\ it.type \in {"direct", "indirect"} /\ (it.key[3] - 1) % BlockSize = 0
            /\ it.type = "indirect" => \A i \in DOMAIN it.pointers : it.pointers[i] # 0
            /\ it.type = "direct" => \/ Len(it.data) >= BlockSize
                                     \/ it.key[3] - 1 + Len(it.data) >= Disk[f].size
            /\ \A other \in items \ {it} : \A p \in 0 .. Disk[f].size - 1 :
                  ItemByte(it, p) = {} \/ ItemByte(other, p) = {}
FileIsWhole == On("reiserfs") => WithoutHoles(file)

ByteOfFile(p) ==
    CASE On("ext2")    -> Stored(BlockOfFile(p \div BlockSize), p % BlockSize)
      [] On("iso9660") -> <<Disk[file].extent_location + p \div BlockSize, p % BlockSize>>
      [] On("reiserfs") ->
            LET found == UNION {ItemByte(it, p) : it \in ObjectItems(Disk[file].object)}
            IN  IF found = {} THEN Zero ELSE CHOOSE byte \in found : TRUE

(* What a read delivers is the file's data from the handle's position on, as *)
(* much of it as was asked for and is there, with zeros for holes: whatever  *)
(* extent earlier reads, seeks and failures left in the handle. Nothing is   *)
(* said of a read that goes past 2^W, which fsw_u32 does not reach: it       *)
(* delivers the beginning of a long reiserfs file instead.                   *)
ReadsTheFile ==
    last # NULL =>
        LET n == Min({last.want, Max({0, Size - last.start})})
        IN  last.start + n <= 2^W =>
                last.data = [i \in 1 .. n |-> ByteOfFile(last.start + i - 1)]

(* The extent a handle keeps maps every byte it covers, in ext2 those past   *)
(* the end of the file too, to the place the file's own structures name.     *)
ExtentIsTheMap ==
    walk = NULL /\ extent.type # "INVALID" =>
        \A i \in 0 .. extent.log_count * BlockSize - 1 :
            LET p == extent.log_start * BlockSize + i
            IN  (p < Size \/ On("ext2")) =>
                ByteOfFile(p) =
                    CASE extent.type = "SPARSE" -> Zero
                      [] extent.type = "PHYSBLOCK" ->
                            <<extent.phys_start + i \div BlockSize, i % BlockSize>>
                      [] extent.type = "BUFFER" ->
                            IF i < Len(extent.buffer) THEN extent.buffer[i + 1] ELSE Unknown

(* get_extent has given back every block it got, on all of its returns, and  *)
(* the only buffer allocated is the one in the handle.                       *)
NothingStaysOnLoan ==
    /\ walk = NULL => held = 0
    /\ buffers = IF extent.type = "BUFFER" THEN 1 ELSE 0

(* The item a block is read through is the one its tree search promises.     *)
FindsTheItem == Walking("reiserfs") => ResultIsRight(walk)

(* Every read returns: each turn of the loop of fsw_shandle_read gets on.    *)
ReadsReturn == []<>(call = NULL)
================================================================================
