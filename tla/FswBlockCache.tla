----------------------------- MODULE FswBlockCache -----------------------------
(***************************************************************************)
(* The block cache of the fsw core (fsw/fsw_core.c, fsw_block_get to        *)
(* fsw_blockcache_free): one array of entries per volume, searched          *)
(* linearly, with a reference count and an importance level per entry.      *)
(* The callers (the core and the file system drivers) are represented by    *)
(* the blocks they have on loan.                                            *)
(***************************************************************************)
EXTENDS Naturals, FiniteSetsExt

CONSTANTS
    Blocks,            \* physical block numbers callers ask for
    INVALID,           \* FSW_INVALID_BNO
    Sizes,             \* physical block sizes drivers announce
    DefaultSize,       \* 512 in fsw_mount
    NoData,            \* no data buffer
    GARBAGE,           \* a buffer a failed read left behind
    MaxLevel,          \* MAX_CACHE_LEVEL, 5 in the code
    MinTable,          \* size of the first table, 16 in the code
    MaxTable,          \* bound: the largest table memory has room for
    MaxLoans           \* bound: nested gets of one block

ASSUME CacheAssumption ==
    /\ INVALID \notin Blocks
    /\ NoData \notin Blocks \X Sizes /\ GARBAGE \notin Blocks \X Sizes
    /\ NoData # GARBAGE
    /\ DefaultSize \in Sizes
    /\ MaxLevel \in Nat /\ MinTable \in Nat \ {0}
    /\ MaxTable \in Nat /\ MaxLoans \in Nat

VARIABLES
    phys_blocksize,  \* vol->phys_blocksize
    bcache_size,     \* vol->bcache_size
    bcache,          \* vol->bcache[0 .. bcache_size - 1]
    loans,           \* callers: gets of a block not yet released
    invalid_matches  \* the build: FALSE where long is wider than phys_bno, so
                     \* that no entry compares equal to FSW_INVALID_BNO (~0UL)

cacheVars == <<phys_blocksize, bcache_size, bcache, loans, invalid_matches>>

Content(b, s) == <<b, s>>     \* what the disk holds in block b of size s

Entry == [refcount    : Nat,
          cache_level : 0..MaxLevel,
          phys_bno    : Blocks \union {INVALID},
          data        : {NoData, GARBAGE} \union (Blocks \X Sizes)]

EmptyEntry == [refcount |-> 0, cache_level |-> 0,
               phys_bno |-> INVALID, data |-> NoData]

Slots == 0 .. bcache_size - 1

CacheTypeOK == /\ phys_blocksize \in Sizes
               /\ bcache_size \in Nat
               /\ bcache \in [Slots -> Entry]
               /\ loans \in [Blocks -> Nat]
               /\ invalid_matches \in BOOLEAN

CacheInit == /\ phys_blocksize = DefaultSize
             /\ bcache_size = 0
             /\ bcache = [i \in Slots |-> EmptyEntry]
             /\ loans = [b \in Blocks |-> 0]
             /\ invalid_matches \in BOOLEAN

------------------------------------------------------------------------------
(* Choosing the entry a missed block is read into.                          *)

Holding(b) == {i \in Slots : bcache[i].phys_bno = b}

FreeSlots == {i \in Slots : invalid_matches /\ bcache[i].phys_bno = INVALID}

(* Seeded fault: the search for a victim forgets the reference count. *)
AnyDiscardable(level) == {i \in Slots : bcache[i].cache_level <= level}

Discardable(level) ==
    {i \in Slots : bcache[i].refcount = 0 /\ bcache[i].cache_level <= level}

DiscardLevel == Min({level \in 0..MaxLevel : Discardable(level) # {}})

TableFull == FreeSlots = {} /\ Discardable(MaxLevel) = {}

NewSize == IF ~TableFull THEN bcache_size
           ELSE IF bcache_size < MinTable THEN MinTable ELSE 2 * bcache_size

(* The table the read works on: the old one, or the enlarged copy. *)
NewTable == [i \in 0 .. NewSize - 1 |-> IF i \in Slots THEN bcache[i] ELSE EmptyEntry]

Slot == IF TableFull THEN bcache_size
        ELSE Min(IF FreeSlots # {} THEN FreeSlots ELSE Discardable(DiscardLevel))

Clamp(level) == IF level > MaxLevel THEN MaxLevel ELSE level

------------------------------------------------------------------------------
(* fsw_block_get, by outcome. A table that cannot be enlarged makes the     *)
(* call return before any change: that outcome is a stuttering step.        *)

GetHit(b, level) ==
    /\ Holding(b) # {}
    /\ loans[b] < MaxLoans
    /\ LET i == Min(Holding(b)) IN
       bcache' = [bcache EXCEPT
                    ![i].cache_level = IF @ < Clamp(level) THEN Clamp(level) ELSE @,
                    ![i].refcount = @ + 1]
    /\ loans' = [loans EXCEPT ![b] = @ + 1]
    /\ UNCHANGED <<phys_blocksize, bcache_size, invalid_matches>>

Miss(b) == /\ Holding(b) = {}
           /\ loans[b] < MaxLoans
           /\ NewSize <= MaxTable
           /\ bcache_size' = NewSize

GetMiss(b, level) ==
    /\ Miss(b)
    /\ bcache' = [NewTable EXCEPT ![Slot] = [refcount    |-> 1,
                                          cache_level |-> Clamp(level),
                                          phys_bno    |-> b,
                                          data        |-> Content(b, phys_blocksize)]]
    /\ loans' = [loans EXCEPT ![b] = @ + 1]
    /\ UNCHANGED <<phys_blocksize, invalid_matches>>

(* Seeded fault: the entry keeps its old block number while it is read over. *)
GetReadErrorKeepsBlock(b) ==
    /\ Miss(b)
    /\ bcache' = [NewTable EXCEPT ![Slot].data = GARBAGE]
    /\ UNCHANGED <<phys_blocksize, loans, invalid_matches>>

(* The host's read_block fails: the entry was already given up. *)
GetReadError(b) ==
    /\ Miss(b)
    /\ bcache' = [NewTable EXCEPT ![Slot].phys_bno = INVALID,
                               ![Slot].data = GARBAGE]
    /\ UNCHANGED <<phys_blocksize, loans, invalid_matches>>

(* No memory for the data buffer of an entry that never had one. *)
GetBufferError(b) ==
    /\ Miss(b)
    /\ NewTable[Slot].data = NoData
    /\ bcache' = [NewTable EXCEPT ![Slot].phys_bno = INVALID]
    /\ UNCHANGED <<phys_blocksize, loans, invalid_matches>>

(* fsw_block_release decrements every entry with that number. *)
BlockRelease(b) ==
    /\ loans[b] > 0
    /\ bcache' = [i \in Slots |->
                    IF bcache[i].phys_bno = b /\ bcache[i].refcount > 0
                    THEN [bcache[i] EXCEPT !.refcount = @ - 1]
                    ELSE bcache[i]]
    /\ loans' = [loans EXCEPT ![b] = @ - 1]
    /\ UNCHANGED <<phys_blocksize, bcache_size, invalid_matches>>

(* Seeded fault: the new size is recorded, the cache kept. *)
SetPhysBlocksizeKeepsCache(size) ==
    /\ \A b \in Blocks : loans[b] = 0
    /\ phys_blocksize' = size
    /\ UNCHANGED <<bcache_size, bcache, loans, invalid_matches>>

(* fsw_set_blocksize drops the cache. Its comment allows it only while      *)
(* mounting; every driver calls it with no block on loan.                   *)
SetPhysBlocksize(size) ==
    /\ \A b \in Blocks : loans[b] = 0
    /\ bcache_size' = 0
    /\ bcache' = [i \in 0 .. 0 - 1 |-> EmptyEntry]
    /\ phys_blocksize' = size
    /\ UNCHANGED <<loans, invalid_matches>>

CacheNext == \/ \E b \in Blocks, level \in 0 .. MaxLevel + 1 :
                   GetHit(b, level) \/ GetMiss(b, level)
             \/ \E b \in Blocks : GetReadError(b) \/ GetBufferError(b) \/ BlockRelease(b)
             \/ \E size \in Sizes : SetPhysBlocksize(size)

CacheSpec == CacheInit /\ [][CacheNext]_cacheVars

------------------------------------------------------------------------------
(* A block is cached once: with two copies, fsw_block_release would         *)
(* decrement both counts for one get. A failed read, an eviction and a      *)
(* table growth must all keep it so.                                        *)
BlockCachedOnce ==
    \A i, j \in Slots : (bcache[i].phys_bno = bcache[j].phys_bno
                         /\ bcache[i].phys_bno # INVALID) => i = j

(* An entry that lost its block (read error, allocation error) is nobody's: *)
(* it is never left with a count that would keep it from being reused.      *)
InvalidIsIdle ==
    \A i \in Slots : bcache[i].phys_bno = INVALID => bcache[i].refcount = 0

(* The counts are exactly the outstanding gets: no get loses its entry to   *)
(* an eviction and no release hits an entry twice.                          *)
CountsAreLoans ==
    \A b \in Blocks :
       /\ \A i \in Holding(b) : bcache[i].refcount = loans[b]
       /\ loans[b] > 0 => Holding(b) # {}

(* A valid entry holds the disk's content at the block size in force, so a  *)
(* hit never returns a failed read or a block of the previous size.         *)
CacheIsCoherent ==
    \A i \in Slots : bcache[i].phys_bno # INVALID =>
        bcache[i].data = Content(bcache[i].phys_bno, phys_blocksize)

(* The inductive invariant: what every call relies on and restores. *)
CacheInv == /\ CacheTypeOK
            /\ BlockCachedOnce
            /\ InvalidIsIdle
            /\ CountsAreLoans
            /\ CacheIsCoherent

(* "Blocks with a low level are purged first": an entry gives up its block  *)
(* to another one only if no idle entry has a lower level.                  *)
LowLevelsGoFirst ==
    [][\A i \in Slots :
         (/\ bcache_size' >= bcache_size
          /\ bcache[i].phys_bno # INVALID
          /\ bcache'[i].phys_bno # bcache[i].phys_bno)
         => \A j \in Slots : bcache[j].refcount = 0 =>
                bcache[j].cache_level >= bcache[i].cache_level]_cacheVars

(* The table grows only when every entry is pinned, so its size stays       *)
(* within twice the largest number of blocks ever on loan together.         *)
GrowsOnlyWhenPinned ==
    [][bcache_size' > bcache_size => \A i \in Slots : bcache[i].refcount > 0]_cacheVars

(* The cache implements the store: what a borrower reads through the        *)
(* pointer it was given stays that block's content until it is released.    *)
Pinned(b) == {i \in Holding(b) : bcache[i].refcount > 0}

Lent == [b \in Blocks |-> IF Pinned(b) = {} THEN NoData ELSE bcache[Min(Pinned(b))].data]

Store == INSTANCE BlockStore WITH lent <- Lent, NULL <- NoData

ImplementsStore == Store!Spec
================================================================================
