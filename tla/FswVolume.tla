------------------------------- MODULE FswVolume -------------------------------
(***************************************************************************)
(* The life of a file system driver on one device (fsw/fsw_efi.c): the      *)
(* firmware starts it, fsw_mount lets the driver read the medium            *)
(* (fsw_ext2.c, fsw_reiserfs.c, fsw_iso9660.c), clients use the dnodes of   *)
(* FswDnode through the installed Simple File System protocol, and the      *)
(* firmware stops it again. Every read and every allocation may fail, and   *)
(* every error takes the code's own way out.                                *)
(***************************************************************************)
EXTENDS FswDnode

CONSTANTS
    FsTypes,      \* the drivers: "ext2", "reiserfs", "iso9660"
    Media,        \* media the device may hold: records with at (what lies at
                  \* which KiB), size (in KiB) and what is true of them, see below
    IoErrors,     \* what EFI_DISK_IO.ReadDisk may report
    DescsPerKiB,  \* bound: group descriptors in a KiB (32 in the code)
    InodesPerKiB  \* bound: small (revision 0) inodes in a KiB (8 in the code)

ASSUME VolumeAssumption ==
    /\ FsTypes \subseteq {"ext2", "reiserfs", "iso9660"}
    /\ \A m \in Media : \A pos \in DOMAIN m.at : pos \in Nat /\ m.at[pos] # NULL
    /\ DescsPerKiB \in Nat \ {0} /\ InodesPerKiB \in Nat \ {0}
    /\ IoErrors \cap {"SUCCESS", "UNSUPPORTED"} = {}

------------------------------------------------------------------------------
(* What is true of a medium, by the formats of the three file systems: fs is *)
(* the one it was made with, verdict what a driver for it is to say, and for *)
(* a volume that can be read label, bs (in KiB) and, of ext2, the place of   *)
(* each inode.                                                               *)

Blank == [is |-> "blank"]
Lies(m, pos) == IF pos \in DOMAIN m.at THEN m.at[pos] ELSE Blank

(* ext2: the superblock lies at 1 KiB, and behind its block the descriptors  *)
(* of the groups, which tell where their inodes begin.                       *)
Compatible(sb) == sb.rev = 0 \/ (sb.rev = 1 /\ sb.incompat \subseteq {"filetype", "recover"})

DescriptorBlock(m, sb, g) == Lies(m, sb.bs * (sb.first + 1 + g \div (sb.bs * DescsPerKiB)))

InodeTable(m, sb, g) == DescriptorBlock(m, sb, g).tables[(g % (sb.bs * DescsPerKiB)) + 1]

PlaceOfInode(m, sb, ino) ==
    LET g   == (ino - 1) \div sb.per_group
        i   == (ino - 1) % sb.per_group
        per == (sb.bs * InodesPerKiB) \div (IF sb.rev = 0 THEN 1 ELSE sb.inode_size)
    IN  [block |-> InodeTable(m, sb, g) + (i \div per), index |-> i % per]

Ext2Groups(m, sb) ==
    /\ {sb.bs, sb.inodes} \subseteq Nat \ {0} /\ sb.first \in Nat
    /\ sb.per_group \in Nat \ {0, 1} /\ sb.inodes % sb.per_group = 0
    /\ \A g \in 0 .. (sb.inodes \div sb.per_group) - 1 : DescriptorBlock(m, sb, g).is = "gdescs"
    /\ DOMAIN m.inode \subseteq 1 .. sb.inodes
    /\ \A ino \in DOMAIN m.inode : m.inode[ino] = PlaceOfInode(m, sb, ino)

Ext2Truth(m) ==
    LET sb == Lies(m, 1)
    IN  IF m.fs # "ext2" THEN sb.is # "ext2"
        ELSE /\ sb.is = "ext2"
             /\ m.verdict = IF Compatible(sb) THEN "SUCCESS" ELSE "UNSUPPORTED"
             /\ m.verdict = "SUCCESS" => m.label = sb.label /\ m.bs = sb.bs /\ Ext2Groups(m, sb)

(* reiserfs: a superblock of a known format at 64 KiB or else at 8 KiB.      *)
KnownFormat(sb) ==
    /\ sb.is = "reiserfs"
    /\ \/ sb.magic \in {"v1", "v2"}
       \/ sb.magic = "jr" /\ sb.version \in {"v1", "v2"}

ReiserTruth(m) ==
    LET supers == {pos \in {64, 8} : KnownFormat(Lies(m, pos))}
        sb     == Lies(m, IF 64 \in supers THEN 64 ELSE 8)
    IN  IF supers = {} THEN m.fs = "reiserfs" => m.verdict = "UNSUPPORTED"
        ELSE /\ m.fs = "reiserfs"
             /\ m.verdict = IF sb.rebuilding THEN "VOLUME_CORRUPTED" ELSE "SUCCESS"
             /\ m.label = sb.label /\ m.bs = sb.bs

(* ISO 9660: descriptors in 2 KiB blocks from 16 on, up to a terminator; the *)
(* last primary one of them counts.                                          *)
Standard(d) == d.is = "iso" /\ d.id = "CD001" /\ d.version = 1

InSet(m, b) == b >= 16 /\ \A k \in 16 .. b - 1 :
                              Lies(m, 2 * k).is = "iso" /\ Lies(m, 2 * k).type # 255

PrimaryAt(m, b) == InSet(m, b) /\ Standard(Lies(m, 2 * b)) /\ Lies(m, 2 * b).type = 1

IsoTruth(m) ==
    LET primaries == {b \in {pos \div 2 : pos \in DOMAIN m.at} : PrimaryAt(m, b)}
    IN  /\ primaries = {} => (m.fs = "iso9660" => m.verdict = "UNSUPPORTED")
        /\ \A b \in primaries : (\A c \in primaries : c <= b) =>
              /\ m.fs = "iso9660" /\ m.label = Lies(m, 2 * b).label
              /\ m.verdict = IF Lies(m, 2 * b).bs = 2 THEN "SUCCESS" ELSE "UNSUPPORTED"
              /\ m.verdict = "SUCCESS" => m.bs = 2

ASSUME MediaAssumption == \A m \in Media : Ext2Truth(m) /\ ReiserTruth(m) /\ IsoTruth(m)

------------------------------------------------------------------------------
VARIABLES
    fstype,     \* the file system type this driver image was built for
    medium,     \* what is in the drive
    diskio,     \* the driver has Disk I/O open BY_DRIVER
    installed,  \* the Simple File System protocol is on the device
    published,  \* Volume->vol is set
    vol,        \* struct fsw_volume with the driver's part, or NULL
    mem,        \* mem[what]: how often it is allocated
    pc,         \* where the driver binding is
    status,     \* what Start is to return or, once it did, returned;
                \* NOT_STARTED when it was not called since Stop
    lastio,     \* Volume->LastIOStatus
    faulted     \* ghost: a read, an allocation or a firmware call has failed
                \* since Start was called

bvars == <<fstype, medium, diskio, installed, published, vol, mem, pc, status,
           lastio, faulted>>
device == <<fstype, medium>>
allvars == <<vars, bvars>>

Chunks == {"pool", "volume", "sb", "pvd", "inotab", "label", "cache"}

(* What AllocateZeroPool and the driver leave in a new volume. *)
NewVolume == [bs |-> 0, cache |-> <<>>, sb |-> NULL, pvd |-> NULL, version |-> NULL,
              inotab |-> <<>>, label |-> NULL, at |-> 0]

VolumeInit ==
    /\ Init
    /\ fstype \in FsTypes /\ medium \in Media
    /\ diskio = FALSE /\ installed = FALSE /\ published = FALSE
    /\ vol = NULL
    /\ mem = [c \in Chunks |-> 0]
    /\ pc = "idle" /\ status = "NOT_STARTED" /\ lastio = "SUCCESS" /\ faulted = FALSE

------------------------------------------------------------------------------
(* Allocation, block reads, block sizes.                                    *)

Alloc(m, what) == [m EXCEPT ![what] = @ + 1]
FreeChunk(m, what) == [m EXCEPT ![what] = @ - 1]

(* fsw_efi_map_status. *)
MapStatus(st, io) ==
    CASE st = "SUCCESS"          -> "SUCCESS"
      [] st = "OUT_OF_MEMORY"    -> "VOLUME_CORRUPTED"
      [] st = "IO_ERROR"         -> io
      [] st = "UNSUPPORTED"      -> "UNSUPPORTED"
      [] st = "VOLUME_CORRUPTED" -> "VOLUME_CORRUPTED"

(* The driver's volume_mount returns an error: fsw_mount goes on to its     *)
(* errorexit and unmounts what there is.                                    *)
MountFails(st, io) ==
    /\ status' = MapStatus(st, io)
    /\ pc' = "unmount"

Refuse(st) == MountFails(st, lastio) /\ UNCHANGED faulted

Goto(where) == pc' = where /\ UNCHANGED <<status, faulted>>

NoMemory ==
    /\ MountFails("OUT_OF_MEMORY", lastio)
    /\ faulted' = TRUE
    /\ UNCHANGED <<vol, mem, lastio>>

OnMedium(pos) == Lies(medium, pos)

(* Seeded fault: the cached blocks survive a change of the block size. *)
SetBlocksizeKeepsCache(v, bs) == [v EXCEPT !.bs = bs]

(* fsw_set_blocksize drops the block cache: its block numbers mean nothing  *)
(* any more.                                                                *)
SetBlocksize(v, bs) == [v EXCEPT !.bs = bs, !.cache = <<>>]

(* fsw_efi_read_block fails; the buffer stays with the cache. Nothing can   *)
(* be read beyond the end of the medium.                                    *)
ReadFails(v) ==
    /\ \E e \in IoErrors : lastio' = e
    /\ MountFails("IO_ERROR", lastio')
    /\ vol' = v
    /\ mem' = Alloc(mem, "cache")
    /\ faulted' = TRUE

(* fsw_block_get, as volume_mount uses it: the block is copied from and      *)
(* released at once. Got is volume v, with its block size set, once it has  *)
(* block bno; GetBlock is the get that succeeds, GetFails the one that does  *)
(* not and ends the mount.                                                  *)
Got(v, bno) ==
    IF bno \in DOMAIN v.cache THEN v
    ELSE [v EXCEPT !.cache = [b \in DOMAIN v.cache \union {bno} |->
             IF b = bno THEN OnMedium(bno * v.bs) ELSE v.cache[b]]]

GetBlock(v, bno) ==
    \/ bno \in DOMAIN v.cache /\ UNCHANGED lastio
    \/ bno \notin DOMAIN v.cache /\ bno * v.bs < medium.size /\ lastio' = "SUCCESS"

GetFails(v, bno) == bno \notin DOMAIN v.cache /\ (ReadFails(v) \/ NoMemory)

(* mem once volume v has its blocks in the cache. *)
WithCache(v) == [mem EXCEPT !["cache"] = Cardinality(DOMAIN v.cache)]

------------------------------------------------------------------------------
(* The volume's label: fsw_strdup_coerce to the host's UTF-16 on the way in, *)
(* fsw_efi_strcpy on the way out, which knows no other encoding.             *)

Coerce(text) == [type |-> "UTF16", text |-> text]

StrCpy(s) == IF s.type = "UTF16" THEN s.text ELSE ""

(* Memory is needed only for a label that is not empty. *)
KeepLabel(v, text, next) ==
    \/ /\ vol' = [v EXCEPT !.label = Coerce(text)]
       /\ mem' = IF text = "" THEN mem ELSE Alloc(mem, "label")
       /\ Goto(next)
       /\ UNCHANGED lastio
    \/ text # "" /\ NoMemory

------------------------------------------------------------------------------
(* fsw_ext2_volume_mount. *)

At(fs, where) == fstype = fs /\ pc = where /\ drop = NULL
MountStep == UNCHANGED <<vars, device, diskio, installed, published>>

Ext2Alloc ==
    /\ At("ext2", "volume_mount")
    /\ \/ mem' = Alloc(mem, "sb") /\ Goto("superblock") /\ UNCHANGED <<vol, lastio>>
       \/ NoMemory
    /\ MountStep

(* Seeded fault: any incompatible feature is accepted. *)
Supported2Anything(sb) == sb.is = "ext2" /\ sb.rev \in {0, 1}

Supported2(sb) ==
    /\ sb.is = "ext2" /\ sb.rev \in {0, 1}
    /\ sb.rev = 1 => sb.incompat \subseteq {"filetype", "recover"}

(* The superblock, at block 1 of 1 KiB blocks; then the real block size. *)
Ext2Super ==
    /\ At("ext2", "superblock")
    /\ LET small == SetBlocksize(vol, 1)
           v     == Got(small, 1)
           data  == v.cache[1]
       IN \/ GetFails(small, 1)
          \/ /\ GetBlock(small, 1)
             /\ mem' = WithCache(v)
             /\ IF Supported2(data)
                THEN /\ vol' = SetBlocksize([v EXCEPT !.sb = data], data.bs)
                     /\ Goto("label")
                ELSE /\ vol' = [v EXCEPT !.sb = data]
                     /\ Refuse("UNSUPPORTED")
    /\ MountStep

(* In units of a small inode; revision 0 has no field for the size. *)
InodeSize(sb) == IF sb.rev = 0 THEN 1 ELSE sb.inode_size

Ext2Label ==
    /\ At("ext2", "label")
    /\ KeepLabel(vol, vol.sb.label, "inotab")
    /\ MountStep

GroupCount(sb) == ((sb.inodes - 2) \div sb.per_group) + 1

Ext2AllocTables ==
    /\ At("ext2", "inotab")
    /\ \/ mem' = Alloc(mem, "inotab") /\ Goto("groups") /\ UNCHANGED <<vol, lastio>>
       \/ NoMemory
    /\ MountStep

(* The table number in a descriptor; any number in a block without them. *)
Table(data, index) == IF data.is = "gdescs" THEN data.tables[index + 1] ELSE 0

(* One turn of the loop over the block groups. *)
Ext2Group ==
    /\ At("ext2", "groups")
    /\ LET groupno  == Len(vol.inotab)
           perblock == vol.bs * DescsPerKiB
           bno      == vol.sb.first + 1 + (groupno \div perblock)
           v        == Got(vol, bno)
       IN \/ /\ groupno = GroupCount(vol.sb)
             /\ Goto("root") /\ UNCHANGED <<vol, mem, lastio>>
          \/ groupno # GroupCount(vol.sb) /\ GetFails(vol, bno)
          \/ /\ groupno # GroupCount(vol.sb) /\ GetBlock(vol, bno)
             /\ vol' = [v EXCEPT !.inotab =
                          Append(@, Table(v.cache[bno], groupno % perblock))]
             /\ mem' = WithCache(v)
             /\ Goto("groups")
    /\ MountStep

(* fsw_ext2_dnode_fill: where it looks for an inode. *)
InodesPerBlock(v) == (v.bs * InodesPerKiB) \div InodeSize(v.sb)

InodeAt(v, ino) ==
    LET g == (ino - 1) \div v.sb.per_group
        i == (ino - 1) % v.sb.per_group
    IN [block |-> v.inotab[g + 1] + (i \div InodesPerBlock(v)),
        index |-> i % InodesPerBlock(v)]

------------------------------------------------------------------------------
(* fsw_reiserfs_volume_mount. *)

SuperblockOffsets == <<16, 2>>   \* in blocks of 4 KiB: 64 KiB and 8 KiB

ReiserAlloc ==
    /\ At("reiserfs", "volume_mount")
    /\ \/ mem' = Alloc(mem, "sb") /\ Goto("superblock") /\ UNCHANGED lastio
          /\ vol' = SetBlocksize([vol EXCEPT !.at = 1], 4)
       \/ NoMemory
    /\ MountStep

ReiserVersion(sb) == IF sb.magic = "jr" THEN sb.version ELSE sb.magic
Recognised(data) == data.is = "reiserfs" /\ ReiserVersion(data) \in {"v1", "v2"}

(* One of the places a superblock may be at; then its real block size. *)
ReiserSuper ==
    /\ At("reiserfs", "superblock")
    /\ \/ /\ vol.at > Len(SuperblockOffsets)
          /\ Refuse("UNSUPPORTED") /\ UNCHANGED <<vol, mem, lastio>>
       \/ vol.at <= Len(SuperblockOffsets) /\ GetFails(vol, SuperblockOffsets[vol.at])
       \/ /\ vol.at <= Len(SuperblockOffsets) /\ GetBlock(vol, SuperblockOffsets[vol.at])
          /\ LET v    == Got(vol, SuperblockOffsets[vol.at])
                 data == v.cache[SuperblockOffsets[vol.at]]
             IN /\ mem' = WithCache(v)
                /\ \/ /\ ~Recognised(data)
                      /\ vol' = [v EXCEPT !.sb = data, !.at = @ + 1]
                      /\ Goto("superblock")
                   \/ /\ Recognised(data) /\ data.rebuilding
                      /\ vol' = [v EXCEPT !.sb = data]
                      /\ Refuse("VOLUME_CORRUPTED")
                   \/ /\ Recognised(data) /\ ~data.rebuilding
                      /\ vol' = SetBlocksize([v EXCEPT !.sb = data,
                                                       !.version = ReiserVersion(data)],
                                             data.bs)
                      /\ Goto("label")
    /\ MountStep

ReiserLabel ==
    /\ At("reiserfs", "label")
    /\ KeepLabel(vol, vol.sb.label, "root")
    /\ MountStep

------------------------------------------------------------------------------
(* fsw_iso9660_volume_mount. *)

IsoBegin ==
    /\ At("iso9660", "volume_mount")
    /\ vol' = SetBlocksize([vol EXCEPT !.at = 16], 2)
    /\ Goto("superblock")
    /\ UNCHANGED <<mem, lastio>>
    /\ MountStep

IsPrimary(d) == d.is = "iso" /\ d.id = "CD001" /\ d.type = 1 /\ d.version = 1
EndsTheSet(d) == d.is # "iso" \/ d.type = 255

(* Seeded fault: an earlier Primary Volume Descriptor is not freed. *)
DropPrimaryForgotten(m) == m

(* The memory of an earlier Primary Volume Descriptor, given back. *)
DropPrimary(m) == IF vol.pvd = NULL THEN m ELSE FreeChunk(m, "pvd")

(* One turn of the loop over the Volume Descriptor Set. *)
IsoDescriptor ==
    /\ At("iso9660", "superblock")
    /\ LET v    == Got(vol, vol.at)
           data == v.cache[vol.at]
       IN \/ GetFails(vol, vol.at)
          \/ /\ GetBlock(vol, vol.at) /\ ~IsPrimary(data)
             /\ vol' = [v EXCEPT !.at = @ + 1]
             /\ mem' = WithCache(v)
             /\ Goto(IF EndsTheSet(data) THEN "pvd" ELSE "superblock")
          \/ /\ GetBlock(vol, vol.at) /\ IsPrimary(data)
             /\ vol' = [v EXCEPT !.at = @ + 1, !.pvd = data]
             /\ mem' = Alloc(DropPrimary(WithCache(v)), "pvd")
             /\ Goto("superblock")
          \/ /\ GetBlock(vol, vol.at) /\ IsPrimary(data)
             /\ vol' = [v EXCEPT !.pvd = NULL]
             /\ mem' = DropPrimary(WithCache(v))
             /\ MountFails("OUT_OF_MEMORY", lastio)
             /\ faulted' = TRUE
    /\ MountStep

IsoPrimary ==
    /\ At("iso9660", "pvd")
    /\ IF vol.pvd = NULL \/ (vol.pvd # NULL /\ vol.pvd.bs # 2)
       THEN Refuse("UNSUPPORTED") /\ UNCHANGED <<vol, mem, lastio>>
       ELSE KeepLabel(vol, vol.pvd.label, "root")
    /\ MountStep

------------------------------------------------------------------------------
(* The end of every volume_mount: fsw_dnode_create_root.                    *)

(* iso9660 copies the root's directory record and drops the descriptor. *)
CreateRoot ==
    /\ pc = "root" /\ root = NULL /\ drop = NULL
    /\ \/ /\ Mount
          /\ vol' = [vol EXCEPT !.pvd = NULL]
          /\ mem' = DropPrimary(mem)
          /\ pc' = "mount_done" /\ status' = "SUCCESS" /\ published' = TRUE
          /\ UNCHANGED <<lastio, faulted>>
       \/ /\ NoMemory
          /\ UNCHANGED <<vars, published>>
    /\ UNCHANGED <<device, diskio, installed>>

------------------------------------------------------------------------------
(* The driver binding: what the firmware calls.                             *)

Resting == pc \in {"idle", "supported"} /\ drop = NULL /\ stack = <<>>

(* fsw_efi_DriverBinding_Supported opens Disk I/O, which only one driver     *)
(* may have, and closes it again.                                            *)
Supported ==
    /\ Resting /\ pc = "idle" /\ ~diskio
    /\ pc' = "supported"
    /\ UNCHANGED <<vars, device, diskio, installed, published, vol, mem, status, lastio, faulted>>

(* fsw_efi_DriverBinding_Start, as far as the call of volume_mount. The      *)
(* structure of the volume is taken to be there: the code writes to what     *)
(* AllocateZeroPool returns (fsw_efi.c:283) without a look at whether it     *)
(* returned anything.                                                        *)
Start ==
    /\ Resting /\ pc = "supported"
    /\ \/ /\ status' = "ALREADY_STARTED" /\ pc' = "idle"
          /\ faulted' = ~diskio    \* another driver took the device meanwhile
          /\ UNCHANGED <<diskio, vol, mem, lastio>>
       \/ /\ ~diskio /\ diskio' = TRUE
          /\ lastio' = "SUCCESS"
          /\ \/ /\ vol' = NewVolume
                /\ mem' = Alloc(Alloc(mem, "pool"), "volume")
                /\ pc' = "volume_mount"
                /\ faulted' = FALSE
                /\ UNCHANGED status
             \/ /\ mem' = Alloc(mem, "pool")
                /\ status' = MapStatus("OUT_OF_MEMORY", lastio')
                /\ pc' = "mount_done"
                /\ faulted' = TRUE
                /\ UNCHANGED vol
    /\ UNCHANGED <<vars, device, installed, published>>

(* ... and after fsw_mount: only a mounted volume is offered to clients.    *)
StartInstall ==
    /\ pc = "mount_done" /\ drop = NULL
    /\ \/ /\ status = "SUCCESS"
          /\ installed' = TRUE /\ pc' = "idle"
          /\ UNCHANGED <<status, faulted>>
       \/ /\ status = "SUCCESS"
          /\ status' = "OUT_OF_RESOURCES" /\ faulted' = TRUE
          /\ pc' = IF published THEN "unmount" ELSE "close"
          /\ UNCHANGED installed
       \/ /\ status # "SUCCESS"
          /\ pc' = IF published THEN "unmount" ELSE "close"
          /\ UNCHANGED <<installed, status, faulted>>
    /\ UNCHANGED <<vars, device, diskio, published, vol, mem, lastio>>

(* fsw_efi_DriverBinding_Stop. Clients have closed their files: its comment *)
(* assumes so. (When the protocol cannot be uninstalled, it changes nothing.) *)
Stop ==
    /\ Resting /\ pc = "idle" /\ installed /\ Handles = {}
    /\ installed' = FALSE /\ status' = "NOT_STARTED"
    /\ pc' = "unmount"
    /\ UNCHANGED <<vars, device, diskio, published, vol, mem, lastio, faulted>>

(* fsw_unmount: the root goes first, and with it what it alone kept alive.  *)
UnmountRoot ==
    /\ pc = "unmount"
    /\ \/ Unmount
       \/ root = NULL /\ UNCHANGED vars
    /\ pc' = "volume_free"
    /\ UNCHANGED <<device, diskio, installed, published, vol, mem, status, lastio, faulted>>

(* What each volume_free gives back, and after it fsw_blockcache_free,      *)
(* fsw_strfree and fsw_free.                                                *)
Freed == [ext2 |-> {"sb", "inotab"}, reiserfs |-> {"sb"}, iso9660 |-> {"pvd"}]

Remaining(m) == [c \in Chunks |->
    IF c = "cache" THEN 0
    ELSE IF c \in Freed[fstype] \union {"label", "volume"} /\ m[c] > 0 THEN m[c] - 1 ELSE m[c]]

VolumeFree ==
    /\ pc = "volume_free" /\ drop = NULL
    /\ mem' = Remaining(mem)
    /\ vol' = NULL
    /\ pc' = IF published THEN "close" ELSE "mount_done"
    /\ UNCHANGED <<vars, device, diskio, installed, published, status, lastio, faulted>>

(* FreePool(Volume) and CloseProtocol, the end of Stop and of a Start that  *)
(* failed.                                                                  *)
Finish ==
    /\ pc = "close"
    /\ mem' = FreeChunk(mem, "pool")
    /\ published' = FALSE /\ diskio' = FALSE
    /\ pc' = "idle"
    /\ UNCHANGED <<vars, device, installed, vol, status, lastio, faulted>>

------------------------------------------------------------------------------
Ext2Mount == Ext2Alloc \/ Ext2Super \/ Ext2Label \/ Ext2AllocTables \/ Ext2Group
ReiserMount == ReiserAlloc \/ ReiserSuper \/ ReiserLabel
IsoMount == IsoBegin \/ IsoDescriptor \/ IsoPrimary

DriverStep == \/ Ext2Mount \/ ReiserMount \/ IsoMount \/ CreateRoot
              \/ StartInstall \/ UnmountRoot \/ VolumeFree \/ Finish

(* Only what is installed can be opened. *)
ClientCall == /\ pc = "idle" /\ installed
              /\ Client
              /\ UNCHANGED bvars

DnodeStep == Step /\ UNCHANGED bvars

VolumeNext == Supported \/ Start \/ Stop \/ DriverStep \/ ClientCall \/ DnodeStep

VolumeSpec == VolumeInit /\ [][VolumeNext]_allvars

(* The driver is one thread: a call in progress goes on. *)
FairVolumeSpec == VolumeSpec /\ WF_allvars(DriverStep \/ DnodeStep)

------------------------------------------------------------------------------
(* Properties.                                                              *)

(* Between the firmware's calls a driver is either started, with all that   *)
(* its clients rely on, or has given everything back: whatever failed on    *)
(* the way, in fsw_mount or after it, neither a protocol nor a piece of     *)
(* memory stays behind (fsw_efi.c:292-303, fsw_core.c:97-117).              *)
StartedOrClean ==
    Resting =>
        IF installed
        THEN /\ diskio /\ published /\ root # NULL
             /\ mem["pool"] = 1 /\ mem["volume"] = 1
             /\ status = "SUCCESS"
        ELSE /\ ~diskio /\ ~published /\ vol = NULL /\ root = NULL
             /\ \A c \in Chunks : mem[c] = 0
             /\ status # "SUCCESS"

(* Start accepts a medium of the driver's own kind in a state it can read,  *)
(* and reports any other as the firmware expects, so that another driver    *)
(* gets its turn: unless the device or the memory failed it (the checks of  *)
(* the three volume_mount functions, fsw_efi_map_status).                   *)
RecognisesItsOwn ==
    Resting /\ ~faulted /\ status # "NOT_STARTED" =>
        status = IF medium.fs = fstype THEN medium.verdict ELSE "UNSUPPORTED"

(* A mounted volume is the one on the medium: its label and block size, and *)
(* the place of every inode, although superblock and descriptors were read  *)
(* through a cache at another block size (fsw_set_blocksize) and the sizes  *)
(* of blocks, groups and inodes differ from medium to medium.               *)
MountedAgreesWithDisk ==
    Resting /\ installed =>
        /\ StrCpy(vol.label) = medium.label
        /\ vol.bs = medium.bs
        /\ fstype = "ext2" =>
             \A ino \in DOMAIN medium.inode : InodeAt(vol, ino) = medium.inode[ino]

(* Every call of the firmware or a client returns: the loops over group     *)
(* descriptors, superblock places and volume descriptors end, whatever is   *)
(* on the medium, and no path, with its symlinks, is walked forever. (Needs *)
(* a disk without symlink loops: the code does not count the links it has   *)
(* followed.)                                                               *)
CallsReturn == []<>Resting
================================================================================
