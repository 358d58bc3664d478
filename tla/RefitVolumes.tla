------------------------------ MODULE RefitVolumes ------------------------------
(***************************************************************************)
(* rEFIt's life cycle (refit/main.c) and its list of volumes (refit/lib.c):  *)
(* initialisation, the drivers, the scan of all devices and of the logical   *)
(* partitions of one MBR disk, and then again and again a program from the   *)
(* menu, before which every file handle is closed and after which they are   *)
(* opened again. While a program or a driver runs, devices come and go and   *)
(* the disk may be repartitioned.                                            *)
(***************************************************************************)
EXTENDS MbrChain

CONSTANTS
    Handles,    \* the devices with block I/O, in the firmware's order
    WholeOf,    \* the whole disk a device belongs to, by its device path, or NULL
    StartOf,    \* the sector where a device that is a partition starts
    MbrDisk,    \* the device whose sectors are `disk`
    Self,       \* the device rEFIt was loaded from
    Optical,    \* the devices that are optical
    MaxVolumes  \* bound on the number of volumes

Device == {Handles[i] : i \in DOMAIN Handles}

ASSUME VolumesAssumption ==
    /\ Handles \in Seq(Device)
    /\ WholeOf \in [Device -> Device \union {NULL}] /\ StartOf \in [Device -> Nat]
    /\ {MbrDisk, Self} \subseteq Device /\ NULL \notin Device
    /\ \A d \in Device : WholeOf[d] # NULL => WholeOf[WholeOf[d]] = WholeOf[d]

(* File handles: a volume's root directory is named by its place in Volumes,  *)
(* the others are SelfRootDir when opened for itself, SelfDir and DirIter's.  *)
OwnRoot == 0
Dir     == -1
Iter    == -2

Volume == [device : Device \union {NULL},        \* of DevicePath
           handle : Device \union {NULL},        \* DeviceHandle
           root   : BOOLEAN,                     \* whether RootDir is open
           whole  : Device \union {NULL},        \* WholeDiskBlockIO
           path   : Device \union {NULL},        \* WholeDiskDevicePath
           table  : [Entries -> Entry] \union {NULL},
           index  : Nat \union {NULL},           \* IsMbrPartition, MbrPartitionIndex
           start  : Nat]

VARIABLES
    pc,       \* where RefitMain is
    back,     \* where the program to be started returns to
    cursor, slot,  \* loop counters: driver directory or volume, and entry of its table
    vols,     \* Volumes
    self,     \* SelfVolume, SelfRootDir and whether SelfDir is open
    chosen,   \* the volume of the legacy entry that was chosen, or NULL
    hint,     \* the disk in the firmware variable BootCampHD, or NULL
    present,  \* the devices the firmware has
    open,     \* the file handles that are open
    twice,    \* whether a handle was closed that was not open
    layout    \* the disk as it was when it was scanned, or NULL

scanVars == <<cursor, slot>>
fileVars == <<self, open, twice>>
vars == <<pc, back, scanVars, vols, fileVars, chosen, hint, present, layout, chainVars>>

TypeOK ==
    /\ ChainTypeOK
    /\ pc \in {"boot", "drivers", "scan", "relate", "menu", "legacy", "load", "running",
               "off", "crashed"}
    /\ back \in {"drivers", "menu"}
    /\ cursor \in Nat \ {0} /\ slot \in 1 .. 5
    /\ vols \in Seq(Volume)
    /\ self \in [volume : DOMAIN vols \union {NULL},
                 root : {OwnRoot, NULL} \union DOMAIN vols, dir : BOOLEAN]
    /\ chosen \in DOMAIN vols \union {NULL}
    /\ hint \in Device \union {NULL} /\ present \subseteq Device
    /\ open \subseteq {OwnRoot, Dir, Iter} \union DOMAIN vols /\ twice \in BOOLEAN

(* Partitions go with their disk. *)
Hardware == {here \in SUBSET Device : \A d \in here : WholeOf[d] \in here \union {NULL}}

Init ==
    /\ disk \in Disks /\ walk = NULL /\ status = "success"
    /\ pc = "boot" /\ back = "drivers" /\ cursor = 1 /\ slot = 1
    /\ vols = <<>> /\ self = [volume |-> NULL, root |-> NULL, dir |-> FALSE]
    /\ chosen = NULL /\ hint = NULL /\ present = Device
    /\ open = {} /\ twice = FALSE /\ layout = NULL

------------------------------------------------------------------------------
(* Opening and closing the files *)

(* FinishInitRefitLib, with SelfRootDir at root and others just opened. *)
FinishInitRefitLib(root, others) ==
    \E r \in IF root = NULL THEN {OwnRoot, NULL} ELSE {root}, dir \in BOOLEAN :
        /\ r = NULL => ~dir
        /\ self' = [self EXCEPT !.root = r, !.dir = dir]
        /\ open' = others \union ({r} \ {NULL}) \union {h \in {Dir} : dir}

InitRefitLib ==
    /\ pc = "boot"
    /\ FinishInitRefitLib(NULL, {})
    /\ pc' = IF self'.dir THEN "drivers" ELSE "off"
    /\ UNCHANGED <<back, scanVars, vols, twice, chosen, hint, present, layout, chainVars>>

Roots(list) == {v \in DOMAIN list : list[v].root}

(* Seeded fault: the closed root directory is still pointed to. *)
UninitVolumesDangling(v) == [v EXCEPT !.handle = NULL, !.whole = NULL]

UninitVolumes(v) == [v EXCEPT !.root = FALSE, !.handle = NULL, !.whole = NULL]

(* Seeded fault: the installation directory is left open. *)
SelfHandlesButDir == {self.root} \ {NULL}

SelfHandles == ({self.root} \ {NULL}) \union {h \in {Dir} : self.dir}

(* SelfRootDir may be the root directory of SelfVolume, closed already. *)
UninitRefitLib ==
    /\ vols' = [v \in DOMAIN vols |-> UninitVolumes(vols[v])]
    /\ self' = [self EXCEPT !.root = NULL, !.dir = FALSE]
    /\ open' = open \ (Roots(vols) \union SelfHandles)
    /\ twice' = (twice \/ self.root \in Roots(vols))

(* LocateDevicePath finds the device or, failing that, the disk it is on. *)
Locate(device) == IF device \in present THEN device
                  ELSE IF device # NULL /\ WholeOf[device] \in present THEN WholeOf[device] ELSE NULL

(* Seeded fault: the disk is found by the volume's own path. *)
ReinitVolumesOwnPath(v, opens) ==
    LET at == Locate(v.device)
    IN  [v EXCEPT !.handle = at, !.root = at # NULL /\ opens, !.whole = at]

ReinitVolumes(v, opens) ==
    LET at == Locate(v.device)
    IN  [v EXCEPT !.handle = at,
                  !.root = at # NULL /\ opens,
                  !.whole = IF Locate(v.path) # NULL THEN Locate(v.path) ELSE @]

ReinitRefitLib(opens) ==
    /\ vols' = [v \in DOMAIN vols |-> ReinitVolumes(vols[v], v \in opens)]
    /\ FinishInitRefitLib(IF self.volume # NULL /\ vols'[self.volume].root
                          THEN self.volume ELSE self.root,
                          open \union Roots(vols'))
    /\ UNCHANGED twice

------------------------------------------------------------------------------
(* Starting a program: StartEFIImageList and its callers *)

(* StartLoader and StartTool *)
StartProgram ==
    /\ pc = "menu"
    /\ pc' = "load" /\ back' = "menu"
    /\ UNCHANGED <<scanVars, vols, fileVars, chosen, hint, present, layout, chainVars>>

LoadFails ==
    /\ pc = "load"
    /\ pc' = back /\ chosen' = NULL
    /\ UNCHANGED <<back, scanVars, vols, fileVars, hint, present, layout, chainVars>>

(* A handle closed twice may go unnoticed, or not. *)
StartImage ==
    /\ pc = "load"
    /\ UninitRefitLib
    /\ pc' \in IF twice' /\ ~twice THEN {"running", "crashed"} ELSE {"running"}
    /\ UNCHANGED <<back, scanVars, chosen, hint, present, layout, chainVars>>

(* What runs may repartition the disk, disconnect and reconnect devices, and  *)
(* need not come back.                                                        *)
ProgramWorks ==
    /\ pc = "running"
    /\ present' \in Hardware
    /\ disk' \in Disks \union {disk}
    /\ UNCHANGED <<pc, back, scanVars, vols, fileVars, chosen, hint, layout, walk, status>>

ProgramStays ==
    /\ pc = "running"
    /\ pc' = "off"
    /\ UNCHANGED <<back, scanVars, vols, fileVars, chosen, hint, present, layout, chainVars>>

ProgramReturns ==
    /\ pc = "running"
    /\ \E opens \in SUBSET DOMAIN vols : ReinitRefitLib(opens)
    /\ pc' = back /\ chosen' = NULL
    /\ UNCHANGED <<back, scanVars, hint, present, layout, chainVars>>

------------------------------------------------------------------------------
(* ScanDriverDir, for two directories *)

OpenDriverDir ==
    /\ pc = "drivers" /\ cursor <= 2 /\ slot = 1
    /\ slot' = 2
    /\ IF self.root = NULL
       THEN pc' = "crashed" /\ UNCHANGED open   \* SelfRootDir->Open
       ELSE UNCHANGED pc /\ open' \in {open, open \union {Iter}}
    /\ UNCHANGED <<back, cursor, vols, self, twice, chosen, hint, present, layout, chainVars>>

StartDriver ==
    /\ pc = "drivers" /\ Iter \in open
    /\ pc' = "load" /\ back' = "drivers"
    /\ UNCHANGED <<scanVars, vols, fileVars, chosen, hint, present, layout, chainVars>>

CloseDriverDir ==
    /\ pc = "drivers" /\ slot = 2
    /\ open' = open \ {Iter}
    /\ IF cursor = 2 THEN pc' = "scan" /\ cursor' = 1
                     ELSE UNCHANGED pc /\ cursor' = 2
    /\ slot' = 1
    /\ UNCHANGED <<back, vols, self, twice, chosen, hint, present, layout, chainVars>>

------------------------------------------------------------------------------
(* ScanVolumes: first all devices, then, volume by volume, the logical        *)
(* partitions of a disk and the disk's entry for a partition.                 *)

HasTable(table) == /\ \E i \in Entries : ~Unused(table[i])
                   /\ \A i \in Entries : table[i].flags # "bad"

ScanVolume ==
    /\ pc = "scan" /\ cursor <= Len(Handles)
    /\ LET d == Handles[cursor]
       IN  IF d \notin present THEN UNCHANGED <<vols, self, open>>
           ELSE \E root \in BOOLEAN,
                   table \in {NULL} \union {t \in {disk[0]} : d = MbrDisk /\ HasTable(t)} :
                /\ vols' = Append(vols, [device |-> d, handle |-> d, root |-> root,
                                         whole |-> WholeOf[d], path |-> WholeOf[d],
                                         table |-> table, index |-> NULL, start |-> 0])
                /\ self' = IF d = Self THEN [self EXCEPT !.volume = Len(vols')] ELSE self
                /\ open' = open \union {h \in {Len(vols')} : root}
    /\ cursor' = cursor + 1
    /\ layout' = disk
    /\ UNCHANGED <<pc, back, slot, twice, chosen, hint, present, chainVars>>

(* The second pass; there is nothing to relate if the devices cannot be listed. *)
ScanSecondPass ==
    /\ pc = "scan"
    /\ cursor > Len(Handles) \/ vols = <<>>
    /\ pc' = "relate" /\ cursor' = 1 /\ layout' = disk
    /\ UNCHANGED <<back, slot, vols, fileVars, chosen, hint, present, chainVars>>

IsWholeDisk(v) == v.device # NULL /\ v.device = v.whole

ScanMbrEntry ==
    /\ pc = "relate" /\ cursor <= Len(vols) /\ slot <= 4 /\ walk = NULL
    /\ LET v == vols[cursor]
       IN  IF IsWholeDisk(v) /\ v.table # NULL /\ slot \in Extended(v.table)
           THEN StartScan(v.table[slot].start)
           ELSE UNCHANGED walk
    /\ slot' = slot + 1
    /\ UNCHANGED <<pc, back, cursor, vols, fileVars, chosen, hint, present, layout, disk, status>>

LogicalVolume(found) ==
    [device |-> NULL, handle |-> NULL, root |-> FALSE, whole |-> vols[cursor].device,
     path |-> NULL, table |-> NULL, index |-> found.index, start |-> found.start]

ScanExtendedPartition ==
    /\ pc = "relate"
    /\ ScanEmbr
    /\ Len(vols) + Len(Found) <= MaxVolumes
    /\ vols' = vols \o [i \in DOMAIN Found |-> LogicalVolume(Found[i])]
    /\ UNCHANGED <<pc, back, scanVars, fileVars, chosen, hint, present, layout>>

(* The entry has the size and the first sector of the partition. *)
Matches(v, entry) ==
    /\ v.device # NULL /\ v.device # v.whole
    /\ \E w \in DOMAIN vols : /\ vols[w].device = v.whole /\ vols[w].table # NULL
                              /\ vols[w].table[entry].start = StartOf[v.device]

Associated(v) == {i \in Entries : Matches(v, i)}

RelateVolume ==
    /\ pc = "relate" /\ cursor <= Len(vols) /\ slot = 5 /\ walk = NULL
    /\ vols' \in {vols} \union
                 {[vols EXCEPT ![cursor].index = Min(a) - 1,
                               ![cursor].start = StartOf[vols[cursor].device]] :
                    a \in {Associated(vols[cursor])} \ {{}}}
    /\ cursor' = cursor + 1 /\ slot' = 1
    /\ UNCHANGED <<pc, back, fileVars, chosen, hint, present, layout, chainVars>>

(* ScanTool looks into SelfRootDir, unless tools are disabled. *)
ScanEnds ==
    /\ pc = "relate" /\ cursor > Len(vols)
    /\ pc' \in IF self.root = NULL THEN {"menu", "crashed"} ELSE {"menu"}
    /\ UNCHANGED <<back, scanVars, vols, fileVars, chosen, hint, present, layout, chainVars>>

------------------------------------------------------------------------------
(* StartLegacy: set the partition active, leave a hint, start the loader.      *)

StartLegacy ==
    /\ pc = "menu"
    /\ \E v \in DOMAIN vols :
        /\ chosen' = v
        /\ IF vols[v].index = NULL THEN pc' = "legacy" /\ UNCHANGED chainVars
           ELSE IF vols[v].whole = NULL   \* BlockIO->ReadBlocks
           THEN pc' = "crashed" /\ UNCHANGED chainVars
           ELSE pc' = "legacy" /\ (Activate(vols[v].index) \/ ActivateFails)
    /\ UNCHANGED <<back, scanVars, vols, fileVars, hint, present, layout>>

ActivateMbrPartition ==
    /\ pc = "legacy"
    /\ ActivateEmbr
    /\ UNCHANGED <<pc, back, scanVars, vols, fileVars, chosen, hint, present, layout>>

(* Either walk gives up. *)
WalkBreaks ==
    /\ ScanBreaks \/ ActivateEmbrFails
    /\ UNCHANGED <<pc, back, scanVars, vols, fileVars, chosen, hint, present, layout>>

(* What became of the activation is not asked. *)
LegacyLoad ==
    /\ pc = "legacy" /\ walk = NULL
    /\ LET v == vols[chosen]
       IN  hint' \in {hint} \union {p \in {v.path} : p # NULL /\ v.device \notin Optical}
    /\ pc' = "load" /\ back' = "menu"
    /\ UNCHANGED <<scanVars, vols, fileVars, chosen, present, layout, chainVars>>

(* Restart or shut down *)
Leave ==
    /\ pc = "menu"
    /\ pc' = "off"
    /\ UNCHANGED <<back, scanVars, vols, fileVars, chosen, hint, present, layout, chainVars>>

------------------------------------------------------------------------------

Files == \/ InitRefitLib \/ OpenDriverDir \/ StartDriver \/ CloseDriverDir
Scan == \/ ScanVolume \/ ScanSecondPass \/ ScanMbrEntry \/ RelateVolume \/ ScanEnds
Walk == \/ ScanExtendedPartition \/ ActivateMbrPartition
        \/ ~Readable /\ WalkBreaks   \* while it could go on, it need not fail
Program == \/ StartProgram \/ LoadFails \/ StartImage
           \/ ProgramWorks \/ ProgramStays \/ ProgramReturns

Next == Files \/ Scan \/ Walk \/ WalkBreaks \/ Program \/ StartLegacy \/ LegacyLoad \/ Leave

Spec == Init /\ [][Next]_vars /\ WF_vars(Walk)

------------------------------------------------------------------------------
(* Properties *)

(* Every file handle that is open is one that rEFIt still has a pointer to,   *)
(* and every pointer is to a handle that is open, through any number of        *)
(* programs, drivers and failures to reopen (lib.c:101-150, 740-800).           *)
HandlesAreHeld == open \ {Iter} = Roots(vols) \union SelfHandles

(* While a program runs no file of rEFIt's is open; while a driver runs, the  *)
(* directory it was found in is (lib.c:103, main.c:958-967).                   *)
ClosedWhileRunning ==
    pc = "running" => open \subseteq {Iter} /\ (Iter \in open <=> back = "drivers")

(* At the menu a volume has the block I/O of its whole disk if the firmware   *)
(* has that disk now, whatever devices came and went, and never that of a     *)
(* disk from before a program ran (lib.c:754-756, 779-796).                   *)
DisksFollowTheFirmware ==
    pc = "menu" => \A v \in DOMAIN vols :
        vols[v].whole \in {NULL} \union present
        /\ (vols[v].path # NULL => vols[v].whole = Locate(vols[v].path))

(* The layout the properties of the activation are about: one extended entry, *)
(* and nothing behind the link of an EMBR.                                    *)
Standard(d) ==
    /\ \A i, j \in Extended(d[0]) : i = j
    /\ \A s \in DOMAIN d \ {0} : \A i \in Entries : i > Stop(d[s]) => Unused(d[s][i])

SameLayout(d, e) ==
    /\ DOMAIN d = DOMAIN e
    /\ \A s \in DOMAIN d : \A i \in Entries : /\ d[s][i].type = e[s][i].type
                                              /\ d[s][i].start = e[s][i].start

(* "TODO: mark entry as non-bootable if it is an extended partition" (723):   *)
(* the volume of such an entry of the MBR, or of one without a start, can be  *)
(* chosen, but there is nothing for the flags to lead to.                     *)
Bootable(table, index) ==
    index < 4 => table[index + 1].type = "data" /\ ~Unused(table[index + 1])

(* When the legacy loader is started after an activation that succeeded, on   *)
(* a disk laid out as it was when it was scanned, the active flags lead from  *)
(* the MBR to the partition that was chosen and to no other: the walk that    *)
(* sets them (main.c:562) counts as the walk that numbered the partitions     *)
(* (lib.c:568).                                                               *)
ActiveLeadsToChosen ==
    (/\ pc = "load" /\ chosen # NULL /\ vols[chosen].index # NULL /\ status = "success"
     /\ Standard(disk) /\ SameLayout(disk, layout)
     /\ Bootable(disk[0], vols[chosen].index))
    => ActivePartitions(disk) = {vols[chosen].start}

(* Both walks end, on a disk whose links lead forward (lib.c:580, main.c:617). *)
WalksEnd == (walk # NULL) ~> (walk = NULL)

(* "called before running external programs to close open file handles"       *)
(* (lib.c:103): what UninitRefitLib closes is open.                           *)
ClosesWhatIsOpen == ~twice
================================================================================
