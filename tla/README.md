# A verification development for rEFIt

rEFIt is a boot menu for EFI machines, with its own read-only file system
drivers and a tool that mirrors a GPT in the MBR. This directory holds TLA+
models of the parts that have state and control of their own, TLC
configurations that check them on small instances, and TLAPS proofs of what
holds for all of them. All source paths are relative to `src/refit/`.

    tlc -config MCFswVolume.cfg MCFswVolume   # check one run
    tlapm FswVolumeProofs.tla                 # check one module's proofs

`PROJECT.json` maps every definition to the lines it models, and lists the runs,
the seeded faults that each property detects, the hazards and the findings.

## 1. The system

| Component | State | Operations | Interacts with |
|---|---|---|---|
| fsw core, block cache (`fsw/fsw_core.c` 130-279) | array of entries with block number, level, reference count and buffer; the block size | `fsw_block_get`, `fsw_block_release`, `fsw_set_blocksize` | called by every driver; calls the host's `read_block`, which may fail |
| fsw core, dnodes (`fsw_core.c` 323-800) | a list of reference-counted objects, each holding its parent | create, retain, release, fill, `lookup_path`, `resolve`, `dir_read` | `lookup_path` and `resolve` call each other; drivers fill dnodes |
| fsw core, storage handles (`fsw_core.c` 806-922) | position and the last extent | open, read, close | asks the driver for extents, gets blocks from the cache |
| ext2 driver (`fsw/fsw_ext2.c`) | superblock and the table of inode tables | mount, `get_extent`, `dir_lookup`, `dir_read`, `dnode_fill`, `readlink` | core |
| reiserfs driver (`fsw/fsw_reiserfs.c`) | superblock; a path in the tree, of which one block stays on loan between two steps | as ext2; `item_search`, `item_next`, `item_release` | core |
| ISO 9660 driver (`fsw/fsw_iso9660.c`) | the primary volume descriptor | as ext2 | core |
| fsw EFI host (`fsw/fsw_efi.c`) | the device's protocols and the mounted volume; one structure per open file handle: dnode and position | Supported, Start, Stop; OpenVolume, Open, Close, Read, SetPosition | the firmware and rEFIt call it |
| rEFIt directory iteration (`refit/lib.c` 800-910) | iterator with handle, last status, last entry | `DirIterOpen`, `DirIterNext`, `DirIterClose`, `DirNextEntry` | Read of the EFI host; retries with larger buffers |
| rEFIt menus (`refit/menu.c`, `refit/main.c` 1125-1163) | scroll window, selection, paint flags, timeout, the screens | `RunGenericMenu`, `RunMainMenu`, the loop of `RefitMain` | keys, display, started programs |
| rEFIt volumes and library (`refit/lib.c`) | list of volumes with open root directories | scan, `UninitRefitLib`, `ReinitRefitLib` | closes everything around each started program |
| MBR activation (`refit/main.c` 562-657) | the sectors of the MBR and the chain of extended boot records | `ActivateMbrPartition` | disk |
| gptsync (`gptsync/*.c`) | both partition tables as read, the table composed | `read_gpt`, `read_mbr`, `check_*`, `analyze`, `write_mbr` | disk, user; other partitioning programs |
| configuration (`refit/config.c`) | what is left of the file; `GlobalConfig` | `ReadConfig`, `ReadTokenLine` | changed once, read by everything that scans and paints |
| screen and icons (`refit/screen.c`, `refit/icns.c`) | text or graphics mode, whether the screen is dirty, unread errors, the background | `InitScreen`, `SetupScreen`, `Begin`/`FinishExternalScreen`, `CheckError`, `LoadOSIcon` | the firmware's console and graphics output; programs that paint on them |
| libeg (`libeg/*.c`) | none but the firmware's mode | decode BMP, ICNS and embedded images, compose, clip, screenshot | screen and menus |
| rEFIt scans and main loop (`refit/main.c`, `refit/lib.c` 395-740) | list of volumes with boot code and icons, the entries of the main menu, paths to the legacy loader | `ScanVolumes`, `ScanLoader`, `ScanLegacy`, `ScanTool`, `StartLoader`, `StartLegacy` | everything above |
| strings, POSIX host, old ext2 driver, debug tools, Partition Inspector | | conversions, stand-alone utilities | |

What is hard in it. The program has one thread, and no interrupt handler touches
its state; what goes wrong in such code is the *order* and the *failure* of its
calls. Any block read and any allocation may fail between two steps, objects
are shared and counted by hand, positions and extents kept from one call are
used in a later one, callers retry, the user presses a key at any moment, and
the disk is changed by others between two runs. What makes each component
correct:

- Block cache: a block on loan is never evicted or overwritten; no failed read
  is ever delivered; levels and growth are as promised.
- Dnodes: the counts are exact on every error exit; one dnode per object;
  a path opens what it names although dnodes are shared; unmounting frees all.
- Handles: a read delivers the file whatever the handle remembers; a failed
  read can be repeated; blocks are given back.
- Driver binding: a driver takes its own media and no others, knows after mounting
  what the medium says, and gives everything back on every error exit.
- reiserfs tree: a search finds the item that covers a key and the step from item
  to item misses none, over leaves and levels, and leaves no block on loan.
- Directories: a listing is complete and in order, a lookup finds the first;
  positions never leave the record boundaries; listings end.
- Menus: the selection stays visible and the display says what the state says;
  the timeout starts only the default, and only if nobody pressed a key.
- Volumes and life cycle: rEFIt points to the files that are open and to no
  others; nothing is open while a program runs; the disks it uses are those the
  firmware has now.
- MBR activation: the active flags lead from the MBR to the partition that was
  chosen and to no other.
- Configuration: what the words of the file say is done, by the rules `refit.conf` states.
- Screen: no error is wiped away before it could be read; what the user sees is
  the menu, whatever mode and picture programs and messages left.
- Entries: every loader, boot sector and tool that is there and not disabled is
  offered once, under the pictures that belong to it.
- gptsync: exactly one partition is active; what could be booted still is; the
  result is valid and stable.

## 2. Modules

| Module | Models | Checked with | Proofs |
|---|---|---|---|
| `BlockStore` | abstract: blocks on loan show the disk's content | refined by `FswBlockCache` | |
| `FswBlockCache` | the block cache | `FswBlockCache.cfg` | `FswVolumeProofs` |
| `FswDnode` | dnodes, paths, symlinks, EFI handles | through `FswVolume` | `FswVolumeProofs` |
| `FswVolume` | extends `FswDnode`: the driver binding and the mounting of the three drivers, on media of all kinds | `MCFswVolume` | `FswVolumeProofs` |
| `FswReiserfsTree` | the search in a reiserfs tree and the step to the next item | through the two modules below | `FswReiserfsTreeProofs` |
| `FswFileRead` | extends `FswReiserfsTree`: `fsw_shandle_read`, `get_extent` of the three drivers, `fsw_efi_file_setpos` | `MCFswFileRead` | `FswFileReadProofs` |
| `FswDirRead` | extends `FswReiserfsTree`: listing and lookup from the iterator down to the records of the three drivers | `MCFswDirRead` | `FswDirReadProofs` |
| `MCReiserfsVolume` | a reiserfs tree of four levels, for the two runs that read it | | |
| `RefitMenu` | scrolling, keys, timeout, painting flags, the loops around them | `MCRefitMenu` | `RefitMenuProofs` |
| `GptSync` | gptsync, and what others do to the disk between its runs | `MCGptSync` | `GptSyncProofs` |
| `MbrChain` | the two walks along a chain of extended boot records | through `RefitVolumes` | |
| `RefitVolumes` | composes `MbrChain`: initialisation, drivers, scan, programs and legacy boots, the files around them | `MCRefitVolumes` | `RefitVolumesProofs` |
| `RefitConfig` | from the pieces of `refit.conf` to `GlobalConfig` (operators) | through `RefitBoot` | |
| `LibegImage` | decoding and composing of images (operators) | through `RefitBoot` | |
| `RefitScreen` | extends `RefitConfig`, uses `LibegImage`: the screen, and what the menus paint (operators) | through `RefitBoot` | |
| `RefitScan` | extends `RefitScreen`: volumes, boot code, icons and menu entries (operators) | through `RefitBoot` | |
| `RefitBoot` | extends `RefitScan`: `RefitMain` from the start to the main loop, programs and back | `MCRefitBoot` | `RefitBootProofs` |

How they correspond to the code:

**FswBlockCache.** `bcache` is the array, an action is a whole call of
`fsw_block_get` by its outcome (`GetHit`, `GetMiss`, `GetReadError`,
`GetBufferError`), `fsw_block_release` and `fsw_set_blocksize`. The linear
searches are minima over sets of slots. `FSW_INVALID_BNO` is `~0UL` and the field
has 32 bits, so where `long` is wider no entry compares equal to it:
`invalid_matches` lets both builds be checked. `loans` stands for the callers.
`BlockStore` says what they rely on; the mapping takes `lent[b]` from the pinned
entry of `b`.

**FswDnode.** `fsw_dnode_lookup_path`, `fsw_dnode_resolve` and `fsw_efi_dir_open`
are frames on an explicit `stack`, so that each fill, lookup and release is a
step of its own and may fail; `drop` is the dnode `fsw_dnode_release` works up
from. `files` are the EFI handles, `leaked` counts (as a ghost) the references
that nobody can release any more. The release of a chain of parents runs to its
end before anything else, as in the code.

**FswVolume.** `pc` is the place in `fsw_efi_DriverBinding_Start`, `fsw_mount`, the
driver's `volume_mount` or Stop. Each read of a block and each allocation is a
step that may fail. `vol` is the volume with the driver's part, `mem` counts what
is allocated of each kind, `diskio`, `installed` and `published` are what the
firmware sees. A medium is a map from positions in KiB to what a driver finds
there, so that a superblock is found again only at the block number times the
block size the driver has set. The labels and errors follow the code
(`fsw_efi_map_status`, `LastIOStatus`); `faulted` remembers, as a ghost, that
something failed. Clients act only on what is installed, with the actions of
`FswDnode`.

**FswReiserfsTree.** A search is a value `t` that its caller takes from block to
block with `TreeStep`; `Search`, the way down, the place in the leaf and the way up
and down again of `item_next` are its phases. The caller does the fetching, which
may fail, and keeps the block on loan.

**FswFileRead.** `call` is the read in progress and `walk` the `get_extent` in
progress: of ext2 the walk of the block pointers, of ISO 9660 one extent, of
reiserfs a search and the reading of direct items into a buffer. Each
`fsw_block_get` in it may fail. Position arithmetic is modulo `2^W`. `held` is the
block on loan, `buffers` counts those of extents. The cache is not composed in:
`BlockStore`, which it is proved to implement, says that a block got has the
disk's content.

**FswDirRead.** A directory of ext2 or ISO 9660 is a sequence of records whose
lengths are on the disk, one of reiserfs a run of entries in items of a tree. The
actions follow the drivers' `dir_read` and `dir_lookup` through header, name and
padding, `fsw_dnode_dir_read` restoring the position on failure,
`fsw_efi_dir_read` and `DirNextEntry` with its buffer that doubles. The
identifiers of ISO 9660 lose their version and an empty extension.

**RefitMenu.** `State` is `SCROLL_STATE`; `UpdateScroll` maps a state and a
movement to the next one. `shown` is what is on the display, written only
through the two paint flags. One action per path through the loop of
`RunGenericMenu`; `OpenSubScreen`, `BackToMain`, `Choose`, `AboutRefit`, `Reset` and
`ProgramReturns` are the loops around it.

**GptSync.** `gpt` and `mbr` are the tables on the disk; a run of the program goes
through `check`, `analyze`, `ask` and `write`. The composition (`Compose`, the
three rounds of `FixActive`) is a function of both tables. `Repartition`,
`ReplaceMbr` and rEFIt's `ActivateMbrPartition` change the disk between runs.
`mirrored` remembers, as a ghost, which GPT the MBR was last written for.

**MbrChain.** `disk` maps sectors to tables of four entries; `walk` is the walk in
progress of `ScanExtendedPartition` or `ActivateMbrPartition`, one step per EMBR,
and every read or write of a sector may fail (`ScanBreaks`, `ActivateFails`,
`ActivateEmbrFails`). Where the two functions share a rule (an entry that is
invalid, unused or a link ends the look at a table) the module has one operator;
where they differ (an invalid entry fails the activation and only ends the scan)
they differ here too. `ActivePartitions` is what boot code finds that follows the
flags: the active data entries of the sectors `Reached`, the smallest set that holds
the MBR and is closed under active links. It is external: nothing in the code computes it.

**RefitVolumes.** `pc` is the place in `RefitMain`, `vols` is `Volumes`, `self` holds
`SelfVolume`, `SelfRootDir` and `SelfDir`. A file handle is named by what opened
it: the volume, `OwnRoot`, `Dir` or `Iter`; `open` is the set of those that are
open, and so `SelfRootDir = SelfVolume->RootDir` is visible as two pointers to
one handle. `UninitRefitLib` and `ReinitRefitLib` are one step each; while a
program runs `ProgramWorks` changes the devices and the disk. Starting through
NULL is the state "crashed". A menu entry for a program or a volume may be chosen
at any time: which entries the menu offers is the subject of `RefitBoot`. The boot
sector of a partition is taken to hold no partition table.

**RefitConfig, LibegImage, RefitScreen, RefitScan.** Operators named for the
functions of the code, each giving the new value of the state the function
changes. A configuration file is a sequence of words and separators; an image is
a function from points to pixels, and files of images have blocks, runs and rows
as their formats do. A screen `scr` has two surfaces, of text and of graphics, that
keep what was painted where, the mode the firmware shows, the flags
(`GraphicsScreenDirty`, `haveError`) and, as ghosts, the errors that nobody has read and
those that were wiped away (`errors`, `lost`). Where a firmware has graphics but no
ConsoleControl both surfaces are one. `ScanVolume` is the first pass of `ScanVolumes` over a
device, `Related` and `LogicalVolumes` are the second over a volume; `LoadersOn`, `LegacyEntry`, `ToolEntries` and `FixedEntries` say what the menu
offers, and `RefitBoot` collects it. A directory that cannot be read to its end yields the
entries that came before (`Listed`), and a file of an image is decoded as the extension of its
name says, whatever is in it.

**RefitBoot.** `pc` is the place in `RefitMain`; one action per line of the
configuration, driver, device, volume and loader, one per image in memory that is
looked at for the legacy loader, one per way a call may fail, and one per path
through the main loop. `Places` are the device paths a legacy loader can have. `menu` is the menu on the screen. A program may
switch the mode and paint over everything before it returns (`ScreensAfter`). A
screenshot that succeeds changes nothing; one that fails prints a message over what is
on the console and leaves the firmware in text mode, which is an action. `RefitBoot` leaves to `RefitVolumes` the handles, the
volumes that change while programs run and the activation of partitions, and to
`RefitMenu` keys, scrolling and the timeout.

## 3. Runs

| Run | Distinct states | Question and answer |
|---|---|---|
| `block_cache` | 24452 | Three blocks, two sizes, three levels, failing reads and allocations. A block is cached once, the counts are the loans and the cache is coherent with the disk at every size (`CacheInv`), and it implements `BlockStore` (`ImplementsStore`). |
| `dnodes` | 410138 | Three drivers started and stopped on ten media, and opening, listing and closing on what they mount, anything failing at any point. A failed start leaves nothing behind (`StartedOrClean`), each driver takes its own media (`RecognisesItsOwn`) and knows them (`MountedAgreesWithDisk`); counts are exact (`RefcountsAreExact`), one dnode exists per id (`OneDnodePerId`), a path opens what it names, a symlink with several hard links being taken from one of its directories (`OpensWhatThePathNames`), unmounting frees all but what was lost (`UnmountFreesUnlessLost`), calls return (`CallsReturn`). |
| `file_read` | 53823 | Reads of several lengths and seeks on files of the three drivers, one of them longer than a position can say, any block failing. Reads that do not go past the last position deliver the file (`ReadsTheFile`), extents agree with the pointers (`ExtentIsTheMap`), a search in the tree finds what it is for (`FindsTheItem`), blocks and buffers are given back (`NothingStaysOnLoan`), reads return (`ReadsReturn`). |
| `reiser_holes` | violation | Is a hole of a reiserfs file read as zeros? No: finding 4. |
| `directories` | 56662 | Unused, cut and damaged records, several sectors, items and leaves, filters, patterns, retries. Listings of what fits the buffer are complete and in order (`ListingIsComplete`), lookups right (`LookupIsRight`), and they end (`ListingsEnd`). |
| `lost_entry` | violation | Is every entry shown? No: finding 1. |
| `menus` | 6735 | Any keys and pauses in four screens, two of which scroll. The selection is visible (`SelectionIsVisible`), the display says what the state says (`DisplayIsCurrent`), the timeout starts only the default and only if no key was pressed (`TimeoutStartsTheDefault`), and without a key it does (`UnattendedBoot`). |
| `gptsync` | 4288 | Ten GPTs and six MBRs, undetectable file systems, failing writes, activations by rEFIt, foreign tables. One partition is active (`OneIsActive`), the bootable one stays so (`KeepsTheActive`), the result is accepted by the program (`AcceptsItsOwn`) and not rewritten again (`Settles`). |
| `gptsync_overlap` | violation | Is the table it writes always valid? No: finding 2. |
| `volumes` | 280516 | Two devices, four volumes, five layouts of the MBR disk, any number of drivers, programs and legacy boots, lost devices, bad sectors. The handles rEFIt keeps are those that are open (`HandlesAreHeld`), none while a program runs (`ClosedWhileRunning`); disks are those of the firmware (`DisksFollowTheFirmware`), the active flags lead to the chosen partition (`ActiveLeadsToChosen`), walks end (`WalksEnd`). |
| `closed_twice` | violation | Is what is closed before a program open? No: finding 3. |
| `boot_entries` | 49162 | Sixteen computers. The configuration is what the file says, by the rules of `refit.conf` (`ConfigIsWhatTheFileSays`), errors can be read (`ErrorsAreSeen`), the menu is what is on the screen (`MenuIsShown`), pixel by pixel (`TilesShowTheirIcons`), with the right icons, badges and banner (`EveryEntryHasItsImage`); what can be booted is offered once (`MenuOffersWhatIsThere`, `BootableDiskIsOffered`), and the legacy loader is found wherever it may be (`LegacyLoaderIsFound`). |

Every property of a passing run is paired with a seeded fault, an operator named
in a "Seeded fault" comment next to the definition it stands in for, under which
TLC finds the property violated.

### Bounds

- `FswBlockCache`: `MaxTable = 4` with three blocks and `MaxLoans = 2` lets the
  table grow three times (1, 2, 4), and every combination of pinned and idle
  entries occur at each size; `MaxLevel = 2` gives a lowest, a middle and a top
  level, and requests above the top.
- `FswVolume`: six addresses for six objects and three handles: all objects can be
  in memory together, and two handles are open while the third is being opened.
  `MaxLeaks = 1` stops the clients after the first lost reference: the count of
  lost references would otherwise grow for ever. The media are ext2 of both
  revisions with one and several blocks of group descriptors and with a feature
  that is not supported, reiserfs at its two places, in two versions and being
  rebuilt, ISO 9660 with several primary descriptors, with a block size that is
  refused, with none and without an end; each driver is offered each of them.
- `FswFileRead`: two direct pointers and two per indirect block instead of 12 and
  256; every level of indirection, its first and last pointer, and the step from
  one level to the next are reached by a file of 12 blocks. `W = 7` stands for 32 bits;
  a reiserfs file is longer than the 128 positions, and reads of it wrap around. The reiserfs files lie in a tree of four levels, with items that end a leaf, a
  subtree and the tree.
- `FswDirRead`: `MaxTries = 1` instead of 4 gives first read, one retry and
  failure, in the passing run and in the violation.
- `RefitMenu`: windows of 5 and 6 lines (halves that round) over 8, 10 and 13
  entries: less than two windows and more, and one screen that shows everything.
  The countdown starts at 2 seconds of 2 ticks: each tick's place
  relative to a key is distinguishable.
- `GptSync`: the disk has 40 sectors below the limit. The tables cover an ESP that
  is first, last, doubled and absent, more partitions than slots, gaps, overlaps,
  refused kinds and a partition beyond the limit; the MBRs are empty, protective,
  Apple's with two active partitions, stale, 1:1, and with an extended one.
- `RefitVolumes`: one disk with one partition known to the firmware and up to two
  logical ones (`MaxVolumes = 4` is never reached before the chains end). The
  layouts are a chain of two EMBRs, one with an empty EMBR at each end, two
  extended partitions, an invalid entry behind a partition, and no table. Drivers
  and programs are not bounded. `ActiveLeadsToChosen` is stated for the usual
  layout (one extended entry, nothing behind an EMBR's link), for a disk that
  was not repartitioned since the scan, and for an entry that can be booted (not an
  extended one: `Bootable`, the TODO at `lib.c:723`); the other layouts are there for
  the other properties.
- `RefitBoot`: sixteen computers, chosen so that every kind of boot code, loader,
  tool, icon and volume, every command of the configuration, every format of
  image and every kind of console occurs, and those that interact occur together
  (whole disks beside their partitions, disabled kinds of disks, icons on volumes,
  broken files beside fallbacks). `Side` makes images a few pixels wide, enough for a
  run of each kind, a clipped edge and a centred badge. `MaxPaths = 4` instead of
  16 lets the list of paths overflow. Programs are not bounded.

### Fairness

Safety runs need none. Where something must eventually happen, the assumption is
weak fairness of the steps the processor takes once a call has been made
(`DriverStep \/ DnodeStep`, `ShandleRead`, `Step`, `Loop`, `Walk`): the code never blocks
inside a call, and no other thread can hold it up. Nothing is assumed of users,
clients and the disk: no call must be made, no key pressed, no read succeed. The
properties of calls say `[]<>(at rest)`: every call that begins comes to an end, by
whatever exit. `Loop` contains the ticks of the countdown but not the wait for a
key when there is no timeout. For the walks along the EMBRs fairness includes
giving up, but only where the code cannot go on: a walk through readable sectors
is not assumed to fail, so `WalksEnd` is not met by failures. Its disks have links
that lead forward; one that leads back is followed for ever by the code, as are
symlinks that lead to themselves.
`CHECK_DEADLOCK FALSE` is said for the menus, where `Reset` ends the program, for
`RefitVolumes`, where the machine is handed over, restarted or has crashed, and
for `RefitBoot`, where the computer is switched off.

## 4. Findings

1. `fsw/fsw_efi.c:1007`: an entry that does not fit the caller's buffer is passed
   over, although the caller is told to come back with a larger one, and does.
2. `gptsync/gptsync.c:333`: if the first GPT entry is the ESP but does not lie
   lowest on the disk, the protective entry of the new MBR covers other
   partitions; gptsync itself refuses the disk from then on.
3. `refit/lib.c:127`: after a program has returned, `SelfRootDir` and
   `SelfVolume->RootDir` are one handle, which `UninitVolumes` closes and
   `UninitRefitLib` closes again before the next program.
4. `fsw/fsw_reiserfs.c:373`: a zero pointer in an indirect item, a hole, is mapped to
   block 0 of the volume, whose contents the read delivers.

Met on the way, and without a run of their own:

- `fsw/fsw_core.c:591`: `fsw_dnode_lookup_path` returns past its `errorexit` when a
  path goes on below something that is no directory, and keeps a reference for
  ever; `fsw_dnode_create` (394-397) does so when memory for a name runs out. The
  model does both and counts them (`leaked`); `UnmountFreesUnlessLost` says that
  nothing else stays behind.
- `fsw/fsw_ext2.c:357`: the number of blocks of a file is computed with a mask
  instead of a division, so extents end early and consecutive blocks are read
  one by one. The data read is right all the same.
- `fsw/fsw_iso9660.c:390`: a record of length zero ends the listing and the lookup,
  also where ISO 9660 means the rest of the sector. `Reachable`, of which the
  properties of directories speak, ends there as well; the directory `cdtwo` of the
  instance goes on behind it.
- `fsw/fsw_core.c:859`: the position in a file is narrowed to 32 bits and written back to
  the handle so. A reiserfs file may be longer: a read that goes past 4 GiB delivers its
  beginning, and reading on never comes to its end. `ReadsTheFile` speaks of reads that
  do not go past the last position.
- `fsw/fsw_core.c:374` and 773: a symlink with hard links in several directories is one
  dnode, which keeps the directory it was first found in, and a relative target is
  resolved from there. `OpensWhatThePathNames` demands one of its directories;
  `/d/k` of the instance is a second name of the symlink `/l`.
- `refit/config.c:348`: an "internal" that stands before an "all" in what is disabled is taken back,
  although `refit.conf` (13-27) says to list what is to be hidden. `TakenBack` is the exception of
  `ConfigIsWhatTheFileSays`.
- `libeg/screen.c:246`, 263 and 271: the message about a screenshot that failed is printed
  onto the menu and, like the text mode it is left in, stays there until a menu is
  painted anew: the menu is asked to paint nothing (`menu.c:414`). It lies on a text menu, and
  where text and graphics share a surface on any. `MenuIsShown` and `TilesShowTheirIcons` except
  it (`MessageOnMenu`).
- `refit/config.c:72`: a configuration file whose information cannot be had is passed over
  without a message.
- `refit/screen.c`: `SetupScreen` clears the text console of a firmware that has graphics
  but no ConsoleControl, and with it an error about the configuration that has
  not been waited for. `ErrorsAreSeen` makes this one exception.

## 5. Proofs

The theorems hold for every value of the constants that meets the module's
`ASSUME`. Each safety theorem is proved from an inductive invariant, one lemma
or step per action.

- **`FswVolumeProofs`** (`DiskAssumption`; `BoundsAssumption`, which says that memory
  and handles are finite; `VolumeAssumption`; `MediaAssumption`: what the formats say
  is true of a medium), first of the dnodes alone and then of the composed module.
  `DnodeInv` adds to the types (`DnodeTypes`) that the
  live dnodes listed have distinct ids and that the frames and results refer to
  addresses. It is proved in two halves, one for the heap and one for the calls
  in progress; `IdsAreUnique` follows. `RefInv` adds to it the shape of the call
  stack (`CallShape`: which frame may stand on which, and what is handed back to it)
  and the balance (`Balanced`): the count of a dnode is the number of its children,
  of the handles on it, of the references the frames of a call hold at their
  place in the code, and of those that were lost. `RefcountsAreExact` is what is left
  of it between calls (`RefcountsExact`); alone it is not inductive, since a call in
  progress holds references nobody else knows of. `UnmountInv` adds that parents never
  lead in a circle (`Ranked`) and that handles are closed before an unmount. A
  dnode that remained without a reference lost would have a child that remains,
  of these the one ranked highest has none, so nothing remains (`UnmountFreesAll`).

  `VolumeUsesDnodes`: every behaviour of a driver that is started, mounted, used and
  stopped is, of the dnodes, one of `FswDnode`. Each step of the driver binding is a
  `Mount`, an `Unmount` or leaves the dnodes alone, and clients and calls are those of
  `FswDnode`. With it `IdsAreUnique`, `RefcountsExact` and `UnmountFreesAll` carry over to
  the composed module that the run checks. `VolumeInv` says what is allocated and
  what the firmware has been given at each `pc`, for each of the three drivers;
  `StartsOrCleansUp` follows where the `pc` is at rest. `MediumInv` says that at each
  place of a mount what has been read so far agrees with the medium, and that the
  cache mirrors the medium at the block size in force (`Mirrors`), whichever sizes it
  was read at before. From it a volume that is mounted has the medium's label, block size
  and inode places (`VolumeAgreesWithDisk`), and a start in which nothing failed ends as
  the medium deserves (`VolumeRecognisesItsOwn`).

  Last the block cache (assumption `CacheAssumption`). `CacheInv` is the
  inductive invariant: types, each block cached once, entries without a block
  idle, counts equal to loans, and valid entries coherent with the disk. None of
  the parts is inductive alone: an eviction is harmless only because an entry
  with count 0 has no loans, and a release decrements the right entry only
  because there is no second one. From it follow `PurgeOrder`,
  `TableGrowth` and the refinement `CacheImplementsStore`: each action maps to
  `Borrow`, `Return`, `Resize` or a stutter.
- **`FswReiserfsTreeProofs`** (`TreeAssumption`: blocks, keys and items are what they
  are; `SearchTreeAssumption`: keys ascend and divide what is below them): what the
  two readers of the tree need of it. On the way down of a search every item that it
  may be for lies below the block it goes to (`OnTrack`); in a leaf the result is the
  closest one. Of a step to the next item `WalkHolds` says that whatever is right of the
  path comes behind the item the walk started from, and everything else of the object
  before it; the walk up takes away from the right exactly what it enters on the way down
  (`EnterSplits`). Together: search and step end at the closest item, or find none and
  there is none (`WalkStepHolds`, `NextBegins`), in trees of any height and width.
- **`FswFileReadProofs`** (those of `FswReiserfsTreeProofs` and `FileAssumption`).
  `HandleInv` relates a read, the walk behind it and the block on loan: which
  block a walk has at which place, and none where there is no walk
  (`NothingStays`). `SearchInv` keeps `OnTrack` during each search for a part of the file, so
  that the search ends at the right item (`SearchFindsTheItem`). `PathInv` says that a walk of ext2 pointers has
  come to the block the file's own indices lead to (`Via`, `OnPath`); with it each
  extent a `get_extent` leaves behind agrees with the block map (`MapsTheFile`). The
  reference for ext2 is `BlockOfFile`, which looks a position up in single, double and
  triple indirection, and shares nothing with the walk. `ReadInv` says that what has
  been copied so far is the file's; a copy keeps that because the extent at hand is
  the map (`ReadsThroughTheMap`, `ReadsTheFileAsItIs`). The hypothesis `FileIsWhole` concerns
  reiserfs alone, where holes are not read as zeros (finding 4): without it the
  theorem is false, as the run `MCFswFileReadHoles` shows. What is assumed of the
  volume is what a sound one has: pointers to indirect blocks that exist, files
  no larger than three levels of indirection hold, and (but for reiserfs) than a position can
  say, a tree whose keys ascend and
  divide what is below them.
- **`FswDirReadProofs`** (those of `FswReiserfsTreeProofs` and `DirAssumption`: records
  cover a directory up to its end, the items of a directory in the tree divide its
  offsets). The three drivers are brought under one view (`View`): which entries can be
  reached, at what places, which of them are shown and at which positions a handle can
  stand. `DirInv` says of a call in progress that nothing it could end with lies before
  the place it has come to (`NotPast`): at a record's header and at its name
  (`AtHeader`, `AtName`), and between items, where the entries of all items up to the one
  at hand are unwanted (`AtItems`); the entry it ends at is the first wanted, and
  the handle is left between it and the others (`AtEntry`). Of the iterator it says
  that it has shown exactly what the handle has passed (`ListHolds`), but for the entry
  that is on its way from the driver to the caller. `ListingIsComplete` (`DirListsAll`)
  and `LookupIsRight` (`DirLookupIsRight`) are what remains of it when a call is over;
  neither is inductive, since both only speak of results. Entries whose information
  does not fit the first buffer are not promised (finding 1).
- **`RefitMenuProofs`** (`MenuAssumption`, which includes that a text console has
  at least five lines for entries). `MenuInv` consists of the types, the window
  (`ScrollInv`), what remains to be painted (`PaintInv`: between a key and the
  painting the display differs from the state at most by what the flags say), and
  the history of the countdown (`TimeoutInv`: as long as a timeout is running, no key
  has been pressed and the selection is still the default). All safety
  properties of the run are proved from it, for any number of entries and lines,
  as are the types (`MenusTypeOK`), that a chosen entry exists
  (`MenusChosenIsAnEntry`), and that the page keys move when they can (`MenusKeysMove`).
- **`GptSyncProofs`** (`GptSyncAssumption`). `ActiveInv` says what each stage relies
  on: a table that was accepted has a partition besides a leading ESP, hence the
  proposal has at least two entries, hence the third round of the fix always
  finds one to activate. `GptSyncOneIsActive` follows for the proposal, for the
  disk after the write and across rEFIt's activations. A GPT with nothing but an
  ESP would break it: `check_gpt`'s demand for a data partition is what it rests on.
  `TablesInv` says that what is in memory was read from the disk, and that a mirrored
  MBR is what the program composed from the two tables (`OnDisk`), but for the flag that
  rEFIt moves. Read back (`ReadsWhatWasWritten`) its entries are the GPT's, in order:
  they do not overlap and none is extended (`GptSyncAcceptsItsOwn`), and `analyze` finds
  them synchronized (`GptSyncSettles`). `GptSyncKeepsTheActive` follows from the fix,
  which clears only flags after the first.
- **`RefitVolumesProofs`** (`DisksAssumption`, `VolumesAssumption`). `IInv` adds to
  types and `HandlesAreHeld` what each phase has open (`Phases`): nothing before
  initialisation, only a driver directory while a program runs, and a walk only
  during the scan or a legacy boot. Without it `HandlesAreHeld` is not inductive:
  a program's return opens the volumes again, which keeps `open` equal to what is
  pointed to only because nothing was open. `ClosedWhileRunning` follows from both.
  `RefitVolumesDisksFollow` needs `PlacesInv` besides: each volume's disk is the one
  that lies where its device path says (`Placed`), the entry of a scan in progress
  included, and outside of a program's run nothing has moved.
  `RefitVolumesActiveLeads` rests on two more. `LocatedInv`: every volume has the number and
  the start of an entry (`IsEntry`) at a station, a sector with the number its first
  partition gets, to which the chain of the scanned disk leads (`Leads`).
  `ActivationInv`: a walk that activates is at a station from which the chain leads on to
  the chosen one, and the sectors behind it are a `Trail`, each with nothing but its
  link active. A walk does not carry its history, so both are stated by closed sets
  instead of paths; no induction over the length of a chain is needed, and the
  theorem holds even of a chain that leads in a circle.
- **`RefitBootProofs`** (`BootAssumption`: what a computer is, and room for one place
  at least; `ImagesAssumption`: sizes are positive and the big tile is the bigger one, the
  images in the program are images, and a decoder answers a file of the computer with
  nothing or with an image of the kind asked for). `BootInv` has three parts. `ScreenHolds`: while there is an error that
  nobody has read, `haveError` says so (`Noted`), hence what clears the screen has
  waited before; only the message about the configuration is lost, and only where text
  and graphics share a surface (`BootErrorsAreSeen`). Up to the first menu the screen is
  clear but for its banner, or `GraphicsScreenDirty` says that it is not (`Ready`): no
  painting function looks at the screen, so the flag is all that keeps a program's
  picture or a driver's message from shining through. The colour behind the banner
  goes with the banner (`BannerHolds`). `MenuHolds`: what was painted is the menu with
  its current selection (`Shows`), but for a message about a screenshot over it. A
  key repaints two entries, and that this gives
  what painting all of them would (`Repainted`) holds because the two cover
  everything in which the old picture differs (`Covers`). `EntriesHold`: no menu is
  empty, and so there is an entry to select. Without the first part the second is not
  inductive, since a menu is painted over what is there. `BootMenuIsShown` has the hypothesis
  `BannerIsRead`, that the banner in memory is the one its file shows: decoding is a fold
  over the bytes of a file, and the run checks it (in `EveryEntryHasItsImage`).
  `BootFindsLegacyLoader` needs an invariant of its own (`LegacyInv`): after each image the list
  has each place seen so far once, all of them or as many as there is room for
  (`Discovering`). The known places then follow as far as there is room (`Finds`), and none of
  those discovered is lost to them. `BootTilesShowTheirIcons` takes two more. `ListsInv`: every
  entry has an icon, unless rEFIt shows text only, and a badge or none, and so have the
  volumes they are made from (`VolumePictured`); while loaders are added, the volume they are
  on has files (`TodoFits`). `TilesInv`: the tiles are made when the main menu is first painted
  in graphics, in their sizes, and are kept by everything that comes after. What
  is painted is then known from `Shows`, and the arithmetic of pixels gives the rest: where
  an icon that is too large is cut off (`ComposeIs`, `MiddleIs`), where a badge has room
  (`WithBadgeIs`), and that the rounding of `egRawCompose`, by shifts and in a byte, is that to
  the nearest number for all channels (`Rounded`).

Only model-checked:

- liveness (`CallsReturn`, `ReadsReturn`, `ListingsEnd`, `UnattendedBoot`, `WalksEnd`), which
  the prover does not reach;
- `OpensWhatThePathNames`, whose reference definition is recursive;
- `ConfigIsWhatTheFileSays`, `EveryEntryHasItsImage`, `MenuOffersWhatIsThere` and
  `BootableDiskIsOffered`: they compare what is folded over the
  words of a file, the runs of an image or the filtered sequence of volumes with a
  definition of another kind, which takes induction over the data;
- that the banner is the one its file shows (`BannerIsRead`), and that decoders give images
  (`Decodes` in `ImagesAssumption`, which TLC evaluates for every file of the instance), for
  the same reason.

## 6. Not modelled, and why

- Encodings of strings (`fsw_lib.c`, the generated `fsw_strfunc.h`): names are values;
  their comparison is theirs. Splitting and copying are in `FswDnode` and `FswVolume`.
- Times, attributes, free space and names for display: conversions without state.
- Symlink loops: the code follows them without a limit, and promises nothing.
- Stopping a driver while files are open: the firmware asks for it only when
  nobody uses the device.
- The POSIX host (a test environment) and the old `fs_ext2` driver (not shipped).
- Of `refit.conf`, more than 64 KB and characters beyond ASCII, in which the encodings differ
  (`ReadLine` copies UTF-8 byte by byte, `config.c:158`). An encoding is looked for in files of four bytes
  or more (`config.c:101`), which are those that have anything behind a mark (`Marked`).
- Memory that runs out for the structure of a volume or of a file handle: the drivers write to
  what `AllocateZeroPool` returns without a look at it (`fsw_efi.c:283`, 682).
- Of images, files that are cut off or whose runs do not fit, blocks whose length is 0, which
  are followed for ever, or less than 8 (`load_icns.c:123`), and bitmaps of 4 bits per pixel and a width
  of 1, for which the loop wraps (`load_bmp.c:160`); of libeg, text
  rendering and the encoder. Positions on the screen are names, not pixels.
- In `RefitBoot`, that a driver does more than print, the connecting of controllers
  to drivers, and the hint in NVRAM for the firmware.
- The stand-alone debug tools and Partition Inspector.
- In gptsync: the signatures of file systems (their result is a parameter), boot
  code, CHS fields, printing. Sizes beyond 2 TiB are modelled, but the properties
  assume a disk within the limit, beyond which the program only warns.
- Another program at work on the disk while gptsync waits for an answer.

## 7. Plan

The plan is carried out: what is modelled and not proved is listed above as
only model-checked. What could follow is a model of what section 6 leaves out: image
files that are cut off, directories that go on behind a record of length zero, and
deep chains of symlinks.
