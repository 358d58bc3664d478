------------------------------ MODULE RefitScan ------------------------------
(***************************************************************************)
(* What rEFIt makes of the devices it finds: volumes with their boot code    *)
(* (refit/lib.c), icons (refit/icns.c) and an entry of the main menu for each *)
(* loader, boot sector and tool (refit/main.c).                              *)
(***************************************************************************)
EXTENDS RefitScreen

VARIABLE vols       \* Volumes

------------------------------------------------------------------------------
(* Icons *)

(* DummyImage: a black square with a pattern of stripes in its middle            *)
Stripes(side, from) ==
    LET mark(p) == IF (p[1] + p[2]) % 2 = 0 THEN BlackPixel ELSE [BlackPixel EXCEPT !.r = 255, !.g = 255]
    IN  [CreateFilledImage(side, side, TRUE, BlackPixel) EXCEPT !.PixelData =
            [p \in DOMAIN @ |-> IF <<p[1] - from, p[2] - from>> \in Points(Side[32], Side[32])
                                THEN [mark(p) EXCEPT !.a = 144] ELSE @[p]]]

DummyImage == [size \in {128, 48, 32} |-> Stripes(Side[size], Middle(Side[size], Side[32]))]

(* The files an icon may come from, in the order they are tried; the names are  *)
(* the entries of OSIconName.                                                   *)
OSIconFiles(names, fallback, logo) ==
    LET kind == IF logo THEN "boot_" ELSE "os_"
    IN  [i \in DOMAIN names |-> kind \o names[i]] \o <<kind \o fallback>>
            \o (IF logo THEN <<"os_" \o fallback>> ELSE <<>>)

OrDummy(image, size) == IF image = NULL THEN DummyImage[size] ELSE image

FirstIcon(tried) ==
    LET found == {i \in DOMAIN tried : LoadIcon(tried[i], 128) # NULL}
    IN  IF found = {} THEN NULL ELSE LoadIcon(tried[Min(found)], 128)

LoadOSIcon(names, fallback, logo) ==
    IF config.TextOnly THEN NULL ELSE OrDummy(FirstIcon(OSIconFiles(names, fallback, logo)), 128)

(* LoadIcns, of a file whose contents are data                                  *)
LoadIcns(data, size) == IF config.TextOnly THEN NULL ELSE DecodeAny(data, size, TRUE)

(* LoadIcnsFallback: of a file in rEFIt's directory                              *)
BuiltinIcon(name, size) ==
    IF config.TextOnly THEN NULL ELSE OrDummy(LoadIcon(name, size), size)

------------------------------------------------------------------------------
(* What is on a volume *)

(* The boot code that is recognised, in the order it is looked for              *)
BootCodes ==
    << [marks |-> {"LILO", "SYSLINUX", "ISOLINUX"}, name |-> "Linux", letter |-> "L", icons |-> <<"linux">>],
       [marks |-> {"GRUB"}, name |-> "Linux", letter |-> "L", icons |-> <<"grub", "linux">>],
       [marks |-> {"FreeBSD magic", "BTX loader"}, name |-> "FreeBSD", letter |-> NULL, icons |-> <<"freebsd">>],
       [marks |-> {"!Loading", "/cdboot"}, name |-> "OpenBSD", letter |-> NULL, icons |-> <<"openbsd">>],
       [marks |-> {"bootxx", "NetBSD magic"}, name |-> "NetBSD", letter |-> NULL, icons |-> <<"netbsd">>],
       [marks |-> {"NTLDR"}, name |-> "Windows", letter |-> "W", icons |-> <<"win">>],
       [marks |-> {"BOOTMGR"}, name |-> "Windows", letter |-> "W", icons |-> <<"winvista", "win">>],
       [marks |-> {"CPUBOOT SYS", "KERNEL SYS"}, name |-> "FreeDOS", letter |-> NULL, icons |-> <<"freedos">>],
       [marks |-> {"OS2LDR", "OS2BOOT"}, name |-> "eComStation", letter |-> NULL, icons |-> <<"ecomstation">>],
       [marks |-> {"Be Boot Loader"}, name |-> "BeOS", letter |-> NULL, icons |-> <<"beos">>],
       [marks |-> {"yT Boot Loader"}, name |-> "ZETA", letter |-> NULL, icons |-> <<"zeta", "beos">>],
       [marks |-> {"zbeos", "haiku_loader"}, name |-> "Haiku", letter |-> NULL, icons |-> <<"haiku", "beos">>] >>

UnknownOS == [marks |-> {}, name |-> NULL, letter |-> NULL, icons |-> <<>>]

NoBootcode == [code |-> FALSE, bootable |-> FALSE, os |-> UnknownOS, table |-> <<>>]

(* Of a boot sector: whether it has code, whether it is certain to boot, the     *)
(* system it boots, and its partition table if every flag in it makes sense.    *)
ScanVolumeBootcode(block, sector) ==
    LET known == {i \in DOMAIN BootCodes : BootCodes[i].marks \intersect sector.marks # {}}
        signed == sector.magic /\ sector.jump
        sound == /\ sector.magic
                 /\ \E i \in DOMAIN sector.table : sector.table[i].used
                 /\ \A i \in DOMAIN sector.table : sector.table[i].flags \in {0, 128}
    IN  IF sector = NULL \/ block > 2048 THEN NoBootcode
        ELSE [code |-> (signed \/ known # {}) /\ "Non-system disk" \notin sector.marks,
              bootable |-> signed,
              os |-> IF known = {} THEN UnknownOS ELSE BootCodes[Min(known)],
              table |-> IF sound THEN sector.table ELSE <<>>]

External  == {"usb", "usb class", "1394", "fibre channel"}
Messaging == External \union {"atapi", "scsi"}

Blocks(disk) == M.devices[CHOOSE d \in DOMAIN M.devices : M.devices[d].id = disk].block

(* What the device path says of a volume, node by node: its kind, whether it is  *)
(* certain to boot, whether it is an alias, and the disk it is on.               *)
PathNode(at, node) ==
    LET located == node.kind \in Messaging /\ node.disk # NULL
        kind == IF located /\ Blocks(node.disk) = 2048 THEN "optical"
                ELSE IF node.kind \in External THEN "external"
                ELSE IF node.kind = "cdrom" THEN "optical" ELSE at.kind
    IN  [kind |-> kind, bootable |-> (at.bootable \/ node.kind = "cdrom") /\ node.kind # "vendor",
         alias |-> at.alias \/ node.kind = "vendor",
         whole |-> IF located THEN node.disk ELSE at.whole]

AlongPath(device, bootable) ==
    FoldLeft(PathNode, [kind |-> IF device.block = 2048 THEN "optical" ELSE "internal",
                        bootable |-> bootable, alias |-> FALSE, whole |-> NULL], device.path)

DefaultBadge(kind) ==
    BuiltinIcon(CASE kind = "internal" -> "vol_internal" [] kind = "external" -> "vol_external"
                  [] OTHER -> "vol_optical", 32)

(* A volume: its device and the disk it is on, where it starts, what kind of     *)
(* disk that is, its boot code, its files.                                      *)
Volume(device, boot, at) ==
    [device |-> device.id, io |-> device.id, start |-> 0, whole |-> at.whole, kind |-> at.kind,
     code |-> boot.code /\ at.bootable, os |-> boot.os, table |-> boot.table,
     alias |-> at.alias, mbr |-> FALSE, files |-> device.files,
     name |-> IF device.files = NULL THEN NULL ELSE device.label,
     badge |-> IF device.files = NULL \/ device.icon = NULL THEN DefaultBadge(at.kind)
               ELSE LoadIcns(device.icon, 32)]

ScanVolume(device) ==
    LET boot == ScanVolumeBootcode(device.block, device.sector)
    IN  Volume(device, boot, AlongPath(device, boot.bootable))

(* ScanExtendedPartition: a logical partition is read through the disk.          *)
LogicalVolume(disk, boot, n) ==
    [device |-> NULL, io |-> disk.io, start |-> n, whole |-> disk.io, kind |-> disk.kind,
     code |-> boot.code /\ boot.bootable, os |-> boot.os, table |-> boot.table,
     alias |-> FALSE, mbr |-> TRUE, files |-> NULL, name |-> "logical partition",
     badge |-> DefaultBadge(disk.kind)]

IsWholeDisk(v) == v.io = v.whole /\ v.start = 0

(* The partitions in the extended ones of a whole disk                           *)
LogicalVolumes(v) ==
    LET sectors == M.devices[v].logical
    IN  IF v \in DOMAIN M.devices /\ IsWholeDisk(vols[v])
              /\ \E i \in DOMAIN vols[v].table : vols[v].table[i].extended
        THEN [n \in DOMAIN sectors |-> LogicalVolume(vols[v], ScanVolumeBootcode(512, sectors[n]), n)]
        ELSE <<>>

(* A volume that is found to be a partition of its disk; the outcome where         *)
(* sectors are compared is given by the device.                                  *)
Related(v) ==
    LET partition == M.devices[v].partition
    IN  IF v \notin DOMAIN M.devices \/ partition = NULL THEN vols[v]
        ELSE [vols[v] EXCEPT !.mbr = TRUE, !.name = IF @ = NULL THEN partition ELSE @]

------------------------------------------------------------------------------
(* The entries of the main menu *)

Entry(tag, title) ==
    [tag |-> tag, title |-> title, row |-> 0, letter |-> NULL, digit |-> NULL, image |-> NULL,
     badge |-> NULL, volume |-> 0, path |-> NULL, graphics |-> FALSE, options |-> NULL, sub |-> NULL]

Return == Entry("return", "Return to Main Menu")

Tool(title, letter, path, image) ==
    [Entry("tool", "Start " \o title) EXCEPT !.row = 1, !.letter = letter, !.path = path, !.image = image]

Fixed(tag, title, letter, icon) ==
    [Entry(tag, title) EXCEPT !.row = 1, !.letter = letter, !.image = BuiltinIcon(icon, 48)]

(* The badge of an entry for a volume                                            *)
Badge(v) ==
    IF config.HideBadges = 0 \/ (config.HideBadges = 1 /\ vols[v].kind # "internal")
    THEN vols[v].badge ELSE NULL

Path(f) == (IF f.dir = "" THEN "" ELSE f.dir \o "/") \o f.base \o "." \o f.ext

FilesAs(v, dir, base, ext) ==
    {i \in DOMAIN vols[v].files : LET f == vols[v].files[i]
                                  IN  f.dir = dir /\ f.base = base /\ f.ext = ext}

FileExists(v, dir, base, ext) == FilesAs(v, dir, base, ext) # {}

CoreServices == "System/Library/CoreServices"

(* What a loader is taken for, by its path or its name                           *)
LoaderKind(f) ==
    CASE f.dir = CoreServices /\ f.base = "boot" ->
            [name |-> "mac", icons |-> <<"mac">>, letter |-> "M", graphics |-> TRUE]
      [] f.base = "diags" ->
            [name |-> "diags", icons |-> <<"hwtest">>, letter |-> NULL, graphics |-> FALSE]
      [] f.base \in {"e", "elilo"} ->
            [name |-> "elilo", icons |-> <<"elilo", "linux">>, letter |-> "L", graphics |-> FALSE]
      [] f.base \in {"cdboot", "bootmgr", "bootmgfw"} ->
            [name |-> "win", icons |-> <<"win">>, letter |-> "W", graphics |-> FALSE]
      [] f.base = "xom" ->
            [name |-> "xom", icons |-> <<"xom", "win">>, letter |-> "W", graphics |-> TRUE]
      [] OTHER ->
            [name |-> NULL, icons |-> <<>>, letter |-> NULL, graphics |-> FALSE]

When(condition, list) == IF condition THEN list ELSE <<>>

(* The entries of the submenus, after the first; each is an option of start      *)
Option(start, title, options, graphics) ==
    [start EXCEPT !.title = title, !.options = options, !.graphics = graphics]

(* Seeded fault: single user mode is offered though it is disabled.              *)
MacOptionsAll(start, v) ==
    <<Option(start, "Boot Mac OS X in verbose mode", "-v", FALSE),
      Option(start, "Boot Mac OS X in single user mode", "-v -s", FALSE)>>

MacOptions(start, v) ==
    When(M.x64, <<Option(start, "Boot Mac OS X with a 64-bit kernel", "arch=x86_64", start.graphics),
                  Option(start, "Boot Mac OS X with a 32-bit kernel", "arch=i386", start.graphics)>>)
    \o When("singleuser" \notin config.DisableFlags,
            <<Option(start, "Boot Mac OS X in verbose mode", "-v", FALSE)>>
            \o When(M.x64,
                    <<Option(start, "Boot Mac OS X in verbose mode (64-bit)", "-v arch=x86_64", FALSE),
                      Option(start, "Boot Mac OS X in verbose mode (32-bit)", "-v arch=i386", FALSE)>>)
            \o <<Option(start, "Boot Mac OS X in single user mode", "-v -s", FALSE)>>)
    \o When(/\ FileExists(v, CoreServices \o "/.diagnostics", "diags", "efi")
            /\ "hwtest" \notin config.DisableFlags,
            <<[Option(start, "Run Apple Hardware Test", NULL, TRUE)
                  EXCEPT !.path = CoreServices \o "/.diagnostics/diags.efi"]>>)

EliloOptions(start, name) ==
    <<Option(start, "Run " \o name \o " in interactive mode", "-p", start.graphics),
      Option(start, "Boot Linux for a 17-inch iMac or a 15-inch MacBook Pro (*)", "-d 0 i17", TRUE),
      Option(start, "Boot Linux for a 20-inch iMac (*)", "-d 0 i20", TRUE),
      Option(start, "Boot Linux for a Mac Mini (*)", "-d 0 mini", TRUE)>>

XomOptions(start, name) ==
    <<Option(start, "Boot Windows from Hard Disk", "-s -h", start.graphics),
      Option(start, "Boot Windows from CD-ROM", "-s -c", start.graphics),
      Option(start, "Run " \o name \o " in text mode", "-v", FALSE)>>

(* The icon beside a program, if there is one                                    *)
OwnIcon(v, beside) == IF beside = {} THEN NULL ELSE LoadIcns(vols[v].files[Min(beside)].data, 128)

EntryFor(f, kind, title, v, image) ==
    LET name   == f.base \o ".efi"
        start  == [Entry("loader", IF kind.name = "mac" THEN "Boot Mac OS X" ELSE "Run " \o name)
                      EXCEPT !.volume = v, !.path = Path(f), !.graphics = kind.graphics]
        others == CASE kind.name = "mac"   -> MacOptions(start, v)
                    [] kind.name = "elilo" -> EliloOptions(start, name)
                    [] kind.name = "xom"   -> XomOptions(start, name)
                    [] OTHER               -> <<>>
        sub    == [title |-> "Boot Options for " \o (IF title = NULL THEN name ELSE title)
                                \o " on " \o vols[v].name,
                   image |-> image,
                   info |-> When(kind.name = "elilo", <<"NOTE: This is an example. Entries",
                                                        "marked with (*) may not work.">>),
                   entries |-> <<start>> \o others \o <<Return>>]
    IN  [start EXCEPT !.title = "Boot " \o (IF title = NULL THEN Path(f) ELSE title)
                                    \o " from " \o vols[v].name,
                      !.badge = Badge(v), !.letter = kind.letter, !.image = image,
                      !.options = IF kind.name = "xom" THEN "-s -h" ELSE NULL,
                      !.sub = sub]

WithFallback(image, names) == IF image = NULL THEN LoadOSIcon(names, "unknown", FALSE) ELSE image

(* What is started: a file, and the title it is known by                         *)
Loader(f, title) == [file |-> f, title |-> title]

LoaderEntry(v, loader) ==
    LET f     == loader.file
        kind  == LoaderKind(f)
        image == WithFallback(OwnIcon(v, FilesAs(v, f.dir, f.base, "icns")), kind.icons)
    IN  EntryFor(f, kind, loader.title, v, image)

(* The volumes that are passed over                                              *)
Disabled(v) == vols[v].kind \in config.DisableFlags

Skipped == {"textmode", "ebounce", "graphicsconsole"}

(* What is read of a directory; one that is bad ends with an error after some      *)
(* entries, or before the first.                                                 *)
Listed(v, dir, list) ==
    LET bad == M.devices[v].bad
    IN  IF dir \in DOMAIN bad THEN SubSeq(list, 1, Min({bad[dir], Len(list)})) ELSE list

(* ScanLoaderDir: the programs in a directory, added while it is read            *)
ScanLoaderDir(v, dir) ==
    LET inside(f)  == f.dir = dir
        program(f) == f.ext = "efi" /\ ~f.dot /\ f.base \notin Skipped
        found == SelectSeq(Listed(v, dir, SelectSeq(vols[v].files, inside)), program)
    IN  [i \in DOMAIN found |-> Loader(found[i], NULL)]

(* The subdirectories of EFI that are looked into                                *)
EfiDirs(v) ==
    LET other(name) == name \notin {"tools", "refit", "refitl", "rescue", ".Trashes"}
        dirs == SelectSeq(Listed(v, "EFI", M.devices[v].efidirs), other)
    IN  [i \in DOMAIN dirs |-> "EFI/" \o dirs[i]]

KnownLoaders ==
    << [dir |-> CoreServices, base |-> "boot", title |-> "Mac OS X"],
       [dir |-> CoreServices, base |-> "xom", title |-> "Windows XP (XoM)"],
       [dir |-> "EFI/Microsoft/Boot", base |-> "bootmgfw", title |-> "Microsoft boot menu"] >>

LoadersOn(v) ==
    LET known(k) == LET found == FilesAs(v, k.dir, k.base, "efi")
                    IN  When(found # {}, <<Loader(vols[v].files[Min(found)], k.title)>>)
        dirs == <<"", "elilo", "boot">> \o EfiDirs(v)
    IN  FlattenSeq([i \in DOMAIN KnownLoaders |-> known(KnownLoaders[i])])
            \o FlattenSeq([i \in DOMAIN dirs |-> ScanLoaderDir(v, dirs[i])])

(* The directories of a volume that could not be listed to their end             *)
BadDirs(v) == DOMAIN M.devices[v].bad \intersect ({"", "elilo", "boot", "EFI"} \union ToSet(EfiDirs(v)))

LegacyEntry(v) ==
    LET volume == vols[v]
        image  == LoadOSIcon(volume.os.icons, "legacy", FALSE)
        title  == IF volume.os.name = NULL THEN "Legacy OS" ELSE volume.os.name
        name   == IF volume.name # NULL THEN volume.name
                  ELSE IF volume.kind = "optical" THEN "CD" ELSE "HD"
        start  == [Entry("legacy", "Boot " \o title) EXCEPT
                      !.volume = v,
                      !.options = CASE volume.kind = "optical"  -> "CD"
                                    [] volume.kind = "external" -> "USB"
                                    [] OTHER -> "HD"]
        sub    == [title |-> "Boot Options for " \o title \o " on " \o name, image |-> image,
                   info |-> <<>>, entries |-> <<start, Return>>]
    IN  [start EXCEPT !.title = "Boot " \o title \o " from " \o name,
                      !.letter = volume.os.letter, !.image = image,
                      !.badge = Badge(v), !.sub = sub]

(* Seeded fault: a disk hides itself.                                            *)
OthersFoundOrItself(v) == \E o \in DOMAIN vols : vols[o].code /\ vols[o].whole = vols[v].whole

(* Whether another volume on the same disk has boot code                         *)
OthersFound(v) ==
    \E o \in DOMAIN vols \ {v} : vols[o].code /\ vols[o].whole = vols[v].whole

(* An alias and boot code for a whole disk give way to what is on the disk.       *)
ShowLegacy(v) ==
    /\ ~Disabled(v)
    /\ vols[v].alias \/ vols[v].code
    /\ (vols[v].alias \/ (IsWholeDisk(vols[v]) /\ vols[v].os.name = NULL)) => ~OthersFound(v)

(* ScanTool: M.tools are the tools that are on the installation volume.           *)
ToolEntries ==
    LET shell == {"efi/refit/apps/shell.efi", "efi/tools/shell.efi"} \intersect M.tools
        path  == IF "efi/refit/apps/shell.efi" \in shell THEN "efi/refit/apps/shell.efi"
                 ELSE "efi/tools/shell.efi"
        rescue == Tool("Rescue Linux", NULL, "efi/rescue/elilo.efi", BuiltinIcon("tool_rescue", 48))
    IN  When("tools" \notin config.DisableFlags,
             When("shell" \notin config.DisableFlags /\ shell # {},
                  <<Tool("EFI Shell", "S", path, BuiltinIcon("tool_shell", 48))>>)
             \o When("efi/tools/gptsync.efi" \in M.tools,
                     <<Tool("Partitioning Tool", "P", "efi/tools/gptsync.efi", BuiltinIcon("tool_part", 48))>>)
             \o When(M.self /\ "efi/rescue/elilo.efi" \in M.tools,
                     <<[rescue EXCEPT !.options = M.screen]>>))

(* The functions that are always there; the last two even when they are hidden,   *)
(* if there is nothing else.                                                      *)
FixedEntries(list) ==
    When("funcs" \notin config.HideUIFlags, <<Fixed("about", "About rEFIt", "A", "func_about")>>)
    \o When("funcs" \notin config.HideUIFlags \/ list = <<>>,
            <<Fixed("shutdown", "Shut Down Computer", "U", "func_shutdown"),
              Fixed("reset", "Restart Computer", "R", "func_reset")>>)

Digits == <<"1", "2", "3", "4", "5", "6", "7", "8", "9">>

(* Digits for the first entries, up to the first that is not in the upper row     *)
WithDigits(list) ==
    [i \in DOMAIN list |->
        IF i <= 9 /\ \A k \in 1 .. i : list[k].row = 0
        THEN [list[i] EXCEPT !.digit = Digits[i]] ELSE list[i]]
================================================================================
