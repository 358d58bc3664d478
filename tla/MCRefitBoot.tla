----------------------------- MODULE MCRefitBoot -----------------------------
(***************************************************************************)
(* Computers, their disks and rEFIt's files for TLC. Images are a few pixels *)
(* wide; each image file says in `shows` what is to be seen in it, by the     *)
(* size of an icon, or 0 for a picture without an alpha channel: nothing if  *)
(* its name promises another form.                                          *)
(***************************************************************************)
EXTENDS RefitBoot

MCSide == 128 :> 2 @@ 48 :> 1 @@ 32 :> 1 @@ 16 :> 1 @@ 144 :> 4 @@ 64 :> 2 @@ 8 :> 0

------------------------------------------------------------------------------
(* Image files *)

Rgba(r, g, b, a) == [r |-> r, g |-> g, b |-> b, a |-> a]

(* A picture by its rows *)
Picture(alpha, rows) ==
    [Width |-> Len(rows[1]), Height |-> Len(rows), HasAlpha |-> alpha,
     PixelData |-> [p \in (0 .. Len(rows[1]) - 1) \X (0 .. Len(rows) - 1) |-> rows[p[2] + 1][p[1] + 1]]]

Sizes == {0, 128, 48, 32}

Shows(size, picture) == [s \in Sizes |-> IF s = size THEN picture ELSE NULL]

Icns(blocks, shows) == [ext |-> "icns", magic |-> "icns", blocks |-> blocks, shows |-> shows]

Data(type, bytes) == [type |-> type, data |-> bytes]

(* Compressed, with a mask; before it a block of that type with other pixels     *)
MacIcon == Icns(<<Data("it32", <<0, 0, 0, 0, 129, 9, 129, 9, 129, 9>>),
                  Data("t8mk", <<0, 85, 170, 255>>),
                  Data("it32", <<0, 0, 0, 0, 128, 10, 0, 200, 129, 20, 3, 1, 2, 3, 4>>)>>,
    Shows(128, Picture(TRUE, <<<<Rgba(10, 20, 1, 0), Rgba(10, 20, 2, 85)>>,
                               <<Rgba(10, 20, 3, 170), Rgba(200, 20, 4, 255)>>>>)))

(* Not compressed, without a mask; also to be had without an alpha channel      *)
WinIcon == Icns(<<Data("it32", <<0, 0, 0, 0, 1, 2, 3, 4, 5, 6, 7, 8, 9, 250, 251, 252>>)>>,
    LET shown(a) == Picture(a # 0, <<<<Rgba(1, 2, 3, a), Rgba(4, 5, 6, a)>>,
                                     <<Rgba(7, 8, 9, a), Rgba(250, 251, 252, a)>>>>)
    IN  [Shows(128, shown(255)) EXCEPT ![0] = shown(0)])

(* No big icon: the next name is tried. *)
SmallIcon == Icns(<<Data("ih32", <<30, 60, 90>>), Data("h8mk", <<128>>),
                    Data("il32", <<0, 255, 127>>), Data("l8mk", <<100>>)>>,
    [Shows(48, Picture(TRUE, <<<<Rgba(30, 60, 90, 128)>>>>)) EXCEPT
        ![32] = Picture(TRUE, <<<<Rgba(0, 255, 127, 100)>>>>)])

NoIcon == [Icns(<<>>, Shows(0, NULL)) EXCEPT !.magic = "other"]

Bmp(bits, height, colors, rows, picture(_)) ==
    [ext |-> "bmp", magic |-> "BM", CompressionType |-> 0, BitPerPixel |-> bits,
     PixelWidth |-> Len(rows[1]), PixelHeight |-> height, colors |-> colors, rows |-> rows,
     shows |-> [s \in Sizes |-> Picture(s # 0, picture(IF s = 0 THEN 0 ELSE 255))]]

(* A file with a name that does not tell its form                                *)
Misnamed(ext, file) == [file EXCEPT !.ext = ext, !.shows = [s \in Sizes |-> NULL]]

Rgb(r, g, b) == [r |-> r, g |-> g, b |-> b]

(* The last row comes first. *)
BannerBmp ==
    LET shown(a) == <<<<Rgba(8, 9, 7, a), Rgba(1, 1, 1, a)>>, <<Rgba(1, 1, 1, a), Rgba(8, 9, 7, a)>>>>
    IN  Bmp(8, 2, <<Rgb(1, 1, 1), Rgb(8, 9, 7)>>, <<<<0, 1>>, <<1, 0>>>>, shown)

(* The first row comes first; larger than its tile and smaller than the other.   *)
SelectionBmp ==
    LET shown(a) == <<<<Rgba(5, 5, 5, a), Rgba(6, 6, 6, a), Rgba(7, 7, 7, a)>>>>
    IN  Bmp(24, -1, <<>>, <<<<Rgb(5, 5, 5), Rgb(6, 6, 6), Rgb(7, 7, 7)>>>>, shown)

MCBannerImage ==
    [Width |-> 2, Height |-> 1, PixelMode |-> "color", CompressMode |-> "rle",
     Data |-> <<1, 50, 60, 1, 51, 61, 1, 52, 62>>,
     shows |-> Picture(FALSE, <<<<Rgba(50, 51, 52, 0), Rgba(60, 61, 62, 0)>>>>)]

MCSmallImage ==
    [Width |-> 2, Height |-> 2, PixelMode |-> "gray alpha", CompressMode |-> "none",
     Data |-> <<100, 110, 120, 130, 1, 2, 3, 4>>]

Icons == [name \in {"os_mac", "os_win", "boot_legacy", "os_legacy"} |->
             IF name = "os_mac" THEN MacIcon ELSE WinIcon]
         @@ [name \in {"os_linux", "os_elilo", "func_about", "vol_internal", "tool_shell"} |-> SmallIcon]
         @@ "func_reset" :> NoIcon
         @@ "vol_optical" :> Misnamed("icns", BannerBmp) @@ "func_shutdown" :> Misnamed("icns", SelectionBmp)
         @@ "banner.bmp" :> BannerBmp @@ "select.bmp" :> SelectionBmp @@ "banner.icns" :> WinIcon
         @@ "banner.jpg" :> Misnamed("jpg", BannerBmp) @@ "icon.bmp" :> Misnamed("bmp", WinIcon)

------------------------------------------------------------------------------
(* Devices *)

Sector(magic, jump, marks, table) == [magic |-> magic, jump |-> jump, marks |-> marks, table |-> table]

NoSector == Sector(FALSE, FALSE, {}, <<>>)

Used(flags, extended) == [used |-> TRUE, flags |-> flags, extended |-> extended]

Device(id, sector, path) ==
    [id |-> id, block |-> 512, sector |-> sector, path |-> path, files |-> NULL, label |-> NULL,
     icon |-> NULL, partition |-> NULL, logical |-> <<>>, efidirs |-> <<>>, bad |-> <<>>]

Node(kind, disk) == [kind |-> kind, disk |-> disk]

On(kind, disk) == <<Node("pci", NULL), Node(kind, disk)>>

With(device, label, files) == [device EXCEPT !.label = label, !.files = files]

Program(dir, base) == [dir |-> dir, dot |-> FALSE, base |-> base, ext |-> "efi", data |-> NULL]

IconOf(program, data) == [program EXCEPT !.ext = "icns", !.data = data]

At(device, partition) == [device EXCEPT !.partition = partition]

Optical(device) == [device EXCEPT !.block = 2048]

(* A Mac's disk, with Mac OS X and Linux                                         *)
MacDisk == Device("disk0", Sector(TRUE, FALSE, {}, <<Used(0, FALSE)>>), On("atapi", "disk0"))

Hd == <<Node("hd", NULL)>>

MacHD ==
    [With(Device("disk0s2", NoSector, On("atapi", "disk0") \o Hd), "Macintosh HD",
          <<Program(CoreServices, "boot"), Program(CoreServices \o "/.diagnostics", "diags"),
            Program("EFI/refit", "refit"), Program("EFI/ubuntu", "elilo"), Program("", "ebounce"),
            [Program("", "hidden") EXCEPT !.dot = TRUE]>>)
        EXCEPT !.efidirs = <<"refit", "ubuntu", ".Trashes">>]

(* Windows on it, seen as a partition and through Apple's alias for the disk       *)
Windows == At(Device("disk0s3", Sector(TRUE, TRUE, {"NTLDR"}, <<>>), On("atapi", "disk0") \o Hd), "Partition 3")
Alias(disk, bus, sector) == Device("alias", sector, On(bus, disk) \o <<Node("vendor", NULL)>>)
MbrWithCode(marks) == Sector(TRUE, TRUE, marks, <<Used(128, FALSE), Used(0, FALSE)>>)
BootCamp == <<[MacDisk EXCEPT !.sector = MbrWithCode({})], [MacHD EXCEPT !.icon = MacIcon],
              [Windows EXCEPT !.icon = SmallIcon], Alias("disk0", "atapi", MbrWithCode({}))>>

(* A disk with Linux in logical partitions, one of them without boot code          *)
LinuxDisk == [Device("disk1", Sector(TRUE, TRUE, {}, <<Used(0, TRUE), Used(128, FALSE)>>), On("scsi", "disk1"))
    EXCEPT !.logical = <<Sector(TRUE, TRUE, {"GRUB"}, <<>>), Sector(TRUE, TRUE, {}, <<>>), NoSector>>]

(* A partition table with a flag that is none                                      *)
OddDisk == [LinuxDisk EXCEPT !.sector.table = <<Used(0, TRUE), Used(1, FALSE)>>]

(* A CD and what is in it to boot, a USB stick with LILO and Apple's alias for it   *)
Cd == Optical(With(Device("cd", NoSector, On("atapi", "cd")), "Live", <<Program("boot", "bootmgr")>>))
ElTorito == Optical(Device("cdboot", Sector(FALSE, FALSE, {"ISOLINUX"}, <<>>),
                           On("atapi", "cd") \o <<Node("cdrom", NULL)>>))
Stick == <<Device("usb", MbrWithCode({"LILO"}), On("usb", "usb")), Alias("usb", "usb", MbrWithCode({"LILO"}))>>
NewStick == <<Device("usb", Sector(TRUE, FALSE, {}, <<Used(0, FALSE)>>), On("usb", "usb")),
              Alias("usb", "usb", Sector(TRUE, FALSE, {}, <<>>))>>

(* A floppy that says it is none, on a disk whose listing fails in places          *)
Floppy == With([Device("fd", Sector(TRUE, TRUE, {"Non-system disk"}, <<>>), On("usb class", "fd"))
                   EXCEPT !.bad = "boot" :> 0 @@ "EFI/grub" :> 2, !.efidirs = <<"grub", "tools">>, !.icon = NoIcon],
               "FLOPPY", <<Program("boot", "lost"), [Program("EFI/grub", "grub") EXCEPT !.ext = "cfg"],
                           Program("EFI/grub", "grub"), Program("EFI/grub", "late"), Program("", "shell"),
                           Program("EFI/tools", "shell")>>)
BadEfi == [MacHD EXCEPT !.bad = "EFI" :> 2, !.efidirs = Append(@, "late"), !.files = Append(@, Program("EFI/late", "late"))]

(* A volume with the loaders for Windows, their icons beside them, and no name      *)
Others == [Device("disk2", NoSector, On("fibre channel", "disk2"))
    EXCEPT !.files = <<Program(CoreServices, "xom"), IconOf(Program(CoreServices, "xom"), MacIcon),
                       Program("EFI/Microsoft/Boot", "bootmgfw"), Program("", "cdboot"),
                       IconOf(Program("", "cdboot"), NoIcon), Program("elilo", "e")>>]

Many == With(Device("disk3", NoSector, On("1394", "disk3")), "Many",
             [n \in 1 .. 10 |-> Program("", <<"a", "b", "c", "d", "f", "g", "h", "i", "j", "k">>[n])])

Unreachable == [Device("far", MbrWithCode({"BOOTMGR"}), <<Node("pci", NULL)>>) EXCEPT !.block = 4096]

------------------------------------------------------------------------------
(* Configuration files *)

File(text) == [text |-> text]

Lined(lines) == FlattenSeq([i \in DOMAIN lines |-> lines[i] \o <<"LF">>])

Mixed1 == File(Lined(<<
    <<"#", " ", "textonly">>, <<>>,
    <<"timeout", " ", "=", " ", "5", " ", "#", "2">>, <<"timeout", " ", "5", " ", "2">>,
    <<"TAB", "disable", " ", "singleuser", " ", "shell", "#", "tools">>,
    <<"hidebadges", " ", "internal">>, <<"hideui", " ", "label">>, <<"unknown">>,
    <<"banner", " ", "banner.jpg">>>>))

TextOnly == File(<<"BOM8">> \o Lined(<<<<"textonly">>, <<"default_selection", " ", "2">>>>) \o <<"timeout", " ", "2">>)

LegacyFirst == File(<<"BOM16", "legacyfirst", "CR", "LF", "CR", "LF", "disable", " ", "hwtest", "CR", "LF",
                      "banner", " ", "banner.icns", "CR", "default_selection", " ", "mac">>)

(* Three bytes, which are taken for the name of a command                          *)
OnlyMark == File(<<"BOM8">>)

OwnImages == File(Lined(<<<<"banner", " ", "banner.bmp">>, <<"selection_small", " ", "select.bmp">>,
                          <<"selection_big", " ", "select.bmp">>>>))

NoImages == File(Lined(<<<<"banner", " ", "missing.bmp">>, <<"selection_big", " ", "missing.bmp">>,
                         <<"hidebadges", " ", "1">>, <<"hideui", " ", "badges">>, <<"hidebadges", " ", "2">>>>))

NoBanner == File(Lined(<<<<"hideui", " ", "banner", " ", "hdbadges">>, <<"disableexternalboot">>,
                         <<"disable", " ", "internal", " ", "all">>>>))

Nothing == File(Lined(<<<<"disable", " ", "internal", " ", "tools", " ", "external">>, <<"disableopticalboot">>,
                        <<"hideui", " ", "funcs">>>>))

AllDisabled == File(<<"disable", " ", "all">>)

HideAll == File(Lined(<<<<"hideui", " ", "all">>, <<"hidebadges", " ", "all">>, <<"default_selection", " ", "linux">>,
                        <<"disable", " ", "optical">>, <<"selection_small", " ", "icon.bmp">>>>))

------------------------------------------------------------------------------
(* Computers *)

Mac == [graphics |-> TRUE, control |-> TRUE, mode |-> "text", x64 |-> FALSE, screen |-> "-d 0 mini",
        config |-> NULL, files |-> Icons, tools |-> {"efi/tools/shell.efi"}, drivers |-> 0,
        devices |-> <<MacDisk, MacHD>>, self |-> TRUE, ranges |-> <<NULL, "r1", "r1">>,
        loaderAt |-> {"r1"}]

Textual == [Mac EXCEPT !.graphics = FALSE, !.control = FALSE]

AllTools == {"efi/refit/apps/shell.efi", "efi/tools/shell.efi", "efi/tools/gptsync.efi", "efi/rescue/elilo.efi"}

MCHardcoded == <<"h1", "h2">>
MCPlaces == {"h1", "h2", "r1", "r2"}

MCMachines ==
    LET computers == <<
        [Mac EXCEPT !.devices = BootCamp, !.tools = AllTools, !.drivers = 1],
        [Mac EXCEPT !.x64 = TRUE, !.mode = "graphics", !.config = Mixed1],
        [Mac EXCEPT !.x64 = TRUE, !.config = TextOnly, !.mode = "graphics"],
        [Mac EXCEPT !.config = LegacyFirst, !.devices = <<LinuxDisk, MacDisk, MacHD>>, !.ranges = <<"r1", "r2", "r1">>],
        [Mac EXCEPT !.config = OwnImages, !.devices = <<Cd, ElTorito, Floppy>>, !.loaderAt = {"h2"}],
        [Mac EXCEPT !.config = NoImages, !.devices = <<OddDisk, Others>>, !.loaderAt = {}, !.tools = {}],
        [Mac EXCEPT !.config = NoBanner, !.devices = Stick \o <<MacDisk, MacHD>>],
        [Mac EXCEPT !.config = Nothing, !.devices = NewStick \o <<Cd>> \o <<MacDisk, BadEfi>>],
        [Mac EXCEPT !.config = HideAll, !.devices = <<Cd, ElTorito>> \o <<MacDisk, BadEfi>>, !.tools = AllTools],
        [Mac EXCEPT !.config = OnlyMark, !.devices = <<Many>>, !.files = <<>>, !.tools = AllTools, !.self = FALSE],
        [Mac EXCEPT !.devices = <<>>, !.tools = {}, !.control = FALSE, !.config = Nothing],
        [Mac EXCEPT !.control = FALSE, !.devices = Stick \o <<Floppy>>, !.drivers = 1, !.config = Mixed1],
        [Mac EXCEPT !.devices = NewStick \o <<At(Others, "Partition 1"), Unreachable>>, !.control = FALSE,
                    !.files = [f \in {"os_xom", "os_elilo", "os_win"} |-> WinIcon]],
        [Textual EXCEPT !.devices = BootCamp, !.config = LegacyFirst, !.drivers = 1],
        [Textual EXCEPT !.control = TRUE, !.mode = "graphics", !.devices = <<Cd, ElTorito, Floppy>>],
        [Mac EXCEPT !.devices = <<LinuxDisk>> \o NewStick, !.ranges = <<>>, !.loaderAt = {"h1"}, !.config = AllDisabled] >>
    IN  computers
================================================================================
