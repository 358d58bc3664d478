------------------------------ MODULE RefitBoot ------------------------------
(***************************************************************************)
(* rEFIt from its start to its main menu and back to it (refit/main.c): the  *)
(* screen and the configuration are set up, drivers started, volumes scanned *)
(* for what they can boot, and then the user starts one program after the    *)
(* other. The file handles, the partition table that is written and the hint *)
(* to the firmware are the subject of RefitVolumes, the keys, the timeout    *)
(* and the scrolling that of RefitMenu.                                      *)
(***************************************************************************)
EXTENDS RefitScan

CONSTANTS
    MaxPaths,       \* MAX_DISCOVERED_PATHS
    Places,         \* where a legacy loader can be: device paths
    Hardcoded       \* LegacyLoaderList: where known firmware has its legacy loader

ASSUME BootAssumption ==
    /\ MaxPaths \in Nat \ {0} /\ Hardcoded \in Seq(Places) /\ NULL \notin Places
    /\ \A m \in DOMAIN Machines :
          /\ Machines[m].graphics \in BOOLEAN /\ Machines[m].control \in BOOLEAN
          /\ Machines[m].ranges \in Seq(Places \union {NULL})
          /\ \A d \in DOMAIN Machines[m].devices :
                LET device == Machines[m].devices[d]
                IN  /\ device.logical \in Seq(ToSet(device.logical))
                    /\ device.files = NULL \/ device.files \in Seq(ToSet(device.files))

(* The pictures that rEFIt has in it, and what the decoders make of a file, or of    *)
(* nothing: an image whose channels are bytes, or none.                             *)
Decodes(file) ==
    \A size \in {128, 48, 32}, alpha \in BOOLEAN :
        DecodeAny(file, size, alpha) = NULL \/ IsImage(DecodeAny(file, size, alpha), alpha)

ASSUME ImagesAssumption ==
    /\ \A length \in {144, 128, 64, 48, 32} : Side[length] \in Nat \ {0}
    /\ Side[8] \in Nat /\ Side[64] <= Side[144]
    /\ EmbeddedSmall # NULL /\ IsImage(EmbeddedSmall, FALSE) /\ IsImage(EmbeddedBanner, FALSE)
    /\ \A m \in DOMAIN Machines :
          /\ \A name \in DOMAIN Machines[m].files : Decodes(Machines[m].files[name])
          /\ \A d \in DOMAIN Machines[m].devices :
                LET device == Machines[m].devices[d]
                IN  /\ device.icon # NULL => Decodes(device.icon)
                    /\ device.files # NULL =>
                           \A i \in DOMAIN device.files :
                               device.files[i].ext = "icns" => Decodes(device.files[i].data)

VARIABLES
    pc,         \* where RefitMain is
    todo,       \* what is still to be read of refit.conf, or the loaders still to be added
    next,       \* the next driver, device, volume or image
    entries,    \* the entries of MainMenu
    menu,       \* the menu on the screen, the entry it is about and its selection
    chosen,     \* the entry that was chosen, or NULL
    paths       \* DiscoveredPathList, and whether the firmware listed its images

scanVars   == <<config, todo, next, vols, entries>>
vars == <<machine, pc, scr, scanVars, menu, chosen, paths>>

NoPaths == [list |-> <<>>, listed |-> FALSE]

(* shot: whether a screenshot failed since the menu was painted                  *)
NoMenu == [name |-> NULL, of |-> 0, current |-> 1, shot |-> FALSE]

Init ==
    /\ machine \in DOMAIN Machines
    /\ pc = "start" /\ config = DefaultConfig /\ scr = FirstScreen(Machines[machine])
    /\ todo = <<>> /\ next = 1 /\ vols = <<>> /\ entries = <<>>
    /\ menu = NoMenu /\ chosen = NULL /\ paths = NoPaths

------------------------------------------------------------------------------
(* From the start to the main menu *)

Boot ==
    /\ pc = "start" /\ pc' = "config"
    /\ scr' = InitScreen(scr)
    /\ UNCHANGED <<machine, scanVars, menu, chosen, paths>>

(* InitRefitLib fails, and RefitMain returns.                                    *)
BootFails ==
    /\ pc = "start" /\ pc' = "off"
    /\ scr' = CheckError(InitScreen(scr), "while opening our installation directory")
    /\ UNCHANGED <<machine, scanVars, menu, chosen, paths>>

ReadConfig ==
    /\ pc = "config" /\ M.config # NULL
    /\ todo' = ReadFile(M.config)
    /\ pc' = "lines"
    /\ UNCHANGED <<machine, scr, config, next, vols, entries, menu, chosen, paths>>

NoConfig ==
    /\ pc = "config" /\ M.config = NULL
    /\ pc' = "setup"
    /\ UNCHANGED <<machine, scr, scanVars, menu, chosen, paths>>

(* The file cannot be opened or read; where LibFileInfo fails, there is no message. *)
ConfigFails ==
    /\ pc = "config" /\ M.config # NULL
    /\ \/ scr' = CheckError(scr, "while loading the configuration file")
       \/ UNCHANGED scr
    /\ pc' = "setup"
    /\ UNCHANGED <<machine, scanVars, menu, chosen, paths>>

(* One line; a line without tokens is passed over.                                *)
ReadConfigLine ==
    /\ pc = "lines" /\ todo # <<>>
    /\ todo' = AfterLine(todo)
    /\ LET tokens == Tokens(FirstLine(todo))
       IN  config' = IF tokens = <<>> THEN config ELSE Command(config, tokens)
    /\ UNCHANGED <<machine, pc, scr, next, vols, entries, menu, chosen, paths>>

ConfigDone ==
    /\ pc = "lines" /\ todo = <<>>
    /\ pc' = "setup"
    /\ UNCHANGED <<machine, scr, scanVars, menu, chosen, paths>>

SetUpScreen ==
    /\ pc = "setup" /\ pc' = "drivers"
    /\ scr' = SetupScreen(scr)
    /\ UNCHANGED <<machine, scanVars, menu, chosen, paths>>

(* The drivers of both directories; a driver may print, but does not paint.       *)
StartDriver ==
    /\ pc = "drivers" /\ next <= M.drivers
    /\ \/ UNCHANGED scr
       \/ scr' = CheckError(scr, "while loading or starting a driver")
    /\ next' = next + 1
    /\ UNCHANGED <<machine, pc, config, todo, vols, entries, menu, chosen, paths>>

(* The end of a directory of drivers, or an error in the listing                  *)
DriversDone ==
    /\ pc = "drivers" /\ next > M.drivers
    /\ pc' = "volumes" /\ next' = 1
    /\ \/ UNCHANGED scr
       \/ scr' = CheckError(scr, "while scanning the drivers directory")
    /\ UNCHANGED <<machine, config, todo, vols, entries, menu, chosen, paths>>

(* The first pass of ScanVolumes, one device at a time                            *)
ScanDevice ==
    /\ pc = "volumes" /\ next \in DOMAIN M.devices
    /\ vols' = Append(vols, ScanVolume(M.devices[next]))
    /\ next' = next + 1
    /\ UNCHANGED <<machine, pc, scr, config, todo, entries, menu, chosen, paths>>

ScanStep == <<"volumes">> \o (IF config.LegacyFirst THEN <<"legacy", "loaders">> ELSE <<"loaders", "legacy">>)
                \o <<"tools">>

After(step) == ScanStep[(CHOOSE i \in DOMAIN ScanStep : ScanStep[i] = step) + 1]

ScanVolumesFails ==
    /\ pc = "volumes" /\ next = 1
    /\ scr' = CheckError(scr, "while listing all file systems")
    /\ pc' = After("volumes")
    /\ UNCHANGED <<machine, scanVars, menu, chosen, paths>>

VolumesScanned ==
    /\ pc = "volumes" /\ next > Len(M.devices)
    /\ pc' = "relate" /\ next' = 1
    /\ UNCHANGED <<machine, scr, config, todo, vols, entries, menu, chosen, paths>>

(* The second pass, which also meets the logical partitions it has found          *)
RelateVolume ==
    /\ pc = "relate" /\ next \in DOMAIN vols
    /\ vols' = [vols EXCEPT ![next] = Related(next)] \o LogicalVolumes(next)
    /\ next' = next + 1
    /\ UNCHANGED <<machine, pc, scr, config, todo, entries, menu, chosen, paths>>

VolumesDone ==
    /\ pc = "relate" /\ next > Len(vols)
    /\ pc' = After("volumes") /\ next' = 1
    /\ UNCHANGED <<machine, scr, config, todo, vols, entries, menu, chosen, paths>>

(* ScanLoader, one volume at a time: what can be started there *)
ScanLoader ==
    /\ pc = "loaders" /\ todo = <<>> /\ next \in DOMAIN vols
    /\ LET skip == vols[next].files = NULL \/ vols[next].name = NULL \/ Disabled(next)
       IN  /\ todo' = IF skip THEN <<>> ELSE LoadersOn(next)
           /\ scr' = IF skip \/ BadDirs(next) = {} THEN scr
                     ELSE CheckError(scr, "while scanning a directory")
    /\ next' = next + 1
    /\ UNCHANGED <<machine, pc, config, vols, entries, menu, chosen, paths>>

AddLoader ==
    /\ pc = "loaders" /\ todo # <<>>
    /\ entries' = Append(entries, LoaderEntry(next - 1, Head(todo)))
    /\ todo' = Tail(todo)
    /\ UNCHANGED <<machine, pc, scr, config, next, vols, menu, chosen, paths>>

LoadersDone ==
    /\ pc = "loaders" /\ todo = <<>> /\ next > Len(vols)
    /\ pc' = After("loaders") /\ next' = 1
    /\ UNCHANGED <<machine, scr, config, todo, vols, entries, menu, chosen, paths>>

(* ScanLegacy, one volume at a time *)
ScanLegacy ==
    /\ pc = "legacy" /\ next \in DOMAIN vols
    /\ entries' = IF ShowLegacy(next) THEN Append(entries, LegacyEntry(next)) ELSE entries
    /\ next' = next + 1
    /\ UNCHANGED <<machine, pc, scr, config, todo, vols, menu, chosen, paths>>

LegacyDone ==
    /\ pc = "legacy" /\ next > Len(vols)
    /\ pc' = After("legacy") /\ next' = 1
    /\ UNCHANGED <<machine, scr, config, todo, vols, entries, menu, chosen, paths>>

------------------------------------------------------------------------------
(* The menus *)

MenuEntries(list) == [title |-> "Main Menu", image |-> NULL, info |-> <<>>, entries |-> list]

AboutMenu == [title |-> "About", image |-> BuiltinIcon("func_about", 48),
              info |-> <<"rEFIt Version 0.14">>, entries |-> <<Return>>]

Menu(m) == CASE m.name = "main"    -> MenuEntries(entries)
             [] m.name = "about"   -> AboutMenu
             [] m.name = "details" -> entries[m.of].sub

(* FindMenuShortcutEntry, for the first character of a word                       *)
Initial(word) == CASE word = "mac" -> "M" [] word = "linux" -> "L" [] OTHER -> word

DefaultEntry(list) ==
    LET found == {i \in DOMAIN list : Initial(config.DefaultSelection) \in {list[i].digit, list[i].letter}}
    IN  IF config.DefaultSelection = NULL \/ found = {} THEN 1 ELSE Min(found)

(* RunMainMenu up to its first key, on the screen s                               *)
RunMainMenu(s, list) ==
    /\ pc' = "menu"
    /\ menu' = [name |-> "main", of |-> 0, current |-> DefaultEntry(list), shot |-> FALSE]
    /\ scr' = ShowMenu(s, MenuEntries(list), TRUE, DefaultEntry(list))

RunMenu(name, of) ==
    /\ menu' = [name |-> name, of |-> of, current |-> 1, shot |-> FALSE]
    /\ scr' = ShowMenu(scr, Menu(menu'), FALSE, 1)

(* ScanTool, the other entries and the first time the main menu is shown          *)
WithFixed(list) == WithDigits(list \o FixedEntries(list))

ScanTool ==
    /\ pc = "tools"
    /\ entries' = WithFixed(entries \o ToolEntries)
    /\ RunMainMenu(FinishTextScreen(scr), entries')
    /\ UNCHANGED <<machine, config, todo, next, vols, chosen, paths>>

Current == Menu(menu).entries[menu.current]

Select ==
    /\ pc = "menu"
    /\ \E i \in DOMAIN Menu(menu).entries \ {menu.current} :
           /\ menu' = [menu EXCEPT !.current = i]
           /\ scr' = PaintSelection(scr, Menu(menu), menu.name = "main", menu.current, i)
    /\ UNCHANGED <<machine, pc, scanVars, chosen, paths>>

ScreenShot ==
    /\ pc = "menu" /\ M.graphics
    /\ scr' = ScreenShotFails(scr) /\ menu' = [menu EXCEPT !.shot = TRUE]
    /\ UNCHANGED <<machine, pc, scanVars, chosen, paths>>

(* From every menu back to the main menu, which is painted anew                   *)
Back ==
    /\ pc = "menu"
    /\ RunMainMenu(scr, entries)
    /\ UNCHANGED <<machine, scanVars, chosen, paths>>

Details ==
    /\ pc = "menu" /\ menu.name = "main" /\ Current.sub # NULL
    /\ RunMenu("details", menu.current)
    /\ UNCHANGED <<machine, pc, scanVars, chosen, paths>>

About ==
    /\ pc = "menu" /\ Current.tag = "about"
    /\ RunMenu("about", 0)
    /\ UNCHANGED <<machine, pc, scanVars, chosen, paths>>

Leave ==
    /\ pc = "menu" /\ Current.tag \in {"shutdown", "reset"}
    /\ scr' = TerminateScreen(scr)
    /\ pc' = "off" /\ menu' = NoMenu
    /\ UNCHANGED <<machine, scanVars, chosen, paths>>

------------------------------------------------------------------------------
(* Programs *)

StartLoader ==
    /\ pc = "menu" /\ Current.tag \in {"loader", "tool"}
    /\ chosen' = Current /\ menu' = NoMenu
    /\ scr' = BeginExternalScreen(scr, Current.graphics, Current.title)
    /\ pc' = "load"
    /\ UNCHANGED <<machine, scanVars, paths>>

(* Seeded fault: a range is listed once for each image in it.                     *)
DiscoveredAgain(list, range) ==
    IF range = NULL \/ Len(list) = MaxPaths - 1 THEN list ELSE Append(list, range)

Discovered(list, range) ==
    IF range = NULL \/ Len(list) = MaxPaths - 1 \/ range \in ToSet(list) THEN list
    ELSE Append(list, range)

ShowLogo(s, logo) ==
    IF logo = NULL THEN s ELSE BltImage(s, OnBackground(logo, StdBackgroundPixel), <<"logo", 0>>)

CheckListed(s, listed) == IF listed THEN s ELSE CheckError(s, "while listing LoadedImage handles")

StartLegacy ==
    /\ pc = "menu" /\ Current.tag = "legacy"
    /\ chosen' = Current /\ menu' = NoMenu
    /\ \E listed \in BOOLEAN :
           /\ scr' = CheckListed(ShowLogo(BeginExternalScreen(scr, TRUE, "Booting Legacy OS"),
                                          LoadOSIcon(vols[chosen'.volume].os.icons, "legacy", TRUE)),
                                 listed)
           /\ paths' = [list |-> <<>>, listed |-> listed]
    /\ pc' = "search" /\ next' = 1
    /\ UNCHANGED <<machine, config, todo, vols, entries>>

(* ExtractLegacyLoaderPaths, one loaded image at a time: M.ranges are the memory      *)
(* ranges they came from, NULL for others.                                         *)
SearchLoader ==
    /\ pc = "search" /\ paths.listed /\ next \in DOMAIN M.ranges
    /\ paths' = [paths EXCEPT !.list = Discovered(@, M.ranges[next])]
    /\ next' = next + 1
    /\ UNCHANGED <<machine, pc, scr, config, todo, vols, entries, menu, chosen>>

AddHardcoded ==
    /\ pc = "search" /\ (paths.listed => next > Len(M.ranges))
    /\ LET room == MaxPaths - 1 - Len(paths.list)
       IN  paths' = [paths EXCEPT !.list = @ \o SubSeq(Hardcoded, 1, Min({Len(Hardcoded), room}))]
    /\ pc' = "load"
    /\ UNCHANGED <<machine, scr, scanVars, menu, chosen>>

(* LoadImage finds a program from the menu, and the legacy loader where it is.     *)
LoadProgram ==
    /\ pc = "load"
    /\ chosen.tag = "legacy" => ToSet(paths.list) \intersect M.loaderAt # {}
    /\ pc' = "running"
    /\ UNCHANGED <<machine, scr, scanVars, menu, chosen, paths>>

Returned(s) ==
    /\ RunMainMenu(FinishExternalScreen(s), entries)
    /\ chosen' = NULL /\ paths' = NoPaths
    /\ UNCHANGED <<machine, scanVars>>

LoadFails ==
    /\ pc = "load"
    /\ Returned(CheckError(scr, "while loading a program"))

(* The screen a program leaves: it may have switched it and painted over it.       *)
ScreensAfter(s) ==
    {[s EXCEPT !.mode = mode] : mode \in IF M.control THEN {"text", "graphics"} ELSE {s.mode}}
    \union {[s EXCEPT !.mode = mode, !.text = Foreign, !.gfx = Unknown, !.errors = {}] :
               mode \in IF M.control THEN {"text", "graphics"} ELSE {s.mode}}

ProgramReturns ==
    /\ pc = "running"
    /\ \E s \in ScreensAfter(scr) :
           \E seen \in {s, CheckError(s, "returned from a program")} : Returned(seen)

Next ==
    \/ Boot \/ BootFails \/ ReadConfig \/ NoConfig \/ ConfigFails \/ ReadConfigLine \/ ConfigDone
    \/ SetUpScreen \/ StartDriver \/ DriversDone \/ ScanDevice \/ ScanVolumesFails
    \/ VolumesScanned \/ RelateVolume \/ VolumesDone \/ ScanLoader \/ AddLoader \/ LoadersDone \/ ScanLegacy \/ LegacyDone \/ ScanTool
    \/ Select \/ ScreenShot \/ Back \/ Details \/ About \/ Leave
    \/ StartLoader \/ StartLegacy \/ SearchLoader \/ AddHardcoded \/ LoadProgram \/ LoadFails \/ ProgramReturns

Spec == Init /\ [][Next]_vars

------------------------------------------------------------------------------
(* When all lines have been read, the configuration is what the words of the file   *)
(* say by refit.conf, whatever its mark, its comments and its empty lines, but for   *)
(* "internal" where an "all" follows it; a file that is not there or cannot be read  *)
(* changes nothing (ReadConfig, ReadTokenLine).                                     *)
ConfigIsWhatTheFileSays ==
    LET said == Says(SelectSeq(M.config.text, LAMBDA piece : piece \notin {"BOM8", "BOM16"}), config)
    IN  /\ pc = "lines" /\ todo = <<>> => said
        /\ pc = "setup" => config = DefaultConfig \/ (M.config # NULL /\ scr.errors = {} /\ said)

(* No message about an error is cleared from the screen before there was time to    *)
(* read it (FinishTextScreen, FinishExternalScreen), but for the one about the      *)
(* configuration where text and graphics share the screen: SetupScreen clears it.   *)
ErrorsAreSeen ==
    /\ scr.lost \subseteq IF OneSurface THEN {"while loading the configuration file"} ELSE {}
    /\ pc = "menu" => scr.errors = {} /\ ~scr.error

(* The picture of a file for a size, or the first of those that can be seen       *)
Seen(name, size) == IF name \in DOMAIN M.files THEN M.files[name].shows[size] ELSE NULL

FirstSeen(names, size) ==
    LET found == {i \in DOMAIN names : Seen(names[i], size) # NULL}
    IN  IF config.TextOnly THEN NULL
        ELSE IF found = {} THEN DummyImage[size] ELSE Seen(names[Min(found)], size)

ShowsGraphics == scr.allow /\ M.graphics

(* The message about a screenshot that failed is on the menu itself: it stays there  *)
(* until a menu is painted anew.                                                    *)
MessageOnMenu == menu.shot /\ (OneSurface \/ ~ShowsGraphics)

(* The banner that its file shows, and the one that rEFIt has decoded               *)
ShownBanner  == IF config.BannerFileName = NULL THEN BannerImage.shows ELSE Seen(config.BannerFileName, 0)
BannerIsRead == Banner = ShownBanner

(* While a menu waits for a key, the screen that the user sees is the one the menu  *)
(* is painted on, in the right mode, with the banner, every entry and only the       *)
(* selected one marked, and nothing that another program or a message left there     *)
(* (SwitchToGraphicsAndClear, FinishExternalScreen, GraphicsScreenDirty). A           *)
(* screenshot that fails spoils the menu that is shown, by its message or by the       *)
(* text mode it leaves the firmware in, but none that is painted after it.            *)
MenuIsShown ==
    LET banner == ShownBanner
        wanted == "banner" \notin config.HideUIFlags
        top    == IF wanted /\ banner # NULL THEN Only(BannerPlace, banner) ELSE <<>>
        lines(shown) == OnTop(Info(shown), Lines(shown, menu.current, DOMAIN shown.entries))
        body(shown) ==
            IF menu.name = "main"
            THEN OnTop(Tiles(scr, shown, menu.current, DOMAIN shown.entries), Label(shown, menu.current))
            ELSE OnTop(Only(<<"title", 0>>, Line(shown.title, FALSE)),
                       OnTop(lines(shown),
                             IF shown.image = NULL THEN <<>>
                             ELSE Only(<<"icon", 0>>, OnBackground(shown.image, scr.menubg))))
    IN  pc = "menu" => \A shown \in {Menu(menu)} :
            /\ scr.allow = (M.graphics /\ ~config.TextOnly)
            /\ M.control /\ ~menu.shot => scr.mode = IF ShowsGraphics THEN "graphics" ELSE "text"
            /\ ShowsGraphics => scr.gfx.bg = IF wanted /\ banner # NULL THEN banner.PixelData[<<0, 0>>]
                                             ELSE StdBackgroundPixel
            /\ \/ MessageOnMenu
               \/ ShowsGraphics /\ scr.gfx.on = OnTop(body(shown), top)
               \/ ~ShowsGraphics /\ scr.text = [title |-> shown.title, on |-> lines(shown)]

(* b under t with opacity a out of 255, to the nearest number                        *)
Mixed(b, t, a) == (2 * (b * (255 - a) + t * a) + 255) \div 510

Over(below, above) ==
    [below EXCEPT !.r = Mixed(@, above.r, above.a), !.g = Mixed(@, above.g, above.a),
                  !.b = Mixed(@, above.b, above.a)]

(* A pixel of an image whose upper left corner is at the given place, on top of      *)
(* another pixel                                                                     *)
Layer(below, image, corner, p) ==
    LET q == <<p[1] - corner[1], p[2] - corner[2]>>
    IN  IF q \notin DOMAIN image.PixelData THEN below
        ELSE IF image.HasAlpha THEN Over(below, image.PixelData[q]) ELSE image.PixelData[q]

(* The tiles of the main menu show, pixel by pixel, the icon of their entry in the    *)
(* middle of the tile, or its upper left part if it is larger, and the badge with a    *)
(* margin in the lower right corner of the icon if there is room for it, each mixed    *)
(* with what is under it by its alpha channel (BltImageCompositeBadge, egRawCompose);  *)
(* as long as no message about a screenshot is printed over them.                     *)
TilesShowTheirIcons ==
    pc = "menu" /\ menu.name = "main" /\ ShowsGraphics /\ ~MessageOnMenu =>
        \A i \in DOMAIN entries :
            LET e     == entries[i]
                tile  == scr.gfx.on[<<"tile", i>>]
                base  == Base(scr, e.row, i = menu.current)
                side  == Side[IF e.row = 0 THEN 144 ELSE 64]
                shown(length) == IF length < side THEN length ELSE side
                inset(length) == (side - shown(length)) \div 2
                room(length)  == shown(length) - Side[8]
                icon  == <<inset(e.image.Width), inset(e.image.Height)>>
                fits  == /\ e.badge # NULL /\ e.badge.Width < room(e.image.Width)
                         /\ e.badge.Height < room(e.image.Height)
                badge == <<icon[1] + room(e.image.Width) - e.badge.Width,
                           icon[2] + room(e.image.Height) - e.badge.Height>>
            IN  /\ DOMAIN tile.PixelData = (0 .. side - 1) \X (0 .. side - 1)
                /\ \A p \in DOMAIN tile.PixelData :
                       LET below == Layer(base.PixelData[p], e.image, icon, p)
                       IN  tile.PixelData[p] = IF fits THEN Layer(below, e.badge, badge, p) ELSE below

Named(names, kind) == [i \in DOMAIN names |-> kind \o names[i]]

FunctionIcon ==
    "efi/refit/apps/shell.efi" :> "tool_shell" @@ "efi/tools/shell.efi" :> "tool_shell"
        @@ "efi/tools/gptsync.efi" :> "tool_part" @@ "efi/rescue/elilo.efi" :> "tool_rescue"

(* The picture that belongs to an entry                                             *)
Belongs(e) ==
    LET own(f) == Path([f EXCEPT !.ext = "efi"]) = e.path /\ f.ext = "icns"
        owned  == IF e.tag # "loader" THEN <<>> ELSE SelectSeq(vols[e.volume].files, own)
        mine   == IF owned = <<>> \/ config.TextOnly THEN NULL ELSE Head(owned).data.shows[128]
        loader == LoaderKind(CHOOSE f \in ToSet(vols[e.volume].files) : Path(f) = e.path)
    IN  CASE e.tag = "tool"   -> FirstSeen(<<FunctionIcon[e.path]>>, 48)
          [] e.tag = "legacy" -> FirstSeen(Named(vols[e.volume].os.icons \o <<"legacy">>, "os_"), 128)
          [] e.tag = "loader" -> IF mine # NULL THEN mine
                                 ELSE FirstSeen(Named(loader.icons \o <<"unknown">>, "os_"), 128)
          [] OTHER            -> FirstSeen(<<"func_" \o e.tag>>, 48)

(* The badge that belongs to a volume: its own, or one for its kind of disk           *)
BadgeOf(v) ==
    LET device == M.devices[v]
    IN  IF v \in DOMAIN M.devices /\ device.files # NULL /\ device.icon # NULL
        THEN IF config.TextOnly THEN NULL ELSE device.icon.shows[32]
        ELSE FirstSeen(<<"vol_" \o vols[v].kind>>, 32)

Hidden(v) == config.HideBadges = 2 \/ (config.HideBadges = 1 /\ vols[v].kind = "internal")

(* Every entry has the picture of the first file of its list that holds one in the     *)
(* form its name promises, or else the dummy; and the badge of its volume unless       *)
(* badges are hidden; the banner is what its file shows (LoadOSIcon, BuiltinIcon,       *)
(* egDecodeAny, egDecodeICNS, egDecodeBMP, egPrepareEmbeddedImage).                     *)
EveryEntryHasItsImage ==
    /\ BannerIsRead
    /\ \A i \in DOMAIN entries :
          /\ entries[i].image = Belongs(entries[i])
          /\ entries[i].volume # 0 =>
                 entries[i].badge = IF Hidden(entries[i].volume) THEN NULL ELSE BadgeOf(entries[i].volume)

------------------------------------------------------------------------------
(* What kind of disk a device is on                                                 *)
DiskKind(d) ==
    LET nodes == ToSet(M.devices[d].path)
        blocks(disk) == M.devices[CHOOSE k \in DOMAIN M.devices : M.devices[k].id = disk].block
    IN  IF \/ M.devices[d].block = 2048 \/ \E n \in nodes : n.kind = "cdrom"
           \/ \E n \in nodes : n.disk # NULL /\ blocks(n.disk) = 2048 THEN "optical"
        ELSE IF \E n \in nodes : n.kind \in External THEN "external" ELSE "internal"

DiskOf(d) == {n.disk : n \in ToSet(M.devices[d].path)} \ {NULL}

Searched == {d \in DOMAIN M.devices : vols # <<>> /\ DiskKind(d) \notin config.DisableFlags}

(* The loaders on a device, up to where a directory cannot be read on                *)
LoadersThere(d) ==
    LET device == M.devices[d]
        reached(dir, place) == dir \in DOMAIN device.bad => place <= device.bad[dir]
        seen(i) == Cardinality({k \in 1 .. i : device.files[k].dir = device.files[i].dir})
        subdirs == {i \in DOMAIN device.efidirs : reached("EFI", i)}
        dirs == {"", "elilo", "boot"}
                  \union {"EFI/" \o name : name \in {device.efidirs[i] : i \in subdirs}
                                                       \ {"tools", "refit", "refitl", "rescue", ".Trashes"}}
        readable == device.files # NULL /\ (device.label # NULL \/ device.partition # NULL)
        program(i) ==
            LET f == device.files[i]
            IN  /\ f.ext = "efi"
                /\ \/ /\ f.dir \in dirs /\ reached(f.dir, seen(i))
                      /\ ~f.dot /\ f.base \notin {"textmode", "ebounce", "graphicsconsole"}
                   \/ Path(f) \in {CoreServices \o "/boot.efi", CoreServices \o "/xom.efi",
                                    "EFI/Microsoft/Boot/bootmgfw.efi"}
    IN  {device.files[i] : i \in {k \in IF readable THEN DOMAIN device.files ELSE {} : program(k)}}

Tagged(tag) == {i \in DOMAIN entries : entries[i].tag = tag}

HasOption(e, options) == \E k \in DOMAIN e.sub.entries : e.sub.entries[k].options = options

(* The main menu has an entry for every loader and tool that is there and not disabled *)
(* by the flags as they were read, one for each and no other, with the options that are *)
(* allowed; it is never empty, and the first nine entries in the upper row have their    *)
(* digits (ScanLoader, ScanTool, RefitMain).                                            *)
MenuOffersWhatIsThere ==
    LET loaders == UNION {{d} \X {Path(f) : f \in LoadersThere(d)} : d \in Searched}
        mac == {i \in Tagged("loader") : entries[i].path = CoreServices \o "/boot.efi"}
        upper == {i \in DOMAIN entries : entries[i].row = 0}
        allowed(flag) == flag \notin config.DisableFlags
    IN  pc = "menu" =>
            /\ {<<entries[i].volume, entries[i].path>> : i \in Tagged("loader")} = loaders
            /\ Cardinality(Tagged("loader")) = Cardinality(loaders)
            /\ ~allowed("tools") => Tagged("tool") = {}
            /\ allowed("tools") =>
                   {entries[i].path : i \in Tagged("tool")} \intersect {"efi/tools/gptsync.efi", "efi/rescue/elilo.efi"}
                   = M.tools \intersect ({"efi/tools/gptsync.efi"} \union {x \in {"efi/rescue/elilo.efi"} : M.self})
            /\ \A i \in mac :
                   /\ HasOption(entries[i], "-v -s") = allowed("singleuser")
                   /\ \A k \in DOMAIN entries[i].sub.entries :
                         LET e == entries[i].sub.entries[k]
                         IN  \/ e.tag = "return" \/ e.path = entries[i].path
                             \/ allowed("hwtest") /\ e.path = CoreServices \o "/.diagnostics/diags.efi"
            /\ entries # <<>>
            /\ "funcs" \in config.HideUIFlags =>
                   (Tagged("shutdown") # {}) = (Tagged("loader") \union Tagged("legacy") \union Tagged("tool") = {})
            /\ \A i \in DOMAIN entries :
                   entries[i].digit = IF i \in upper /\ i <= 9 THEN ToString(i) ELSE NULL
            /\ IF config.LegacyFirst THEN \A i \in Tagged("legacy"), k \in Tagged("loader") : i < k
               ELSE \A i \in Tagged("loader"), k \in Tagged("legacy") : i < k

(* Whether the firmware could start what is in the boot sector of a device; sectors of   *)
(* more than 2048 bytes are not read.                                                    *)
CanBoot(d) ==
    LET device == M.devices[d]
        cdrom  == \E n \in ToSet(device.path) : n.kind = "cdrom"
        signed == device.sector.magic /\ device.sector.jump
        known  == \E i \in DOMAIN BootCodes : BootCodes[i].marks \intersect device.sector.marks # {}
    IN  /\ \A n \in ToSet(device.path) : n.kind # "vendor"
        /\ device.block <= 2048 /\ device.sector # NULL /\ "Non-system disk" \notin device.sector.marks
        /\ signed \/ (cdrom /\ known)

(* Every disk with boot code on it, in its first sector or in that of a partition, has  *)
(* a legacy entry, however its devices hide each other; and a partition with a system    *)
(* that is known always has its own (ScanVolume, ScanLegacy).                            *)
BootableDiskIsOffered ==
    LET offered == {vols[entries[i].volume].device : i \in Tagged("legacy")}
    IN  pc = "menu" =>
            \A d \in Searched : CanBoot(d) =>
                /\ \E i \in Tagged("legacy") : vols[entries[i].volume].whole \in DiskOf(d)
                /\ vols[d].os.name # NULL => M.devices[d].id \in offered

(* The legacy loader is looked for in each place once: first where images were loaded    *)
(* from, and then where known firmware has it, unless the list is full                    *)
(* (ExtractLegacyLoaderPaths).                                                            *)
LegacyLoaderIsFound ==
    LET found == IF paths.listed THEN ToSet(M.ranges) \ {NULL} ELSE {}
        room  == MaxPaths - 1
    IN  pc = "load" /\ chosen.tag = "legacy" =>
            /\ Len(paths.list) <= room
            /\ Cardinality(found) + Len(Hardcoded) <= room => ToSet(paths.list) = found \union ToSet(Hardcoded)
            /\ Cardinality(found) <= room => found = {paths.list[i] : i \in 1 .. Cardinality(found)}
================================================================================
