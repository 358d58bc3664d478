------------------------------ MODULE RefitScreen ------------------------------
(***************************************************************************)
(* rEFIt's screen: switching between the text console and the graphics      *)
(* screen (refit/screen.c, libeg/screen.c) and the painting of the menus     *)
(* (refit/menu.c). Firmware with a ConsoleControl protocol keeps two         *)
(* surfaces and shows one of them; without it both are one. A screen s is a  *)
(* record; every operator gives the screen after the function it is named    *)
(* for. On a surface the model keeps what was painted where.                 *)
(***************************************************************************)
EXTENDS RefitConfig, TLC

CONSTANTS
    Side,           \* by a length in the code's pixels: the pixels it has in the model
    Machines,       \* the computers: firmware, files, devices
    BannerImage,    \* egemb_refit_banner
    SmallImage      \* egemb_back_selected_small

INSTANCE LibegImage

VARIABLES
    machine,        \* which of the computers this is
    config,         \* GlobalConfig
    scr             \* the screen

M == Machines[machine]

(* The images in rEFIt's directory, by file, size and whether alpha is wanted;       *)
(* M.files[name].ext is the extension of the name, which is icns for every icon.     *)
Decoded == [m \in DOMAIN Machines |-> DecodeFiles(Machines[m].files)]

LoadFile(name, size, wantAlpha) ==
    IF name = NULL \/ name \notin DOMAIN M.files THEN NULL ELSE Decoded[machine][name][size][wantAlpha]

LoadImage(name) == LoadFile(name, 128, FALSE)

LoadIcon(name, size) == LoadFile(name, size, TRUE)

EmbeddedBanner == PrepareEmbeddedImage(BannerImage, FALSE)
EmbeddedSmall  == PrepareEmbeddedImage(SmallImage, FALSE)

StdBackgroundPixel       == [r |-> 191, g |-> 191, b |-> 191, a |-> 0]
SelectionBackgroundPixel == [r |-> 255, g |-> 255, b |-> 255, a |-> 0]
BlackPixel               == [r |-> 0, g |-> 0, b |-> 0, a |-> 0]

NoText  == [title |-> NULL, on |-> <<>>]
Blank   == [bg |-> BlackPixel, on |-> <<>>]

(* What another program has left on the text and on the graphics screen         *)
Foreign == [title |-> "foreign", on |-> <<>>]
Unknown == [bg |-> NULL, on |-> <<>>]

(* What a firmware shows when rEFIt starts. Dirty is GraphicsScreenDirty, error *)
(* is haveError; errors are the messages that nobody has had the time to read,  *)
(* lost those that rEFIt has cleared from the console before.                   *)
FirstScreen(m) ==
    [mode |-> m.mode, allow |-> FALSE, dirty |-> FALSE, cursor |-> TRUE, error |-> FALSE,
     text |-> Foreign, gfx |-> Unknown, banner |-> NULL,
     menubg |-> StdBackgroundPixel, tiles |-> NULL, errors |-> {}, lost |-> {}]

OneSurface == ~M.control /\ M.graphics

------------------------------------------------------------------------------
(* The console and the graphics screen *)

ClearConsole(s, title) ==
    [s EXCEPT !.text = [title |-> title, on |-> <<>>], !.errors = {}, !.lost = @ \union s.errors,
              !.gfx = IF OneSurface THEN Blank ELSE @]

ClearScreen(s, color) ==
    IF ~M.graphics THEN s
    ELSE [s EXCEPT !.gfx = [bg |-> color, on |-> <<>>],
                   !.text = IF OneSurface THEN NoText ELSE @,
                   !.errors = IF OneSurface THEN {} ELSE @,
                   !.lost = IF OneSurface THEN @ \union s.errors ELSE @]

(* What is painted at one place, and what is seen where something new is painted *)
(* on top of something old.                                                     *)
Only(place, what) == [p \in {place} |-> what]
OnTop(new, old)   == [p \in DOMAIN new \union DOMAIN old |-> IF p \in DOMAIN new THEN new[p] ELSE old[p]]

Draw(s, place, what) == IF M.graphics THEN [s EXCEPT !.gfx.on = OnTop(Only(place, what), @)] ELSE s

IsGraphicsModeEnabled(s) == M.control /\ s.mode = "graphics"

SetGraphicsModeEnabled(s, enable) ==
    IF M.control THEN [s EXCEPT !.mode = IF enable THEN "graphics" ELSE "text"] ELSE s

SwitchToText(s, cursor) == [SetGraphicsModeEnabled(s, FALSE) EXCEPT !.cursor = cursor]

SwitchToGraphics(s) ==
    IF s.allow /\ ~IsGraphicsModeEnabled(s)
    THEN [SetGraphicsModeEnabled(s, TRUE) EXCEPT !.dirty = TRUE] ELSE s

DrawScreenHeader(s, title) == ClearConsole(s, title)

InitScreen(s) ==
    DrawScreenHeader([(IF M.graphics THEN [s EXCEPT !.allow = TRUE]
                       ELSE SetGraphicsModeEnabled([s EXCEPT !.allow = FALSE], FALSE))
                          EXCEPT !.dirty = TRUE, !.cursor = FALSE], "Initializing...")

------------------------------------------------------------------------------
(* Drawing *)

BltImage(s, image, place) == [Draw(s, place, image) EXCEPT !.dirty = TRUE]

(* The banner is loaded when it is first needed, and gives the menus their      *)
(* background.                                                                  *)
Banner == IF config.BannerFileName = NULL THEN EmbeddedBanner ELSE LoadImage(config.BannerFileName)

UseBanner(s, banner) ==
    IF banner = NULL THEN s ELSE [s EXCEPT !.banner = banner, !.menubg = banner.PixelData[<<0, 0>>]]

WithBanner(s) == IF s.banner = NULL THEN UseBanner(s, Banner) ELSE s

BannerPlace == <<"banner", 0>>

ShowBanner(s) == IF s.banner = NULL THEN s ELSE BltImage(s, s.banner, BannerPlace)

ClearToBanner(s) == ShowBanner(ClearScreen(s, s.menubg))

BltClearScreen(s, showBanner) ==
    [(IF showBanner /\ "banner" \notin config.HideUIFlags THEN ClearToBanner(WithBanner(s))
      ELSE ClearScreen(s, StdBackgroundPixel)) EXCEPT !.dirty = FALSE]

ClearIfDirty(s) == IF s.dirty THEN BltClearScreen(s, TRUE) ELSE s

SwitchToGraphicsAndClear(s) == ClearIfDirty(SwitchToGraphics(s))

SetupScreen(s) ==
    IF config.TextOnly THEN SwitchToText([s EXCEPT !.allow = FALSE], FALSE)
    ELSE IF s.allow THEN BltClearScreen(SwitchToGraphics(s), TRUE) ELSE s

(* BltImageAlpha and BltImageComposite: an image on a plain background, or in    *)
(* the middle of another                                                        *)
OnBackground(image, color) ==
    ComposeImage(CreateFilledImage(image.Width, image.Height, FALSE, color), image, 0, 0)

Middle(total, size) == (total - Min({size, total})) \div 2

Centered(base, top) ==
    ComposeImage(base, top, Middle(base.Width, top.Width), Middle(base.Height, top.Height))

(* BltImageCompositeBadge: the badge is put in the lower right of the image on   *)
(* top, with a margin, when it is smaller.                                      *)
WithBadge(base, top, badge) ==
    LET width  == Min({top.Width, base.Width})
        height == Min({top.Height, base.Height})
        icon   == Centered(base, top)
    IN  IF \/ badge = NULL
           \/ badge.Width + Side[8] >= width \/ badge.Height + Side[8] >= height THEN icon
        ELSE ComposeImage(icon, badge,
                          Middle(base.Width, top.Width) + width - Side[8] - badge.Width,
                          Middle(base.Height, top.Height) + height - Side[8] - badge.Height)

------------------------------------------------------------------------------
(* Errors and keys *)

(* Seeded fault: the message is printed and that is all.                         *)
CheckErrorUnnoted(s, message) == [s EXCEPT !.errors = @ \union {message}]

CheckError(s, message) == [s EXCEPT !.errors = @ \union {message}, !.error = TRUE]

(* PauseForKey waits for a key that is pressed after the message was shown.      *)
PauseForKey(s) == [s EXCEPT !.errors = IF s.mode = "text" \/ ~M.control THEN {} ELSE @]

BeginTextScreen(s, title) ==
    [SwitchToText(DrawScreenHeader(s, title), FALSE) EXCEPT !.error = FALSE]

FinishTextScreen(s) ==
    [(IF s.error THEN PauseForKey(SwitchToText(s, FALSE)) ELSE s) EXCEPT !.error = FALSE]

BeginExternalScreen(s, wantGraphics, title) ==
    [(IF wantGraphics /\ s.allow
      THEN DrawScreenHeader(BltClearScreen(SwitchToGraphics(s), FALSE), title)
      ELSE SwitchToText(DrawScreenHeader(s, title), TRUE)) EXCEPT !.error = FALSE]

(* Seeded fault: what the program has painted stays unnoticed.                   *)
FinishExternalScreenClean(s) == FinishTextScreen(s)

FinishExternalScreen(s) == FinishTextScreen([s EXCEPT !.dirty = TRUE])

TerminateScreen(s) == [ClearConsole(s, NULL) EXCEPT !.cursor = TRUE]

(* A message on the console, wherever its cursor is; the place "message" stands   *)
(* for all that it covers.                                                       *)
Printed(s) ==
    LET under(on) == OnTop(Only(<<"message", 0>>, "Error"), on)
    IN  [s EXCEPT !.text.on = under(@), !.gfx.on = IF OneSurface THEN under(@) ELSE @]

(* egScreenShot: a failure is printed, leaves the firmware in text mode and waits  *)
(* for a key.                                                                     *)
ScreenShotFails(s) == IF M.graphics THEN SetGraphicsModeEnabled(Printed(s), FALSE) ELSE s

------------------------------------------------------------------------------
(* The menus *)

(* The big selection image is the small one with its middle row and column      *)
(* repeated.                                                                    *)
StretchedFrom(i) ==
    LET half == Side[64] \div 2
    IN  IF i < half THEN i
        ELSE IF i < Side[144] - half THEN half ELSE i - (Side[144] - Side[64])

Stretched(small) ==
    [Width |-> Side[144], Height |-> Side[144], HasAlpha |-> FALSE,
     PixelData |-> [p \in Points(Side[144], Side[144]) |->
                        small.PixelData[<<StretchedFrom(p[1]), StretchedFrom(p[2])>>]]]

SmallSelection == IF LoadImage(config.SelectionSmallFileName) = NULL THEN EmbeddedSmall
                  ELSE LoadImage(config.SelectionSmallFileName)

BigSelection(small, color) ==
    LET own == LoadImage(config.SelectionBigFileName)
    IN  IF own = NULL THEN Stretched(small) ELSE EnsureImageSize(own, Side[144], Side[144], color)

(* The backgrounds of big and small tiles, selected and not, are made once,      *)
(* with the background that menus have then.                                     *)
SelectionImages(small, color) ==
    <<BigSelection(small, color), CreateFilledImage(Side[144], Side[144], FALSE, color),
      small, CreateFilledImage(Side[64], Side[64], FALSE, color)>>

InitSelection(s) ==
    IF ~s.allow \/ s.tiles # NULL THEN s
    ELSE [s EXCEPT !.tiles =
            SelectionImages(EnsureImageSize(SmallSelection, Side[64], Side[64], s.menubg), s.menubg)]

Base(s, row, selected) ==
    s.tiles[(IF row = 0 THEN 1 ELSE 3) + (IF selected THEN 0 ELSE 1)]

Line(title, selected) == [text |-> title, bar |-> selected]

Lines(menu, current, which) ==
    [place \in {"line"} \X which |->
        Line(menu.entries[place[2]].title, place[2] = current)]

Info(menu) == [place \in {"info"} \X DOMAIN menu.info |-> Line(menu.info[place[2]], FALSE)]

Tiles(s, menu, current, which) ==
    [place \in {"tile"} \X which |->
        LET entry == menu.entries[place[2]]
        IN  WithBadge(Base(s, entry.row, place[2] = current), entry.image, entry.badge)]

Label(menu, current) ==
    IF "label" \in config.HideUIFlags THEN <<>>
    ELSE Only(<<"label", 0>>, Line(menu.entries[current].title, FALSE))

Paint(s, painting) ==
    [s EXCEPT !.gfx.on = IF M.graphics THEN OnTop(painting, @) ELSE @, !.dirty = TRUE]

TextMenuStyle(s, menu, current) ==
    [BeginTextScreen(s, menu.title) EXCEPT !.text.on =
        OnTop(Info(menu), Lines(menu, current, DOMAIN menu.entries))]

(* On a screen that has been cleared *)
PaintMenu(s, menu, current) ==
    LET icon == IF menu.image = NULL THEN <<>>
                ELSE Only(<<"icon", 0>>, OnBackground(menu.image, s.menubg))
        lines == OnTop(Info(menu), Lines(menu, current, DOMAIN menu.entries))
    IN  Paint(s, OnTop(Only(<<"title", 0>>, Line(menu.title, FALSE)), OnTop(lines, icon)))

PaintTiles(s, menu, current) ==
    Paint(s, OnTop(Tiles(s, menu, current, DOMAIN menu.entries), Label(menu, current)))

PaintAll(s, menu, main, current) ==
    IF main THEN PaintTiles(s, menu, current) ELSE PaintMenu(s, menu, current)

(* MENU_FUNCTION_INIT and MENU_FUNCTION_PAINT_ALL of the style for the menu      *)
ShowMenu(s, menu, main, current) ==
    IF ~s.allow THEN TextMenuStyle(s, menu, current)
    ELSE PaintAll(SwitchToGraphicsAndClear(IF main THEN InitSelection(s) ELSE s), menu, main, current)

(* MENU_FUNCTION_PAINT_SELECTION                                                 *)
PaintSelection(s, menu, main, last, current) ==
    IF ~s.allow THEN [s EXCEPT !.text.on = OnTop(Lines(menu, current, {last, current}), @)]
    ELSE IF main THEN Paint(s, OnTop(Tiles(s, menu, current, {last, current}), Label(menu, current)))
    ELSE Paint(s, Lines(menu, current, {last, current}))
================================================================================
