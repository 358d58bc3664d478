---------------------------- MODULE RefitBootProofs ----------------------------
(***************************************************************************)
(* For every computer, every configuration and any images and entries: no    *)
(* message is lost unread but the one about the configuration, what a menu   *)
(* needs is on the screen whenever it waits for a key, whatever was painted  *)
(* before, pixel by pixel the icons and badges of its entries, and the       *)
(* legacy loader is looked for wherever it can be.                           *)
(***************************************************************************)
EXTENDS RefitBoot, SequenceTheorems, FiniteSetTheorems, WellFoundedInduction, TLAPS

------------------------------------------------------------------------------
(* Screens.                                                                   *)

Fields == {"mode", "allow", "dirty", "cursor", "error", "text", "gfx", "banner",
           "menubg", "tiles", "errors", "lost"}

IsScreen(s) == /\ Fields \subseteq DOMAIN s
               /\ {"bg", "on"} \subseteq DOMAIN s.gfx /\ {"title", "on"} \subseteq DOMAIN s.text

(* t differs from s at most in some fields. *)
Keeps(s, t, changed) == \A f \in Fields \ changed : t[f] = s[f]

(* The text console is cleared, and with it what can be read there. *)
LEMMA ClearConsoleDoes ==
    ASSUME NEW s, NEW title, IsScreen(s)
    PROVE  LET t == ClearConsole(s, title)
           IN  /\ IsScreen(t) /\ Keeps(s, t, {"text", "errors", "lost", "gfx"})
               /\ t.text = [title |-> title, on |-> <<>>]
               /\ t.errors = {} /\ t.lost = s.lost \union s.errors
               /\ t.gfx = IF OneSurface THEN Blank ELSE s.gfx
BY DEF ClearConsole, IsScreen, Keeps, Fields, Blank

(* The graphics screen is cleared; the messages go only where both are one. *)
LEMMA ClearScreenDoes ==
    ASSUME NEW s, NEW color, IsScreen(s), M.graphics
    PROVE  LET t == ClearScreen(s, color)
           IN  /\ IsScreen(t) /\ Keeps(s, t, {"text", "errors", "lost", "gfx"})
               /\ t.gfx = [bg |-> color, on |-> <<>>]
               /\ ~OneSurface => t.text = s.text /\ t.errors = s.errors /\ t.lost = s.lost
               /\ OneSurface => t.errors = {} /\ t.lost = s.lost \union s.errors
BY DEF ClearScreen, IsScreen, Keeps, Fields, NoText

(* An image is put on top of what is there. *)
LEMMA DrawDoes ==
    ASSUME NEW s, NEW place, NEW what, IsScreen(s)
    PROVE  LET t == Draw(s, place, what)
           IN  /\ IsScreen(t) /\ Keeps(s, t, {"gfx"})
               /\ M.graphics =>
                     t.gfx.bg = s.gfx.bg /\ t.gfx.on = OnTop(Only(place, what), s.gfx.on)
BY DEF Draw, IsScreen, Keeps, Fields

(* Switching changes the mode, and the dirty flag when graphics come up.       *)
LEMMA SwitchDoes ==
    ASSUME NEW s, NEW on \in BOOLEAN, IsScreen(s)
    PROVE  LET t == SetGraphicsModeEnabled(s, on)
           IN  /\ IsScreen(t) /\ Keeps(s, t, {"mode"})
               /\ t.mode = IF M.control THEN IF on THEN "graphics" ELSE "text" ELSE s.mode
BY DEF SetGraphicsModeEnabled, IsScreen, Keeps, Fields

(* Text is shown where the firmware can switch to it. *)
LEMMA SwitchToTextDoes ==
    ASSUME NEW s, NEW cursor, IsScreen(s)
    PROVE  LET t == SwitchToText(s, cursor)
           IN  /\ IsScreen(t) /\ Keeps(s, t, {"mode", "cursor"})
               /\ t.mode = IF M.control THEN "text" ELSE s.mode
<1> DEFINE u == SetGraphicsModeEnabled(s, FALSE)
<1>1. /\ IsScreen(u) /\ Keeps(s, u, {"mode"})
      /\ u.mode = IF M.control THEN "text" ELSE s.mode
  BY SwitchDoes
<1> HIDE DEF u
<1>2. /\ IsScreen([u EXCEPT !.cursor = cursor])
      /\ Keeps(u, [u EXCEPT !.cursor = cursor], {"cursor"})
  BY <1>1 DEF IsScreen, Keeps, Fields
<1>3. SwitchToText(s, cursor) = [u EXCEPT !.cursor = cursor]
  BY DEF SwitchToText, u
<1>4. QED
  BY <1>1, <1>2, <1>3 DEF Keeps, Fields

(* Graphics that come up anew are taken for dirty. *)
LEMMA SwitchToGraphicsDoes ==
    ASSUME NEW s, IsScreen(s)
    PROVE  LET t == SwitchToGraphics(s)
           IN  /\ IsScreen(t) /\ Keeps(s, t, {"mode", "dirty"})
               /\ s.allow /\ ~IsGraphicsModeEnabled(s) => t.dirty = TRUE
               /\ ~(s.allow /\ ~IsGraphicsModeEnabled(s)) => t = s
               /\ s.allow /\ M.control => t.mode = "graphics"
<1>1. CASE s.allow /\ ~IsGraphicsModeEnabled(s)
  <2> DEFINE u == SetGraphicsModeEnabled(s, TRUE)
  <2>1. /\ IsScreen(u) /\ Keeps(s, u, {"mode"})
        /\ u.mode = IF M.control THEN "graphics" ELSE s.mode
    BY SwitchDoes
  <2> HIDE DEF u
  <2>2. /\ IsScreen([u EXCEPT !.dirty = TRUE])
        /\ Keeps(u, [u EXCEPT !.dirty = TRUE], {"dirty"})
        /\ [u EXCEPT !.dirty = TRUE].dirty = TRUE
    BY <2>1 DEF IsScreen, Keeps, Fields
  <2>3. SwitchToGraphics(s) = [u EXCEPT !.dirty = TRUE]
    BY <1>1 DEF SwitchToGraphics, u
  <2>4. QED
    BY <1>1, <2>1, <2>2, <2>3 DEF Keeps, Fields
<1>2. CASE ~(s.allow /\ ~IsGraphicsModeEnabled(s))
  <2>1. SwitchToGraphics(s) = s
    BY <1>2 DEF SwitchToGraphics
  <2>2. s.allow /\ M.control => s.mode = "graphics"
    BY <1>2 DEF IsGraphicsModeEnabled
  <2>3. QED
    BY <1>2, <2>1, <2>2 DEF Keeps
<1>3. QED
  BY <1>1, <1>2

------------------------------------------------------------------------------
(* Clearing.                                                                  *)

WantsBanner == "banner" \notin config.HideUIFlags

(* The banner is not loaded yet, or gives the menus their background.         *)
BannerHolds(s, banner) ==
    IF s.banner = NULL THEN s.menubg = StdBackgroundPixel
    ELSE s.banner = banner /\ s.menubg = banner.PixelData[<<0, 0>>]

(* What there is on a screen that has just been cleared.                      *)
Top(wanted, banner) == IF wanted /\ banner # NULL THEN Only(BannerPlace, banner) ELSE <<>>
Under(wanted, banner) == IF wanted /\ banner # NULL THEN banner.PixelData[<<0, 0>>]
                         ELSE StdBackgroundPixel
IsClear(s, wanted, banner) == /\ s.gfx.on = Top(wanted, banner)
                              /\ s.gfx.bg = Under(wanted, banner)

(* The banner is loaded, if it can be. *)
LEMMA WithBannerDoes ==
    ASSUME NEW s, IsScreen(s), BannerHolds(s, Banner)
    PROVE  LET t == WithBanner(s)
           IN  /\ IsScreen(t) /\ Keeps(s, t, {"banner", "menubg"}) /\ BannerHolds(t, Banner)
               /\ t.banner = Banner
<1>1. CASE s.banner # NULL
  BY <1>1 DEF WithBanner, BannerHolds, Keeps
<1>2. CASE s.banner = NULL /\ Banner = NULL
  BY <1>2 DEF WithBanner, UseBanner, BannerHolds, Keeps
<1>3. CASE s.banner = NULL /\ Banner # NULL
  <2> DEFINE b == Banner
             t == [s EXCEPT !.banner = b, !.menubg = b.PixelData[<<0, 0>>]]
  <2>1. WithBanner(s) = t
    BY <1>3 DEF WithBanner, UseBanner
  <2> HIDE DEF b
  <2>2. /\ IsScreen(t) /\ Keeps(s, t, {"banner", "menubg"})
        /\ t.banner = b /\ t.menubg = b.PixelData[<<0, 0>>]
    BY DEF IsScreen, Keeps, Fields
  <2> HIDE DEF t
  <2>3. t.banner = Banner /\ t.menubg = Banner.PixelData[<<0, 0>>]
    BY <2>2 DEF b
  <2>4. QED
    BY <1>3, <2>1, <2>2, <2>3 DEF BannerHolds
<1>4. QED
  BY <1>1, <1>2, <1>3

(* A banner that was loaded is drawn. *)
LEMMA ShowBannerDoes ==
    ASSUME NEW s, IsScreen(s), M.graphics, s.gfx.on = <<>>
    PROVE  LET t == ShowBanner(s)
           IN  /\ IsScreen(t) /\ Keeps(s, t, {"gfx", "dirty"}) /\ t.gfx.bg = s.gfx.bg
               /\ t.gfx.on = IF s.banner = NULL THEN <<>> ELSE Only(BannerPlace, s.banner)
<1>1. CASE s.banner = NULL
  BY <1>1 DEF ShowBanner, Keeps
<1>2. CASE s.banner # NULL
  <2> DEFINE u == Draw(s, BannerPlace, s.banner)
  <2>1. /\ IsScreen(u) /\ Keeps(s, u, {"gfx"})
        /\ u.gfx.bg = s.gfx.bg /\ u.gfx.on = OnTop(Only(BannerPlace, s.banner), <<>>)
    BY DrawDoes
  <2>2. OnTop(Only(BannerPlace, s.banner), <<>>) = Only(BannerPlace, s.banner)
    BY DEF Only, OnTop
  <2>3. ShowBanner(s) = [u EXCEPT !.dirty = TRUE]
    BY <1>2 DEF ShowBanner, BltImage
  <2> HIDE DEF u
  <2>4. /\ IsScreen([u EXCEPT !.dirty = TRUE])
        /\ Keeps(u, [u EXCEPT !.dirty = TRUE], {"dirty"})
    BY <2>1 DEF IsScreen, Keeps, Fields
  <2>5. QED
    BY <1>2, <2>1, <2>2, <2>3, <2>4 DEF Keeps, Fields
<1>3. QED
  BY <1>1, <1>2

(* What clearing does to messages that have not been read.                    *)
Wipes(s, t) == IF OneSurface THEN t.errors = {} /\ t.lost = s.lost \union s.errors
               ELSE t.errors = s.errors /\ t.lost = s.lost

Cleared == {"text", "errors", "lost", "gfx", "dirty", "banner", "menubg"}

(* Clearing with the banner leaves the banner and its background, and nothing else. *)
LEMMA ClearWithBannerDoes ==
    ASSUME NEW s, IsScreen(s), M.graphics, BannerHolds(s, Banner), WantsBanner
    PROVE  LET t == ClearToBanner(WithBanner(s))
           IN  /\ IsScreen(t) /\ Keeps(s, t, Cleared) /\ BannerHolds(t, Banner)
               /\ Wipes(s, t) /\ IsClear(t, WantsBanner, Banner)
<1> DEFINE u == WithBanner(s)
           v == ClearScreen(u, u.menubg)
           t == ShowBanner(v)
<1>1. /\ IsScreen(u) /\ Keeps(s, u, {"banner", "menubg"}) /\ BannerHolds(u, Banner)
      /\ u.banner = Banner
  BY WithBannerDoes
<1>2. ClearToBanner(WithBanner(s)) = t
  BY DEF ClearToBanner
<1> HIDE DEF u
<1>3. /\ IsScreen(v) /\ Keeps(u, v, {"text", "errors", "lost", "gfx"})
      /\ v.gfx = [bg |-> u.menubg, on |-> <<>>] /\ Wipes(u, v)
  BY <1>1, ClearScreenDoes DEF Wipes
<1>4. v.gfx.bg = u.menubg /\ v.gfx.on = <<>>
  BY <1>3
<1> HIDE DEF v
<1>5. /\ IsScreen(t) /\ Keeps(v, t, {"gfx", "dirty"}) /\ t.gfx.bg = u.menubg
      /\ t.gfx.on = IF v.banner = NULL THEN <<>> ELSE Only(BannerPlace, v.banner)
  BY <1>3, <1>4, ShowBannerDoes
<1> HIDE DEF t
<1>6. Keeps(s, t, Cleared)
  BY <1>1, <1>3, <1>5 DEF Keeps, Fields, Cleared
<1>7. Wipes(s, t)
  BY <1>1, <1>3, <1>5 DEF Keeps, Fields, Wipes
<1>8. v.banner = Banner /\ t.banner = Banner /\ t.menubg = u.menubg
  BY <1>1, <1>3, <1>5 DEF Keeps, Fields
<1>9. BannerHolds(t, Banner)
  BY <1>1, <1>8 DEF BannerHolds
<1>10. IsClear(t, WantsBanner, Banner)
  BY <1>1, <1>5, <1>8 DEF IsClear, Top, Under, BannerHolds
<1>11. QED
  BY <1>2, <1>5, <1>6, <1>7, <1>9, <1>10

(* So does BltClearScreen, or it leaves the standard background alone. *)
LEMMA BltClearScreenDoes ==
    ASSUME NEW s, NEW show \in BOOLEAN, IsScreen(s), M.graphics, BannerHolds(s, Banner)
    PROVE  LET t == BltClearScreen(s, show)
           IN  /\ IsScreen(t) /\ Keeps(s, t, Cleared) /\ BannerHolds(t, Banner)
               /\ Wipes(s, t) /\ (show => IsClear(t, WantsBanner, Banner))
<1> DEFINE u == IF show /\ "banner" \notin config.HideUIFlags THEN ClearToBanner(WithBanner(s))
                ELSE ClearScreen(s, StdBackgroundPixel)
<1>1. /\ IsScreen(u) /\ Keeps(s, u, Cleared) /\ BannerHolds(u, Banner)
      /\ Wipes(s, u) /\ (show => IsClear(u, WantsBanner, Banner))
  <2>1. CASE show /\ WantsBanner
    BY <2>1, ClearWithBannerDoes DEF WantsBanner
  <2>2. CASE ~(show /\ WantsBanner)
    <3> DEFINE v == ClearScreen(s, StdBackgroundPixel)
    <3>1. /\ IsScreen(v) /\ Keeps(s, v, {"text", "errors", "lost", "gfx"})
          /\ v.gfx = [bg |-> StdBackgroundPixel, on |-> <<>>] /\ Wipes(s, v)
      BY ClearScreenDoes DEF Wipes
    <3>2. u = v
      BY <2>2 DEF WantsBanner
    <3> HIDE DEF v
    <3>3. v.gfx.bg = StdBackgroundPixel /\ v.gfx.on = <<>>
      BY <3>1
    <3>4. Keeps(s, v, Cleared) /\ v.banner = s.banner /\ v.menubg = s.menubg
      BY <3>1 DEF Keeps, Fields, Cleared
    <3>5. BannerHolds(v, Banner)
      BY <3>4 DEF BannerHolds
    <3>6. show => IsClear(v, WantsBanner, Banner)
      BY <2>2, <3>3 DEF IsClear, Top, Under
    <3>7. QED
      BY <3>1, <3>2, <3>4, <3>5, <3>6
  <2>3. QED
    BY <2>1, <2>2
<1>2. BltClearScreen(s, show) = [u EXCEPT !.dirty = FALSE]
  BY DEF BltClearScreen
<1> HIDE DEF u
<1> DEFINE t == [u EXCEPT !.dirty = FALSE]
<1>3. IsScreen(t) /\ Keeps(u, t, {"dirty"})
  BY <1>1 DEF IsScreen, Keeps, Fields
<1> HIDE DEF t
<1>4. Keeps(s, t, Cleared)
  BY <1>1, <1>3 DEF Keeps, Fields, Cleared
<1>5. /\ t.gfx = u.gfx /\ t.banner = u.banner /\ t.menubg = u.menubg
      /\ t.errors = u.errors /\ t.lost = u.lost
  BY <1>3 DEF Keeps, Fields
<1>6. BannerHolds(t, Banner) /\ Wipes(s, t) /\ (show => IsClear(t, WantsBanner, Banner))
  BY <1>1, <1>5 DEF BannerHolds, Wipes, IsClear
<1>7. QED
  BY <1>2, <1>3, <1>4, <1>6 DEF t

------------------------------------------------------------------------------
(* Messages.                                                                  *)

(* An error is printed and noted. *)
LEMMA CheckErrorDoes ==
    ASSUME NEW s, NEW message, IsScreen(s)
    PROVE  LET t == CheckError(s, message)
           IN  /\ IsScreen(t) /\ Keeps(s, t, {"errors", "error"})
               /\ t.error = TRUE /\ t.errors = s.errors \union {message}
BY DEF CheckError, IsScreen, Keeps, Fields

(* Behind a message that nobody has read, the screen is set to wait for a key. *)
Noted(s) == s.errors # {} => s.error

(* What was noted has been read when the text screen is finished. *)
LEMMA FinishTextScreenDoes ==
    ASSUME NEW s, IsScreen(s), Noted(s)
    PROVE  LET t == FinishTextScreen(s)
           IN  /\ IsScreen(t) /\ Keeps(s, t, {"mode", "cursor", "errors", "error"})
               /\ t.errors = {} /\ t.error = FALSE
<1> DEFINE u == IF s.error THEN PauseForKey(SwitchToText(s, FALSE)) ELSE s
           t == [u EXCEPT !.error = FALSE]
<1>1. /\ IsScreen(u) /\ Keeps(s, u, {"mode", "cursor", "errors"}) /\ u.errors = {}
  <2>1. CASE s.error
    <3> DEFINE v == SwitchToText(s, FALSE)
               x == PauseForKey(v)
    <3>1. /\ IsScreen(v) /\ Keeps(s, v, {"mode", "cursor"})
          /\ M.control => v.mode = "text"
      BY SwitchToTextDoes
    <3> HIDE DEF v
    <3>2. IsScreen(x) /\ Keeps(v, x, {"errors"}) /\ x.errors = {}
      BY <3>1 DEF PauseForKey, IsScreen, Keeps, Fields
    <3>3. u = x
      BY <2>1 DEF v
    <3> HIDE DEF x, u
    <3>4. QED
      BY <3>1, <3>2, <3>3 DEF Keeps, Fields
  <2>2. CASE ~s.error
    BY <2>2 DEF Keeps, Noted
  <2>3. QED
    BY <2>1, <2>2
<1>2. FinishTextScreen(s) = t
  BY DEF FinishTextScreen
<1> HIDE DEF u
<1>3. IsScreen(t) /\ Keeps(u, t, {"error"}) /\ t.error = FALSE
  BY <1>1 DEF IsScreen, Keeps, Fields
<1> HIDE DEF t
<1>4. QED
  BY <1>1, <1>2, <1>3 DEF Keeps, Fields

(* The same after a program, whose traces are dirt from then on. *)
LEMMA FinishExternalScreenDoes ==
    ASSUME NEW s, IsScreen(s), Noted(s)
    PROVE  LET t == FinishExternalScreen(s)
           IN  /\ IsScreen(t) /\ Keeps(s, t, {"mode", "cursor", "errors", "error", "dirty"})
               /\ t.errors = {} /\ t.error = FALSE /\ t.dirty = TRUE
<1> DEFINE u == [s EXCEPT !.dirty = TRUE]
           t == FinishTextScreen(u)
<1>1. IsScreen(u) /\ Keeps(s, u, {"dirty"}) /\ u.dirty = TRUE
  BY DEF IsScreen, Keeps, Fields
<1>2. Noted(u)
  BY <1>1 DEF Noted, Keeps, Fields
<1>3. FinishExternalScreen(s) = t
  BY DEF FinishExternalScreen
<1> HIDE DEF u
<1>4. /\ IsScreen(t) /\ Keeps(u, t, {"mode", "cursor", "errors", "error"})
      /\ t.errors = {} /\ t.error = FALSE
  BY <1>1, <1>2, FinishTextScreenDoes
<1> HIDE DEF t
<1>5. QED
  BY <1>1, <1>3, <1>4 DEF Keeps, Fields

(* Where nothing is unread, nothing is lost.                                  *)
Lossless(s, t) == s.errors = {} => t.errors = {} /\ t.lost = s.lost

(* A header starts a page of its own. *)
LEMMA DrawScreenHeaderDoes ==
    ASSUME NEW s, NEW title, IsScreen(s)
    PROVE  LET t == DrawScreenHeader(s, title)
           IN  /\ IsScreen(t) /\ Keeps(s, t, {"text", "errors", "lost", "gfx"})
               /\ t.text = [title |-> title, on |-> <<>>] /\ t.errors = {} /\ Lossless(s, t)
<1> DEFINE t == ClearConsole(s, title)
<1>1. /\ IsScreen(t) /\ Keeps(s, t, {"text", "errors", "lost", "gfx"})
      /\ t.text = [title |-> title, on |-> <<>>]
      /\ t.errors = {} /\ t.lost = s.lost \union s.errors
  BY ClearConsoleDoes
<1> HIDE DEF t
<1>2. Lossless(s, t)
  BY <1>1 DEF Lossless
<1>3. QED
  BY <1>1, <1>2 DEF DrawScreenHeader, t

(* rEFIt starts with graphics where there are any. *)
LEMMA InitScreenDoes ==
    ASSUME NEW s, IsScreen(s), M.graphics \in BOOLEAN
    PROVE  LET t == InitScreen(s)
           IN  /\ IsScreen(t) /\ t.allow = M.graphics /\ Lossless(s, t) /\ t.errors = {}
               /\ t.banner = s.banner /\ t.menubg = s.menubg /\ t.tiles = s.tiles
<1> DEFINE u == IF M.graphics THEN [s EXCEPT !.allow = TRUE]
                ELSE SetGraphicsModeEnabled([s EXCEPT !.allow = FALSE], FALSE)
           v == [u EXCEPT !.dirty = TRUE, !.cursor = FALSE]
           t == DrawScreenHeader(v, "Initializing...")
<1>1. IsScreen(u) /\ Keeps(s, u, {"mode", "allow"}) /\ u.allow = M.graphics
  <2>1. CASE M.graphics
    BY <2>1 DEF IsScreen, Keeps, Fields
  <2>2. CASE ~M.graphics
    <3> DEFINE x == [s EXCEPT !.allow = FALSE]
               y == SetGraphicsModeEnabled(x, FALSE)
    <3>1. IsScreen(x) /\ Keeps(s, x, {"allow"}) /\ x.allow = FALSE
      BY DEF IsScreen, Keeps, Fields
    <3>2. u = y
      BY <2>2
    <3> HIDE DEF x
    <3>3. IsScreen(y) /\ Keeps(x, y, {"mode"})
      BY <3>1, SwitchDoes
    <3> HIDE DEF y, u
    <3>4. QED
      BY <2>2, <3>1, <3>2, <3>3 DEF Keeps, Fields
  <2>3. QED
    BY <2>1, <2>2
<1>2. InitScreen(s) = t
  BY DEF InitScreen
<1> HIDE DEF u
<1>3. IsScreen(v) /\ Keeps(u, v, {"dirty", "cursor"})
  BY <1>1 DEF IsScreen, Keeps, Fields
<1> HIDE DEF v
<1>4. /\ IsScreen(t) /\ Keeps(v, t, {"text", "errors", "lost", "gfx"})
      /\ t.errors = {} /\ Lossless(v, t)
  BY <1>3, DrawScreenHeaderDoes
<1> HIDE DEF t
<1>5. QED
  BY <1>1, <1>2, <1>3, <1>4 DEF Keeps, Fields, Lossless

(* A text screen has its title and nothing on it. *)
LEMMA BeginTextScreenDoes ==
    ASSUME NEW s, NEW title, IsScreen(s)
    PROVE  LET t == BeginTextScreen(s, title)
           IN  /\ IsScreen(t)
               /\ Keeps(s, t, {"text", "errors", "lost", "gfx", "mode", "cursor", "error"})
               /\ t.text = [title |-> title, on |-> <<>>] /\ t.error = FALSE
               /\ t.errors = {} /\ Lossless(s, t) /\ (M.control => t.mode = "text")
<1> DEFINE u == DrawScreenHeader(s, title)
           v == SwitchToText(u, FALSE)
           t == [v EXCEPT !.error = FALSE]
<1>1. /\ IsScreen(u) /\ Keeps(s, u, {"text", "errors", "lost", "gfx"})
      /\ u.text = [title |-> title, on |-> <<>>] /\ u.errors = {} /\ Lossless(s, u)
  BY DrawScreenHeaderDoes
<1>2. BeginTextScreen(s, title) = t
  BY DEF BeginTextScreen
<1> HIDE DEF u
<1>3. IsScreen(v) /\ Keeps(u, v, {"mode", "cursor"}) /\ (M.control => v.mode = "text")
  BY <1>1, SwitchToTextDoes
<1> HIDE DEF v
<1>4. IsScreen(t) /\ Keeps(v, t, {"error"}) /\ t.error = FALSE
  BY <1>3 DEF IsScreen, Keeps, Fields
<1> HIDE DEF t
<1>5. Keeps(s, t, {"text", "errors", "lost", "gfx", "mode", "cursor", "error"})
  BY <1>1, <1>3, <1>4 DEF Keeps, Fields
<1>6. t.text = u.text /\ t.errors = u.errors /\ t.lost = u.lost /\ t.mode = v.mode
  BY <1>3, <1>4 DEF Keeps, Fields
<1>7. QED
  BY <1>1, <1>2, <1>3, <1>4, <1>5, <1>6 DEF Lossless

(* A program is given a screen of its kind. *)
LEMMA BeginExternalScreenDoes ==
    ASSUME NEW s, NEW graphics, NEW title, IsScreen(s), s.allow => M.graphics,
           BannerHolds(s, Banner)
    PROVE  LET t == BeginExternalScreen(s, graphics, title)
           IN  /\ IsScreen(t) /\ t.allow = s.allow /\ t.tiles = s.tiles /\ BannerHolds(t, Banner)
               /\ t.error = FALSE /\ t.errors = {} /\ Lossless(s, t)
<1> DEFINE u == IF graphics /\ s.allow
                THEN DrawScreenHeader(BltClearScreen(SwitchToGraphics(s), FALSE), title)
                ELSE SwitchToText(DrawScreenHeader(s, title), TRUE)
           t == [u EXCEPT !.error = FALSE]
<1>1. /\ IsScreen(u) /\ u.allow = s.allow /\ u.tiles = s.tiles /\ BannerHolds(u, Banner)
      /\ u.errors = {} /\ Lossless(s, u)
  <2>1. CASE graphics /\ s.allow
    <3> DEFINE v == SwitchToGraphics(s)
               x == BltClearScreen(v, FALSE)
               y == DrawScreenHeader(x, title)
    <3>1. IsScreen(v) /\ Keeps(s, v, {"mode", "dirty"})
      BY SwitchToGraphicsDoes
    <3>2. u = y
      BY <2>1
    <3> HIDE DEF v, u
    <3>3. BannerHolds(v, Banner)
      BY <3>1 DEF BannerHolds, Keeps, Fields
    <3>4. IsScreen(x) /\ Keeps(v, x, Cleared) /\ BannerHolds(x, Banner) /\ Wipes(v, x)
      BY <2>1, <3>1, <3>3, BltClearScreenDoes
    <3> HIDE DEF x
    <3>5. /\ IsScreen(y) /\ Keeps(x, y, {"text", "errors", "lost", "gfx"})
          /\ y.errors = {} /\ Lossless(x, y)
      BY <3>4, DrawScreenHeaderDoes
    <3> HIDE DEF y
    <3>6. /\ y.allow = s.allow /\ y.tiles = s.tiles /\ y.banner = x.banner /\ y.menubg = x.menubg
          /\ v.errors = s.errors /\ v.lost = s.lost
      BY <3>1, <3>4, <3>5 DEF Keeps, Fields, Cleared
    <3>7. QED
      BY <3>2, <3>4, <3>5, <3>6 DEF BannerHolds, Lossless, Wipes
  <2>2. CASE ~(graphics /\ s.allow)
    <3> DEFINE v == DrawScreenHeader(s, title)
               x == SwitchToText(v, TRUE)
    <3>1. /\ IsScreen(v) /\ Keeps(s, v, {"text", "errors", "lost", "gfx"})
          /\ v.errors = {} /\ Lossless(s, v)
      BY DrawScreenHeaderDoes
    <3>2. u = x
      BY <2>2
    <3> HIDE DEF v, u
    <3>3. IsScreen(x) /\ Keeps(v, x, {"mode", "cursor"})
      BY <3>1, SwitchToTextDoes
    <3> HIDE DEF x
    <3>4. /\ x.allow = s.allow /\ x.tiles = s.tiles /\ x.banner = s.banner /\ x.menubg = s.menubg
          /\ x.errors = v.errors /\ x.lost = v.lost
      BY <3>1, <3>3 DEF Keeps, Fields
    <3>5. QED
      BY <3>1, <3>2, <3>3, <3>4 DEF BannerHolds, Lossless
  <2>3. QED
    BY <2>1, <2>2
<1>2. BeginExternalScreen(s, graphics, title) = t
  BY DEF BeginExternalScreen
<1> HIDE DEF u
<1>3. IsScreen(t) /\ Keeps(u, t, {"error"}) /\ t.error = FALSE
  BY <1>1 DEF IsScreen, Keeps, Fields
<1> HIDE DEF t
<1>4. /\ t.allow = u.allow /\ t.tiles = u.tiles /\ t.banner = u.banner /\ t.menubg = u.menubg
      /\ t.errors = u.errors /\ t.lost = u.lost
  BY <1>3 DEF Keeps, Fields
<1>5. QED
  BY <1>1, <1>2, <1>3, <1>4 DEF BannerHolds, Lossless

------------------------------------------------------------------------------
(* Menus on the screen.                                                       *)

(* What rEFIt's configuration and the computer make of a menu. *)
Look == [graphics |-> M.graphics, control |-> M.control, one |-> OneSurface,
         textonly |-> config.TextOnly, wanted |-> WantsBanner, banner |-> Banner,
         label |-> "label" \notin config.HideUIFlags, about |-> AboutMenu]

LabelOf(w, x, current) ==
    IF w.label THEN Only(<<"label", 0>>, Line(x.entries[current].title, FALSE)) ELSE <<>>
AllLines(x, current) == OnTop(Info(x), Lines(x, current, DOMAIN x.entries))
IconOf(s, x) == IF x.image = NULL THEN <<>>
                ELSE Only(<<"icon", 0>>, OnBackground(x.image, s.menubg))
Body(w, s, main, x, current) ==
    IF main THEN OnTop(Tiles(s, x, current, DOMAIN x.entries), LabelOf(w, x, current))
    ELSE OnTop(Only(<<"title", 0>>, Line(x.title, FALSE)), OnTop(AllLines(x, current), IconOf(s, x)))

Shows(w, s, main, x, current, shot) ==
    /\ w.control /\ ~shot => s.mode = IF s.allow THEN "graphics" ELSE "text"
    /\ s.allow => s.gfx.bg = Under(w.wanted, w.banner) /\ s.dirty = TRUE
    /\ s.allow /\ ~(shot /\ w.one) =>
           s.gfx.on = OnTop(Body(w, s, main, x, current), Top(w.wanted, w.banner))
    /\ ~s.allow /\ ~shot => s.text = [title |-> x.title, on |-> AllLines(x, current)]

(* The tiles are made once. *)
LEMMA InitSelectionDoes ==
    ASSUME NEW s, IsScreen(s)
    PROVE  IsScreen(InitSelection(s)) /\ Keeps(s, InitSelection(s), {"tiles"})
BY DEF InitSelection, IsScreen, Keeps, Fields

(* Before a menu is painted, the graphics screen is shown and clear. *)
LEMMA SwitchAndClearDoes ==
    ASSUME NEW s, IsScreen(s), s.allow, M.graphics, BannerHolds(s, Banner),
           s.dirty \/ IsClear(s, WantsBanner, Banner)
    PROVE  LET t == SwitchToGraphicsAndClear(s)
           IN  /\ IsScreen(t) /\ Keeps(s, t, Cleared \union {"mode"}) /\ BannerHolds(t, Banner)
               /\ Lossless(s, t) /\ IsClear(t, WantsBanner, Banner)
               /\ M.control => t.mode = "graphics"
<1> DEFINE u == SwitchToGraphics(s)
           t == ClearIfDirty(u)
<1>1. /\ IsScreen(u) /\ Keeps(s, u, {"mode", "dirty"})
      /\ ~IsGraphicsModeEnabled(s) => u.dirty = TRUE
      /\ IsGraphicsModeEnabled(s) => u = s
      /\ M.control => u.mode = "graphics"
  BY SwitchToGraphicsDoes
<1>2. SwitchToGraphicsAndClear(s) = t
  BY DEF SwitchToGraphicsAndClear
<1> HIDE DEF u
<1>3. /\ BannerHolds(u, Banner) /\ u.errors = s.errors /\ u.lost = s.lost
      /\ u.dirty \/ IsClear(u, WantsBanner, Banner)
  BY <1>1 DEF Keeps, Fields, BannerHolds, IsClear
<1>4. CASE u.dirty
  <2> DEFINE v == BltClearScreen(u, TRUE)
  <2>1. /\ IsScreen(v) /\ Keeps(u, v, Cleared) /\ BannerHolds(v, Banner)
        /\ Wipes(u, v) /\ IsClear(v, WantsBanner, Banner)
    BY <1>1, <1>3, BltClearScreenDoes
  <2>2. t = v
    BY <1>4 DEF ClearIfDirty
  <2> HIDE DEF v, t
  <2>3. v.mode = u.mode /\ Keeps(s, v, Cleared \union {"mode"})
    BY <1>1, <2>1 DEF Keeps, Fields, Cleared
  <2>4. Lossless(s, v)
    BY <1>3, <2>1 DEF Lossless, Wipes
  <2>5. QED
    BY <1>1, <1>2, <2>1, <2>2, <2>3, <2>4
<1>5. CASE ~u.dirty
  <2>1. t = u
    BY <1>5 DEF ClearIfDirty
  <2> HIDE DEF t
  <2>2. Keeps(s, u, Cleared \union {"mode"}) /\ Lossless(s, u)
    BY <1>1, <1>3 DEF Keeps, Cleared, Lossless
  <2>3. QED
    BY <1>1, <1>2, <1>3, <1>5, <2>1, <2>2
<1>6. QED
  BY <1>4, <1>5

(* Tiles look the same on screens with the same pictures of tiles. *)
LEMMA TilesKeep ==
    ASSUME NEW s, NEW t, NEW x, NEW current, NEW which, s.tiles = t.tiles
    PROVE  Tiles(s, x, current, which) = Tiles(t, x, current, which)
BY DEF Tiles, Base

(* Painting adds to what is there, and dirties it. *)
LEMMA PaintDoes ==
    ASSUME NEW s, NEW painting, IsScreen(s), M.graphics
    PROVE  LET t == Paint(s, painting)
           IN  /\ IsScreen(t) /\ Keeps(s, t, {"gfx", "dirty"}) /\ t.dirty = TRUE
               /\ t.gfx.on = OnTop(painting, s.gfx.on) /\ t.gfx.bg = s.gfx.bg
BY DEF Paint, IsScreen, Keeps, Fields

(* A menu painted on a clear screen is shown there. *)
LEMMA PaintAllDoes ==
    ASSUME NEW s, NEW x, NEW main \in BOOLEAN, NEW current, IsScreen(s), s.allow, M.graphics,
           IsClear(s, WantsBanner, Banner), M.control => s.mode = "graphics"
    PROVE  LET t == PaintAll(s, x, main, current)
           IN  /\ IsScreen(t) /\ Keeps(s, t, {"gfx", "dirty"})
               /\ Shows(Look, t, main, x, current, FALSE)
<1> DEFINE painting == Body(Look, s, main, x, current)
           t == Paint(s, painting)
<1>1. PaintAll(s, x, main, current) = t
  <2>1. CASE main
    BY <2>1 DEF PaintAll, PaintTiles, Body, LabelOf, Label, Look
  <2>2. CASE ~main
    BY <2>2 DEF PaintAll, PaintMenu, Body, AllLines, IconOf
  <2>3. QED
    BY <2>1, <2>2
<1> HIDE DEF painting
<1>2. /\ IsScreen(t) /\ Keeps(s, t, {"gfx", "dirty"}) /\ t.dirty = TRUE
      /\ t.gfx.on = OnTop(painting, s.gfx.on) /\ t.gfx.bg = s.gfx.bg
  BY PaintDoes
<1> HIDE DEF t
<1>3. t.tiles = s.tiles /\ t.menubg = s.menubg /\ t.allow = s.allow /\ t.mode = s.mode
  BY <1>2 DEF Keeps, Fields
<1>4. Tiles(s, x, current, DOMAIN x.entries) = Tiles(t, x, current, DOMAIN x.entries)
  BY <1>3, TilesKeep
<1>5. painting = Body(Look, t, main, x, current)
  BY <1>3, <1>4 DEF painting, Body, IconOf
<1>6. Look.wanted = WantsBanner /\ Look.banner = Banner /\ Look.control = M.control
  BY DEF Look
<1>7. Shows(Look, t, main, x, current, FALSE)
  BY <1>2, <1>3, <1>5, <1>6 DEF Shows, IsClear
<1>8. QED
  BY <1>1, <1>2, <1>7

(* A menu is shown on the console, with nothing else on it. *)
LEMMA TextMenuStyleDoes ==
    ASSUME NEW s, NEW x, NEW main \in BOOLEAN, NEW current, IsScreen(s), ~s.allow
    PROVE  LET t == TextMenuStyle(s, x, current)
           IN  /\ IsScreen(t)
               /\ Keeps(s, t, {"text", "errors", "lost", "gfx", "mode", "cursor", "error"})
               /\ Shows(Look, t, main, x, current, FALSE)
               /\ t.error = FALSE /\ t.errors = {} /\ Lossless(s, t)
<1> DEFINE title == x.title
           u == BeginTextScreen(s, title)
           lines == AllLines(x, current)
           t == [u EXCEPT !.text.on = lines]
<1> HIDE DEF title
<1>1. /\ IsScreen(u)
      /\ Keeps(s, u, {"text", "errors", "lost", "gfx", "mode", "cursor", "error"})
      /\ u.text = [title |-> title, on |-> <<>>] /\ u.error = FALSE
      /\ u.errors = {} /\ Lossless(s, u) /\ (M.control => u.mode = "text")
  BY BeginTextScreenDoes
<1>2. TextMenuStyle(s, x, current) = t
  BY DEF TextMenuStyle, AllLines, title
<1> HIDE DEF u, lines
<1>3. /\ IsScreen(t) /\ Keeps(u, t, {"text"})
      /\ t.text = [u.text EXCEPT !.on = lines]
  BY <1>1 DEF IsScreen, Keeps, Fields
<1> HIDE DEF t
<1>4. t.text = [title |-> title, on |-> lines]
  BY <1>1, <1>3
<1>5. /\ t.allow = s.allow /\ t.mode = u.mode /\ t.error = u.error
      /\ t.errors = u.errors /\ t.lost = u.lost
  BY <1>1, <1>3 DEF Keeps, Fields
<1>6. Keeps(s, t, {"text", "errors", "lost", "gfx", "mode", "cursor", "error"})
  BY <1>1, <1>3 DEF Keeps, Fields
<1>7. Look.control = M.control
  BY DEF Look
<1>8. Shows(Look, t, main, x, current, FALSE)
  BY <1>1, <1>4, <1>5, <1>7 DEF Shows, lines, title
<1>9. QED
  BY <1>1, <1>2, <1>3, <1>5, <1>6, <1>8 DEF Lossless

(* The pictures of tiles on a screen that shows a menu. *)
TilesFor(s, main) == IF s.allow /\ main THEN InitSelection(s).tiles ELSE s.tiles

(* What is left of a screen that shows a menu. *)
LEMMA ShowMenuDoes ==
    ASSUME NEW s, NEW x, NEW main \in BOOLEAN, NEW current, IsScreen(s),
           s.allow => M.graphics, BannerHolds(s, Banner),
           s.allow => s.dirty \/ IsClear(s, WantsBanner, Banner),
           s.errors = {}, ~s.error
    PROVE  LET t == ShowMenu(s, x, main, current)
           IN  /\ IsScreen(t) /\ t.allow = s.allow /\ BannerHolds(t, Banner)
               /\ t.errors = {} /\ t.lost = s.lost /\ ~t.error
               /\ t.tiles = TilesFor(s, main)
               /\ Shows(Look, t, main, x, current, FALSE)
<1>1. CASE ~s.allow
  <2> DEFINE t == TextMenuStyle(s, x, current)
  <2>1. /\ IsScreen(t)
        /\ Keeps(s, t, {"text", "errors", "lost", "gfx", "mode", "cursor", "error"})
        /\ Shows(Look, t, main, x, current, FALSE)
        /\ t.error = FALSE /\ t.errors = {} /\ Lossless(s, t)
    BY <1>1, TextMenuStyleDoes
  <2>2. ShowMenu(s, x, main, current) = t
    BY <1>1 DEF ShowMenu
  <2> HIDE DEF t
  <2>3. /\ t.allow = s.allow /\ t.banner = s.banner /\ t.menubg = s.menubg
        /\ t.tiles = s.tiles
    BY <2>1 DEF Keeps, Fields
  <2>4. QED
    BY <1>1, <2>1, <2>2, <2>3 DEF BannerHolds, Lossless, TilesFor
<1>2. CASE s.allow
  <2> DEFINE u == IF main THEN InitSelection(s) ELSE s
             v == SwitchToGraphicsAndClear(u)
             t == PaintAll(v, x, main, current)
  <2>1. ShowMenu(s, x, main, current) = t
    BY <1>2 DEF ShowMenu
  <2>2. IsScreen(u) /\ Keeps(s, u, {"tiles"})
    BY InitSelectionDoes DEF Keeps
  <2>9. u.tiles = TilesFor(s, main)
    BY <1>2 DEF TilesFor
  <2> HIDE DEF u
  <2>3. /\ u.allow = s.allow /\ BannerHolds(u, Banner) /\ u.errors = {} /\ u.lost = s.lost
        /\ u.error = s.error
        /\ u.dirty \/ IsClear(u, WantsBanner, Banner)
    BY <1>2, <2>2 DEF Keeps, Fields, BannerHolds, IsClear
  <2>4. /\ IsScreen(v) /\ Keeps(u, v, Cleared \union {"mode"}) /\ BannerHolds(v, Banner)
        /\ Lossless(u, v) /\ IsClear(v, WantsBanner, Banner)
        /\ M.control => v.mode = "graphics"
    BY <1>2, <2>2, <2>3, SwitchAndClearDoes
  <2> HIDE DEF v
  <2>5. /\ v.allow = s.allow /\ v.errors = {} /\ v.lost = s.lost /\ v.error = s.error
        /\ v.tiles = u.tiles
    BY <2>3, <2>4 DEF Keeps, Fields, Cleared, Lossless
  <2>6. /\ IsScreen(t) /\ Keeps(v, t, {"gfx", "dirty"})
        /\ Shows(Look, t, main, x, current, FALSE)
    BY <1>2, <2>4, <2>5, PaintAllDoes
  <2> HIDE DEF t
  <2>7. /\ t.allow = v.allow /\ t.banner = v.banner /\ t.menubg = v.menubg
        /\ t.errors = v.errors /\ t.lost = v.lost /\ t.error = v.error /\ t.tiles = v.tiles
    BY <2>6 DEF Keeps, Fields
  <2>8. QED
    BY <2>1, <2>4, <2>5, <2>6, <2>7, <2>9 DEF BannerHolds
<1>3. QED
  BY <1>1, <1>2

(* Painting over what is there. *)
LEMMA OnTopIs ==
    ASSUME NEW new, NEW old
    PROVE  /\ DOMAIN OnTop(new, old) = DOMAIN new \union DOMAIN old
           /\ \A p \in DOMAIN new : OnTop(new, old)[p] = new[p]
           /\ \A p \in DOMAIN old \ DOMAIN new : OnTop(new, old)[p] = old[p]
BY DEF OnTop

(* all is what is seen when new is painted over old.                           *)
Covers(new, old, all) ==
    /\ DOMAIN all = DOMAIN new \union DOMAIN old
    /\ \A p \in DOMAIN new : all[p] = new[p]
    /\ \A p \in DOMAIN old \ DOMAIN new : all[p] = old[p]

(* Painting over a part of what is there gives the whole as it should be. *)
LEMMA Repainted ==
    ASSUME NEW new, NEW old, NEW all, NEW rest, Covers(new, old, all)
    PROVE  OnTop(new, OnTop(old, rest)) = OnTop(all, rest)
<1>c. /\ DOMAIN all = DOMAIN new \union DOMAIN old
      /\ \A p \in DOMAIN new : all[p] = new[p]
      /\ \A p \in DOMAIN old \ DOMAIN new : all[p] = old[p]
  BY DEF Covers
<1> DEFINE both == OnTop(old, rest)
           D == DOMAIN all \union DOMAIN rest
           f(p) == IF p \in DOMAIN new THEN new[p] ELSE both[p]
           g(p) == IF p \in DOMAIN all THEN all[p] ELSE rest[p]
<1>1. /\ DOMAIN both = DOMAIN old \union DOMAIN rest
      /\ \A p \in DOMAIN old : both[p] = old[p]
      /\ \A p \in DOMAIN rest \ DOMAIN old : both[p] = rest[p]
  BY OnTopIs
<1> HIDE DEF both
<1>2. DOMAIN new \union DOMAIN both = D
  BY <1>1, <1>c
<1>3. \A p \in D : f(p) = g(p)
  BY <1>1, <1>c
<1>4. OnTop(new, both) = [p \in D |-> f(p)]
  BY <1>2 DEF OnTop
<1>5. OnTop(all, rest) = [p \in D |-> g(p)]
  BY DEF OnTop
<1> HIDE DEF f, g, D
<1>6. [p \in D |-> f(p)] = [p \in D |-> g(p)]
  BY <1>3
<1>7. QED
  BY <1>4, <1>5, <1>6 DEF both

AreLines(f, x, current, which) ==
    /\ DOMAIN f = {"line"} \X which
    /\ \A k \in which : f[<<"line", k>>] = Line(x.entries[k].title, k = current)

(* The lines of a menu, one by one. *)
LEMMA LinesAre ==
    ASSUME NEW x, NEW current, NEW which
    PROVE  AreLines(Lines(x, current, which), x, current, which)
<1>1. \A k \in which : <<"line", k>> \in {"line"} \X which
  OBVIOUS
<1>2. QED
  BY <1>1 DEF Lines, AreLines

AreTiles(f, s, x, current, which) ==
    /\ DOMAIN f = {"tile"} \X which
    /\ \A k \in which : f[<<"tile", k>>] =
           WithBadge(Base(s, x.entries[k].row, k = current), x.entries[k].image, x.entries[k].badge)

(* The tiles of a menu, one by one. *)
LEMMA TilesAre ==
    ASSUME NEW s, NEW x, NEW current, NEW which
    PROVE  AreTiles(Tiles(s, x, current, which), s, x, current, which)
<1>1. \A k \in which : <<"tile", k>> \in {"tile"} \X which
  OBVIOUS
<1>2. QED
  BY <1>1 DEF Tiles, AreTiles

(* A place of a kind is told by its number. *)
LEMMA Pairs ==
    ASSUME NEW tag, NEW D, NEW p \in {tag} \X D
    PROVE  p[1] = tag /\ p[2] \in D /\ p = <<tag, p[2]>>
OBVIOUS

(* Painting the lines that were and that are selected gives the new menu. *)
LEMMA LinesRepainted ==
    ASSUME NEW x, NEW last \in DOMAIN x.entries, NEW i \in DOMAIN x.entries
    PROVE  /\ OnTop(Lines(x, i, {last, i}), AllLines(x, last)) = AllLines(x, i)
           /\ Covers(Lines(x, i, {last, i}), AllLines(x, last), AllLines(x, i))
<1> DEFINE D == DOMAIN x.entries
           info == Info(x)
           new == Lines(x, i, {last, i})
           old == Lines(x, last, D)
           all == Lines(x, i, D)
           was == AllLines(x, last)
           is == AllLines(x, i)
<1>1. DOMAIN info = {"info"} \X DOMAIN x.info
  BY DEF Info
<1> HIDE DEF D
<1>2. /\ DOMAIN new = {"line"} \X {last, i} /\ DOMAIN old = {"line"} \X D
      /\ DOMAIN all = {"line"} \X D
      /\ \A k \in {last, i} : new[<<"line", k>>] = Line(x.entries[k].title, k = i)
      /\ \A k \in D : old[<<"line", k>>] = Line(x.entries[k].title, k = last)
      /\ \A k \in D : all[<<"line", k>>] = Line(x.entries[k].title, k = i)
  <2>1. AreLines(new, x, i, {last, i}) /\ AreLines(old, x, last, D) /\ AreLines(all, x, i, D)
    BY LinesAre
  <2> HIDE DEF new, old, all
  <2>2. QED
    BY <2>1 DEF AreLines
<1>D. last \in D /\ i \in D
  BY DEF D
<1>3. /\ DOMAIN was = DOMAIN info \union DOMAIN old
      /\ \A p \in DOMAIN info : was[p] = info[p]
      /\ \A p \in DOMAIN old \ DOMAIN info : was[p] = old[p]
  BY OnTopIs DEF AllLines, D
<1>4. /\ DOMAIN is = DOMAIN info \union DOMAIN all
      /\ \A p \in DOMAIN info : is[p] = info[p]
      /\ \A p \in DOMAIN all \ DOMAIN info : is[p] = all[p]
  BY OnTopIs DEF AllLines, D
<1> HIDE DEF info, new, old, all, was, is
<1>5. \A p \in {"line"} \X D : p \notin DOMAIN info
  BY <1>1, "line" # "info"
<1>6. DOMAIN is = DOMAIN new \union DOMAIN was
  BY <1>2, <1>3, <1>4, <1>D
<1>7. ASSUME NEW p \in DOMAIN new PROVE is[p] = new[p]
  <2>1. p[2] \in {last, i} /\ p = <<"line", p[2]>>
    BY <1>2, Pairs
  <2>2. p \in DOMAIN all /\ p \notin DOMAIN info
    BY <1>2, <1>5, <1>D, <2>1
  <2>3. is[p] = all[p]
    BY <1>4, <2>2
  <2>4. all[p] = Line(x.entries[p[2]].title, p[2] = i) /\ new[p] = Line(x.entries[p[2]].title, p[2] = i)
    BY <1>2, <1>D, <2>1
  <2>5. QED
    BY <2>3, <2>4
<1>8. ASSUME NEW p \in DOMAIN was, p \notin DOMAIN new PROVE is[p] = was[p]
  <2>1. CASE p \in DOMAIN info
    BY <1>3, <1>4, <2>1
  <2>2. CASE p \notin DOMAIN info
    <3>1. p \in DOMAIN old
      BY <1>3, <2>2
    <3>2. p[2] \in D /\ p = <<"line", p[2]>>
      BY <1>2, <3>1, Pairs
    <3>3. p[2] # i /\ p[2] # last
      BY <1>2, <1>8, <3>2
    <3>4. all[p] = Line(x.entries[p[2]].title, p[2] = i)
          /\ old[p] = Line(x.entries[p[2]].title, p[2] = last)
      BY <1>2, <3>2
    <3>5. all[p] = old[p]
      BY <3>3, <3>4
    <3>6. QED
      BY <1>2, <1>3, <1>4, <2>2, <3>1, <3>5
  <2>3. QED
    BY <2>1, <2>2
<1>9. OnTop(new, was) = is
  <2>1. OnTop(new, was) = [p \in DOMAIN is |-> IF p \in DOMAIN new THEN new[p] ELSE was[p]]
    BY <1>6 DEF OnTop
  <2>2. is = [p \in DOMAIN is |-> is[p]]
    BY DEF is, AllLines, OnTop
  <2>3. \A p \in DOMAIN is : is[p] = IF p \in DOMAIN new THEN new[p] ELSE was[p]
    BY <1>6, <1>7, <1>8
  <2>4. [p \in DOMAIN is |-> is[p]] =
        [p \in DOMAIN is |-> IF p \in DOMAIN new THEN new[p] ELSE was[p]]
    BY <2>3
  <2>5. QED
    BY <2>1, <2>2, <2>4
<1>10. QED
  BY <1>6, <1>7, <1>8, <1>9 DEF new, was, is, Covers

(* The same for tiles. *)
LEMMA TilesRepainted ==
    ASSUME NEW s, NEW x, NEW last \in DOMAIN x.entries, NEW i \in DOMAIN x.entries
    PROVE  LET D == DOMAIN x.entries
           IN  Covers(Tiles(s, x, i, {last, i}), Tiles(s, x, last, D), Tiles(s, x, i, D))
<1> DEFINE D == DOMAIN x.entries
           new == Tiles(s, x, i, {last, i})
           old == Tiles(s, x, last, D)
           all == Tiles(s, x, i, D)
           tile(k, is) == WithBadge(Base(s, x.entries[k].row, is), x.entries[k].image, x.entries[k].badge)
<1>1. last \in D /\ i \in D
  OBVIOUS
<1> HIDE DEF D
<1>2. AreTiles(new, s, x, i, {last, i}) /\ AreTiles(old, s, x, last, D) /\ AreTiles(all, s, x, i, D)
  BY TilesAre
<1> HIDE DEF new, old, all
<1>3. /\ DOMAIN new = {"tile"} \X {last, i} /\ DOMAIN old = {"tile"} \X D
      /\ DOMAIN all = {"tile"} \X D
      /\ \A k \in {last, i} : new[<<"tile", k>>] = tile(k, k = i)
      /\ \A k \in D : old[<<"tile", k>>] = tile(k, k = last)
      /\ \A k \in D : all[<<"tile", k>>] = tile(k, k = i)
  BY <1>2 DEF AreTiles
<1> HIDE DEF tile
<1>4. DOMAIN all = DOMAIN new \union DOMAIN old
  BY <1>1, <1>3
<1>5. ASSUME NEW p \in DOMAIN new PROVE all[p] = new[p]
  <2>1. p[2] \in {last, i} /\ p = <<"tile", p[2]>>
    BY <1>3, Pairs
  <2>2. all[p] = tile(p[2], p[2] = i) /\ new[p] = tile(p[2], p[2] = i)
    BY <1>1, <1>3, <2>1
  <2>3. QED
    BY <2>2
<1>6. ASSUME NEW p \in DOMAIN old, p \notin DOMAIN new PROVE all[p] = old[p]
  <2>1. p[2] \in D /\ p = <<"tile", p[2]>>
    BY <1>3, Pairs
  <2>2. p[2] # i /\ p[2] # last
    BY <1>3, <1>6, <2>1
  <2>3. all[p] = tile(p[2], p[2] = i) /\ old[p] = tile(p[2], p[2] = last)
    BY <1>3, <2>1
  <2>4. tile(p[2], p[2] = i) = tile(p[2], FALSE) /\ tile(p[2], p[2] = last) = tile(p[2], FALSE)
    BY <2>2
  <2>5. QED
    BY <2>3, <2>4
<1>7. QED
  BY <1>4, <1>5, <1>6 DEF Covers, new, old, all, D

(* What covers one part covers it with more under it, *)
LEMMA CoversUnder ==
    ASSUME NEW new, NEW old, NEW all, NEW rest, Covers(new, old, all)
    PROVE  Covers(new, OnTop(old, rest), OnTop(all, rest))
BY DEF Covers, OnTop

(* with more on top of it, *)
LEMMA CoversOver ==
    ASSUME NEW new, NEW old, NEW all, NEW top, Covers(new, old, all),
           DOMAIN new \intersect DOMAIN top = {}
    PROVE  Covers(new, OnTop(top, old), OnTop(top, all))
BY DEF Covers, OnTop

(* Two paintings, of which one stays apart.                                    *)
LEMMA CoversBoth ==
    ASSUME NEW new, NEW old, NEW all, NEW was, NEW is, Covers(new, old, all),
           DOMAIN all \intersect DOMAIN is = {}, DOMAIN was = DOMAIN is
    PROVE  Covers(OnTop(new, is), OnTop(old, was), OnTop(all, is))
BY DEF Covers, OnTop

(* The whole menu after the selection was painted. *)
LEMMA BodyRepainted ==
    ASSUME NEW s, NEW x, NEW main \in BOOLEAN, NEW last \in DOMAIN x.entries,
           NEW i \in DOMAIN x.entries
    PROVE  Covers(IF main THEN OnTop(Tiles(s, x, i, {last, i}), Label(x, i)) ELSE Lines(x, i, {last, i}),
                  Body(Look, s, main, x, last), Body(Look, s, main, x, i))
<1>1. CASE main
  <2> DEFINE D == DOMAIN x.entries
             new == Tiles(s, x, i, {last, i})
             old == Tiles(s, x, last, D)
             all == Tiles(s, x, i, D)
             was == LabelOf(Look, x, last)
             is == LabelOf(Look, x, i)
  <2>1. Covers(new, old, all)
    BY TilesRepainted
  <2>2. is = Label(x, i)
    BY DEF LabelOf, Label, Look
  <2>3. DOMAIN was = DOMAIN is
    BY DEF LabelOf, Only
  <2>4. DOMAIN is \subseteq {<<"label", 0>>}
    BY DEF LabelOf, Only
  <2>5. AreTiles(all, s, x, i, D)
    BY TilesAre
  <2>6. DOMAIN all = {"tile"} \X D
    BY <2>5 DEF AreTiles
  <2>7. Body(Look, s, main, x, last) = OnTop(old, was) /\ Body(Look, s, main, x, i) = OnTop(all, is)
    BY <1>1 DEF Body
  <2> HIDE DEF D, new, old, all, was, is
  <2>8. DOMAIN all \intersect DOMAIN is = {}
    BY <2>4, <2>6
  <2>9. Covers(OnTop(new, is), OnTop(old, was), OnTop(all, is))
    BY <2>1, <2>3, <2>8, CoversBoth
  <2>10. QED
    BY <1>1, <2>2, <2>7, <2>9 DEF new
<1>2. CASE ~main
  <2> DEFINE new == Lines(x, i, {last, i})
             was == AllLines(x, last)
             is == AllLines(x, i)
             top == Only(<<"title", 0>>, Line(x.title, FALSE))
             icon == IconOf(s, x)
  <2>1. Covers(new, was, is)
    BY LinesRepainted
  <2>2. AreLines(new, x, i, {last, i})
    BY LinesAre
  <2>3. DOMAIN new = {"line"} \X {last, i}
    BY <2>2 DEF AreLines
  <2>4. DOMAIN top = {<<"title", 0>>}
    BY DEF Only
  <2>5. /\ Body(Look, s, main, x, last) = OnTop(top, OnTop(was, icon))
        /\ Body(Look, s, main, x, i) = OnTop(top, OnTop(is, icon))
    BY <1>2 DEF Body
  <2> HIDE DEF new, was, is, top, icon
  <2>6. DOMAIN new \intersect DOMAIN top = {}
    BY <2>3, <2>4
  <2>7. Covers(new, OnTop(was, icon), OnTop(is, icon))
    BY <2>1, CoversUnder
  <2>8. Covers(new, OnTop(top, OnTop(was, icon)), OnTop(top, OnTop(is, icon)))
    BY <2>6, <2>7, CoversOver
  <2>9. QED
    BY <1>2, <2>5, <2>8 DEF new
<1>3. QED
  BY <1>1, <1>2

(* The menu stays on the screen when the selection moves. *)
LEMMA PaintSelectionDoes ==
    ASSUME NEW s, NEW x, NEW main \in BOOLEAN, NEW last \in DOMAIN x.entries,
           NEW i \in DOMAIN x.entries, NEW shot, IsScreen(s), s.allow => M.graphics,
           Shows(Look, s, main, x, last, shot)
    PROVE  LET t == PaintSelection(s, x, main, last, i)
           IN  /\ IsScreen(t) /\ Keeps(s, t, {"text", "gfx", "dirty"})
               /\ Shows(Look, t, main, x, i, shot)
<1>1. CASE s.allow
  <2> DEFINE new == IF main THEN OnTop(Tiles(s, x, i, {last, i}), Label(x, i)) ELSE Lines(x, i, {last, i})
             t == Paint(s, new)
             was == Body(Look, s, main, x, last)
             is == Body(Look, s, main, x, i)
             top == Top(Look.wanted, Look.banner)
  <2>1. PaintSelection(s, x, main, last, i) = t
    BY <1>1 DEF PaintSelection
  <2>2. Covers(new, was, is)
    BY BodyRepainted
  <2> HIDE DEF new
  <2>3. /\ IsScreen(t) /\ Keeps(s, t, {"gfx", "dirty"}) /\ t.dirty = TRUE
        /\ t.gfx.on = OnTop(new, s.gfx.on) /\ t.gfx.bg = s.gfx.bg
    BY <1>1, PaintDoes
  <2> HIDE DEF t
  <2>4. /\ t.tiles = s.tiles /\ t.menubg = s.menubg /\ t.allow = s.allow /\ t.mode = s.mode
        /\ Keeps(s, t, {"text", "gfx", "dirty"})
    BY <2>3 DEF Keeps, Fields
  <2>5. Tiles(s, x, i, DOMAIN x.entries) = Tiles(t, x, i, DOMAIN x.entries)
    BY <2>4, TilesKeep
  <2>6. is = Body(Look, t, main, x, i)
    BY <2>4, <2>5 DEF Body, IconOf
  <2>7. /\ ~(shot /\ Look.one) => s.gfx.on = OnTop(was, top)
        /\ s.gfx.bg = Under(Look.wanted, Look.banner)
    BY <1>1 DEF Shows
  <2> HIDE DEF was, is, top
  <2>8. OnTop(new, OnTop(was, top)) = OnTop(is, top)
    BY <2>2, Repainted
  <2>9. ~(shot /\ Look.one) => t.gfx.on = OnTop(is, top)
    BY <2>3, <2>7, <2>8
  <2>10. Look.control /\ ~shot => t.mode = IF t.allow THEN "graphics" ELSE "text"
    BY <2>4 DEF Shows
  <2>11. Shows(Look, t, main, x, i, shot)
    BY <1>1, <2>3, <2>4, <2>6, <2>7, <2>9, <2>10 DEF Shows, top
  <2>12. QED
    BY <2>1, <2>3, <2>4, <2>11
<1>2. CASE ~s.allow
  <2> DEFINE new == Lines(x, i, {last, i})
             was == AllLines(x, last)
             is == AllLines(x, i)
             t == [s EXCEPT !.text.on = OnTop(new, @)]
  <2>1. PaintSelection(s, x, main, last, i) = t
    BY <1>2 DEF PaintSelection
  <2>2. OnTop(new, was) = is
    BY LinesRepainted
  <2>3. ~shot => s.text = [title |-> x.title, on |-> was]
    BY <1>2 DEF Shows
  <2> HIDE DEF new, was, is
  <2>5. IsScreen(t) /\ Keeps(s, t, {"text"}) /\ t.text = [s.text EXCEPT !.on = OnTop(new, @)]
    BY DEF IsScreen, Keeps, Fields
  <2> HIDE DEF t
  <2>6. ASSUME ~shot PROVE t.text = [title |-> x.title, on |-> is]
    <3> DEFINE title == x.title
    <3> HIDE DEF title
    <3>1. s.text = [title |-> title, on |-> was]
      BY <2>3, <2>6 DEF title
    <3>2. t.text = [title |-> title, on |-> is]
      BY <2>2, <2>5, <3>1
    <3>3. QED
      BY <3>2 DEF title
  <2>7. t.allow = s.allow /\ t.mode = s.mode /\ Keeps(s, t, {"text", "gfx", "dirty"})
    BY <2>5 DEF Keeps, Fields
  <2>8. Look.control /\ ~shot => t.mode = IF t.allow THEN "graphics" ELSE "text"
    BY <2>7 DEF Shows
  <2>9. Shows(Look, t, main, x, i, shot)
    BY <1>2, <2>6, <2>7, <2>8 DEF Shows, is
  <2>10. QED
    BY <2>1, <2>5, <2>7, <2>9
<1>3. QED
  BY <1>1, <1>2

(* A message goes to the console, and to the graphics screen where both are one. *)
LEMMA PrintedDoes ==
    ASSUME NEW s, IsScreen(s)
    PROVE  LET t == Printed(s)
           IN  /\ IsScreen(t) /\ Keeps(s, t, {"text", "gfx"}) /\ t.gfx.bg = s.gfx.bg
               /\ ~OneSurface => t.gfx.on = s.gfx.on
BY DEF Printed, IsScreen, Keeps, Fields

(* A screenshot that fails leaves the menu where it is, below a message. *)
LEMMA ScreenShotFailsDoes ==
    ASSUME NEW s, NEW x, NEW main \in BOOLEAN, NEW i, NEW shot, IsScreen(s),
           Shows(Look, s, main, x, i, shot)
    PROVE  LET t == ScreenShotFails(s)
           IN  IsScreen(t) /\ Keeps(s, t, {"text", "gfx", "mode"}) /\ Shows(Look, t, main, x, i, TRUE)
<1> DEFINE u == Printed(s)
           t == ScreenShotFails(s)
<1>7. /\ IsScreen(u) /\ Keeps(s, u, {"text", "gfx"}) /\ u.gfx.bg = s.gfx.bg
      /\ ~OneSurface => u.gfx.on = s.gfx.on
  BY PrintedDoes
<1>8. t = IF M.graphics THEN SetGraphicsModeEnabled(u, FALSE) ELSE s
  BY DEF ScreenShotFails
<1> HIDE DEF t, u
<1>1. /\ IsScreen(t) /\ Keeps(s, t, {"text", "gfx", "mode"}) /\ t.gfx.bg = s.gfx.bg
      /\ ~OneSurface => t.gfx.on = s.gfx.on
  <2>1. CASE M.graphics
    <3>1. IsScreen(t) /\ Keeps(u, t, {"mode"})
      BY <1>7, <1>8, <2>1, SwitchDoes
    <3>2. QED
      BY <1>7, <3>1 DEF Keeps, Fields
  <2>2. CASE ~M.graphics
    BY <1>8, <2>2 DEF Keeps
  <2>3. QED
    BY <2>1, <2>2
<1>2. /\ t.tiles = s.tiles /\ t.menubg = s.menubg /\ t.allow = s.allow /\ t.dirty = s.dirty
  BY <1>1 DEF Keeps, Fields
<1>9. Look.one = OneSurface
  BY DEF Look
<1>3. Tiles(s, x, i, DOMAIN x.entries) = Tiles(t, x, i, DOMAIN x.entries)
  BY <1>2, TilesKeep
<1>4. Body(Look, s, main, x, i) = Body(Look, t, main, x, i)
  BY <1>2, <1>3 DEF Body, IconOf
<1>5. Shows(Look, t, main, x, i, TRUE)
  BY <1>1, <1>2, <1>4, <1>9 DEF Shows
<1>6. QED
  BY <1>1, <1>5 DEF t

(* SetupScreen is the first to clear to the banner; it settles what is allowed. *)
LEMMA SetupScreenDoes ==
    ASSUME NEW s, IsScreen(s), s.allow = M.graphics, M.graphics \in BOOLEAN, BannerHolds(s, Banner)
    PROVE  LET t == SetupScreen(s)
           IN  /\ IsScreen(t) /\ t.allow = (M.graphics /\ ~config.TextOnly)
               /\ BannerHolds(t, Banner) /\ t.error = s.error /\ t.tiles = s.tiles
               /\ (t.errors = s.errors /\ t.lost = s.lost) \/ (OneSurface /\ Wipes(s, t))
               /\ t.allow => IsClear(t, WantsBanner, Banner)
<1>1. CASE config.TextOnly
  <2> DEFINE u == [s EXCEPT !.allow = FALSE]
             t == SwitchToText(u, FALSE)
  <2>1. IsScreen(u) /\ Keeps(s, u, {"allow"}) /\ u.allow = FALSE
    BY DEF IsScreen, Keeps, Fields
  <2>2. SetupScreen(s) = t
    BY <1>1 DEF SetupScreen
  <2> HIDE DEF u
  <2>3. IsScreen(t) /\ Keeps(u, t, {"mode", "cursor"})
    BY <2>1, SwitchToTextDoes
  <2> HIDE DEF t
  <2>4. /\ t.allow = FALSE /\ t.banner = s.banner /\ t.menubg = s.menubg
        /\ t.errors = s.errors /\ t.lost = s.lost /\ t.error = s.error /\ t.tiles = s.tiles
    BY <2>1, <2>3 DEF Keeps, Fields
  <2>5. QED
    BY <1>1, <2>2, <2>3, <2>4 DEF BannerHolds
<1>2. CASE ~config.TextOnly /\ s.allow
  <2> DEFINE u == SwitchToGraphics(s)
             t == BltClearScreen(u, TRUE)
  <2>1. IsScreen(u) /\ Keeps(s, u, {"mode", "dirty"})
    BY SwitchToGraphicsDoes
  <2>2. SetupScreen(s) = t
    BY <1>2 DEF SetupScreen
  <2> HIDE DEF u
  <2>3. BannerHolds(u, Banner)
    BY <2>1 DEF BannerHolds, Keeps, Fields
  <2>4. /\ IsScreen(t) /\ Keeps(u, t, Cleared) /\ BannerHolds(t, Banner)
        /\ Wipes(u, t) /\ IsClear(t, WantsBanner, Banner)
    BY <1>2, <2>1, <2>3, BltClearScreenDoes
  <2> HIDE DEF t
  <2>5. /\ t.allow = s.allow /\ t.error = s.error /\ t.tiles = s.tiles
        /\ u.errors = s.errors /\ u.lost = s.lost
    BY <2>1, <2>4 DEF Keeps, Fields, Cleared
  <2>6. QED
    BY <1>2, <2>2, <2>4, <2>5 DEF Wipes
<1>3. CASE ~config.TextOnly /\ ~s.allow
  <2>1. SetupScreen(s) = s
    BY <1>3 DEF SetupScreen
  <2>2. QED
    BY <1>3, <2>1
<1>4. QED
  BY <1>1, <1>2, <1>3

------------------------------------------------------------------------------
(* The entries of menus.                                                      *)

IsSeq(s) == \E T : s \in Seq(T)

(* Sequences whose elements are of any kind. *)
LEMMA SeqIs ==
    ASSUME NEW s, IsSeq(s)
    PROVE  Len(s) \in Nat /\ DOMAIN s = 1 .. Len(s) /\ (s # <<>> <=> Len(s) >= 1)
<1>1. PICK S : s \in Seq(S)
  BY DEF IsSeq
<1>2. QED
  BY <1>1

(* The shortest ones. *)
LEMMA SeqOne ==
    ASSUME NEW e
    PROVE  /\ IsSeq(<<>>) /\ DOMAIN <<>> = {}
           /\ IsSeq(<<e>>) /\ Len(<<e>>) = 1 /\ DOMAIN <<e>> = {1} /\ <<e>>[1] = e
<1>1. <<>> \in Seq({}) /\ <<e>> \in Seq({e})
  OBVIOUS
<1>2. IsSeq(<<>>) /\ IsSeq(<<e>>)
  BY <1>1 DEF IsSeq
<1>3. QED
  BY <1>2

(* One more element. *)
LEMMA SeqAppend ==
    ASSUME NEW s, NEW e, IsSeq(s)
    PROVE  /\ IsSeq(Append(s, e)) /\ Len(Append(s, e)) = Len(s) + 1
           /\ \A i \in DOMAIN s : Append(s, e)[i] = s[i]
           /\ Append(s, e)[Len(s) + 1] = e
<1>1. PICK S : s \in Seq(S)
  BY DEF IsSeq
<1>2. s \in Seq(S \union {e})
  BY <1>1
<1>3. Append(s, e) \in Seq(S \union {e})
  BY <1>2
<1>4. IsSeq(Append(s, e))
  BY <1>3 DEF IsSeq
<1>5. QED
  BY <1>2, <1>4

(* One sequence behind another. *)
LEMMA SeqConcat ==
    ASSUME NEW s, NEW t, IsSeq(s), IsSeq(t)
    PROVE  /\ IsSeq(s \o t) /\ Len(s \o t) = Len(s) + Len(t)
           /\ \A i \in DOMAIN s : (s \o t)[i] = s[i]
           /\ \A i \in 1 .. Len(t) : (s \o t)[Len(s) + i] = t[i]
<1>1. PICK S : s \in Seq(S)
  BY DEF IsSeq
<1>2. PICK T : t \in Seq(T)
  BY DEF IsSeq
<1>3. s \in Seq(S \union T) /\ t \in Seq(S \union T)
  BY <1>1, <1>2
<1>4. s \o t \in Seq(S \union T)
  BY <1>3
<1>5. IsSeq(s \o t)
  BY <1>4 DEF IsSeq
<1>6. QED
  BY <1>3, <1>5

(* A sequence or none. *)
LEMMA SeqWhen ==
    ASSUME NEW s, NEW condition, IsSeq(s)
    PROVE  IsSeq(When(condition, s))
BY SeqOne DEF When

(* An entry; a menu behind it has entries of its own.                         *)
IsEntry(e) == "sub" \in DOMAIN e /\ (e.sub # NULL => 1 \in DOMAIN e.sub.entries)

AreEntries(list) == IsSeq(list) /\ \A i \in DOMAIN list : IsEntry(list[i])

(* One entry, and none, are a list of entries. *)
LEMMA OneEntry ==
    ASSUME NEW e, IsEntry(e)
    PROVE  AreEntries(<<e>>)
BY SeqOne DEF AreEntries

LEMMA NoEntries == AreEntries(<<>>)
BY SeqOne DEF AreEntries

(* Lists of entries grow, *)
LEMMA EntryAdded ==
    ASSUME NEW s, NEW e, AreEntries(s), IsEntry(e)
    PROVE  AreEntries(Append(s, e))
<1>0. IsSeq(s)
  BY DEF AreEntries
<1>1. /\ IsSeq(Append(s, e)) /\ Len(Append(s, e)) = Len(s) + 1
      /\ \A i \in DOMAIN s : Append(s, e)[i] = s[i]
      /\ Append(s, e)[Len(s) + 1] = e
  BY <1>0, SeqAppend
<1>2. /\ DOMAIN Append(s, e) = 1 .. Len(Append(s, e))
      /\ Len(s) \in Nat /\ DOMAIN s = 1 .. Len(s)
  BY <1>0, <1>1, SeqIs
<1>3. ASSUME NEW i \in DOMAIN Append(s, e) PROVE IsEntry(Append(s, e)[i])
  <2>1. i \in DOMAIN s \/ i = Len(s) + 1
    BY <1>1, <1>2
  <2>2. QED
    BY <1>1, <2>1 DEF AreEntries
<1>4. QED
  BY <1>1, <1>3 DEF AreEntries

(* are put together, *)
LEMMA EntriesJoined ==
    ASSUME NEW s, NEW t, AreEntries(s), AreEntries(t)
    PROVE  AreEntries(s \o t)
<1>0. IsSeq(s) /\ IsSeq(t)
  BY DEF AreEntries
<1> DEFINE u == s \o t
<1>1. /\ IsSeq(u) /\ Len(u) = Len(s) + Len(t)
      /\ \A i \in DOMAIN s : u[i] = s[i]
      /\ \A i \in 1 .. Len(t) : u[Len(s) + i] = t[i]
  BY <1>0, SeqConcat
<1> HIDE DEF u
<1>2. /\ DOMAIN u = 1 .. Len(u) /\ Len(s) \in Nat /\ DOMAIN s = 1 .. Len(s)
      /\ Len(t) \in Nat /\ DOMAIN t = 1 .. Len(t)
  BY <1>0, <1>1, SeqIs
<1>3. ASSUME NEW i \in DOMAIN u PROVE IsEntry(u[i])
  <2>1. CASE i \in DOMAIN s
    BY <1>1, <2>1 DEF AreEntries
  <2>2. CASE i \notin DOMAIN s
    <3>1. i - Len(s) \in 1 .. Len(t) /\ i = Len(s) + (i - Len(s))
      BY <1>1, <1>2, <2>2
    <3>2. u[i] = t[i - Len(s)]
      BY <1>1, <3>1
    <3>3. QED
      BY <1>2, <3>1, <3>2 DEF AreEntries
  <2>3. QED
    BY <2>1, <2>2
<1>4. QED
  BY <1>1, <1>3 DEF AreEntries, u

(* and left out. *)
LEMMA EntriesWhen ==
    ASSUME NEW s, NEW condition, AreEntries(s)
    PROVE  AreEntries(When(condition, s))
BY NoEntries DEF When

(* What follows the first entry of a submenu.                                 *)
LEMMA SubmenuIs ==
    ASSUME NEW start, NEW others, NEW last, IsSeq(others)
    PROVE  1 \in DOMAIN (<<start>> \o others \o <<last>>)
<1>1. IsSeq(<<start>>) /\ IsSeq(<<last>>) /\ Len(<<start>>) = 1 /\ Len(<<last>>) = 1
  BY SeqOne
<1> DEFINE s == <<start>> \o others
           t == s \o <<last>>
<1>2. IsSeq(s) /\ Len(s) = 1 + Len(others)
  BY <1>1, SeqConcat
<1> HIDE DEF s
<1>3. IsSeq(t) /\ Len(t) = Len(s) + 1
  BY <1>1, <1>2, SeqConcat
<1> HIDE DEF t
<1>4. DOMAIN t = 1 .. Len(t) /\ Len(others) \in Nat
  BY <1>3, SeqIs
<1>5. 1 \in DOMAIN t
  BY <1>2, <1>3, <1>4
<1>6. QED
  BY <1>5 DEF s, t

(* The entries for systems in a boot sector, *)
LEMMA LegacyEntryIs ==
    ASSUME NEW v
    PROVE  IsEntry(LegacyEntry(v))
<1> DEFINE e == LegacyEntry(v)
<1>1. \E x : e.sub.entries = <<x, Return>>
  BY DEF LegacyEntry, Entry
<1>2. "sub" \in DOMAIN e
  BY DEF LegacyEntry, Entry
<1> HIDE DEF e
<1>3. 1 \in DOMAIN e.sub.entries
  BY <1>1
<1>4. QED
  BY <1>2, <1>3 DEF IsEntry, e

(* those with other options, *)
LEMMA OptionsAre ==
    ASSUME NEW start, NEW name, NEW v
    PROVE  IsSeq(MacOptions(start, v)) /\ IsSeq(EliloOptions(start, name)) /\ IsSeq(XomOptions(start, name))
<1>1. \A a, b, c, d : /\ IsSeq(<<a>>) /\ IsSeq(<<a, b>>) /\ IsSeq(<<a, b, c>>) /\ IsSeq(<<a, b, c, d>>)
  <2>1. TAKE a, b, c, d
  <2>2. /\ <<a>> \in Seq({a, b, c, d}) /\ <<a, b>> \in Seq({a, b, c, d})
        /\ <<a, b, c>> \in Seq({a, b, c, d}) /\ <<a, b, c, d>> \in Seq({a, b, c, d})
    OBVIOUS
  <2>3. QED
    BY <2>2 DEF IsSeq
<1>2. IsSeq(EliloOptions(start, name)) /\ IsSeq(XomOptions(start, name))
  BY <1>1 DEF EliloOptions, XomOptions
<1>3. \A s, t : IsSeq(s) /\ IsSeq(t) => IsSeq(s \o t)
  BY SeqConcat
<1>4. \A s, condition : IsSeq(s) => IsSeq(When(condition, s))
  BY SeqWhen
<1>5. IsSeq(MacOptions(start, v))
  BY <1>1, <1>3, <1>4 DEF MacOptions
<1>6. QED
  BY <1>2, <1>5

(* those for loaders with all their options, *)
LEMMA LoaderEntryIs ==
    ASSUME NEW v, NEW loader
    PROVE  IsEntry(LoaderEntry(v, loader))
<1>1. ASSUME NEW f, NEW kind, NEW title, NEW image
      PROVE  IsEntry(EntryFor(f, kind, title, v, image))
  <2> DEFINE name  == f.base \o ".efi"
            start == [Entry("loader", IF kind.name = "mac" THEN "Boot Mac OS X" ELSE "Run " \o name)
                         EXCEPT !.volume = v, !.path = Path(f), !.graphics = kind.graphics]
            others == CASE kind.name = "mac"   -> MacOptions(start, v)
                        [] kind.name = "elilo" -> EliloOptions(start, name)
                        [] kind.name = "xom"   -> XomOptions(start, name)
                        [] OTHER               -> <<>>
            e == EntryFor(f, kind, title, v, image)
  <2>1. {"sub", "title", "badge", "letter", "image", "options"} \subseteq DOMAIN start
    BY DEF Entry
  <2>2. "sub" \in DOMAIN e /\ e.sub.entries = <<start>> \o others \o <<Return>>
    BY <2>1 DEF EntryFor
  <2> HIDE DEF start, e, name
  <2>3. IsSeq(others)
    BY OptionsAre, SeqOne
  <2> HIDE DEF others
  <2>4. 1 \in DOMAIN (<<start>> \o others \o <<Return>>)
    BY <2>3, SubmenuIs
  <2>5. QED
    BY <2>2, <2>4 DEF IsEntry, e
<1>2. QED
  BY <1>1 DEF LoaderEntry

(* those for tools, *)
LEMMA ToolEntriesAre == AreEntries(ToolEntries)
<1>1. \A s, t : AreEntries(s) /\ AreEntries(t) => AreEntries(s \o t)
  BY EntriesJoined
<1>2. \A s, condition : AreEntries(s) => AreEntries(When(condition, s))
  BY EntriesWhen
<1>3. \A e : IsEntry(e) => AreEntries(<<e>>)
  BY OneEntry
<1>4. \A title, letter, path, image : IsEntry(Tool(title, letter, path, image))
  BY DEF Tool, Entry, IsEntry
<1>5. \A title, letter, path, image, options :
         IsEntry([Tool(title, letter, path, image) EXCEPT !.options = options])
  BY DEF Tool, Entry, IsEntry
<1>6. PICK c0, c1, c2, c3, a, b, d :
         /\ ToolEntries = When(c0, When(c1, <<a>>) \o When(c2, <<b>>) \o When(c3, <<d>>))
         /\ IsEntry(a) /\ IsEntry(b) /\ IsEntry(d)
  <2> DEFINE shell == {"efi/refit/apps/shell.efi", "efi/tools/shell.efi"} \intersect M.tools
             path == IF "efi/refit/apps/shell.efi" \in shell THEN "efi/refit/apps/shell.efi"
                     ELSE "efi/tools/shell.efi"
             a == Tool("EFI Shell", "S", path, BuiltinIcon("tool_shell", 48))
             b == Tool("Partitioning Tool", "P", "efi/tools/gptsync.efi", BuiltinIcon("tool_part", 48))
             d == [Tool("Rescue Linux", NULL, "efi/rescue/elilo.efi", BuiltinIcon("tool_rescue", 48))
                      EXCEPT !.options = M.screen]
             c0 == "tools" \notin config.DisableFlags
             c1 == "shell" \notin config.DisableFlags /\ shell # {}
             c2 == "efi/tools/gptsync.efi" \in M.tools
             c3 == M.self /\ "efi/rescue/elilo.efi" \in M.tools
  <2>1. IsEntry(a) /\ IsEntry(b) /\ IsEntry(d)
    BY <1>4, <1>5
  <2>2. ToolEntries = When(c0, When(c1, <<a>>) \o When(c2, <<b>>) \o When(c3, <<d>>))
    BY DEF ToolEntries
  <2> HIDE DEF a, b, d, c0, c1, c2, c3
  <2>3. QED
    BY <2>1, <2>2
<1>7. AreEntries(When(c1, <<a>>)) /\ AreEntries(When(c2, <<b>>)) /\ AreEntries(When(c3, <<d>>))
  BY <1>2, <1>3, <1>6
<1>8. AreEntries(When(c1, <<a>>) \o When(c2, <<b>>) \o When(c3, <<d>>))
  BY <1>1, <1>7
<1>9. QED
  BY <1>2, <1>6, <1>8

(* The fixed entries; there are some when there is nothing else.              *)
LEMMA FixedEntriesAre ==
    ASSUME NEW list
    PROVE  AreEntries(FixedEntries(list)) /\ (list = <<>> => FixedEntries(list) # <<>>)
<1> DEFINE a == Fixed("about", "About rEFIt", "A", "func_about")
           b == Fixed("shutdown", "Shut Down Computer", "U", "func_shutdown")
           c == Fixed("reset", "Restart Computer", "R", "func_reset")
           first == When("funcs" \notin config.HideUIFlags, <<a>>)
           second == When("funcs" \notin config.HideUIFlags \/ list = <<>>, <<b, c>>)
<1>1. IsEntry(a) /\ IsEntry(b) /\ IsEntry(c)
  BY DEF Fixed, Entry, IsEntry
<1>2. FixedEntries(list) = first \o second
  BY DEF FixedEntries
<1> HIDE DEF a, b, c
<1>3. AreEntries(<<b, c>>)
  <2>1. <<b, c>> \in Seq({b, c})
    OBVIOUS
  <2>2. IsSeq(<<b, c>>)
    BY <2>1 DEF IsSeq
  <2>3. QED
    BY <1>1, <2>2 DEF AreEntries
<1>4. AreEntries(first) /\ AreEntries(second)
  BY <1>1, <1>3, OneEntry, EntriesWhen
<1>5. list = <<>> => second = <<b, c>>
  BY DEF When
<1> HIDE DEF first, second
<1>6. IsSeq(first) /\ IsSeq(second)
  BY <1>4 DEF AreEntries
<1>7. Len(first \o second) = Len(first) + Len(second) /\ Len(first) \in Nat
      /\ IsSeq(first \o second)
  BY <1>6, SeqConcat, SeqIs
<1>8. first \o second # <<>> <=> Len(first \o second) >= 1
  BY <1>7, SeqIs
<1>9. list = <<>> => first \o second # <<>>
  BY <1>5, <1>7, <1>8
<1>10. QED
  BY <1>2, <1>4, <1>9, EntriesJoined

(* Digits change nothing else. *)
LEMMA WithDigitsIs ==
    ASSUME NEW list, AreEntries(list)
    PROVE  AreEntries(WithDigits(list)) /\ DOMAIN WithDigits(list) = DOMAIN list
<1> DEFINE new == WithDigits(list)
           f(i) == IF i <= 9 /\ \A k \in 1 .. i : list[k].row = 0
                   THEN [list[i] EXCEPT !.digit = Digits[i]] ELSE list[i]
<1>1. new = [i \in DOMAIN list |-> f(i)]
  BY DEF WithDigits
<1>2. \A i \in DOMAIN list : IsEntry(f(i))
  <2>1. TAKE i \in DOMAIN list
  <2>2. IsEntry(list[i])
    BY DEF AreEntries
  <2> DEFINE e == list[i]
  <2> HIDE DEF e
  <2>3. \A d : IsEntry(e) => IsEntry([e EXCEPT !.digit = d])
    BY DEF IsEntry
  <2>4. f(i) = e \/ f(i) = [e EXCEPT !.digit = Digits[i]]
    BY DEF e
  <2>5. QED
    BY <2>2, <2>3, <2>4 DEF e
<1> HIDE DEF f, new
<1>3. IsSeq(list)
  BY DEF AreEntries
<1>4. Len(list) \in Nat /\ DOMAIN list = 1 .. Len(list)
  BY <1>3, SeqIs
<1>5. DOMAIN new = DOMAIN list /\ \A i \in DOMAIN list : new[i] = f(i)
  BY <1>1
<1>6. new \in Seq({f(i) : i \in DOMAIN list})
  BY <1>1, <1>4
<1>7. IsSeq(new)
  BY <1>6 DEF IsSeq
<1>8. QED
  BY <1>2, <1>5, <1>7 DEF AreEntries, new

(* The main menu is never empty. *)
LEMMA WithFixedIs ==
    ASSUME NEW list, AreEntries(list)
    PROVE  AreEntries(WithFixed(list)) /\ 1 \in DOMAIN WithFixed(list)
<1> DEFINE fixed == FixedEntries(list)
           all == list \o fixed
<1>1. AreEntries(fixed) /\ (list = <<>> => fixed # <<>>)
  BY FixedEntriesAre
<1>2. WithFixed(list) = WithDigits(all)
  BY DEF WithFixed
<1> HIDE DEF fixed
<1>3. AreEntries(all) /\ IsSeq(list) /\ IsSeq(fixed)
  BY <1>1, EntriesJoined DEF AreEntries
<1>4. Len(all) = Len(list) + Len(fixed) /\ IsSeq(all)
  BY <1>3, SeqConcat
<1>5. /\ Len(list) \in Nat /\ Len(fixed) \in Nat /\ DOMAIN all = 1 .. Len(all)
      /\ list # <<>> => Len(list) >= 1
      /\ fixed # <<>> => Len(fixed) >= 1
  BY <1>3, <1>4, SeqIs
<1> HIDE DEF all
<1>6. 1 \in DOMAIN all
  BY <1>1, <1>4, <1>5
<1>7. QED
  BY <1>2, <1>3, <1>6, WithDigitsIs

(* The lowest number of a set is in the set. *)
LEMMA MinOfNaturals ==
    ASSUME NEW S \in SUBSET Nat, S # {}
    PROVE  Min(S) \in S
<1> DEFINE R == OpToRel(<, Nat)
<1>1. IsWellFoundedOn(R, Nat) /\ \A x, y \in Nat : <<y, x>> \in R <=> y < x
  BY NatLessThanWellFounded DEF OpToRel
<1> HIDE DEF R
<1>2. PICK x \in S : \A y \in S : <<y, x>> \notin R
  BY <1>1, WFMin
<1>3. \A y \in S : x \in Nat /\ y \in Nat /\ ~(y < x)
  BY <1>1, <1>2
<1>4. \A y \in S : x <= y
  BY <1>3
<1>5. QED
  BY <1>4 DEF Min

(* The default entry is one of the menu. *)
LEMMA DefaultEntryIs ==
    ASSUME NEW list, AreEntries(list), 1 \in DOMAIN list
    PROVE  DefaultEntry(list) \in DOMAIN list
<1> DEFINE found == {i \in DOMAIN list : Initial(config.DefaultSelection) \in {list[i].digit, list[i].letter}}
<1>1. IsSeq(list)
  BY DEF AreEntries
<1>2. DOMAIN list = 1 .. Len(list) /\ Len(list) \in Nat
  BY <1>1, SeqIs
<1>3. DefaultEntry(list) = IF config.DefaultSelection = NULL \/ found = {} THEN 1 ELSE Min(found)
  BY DEF DefaultEntry
<1>4. found \subseteq DOMAIN list
  OBVIOUS
<1> HIDE DEF found
<1>5. found \in SUBSET Nat
  BY <1>2, <1>4
<1>6. QED
  BY <1>3, <1>4, <1>5, MinOfNaturals

------------------------------------------------------------------------------
(* What comes after a scan.                                                   *)

Scans == {"loaders", "legacy", "tools"}

AreFour(s, a, mid, z) ==
    DOMAIN s = 1 .. 4 /\ s[1] = a /\ s[2] = mid[1] /\ s[3] = mid[2] /\ s[4] = z

(* A list of two steps with one before and one after them. *)
LEMMA FourSteps ==
    ASSUME NEW a, NEW mid, NEW z, IsSeq(mid), Len(mid) = 2
    PROVE  AreFour(<<a>> \o mid \o <<z>>, a, mid, z)
<1> DEFINE h == <<a>>
           l == <<z>>
           s == h \o mid \o l
<1>1. PICK S : mid \in Seq(S)
  BY DEF IsSeq
<1>2. h \in Seq(S \union {a, z}) /\ Len(h) = 1 /\ h[1] = a
  OBVIOUS
<1>3. l \in Seq(S \union {a, z}) /\ Len(l) = 1 /\ l[1] = z
  OBVIOUS
<1>4. mid \in Seq(S \union {a, z})
  BY <1>1
<1> HIDE DEF h, l
<1> DEFINE T == S \union {a, z}
           u == h \o mid
<1>5. u \in Seq(T) /\ Len(u) = Len(h) + Len(mid)
      /\ \A i \in 1 .. Len(h) + Len(mid) : u[i] = IF i <= Len(h) THEN h[i] ELSE mid[i - Len(h)]
  <2> HIDE DEF T
  <2>1. h \in Seq(T) /\ mid \in Seq(T)
    BY <1>2, <1>4 DEF T
  <2>2. QED
    BY <2>1, ConcatProperties
<1>6. s \in Seq(T) /\ Len(s) = Len(u) + Len(l)
      /\ \A i \in 1 .. Len(u) + Len(l) : s[i] = IF i <= Len(u) THEN u[i] ELSE l[i - Len(u)]
  <2>1. l \in Seq(T) /\ s = u \o l /\ u \in Seq(T)
    BY <1>3, <1>5
  <2> HIDE DEF T, u, s
  <2>2. /\ u \o l \in Seq(T) /\ Len(u \o l) = Len(u) + Len(l)
        /\ \A i \in 1 .. Len(u) + Len(l) : (u \o l)[i] = IF i <= Len(u) THEN u[i] ELSE l[i - Len(u)]
    BY <2>1, ConcatProperties
  <2>3. QED
    BY <2>1, <2>2
<1> HIDE DEF u, s, T
<1>7. /\ Len(u) = 3 /\ u[1] = h[1] /\ u[2] = mid[2 - 1] /\ u[3] = mid[3 - 1]
  BY <1>2, <1>5
<1>8. /\ Len(s) = 4 /\ s[1] = u[1] /\ s[2] = u[2] /\ s[3] = u[3] /\ s[4] = l[1]
  <2>1. Len(u) = 3 /\ Len(l) = 1
    BY <1>3, <1>7
  <2>2. \A i \in 1 .. 4 : s[i] = IF i <= 3 THEN u[i] ELSE l[i - 3]
    BY <1>6, <2>1
  <2>3. 1 \in 1 .. 4 /\ 2 \in 1 .. 4 /\ 3 \in 1 .. 4 /\ 4 \in 1 .. 4 /\ 4 - 3 = 1
    OBVIOUS
  <2>4. Len(s) = 4
    BY <1>6, <2>1
  <2>5. s[1] = u[1] /\ s[2] = u[2] /\ s[3] = u[3]
    BY <2>2
  <2>6. \A i \in 1 .. 4 : i = 4 => s[i] = l[1]
    BY <2>2, <2>3
  <2>7. s[4] = l[1]
    BY <2>6
  <2>8. QED
    BY <2>4, <2>5, <2>7
<1>9. DOMAIN s = 1 .. 4
  <2>1. IsSeq(s)
    BY <1>6 DEF IsSeq
  <2>2. DOMAIN s = 1 .. Len(s)
    BY <2>1, SeqIs
  <2>3. QED
    BY <1>8, <2>2
<1>10. s[1] = a /\ s[2] = mid[1] /\ s[3] = mid[2] /\ s[4] = z
  BY <1>2, <1>3, <1>7, <1>8
<1>11. QED
  BY <1>9, <1>10 DEF h, l, s, u, AreFour

(* After scanning volumes come loaders and legacy systems in their order, then tools. *)
LEMMA AfterIs ==
    ASSUME NEW step \in {"volumes", "loaders", "legacy"}
    PROVE  After(step) \in Scans
<1> DEFINE mid == IF config.LegacyFirst THEN <<"legacy", "loaders">> ELSE <<"loaders", "legacy">>
           s == ScanStep
           k == CHOOSE i \in DOMAIN s : s[i] = step
<1>1. ScanStep = <<"volumes">> \o mid \o <<"tools">>
  BY DEF ScanStep
<1>2. IsSeq(mid) /\ Len(mid) = 2 /\ {mid[1], mid[2]} = {"legacy", "loaders"}
  <2>1. CASE config.LegacyFirst
    <3>1. mid = <<"legacy", "loaders">>
      BY <2>1
    <3> HIDE DEF mid
    <3>2. mid \in Seq({"legacy", "loaders"}) /\ Len(mid) = 2 /\ mid[1] = "legacy" /\ mid[2] = "loaders"
      BY <3>1
    <3>3. QED
      BY <3>2 DEF IsSeq
  <2>2. CASE ~config.LegacyFirst
    <3>1. mid = <<"loaders", "legacy">>
      BY <2>2
    <3> HIDE DEF mid
    <3>2. mid \in Seq({"legacy", "loaders"}) /\ Len(mid) = 2 /\ mid[1] = "loaders" /\ mid[2] = "legacy"
      BY <3>1
    <3>3. QED
      BY <3>2 DEF IsSeq
  <2>3. QED
    BY <2>1, <2>2
<1> HIDE DEF mid, s
<1>5. /\ DOMAIN s = 1 .. 4 /\ s[1] = "volumes" /\ s[2] = mid[1] /\ s[3] = mid[2] /\ s[4] = "tools"
  <2>1. AreFour(<<"volumes">> \o mid \o <<"tools">>, "volumes", mid, "tools")
    BY <1>2, FourSteps
  <2>2. AreFour(s, "volumes", mid, "tools")
    BY <1>1, <2>1 DEF s
  <2>3. QED
    BY <2>2 DEF AreFour
<1>6. \E i \in DOMAIN s : s[i] = step
  BY <1>2, <1>5
<1>7. k \in DOMAIN s /\ s[k] = step
  BY <1>6
<1> HIDE DEF k
<1>8. k \in 1 .. 3
  BY <1>5, <1>7
<1>9. s[k + 1] \in Scans
  BY <1>2, <1>5, <1>8 DEF Scans
<1>10. QED
  BY <1>9 DEF After, k, s

(* Only the configuration decides how menus look on a computer. *)
LEMMA LookKept ==
    ASSUME UNCHANGED <<machine, config>>
    PROVE  Look' = Look
BY DEF Look, M, OneSurface, WantsBanner, Banner, EmbeddedBanner, LoadImage, LoadFile, Decoded,
       AboutMenu, BuiltinIcon, LoadIcon, OrDummy, DummyImage, Return

------------------------------------------------------------------------------
(* The inductive invariant.                                                   *)

Start    == {"start", "config", "lines"}
Scanning == {"drivers", "volumes", "relate"} \union Scans
Programs == {"search", "load", "running"}
Late     == Scanning \union {"menu"} \union Programs
ConfigError == "while loading the configuration file"

(* The screen can be painted on: it is clear, or known not to be.             *)
Ready(w, s) == s.allow => s.dirty \/ IsClear(s, w.wanted, w.banner)

ScreenHolds(w, c, s) ==
    /\ IsScreen(s) /\ Noted(s)
    /\ s.lost \subseteq IF w.one THEN {ConfigError} ELSE {}
    /\ c \in Start \union {"setup"} =>
           s.banner = NULL /\ s.menubg = StdBackgroundPixel /\ s.errors \subseteq {ConfigError}
    /\ c \in Start => s.errors = {}
    /\ c \in {"config", "lines", "setup"} => s.allow = w.graphics
    /\ c \in Late => s.allow = (w.graphics /\ ~w.textonly) /\ BannerHolds(s, w.banner)
    /\ c \in Scanning => Ready(w, s)

(* The menu m, where the main menu has the entries of a list.                 *)
MenuOf(w, m, list) == IF m.name = "main" THEN MenuEntries(list)
                      ELSE IF m.name = "about" THEN w.about ELSE list[m.of].sub

IsMenu(m) == {"name", "of", "current", "shot"} \subseteq DOMAIN m

MenuHolds(w, c, s, m, list) ==
    c = "menu" =>
        /\ IsMenu(m) /\ s.errors = {} /\ ~s.error
        /\ m.name \in {"main", "about", "details"}
        /\ m.current \in DOMAIN MenuOf(w, m, list).entries
        /\ Shows(w, s, m.name = "main", MenuOf(w, m, list), m.current, m.shot)

EntriesHold(c, list) ==
    AreEntries(list) /\ (c \in Programs \union {"menu"} => 1 \in DOMAIN list)

BootInv == /\ machine \in DOMAIN Machines /\ pc \in Start \union {"setup", "off"} \union Late
           /\ ScreenHolds(Look, pc, scr) /\ EntriesHold(pc, entries)
           /\ MenuHolds(Look, pc, scr, menu, entries)

(* It holds at the start. *)
LEMMA BootInit == Init => BootInv
<1> SUFFICES ASSUME Init PROVE BootInv
  OBVIOUS
<1> DEFINE s == FirstScreen(Machines[machine])
<1>1. /\ IsScreen(s) /\ s.errors = {} /\ s.lost = {} /\ s.banner = NULL
      /\ s.menubg = StdBackgroundPixel
  BY DEF FirstScreen, IsScreen, Fields, Foreign, Unknown
<1>2. scr = s /\ pc = "start" /\ entries = <<>> /\ machine \in DOMAIN Machines
  BY DEF Init
<1> HIDE DEF s
<1>3. ScreenHolds(Look, pc, scr)
  BY <1>1, <1>2 DEF ScreenHolds, Noted, Start, Late, Scanning, Scans, Programs
<1>4. EntriesHold(pc, entries)
  BY <1>2, NoEntries DEF EntriesHold, Programs
<1>5. MenuHolds(Look, pc, scr, menu, entries)
  BY <1>2 DEF MenuHolds
<1>6. QED
  BY <1>2, <1>3, <1>4, <1>5 DEF BootInv, Start

(* What is to be shown of a step that leaves the configuration alone. *)
LEMMA InvKept ==
    ASSUME BootInv, UNCHANGED <<machine, config>>, pc' \in Start \union {"setup", "off"} \union Late,
           ScreenHolds(Look, pc', scr'), EntriesHold(pc', entries'),
           MenuHolds(Look, pc', scr', menu', entries')
    PROVE  BootInv'
<1>1. Look' = Look
  BY LookKept
<1>2. machine' \in DOMAIN Machines
  BY DEF BootInv
<1>3. (ScreenHolds(Look, pc, scr))' /\ (EntriesHold(pc, entries))'
  BY <1>1
<1>4. (MenuHolds(Look, pc, scr, menu, entries))'
  BY <1>1
<1>5. QED
  BY <1>2, <1>3, <1>4 DEF BootInv

(* What a computer is. *)
LEMMA MachineIs ==
    ASSUME BootInv
    PROVE  /\ M.graphics \in BOOLEAN /\ M.control \in BOOLEAN
           /\ Look.graphics = M.graphics /\ Look.control = M.control /\ Look.one = OneSurface
           /\ Look.textonly = config.TextOnly /\ Look.wanted = WantsBanner
           /\ Look.banner = Banner /\ Look.about = AboutMenu
BY BootAssumption DEF BootInv, M, Look

(* Another message. *)
LEMMA CheckErrorHolds ==
    ASSUME NEW w, NEW c \in Scanning \union Programs \union {"off"}, NEW s, NEW message,
           ScreenHolds(w, c, s)
    PROVE  ScreenHolds(w, c, CheckError(s, message))
<1> DEFINE t == CheckError(s, message)
<1>1. /\ IsScreen(t) /\ Keeps(s, t, {"errors", "error"})
      /\ t.error = TRUE /\ t.errors = s.errors \union {message}
  BY CheckErrorDoes DEF ScreenHolds
<1> HIDE DEF t
<1>2. /\ t.lost = s.lost /\ t.allow = s.allow /\ t.banner = s.banner /\ t.menubg = s.menubg
      /\ t.dirty = s.dirty /\ t.gfx = s.gfx
  BY <1>1 DEF Keeps, Fields
<1>3. /\ Noted(t)
      /\ BannerHolds(s, w.banner) => BannerHolds(t, w.banner)
      /\ Ready(w, s) => Ready(w, t)
  BY <1>1, <1>2 DEF Noted, BannerHolds, Ready, IsClear
<1>4. c \notin Start \union {"setup"}
  BY DEF Start, Scanning, Scans, Programs
<1>5. ScreenHolds(w, c, t)
  BY <1>1, <1>2, <1>3, <1>4 DEF ScreenHolds, Start
<1>6. QED
  BY <1>5 DEF t

(* Among the places where the screen is used alike. *)
LEMMA ScreenMoves ==
    ASSUME NEW w, NEW s, NEW c, NEW d, ScreenHolds(w, c, s),
           \/ c \in Scanning /\ d \in Scanning
           \/ c \in Programs /\ d \in Programs
           \/ c \in {"config", "lines"} /\ d \in {"lines", "setup"}
    PROVE  ScreenHolds(w, d, s)
BY DEF ScreenHolds, Start, Scanning, Scans, Programs, Late

------------------------------------------------------------------------------
(* The steps up to the main menu.                                             *)

(* What the steps need of the invariant. *)
LEMMA InvScreen ==
    ASSUME BootInv
    PROVE  ScreenHolds(Look, pc, scr) /\ EntriesHold(pc, entries) /\ IsScreen(scr)
BY DEF BootInv, ScreenHolds

(* rEFIt starts, or gives up. *)
LEMMA BootSteps ==
    ASSUME BootInv, Boot \/ BootFails
    PROVE  BootInv'
<1> DEFINE s == InitScreen(scr)
<1>1. pc = "start"
  BY DEF Boot, BootFails
<1>2. /\ IsScreen(scr) /\ scr.errors = {} /\ scr.banner = NULL /\ scr.menubg = StdBackgroundPixel
      /\ scr.lost \subseteq IF Look.one THEN {ConfigError} ELSE {}
  BY <1>1, InvScreen DEF ScreenHolds, Start
<1>3. M.graphics \in BOOLEAN /\ Look.graphics = M.graphics
  BY MachineIs
<1>4. /\ IsScreen(s) /\ s.allow = M.graphics /\ Lossless(scr, s) /\ s.errors = {}
      /\ s.banner = scr.banner /\ s.menubg = scr.menubg
  BY <1>2, <1>3, InitScreenDoes
<1>5. EntriesHold("config", entries) /\ EntriesHold("off", entries)
  BY <1>1, InvScreen DEF EntriesHold, Programs
<1> HIDE DEF s
<1>6. s.lost \subseteq IF Look.one THEN {ConfigError} ELSE {}
  BY <1>2, <1>4 DEF Lossless
<1>7. ScreenHolds(Look, "config", s) /\ ScreenHolds(Look, "off", s)
  BY <1>2, <1>3, <1>4, <1>6 DEF ScreenHolds, Noted, Start, Late, Scanning, Scans, Programs
<1>8. CASE Boot
  <2>1. pc' = "config" /\ scr' = s /\ entries' = entries /\ UNCHANGED <<machine, config>>
    BY <1>8 DEF Boot, scanVars, s
  <2>2. ScreenHolds(Look, pc', scr') /\ EntriesHold(pc', entries')
    BY <1>5, <1>7, <2>1
  <2>3. MenuHolds(Look, pc', scr', menu', entries') /\ pc' \in Start
    BY <2>1 DEF MenuHolds, Start
  <2>4. QED
    BY <2>1, <2>2, <2>3, InvKept
<1>9. CASE BootFails
  <2>1. /\ pc' = "off" /\ scr' = CheckError(s, "while opening our installation directory")
        /\ entries' = entries /\ UNCHANGED <<machine, config>>
    BY <1>9 DEF BootFails, scanVars, s
  <2>2. ScreenHolds(Look, pc', scr') /\ EntriesHold(pc', entries')
    BY <1>5, <1>7, <2>1, CheckErrorHolds
  <2>3. MenuHolds(Look, pc', scr', menu', entries')
    BY <2>1 DEF MenuHolds
  <2>4. QED
    BY <2>1, <2>2, <2>3, InvKept
<1>10. QED
  BY <1>8, <1>9

(* The configuration is read, or cannot be. *)
LEMMA ConfigSteps ==
    ASSUME BootInv, ReadConfig \/ NoConfig \/ ConfigFails \/ ConfigDone
    PROVE  BootInv'
<1>1. /\ pc \in {"config", "lines"} /\ entries' = entries /\ UNCHANGED <<machine, config>>
      /\ pc' \in {"lines", "setup"}
  BY DEF ReadConfig, NoConfig, ConfigFails, ConfigDone, scanVars
<1>2. MenuHolds(Look, pc', scr', menu', entries') /\ pc' \in Start \union {"setup"}
  BY <1>1 DEF MenuHolds, Start
<1>3. EntriesHold(pc', entries')
  BY <1>1, InvScreen DEF EntriesHold, Programs
<1>4. ScreenHolds(Look, pc', scr')
  <2> DEFINE told == ConfigFails /\ scr' = CheckError(scr, ConfigError)
  <2>1. CASE told
    <3> DEFINE t == CheckError(scr, ConfigError)
    <3>1. scr' = t /\ pc = "config" /\ pc' = "setup"
      BY <2>1 DEF ConfigFails
    <3>2. ScreenHolds(Look, "config", scr) /\ IsScreen(scr)
      BY <3>1, InvScreen
    <3>3. /\ IsScreen(t) /\ Keeps(scr, t, {"errors", "error"})
          /\ t.error = TRUE /\ t.errors = scr.errors \union {ConfigError}
      BY <3>2, CheckErrorDoes
    <3> HIDE DEF t
    <3>4. t.lost = scr.lost /\ t.allow = scr.allow /\ t.banner = scr.banner /\ t.menubg = scr.menubg
      BY <3>3 DEF Keeps, Fields
    <3>5. /\ scr.errors = {} /\ scr.banner = NULL /\ scr.menubg = StdBackgroundPixel
          /\ scr.allow = Look.graphics /\ scr.lost \subseteq IF Look.one THEN {ConfigError} ELSE {}
      BY <3>2 DEF ScreenHolds, Start
    <3>6. ScreenHolds(Look, "setup", t)
      BY <3>3, <3>4, <3>5 DEF ScreenHolds, Noted, Start, Late, Scanning, Scans, Programs
    <3>7. QED
      BY <3>1, <3>6
  <2>2. CASE ~told
    <3>1. scr' = scr /\ (pc = "config" \/ (pc = "lines" /\ pc' = "setup"))
      BY <2>2 DEF ReadConfig, NoConfig, ConfigDone, ConfigFails, ConfigError
    <3>2. ScreenHolds(Look, pc', scr)
      BY <1>1, <3>1, InvScreen, ScreenMoves
    <3>3. QED
      BY <3>1, <3>2
  <2>3. QED
    BY <2>1, <2>2
<1>5. QED
  BY <1>1, <1>2, <1>3, <1>4, InvKept

(* A line changes the configuration, before anything depends on it.           *)
LEMMA ConfigLineStep ==
    ASSUME BootInv, ReadConfigLine
    PROVE  BootInv'
<1>1. /\ pc = "lines" /\ pc' = "lines" /\ scr' = scr /\ entries' = entries /\ machine' = machine
  BY DEF ReadConfigLine
<1>2. Look.graphics = M.graphics /\ Look.one = OneSurface
  BY DEF Look
<1>3. Look'.graphics = M'.graphics /\ Look'.one = OneSurface'
  BY DEF Look
<1>4. M' = M /\ OneSurface' = OneSurface
  BY <1>1 DEF M, OneSurface
<1>5. \A w : /\ w.graphics = Look.graphics /\ w.one = Look.one
             => ScreenHolds(w, "lines", scr)
  BY <1>1, InvScreen DEF ScreenHolds, Start, Late, Scanning, Scans, Programs
<1>6. ScreenHolds(Look', "lines", scr)
  BY <1>2, <1>3, <1>4, <1>5
<1>7. (ScreenHolds(Look, pc, scr))'
  BY <1>1, <1>6
<1>8. (MenuHolds(Look, pc, scr, menu, entries))'
  BY <1>1 DEF MenuHolds
<1>9. (EntriesHold(pc, entries))'
  BY <1>1, InvScreen
<1>10. machine' \in DOMAIN Machines /\ pc' \in Start
  BY <1>1 DEF BootInv, Start
<1>11. QED
  BY <1>7, <1>8, <1>9, <1>10 DEF BootInv

(* The screen is set up; where there is one surface, a message may go. *)
LEMMA SetUpStep ==
    ASSUME BootInv, SetUpScreen
    PROVE  BootInv'
<1> DEFINE t == SetupScreen(scr)
<1>1. /\ pc = "setup" /\ pc' = "drivers" /\ scr' = t /\ entries' = entries
      /\ UNCHANGED <<machine, config>>
  BY DEF SetUpScreen, scanVars
<1>2. ScreenHolds(Look, "setup", scr) /\ IsScreen(scr)
  BY <1>1, InvScreen
<1>3. /\ Noted(scr) /\ scr.errors \subseteq {ConfigError} /\ scr.banner = NULL
      /\ scr.menubg = StdBackgroundPixel
      /\ scr.allow = Look.graphics /\ scr.lost \subseteq IF Look.one THEN {ConfigError} ELSE {}
  BY <1>2 DEF ScreenHolds
<1>4. /\ M.graphics \in BOOLEAN /\ Look.graphics = M.graphics /\ Look.one = OneSurface
      /\ Look.textonly = config.TextOnly /\ Look.wanted = WantsBanner /\ Look.banner = Banner
  BY MachineIs
<1>5. BannerHolds(scr, Banner)
  BY <1>3 DEF BannerHolds
<1>6. /\ IsScreen(t) /\ t.allow = (M.graphics /\ ~config.TextOnly)
      /\ BannerHolds(t, Banner) /\ t.error = scr.error
      /\ (t.errors = scr.errors /\ t.lost = scr.lost) \/ (OneSurface /\ Wipes(scr, t))
      /\ t.allow => IsClear(t, WantsBanner, Banner)
  BY <1>2, <1>3, <1>4, <1>5, SetupScreenDoes
<1> HIDE DEF t
<1>7. Noted(t) /\ t.lost \subseteq IF Look.one THEN {ConfigError} ELSE {}
  BY <1>3, <1>4, <1>6 DEF Noted, Wipes
<1>8. BannerHolds(t, Look.banner) /\ t.allow = (Look.graphics /\ ~Look.textonly) /\ Ready(Look, t)
  BY <1>4, <1>6 DEF Ready
<1>9. ScreenHolds(Look, "drivers", t)
  BY <1>6, <1>7, <1>8 DEF ScreenHolds, Start
<1>10. EntriesHold(pc', entries')
  BY <1>1, InvScreen DEF EntriesHold, Programs
<1>11. MenuHolds(Look, pc', scr', menu', entries') /\ pc' \in Late
  BY <1>1 DEF MenuHolds, Late, Scanning
<1>12. QED
  BY <1>1, <1>9, <1>10, <1>11, InvKept

(* Drivers and volumes: nothing is painted.                                   *)
LEMMA ScanSteps ==
    ASSUME BootInv,
           \/ StartDriver \/ DriversDone \/ ScanDevice \/ ScanVolumesFails
           \/ VolumesScanned \/ RelateVolume \/ VolumesDone \/ ScanLoader \/ AddLoader \/ LoadersDone \/ ScanLegacy \/ LegacyDone
    PROVE  BootInv'
<1>1. /\ pc \in Scanning /\ pc' \in Scanning /\ pc' # "menu" /\ UNCHANGED <<machine, config>>
  BY AfterIs DEF StartDriver, DriversDone, ScanDevice, ScanVolumesFails, VolumesScanned, RelateVolume,
      VolumesDone, ScanLoader, AddLoader, LoadersDone, ScanLegacy, LegacyDone, Scanning, Scans, scanVars
<1>2. scr' = scr \/ \E message : scr' = CheckError(scr, message)
  BY DEF StartDriver, DriversDone, ScanDevice, ScanVolumesFails, VolumesScanned, RelateVolume,
      VolumesDone, ScanLoader, AddLoader, LoadersDone, ScanLegacy, LegacyDone
<1>3. ScreenHolds(Look, pc', scr)
  <2>1. pc \in Scanning /\ pc' \in Scanning /\ ScreenHolds(Look, pc, scr)
    BY <1>1, InvScreen
  <2>2. \A w, s, c, d : c \in Scanning /\ d \in Scanning /\ ScreenHolds(w, c, s) => ScreenHolds(w, d, s)
    BY ScreenMoves
  <2>3. QED
    BY <2>1, <2>2
<1>4. ScreenHolds(Look, pc', scr')
  BY <1>1, <1>2, <1>3, CheckErrorHolds
<1>5. AreEntries(entries')
  <2>1. AreEntries(entries)
    BY InvScreen DEF EntriesHold
  <2>2. entries' = entries \/ \E e : IsEntry(e) /\ entries' = Append(entries, e)
    BY LoaderEntryIs, LegacyEntryIs DEF StartDriver, DriversDone, ScanDevice, ScanVolumesFails,
       VolumesScanned, RelateVolume, VolumesDone, ScanLoader, AddLoader, LoadersDone, ScanLegacy, LegacyDone, scanVars
  <2>3. QED
    BY <2>1, <2>2, EntryAdded
<1>6. EntriesHold(pc', entries') /\ MenuHolds(Look, pc', scr', menu', entries') /\ pc' \in Late
  BY <1>1, <1>5 DEF EntriesHold, MenuHolds, Late, Scanning, Scans, Programs
<1>7. QED
  BY <1>1, <1>4, <1>6, InvKept

------------------------------------------------------------------------------
(* The menus.                                                                 *)

(* A screen that a menu may be painted on.                                    *)
Settled(w, s) ==
    /\ IsScreen(s) /\ s.lost \subseteq IF w.one THEN {ConfigError} ELSE {}
    /\ s.allow = (w.graphics /\ ~w.textonly) /\ BannerHolds(s, w.banner)

Quiet(s) == s.errors = {} /\ ~s.error

(* A menu may be painted on a screen that is quiet and settled. *)
LEMMA ShowMenuHolds ==
    ASSUME BootInv, NEW s, NEW x, NEW main \in BOOLEAN, NEW current,
           Settled(Look, s), Quiet(s), Ready(Look, s)
    PROVE  LET t == ShowMenu(s, x, main, current)
           IN  /\ ScreenHolds(Look, "menu", t) /\ Quiet(t) /\ Shows(Look, t, main, x, current, FALSE)
               /\ t.allow = s.allow
               /\ t.tiles = TilesFor(s, main)
<1> DEFINE t == ShowMenu(s, x, main, current)
<1>1. /\ M.graphics \in BOOLEAN /\ Look.graphics = M.graphics /\ Look.one = OneSurface
      /\ Look.wanted = WantsBanner /\ Look.banner = Banner
  BY MachineIs
<1>2. /\ IsScreen(s) /\ (s.allow => M.graphics) /\ BannerHolds(s, Banner)
      /\ s.allow => s.dirty \/ IsClear(s, WantsBanner, Banner)
      /\ s.errors = {} /\ ~s.error
  BY <1>1 DEF Settled, Quiet, Ready
<1>3. /\ IsScreen(t) /\ t.allow = s.allow /\ BannerHolds(t, Banner)
      /\ t.errors = {} /\ t.lost = s.lost /\ ~t.error
      /\ t.tiles = TilesFor(s, main)
      /\ Shows(Look, t, main, x, current, FALSE)
  BY <1>2, ShowMenuDoes, Zenon
<1> HIDE DEF t
<1>4. ScreenHolds(Look, "menu", t)
  BY <1>1, <1>3 DEF ScreenHolds, Settled, Noted, Start, Scanning, Scans
<1>5. QED
  BY <1>3, <1>4 DEF Quiet, t

(* The main menu is shown. *)
LEMMA RunMainMenuHolds ==
    ASSUME BootInv, NEW s, NEW list, Settled(Look, s), Quiet(s), Ready(Look, s), RunMainMenu(s, list),
           AreEntries(list), 1 \in DOMAIN list, entries' = list, UNCHANGED <<machine, config>>
    PROVE  BootInv'
<1> DEFINE x == MenuEntries(list)
           current == DefaultEntry(list)
           t == ShowMenu(s, x, TRUE, current)
<1>1. /\ pc' = "menu" /\ scr' = t
      /\ menu' = [name |-> "main", of |-> 0, current |-> current, shot |-> FALSE]
  BY DEF RunMainMenu
<1>2. current \in DOMAIN list
  BY DefaultEntryIs
<1>3. x.entries = list
  BY DEF MenuEntries
<1>4. MenuOf(Look, menu', list) = x
  BY <1>1 DEF MenuOf
<1> HIDE DEF x, current
<1>5. ScreenHolds(Look, "menu", t) /\ Quiet(t) /\ Shows(Look, t, TRUE, x, current, FALSE)
  BY ShowMenuHolds
<1> HIDE DEF t
<1>6. MenuHolds(Look, "menu", t, menu', list)
  <2>1. menu'.name = "main" /\ menu'.current = current /\ menu'.shot = FALSE
    BY <1>1
  <2>2. (menu'.name = "main") = TRUE
    BY <2>1
  <2>3. Shows(Look, t, menu'.name = "main", x, menu'.current, menu'.shot)
    BY <1>5, <2>1, <2>2
  <2>4. IsMenu(menu')
    BY <1>1 DEF IsMenu
  <2>5. QED
    BY <1>2, <1>3, <1>4, <1>5, <2>1, <2>3, <2>4 DEF MenuHolds, Quiet
<1>7. EntriesHold("menu", list) /\ "menu" \in Late
  BY DEF EntriesHold, Late
<1>8. QED
  BY <1>1, <1>5, <1>6, <1>7, InvKept

(* The main menu is shown for the first time. *)
LEMMA ScanToolStep ==
    ASSUME BootInv, ScanTool
    PROVE  BootInv'
<1> DEFINE s == FinishTextScreen(scr)
           all == entries \o ToolEntries
           list == WithFixed(all)
<1>1. /\ pc = "tools" /\ entries' = list /\ RunMainMenu(s, list) /\ UNCHANGED <<machine, config>>
  BY DEF ScanTool
<1>2. ScreenHolds(Look, "tools", scr) /\ IsScreen(scr) /\ AreEntries(entries)
  BY <1>1, InvScreen DEF EntriesHold
<1>3. /\ Noted(scr) /\ scr.lost \subseteq IF Look.one THEN {ConfigError} ELSE {}
      /\ scr.allow = (Look.graphics /\ ~Look.textonly) /\ BannerHolds(scr, Look.banner)
      /\ Ready(Look, scr)
  BY <1>2 DEF ScreenHolds, Late, Scanning, Scans
<1>4. /\ IsScreen(s) /\ Keeps(scr, s, {"mode", "cursor", "errors", "error"})
      /\ s.errors = {} /\ s.error = FALSE
  BY <1>2, <1>3, FinishTextScreenDoes
<1> HIDE DEF s
<1>5. /\ s.lost = scr.lost /\ s.allow = scr.allow /\ s.banner = scr.banner
      /\ s.menubg = scr.menubg /\ s.dirty = scr.dirty /\ s.gfx = scr.gfx
  BY <1>4 DEF Keeps, Fields
<1>6. Settled(Look, s)
  BY <1>3, <1>4, <1>5 DEF Settled, BannerHolds
<1>7. Quiet(s) /\ Ready(Look, s)
  BY <1>3, <1>4, <1>5 DEF Quiet, Ready, IsClear
<1>8. AreEntries(all)
  BY <1>2, ToolEntriesAre, EntriesJoined
<1> HIDE DEF all
<1>9. AreEntries(list) /\ 1 \in DOMAIN list
  BY <1>8, WithFixedIs
<1> HIDE DEF list
<1>10. QED
  BY <1>1, <1>6, <1>7, <1>9, RunMainMenuHolds

(* What holds while a menu is shown. *)
LEMMA InMenu ==
    ASSUME BootInv, pc = "menu"
    PROVE  /\ Settled(Look, scr) /\ Quiet(scr) /\ Ready(Look, scr)
           /\ AreEntries(entries) /\ 1 \in DOMAIN entries /\ IsMenu(menu)
           /\ menu.name \in {"main", "about", "details"} /\ Menu(menu) = MenuOf(Look, menu, entries)
           /\ menu.current \in DOMAIN Menu(menu).entries
           /\ Shows(Look, scr, menu.name = "main", Menu(menu), menu.current, menu.shot)
<1>1. ScreenHolds(Look, "menu", scr) /\ EntriesHold("menu", entries)
      /\ MenuHolds(Look, "menu", scr, menu, entries)
  BY DEF BootInv
<1>2. Settled(Look, scr) /\ AreEntries(entries) /\ 1 \in DOMAIN entries
  BY <1>1 DEF ScreenHolds, EntriesHold, Settled, Late
<1>3. /\ Quiet(scr) /\ IsMenu(menu) /\ menu.name \in {"main", "about", "details"}
      /\ menu.current \in DOMAIN MenuOf(Look, menu, entries).entries
      /\ Shows(Look, scr, menu.name = "main", MenuOf(Look, menu, entries), menu.current, menu.shot)
  BY <1>1 DEF MenuHolds, Quiet
<1>4. Look.about = AboutMenu
  BY MachineIs
<1>5. Menu(menu) = MenuOf(Look, menu, entries)
  <2>1. CASE menu.name = "main"
    BY <2>1 DEF Menu, MenuOf
  <2>2. CASE menu.name = "about"
    BY <1>4, <2>2 DEF Menu, MenuOf
  <2>3. CASE menu.name = "details"
    BY <2>3 DEF Menu, MenuOf
  <2>4. QED
    BY <1>3, <2>1, <2>2, <2>3
<1>6. Ready(Look, scr)
  BY <1>3 DEF Ready, Shows
<1>7. QED
  BY <1>2, <1>3, <1>5, <1>6

(* A menu that stays on the screen. *)
LEMMA MenuStays ==
    ASSUME BootInv, pc = "menu", pc' = "menu", entries' = entries, UNCHANGED <<machine, config>>,
           IsMenu(menu'), menu'.name = menu.name, menu'.of = menu.of, menu'.current \in DOMAIN Menu(menu).entries,
           IsScreen(scr'), Keeps(scr, scr', {"text", "gfx", "dirty", "mode"}),
           Shows(Look, scr', menu.name = "main", Menu(menu), menu'.current, menu'.shot)
    PROVE  BootInv'
<1> DEFINE t == scr'
           m == menu'
           x == Menu(menu)
<1>1. /\ Settled(Look, scr) /\ Quiet(scr) /\ AreEntries(entries) /\ 1 \in DOMAIN entries
      /\ menu.name \in {"main", "about", "details"} /\ x = MenuOf(Look, menu, entries)
  BY InMenu
<1>2. /\ t.errors = scr.errors /\ t.error = scr.error /\ t.lost = scr.lost
      /\ t.allow = scr.allow /\ t.banner = scr.banner /\ t.menubg = scr.menubg
  BY DEF Keeps, Fields
<1>3. IsScreen(t) /\ Shows(Look, t, menu.name = "main", x, m.current, m.shot) /\ m.current \in DOMAIN x.entries
      /\ m.name = menu.name /\ m.of = menu.of /\ IsMenu(m)
  OBVIOUS
<1>4. MenuOf(Look, m, entries) = MenuOf(Look, menu, entries)
  BY <1>3 DEF MenuOf
<1>5. pc' = "menu" /\ entries' = entries /\ scr' = t /\ menu' = m
  OBVIOUS
<1> HIDE DEF t, m, x
<1>6. ScreenHolds(Look, "menu", t)
  BY <1>1, <1>2, <1>3 DEF ScreenHolds, Settled, Quiet, Noted, BannerHolds, Start, Scanning, Scans
<1>7. MenuHolds(Look, "menu", t, m, entries)
  BY <1>1, <1>2, <1>3, <1>4 DEF MenuHolds, Quiet
<1>8. EntriesHold("menu", entries) /\ "menu" \in Late
  BY <1>1 DEF EntriesHold, Late
<1>9. QED
  BY <1>5, <1>6, <1>7, <1>8, InvKept

(* The selection moves. *)
LEMMA SelectStep ==
    ASSUME BootInv, Select
    PROVE  BootInv'
<1> DEFINE x == Menu(menu)
           main == menu.name = "main"
           last == menu.current
<1>1. PICK i \in DOMAIN x.entries \ {last} :
         /\ menu' = [menu EXCEPT !.current = i]
         /\ scr' = PaintSelection(scr, x, main, last, i)
  BY DEF Select
<1>2. pc = "menu" /\ pc' = "menu" /\ entries' = entries /\ UNCHANGED <<machine, config>>
  BY DEF Select, scanVars
<1>3. /\ Settled(Look, scr) /\ last \in DOMAIN x.entries /\ IsMenu(menu)
      /\ Shows(Look, scr, main, x, last, menu.shot)
  BY <1>2, InMenu
<1>4. M.graphics \in BOOLEAN /\ Look.graphics = M.graphics
  BY MachineIs
<1>5. IsScreen(scr) /\ (scr.allow => M.graphics) /\ main \in BOOLEAN
  BY <1>3, <1>4 DEF Settled
<1>6. menu'.name = menu.name /\ menu'.of = menu.of /\ menu'.shot = menu.shot /\ menu'.current = i
  BY <1>1, <1>3 DEF IsMenu
<1>7. IsMenu(menu')
  BY <1>1, <1>3 DEF IsMenu
<1> HIDE DEF x, main, last
<1> DEFINE t == PaintSelection(scr, x, main, last, i)
<1>8. IsScreen(t) /\ Keeps(scr, t, {"text", "gfx", "dirty"}) /\ Shows(Look, t, main, x, i, menu.shot)
  BY <1>1, <1>3, <1>5, PaintSelectionDoes
<1> HIDE DEF t
<1>9. Keeps(scr, t, {"text", "gfx", "dirty", "mode"})
  BY <1>8 DEF Keeps
<1>10. scr' = t
  BY <1>1 DEF t
<1>11. QED
  BY <1>1, <1>2, <1>6, <1>7, <1>8, <1>9, <1>10, MenuStays DEF x, main

(* A screenshot fails. *)
LEMMA ScreenShotStep ==
    ASSUME BootInv, ScreenShot
    PROVE  BootInv'
<1> DEFINE x == Menu(menu)
           main == menu.name = "main"
           t == ScreenShotFails(scr)
<1>1. /\ pc = "menu" /\ pc' = "menu" /\ entries' = entries /\ UNCHANGED <<machine, config>>
      /\ scr' = t /\ menu' = [menu EXCEPT !.shot = TRUE]
  BY DEF ScreenShot, scanVars
<1>2. /\ Settled(Look, scr) /\ menu.current \in DOMAIN x.entries /\ IsMenu(menu)
      /\ Shows(Look, scr, main, x, menu.current, menu.shot)
  BY <1>1, InMenu
<1>3. IsScreen(scr) /\ main \in BOOLEAN
  BY <1>2 DEF Settled
<1>4. menu'.name = menu.name /\ menu'.of = menu.of /\ menu'.current = menu.current
  BY <1>1, <1>2 DEF IsMenu
<1>5. menu'.shot = TRUE /\ IsMenu(menu')
  BY <1>1, <1>2 DEF IsMenu
<1> HIDE DEF x, main
<1>6. IsScreen(t) /\ Keeps(scr, t, {"text", "gfx", "mode"}) /\ Shows(Look, t, main, x, menu.current, TRUE)
  BY <1>2, <1>3, ScreenShotFailsDoes
<1> HIDE DEF t
<1>7. Keeps(scr, t, {"text", "gfx", "dirty", "mode"})
  BY <1>6 DEF Keeps
<1>8. QED
  BY <1>1, <1>2, <1>4, <1>5, <1>6, <1>7, MenuStays DEF x, main

(* Back to the main menu. *)
LEMMA BackStep ==
    ASSUME BootInv, Back
    PROVE  BootInv'
<1>1. pc = "menu" /\ entries' = entries /\ UNCHANGED <<machine, config>> /\ RunMainMenu(scr, entries)
  BY DEF Back, scanVars
<1>2. /\ Settled(Look, scr) /\ Quiet(scr) /\ Ready(Look, scr) /\ AreEntries(entries)
      /\ 1 \in DOMAIN entries
  BY <1>1, InMenu
<1>3. QED
  BY <1>1, <1>2, RunMainMenuHolds

(* One menu opens another. *)
LEMMA MenuOpens ==
    ASSUME BootInv, pc = "menu", pc' = "menu", entries' = entries, UNCHANGED <<machine, config>>,
           NEW m, m.current = 1, m.shot = FALSE, m.name \in {"about", "details"}, IsMenu(m), menu' = m,
           1 \in DOMAIN MenuOf(Look, m, entries).entries,
           scr' = ShowMenu(scr, MenuOf(Look, m, entries), FALSE, 1)
    PROVE  BootInv'
<1> DEFINE x == MenuOf(Look, m, entries)
           t == ShowMenu(scr, x, FALSE, 1)
<1>1. /\ Settled(Look, scr) /\ Quiet(scr) /\ Ready(Look, scr) /\ AreEntries(entries)
      /\ 1 \in DOMAIN entries
  BY InMenu
<1>2. x = MenuOf(Look, m, entries) /\ scr' = t /\ 1 \in DOMAIN x.entries
  OBVIOUS
<1> HIDE DEF x
<1>3. ScreenHolds(Look, "menu", t) /\ Quiet(t) /\ Shows(Look, t, FALSE, x, 1, FALSE)
  BY <1>1, ShowMenuHolds
<1> HIDE DEF t
<1>4. (m.name = "main") = FALSE
  OBVIOUS
<1>5. Shows(Look, t, m.name = "main", x, m.current, m.shot)
  BY <1>3, <1>4
<1>6. MenuHolds(Look, "menu", t, m, entries)
  BY <1>2, <1>3, <1>5 DEF MenuHolds, Quiet
<1>7. EntriesHold("menu", entries) /\ "menu" \in Late
  BY <1>1 DEF EntriesHold, Late
<1>8. QED
  BY <1>2, <1>3, <1>6, <1>7, InvKept

(* The menu behind an entry. *)
LEMMA DetailsStep ==
    ASSUME BootInv, Details
    PROVE  BootInv'
<1> DEFINE of == menu.current
           m == [name |-> "details", of |-> of, current |-> 1, shot |-> FALSE]
<1>1. /\ pc = "menu" /\ pc' = "menu" /\ entries' = entries /\ UNCHANGED <<machine, config>>
      /\ menu.name = "main" /\ Current.sub # NULL
  BY DEF Details, scanVars
<1>2. menu' = m /\ scr' = ShowMenu(scr, Menu(menu'), FALSE, 1)
  BY DEF Details, RunMenu
<1>3. of \in DOMAIN Menu(menu).entries /\ AreEntries(entries)
  BY <1>1, InMenu
<1>4. Menu(menu).entries = entries
  BY <1>1 DEF Menu, MenuEntries
<1>5. Current = entries[of]
  BY <1>4 DEF Current
<1>6. IsEntry(entries[of])
  BY <1>3, <1>4 DEF AreEntries
<1>7. 1 \in DOMAIN entries[of].sub.entries
  BY <1>1, <1>5, <1>6 DEF IsEntry
<1> HIDE DEF of
<1>8. m.name = "details" /\ m.of = of /\ m.current = 1 /\ m.shot = FALSE /\ IsMenu(m)
  BY DEF IsMenu
<1> HIDE DEF m
<1>9. MenuOf(Look, m, entries) = entries[of].sub /\ Menu(m) = entries[of].sub
  BY <1>8 DEF MenuOf, Menu
<1>10. QED
  BY <1>1, <1>2, <1>7, <1>8, <1>9, MenuOpens

(* The menu about rEFIt. *)
LEMMA AboutStep ==
    ASSUME BootInv, About
    PROVE  BootInv'
<1> DEFINE m == [name |-> "about", of |-> 0, current |-> 1, shot |-> FALSE]
<1>1. /\ pc = "menu" /\ pc' = "menu" /\ entries' = entries /\ UNCHANGED <<machine, config>>
  BY DEF About, scanVars
<1>2. menu' = m /\ scr' = ShowMenu(scr, Menu(menu'), FALSE, 1)
  BY DEF About, RunMenu
<1>3. m.name = "about" /\ m.current = 1 /\ m.shot = FALSE /\ IsMenu(m)
  BY DEF IsMenu
<1> HIDE DEF m
<1>4. Look.about = AboutMenu
  BY MachineIs
<1>5. MenuOf(Look, m, entries) = AboutMenu /\ Menu(m) = AboutMenu
  BY <1>3, <1>4 DEF MenuOf, Menu
<1>6. AboutMenu.entries = <<Return>>
  BY DEF AboutMenu
<1>7. 1 \in DOMAIN AboutMenu.entries
  BY <1>6, SeqOne
<1>8. QED
  BY <1>1, <1>2, <1>3, <1>5, <1>7, MenuOpens

(* rEFIt leaves the screen to the firmware. *)
LEMMA LeaveStep ==
    ASSUME BootInv, Leave
    PROVE  BootInv'
<1> DEFINE u == ClearConsole(scr, NULL)
           t == [u EXCEPT !.cursor = TRUE]
<1>1. /\ pc = "menu" /\ pc' = "off" /\ entries' = entries /\ UNCHANGED <<machine, config>>
      /\ scr' = t
  BY DEF Leave, scanVars, TerminateScreen
<1>2. Settled(Look, scr) /\ Quiet(scr) /\ AreEntries(entries)
  BY <1>1, InMenu
<1>3. IsScreen(scr) /\ scr.errors = {} /\ scr.lost \subseteq IF Look.one THEN {ConfigError} ELSE {}
  BY <1>2 DEF Settled, Quiet
<1>4. IsScreen(u) /\ u.errors = {} /\ u.lost = scr.lost \union scr.errors
  BY <1>3, ClearConsoleDoes
<1> HIDE DEF u
<1>5. IsScreen(t) /\ Keeps(u, t, {"cursor"})
  BY <1>4 DEF IsScreen, Keeps, Fields
<1> HIDE DEF t
<1>6. t.errors = {} /\ t.lost = scr.lost
  BY <1>3, <1>4, <1>5 DEF Keeps, Fields
<1>7. ScreenHolds(Look, "off", t)
  BY <1>3, <1>5, <1>6 DEF ScreenHolds, Noted, Start, Late, Scanning, Scans, Programs
<1>8. EntriesHold("off", entries) /\ MenuHolds(Look, "off", t, menu', entries)
  BY <1>2 DEF EntriesHold, MenuHolds, Programs
<1>9. QED
  BY <1>1, <1>7, <1>8, InvKept

------------------------------------------------------------------------------
(* Programs.                                                                  *)

(* The program's screen is up, and the menu is gone. *)
LEMMA ProgramStarts ==
    ASSUME BootInv, NEW t, NEW c \in Programs, Settled(Look, t), Noted(t),
           pc' = c, scr' = t, AreEntries(entries), 1 \in DOMAIN entries, entries' = entries,
           UNCHANGED <<machine, config>>
    PROVE  BootInv'
<1>1. ScreenHolds(Look, c, t)
  BY DEF ScreenHolds, Settled, Start, Scanning, Scans, Programs, Late
<1>2. EntriesHold(c, entries) /\ MenuHolds(Look, c, t, menu', entries) /\ c \in Late
  BY DEF EntriesHold, MenuHolds, Programs, Late
<1>3. QED
  BY <1>1, <1>2, InvKept

(* The screen a program is given still fits the invariant. *)
LEMMA BeginExternalHolds ==
    ASSUME BootInv, pc = "menu", NEW graphics, NEW title
    PROVE  LET t == BeginExternalScreen(scr, graphics, title)
           IN  Settled(Look, t) /\ Noted(t) /\ t.tiles = scr.tiles
<1> DEFINE t == BeginExternalScreen(scr, graphics, title)
<1>1. /\ M.graphics \in BOOLEAN /\ Look.graphics = M.graphics /\ Look.one = OneSurface
      /\ Look.banner = Banner
  BY MachineIs
<1>2. Settled(Look, scr) /\ Quiet(scr)
  BY InMenu
<1>3. IsScreen(scr) /\ (scr.allow => M.graphics) /\ BannerHolds(scr, Banner) /\ scr.errors = {}
  BY <1>1, <1>2 DEF Settled, Quiet
<1>4. /\ IsScreen(t) /\ t.allow = scr.allow /\ t.tiles = scr.tiles /\ BannerHolds(t, Banner)
      /\ t.error = FALSE /\ t.errors = {} /\ Lossless(scr, t)
  BY <1>3, BeginExternalScreenDoes
<1> HIDE DEF t
<1>5. t.lost = scr.lost
  BY <1>3, <1>4 DEF Lossless
<1>6. Settled(Look, t) /\ Noted(t)
  BY <1>1, <1>2, <1>4, <1>5 DEF Settled, Noted
<1>7. QED
  BY <1>4, <1>6 DEF t

(* A loader or a tool is chosen. *)
LEMMA StartLoaderStep ==
    ASSUME BootInv, StartLoader
    PROVE  BootInv'
<1> DEFINE t == BeginExternalScreen(scr, Current.graphics, Current.title)
<1>1. /\ pc = "menu" /\ pc' = "load" /\ scr' = t /\ entries' = entries
      /\ UNCHANGED <<machine, config>>
  BY DEF StartLoader, scanVars
<1>2. AreEntries(entries) /\ 1 \in DOMAIN entries
  BY <1>1, InMenu
<1>3. Settled(Look, t) /\ Noted(t)
  BY <1>1, BeginExternalHolds
<1> HIDE DEF t
<1>4. QED
  BY <1>1, <1>2, <1>3, ProgramStarts DEF Programs

(* The logo of a system changes nothing else. *)
LEMMA ShowLogoHolds ==
    ASSUME NEW s, NEW logo, NEW w, Settled(w, s), Noted(s)
    PROVE  /\ Settled(w, ShowLogo(s, logo)) /\ Noted(ShowLogo(s, logo))
           /\ ShowLogo(s, logo).tiles = s.tiles
<1> DEFINE image == OnBackground(logo, StdBackgroundPixel)
           u == Draw(s, <<"logo", 0>>, image)
           t == [u EXCEPT !.dirty = TRUE]
<1>1. CASE logo = NULL
  BY <1>1 DEF ShowLogo
<1>2. CASE logo # NULL
  <2>1. ShowLogo(s, logo) = t
    BY <1>2 DEF ShowLogo, BltImage
  <2> HIDE DEF image
  <2>2. IsScreen(s)
    BY DEF Settled
  <2>3. IsScreen(u) /\ Keeps(s, u, {"gfx"})
    BY <2>2, DrawDoes
  <2> HIDE DEF u
  <2>4. IsScreen(t) /\ Keeps(u, t, {"dirty"})
    BY <2>3 DEF IsScreen, Keeps, Fields
  <2> HIDE DEF t
  <2>5. /\ t.lost = s.lost /\ t.allow = s.allow /\ t.banner = s.banner /\ t.menubg = s.menubg
        /\ t.errors = s.errors /\ t.error = s.error /\ t.tiles = s.tiles
    BY <2>3, <2>4 DEF Keeps, Fields
  <2>6. QED
    BY <2>1, <2>4, <2>5 DEF Settled, Noted, BannerHolds
<1>3. QED
  BY <1>1, <1>2

(* Nor does a message. *)
LEMMA ErrorSettled ==
    ASSUME NEW w, NEW s, NEW message, Settled(w, s)
    PROVE  /\ Settled(w, CheckError(s, message)) /\ Noted(CheckError(s, message))
           /\ CheckError(s, message).tiles = s.tiles
<1> DEFINE t == CheckError(s, message)
<1>1. /\ IsScreen(t) /\ Keeps(s, t, {"errors", "error"}) /\ t.error = TRUE
  BY CheckErrorDoes DEF Settled
<1> HIDE DEF t
<1>2. /\ t.lost = s.lost /\ t.allow = s.allow /\ t.banner = s.banner /\ t.menubg = s.menubg
      /\ t.tiles = s.tiles
  BY <1>1 DEF Keeps, Fields
<1>3. Settled(w, t) /\ Noted(t)
  BY <1>1, <1>2 DEF Settled, Noted, BannerHolds
<1>4. QED
  BY <1>2, <1>3 DEF t

(* A legacy system is chosen. *)
LEMMA StartLegacyStep ==
    ASSUME BootInv, StartLegacy
    PROVE  BootInv'
<1> DEFINE logo == LoadOSIcon(vols[chosen'.volume].os.icons, "legacy", TRUE)
           u == BeginExternalScreen(scr, TRUE, "Booting Legacy OS")
           t == ShowLogo(u, logo)
<1>1. /\ pc = "menu" /\ pc' = "search" /\ entries' = entries /\ UNCHANGED <<machine, config>>
  BY DEF StartLegacy
<1>2. PICK listed \in BOOLEAN : scr' = CheckListed(t, listed)
  BY DEF StartLegacy
<1> HIDE DEF logo
<1>3. AreEntries(entries) /\ 1 \in DOMAIN entries
  BY <1>1, InMenu
<1>4. Settled(Look, u) /\ Noted(u)
  BY <1>1, BeginExternalHolds
<1> HIDE DEF u
<1>5. Settled(Look, t) /\ Noted(t)
  BY <1>4, ShowLogoHolds
<1> HIDE DEF t
<1>6. Settled(Look, scr') /\ Noted(scr')
  BY <1>2, <1>5, ErrorSettled DEF CheckListed
<1>7. QED
  BY <1>1, <1>3, <1>6, ProgramStarts DEF Programs

(* What holds from the choice of a program to its return. *)
LEMMA InProgram ==
    ASSUME BootInv, pc \in Programs
    PROVE  Settled(Look, scr) /\ Noted(scr) /\ AreEntries(entries) /\ 1 \in DOMAIN entries
BY DEF BootInv, ScreenHolds, EntriesHold, Settled, Late

(* Looking for a loader and loading it paint nothing. *)
LEMMA LoadSteps ==
    ASSUME BootInv, SearchLoader \/ AddHardcoded \/ LoadProgram
    PROVE  BootInv'
<1>1. /\ pc \in Programs /\ pc' \in Programs /\ scr' = scr /\ entries' = entries
      /\ UNCHANGED <<machine, config>>
  BY DEF SearchLoader, AddHardcoded, LoadProgram, scanVars, Programs
<1>2. Settled(Look, scr) /\ Noted(scr) /\ AreEntries(entries) /\ 1 \in DOMAIN entries
  BY <1>1, InProgram
<1>3. QED
  BY <1>1, <1>2, ProgramStarts

(* Back to the main menu, from a screen s. *)
LEMMA ReturnedHolds ==
    ASSUME BootInv, NEW s, Settled(Look, s), Noted(s), AreEntries(entries), 1 \in DOMAIN entries, Returned(s)
    PROVE  BootInv'
<1> DEFINE t == FinishExternalScreen(s)
<1>1. RunMainMenu(t, entries) /\ entries' = entries /\ UNCHANGED <<machine, config>>
  BY DEF Returned, scanVars
<1>2. /\ IsScreen(t) /\ Keeps(s, t, {"mode", "cursor", "errors", "error", "dirty"})
      /\ t.errors = {} /\ t.error = FALSE /\ t.dirty = TRUE
  BY FinishExternalScreenDoes DEF Settled
<1> HIDE DEF t
<1>3. t.lost = s.lost /\ t.allow = s.allow /\ t.banner = s.banner /\ t.menubg = s.menubg
  BY <1>2 DEF Keeps, Fields
<1>4. Settled(Look, t) /\ Quiet(t) /\ Ready(Look, t)
  BY <1>2, <1>3 DEF Settled, Quiet, Ready, BannerHolds
<1>5. QED
  BY <1>1, <1>4, RunMainMenuHolds

(* A program that cannot be loaded. *)
LEMMA LoadFailsStep ==
    ASSUME BootInv, LoadFails
    PROVE  BootInv'
<1> DEFINE s == CheckError(scr, "while loading a program")
<1>1. pc \in Programs /\ Returned(s)
  BY DEF LoadFails, Programs
<1>2. Settled(Look, scr) /\ AreEntries(entries) /\ 1 \in DOMAIN entries
  BY <1>1, InProgram
<1>3. Settled(Look, s) /\ Noted(s)
  BY <1>2, ErrorSettled
<1> HIDE DEF s
<1>4. QED
  BY <1>1, <1>2, <1>3, ReturnedHolds

(* Whatever a program did to the screen, *)
LEMMA ScreensAfterHold ==
    ASSUME NEW w, NEW s, Settled(w, s), Noted(s), NEW t \in ScreensAfter(s)
    PROVE  Settled(w, t) /\ Noted(t) /\ t.tiles = s.tiles
<1>1. IsScreen(s)
  BY DEF Settled
<1>2. \/ \E mode : t = [s EXCEPT !.mode = mode]
      \/ \E mode : t = [s EXCEPT !.mode = mode, !.text = Foreign, !.gfx = Unknown, !.errors = {}]
  BY DEF ScreensAfter
<1>3. CASE \E mode : t = [s EXCEPT !.mode = mode]
  <2>1. PICK mode : t = [s EXCEPT !.mode = mode]
    BY <1>3
  <2>2. IsScreen(t) /\ Keeps(s, t, {"mode"})
    BY <1>1, <2>1 DEF IsScreen, Keeps, Fields
  <2>3. /\ t.lost = s.lost /\ t.allow = s.allow /\ t.banner = s.banner /\ t.menubg = s.menubg
        /\ t.errors = s.errors /\ t.error = s.error /\ t.tiles = s.tiles
    BY <2>2 DEF Keeps, Fields
  <2>4. QED
    BY <2>2, <2>3 DEF Settled, Noted, BannerHolds
<1>4. CASE \E mode : t = [s EXCEPT !.mode = mode, !.text = Foreign, !.gfx = Unknown, !.errors = {}]
  <2>1. PICK mode : t = [s EXCEPT !.mode = mode, !.text = Foreign, !.gfx = Unknown, !.errors = {}]
    BY <1>4
  <2>2. {"bg", "on"} \subseteq DOMAIN Unknown /\ {"title", "on"} \subseteq DOMAIN Foreign
    BY DEF Unknown, Foreign
  <2>3. /\ IsScreen(t) /\ Keeps(s, t, {"mode", "text", "gfx", "errors"}) /\ t.errors = {}
    BY <1>1, <2>1, <2>2 DEF IsScreen, Keeps, Fields
  <2>4. /\ t.lost = s.lost /\ t.allow = s.allow /\ t.banner = s.banner /\ t.menubg = s.menubg
        /\ t.tiles = s.tiles
    BY <2>3 DEF Keeps, Fields
  <2>5. QED
    BY <2>3, <2>4 DEF Settled, Noted, BannerHolds
<1>5. QED
  BY <1>2, <1>3, <1>4

(* the main menu is shown again behind it. *)
LEMMA ProgramReturnsStep ==
    ASSUME BootInv, ProgramReturns
    PROVE  BootInv'
<1>1. pc \in Programs
  BY DEF ProgramReturns, Programs
<1>2. Settled(Look, scr) /\ Noted(scr) /\ AreEntries(entries) /\ 1 \in DOMAIN entries
  BY <1>1, InProgram
<1>3. PICK s \in ScreensAfter(scr) :
         \E seen \in {s, CheckError(s, "returned from a program")} : Returned(seen)
  BY DEF ProgramReturns
<1>4. Settled(Look, s) /\ Noted(s)
  BY <1>2, ScreensAfterHold
<1>5. PICK seen \in {s, CheckError(s, "returned from a program")} : Returned(seen)
  BY <1>3
<1>6. Settled(Look, seen) /\ Noted(seen)
  BY <1>4, ErrorSettled
<1>7. QED
  BY <1>2, <1>5, <1>6, ReturnedHolds

(* Every step keeps the invariant. *)
LEMMA BootStep == BootInv /\ [Next]_vars => BootInv'
<1> SUFFICES ASSUME BootInv, [Next]_vars PROVE BootInv'
  OBVIOUS
<1>1. CASE UNCHANGED vars
  <2>1. UNCHANGED <<machine, config, pc, scr, entries, menu>>
    BY <1>1 DEF vars, scanVars
  <2>2. /\ pc \in Start \union {"setup", "off"} \union Late /\ ScreenHolds(Look, pc, scr)
        /\ EntriesHold(pc, entries) /\ MenuHolds(Look, pc, scr, menu, entries)
    BY DEF BootInv
  <2>3. QED
    BY <2>1, <2>2, InvKept
<1>2. CASE Boot \/ BootFails
  BY <1>2, BootSteps
<1>3. CASE ReadConfig \/ NoConfig \/ ConfigFails \/ ConfigDone
  BY <1>3, ConfigSteps
<1>4. CASE ReadConfigLine
  BY <1>4, ConfigLineStep
<1>5. CASE SetUpScreen
  BY <1>5, SetUpStep
<1>6. CASE \/ StartDriver \/ DriversDone \/ ScanDevice \/ ScanVolumesFails
           \/ VolumesScanned \/ RelateVolume \/ VolumesDone \/ ScanLoader \/ AddLoader \/ LoadersDone \/ ScanLegacy \/ LegacyDone
  BY <1>6, ScanSteps
<1>7. CASE ScanTool
  BY <1>7, ScanToolStep
<1>8. CASE Select
  BY <1>8, SelectStep
<1>9. CASE ScreenShot
  BY <1>9, ScreenShotStep
<1>10. CASE Back
  BY <1>10, BackStep
<1>11. CASE Details
  BY <1>11, DetailsStep
<1>12. CASE About
  BY <1>12, AboutStep
<1>13. CASE Leave
  BY <1>13, LeaveStep
<1>14. CASE StartLoader
  BY <1>14, StartLoaderStep
<1>15. CASE StartLegacy
  BY <1>15, StartLegacyStep
<1>16. CASE SearchLoader \/ AddHardcoded \/ LoadProgram
  BY <1>16, LoadSteps
<1>17. CASE LoadFails
  BY <1>17, LoadFailsStep
<1>18. CASE ProgramReturns
  BY <1>18, ProgramReturnsStep
<1>19. QED
  BY <1>1, <1>2, <1>3, <1>4, <1>5, <1>6, <1>7, <1>8, <1>9, <1>10, <1>11, <1>12, <1>13, <1>14,
     <1>15, <1>16, <1>17, <1>18 DEF Next

(* Screen, menu and entries fit each other wherever rEFIt is (RefitMain): what *)
(* is painted, what GraphicsScreenDirty and haveError say of it, and what is to *)
(* be seen, but for the surface on which a screenshot that failed has printed. *)
THEOREM BootInvariant == Spec => []BootInv
<1>1. Init => BootInv
  BY BootInit
<1>2. BootInv /\ [Next]_vars => BootInv'
  BY BootStep
<1>3. QED
  BY <1>1, <1>2, PTL DEF Spec

(* What the invariant says of messages. *)
LEMMA InvSeesErrors == BootInv => ErrorsAreSeen
<1> SUFFICES ASSUME BootInv PROVE ErrorsAreSeen
  OBVIOUS
<1>1. scr.lost \subseteq IF Look.one THEN {ConfigError} ELSE {}
  BY DEF BootInv, ScreenHolds
<1>2. Look.one = OneSurface
  BY MachineIs
<1>3. pc = "menu" => scr.errors = {} /\ ~scr.error
  BY InMenu DEF Quiet
<1>4. QED
  BY <1>1, <1>2, <1>3 DEF ErrorsAreSeen, ConfigError

(* No message about an error is cleared before there was time to read it *)
(* (FinishTextScreen, FinishExternalScreen), but for the one about the *)
(* configuration where text and graphics share the screen (SetupScreen). *)
THEOREM BootErrorsAreSeen == Spec => []ErrorsAreSeen
<1>1. Spec => []BootInv
  BY BootInvariant
<1>2. BootInv => ErrorsAreSeen
  BY InvSeesErrors
<1>3. QED
  BY <1>1, <1>2, PTL

(* What the invariant says of menus. *)
LEMMA InvShowsMenu == BootInv /\ BannerIsRead => MenuIsShown
<1> SUFFICES ASSUME BootInv, BannerIsRead, pc = "menu" PROVE MenuIsShown
  BY DEF MenuIsShown
<1> DEFINE w == Look
           x == Menu(menu)
           main == menu.name = "main"
           current == menu.current
           top == Top(w.wanted, w.banner)
<1>1. /\ w.graphics = M.graphics /\ w.control = M.control /\ w.textonly = config.TextOnly
      /\ w.wanted = WantsBanner /\ w.banner = ShownBanner /\ M.graphics \in BOOLEAN
  BY MachineIs DEF BannerIsRead
<1>2. w.label = ("label" \notin config.HideUIFlags)
  BY DEF Look
<1>3. Settled(w, scr) /\ Shows(w, scr, main, x, current, menu.shot)
  BY InMenu
<1>4. scr.allow = (M.graphics /\ ~config.TextOnly)
  BY <1>1, <1>3 DEF Settled
<1>5. ShowsGraphics = scr.allow
  BY <1>1, <1>4 DEF ShowsGraphics
<1>6. M.control /\ ~menu.shot => scr.mode = IF scr.allow THEN "graphics" ELSE "text"
  BY <1>1, <1>3 DEF Shows
<1>7. /\ top = IF WantsBanner /\ ShownBanner # NULL THEN Only(BannerPlace, ShownBanner) ELSE <<>>
      /\ Under(w.wanted, w.banner) = IF WantsBanner /\ ShownBanner # NULL THEN ShownBanner.PixelData[<<0, 0>>]
                                     ELSE StdBackgroundPixel
  BY <1>1 DEF Top, Under
<1>8. LabelOf(w, x, current) = Label(x, current)
  BY <1>2 DEF LabelOf, Label
<1>9. Body(w, scr, main, x, current) =
        IF main THEN OnTop(Tiles(scr, x, current, DOMAIN x.entries), Label(x, current))
        ELSE OnTop(Only(<<"title", 0>>, Line(x.title, FALSE)), OnTop(AllLines(x, current), IconOf(scr, x)))
  BY <1>8 DEF Body
<1>10. /\ scr.allow => scr.gfx.bg = Under(w.wanted, w.banner)
       /\ scr.allow /\ ~MessageOnMenu => scr.gfx.on = OnTop(Body(w, scr, main, x, current), top)
  BY <1>1, <1>3 DEF Shows, MessageOnMenu, Look
<1>11. ~scr.allow /\ ~MessageOnMenu => scr.text = [title |-> x.title, on |-> AllLines(x, current)]
  BY <1>3, <1>5 DEF Shows, MessageOnMenu
<1> HIDE DEF w, x, main, current, top
<1>12. QED
  BY <1>4, <1>5, <1>6, <1>7, <1>9, <1>10, <1>11
     DEF MenuIsShown, WantsBanner, AllLines, IconOf, x, main, current

(* While a menu waits for a key, it is what is to be seen, in the right mode, *)
(* with every entry and only the selected one marked, and nothing that a program *)
(* or a message left (SwitchToGraphicsAndClear, GraphicsScreenDirty, PaintSelection), *)
(* if the banner is read as its file shows it. A screenshot that fails spoils the *)
(* menu it is taken of, and none that is painted after it. *)
THEOREM BootMenuIsShown == Spec /\ []BannerIsRead => []MenuIsShown
<1>1. Spec => []BootInv
  BY BootInvariant
<1>2. BootInv /\ BannerIsRead => MenuIsShown
  BY InvShowsMenu
<1>3. QED
  BY <1>1, <1>2, PTL

------------------------------------------------------------------------------
(* Where the legacy loader is looked for.                                     *)

Room == MaxPaths - 1

(* Where the first images were loaded from. *)
Found(ranges, k) == {ranges[i] : i \in 1 .. k} \ {NULL}

(* The list after the first images: each place once, and all, or as many as there is room for. *)
Discovering(ranges, list, k) ==
    /\ list \in Seq(Places) /\ Len(list) <= Room
    /\ \A i, j \in DOMAIN list : list[i] = list[j] => i = j
    /\ ToSet(list) \subseteq Found(ranges, k)
    /\ ToSet(list) = Found(ranges, k) \/ Len(list) = Room

(* The list starts empty. *)
LEMMA NothingSearched ==
    ASSUME NEW ranges
    PROVE  Discovering(ranges, <<>>, 0)
<1>1. <<>> \in Seq(Places) /\ Len(<<>>) = 0 /\ DOMAIN <<>> = {} /\ Room >= 0
  BY BootAssumption DEF Room
<1>2. ToSet(<<>>) = {}
  BY <1>1 DEF ToSet
<1>3. Found(ranges, 0) = {}
  BY DEF Found
<1>4. QED
  BY <1>1, <1>2, <1>3 DEF Discovering

(* One more image was looked at. *)
LEMMA SearchedOne ==
    ASSUME NEW ranges \in Seq(Places \union {NULL}), NEW list, NEW n \in DOMAIN ranges,
           Discovering(ranges, list, n - 1)
    PROVE  Discovering(ranges, Discovered(list, ranges[n]), n)
<1> DEFINE r == ranges[n]
           old == Found(ranges, n - 1)
           new == Found(ranges, n)
           t == Append(list, r)
<1>1. /\ list \in Seq(Places) /\ Len(list) <= Room
      /\ \A i, j \in DOMAIN list : list[i] = list[j] => i = j
      /\ ToSet(list) \subseteq old /\ (ToSet(list) = old \/ Len(list) = Room)
  BY DEF Discovering
<1>2. n \in Nat \ {0} /\ r \in Places \union {NULL} /\ Room \in Nat /\ Room = MaxPaths - 1
  BY BootAssumption DEF Room
<1>3. 1 .. n = (1 .. n - 1) \union {n}
  BY <1>2
<1>4. new = old \union ({r} \ {NULL})
  BY <1>3 DEF Found
<1> HIDE DEF r, old, new
<1>5. CASE r = NULL \/ Len(list) = Room \/ r \in ToSet(list)
  <2>1. Discovered(list, r) = list
    BY <1>2, <1>5 DEF Discovered
  <2>2. ToSet(list) \subseteq new /\ (ToSet(list) = new \/ Len(list) = Room)
    BY <1>1, <1>4, <1>5
  <2>3. Discovering(ranges, list, n)
    BY <1>1, <2>2 DEF Discovering, new
  <2>4. QED
    BY <2>1, <2>3 DEF r
<1>6. CASE ~(r = NULL \/ Len(list) = Room \/ r \in ToSet(list))
  <2>1. Discovered(list, r) = t /\ r \in Places
    BY <1>2, <1>6 DEF Discovered
  <2>2. /\ t \in Seq(Places) /\ Len(t) = Len(list) + 1
        /\ \A i \in 1 .. Len(list) : t[i] = list[i]
        /\ t[Len(list) + 1] = r
    BY <1>1, <2>1, AppendProperties
  <2>3. /\ DOMAIN t = 1 .. Len(list) + 1 /\ DOMAIN list = 1 .. Len(list) /\ Len(list) \in Nat
    BY <1>1, <2>2
  <2> HIDE DEF t
  <2>4. \A i \in DOMAIN list : list[i] # r
    BY <1>6 DEF ToSet
  <2>5. \A i \in DOMAIN t : (i \in DOMAIN list /\ t[i] = list[i]) \/ (i = Len(list) + 1 /\ t[i] = r)
    BY <2>2, <2>3
  <2>6. \A i, j \in DOMAIN t : t[i] = t[j] => i = j
    BY <1>1, <2>4, <2>5
  <2>7. ToSet(t) = ToSet(list) \union {r}
    <3>1. Len(list) + 1 \in DOMAIN t /\ \A i \in DOMAIN list : i \in DOMAIN t
      BY <2>3
    <3>2. ToSet(list) = {list[i] : i \in DOMAIN list} /\ ToSet(t) = {t[i] : i \in DOMAIN t}
      BY DEF ToSet
    <3>3. {t[i] : i \in DOMAIN t} = {list[i] : i \in DOMAIN list} \union {r}
      BY <2>2, <2>3, <2>5, <3>1
    <3>4. QED
      BY <3>2, <3>3
  <2>8. Len(t) <= Room
    BY <1>1, <1>2, <1>6, <2>2, <2>3
  <2>9. ToSet(t) = new
    BY <1>1, <1>4, <1>6, <2>7
  <2>10. Discovering(ranges, t, n)
    BY <2>2, <2>6, <2>8, <2>9 DEF Discovering, new
  <2>11. QED
    BY <2>1, <2>10 DEF r
<1>7. QED
  BY <1>5, <1>6

(* There are only so many places. *)
LEMMA FoundIsFinite ==
    ASSUME NEW ranges, NEW k \in Nat
    PROVE  IsFiniteSet(Found(ranges, k))
<1> DEFINE all == {ranges[i] : i \in 1 .. k}
           f == [i \in 1 .. k |-> ranges[i]]
<1>1. f \in Surjection(1 .. k, all)
  BY DEF Surjection
<1>2. IsFiniteSet(1 .. k)
  BY FS_Interval
<1> HIDE DEF f
<1>3. IsFiniteSet(all)
  BY <1>1, <1>2, FS_Surjection
<1>4. Found(ranges, k) \in SUBSET all
  BY DEF Found
<1> HIDE DEF all
<1>5. QED
  BY <1>3, <1>4, FS_Subset

(* With room for all, all were found, and each takes one place.               *)
LEMMA AllFound ==
    ASSUME NEW ranges, NEW k \in Nat, NEW list, Discovering(ranges, list, k),
           Cardinality(Found(ranges, k)) <= Room
    PROVE  ToSet(list) = Found(ranges, k) /\ Len(list) = Cardinality(Found(ranges, k))
<1> DEFINE F == Found(ranges, k)
           D == 1 .. Len(list)
<1>1. IsFiniteSet(F) /\ Cardinality(F) \in Nat
  BY FoundIsFinite, FS_CardinalityType
<1>2. /\ list \in Seq(Places) /\ DOMAIN list = D /\ Len(list) \in Nat
      /\ \A i, j \in D : list[i] = list[j] => i = j
      /\ ToSet(list) \subseteq F /\ (ToSet(list) = F \/ Len(list) = Room)
      /\ list = [i \in D |-> list[i]]
  BY DEF Discovering
<1>3. ToSet(list) = {list[i] : i \in D}
  BY <1>2 DEF ToSet
<1>4. Cardinality(D) = Len(list)
  <2>1. \A n \in Nat : Cardinality(1 .. n) = IF 1 > n THEN 0 ELSE n - 1 + 1
    BY FS_Interval
  <2>2. \A n \in Nat : (IF 1 > n THEN 0 ELSE n - 1 + 1) = n
    OBVIOUS
  <2>3. QED
    BY <1>2, <2>1, <2>2
<1>5. Cardinality(F) <= Room /\ Room \in Nat
  BY BootAssumption DEF Room
<1> HIDE DEF F, D
<1>6. list \in Injection(D, F)
  BY <1>2, <1>3 DEF Injection, IsInjective
<1>7. Cardinality(D) <= Cardinality(F) /\ (Cardinality(D) = Cardinality(F) <=> list \in Surjection(D, F))
  BY <1>1, <1>6, FS_Injection
<1>8. ToSet(list) = F
  <2>1. CASE Len(list) = Room
    <3>1. list \in Surjection(D, F)
      BY <1>1, <1>4, <1>5, <1>7, <2>1
    <3>2. QED
      BY <1>3, <3>1 DEF Surjection
  <2>2. QED
    BY <1>2, <2>1
<1>9. list \in Surjection(D, F)
  BY <1>3, <1>6, <1>8 DEF Surjection, Injection
<1>10. QED
  BY <1>4, <1>7, <1>8, <1>9 DEF F

(* Where known firmware has its legacy loader is added, as far as there is room. *)
Finds(found, all) ==
    /\ Len(all) <= Room
    /\ Cardinality(found) + Len(Hardcoded) <= Room => ToSet(all) = found \union ToSet(Hardcoded)
    /\ Cardinality(found) <= Room => found = {all[i] : i \in 1 .. Cardinality(found)}

LEMMA HardcodedAdded ==
    ASSUME NEW ranges, NEW k \in Nat, NEW list, Discovering(ranges, list, k)
    PROVE  Finds(Found(ranges, k), list \o SubSeq(Hardcoded, 1, Min({Len(Hardcoded), Room - Len(list)})))
<1> DEFINE F == Found(ranges, k)
           h == Len(Hardcoded)
           l == Len(list)
           n == Min({h, Room - l})
           s == SubSeq(Hardcoded, 1, n)
           all == list \o s
<1>1. /\ Hardcoded \in Seq(Places) /\ DOMAIN Hardcoded = 1 .. h /\ h \in Nat
      /\ Room \in Nat
  BY BootAssumption DEF Room
<1>2. list \in Seq(Places) /\ DOMAIN list = 1 .. l /\ l \in Nat /\ l <= Room
  BY DEF Discovering
<1>3. /\ Cardinality(F) <= Room => ToSet(list) = F /\ l = Cardinality(F)
      /\ Cardinality(F) \in Nat
  BY AllFound, FoundIsFinite, FS_CardinalityType
<1> HIDE DEF F, h, l
<1>4. n \in {h, Room - l}
  <2>1. Room - l \in Nat
    BY <1>1, <1>2
  <2>2. {h, Room - l} \in SUBSET Nat /\ {h, Room - l} # {}
    BY <1>1, <2>1
  <2>3. QED
    BY <2>2, MinOfNaturals
<1>5. n \in 0 .. h /\ n <= Room - l /\ (h <= Room - l => n = h)
  <2>1. \A y \in {h, Room - l} : n <= y
    <3>1. {h, Room - l} \in SUBSET Nat /\ {h, Room - l} # {}
      BY <1>1, <1>2
    <3>2. \E x \in {h, Room - l} : \A y \in {h, Room - l} : x <= y
      BY <1>1, <1>2
    <3>3. QED
      BY <3>2 DEF Min
  <2>2. QED
    BY <1>1, <1>2, <1>4, <2>1
<1> HIDE DEF n
<1>6. /\ s \in Seq(Places) /\ Len(s) = n
      /\ \A i \in 1 .. n : s[i] = Hardcoded[i]
  <2>1. \A i \in 1 .. n : Hardcoded[i] \in Places
    BY <1>1, <1>5
  <2>2. /\ SubSeq(Hardcoded, 1, n) \in Seq(Places)
        /\ Len(SubSeq(Hardcoded, 1, n)) = IF 1 <= n THEN n - 1 + 1 ELSE 0
        /\ \A i \in 1 .. n - 1 + 1 : SubSeq(Hardcoded, 1, n)[i] = Hardcoded[1 + i - 1]
    BY <1>5, <2>1, SubSeqProperties
  <2>3. n - 1 + 1 = n /\ (IF 1 <= n THEN n - 1 + 1 ELSE 0) = n /\ \A i \in 1 .. n : 1 + i - 1 = i
    BY <1>1, <1>5
  <2>4. QED
    BY <2>2, <2>3
<1> HIDE DEF s
<1>7. /\ all \in Seq(Places) /\ Len(all) = l + n
      /\ \A i \in 1 .. l + n : all[i] = IF i <= l THEN list[i] ELSE s[i - l]
  BY <1>2, <1>6, ConcatProperties DEF l
<1>8. DOMAIN all = 1 .. l + n
  BY <1>7
<1> HIDE DEF all
<1>9. Len(all) <= Room
  BY <1>1, <1>2, <1>5, <1>7
<1>10. \A i \in 1 .. l : all[i] = list[i]
  BY <1>1, <1>2, <1>5, <1>7
<1>11. \A i \in 1 .. n : l + i \in DOMAIN all /\ all[l + i] = Hardcoded[i]
  BY <1>1, <1>2, <1>5, <1>6, <1>7, <1>8
<1>12. ToSet(list) = {list[i] : i \in 1 .. l}
  BY <1>2 DEF ToSet
<1>13. Cardinality(F) <= Room => F = {all[i] : i \in 1 .. Cardinality(F)}
  BY <1>3, <1>10, <1>12
<1>14. ASSUME Cardinality(F) + h <= Room
       PROVE  ToSet(all) = F \union ToSet(Hardcoded)
  <2>1. Cardinality(F) <= Room
    BY <1>1, <1>3, <1>14
  <2>2. n = h /\ ToSet(list) = F
    BY <1>1, <1>2, <1>3, <1>5, <1>14, <2>1
  <2>3. \A i \in DOMAIN all : i \in 1 .. l \/ \E j \in 1 .. h : i = l + j
    <3>1. SUFFICES ASSUME NEW i \in 1 .. l + h, i \notin 1 .. l PROVE \E j \in 1 .. h : i = l + j
      BY <1>8, <2>2
    <3>2. i - l \in 1 .. h /\ i = l + (i - l)
      BY <1>1, <1>2, <3>1
    <3>3. QED
      BY <3>2
  <2>4. \A i \in 1 .. l : i \in DOMAIN all
    BY <1>1, <1>2, <1>5, <1>8
  <2>5. ToSet(Hardcoded) = {Hardcoded[i] : i \in 1 .. h} /\ ToSet(all) = {all[i] : i \in DOMAIN all}
    BY <1>1 DEF ToSet
  <2>6. {all[i] : i \in DOMAIN all} = {list[i] : i \in 1 .. l} \union {Hardcoded[i] : i \in 1 .. h}
    BY <1>10, <1>11, <2>2, <2>3, <2>4
  <2>7. QED
    BY <1>12, <2>2, <2>5, <2>6
<1>15. QED
  <2>1. Finds(F, all)
    BY <1>9, <1>13, <1>14 DEF Finds, h
  <2>2. QED
    BY ONLY <2>1 DEF F, h, l, n, s, all

(* While images are searched, the list is right for those that were looked at. *)
LegacyInv ==
    /\ LegacyLoaderIsFound
    /\ pc = "search" =>
           /\ {"list", "listed"} \subseteq DOMAIN paths /\ paths.listed \in BOOLEAN
           /\ next \in 1 .. Len(M.ranges) + 1 /\ (~paths.listed => next = 1)
           /\ Discovering(M.ranges, paths.list, next - 1)

(* Elsewhere there is nothing to show. *)
LEMMA LegacyElsewhere ==
    ASSUME pc' # "search", pc' # "load" \/ chosen'.tag # "legacy"
    PROVE  LegacyInv'
BY DEF LegacyInv, LegacyLoaderIsFound

(* The places of the images in memory. *)
LEMMA RangesAre ==
    ASSUME BootInv
    PROVE  M.ranges \in Seq(Places \union {NULL}) /\ Len(M.ranges) \in Nat /\ DOMAIN M.ranges = 1 .. Len(M.ranges)
<1>1. M.ranges \in Seq(Places \union {NULL})
  BY BootAssumption DEF BootInv, M
<1>2. QED
  BY <1>1

(* The search starts with none of the images, *)
LEMMA SearchStarts ==
    ASSUME BootInv, StartLegacy
    PROVE  LegacyInv'
<1>1. pc' = "search" /\ next' = 1 /\ machine' = machine
  BY DEF StartLegacy
<1>2. PICK listed \in BOOLEAN : paths' = [list |-> <<>>, listed |-> listed]
  BY DEF StartLegacy
<1>3. {"list", "listed"} \subseteq DOMAIN paths' /\ paths'.listed \in BOOLEAN /\ paths'.list = <<>>
  BY <1>2
<1>4. M' = M
  BY <1>1 DEF M
<1>5. 1 \in 1 .. Len(M.ranges) + 1 /\ 1 - 1 = 0
  BY RangesAre
<1>6. Discovering(M.ranges, <<>>, 0)
  BY NothingSearched
<1>7. LegacyLoaderIsFound'
  BY <1>1 DEF LegacyLoaderIsFound
<1>8. QED
  BY <1>1, <1>3, <1>4, <1>5, <1>6, <1>7 DEF LegacyInv

(* goes on with one after the other, *)
LEMMA SearchGoesOn ==
    ASSUME BootInv, LegacyInv, SearchLoader
    PROVE  LegacyInv'
<1> DEFINE r == M.ranges
           list == Discovered(paths.list, r[next])
<1>1. /\ pc = "search" /\ pc' = "search" /\ machine' = machine /\ paths.listed /\ next \in DOMAIN r
      /\ paths' = [paths EXCEPT !.list = list] /\ next' = next + 1
  BY DEF SearchLoader
<1>2. /\ {"list", "listed"} \subseteq DOMAIN paths /\ paths.listed \in BOOLEAN
      /\ Discovering(r, paths.list, next - 1)
  BY <1>1 DEF LegacyInv
<1>3. r \in Seq(Places \union {NULL}) /\ Len(r) \in Nat /\ DOMAIN r = 1 .. Len(r)
  BY RangesAre
<1>4. M' = M
  BY <1>1 DEF M
<1>5. next' \in 1 .. Len(r) + 1 /\ next' - 1 = next
  BY <1>1, <1>3
<1> HIDE DEF r
<1>6. Discovering(r, list, next)
  BY <1>1, <1>2, <1>3, SearchedOne
<1> HIDE DEF list
<1>7. {"list", "listed"} \subseteq DOMAIN paths' /\ paths'.listed = paths.listed /\ paths'.list = list
  BY <1>1, <1>2
<1>8. LegacyLoaderIsFound'
  BY <1>1 DEF LegacyLoaderIsFound
<1>9. QED
  BY <1>1, <1>2, <1>4, <1>5, <1>6, <1>7, <1>8 DEF LegacyInv, r

(* and ends with the places known beforehand. *)
LEMMA SearchEnds ==
    ASSUME BootInv, LegacyInv, AddHardcoded
    PROVE  LegacyInv'
<1> DEFINE r == M.ranges
           k == next - 1
           list == paths.list \o SubSeq(Hardcoded, 1, Min({Len(Hardcoded), Room - Len(paths.list)}))
           F == Found(r, k)
<1>1. /\ pc = "search" /\ pc' = "load" /\ machine' = machine
      /\ paths.listed => next > Len(r)
      /\ paths' = [paths EXCEPT !.list = list]
  BY DEF AddHardcoded, Room
<1>2. /\ {"list", "listed"} \subseteq DOMAIN paths /\ paths.listed \in BOOLEAN
      /\ next \in 1 .. Len(r) + 1 /\ (~paths.listed => next = 1)
      /\ Discovering(r, paths.list, k)
  BY <1>1 DEF LegacyInv
<1>3. Len(r) \in Nat /\ DOMAIN r = 1 .. Len(r)
  BY RangesAre
<1>4. M' = M
  BY <1>1 DEF M
<1>5. k \in Nat /\ k = IF paths.listed THEN Len(r) ELSE 0
  BY <1>1, <1>2, <1>3
<1>6. F = IF paths.listed THEN ToSet(r) \ {NULL} ELSE {}
  <2>1. CASE paths.listed
    BY <1>3, <1>5, <2>1 DEF Found, ToSet
  <2>2. CASE ~paths.listed
    <3>1. k = 0 /\ 1 .. 0 = {}
      BY <1>5, <2>2
    <3>2. QED
      BY <2>2, <3>1 DEF Found
  <2>3. QED
    BY <2>1, <2>2
<1> HIDE DEF k
<1>7. Finds(F, list)
  <2> DEFINE old == paths.list
  <2>1. Discovering(r, old, k) /\ k \in Nat
    BY <1>2, <1>5
  <2> HIDE DEF r, old
  <2>2. Finds(Found(r, k), old \o SubSeq(Hardcoded, 1, Min({Len(Hardcoded), Room - Len(old)})))
    BY <2>1, HardcodedAdded
  <2>3. QED
    BY ONLY <2>2 DEF old, list, F
<1> HIDE DEF list, F
<1>8. paths'.listed = paths.listed /\ paths'.list = list
  BY <1>1, <1>2
<1>9. LegacyLoaderIsFound'
  <2>1. F = IF paths'.listed THEN ToSet(M'.ranges) \ {NULL} ELSE {}
    BY <1>4, <1>6, <1>8 DEF r
  <2>2. QED
    BY <1>7, <1>8, <2>1 DEF Finds, LegacyLoaderIsFound, Room
<1>10. QED
  BY <1>1, <1>9 DEF LegacyInv

(* Every step keeps this, too. *)
LEMMA LegacyStep == BootInv /\ LegacyInv /\ [Next]_vars => LegacyInv'
<1> SUFFICES ASSUME BootInv, LegacyInv, [Next]_vars PROVE LegacyInv'
  OBVIOUS
<1>1. CASE UNCHANGED vars
  <2>1. UNCHANGED <<machine, pc, next, chosen, paths>>
    BY <1>1 DEF vars, scanVars
  <2>2. M' = M
    BY <2>1 DEF M
  <2>3. QED
    BY <2>1, <2>2 DEF LegacyInv, LegacyLoaderIsFound
<1>2. CASE StartLegacy
  BY <1>2, SearchStarts
<1>3. CASE SearchLoader
  BY <1>3, SearchGoesOn
<1>4. CASE AddHardcoded
  BY <1>4, SearchEnds
<1>5. CASE StartLoader
  <2>1. pc' = "load" /\ chosen'.tag \in {"loader", "tool"}
    BY <1>5 DEF StartLoader
  <2>2. QED
    BY <2>1, LegacyElsewhere
<1>6. CASE \/ Boot \/ BootFails \/ ReadConfig \/ NoConfig \/ ConfigFails \/ ReadConfigLine \/ ConfigDone
           \/ SetUpScreen \/ StartDriver \/ DriversDone \/ ScanDevice \/ VolumesScanned
           \/ RelateVolume \/ ScanLoader \/ AddLoader \/ ScanLegacy
  <2>1. pc' \in {"off", "config", "lines", "setup", "drivers", "volumes", "relate", "loaders", "legacy"}
    BY <1>6 DEF Boot, BootFails, ReadConfig, NoConfig, ConfigFails, ReadConfigLine, ConfigDone,
       SetUpScreen, StartDriver, DriversDone, ScanDevice, VolumesScanned, RelateVolume,
       ScanLoader, AddLoader, ScanLegacy
  <2>2. QED
    BY <2>1, LegacyElsewhere
<1>7. CASE ScanVolumesFails \/ VolumesDone \/ LoadersDone \/ LegacyDone
  <2>1. pc' \in Scans
    BY <1>7, AfterIs DEF ScanVolumesFails, VolumesDone, LoadersDone, LegacyDone
  <2>2. QED
    BY <2>1, LegacyElsewhere DEF Scans
<1>8. CASE \/ ScanTool \/ Select \/ ScreenShot \/ Back \/ Details \/ About \/ Leave
           \/ LoadProgram \/ LoadFails \/ ProgramReturns
  <2>1. pc' \in {"menu", "off", "running"}
    BY <1>8 DEF ScanTool, Select, ScreenShot, Back, Details, About, Leave, LoadProgram, LoadFails,
       ProgramReturns, Returned, RunMainMenu
  <2>2. QED
    BY <2>1, LegacyElsewhere
<1>9. QED
  BY <1>1, <1>2, <1>3, <1>4, <1>5, <1>6, <1>7, <1>8 DEF Next

(* The legacy loader is looked for in each place once: first where images were *)
(* loaded from, then where known firmware has it, unless the list is full *)
(* (ExtractLegacyLoaderPaths). *)
THEOREM BootFindsLegacyLoader == Spec => []LegacyLoaderIsFound
<1>1. Init => LegacyInv
  BY DEF Init, LegacyInv, LegacyLoaderIsFound
<1>2. BootInv /\ LegacyInv /\ [Next]_vars => LegacyInv'
  BY LegacyStep
<1>3. LegacyInv => LegacyLoaderIsFound
  BY DEF LegacyInv
<1>4. QED
  BY <1>1, <1>2, <1>3, BootInvariant, PTL DEF Spec

------------------------------------------------------------------------------
(* Images.                                                                    *)

(* The rounding of egRawCompose is that to the nearest number. *)
LEMMA Rounded ==
    ASSUME NEW n \in Int, 0 <= n, n <= 65025
    PROVE  /\ ((n + 128 + ((n + 128) \div 256)) \div 256) % 256 = (2 * n + 255) \div 510
           /\ (2 * n + 255) \div 510 \in Byte
<1>1. PICK q \in Int : q = (n + 128) \div 256
  BY SMT
<1>2. PICK s \in Int : s = (n + 128) % 256
  BY SMT
<1>3. PICK m \in Int : m = (2 * n + 255) \div 510
  BY SMT
<1>4. 0 <= q /\ 0 <= s /\ s <= 255 /\ n + 128 = 256 * q + s
  BY <1>1, <1>2, SMT
<1>5. 510 * m <= 2 * n + 255 /\ 2 * n + 255 < 510 * m + 510
  BY <1>3, SMT
<1>6. n + 128 + q \in Int /\ 0 <= n + 128 + q
  BY <1>4, SMT
<1>7. m = IF s + q < 256 THEN q ELSE q + 1
  BY <1>4, <1>5, SMT
<1>8. m \in 0 .. 255
  BY <1>5, SMT
<1>9. 256 * m <= n + 128 + q /\ n + 128 + q < 256 * m + 256
  BY <1>4, <1>7, SMT
<1>10. PICK k \in Int : k = n + 128 + q
  BY <1>6
<1>11. k \div 256 = m
  BY <1>8, <1>9, <1>10, SMT
<1>12. m % 256 = m
  BY <1>8, SMT
<1>13. (k \div 256) % 256 = m
  BY <1>11, <1>12, SMT
<1>14. k = n + 128 + ((n + 128) \div 256)
  BY <1>1, <1>10, SMT
<1> QED BY <1>3, <1>8, <1>13, <1>14, SMT DEF Byte

(* A product with a byte, *)
LEMMA Product ==
    ASSUME NEW x \in Int, NEW y \in Int, 0 <= x, x <= 255, 0 <= y, y <= 255
    PROVE  x * y \in Int /\ 0 <= x * y /\ x * y <= 255 * y
BY SMT

(* the sum of two of them, *)
LEMMA Weighted ==
    ASSUME NEW b \in Byte, NEW t \in Byte, NEW a \in Byte
    PROVE  /\ b * (255 - a) + t * a \in Int /\ 0 <= b * (255 - a) + t * a /\ b * (255 - a) + t * a <= 65025
<1>1. PICK c \in Int : c = 255 - a
  BY SMT DEF Byte
<1>2. /\ b \in Int /\ 0 <= b /\ b <= 255 /\ c \in Int /\ 0 <= c /\ c <= 255
      /\ t \in Int /\ 0 <= t /\ t <= 255 /\ a \in Int /\ 0 <= a /\ a <= 255
  BY <1>1, SMT DEF Byte
<1>3. PICK x \in Int : x = b * c
  BY <1>2, Product, Zenon
<1>4. PICK y \in Int : y = t * a
  BY <1>2, Product, Zenon
<1>5. 0 <= x /\ x <= 255 * c /\ 0 <= y /\ y <= 255 * a
  BY <1>2, <1>3, <1>4, Product, Zenon
<1>6. x + y \in Int /\ 0 <= x + y /\ x + y <= 65025
  BY <1>1, <1>2, <1>5, SMT
<1>7. b * (255 - a) = x /\ t * a = y
  BY <1>1, <1>3, <1>4, SMT
<1> QED BY <1>6, <1>7, SMT

(* and a channel mixed with another. *)
LEMMA BlendIs ==
    ASSUME NEW b \in Byte, NEW t \in Byte, NEW a \in Byte
    PROVE  Blend(b, t, a) = Mixed(b, t, a) /\ Blend(b, t, a) \in Byte
<1>1. PICK n \in Int : n = b * (255 - a) + t * a
  BY Weighted
<1>2. 0 <= n /\ n <= 65025
  BY <1>1, Weighted
<1>3. b * (255 - a) + t * a + 128 = n + 128
  BY <1>1, SMT
<1>4. Blend(b, t, a) = ((n + 128 + ((n + 128) \div 256)) \div 256) % 256
  <2> DEFINE Rounds(temp) == ((temp + (temp \div 256)) \div 256) % 256
  <2>1. Blend(b, t, a) = Rounds(b * (255 - a) + t * a + 128)
    BY DEF Blend
  <2> HIDE DEF Rounds
  <2>2. Blend(b, t, a) = Rounds(n + 128)
    BY <1>3, <2>1
  <2> QED BY <2>2 DEF Rounds
<1>5. 2 * (b * (255 - a) + t * a) + 255 = 2 * n + 255
  BY <1>1, SMT
<1>6. Mixed(b, t, a) = (2 * n + 255) \div 510
  BY <1>5, SMT DEF Mixed
<1> QED BY <1>2, <1>4, <1>6, Rounded, SMT

(* A pixel over another. *)
LEMMA ComposeRawIs ==
    ASSUME NEW below \in Pixel, NEW above \in Pixel
    PROVE  RawCompose(below, above) = Over(below, above) /\ RawCompose(below, above) \in Pixel
<1>1. /\ below.r \in Byte /\ below.g \in Byte /\ below.b \in Byte /\ below.a \in Byte
      /\ above.r \in Byte /\ above.g \in Byte /\ above.b \in Byte /\ above.a \in Byte
  BY DEF Pixel
<1>2. /\ Blend(below.r, above.r, above.a) = Mixed(below.r, above.r, above.a)
      /\ Blend(below.g, above.g, above.a) = Mixed(below.g, above.g, above.a)
      /\ Blend(below.b, above.b, above.a) = Mixed(below.b, above.b, above.a)
      /\ Blend(below.r, above.r, above.a) \in Byte
      /\ Blend(below.g, above.g, above.a) \in Byte
      /\ Blend(below.b, above.b, above.a) \in Byte
  BY <1>1, BlendIs
<1>3. PICK r, g, b : /\ r = Blend(below.r, above.r, above.a) /\ g = Blend(below.g, above.g, above.a)
                     /\ b = Blend(below.b, above.b, above.a)
  OBVIOUS
<1>4. r \in Byte /\ g \in Byte /\ b \in Byte
  BY <1>2, <1>3
<1>5. RawCompose(below, above) = [below EXCEPT !.r = r, !.g = g, !.b = b]
  BY <1>3 DEF RawCompose
<1>6. Over(below, above) = [below EXCEPT !.r = r, !.g = g, !.b = b]
  BY <1>2, <1>3 DEF Over
<1>7. [below EXCEPT !.r = r, !.g = g, !.b = b] \in Pixel
  BY <1>4 DEF Pixel
<1>8. QED
  BY <1>5, <1>6, <1>7

(* An image of one color, *)
LEMMA FilledIs ==
    ASSUME NEW w \in Nat \ {0}, NEW h \in Nat \ {0}, NEW color \in Pixel
    PROVE  LET t == CreateFilledImage(w, h, FALSE, color)
           IN  IsImage(t, FALSE) /\ t.Width = w /\ t.Height = h
<1>1. Opaque(color) \in Pixel
  BY DEF Opaque, Pixel, Byte
<1>2. QED
  BY <1>1 DEF CreateFilledImage, IsImage

(* and the color in the corner of one. *)
LEMMA CornerIs ==
    ASSUME NEW image, NEW alpha, IsImage(image, alpha)
    PROVE  image.PixelData[<<0, 0>>] \in Pixel
<1>1. <<0, 0>> \in Points(image.Width, image.Height)
  BY DEF IsImage, Points
<1>2. QED
  BY <1>1 DEF IsImage

(* The less of two numbers. *)
LEMMA MinTwo ==
    ASSUME NEW a \in Int, NEW b \in Int
    PROVE  Min({a, b}) = IF a <= b THEN a ELSE b
BY DEF Min

(* The image t is another one with an image on top of it, pixel by pixel.       *)
Composed(t, comp, top, corner) ==
    /\ IsImage(t, FALSE) /\ t.Width = comp.Width /\ t.Height = comp.Height
    /\ \A p \in Points(comp.Width, comp.Height) :
          t.PixelData[p] = Layer(comp.PixelData[p], top, corner, p)

IsPicture(image) == IsImage(image, TRUE) \/ IsImage(image, FALSE)

(* An image that begins within another is put on top of it. *)
LEMMA ComposeIs ==
    ASSUME NEW comp, NEW top, NEW x \in Nat, NEW y \in Nat, IsImage(comp, FALSE), IsPicture(top),
           x < comp.Width, y < comp.Height
    PROVE  Composed(ComposeImage(comp, top, x, y), comp, top, <<x, y>>)
<1> DEFINE area == RestrictImageArea(comp, x, y, top.Width, top.Height)
           under(p) == <<p[1] - x, p[2] - y>> \in Points(area[1], area[2])
           over(p)  == top.PixelData[<<p[1] - x, p[2] - y>>]
           data == [p \in DOMAIN comp.PixelData |->
                       IF ~under(p) THEN comp.PixelData[p]
                       ELSE IF top.HasAlpha THEN RawCompose(comp.PixelData[p], over(p)) ELSE over(p)]
           all == Points(comp.Width, comp.Height)
           t == [comp EXCEPT !.HasAlpha = FALSE, !.PixelData = data]
<1>1. /\ comp.Width \in Nat \ {0} /\ comp.Height \in Nat \ {0} /\ comp.HasAlpha = FALSE
      /\ comp.PixelData \in [all -> Pixel]
      /\ top.Width \in Nat \ {0} /\ top.Height \in Nat \ {0} /\ (top.HasAlpha = TRUE \/ top.HasAlpha = FALSE)
      /\ top.PixelData \in [Points(top.Width, top.Height) -> Pixel]
  BY DEF IsImage, IsPicture
<1>2. /\ area[1] = IF top.Width <= comp.Width - x THEN top.Width ELSE comp.Width - x
      /\ area[2] = IF top.Height <= comp.Height - y THEN top.Height ELSE comp.Height - y
  BY <1>1, MinTwo DEF RestrictImageArea
<1>3. area[1] # 0
  BY <1>1, <1>2
<1>4. ComposeImage(comp, top, x, y) = t
  BY <1>1, <1>3 DEF ComposeImage
<1>5. ASSUME NEW p \in all
      PROVE  /\ under(p) <=> <<p[1] - x, p[2] - y>> \in DOMAIN top.PixelData
             /\ data[p] = Layer(comp.PixelData[p], top, <<x, y>>, p) /\ data[p] \in Pixel
  <2>1. PICK a \in 0 .. comp.Width - 1, b \in 0 .. comp.Height - 1 : p = <<a, b>>
    BY DEF Points
  <2>2. under(p) <=> <<a - x, b - y>> \in Points(top.Width, top.Height)
    BY <1>1, <1>2, <2>1 DEF Points
  <2>3. under(p) <=> <<p[1] - x, p[2] - y>> \in DOMAIN top.PixelData
    BY <1>1, <2>1, <2>2
  <2>4. p \in DOMAIN comp.PixelData /\ comp.PixelData[p] \in Pixel
    BY <1>1
  <2>5. CASE ~under(p)
    BY <2>3, <2>4, <2>5 DEF Layer
  <2>6. CASE under(p)
    <3>1. over(p) = top.PixelData[<<p[1] - x, p[2] - y>>] /\ over(p) \in Pixel
      BY <1>1, <2>3, <2>6
    <3>2. /\ RawCompose(comp.PixelData[p], over(p)) = Over(comp.PixelData[p], over(p))
          /\ RawCompose(comp.PixelData[p], over(p)) \in Pixel
      BY <2>4, <3>1, ComposeRawIs
    <3>3. QED
      BY <2>3, <2>4, <2>6, <3>1, <3>2 DEF Layer
  <2>7. QED
    BY <2>3, <2>5, <2>6
<1>6. data \in [all -> Pixel]
  BY <1>1, <1>5
<1> HIDE DEF data
<1>7. /\ t.Width = comp.Width /\ t.Height = comp.Height /\ t.HasAlpha = FALSE
      /\ t.PixelData = data
  BY <1>1
<1>8. QED
  BY <1>1, <1>4, <1>5, <1>6, <1>7 DEF IsImage, Composed

(* What is left of a length where a tile is put on, half of it. *)
LEMMA MiddleIs ==
    ASSUME NEW total \in Nat \ {0}, NEW size \in Nat \ {0}
    PROVE  /\ Middle(total, size) \in Nat /\ Middle(total, size) < total
           /\ Middle(total, size) = (total - (IF size < total THEN size ELSE total)) \div 2
           /\ Middle(total, size) + (IF size < total THEN size ELSE total) <= total
<1> DEFINE shown == IF size < total THEN size ELSE total
<1>1. Min({size, total}) = shown
  BY MinTwo
<1>2. shown \in 1 .. total
  OBVIOUS
<1>3. Middle(total, size) = (total - shown) \div 2
  BY <1>1 DEF Middle
<1> HIDE DEF shown
<1>4. (total - shown) \div 2 \in Nat /\ (total - shown) \div 2 <= total - shown
  BY <1>2, SMT
<1>5. QED
  BY <1>2, <1>3, <1>4 DEF shown

(* The background of a tile. *)
IsTile(image, side) == IsImage(image, FALSE) /\ image.Width = side /\ image.Height = side

IsIcon(image) == IsImage(image, TRUE)

(* An icon, in the middle of a tile, and a badge in its corner: what the tile   *)
(* shows at p.                                                                  *)
IconAndBadge(base, side, image, badge, p) ==
    LET shown(length) == IF length < side THEN length ELSE side
        inset(length) == (side - shown(length)) \div 2
        room(length)  == shown(length) - Side[8]
        icon  == <<inset(image.Width), inset(image.Height)>>
        fits  == badge # NULL /\ badge.Width < room(image.Width) /\ badge.Height < room(image.Height)
        place == <<icon[1] + room(image.Width) - badge.Width, icon[2] + room(image.Height) - badge.Height>>
        below == Layer(base.PixelData[p], image, icon, p)
    IN  IF fits THEN Layer(below, badge, place, p) ELSE below

(* A tile with its icon and the badge. *)
LEMMA WithBadgeIs ==
    ASSUME NEW base, NEW side \in Nat \ {0}, IsTile(base, side), NEW image, IsIcon(image),
           NEW badge, badge = NULL \/ IsIcon(badge)
    PROVE  LET t == WithBadge(base, image, badge)
           IN  /\ DOMAIN t.PixelData = Points(side, side)
               /\ \A p \in Points(side, side) : t.PixelData[p] = IconAndBadge(base, side, image, badge, p)
<1> DEFINE width  == IF image.Width < side THEN image.Width ELSE side
           height == IF image.Height < side THEN image.Height ELSE side
           x == Middle(side, image.Width)
           y == Middle(side, image.Height)
           icon == ComposeImage(base, image, x, y)
           fits == /\ badge # NULL /\ badge.Width < width - Side[8] /\ badge.Height < height - Side[8]
           bx == x + (width - Side[8]) - badge.Width
           by == y + (height - Side[8]) - badge.Height
           t == WithBadge(base, image, badge)
<1>1. /\ base.Width = side /\ base.Height = side /\ IsImage(base, FALSE)
      /\ image.Width \in Nat \ {0} /\ image.Height \in Nat \ {0} /\ IsImage(image, TRUE)
      /\ Side[8] \in Nat
  BY ImagesAssumption DEF IsTile, IsIcon, IsImage
<1>2. /\ x \in Nat /\ x < side /\ x = (side - width) \div 2 /\ x + width <= side
      /\ y \in Nat /\ y < side /\ y = (side - height) \div 2 /\ y + height <= side
      /\ width \in Nat /\ height \in Nat
  BY <1>1, MiddleIs
<1>3. Min({image.Width, base.Width}) = width /\ Min({image.Height, base.Height}) = height
  BY <1>1, MinTwo
<1>4. Centered(base, image) = icon
  BY <1>1 DEF Centered
<1>5. /\ IsImage(icon, FALSE) /\ icon.Width = side /\ icon.Height = side
      /\ \A p \in Points(side, side) :
            icon.PixelData[p] = Layer(base.PixelData[p], image, <<x, y>>, p)
  <2> HIDE DEF x, y, width, height
  <2>1. /\ x < base.Width /\ y < base.Height /\ x \in Nat /\ y \in Nat
        /\ IsImage(base, FALSE) /\ IsPicture(image)
    BY <1>1, <1>2 DEF IsPicture
  <2>2. Composed(icon, base, image, <<x, y>>)
    BY <2>1, ComposeIs
  <2> HIDE DEF icon
  <2>3. QED
    BY <1>1, <2>2 DEF Composed
<1> HIDE DEF x, y, width, height, icon
<1>6. /\ badge # NULL => badge.Width \in Nat \ {0} /\ badge.Height \in Nat \ {0} /\ IsImage(badge, TRUE)
  BY DEF IsIcon, IsImage
<1>7. t = IF fits THEN ComposeImage(icon, badge, bx, by) ELSE icon
  <2>1. t = IF \/ badge = NULL
               \/ badge.Width + Side[8] >= width \/ badge.Height + Side[8] >= height THEN icon
            ELSE ComposeImage(icon, badge, x + width - Side[8] - badge.Width,
                                           y + height - Side[8] - badge.Height)
    BY <1>1, <1>3, <1>4 DEF WithBadge, x, y
  <2>2. fits <=> ~ \/ badge = NULL
                   \/ badge.Width + Side[8] >= width \/ badge.Height + Side[8] >= height
    <3>1. CASE badge = NULL
      BY <3>1
    <3>2. CASE badge # NULL
      BY <1>1, <1>2, <1>6, <3>2
    <3>3. QED
      BY <3>1, <3>2
  <2>3. fits => /\ bx = x + width - Side[8] - badge.Width
                /\ by = y + height - Side[8] - badge.Height
    BY <1>1, <1>2, <1>6
  <2> HIDE DEF t, fits, bx, by
  <2>4. QED
    BY <2>1, <2>2, <2>3
<1>8. /\ DOMAIN t.PixelData = Points(side, side)
      /\ \A p \in Points(side, side) :
            t.PixelData[p] = IF fits THEN Layer(icon.PixelData[p], badge, <<bx, by>>, p) ELSE icon.PixelData[p]
  <2>1. CASE fits
    <3>1. bx \in Nat /\ by \in Nat /\ bx < side /\ by < side
      BY <1>1, <1>2, <1>6, <2>1
    <3> HIDE DEF t, bx, by
    <3> DEFINE c == ComposeImage(icon, badge, bx, by)
    <3>2. /\ IsPicture(badge) /\ bx < icon.Width /\ by < icon.Height
          /\ IsImage(icon, FALSE) /\ bx \in Nat /\ by \in Nat
      BY <1>5, <1>6, <2>1, <3>1 DEF IsPicture
    <3>3. Composed(c, icon, badge, <<bx, by>>)
      BY <3>2, ComposeIs
    <3>4. t = c
      BY <1>7, <2>1
    <3> HIDE DEF c
    <3>5. QED
      BY <1>5, <2>1, <3>3, <3>4 DEF IsImage, Composed
  <2>2. CASE ~fits
    <3> HIDE DEF t, bx, by
    <3>1. QED
      BY <1>5, <1>7, <2>2 DEF IsImage
  <2>3. QED
    BY <2>1, <2>2
<1>9. ASSUME NEW p \in Points(side, side)
      PROVE  t.PixelData[p] = IconAndBadge(base, side, image, badge, p)
  <2> DEFINE below == Layer(base.PixelData[p], image, <<x, y>>, p)
  <2>1. IconAndBadge(base, side, image, badge, p)
           = IF fits THEN Layer(below, badge, <<bx, by>>, p) ELSE below
    BY <1>2 DEF IconAndBadge, width, height
  <2>2. QED
    BY <1>5, <1>8, <2>1
<1>10. QED
  BY <1>8, <1>9

(* The tiles that are made. *)
AreTiles4(tiles) ==
    /\ IsTile(tiles[1], Side[144]) /\ IsTile(tiles[2], Side[144])
    /\ IsTile(tiles[3], Side[64]) /\ IsTile(tiles[4], Side[64])

(* A picture made to fit. *)
LEMMA EnsureImageSizeIs ==
    ASSUME NEW image, image # NULL, IsImage(image, FALSE), NEW side \in Nat \ {0}, NEW color \in Pixel
    PROVE  IsTile(EnsureImageSize(image, side, side, color), side)
<1>1. CASE image.Width = side /\ image.Height = side
  BY <1>1 DEF EnsureImageSize, IsTile
<1>2. CASE ~(image.Width = side /\ image.Height = side)
  <2> DEFINE plain == CreateFilledImage(side, side, FALSE, color)
  <2>1. IsImage(plain, FALSE) /\ plain.Width = side /\ plain.Height = side
    BY FilledIs
  <2>2. image.HasAlpha = FALSE
    BY DEF IsImage
  <2>3. EnsureImageSize(image, side, side, color) = ComposeImage(plain, image, 0, 0)
    BY <1>2, <2>2 DEF EnsureImageSize
  <2> HIDE DEF plain
  <2>4. 0 \in Nat /\ 0 < plain.Width /\ 0 < plain.Height
    BY <2>1
  <2>5. Composed(ComposeImage(plain, image, 0, 0), plain, image, <<0, 0>>)
    BY <2>1, <2>4, ComposeIs DEF IsPicture
  <2>6. QED
    BY <2>1, <2>3, <2>5 DEF IsTile, Composed
<1>3. QED
  BY <1>1, <1>2

(* The big picture made from the small one. *)
LEMMA StretchedIs ==
    ASSUME NEW small, IsTile(small, Side[64])
    PROVE  IsTile(Stretched(small), Side[144])
<1> DEFINE s == Side[64]
           b == Side[144]
           h == s \div 2
<1>1. s \in Nat \ {0} /\ b \in Nat \ {0} /\ s <= b
  BY ImagesAssumption
<1>2. small.PixelData \in [Points(s, s) -> Pixel]
  BY DEF IsTile, IsImage
<1>3. ASSUME NEW i \in 0 .. b - 1
      PROVE  StretchedFrom(i) \in 0 .. s - 1
  <2>1. StretchedFrom(i) = IF i < h THEN i ELSE IF i < b - h THEN h ELSE i - (b - s)
    BY DEF StretchedFrom
  <2> HIDE DEF s, b
  <2>2. h \in Nat /\ h < s
    BY <1>1, SMT
  <2> HIDE DEF h
  <2>3. QED
    BY <1>1, <2>1, <2>2
<1>4. ASSUME NEW p \in Points(b, b)
      PROVE  small.PixelData[<<StretchedFrom(p[1]), StretchedFrom(p[2])>>] \in Pixel
  <2>1. <<StretchedFrom(p[1]), StretchedFrom(p[2])>> \in Points(s, s)
    BY <1>3 DEF Points
  <2>2. QED
    BY <1>2, <2>1
<1>5. QED
  BY <1>1, <1>4 DEF Stretched, IsTile, IsImage

------------------------------------------------------------------------------
(* Pictures of entries and volumes.                                           *)

Sizes == {128, 48, 32}

IconOrNone(image) == image = NULL \/ IsIcon(image)

(* A file of rEFIt's own is a picture, *)
LEMMA LoadImageIs ==
    ASSUME NEW name, machine \in DOMAIN Machines, LoadImage(name) # NULL
    PROVE  IsImage(LoadImage(name), FALSE)
<1>1. name \in DOMAIN M.files /\ LoadImage(name) = Decoded[machine][name][128][FALSE]
  BY DEF LoadImage, LoadFile
<1>2. Decoded[machine] = DecodeFiles(M.files)
  BY DEF Decoded, M
<1>3. DecodeFiles(M.files)[name][128][FALSE] = DecodeAny(M.files[name], 128, FALSE)
  BY <1>1 DEF DecodeFiles
<1>4. Decodes(M.files[name])
  BY <1>1, ImagesAssumption DEF M
<1>5. \/ DecodeAny(M.files[name], 128, FALSE) = NULL
      \/ IsImage(DecodeAny(M.files[name], 128, FALSE), FALSE)
  BY <1>4 DEF Decodes
<1>6. QED
  BY <1>1, <1>2, <1>3, <1>5, Zenon

(* an icon, *)
LEMMA LoadIconIs ==
    ASSUME NEW name, NEW size \in Sizes, machine \in DOMAIN Machines
    PROVE  IconOrNone(LoadIcon(name, size))
<1> SUFFICES ASSUME LoadIcon(name, size) # NULL PROVE IsImage(LoadIcon(name, size), TRUE)
  BY DEF IconOrNone, IsIcon
<1>1. name \in DOMAIN M.files /\ LoadIcon(name, size) = Decoded[machine][name][size][TRUE]
  BY DEF LoadIcon, LoadFile
<1>2. Decoded[machine] = DecodeFiles(M.files)
  BY DEF Decoded, M
<1>3. DecodeFiles(M.files)[name][size][TRUE] = DecodeAny(M.files[name], size, TRUE)
  BY <1>1 DEF DecodeFiles, Sizes
<1>4. Decodes(M.files[name])
  BY <1>1, ImagesAssumption DEF M
<1>5. \/ DecodeAny(M.files[name], size, TRUE) = NULL
      \/ IsImage(DecodeAny(M.files[name], size, TRUE), TRUE)
  BY <1>4 DEF Decodes, Sizes
<1>6. QED
  BY <1>1, <1>2, <1>3, <1>5, Zenon

(* or nothing; and so is what a volume has. *)
LEMMA LoadIcnsIs ==
    ASSUME NEW data, NEW size \in Sizes, Decodes(data)
    PROVE  IconOrNone(LoadIcns(data, size))
BY DEF LoadIcns, Decodes, Sizes, IconOrNone, IsIcon

(* The picture for what has none. *)
LEMMA DummyImageIs ==
    ASSUME NEW size \in Sizes
    PROVE  IsIcon(DummyImage[size])
<1> DEFINE side == Side[size]
           from == Middle(Side[size], Side[32])
           all == Points(side, side)
           inner(p) == <<p[1] - from, p[2] - from>> \in Points(Side[32], Side[32])
           mark(p) == IF (p[1] + p[2]) % 2 = 0 THEN BlackPixel ELSE [BlackPixel EXCEPT !.r = 255, !.g = 255]
           plain == CreateFilledImage(side, side, TRUE, BlackPixel)
           data == [p \in DOMAIN plain.PixelData |->
                       IF inner(p) THEN [mark(p) EXCEPT !.a = 144] ELSE plain.PixelData[p]]
           t == [plain EXCEPT !.PixelData = data]
<1>1. side \in Nat \ {0}
  BY ImagesAssumption DEF Sizes
<1>2. DummyImage[size] = t
  BY DEF DummyImage, Stripes, Sizes
<1>3. /\ BlackPixel \in Pixel /\ [BlackPixel EXCEPT !.a = 144] \in Pixel
      /\ [[BlackPixel EXCEPT !.r = 255, !.g = 255] EXCEPT !.a = 144] \in Pixel
  <2>1. 0 \in Byte /\ 144 \in Byte /\ 255 \in Byte
    BY DEF Byte
  <2>2. \A r, g, b, a \in Byte : [r |-> r, g |-> g, b |-> b, a |-> a] \in Pixel
    BY DEF Pixel
  <2>3. BlackPixel \in Pixel /\ DOMAIN BlackPixel = {"r", "g", "b", "a"}
    BY <2>1, <2>2 DEF BlackPixel
  <2>4. ASSUME NEW pixel \in Pixel PROVE [pixel EXCEPT !.a = 144] \in Pixel
    BY <2>1 DEF Pixel
  <2>5. ASSUME NEW pixel \in Pixel, NEW x \in Byte PROVE [pixel EXCEPT !.r = x, !.g = x] \in Pixel
    BY DEF Pixel
  <2> DEFINE yellow == [BlackPixel EXCEPT !.r = 255, !.g = 255]
  <2>6. yellow \in Pixel
    BY <2>1, <2>3, <2>5
  <2> HIDE DEF yellow
  <2>7. [BlackPixel EXCEPT !.a = 144] \in Pixel /\ [yellow EXCEPT !.a = 144] \in Pixel
    BY <2>3, <2>4, <2>6
  <2>8. QED
    BY <2>3, <2>7 DEF yellow
<1>4. /\ plain.Width = side /\ plain.Height = side /\ plain.HasAlpha = TRUE
      /\ plain.PixelData = [p \in all |-> BlackPixel]
      /\ DOMAIN plain = {"Width", "Height", "HasAlpha", "PixelData"}
  BY DEF CreateFilledImage
<1> HIDE DEF plain, side, from, inner
<1>5. ASSUME NEW p \in all PROVE [mark(p) EXCEPT !.a = 144] \in Pixel
  <2>1. CASE (p[1] + p[2]) % 2 = 0
    BY <1>3, <2>1
  <2>2. CASE (p[1] + p[2]) % 2 # 0
    BY <1>3, <2>2
  <2>3. QED
    BY <2>1, <2>2
<1> HIDE DEF mark
<1>6. data \in [all -> Pixel]
  BY <1>3, <1>4, <1>5
<1> HIDE DEF data
<1>7. t.Width = side /\ t.Height = side /\ t.HasAlpha = TRUE /\ t.PixelData = data
  BY <1>4
<1>8. QED
  BY <1>1, <1>2, <1>6, <1>7 DEF IsIcon, IsImage

(* There is always something to see. *)
LEMMA OrDummyIs ==
    ASSUME NEW image, NEW size \in Sizes, IconOrNone(image)
    PROVE  IsIcon(OrDummy(image, size))
BY DummyImageIs DEF OrDummy, IconOrNone

(* One of rEFIt's icons, *)
LEMMA BuiltinIconIs ==
    ASSUME NEW name, NEW size \in Sizes, machine \in DOMAIN Machines
    PROVE  /\ ~config.TextOnly => IsIcon(BuiltinIcon(name, size))
           /\ IconOrNone(BuiltinIcon(name, size))
BY LoadIconIs, OrDummyIs DEF BuiltinIcon, IconOrNone

(* one for a system, *)
LEMMA LoadOSIconIs ==
    ASSUME NEW names, NEW fallback, NEW logo, machine \in DOMAIN Machines, ~config.TextOnly
    PROVE  IsIcon(LoadOSIcon(names, fallback, logo))
<1> DEFINE tried == OSIconFiles(names, fallback, logo)
<1>1. LoadOSIcon(names, fallback, logo) = OrDummy(FirstIcon(tried), 128)
  BY DEF LoadOSIcon
<1> HIDE DEF tried
<1>2. FirstIcon(tried) = NULL \/ \E i : FirstIcon(tried) = LoadIcon(tried[i], 128)
  BY DEF FirstIcon
<1>3. IconOrNone(FirstIcon(tried))
  BY <1>2, LoadIconIs DEF IconOrNone, Sizes
<1>4. QED
  BY <1>1, <1>3, OrDummyIs DEF Sizes

(* and the icons beside the loaders of a volume. *)
VolumePictured(volume) ==
    /\ {"badge", "files"} \subseteq DOMAIN volume
    /\ IconOrNone(volume.badge)
    /\ volume.files # NULL =>
           /\ IsSeq(volume.files)
           /\ \A i \in DOMAIN volume.files :
                 volume.files[i].ext = "icns" => Decodes(volume.files[i].data)

(* The icon beside a loader is one, or nothing. *)
LEMMA OwnIconIs ==
    ASSUME NEW v, NEW dir, NEW base, VolumePictured(vols[v]), vols[v].files # NULL
    PROVE  IconOrNone(OwnIcon(v, FilesAs(v, dir, base, "icns")))
<1> DEFINE files == vols[v].files
           beside == FilesAs(v, dir, base, "icns")
<1>1. IsSeq(files) /\ \A i \in DOMAIN files : files[i].ext = "icns" => Decodes(files[i].data)
  BY DEF VolumePictured
<1>2. beside \subseteq DOMAIN files /\ \A i \in beside : files[i].ext = "icns"
  BY DEF FilesAs
<1>3. beside \in SUBSET Nat
  BY <1>1, <1>2, SeqIs
<1>4. OwnIcon(v, beside) = IF beside = {} THEN NULL ELSE LoadIcns(files[Min(beside)].data, 128)
  BY DEF OwnIcon
<1> HIDE DEF files, beside
<1>5. CASE beside = {}
  BY <1>4, <1>5 DEF IconOrNone, beside
<1>6. CASE beside # {}
  <2>1. Min(beside) \in beside
    BY <1>3, <1>6, MinOfNaturals
  <2>2. Decodes(files[Min(beside)].data)
    BY <1>1, <1>2, <2>1
  <2>3. QED
    BY <1>4, <1>6, <2>2, LoadIcnsIs DEF Sizes, beside
<1>7. QED
  BY <1>5, <1>6

(* What a tile needs of its entry; in text mode, entries have no picture. *)
EntryPictured(textonly, e) ==
    /\ {"row", "image", "badge"} \subseteq DOMAIN e
    /\ ~textonly => IsIcon(e.image)
    /\ IconOrNone(e.badge)

Pictured(list) == \A i \in DOMAIN list : EntryPictured(config.TextOnly, list[i])

(* Such lists grow, *)
LEMMA PicturedAdded ==
    ASSUME NEW s, NEW e, AreEntries(s), Pictured(s), EntryPictured(config.TextOnly, e)
    PROVE  Pictured(Append(s, e))
<1>1. IsSeq(s)
  BY DEF AreEntries
<1>2. /\ IsSeq(Append(s, e)) /\ Len(Append(s, e)) = Len(s) + 1
      /\ \A i \in DOMAIN s : Append(s, e)[i] = s[i]
      /\ Append(s, e)[Len(s) + 1] = e
  BY <1>1, SeqAppend
<1>3. /\ DOMAIN Append(s, e) = 1 .. Len(Append(s, e))
      /\ Len(s) \in Nat /\ DOMAIN s = 1 .. Len(s)
  BY <1>1, <1>2, SeqIs
<1>4. ASSUME NEW i \in DOMAIN Append(s, e) PROVE i \in DOMAIN s \/ i = Len(s) + 1
  BY <1>2, <1>3
<1>5. QED
  BY <1>2, <1>4 DEF Pictured

(* are put together, *)
LEMMA PicturedJoined ==
    ASSUME NEW s, NEW t, AreEntries(s), AreEntries(t), Pictured(s), Pictured(t)
    PROVE  Pictured(s \o t)
<1> DEFINE u == s \o t
<1>1. IsSeq(s) /\ IsSeq(t)
  BY DEF AreEntries
<1>2. /\ IsSeq(u) /\ Len(u) = Len(s) + Len(t)
      /\ \A i \in DOMAIN s : u[i] = s[i]
      /\ \A i \in 1 .. Len(t) : u[Len(s) + i] = t[i]
  BY <1>1, SeqConcat
<1> HIDE DEF u
<1>3. /\ DOMAIN u = 1 .. Len(u) /\ Len(s) \in Nat /\ DOMAIN s = 1 .. Len(s)
      /\ Len(t) \in Nat /\ DOMAIN t = 1 .. Len(t)
  BY <1>1, <1>2, SeqIs
<1>4. ASSUME NEW i \in DOMAIN u PROVE EntryPictured(config.TextOnly, u[i])
  <2>1. CASE i \in DOMAIN s
    BY <1>2, <2>1 DEF Pictured
  <2>2. CASE i \notin DOMAIN s
    <3>1. i - Len(s) \in 1 .. Len(t) /\ i = Len(s) + (i - Len(s))
      BY <1>2, <1>3, <2>2
    <3>2. u[i] = t[i - Len(s)]
      BY <1>2, <3>1
    <3>3. QED
      BY <1>3, <3>1, <3>2 DEF Pictured
  <2>3. QED
    BY <2>1, <2>2
<1>5. QED
  BY <1>4 DEF Pictured, u

(* are left out, *)
LEMMA PicturedWhen ==
    ASSUME NEW s, NEW condition, Pictured(s)
    PROVE  Pictured(When(condition, s))
<1>1. Pictured(<<>>)
  BY SeqOne DEF Pictured
<1>2. QED
  BY <1>1 DEF When

(* and are made of one entry. *)
LEMMA OnePictured ==
    ASSUME NEW e, IsEntry(e), EntryPictured(config.TextOnly, e)
    PROVE  AreEntries(<<e>>) /\ Pictured(<<e>>)
BY SeqOne, OneEntry DEF Pictured

(* The badge of an entry is that of its volume. *)
LEMMA BadgeIs ==
    ASSUME NEW v, VolumePictured(vols[v])
    PROVE  IconOrNone(Badge(v))
BY DEF Badge, VolumePictured, IconOrNone

(* Entries for systems in boot sectors, *)
LEMMA LegacyEntryPictured ==
    ASSUME NEW v, VolumePictured(vols[v]), machine \in DOMAIN Machines
    PROVE  EntryPictured(config.TextOnly, LegacyEntry(v))
<1> DEFINE e == LegacyEntry(v)
           image == LoadOSIcon(vols[v].os.icons, "legacy", FALSE)
<1>1. {"row", "image", "badge"} \subseteq DOMAIN e /\ e.image = image /\ e.badge = Badge(v)
  BY DEF LegacyEntry, Entry
<1>2. ~config.TextOnly => IsIcon(image)
  BY LoadOSIconIs
<1>3. IconOrNone(Badge(v))
  BY BadgeIs
<1> HIDE DEF e, image
<1>4. QED
  BY <1>1, <1>2, <1>3 DEF EntryPictured, e

(* for loaders, *)
LEMMA LoaderEntryPictured ==
    ASSUME NEW v, NEW loader, VolumePictured(vols[v]), vols[v].files # NULL, machine \in DOMAIN Machines
    PROVE  EntryPictured(config.TextOnly, LoaderEntry(v, loader))
<1> DEFINE f == loader.file
           kind == LoaderKind(f)
           own == OwnIcon(v, FilesAs(v, f.dir, f.base, "icns"))
           image == WithFallback(own, kind.icons)
           e == EntryFor(f, kind, loader.title, v, image)
<1>1. LoaderEntry(v, loader) = e
  BY DEF LoaderEntry
<1>2. IconOrNone(own)
  BY OwnIconIs
<1> HIDE DEF own
<1>3. ~config.TextOnly => IsIcon(image)
  BY <1>2, LoadOSIconIs DEF WithFallback, IconOrNone
<1> HIDE DEF image, kind, f
<1>4. {"row", "image", "badge"} \subseteq DOMAIN e /\ e.image = image /\ e.badge = Badge(v)
  BY DEF EntryFor, Entry
<1>5. IconOrNone(Badge(v))
  BY BadgeIs
<1> HIDE DEF e
<1>6. QED
  BY <1>1, <1>3, <1>4, <1>5 DEF EntryPictured

(* for tools, *)
LEMMA ToolEntriesPictured ==
    ASSUME machine \in DOMAIN Machines
    PROVE  Pictured(ToolEntries)
<1>1. \A s, t : AreEntries(s) /\ AreEntries(t) /\ Pictured(s) /\ Pictured(t)
                => AreEntries(s \o t) /\ Pictured(s \o t)
  BY EntriesJoined, PicturedJoined
<1>2. \A s, condition : AreEntries(s) /\ Pictured(s)
                        => AreEntries(When(condition, s)) /\ Pictured(When(condition, s))
  BY EntriesWhen, PicturedWhen
<1>3. \A e : IsEntry(e) /\ EntryPictured(config.TextOnly, e) => AreEntries(<<e>>) /\ Pictured(<<e>>)
  BY OnePictured
<1>4. ASSUME NEW title, NEW letter, NEW path, NEW name, NEW options
      PROVE  LET a == Tool(title, letter, path, BuiltinIcon(name, 48))
                 b == [a EXCEPT !.options = options]
             IN  /\ IsEntry(a) /\ EntryPictured(config.TextOnly, a)
                 /\ IsEntry(b) /\ EntryPictured(config.TextOnly, b)
  <2> DEFINE image == BuiltinIcon(name, 48)
             a == Tool(title, letter, path, image)
             b == [a EXCEPT !.options = options]
  <2>1. ~config.TextOnly => IsIcon(image)
    BY BuiltinIconIs DEF Sizes
  <2> HIDE DEF image
  <2>2. IsEntry(a) /\ IsEntry(b)
    BY DEF Tool, Entry, IsEntry
  <2>3. /\ {"row", "image", "badge"} \subseteq DOMAIN a /\ a.image = image /\ a.badge = NULL
        /\ {"row", "image", "badge"} \subseteq DOMAIN b /\ b.image = image /\ b.badge = NULL
    BY DEF Tool, Entry
  <2> HIDE DEF a, b
  <2>4. EntryPictured(config.TextOnly, a) /\ EntryPictured(config.TextOnly, b)
    BY <2>1, <2>3 DEF EntryPictured, IconOrNone
  <2>5. QED
    BY <2>2, <2>4 DEF a, b, image
<1>5. PICK c0, c1, c2, c3, a, b, d :
         /\ ToolEntries = When(c0, When(c1, <<a>>) \o When(c2, <<b>>) \o When(c3, <<d>>))
         /\ IsEntry(a) /\ IsEntry(b) /\ IsEntry(d)
         /\ EntryPictured(config.TextOnly, a) /\ EntryPictured(config.TextOnly, b)
         /\ EntryPictured(config.TextOnly, d)
  <2> DEFINE shell == {"efi/refit/apps/shell.efi", "efi/tools/shell.efi"} \intersect M.tools
             path == IF "efi/refit/apps/shell.efi" \in shell THEN "efi/refit/apps/shell.efi"
                     ELSE "efi/tools/shell.efi"
             a == Tool("EFI Shell", "S", path, BuiltinIcon("tool_shell", 48))
             b == Tool("Partitioning Tool", "P", "efi/tools/gptsync.efi", BuiltinIcon("tool_part", 48))
             rescue == Tool("Rescue Linux", NULL, "efi/rescue/elilo.efi", BuiltinIcon("tool_rescue", 48))
             d == [rescue EXCEPT !.options = M.screen]
             c0 == "tools" \notin config.DisableFlags
             c1 == "shell" \notin config.DisableFlags /\ shell # {}
             c2 == "efi/tools/gptsync.efi" \in M.tools
             c3 == M.self /\ "efi/rescue/elilo.efi" \in M.tools
  <2>1. /\ IsEntry(a) /\ IsEntry(b) /\ IsEntry(d)
        /\ EntryPictured(config.TextOnly, a) /\ EntryPictured(config.TextOnly, b)
        /\ EntryPictured(config.TextOnly, d)
    <3> HIDE DEF path
    <3>1. IsEntry(a) /\ EntryPictured(config.TextOnly, a)
      BY <1>4
    <3>2. IsEntry(b) /\ EntryPictured(config.TextOnly, b)
      BY <1>4
    <3>3. IsEntry(d) /\ EntryPictured(config.TextOnly, d)
      BY <1>4
    <3>4. QED
      BY <3>1, <3>2, <3>3
  <2>2. ToolEntries = When(c0, When(c1, <<a>>) \o When(c2, <<b>>) \o When(c3, <<d>>))
    BY DEF ToolEntries
  <2> HIDE DEF a, b, d, c0, c1, c2, c3
  <2>3. QED
    BY <2>1, <2>2
<1>6. /\ AreEntries(When(c1, <<a>>)) /\ AreEntries(When(c2, <<b>>)) /\ AreEntries(When(c3, <<d>>))
      /\ Pictured(When(c1, <<a>>)) /\ Pictured(When(c2, <<b>>)) /\ Pictured(When(c3, <<d>>))
  BY <1>2, <1>3, <1>5
<1>7. /\ AreEntries(When(c1, <<a>>) \o When(c2, <<b>>) \o When(c3, <<d>>))
      /\ Pictured(When(c1, <<a>>) \o When(c2, <<b>>) \o When(c3, <<d>>))
  BY <1>1, <1>6
<1>8. QED
  BY <1>2, <1>5, <1>7

(* and for the functions of rEFIt. *)
LEMMA FixedEntriesPictured ==
    ASSUME NEW list, machine \in DOMAIN Machines
    PROVE  Pictured(FixedEntries(list))
<1> DEFINE a == Fixed("about", "About rEFIt", "A", "func_about")
           b == Fixed("shutdown", "Shut Down Computer", "U", "func_shutdown")
           c == Fixed("reset", "Restart Computer", "R", "func_reset")
           first == When("funcs" \notin config.HideUIFlags, <<a>>)
           second == When("funcs" \notin config.HideUIFlags \/ list = <<>>, <<b, c>>)
<1>1. ASSUME NEW tag, NEW title, NEW letter, NEW icon
      PROVE  LET e == Fixed(tag, title, letter, icon)
             IN  IsEntry(e) /\ EntryPictured(config.TextOnly, e)
  <2> DEFINE image == BuiltinIcon(icon, 48)
             e == Fixed(tag, title, letter, icon)
  <2>1. ~config.TextOnly => IsIcon(image)
    BY BuiltinIconIs DEF Sizes
  <2>2. /\ {"row", "image", "badge"} \subseteq DOMAIN e /\ e.image = image /\ e.badge = NULL
        /\ IsEntry(e)
    BY DEF Fixed, Entry, IsEntry
  <2> HIDE DEF e, image
  <2>3. EntryPictured(config.TextOnly, e)
    BY <2>1, <2>2 DEF EntryPictured, IconOrNone
  <2>4. QED
    BY <2>2, <2>3 DEF e
<1>2. /\ IsEntry(a) /\ IsEntry(b) /\ IsEntry(c)
      /\ EntryPictured(config.TextOnly, a) /\ EntryPictured(config.TextOnly, b)
      /\ EntryPictured(config.TextOnly, c)
  BY <1>1
<1>3. FixedEntries(list) = first \o second
  BY DEF FixedEntries
<1> HIDE DEF a, b, c
<1>4. AreEntries(<<b, c>>) /\ Pictured(<<b, c>>)
  <2>1. <<b, c>> \in Seq({b, c})
    OBVIOUS
  <2>2. IsSeq(<<b, c>>)
    BY <2>1 DEF IsSeq
  <2>3. QED
    BY <1>2, <2>2 DEF AreEntries, Pictured
<1>5. AreEntries(first) /\ AreEntries(second) /\ Pictured(first) /\ Pictured(second)
  BY <1>2, <1>4, OnePictured, EntriesWhen, PicturedWhen
<1> HIDE DEF first, second
<1>6. QED
  BY <1>3, <1>5, PicturedJoined

(* Digits change no picture. *)
LEMMA WithFixedPictured ==
    ASSUME NEW list, AreEntries(list), Pictured(list), machine \in DOMAIN Machines
    PROVE  Pictured(WithFixed(list))
<1> DEFINE all == list \o FixedEntries(list)
           new == WithDigits(all)
           f(i) == IF i <= 9 /\ \A k \in 1 .. i : all[k].row = 0
                   THEN [all[i] EXCEPT !.digit = Digits[i]] ELSE all[i]
<1>1. Pictured(all)
  BY FixedEntriesAre, FixedEntriesPictured, PicturedJoined
<1>2. new = [i \in DOMAIN all |-> f(i)] /\ WithFixed(list) = new
  BY DEF WithDigits, WithFixed
<1> HIDE DEF all
<1>3. ASSUME NEW i \in DOMAIN all PROVE EntryPictured(config.TextOnly, f(i))
  <2> DEFINE e == all[i]
  <2>1. EntryPictured(config.TextOnly, e)
    BY <1>1 DEF Pictured
  <2>2. f(i) = e \/ f(i) = [e EXCEPT !.digit = Digits[i]]
    OBVIOUS
  <2> HIDE DEF e, f
  <2>3. \A d : EntryPictured(config.TextOnly, [e EXCEPT !.digit = d])
    BY <2>1 DEF EntryPictured
  <2>4. QED
    BY <2>1, <2>2, <2>3
<1> HIDE DEF f, new
<1>4. QED
  BY <1>2, <1>3 DEF Pictured

------------------------------------------------------------------------------
(* The pictures of tiles.                                                     *)

(* The background of menus is a pixel, *)
LEMMA MenuBackgroundIs ==
    ASSUME NEW s, machine \in DOMAIN Machines, BannerHolds(s, Banner)
    PROVE  s.menubg \in Pixel
<1>1. CASE s.banner = NULL
  BY <1>1 DEF BannerHolds, StdBackgroundPixel, Pixel, Byte
<1>2. CASE s.banner # NULL
  <2>1. s.banner = Banner /\ s.menubg = Banner.PixelData[<<0, 0>>] /\ Banner # NULL
    BY <1>2 DEF BannerHolds
  <2>2. Banner = EmbeddedBanner \/ Banner = LoadImage(config.BannerFileName)
    BY DEF Banner
  <2>3. IsImage(Banner, FALSE)
    BY <2>1, <2>2, LoadImageIs, ImagesAssumption
  <2>4. QED
    BY <2>1, <2>3, CornerIs
<1>3. QED
  BY <1>1, <1>2

(* and the tiles that are made with it fit. *)
LEMMA SelectionImagesAre ==
    ASSUME machine \in DOMAIN Machines, NEW color \in Pixel
    PROVE  LET small == EnsureImageSize(SmallSelection, Side[64], Side[64], color)
           IN  AreTiles4(SelectionImages(small, color))
<1> DEFINE first == SmallSelection
           small == EnsureImageSize(first, Side[64], Side[64], color)
           big == BigSelection(small, color)
           own == LoadImage(config.SelectionBigFileName)
<1>1. Side[64] \in Nat \ {0} /\ Side[144] \in Nat \ {0}
  BY ImagesAssumption
<1>2. first # NULL /\ IsImage(first, FALSE)
  BY LoadImageIs, ImagesAssumption DEF SmallSelection
<1> HIDE DEF first
<1>3. IsTile(small, Side[64])
  BY <1>1, <1>2, EnsureImageSizeIs
<1> HIDE DEF small
<1>4. IsTile(big, Side[144])
  <2>1. CASE own = NULL
    <3>1. big = Stretched(small)
      BY <2>1 DEF BigSelection
    <3>2. QED
      BY <1>3, <3>1, StretchedIs
  <2>2. CASE own # NULL
    <3>1. big = EnsureImageSize(own, Side[144], Side[144], color) /\ IsImage(own, FALSE)
      BY <2>2, LoadImageIs DEF BigSelection
    <3> HIDE DEF own, big
    <3>2. QED
      BY <1>1, <2>2, <3>1, EnsureImageSizeIs
  <2>3. QED
    BY <2>1, <2>2
<1> DEFINE plain(side) == CreateFilledImage(side, side, FALSE, color)
<1>5. ASSUME NEW side \in Nat \ {0} PROVE IsTile(plain(side), side)
  BY FilledIs DEF IsTile
<1>6. SelectionImages(small, color) = <<big, plain(Side[144]), small, plain(Side[64])>>
  BY DEF SelectionImages
<1> HIDE DEF big, plain
<1>7. AreTiles4(SelectionImages(small, color))
  BY <1>1, <1>3, <1>4, <1>5, <1>6 DEF AreTiles4
<1>8. QED
  BY <1>7 DEF small, first

(* Tiles are made once, or not at all. *)
TilesMade(s) == s.tiles = NULL \/ AreTiles4(s.tiles)

(* After InitSelection there are tiles. *)
LEMMA InitSelectionMakes ==
    ASSUME NEW s, IsScreen(s), s.allow, machine \in DOMAIN Machines, BannerHolds(s, Banner), TilesMade(s)
    PROVE  AreTiles4(InitSelection(s).tiles)
<1>1. CASE s.tiles # NULL
  BY <1>1 DEF InitSelection, TilesMade
<1>2. CASE s.tiles = NULL
  <2> DEFINE color == s.menubg
             tiles == SelectionImages(EnsureImageSize(SmallSelection, Side[64], Side[64], color), color)
  <2>1. InitSelection(s) = [s EXCEPT !.tiles = tiles]
    BY <1>2 DEF InitSelection
  <2>2. color \in Pixel
    BY MenuBackgroundIs
  <2> HIDE DEF color
  <2>3. AreTiles4(tiles)
    BY <2>2, SelectionImagesAre
  <2> HIDE DEF tiles
  <2>4. [s EXCEPT !.tiles = tiles].tiles = tiles
    BY DEF IsScreen, Fields
  <2>5. QED
    BY <2>1, <2>3, <2>4
<1>3. QED
  BY <1>1, <1>2

(* The main menu is shown with them. *)
MainHasTiles(c, m, s) == c = "menu" /\ m.name = "main" /\ s.allow => AreTiles4(s.tiles)

TilesInv == TilesMade(scr) /\ MainHasTiles(pc, menu, scr)

(* Where no main menu is shown, tiles only have to stay. *)
LEMMA ElsewhereTiles ==
    ASSUME TilesInv, scr'.tiles = scr.tiles, pc' # "menu"
    PROVE  TilesInv'
BY DEF TilesInv, TilesMade, MainHasTiles

(* Where it is shown, they are there. *)
LEMMA RunMainMenuTiles ==
    ASSUME BootInv, NEW s, NEW list, Settled(Look, s), Quiet(s), Ready(Look, s), RunMainMenu(s, list),
           TilesMade(s)
    PROVE  TilesInv'
<1> DEFINE x == MenuEntries(list)
           current == DefaultEntry(list)
           t == ShowMenu(s, x, TRUE, current)
<1>1. scr' = t
  BY DEF RunMainMenu
<1> HIDE DEF x, current
<1>2. t.allow = s.allow /\ t.tiles = TilesFor(s, TRUE)
  BY ShowMenuHolds
<1> HIDE DEF t
<1>3. IsScreen(s) /\ BannerHolds(s, Banner) /\ machine \in DOMAIN Machines
  BY MachineIs DEF Settled, BootInv
<1>4. CASE s.allow
  <2>1. AreTiles4(InitSelection(s).tiles)
    BY <1>3, <1>4, InitSelectionMakes
  <2>2. AreTiles4(t.tiles)
    BY <1>2, <1>4, <2>1 DEF TilesFor
  <2>3. QED
    BY <1>1, <2>2 DEF TilesInv, TilesMade, MainHasTiles
<1>5. CASE ~s.allow
  <2>1. t.tiles = s.tiles /\ ~t.allow
    BY <1>2, <1>5 DEF TilesFor
  <2>2. QED
    BY <1>1, <2>1 DEF TilesInv, TilesMade, MainHasTiles
<1>6. QED
  BY <1>4, <1>5

(* Up to the main menu no tiles are made. *)
LEMMA TilesBefore ==
    ASSUME BootInv, TilesInv,
           \/ Boot \/ BootFails \/ ReadConfig \/ NoConfig \/ ConfigFails \/ ReadConfigLine \/ ConfigDone
           \/ SetUpScreen \/ StartDriver \/ DriversDone \/ ScanDevice \/ ScanVolumesFails
           \/ VolumesScanned \/ RelateVolume \/ VolumesDone \/ ScanLoader \/ AddLoader \/ LoadersDone
           \/ ScanLegacy \/ LegacyDone
    PROVE  TilesInv'
<1>1. IsScreen(scr) /\ ScreenHolds(Look, pc, scr)
  BY InvScreen
<1>2. M.graphics \in BOOLEAN /\ Look.graphics = M.graphics
  BY MachineIs
<1>3. ASSUME NEW s, NEW message, IsScreen(s) PROVE CheckError(s, message).tiles = s.tiles
  <2>1. Keeps(s, CheckError(s, message), {"errors", "error"})
    BY <1>3, CheckErrorDoes
  <2>2. QED
    BY <2>1 DEF Keeps, Fields
<1>4. CASE Boot \/ BootFails
  <2>1. IsScreen(InitScreen(scr)) /\ InitScreen(scr).tiles = scr.tiles
    BY <1>1, <1>2, InitScreenDoes
  <2>2. scr' = InitScreen(scr) \/ \E message : scr' = CheckError(InitScreen(scr), message)
    BY <1>4 DEF Boot, BootFails
  <2>3. scr'.tiles = scr.tiles
    BY <1>3, <2>1, <2>2
  <2>4. pc' # "menu"
    BY <1>4 DEF Boot, BootFails
  <2>5. QED
    BY <2>3, <2>4, ElsewhereTiles
<1>5. CASE SetUpScreen
  <2>1. pc = "setup" /\ scr' = SetupScreen(scr) /\ pc' = "drivers"
    BY <1>5 DEF SetUpScreen
  <2>2. scr.allow = M.graphics /\ BannerHolds(scr, Banner)
    BY <1>1, <1>2, <2>1 DEF ScreenHolds, BannerHolds
  <2>3. scr'.tiles = scr.tiles
    BY <1>1, <1>2, <2>1, <2>2, SetupScreenDoes
  <2>4. QED
    BY <2>1, <2>3, ElsewhereTiles
<1>6. CASE ~(Boot \/ BootFails \/ SetUpScreen)
  <2>1. scr' = scr \/ \E message : scr' = CheckError(scr, message)
    BY <1>6 DEF ReadConfig, NoConfig, ConfigFails, ReadConfigLine, ConfigDone, StartDriver, DriversDone,
       ScanDevice, ScanVolumesFails, VolumesScanned, RelateVolume, VolumesDone, ScanLoader, AddLoader,
       LoadersDone, ScanLegacy, LegacyDone
  <2>2. pc' # "menu"
    BY <1>6, AfterIs
       DEF ReadConfig, NoConfig, ConfigFails, ReadConfigLine, ConfigDone, StartDriver, DriversDone,
       ScanDevice, ScanVolumesFails, VolumesScanned, RelateVolume, VolumesDone, ScanLoader, AddLoader,
       LoadersDone, ScanLegacy, LegacyDone, Scans
  <2>3. scr'.tiles = scr.tiles
    BY <1>1, <1>3, <2>1
  <2>4. QED
    BY <2>2, <2>3, ElsewhereTiles
<1>7. QED
  BY <1>4, <1>5, <1>6

(* In a menu they stay as they are, *)
LEMMA TilesInMenus ==
    ASSUME BootInv, TilesInv, Select \/ ScreenShot
    PROVE  TilesInv'
<1>1. pc = "menu" /\ pc' = "menu"
  BY DEF Select, ScreenShot
<1>2. IsScreen(scr) /\ IsMenu(menu) /\ (scr.allow => M.graphics)
  BY <1>1, InMenu, MachineIs DEF Settled
<1>3. menu'.name = menu.name
  BY <1>2 DEF Select, ScreenShot, IsMenu
<1>4. scr'.tiles = scr.tiles /\ scr'.allow = scr.allow
  <2>1. CASE Select
    <3> DEFINE x == Menu(menu)
    <3>1. PICK i : scr' = PaintSelection(scr, x, menu.name = "main", menu.current, i)
      BY <2>1 DEF Select
    <3> HIDE DEF x
    <3>2. \/ \E on : scr' = [scr EXCEPT !.text.on = on]
          \/ \E painting : scr' = Paint(scr, painting)
      BY <3>1 DEF PaintSelection
    <3>3. ASSUME NEW on PROVE [scr EXCEPT !.text.on = on].tiles = scr.tiles
                              /\ [scr EXCEPT !.text.on = on].allow = scr.allow
      BY <1>2 DEF IsScreen, Fields
    <3>4. ASSUME NEW painting PROVE Paint(scr, painting).tiles = scr.tiles
                                    /\ Paint(scr, painting).allow = scr.allow
      BY <1>2 DEF Paint, IsScreen, Fields
    <3>5. QED
      BY <3>2, <3>3, <3>4
  <2>2. CASE ScreenShot
    <3>1. scr' = ScreenShotFails(scr)
      BY <2>2 DEF ScreenShot
    <3>2. Keeps(scr, scr', {"text", "gfx", "mode"})
      <4> DEFINE u == Printed(scr)
      <4>1. IsScreen(u) /\ Keeps(scr, u, {"text", "gfx"})
        BY <1>2, PrintedDoes
      <4>2. scr' = scr \/ scr' = SetGraphicsModeEnabled(u, FALSE)
        BY <3>1 DEF ScreenShotFails
      <4> HIDE DEF u
      <4>3. Keeps(u, SetGraphicsModeEnabled(u, FALSE), {"mode"})
        BY <4>1, SwitchDoes
      <4>4. QED
        BY <4>1, <4>2, <4>3 DEF Keeps
    <3>3. QED
      BY <3>2 DEF Keeps, Fields
  <2>3. QED
    BY <2>1, <2>2
<1>5. QED
  BY <1>1, <1>3, <1>4 DEF TilesInv, TilesMade, MainHasTiles

(* and when another one is opened. *)
LEMMA TilesBehind ==
    ASSUME BootInv, TilesInv, Details \/ About
    PROVE  TilesInv'
<1>1. pc = "menu" /\ scr' = ShowMenu(scr, Menu(menu'), FALSE, 1) /\ menu'.name # "main"
  <2>1. pc = "menu" /\ \E name \in {"details", "about"} : \E of : RunMenu(name, of)
    BY DEF Details, About
  <2>2. menu'.name \in {"details", "about"} /\ scr' = ShowMenu(scr, Menu(menu'), FALSE, 1)
    BY <2>1 DEF RunMenu
  <2>3. QED
    BY <2>1, <2>2
<1>2. Settled(Look, scr) /\ Quiet(scr) /\ Ready(Look, scr)
  BY <1>1, InMenu
<1>3. \A x : ShowMenu(scr, x, FALSE, 1).tiles = TilesFor(scr, FALSE)
  BY <1>2, ShowMenuHolds
<1>4. scr'.tiles = scr.tiles
  BY <1>1, <1>3 DEF TilesFor
<1>5. QED
  BY <1>1, <1>4 DEF TilesInv, TilesMade, MainHasTiles

(* From a menu to a program they are kept, *)
LEMMA TilesInPrograms ==
    ASSUME BootInv, TilesInv, Leave \/ StartLoader \/ StartLegacy \/ SearchLoader \/ AddHardcoded \/ LoadProgram
    PROVE  TilesInv'
<1>1. IsScreen(scr)
  BY InvScreen
<1>2. CASE Leave
  <2> DEFINE u == ClearConsole(scr, NULL)
             t == [u EXCEPT !.cursor = TRUE]
  <2>1. scr' = t /\ pc' = "off"
    BY <1>2 DEF Leave, TerminateScreen
  <2>2. IsScreen(u) /\ Keeps(scr, u, {"text", "errors", "lost", "gfx"})
    BY <1>1, ClearConsoleDoes
  <2> HIDE DEF u
  <2>3. t.tiles = u.tiles
    BY <2>2 DEF IsScreen, Fields
  <2> HIDE DEF t
  <2>4. scr'.tiles = scr.tiles
    BY <2>1, <2>2, <2>3 DEF Keeps, Fields
  <2>5. QED
    BY <2>1, <2>4, ElsewhereTiles
<1>3. CASE StartLoader
  <2>1. pc = "menu" /\ pc' = "load" /\ \E graphics, title : scr' = BeginExternalScreen(scr, graphics, title)
    BY <1>3 DEF StartLoader
  <2>2. scr'.tiles = scr.tiles
    BY <2>1, BeginExternalHolds
  <2>3. QED
    BY <2>1, <2>2, ElsewhereTiles
<1>4. CASE StartLegacy
  <2> DEFINE logo == LoadOSIcon(vols[chosen'.volume].os.icons, "legacy", TRUE)
             u == BeginExternalScreen(scr, TRUE, "Booting Legacy OS")
             t == ShowLogo(u, logo)
  <2>1. pc = "menu" /\ pc' = "search"
    BY <1>4 DEF StartLegacy
  <2>2. PICK listed \in BOOLEAN : scr' = CheckListed(t, listed)
    BY <1>4 DEF StartLegacy
  <2> HIDE DEF logo
  <2>3. Settled(Look, u) /\ Noted(u) /\ u.tiles = scr.tiles
    BY <2>1, BeginExternalHolds
  <2> HIDE DEF u
  <2>4. Settled(Look, t) /\ t.tiles = u.tiles
    BY <2>3, ShowLogoHolds
  <2> HIDE DEF t
  <2>5. scr'.tiles = scr.tiles
    BY <2>2, <2>3, <2>4, ErrorSettled DEF CheckListed
  <2>6. QED
    BY <2>1, <2>5, ElsewhereTiles
<1>5. CASE SearchLoader \/ AddHardcoded \/ LoadProgram
  <2>1. pc' # "menu" /\ scr' = scr
    BY <1>5 DEF SearchLoader, AddHardcoded, LoadProgram
  <2>2. QED
    BY <2>1, ElsewhereTiles
<1>6. QED
  BY <1>2, <1>3, <1>4, <1>5

(* and made, if they are not yet, for the main menu. *)
LEMMA TilesForMain ==
    ASSUME BootInv, TilesInv, ScanTool \/ Back \/ LoadFails \/ ProgramReturns
    PROVE  TilesInv'
<1>1. TilesMade(scr)
  BY DEF TilesInv
<1>2. CASE ScanTool
  <2> DEFINE s == FinishTextScreen(scr)
  <2>1. pc = "tools" /\ RunMainMenu(s, entries')
    BY <1>2 DEF ScanTool
  <2>2. ScreenHolds(Look, "tools", scr) /\ IsScreen(scr)
    BY <2>1, InvScreen
  <2>3. /\ Noted(scr) /\ scr.lost \subseteq IF Look.one THEN {ConfigError} ELSE {}
        /\ scr.allow = (Look.graphics /\ ~Look.textonly) /\ BannerHolds(scr, Look.banner)
        /\ Ready(Look, scr)
    BY <2>2 DEF ScreenHolds, Late, Scanning, Scans
  <2>4. /\ IsScreen(s) /\ Keeps(scr, s, {"mode", "cursor", "errors", "error"})
        /\ s.errors = {} /\ s.error = FALSE
    BY <2>2, <2>3, FinishTextScreenDoes
  <2> HIDE DEF s
  <2>5. /\ s.lost = scr.lost /\ s.allow = scr.allow /\ s.banner = scr.banner /\ s.tiles = scr.tiles
        /\ s.menubg = scr.menubg /\ s.dirty = scr.dirty /\ s.gfx = scr.gfx
    BY <2>4 DEF Keeps, Fields
  <2>6. Settled(Look, s)
    BY <2>3, <2>4, <2>5 DEF Settled, BannerHolds
  <2>7. Quiet(s) /\ Ready(Look, s) /\ TilesMade(s)
    BY <1>1, <2>3, <2>4, <2>5 DEF Quiet, Ready, IsClear, TilesMade
  <2>8. QED
    BY <2>1, <2>6, <2>7, RunMainMenuTiles
<1>3. CASE Back
  <2>1. pc = "menu" /\ RunMainMenu(scr, entries)
    BY <1>3 DEF Back
  <2>2. Settled(Look, scr) /\ Quiet(scr) /\ Ready(Look, scr)
    BY <2>1, InMenu
  <2>3. QED
    BY <1>1, <2>1, <2>2, RunMainMenuTiles
<1>4. ASSUME NEW s, Settled(Look, s), Noted(s), s.tiles = scr.tiles, Returned(s)
      PROVE  TilesInv'
  <2> DEFINE t == FinishExternalScreen(s)
  <2>1. RunMainMenu(t, entries)
    BY <1>4 DEF Returned
  <2>2. /\ IsScreen(t) /\ Keeps(s, t, {"mode", "cursor", "errors", "error", "dirty"})
        /\ t.errors = {} /\ t.error = FALSE /\ t.dirty = TRUE
    BY <1>4, FinishExternalScreenDoes DEF Settled
  <2> HIDE DEF t
  <2>3. t.lost = s.lost /\ t.allow = s.allow /\ t.banner = s.banner /\ t.menubg = s.menubg /\ t.tiles = s.tiles
    BY <2>2 DEF Keeps, Fields
  <2>4. Settled(Look, t) /\ Quiet(t) /\ Ready(Look, t) /\ TilesMade(t)
    BY <1>1, <1>4, <2>2, <2>3 DEF Settled, Quiet, Ready, BannerHolds, TilesMade
  <2>5. QED
    BY <2>1, <2>4, RunMainMenuTiles
<1>5. CASE LoadFails
  <2> DEFINE s == CheckError(scr, "while loading a program")
  <2>1. pc \in Programs /\ Returned(s)
    BY <1>5 DEF LoadFails, Programs
  <2>2. Settled(Look, s) /\ Noted(s) /\ s.tiles = scr.tiles
    BY <2>1, InProgram, ErrorSettled
  <2> HIDE DEF s
  <2>3. QED
    BY <1>4, <2>1, <2>2
<1>6. CASE ProgramReturns
  <2>1. pc \in Programs
    BY <1>6 DEF ProgramReturns, Programs
  <2>2. Settled(Look, scr) /\ Noted(scr)
    BY <2>1, InProgram
  <2>3. PICK s \in ScreensAfter(scr) :
           \E seen \in {s, CheckError(s, "returned from a program")} : Returned(seen)
    BY <1>6 DEF ProgramReturns
  <2>4. Settled(Look, s) /\ Noted(s) /\ s.tiles = scr.tiles
    BY <2>2, ScreensAfterHold
  <2>5. PICK seen \in {s, CheckError(s, "returned from a program")} : Returned(seen)
    BY <2>3
  <2>6. Settled(Look, seen) /\ Noted(seen) /\ seen.tiles = scr.tiles
    <3>1. CASE seen = s
      BY <2>4, <3>1
    <3>2. CASE seen = CheckError(s, "returned from a program")
      BY <2>4, <3>2, ErrorSettled
    <3>3. QED
      BY <2>5, <3>1, <3>2
  <2>7. QED
    BY <1>4, <2>5, <2>6
<1>7. QED
  BY <1>2, <1>3, <1>5, <1>6

(* Whenever the main menu is painted, it has its tiles. *)
LEMMA TilesStep == BootInv /\ TilesInv /\ [Next]_vars => TilesInv'
<1> SUFFICES ASSUME BootInv, TilesInv, [Next]_vars PROVE TilesInv'
  OBVIOUS
<1>1. CASE UNCHANGED vars
  BY <1>1 DEF vars, TilesInv, TilesMade, MainHasTiles
<1>2. CASE \/ Boot \/ BootFails \/ ReadConfig \/ NoConfig \/ ConfigFails \/ ReadConfigLine \/ ConfigDone
           \/ SetUpScreen \/ StartDriver \/ DriversDone \/ ScanDevice \/ ScanVolumesFails
           \/ VolumesScanned \/ RelateVolume \/ VolumesDone \/ ScanLoader \/ AddLoader \/ LoadersDone
           \/ ScanLegacy \/ LegacyDone
  BY <1>2, TilesBefore
<1>3. CASE Select \/ ScreenShot
  BY <1>3, TilesInMenus
<1>4. CASE Details \/ About
  BY <1>4, TilesBehind
<1>5. CASE Leave \/ StartLoader \/ StartLegacy \/ SearchLoader \/ AddHardcoded \/ LoadProgram
  BY <1>5, TilesInPrograms
<1>6. CASE ScanTool \/ Back \/ LoadFails \/ ProgramReturns
  BY <1>6, TilesForMain
<1>7. QED
  BY <1>1, <1>2, <1>3, <1>4, <1>5, <1>6 DEF Next

------------------------------------------------------------------------------
(* Volumes and entries while rEFIt scans.                                     *)

AllPictured(list) == IsSeq(list) /\ \A v \in DOMAIN list : VolumePictured(list[v])

(* What is left to be done fits where rEFIt is. *)
TodoFits(c, list, n, vs) ==
    /\ c \notin {"lines", "loaders"} => list = <<>>
    /\ c = "loaders" /\ list # <<>> => n - 1 \in DOMAIN vs /\ vs[n - 1].files # NULL

ListsInv == /\ pc \in Start => entries = <<>>
            /\ Pictured(entries) /\ AllPictured(vols) /\ TodoFits(pc, todo, next, vols)

(* The badge for a kind of disk, *)
LEMMA DefaultBadgeIs ==
    ASSUME NEW kind, machine \in DOMAIN Machines
    PROVE  IconOrNone(DefaultBadge(kind))
<1>1. \A name : IconOrNone(BuiltinIcon(name, 32))
  BY BuiltinIconIs DEF Sizes
<1>2. \E name : DefaultBadge(kind) = BuiltinIcon(name, 32)
  BY DEF DefaultBadge
<1>3. QED
  BY <1>1, <1>2

(* and those of a device, *)
LEMMA ScanVolumePictured ==
    ASSUME NEW d \in DOMAIN M.devices, machine \in DOMAIN Machines
    PROVE  VolumePictured(ScanVolume(M.devices[d]))
<1> DEFINE device == M.devices[d]
<1>1. /\ device.files # NULL => IsSeq(device.files)
      /\ device.icon # NULL => Decodes(device.icon)
      /\ device.files # NULL => \A i \in DOMAIN device.files :
                                   device.files[i].ext = "icns" => Decodes(device.files[i].data)
  BY BootAssumption, ImagesAssumption DEF M, IsSeq
<1> HIDE DEF device
<1>2. ASSUME NEW boot, NEW at
      PROVE  VolumePictured(Volume(device, boot, at))
  <2> DEFINE badge == IF device.files = NULL \/ device.icon = NULL THEN DefaultBadge(at.kind)
                      ELSE LoadIcns(device.icon, 32)
  <2>1. IconOrNone(badge)
    BY <1>1, DefaultBadgeIs, LoadIcnsIs DEF Sizes
  <2>2. /\ Volume(device, boot, at).badge = badge /\ Volume(device, boot, at).files = device.files
        /\ {"badge", "files"} \subseteq DOMAIN Volume(device, boot, at)
    BY DEF Volume
  <2> HIDE DEF badge
  <2>3. QED
    BY <1>1, <2>1, <2>2 DEF VolumePictured
<1>3. QED
  BY <1>2 DEF ScanVolume, device

(* of a partition, *)
LEMMA RelatedPictured ==
    ASSUME NEW v, VolumePictured(vols[v])
    PROVE  VolumePictured(Related(v))
<1> DEFINE vol == vols[v]
<1> HIDE DEF vol
<1>1. Related(v) = vol \/ \E mbr, name : Related(v) = [vol EXCEPT !.mbr = mbr, !.name = name]
  BY DEF Related, vol
<1>2. ASSUME VolumePictured(vol), NEW mbr, NEW name
      PROVE  LET t == [vol EXCEPT !.mbr = mbr, !.name = name]
             IN  t.badge = vol.badge /\ t.files = vol.files /\ DOMAIN t = DOMAIN vol
  BY <1>2 DEF VolumePictured
<1>3. QED
  BY <1>1, <1>2 DEF VolumePictured, vol

(* and of the partitions in it. *)
LEMMA LogicalPictured ==
    ASSUME NEW v, machine \in DOMAIN Machines
    PROVE  AllPictured(LogicalVolumes(v))
<1> DEFINE sectors == M.devices[v].logical
           f(n) == LogicalVolume(vols[v], ScanVolumeBootcode(512, sectors[n]), n)
           new == [n \in DOMAIN sectors |-> f(n)]
<1>1. ASSUME NEW n PROVE VolumePictured(f(n))
  <2> DEFINE t == f(n)
  <2>1. /\ t.badge = DefaultBadge(vols[v].kind) /\ t.files = NULL
        /\ {"badge", "files"} \subseteq DOMAIN t
    BY DEF LogicalVolume
  <2> HIDE DEF t
  <2>2. VolumePictured(t)
    BY <2>1, DefaultBadgeIs DEF VolumePictured
  <2>3. QED
    BY <2>2 DEF t
<1>2. LogicalVolumes(v) = <<>> \/ (v \in DOMAIN M.devices /\ LogicalVolumes(v) = new)
  BY DEF LogicalVolumes
<1> HIDE DEF f
<1>3. CASE LogicalVolumes(v) = <<>>
  BY <1>3, SeqOne DEF AllPictured
<1>4. CASE v \in DOMAIN M.devices /\ LogicalVolumes(v) = new
  <2>1. sectors \in Seq(ToSet(sectors))
    BY <1>4, BootAssumption DEF M
  <2> HIDE DEF sectors
  <2>2. Len(sectors) \in Nat /\ DOMAIN sectors = 1 .. Len(sectors)
    BY <2>1
  <2>3. new \in Seq({f(n) : n \in DOMAIN sectors})
    BY <2>2
  <2>4. IsSeq(new) /\ DOMAIN new = DOMAIN sectors /\ \A n \in DOMAIN sectors : new[n] = f(n)
    BY <2>3 DEF IsSeq
  <2> HIDE DEF new
  <2>5. AllPictured(new)
    BY <1>1, <2>4 DEF AllPictured
  <2>6. QED
    BY <1>4, <2>5
<1>5. QED
  BY <1>2, <1>3, <1>4

(* Lists of volumes are put together, *)
LEMMA VolumesJoined ==
    ASSUME NEW s, NEW t, AllPictured(s), AllPictured(t)
    PROVE  AllPictured(s \o t)
<1> DEFINE u == s \o t
<1>1. IsSeq(s) /\ IsSeq(t)
  BY DEF AllPictured
<1>2. /\ IsSeq(u) /\ Len(u) = Len(s) + Len(t)
      /\ \A i \in DOMAIN s : u[i] = s[i]
      /\ \A i \in 1 .. Len(t) : u[Len(s) + i] = t[i]
  BY <1>1, SeqConcat
<1> HIDE DEF u
<1>3. /\ DOMAIN u = 1 .. Len(u) /\ Len(s) \in Nat /\ DOMAIN s = 1 .. Len(s)
      /\ Len(t) \in Nat /\ DOMAIN t = 1 .. Len(t)
  BY <1>1, <1>2, SeqIs
<1>4. ASSUME NEW i \in DOMAIN u PROVE VolumePictured(u[i])
  <2>1. CASE i \in DOMAIN s
    BY <1>2, <2>1 DEF AllPictured
  <2>2. CASE i \notin DOMAIN s
    <3>1. i - Len(s) \in 1 .. Len(t) /\ i = Len(s) + (i - Len(s))
      BY <1>2, <1>3, <2>2
    <3>2. u[i] = t[i - Len(s)]
      BY <1>2, <3>1
    <3>3. QED
      BY <1>3, <3>1, <3>2 DEF AllPictured
  <2>3. QED
    BY <2>1, <2>2
<1>5. QED
  BY <1>2, <1>4 DEF AllPictured, u

(* grow, *)
LEMMA VolumeAdded ==
    ASSUME NEW s, NEW e, AllPictured(s), VolumePictured(e)
    PROVE  AllPictured(Append(s, e))
<1>1. IsSeq(s)
  BY DEF AllPictured
<1>2. /\ IsSeq(Append(s, e)) /\ Len(Append(s, e)) = Len(s) + 1
      /\ \A i \in DOMAIN s : Append(s, e)[i] = s[i]
      /\ Append(s, e)[Len(s) + 1] = e
  BY <1>1, SeqAppend
<1>3. /\ DOMAIN Append(s, e) = 1 .. Len(Append(s, e))
      /\ Len(s) \in Nat /\ DOMAIN s = 1 .. Len(s)
  BY <1>1, <1>2, SeqIs
<1>4. ASSUME NEW i \in DOMAIN Append(s, e) PROVE i \in DOMAIN s \/ i = Len(s) + 1
  BY <1>2, <1>3
<1>5. QED
  BY <1>2, <1>4 DEF AllPictured

(* and change. *)
LEMMA VolumeReplaced ==
    ASSUME NEW s, NEW e, NEW k, AllPictured(s), VolumePictured(e)
    PROVE  AllPictured([s EXCEPT ![k] = e])
<1> DEFINE t == [s EXCEPT ![k] = e]
<1>1. Len(s) \in Nat /\ DOMAIN s = 1 .. Len(s)
  BY SeqIs DEF AllPictured
<1> DEFINE f(i) == IF i = k THEN e ELSE s[i]
           u == [i \in 1 .. Len(s) |-> f(i)]
<1>2. t = u
  BY <1>1
<1>3. IsSeq(t)
  <2> HIDE DEF f, t
  <2>1. u \in Seq({f(i) : i \in 1 .. Len(s)})
    BY <1>1
  <2>2. QED
    BY <1>2, <2>1 DEF IsSeq
<1>4. DOMAIN t = DOMAIN s /\ \A i \in DOMAIN s : t[i] = s[i] \/ t[i] = e
  OBVIOUS
<1> HIDE DEF t
<1>5. AllPictured(t)
  BY <1>3, <1>4 DEF AllPictured
<1>6. QED
  BY <1>5 DEF t

------------------------------------------------------------------------------
(* Most steps leave the lists alone. *)
LEMMA ListsKept ==
    ASSUME ListsInv, UNCHANGED <<config, vols, entries>>, pc' \in Start => pc \in Start,
           TodoFits(pc', todo', next', vols')
    PROVE  ListsInv'
BY DEF ListsInv, Pictured

(* The configuration is read before there are entries. *)
LEMMA ListsAtStart ==
    ASSUME ListsInv, ReadConfig \/ ReadConfigLine
    PROVE  ListsInv'
<1>1. pc \in Start /\ pc' = "lines" /\ UNCHANGED <<vols, entries>>
  BY DEF ReadConfig, ReadConfigLine, Start
<1>2. entries = <<>> /\ entries' = <<>>
  BY <1>1 DEF ListsInv
<1>3. Pictured(entries)'
  BY <1>2, SeqOne DEF Pictured
<1>4. TodoFits(pc', todo', next', vols')
  BY <1>1 DEF TodoFits
<1>5. QED
  BY <1>1, <1>2, <1>3, <1>4 DEF ListsInv

(* Volumes are found and related to disks, *)
LEMMA ListsOfVolumes ==
    ASSUME BootInv, ListsInv, ScanDevice \/ RelateVolume
    PROVE  ListsInv'
<1>1. /\ pc \in {"volumes", "relate"} /\ pc' = pc /\ UNCHANGED <<config, entries, todo>>
      /\ machine \in DOMAIN Machines /\ AllPictured(vols) /\ todo = <<>>
  BY DEF ScanDevice, RelateVolume, ListsInv, TodoFits, BootInv
<1>2. CASE ScanDevice
  <2>1. next \in DOMAIN M.devices /\ vols' = Append(vols, ScanVolume(M.devices[next]))
    BY <1>2 DEF ScanDevice
  <2>2. AllPictured(vols')
    BY <1>1, <2>1, ScanVolumePictured, VolumeAdded
  <2>3. QED
    BY <1>1, <2>2 DEF ListsInv, TodoFits, Start, Pictured
<1>3. CASE RelateVolume
  <2>1. next \in DOMAIN vols /\ vols' = [vols EXCEPT ![next] = Related(next)] \o LogicalVolumes(next)
    BY <1>3 DEF RelateVolume
  <2>2. VolumePictured(vols[next])
    BY <1>1, <2>1 DEF AllPictured
  <2>3. VolumePictured(Related(next)) /\ AllPictured(LogicalVolumes(next))
    BY <1>1, <2>2, RelatedPictured, LogicalPictured
  <2>4. AllPictured(vols')
    BY <1>1, <2>1, <2>3, VolumeReplaced, VolumesJoined
  <2>5. QED
    BY <1>1, <2>4 DEF ListsInv, TodoFits, Start, Pictured
<1>4. QED
  BY <1>2, <1>3

(* loaders looked for, *)
LEMMA ListsOfLoaders ==
    ASSUME BootInv, ListsInv, ScanLoader
    PROVE  ListsInv'
<1>1. /\ pc = "loaders" /\ pc' = "loaders" /\ next \in DOMAIN vols /\ next' = next + 1
      /\ UNCHANGED <<config, vols, entries>>
  BY DEF ScanLoader
<1>2. todo' # <<>> => vols[next].files # NULL
  BY DEF ScanLoader
<1>3. IsSeq(vols)
  BY DEF ListsInv, AllPictured
<1>4. next' - 1 = next
  <2>1. Len(vols) \in Nat /\ DOMAIN vols = 1 .. Len(vols)
    BY <1>3, SeqIs
  <2>2. QED
    BY <1>1, <2>1
<1>5. TodoFits(pc', todo', next', vols')
  BY <1>1, <1>2, <1>4 DEF TodoFits
<1>6. QED
  BY <1>1, <1>5, ListsKept DEF Start

(* and entries added, *)
LEMMA ListsOfEntries ==
    ASSUME BootInv, ListsInv, AddLoader \/ ScanLegacy \/ ScanTool
    PROVE  ListsInv'
<1>1. /\ machine \in DOMAIN Machines /\ AreEntries(entries) /\ Pictured(entries)
      /\ AllPictured(vols) /\ TodoFits(pc, todo, next, vols)
  BY DEF BootInv, EntriesHold, ListsInv
<1>2. UNCHANGED <<config, vols>> /\ pc \in {"loaders", "legacy", "tools"} /\ pc' \notin Start
  BY DEF AddLoader, ScanLegacy, ScanTool, RunMainMenu, Start
<1>3. CASE AddLoader
  <2> DEFINE e == LoaderEntry(next - 1, Head(todo))
  <2>1. /\ pc = "loaders" /\ pc' = pc /\ next' = next /\ todo # <<>>
        /\ entries' = Append(entries, e)
    BY <1>3 DEF AddLoader
  <2>2. next - 1 \in DOMAIN vols /\ vols[next - 1].files # NULL
    BY <1>1, <2>1 DEF TodoFits
  <2>3. EntryPictured(config.TextOnly, e)
    BY <1>1, <2>2, LoaderEntryPictured DEF AllPictured
  <2> HIDE DEF e
  <2>4. Pictured(entries')
    BY <1>1, <2>1, <2>3, PicturedAdded
  <2>5. Pictured(entries)'
    BY <1>2, <2>4 DEF Pictured
  <2>6. TodoFits(pc', todo', next', vols')
    BY <1>2, <2>1, <2>2 DEF TodoFits
  <2>7. QED
    BY <1>1, <1>2, <2>5, <2>6 DEF ListsInv
<1>4. CASE ScanLegacy
  <2> DEFINE e == LegacyEntry(next)
  <2>1. /\ pc = "legacy" /\ pc' = pc /\ next \in DOMAIN vols /\ todo' = todo
        /\ entries' = entries \/ entries' = Append(entries, e)
    BY <1>4 DEF ScanLegacy
  <2>2. EntryPictured(config.TextOnly, e)
    BY <1>1, <2>1, LegacyEntryPictured DEF AllPictured
  <2> HIDE DEF e
  <2>3. Pictured(entries')
    BY <1>1, <2>1, <2>2, PicturedAdded
  <2>4. Pictured(entries)'
    BY <1>2, <2>3 DEF Pictured
  <2>5. TodoFits(pc', todo', next', vols')
    BY <1>1, <2>1 DEF TodoFits
  <2>6. QED
    BY <1>1, <1>2, <2>4, <2>5 DEF ListsInv
<1>5. CASE ScanTool
  <2> DEFINE list == entries \o ToolEntries
  <2>1. pc = "tools" /\ pc' = "menu" /\ todo' = todo /\ entries' = WithFixed(list)
    BY <1>5 DEF ScanTool, RunMainMenu
  <2>2. AreEntries(list) /\ Pictured(list)
    BY <1>1, ToolEntriesAre, ToolEntriesPictured, EntriesJoined, PicturedJoined
  <2> HIDE DEF list
  <2>3. Pictured(entries')
    BY <1>1, <2>1, <2>2, WithFixedPictured
  <2>4. Pictured(entries)'
    BY <1>2, <2>3 DEF Pictured
  <2>5. TodoFits(pc', todo', next', vols')
    BY <1>1, <2>1 DEF TodoFits
  <2>6. QED
    BY <1>1, <1>2, <2>4, <2>5 DEF ListsInv
<1>6. QED
  BY <1>3, <1>4, <1>5

(* so that they are always as they should be. *)
LEMMA ListsStep == BootInv /\ ListsInv /\ [Next]_vars => ListsInv'
<1> SUFFICES ASSUME BootInv, ListsInv, [Next]_vars PROVE ListsInv'
  OBVIOUS
<1>1. TodoFits(pc, todo, next, vols)
  BY DEF ListsInv
<1>2. CASE UNCHANGED vars
  BY <1>2 DEF vars, scanVars, ListsInv, Pictured
<1>3. CASE ReadConfig \/ ReadConfigLine
  BY <1>3, ListsAtStart
<1>4. CASE ScanDevice \/ RelateVolume
  BY <1>4, ListsOfVolumes
<1>5. CASE ScanLoader
  BY <1>5, ListsOfLoaders
<1>6. CASE AddLoader \/ ScanLegacy \/ ScanTool
  BY <1>6, ListsOfEntries
<1>7. CASE \/ Boot \/ BootFails \/ NoConfig \/ ConfigFails \/ ConfigDone \/ SetUpScreen
           \/ StartDriver \/ DriversDone \/ VolumesScanned
           \/ ScanVolumesFails \/ VolumesDone \/ LoadersDone \/ LegacyDone
  <2>1. UNCHANGED <<config, vols, entries, todo>>
    BY <1>7 DEF Boot, BootFails, NoConfig, ConfigFails, ConfigDone, SetUpScreen, StartDriver,
       DriversDone, VolumesScanned, ScanVolumesFails, VolumesDone, LoadersDone, LegacyDone, scanVars
  <2>2. (pc \notin {"lines", "loaders"} \/ todo = <<>>) /\ (pc' \in Start => pc \in Start)
    BY <1>7, AfterIs DEF Boot, BootFails, NoConfig, ConfigFails, ConfigDone, SetUpScreen, StartDriver,
       DriversDone, VolumesScanned, ScanVolumesFails, VolumesDone, LoadersDone, LegacyDone, Start, Scans
  <2>3. todo' = <<>>
    BY <1>1, <2>1, <2>2 DEF TodoFits
  <2>4. TodoFits(pc', todo', next', vols')
    BY <2>3 DEF TodoFits
  <2>5. QED
    BY <2>1, <2>2, <2>4, ListsKept
<1>8. CASE \/ Select \/ ScreenShot \/ Back \/ Details \/ About \/ Leave \/ StartLoader \/ StartLegacy
           \/ SearchLoader \/ AddHardcoded \/ LoadProgram \/ LoadFails \/ ProgramReturns
  <2>1. /\ UNCHANGED <<config, vols, entries, todo>>
        /\ pc \in Programs \union {"menu"} /\ pc' \in Programs \union {"menu", "off"}
    BY <1>8 DEF Select, ScreenShot, Back, Details, About, Leave, StartLoader, StartLegacy, SearchLoader,
       AddHardcoded, LoadProgram, LoadFails, ProgramReturns, Returned, RunMainMenu, Programs, scanVars
  <2>2. todo' = <<>>
    BY <1>1, <2>1 DEF TodoFits, Programs
  <2>3. TodoFits(pc', todo', next', vols')
    BY <2>2 DEF TodoFits
  <2>4. QED
    BY <2>1, <2>3, ListsKept DEF Start, Programs
<1>9. QED
  BY <1>2, <1>3, <1>4, <1>5, <1>6, <1>7, <1>8 DEF Next

------------------------------------------------------------------------------
(* What is to be seen at a tile. *)
TileShows(tile, base, side, e) ==
    /\ DOMAIN tile.PixelData = Points(side, side)
    /\ \A p \in Points(side, side) : tile.PixelData[p] = IconAndBadge(base, side, e.image, e.badge, p)

(* The background of a tile fits its row. *)
LEMMA BaseIs ==
    ASSUME NEW s, NEW row, NEW selected \in BOOLEAN, AreTiles4(s.tiles)
    PROVE  IsTile(Base(s, row, selected), Side[IF row = 0 THEN 144 ELSE 64])
<1>1. Base(s, row, selected) = s.tiles[IF row = 0 THEN IF selected THEN 1 ELSE 2 ELSE IF selected THEN 3 ELSE 4]
  BY DEF Base
<1>2. QED
  BY <1>1 DEF AreTiles4

(* A tile of the main menu is where it belongs. *)
LEMMA TileIsPainted ==
    ASSUME BootInv, pc = "menu", menu.name = "main", scr.allow, ~(menu.shot /\ OneSurface),
           NEW i \in DOMAIN entries
    PROVE  scr.gfx.on[<<"tile", i>>]
             = WithBadge(Base(scr, entries[i].row, i = menu.current), entries[i].image, entries[i].badge)
<1> DEFINE x == MenuEntries(entries)
           tiles == Tiles(scr, x, menu.current, DOMAIN x.entries)
           label == LabelOf(Look, x, menu.current)
           top == Top(Look.wanted, Look.banner)
           place == <<"tile", i>>
<1>1. Menu(menu) = x /\ Shows(Look, scr, TRUE, x, menu.current, menu.shot)
  <2>1. Menu(menu) = x
    BY DEF Menu
  <2>2. Shows(Look, scr, menu.name = "main", Menu(menu), menu.current, menu.shot)
    BY InMenu
  <2>3. (menu.name = "main") = TRUE
    OBVIOUS
  <2> HIDE DEF x
  <2>4. QED
    BY <2>1, <2>2, <2>3
<1>2. x.entries = entries
  BY DEF MenuEntries
<1> HIDE DEF x
<1>3. scr.gfx.on = OnTop(OnTop(tiles, label), top)
  BY <1>1 DEF Shows, Body, Look
<1>4. AreTiles(tiles, scr, x, menu.current, DOMAIN x.entries)
  BY TilesAre
<1> HIDE DEF tiles, label, top
<1>5. place \in DOMAIN tiles
  BY <1>2, <1>4 DEF AreTiles
<1>6. ASSUME NEW new, NEW old, NEW p \in DOMAIN new
      PROVE  p \in DOMAIN OnTop(new, old) /\ OnTop(new, old)[p] = new[p]
  BY DEF OnTop
<1>7. tiles[place] = WithBadge(Base(scr, entries[i].row, i = menu.current), entries[i].image, entries[i].badge)
  BY <1>2, <1>4 DEF AreTiles
<1> HIDE DEF place
<1>8. place \in DOMAIN OnTop(tiles, label) /\ OnTop(tiles, label)[place] = tiles[place]
  BY <1>5, <1>6
<1>9. scr.gfx.on[place] = tiles[place]
  BY <1>3, <1>6, <1>8
<1>10. QED
  BY <1>7, <1>9 DEF place

(* Tiles that fit, and entries with pictures, make the main menu. *)
LEMMA InvShowsTile ==
    ASSUME BootInv, TilesInv, ListsInv, pc = "menu", menu.name = "main", ShowsGraphics, ~MessageOnMenu,
           NEW i \in DOMAIN entries
    PROVE  LET e == entries[i]
           IN  TileShows(scr.gfx.on[<<"tile", i>>], Base(scr, e.row, i = menu.current),
                         Side[IF e.row = 0 THEN 144 ELSE 64], e)
<1> DEFINE e == entries[i]
           base == Base(scr, e.row, i = menu.current)
           side == Side[IF e.row = 0 THEN 144 ELSE 64]
           tile == scr.gfx.on[<<"tile", i>>]
<1>1. scr.allow /\ ~config.TextOnly
  BY InMenu, MachineIs DEF ShowsGraphics, Settled
<1>2. EntryPictured(config.TextOnly, e)
  BY DEF ListsInv, Pictured
<1>3. IsIcon(e.image) /\ (e.badge = NULL \/ IsIcon(e.badge))
  BY <1>1, <1>2 DEF EntryPictured, IconOrNone
<1>4. IsTile(base, side)
  <2>1. AreTiles4(scr.tiles)
    BY <1>1 DEF TilesInv, MainHasTiles
  <2> HIDE DEF e
  <2>2. CASE i = menu.current
    <3>1. base = Base(scr, e.row, TRUE)
      BY <2>2 DEF Base
    <3> HIDE DEF base, side
    <3>2. QED
      BY <2>1, <3>1, BaseIs DEF side
  <2>3. CASE i # menu.current
    <3>1. base = Base(scr, e.row, FALSE)
      BY <2>3 DEF Base
    <3> HIDE DEF base, side
    <3>2. QED
      BY <2>1, <3>1, BaseIs DEF side
  <2>4. QED
    BY <2>2, <2>3
<1>5. side \in Nat \ {0}
  BY ImagesAssumption
<1>6. tile = WithBadge(base, e.image, e.badge)
  BY <1>1, TileIsPainted DEF MessageOnMenu
<1> HIDE DEF e, base, side, tile
<1>7. TileShows(tile, base, side, e)
  BY <1>3, <1>4, <1>5, <1>6, WithBadgeIs DEF TileShows
<1>8. QED
  BY <1>7 DEF e, base, side, tile

(* That is what the property says. *)
LEMMA InvShowsIcons == BootInv /\ TilesInv /\ ListsInv => TilesShowTheirIcons
<1> SUFFICES ASSUME BootInv, TilesInv, ListsInv, pc = "menu", menu.name = "main", ShowsGraphics,
                    ~MessageOnMenu
             PROVE  TilesShowTheirIcons
  BY DEF TilesShowTheirIcons
<1> DEFINE tile(i) == scr.gfx.on[<<"tile", i>>]
           base(i) == Base(scr, entries[i].row, i = menu.current)
           side(i) == Side[IF entries[i].row = 0 THEN 144 ELSE 64]
<1>1. ASSUME NEW i \in DOMAIN entries
      PROVE  TileShows(tile(i), base(i), side(i), entries[i])
  BY InvShowsTile
<1>2. ASSUME NEW i \in DOMAIN entries
      PROVE  /\ DOMAIN tile(i).PixelData = (0 .. side(i) - 1) \X (0 .. side(i) - 1)
             /\ \A p \in DOMAIN tile(i).PixelData :
                   tile(i).PixelData[p] = IconAndBadge(base(i), side(i), entries[i].image, entries[i].badge, p)
  <2> HIDE DEF tile, base, side
  <2>1. QED
    BY <1>1 DEF TileShows, Points
<1>3. QED
  BY <1>2 DEF TilesShowTheirIcons, IconAndBadge

(* Init: there are no tiles, no volumes, no entries. *)
LEMMA PicturesInit == Init => TilesInv /\ ListsInv
<1> SUFFICES ASSUME Init PROVE TilesInv /\ ListsInv
  OBVIOUS
<1>1. scr = FirstScreen(Machines[machine]) /\ pc = "start" /\ todo = <<>> /\ vols = <<>> /\ entries = <<>>
  BY DEF Init
<1>2. scr.tiles = NULL
  BY <1>1 DEF FirstScreen
<1>3. TilesInv
  BY <1>1, <1>2 DEF TilesInv, TilesMade, MainHasTiles
<1>4. ListsInv
  BY <1>1, SeqOne DEF ListsInv, Pictured, AllPictured, TodoFits
<1>5. QED
  BY <1>3, <1>4

(* The tiles of the main menu show, pixel by pixel, the icon of their entry in  *)
(* the middle and the badge in its corner if there is room, each mixed with what *)
(* is under it (BltImageCompositeBadge, egRawCompose), whatever sizes images have, *)
(* as long as no message about a screenshot is printed over them. *)
THEOREM BootTilesShowTheirIcons == Spec => []TilesShowTheirIcons
<1>1. Init => TilesInv /\ ListsInv
  BY PicturesInit
<1>2. BootInv /\ TilesInv /\ [Next]_vars => TilesInv'
  BY TilesStep
<1>3. BootInv /\ ListsInv /\ [Next]_vars => ListsInv'
  BY ListsStep
<1>4. BootInv /\ TilesInv /\ ListsInv => TilesShowTheirIcons
  BY InvShowsIcons
<1>5. QED
  BY <1>1, <1>2, <1>3, <1>4, BootInvariant, PTL DEF Spec
==============================================================================
