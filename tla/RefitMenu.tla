------------------------------- MODULE RefitMenu -------------------------------
(***************************************************************************)
(* rEFIt's menus: the scrolling of refit/menu.c (InitScroll, UpdateScroll), *)
(* the key and timeout loop of RunGenericMenu, and the two loops around it, *)
(* RunMainMenu and that of RefitMain (refit/main.c), which go from screen   *)
(* to screen. The user presses any key at any time.                         *)
(***************************************************************************)
EXTENDS Integers, FiniteSetsExt

CONSTANTS
    Screens, Main,  \* the menu screens, and the main one
    Entries,        \* Entries[s][i], i from 0: [tag, sub, shortcuts], the tag one of
                    \* "program", "about", "return" and "reset"
    Count,          \* Count[s]: EntryCount
    About,          \* the screen of AboutRefit
    Space,          \* Space[s]: lines a text screen has for entries (and, while
                    \* there is one, the timeout's two), or 0 in graphics mode
    Timeout,        \* GlobalConfig.Timeout, in seconds
    TicksPerSecond, \* 10 in the code
    Characters,     \* what the user may type
    Default,        \* the character of GlobalConfig.DefaultSelection, or NULL
    NULL

ScreenAssumption ==
    /\ {Main, About} \subseteq Screens
    /\ Count \in [Screens -> Nat \ {0}]
    /\ Space \in [Screens -> Nat]
    /\ \A s \in Screens : \A i \in 0 .. Count[s] - 1 : Entries[s][i].sub \in Screens \union {NULL}
    /\ NULL \notin Screens
    /\ Timeout \in Nat /\ TicksPerSecond \in Nat

(* A text console has at least 25 lines (screen.c:94), of which the entries  *)
(* get 8 even behind the twelve lines of information of "About".             *)
SpaceAssumption == \A s \in Screens : Space[s] = 0 \/ Space[s] >= 5

ASSUME MenuAssumption == ScreenAssumption /\ SpaceAssumption

VARIABLES
    screen,            \* the screen RunGenericMenu was last called with
    State,             \* its SCROLL_STATE
    TimeoutSeconds,    \* of the main screen; the others have none
    HaveTimeout, TimeoutCountdown,
    pc,                \* "paint", "read" (a key), "exit" (of RunGenericMenu), "run" or "reset"
    MenuExit, Chosen,  \* the exit and the index of the entry it is for
    shown,             \* what is on the display: the first line's entry and the
                       \* entries that look selected
    pressed            \* ghost: a key has been pressed since the start

vars == <<screen, State, TimeoutSeconds, HaveTimeout, TimeoutCountdown, pc,
          MenuExit, Chosen, shown, pressed>>

------------------------------------------------------------------------------
(* InitScroll and UpdateScroll *)

AtLeast(x, low) == IF x < low THEN low ELSE x
AtMost(x, high) == IF x > high THEN high ELSE x

InitScroll(ItemCount, VisibleSpace) ==
    LET MaxIndex   == ItemCount - 1
        MaxVisible == IF VisibleSpace = 0 THEN MaxIndex ELSE VisibleSpace - 1
        MaxFirst   == AtLeast(MaxIndex - MaxVisible, 0)
    IN  [MaxIndex |-> MaxIndex, MaxVisible |-> MaxVisible, MaxFirstVisible |-> MaxFirst,
         FirstVisible |-> 0, LastVisible |-> MaxVisible,
         CurrentSelection |-> 0, LastSelection |-> 0,
         PaintAll |-> TRUE, PaintSelection |-> FALSE]

IsScrolling(s) == s.MaxFirstVisible > 0

(* The selection and the window move; what that leaves to be painted. *)
Moved(s, selection, first, paint) ==
    [s EXCEPT !.LastSelection = s.CurrentSelection,
              !.CurrentSelection = selection,
              !.FirstVisible = first,
              !.LastVisible = first + s.MaxVisible,
              !.PaintAll = @ \/ paint,
              !.PaintSelection = @ \/ (~(s.PaintAll \/ paint)
                                       /\ selection # s.CurrentSelection)]

Stay(s) == Moved(s, s.CurrentSelection, s.FirstVisible, FALSE)

(* A selection above or below the window is scrolled to its middle. *)
Middle(s, selection) == selection - s.MaxVisible \div 2

ScrollUpTo(s, selection) ==
    IF selection < s.FirstVisible
    THEN Moved(s, selection, AtLeast(Middle(s, selection), 0), TRUE)
    ELSE Moved(s, selection, s.FirstVisible, FALSE)

ScrollDownTo(s, selection) ==
    IF selection > s.LastVisible
    THEN Moved(s, selection, AtMost(Middle(s, selection), s.MaxFirstVisible), TRUE)
    ELSE Moved(s, selection, s.FirstVisible, FALSE)

(* Seeded fault: the new window is painted as if only the selection moved. *)
PageUpUnpainted(s) ==
    Moved(s, AtLeast(s.CurrentSelection - s.MaxVisible, 0),
          AtLeast(s.FirstVisible - s.MaxVisible, 0), FALSE)

PageUp(s) ==
    IF s.CurrentSelection = s.MaxIndex
    THEN Moved(s, AtLeast(IF IsScrolling(s) THEN s.CurrentSelection - (s.MaxVisible - 1)
                          ELSE 0, 0), AtLeast(s.FirstVisible, 0), FALSE)
    ELSE Moved(s, AtLeast(s.CurrentSelection - s.MaxVisible, 0),
               AtLeast(s.FirstVisible - s.MaxVisible, 0), s.FirstVisible > 0)

(* Seeded fault: a page is one line longer than the window moves. *)
PageDownTooFar(s) ==
    Moved(s, AtMost(s.CurrentSelection + s.MaxVisible + 1, s.MaxIndex),
          AtMost(s.FirstVisible + s.MaxVisible, s.MaxFirstVisible),
          s.FirstVisible < s.MaxFirstVisible)

PageDown(s) ==
    IF s.CurrentSelection = 0
    THEN Moved(s, AtMost(IF IsScrolling(s) THEN s.CurrentSelection + (s.MaxVisible - 1)
                         ELSE s.MaxIndex, s.MaxIndex),
               AtMost(s.FirstVisible, s.MaxFirstVisible), FALSE)
    ELSE Moved(s, AtMost(s.CurrentSelection + s.MaxVisible, s.MaxIndex),
               AtMost(s.FirstVisible + s.MaxVisible, s.MaxFirstVisible),
               s.FirstVisible < s.MaxFirstVisible)

Up   == {"line_up", "page_up", "first"}
Down == {"line_down", "page_down", "last"}

UpdateScroll(s, movement) ==
    IF \/ movement \in Up /\ s.CurrentSelection <= 0
       \/ movement \in Down /\ s.CurrentSelection >= s.MaxIndex
    THEN Stay(s)
    ELSE CASE movement = "line_up"   -> ScrollUpTo(s, s.CurrentSelection - 1)
           [] movement = "line_down" -> ScrollDownTo(s, s.CurrentSelection + 1)
           [] movement = "page_up"   -> PageUp(s)
           [] movement = "page_down" -> PageDown(s)
           [] movement = "first"     -> Moved(s, 0, AtMost(s.FirstVisible, 0),
                                              s.FirstVisible > 0)
           [] movement = "last"      -> Moved(s, s.MaxIndex,
                                              AtLeast(s.FirstVisible, s.MaxFirstVisible),
                                              s.FirstVisible < s.MaxFirstVisible)

(* SCROLL_NONE: the caller has set the selection. *)
ShowSelection(s) == IF s.CurrentSelection < s.FirstVisible
                    THEN ScrollUpTo(s, s.CurrentSelection)
                    ELSE ScrollDownTo(s, s.CurrentSelection)

------------------------------------------------------------------------------
(* FindMenuShortcutEntry: the first entry with that shortcut, or -1. *)
Matches(s, c) == {i \in 0 .. Count[s] - 1 : c \in Entries[s][i].shortcuts}

FindMenuShortcutEntry(s, c) == IF Matches(s, c) = {} THEN -1 ELSE Min(Matches(s, c))

DefaultEntryIndex == IF Default = NULL THEN -1 ELSE FindMenuShortcutEntry(Main, Default)

VisibleSpace(s, seconds) ==
    IF seconds > 0 /\ Space[s] > 0 THEN Space[s] - 2 ELSE Space[s]

StartState(s, default, seconds) ==
    LET init == InitScroll(Count[s], VisibleSpace(s, seconds)) IN
    IF default \in 0 .. init.MaxIndex
    THEN ShowSelection([init EXCEPT !.CurrentSelection = default]) ELSE init

Blank == [first |-> 0, marked |-> {}]

Init == /\ screen = Main
        /\ State = StartState(Main, DefaultEntryIndex, Timeout)
        /\ TimeoutSeconds = Timeout
        /\ HaveTimeout = (Timeout > 0)
        /\ TimeoutCountdown = Timeout * TicksPerSecond
        /\ pc = "paint"
        /\ MenuExit = "none" /\ Chosen = 0
        /\ shown = Blank
        /\ pressed = FALSE

(* RunGenericMenu is called for a screen, up to its loop. *)
RunGenericMenu(s, default, seconds) ==
    /\ screen' = s
    /\ State' = StartState(s, default, seconds)
    /\ HaveTimeout' = (seconds > 0)
    /\ TimeoutCountdown' = seconds * TicksPerSecond
    /\ pc' = "paint"
    /\ MenuExit' = "none" /\ Chosen' = 0
    /\ shown' = Blank
    /\ UNCHANGED pressed

------------------------------------------------------------------------------
(* The loop of RunGenericMenu. *)

Paint ==
    /\ pc = "paint"
    /\ IF State.PaintAll
       THEN /\ shown' = [first |-> State.FirstVisible, marked |->
                           {State.CurrentSelection}
                             \intersect (State.FirstVisible .. State.LastVisible)]
            /\ State' = [State EXCEPT !.PaintAll = FALSE]
       ELSE IF State.PaintSelection
       THEN /\ shown' = [shown EXCEPT !.marked = (@ \ {State.LastSelection})
                                                 \union {State.CurrentSelection}]
            /\ State' = [State EXCEPT !.PaintSelection = FALSE]
       ELSE UNCHANGED <<shown, State>>
    /\ pc' = "read"
    /\ UNCHANGED <<screen, TimeoutSeconds, HaveTimeout, TimeoutCountdown, MenuExit,
                   Chosen, pressed>>

(* Seeded fault: the countdown does not go down. *)
TickIdle ==
    /\ pc = "read" /\ HaveTimeout /\ TimeoutCountdown > 0
    /\ pc' = "paint"
    /\ UNCHANGED <<screen, State, TimeoutSeconds, HaveTimeout, TimeoutCountdown,
                   MenuExit, Chosen, shown, pressed>>

(* No key is waiting. *)
Tick ==
    /\ pc = "read" /\ HaveTimeout /\ TimeoutCountdown > 0
    /\ TimeoutCountdown' = TimeoutCountdown - 1
    /\ pc' = "paint"
    /\ UNCHANGED <<screen, State, TimeoutSeconds, HaveTimeout, MenuExit, Chosen,
                   shown, pressed>>

Exit(exit, selection) == /\ MenuExit' = exit /\ Chosen' = selection
                         /\ pc' = "exit"

Expire ==
    /\ pc = "read" /\ HaveTimeout /\ TimeoutCountdown = 0
    /\ Exit("timeout", State.CurrentSelection)
    /\ UNCHANGED <<screen, State, TimeoutSeconds, HaveTimeout, TimeoutCountdown,
                   shown, pressed>>

(* Seeded fault: a key does not cancel the timeout. *)
KeyKeepsTimeout ==
    /\ pc = "read"
    /\ pressed' = TRUE
    /\ UNCHANGED <<screen, TimeoutSeconds, HaveTimeout, TimeoutCountdown, shown>>

(* A key cancels the timeout, whatever it is for. *)
Key == /\ pc = "read"
       /\ HaveTimeout' = FALSE
       /\ pressed' = TRUE
       /\ UNCHANGED <<screen, TimeoutSeconds, TimeoutCountdown, shown>>

Move(movement) ==
    /\ Key
    /\ State' = UpdateScroll(State, movement)
    /\ pc' = "paint"
    /\ UNCHANGED <<MenuExit, Chosen>>

ExitKey(exit) ==
    /\ Key
    /\ Exit(exit, State.CurrentSelection)
    /\ UNCHANGED State

(* A key that is a shortcut of an entry, or of none. *)
Shortcut(c) ==
    /\ Key
    /\ LET i == FindMenuShortcutEntry(screen, c) IN
       IF i >= 0
       THEN /\ State' = [State EXCEPT !.CurrentSelection = i]
            /\ Exit("enter", i)
       ELSE pc' = "paint" /\ UNCHANGED <<State, MenuExit, Chosen>>

------------------------------------------------------------------------------
(* RunMainMenu, AboutRefit and the loop of RefitMain. *)

Selected == Entries[screen][Chosen]

(* The main menu has no timeout any more once it has returned. *)
OpenSubScreen ==
    /\ pc = "exit" /\ screen = Main
    /\ MenuExit = "details" /\ Selected.sub # NULL
    /\ RunGenericMenu(Selected.sub, -1, 0)
    /\ TimeoutSeconds' = 0

Leaves == \/ MenuExit = "escape"
          \/ screen # Main /\ Selected.tag = "return"

BackToMain ==
    /\ pc = "exit"
    /\ Leaves \/ screen = About
    /\ RunGenericMenu(Main, DefaultEntryIndex, 0)
    /\ TimeoutSeconds' = 0

Choose ==
    /\ pc = "exit" /\ screen # About /\ ~Leaves
    /\ ~(screen = Main /\ MenuExit = "details" /\ Selected.sub # NULL)
    /\ pc' = "run"
    /\ TimeoutSeconds' = 0
    /\ UNCHANGED <<screen, State, HaveTimeout, TimeoutCountdown, MenuExit, Chosen,
                   shown, pressed>>

(* The entry's program returns, and the main menu is run again. *)
ProgramReturns ==
    /\ pc = "run" /\ Selected.tag = "program"
    /\ RunGenericMenu(Main, DefaultEntryIndex, TimeoutSeconds)
    /\ UNCHANGED TimeoutSeconds

AboutRefit ==
    /\ pc = "run" /\ Selected.tag = "about"
    /\ RunGenericMenu(About, -1, 0)
    /\ UNCHANGED TimeoutSeconds

Reset ==
    /\ pc = "run" /\ Selected.tag = "reset"
    /\ pc' = "reset"
    /\ UNCHANGED <<screen, State, TimeoutSeconds, HaveTimeout, TimeoutCountdown,
                   MenuExit, Chosen, shown, pressed>>

Loop == \/ Paint \/ Tick \/ Expire
        \/ OpenSubScreen \/ BackToMain \/ Choose \/ AboutRefit \/ Reset

User == \/ \E movement \in Up \union Down : Move(movement)
        \/ \E exit \in {"enter", "escape", "details"} : ExitKey(exit)
        \/ \E c \in Characters : Shortcut(c)

Next == Loop \/ User \/ ProgramReturns

Spec == Init /\ [][Next]_vars

(* Left alone, the loop goes on: the code only waits for a key when there is *)
(* no timeout.                                                               *)
FairSpec == Spec /\ WF_vars(Loop)

------------------------------------------------------------------------------
(* Properties. *)

ScrollState == [MaxIndex : Nat, MaxVisible : Nat, MaxFirstVisible : Nat,
                FirstVisible : Int, LastVisible : Int,
                CurrentSelection : Int, LastSelection : Int,
                PaintAll : BOOLEAN, PaintSelection : BOOLEAN]

(* Every variable has its type: the scroll state of menu.c's SCROLL_STATE    *)
(* and the loops' variables.                                                 *)
TypeOK ==
    /\ screen \in Screens
    /\ State \in ScrollState
    /\ TimeoutSeconds \in Nat /\ TimeoutCountdown \in Nat
    /\ HaveTimeout \in BOOLEAN /\ pressed \in BOOLEAN
    /\ pc \in {"paint", "read", "exit", "run", "reset"}
    /\ MenuExit \in {"none", "enter", "escape", "details", "timeout"}

(* The window lies within the entries and the selection within the window,   *)
(* after any keys: the code indexes the entries with it and paints it there. *)
Window(s) ==
    /\ 0 <= s.FirstVisible /\ s.FirstVisible <= s.MaxFirstVisible
    /\ s.LastVisible = s.FirstVisible + s.MaxVisible
    /\ s.FirstVisible <= s.CurrentSelection /\ s.CurrentSelection <= s.LastVisible
    /\ s.CurrentSelection <= s.MaxIndex
    /\ s.MaxFirstVisible = AtLeast(s.MaxIndex - s.MaxVisible, 0)
SelectionIsVisible == pc \in {"paint", "read"} => Window(State)

(* The entry a menu is left with is one of its screen.                       *)
ChosenIsAnEntry == Chosen \in 0 .. Count[screen] - 1

(* Whenever a key is read, the display shows what the state says: the lines  *)
(* from FirstVisible on, and only the selection as selected. A movement that *)
(* repaints too little leaves two bars, or one over the wrong lines.         *)
DisplayIsCurrent ==
    pc = "read" => shown = [first |-> State.FirstVisible,
                            marked |-> {State.CurrentSelection}]

(* The timeout starts an entry only if no key has been pressed since rEFIt   *)
(* was started, in this or another menu, and then it is the default.         *)
TimeoutStartsTheDefault ==
    MenuExit = "timeout" =>
        /\ ~pressed
        /\ screen = Main /\ Chosen = AtLeast(DefaultEntryIndex, 0)

(* The user gets everywhere: each key that moves does so, in its direction,  *)
(* unless the selection is at that end already.                              *)
KeysMove ==
    pc = "read" =>
        /\ State.CurrentSelection > 0 => \A up \in Up :
               UpdateScroll(State, up).CurrentSelection < State.CurrentSelection
        /\ State.CurrentSelection < State.MaxIndex => \A down \in Down :
               UpdateScroll(State, down).CurrentSelection > State.CurrentSelection

(* With a timeout and nobody at the keyboard, an entry is started.           *)
UnattendedBoot == Timeout > 0 => <>(pressed \/ pc = "run")
================================================================================
