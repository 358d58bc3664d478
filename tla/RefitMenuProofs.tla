---------------------------- MODULE RefitMenuProofs ----------------------------
(***************************************************************************)
(* The menus for every number of entries, size of the console and timeout:  *)
(* the selection stays within the window and the entries, the display says  *)
(* what the state says, and the timeout starts nothing but the default.     *)
(***************************************************************************)
EXTENDS RefitMenu, WellFoundedInduction, TLAPS

(* The lowest number of a set exists and is in the set. *)
LEMMA MinOfNaturals ==
    ASSUME NEW S \in SUBSET Nat, S # {}
    PROVE  Min(S) \in S /\ \A y \in S : Min(S) <= y
<1> DEFINE R == OpToRel(<, Nat)
<1>1. IsWellFoundedOn(R, Nat) /\ \A x, y \in Nat : <<y, x>> \in R <=> y < x
  BY NatLessThanWellFounded DEF OpToRel
<1> HIDE DEF R
<1>2. PICK x \in S : \A y \in S : <<y, x>> \notin R
  BY <1>1, WFMin
<1>3. \A y \in S : x \in Nat /\ y \in Nat /\ ~(y < x)
  BY <1>1, <1>2
<1>4. \A y \in S : x <= y
  BY <1>3
<1>5. QED
  BY <1>4 DEF Min

Movements == Up \union Down

(* A scroll state whose window is where it should be and has room for three  *)
(* entries or for all of them; and one with the selection in the window.     *)
GoodWindow(s) ==
    /\ s \in ScrollState
    /\ 0 <= s.FirstVisible /\ s.FirstVisible <= s.MaxFirstVisible
    /\ s.LastVisible = s.FirstVisible + s.MaxVisible
    /\ s.MaxFirstVisible = AtLeast(s.MaxIndex - s.MaxVisible, 0)
    /\ s.MaxVisible >= 2 \/ s.MaxVisible = s.MaxIndex
GoodScroll(s) == GoodWindow(s) /\ Window(s)

LEMMA Half == \A n \in Nat : n \div 2 \in 0 .. n
  OBVIOUS

(* What Moved does to each field. *)
LEMMA MovedFields ==
    ASSUME NEW s \in ScrollState, NEW selection \in Int, NEW first \in Int,
           NEW paint \in BOOLEAN
    PROVE  LET m == Moved(s, selection, first, paint) IN
           /\ m \in ScrollState
           /\ m.MaxIndex = s.MaxIndex /\ m.MaxVisible = s.MaxVisible
           /\ m.MaxFirstVisible = s.MaxFirstVisible
           /\ m.LastSelection = s.CurrentSelection
           /\ m.CurrentSelection = selection
           /\ m.FirstVisible = first /\ m.LastVisible = first + s.MaxVisible
           /\ m.PaintAll = (s.PaintAll \/ paint)
           /\ m.PaintSelection = (s.PaintSelection \/ (~(s.PaintAll \/ paint)
                                       /\ selection # s.CurrentSelection))
<1>1. first + s.MaxVisible \in Int
  BY DEF ScrollState
<1>2. QED
  BY <1>1 DEF Moved, ScrollState

(* Where a movement may take the window and the selection, and that what is  *)
(* not painted anew has not moved.                                           *)
Lands(s, selection, first, paint) ==
    /\ selection \in Int /\ first \in Int /\ paint \in BOOLEAN
    /\ 0 <= first /\ first <= s.MaxFirstVisible
    /\ first <= selection /\ selection <= first + s.MaxVisible
    /\ selection <= s.MaxIndex
    /\ ~paint => first = s.FirstVisible

LEMMA ScrollUpLands ==
    ASSUME NEW s, GoodWindow(s), NEW selection \in Int,
           0 <= selection, selection <= s.LastVisible, selection <= s.MaxIndex
    PROVE  \E first \in Int, paint \in BOOLEAN :
              /\ ScrollUpTo(s, selection) = Moved(s, selection, first, paint)
              /\ Lands(s, selection, first, paint)
<1> USE DEF GoodWindow, ScrollState, Lands, AtLeast
<1>1. CASE selection < s.FirstVisible
  <2> DEFINE first == AtLeast(Middle(s, selection), 0)
  <2>1. s.MaxVisible \div 2 \in 0 .. s.MaxVisible
    BY Half
  <2>2. Lands(s, selection, first, TRUE) /\ first \in Int
    BY <1>1, <2>1 DEF Middle
  <2>3. ScrollUpTo(s, selection) = Moved(s, selection, first, TRUE)
    BY <1>1 DEF ScrollUpTo
  <2>4. QED
    BY <2>2, <2>3
<1>2. CASE ~(selection < s.FirstVisible)
  <2>1. ScrollUpTo(s, selection) = Moved(s, selection, s.FirstVisible, FALSE)
    BY <1>2 DEF ScrollUpTo
  <2>2. Lands(s, selection, s.FirstVisible, FALSE) /\ s.FirstVisible \in Int
    BY <1>2
  <2>3. QED
    BY <2>1, <2>2
<1>3. QED
  BY <1>1, <1>2

LEMMA ScrollDownLands ==
    ASSUME NEW s, GoodWindow(s), NEW selection \in Int,
           s.FirstVisible <= selection, selection <= s.MaxIndex
    PROVE  \E first \in Int, paint \in BOOLEAN :
              /\ ScrollDownTo(s, selection) = Moved(s, selection, first, paint)
              /\ Lands(s, selection, first, paint)
<1> USE DEF GoodWindow, ScrollState, Lands, AtLeast, AtMost
<1>1. CASE selection > s.LastVisible
  <2> DEFINE first == AtMost(Middle(s, selection), s.MaxFirstVisible)
  <2>1. s.MaxVisible \div 2 \in 0 .. s.MaxVisible
    BY Half
  <2>2. Lands(s, selection, first, TRUE) /\ first \in Int
    BY <1>1, <2>1 DEF Middle
  <2>3. ScrollDownTo(s, selection) = Moved(s, selection, first, TRUE)
    BY <1>1 DEF ScrollDownTo
  <2>4. QED
    BY <2>2, <2>3
<1>2. CASE ~(selection > s.LastVisible)
  <2>1. ScrollDownTo(s, selection) = Moved(s, selection, s.FirstVisible, FALSE)
    BY <1>2 DEF ScrollDownTo
  <2>2. Lands(s, selection, s.FirstVisible, FALSE) /\ s.FirstVisible \in Int
    BY <1>2
  <2>3. QED
    BY <2>1, <2>2
<1>3. QED
  BY <1>1, <1>2

LEMMA PageUpLands ==
    ASSUME NEW s, GoodScroll(s), s.CurrentSelection > 0
    PROVE  \E selection, first \in Int, paint \in BOOLEAN :
              /\ PageUp(s) = Moved(s, selection, first, paint)
              /\ Lands(s, selection, first, paint)
              /\ selection < s.CurrentSelection
<1> USE DEF GoodScroll, GoodWindow, Window, ScrollState, Lands, AtLeast, IsScrolling
<1>1. CASE s.CurrentSelection = s.MaxIndex
  <2> DEFINE selection == AtLeast(IF IsScrolling(s)
                                  THEN s.CurrentSelection - (s.MaxVisible - 1) ELSE 0, 0)
             first == AtLeast(s.FirstVisible, 0)
  <2>1. Lands(s, selection, first, FALSE) /\ selection < s.CurrentSelection
    BY <1>1
  <2>2. PageUp(s) = Moved(s, selection, first, FALSE)
    BY <1>1 DEF PageUp
  <2>3. selection \in Int /\ first \in Int
    BY <2>1
  <2>4. QED
    BY <2>1, <2>2, <2>3
<1>2. CASE s.CurrentSelection # s.MaxIndex
  <2> DEFINE selection == AtLeast(s.CurrentSelection - s.MaxVisible, 0)
             first == AtLeast(s.FirstVisible - s.MaxVisible, 0)
             paint == s.FirstVisible > 0
  <2>1. Lands(s, selection, first, paint) /\ selection < s.CurrentSelection
    BY <1>2
  <2>2. PageUp(s) = Moved(s, selection, first, paint)
    BY <1>2 DEF PageUp
  <2>3. selection \in Int /\ first \in Int /\ paint \in BOOLEAN
    BY <2>1
  <2>4. QED
    BY <2>1, <2>2, <2>3
<1>3. QED
  BY <1>1, <1>2

LEMMA PageDownLands ==
    ASSUME NEW s, GoodScroll(s), s.CurrentSelection < s.MaxIndex
    PROVE  \E selection, first \in Int, paint \in BOOLEAN :
              /\ PageDown(s) = Moved(s, selection, first, paint)
              /\ Lands(s, selection, first, paint)
              /\ selection > s.CurrentSelection
<1> USE DEF GoodScroll, GoodWindow, Window, ScrollState, Lands, AtLeast, AtMost, IsScrolling
<1>1. CASE s.CurrentSelection = 0
  <2> DEFINE selection == AtMost(IF IsScrolling(s)
                                 THEN s.CurrentSelection + (s.MaxVisible - 1)
                                 ELSE s.MaxIndex, s.MaxIndex)
             first == AtMost(s.FirstVisible, s.MaxFirstVisible)
  <2>1. Lands(s, selection, first, FALSE) /\ selection > s.CurrentSelection
    BY <1>1
  <2>2. PageDown(s) = Moved(s, selection, first, FALSE)
    BY <1>1 DEF PageDown
  <2>3. selection \in Int /\ first \in Int
    BY <2>1
  <2>4. QED
    BY <2>1, <2>2, <2>3
<1>2. CASE s.CurrentSelection # 0
  <2> DEFINE selection == AtMost(s.CurrentSelection + s.MaxVisible, s.MaxIndex)
             first == AtMost(s.FirstVisible + s.MaxVisible, s.MaxFirstVisible)
             paint == s.FirstVisible < s.MaxFirstVisible
  <2>1. s.MaxVisible \in Nat \ {0} /\ s.MaxFirstVisible + s.MaxVisible >= s.MaxIndex
    BY <1>2
  <2>2. first \in Int /\ first <= s.MaxFirstVisible /\ s.FirstVisible <= first
        /\ (~paint => first = s.FirstVisible)
        /\ (first = s.MaxFirstVisible \/ first = s.FirstVisible + s.MaxVisible)
    BY <2>1
  <2>3. selection \in Int /\ selection <= s.MaxIndex /\ selection > s.CurrentSelection
        /\ (selection = s.MaxIndex \/ selection = s.CurrentSelection + s.MaxVisible)
    BY <2>1
  <2>4. first <= selection /\ selection <= first + s.MaxVisible
    BY <2>1
  <2>5. Lands(s, selection, first, paint) /\ selection > s.CurrentSelection
    <3> HIDE DEF first, selection
    <3>1. QED
      BY <2>2, <2>3, <2>4
  <2>6. PageDown(s) = Moved(s, selection, first, paint)
    BY <1>2 DEF PageDown
  <2>7. selection \in Int /\ first \in Int /\ paint \in BOOLEAN
    BY <2>5
  <2>8. QED
    BY <2>5, <2>6, <2>7
<1>3. QED
  BY <1>1, <1>2

(* Every key that moves: the window stays good, what is not painted anew has *)
(* not moved, and the selection goes in the key's direction.                 *)
LEMMA UpdateLands ==
    ASSUME NEW s, GoodScroll(s), NEW movement \in Movements
    PROVE  \E selection, first \in Int, paint \in BOOLEAN :
              /\ UpdateScroll(s, movement) = Moved(s, selection, first, paint)
              /\ Lands(s, selection, first, paint)
              /\ movement \in Up /\ s.CurrentSelection > 0
                    => selection < s.CurrentSelection
              /\ movement \in Down /\ s.CurrentSelection < s.MaxIndex
                    => selection > s.CurrentSelection
<1> DEFINE Goal(selection, first, paint) ==
              /\ UpdateScroll(s, movement) = Moved(s, selection, first, paint)
              /\ Lands(s, selection, first, paint)
              /\ movement \in Up /\ s.CurrentSelection > 0
                    => selection < s.CurrentSelection
              /\ movement \in Down /\ s.CurrentSelection < s.MaxIndex
                    => selection > s.CurrentSelection
<1> DEFINE Stuck == \/ movement \in Up /\ s.CurrentSelection <= 0
                    \/ movement \in Down /\ s.CurrentSelection >= s.MaxIndex
<1>1. /\ s \in ScrollState /\ GoodWindow(s) /\ s.CurrentSelection \in Int
      /\ s.FirstVisible \in Int /\ s.MaxIndex \in Nat /\ s.MaxFirstVisible \in Nat
      /\ 0 <= s.CurrentSelection /\ s.CurrentSelection <= s.MaxIndex
      /\ s.FirstVisible <= s.CurrentSelection /\ s.CurrentSelection <= s.LastVisible
      /\ 0 <= s.FirstVisible /\ s.FirstVisible <= s.MaxFirstVisible
      /\ s.LastVisible \in Int
  BY DEF GoodScroll, GoodWindow, Window, ScrollState
<1>2. CASE Stuck
  <2>1. UpdateScroll(s, movement) = Stay(s)
    BY <1>2 DEF UpdateScroll
  <2>2. Lands(s, s.CurrentSelection, s.FirstVisible, FALSE)
    BY <1>1 DEF Lands, GoodScroll, Window
  <2>3. UpdateScroll(s, movement) = Moved(s, s.CurrentSelection, s.FirstVisible, FALSE)
    BY <2>1 DEF Stay
  <2>4. /\ ~(movement \in Up /\ s.CurrentSelection > 0)
        /\ ~(movement \in Down /\ s.CurrentSelection < s.MaxIndex)
    BY <1>1, <1>2 DEF Up, Down
  <2>5. Goal(s.CurrentSelection, s.FirstVisible, FALSE)
    BY <2>2, <2>3, <2>4
  <2>6. QED
    BY <1>1, <2>5
<1>3. CASE ~Stuck /\ movement = "line_up"
  <2>1. UpdateScroll(s, movement) = ScrollUpTo(s, s.CurrentSelection - 1)
    BY <1>3 DEF UpdateScroll
  <2>2. PICK first \in Int, paint \in BOOLEAN :
           /\ ScrollUpTo(s, s.CurrentSelection - 1)
                = Moved(s, s.CurrentSelection - 1, first, paint)
           /\ Lands(s, s.CurrentSelection - 1, first, paint)
    BY <1>1, <1>3, ScrollUpLands DEF Up
  <2>3. Goal(s.CurrentSelection - 1, first, paint)
    BY <1>1, <1>3, <2>1, <2>2 DEF Up, Down
  <2>4. QED
    BY <1>1, <2>3
<1>4. CASE ~Stuck /\ movement = "line_down"
  <2>1. UpdateScroll(s, movement) = ScrollDownTo(s, s.CurrentSelection + 1)
    BY <1>4 DEF UpdateScroll
  <2>2. PICK first \in Int, paint \in BOOLEAN :
           /\ ScrollDownTo(s, s.CurrentSelection + 1)
                = Moved(s, s.CurrentSelection + 1, first, paint)
           /\ Lands(s, s.CurrentSelection + 1, first, paint)
    BY <1>1, <1>4, ScrollDownLands DEF Down
  <2>3. Goal(s.CurrentSelection + 1, first, paint)
    BY <1>1, <1>4, <2>1, <2>2 DEF Up, Down
  <2>4. QED
    BY <1>1, <2>3
<1>5. CASE ~Stuck /\ movement = "page_up"
  <2>1. UpdateScroll(s, movement) = PageUp(s)
    BY <1>5 DEF UpdateScroll
  <2>2. PICK selection \in Int, first \in Int, paint \in BOOLEAN :
           /\ PageUp(s) = Moved(s, selection, first, paint)
           /\ Lands(s, selection, first, paint)
           /\ selection < s.CurrentSelection
    BY <1>1, <1>5, PageUpLands DEF Up
  <2>3. Goal(selection, first, paint)
    BY <1>5, <2>1, <2>2 DEF Up, Down
  <2>4. QED
    BY <2>3
<1>6. CASE ~Stuck /\ movement = "page_down"
  <2>1. UpdateScroll(s, movement) = PageDown(s)
    BY <1>6 DEF UpdateScroll
  <2>2. PICK selection \in Int, first \in Int, paint \in BOOLEAN :
           /\ PageDown(s) = Moved(s, selection, first, paint)
           /\ Lands(s, selection, first, paint)
           /\ selection > s.CurrentSelection
    BY <1>1, <1>6, PageDownLands DEF Down
  <2>3. Goal(selection, first, paint)
    BY <1>6, <2>1, <2>2 DEF Up, Down
  <2>4. QED
    BY <2>3
<1>7. CASE ~Stuck /\ movement = "first"
  <2> DEFINE first == AtMost(s.FirstVisible, 0)
             paint == s.FirstVisible > 0
  <2>1. UpdateScroll(s, movement) = Moved(s, 0, first, paint)
    BY <1>7 DEF UpdateScroll
  <2>2. first \in Int /\ paint \in BOOLEAN
    BY <1>1 DEF AtMost
  <2>3. Lands(s, 0, first, paint)
    BY <1>1, <2>2 DEF Lands, AtMost, GoodWindow, ScrollState
  <2> HIDE DEF first, paint
  <2>4. Goal(0, first, paint)
    BY <1>1, <1>7, <2>1, <2>3 DEF Up, Down
  <2>5. QED
    BY <2>2, <2>4
<1>8. CASE ~Stuck /\ movement = "last"
  <2> DEFINE first == AtLeast(s.FirstVisible, s.MaxFirstVisible)
             paint == s.FirstVisible < s.MaxFirstVisible
  <2>1. UpdateScroll(s, movement) = Moved(s, s.MaxIndex, first, paint)
    BY <1>8 DEF UpdateScroll
  <2>2. first \in Int /\ paint \in BOOLEAN
    BY <1>1 DEF AtLeast
  <2>3. Lands(s, s.MaxIndex, first, paint)
    BY <1>1, <2>2 DEF Lands, AtLeast, GoodWindow, ScrollState
  <2> HIDE DEF first, paint
  <2>4. Goal(s.MaxIndex, first, paint)
    BY <1>1, <1>8, <2>1, <2>3 DEF Up, Down
  <2>5. QED
    BY <1>1, <2>2, <2>4
<1>9. movement \in {"line_up", "line_down", "page_up", "page_down", "first", "last"}
  BY DEF Movements, Up, Down
<1>10. QED
  BY <1>2, <1>3, <1>4, <1>5, <1>6, <1>7, <1>8, <1>9

(* A movement that lands leaves a good state, with nothing else changed. *)
LEMMA LandedIsGood ==
    ASSUME NEW s, GoodWindow(s), NEW selection \in Int, NEW first \in Int,
           NEW paint \in BOOLEAN, Lands(s, selection, first, paint)
    PROVE  GoodScroll(Moved(s, selection, first, paint))
<1> DEFINE m == Moved(s, selection, first, paint)
<1>1. s \in ScrollState
  BY DEF GoodWindow
<1>2. /\ m \in ScrollState
      /\ m.MaxIndex = s.MaxIndex /\ m.MaxVisible = s.MaxVisible
      /\ m.MaxFirstVisible = s.MaxFirstVisible
      /\ m.CurrentSelection = selection
      /\ m.FirstVisible = first /\ m.LastVisible = first + s.MaxVisible
  BY <1>1, MovedFields
<1> HIDE DEF m
<1>3. GoodScroll(m)
  BY <1>2 DEF GoodScroll, GoodWindow, Window, Lands
<1>4. QED
  BY <1>3 DEF m

(* The state a menu starts with shows the default entry, if there is one, *)
(* and is painted as a whole.                                             *)
LEMMA StartStateIsGood ==
    ASSUME NEW s \in Screens, NEW default \in Int, NEW seconds \in Nat
    PROVE  LET st == StartState(s, default, seconds) IN
           /\ GoodScroll(st)
           /\ st.MaxIndex = Count[s] - 1
           /\ st.PaintAll = TRUE /\ st.PaintSelection = FALSE
           /\ st.CurrentSelection = IF default \in 0 .. Count[s] - 1 THEN default ELSE 0
<1> DEFINE space == VisibleSpace(s, seconds)
           init == InitScroll(Count[s], space)
           at == [init EXCEPT !.CurrentSelection = default]
<1>1. Count[s] \in Nat /\ Count[s] > 0 /\ (Space[s] = 0 \/ Space[s] >= 5) /\ Space[s] \in Nat
  BY MenuAssumption DEF ScreenAssumption, SpaceAssumption
<1>2. space \in Nat /\ (space = 0 \/ space >= 3)
  BY <1>1 DEF VisibleSpace
<1>3. GoodScroll(init) /\ init.MaxIndex = Count[s] - 1
      /\ init.PaintAll = TRUE /\ init.PaintSelection = FALSE /\ init.CurrentSelection = 0
      /\ init.FirstVisible = 0
  <2> HIDE DEF space
  <2>1. QED
    BY <1>1, <1>2 DEF InitScroll, GoodScroll, GoodWindow, Window, ScrollState, AtLeast
<1> HIDE DEF init
<1>4. CASE default \in 0 .. init.MaxIndex
  <2>1. /\ at.CurrentSelection = default /\ at.FirstVisible = 0
        /\ at.MaxIndex = init.MaxIndex /\ at.MaxVisible = init.MaxVisible
        /\ at.MaxFirstVisible = init.MaxFirstVisible /\ at.LastVisible = init.LastVisible
        /\ at.PaintAll = TRUE /\ at.PaintSelection = FALSE
        /\ at \in ScrollState
    BY <1>3 DEF GoodScroll, GoodWindow, ScrollState
  <2>2. GoodWindow(at)
    <3> HIDE DEF at
    <3>1. QED
      BY <1>3, <2>1 DEF GoodScroll, GoodWindow
  <2>3. StartState(s, default, seconds) = ShowSelection(at)
    BY <1>4 DEF StartState, init
  <2> HIDE DEF at
  <2>4. ShowSelection(at) = ScrollDownTo(at, default)
    BY <1>4, <2>1 DEF ShowSelection
  <2>5. default <= at.MaxIndex /\ at.FirstVisible <= default
    BY <1>1, <1>3, <1>4, <2>1
  <2>6. PICK first \in Int, paint \in BOOLEAN :
           /\ ScrollDownTo(at, default) = Moved(at, default, first, paint)
           /\ Lands(at, default, first, paint)
    BY <2>2, <2>5, ScrollDownLands
  <2>7. GoodScroll(Moved(at, default, first, paint))
    BY <2>2, <2>6, LandedIsGood
  <2>8. LET m == Moved(at, default, first, paint) IN
        /\ m.MaxIndex = at.MaxIndex /\ m.CurrentSelection = default
        /\ m.PaintAll = (at.PaintAll \/ paint)
        /\ m.PaintSelection = (at.PaintSelection \/ (~(at.PaintAll \/ paint)
                                       /\ default # at.CurrentSelection))
    BY <2>1, MovedFields
  <2>9. QED
    BY <1>3, <1>4, <2>1, <2>3, <2>4, <2>6, <2>7, <2>8
<1>5. CASE default \notin 0 .. init.MaxIndex
  <2>1. StartState(s, default, seconds) = init
    BY <1>5 DEF StartState, init
  <2>2. QED
    BY <1>3, <1>5, <2>1
<1>6. QED
  BY <1>4, <1>5

(* The search for a shortcut finds an entry of the screen, or none. *)
LEMMA ShortcutIsAnEntry ==
    ASSUME NEW s \in Screens, NEW c
    PROVE  FindMenuShortcutEntry(s, c) \in -1 .. Count[s] - 1
<1>1. Count[s] \in Nat /\ Count[s] > 0
  BY MenuAssumption DEF ScreenAssumption
<1>2. Matches(s, c) \subseteq 0 .. Count[s] - 1
  BY DEF Matches
<1>3. CASE Matches(s, c) = {}
  BY <1>1, <1>3 DEF FindMenuShortcutEntry
<1>4. CASE Matches(s, c) # {}
  <2>1. Matches(s, c) \in SUBSET Nat
    BY <1>1, <1>2
  <2>2. Min(Matches(s, c)) \in Matches(s, c)
    BY <1>4, <2>1, MinOfNaturals
  <2>3. FindMenuShortcutEntry(s, c) = Min(Matches(s, c))
    BY <1>4 DEF FindMenuShortcutEntry
  <2>4. QED
    BY <1>1, <1>2, <2>2, <2>3
<1>5. QED
  BY <1>3, <1>4

LEMMA DefaultIsAnEntry ==
    /\ DefaultEntryIndex \in -1 .. Count[Main] - 1
    /\ Main \in Screens /\ About \in Screens
<1>1. Main \in Screens /\ About \in Screens /\ Count[Main] \in Nat \ {0}
  BY MenuAssumption DEF ScreenAssumption
<1>2. FindMenuShortcutEntry(Main, Default) \in -1 .. Count[Main] - 1
  BY <1>1, ShortcutIsAnEntry
<1>3. QED
  BY <1>1, <1>2 DEF DefaultEntryIndex

------------------------------------------------------------------------------
(* The inductive invariant. While the loop of a menu runs, its window is     *)
(* good, and what the display lacks is what the flags ask to be painted; a   *)
(* running timeout means that the default is still selected.                 *)
InMenu == pc \in {"paint", "read"}

ScrollInv ==
    InMenu => /\ GoodScroll(State) /\ State.MaxIndex = Count[screen] - 1
              /\ MenuExit = "none"

PaintInv ==
    /\ pc = "read" => ~State.PaintAll /\ ~State.PaintSelection
    /\ pc = "paint" =>
         \/ State.PaintAll /\ ~State.PaintSelection
         \/ /\ ~State.PaintAll
            /\ shown = [first |-> State.FirstVisible,
                        marked |-> IF State.PaintSelection THEN {State.LastSelection}
                                   ELSE {State.CurrentSelection}]

TimeoutInv ==
    /\ HaveTimeout => /\ ~pressed /\ screen = Main
                      /\ State.CurrentSelection = AtLeast(DefaultEntryIndex, 0)
    /\ pc = "run" => TimeoutSeconds = 0

MenuInv == TypeOK /\ ScrollInv /\ ChosenIsAnEntry /\ PaintInv /\ DisplayIsCurrent
           /\ TimeoutInv /\ TimeoutStartsTheDefault

(* A menu called with a default and a timeout only if it is the main one. *)
LEMMA MenuCallKeepsInv ==
    ASSUME NEW s \in Screens, NEW default \in Int, NEW seconds \in Nat,
           TypeOK, RunGenericMenu(s, default, seconds), TimeoutSeconds' \in Nat,
           seconds = 0
    PROVE  MenuInv'
<1> DEFINE st == StartState(s, default, seconds)
<1>1. /\ GoodScroll(st) /\ st.MaxIndex = Count[s] - 1
      /\ st.PaintAll = TRUE /\ st.PaintSelection = FALSE
  BY StartStateIsGood
<1>0. (seconds > 0) = FALSE
  OBVIOUS
<1>2. State' = st /\ screen' = s /\ HaveTimeout' = FALSE
      /\ pc' = "paint" /\ MenuExit' = "none" /\ Chosen' = 0 /\ pressed' = pressed
  BY <1>0, Zenon DEF RunGenericMenu
<1>3. Count[s] \in Nat \ {0} /\ TicksPerSecond \in Nat
  BY MenuAssumption DEF ScreenAssumption
<1>4. TimeoutCountdown' = 0
  BY <1>3 DEF RunGenericMenu
<1> HIDE DEF st
<1>5. TypeOK'
  BY <1>1, <1>2, <1>4 DEF TypeOK, GoodScroll, GoodWindow
<1>6. ScrollInv' /\ ChosenIsAnEntry'
  BY <1>1, <1>2, <1>3 DEF ScrollInv, ChosenIsAnEntry
<1>7. PaintInv' /\ DisplayIsCurrent'
  BY <1>1, <1>2 DEF PaintInv, DisplayIsCurrent
<1>8. TimeoutInv' /\ TimeoutStartsTheDefault'
  BY <1>2 DEF TimeoutInv, TimeoutStartsTheDefault
<1>9. QED
  BY <1>5, <1>6, <1>7, <1>8 DEF MenuInv

LEMMA InitInv == Init => MenuInv
<1> SUFFICES ASSUME Init PROVE MenuInv
  OBVIOUS
<1> DEFINE st == StartState(Main, DefaultEntryIndex, Timeout)
<1>1. DefaultEntryIndex \in -1 .. Count[Main] - 1 /\ Main \in Screens
      /\ Timeout \in Nat /\ TicksPerSecond \in Nat /\ Count[Main] \in Nat \ {0}
  BY DefaultIsAnEntry, MenuAssumption DEF ScreenAssumption
<1>7. DefaultEntryIndex \in Int
  BY <1>1
<1>2. /\ GoodScroll(st) /\ st.MaxIndex = Count[Main] - 1
      /\ st.PaintAll = TRUE /\ st.PaintSelection = FALSE
      /\ st.CurrentSelection = IF DefaultEntryIndex \in 0 .. Count[Main] - 1
                               THEN DefaultEntryIndex ELSE 0
  BY <1>1, <1>7, StartStateIsGood
<1>3. st.CurrentSelection = AtLeast(DefaultEntryIndex, 0)
  <2> HIDE DEF st
  <2>1. QED
    BY <1>1, <1>2 DEF AtLeast
<1>4. Timeout * TicksPerSecond \in Nat
  BY <1>1
<1>5. State = st
  BY DEF Init
<1> HIDE DEF st
<1>6. TypeOK
  <2>1. (Timeout > 0) \in BOOLEAN
    OBVIOUS
  <2>2. HaveTimeout \in BOOLEAN /\ pressed \in BOOLEAN
    BY <2>1, Zenon DEF Init
  <2>3. screen = Main /\ TimeoutSeconds = Timeout /\ pc = "paint" /\ MenuExit = "none"
        /\ TimeoutCountdown = Timeout * TicksPerSecond
    BY Zenon DEF Init
  <2>4. State \in ScrollState
    BY <1>2, <1>5 DEF GoodScroll, GoodWindow
  <2>5. QED
    BY <1>1, <1>4, <2>2, <2>3, <2>4 DEF TypeOK
<1>8. ScrollInv /\ ChosenIsAnEntry
  BY <1>1, <1>2, <1>5 DEF Init, ScrollInv, ChosenIsAnEntry
<1>9. PaintInv /\ DisplayIsCurrent
  BY <1>2, <1>5 DEF Init, PaintInv, DisplayIsCurrent
<1>10. TimeoutInv /\ TimeoutStartsTheDefault
  BY <1>3, <1>5 DEF Init, TimeoutInv, TimeoutStartsTheDefault
<1>11. QED
  BY <1>6, <1>8, <1>9, <1>10 DEF MenuInv

(* Painting brings the display up to date. *)
LEMMA PaintKeepsInv == MenuInv /\ Paint => MenuInv'
<1> SUFFICES ASSUME MenuInv, Paint PROVE MenuInv'
  OBVIOUS
<1>1. /\ pc = "paint" /\ pc' = "read" /\ screen' = screen
      /\ TimeoutSeconds' = TimeoutSeconds /\ HaveTimeout' = HaveTimeout
      /\ TimeoutCountdown' = TimeoutCountdown /\ MenuExit' = MenuExit
      /\ Chosen' = Chosen /\ pressed' = pressed
  BY DEF Paint
<1>2. GoodScroll(State) /\ State.MaxIndex = Count[screen] - 1 /\ MenuExit = "none"
  BY <1>1 DEF MenuInv, ScrollInv, InMenu
<1>3. State \in ScrollState /\ State.CurrentSelection \in Int
      /\ State.FirstVisible \in Int /\ State.LastVisible \in Int
      /\ State.CurrentSelection \in State.FirstVisible .. State.LastVisible
  BY <1>2 DEF GoodScroll, GoodWindow, Window, ScrollState
<1>4. /\ State' \in ScrollState
      /\ State'.MaxIndex = State.MaxIndex /\ State'.MaxVisible = State.MaxVisible
      /\ State'.MaxFirstVisible = State.MaxFirstVisible
      /\ State'.FirstVisible = State.FirstVisible
      /\ State'.LastVisible = State.LastVisible
      /\ State'.CurrentSelection = State.CurrentSelection
  BY <1>3 DEF Paint, ScrollState
<1>5. GoodScroll(State')
  BY <1>2, <1>4 DEF GoodScroll, GoodWindow, Window
<1>6. /\ ~State'.PaintAll /\ ~State'.PaintSelection
      /\ shown' = [first |-> State.FirstVisible, marked |-> {State.CurrentSelection}]
  <2>1. CASE State.PaintAll
    <3>1. ~State.PaintSelection
      BY <1>1, <2>1 DEF MenuInv, PaintInv
    <3>2. State' = [State EXCEPT !.PaintAll = FALSE]
      BY <2>1 DEF Paint
    <3>3. ~State'.PaintAll /\ ~State'.PaintSelection
      BY <1>3, <3>1, <3>2 DEF ScrollState
    <3>4. {State.CurrentSelection} \intersect (State.FirstVisible .. State.LastVisible)
             = {State.CurrentSelection}
      BY <1>3
    <3>5. shown' = [first |-> State.FirstVisible, marked |->
                     {State.CurrentSelection}
                       \intersect (State.FirstVisible .. State.LastVisible)]
      BY <2>1 DEF Paint
    <3>6. QED
      BY <3>3, <3>4, <3>5
  <2>2. CASE ~State.PaintAll /\ State.PaintSelection
    <3>1. shown = [first |-> State.FirstVisible, marked |-> {State.LastSelection}]
      BY <1>1, <2>2 DEF MenuInv, PaintInv
    <3>2. State' = [State EXCEPT !.PaintSelection = FALSE]
      BY <2>2 DEF Paint
    <3>3. ~State'.PaintAll /\ ~State'.PaintSelection
      BY <1>3, <2>2, <3>2 DEF ScrollState
    <3>4. shown' = [shown EXCEPT !.marked = (@ \ {State.LastSelection})
                                             \union {State.CurrentSelection}]
      BY <2>2 DEF Paint
    <3>5. shown' = [first |-> State.FirstVisible,
                    marked |-> ({State.LastSelection} \ {State.LastSelection})
                                 \union {State.CurrentSelection}]
      BY <3>1, <3>4
    <3>6. ({State.LastSelection} \ {State.LastSelection}) \union {State.CurrentSelection}
             = {State.CurrentSelection}
      OBVIOUS
    <3>7. QED
      BY <3>3, <3>5, <3>6
  <2>3. CASE ~State.PaintAll /\ ~State.PaintSelection
    BY <1>1, <2>3 DEF Paint, MenuInv, PaintInv
  <2>4. QED
    BY <2>1, <2>2, <2>3
<1>7. TypeOK' /\ ScrollInv' /\ ChosenIsAnEntry'
  BY <1>1, <1>2, <1>4, <1>5 DEF MenuInv, TypeOK, ScrollInv, ChosenIsAnEntry
<1>8. PaintInv' /\ DisplayIsCurrent'
  BY <1>1, <1>4, <1>6 DEF PaintInv, DisplayIsCurrent
<1>9. TimeoutInv' /\ TimeoutStartsTheDefault'
  BY <1>1, <1>2, <1>4 DEF MenuInv, TimeoutInv, TimeoutStartsTheDefault
<1>10. QED
  BY <1>7, <1>8, <1>9 DEF MenuInv

(* Waiting changes nothing but the countdown. *)
LEMMA TickKeepsInv == MenuInv /\ Tick => MenuInv'
<1> SUFFICES ASSUME MenuInv, Tick PROVE MenuInv'
  OBVIOUS
<1>1. /\ pc = "read" /\ pc' = "paint" /\ screen' = screen /\ State' = State
      /\ TimeoutSeconds' = TimeoutSeconds /\ HaveTimeout' = HaveTimeout
      /\ MenuExit' = MenuExit /\ Chosen' = Chosen /\ pressed' = pressed
      /\ shown' = shown
  BY DEF Tick
<1>2. TimeoutCountdown' \in Nat
  BY DEF Tick, MenuInv, TypeOK
<1>3. TypeOK'
  BY <1>1, <1>2 DEF MenuInv, TypeOK
<1>4. ScrollInv' /\ ChosenIsAnEntry' /\ DisplayIsCurrent'
  BY <1>1 DEF MenuInv, ScrollInv, InMenu, ChosenIsAnEntry, DisplayIsCurrent
<1>5. PaintInv'
  BY <1>1 DEF MenuInv, PaintInv, DisplayIsCurrent
<1>6. TimeoutInv' /\ TimeoutStartsTheDefault'
  BY <1>1 DEF MenuInv, TimeoutInv, TimeoutStartsTheDefault
<1>7. QED
  BY <1>3, <1>4, <1>5, <1>6 DEF MenuInv

(* The countdown ends with the selection it was started with. *)
LEMMA ExpireKeepsInv == MenuInv /\ Expire => MenuInv'
<1> SUFFICES ASSUME MenuInv, Expire PROVE MenuInv'
  OBVIOUS
<1>1. /\ pc = "read" /\ pc' = "exit" /\ screen' = screen /\ State' = State /\ HaveTimeout
      /\ TimeoutSeconds' = TimeoutSeconds /\ HaveTimeout' = HaveTimeout
      /\ TimeoutCountdown' = TimeoutCountdown /\ pressed' = pressed /\ shown' = shown
      /\ MenuExit' = "timeout" /\ Chosen' = State.CurrentSelection
  BY DEF Expire, Exit
<1>2. ChosenIsAnEntry'
  BY <1>1 DEF MenuInv, TypeOK, ScrollInv, InMenu, GoodScroll, GoodWindow, Window,
     ChosenIsAnEntry, ScrollState
<1>3. TypeOK' /\ ScrollInv' /\ PaintInv' /\ DisplayIsCurrent'
  BY <1>1 DEF MenuInv, TypeOK, ScrollInv, InMenu, PaintInv, DisplayIsCurrent
<1>4. TimeoutInv' /\ TimeoutStartsTheDefault'
  BY <1>1 DEF MenuInv, TimeoutInv, TimeoutStartsTheDefault
<1>5. QED
  BY <1>2, <1>3, <1>4 DEF MenuInv

(* A movement leaves the paint flags to say what it has moved. *)
LEMMA MoveKeepsInv ==
    ASSUME NEW movement \in Movements, MenuInv, Move(movement)
    PROVE  MenuInv'
<1>1. /\ pc = "read" /\ pc' = "paint" /\ screen' = screen
      /\ State' = UpdateScroll(State, movement)
      /\ TimeoutSeconds' = TimeoutSeconds /\ HaveTimeout' = FALSE
      /\ TimeoutCountdown' = TimeoutCountdown /\ pressed' = TRUE /\ shown' = shown
      /\ MenuExit' = MenuExit /\ Chosen' = Chosen
  BY DEF Move, Key
<1>2. GoodScroll(State) /\ State.MaxIndex = Count[screen] - 1 /\ MenuExit = "none"
      /\ State \in ScrollState /\ GoodWindow(State)
  BY <1>1 DEF MenuInv, ScrollInv, InMenu, GoodScroll, GoodWindow
<1>3. PICK selection \in Int, first \in Int, paint \in BOOLEAN :
         /\ State' = Moved(State, selection, first, paint)
         /\ Lands(State, selection, first, paint)
  BY <1>1, <1>2, UpdateLands
<1>4. /\ State'.MaxIndex = State.MaxIndex
      /\ State'.LastSelection = State.CurrentSelection
      /\ State'.CurrentSelection = selection
      /\ State'.FirstVisible = first
      /\ State'.PaintAll = (State.PaintAll \/ paint)
      /\ State'.PaintSelection = (State.PaintSelection \/ (~(State.PaintAll \/ paint)
                                       /\ selection # State.CurrentSelection))
  BY <1>2, <1>3, MovedFields
<1>5. GoodScroll(State')
  BY <1>2, <1>3, LandedIsGood
<1>6. PaintInv'
  <2>1. ~State.PaintAll /\ ~State.PaintSelection
    BY <1>1 DEF MenuInv, PaintInv
  <2>2. shown = [first |-> State.FirstVisible, marked |-> {State.CurrentSelection}]
    BY <1>1 DEF MenuInv, DisplayIsCurrent
  <2>3. CASE paint
    BY <1>1, <1>4, <2>1, <2>3, Zenon DEF PaintInv
  <2>4. CASE ~paint
    <3>1. State'.FirstVisible = State.FirstVisible
      BY <1>3, <1>4, <2>4 DEF Lands
    <3>2. ~State'.PaintAll /\ (State'.PaintSelection <=> selection # State.CurrentSelection)
      BY <1>4, <2>1, <2>4, Zenon
    <3>3. IF State'.PaintSelection THEN State'.LastSelection = State.CurrentSelection
          ELSE State'.CurrentSelection = State.CurrentSelection
      BY <1>4, <3>2
    <3>4. shown' = [first |-> State'.FirstVisible,
                    marked |-> IF State'.PaintSelection THEN {State'.LastSelection}
                               ELSE {State'.CurrentSelection}]
      BY <1>1, <2>2, <3>1, <3>3
    <3>5. QED
      BY <1>1, <3>2, <3>4 DEF PaintInv
  <2>5. QED
    BY <2>3, <2>4
<1>7. TypeOK'
  BY <1>1, <1>5 DEF MenuInv, TypeOK, GoodScroll, GoodWindow
<1>8. ScrollInv' /\ ChosenIsAnEntry' /\ DisplayIsCurrent'
  BY <1>1, <1>2, <1>4, <1>5 DEF MenuInv, ScrollInv, ChosenIsAnEntry, DisplayIsCurrent
<1>9. TimeoutInv' /\ TimeoutStartsTheDefault'
  BY <1>1, <1>2 DEF TimeoutInv, TimeoutStartsTheDefault
<1>10. QED
  BY <1>6, <1>7, <1>8, <1>9 DEF MenuInv

(* The keys that leave a menu, and the shortcuts. *)
LEMMA ExitKeyKeepsInv ==
    ASSUME NEW exit \in {"enter", "escape", "details"}, MenuInv, ExitKey(exit)
    PROVE  MenuInv'
<1>1. /\ pc = "read" /\ pc' = "exit" /\ screen' = screen /\ State' = State
      /\ TimeoutSeconds' = TimeoutSeconds /\ HaveTimeout' = FALSE
      /\ TimeoutCountdown' = TimeoutCountdown /\ pressed' = TRUE /\ shown' = shown
      /\ MenuExit' = exit /\ Chosen' = State.CurrentSelection
  BY DEF ExitKey, Key, Exit
<1>2. ChosenIsAnEntry'
  BY <1>1 DEF MenuInv, TypeOK, ScrollInv, InMenu, GoodScroll, GoodWindow, Window,
     ChosenIsAnEntry, ScrollState
<1>3. TypeOK' /\ ScrollInv' /\ PaintInv' /\ DisplayIsCurrent'
  BY <1>1 DEF MenuInv, TypeOK, ScrollInv, InMenu, PaintInv, DisplayIsCurrent
<1>4. TimeoutInv' /\ TimeoutStartsTheDefault'
  BY <1>1 DEF TimeoutInv, TimeoutStartsTheDefault
<1>5. QED
  BY <1>2, <1>3, <1>4 DEF MenuInv

LEMMA ShortcutKeepsInv ==
    ASSUME NEW c, MenuInv, Shortcut(c)
    PROVE  MenuInv'
<1> DEFINE i == FindMenuShortcutEntry(screen, c)
<1>1. /\ pc = "read" /\ screen' = screen
      /\ TimeoutSeconds' = TimeoutSeconds /\ HaveTimeout' = FALSE
      /\ TimeoutCountdown' = TimeoutCountdown /\ pressed' = TRUE /\ shown' = shown
  BY DEF Shortcut, Key
<1>2. screen \in Screens /\ State \in ScrollState /\ Count[screen] \in Nat
  BY MenuAssumption DEF MenuInv, TypeOK, ScreenAssumption
<1>3. i \in -1 .. Count[screen] - 1
  BY <1>2, ShortcutIsAnEntry
<1>4. CASE i >= 0
  <2>1. /\ State' = [State EXCEPT !.CurrentSelection = i]
        /\ pc' = "exit" /\ MenuExit' = "enter" /\ Chosen' = i
    BY <1>4 DEF Shortcut, Exit
  <2> HIDE DEF i
  <2>2. State' \in ScrollState
    BY <1>2, <1>3, <2>1 DEF ScrollState
  <2>3. TypeOK' /\ ScrollInv' /\ PaintInv' /\ DisplayIsCurrent'
    BY <1>1, <2>1, <2>2 DEF MenuInv, TypeOK, ScrollInv, InMenu, PaintInv, DisplayIsCurrent
  <2>4. ChosenIsAnEntry'
    BY <1>1, <1>2, <1>3, <1>4, <2>1 DEF ChosenIsAnEntry
  <2>5. TimeoutInv' /\ TimeoutStartsTheDefault'
    BY <1>1, <2>1 DEF TimeoutInv, TimeoutStartsTheDefault
  <2>6. QED
    BY <2>3, <2>4, <2>5 DEF MenuInv
<1>5. CASE ~(i >= 0)
  <2>1. /\ State' = State /\ pc' = "paint" /\ MenuExit' = MenuExit /\ Chosen' = Chosen
    BY <1>5 DEF Shortcut
  <2>2. TypeOK' /\ ScrollInv' /\ ChosenIsAnEntry' /\ DisplayIsCurrent'
    BY <1>1, <2>1 DEF MenuInv, TypeOK, ScrollInv, InMenu, ChosenIsAnEntry, DisplayIsCurrent
  <2>3. PaintInv'
    BY <1>1, <2>1 DEF MenuInv, PaintInv, DisplayIsCurrent
  <2>4. MenuExit = "none"
    BY <1>1 DEF MenuInv, ScrollInv, InMenu
  <2>5. TimeoutInv' /\ TimeoutStartsTheDefault'
    BY <1>1, <2>1, <2>4 DEF TimeoutInv, TimeoutStartsTheDefault
  <2>6. QED
    BY <2>2, <2>3, <2>5 DEF MenuInv
<1>6. QED
  BY <1>4, <1>5

(* The loops around the menus: every call of a menu but the first is without *)
(* a timeout.                                                                *)
LEMMA LoopsKeepInv ==
    MenuInv /\ (OpenSubScreen \/ BackToMain \/ Choose \/ AboutRefit \/ Reset
                \/ ProgramReturns) => MenuInv'
<1> SUFFICES ASSUME MenuInv, OpenSubScreen \/ BackToMain \/ Choose \/ AboutRefit
                             \/ Reset \/ ProgramReturns
             PROVE  MenuInv'
  OBVIOUS
<1>1. TypeOK /\ screen \in Screens /\ TimeoutSeconds \in Nat
  BY DEF MenuInv, TypeOK
<1>2. Main \in Screens /\ About \in Screens /\ DefaultEntryIndex \in Int
  <2>1. Count[Main] \in Nat /\ Main \in Screens
    BY MenuAssumption DEF ScreenAssumption
  <2>2. QED
    BY <2>1, DefaultIsAnEntry
<1>3. CASE OpenSubScreen
  <2>1. Selected.sub \in Screens
    BY <1>1, <1>3, MenuAssumption
       DEF OpenSubScreen, Selected, MenuInv, ChosenIsAnEntry, ScreenAssumption
  <2>2. RunGenericMenu(Selected.sub, -1, 0) /\ TimeoutSeconds' \in Nat
    BY <1>3 DEF OpenSubScreen
  <2>3. QED
    BY <1>1, <2>1, <2>2, MenuCallKeepsInv
<1>4. CASE BackToMain
  <2>1. RunGenericMenu(Main, DefaultEntryIndex, 0) /\ TimeoutSeconds' \in Nat
    BY <1>4 DEF BackToMain
  <2>2. QED
    BY <1>1, <1>2, <2>1, MenuCallKeepsInv
<1>5. CASE AboutRefit
  <2>1. RunGenericMenu(About, -1, 0) /\ TimeoutSeconds' \in Nat
    BY <1>1, <1>5 DEF AboutRefit
  <2>2. QED
    BY <1>1, <1>2, <2>1, MenuCallKeepsInv
<1>6. CASE ProgramReturns
  <2>1. TimeoutSeconds = 0
    BY <1>6 DEF ProgramReturns, MenuInv, TimeoutInv
  <2>2. RunGenericMenu(Main, DefaultEntryIndex, TimeoutSeconds) /\ TimeoutSeconds' \in Nat
    BY <1>1, <1>6 DEF ProgramReturns
  <2>3. QED
    BY <1>1, <1>2, <2>1, <2>2, MenuCallKeepsInv
<1>7. CASE Choose
  <2>1. /\ pc = "exit" /\ pc' = "run" /\ TimeoutSeconds' = 0
        /\ screen' = screen /\ State' = State /\ HaveTimeout' = HaveTimeout
        /\ TimeoutCountdown' = TimeoutCountdown /\ MenuExit' = MenuExit
        /\ Chosen' = Chosen /\ shown' = shown /\ pressed' = pressed
    BY <1>7 DEF Choose
  <2>2. TypeOK' /\ ScrollInv' /\ ChosenIsAnEntry' /\ PaintInv' /\ DisplayIsCurrent'
    BY <2>1 DEF MenuInv, TypeOK, ScrollInv, InMenu, ChosenIsAnEntry, PaintInv,
                DisplayIsCurrent
  <2>3. TimeoutInv' /\ TimeoutStartsTheDefault'
    BY <2>1 DEF MenuInv, TimeoutInv, TimeoutStartsTheDefault
  <2>4. QED
    BY <2>2, <2>3 DEF MenuInv
<1>8. CASE Reset
  <2>1. /\ pc' = "reset" /\ TimeoutSeconds' = TimeoutSeconds
        /\ screen' = screen /\ State' = State /\ HaveTimeout' = HaveTimeout
        /\ TimeoutCountdown' = TimeoutCountdown /\ MenuExit' = MenuExit
        /\ Chosen' = Chosen /\ shown' = shown /\ pressed' = pressed
    BY <1>8 DEF Reset
  <2>2. TypeOK' /\ ScrollInv' /\ ChosenIsAnEntry' /\ PaintInv' /\ DisplayIsCurrent'
    BY <2>1 DEF MenuInv, TypeOK, ScrollInv, InMenu, ChosenIsAnEntry, PaintInv,
                DisplayIsCurrent
  <2>3. TimeoutInv' /\ TimeoutStartsTheDefault'
    BY <2>1 DEF MenuInv, TimeoutInv, TimeoutStartsTheDefault
  <2>4. QED
    BY <2>2, <2>3 DEF MenuInv
<1>9. QED
  BY <1>3, <1>4, <1>5, <1>6, <1>7, <1>8

LEMMA NextKeepsInv == MenuInv /\ [Next]_vars => MenuInv'
<1> SUFFICES ASSUME MenuInv, [Next]_vars PROVE MenuInv'
  OBVIOUS
<1>1. CASE \E movement \in Movements : Move(movement)
  BY <1>1, MoveKeepsInv
<1>2. CASE \E exit \in {"enter", "escape", "details"} : ExitKey(exit)
  BY <1>2, ExitKeyKeepsInv
<1>3. CASE \E c \in Characters : Shortcut(c)
  BY <1>3, ShortcutKeepsInv
<1>4. CASE Loop
  BY <1>4, PaintKeepsInv, TickKeepsInv, ExpireKeepsInv, LoopsKeepInv DEF Loop
<1>5. CASE ProgramReturns
  BY <1>5, LoopsKeepInv
<1>6. CASE UNCHANGED vars
  BY <1>6 DEF vars, MenuInv, TypeOK, ScrollInv, InMenu, ChosenIsAnEntry, PaintInv,
     DisplayIsCurrent, TimeoutInv, TimeoutStartsTheDefault
<1>7. QED
  BY <1>1, <1>2, <1>3, <1>4, <1>5, <1>6 DEF Next, User, Movements

LEMMA SpecKeepsInv == Spec => []MenuInv
<1>1. Init => MenuInv
  BY InitInv
<1>2. MenuInv /\ [Next]_vars => MenuInv'
  BY NextKeepsInv
<1>3. QED
  BY <1>1, <1>2, PTL DEF Spec

------------------------------------------------------------------------------
(* The variables of the menus' loops have their types (menu.c:328-348).       *)
THEOREM MenusTypeOK == Spec => []TypeOK
<1>1. MenuInv => TypeOK
  BY DEF MenuInv
<1>2. QED
  BY <1>1, SpecKeepsInv, PTL

(* UpdateScroll keeps the selection within the window and the entries, for    *)
(* every size of both (menu.c:180-275).                                       *)
THEOREM MenusSelectionIsVisible == Spec => []SelectionIsVisible
<1>1. MenuInv => SelectionIsVisible
  BY DEF MenuInv, ScrollInv, InMenu, SelectionIsVisible, GoodScroll
<1>2. QED
  BY <1>1, SpecKeepsInv, PTL

(* RunGenericMenu hands back an entry of its screen (menu.c:437-441).         *)
THEOREM MenusChosenIsAnEntry == Spec => []ChosenIsAnEntry
<1>1. MenuInv => ChosenIsAnEntry
  BY DEF MenuInv
<1>2. QED
  BY <1>1, SpecKeepsInv, PTL

(* The paint flags lose nothing: the display is current whenever a key is     *)
(* read (menu.c:350-357).                                                     *)
THEOREM MenusDisplayIsCurrent == Spec => []DisplayIsCurrent
<1>1. MenuInv => DisplayIsCurrent
  BY DEF MenuInv
<1>2. QED
  BY <1>1, SpecKeepsInv, PTL

(* The timeout starts nothing but the default, and only if no key has ever    *)
(* been pressed (menu.c:359-383, 814, 832, 847).                              *)
THEOREM MenusTimeoutStartsTheDefault == Spec => []TimeoutStartsTheDefault
<1>1. MenuInv => TimeoutStartsTheDefault
  BY DEF MenuInv
<1>2. QED
  BY <1>1, SpecKeepsInv, PTL

(* No key of UpdateScroll is stuck before the end it goes to (menu.c:180-275). *)
THEOREM MenusKeysMove == Spec => []KeysMove
<1>1. ASSUME MenuInv PROVE KeysMove
  <2> SUFFICES ASSUME pc = "read"
               PROVE  /\ State.CurrentSelection > 0 => \A up \in Up :
                           UpdateScroll(State, up).CurrentSelection < State.CurrentSelection
                      /\ State.CurrentSelection < State.MaxIndex => \A down \in Down :
                           UpdateScroll(State, down).CurrentSelection > State.CurrentSelection
    BY DEF KeysMove
  <2>1. GoodScroll(State) /\ State \in ScrollState
    BY <1>1 DEF MenuInv, ScrollInv, InMenu, GoodScroll, GoodWindow
  <2>2. ASSUME NEW movement \in Movements
        PROVE  LET m == UpdateScroll(State, movement) IN
               /\ movement \in Up /\ State.CurrentSelection > 0
                     => m.CurrentSelection < State.CurrentSelection
               /\ movement \in Down /\ State.CurrentSelection < State.MaxIndex
                     => m.CurrentSelection > State.CurrentSelection
    <3>1. PICK selection \in Int, first \in Int, paint \in BOOLEAN :
             /\ UpdateScroll(State, movement) = Moved(State, selection, first, paint)
             /\ movement \in Up /\ State.CurrentSelection > 0
                   => selection < State.CurrentSelection
             /\ movement \in Down /\ State.CurrentSelection < State.MaxIndex
                   => selection > State.CurrentSelection
      BY <2>1, UpdateLands
    <3>2. UpdateScroll(State, movement).CurrentSelection = selection
      BY <2>1, <3>1, MovedFields
    <3>3. QED
      BY <3>1, <3>2
  <2>3. QED
    BY <2>2 DEF Movements
<1>2. QED
  BY <1>1, SpecKeepsInv, PTL
================================================================================
