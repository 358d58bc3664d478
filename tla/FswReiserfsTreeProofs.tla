------------------------- MODULE FswReiserfsTreeProofs -------------------------
(***************************************************************************)
(* For every sound tree of a reiserfs volume: a search ends at the item it   *)
(* is for. With the few facts about minima that the readers of files and     *)
(* directories need as well.                                                 *)
(***************************************************************************)
EXTENDS FswReiserfsTree, FiniteSetsExt, FiniteSetTheorems, SequenceTheorems,
        WellFoundedInduction, TLAPS

------------------------------------------------------------------------------
(* Minima and maxima.                                                         *)

(* The lowest number of a set exists and is in the set. *)
LEMMA MinOfNaturals ==
    ASSUME NEW S \in SUBSET Nat, S # {}
    PROVE  Min(S) \in S /\ \A y \in S : Min(S) <= y
<1> DEFINE R == OpToRel(<, Nat)
<1>1. IsWellFoundedOn(R, Nat) /\ \A x, y \in Nat : <<y, x>> \in R <=> y < x
  BY NatLessThanWellFounded DEF OpToRel
<1> HIDE DEF R
<1>2. PICK x \in S : \A y \in S : <<y, x>> \notin R
  BY <1>1, WFMin
<1>3. \A y \in S : x \in Nat /\ y \in Nat /\ ~(y < x)
  BY <1>1, <1>2
<1>4. \A y \in S : x <= y
  BY <1>3
<1>5. QED
  BY <1>4 DEF Min

LEMMA MinOfTwo ==
    ASSUME NEW a \in Int, NEW b \in Int
    PROVE  Min({a, b}) = IF a <= b THEN a ELSE b
BY DEF Min

LEMMA MaxOfTwo ==
    ASSUME NEW a \in Int, NEW b \in Int
    PROVE  Max({a, b}) = IF a <= b THEN b ELSE a
BY DEF Max

(* The greatest number of a bounded set is the least of its bounds. *)
LEMMA MaxOfNaturals ==
    ASSUME NEW S \in SUBSET Nat, S # {}, NEW r \in Nat, \A x \in S : x <= r
    PROVE  Max(S) \in S /\ \A x \in S : x <= Max(S)
<1> DEFINE B == {n \in Nat : \A x \in S : x <= n}
           m == Min(B)
<1>1. m \in Nat /\ (\A x \in S : x <= m) /\ \A n \in B : m <= n
  <2>1. B \in SUBSET Nat /\ r \in B
    OBVIOUS
  <2>2. m \in B /\ \A n \in B : m <= n
    <3> HIDE DEF B
    <3>1. QED
      BY <2>1, MinOfNaturals
  <2>3. QED
    BY <2>2
<1>2. m \in S
  <2>1. SUFFICES ASSUME m \notin S PROVE FALSE
    OBVIOUS
  <2> HIDE DEF m
  <2>2. PICK x \in S : TRUE
    OBVIOUS
  <2>3. \A y \in S : y \in Nat /\ y < m
    BY <1>1, <2>1
  <2>4. m - 1 \in Nat
    BY <1>1, <2>2, <2>3
  <2>5. m - 1 \in B
    BY <1>1, <2>3, <2>4
  <2>6. QED
    BY <1>1, <2>4, <2>5
<1>3. \E x \in S : \A y \in S : x >= y
  <2> HIDE DEF m
  <2>1. QED
    BY <1>1, <1>2
<1>4. Max(S) \in S /\ \A y \in S : Max(S) >= y
  BY <1>3 DEF Max
<1>5. QED
  BY <1>4

------------------------------------------------------------------------------
(* Keys.                                                                      *)

LEMMA Tuples ==
    ASSUME NEW a \in Nat, NEW b \in Nat, NEW c \in Nat, NEW d \in Nat
    PROVE  /\ <<a>> \in Seq(Nat) /\ Len(<<a>>) = 1 /\ <<a>>[1] = a
           /\ <<a, b>> \in Seq(Nat) /\ Len(<<a, b>>) = 2
           /\ <<a, b>>[1] = a /\ <<a, b>>[2] = b
           /\ <<a, b, c>> \in Seq(Nat) /\ Len(<<a, b, c>>) = 3
           /\ <<a, b, c>>[1] = a /\ <<a, b, c>>[2] = b /\ <<a, b, c>>[3] = c
           /\ <<a, b, c, d>> \in Seq(Nat) /\ Len(<<a, b, c, d>>) = 4
           /\ <<a, b, c, d>>[1] = a /\ <<a, b, c, d>>[2] = b
           /\ <<a, b, c, d>>[3] = c /\ <<a, b, c, d>>[4] = d
OBVIOUS

(* A key of an object. *)
LEMMA KeyOfObject ==
    ASSUME NEW object \in Nat \X Nat, NEW n \in Nat
    PROVE  object \o <<n>> = <<object[1], object[2], n>> /\ object \o <<n>> \in Key
<1>1. PICK a \in Nat, b \in Nat : object = <<a, b>>
  OBVIOUS
<1>2. <<a, b>> \o <<n>> = <<a, b, n>>
  <2> DEFINE s == <<a, b>> \o <<n>>
             t == <<a, b, n>>
  <2>1. /\ <<a, b>> \in Seq(Nat) /\ Len(<<a, b>>) = 2
        /\ <<n>> \in Seq(Nat) /\ Len(<<n>>) = 1
        /\ t \in Seq(Nat) /\ Len(t) = 3
    BY Tuples
  <2>2. /\ s \in Seq(Nat) /\ Len(s) = 3
        /\ \A i \in 1 .. 3 : s[i] = IF i <= 2 THEN <<a, b>>[i] ELSE <<n>>[i - 2]
    BY <2>1, ConcatProperties
  <2>3. s[1] = a /\ s[2] = b /\ s[3] = n
    BY <2>2
  <2>4. \A i \in 1 .. 3 : s[i] = t[i]
    <3> HIDE DEF s
    <3>1. QED
      BY <2>3
  <2> HIDE DEF s, t
  <2>5. s = t
    BY <2>1, <2>2, <2>4, SeqEqual
  <2>6. QED
    BY <2>5 DEF s, t
<1>3. QED
  BY <1>1, <1>2 DEF Key

------------------------------------------------------------------------------
(* The search of the tree.                                                    *)

(* The position a scan of keys stops at: all keys before it are not greater   *)
(* than the one wanted, the one at it is.                                     *)
LEMMA FirstGreaterStops ==
    ASSUME NEW keys, NEW n \in Nat, DOMAIN keys = 1 .. n, NEW want
    PROVE  LET i == FirstGreaterAt(keys, want)
           IN  /\ i \in 0 .. n
               /\ \A j \in 1 .. i : ~FirstGreater(keys[j], want)
               /\ i < n => FirstGreater(keys[i + 1], want)
<1> DEFINE Passed == {i \in 1 .. n : \A j \in 1 .. i : ~FirstGreater(keys[j], want)}
           Greater == {i \in 1 .. n : FirstGreater(keys[i], want)}
           m == IF Greater = {} THEN n ELSE Min(Greater) - 1
<1>1. /\ m \in 0 .. n
      /\ \A j \in 1 .. m : j \notin Greater
      /\ m < n => m + 1 \in Greater
  <2>1. CASE Greater = {}
    BY <2>1
  <2>2. CASE Greater # {}
    <3>1. Greater \in SUBSET Nat
      OBVIOUS
    <3>2. Min(Greater) \in Greater /\ \A y \in Greater : Min(Greater) <= y
      <4> HIDE DEF Greater
      <4>1. QED
        BY <2>2, <3>1, MinOfNaturals
    <3>3. Greater \subseteq 1 .. n
      OBVIOUS
    <3>4. QED
      <4> DEFINE g == Min(Greater)
      <4>1. m = g - 1
        BY <2>2
      <4> HIDE DEF Greater, g, m
      <4>2. g \in Greater /\ g \in 1 .. n /\ \A y \in Greater : g <= y
        BY <3>2, <3>3 DEF g
      <4>3. QED
        BY <4>1, <4>2, <3>3
  <2>3. QED
    BY <2>1, <2>2
<1> HIDE DEF m
<1>2. Passed = 1 .. m
  <2>1. \A i \in Passed : i \in 1 .. m
    BY <1>1
  <2>2. \A i \in 1 .. m : i \in Passed
    BY <1>1
  <2>3. Passed \subseteq 1 .. n
    OBVIOUS
  <2>4. QED
    BY <2>1, <2>2
<1>3. FirstGreaterAt(keys, want) = m
  <2>1. FirstGreaterAt(keys, want) = Cardinality(Passed)
    <3>1. FirstGreaterAt(keys, want) =
              Cardinality({i \in 1 .. n : \A j \in 1 .. i : ~FirstGreater(keys[j], want)})
      BY Zenon DEF FirstGreaterAt
    <3>2. QED
      BY <3>1
  <2>2. Cardinality(1 .. m) = m
    BY <1>1, FS_Interval
  <2>3. QED
    BY <1>2, <2>1, <2>2
<1>4. QED
  BY <1>1, <1>3

(* The states a search for an item of a file can be in. *)
Searches == [pc : {"search", "found", "none", "error"}, next : {FALSE}, want : Key,
             level : Levels, bno : DOMAIN Nodes, held : DOMAIN Nodes \union {0},
             path_bno : [Levels -> Nat], path_index : [Levels -> Nat]]

(* A search has a leaf on loan when it has found an item there, and then      *)
(* only.                                                                      *)
HoldsItsLeaf(t) ==
    /\ t.pc # "found" => t.held = 0
    /\ t.pc = "found" => /\ t.held # 0 /\ Nodes[t.held].level = Leaf
                         /\ t.path_index[Leaf] + 1 \in DOMAIN Nodes[t.held].items

LEMMA SearchBegins ==
    ASSUME TreeAssumption, NEW want \in Key
    PROVE  Search(want) \in Searches /\ HoldsItsLeaf(Search(want))
BY DEF TreeAssumption, Search, Searches, HoldsItsLeaf, Levels, Leaf

LEMMA FailedHolds ==
    ASSUME TreeAssumption, NEW t \in Searches, NEW why \in {"none", "error"}
    PROVE  Failed(t, why) \in Searches /\ HoldsItsLeaf(Failed(t, why))
BY DEF Failed, Searches, HoldsItsLeaf

(* Settling at item i of the leaf bno. *)
LEMMA SettleHolds ==
    ASSUME TreeAssumption, NEW t \in Searches, t.pc = "search", NEW i \in Nat,
           Nodes[t.bno].level = Leaf, i + 1 \in DOMAIN Nodes[t.bno].items
    PROVE  Settle(t, i) \in Searches /\ HoldsItsLeaf(Settle(t, i))
<1> DEFINE at == [t EXCEPT !.path_index[Leaf] = i]
<1>1. Leaf \in Levels
  BY TreeAssumption DEF TreeAssumption, Levels, Leaf
<1>2. at \in Searches /\ at.bno = t.bno /\ at.path_index[Leaf] = i
  BY <1>1 DEF Searches
<1>3. t.bno \in DOMAIN Nodes /\ t.bno # 0
  BY TreeAssumption DEF TreeAssumption, Searches
<1> DEFINE got == [at EXCEPT !.pc = "found", !.held = t.bno]
<1>4. got \in Searches /\ HoldsItsLeaf(got)
  <2> HIDE DEF at
  <2>1. got \in Searches /\ got.pc = "found" /\ got.held = t.bno /\ got.path_index[Leaf] = i
    BY <1>2, <1>3 DEF Searches
  <2> HIDE DEF got
  <2>2. QED
    BY <1>3, <2>1 DEF HoldsItsLeaf
<1>5. Failed(at, "none") \in Searches /\ HoldsItsLeaf(Failed(at, "none"))
  BY <1>2, FailedHolds, TreeAssumption
<1>6. Settle(t, i) \in {got, Failed(at, "none")}
  BY DEF Settle
<1> HIDE DEF at, got
<1>7. QED
  BY <1>4, <1>5, <1>6

(* The keys a node is searched by, and where the search stops in them. *)
KeysOf(b)     == IF Nodes[b].level = Leaf
                 THEN [j \in DOMAIN Nodes[b].items |-> Nodes[b].items[j].key]
                 ELSE Nodes[b].keys
StopIn(b, want) == FirstGreaterAt(KeysOf(b), want)

LEMMA StopsInNode ==
    ASSUME TreeAssumption, NEW b \in DOMAIN Nodes, Nodes[b].level \in Levels, NEW want \in Key
    PROVE  LET n == IF Nodes[b].level = Leaf THEN Len(Nodes[b].items) ELSE Len(Nodes[b].keys)
               i == StopIn(b, want)
           IN  /\ n \in Nat /\ DOMAIN KeysOf(b) = 1 .. n
               /\ \A j \in 1 .. n : KeysOf(b)[j] \in Key
               /\ i \in 0 .. n
               /\ \A j \in 1 .. i : ~FirstGreater(KeysOf(b)[j], want)
               /\ i < n => FirstGreater(KeysOf(b)[i + 1], want)
<1> DEFINE n == IF Nodes[b].level = Leaf THEN Len(Nodes[b].items) ELSE Len(Nodes[b].keys)
<1>1. n \in Nat /\ DOMAIN KeysOf(b) = 1 .. n /\ \A j \in 1 .. n : KeysOf(b)[j] \in Key
  <2>1. IsNode(Nodes[b])
    BY TreeAssumption DEF TreeAssumption
  <2>2. CASE Nodes[b].level = Leaf
    BY <2>1, <2>2 DEF IsNode, KeysOf
  <2>3. CASE Nodes[b].level > Leaf
    <3>1. Nodes[b].keys \in Seq(Key) /\ KeysOf(b) = Nodes[b].keys /\ n = Len(Nodes[b].keys)
      BY <2>1, <2>3 DEF IsNode, KeysOf, Leaf
    <3>2. QED
      BY ONLY <3>1, LenProperties, ElementOfSeq
  <2>4. QED
    BY <2>2, <2>3 DEF Levels, Leaf
<1> HIDE DEF n
<1>2. /\ StopIn(b, want) \in 0 .. n
      /\ \A j \in 1 .. StopIn(b, want) : ~FirstGreater(KeysOf(b)[j], want)
      /\ StopIn(b, want) < n => FirstGreater(KeysOf(b)[StopIn(b, want) + 1], want)
  BY <1>1, FirstGreaterStops DEF StopIn
<1>3. QED
  BY <1>1, <1>2 DEF n

(* Where a search goes down. *)
Descended(t) == [t EXCEPT !.path_index[t.level] = StopIn(t.bno, t.want),
                          !.bno = Nodes[t.bno].child[StopIn(t.bno, t.want) + 1],
                          !.level = @ - 1]

(* A step of a search in terms of the node it looks at. *)
LEMMA StepOfSearch ==
    ASSUME TreeAssumption, NEW t \in Searches, t.pc = "search"
    PROVE  LET here == [t EXCEPT !.path_bno[t.level] = t.bno]
               i    == StopIn(t.bno, t.want)
           IN  /\ here \in Searches /\ here.pc = "search" /\ here.bno = t.bno
               /\ here.want = t.want /\ here.level = t.level
               /\ \/ SearchStep(t) = Failed(t, "error")
                  \/ /\ Nodes[t.bno].level = t.level /\ t.level = Leaf
                     /\ SearchStep(t) = IF i = 0 THEN Failed(here, "none")
                                                 ELSE Settle(here, i - 1)
                  \/ /\ Nodes[t.bno].level = t.level /\ t.level # Leaf
                     /\ SearchStep(t) = Descended(here)
<1> DEFINE here == [t EXCEPT !.path_bno[t.level] = t.bno]
<1>1. /\ here \in Searches /\ here.pc = "search" /\ here.bno = t.bno
      /\ here.want = t.want /\ here.level = t.level
  BY TreeAssumption DEF Searches, TreeAssumption
<1>2. SearchStep(t) = IF Nodes[t.bno].level # t.level THEN Failed(t, "error")
                      ELSE IF t.level = Leaf THEN SearchLeaf(here) ELSE Descend(here)
  BY DEF SearchStep
<1> HIDE DEF here
<1>3. ASSUME Nodes[t.bno].level = Leaf
      PROVE  SearchLeaf(here) = IF StopIn(t.bno, t.want) = 0 THEN Failed(here, "none")
                                ELSE Settle(here, StopIn(t.bno, t.want) - 1)
  BY <1>1, <1>3 DEF SearchLeaf, StopIn, KeysOf
<1>4. ASSUME Nodes[t.bno].level # Leaf
      PROVE  Descend(here) = Descended(here)
  BY <1>1, <1>4 DEF Descend, Descended, StopIn, KeysOf
<1>5. QED
  BY <1>1, <1>2, <1>3, <1>4 DEF here

LEMMA DescendHolds ==
    ASSUME TreeAssumption, NEW t \in Searches, t.pc = "search", t.held = 0,
           Nodes[t.bno].level = t.level, t.level # Leaf
    PROVE  LET i == StopIn(t.bno, t.want)
           IN  /\ Descended(t) \in Searches /\ HoldsItsLeaf(Descended(t))
               /\ Descended(t).pc = "search" /\ Descended(t).want = t.want
               /\ Descended(t).bno = Nodes[t.bno].child[i + 1]
               /\ i + 1 \in DOMAIN Nodes[t.bno].child
<1> DEFINE i == StopIn(t.bno, t.want)
           d == Descended(t)
<1>1. t.bno \in DOMAIN Nodes /\ t.level \in Levels /\ t.want \in Key
  BY DEF Searches
<1>2. i \in 0 .. Len(Nodes[t.bno].keys) /\ Len(Nodes[t.bno].keys) \in Nat
  BY <1>1, StopsInNode, TreeAssumption
<1>3. Nodes[t.bno].level > Leaf /\ t.level - 1 \in Levels
  BY <1>1, TreeAssumption DEF Levels, Leaf, TreeAssumption
<1>4. /\ Nodes[t.bno].child \in Seq(DOMAIN Nodes)
      /\ Len(Nodes[t.bno].child) = Len(Nodes[t.bno].keys) + 1
  BY <1>1, <1>3, TreeAssumption DEF TreeAssumption, IsNode
<1>5. i + 1 \in 1 .. Len(Nodes[t.bno].child)
  BY ONLY <1>2, <1>4
<1>6. /\ i + 1 \in DOMAIN Nodes[t.bno].child
      /\ Nodes[t.bno].child[i + 1] \in DOMAIN Nodes
  BY ONLY <1>4, <1>5, LenProperties, ElementOfSeq
<1>7. /\ d \in Searches /\ d.pc = "search" /\ d.held = 0
      /\ d.want = t.want /\ d.bno = Nodes[t.bno].child[i + 1]
  <2> DEFINE c == Nodes[t.bno].child[i + 1]
             index == [t.path_index EXCEPT ![t.level] = i]
  <2>1. index \in [Levels -> Nat]
    BY <1>1, <1>2 DEF Searches
  <2>2. d = [t EXCEPT !.path_index = index, !.bno = c, !.level = t.level - 1]
    BY DEF Searches, Descended
  <2>3. c \in DOMAIN Nodes
    BY <1>6
  <2> HIDE DEF c, index
  <2>4. /\ [t EXCEPT !.path_index = index, !.bno = c, !.level = t.level - 1] \in Searches
    BY ONLY t \in Searches, <1>3, <2>1, <2>3 DEF Searches
  <2>5. QED
    BY <2>2, <2>4 DEF c, Searches
<1>8. QED
  BY <1>6, <1>7 DEF HoldsItsLeaf

------------------------------------------------------------------------------
(* The item a search ends at.                                                 *)

LEMMA KeyOrder ==
    ASSUME NEW a \in Key, NEW b \in Key, NEW c \in Key
    PROVE  /\ ~FirstGreater(a, a)
           /\ FirstGreater(a, b) /\ FirstGreater(b, c) => FirstGreater(a, c)
           /\ FirstGreater(a, b) /\ ~FirstGreater(c, b) => FirstGreater(a, c)
           /\ ~FirstGreater(b, a) /\ FirstGreater(b, c) => FirstGreater(a, c)
           /\ ~FirstGreater(a, b) /\ ~FirstGreater(b, c) => ~FirstGreater(a, c)
BY DEF FirstGreater, SameObject, Key

(* A key between two of an object is the object's. *)
LEMMA KeyBetween ==
    ASSUME NEW a \in Key, NEW b \in Key, NEW c \in Key, SameObject(a, c),
           ~FirstGreater(a, b), ~FirstGreater(b, c)
    PROVE  SameObject(b, c) /\ a[3] <= b[3]
BY DEF FirstGreater, SameObject, Key

LEMMA ChildrenAreNodes ==
    ASSUME TreeAssumption, NEW b \in DOMAIN Nodes
    PROVE  Children(b) \subseteq DOMAIN Nodes
<1>1. CASE Nodes[b].level > Leaf
  <2>1. Nodes[b].child \in Seq(DOMAIN Nodes)
    BY <1>1, TreeAssumption DEF TreeAssumption, IsNode
  <2>2. \A i \in DOMAIN Nodes[b].child : Nodes[b].child[i] \in DOMAIN Nodes
    BY ONLY <2>1, LenProperties, ElementOfSeq
  <2>3. QED
    BY <1>1, <2>2 DEF Children
<1>2. QED
  BY <1>1 DEF Children

(* A node is below itself, and what is below a node is closed. *)
LEMMA UnderClosed ==
    ASSUME TreeAssumption, NEW b \in DOMAIN Nodes
    PROVE  b \in Under(b) /\ \A d \in Under(b) : Children(d) \subseteq Under(b)
<1>1. b \in Under(b)
  BY DEF Under
<1>2. ASSUME NEW d \in Under(b), NEW c \in Children(d)
      PROVE  c \in Under(b)
  <2>1. d \in DOMAIN Nodes
    BY DEF Under
  <2>2. c \in DOMAIN Nodes
    BY <2>1, ChildrenAreNodes, TreeAssumption
  <2>3. ASSUME NEW S \in SUBSET DOMAIN Nodes, b \in S, \A e \in S : Children(e) \subseteq S
        PROVE  c \in S
    BY <2>3 DEF Under
  <2>4. QED
    BY <2>2, <2>3 DEF Under
<1>3. QED
  BY <1>1, <1>2

LEMMA UnderChild ==
    ASSUME TreeAssumption, NEW b \in DOMAIN Nodes, NEW c \in Children(b)
    PROVE  Under(c) \subseteq Under(b)
<1>1. Under(b) \in SUBSET DOMAIN Nodes
  BY DEF Under
<1>2. c \in Under(b) /\ \A d \in Under(b) : Children(d) \subseteq Under(b)
  BY UnderClosed, TreeAssumption
<1>3. QED
  BY <1>1, <1>2 DEF Under

(* What is below a node and is not the node is below one of its children. *)
LEMMA UnderSplits ==
    ASSUME TreeAssumption, NEW b \in DOMAIN Nodes, NEW d \in Under(b), d # b
    PROVE  \E c \in Children(b) : d \in Under(c)
<1> DEFINE S == {b} \union UNION {Under(c) : c \in Children(b)}
<1>1. Children(b) \subseteq DOMAIN Nodes
  BY ChildrenAreNodes, TreeAssumption
<1>2. S \in SUBSET DOMAIN Nodes /\ b \in S
  BY DEF Under
<1>3. ASSUME NEW e \in S PROVE Children(e) \subseteq S
  <2>1. CASE e = b
    BY <1>1, <2>1, UnderClosed, TreeAssumption
  <2>2. CASE \E c \in Children(b) : e \in Under(c)
    BY <1>1, <2>2, UnderClosed, TreeAssumption
  <2>3. QED
    BY <2>1, <2>2
<1> HIDE DEF S
<1>4. d \in S
  BY <1>2, <1>3 DEF Under
<1>5. QED
  BY <1>4 DEF S

LEMMA ItemsHaveKeys ==
    ASSUME TreeAssumption, NEW b \in DOMAIN Nodes
    PROVE  /\ ItemsUnder(b) \subseteq AllItems
           /\ \A it \in AllItems : it.key \in Key
<1>1. \A c \in DOMAIN Nodes : Nodes[c].level = Leaf =>
          \A i \in DOMAIN Nodes[c].items : Nodes[c].items[i].key \in Key
  BY TreeAssumption DEF TreeAssumption, IsNode
<1>2. \A it \in AllItems : it.key \in Key
  BY <1>1 DEF AllItems
<1>3. Under(b) \subseteq DOMAIN Nodes
  BY DEF Under
<1>4. ItemsUnder(b) \subseteq AllItems
  BY <1>3 DEF ItemsUnder, ItemsOf, AllItems
<1>5. QED
  BY <1>2, <1>4

(* A search for want that has come to node b has not passed item x by: x is   *)
(* below b, or a greater item below b is not greater than want; only a node   *)
(* without leaves, where the search must fail, says nothing.                  *)
InReach(b, want, x) ==
    \/ x \in ItemsUnder(b)
    \/ \E y \in ItemsUnder(b) : ~FirstGreater(y.key, want) /\ FirstGreater(y.key, x.key)
    \/ ItemsUnder(b) = {}

OnTrack(t) == \A x \in AllItems : ~FirstGreater(x.key, t.want) => InReach(t.bno, t.want, x)

(* Internal nodes lead on to the child that matters. *)
LEMMA ChildOnTrack ==
    ASSUME TreeAssumption, SearchTreeAssumption, NEW b \in DOMAIN Nodes,
           Nodes[b].level \in Levels, Nodes[b].level # Leaf, NEW want \in Key,
           NEW i, i = StopIn(b, want), i + 1 \in DOMAIN Nodes[b].child,
           NEW x \in AllItems, ~FirstGreater(x.key, want), InReach(b, want, x)
    PROVE  InReach(Nodes[b].child[i + 1], want, x)
<1> DEFINE keys == Nodes[b].keys
           child == Nodes[b].child
           n == Len(keys)
           c == child[i + 1]
<1>1. Nodes[b].level > Leaf
  BY DEF Levels, Leaf
<1>2. /\ n \in Nat /\ DOMAIN keys = 1 .. n
      /\ \A j \in 1 .. n : keys[j] \in Key
      /\ i \in 0 .. n
      /\ \A j \in 1 .. i : ~FirstGreater(keys[j], want)
      /\ i < n => FirstGreater(keys[i + 1], want)
  BY StopsInNode, TreeAssumption DEF KeysOf
<1>3. DOMAIN child = 1 .. n + 1
  <2>1. child \in Seq(DOMAIN Nodes) /\ Len(child) = n + 1
    BY <1>1, TreeAssumption DEF TreeAssumption, IsNode
  <2>2. DOMAIN child = 1 .. Len(child)
    BY ONLY <2>1, LenProperties
  <2>3. QED
    BY <2>1, <2>2
<1>4. Ascending(keys) /\ Divides(Nodes[b])
  BY <1>1, SearchTreeAssumption DEF SearchTreeAssumption
<1>5. \A j \in DOMAIN child : child[j] \in Children(b)
  BY <1>1 DEF Children
<1>6. /\ c \in Children(b) /\ c \in DOMAIN Nodes
      /\ ItemsUnder(c) \subseteq ItemsUnder(b)
  <2>1. c \in Children(b)
    BY <1>5
  <2>2. c \in DOMAIN Nodes /\ Under(c) \subseteq Under(b)
    BY <2>1, ChildrenAreNodes, UnderChild, TreeAssumption
  <2>3. QED
    BY <2>1, <2>2 DEF ItemsUnder
<1>7. \A it \in ItemsUnder(b) : it \in AllItems /\ it.key \in Key
  BY ItemsHaveKeys, TreeAssumption
<1>8. CASE ItemsUnder(c) = {}
  BY <1>8 DEF InReach
<1>9. ASSUME ItemsUnder(c) # {}, NEW u \in ItemsUnder(b), ~FirstGreater(u.key, want)
      PROVE  \/ u \in ItemsUnder(c)
             \/ \E z \in ItemsUnder(c) : ~FirstGreater(z.key, want) /\ FirstGreater(z.key, u.key)
  <2>1. PICK j \in 1 .. n + 1 : u \in ItemsUnder(child[j])
    <3>1. PICK d \in Under(b) : u \in ItemsOf(d)
      BY <1>9 DEF ItemsUnder
    <3>2. d # b
      BY <3>1, <1>1 DEF ItemsOf
    <3>3. PICK e \in Children(b) : d \in Under(e)
      BY <3>1, <3>2, UnderSplits, TreeAssumption
    <3>4. PICK j \in DOMAIN child : e = child[j]
      BY <1>1, <3>3 DEF Children
    <3>5. u \in ItemsUnder(child[j])
      BY <3>1, <3>3, <3>4 DEF ItemsUnder
    <3>6. QED
      BY <1>3, <3>4, <3>5
  <2>2. /\ j <= n => FirstGreater(keys[j], u.key)
        /\ j > 1 => ~FirstGreater(keys[j - 1], u.key)
    BY <1>3, <1>4, <2>1 DEF Divides
  <2>3. CASE j = i + 1
    BY <2>1, <2>3
  <2>4. CASE j > i + 1
    <3>1. j - 1 \in 1 .. n /\ i + 1 \in 1 .. n /\ i + 1 <= j - 1
      BY <1>2, <2>1, <2>4
    <3>2. FirstGreater(keys[i + 1], want) /\ ~FirstGreater(keys[j - 1], u.key)
      BY <1>2, <2>2, <2>4, <3>1
    <3>3. i + 1 = j - 1 \/ FirstGreater(keys[j - 1], keys[i + 1])
      BY <1>2, <1>4, <3>1 DEF Ascending
    <3>4. keys[i + 1] \in Key /\ keys[j - 1] \in Key /\ u.key \in Key
      BY <1>2, <1>7, <3>1
    <3>5. FirstGreater(keys[j - 1], want)
      <4>1. CASE i + 1 = j - 1
        BY <3>2, <4>1
      <4>2. CASE FirstGreater(keys[j - 1], keys[i + 1])
        BY ONLY <3>2, <3>4, <4>2, KeyOrder, want \in Key
      <4>3. QED
        BY <3>3, <4>1, <4>2
    <3>6. QED
      BY ONLY <1>9, <3>2, <3>4, <3>5, KeyOrder, want \in Key
  <2>5. CASE j < i + 1
    <3>1. i \in 1 .. n /\ j \in 1 .. n /\ j <= i /\ i + 1 > 1 /\ (i + 1) - 1 = i
      BY <1>2, <2>1, <2>5
    <3>2. PICK z \in ItemsUnder(c) : z.key = keys[i]
      BY <1>4, <1>9, <3>1 DEF Divides
    <3>3. ~FirstGreater(keys[i], want) /\ FirstGreater(keys[j], u.key)
      BY <1>2, <2>2, <3>1
    <3>4. i = j \/ FirstGreater(keys[i], keys[j])
      <4>1. \A k, l \in 1 .. n : k < l => FirstGreater(keys[l], keys[k])
        BY <1>2, <1>4 DEF Ascending
      <4> HIDE DEF keys, n
      <4>2. QED
        BY ONLY <1>2, <3>1, <4>1
    <3>5. keys[i] \in Key /\ keys[j] \in Key /\ u.key \in Key
      BY <1>2, <1>7, <3>1
    <3>6. FirstGreater(keys[i], u.key)
      <4>1. CASE i = j
        BY <3>3, <4>1
      <4>2. CASE FirstGreater(keys[i], keys[j])
        BY ONLY <3>3, <3>5, <4>2, KeyOrder
      <4>3. QED
        BY <3>4, <4>1, <4>2
    <3>7. QED
      BY <3>2, <3>3, <3>6
  <2>6. QED
    BY <1>2, <2>1, <2>3, <2>4, <2>5
<1> HIDE DEF c
<1>10. ASSUME ItemsUnder(c) # {} PROVE InReach(c, want, x)
  <2>1. CASE x \in ItemsUnder(b)
    BY <1>9, <1>10, <2>1 DEF InReach
  <2>2. ASSUME NEW y \in ItemsUnder(b), ~FirstGreater(y.key, want), FirstGreater(y.key, x.key)
        PROVE  InReach(c, want, x)
    <3>1. CASE y \in ItemsUnder(c)
      BY <2>2, <3>1 DEF InReach
    <3>2. ASSUME NEW z \in ItemsUnder(c), ~FirstGreater(z.key, want),
                 FirstGreater(z.key, y.key)
          PROVE  InReach(c, want, x)
      <4>1. x.key \in Key /\ y.key \in Key /\ z.key \in Key
        BY <1>6, <1>7, ItemsHaveKeys, TreeAssumption
      <4>2. FirstGreater(z.key, x.key)
        BY ONLY <2>2, <3>2, <4>1, KeyOrder
      <4>3. QED
        BY <3>2, <4>2 DEF InReach
    <3>3. QED
      BY <1>9, <1>10, <2>2, <3>1, <3>2
  <2>3. QED
    BY <1>6, <1>10, <2>1, <2>2 DEF InReach
<1>11. QED
  BY <1>8, <1>10 DEF c

LEMMA UnderLeaf ==
    ASSUME TreeAssumption, NEW b \in DOMAIN Nodes, Nodes[b].level = Leaf
    PROVE  ItemsUnder(b) = {Nodes[b].items[i] : i \in DOMAIN Nodes[b].items}
<1>1. Children(b) = {}
  BY DEF Children, Leaf
<1>2. Under(b) = {b}
  BY <1>1, UnderSplits, UnderClosed, TreeAssumption
<1>3. QED
  BY <1>2 DEF ItemsUnder, ItemsOf

(* In the right leaf no item that is not greater than want is greater than    *)
(* the one the search stops after.                                            *)
LEMMA LeafOnTrack ==
    ASSUME TreeAssumption, SearchTreeAssumption, NEW b \in DOMAIN Nodes,
           Nodes[b].level = Leaf, NEW want \in Key, NEW m, m = StopIn(b, want),
           NEW x \in AllItems, ~FirstGreater(x.key, want), InReach(b, want, x)
    PROVE  m # 0 /\ ~FirstGreater(x.key, Nodes[b].items[m].key)
<1> DEFINE items == Nodes[b].items
           n == Len(items)
<1>1. /\ n \in Nat \ {0} /\ DOMAIN items = 1 .. n
  BY TreeAssumption DEF TreeAssumption, IsNode
<1>2. /\ \A j \in 1 .. n : KeysOf(b)[j] = items[j].key
      /\ \A j \in 1 .. n : items[j].key \in Key
      /\ m \in 0 .. n
      /\ \A j \in 1 .. m : ~FirstGreater(items[j].key, want)
      /\ m < n => FirstGreater(items[m + 1].key, want)
  <2>1. Nodes[b].level \in Levels
    BY TreeAssumption DEF Levels, Leaf, TreeAssumption
  <2>2. \A j \in 1 .. n : KeysOf(b)[j] = items[j].key
    BY <1>1 DEF KeysOf
  <2>3. /\ \A j \in 1 .. n : KeysOf(b)[j] \in Key
        /\ m \in 0 .. n
        /\ \A j \in 1 .. m : ~FirstGreater(KeysOf(b)[j], want)
        /\ m < n => FirstGreater(KeysOf(b)[m + 1], want)
    BY <2>1, StopsInNode, TreeAssumption
  <2> HIDE DEF n, items
  <2>4. \A j \in 1 .. m : j \in 1 .. n
    BY <1>1, <2>3
  <2>5. m < n => m + 1 \in 1 .. n
    BY <1>1, <2>3
  <2>6. QED
    BY ONLY <2>2, <2>3, <2>4, <2>5
<1>3. \A k, l \in 1 .. n : k < l => FirstGreater(items[l].key, items[k].key)
  BY <1>1, SearchTreeAssumption DEF SearchTreeAssumption, Ascending
<1>4. \A u \in ItemsUnder(b) : \E j \in 1 .. n : u = items[j]
  BY <1>1, UnderLeaf, TreeAssumption
<1>5. ItemsUnder(b) # {}
  <2>1. 1 \in DOMAIN items
    BY <1>1
  <2>2. QED
    BY <2>1, UnderLeaf, TreeAssumption
<1> HIDE DEF items, n
<1>6. ASSUME NEW u \in ItemsUnder(b), ~FirstGreater(u.key, want)
      PROVE  m # 0 /\ m \in 1 .. n /\ ~FirstGreater(u.key, items[m].key)
  <2>1. PICK j \in 1 .. n : u = items[j]
    BY <1>4
  <2>2. j <= m
    <3>1. SUFFICES ASSUME m < j PROVE FALSE
      BY <1>1, <1>2, <2>1
    <3>2. m + 1 \in 1 .. n /\ FirstGreater(items[m + 1].key, want) /\ m + 1 <= j
      BY <1>1, <1>2, <2>1, <3>1
    <3>3. m + 1 = j \/ FirstGreater(items[j].key, items[m + 1].key)
      BY ONLY <1>1, <1>3, <2>1, <3>2
    <3>4. items[m + 1].key \in Key /\ items[j].key \in Key
      BY <1>2, <2>1, <3>2
    <3>5. CASE m + 1 = j
      BY <1>6, <2>1, <3>2, <3>5
    <3>6. CASE FirstGreater(items[j].key, items[m + 1].key)
      <4>1. FirstGreater(items[j].key, want)
        BY ONLY <3>2, <3>4, <3>6, KeyOrder, want \in Key
      <4>2. QED
        BY <1>6, <2>1, <4>1
    <3>7. QED
      BY <3>3, <3>5, <3>6
  <2>3. m # 0 /\ m \in 1 .. n
    BY <1>1, <1>2, <2>1, <2>2
  <2>4. j = m \/ FirstGreater(items[m].key, items[j].key)
    BY ONLY <1>1, <1>3, <2>1, <2>2, <2>3
  <2>5. items[m].key \in Key /\ items[j].key \in Key
    BY <1>2, <2>1, <2>3
  <2>6. ~FirstGreater(items[j].key, items[m].key)
    <3>1. FirstGreater(items[m].key, items[j].key) /\ FirstGreater(items[j].key, items[m].key)
            => FirstGreater(items[m].key, items[m].key)
      BY ONLY <2>5, KeyOrder
    <3>2. ~FirstGreater(items[m].key, items[m].key)
      BY ONLY <2>5, KeyOrder
    <3>3. QED
      BY <2>4, <3>1, <3>2
  <2>7. QED
    BY <2>1, <2>3, <2>6
<1>7. m # 0 /\ ~FirstGreater(x.key, items[m].key)
  <2>1. CASE x \in ItemsUnder(b)
    BY <1>6, <2>1
  <2>2. ASSUME NEW y \in ItemsUnder(b), ~FirstGreater(y.key, want), FirstGreater(y.key, x.key)
        PROVE  m # 0 /\ ~FirstGreater(x.key, items[m].key)
    <3>1. m # 0 /\ m \in 1 .. n /\ ~FirstGreater(y.key, items[m].key)
      BY <1>6, <2>2
    <3>2. x.key \in Key /\ y.key \in Key /\ items[m].key \in Key
      <4>1. y \in AllItems
        BY ItemsHaveKeys, TreeAssumption
      <4>2. QED
        BY <1>2, <3>1, <4>1, ItemsHaveKeys, TreeAssumption
    <3>3. ~FirstGreater(x.key, items[m].key)
      <4>1. FirstGreater(x.key, items[m].key) => FirstGreater(y.key, items[m].key)
        BY ONLY <2>2, <3>2, KeyOrder
      <4>2. QED
        BY <3>1, <4>1
    <3>4. QED
      BY <3>1, <3>3
  <2>3. QED
    BY <1>5, <2>1, <2>2 DEF InReach
<1>8. QED
  BY <1>7 DEF items

(* What a search that settles there has found. *)
LEMMA SettleIsRight ==
    ASSUME TreeAssumption, NEW t \in Searches, t.pc = "search",
           Nodes[t.bno].level = Leaf, NEW m \in DOMAIN Nodes[t.bno].items,
           NEW item, item = Nodes[t.bno].items[m], ~FirstGreater(item.key, t.want),
           \A x \in AllItems : ~FirstGreater(x.key, t.want) => ~FirstGreater(x.key, item.key)
    PROVE  ResultIsRight(Settle(t, m - 1))
<1> DEFINE u == Settle(t, m - 1)
           fits == {it \in ObjectItems(t.want) : it.key[3] <= t.want[3]}
<1>1. t.bno \in DOMAIN Nodes /\ t.want \in Key /\ t.next = FALSE
  BY DEF Searches
<1>2. m \in Nat \ {0} /\ (m - 1) + 1 = m /\ m - 1 \in Nat
  BY <1>1, TreeAssumption DEF TreeAssumption, IsNode
<1>3. Leaf \in Levels
  BY TreeAssumption DEF TreeAssumption, Levels, Leaf
<1>4. /\ u.want = t.want /\ u.next = FALSE
      /\ SameObject(item.key, t.want) =>
            u.pc = "found" /\ u.held = t.bno /\ u.path_index[Leaf] = m - 1
      /\ ~SameObject(item.key, t.want) => u.pc = "none"
  BY <1>1, <1>2, <1>3 DEF Settle, Failed, Searches
<1>5. item \in AllItems
  BY <1>1 DEF AllItems
<1>6. \A x \in AllItems : x.key \in Key
  BY <1>1, ItemsHaveKeys, TreeAssumption
<1>7. \A x \in fits : /\ x \in AllItems /\ SameObject(x.key, t.want)
                      /\ ~FirstGreater(x.key, t.want)
                      /\ ~FirstGreater(x.key, item.key)
  <2>1. \A x \in fits : /\ x \in AllItems /\ SameObject(x.key, t.want)
                        /\ x.key[3] <= t.want[3]
    BY DEF ObjectItems, SameObject
  <2>2. ASSUME NEW x \in fits PROVE ~FirstGreater(x.key, t.want)
    <3>1. x.key \in Key /\ SameObject(x.key, t.want) /\ x.key[3] <= t.want[3]
      BY <1>6, <2>1
    <3>2. QED
      BY ONLY <1>1, <3>1 DEF FirstGreater, SameObject, Key
  <2> HIDE DEF fits
  <2>3. QED
    BY <2>1, <2>2
<1>8. CASE SameObject(item.key, t.want)
  <2>1. item \in fits
    BY <1>1, <1>5, <1>6, <1>8 DEF ObjectItems, SameObject, FirstGreater, Key
  <2>2. \A other \in fits : other.key[3] <= item.key[3]
    <3> HIDE DEF fits
    <3>1. QED
      BY <1>1, <1>5, <1>6, <1>7, KeyBetween
  <2>3. AtItem(u) = item
    BY <1>2, <1>4, <1>8 DEF AtItem
  <2>4. u.pc = "found"
    BY <1>4, <1>8
  <2> HIDE DEF u
  <2>5. QED
    BY <1>4, <2>1, <2>2, <2>3, <2>4 DEF ResultIsRight, u
<1>9. CASE ~SameObject(item.key, t.want)
  <2>1. \A x \in fits : FALSE
    <3> HIDE DEF fits
    <3>1. QED
      BY <1>1, <1>5, <1>6, <1>7, <1>9, KeyBetween
  <2>2. u.pc = "none"
    BY <1>4, <1>9
  <2> HIDE DEF u
  <2>3. QED
    BY <1>4, <2>1, <2>2 DEF ResultIsRight, u
<1>10. QED
  BY <1>8, <1>9

SearchIsRight(t) == (t.pc = "search" => OnTrack(t)) /\ ResultIsRight(t)

LEMMA SearchStartsRight ==
    ASSUME TreeAssumption, SearchTreeAssumption, NEW want \in Key
    PROVE  SearchIsRight(Search(want))
<1>1. AllItems = ItemsUnder(RootBlock)
  BY SearchTreeAssumption DEF SearchTreeAssumption
<1>2. /\ Search(want).pc = "search" /\ Search(want).bno = RootBlock
  BY DEF Search
<1>3. OnTrack(Search(want))
  BY <1>1, <1>2 DEF OnTrack, InReach
<1>4. ResultIsRight(Search(want))
  BY <1>2 DEF ResultIsRight
<1>5. QED
  BY <1>3, <1>4 DEF SearchIsRight

LEMMA ErrorIsRight ==
    ASSUME NEW t \in Searches
    PROVE  SearchIsRight(Failed(t, "error"))
<1>1. Failed(t, "error").pc = "error"
  BY DEF Failed, Searches
<1>2. QED
  BY <1>1 DEF SearchIsRight, ResultIsRight

(* One step of a search keeps it within its states and on track. *)
LEMMA TreeStepHolds ==
    ASSUME TreeAssumption, NEW t \in Searches, t.pc = "search", HoldsItsLeaf(t),
           NEW u \in TreeStep(t)
    PROVE  u \in Searches /\ HoldsItsLeaf(u) /\ u.want = t.want
<1> DEFINE here == [t EXCEPT !.path_bno[t.level] = t.bno]
           i    == StopIn(t.bno, t.want)
<1>1. u = Failed(t, "error") \/ u = SearchStep(t)
  BY DEF TreeStep
<1>2. \A s \in Searches : \A why \in {"none", "error"} :
         Failed(s, why) \in Searches /\ HoldsItsLeaf(Failed(s, why))
         /\ Failed(s, why).want = s.want
  <2>1. \A s \in Searches : \A why \in {"none", "error"} : Failed(s, why).want = s.want
    BY DEF Failed, Searches
  <2>2. QED
    BY <2>1, FailedHolds, TreeAssumption
<1>3. /\ here \in Searches /\ here.pc = "search" /\ here.bno = t.bno
      /\ here.want = t.want /\ here.level = t.level
  BY StepOfSearch, TreeAssumption
<1>4. here.held = 0
  BY DEF HoldsItsLeaf, Searches
<1>5. /\ t.bno \in DOMAIN Nodes /\ t.level \in Levels /\ t.want \in Key
  BY DEF Searches
<1>6. \/ SearchStep(t) = Failed(t, "error")
      \/ /\ Nodes[t.bno].level = t.level /\ t.level = Leaf
         /\ SearchStep(t) = IF i = 0 THEN Failed(here, "none") ELSE Settle(here, i - 1)
      \/ /\ Nodes[t.bno].level = t.level /\ t.level # Leaf
         /\ SearchStep(t) = Descended(here)
  BY StepOfSearch, TreeAssumption
<1> HIDE DEF here, i
<1>7. CASE SearchStep(t) = Failed(t, "error")
  BY <1>1, <1>2, <1>7
<1>8. CASE /\ Nodes[t.bno].level = t.level /\ t.level = Leaf
           /\ SearchStep(t) = IF i = 0 THEN Failed(here, "none") ELSE Settle(here, i - 1)
  <2>1. CASE i = 0
    BY <1>1, <1>2, <1>3, <1>8, <2>1
  <2>2. CASE i # 0
    <3>1. i \in 0 .. Len(Nodes[t.bno].items) /\ Len(Nodes[t.bno].items) \in Nat
      BY <1>5, <1>8, StopsInNode, TreeAssumption DEF i
    <3>2. DOMAIN Nodes[t.bno].items = 1 .. Len(Nodes[t.bno].items)
      BY <1>5, <1>8, TreeAssumption DEF TreeAssumption, IsNode
    <3>3. i - 1 \in Nat /\ (i - 1) + 1 = i /\ i \in DOMAIN Nodes[t.bno].items
      BY <2>2, <3>1, <3>2
    <3>4. Settle(here, i - 1) \in Searches /\ HoldsItsLeaf(Settle(here, i - 1))
      BY <1>3, <1>8, <3>3, SettleHolds, TreeAssumption
    <3>5. Settle(here, i - 1).want = here.want
      BY <1>3 DEF Settle, Failed, Searches
    <3>6. QED
      BY <1>1, <1>2, <1>3, <1>8, <2>2, <3>4, <3>5
  <2>3. QED
    BY <2>1, <2>2
<1>9. CASE /\ Nodes[t.bno].level = t.level /\ t.level # Leaf
           /\ SearchStep(t) = Descended(here)
  <2>1. SearchStep(t) \in Searches /\ HoldsItsLeaf(SearchStep(t))
        /\ SearchStep(t).want = here.want
    <3>1. Nodes[here.bno].level = here.level /\ here.level # Leaf
      BY <1>3, <1>9
    <3>2. /\ Descended(here) \in Searches /\ HoldsItsLeaf(Descended(here))
          /\ Descended(here).want = here.want
      BY ONLY <1>3, <1>4, <3>1, DescendHolds, TreeAssumption
    <3>3. QED
      BY <1>9, <3>2
  <2>2. QED
    BY <1>1, <1>2, <1>3, <2>1
<1>10. QED
  BY <1>6, <1>7, <1>8, <1>9

LEMMA TreeStepIsRight ==
    ASSUME TreeAssumption, SearchTreeAssumption, NEW t \in Searches, t.pc = "search",
           HoldsItsLeaf(t), SearchIsRight(t), NEW u \in TreeStep(t)
    PROVE  SearchIsRight(u)
<1> DEFINE here == [t EXCEPT !.path_bno[t.level] = t.bno]
           i    == StopIn(t.bno, t.want)
<1>1. u = Failed(t, "error") \/ u = SearchStep(t)
  BY DEF TreeStep
<1>2. OnTrack(t)
  BY DEF SearchIsRight
<1>3. /\ here \in Searches /\ here.pc = "search" /\ here.bno = t.bno
      /\ here.want = t.want /\ here.level = t.level
  BY StepOfSearch, TreeAssumption
<1>4. here.held = 0
  BY DEF HoldsItsLeaf, Searches
<1>5. /\ t.bno \in DOMAIN Nodes /\ t.level \in Levels /\ t.want \in Key
  BY DEF Searches
<1>6. \/ SearchStep(t) = Failed(t, "error")
      \/ /\ Nodes[t.bno].level = t.level /\ t.level = Leaf
         /\ SearchStep(t) = IF i = 0 THEN Failed(here, "none") ELSE Settle(here, i - 1)
      \/ /\ Nodes[t.bno].level = t.level /\ t.level # Leaf
         /\ SearchStep(t) = Descended(here)
  BY StepOfSearch, TreeAssumption
<1> HIDE DEF here
<1>7. CASE u = Failed(t, "error")
  BY <1>7, ErrorIsRight
<1>8. ASSUME Nodes[t.bno].level = t.level, t.level = Leaf,
             u = IF i = 0 THEN Failed(here, "none") ELSE Settle(here, i - 1)
      PROVE  SearchIsRight(u)
  <2>1. \A x \in AllItems : ~FirstGreater(x.key, t.want) =>
            i # 0 /\ ~FirstGreater(x.key, Nodes[t.bno].items[i].key)
    BY <1>2, <1>5, <1>8, LeafOnTrack, TreeAssumption, SearchTreeAssumption DEF OnTrack
  <2> HIDE DEF i
  <2>2. CASE i = 0
    <3>1. u = Failed(here, "none")
      BY <1>8, <2>2
    <3>2. u.pc = "none" /\ u.want = t.want /\ u.next = FALSE
      BY <1>3, <3>1 DEF Failed, Searches
    <3>3. \A x \in ObjectItems(t.want) : ~(x.key[3] <= t.want[3])
      <4>1. SUFFICES ASSUME NEW x \in ObjectItems(t.want), x.key[3] <= t.want[3]
                     PROVE  FALSE
        OBVIOUS
      <4>2. x \in AllItems /\ SameObject(x.key, t.want)
        BY DEF ObjectItems, SameObject
      <4>3. x.key \in Key
        BY <1>5, <4>2, ItemsHaveKeys, TreeAssumption
      <4>4. ~FirstGreater(x.key, t.want)
        BY <1>5, <4>1, <4>2, <4>3 DEF FirstGreater, SameObject, Key
      <4>5. QED
        BY <2>1, <2>2, <4>2, <4>4
    <3> HIDE DEF here
    <3>4. QED
      BY <3>2, <3>3 DEF ResultIsRight, SearchIsRight
  <2>3. CASE i # 0
    <3>1. u = Settle(here, i - 1)
      BY <1>8, <2>3
    <3>2. /\ i \in 0 .. Len(Nodes[t.bno].items) /\ Len(Nodes[t.bno].items) \in Nat
          /\ \A j \in 1 .. i : ~FirstGreater(KeysOf(t.bno)[j], t.want)
      BY <1>5, <1>8, StopsInNode, TreeAssumption DEF i
    <3>3. DOMAIN Nodes[t.bno].items = 1 .. Len(Nodes[t.bno].items)
      BY <1>5, <1>8, TreeAssumption DEF TreeAssumption, IsNode
    <3>4. i \in DOMAIN Nodes[t.bno].items /\ i \in 1 .. i
      BY <2>3, <3>2, <3>3
    <3>5. KeysOf(t.bno)[i] = Nodes[t.bno].items[i].key
      BY <1>8, <3>4 DEF KeysOf
    <3>6. ~FirstGreater(Nodes[t.bno].items[i].key, t.want)
      BY <3>2, <3>4, <3>5
    <3>7. ResultIsRight(u)
      <4>1. /\ Nodes[here.bno].level = Leaf /\ i \in DOMAIN Nodes[here.bno].items
            /\ ~FirstGreater(Nodes[here.bno].items[i].key, here.want)
            /\ \A x \in AllItems : ~FirstGreater(x.key, here.want) =>
                   ~FirstGreater(x.key, Nodes[here.bno].items[i].key)
        BY <1>3, <1>8, <2>1, <3>4, <3>6
      <4>2. QED
        BY ONLY <1>3, <3>1, <4>1, SettleIsRight, TreeAssumption
    <3>8. u.pc # "search"
      BY <1>3, <3>1 DEF Settle, Failed, Searches
    <3>9. QED
      BY <3>7, <3>8 DEF SearchIsRight
  <2>4. QED
    BY <2>2, <2>3
<1>9. ASSUME Nodes[t.bno].level = t.level, t.level # Leaf,
             u = Descended(here)
      PROVE  SearchIsRight(u)
  <2>1. /\ u.pc = "search" /\ u.want = t.want /\ u.bno = Nodes[t.bno].child[i + 1]
        /\ i + 1 \in DOMAIN Nodes[t.bno].child
    <3>1. Nodes[here.bno].level = here.level /\ here.level # Leaf
      BY <1>3, <1>9
    <3> DEFINE d == Descended(here)
               k == StopIn(here.bno, here.want)
    <3>2. /\ d.pc = "search" /\ d.want = here.want /\ d.bno = Nodes[here.bno].child[k + 1]
          /\ k + 1 \in DOMAIN Nodes[here.bno].child
      BY ONLY <1>3, <1>4, <3>1, DescendHolds, TreeAssumption
    <3>3. QED
      BY <1>3, <1>9, <3>2
  <2>2. ASSUME NEW x \in AllItems, ~FirstGreater(x.key, t.want)
        PROVE  InReach(Nodes[t.bno].child[i + 1], t.want, x)
    <3>1. InReach(t.bno, t.want, x)
      BY <1>2, <2>2 DEF OnTrack
    <3>2. QED
      BY <1>5, <1>9, <2>1, <2>2, <3>1, ChildOnTrack, TreeAssumption, SearchTreeAssumption
  <2> HIDE DEF i
  <2>3. OnTrack(u)
    BY <2>1, <2>2 DEF OnTrack
  <2>4. QED
    BY <2>1, <2>3 DEF SearchIsRight, ResultIsRight
<1>10. QED
  BY <1>1, <1>6, <1>7, <1>8, <1>9

------------------------------------------------------------------------------
(* The item after an item.                                                    *)

(* A node's items in parts: below each of its pointers, or one by one; the    *)
(* parts right of number i, counted from zero, and those right of the path    *)
(* of a walk, from a level on upwards.                                        *)
Width(b)      == IF Nodes[b].level = Leaf THEN Len(Nodes[b].items) ELSE Len(Nodes[b].child)
Part(b, j)    == IF Nodes[b].level = Leaf THEN {Nodes[b].items[j]}
                 ELSE ItemsUnder(Nodes[b].child[j])
RightAt(b, i) == UNION {Part(b, j) : j \in i + 2 .. Width(b)}
RightOf(t, l) ==
    UNION {RightAt(t.path_bno[m], t.path_index[m]) : m \in l .. TreeHeight - 1}

Precede(S, T) == \A x \in S, y \in T : FirstGreater(y.key, x.key)

(* A walk's path leads through node path_bno[m], and right of the path there  *)
(* is nothing that belongs before what is below that node.                    *)
PathAt(t, m) ==
    LET b == t.path_bno[m]
    IN  /\ b \in DOMAIN Nodes /\ Nodes[b].level = m
        /\ t.path_index[m] \in Nat /\ t.path_index[m] < Width(b)
        /\ Precede(ItemsUnder(b), RightOf(t, m + 1))
PathFrom(t, l) == \A m \in l .. TreeHeight - 1 : PathAt(t, m)

LEMMA PartsOfNode ==
    ASSUME TreeAssumption, SearchTreeAssumption, NEW b \in DOMAIN Nodes,
           Nodes[b].level \in Levels
    PROVE  /\ Width(b) \in Nat \ {0}
           /\ ItemsUnder(b) = UNION {Part(b, j) : j \in 1 .. Width(b)}
           /\ Nodes[b].level = Leaf => DOMAIN Nodes[b].items = 1 .. Width(b)
           /\ Nodes[b].level # Leaf => \A j \in 1 .. Width(b) : Nodes[b].child[j] \in DOMAIN Nodes
<1>1. IsNode(Nodes[b])
  BY TreeAssumption DEF TreeAssumption
<1>2. CASE Nodes[b].level = Leaf
  <2>1. /\ Width(b) \in Nat \ {0} /\ DOMAIN Nodes[b].items = 1 .. Width(b)
    BY <1>1, <1>2 DEF IsNode, Width
  <2>2. ItemsUnder(b) = {Nodes[b].items[i] : i \in DOMAIN Nodes[b].items}
    BY <1>2, UnderLeaf, TreeAssumption
  <2>3. UNION {Part(b, j) : j \in 1 .. Width(b)} = {Nodes[b].items[i] : i \in 1 .. Width(b)}
    BY <1>2 DEF Part
  <2>4. QED
    BY <1>2, <2>1, <2>2, <2>3
<1>3. CASE Nodes[b].level # Leaf
  <2>1. Nodes[b].level > Leaf
    BY <1>3 DEF Levels, Leaf
  <2>2. /\ Nodes[b].child \in Seq(DOMAIN Nodes) /\ Nodes[b].keys \in Seq(Key)
        /\ Len(Nodes[b].child) = Len(Nodes[b].keys) + 1
    BY <1>1, <2>1 DEF IsNode
  <2>3. /\ Len(Nodes[b].keys) \in Nat /\ DOMAIN Nodes[b].child = 1 .. Len(Nodes[b].child)
        /\ \A j \in 1 .. Len(Nodes[b].child) : Nodes[b].child[j] \in DOMAIN Nodes
    BY ONLY <2>2, LenProperties, ElementOfSeq
  <2>4. Width(b) = Len(Nodes[b].child)
    BY <1>3 DEF Width
  <2>5. ASSUME NEW it \in ItemsUnder(b) PROVE \E j \in 1 .. Width(b) : it \in Part(b, j)
    <3>1. PICK d \in Under(b) : it \in ItemsOf(d)
      BY DEF ItemsUnder
    <3>2. d # b
      BY <3>1, <1>3 DEF ItemsOf
    <3>3. PICK e \in Children(b) : d \in Under(e)
      BY <3>1, <3>2, UnderSplits, TreeAssumption
    <3>4. PICK j \in DOMAIN Nodes[b].child : e = Nodes[b].child[j]
      BY <2>1, <3>3 DEF Children
    <3>5. it \in Part(b, j)
      BY <3>1, <3>3, <3>4, <1>3 DEF ItemsUnder, Part
    <3>6. QED
      BY <2>3, <2>4, <3>4, <3>5
  <2>6. ASSUME NEW j \in 1 .. Width(b) PROVE Part(b, j) \subseteq ItemsUnder(b)
    <3>1. Nodes[b].child[j] \in Children(b)
      BY <2>1, <2>3, <2>4 DEF Children
    <3>2. Under(Nodes[b].child[j]) \subseteq Under(b)
      BY <3>1, UnderChild, TreeAssumption
    <3>3. QED
      BY <3>2, <1>3 DEF ItemsUnder, Part
  <2>7. ItemsUnder(b) = UNION {Part(b, j) : j \in 1 .. Width(b)}
    BY <2>5, <2>6
  <2>8. Width(b) \in Nat \ {0}
    BY <2>2, <2>3, <2>4
  <2>9. QED
    BY <1>3, <2>3, <2>4, <2>7, <2>8
<1>4. QED
  BY <1>2, <1>3

(* The parts of a node follow each other. *)
LEMMA PartsAscend ==
    ASSUME TreeAssumption, SearchTreeAssumption, NEW b \in DOMAIN Nodes,
           Nodes[b].level \in Levels, NEW j \in 1 .. Width(b), NEW k \in 1 .. Width(b), j < k
    PROVE  Precede(Part(b, j), Part(b, k))
<1>1. IsNode(Nodes[b])
  BY TreeAssumption DEF TreeAssumption
<1>2. Width(b) \in Nat
  BY PartsOfNode, TreeAssumption, SearchTreeAssumption
<1>3. CASE Nodes[b].level = Leaf
  <2>1. DOMAIN Nodes[b].items = 1 .. Width(b)
    BY <1>3, PartsOfNode, TreeAssumption, SearchTreeAssumption
  <2>2. FirstGreater(Nodes[b].items[k].key, Nodes[b].items[j].key)
    BY <1>3, <2>1, SearchTreeAssumption DEF SearchTreeAssumption, Ascending
  <2>3. QED
    BY <1>3, <2>2 DEF Precede, Part
<1>4. CASE Nodes[b].level # Leaf
  <2> DEFINE keys == Nodes[b].keys
             n == Len(keys)
  <2>1. Nodes[b].level > Leaf
    BY <1>4 DEF Levels, Leaf
  <2>2. /\ Nodes[b].child \in Seq(DOMAIN Nodes) /\ keys \in Seq(Key)
        /\ Len(Nodes[b].child) = n + 1
    BY <1>1, <2>1 DEF IsNode
  <2>3. /\ n \in Nat /\ DOMAIN keys = 1 .. n /\ \A i \in 1 .. n : keys[i] \in Key
        /\ DOMAIN Nodes[b].child = 1 .. n + 1
    <3>1. /\ DOMAIN Nodes[b].child = 1 .. Len(Nodes[b].child)
      BY ONLY <2>2, LenProperties
    <3>2. n \in Nat /\ DOMAIN keys = 1 .. n /\ \A i \in 1 .. n : keys[i] \in Key
      BY ONLY <2>2, LenProperties, ElementOfSeq
    <3>3. QED
      BY <2>2, <3>1, <3>2
  <2>4. Ascending(keys) /\ Divides(Nodes[b])
    BY <2>1, SearchTreeAssumption DEF SearchTreeAssumption
  <2>5. Width(b) = n + 1
    BY <1>4, <2>2 DEF Width
  <2>6. SUFFICES ASSUME NEW x \in Part(b, j), NEW y \in Part(b, k)
                 PROVE  FirstGreater(y.key, x.key)
    BY DEF Precede
  <2>7. x \in ItemsUnder(b) /\ y \in ItemsUnder(b)
    BY PartsOfNode, TreeAssumption, SearchTreeAssumption
  <2>8. x.key \in Key /\ y.key \in Key
    BY <2>7, ItemsHaveKeys, TreeAssumption
  <2>9. x \in ItemsUnder(Nodes[b].child[j]) /\ y \in ItemsUnder(Nodes[b].child[k])
    BY <1>4 DEF Part
  <2>10. j \in 1 .. n /\ k - 1 \in 1 .. n /\ j <= k - 1 /\ k > 1
    BY <2>3, <2>5
  <2>11. FirstGreater(keys[j], x.key) /\ ~FirstGreater(keys[k - 1], y.key)
    BY <2>3, <2>4, <2>5, <2>9, <2>10 DEF Divides
  <2>12. j = k - 1 \/ FirstGreater(keys[k - 1], keys[j])
    BY <2>3, <2>4, <2>10 DEF Ascending
  <2>13. keys[j] \in Key /\ keys[k - 1] \in Key
    BY <2>3, <2>10
  <2> HIDE DEF keys
  <2>14. FirstGreater(keys[k - 1], x.key)
    <3>1. CASE j = k - 1
      BY <2>11, <3>1
    <3>2. CASE FirstGreater(keys[k - 1], keys[j])
      BY ONLY <2>8, <2>11, <2>13, <3>2, KeyOrder
    <3>3. QED
      BY <2>12, <3>1, <3>2
  <2>15. QED
    BY ONLY <2>8, <2>11, <2>13, <2>14, KeyOrder
<1>5. QED
  BY <1>3, <1>4

LEMMA PathFromNext ==
    ASSUME TreeAssumption, NEW t, NEW l \in Levels
    PROVE  /\ PathFrom(t, l) <=> PathAt(t, l) /\ PathFrom(t, l + 1)
           /\ RightOf(t, l) = RightAt(t.path_bno[l], t.path_index[l]) \union RightOf(t, l + 1)
<1>1. l .. TreeHeight - 1 = {l} \union (l + 1 .. TreeHeight - 1)
  BY TreeAssumption DEF TreeAssumption, Levels, Leaf
<1>2. QED
  BY <1>1 DEF PathFrom, RightOf

LEMMA RightOfTop ==
    ASSUME TreeAssumption, NEW t
    PROVE  RightOf(t, TreeHeight) = {} /\ PathFrom(t, TreeHeight)
<1>1. TreeHeight .. TreeHeight - 1 = {}
  BY TreeAssumption DEF TreeAssumption
<1>2. QED
  BY <1>1 DEF RightOf, PathFrom

(* What is right of a path are items. *)
LEMMA RightOfItems ==
    ASSUME TreeAssumption, SearchTreeAssumption, NEW t, NEW l \in Nat \ {0}, PathFrom(t, l)
    PROVE  RightOf(t, l) \subseteq AllItems
<1>1. ASSUME NEW m \in l .. TreeHeight - 1
      PROVE  RightAt(t.path_bno[m], t.path_index[m]) \subseteq AllItems
  <2> DEFINE b == t.path_bno[m]
             i == t.path_index[m]
  <2>1. b \in DOMAIN Nodes /\ Nodes[b].level = m /\ i \in Nat
    BY DEF PathFrom, PathAt
  <2>2. m \in Levels
    BY TreeAssumption DEF TreeAssumption, Levels, Leaf
  <2>3. Width(b) \in Nat /\ ItemsUnder(b) = UNION {Part(b, j) : j \in 1 .. Width(b)}
    BY <2>1, <2>2, PartsOfNode, TreeAssumption, SearchTreeAssumption
  <2> HIDE DEF b, i
  <2>4. i + 2 .. Width(b) \subseteq 1 .. Width(b)
    BY <2>1, <2>3
  <2>5. RightAt(b, i) \subseteq ItemsUnder(b)
    BY <2>3, <2>4 DEF RightAt
  <2>6. ItemsUnder(b) \subseteq AllItems
    BY <2>1, ItemsHaveKeys, TreeAssumption
  <2>7. QED
    BY <2>5, <2>6 DEF b, i
<1>2. QED
  BY <1>1 DEF RightOf

(* Walks with the same path from a level on. *)
Agree(t, u, l) == \A m \in l .. TreeHeight - 1 : /\ u.path_bno[m] = t.path_bno[m]
                                                 /\ u.path_index[m] = t.path_index[m]

LEMMA AgreeRight ==
    ASSUME TreeAssumption, NEW t, NEW u, NEW l \in Nat, Agree(t, u, l)
    PROVE  /\ RightOf(u, l) = RightOf(t, l)
           /\ RightOf(u, l + 1) = RightOf(t, l + 1)
           /\ PathFrom(t, l) => PathFrom(u, l)
<1>1. ASSUME NEW k \in Nat, k >= l PROVE RightOf(u, k) = RightOf(t, k)
  <2>1. k .. TreeHeight - 1 \subseteq l .. TreeHeight - 1
    BY TreeAssumption, <1>1 DEF TreeAssumption
  <2>2. \A m \in k .. TreeHeight - 1 : /\ u.path_bno[m] = t.path_bno[m]
                                       /\ u.path_index[m] = t.path_index[m]
    BY <2>1 DEF Agree
  <2>3. {RightAt(u.path_bno[m], u.path_index[m]) : m \in k .. TreeHeight - 1}
          = {RightAt(t.path_bno[m], t.path_index[m]) : m \in k .. TreeHeight - 1}
    BY <2>2
  <2>4. QED
    BY <2>3 DEF RightOf
<1>2. ASSUME PathFrom(t, l), NEW m \in l .. TreeHeight - 1 PROVE PathAt(u, m)
  <2>1. PathAt(t, m) /\ u.path_bno[m] = t.path_bno[m] /\ u.path_index[m] = t.path_index[m]
    BY <1>2 DEF PathFrom, Agree
  <2>2. RightOf(u, m + 1) = RightOf(t, m + 1)
    <3>1. m + 1 \in Nat /\ m + 1 >= l
      BY TreeAssumption DEF TreeAssumption
    <3>2. QED
      BY <1>1, <3>1
  <2>3. QED
    BY <2>1, <2>2 DEF PathAt
<1>3. QED
  BY <1>1, <1>2 DEF PathFrom

(* What is below the pointer a path takes precedes what is right of it. *)
LEMMA PartPrecedes ==
    ASSUME TreeAssumption, SearchTreeAssumption, NEW t, NEW l \in Levels, PathFrom(t, l)
    PROVE  Precede(Part(t.path_bno[l], t.path_index[l] + 1), RightOf(t, l))
<1> DEFINE b == t.path_bno[l]
           i == t.path_index[l]
<1>1. /\ b \in DOMAIN Nodes /\ Nodes[b].level = l /\ i \in Nat /\ i < Width(b)
      /\ Precede(ItemsUnder(b), RightOf(t, l + 1))
  <2>1. PathAt(t, l)
    BY PathFromNext, TreeAssumption
  <2>2. QED
    BY <2>1 DEF PathAt
<1>2. Width(b) \in Nat /\ ItemsUnder(b) = UNION {Part(b, j) : j \in 1 .. Width(b)}
  BY <1>1, PartsOfNode, TreeAssumption, SearchTreeAssumption
<1>3. RightOf(t, l) = RightAt(b, i) \union RightOf(t, l + 1)
  BY PathFromNext, TreeAssumption
<1>4. i + 1 \in 1 .. Width(b)
  BY <1>1, <1>2
<1> HIDE DEF b, i
<1>5. Precede(Part(b, i + 1), RightOf(t, l + 1))
  BY <1>1, <1>2, <1>4 DEF Precede
<1>6. ASSUME NEW k \in i + 2 .. Width(b) PROVE Precede(Part(b, i + 1), Part(b, k))
  <2>1. k \in 1 .. Width(b) /\ i + 1 < k
    BY <1>1, <1>2
  <2>2. QED
    BY <1>1, <1>4, <2>1, PartsAscend, TreeAssumption, SearchTreeAssumption
<1>7. Precede(Part(b, i + 1), RightAt(b, i))
  BY <1>6 DEF Precede, RightAt
<1>8. QED
  BY <1>3, <1>5, <1>7 DEF Precede, b, i

(* The states a walk through the tree can be in, and what each of them knows. *)
TreeWalks ==
    [pc : {"search", "up", "down", "found", "none", "error"}, next : BOOLEAN, want : Key,
     level : Levels, bno : DOMAIN Nodes, held : DOMAIN Nodes \union {0},
     path_bno : [Levels -> Nat], path_index : [Levels -> Nat]]

After(k) == {x \in AllItems : FirstGreater(x.key, k)}

(* Items are below S, right of the path, or before all of S. *)
Splits(t, S, l) ==
    /\ \A x \in AllItems : x \in S \/ x \in RightOf(t, l) \/ Precede({x}, S)
    /\ Precede(S, RightOf(t, l))

LeftmostBelow(t, l) == \A m \in Levels : m < l => t.path_index[m] = 0

Searching(t) ==
    /\ t.next = FALSE /\ OnTrack(t)
    /\ PathFrom(t, t.level + 1) /\ Splits(t, ItemsUnder(t.bno), t.level + 1)

GoingUp(t) ==
    /\ t.next = TRUE /\ t.bno = t.path_bno[t.level] /\ LeftmostBelow(t, t.level)
    /\ PathFrom(t, t.level) /\ After(t.want) = RightOf(t, t.level)

GoingDown(t) ==
    /\ t.next = TRUE /\ LeftmostBelow(t, t.level + 1)
    /\ PathFrom(t, t.level + 1)
    /\ Precede(ItemsUnder(t.bno), RightOf(t, t.level + 1))
    /\ After(t.want) = ItemsUnder(t.bno) \union RightOf(t, t.level + 1)

Arrived(t) ==
    /\ t.held = t.path_bno[Leaf] /\ PathFrom(t, Leaf)
    /\ After(AtItem(t).key) = RightOf(t, Leaf)

WalkHolds(t) ==
    /\ t \in TreeWalks /\ HoldsItsLeaf(t) /\ ResultIsRight(t)
    /\ t.pc = "search" => Searching(t)
    /\ t.pc = "up" => GoingUp(t)
    /\ t.pc = "down" => GoingDown(t)
    /\ t.pc = "found" => Arrived(t)

LEMMA WalkBegins ==
    ASSUME TreeAssumption, SearchTreeAssumption, NEW want \in Key
    PROVE  WalkHolds(Search(want)) /\ Search(want).want = want /\ Search(want).held = 0
<1> DEFINE t == Search(want)
<1>1. t \in Searches /\ HoldsItsLeaf(t) /\ SearchIsRight(t)
  BY SearchBegins, SearchStartsRight, TreeAssumption, SearchTreeAssumption
<1>2. /\ t.pc = "search" /\ t.bno = RootBlock /\ t.level = TreeHeight - 1 /\ t.next = FALSE
      /\ t.want = want /\ t.held = 0
  BY DEF Search
<1>3. TreeHeight - 1 + 1 = TreeHeight
  BY TreeAssumption DEF TreeAssumption
<1> HIDE DEF t
<1>4. RightOf(t, t.level + 1) = {} /\ PathFrom(t, t.level + 1)
  BY <1>2, <1>3, RightOfTop, TreeAssumption
<1>5. AllItems = ItemsUnder(t.bno)
  BY <1>2, SearchTreeAssumption DEF SearchTreeAssumption
<1>6. Splits(t, ItemsUnder(t.bno), t.level + 1)
  BY <1>4, <1>5 DEF Splits, Precede
<1>7. t \in TreeWalks
  BY <1>1 DEF Searches, TreeWalks
<1>8. QED
  BY <1>1, <1>2, <1>4, <1>6, <1>7 DEF WalkHolds, Searching, SearchIsRight, t

(* A walk that has failed, or come to the end of the tree. *)
LEMMA WalkIsOver ==
    ASSUME TreeAssumption, NEW t \in TreeWalks, NEW why \in {"none", "error"},
           why = "none" => t.next = TRUE /\ After(t.want) = {}
    PROVE  /\ WalkHolds(Failed(t, why)) /\ Failed(t, why).want = t.want
           /\ Failed(t, why).pc = why
<1> DEFINE u == Failed(t, why)
<1>1. /\ u \in TreeWalks /\ u.pc = why /\ u.held = 0 /\ u.want = t.want
      /\ u.next = t.next
  BY DEF Failed, TreeWalks
<1> HIDE DEF u
<1>2. HoldsItsLeaf(u)
  BY <1>1 DEF HoldsItsLeaf
<1>3. ASSUME why = "none", NEW x \in ObjectItems(t.want), x.key[3] > t.want[3]
      PROVE  FALSE
  <2>1. x \in AllItems /\ SameObject(x.key, t.want)
    BY DEF ObjectItems, SameObject
  <2>2. x \in After(t.want)
    BY <1>3, <2>1 DEF After, FirstGreater
  <2>3. QED
    BY <1>3, <2>2
<1>4. ResultIsRight(u)
  BY <1>1, <1>3 DEF ResultIsRight
<1>5. QED
  BY <1>1, <1>2, <1>4 DEF WalkHolds, u

(* The path of a walk that follows a pointer of a node on it. *)
LEMMA EnterSplits ==
    ASSUME TreeAssumption, SearchTreeAssumption, NEW t, NEW l \in Levels, PathFrom(t, l),
           Splits(t, ItemsUnder(t.path_bno[l]), l + 1)
    PROVE  Splits(t, Part(t.path_bno[l], t.path_index[l] + 1), l)
<1> DEFINE b == t.path_bno[l]
           i == t.path_index[l]
<1>1. /\ b \in DOMAIN Nodes /\ Nodes[b].level = l /\ i \in Nat /\ i < Width(b)
  <2>1. PathAt(t, l)
    BY PathFromNext, TreeAssumption
  <2>2. QED
    BY <2>1 DEF PathAt
<1>2. Width(b) \in Nat /\ ItemsUnder(b) = UNION {Part(b, j) : j \in 1 .. Width(b)}
  BY <1>1, PartsOfNode, TreeAssumption, SearchTreeAssumption
<1>3. RightOf(t, l) = RightAt(b, i) \union RightOf(t, l + 1)
  BY PathFromNext, TreeAssumption
<1>4. Precede(Part(b, i + 1), RightOf(t, l))
  BY PartPrecedes, TreeAssumption, SearchTreeAssumption
<1>5. i + 1 \in 1 .. Width(b)
  BY <1>1, <1>2
<1>6. ASSUME NEW x \in AllItems
      PROVE  x \in Part(b, i + 1) \/ x \in RightOf(t, l) \/ Precede({x}, Part(b, i + 1))
  <2>1. CASE x \in ItemsUnder(b)
    <3> HIDE DEF b, i
    <3>1. PICK j \in 1 .. Width(b) : x \in Part(b, j)
      BY <1>2, <2>1
    <3>2. j < i + 1 \/ j = i + 1 \/ j \in i + 2 .. Width(b)
      BY <1>1, <1>2
    <3>3. CASE j < i + 1
      <4>1. Precede(Part(b, j), Part(b, i + 1))
        BY <1>1, <1>5, <3>3, PartsAscend, TreeAssumption, SearchTreeAssumption
      <4>2. QED
        BY <3>1, <4>1 DEF Precede
    <3>4. CASE j \in i + 2 .. Width(b)
      <4>1. x \in RightAt(b, i)
        BY <3>1, <3>4 DEF RightAt
      <4>2. QED
        BY <1>3, <4>1
    <3>5. QED
      BY <3>1, <3>2, <3>3, <3>4
  <2>2. CASE x \in RightOf(t, l + 1)
    BY <1>3, <2>2
  <2>3. CASE Precede({x}, ItemsUnder(b))
    <3>1. Part(b, i + 1) \subseteq ItemsUnder(b)
      BY <1>2, <1>5
    <3>2. QED
      BY <2>3, <3>1 DEF Precede
  <2>4. QED
    BY <2>1, <2>2, <2>3 DEF Splits
<1>7. QED
  BY <1>4, <1>6 DEF Splits

(* The items after one that precedes what is right of it, and that whatever   *)
(* is neither of these precedes.                                              *)
LEMMA AfterItem ==
    ASSUME TreeAssumption, SearchTreeAssumption, NEW t, PathFrom(t, Leaf),
           NEW x \in AllItems, Splits(t, {x}, Leaf)
    PROVE  After(x.key) = RightOf(t, Leaf)
<1>1. \A y \in AllItems : y.key \in Key
  BY ItemsHaveKeys, TreeAssumption DEF TreeAssumption
<1>2. RightOf(t, Leaf) \subseteq AllItems
  BY RightOfItems, TreeAssumption, SearchTreeAssumption DEF Leaf
<1>3. ASSUME NEW y \in After(x.key) PROVE y \in RightOf(t, Leaf)
  <2>1. y \in AllItems /\ FirstGreater(y.key, x.key)
    BY DEF After
  <2>2. y = x \/ y \in RightOf(t, Leaf) \/ FirstGreater(x.key, y.key)
    BY <2>1 DEF Splits, Precede
  <2>3. x.key \in Key /\ y.key \in Key
    BY <1>1, <2>1
  <2>4. ~FirstGreater(x.key, x.key) /\ ~FirstGreater(x.key, y.key)
    BY ONLY <2>1, <2>3, KeyOrder
  <2>5. QED
    BY <2>1, <2>2, <2>4
<1>4. ASSUME NEW y \in RightOf(t, Leaf) PROVE y \in After(x.key)
  BY <1>2 DEF After, Splits, Precede
<1>5. QED
  BY <1>3, <1>4

(* The next item, when it is found and when the next one is of another        *)
(* object: x is the first one after want.                                     *)
LEMMA NextIsRight ==
    ASSUME NEW want \in Key, NEW x \in After(want), NEW R,
           \A y \in AllItems : y.key \in Key,
           After(want) = {x} \union R, Precede({x}, R)
    PROVE  LET fits == {it \in ObjectItems(want) : it.key[3] > want[3]}
           IN  /\ SameObject(x.key, want) =>
                     x \in fits /\ \A y \in fits : x.key[3] <= y.key[3]
               /\ ~SameObject(x.key, want) => fits = {}
<1> DEFINE fits == {it \in ObjectItems(want) : it.key[3] > want[3]}
<1>1. x \in AllItems /\ FirstGreater(x.key, want) /\ x.key \in Key
  BY DEF After
<1>2. \A y \in fits : y \in AllItems /\ SameObject(y.key, want) /\ y.key[3] > want[3]
  BY DEF ObjectItems, SameObject
<1>3. ASSUME NEW y \in fits PROVE SameObject(x.key, want) /\ x.key[3] <= y.key[3]
  <2>1. /\ y \in AllItems /\ SameObject(y.key, want) /\ y.key[3] > want[3] /\ y.key \in Key
    BY <1>2
  <2>2. y \in After(want)
    BY <2>1 DEF After, FirstGreater
  <2>3. y = x \/ FirstGreater(y.key, x.key)
    BY <2>2 DEF Precede
  <2>4. CASE y = x
    BY <2>1, <2>4 DEF Key
  <2>5. CASE FirstGreater(y.key, x.key)
    BY ONLY <1>1, <2>1, <2>5, want \in Key DEF FirstGreater, SameObject, Key
  <2>6. QED
    BY <2>3, <2>4, <2>5
<1>4. SameObject(x.key, want) => x \in fits
  <2>1. ASSUME SameObject(x.key, want) PROVE x.key[3] > want[3]
    BY ONLY <1>1, <2>1, want \in Key DEF FirstGreater, SameObject, Key
  <2>2. QED
    BY <1>1, <2>1 DEF ObjectItems, SameObject
<1> HIDE DEF fits
<1>5. QED
  BY <1>3, <1>4 DEF fits

(* Settling at item i of the leaf the path leads to. *)
LEMMA SettleArrives ==
    ASSUME TreeAssumption, SearchTreeAssumption, NEW t \in TreeWalks, t.next = TRUE,
           t.pc \in {"up", "down"},
           NEW i \in Nat, NEW s, s = [t EXCEPT !.path_index[Leaf] = i],
           s.path_bno[Leaf] = t.bno, PathFrom(s, Leaf),
           Part(t.bno, i + 1) \union RightOf(s, Leaf) = After(t.want)
    PROVE  WalkHolds(Settle(t, i)) /\ Settle(t, i).want = t.want
           /\ Settle(t, i).pc \in {"found", "none"}
<1> DEFINE x == Nodes[t.bno].items[i + 1]
           R == RightOf(s, Leaf)
           u == Settle(t, i)
<1>1. Leaf \in Levels /\ Leaf \in Nat \ {0}
  BY TreeAssumption DEF TreeAssumption, Levels, Leaf
<1>2. /\ s \in TreeWalks /\ s.want = t.want /\ s.bno = t.bno /\ s.next = TRUE
      /\ s.path_index[Leaf] = i /\ s.path_bno = t.path_bno /\ s.pc = t.pc
  BY <1>1 DEF TreeWalks
<1>3. PathAt(s, Leaf)
  BY <1>1, PathFromNext, TreeAssumption
<1>4. t.bno \in DOMAIN Nodes /\ Nodes[t.bno].level = Leaf /\ i < Width(t.bno)
  BY <1>2, <1>3 DEF PathAt
<1>5. /\ Width(t.bno) \in Nat /\ DOMAIN Nodes[t.bno].items = 1 .. Width(t.bno)
  BY <1>1, <1>4, PartsOfNode, TreeAssumption, SearchTreeAssumption
<1>6. i + 1 \in DOMAIN Nodes[t.bno].items
  BY <1>4, <1>5
<1>7. Part(t.bno, i + 1) = {x}
  BY <1>4 DEF Part
<1>8. x \in AllItems /\ \A y \in AllItems : y.key \in Key
  <2>1. \A y \in AllItems : y.key \in Key
    BY <1>4, ItemsHaveKeys, TreeAssumption
  <2>2. QED
    BY <1>4, <1>6, <2>1 DEF AllItems
<1>9. Precede({x}, R)
  <2>1. Precede(Part(s.path_bno[Leaf], s.path_index[Leaf] + 1), RightOf(s, Leaf))
    BY <1>1, PartPrecedes, TreeAssumption, SearchTreeAssumption
  <2>2. QED
    BY <1>2, <1>7, <2>1
<1>10. x \in After(t.want) /\ After(t.want) = {x} \union R /\ t.want \in Key
  BY <1>7 DEF TreeWalks
<1> HIDE DEF x
<1>11. R \subseteq AllItems
  BY <1>1, RightOfItems, TreeAssumption, SearchTreeAssumption
<1>12. After(x.key) = R
  <2>1. ASSUME NEW y \in After(x.key) PROVE y \in R
    <3>1. y \in AllItems /\ FirstGreater(y.key, x.key) /\ FirstGreater(x.key, t.want)
      BY <1>10 DEF After
    <3>2. y.key \in Key /\ x.key \in Key
      BY <1>8, <3>1
    <3>3. FirstGreater(y.key, t.want)
      BY ONLY <1>10, <3>1, <3>2, KeyOrder
    <3>4. ~FirstGreater(x.key, x.key)
      BY ONLY <3>2, KeyOrder
    <3>5. y \in After(t.want) /\ y # x
      BY <3>1, <3>3, <3>4 DEF After
    <3> HIDE DEF R
    <3>6. QED
      BY <1>10, <3>5
  <2>2. ASSUME NEW y \in R PROVE y \in After(x.key)
    BY <1>9, <1>11 DEF After, Precede
  <2>3. QED
    BY <2>1, <2>2
<1>13. LET fits == {it \in ObjectItems(t.want) : it.key[3] > t.want[3]}
       IN  /\ SameObject(x.key, t.want) =>
                 x \in fits /\ \A y \in fits : x.key[3] <= y.key[3]
           /\ ~SameObject(x.key, t.want) => fits = {}
  <2> HIDE DEF R
  <2>1. QED
    BY <1>8, <1>9, <1>10, NextIsRight
<1>14. CASE SameObject(x.key, t.want)
  <2> DEFINE g == [s EXCEPT !.pc = "found", !.held = t.bno]
  <2>1. u = g
    BY <1>14 DEF Settle, x
  <2>2. /\ g \in TreeWalks /\ g.pc = "found" /\ g.held = t.bno /\ g.want = t.want
        /\ g.next = TRUE /\ g.path_index = s.path_index /\ g.path_bno = s.path_bno
    BY <1>2, <1>4 DEF TreeWalks
  <2>3. Agree(s, g, Leaf)
    BY <2>2 DEF Agree
  <2> HIDE DEF g, R, u
  <2>4. RightOf(g, Leaf) = R /\ PathFrom(g, Leaf)
    BY <1>1, <2>3, AgreeRight, TreeAssumption DEF R
  <2>5. AtItem(g) = x
    BY <1>2, <2>2 DEF AtItem, x
  <2>6. Arrived(g)
    BY <2>2, <2>4, <2>5, <1>2, <1>12 DEF Arrived
  <2>7. t.bno # 0
    BY <1>4, TreeAssumption DEF TreeAssumption
  <2>8. HoldsItsLeaf(g)
    BY <1>2, <1>4, <1>6, <2>2, <2>7 DEF HoldsItsLeaf
  <2>9. ResultIsRight(g)
    BY <1>13, <1>14, <2>2, <2>5 DEF ResultIsRight
  <2>10. QED
    BY <2>1, <2>2, <2>6, <2>8, <2>9 DEF WalkHolds, u
<1>15. CASE ~SameObject(x.key, t.want)
  <2> DEFINE g == Failed(s, "none")
  <2>1. u = g
    BY <1>15 DEF Settle, x
  <2>2. /\ g \in TreeWalks /\ g.pc = "none" /\ g.held = 0 /\ g.want = t.want
        /\ g.next = TRUE
    BY <1>2 DEF TreeWalks, Failed
  <2> HIDE DEF g, R, u
  <2>3. HoldsItsLeaf(g)
    BY <2>2 DEF HoldsItsLeaf
  <2>4. ResultIsRight(g)
    BY <1>13, <1>15, <2>2 DEF ResultIsRight
  <2>5. QED
    BY <2>1, <2>2, <2>3, <2>4 DEF WalkHolds, u
<1>16. QED
  BY <1>14, <1>15

(* The walk follows its path from a node above the leaves. *)
LEMMA FollowGoesDown ==
    ASSUME TreeAssumption, SearchTreeAssumption, NEW t \in TreeWalks, t.next = TRUE,
           t.held = 0, t.level # Leaf, t.bno = t.path_bno[t.level],
           LeftmostBelow(t, t.level), PathFrom(t, t.level),
           After(t.want) = Part(t.bno, t.path_index[t.level] + 1) \union RightOf(t, t.level)
    PROVE  WalkHolds(Follow(t)) /\ Follow(t).want = t.want /\ Follow(t).pc = "down"
<1> DEFINE l == t.level
           c == Nodes[t.bno].child[t.path_index[l] + 1]
           u == Follow(t)
<1>1. l \in Levels /\ l \in Nat /\ l - 1 \in Levels /\ l - 1 + 1 = l
  BY TreeAssumption DEF TreeWalks, Levels, Leaf, TreeAssumption
<1>2. PathAt(t, l)
  BY <1>1, PathFromNext, TreeAssumption
<1>3. /\ t.bno \in DOMAIN Nodes /\ Nodes[t.bno].level = l /\ t.path_index[l] \in Nat
      /\ t.path_index[l] < Width(t.bno)
  BY <1>2 DEF PathAt
<1>4. c \in DOMAIN Nodes
  <2>1. /\ Width(t.bno) \in Nat
        /\ \A j \in 1 .. Width(t.bno) : Nodes[t.bno].child[j] \in DOMAIN Nodes
    BY <1>1, <1>3, PartsOfNode, TreeAssumption, SearchTreeAssumption
  <2>2. t.path_index[l] + 1 \in 1 .. Width(t.bno)
    BY <1>3, <2>1
  <2>3. QED
    BY <2>1, <2>2
<1>5. Part(t.bno, t.path_index[l] + 1) = ItemsUnder(c)
  BY <1>3 DEF Part
<1>6. Precede(ItemsUnder(c), RightOf(t, l))
  <2>1. Precede(Part(t.path_bno[l], t.path_index[l] + 1), RightOf(t, l))
    BY <1>1, PartPrecedes, TreeAssumption, SearchTreeAssumption
  <2>2. QED
    BY <1>5, <2>1
<1>7. u = [t EXCEPT !.pc = "down", !.level = l - 1, !.bno = c]
  BY DEF Follow
<1> HIDE DEF l, c
<1>8. /\ u \in TreeWalks /\ u.pc = "down" /\ u.level = l - 1 /\ u.bno = c /\ u.next = TRUE
      /\ u.want = t.want /\ u.held = 0 /\ u.path_bno = t.path_bno
      /\ u.path_index = t.path_index
  BY <1>1, <1>4, <1>7 DEF TreeWalks
<1> HIDE DEF u
<1>9. Agree(t, u, l)
  BY <1>8 DEF Agree
<1>10. RightOf(u, u.level + 1) = RightOf(t, l) /\ PathFrom(u, u.level + 1)
  <2>1. PathFrom(t, l)
    BY DEF l
  <2>2. RightOf(u, l) = RightOf(t, l) /\ PathFrom(u, l)
    BY <1>1, <1>9, <2>1, AgreeRight, TreeAssumption
  <2>3. QED
    BY <1>1, <1>8, <2>2
<1>11. LeftmostBelow(u, u.level + 1)
  BY <1>1, <1>8 DEF LeftmostBelow, l
<1>12. After(u.want) = ItemsUnder(u.bno) \union RightOf(u, u.level + 1)
  <2>1. After(t.want) = ItemsUnder(c) \union RightOf(t, l)
    BY <1>5 DEF l
  <2>2. QED
    BY <1>8, <1>10, <2>1
<1>13. GoingDown(u)
  BY <1>6, <1>8, <1>10, <1>11, <1>12 DEF GoingDown
<1>14. HoldsItsLeaf(u) /\ ResultIsRight(u)
  BY <1>8 DEF HoldsItsLeaf, ResultIsRight
<1>15. QED
  BY <1>8, <1>13, <1>14 DEF WalkHolds, u

(* A path is continued at node b, where it takes pointer or item number i. *)
LEMMA PathExtends ==
    ASSUME TreeAssumption, NEW t, NEW s, NEW l \in Levels, NEW b \in DOMAIN Nodes,
           Nodes[b].level = l, PathFrom(t, l + 1), Precede(ItemsUnder(b), RightOf(t, l + 1)),
           Agree(t, s, l + 1), s.path_bno[l] = b, s.path_index[l] \in Nat,
           s.path_index[l] < Width(b)
    PROVE  PathFrom(s, l) /\ RightOf(s, l + 1) = RightOf(t, l + 1)
<1>1. l + 1 \in Nat
  BY TreeAssumption DEF Levels, Leaf, TreeAssumption
<1>2. PathFrom(s, l + 1) /\ RightOf(s, l + 1) = RightOf(t, l + 1)
  BY <1>1, AgreeRight, TreeAssumption
<1>3. PathAt(s, l)
  BY <1>2 DEF PathAt
<1>4. QED
  BY <1>2, <1>3, PathFromNext, TreeAssumption

(* The parts of a node right of a number are the next one and those right of  *)
(* it; all parts are the first one and those right of it.                     *)
LEMMA RightAtNext ==
    ASSUME NEW b, Width(b) \in Nat, NEW i \in Nat \union {-1}, i + 1 < Width(b)
    PROVE  UNION {Part(b, j) : j \in i + 2 .. Width(b)}
              = Part(b, i + 2) \union RightAt(b, i + 1)
<1>1. i + 2 .. Width(b) = {i + 2} \union ((i + 1) + 2 .. Width(b))
  OBVIOUS
<1>2. QED
  BY <1>1 DEF RightAt

LEMMA RightAtEnd ==
    ASSUME NEW b, Width(b) \in Nat, NEW i \in Nat, i + 1 >= Width(b)
    PROVE  RightAt(b, i) = {}
<1>1. i + 2 .. Width(b) = {}
  OBVIOUS
<1>2. QED
  BY <1>1 DEF RightAt

LEMMA UpHolds ==
    ASSUME TreeAssumption, SearchTreeAssumption, NEW t, WalkHolds(t), t.pc = "up"
    PROVE  WalkHolds(UpStep(t)) /\ UpStep(t).want = t.want
<1> DEFINE l == t.level
           b == t.bno
           i == t.path_index[l]
           next == i + 1
<1>1. /\ t \in TreeWalks /\ t.next = TRUE /\ b = t.path_bno[l] /\ LeftmostBelow(t, l)
      /\ PathFrom(t, l) /\ After(t.want) = RightOf(t, l) /\ t.held = 0
  BY DEF WalkHolds, GoingUp, HoldsItsLeaf
<1>2. l \in Levels /\ l \in Nat /\ l + 1 \in Nat
  BY <1>1, TreeAssumption DEF TreeWalks, Levels, Leaf, TreeAssumption
<1>3. PathAt(t, l) /\ PathFrom(t, l + 1)
  BY <1>1, <1>2, PathFromNext, TreeAssumption
<1>4. /\ b \in DOMAIN Nodes /\ Nodes[b].level = l /\ i \in Nat /\ i < Width(b)
      /\ Precede(ItemsUnder(b), RightOf(t, l + 1))
  BY <1>1, <1>3 DEF PathAt
<1>5. Width(b) \in Nat
  BY <1>2, <1>4, PartsOfNode, TreeAssumption, SearchTreeAssumption
<1>6. /\ next < Width(b) /\ l = Leaf => UpStep(t) = Settle(t, next)
      /\ next < Width(b) /\ l > Leaf =>
            UpStep(t) = Follow([t EXCEPT !.path_index[l] = next])
      /\ next >= Width(b) /\ l = TreeHeight - 1 => UpStep(t) = Failed(t, "none")
      /\ next >= Width(b) /\ l # TreeHeight - 1 =>
            UpStep(t) = [t EXCEPT !.path_index[l] = 0, !.level = l + 1,
                                  !.bno = t.path_bno[l + 1]]
  <2>1. (IF l = Leaf THEN Len(Nodes[b].items) ELSE Len(Nodes[b].child)) = Width(b)
    BY <1>4 DEF Width
  <2>2. CASE next < Width(b) /\ l = Leaf
    BY <1>4, <1>5, <2>1, <2>2 DEF UpStep, Leaf
  <2>3. CASE next < Width(b) /\ l > Leaf
    BY <1>4, <1>5, <2>1, <2>3 DEF UpStep, Leaf
  <2>4. CASE next >= Width(b) /\ l = TreeHeight - 1
    BY <1>4, <1>5, <2>1, <2>4 DEF UpStep
  <2>5. CASE next >= Width(b) /\ l # TreeHeight - 1
    BY <1>4, <1>5, <2>1, <2>5 DEF UpStep
  <2> HIDE DEF l, b, next
  <2>6. QED
    BY ONLY <2>2, <2>3, <2>4, <2>5
<1>7. RightOf(t, l) = RightAt(b, i) \union RightOf(t, l + 1)
  BY <1>1, <1>2, PathFromNext, TreeAssumption
<1>8. CASE next < Width(b)
  <2> DEFINE s == [t EXCEPT !.path_index[l] = next]
  <2>1. /\ s \in TreeWalks /\ s.path_bno = t.path_bno /\ s.path_index[l] = next
        /\ s.want = t.want /\ s.level = l /\ s.bno = b /\ s.next = TRUE /\ s.held = 0
        /\ s.pc = t.pc
        /\ \A m \in Levels : m # l => s.path_index[m] = t.path_index[m]
    BY <1>1, <1>2, <1>4 DEF TreeWalks
  <2>2. Agree(t, s, l + 1)
    <3>1. \A m \in l + 1 .. TreeHeight - 1 : m \in Levels /\ m # l
      BY <1>2, TreeAssumption DEF Levels, Leaf, TreeAssumption
    <3> HIDE DEF s, l
    <3>2. QED
      BY <2>1, <3>1 DEF Agree
  <2>3. LeftmostBelow(s, l)
    <3>1. \A m \in Levels : m < l => m # l
      BY <1>2 DEF Levels
    <3> HIDE DEF s, l, next
    <3>2. QED
      BY <1>1, <2>1, <3>1 DEF LeftmostBelow
  <2> HIDE DEF s
  <2>4. PathFrom(s, l) /\ RightOf(s, l + 1) = RightOf(t, l + 1)
    <3>1. s.path_bno[l] = b /\ s.path_index[l] \in Nat /\ s.path_index[l] < Width(b)
      BY <1>1, <1>4, <1>8, <2>1
    <3> HIDE DEF l, b
    <3>2. QED
      BY <1>2, <1>3, <1>4, <2>2, <3>1, PathExtends, TreeAssumption
  <2>5. After(t.want) = Part(b, next + 1) \union RightOf(s, l)
    <3>1. RightOf(s, l) = RightAt(s.path_bno[l], s.path_index[l]) \union RightOf(s, l + 1)
      BY <1>2, PathFromNext, TreeAssumption
    <3>2. s.path_bno[l] = b
      BY <1>1, <2>1
    <3>3. RightOf(s, l) = RightAt(b, next) \union RightOf(t, l + 1)
      BY <2>1, <2>4, <3>1, <3>2
    <3>4. UNION {Part(b, j) : j \in i + 2 .. Width(b)} = Part(b, i + 2) \union RightAt(b, i + 1)
      BY <1>4, <1>5, <1>8, RightAtNext
    <3>5. next + 1 = i + 2
      BY <1>4
    <3>6. RightAt(b, i) = Part(b, next + 1) \union RightAt(b, next)
      BY <3>4, <3>5 DEF RightAt
    <3>7. After(t.want) = RightAt(b, i) \union RightOf(t, l + 1)
      BY <1>1, <1>7
    <3> HIDE DEF l, b, next, i
    <3>8. QED
      BY ONLY <3>3, <3>6, <3>7
  <2>6. CASE l = Leaf
    <3>1. UpStep(t) = Settle(t, next)
      BY <1>6, <1>8, <2>6
    <3>2. s = [t EXCEPT !.path_index[Leaf] = next] /\ next \in Nat
      BY <1>4, <2>6 DEF s
    <3>3. s.path_bno[Leaf] = t.bno
      BY <1>1, <2>1, <2>6
    <3> HIDE DEF next
    <3>4. WalkHolds(Settle(t, next)) /\ Settle(t, next).want = t.want
      BY <1>1, <2>4, <2>5, <2>6, <3>2, <3>3, SettleArrives, TreeAssumption,
         SearchTreeAssumption
    <3>5. QED
      BY <3>1, <3>4
  <2>7. CASE l > Leaf
    <3>1. UpStep(t) = Follow(s)
      BY <1>6, <1>8, <2>7 DEF s
    <3>2. /\ s.level # Leaf /\ s.bno = s.path_bno[s.level]
          /\ LeftmostBelow(s, s.level) /\ PathFrom(s, s.level)
          /\ After(s.want) = Part(s.bno, s.path_index[s.level] + 1) \union RightOf(s, s.level)
      <4>1. l # Leaf
        BY <2>7 DEF Leaf
      <4> HIDE DEF l, b, next
      <4>2. QED
        BY <1>1, <2>1, <2>3, <2>4, <2>5, <4>1
    <3>3. WalkHolds(Follow(s)) /\ Follow(s).want = s.want
      BY <2>1, <3>2, FollowGoesDown, TreeAssumption, SearchTreeAssumption
    <3>4. QED
      BY <2>1, <3>1, <3>3
  <2>8. QED
    BY <1>2, <2>6, <2>7 DEF Levels, Leaf
<1>9. CASE next >= Width(b)
  <2>1. RightOf(t, l) = RightOf(t, l + 1)
    <3>1. RightAt(b, i) = {}
      BY <1>4, <1>5, <1>9, RightAtEnd
    <3>2. QED
      BY <1>7, <3>1
  <2>2. CASE l = TreeHeight - 1
    <3>1. UpStep(t) = Failed(t, "none")
      BY <1>4, <1>5, <1>6, <1>9, <2>2
    <3>2. l + 1 = TreeHeight
      BY <2>2, TreeAssumption DEF TreeAssumption
    <3>3. After(t.want) = {}
      BY <1>1, <2>1, <3>2, RightOfTop, TreeAssumption
    <3>4. QED
      BY <1>1, <3>1, <3>3, WalkIsOver, TreeAssumption
  <2>3. CASE l # TreeHeight - 1
    <3> DEFINE u == [t EXCEPT !.path_index[l] = 0, !.level = l + 1, !.bno = t.path_bno[l + 1]]
    <3>1. UpStep(t) = u
      BY <1>4, <1>5, <1>6, <1>9, <2>3
    <3>2. l + 1 \in Levels
      BY <1>2, <2>3, TreeAssumption DEF Levels, Leaf, TreeAssumption
    <3>3. PathAt(t, l + 1)
      BY <1>3, <3>2, PathFromNext, TreeAssumption
    <3>4. t.path_bno[l + 1] \in DOMAIN Nodes
      BY <3>3 DEF PathAt
    <3>5. /\ u \in TreeWalks /\ u.path_bno = t.path_bno /\ u.path_index[l] = 0
          /\ u.want = t.want /\ u.level = l + 1 /\ u.bno = t.path_bno[l + 1] /\ u.next = TRUE
          /\ u.held = 0 /\ u.pc = "up"
          /\ \A m \in Levels : m # l => u.path_index[m] = t.path_index[m]
      BY <1>1, <1>2, <3>2, <3>4 DEF TreeWalks
    <3> HIDE DEF u
    <3>6. Agree(t, u, l + 1)
      <4>1. \A m \in l + 1 .. TreeHeight - 1 : m \in Levels /\ m # l
        BY <1>2, TreeAssumption DEF Levels, Leaf, TreeAssumption
      <4> HIDE DEF l
      <4>2. QED
        BY <3>5, <4>1 DEF Agree
    <3>7. LeftmostBelow(u, l + 1)
      <4>1. \A m \in Levels : m < l + 1 => m = l \/ (m # l /\ m < l)
        BY <1>2, TreeAssumption DEF Levels, Leaf, TreeAssumption
      <4> HIDE DEF l
      <4>2. QED
        BY <1>1, <3>5, <4>1 DEF LeftmostBelow
    <3>8. PathFrom(u, l + 1) /\ RightOf(u, l + 1) = RightOf(t, l + 1)
      BY <1>2, <1>3, <3>6, AgreeRight, TreeAssumption
    <3> HIDE DEF l
    <3>9. GoingUp(u)
      BY <1>1, <2>1, <3>5, <3>7, <3>8 DEF GoingUp
    <3>10. HoldsItsLeaf(u) /\ ResultIsRight(u)
      BY <3>5 DEF HoldsItsLeaf, ResultIsRight
    <3>11. QED
      BY <3>1, <3>5, <3>9, <3>10 DEF WalkHolds
  <2>4. QED
    BY <2>2, <2>3
<1>10. QED
  BY <1>4, <1>5, <1>8, <1>9

LEMMA DownHolds ==
    ASSUME TreeAssumption, SearchTreeAssumption, NEW t, WalkHolds(t), t.pc = "down"
    PROVE  WalkHolds(DownStep(t)) /\ DownStep(t).want = t.want
<1> DEFINE l == t.level
           b == t.bno
           s == [t EXCEPT !.path_bno[l] = b]
<1>1. /\ t \in TreeWalks /\ t.next = TRUE /\ LeftmostBelow(t, l + 1)
      /\ PathFrom(t, l + 1) /\ Precede(ItemsUnder(b), RightOf(t, l + 1))
      /\ After(t.want) = ItemsUnder(b) \union RightOf(t, l + 1) /\ t.held = 0
  BY DEF WalkHolds, GoingDown, HoldsItsLeaf
<1>2. l \in Levels /\ l \in Nat /\ l + 1 \in Nat /\ b \in DOMAIN Nodes /\ b \in Nat
  <2>1. l \in Levels /\ b \in DOMAIN Nodes
    BY <1>1 DEF TreeWalks
  <2>2. DOMAIN Nodes \subseteq Nat /\ TreeHeight \in Nat
    BY TreeAssumption DEF TreeAssumption
  <2>3. b \in Nat
    BY ONLY <2>1, <2>2
  <2>4. l \in Nat /\ l + 1 \in Nat
    <3> HIDE DEF l, b
    <3>1. QED
      BY ONLY <2>1, <2>2 DEF Levels, Leaf
  <2>5. QED
    BY <2>1, <2>3, <2>4
<1>3. CASE Nodes[b].level # l
  <2>1. DownStep(t) = Failed(t, "error")
    BY <1>3 DEF DownStep
  <2>2. QED
    BY <1>1, <2>1, WalkIsOver, TreeAssumption
<1>4. CASE Nodes[b].level = l
  <2>1. DownStep(t) = IF l = Leaf THEN Settle(s, s.path_index[Leaf]) ELSE Follow(s)
    BY <1>4 DEF DownStep
  <2>2. /\ s \in TreeWalks /\ s.path_bno[l] = b /\ s.path_index = t.path_index
        /\ s.want = t.want /\ s.level = l /\ s.bno = b /\ s.next = TRUE /\ s.held = 0
        /\ s.pc = "down"
        /\ \A m \in Levels : m # l => s.path_bno[m] = t.path_bno[m]
    BY <1>1, <1>2 DEF TreeWalks
  <2>3. t.path_index[l] = 0
    BY <1>1, <1>2 DEF LeftmostBelow
  <2> HIDE DEF s
  <2>4. Agree(t, s, l + 1)
    <3>1. \A m \in l + 1 .. TreeHeight - 1 : m \in Levels /\ m # l
      BY <1>2, TreeAssumption DEF Levels, Leaf, TreeAssumption
    <3> HIDE DEF l
    <3>2. QED
      BY <2>2, <3>1 DEF Agree
  <2>5. /\ Width(b) \in Nat \ {0}
        /\ ItemsUnder(b) = UNION {Part(b, j) : j \in 1 .. Width(b)}
    BY <1>2, <1>4, PartsOfNode, TreeAssumption, SearchTreeAssumption
  <2>6. PathFrom(s, l) /\ RightOf(s, l + 1) = RightOf(t, l + 1)
    <3>1. s.path_bno[l] = b /\ s.path_index[l] \in Nat /\ s.path_index[l] < Width(b)
      BY <2>2, <2>3, <2>5
    <3> HIDE DEF l, b
    <3>2. QED
      BY <1>1, <1>2, <1>4, <2>4, <3>1, PathExtends, TreeAssumption
  <2>7. After(t.want) = Part(b, 1) \union RightOf(s, l)
    <3>1. RightOf(s, l) = RightAt(b, 0) \union RightOf(t, l + 1)
      <4>1. RightOf(s, l) = RightAt(s.path_bno[l], s.path_index[l]) \union RightOf(s, l + 1)
        BY <1>2, PathFromNext, TreeAssumption
      <4>2. QED
        BY <2>2, <2>3, <2>6, <4>1
    <3>2. ItemsUnder(b) = Part(b, 1) \union RightAt(b, 0)
      <4>1. UNION {Part(b, j) : j \in (-1) + 2 .. Width(b)}
               = Part(b, (-1) + 2) \union RightAt(b, (-1) + 1)
        BY <2>5, RightAtNext
      <4>2. (-1) + 2 = 1 /\ (-1) + 1 = 0
        OBVIOUS
      <4>3. QED
        BY <2>5, <4>1, <4>2
    <3> HIDE DEF l, b
    <3>3. QED
      BY <1>1, <3>1, <3>2
  <2>8. LeftmostBelow(s, l)
    BY <1>1, <1>2, <2>2 DEF LeftmostBelow, Levels
  <2>9. CASE l = Leaf
    <3>1. DownStep(t) = Settle(s, 0)
      BY <2>1, <2>2, <2>3, <2>9
    <3>2. s = [s EXCEPT !.path_index[Leaf] = 0]
      BY <2>2, <2>3, <2>9 DEF TreeWalks
    <3>3. s.path_bno[Leaf] = s.bno /\ 0 + 1 = 1 /\ 0 \in Nat /\ s.pc \in {"up", "down"}
      BY <2>2, <2>9
    <3>4. Part(s.bno, 0 + 1) \union RightOf(s, Leaf) = After(s.want) /\ PathFrom(s, Leaf)
      BY <2>2, <2>6, <2>7, <2>9, <3>3
    <3>5. WalkHolds(Settle(s, 0)) /\ Settle(s, 0).want = s.want
      BY ONLY <2>2, <3>2, <3>3, <3>4, SettleArrives, TreeAssumption, SearchTreeAssumption
    <3>6. QED
      BY <2>2, <3>1, <3>5
  <2>10. CASE l # Leaf
    <3>1. DownStep(t) = Follow(s)
      BY <2>1, <2>10
    <3>2. /\ s.level # Leaf /\ s.bno = s.path_bno[s.level]
          /\ LeftmostBelow(s, s.level) /\ PathFrom(s, s.level)
          /\ After(s.want) = Part(s.bno, s.path_index[s.level] + 1) \union RightOf(s, s.level)
      <4>1. 0 + 1 = 1
        OBVIOUS
      <4> HIDE DEF l, b
      <4>2. QED
        BY <2>2, <2>3, <2>6, <2>7, <2>8, <2>10, <4>1
    <3>3. WalkHolds(Follow(s)) /\ Follow(s).want = s.want
      BY <2>2, <3>2, FollowGoesDown, TreeAssumption, SearchTreeAssumption
    <3>4. QED
      BY <2>2, <3>1, <3>3
  <2>11. QED
    BY <2>9, <2>10
<1>5. QED
  BY <1>3, <1>4

LEMMA SearchHolds ==
    ASSUME TreeAssumption, SearchTreeAssumption, NEW t, WalkHolds(t), t.pc = "search",
           NEW u, u = SearchStep(t)
    PROVE  WalkHolds(u) /\ u.want = t.want
<1> DEFINE l == t.level
           b == t.bno
           i == StopIn(b, t.want)
           here == [t EXCEPT !.path_bno[l] = b]
<1>1. /\ t \in TreeWalks /\ t.next = FALSE /\ OnTrack(t) /\ HoldsItsLeaf(t)
      /\ PathFrom(t, l + 1) /\ Splits(t, ItemsUnder(b), l + 1)
      /\ t.held = 0 /\ ResultIsRight(t)
  BY DEF WalkHolds, Searching, HoldsItsLeaf
<1>2. t \in Searches
  BY <1>1 DEF TreeWalks, Searches
<1>3. SearchIsRight(t)
  BY <1>1 DEF SearchIsRight
<1>4. u \in TreeStep(t)
  BY DEF TreeStep
<1>5. u \in Searches /\ HoldsItsLeaf(u) /\ u.want = t.want /\ SearchIsRight(u)
  <2>1. u \in Searches /\ HoldsItsLeaf(u) /\ u.want = t.want
    BY <1>1, <1>2, <1>4, TreeStepHolds, TreeAssumption
  <2>2. SearchIsRight(u)
    BY <1>1, <1>2, <1>3, <1>4, TreeStepIsRight, TreeAssumption, SearchTreeAssumption
  <2>3. QED
    BY <2>1, <2>2
<1>6. u \in TreeWalks /\ u.next = FALSE /\ u.pc \in {"search", "found", "none", "error"}
  BY <1>5 DEF Searches, TreeWalks
<1>7. u.pc \in {"none", "error"} => WalkHolds(u)
  BY <1>5, <1>6 DEF WalkHolds, SearchIsRight
<1>8. l \in Levels /\ l \in Nat /\ b \in DOMAIN Nodes /\ t.want \in Key
  BY <1>2, TreeAssumption DEF Searches, Levels, Leaf, TreeAssumption
<1>9. /\ here \in Searches /\ here.pc = "search" /\ here.bno = t.bno
      /\ here.want = t.want /\ here.level = t.level
      /\ \/ u = Failed(t, "error")
         \/ /\ Nodes[b].level = l /\ l = Leaf
            /\ u = IF i = 0 THEN Failed(here, "none") ELSE Settle(here, i - 1)
         \/ Nodes[b].level = l /\ l # Leaf /\ u = Descended(here)
  BY <1>2, StepOfSearch, TreeAssumption
<1>10. /\ here.path_bno[l] = b /\ here.path_index = t.path_index /\ here.held = 0
       /\ \A m \in Levels : m # l => here.path_bno[m] = t.path_bno[m]
  BY <1>1, <1>8 DEF TreeWalks
<1> HIDE DEF here
<1>11. \A m \in l + 1 .. TreeHeight - 1 : m \in Levels /\ m # l
  <2>1. l + 1 .. TreeHeight - 1 \subseteq Levels
    BY <1>8, TreeAssumption DEF Levels, Leaf, TreeAssumption
  <2> HIDE DEF l
  <2>2. \A m \in l + 1 .. TreeHeight - 1 : m # l
    BY <1>8, TreeAssumption DEF TreeAssumption
  <2>3. QED
    BY <2>1, <2>2
<1>12. ASSUME u.path_bno = here.path_bno, Nodes[b].level = l, u.path_index[l] \in Nat,
              u.path_index[l] < Width(b),
              \A m \in Levels : m # l => u.path_index[m] = here.path_index[m]
       PROVE  PathFrom(u, l) /\ Splits(u, Part(b, u.path_index[l] + 1), l)
  <2>1. Agree(t, u, l + 1)
    <3> HIDE DEF l
    <3>1. QED
      BY <1>10, <1>11, <1>12 DEF Agree
  <2>2. u.path_bno[l] = b
    BY <1>10, <1>12
  <2> HIDE DEF l, b
  <2>3. PathFrom(u, l) /\ RightOf(u, l + 1) = RightOf(t, l + 1)
    BY <1>1, <1>8, <1>12, <2>1, <2>2, PathExtends, TreeAssumption DEF Splits
  <2>4. Splits(u, ItemsUnder(u.path_bno[l]), l + 1)
    BY <1>1, <2>2, <2>3 DEF Splits
  <2>5. QED
    BY <1>8, <2>2, <2>3, <2>4, EnterSplits, TreeAssumption, SearchTreeAssumption
<1>13. ASSUME Nodes[b].level = l, l = Leaf, i # 0, u = Settle(here, i - 1), u.pc = "found"
       PROVE  WalkHolds(u)
  <2>1. i \in 1 .. Width(b) /\ Width(b) \in Nat
    <3>1. i \in 0 .. Len(Nodes[b].items) /\ Len(Nodes[b].items) \in Nat
      BY <1>8, <1>13, StopsInNode, TreeAssumption
    <3>2. Width(b) = Len(Nodes[b].items)
      BY <1>13 DEF Width
    <3> HIDE DEF i
    <3>3. QED
      BY <1>13, <3>1, <3>2
  <2> HIDE DEF i
  <2>2. i - 1 \in Nat /\ i - 1 < Width(b) /\ (i - 1) + 1 = i
    BY <2>1
  <2>3. u = [here EXCEPT !.path_index[Leaf] = i - 1, !.pc = "found", !.held = here.bno]
    <3>1. u = IF SameObject(Nodes[here.bno].items[i - 1 + 1].key, here.want)
              THEN [here EXCEPT !.path_index[Leaf] = i - 1, !.pc = "found", !.held = here.bno]
              ELSE Failed([here EXCEPT !.path_index[Leaf] = i - 1], "none")
      BY <1>13 DEF Settle
    <3>2. Failed([here EXCEPT !.path_index[Leaf] = i - 1], "none").pc = "none"
      BY <1>9 DEF Failed, Searches
    <3>3. QED
      BY <1>13, <3>1, <3>2
  <2>4. /\ u.path_bno = here.path_bno /\ u.held = b /\ u.path_index[Leaf] = i - 1
        /\ \A m \in Levels : m # Leaf => u.path_index[m] = here.path_index[m]
    BY <1>8, <1>9, <1>13, <2>3 DEF Searches
  <2>5. PathFrom(u, l) /\ Splits(u, Part(b, u.path_index[l] + 1), l)
    <3> HIDE DEF b
    <3>1. QED
      BY <1>12, <1>13, <2>2, <2>4
  <2>6. Part(b, u.path_index[l] + 1) = {AtItem(u)}
    BY <1>13, <2>4 DEF Part, AtItem
  <2>7. AtItem(u) \in AllItems
    <3>1. DOMAIN Nodes[b].items = 1 .. Width(b)
      BY <1>8, <1>13, PartsOfNode, TreeAssumption, SearchTreeAssumption
    <3>2. AtItem(u) = Nodes[b].items[i]
      BY <2>2, <2>4 DEF AtItem
    <3> HIDE DEF b
    <3>3. QED
      BY <1>8, <1>13, <2>1, <3>1, <3>2 DEF AllItems
  <2>8. After(AtItem(u).key) = RightOf(u, Leaf)
    BY <1>13, <2>5, <2>6, <2>7, AfterItem, TreeAssumption, SearchTreeAssumption
  <2>9. Arrived(u)
    BY <1>10, <1>13, <2>4, <2>5, <2>8 DEF Arrived
  <2>10. QED
    BY <1>5, <1>6, <1>13, <2>9 DEF WalkHolds, SearchIsRight
<1>14. ASSUME Nodes[b].level = l, l # Leaf, u = Descended(here)
       PROVE  WalkHolds(u)
  <2>1. Width(b) \in Nat /\ i \in Nat /\ i < Width(b)
    <3>1. i \in 0 .. Len(Nodes[b].keys) /\ Len(Nodes[b].keys) \in Nat
      BY <1>8, <1>14, StopsInNode, TreeAssumption
    <3>2. Nodes[b].level > Leaf /\ IsNode(Nodes[b])
      BY <1>8, <1>14, TreeAssumption DEF Levels, Leaf, TreeAssumption
    <3>3. Width(b) = Len(Nodes[b].keys) + 1
      BY <1>14, <3>2 DEF Width, IsNode
    <3> HIDE DEF i, b
    <3>4. QED
      BY <3>1, <3>3
  <2>2. /\ u.path_bno = here.path_bno /\ u.path_index[l] = i
        /\ \A m \in Levels : m # l => u.path_index[m] = here.path_index[m]
        /\ u.bno = Nodes[b].child[i + 1] /\ u.level = l - 1 /\ u.pc = "search" /\ u.held = 0
    <3> DEFINE j == StopIn(here.bno, here.want)
    <3>1. u = [here EXCEPT !.path_index[l] = j, !.bno = Nodes[b].child[j + 1], !.level = l - 1]
      BY <1>9, <1>14 DEF Descended
    <3>2. i = j
      BY <1>9
    <3> HIDE DEF i, j, l, b
    <3>3. QED
      BY <1>8, <1>9, <1>10, <3>1, <3>2 DEF Searches
  <2> HIDE DEF i
  <2>3. PathFrom(u, l) /\ Splits(u, Part(b, u.path_index[l] + 1), l)
    <3> HIDE DEF b
    <3>1. QED
      BY <1>12, <1>14, <2>1, <2>2
  <2>4. Part(b, u.path_index[l] + 1) = ItemsUnder(u.bno)
    BY <1>14, <2>2 DEF Part
  <2>5. u.level + 1 = l
    BY <1>8, <2>2
  <2>6. Searching(u)
    <3> HIDE DEF l
    <3>1. QED
      BY <1>5, <1>6, <2>2, <2>3, <2>4, <2>5 DEF Searching, SearchIsRight
  <2>7. QED
    BY <1>5, <1>6, <2>2, <2>6 DEF WalkHolds, SearchIsRight
<1> HIDE DEF i, b, l
<1>15. ASSUME u.pc \in {"search", "found"} PROVE WalkHolds(u)
  <2>1. /\ Failed(t, "error").pc = "error" /\ Failed(here, "none").pc = "none"
    BY <1>2, <1>9 DEF Failed, Searches
  <2>2. ASSUME Nodes[b].level = l, l = Leaf, i # 0, u = Settle(here, i - 1)
        PROVE  u.pc # "search"
    BY <1>9, <2>2 DEF Settle, Failed, Searches
  <2>3. QED
    BY <1>9, <1>13, <1>14, <1>15, <2>1, <2>2
<1>16. QED
  BY <1>5, <1>6, <1>7, <1>15

(* Every step of a walk keeps it: a search stays on track, and so does the    *)
(* walk to the next item.                                                     *)
LEMMA WalkStepHolds ==
    ASSUME TreeAssumption, SearchTreeAssumption, NEW t, WalkHolds(t), ~AtRest(t),
           NEW u \in TreeStep(t)
    PROVE  WalkHolds(u) /\ u.want = t.want
<1>1. t \in TreeWalks /\ t.pc \in {"search", "up", "down"}
  BY DEF WalkHolds, TreeWalks, AtRest
<1>2. CASE u = Failed(t, "error")
  BY <1>1, <1>2, WalkIsOver, TreeAssumption
<1>3. CASE t.pc = "search" /\ u = SearchStep(t)
  BY <1>3, SearchHolds, TreeAssumption, SearchTreeAssumption
<1>4. CASE t.pc = "up" /\ u = UpStep(t)
  BY <1>4, UpHolds, TreeAssumption, SearchTreeAssumption
<1>5. CASE t.pc = "down" /\ u = DownStep(t)
  BY <1>5, DownHolds, TreeAssumption, SearchTreeAssumption
<1>6. QED
  BY <1>1, <1>2, <1>3, <1>4, <1>5 DEF TreeStep

LEMMA NextBegins ==
    ASSUME TreeAssumption, NEW t, WalkHolds(t), t.pc = "found"
    PROVE  /\ WalkHolds(NextItem(t)) /\ NextItem(t).want = AtItem(t).key
           /\ NextItem(t).held = 0 /\ NextItem(t).next = TRUE /\ NextItem(t).pc = "up"
<1> DEFINE u == NextItem(t)
<1>1. /\ t \in TreeWalks /\ HoldsItsLeaf(t) /\ Arrived(t)
  BY DEF WalkHolds
<1>2. Leaf \in Levels /\ Leaf \in Nat
  BY TreeAssumption DEF TreeAssumption, Levels, Leaf
<1>3. t.held \in DOMAIN Nodes /\ t.held = t.path_bno[Leaf]
  BY <1>1 DEF TreeWalks, HoldsItsLeaf, Arrived
<1>4. AtItem(t).key \in Key
  <2>1. IsNode(Nodes[t.held]) /\ Nodes[t.held].level = Leaf
        /\ t.path_index[Leaf] + 1 \in DOMAIN Nodes[t.held].items
    BY <1>1, <1>3, TreeAssumption DEF TreeAssumption, HoldsItsLeaf
  <2>2. QED
    BY <2>1 DEF IsNode, AtItem
<1>5. /\ u \in TreeWalks /\ u.pc = "up" /\ u.next = TRUE /\ u.level = Leaf /\ u.held = 0
      /\ u.bno = t.path_bno[Leaf] /\ u.want = AtItem(t).key
      /\ u.path_bno = t.path_bno /\ u.path_index = t.path_index
  BY <1>1, <1>2, <1>3, <1>4 DEF NextItem, TreeWalks
<1> HIDE DEF u
<1>6. Agree(t, u, Leaf)
  BY <1>5 DEF Agree
<1>7. PathFrom(u, Leaf) /\ RightOf(u, Leaf) = RightOf(t, Leaf)
  BY <1>1, <1>2, <1>6, AgreeRight, TreeAssumption DEF Arrived
<1>8. LeftmostBelow(u, Leaf)
  BY DEF LeftmostBelow, Levels, Leaf
<1>9. GoingUp(u)
  BY <1>1, <1>5, <1>7, <1>8 DEF GoingUp, Arrived
<1>10. HoldsItsLeaf(u) /\ ResultIsRight(u)
  BY <1>5 DEF HoldsItsLeaf, ResultIsRight
<1>11. QED
  BY <1>5, <1>9, <1>10 DEF WalkHolds, u

================================================================================
