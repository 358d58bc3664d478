--------------------------- MODULE RefitVolumesProofs ---------------------------
(***************************************************************************)
(* For any devices, any disk and any number of volumes, programs and         *)
(* drivers: the file handles that are open are those rEFIt points to, its    *)
(* volumes stand for the firmware's partitions, and the partition a legacy   *)
(* boot sets active is the one that boot code then finds.                    *)
(***************************************************************************)
EXTENDS RefitVolumes, WellFoundedInduction, TLAPS

(* The lowest number of a set exists and is in the set. *)
LEMMA MinOfNaturals ==
    ASSUME NEW S \in SUBSET Nat, S # {}
    PROVE  Min(S) \in S /\ \A y \in S : Min(S) <= y
<1> DEFINE R == OpToRel(<, Nat)
<1>1. IsWellFoundedOn(R, Nat) /\ \A x, y \in Nat : <<y, x>> \in R <=> y < x
  BY NatLessThanWellFounded DEF OpToRel
<1> HIDE DEF R
<1>2. PICK x \in S : \A y \in S : <<y, x>> \notin R
  BY <1>1, WFMin
<1>3. \A y \in S : x \in Nat /\ y \in Nat /\ ~(y < x)
  BY <1>1, <1>2
<1>4. \A y \in S : x <= y
  BY <1>3
<1>5. QED
  BY <1>4 DEF Min

(* Before a program all handles are closed, and the directory of the drivers  *)
(* is only open while there are drivers; a walk belongs to a volume.          *)
Phases ==
    /\ pc = "boot" => vols = <<>> /\ open = {} /\ self.root = NULL /\ ~self.dir
    /\ pc = "running" => Roots(vols) = {} /\ self.root = NULL /\ ~self.dir
    /\ pc \in {"boot", "drivers", "scan"} => back = "drivers"
    /\ Iter \in open => back = "drivers" /\ pc \in {"drivers", "load", "running", "off", "crashed"}
    /\ pc \in {"load", "running"} /\ back = "drivers" => Iter \in open
    /\ pc = "legacy" => chosen # NULL
    /\ walk # NULL => pc \in {"relate", "legacy"}
    /\ walk # NULL /\ pc = "relate" => cursor \in DOMAIN vols

IInv == TypeOK /\ HandlesAreHeld /\ Phases

Tables == [Entries -> Entry]

------------------------------------------------------------------------------
(* The walks *)

LEMMA MaxOfEntries ==
    ASSUME NEW S \in SUBSET Entries, S # {}
    PROVE  Max(S) \in S
<1>1. \E x \in S : \A y \in S : x >= y
  <2>1. CASE 4 \in S
    BY <2>1 DEF Entries
  <2>2. CASE 4 \notin S /\ 3 \in S
    BY <2>2 DEF Entries
  <2>3. CASE 4 \notin S /\ 3 \notin S /\ 2 \in S
    BY <2>3 DEF Entries
  <2>4. CASE 4 \notin S /\ 3 \notin S /\ 2 \notin S
    <3>1. \A y \in S : y = 1
      BY <2>4 DEF Entries
    <3>2. QED
      BY <3>1
  <2>5. QED
    BY <2>1, <2>2, <2>3, <2>4
<1>2. QED
  BY <1>1 DEF Max

LEMMA StopInRange ==
    ASSUME NEW table
    PROVE  Stop(table) \in 1 .. 5
<1> DEFINE S == {i \in Entries : \/ table[i].flags = "bad" \/ Unused(table[i])
                                \/ table[i].type = "extended"} \union {5}
<1>1. S \in SUBSET Nat /\ S # {} /\ S \subseteq 1 .. 5
  BY DEF Entries
<1>2. Min(S) \in S
  BY <1>1, MinOfNaturals
<1>3. QED
  BY <1>1, <1>2 DEF Stop

LEMMA EntryFields ==
    ASSUME NEW e \in Entry
    PROVE  /\ e.type \in {"data", "extended"} /\ e.start \in Nat
           /\ \A f \in {"on", "off", "bad"} : [e EXCEPT !.flags = f] \in Entry
  BY DEF Entry

LEMMA NextIsNat ==
    ASSUME NEW table \in Tables, NEW base \in Nat
    PROVE  NextExtCurrent(table, base) \in Nat
<1>1. CASE Linked(table)
  <2>1. Stop(table) \in Entries
    BY <1>1 DEF Linked
  <2>2. table[Stop(table)] \in Entry
    BY <2>1 DEF Tables
  <2>3. table[Stop(table)].start \in Nat
    BY <2>2, EntryFields
  <2>4. QED
    BY <2>3 DEF NextExtCurrent
<1>2. CASE ~Linked(table)
  BY <1>2 DEF NextExtCurrent
<1>3. QED
  BY <1>1, <1>2

LEMMA FlagsAreTables ==
    ASSUME NEW table \in Tables, NEW target \in Nat, NEW index \in Nat
    PROVE  MbrFlags(table, target) \in Tables /\ EmbrFlags(table, index, target) \in Tables
<1>1. ASSUME NEW i \in Entries
      PROVE  /\ table[i] \in Entry
             /\ [table[i] EXCEPT !.flags = "on"] \in Entry
             /\ [table[i] EXCEPT !.flags = "off"] \in Entry
  BY EntryFields DEF Tables
<1>2. MbrFlags(table, target) \in Tables
  BY <1>1 DEF MbrFlags, Tables
<1>3. EmbrFlags(table, index, target) \in Tables
  BY <1>1 DEF EmbrFlags, Tables
<1>4. QED
  BY <1>2, <1>3

LEMMA ExtBaseIsNat ==
    ASSUME NEW table \in Tables, NEW target
    PROVE  ExtBase(table, target) \in Nat
<1>1. CASE target >= 4 /\ Extended(table) # {}
  <2>1. Max(Extended(table)) \in Entries
    BY <1>1, MaxOfEntries DEF Extended
  <2>2. table[Max(Extended(table))].start \in Nat
    BY <2>1, EntryFields DEF Tables
  <2>3. QED
    BY <1>1, <2>2 DEF ExtBase
<1>2. CASE ~(target >= 4 /\ Extended(table) # {})
  BY <1>2 DEF ExtBase
<1>3. QED
  BY <1>1, <1>2

LEMMA WriteKeepsTables ==
    ASSUME ChainTypeOK, NEW s \in DOMAIN disk, NEW table \in Tables,
           disk' = [disk EXCEPT ![s] = table]
    PROVE  /\ 0 \in DOMAIN disk' /\ DOMAIN disk' \subseteq Nat
           /\ \A t \in DOMAIN disk' : disk'[t] \in [Entries -> Entry]
  BY DEF ChainTypeOK, Tables

LEMMA WalksType ==
    ASSUME NEW f \in {"scan", "activate"}, NEW b \in Nat, NEW a \in Nat, NEW i \in Nat,
           NEW t \in Nat \union {NULL}
    PROVE  [fn |-> f, base |-> b, at |-> a, index |-> i, target |-> t] \in Walking
  BY DEF Walking

LEMMA ActivateType ==
    ASSUME ChainTypeOK, NEW target \in Nat, Activate(target) \/ ActivateFails
    PROVE  ChainTypeOK'
<1>1. CASE ActivateFails
  BY <1>1 DEF ActivateFails, End, ChainTypeOK
<1>2. CASE Activate(target)
  <2>1. 0 \in DOMAIN disk /\ disk[0] \in Tables
    BY DEF ChainTypeOK, Tables
  <2>2. MbrFlags(disk[0], target) \in Tables /\ ExtBase(disk[0], target) \in Nat
    BY <2>1, FlagsAreTables, ExtBaseIsNat
  <2>3. disk' = [disk EXCEPT ![0] = MbrFlags(disk[0], target)]
    BY <1>2 DEF Activate
  <2>4. /\ 0 \in DOMAIN disk' /\ DOMAIN disk' \subseteq Nat
        /\ \A t \in DOMAIN disk' : disk'[t] \in [Entries -> Entry]
    BY <2>1, <2>2, <2>3, WriteKeepsTables
  <2>5. CASE ExtBase(disk[0], target) = 0
    BY <1>2, <2>4, <2>5 DEF Activate, End, ChainTypeOK
  <2>6. CASE ExtBase(disk[0], target) # 0
    <3>1. walk' = [fn |-> "activate", base |-> ExtBase(disk[0], target),
                   at |-> ExtBase(disk[0], target), index |-> 4, target |-> target]
          /\ status' = status
      BY <1>2, <2>6 DEF Activate
    <3>2. QED
      BY <2>2, <2>4, <3>1, WalksType DEF ChainTypeOK
  <2>7. QED
    BY <2>5, <2>6
<1>3. QED
  BY <1>1, <1>2

LEMMA EmbrStepType ==
    ASSUME ChainTypeOK, ScanEmbr \/ ActivateEmbr
    PROVE  ChainTypeOK'
<1> DEFINE table == disk[walk.at]
           next  == NextExtCurrent(table, walk.base)
           index == walk.index + Stop(table) - 1
<1>1. Readable
  BY DEF ScanEmbr, ActivateEmbr
<1>2. /\ walk \in Walking
      /\ walk.at \in DOMAIN disk /\ table \in Tables /\ walk.base \in Nat
  BY <1>1 DEF ChainTypeOK, Walking, Readable, Tables
<1>3. next \in Nat /\ index \in Nat
  <2>1. next \in Nat
    BY <1>2, NextIsNat DEF Walking
  <2>2. Stop(table) \in 1 .. 5 /\ walk.index \in Nat
    BY <1>2, StopInRange DEF Walking
  <2>3. QED
    BY <2>1, <2>2
<1> HIDE DEF next, index
<1>4. [walk EXCEPT !.at = next, !.index = index] \in Walking
  BY <1>2, <1>3 DEF Walking
<1>5. CASE ScanEmbr
  <2>1. walk' \in {NULL, [walk EXCEPT !.at = next, !.index = index]}
        /\ disk' = disk /\ status' = status
    BY <1>5 DEF ScanEmbr, next, index
  <2>2. QED
    BY <1>4, <2>1 DEF ChainTypeOK
<1>6. CASE ActivateEmbr
  <2>1. /\ disk' = [disk EXCEPT ![walk.at] = EmbrFlags(table, walk.index, walk.target)]
        /\ \/ walk' = NULL /\ status' = "success"
           \/ walk' = [walk EXCEPT !.at = next, !.index = index] /\ status' = status
    BY <1>6 DEF ActivateEmbr, End, next, index
  <2>2. EmbrFlags(table, walk.index, walk.target) \in Tables
    <3>1. ASSUME NEW i \in Entries
          PROVE  /\ table[i] \in Entry
                 /\ [table[i] EXCEPT !.flags = "on"] \in Entry
                 /\ [table[i] EXCEPT !.flags = "off"] \in Entry
      BY <1>2, EntryFields DEF Tables
    <3>2. QED
      BY <3>1 DEF EmbrFlags, Tables
  <2>3. /\ 0 \in DOMAIN disk' /\ DOMAIN disk' \subseteq Nat
        /\ \A t \in DOMAIN disk' : disk'[t] \in [Entries -> Entry]
    BY <1>2, <2>1, <2>2, WriteKeepsTables
  <2>4. QED
    BY <1>4, <2>1, <2>3 DEF ChainTypeOK
<1>7. QED
  BY <1>5, <1>6

LEMMA WalkBreaksType ==
    ASSUME ChainTypeOK, ScanBreaks \/ ActivateEmbrFails
    PROVE  ChainTypeOK'
  BY DEF ChainTypeOK, ScanBreaks, ActivateEmbrFails, End

------------------------------------------------------------------------------
(* The volumes *)

LEMMA VolumeUpdates ==
    ASSUME NEW v \in Volume
    PROVE  /\ v.root \in BOOLEAN /\ v.device \in Device \union {NULL}
           /\ v.path \in Device \union {NULL} /\ v.index \in Nat \union {NULL}
           /\ UninitVolumes(v) \in Volume /\ ~UninitVolumes(v).root
           /\ \A opens \in BOOLEAN : ReinitVolumes(v, opens) \in Volume
           /\ \A i \in Nat, s \in Nat :
                 /\ [v EXCEPT !.index = i, !.start = s] \in Volume
                 /\ [v EXCEPT !.index = i, !.start = s].root = v.root
<1>1. /\ v.root \in BOOLEAN /\ v.device \in Device \union {NULL}
      /\ v.path \in Device \union {NULL} /\ v.index \in Nat \union {NULL}
  BY DEF Volume
<1>2. UninitVolumes(v) \in Volume /\ ~UninitVolumes(v).root
  BY DEF Volume, UninitVolumes
<1>3. ASSUME NEW d \in Device \union {NULL}
      PROVE  Locate(d) \in Device \union {NULL}
  BY VolumesAssumption DEF Locate
<1>4. ASSUME NEW opens \in BOOLEAN
      PROVE  ReinitVolumes(v, opens) \in Volume
  <2>1. /\ Locate(v.device) \in Device \union {NULL} /\ Locate(v.path) \in Device \union {NULL}
        /\ (Locate(v.device) # NULL /\ opens) \in BOOLEAN
    BY <1>1, <1>3
  <2>2. \A at \in Device \union {NULL}, w \in Device \union {NULL}, r \in BOOLEAN :
           /\ [v EXCEPT !.handle = at, !.root = r, !.whole = w] \in Volume
           /\ [v EXCEPT !.handle = at, !.root = r, !.whole = @] \in Volume
    BY DEF Volume
  <2>3. QED
    BY <2>1, <2>2 DEF ReinitVolumes
<1>5. \A i \in Nat, s \in Nat :
         /\ [v EXCEPT !.index = i, !.start = s] \in Volume
         /\ [v EXCEPT !.index = i, !.start = s].root = v.root
  BY DEF Volume
<1>6. QED
  BY <1>1, <1>2, <1>4, <1>5

LEMMA FilesKept ==
    ASSUME HandlesAreHeld, UNCHANGED <<vols, self, open>>
    PROVE  HandlesAreHeld'
  BY DEF HandlesAreHeld, Roots, SelfHandles

(* What FinishInitRefitLib opens is pointed to. *)
LEMMA FinishInitHolds ==
    ASSUME NEW root, NEW others, NEW volume, self = [volume |-> volume, root |-> NULL, dir |-> FALSE],
           FinishInitRefitLib(root, others)
    PROVE  /\ open' = others \union SelfHandles'
           /\ \E r \in {OwnRoot, NULL, root}, dir \in BOOLEAN :
                 self' = [volume |-> volume, root |-> r, dir |-> dir]
<1>1. PICK r \in IF root = NULL THEN {OwnRoot, NULL} ELSE {root}, dir \in BOOLEAN :
         /\ self' = [self EXCEPT !.root = r, !.dir = dir]
         /\ open' = others \union ({r} \ {NULL}) \union {h \in {Dir} : dir}
  BY DEF FinishInitRefitLib
<1>2. self' = [volume |-> volume, root |-> r, dir |-> dir]
  BY <1>1
<1>3. SelfHandles' = ({r} \ {NULL}) \union {h \in {Dir} : dir}
  BY <1>2 DEF SelfHandles
<1>4. r \in {OwnRoot, NULL, root}
  OBVIOUS
<1>5. QED
  BY <1>1, <1>2, <1>3, <1>4

LEMMA SelfFields ==
    ASSUME TypeOK
    PROVE  /\ self = [volume |-> self.volume, root |-> self.root, dir |-> self.dir]
           /\ self.volume \in DOMAIN vols \union {NULL}
           /\ self.root \in {OwnRoot, NULL} \union DOMAIN vols /\ self.dir \in BOOLEAN
  BY DEF TypeOK

LEMMA VolumesTyped ==
    ASSUME TypeOK
    PROVE  /\ DOMAIN vols = 1 .. Len(vols) /\ Len(vols) \in Nat
           /\ \A v \in DOMAIN vols : vols[v] \in Volume
  BY DEF TypeOK

LEMMA ClosedSelf ==
    ASSUME TypeOK, self.root = NULL, ~self.dir
    PROVE  self = [volume |-> self.volume, root |-> NULL, dir |-> FALSE]
<1>1. self.dir = FALSE
  BY SelfFields
<1>2. QED
  BY SelfFields, <1>1

------------------------------------------------------------------------------
(* The invariant holds initially, and every step keeps it. *)

LEMMA InitInv ==
    ASSUME Init
    PROVE  IInv
<1>1. ChainTypeOK
  BY DisksAssumption DEF Init, ChainTypeOK
<1>2. vols \in Seq(Volume) /\ DOMAIN vols = {}
  BY DEF Init
<1>3. TypeOK
  <2>1. self \in [volume : DOMAIN vols \union {NULL},
                 root : {OwnRoot, NULL} \union DOMAIN vols, dir : BOOLEAN]
    BY DEF Init
  <2>2. /\ cursor \in Nat \ {0} /\ slot \in 1 .. 5 /\ open = {} /\ present = Device
        /\ chosen = NULL /\ hint = NULL /\ twice = FALSE /\ pc = "boot" /\ back = "drivers"
    BY DEF Init
  <2>3. QED
    BY <1>1, <1>2, <2>1, <2>2 DEF TypeOK
<1>4. HandlesAreHeld
  <2>1. Roots(vols) = {} /\ SelfHandles = {}
    BY <1>2 DEF Init, Roots, SelfHandles
  <2>2. QED
    BY <2>1 DEF Init, HandlesAreHeld
<1>5. Phases
  BY DEF Init, Phases
<1>6. QED
  BY <1>3, <1>4, <1>5 DEF IInv

LEMMA InitRefitLibInv ==
    ASSUME IInv, InitRefitLib
    PROVE  IInv'
<1>1. /\ vols = <<>> /\ vols' = vols /\ open = {} /\ pc = "boot" /\ TypeOK /\ back = "drivers"
      /\ walk = NULL
  BY DEF InitRefitLib, IInv, Phases
<1>2. self = [volume |-> self.volume, root |-> NULL, dir |-> FALSE]
  BY <1>1, ClosedSelf DEF IInv, Phases
<1>3. FinishInitRefitLib(NULL, {})
  BY DEF InitRefitLib
<1>4. /\ open' = SelfHandles'
      /\ \E r \in {OwnRoot, NULL}, dir \in BOOLEAN :
            self' = [volume |-> self.volume, root |-> r, dir |-> dir]
  BY <1>2, <1>3, FinishInitHolds
<1>5. Iter \notin open' /\ open' \subseteq {OwnRoot, Dir}
  BY <1>4 DEF SelfHandles, OwnRoot, Dir, Iter
<1>6. TypeOK'
  <2>1. ChainTypeOK'
    BY <1>1 DEF TypeOK, InitRefitLib, chainVars, ChainTypeOK
  <2>2. self' \in [volume : DOMAIN vols' \union {NULL},
                  root : {OwnRoot, NULL} \union DOMAIN vols', dir : BOOLEAN]
    BY <1>1, <1>4, SelfFields
  <2>3. pc' \in {"drivers", "off"}
    BY DEF InitRefitLib
  <2>4. QED
    BY <1>1, <1>5, <2>1, <2>2, <2>3 DEF TypeOK, InitRefitLib, scanVars
<1>7. HandlesAreHeld'
  <2>1. Roots(vols') = {}
    BY <1>1 DEF Roots
  <2>2. open' \ {Iter} = open'
    BY <1>5
  <2>3. QED
    BY <1>4, <2>1, <2>2 DEF HandlesAreHeld
<1>8. Phases'
  BY <1>1, <1>5 DEF Phases, InitRefitLib, chainVars
<1>9. QED
  BY <1>6, <1>7, <1>8 DEF IInv

LEMMA StartImageInv ==
    ASSUME IInv, StartImage
    PROVE  IInv'
<1>1. TypeOK /\ HandlesAreHeld /\ Phases /\ pc = "load" /\ UninitRefitLib /\ walk = NULL
  BY DEF IInv, StartImage, Phases
<1>2. /\ vols' \in Seq(Volume) /\ DOMAIN vols' = DOMAIN vols /\ Roots(vols') = {}
  <2>1. \A v \in DOMAIN vols : UninitVolumes(vols[v]) \in Volume /\ ~UninitVolumes(vols[v]).root
    BY <1>1, VolumesTyped, VolumeUpdates
  <2>2. vols' = [v \in 1 .. Len(vols) |-> UninitVolumes(vols[v])] /\ Len(vols) \in Nat
        /\ DOMAIN vols = 1 .. Len(vols)
    BY <1>1 DEF UninitRefitLib, TypeOK
  <2>3. QED
    BY <2>1, <2>2 DEF Roots
<1>3. self' = [volume |-> self.volume, root |-> NULL, dir |-> FALSE]
  BY <1>1, SelfFields DEF UninitRefitLib
<1>4. SelfHandles' = {}
  BY <1>3 DEF SelfHandles
<1>5. open' \subseteq {Iter} /\ open' \subseteq open
  BY <1>1 DEF UninitRefitLib, HandlesAreHeld
<1>6. TypeOK'
  <2>1. ChainTypeOK'
    BY <1>1 DEF TypeOK, StartImage, chainVars, ChainTypeOK
  <2>2. self' \in [volume : DOMAIN vols' \union {NULL},
                  root : {OwnRoot, NULL} \union DOMAIN vols', dir : BOOLEAN]
    BY <1>1, <1>2, <1>3, SelfFields
  <2>3. pc' \in {"running", "crashed"}
    BY DEF StartImage
  <2>4. twice' \in BOOLEAN
    BY <1>1 DEF UninitRefitLib, TypeOK
  <2>5. QED
    BY <1>1, <1>2, <1>5, <2>1, <2>2, <2>3, <2>4 DEF TypeOK, StartImage, scanVars
<1>7. HandlesAreHeld'
  BY <1>2, <1>4, <1>5 DEF HandlesAreHeld
<1>8. Phases'
  <2>1. pc' \in {"running", "crashed"}
    BY DEF StartImage
  <2>2. self'.root = NULL /\ ~self'.dir
    BY <1>3
  <2>3. Iter \notin Roots(vols) /\ Iter \notin SelfHandles
    <3>1. Iter \notin DOMAIN vols /\ Iter # OwnRoot /\ Iter # Dir
      BY DEF IInv, TypeOK, Iter, OwnRoot, Dir
    <3>2. self.root \in {OwnRoot, NULL} \union DOMAIN vols
      BY DEF IInv, TypeOK
    <3>3. QED
      BY <3>1, <3>2 DEF Roots, SelfHandles
  <2>4. Iter \in open => Iter \in open'
    BY <1>1, <2>3 DEF UninitRefitLib
  <2>5. QED
    BY <1>1, <1>2, <1>5, <2>1, <2>2, <2>4 DEF Phases, StartImage, chainVars
<1>9. QED
  BY <1>6, <1>7, <1>8 DEF IInv

LEMMA ProgramReturnsInv ==
    ASSUME IInv, ProgramReturns
    PROVE  IInv'
<1>1. /\ TypeOK /\ HandlesAreHeld /\ Phases /\ pc = "running" /\ walk = NULL
      /\ Roots(vols) = {} /\ self.root = NULL /\ ~self.dir
  BY DEF IInv, ProgramReturns, Phases
<1>2. PICK opens \in SUBSET DOMAIN vols : ReinitRefitLib(opens)
  BY DEF ProgramReturns
<1>3. vols' \in Seq(Volume) /\ DOMAIN vols' = DOMAIN vols
  <2>1. ASSUME NEW v \in DOMAIN vols
        PROVE  ReinitVolumes(vols[v], v \in opens) \in Volume
    <3>1. vols[v] \in Volume
      BY <1>1, VolumesTyped
    <3>2. (v \in opens) \in BOOLEAN
      OBVIOUS
    <3>3. QED
      BY <3>1, <3>2, VolumeUpdates
  <2>2. vols' = [v \in 1 .. Len(vols) |-> ReinitVolumes(vols[v], v \in opens)]
        /\ Len(vols) \in Nat /\ DOMAIN vols = 1 .. Len(vols)
    BY <1>1, <1>2 DEF ReinitRefitLib, TypeOK
  <2>3. QED
    BY <2>1, <2>2
<1>4. self = [volume |-> self.volume, root |-> NULL, dir |-> FALSE]
  BY <1>1, ClosedSelf
<1> DEFINE root == IF self.volume # NULL /\ vols'[self.volume].root THEN self.volume ELSE self.root
<1>5. FinishInitRefitLib(root, open \union Roots(vols'))
  BY <1>2 DEF ReinitRefitLib
<1>6. root \in DOMAIN vols' \union {NULL}
  BY <1>1, <1>3, SelfFields
<1> HIDE DEF root
<1>7. /\ open' = (open \union Roots(vols')) \union SelfHandles'
      /\ \E r \in {OwnRoot, NULL, root}, dir \in BOOLEAN :
            self' = [volume |-> self.volume, root |-> r, dir |-> dir]
  BY <1>4, <1>5, FinishInitHolds
<1>8. self' \in [volume : DOMAIN vols' \union {NULL},
                root : {OwnRoot, NULL} \union DOMAIN vols', dir : BOOLEAN]
  BY <1>1, <1>3, <1>6, <1>7, SelfFields
<1>9. /\ open \subseteq {Iter} /\ Roots(vols') \subseteq DOMAIN vols'
      /\ SelfHandles' \subseteq {OwnRoot, Dir} \union DOMAIN vols'
  <2>1. open \ {Iter} = {}
    BY <1>1 DEF HandlesAreHeld, SelfHandles
  <2>2. SelfHandles' \subseteq {OwnRoot, Dir} \union DOMAIN vols'
    BY <1>8 DEF SelfHandles
  <2>3. QED
    BY <2>1, <2>2 DEF Roots
<1>10. Iter \notin Roots(vols') /\ Iter \notin SelfHandles'
  <2>1. Iter \notin DOMAIN vols'
    BY <1>3 DEF Iter
  <2>2. QED
    BY <1>9, <2>1 DEF OwnRoot, Dir, Iter
<1>11. TypeOK'
  <2>1. ChainTypeOK'
    BY <1>1 DEF TypeOK, ProgramReturns, chainVars, ChainTypeOK
  <2>2. open' \subseteq {OwnRoot, Dir, Iter} \union DOMAIN vols'
    BY <1>7, <1>9
  <2>3. pc' \in {"drivers", "menu"}
    BY <1>1 DEF ProgramReturns, TypeOK
  <2>4. twice' = twice
    BY <1>2 DEF ReinitRefitLib
  <2>5. QED
    BY <1>1, <1>3, <1>8, <2>1, <2>2, <2>3, <2>4 DEF TypeOK, ProgramReturns, scanVars
<1>12. HandlesAreHeld'
  <2>1. open' \ {Iter} = Roots(vols') \union SelfHandles'
    BY <1>7, <1>9, <1>10
  <2>2. QED
    BY <2>1 DEF HandlesAreHeld
<1>13. Phases'
  <2>1. Iter \in open' => Iter \in open
    BY <1>7, <1>10
  <2>2. pc' = back /\ back' = back /\ back \in {"drivers", "menu"} /\ walk' = NULL
    BY <1>1 DEF ProgramReturns, chainVars, TypeOK
  <2>3. QED
    BY <1>1, <2>1, <2>2 DEF Phases
<1>14. QED
  BY <1>11, <1>12, <1>13 DEF IInv

(* The steps that open and close no file. *)
Quiet == \/ StartProgram \/ LoadFails \/ ProgramWorks \/ ProgramStays \/ StartDriver
         \/ ScanSecondPass \/ ScanMbrEntry \/ ScanEnds \/ ActivateMbrPartition
         \/ WalkBreaks \/ StartLegacy \/ LegacyLoad \/ Leave

LEMMA QuietChain ==
    ASSUME IInv, Quiet
    PROVE  ChainTypeOK'
<1>1. ChainTypeOK /\ TypeOK
  BY DEF IInv, TypeOK
<1>2. CASE ScanMbrEntry
  <2>1. CASE UNCHANGED walk
    BY <1>1, <1>2, <2>1 DEF ChainTypeOK, ScanMbrEntry
  <2>2. CASE \E t \in Tables, i \in Entries : StartScan(t[i].start)
    <3>1. PICK t \in Tables, i \in Entries : StartScan(t[i].start)
      BY <2>2
    <3>2. t[i].start \in Nat
      BY EntryFields DEF Tables
    <3>3. walk' \in {NULL, [fn |-> "scan", base |-> t[i].start, at |-> t[i].start,
                           index |-> 4, target |-> NULL]}
      BY <3>1 DEF StartScan
    <3>4. [fn |-> "scan", base |-> t[i].start, at |-> t[i].start, index |-> 4, target |-> NULL]
            \in Walking
      BY <3>2 DEF Walking
    <3>5. QED
      BY <1>1, <1>2, <3>3, <3>4 DEF ChainTypeOK, ScanMbrEntry
  <2>3. vols[cursor].table \in Tables \union {NULL}
    <3>1. cursor \in DOMAIN vols
      BY <1>1, <1>2, VolumesTyped DEF ScanMbrEntry, TypeOK
    <3>2. vols[cursor] \in Volume
      BY <1>1, <3>1, VolumesTyped
    <3>3. QED
      BY <3>2 DEF Volume, Tables
  <2>4. \/ UNCHANGED walk
        \/ /\ vols[cursor].table # NULL /\ slot \in Entries
           /\ StartScan(vols[cursor].table[slot].start)
    BY <1>2 DEF ScanMbrEntry, Extended
  <2>5. QED
    BY <2>1, <2>2, <2>3, <2>4
<1>3. CASE ProgramWorks
  <2>1. CASE disk' = disk
    BY <1>1, <1>3, <2>1 DEF ChainTypeOK, ProgramWorks
  <2>2. CASE disk' \in Disks
    BY <1>1, <1>3, <2>2, DisksAssumption DEF ChainTypeOK, ProgramWorks
  <2>3. QED
    BY <1>3, <2>1, <2>2 DEF ProgramWorks
<1>4. CASE ActivateMbrPartition
  BY <1>1, <1>4, EmbrStepType DEF ActivateMbrPartition
<1>5. CASE WalkBreaks
  BY <1>1, <1>5, WalkBreaksType DEF WalkBreaks
<1>6. CASE StartLegacy
  <2>1. PICK v \in DOMAIN vols :
           \/ UNCHANGED chainVars
           \/ vols[v].index # NULL /\ (Activate(vols[v].index) \/ ActivateFails)
    BY <1>6 DEF StartLegacy
  <2>2. vols[v].index \in Nat \union {NULL}
    BY <1>1, VolumesTyped, VolumeUpdates
  <2>3. QED
    <3>1. CASE UNCHANGED chainVars
      BY <1>1, <3>1 DEF ChainTypeOK, chainVars
    <3>2. CASE vols[v].index \in Nat /\ (Activate(vols[v].index) \/ ActivateFails)
      BY <1>1, <3>2, ActivateType
    <3>3. QED
      BY <2>1, <2>2, <3>1, <3>2
<1>7. CASE \/ StartProgram \/ LoadFails \/ ProgramStays \/ StartDriver
           \/ ScanSecondPass \/ ScanEnds \/ LegacyLoad \/ Leave
  <2>1. UNCHANGED chainVars
    BY <1>7 DEF StartProgram, LoadFails, ProgramStays, StartDriver, ScanSecondPass, ScanEnds,
                LegacyLoad, Leave
  <2>2. QED
    BY <1>1, <2>1 DEF ChainTypeOK, chainVars
<1>8. QED
  BY <1>2, <1>3, <1>4, <1>5, <1>6, <1>7 DEF Quiet

LEMMA QuietInv ==
    ASSUME IInv, Quiet
    PROVE  IInv'
<1>1. TypeOK /\ HandlesAreHeld /\ Phases /\ ChainTypeOK'
  BY QuietChain DEF IInv
<1>2. UNCHANGED <<vols, self, open, twice>>
  BY DEF Quiet, StartProgram, LoadFails, ProgramWorks, ProgramStays, StartDriver, ScanSecondPass,
         ScanMbrEntry, ScanEnds, ActivateMbrPartition, WalkBreaks, StartLegacy, LegacyLoad, Leave,
         fileVars
<1>3. HandlesAreHeld'
  BY <1>1, <1>2, FilesKept
<1>4. /\ pc' \in {pc, back, "load", "off", "relate", "menu", "legacy", "crashed"}
      /\ back' \in {back, "menu", "drivers"}
      /\ cursor' \in {cursor, 1} /\ slot' \in {slot, slot + 1}
      /\ slot' = slot + 1 => slot <= 4
      /\ present' \subseteq Device
  BY <1>1 DEF Quiet, StartProgram, LoadFails, ProgramWorks, ProgramStays, StartDriver,
         ScanSecondPass, ScanMbrEntry, ScanEnds, ActivateMbrPartition, WalkBreaks, StartLegacy,
         LegacyLoad, Leave, scanVars, Hardware, TypeOK
<1>5. chosen' \in DOMAIN vols \union {NULL}
  BY <1>1 DEF Quiet, StartProgram, LoadFails, ProgramWorks, ProgramStays, StartDriver,
         ScanSecondPass, ScanMbrEntry, ScanEnds, ActivateMbrPartition, WalkBreaks, StartLegacy,
         LegacyLoad, Leave, TypeOK
<1>6. hint' \in Device \union {NULL}
  <2>1. CASE LegacyLoad
    <3>1. chosen \in DOMAIN vols
      BY <1>1, <2>1 DEF LegacyLoad, TypeOK, Phases
    <3>2. vols[chosen].path \in Device \union {NULL}
      BY <1>1, <3>1, VolumesTyped, VolumeUpdates
    <3>3. hint' \in {hint} \union {p \in {vols[chosen].path} : p # NULL}
      BY <2>1 DEF LegacyLoad
    <3>4. QED
      BY <1>1, <3>2, <3>3 DEF TypeOK
  <2>2. CASE ~LegacyLoad
    <3>1. hint' = hint
      BY <2>2 DEF Quiet, StartProgram, LoadFails, ProgramWorks, ProgramStays, StartDriver,
             ScanSecondPass, ScanMbrEntry, ScanEnds, ActivateMbrPartition, WalkBreaks,
             StartLegacy, Leave
    <3>2. QED
      BY <1>1, <3>1 DEF TypeOK
  <2>3. QED
    BY <2>1, <2>2
<1>7. TypeOK'
  <2>1. cursor' \in Nat \ {0} /\ slot' \in 1 .. 5
    BY <1>1, <1>4 DEF TypeOK
  <2>2. QED
    BY <1>1, <1>2, <1>4, <1>5, <1>6, <2>1 DEF TypeOK
<1>8. Phases'
  <2>1. CASE StartProgram \/ ProgramStays \/ Leave \/ ScanEnds \/ LegacyLoad
    BY <1>1, <2>1, VolumesTyped DEF Phases, StartProgram, ProgramStays, Leave, ScanEnds,
             LegacyLoad, chainVars, fileVars, TypeOK, scanVars
  <2>2. CASE StartDriver
    BY <1>1, <2>2 DEF Phases, StartDriver, chainVars, fileVars
  <2>3. CASE LoadFails
    BY <1>1, <2>3 DEF Phases, LoadFails, chainVars, fileVars, TypeOK
  <2>4. CASE ProgramWorks
    BY <1>1, <2>4 DEF Phases, ProgramWorks, fileVars, Roots
  <2>5. CASE ScanSecondPass
    BY <1>1, <2>5 DEF Phases, ScanSecondPass, chainVars, fileVars
  <2>6. CASE ScanMbrEntry
    BY <1>1, <2>6, VolumesTyped DEF Phases, ScanMbrEntry, fileVars, TypeOK
  <2>7. CASE ActivateMbrPartition
    BY <1>1, <2>7 DEF Phases, ActivateMbrPartition, fileVars, scanVars
  <2>8. CASE WalkBreaks
    <3>1. walk' = NULL
      BY <2>8 DEF WalkBreaks, ScanBreaks, ActivateEmbrFails, End
    <3>2. QED
      BY <1>1, <2>8, <3>1 DEF Phases, WalkBreaks, fileVars, scanVars, Roots
  <2>9. CASE StartLegacy
    <3>1. pc' \in {"legacy", "crashed"} /\ (walk' # NULL => pc' = "legacy") /\ pc = "menu"
      BY <1>1, <2>9 DEF StartLegacy, chainVars, Phases
    <3>2. chosen' \in DOMAIN vols /\ NULL \notin DOMAIN vols
      BY <1>1, <2>9, VolumesTyped, DisksAssumption DEF StartLegacy
    <3>3. QED
      BY <1>1, <2>9, <3>1, <3>2 DEF Phases, StartLegacy, fileVars, scanVars
  <2>10. QED
    BY <2>1, <2>2, <2>3, <2>4, <2>5, <2>6, <2>7, <2>8, <2>9 DEF Quiet
<1>9. QED
  BY <1>3, <1>7, <1>8 DEF IInv

(* The steps that open and close single files, and those that add volumes. *)

LEMMA DriverDirInv ==
    ASSUME IInv, OpenDriverDir \/ CloseDriverDir
    PROVE  IInv'
<1>1. TypeOK /\ HandlesAreHeld /\ Phases
  BY DEF IInv
<1>2. /\ UNCHANGED <<back, vols, self, twice, chosen, hint, present, chainVars>>
      /\ open' \ {Iter} = open \ {Iter} /\ open' \subseteq open \union {Iter}
      /\ pc = "drivers" /\ pc' \in {"drivers", "crashed", "scan"}
      /\ pc' = "scan" => Iter \notin open'
      /\ cursor' \in {cursor, 1, 2} /\ slot' \in {1, 2}
  BY DEF OpenDriverDir, CloseDriverDir
<1>3. TypeOK'
  <2>1. ChainTypeOK'
    BY <1>1, <1>2 DEF TypeOK, chainVars, ChainTypeOK
  <2>2. cursor' \in Nat \ {0} /\ slot' \in 1 .. 5
    BY <1>1, <1>2 DEF TypeOK
  <2>3. QED
    BY <1>1, <1>2, <2>1, <2>2 DEF TypeOK
<1>4. HandlesAreHeld'
  BY <1>1, <1>2 DEF HandlesAreHeld, Roots, SelfHandles
<1>5. Phases'
  BY <1>1, <1>2 DEF Phases, chainVars
<1>6. QED
  BY <1>3, <1>4, <1>5 DEF IInv

(* Volumes added behind the others leave the file handles of those alone. *)
LEMMA VolumesAdded ==
    ASSUME TypeOK, NEW new \in Seq(Volume), vols' = vols \o new
    PROVE  /\ vols' \in Seq(Volume) /\ DOMAIN vols \subseteq DOMAIN vols'
           /\ Roots(vols') = Roots(vols) \union {Len(vols) + i : i \in Roots(new)}
<1>1. /\ vols \in Seq(Volume) /\ Len(vols) \in Nat /\ Len(new) \in Nat
      /\ DOMAIN vols = 1 .. Len(vols) /\ DOMAIN new = 1 .. Len(new)
  BY DEF TypeOK
<1>2. /\ vols' \in Seq(Volume) /\ DOMAIN vols' = 1 .. Len(vols) + Len(new)
      /\ \A v \in 1 .. Len(vols) : vols'[v] = vols[v]
      /\ \A i \in 1 .. Len(new) : vols'[Len(vols) + i] = new[i]
  BY <1>1
<1>3. \A v \in DOMAIN vols' : v \in DOMAIN vols \/ v - Len(vols) \in DOMAIN new
  BY <1>1, <1>2
<1>4. ASSUME NEW v \in Roots(vols')
      PROVE  v \in Roots(vols) \union {Len(vols) + i : i \in Roots(new)}
  <2>1. v \in DOMAIN vols' /\ vols'[v].root
    BY DEF Roots
  <2>2. CASE v \in DOMAIN vols
    BY <1>1, <1>2, <2>1, <2>2 DEF Roots
  <2>3. CASE v - Len(vols) \in DOMAIN new
    <3>1. PICK i \in DOMAIN new : i = v - Len(vols)
      BY <2>3
    <3>2. v = Len(vols) + i
      BY <1>1, <1>2, <2>1, <3>1
    <3>3. i \in Roots(new)
      BY <1>1, <1>2, <2>1, <3>2 DEF Roots
    <3>4. QED
      BY <3>2, <3>3
  <2>4. QED
    BY <1>3, <2>1, <2>2, <2>3
<1>5. ASSUME NEW v \in Roots(vols)
      PROVE  v \in Roots(vols')
  BY <1>1, <1>2 DEF Roots
<1>6. ASSUME NEW i \in Roots(new)
      PROVE  Len(vols) + i \in Roots(vols')
  <2>1. i \in DOMAIN new /\ new[i].root
    BY DEF Roots
  <2>2. Len(vols) + i \in DOMAIN vols' /\ vols'[Len(vols) + i] = new[i]
    BY <1>1, <1>2, <2>1
  <2>3. QED
    BY <2>1, <2>2 DEF Roots
<1>7. QED
  BY <1>1, <1>2, <1>4, <1>5, <1>6


LEMMA ScanVolumeInv ==
    ASSUME IInv, ScanVolume
    PROVE  IInv'
<1>1. /\ TypeOK /\ HandlesAreHeld /\ Phases /\ pc = "scan" /\ walk = NULL
      /\ back = "drivers" /\ Iter \notin open
  BY DEF IInv, ScanVolume, Phases
<1>2. UNCHANGED <<pc, back, slot, twice, chosen, hint, present, chainVars>> /\ cursor' = cursor + 1
  BY DEF ScanVolume
<1>3. ChainTypeOK'
  BY <1>1, <1>2 DEF TypeOK, chainVars, ChainTypeOK
<1> DEFINE Files2 == /\ vols' \in Seq(Volume) /\ DOMAIN vols \subseteq DOMAIN vols'
                     /\ self'.root = self.root /\ self'.dir = self.dir
                     /\ self' \in [volume : DOMAIN vols' \union {NULL},
                                   root : {OwnRoot, NULL} \union DOMAIN vols', dir : BOOLEAN]
                     /\ open' \ {Iter} = Roots(vols') \union SelfHandles
                     /\ Iter \notin open'
                     /\ open' \subseteq {OwnRoot, Dir, Iter} \union DOMAIN vols'
<1>4. Files2
  <2>1. CASE UNCHANGED <<vols, self, open>>
    BY <1>1, <2>1, FilesKept DEF TypeOK, HandlesAreHeld, Roots
  <2>2. CASE ~ UNCHANGED <<vols, self, open>>
    <3> DEFINE R(root, table) == [device |-> Handles[cursor], handle |-> Handles[cursor],
                                  root |-> root,
                                  whole |-> WholeOf[Handles[cursor]],
                                  path |-> WholeOf[Handles[cursor]],
                                  table |-> table, index |-> NULL, start |-> 0]
    <3>1. cursor \in DOMAIN Handles /\ Handles[cursor] \in Device
      BY <1>1, VolumesAssumption DEF ScanVolume, TypeOK, Device
    <3>2. PICK root \in BOOLEAN,
               table \in {NULL} \union {t \in {disk[0]} : Handles[cursor] = MbrDisk /\ HasTable(t)} :
            /\ vols' = Append(vols, R(root, table))
            /\ self' = IF Handles[cursor] = Self THEN [self EXCEPT !.volume = Len(vols')] ELSE self
            /\ open' = open \union {h \in {Len(vols')} : root}
      BY <2>2 DEF ScanVolume
    <3>3. table \in {NULL} \union Tables
      BY <1>1, <3>2 DEF TypeOK, ChainTypeOK, Tables
    <3>4. WholeOf[Handles[cursor]] \in Device \union {NULL}
      BY <3>1, VolumesAssumption
    <3>5. R(root, table) \in Volume /\ R(root, table).root = root
      BY <3>1, <3>2, <3>3, <3>4 DEF Volume, Tables
    <3> HIDE DEF R
    <3>6. <<R(root, table)>> \in Seq(Volume) /\ vols' = vols \o <<R(root, table)>>
      BY <1>1, <3>2, <3>5 DEF TypeOK
    <3>7. Len(vols') = Len(vols) + 1 /\ Len(vols) \in Nat /\ DOMAIN vols' = 1 .. Len(vols')
      BY <1>1, <3>2, <3>5 DEF TypeOK
    <3>8. /\ vols' \in Seq(Volume) /\ DOMAIN vols \subseteq DOMAIN vols'
          /\ Roots(vols') = Roots(vols) \union {Len(vols) + i : i \in Roots(<<R(root, table)>>)}
      BY <1>1, <3>6, VolumesAdded
    <3>9. Roots(<<R(root, table)>>) = {i \in {1} : root}
      BY <3>5 DEF Roots
    <3>10. Roots(vols') = Roots(vols) \union {h \in {Len(vols')} : root}
      BY <3>7, <3>8, <3>9
    <3>11. Len(vols') # Iter /\ Len(vols') \in DOMAIN vols'
      BY <3>7 DEF Iter
    <3>12. open' \ {Iter} = Roots(vols') \union SelfHandles /\ Iter \notin open'
           /\ open' \subseteq {OwnRoot, Dir, Iter} \union DOMAIN vols'
      BY <1>1, <3>2, <3>8, <3>10, <3>11 DEF HandlesAreHeld, TypeOK
    <3>13. /\ self'.root = self.root /\ self'.dir = self.dir
           /\ self' \in [volume : DOMAIN vols' \union {NULL},
                         root : {OwnRoot, NULL} \union DOMAIN vols', dir : BOOLEAN]
      BY <1>1, <3>2, <3>8, <3>11 DEF TypeOK
    <3>14. QED
      BY <3>8, <3>12, <3>13
  <2>3. QED
    BY <2>1, <2>2
<1>5. HandlesAreHeld'
  <2>1. SelfHandles' = SelfHandles
    BY <1>4 DEF SelfHandles
  <2>2. QED
    BY <1>4, <2>1 DEF HandlesAreHeld
<1>6. TypeOK'
  <2>1. cursor' \in Nat \ {0}
    BY <1>1, <1>2 DEF TypeOK
  <2>2. QED
    BY <1>1, <1>2, <1>3, <1>4, <2>1 DEF TypeOK
<1>7. Phases'
  BY <1>1, <1>2, <1>4 DEF Phases, chainVars
<1>8. QED
  BY <1>5, <1>6, <1>7 DEF IInv

LEMMA ScanExtendedPartitionInv ==
    ASSUME IInv, ScanExtendedPartition
    PROVE  IInv'
<1>1. /\ TypeOK /\ HandlesAreHeld /\ Phases /\ ChainTypeOK /\ ScanEmbr /\ pc = "relate"
      /\ walk # NULL /\ Readable
  BY DEF IInv, TypeOK, ScanExtendedPartition, ScanEmbr, Readable
<1>2. UNCHANGED <<pc, back, scanVars, fileVars, chosen, hint, present>>
  BY DEF ScanExtendedPartition
<1>3. ChainTypeOK'
  BY <1>1, EmbrStepType
<1> DEFINE new == [i \in DOMAIN Found |-> LogicalVolume(Found[i])]
           n == Stop(disk[walk.at]) - 1
<1>4. n \in Nat /\ n <= 4
  BY StopInRange
<1>5. DOMAIN Found = 1 .. n
  BY DEF Found, Logical
<1>6. cursor \in DOMAIN vols /\ vols[cursor] \in Volume
  BY <1>1, VolumesTyped DEF Phases
<1>7. ASSUME NEW i \in DOMAIN Found
      PROVE  LogicalVolume(Found[i]) \in Volume /\ ~LogicalVolume(Found[i]).root
  <2>1. /\ walk.at \in Nat /\ walk.index \in Nat /\ disk[walk.at] \in Tables
    BY <1>1 DEF ChainTypeOK, Walking, Readable, Tables
  <2>2. i \in Entries
    BY <1>4, <1>5 DEF Entries
  <2>3. disk[walk.at][i].start \in Nat
    BY <2>1, <2>2, EntryFields DEF Tables
  <2>4. Found[i] = [index |-> walk.index + i - 1, start |-> walk.at + disk[walk.at][i].start]
    BY DEF Found, Logical
  <2>5. Found[i].index \in Nat /\ Found[i].start \in Nat
    BY <2>1, <2>2, <2>3, <2>4 DEF Entries
  <2>6. vols[cursor].device \in Device \union {NULL}
    BY <1>6, VolumeUpdates
  <2>7. QED
    BY <2>5, <2>6 DEF LogicalVolume, Volume
<1> HIDE DEF n
<1>8. new \in Seq(Volume) /\ Roots(new) = {}
  BY <1>4, <1>5, <1>7 DEF Roots
<1>9. vols' = vols \o new
  BY DEF ScanExtendedPartition
<1> HIDE DEF new
<1>10. vols' \in Seq(Volume) /\ DOMAIN vols \subseteq DOMAIN vols' /\ Roots(vols') = Roots(vols)
  BY <1>1, <1>8, <1>9, VolumesAdded
<1>11. HandlesAreHeld'
  BY <1>1, <1>2, <1>10 DEF HandlesAreHeld, SelfHandles, fileVars
<1>12. TypeOK'
  <2>1. self' \in [volume : DOMAIN vols' \union {NULL},
                  root : {OwnRoot, NULL} \union DOMAIN vols', dir : BOOLEAN]
    BY <1>1, <1>2, <1>10 DEF TypeOK, fileVars
  <2>2. open' \subseteq {OwnRoot, Dir, Iter} \union DOMAIN vols'
        /\ chosen' \in DOMAIN vols' \union {NULL}
    BY <1>1, <1>2, <1>10 DEF TypeOK, fileVars
  <2>3. QED
    BY <1>1, <1>2, <1>3, <1>10, <2>1, <2>2 DEF TypeOK, fileVars, scanVars
<1>13. Phases'
  BY <1>1, <1>2, <1>10 DEF Phases, fileVars, scanVars
<1>14. QED
  BY <1>11, <1>12, <1>13 DEF IInv

LEMMA RelateVolumeInv ==
    ASSUME IInv, RelateVolume
    PROVE  IInv'
<1>1. /\ TypeOK /\ HandlesAreHeld /\ Phases /\ pc = "relate" /\ walk = NULL
      /\ UNCHANGED <<pc, back, fileVars, chosen, hint, present, chainVars>>
      /\ cursor' = cursor + 1 /\ slot' = 1
  BY DEF IInv, RelateVolume
<1>2. cursor \in DOMAIN vols /\ vols[cursor] \in Volume
  BY <1>1, VolumesTyped DEF RelateVolume, TypeOK
<1>3. /\ vols' \in Seq(Volume) /\ DOMAIN vols' = DOMAIN vols
      /\ \A v \in DOMAIN vols : vols'[v].root = vols[v].root
  <2>1. CASE vols' = vols
    BY <1>1, <2>1 DEF TypeOK
  <2>2. CASE vols' # vols
    <3>1. PICK a \in {Associated(vols[cursor])} \ {{}} :
             vols' = [vols EXCEPT ![cursor].index = Min(a) - 1,
                                  ![cursor].start = StartOf[vols[cursor].device]]
      BY <2>2 DEF RelateVolume
    <3>2. a \subseteq Entries /\ a # {} /\ vols[cursor].device # NULL
      BY <3>1 DEF Associated, Matches
    <3>3. Min(a) \in Entries
      <4>1. a \in SUBSET Nat
        BY <3>2 DEF Entries
      <4>2. Min(a) \in a
        BY <3>2, <4>1, MinOfNaturals
      <4>3. QED
        BY <3>2, <4>2
    <3>4. Min(a) - 1 \in Nat
      BY <3>3 DEF Entries
    <3>5. StartOf[vols[cursor].device] \in Nat
      BY <1>2, <3>2, VolumeUpdates, VolumesAssumption
    <3>6. PICK i \in Nat, s \in Nat :
             vols' = [vols EXCEPT ![cursor].index = i, ![cursor].start = s]
      BY <3>1, <3>4, <3>5
    <3>7. vols' = [vols EXCEPT ![cursor] = [vols[cursor] EXCEPT !.index = i, !.start = s]]
      BY <1>2, <3>6
    <3>8. /\ [vols[cursor] EXCEPT !.index = i, !.start = s] \in Volume
          /\ [vols[cursor] EXCEPT !.index = i, !.start = s].root = vols[cursor].root
      BY <1>2, VolumeUpdates
    <3>9. QED
      BY <1>1, <1>2, <3>7, <3>8 DEF TypeOK
  <2>3. QED
    BY <2>1, <2>2
<1>4. Roots(vols') = Roots(vols)
  BY <1>3 DEF Roots
<1>5. HandlesAreHeld'
  BY <1>1, <1>4 DEF HandlesAreHeld, SelfHandles, fileVars
<1>6. TypeOK'
  <2>1. ChainTypeOK'
    BY <1>1 DEF TypeOK, chainVars, ChainTypeOK
  <2>2. cursor' \in Nat \ {0} /\ slot' \in 1 .. 5
    BY <1>1 DEF TypeOK
  <2>3. QED
    BY <1>1, <1>3, <2>1, <2>2 DEF TypeOK, fileVars
<1>7. Phases'
  BY <1>1 DEF Phases, fileVars, chainVars
<1>8. QED
  BY <1>5, <1>6, <1>7 DEF IInv

LEMMA NextInv ==
    ASSUME IInv, [Next]_vars
    PROVE  IInv'
<1>1. CASE UNCHANGED vars
  <2>1. ChainTypeOK' /\ HandlesAreHeld'
    BY <1>1, FilesKept DEF IInv, TypeOK, vars, chainVars, fileVars, ChainTypeOK
  <2>2. TypeOK'
    BY <1>1, <2>1 DEF IInv, TypeOK, vars, chainVars, fileVars, scanVars
  <2>3. Phases'
    BY <1>1 DEF IInv, Phases, vars, chainVars, fileVars, scanVars, Roots
  <2>4. QED
    BY <2>1, <2>2, <2>3 DEF IInv
<1>2. CASE Quiet
  BY <1>2, QuietInv
<1>3. CASE InitRefitLib
  BY <1>3, InitRefitLibInv
<1>4. CASE OpenDriverDir \/ CloseDriverDir
  BY <1>4, DriverDirInv
<1>5. CASE ScanVolume
  BY <1>5, ScanVolumeInv
<1>6. CASE ScanExtendedPartition
  BY <1>6, ScanExtendedPartitionInv
<1>7. CASE RelateVolume
  BY <1>7, RelateVolumeInv
<1>8. CASE StartImage
  BY <1>8, StartImageInv
<1>9. CASE ProgramReturns
  BY <1>9, ProgramReturnsInv
<1>10. QED
  BY <1>1, <1>2, <1>3, <1>4, <1>5, <1>6, <1>7, <1>8, <1>9
     DEF Next, Files, Scan, Walk, Program, Quiet

(* The invariant the theorems below rest on: pointers and open handles agree,  *)
(* nothing is open while a program runs, and a driver's directory is.          *)
THEOREM RefitVolumesInductive == Spec => []IInv
<1>1. Init => IInv
  BY InitInv
<1>2. IInv /\ [Next]_vars => IInv'
  BY NextInv
<1>3. QED
  BY <1>1, <1>2, PTL DEF Spec

(* Whatever the firmware has and loses, the tables on the disk stay tables    *)
(* and every pointer of rEFIt's points into the volumes it has.               *)
THEOREM RefitVolumesTypeOK == Spec => []TypeOK
<1>1. IInv => TypeOK
  BY DEF IInv
<1>2. QED
  BY <1>1, RefitVolumesInductive, PTL

(* The handles that are open are those rEFIt points to, for any devices and    *)
(* any number of programs and drivers.                                        *)
THEOREM RefitVolumesHandlesAreHeld == Spec => []HandlesAreHeld
<1>1. IInv => HandlesAreHeld
  BY DEF IInv
<1>2. QED
  BY <1>1, RefitVolumesInductive, PTL

(* No program is started with a file of rEFIt's open, except a driver, with    *)
(* the directory it was found in.                                             *)
THEOREM RefitVolumesClosedWhileRunning == Spec => []ClosedWhileRunning
<1>1. IInv => ClosedWhileRunning
  <2> SUFFICES ASSUME IInv, pc = "running"
               PROVE  open \subseteq {Iter} /\ (Iter \in open <=> back = "drivers")
    BY DEF ClosedWhileRunning
  <2>1. Roots(vols) = {} /\ SelfHandles = {} /\ (Iter \in open <=> back = "drivers")
    BY DEF IInv, Phases, SelfHandles
  <2>2. QED
    BY <2>1 DEF IInv, HandlesAreHeld
<1>2. QED
  BY <1>1, RefitVolumesInductive, PTL

------------------------------------------------------------------------------
(* The disks of the volumes. *)

Placed(v) == v.whole \in {NULL} \union present /\ (v.path # NULL => v.whole = Locate(v.path))

(* While a program runs no volume has a disk, so that none keeps one the      *)
(* program may take away; a scan of logical partitions is one of a disk that  *)
(* is there.                                                                  *)
PlacesInv ==
    /\ present \in Hardware
    /\ pc = "running" => \A v \in DOMAIN vols : vols[v].whole = NULL
    /\ pc \notin {"running", "off", "crashed"} => \A v \in DOMAIN vols : Placed(vols[v])
    /\ walk # NULL /\ pc = "relate" => vols[cursor].device \in present

(* The firmware finds a device that is there, or its disk, or nothing.        *)
LEMMA LocateFinds ==
    ASSUME present \in Hardware, NEW d
    PROVE  /\ Locate(d) \in {NULL} \union present
           /\ d \in present => Locate(d) = d
           /\ Locate(NULL) = NULL
<1>1. NULL \notin present
  BY VolumesAssumption DEF Hardware
<1>2. QED
  BY <1>1 DEF Locate

LEMMA ReinitPlaces ==
    ASSUME present \in Hardware, NEW v \in Volume, v.whole = NULL, NEW opens
    PROVE  Placed(ReinitVolumes(v, opens))
<1> DEFINE w == ReinitVolumes(v, opens)
<1>1. w.path = v.path
  BY DEF ReinitVolumes, Volume
<1>2. w.whole = IF Locate(v.path) # NULL THEN Locate(v.path) ELSE NULL
  BY DEF ReinitVolumes, Volume
<1> HIDE DEF w
<1>3. w.whole = Locate(v.path)
  BY <1>2
<1>4. QED
  BY <1>1, <1>3, LocateFinds DEF Placed, w

(* A device that is there comes with the disk it is on.                       *)
LEMMA ScannedIsPlaced ==
    ASSUME present \in Hardware, NEW d \in present, NEW v, v.whole = WholeOf[d], v.path = WholeOf[d]
    PROVE  Placed(v)
<1>1. WholeOf[d] \in present \union {NULL}
  BY DEF Hardware
<1>2. WholeOf[d] # NULL => Locate(WholeOf[d]) = WholeOf[d]
  BY <1>1, LocateFinds
<1>3. QED
  BY <1>1, <1>2 DEF Placed

LEMMA SamePlaces ==
    ASSUME PlacesInv, UNCHANGED <<vols, present>>,
           pc = "running" => pc' \in {"running", "off"},
           pc \in {"off", "crashed"} => pc' \in {"off", "crashed"},
           pc' = "running" => pc = "running",
           walk' # NULL /\ pc' = "relate" => walk # NULL /\ pc = "relate" /\ cursor' = cursor
    PROVE  PlacesInv'
<1>1. \A v : Placed(v)' <=> Placed(v')
  BY DEF Placed, Locate
<1>2. (\A v \in DOMAIN vols : Placed(vols[v]))' <=> \A v \in DOMAIN vols : Placed(vols[v])
  BY DEF Placed, Locate
<1>3. QED
  BY <1>2 DEF PlacesInv

LEMMA QuietPlaces ==
    ASSUME IInv, PlacesInv, Quiet
    PROVE  PlacesInv'
<1>1. Phases /\ TypeOK /\ UNCHANGED vols
  BY DEF IInv, Quiet, StartProgram, LoadFails, ProgramWorks, ProgramStays, StartDriver,
         ScanSecondPass, ScanMbrEntry, ScanEnds, ActivateMbrPartition, WalkBreaks, StartLegacy,
         LegacyLoad, Leave
<1>2. CASE ProgramWorks
  <2>1. pc = "running" /\ pc' = "running" /\ present' \in Hardware
    BY <1>2 DEF ProgramWorks
  <2>2. QED
    BY <1>1, <2>1 DEF PlacesInv
<1>3. CASE ScanMbrEntry
  <2>1. pc = "relate" /\ pc' = pc /\ cursor' = cursor /\ present' = present
    BY <1>3 DEF ScanMbrEntry
  <2>2. CASE IsWholeDisk(vols[cursor])
    <3>1. cursor \in DOMAIN vols
      BY <1>1, <1>3, VolumesTyped DEF ScanMbrEntry, TypeOK
    <3>2. vols[cursor].device \in present
      BY <2>1, <2>2, <3>1 DEF PlacesInv, Placed, IsWholeDisk
    <3>3. QED
      BY <1>1, <2>1, <3>2 DEF PlacesInv, Placed, Locate
  <2>3. CASE ~IsWholeDisk(vols[cursor])
    <3>1. walk' = walk /\ walk = NULL
      BY <1>3, <2>3 DEF ScanMbrEntry
    <3>2. QED
      BY <1>1, <2>1, <3>1, SamePlaces
  <2>4. QED
    BY <2>2, <2>3
<1>4. CASE StartProgram \/ LoadFails \/ ProgramStays \/ StartDriver
  BY <1>1, <1>4, SamePlaces
     DEF StartProgram, LoadFails, ProgramStays, StartDriver, chainVars, Phases, TypeOK
<1>5. CASE ScanSecondPass \/ ScanEnds \/ Leave
  BY <1>1, <1>5, SamePlaces DEF ScanSecondPass, ScanEnds, Leave, chainVars, Phases
<1>6. CASE ActivateMbrPartition \/ StartLegacy \/ LegacyLoad
  BY <1>1, <1>6, SamePlaces DEF ActivateMbrPartition, StartLegacy, LegacyLoad, Phases
<1>7. CASE WalkBreaks
  <2>1. walk' = NULL
    BY <1>7 DEF WalkBreaks, ScanBreaks, ActivateEmbrFails, End
  <2>2. QED
    BY <1>1, <1>7, <2>1, SamePlaces DEF WalkBreaks
<1>8. QED
  BY <1>2, <1>3, <1>4, <1>5, <1>6, <1>7 DEF Quiet

LEMMA ScanVolumePlaces ==
    ASSUME IInv, PlacesInv, ScanVolume
    PROVE  PlacesInv'
<1>1. /\ Phases /\ TypeOK /\ pc = "scan" /\ pc' = pc /\ UNCHANGED <<present, walk>>
  BY DEF IInv, ScanVolume, chainVars
<1>2. CASE vols' = vols
  BY <1>1, <1>2, SamePlaces
<1>3. CASE vols' # vols
  <2>1. PICK v : /\ vols' = Append(vols, v)
                 /\ v.whole = WholeOf[Handles[cursor]] /\ v.path = WholeOf[Handles[cursor]]
                 /\ Handles[cursor] \in present
    <3>1. PICK root, table :
             /\ Handles[cursor] \in present
             /\ vols' = Append(vols, [device |-> Handles[cursor], handle |-> Handles[cursor],
                                      root |-> root, whole |-> WholeOf[Handles[cursor]],
                                      path |-> WholeOf[Handles[cursor]], table |-> table,
                                      index |-> NULL, start |-> 0])
      BY <1>3 DEF ScanVolume
    <3>2. QED
      BY <3>1
  <2>2. Placed(v)
    BY <2>1, ScannedIsPlaced DEF PlacesInv
  <2>3. vols \in Seq(Volume)
    BY <1>1 DEF TypeOK
  <2>4. /\ DOMAIN vols' = 1 .. Len(vols) + 1 /\ DOMAIN vols = 1 .. Len(vols)
        /\ \A w \in DOMAIN vols' : vols'[w] = IF w \in DOMAIN vols THEN vols[w] ELSE v
    BY <2>1, <2>3
  <2>5. \A w \in DOMAIN vols' : Placed(vols'[w])
    BY <1>1, <2>2, <2>4 DEF PlacesInv
  <2>6. (\A w \in DOMAIN vols : Placed(vols[w]))'
    BY <1>1, <2>5 DEF Placed, Locate
  <2>7. QED
    BY <1>1, <2>6 DEF PlacesInv, Phases
<1>4. QED
  BY <1>2, <1>3

LEMMA ScanExtendedPartitionPlaces ==
    ASSUME IInv, PlacesInv, ScanExtendedPartition
    PROVE  PlacesInv'
<1>1. /\ Phases /\ TypeOK /\ pc = "relate" /\ walk # NULL
      /\ UNCHANGED <<pc, present, cursor>>
  BY DEF IInv, ScanExtendedPartition, scanVars, ScanEmbr, Readable
<1> DEFINE new == [i \in DOMAIN Found |-> LogicalVolume(Found[i])]
<1>2. \E n \in Nat : DOMAIN Found = 1 .. n
  <2>1. DOMAIN Found = 1 .. Stop(disk[walk.at]) - 1
    BY DEF Found, Logical
  <2>2. Stop(disk[walk.at]) - 1 \in Nat
    BY StopInRange
  <2>3. QED
    BY <2>1, <2>2
<1>3. cursor \in DOMAIN vols /\ vols[cursor].device \in present
  BY <1>1 DEF Phases, PlacesInv
<1>4. \A i \in DOMAIN new : Placed(new[i]) /\ new[i] = LogicalVolume(Found[i])
  BY <1>3 DEF LogicalVolume, Placed
<1>5. /\ DOMAIN new = DOMAIN Found /\ vols' = vols \o new
      /\ new = [i \in DOMAIN new |-> new[i]]
  BY DEF ScanExtendedPartition
<1> HIDE DEF new
<1>6. vols \in Seq(Volume)
  BY <1>1 DEF TypeOK
<1>7. /\ DOMAIN vols = 1 .. Len(vols) /\ Len(vols) \in Nat
      /\ \A v \in DOMAIN vols : v \in DOMAIN vols' /\ vols'[v] = vols[v]
      /\ \A v \in DOMAIN vols' : \/ v \in DOMAIN vols
                                 \/ \E i \in DOMAIN new : vols'[v] = new[i]
  <2>1. PICK n \in Nat : DOMAIN new = 1 .. n
    BY <1>2, <1>5
  <2>2. \E T : new \in Seq(T)
    <3> DEFINE T == {new[i] : i \in DOMAIN new}
    <3>1. new \in [1 .. n -> T]
      BY <1>5, <2>1
    <3>2. new \in Seq(T)
      BY <3>1
    <3>3. QED
      BY <3>2
  <2>3. Len(new) = n
    BY <2>1, <2>2
  <2>4. DOMAIN vols = 1 .. Len(vols) /\ Len(vols) \in Nat
    BY <1>6
  <2>5. /\ DOMAIN vols' = 1 .. Len(vols) + n
        /\ \A v \in DOMAIN vols' : vols'[v] = IF v <= Len(vols) THEN vols[v]
                                                               ELSE new[v - Len(vols)]
    BY <1>5, <2>3, <2>4
  <2>6. \A v \in DOMAIN vols' : v > Len(vols) => v - Len(vols) \in DOMAIN new
    BY <2>1, <2>4, <2>5
  <2>7. QED
    BY <2>4, <2>5, <2>6
<1>8. \A v \in DOMAIN vols' : Placed(vols'[v])
  BY <1>1, <1>4, <1>7 DEF PlacesInv
<1>9. (\A v \in DOMAIN vols : Placed(vols[v]))'
  BY <1>1, <1>8 DEF Placed, Locate
<1>10. vols'[cursor].device \in present
  BY <1>3, <1>7
<1>11. QED
  BY <1>1, <1>9, <1>10 DEF PlacesInv

LEMMA RelateVolumePlaces ==
    ASSUME IInv, PlacesInv, RelateVolume
    PROVE  PlacesInv'
<1>1. /\ TypeOK /\ pc = "relate" /\ walk = NULL /\ UNCHANGED <<pc, present, walk>>
  BY DEF IInv, RelateVolume, chainVars
<1>2. \A v \in DOMAIN vols : vols[v] \in Volume
  BY <1>1, VolumesTyped
<1>3. /\ DOMAIN vols' = DOMAIN vols
      /\ \A v \in DOMAIN vols : vols'[v].path = vols[v].path /\ vols'[v].whole = vols[v].whole
  <2>1. CASE vols' = vols
    BY <2>1
  <2>2. CASE \E i, s : vols' = [vols EXCEPT ![cursor].index = i, ![cursor].start = s]
    <3>1. PICK i, s : vols' = [vols EXCEPT ![cursor].index = i, ![cursor].start = s]
      BY <2>2
    <3>2. QED
      BY <1>2, <3>1 DEF Volume
  <2>3. QED
    BY <2>1, <2>2 DEF RelateVolume
<1>4. (\A v \in DOMAIN vols : Placed(vols[v]))'
  BY <1>1, <1>3 DEF PlacesInv, Placed, Locate
<1>5. QED
  BY <1>1, <1>4 DEF PlacesInv

LEMMA StartImagePlaces ==
    ASSUME IInv, PlacesInv, StartImage
    PROVE  PlacesInv'
<1>1. /\ TypeOK /\ pc = "load" /\ pc' \in {"running", "crashed"} /\ UNCHANGED present
  BY DEF IInv, StartImage
<1>2. /\ DOMAIN vols' = DOMAIN vols
      /\ \A v \in DOMAIN vols : vols'[v] = UninitVolumes(vols[v])
  BY DEF StartImage, UninitRefitLib
<1>3. \A v \in DOMAIN vols : vols'[v].whole = NULL
  BY <1>1, <1>2, VolumesTyped DEF UninitVolumes, Volume
<1>4. QED
  BY <1>1, <1>2, <1>3 DEF PlacesInv

LEMMA ProgramReturnsPlaces ==
    ASSUME IInv, PlacesInv, ProgramReturns
    PROVE  PlacesInv'
<1>1. /\ TypeOK /\ Phases /\ pc = "running" /\ UNCHANGED <<present, walk>>
      /\ pc' \in {"drivers", "menu"}
  BY DEF IInv, TypeOK, ProgramReturns, chainVars
<1>2. PICK opens \in SUBSET DOMAIN vols :
         vols' = [v \in DOMAIN vols |-> ReinitVolumes(vols[v], v \in opens)]
  BY DEF ProgramReturns, ReinitRefitLib
<1>3. \A v \in DOMAIN vols : vols[v] \in Volume /\ vols[v].whole = NULL
  BY <1>1, VolumesTyped DEF PlacesInv
<1>4. \A v \in DOMAIN vols' : Placed(vols'[v])
  BY <1>2, <1>3, ReinitPlaces DEF PlacesInv
<1>5. (\A v \in DOMAIN vols : Placed(vols[v]))'
  BY <1>1, <1>4 DEF Placed, Locate
<1>6. QED
  BY <1>1, <1>5 DEF PlacesInv

LEMMA PlacesStep ==
    ASSUME IInv, PlacesInv, [Next]_vars
    PROVE  PlacesInv'
<1>1. Phases /\ TypeOK
  BY DEF IInv
<1>2. CASE UNCHANGED vars
  BY <1>2, SamePlaces DEF vars, scanVars, chainVars
<1>3. CASE InitRefitLib \/ OpenDriverDir \/ CloseDriverDir
  <2>1. /\ UNCHANGED <<vols, present, walk>> /\ pc \in {"boot", "drivers"}
        /\ pc' \in {"drivers", "off", "crashed", "scan"}
    BY <1>3 DEF InitRefitLib, OpenDriverDir, CloseDriverDir, chainVars
  <2>2. QED
    BY <2>1, SamePlaces
<1>4. CASE Quiet
  BY <1>4, QuietPlaces
<1>5. CASE ScanVolume \/ ScanExtendedPartition \/ RelateVolume
  BY <1>5, ScanVolumePlaces, ScanExtendedPartitionPlaces, RelateVolumePlaces
<1>6. CASE StartImage \/ ProgramReturns
  BY <1>6, StartImagePlaces, ProgramReturnsPlaces
<1>7. QED
  BY <1>2, <1>3, <1>4, <1>5, <1>6 DEF Next, Files, Scan, Walk, Program, Quiet

(* Whatever the programs do to the devices, at the menu each volume has the   *)
(* block I/O of its disk as the firmware knows it now (ReinitVolumes).         *)
THEOREM RefitVolumesDisksFollow == Spec => []DisksFollowTheFirmware
<1>1. Init => PlacesInv
  <2>1. Device \in Hardware
    BY VolumesAssumption DEF Hardware
  <2>2. QED
    BY <2>1 DEF Init, PlacesInv
<1>2. IInv /\ PlacesInv /\ [Next]_vars => PlacesInv'
  BY PlacesStep
<1>3. PlacesInv => DisksFollowTheFirmware
  BY DEF PlacesInv, DisksFollowTheFirmware, Placed
<1>4. QED
  BY <1>1, <1>2, <1>3, RefitVolumesInductive, PTL DEF Spec

------------------------------------------------------------------------------
(* Where the volumes' partitions lie. *)

IsDisk(d) == 0 \in DOMAIN d /\ DOMAIN d \subseteq Nat /\ \A s \in DOMAIN d : d[s] \in Tables

(* A station of a walk is a sector and the number the next partition gets.    *)
Station == Nat \X Nat
Continues(d, p) == p[1] \in DOMAIN d /\ Linked(d[p[1]])
Onward(d, base, p) ==
    <<base + d[p[1]][Stop(d[p[1]])].start, p[2] + Stop(d[p[1]]) - 1>>

(* Every set of stations a walk does not leave, once it is at p, has q.       *)
Walked(d, base, C) == \A p \in C : Continues(d, p) => Onward(d, base, p) \in C
Leads(d, base, p, q) == \A C \in SUBSET Station : p \in C /\ Walked(d, base, C) => q \in C

(* The entry i of the sector at station p is the partition of this number.    *)
IsEntry(d, p, i, index, start) ==
    /\ p[1] \in DOMAIN d /\ p[2] >= 4 /\ i < Stop(d[p[1]])
    /\ index = p[2] + i - 1 /\ start = p[1] + d[p[1]][i].start

Located(d, v) ==
    \/ v.index = NULL
    \/ v.index \in 0 .. 3 /\ v.start = d[0][v.index + 1].start
    \/ \E e \in Extended(d[0]), p \in Station, i \in Entries :
          /\ d[0][e].start # 0
          /\ Leads(d, d[0][e].start, <<d[0][e].start, 4>>, p)
          /\ IsEntry(d, p, i, v.index, v.start)

(* Volumes are found on the disk that is remembered as layout; before the     *)
(* scan there are none.                                                       *)
LocatedInv ==
    /\ pc \in {"boot", "drivers"} \/ (pc \in {"load", "running"} /\ back = "drivers")
       => DOMAIN vols = {}
    /\ pc \in {"scan", "relate"} /\ DOMAIN vols # {} => layout = disk
    /\ DOMAIN vols # {} => IsDisk(layout)
    /\ \A v \in DOMAIN vols : vols[v].table \in {NULL, layout[0]} /\ Located(layout, vols[v])
    /\ pc = "relate" /\ walk # NULL =>
          /\ walk.index >= 4
          /\ \E e \in Extended(layout[0]) :
                /\ walk.base = layout[0][e].start /\ walk.base # 0
                /\ Leads(layout, walk.base, <<walk.base, 4>>, <<walk.at, walk.index>>)

------------------------------------------------------------------------------
(* What an activation leaves behind. *)

NextSector(d, base, s) == base + d[s][Stop(d[s])].start

(* The sectors that lead on from the extended partition to sector at: each    *)
(* with its link active and nothing else, and no way to at that leaves one    *)
(* of them out.                                                               *)
Trail(d, base, at, T) ==
    /\ T \subseteq DOMAIN d \ {0}
    /\ base \in T \union {at}
    /\ \A s \in T : /\ ActiveIn(d[s], "data") = {} /\ ActiveIn(d[s], "extended") = {Stop(d[s])}
                    /\ NextSector(d, base, s) \in T \union {at}
    /\ \A C \in SUBSET Nat :
          (/\ base \in C
           /\ \A s \in C \intersect (T \ {at}) : NextSector(d, base, s) \in C) => at \in C

(* The MBR leads to the extended partition alone. *)
MbrLeadsOn(table) ==
    \A j \in Entries : table[j].flags = IF j \in Extended(table) THEN "on" ELSE "off"

OnTheWay ==
    \E e \in Extended(disk[0]), p \in Station, i \in Entries :
        /\ walk.base = disk[0][e].start
        /\ Leads(layout, walk.base, <<walk.at, walk.index>>, p)
        /\ IsEntry(layout, p, i, vols[chosen].index, vols[chosen].start)
        /\ MbrLeadsOn(disk[0])
        /\ \E T \in SUBSET DOMAIN disk : Trail(disk, walk.base, walk.at, T)

AsScanned == Standard(disk) /\ SameLayout(disk, layout)

ActivationInv ==
    /\ chosen # NULL => pc \in {"legacy", "load", "running", "off", "crashed"}
    /\ pc = "legacy" /\ walk # NULL =>
          /\ walk.fn = "activate" /\ walk.at # 0 /\ walk.base # 0
          /\ walk.target = vols[chosen].index /\ walk.target # NULL
          /\ AsScanned => OnTheWay
    /\ (/\ pc \in {"legacy", "load"} /\ walk = NULL /\ chosen # NULL /\ status = "success"
        /\ vols[chosen].index # NULL /\ AsScanned /\ Bootable(disk[0], vols[chosen].index))
       => ActivePartitions(disk) = {vols[chosen].start}

------------------------------------------------------------------------------
(* Tables and their links *)

(* The entries a table's walk goes past, and the one it stops at. *)
LEMMA StopIsFirst ==
    ASSUME NEW table
    PROVE  /\ Stop(table) \in 1 .. 5
           /\ \A i \in Entries : i < Stop(table) =>
                 table[i].flags # "bad" /\ ~Unused(table[i]) /\ table[i].type # "extended"
           /\ Stop(table) \in Entries =>
                 \/ table[Stop(table)].flags = "bad" \/ Unused(table[Stop(table)])
                 \/ table[Stop(table)].type = "extended"
           /\ \A i \in Entries :
                 table[i].flags = "bad" \/ Unused(table[i]) \/ table[i].type = "extended"
                 => Stop(table) <= i
<1> DEFINE R == {i \in Entries : \/ table[i].flags = "bad" \/ Unused(table[i])
                                 \/ table[i].type = "extended"}
<1>1. R \union {5} \in SUBSET Nat /\ R \union {5} # {} /\ R \subseteq 1 .. 4
  BY DEF Entries
<1>2. Stop(table) \in R \union {5} /\ \A i \in R \union {5} : Stop(table) <= i
  BY <1>1, MinOfNaturals DEF Stop
<1>3. \A i \in Entries : i \in R <=> \/ table[i].flags = "bad" \/ Unused(table[i])
                                     \/ table[i].type = "extended"
  BY DEF Unused
<1> HIDE DEF R
<1>4. Stop(table) \in 1 .. 5 /\ \A i \in Entries : i < Stop(table) => i \notin R
  <2>1. Stop(table) \in 1 .. 5
    <3>1. Stop(table) \in 1 .. 4 \/ Stop(table) = 5
      BY ONLY <1>1, <1>2
    <3>2. QED
      BY <3>1
  <2>2. ASSUME NEW i \in Entries, i < Stop(table), i \in R
        PROVE  FALSE
    BY <1>2, <2>1, <2>2 DEF Entries
  <2>3. QED
    BY <2>1, <2>2
<1>5. Stop(table) \in Entries => Stop(table) \in R
  BY <1>2, <1>4 DEF Entries
<1>6. \A i \in R : Stop(table) <= i
  BY <1>2
<1>7. QED
  BY <1>3, <1>4, <1>5, <1>6

(* A link is an extended entry in use.                                        *)
LEMMA LinkIsExtended ==
    ASSUME NEW table \in Tables, Linked(table)
    PROVE  /\ Stop(table) \in Entries /\ table[Stop(table)].type = "extended"
           /\ table[Stop(table)].start \in Nat \ {0}
           /\ Stop(table) - 1 \in Nat
<1>1. Stop(table) \in Entries /\ table[Stop(table)].type = "extended"
  BY StopIsFirst DEF Linked
<1>2. table[Stop(table)].start \in Nat
  BY <1>1, EntryFields DEF Tables
<1>3. table[Stop(table)].start # 0
  BY DEF Linked, Unused
<1>4. Stop(table) - 1 \in Nat
  BY <1>1 DEF Entries
<1>5. QED
  BY <1>1, <1>2, <1>3, <1>4

SameEntries(t, u) == \A i \in Entries : t[i].type = u[i].type /\ t[i].start = u[i].start

(* In a sector that an activation does not give up in, the walk goes where    *)
(* the scan went in one with the same entries.                                *)
LEMMA WalksAgree ==
    ASSUME NEW t \in Tables, NEW u \in Tables, SameEntries(t, u),
           Stop(t) \in Entries => t[Stop(t)].flags # "bad"
    PROVE  /\ Linked(u) => Linked(t) /\ Stop(t) = Stop(u)
           /\ \A i \in Entries : i < Stop(u) => i < Stop(t)
<1>1. \A i \in Entries : i < Stop(u) => ~Unused(t[i]) /\ t[i].type # "extended"
  BY StopIsFirst DEF SameEntries, Unused
<1>2. Stop(t) \in Entries => Unused(t[Stop(t)]) \/ t[Stop(t)].type = "extended"
  BY StopIsFirst
<1>3. Stop(t) \in 1 .. 5 /\ Stop(u) \in 1 .. 5
  BY StopIsFirst
<1>4. Stop(u) <= Stop(t)
  BY <1>1, <1>2, <1>3 DEF Entries
<1>5. ASSUME Linked(u)
      PROVE  Linked(t) /\ Stop(t) = Stop(u)
  <2>1. Stop(u) \in Entries /\ u[Stop(u)].type = "extended" /\ ~Unused(u[Stop(u)])
    BY <1>5, LinkIsExtended DEF Linked
  <2>2. t[Stop(u)].type = "extended" /\ ~Unused(t[Stop(u)])
    BY <2>1 DEF SameEntries, Unused
  <2>3. Stop(t) <= Stop(u)
    BY <2>1, <2>2, StopIsFirst
  <2>4. Stop(t) = Stop(u)
    BY <1>3, <1>4, <2>3
  <2>5. QED
    BY <2>1, <2>2, <2>4 DEF Linked
<1>6. \A i \in Entries : i < Stop(u) => i < Stop(t)
  BY <1>3, <1>4 DEF Entries
<1>7. QED
  BY <1>5, <1>6

(* Activating changes which entries are active, and nothing else.             *)
LEMMA FlagsOnly ==
    ASSUME NEW t \in Tables, NEW index \in Nat, NEW target \in Nat
    PROVE  LET u == EmbrFlags(t, index, target)
           IN  /\ SameEntries(u, t) /\ Stop(u) = Stop(t)
               /\ \A i \in Entries :
                     /\ i < Stop(t) => u[i].flags = IF target = index + i - 1 THEN "on" ELSE "off"
                     /\ i = Stop(t) /\ Linked(t) =>
                           u[i].flags = IF target >= index + i - 1 THEN "on" ELSE "off"
                     /\ i > Stop(t) \/ (i = Stop(t) /\ ~Linked(t)) => u[i] = t[i]
<1> DEFINE u == EmbrFlags(t, index, target)
           flag(i) == IF i < Stop(t)
                      THEN IF target = index + i - 1 THEN "on" ELSE "off"
                      ELSE IF target >= index + i - 1 THEN "on" ELSE "off"
<1>1. Stop(t) \in 1 .. 5
  BY StopIsFirst
<1>2. ASSUME NEW i \in Entries
      PROVE  /\ i < Stop(t) \/ (i = Stop(t) /\ Linked(t)) => u[i] = [t[i] EXCEPT !.flags = flag(i)]
             /\ i > Stop(t) \/ (i = Stop(t) /\ ~Linked(t)) => u[i] = t[i]
  BY <1>1 DEF EmbrFlags, Entries
<1>3. ASSUME NEW i \in Entries, NEW f \in {"on", "off"}
      PROVE  /\ [t[i] EXCEPT !.flags = f].type = t[i].type
             /\ [t[i] EXCEPT !.flags = f].start = t[i].start
             /\ [t[i] EXCEPT !.flags = f].flags = f
  BY DEF Tables, Entry
<1>4. \A i \in Entries : flag(i) \in {"on", "off"}
  OBVIOUS
<1>5. ASSUME NEW i \in Entries
      PROVE  /\ u[i].type = t[i].type /\ u[i].start = t[i].start
             /\ i < Stop(t) \/ (i = Stop(t) /\ Linked(t)) => u[i].flags = flag(i)
             /\ i > Stop(t) \/ (i = Stop(t) /\ ~Linked(t)) => u[i] = t[i]
  <2> HIDE DEF flag, u
  <2>1. i < Stop(t) \/ (i = Stop(t) /\ Linked(t)) \/ i > Stop(t) \/ (i = Stop(t) /\ ~Linked(t))
    BY <1>1 DEF Entries
  <2>2. u[i] = [t[i] EXCEPT !.flags = flag(i)] \/ u[i] = t[i]
    BY <1>2, <2>1, Zenon
  <2>3. u[i].type = t[i].type /\ u[i].start = t[i].start
    <3>1. PICK f \in {"on", "off"} : f = flag(i)
      BY <1>4
    <3> DEFINE e == [t[i] EXCEPT !.flags = f]
    <3>2. e.type = t[i].type /\ e.start = t[i].start
      BY <1>3
    <3>3. u[i] = e \/ u[i] = t[i]
      BY <2>2, <3>1
    <3> HIDE DEF e
    <3>4. QED
      BY <3>2, <3>3
  <2>4. i < Stop(t) \/ (i = Stop(t) /\ Linked(t)) => u[i].flags = flag(i)
    BY <1>2, <1>3, <1>4
  <2>5. QED
    BY <1>2, <2>3, <2>4
<1>6. SameEntries(u, t)
  BY <1>5 DEF SameEntries
<1>7. \A i \in Entries : /\ i < Stop(t) => u[i].flags # "bad"
                         /\ i = Stop(t) /\ Linked(t) => u[i].flags # "bad"
  <2> HIDE DEF flag, u
  <2>1. QED
    BY <1>4, <1>5
<1>8. Stop(u) = Stop(t)
  <2> HIDE DEF flag, u
  <2>1. Stop(u) \in 1 .. 5
    BY StopIsFirst
  <2>2. ASSUME NEW i \in Entries, i < Stop(t)
        PROVE  u[i].flags # "bad" /\ ~Unused(u[i]) /\ u[i].type # "extended"
    BY <1>5, <1>7, <2>2, StopIsFirst DEF Unused
  <2>3. Stop(u) >= Stop(t)
    <3>1. CASE Stop(u) \in Entries
      BY <1>1, <2>1, <2>2, <3>1, StopIsFirst
    <3>2. CASE Stop(u) \notin Entries
      BY <1>1, <2>1, <3>2 DEF Entries
    <3>3. QED
      BY <3>1, <3>2
  <2>4. CASE Stop(t) \in Entries
    <3>1. u[Stop(t)].flags = "bad" \/ Unused(u[Stop(t)]) \/ u[Stop(t)].type = "extended"
      <4>1. CASE Linked(t)
        BY <1>5, <2>4, <4>1, LinkIsExtended
      <4>2. CASE ~Linked(t)
        BY <1>5, <2>4, <4>2, StopIsFirst
      <4>3. QED
        BY <4>1, <4>2
    <3>2. Stop(u) <= Stop(t)
      BY <2>4, <3>1, StopIsFirst
    <3>3. QED
      BY <1>1, <2>1, <2>3, <3>2
  <2>5. CASE Stop(t) \notin Entries
    BY <1>1, <2>1, <2>3, <2>5 DEF Entries
  <2>6. QED
    BY <2>4, <2>5
<1>9. \A i \in Entries :
         /\ i < Stop(t) => flag(i) = IF target = index + i - 1 THEN "on" ELSE "off"
         /\ i = Stop(t) => flag(i) = IF target >= index + i - 1 THEN "on" ELSE "off"
  BY <1>1 DEF Entries
<1> HIDE DEF flag, u
<1>10. QED
  BY <1>5, <1>6, <1>8, <1>9 DEF u

------------------------------------------------------------------------------
(* Chains *)

LEMMA OnwardIsStation ==
    ASSUME NEW d, IsDisk(d), NEW base \in Nat, NEW p \in Station, Continues(d, p)
    PROVE  /\ Onward(d, base, p) \in Station
           /\ Onward(d, base, p)[1] = base + d[p[1]][Stop(d[p[1]])].start
           /\ Onward(d, base, p)[2] = p[2] + Stop(d[p[1]]) - 1
           /\ Onward(d, base, p)[1] > base /\ Onward(d, base, p)[2] >= p[2]
<1> DEFINE table == d[p[1]]
           a == table[Stop(table)].start
           n == Stop(table) - 1
<1>1. table \in Tables /\ Linked(table)
  BY DEF IsDisk, Continues
<1>2. a \in Nat \ {0} /\ n \in Nat
  BY <1>1, LinkIsExtended
<1>3. p[1] \in Nat /\ p[2] \in Nat
  BY DEF Station
<1>4. Stop(table) \in Nat
  BY StopIsFirst
<1>5. Onward(d, base, p) = <<base + a, p[2] + Stop(table) - 1>>
  BY DEF Onward
<1>6. p[2] + Stop(table) - 1 = p[2] + n
  BY <1>3, <1>4
<1> HIDE DEF a, n
<1>7. base + a \in Nat /\ base + a > base /\ p[2] + n \in Nat /\ p[2] + n >= p[2]
  BY <1>2, <1>3
<1>8. Onward(d, base, p) = <<base + a, p[2] + n>>
  BY <1>5, <1>6
<1>9. QED
  BY <1>6, <1>7, <1>8 DEF Station, a

LEMMA LeadsToItself ==
    ASSUME NEW d, NEW base, NEW p
    PROVE  Leads(d, base, p, p)
  BY DEF Leads

LEMMA LeadsOnward ==
    ASSUME NEW d, NEW base, NEW p, NEW q, Leads(d, base, p, q), Continues(d, q)
    PROVE  Leads(d, base, p, Onward(d, base, q))
  BY DEF Leads, Walked

(* A chain that leads from p to another station leads there from the next one. *)
LEMMA LeadsFromNext ==
    ASSUME NEW d, IsDisk(d), NEW base \in Nat, NEW p \in Station, NEW q \in Station,
           Leads(d, base, p, q), p # q
    PROVE  Continues(d, p) /\ Leads(d, base, Onward(d, base, p), q)
<1>1. Continues(d, p)
  <2> SUFFICES ASSUME ~Continues(d, p) PROVE FALSE
    OBVIOUS
  <2>1. {p} \in SUBSET Station /\ Walked(d, base, {p})
    BY DEF Walked
  <2>2. QED
    BY <2>1 DEF Leads
<1>2. ASSUME NEW C \in SUBSET Station, Onward(d, base, p) \in C, Walked(d, base, C)
      PROVE  q \in C
  <2>1. C \union {p} \in SUBSET Station /\ p \in C \union {p}
    OBVIOUS
  <2>2. Walked(d, base, C \union {p})
    BY <1>2 DEF Walked
  <2>3. q \in C \union {p}
    BY <2>1, <2>2 DEF Leads
  <2>4. QED
    BY <2>3
<1>3. QED
  BY <1>1, <1>2 DEF Leads

(* Numbers only grow along a chain. *)
LEMMA LeadsUp ==
    ASSUME NEW d, IsDisk(d), NEW base \in Nat, NEW p \in Station, NEW q \in Station,
           Leads(d, base, p, q)
    PROVE  p[2] <= q[2]
<1> DEFINE C == {r \in Station : p[2] <= r[2]}
<1>1. p \in C
  BY DEF Station
<1>2. Walked(d, base, C)
  <2> SUFFICES ASSUME NEW r \in C, Continues(d, r) PROVE Onward(d, base, r) \in C
    BY DEF Walked
  <2>1. Onward(d, base, r) \in Station /\ Onward(d, base, r)[2] >= r[2]
    BY OnwardIsStation
  <2>2. p[2] \in Nat /\ r[2] \in Nat /\ Onward(d, base, r)[2] \in Nat /\ p[2] <= r[2]
    BY <2>1 DEF Station
  <2>3. QED
    BY <2>1, <2>2
<1>3. C \in SUBSET Station
  OBVIOUS
<1> HIDE DEF C
<1>4. q \in C
  BY <1>1, <1>2, <1>3 DEF Leads
<1>5. QED
  BY <1>4 DEF C

------------------------------------------------------------------------------
(* Trails *)

LEMMA TrailBegins ==
    ASSUME NEW d, NEW base
    PROVE  Trail(d, base, base, {})
  BY DEF Trail

(* The sector at, once its link is active and nothing else, joins the trail.  *)
LEMMA TrailGrows ==
    ASSUME NEW d, NEW e, NEW base \in Nat, NEW at \in DOMAIN d \ {0}, NEW T, Trail(d, base, at, T),
           DOMAIN e = DOMAIN d, DOMAIN d \subseteq Nat,
           \A s \in DOMAIN d \ {at} : e[s] = d[s],
           Stop(e[at]) = Stop(d[at]), e[at][Stop(e[at])].start = d[at][Stop(d[at])].start,
           ActiveIn(e[at], "data") = {}, ActiveIn(e[at], "extended") = {Stop(e[at])}
    PROVE  Trail(e, base, NextSector(d, base, at), T \union {at})
<1> DEFINE next == NextSector(d, base, at)
           U == T \union {at}
<1>1. \A s \in DOMAIN d : NextSector(e, base, s) = NextSector(d, base, s)
  BY DEF NextSector
<1>2. U \subseteq DOMAIN e \ {0} /\ base \in U \union {next}
  BY DEF Trail
<1>3. ASSUME NEW s \in U
      PROVE  /\ ActiveIn(e[s], "data") = {} /\ ActiveIn(e[s], "extended") = {Stop(e[s])}
             /\ NextSector(e, base, s) \in U \union {next}
  <2>1. CASE s = at
    BY <1>1, <2>1
  <2>2. CASE s # at
    <3>1. s \in T /\ s \in DOMAIN d
      BY <2>2 DEF Trail
    <3>2. e[s] = d[s] /\ NextSector(e, base, s) = NextSector(d, base, s)
      BY <1>1, <2>2, <3>1
    <3>3. QED
      BY <3>1, <3>2 DEF Trail
  <2>3. QED
    BY <2>1, <2>2
<1>4. ASSUME NEW C \in SUBSET Nat, base \in C,
             \A s \in C \intersect (U \ {next}) : NextSector(e, base, s) \in C
      PROVE  next \in C
  <2> SUFFICES ASSUME next \notin C PROVE FALSE
    OBVIOUS
  <2>1. \A s \in C \intersect U : NextSector(d, base, s) \in C
    <3>1. \A s \in U : s \in DOMAIN d
      BY DEF Trail
    <3>2. QED
      BY <1>1, <1>4, <3>1
  <2>2. \A s \in C \intersect (T \ {at}) : NextSector(d, base, s) \in C
    BY <2>1
  <2>3. at \in C
    BY <1>4, <2>2 DEF Trail
  <2>4. QED
    BY <2>1, <2>3
<1> HIDE DEF next, U
<1>5. Trail(e, base, next, U)
  BY <1>2, <1>3, <1>4 DEF Trail
<1>6. QED
  BY <1>5 DEF next, U

(* At its end the trail goes to the sector at once.                           *)
LEMMA TrailStops ==
    ASSUME NEW d, NEW e, NEW base, NEW at, NEW T, Trail(d, base, at, T),
           DOMAIN e = DOMAIN d, \A s \in DOMAIN d \ {at} : e[s] = d[s]
    PROVE  Trail(e, base, at, T \ {at})
<1>1. \A s \in T \ {at} : e[s] = d[s] /\ NextSector(e, base, s) = NextSector(d, base, s)
  BY DEF Trail, NextSector
<1>2. (T \ {at}) \ {at} = T \ {at} /\ (T \ {at}) \union {at} = T \union {at}
  OBVIOUS
<1>3. ASSUME NEW C \in SUBSET Nat, base \in C,
             \A s \in C \intersect (T \ {at}) : NextSector(e, base, s) \in C
      PROVE  at \in C
  BY <1>1, <1>3 DEF Trail
<1>4. QED
  BY <1>1, <1>2, <1>3 DEF Trail

(* At its end, where one partition and no link is active, boot code finds that *)
(* partition and no other.                                                    *)
LEMMA TrailEnds ==
    ASSUME NEW d, IsDisk(d), NEW e \in Entries, Extended(d[0]) = {e}, MbrLeadsOn(d[0]),
           d[0][e].start \in Nat \ {0},
           NEW at \in DOMAIN d \ {0}, NEW T, Trail(d, d[0][e].start, at, T), at \notin T,
           NEW i \in Entries, ActiveIn(d[at], "data") = {i}, ActiveIn(d[at], "extended") = {}
    PROVE  ActivePartitions(d) = {at + d[at][i].start}
<1> DEFINE base == d[0][e].start
           R == {0, at} \union T
<1>1. ActiveIn(d[0], "data") = {} /\ ActiveIn(d[0], "extended") = {e}
  <2>1. d[0] \in Tables
    BY DEF IsDisk
  <2>2. \A j \in Entries : /\ d[0][j].type \in {"data", "extended"}
                           /\ d[0][j].type = "extended" <=> j = e
    BY <2>1, EntryFields DEF Extended, Tables
  <2>3. \A j \in Entries : d[0][j].flags = IF j = e THEN "on" ELSE "off"
    BY DEF MbrLeadsOn
  <2>4. QED
    BY <2>2, <2>3 DEF ActiveIn, Unused
<1>2. LeadsTo(d, 0) = {base}
  <2>1. LinkBases(d, 0) = {0}
    BY DEF LinkBases
  <2>2. 0 + base = base
    OBVIOUS
  <2>3. QED
    BY <1>1, <2>1, <2>2 DEF LeadsTo
<1>3. \A s : s # 0 => LinkBases(d, s) = {base}
  BY <1>1 DEF LinkBases
<1>4. LeadsTo(d, at) = {}
  BY DEF LeadsTo
<1>5. \A s \in T : s # 0 /\ s \in DOMAIN d /\ LeadsTo(d, s) = {NextSector(d, base, s)}
  <2> SUFFICES ASSUME NEW s \in T
               PROVE  s # 0 /\ s \in DOMAIN d /\ LeadsTo(d, s) = {NextSector(d, base, s)}
    OBVIOUS
  <2>1. s # 0 /\ s \in DOMAIN d /\ ActiveIn(d[s], "extended") = {Stop(d[s])}
    BY DEF Trail
  <2>2. LinkBases(d, s) = {base}
    BY <1>3, <2>1
  <2> HIDE DEF base
  <2>3. QED
    BY <2>1, <2>2 DEF LeadsTo, NextSector
<1>6. R \subseteq DOMAIN d /\ 0 \in R /\ FollowsLinks(d, R)
  <2>1. base \in R /\ \A s \in T : NextSector(d, base, s) \in R
    BY DEF Trail
  <2>2. R \subseteq DOMAIN d
    BY <1>5 DEF IsDisk
  <2>3. QED
    BY <1>2, <1>4, <1>5, <2>1, <2>2 DEF FollowsLinks
<1>7. Reached(d) \subseteq R
  BY <1>6 DEF Reached
<1>8. at \in Reached(d)
  <2> SUFFICES ASSUME NEW C \in SUBSET DOMAIN d, 0 \in C, FollowsLinks(d, C) PROVE at \in C
    BY DEF Reached
  <2>1. \A s \in C : \A t \in LeadsTo(d, s) : t \in DOMAIN d => t \in C
    BY DEF FollowsLinks
  <2>2. \A t \in T \union {at} : t \in DOMAIN d
    BY <1>5
  <2>3. base \in C
    BY <1>2, <2>1, <2>2 DEF Trail
  <2>4. \A s \in C \intersect (T \ {at}) : NextSector(d, base, s) \in C
    BY <1>5, <2>1, <2>2 DEF Trail
  <2>5. C \in SUBSET Nat
    BY DEF IsDisk
  <2> HIDE DEF base
  <2>6. Trail(d, base, at, T)
    BY DEF base
  <2>7. QED
    BY <2>3, <2>4, <2>5, <2>6 DEF Trail
<1>9. \A s \in Reached(d) : s # at => ActiveIn(d[s], "data") = {}
  BY <1>1, <1>7 DEF Trail
<1>10. QED
  BY <1>8, <1>9 DEF ActivePartitions

------------------------------------------------------------------------------
(* One sector of an activation *)

LEMMA ActiveAfterwards ==
    ASSUME NEW t \in Tables, \A j \in Entries : j > Stop(t) => Unused(t[j]),
           NEW index \in Nat, NEW target \in Nat
    PROVE  LET u == EmbrFlags(t, index, target)
           IN  /\ ActiveIn(u, "data") = {j \in Entries : j < Stop(t) /\ target = index + j - 1}
               /\ ActiveIn(u, "extended") =
                     IF Linked(t) /\ target >= index + Stop(t) - 1 THEN {Stop(t)} ELSE {}
<1> DEFINE u == EmbrFlags(t, index, target)
<1>1. /\ SameEntries(u, t) /\ Stop(u) = Stop(t)
      /\ \A j \in Entries :
            /\ j < Stop(t) => u[j].flags = IF target = index + j - 1 THEN "on" ELSE "off"
            /\ j = Stop(t) /\ Linked(t) =>
                  u[j].flags = IF target >= index + j - 1 THEN "on" ELSE "off"
            /\ j > Stop(t) \/ (j = Stop(t) /\ ~Linked(t)) => u[j] = t[j]
  BY FlagsOnly
<1> HIDE DEF u
<1>2. \A j \in Entries : t[j].type \in {"data", "extended"}
  BY EntryFields DEF Tables
<1>3. \A j \in Entries : u[j].type = t[j].type /\ (Unused(u[j]) <=> Unused(t[j]))
  BY <1>1 DEF SameEntries, Unused
<1>4. Stop(t) \in 1 .. 5
  BY StopIsFirst
<1>5. ASSUME NEW j \in Entries, j < Stop(t)
      PROVE  /\ j \in ActiveIn(u, "data") <=> target = index + j - 1
             /\ j \notin ActiveIn(u, "extended")
  <2>1. ~Unused(t[j]) /\ t[j].type = "data"
    BY <1>2, <1>5, StopIsFirst
  <2>2. u[j].flags = IF target = index + j - 1 THEN "on" ELSE "off"
    BY <1>1, <1>5
  <2>3. ~Unused(u[j]) /\ u[j].type = "data"
    BY <1>3, <2>1
  <2>4. QED
    BY <2>2, <2>3 DEF ActiveIn
<1>6. ASSUME NEW j \in Entries, j > Stop(t)
      PROVE  j \notin ActiveIn(u, "data") /\ j \notin ActiveIn(u, "extended")
  BY <1>3, <1>6 DEF ActiveIn
<1>7. ASSUME NEW j \in Entries, j = Stop(t)
      PROVE  /\ j \notin ActiveIn(u, "data")
             /\ j \in ActiveIn(u, "extended") <=> Linked(t) /\ target >= index + Stop(t) - 1
  <2>1. CASE Linked(t)
    <3>1. u[j].type = "extended" /\ ~Unused(u[j])
      BY <1>3, <1>7, <2>1, LinkIsExtended DEF Linked
    <3>2. u[j].flags = IF target >= index + j - 1 THEN "on" ELSE "off"
      BY <1>1, <1>7, <2>1
    <3>3. QED
      BY <1>7, <2>1, <3>1, <3>2 DEF ActiveIn
  <2>2. CASE ~Linked(t)
    <3>1. u[j] = t[j]
      BY <1>1, <1>7, <2>2
    <3>2. t[j].flags = "bad" \/ Unused(t[j])
      BY <1>7, <2>2, StopIsFirst DEF Linked
    <3>3. j \notin ActiveIn(u, "data") /\ j \notin ActiveIn(u, "extended")
      BY <3>1, <3>2 DEF ActiveIn
    <3>4. QED
      BY <2>2, <3>3
  <2>3. QED
    BY <2>1, <2>2
<1>8. ActiveIn(u, "data") \subseteq Entries /\ ActiveIn(u, "extended") \subseteq Entries
  BY DEF ActiveIn
<1>9. \A j \in Entries : j < Stop(t) \/ j > Stop(t) \/ j = Stop(t)
  BY <1>4 DEF Entries
<1>10. ActiveIn(u, "data") = {j \in Entries : j < Stop(t) /\ target = index + j - 1}
  <2>1. ASSUME NEW j \in Entries
        PROVE  j \in ActiveIn(u, "data") <=> j < Stop(t) /\ target = index + j - 1
    <3>1. ~(j < Stop(t)) => j \notin ActiveIn(u, "data")
      BY <1>6, <1>7, <1>9
    <3>2. QED
      BY <1>5, <3>1
  <2>2. QED
    BY <1>8, <2>1
<1>11. ActiveIn(u, "extended") =
          IF Linked(t) /\ target >= index + Stop(t) - 1 THEN {Stop(t)} ELSE {}
  <2>1. \A j \in Entries : j \in ActiveIn(u, "extended") => j = Stop(t)
    BY <1>5, <1>6, <1>9
  <2>2. CASE Linked(t) /\ target >= index + Stop(t) - 1
    <3>1. Stop(t) \in Entries
      BY <2>2 DEF Linked
    <3>2. QED
      BY <1>7, <1>8, <2>1, <2>2, <3>1
  <2>3. CASE ~(Linked(t) /\ target >= index + Stop(t) - 1)
    <3>1. \A j \in Entries : j \notin ActiveIn(u, "extended")
      BY <1>7, <2>1, <2>3
    <3>2. QED
      BY <1>8, <2>3, <3>1
  <2>4. QED
    BY <2>2, <2>3
<1>12. QED
  BY <1>10, <1>11 DEF u

(* Writing flags does not make a layout a standard one, nor the one scanned.  *)
LEMMA LayoutBefore ==
    ASSUME NEW d, NEW l, NEW at \in DOMAIN d, NEW u, SameEntries(u, d[at]),
           at # 0 => Stop(u) = Stop(d[at]),
           Standard([d EXCEPT ![at] = u]), SameLayout([d EXCEPT ![at] = u], l)
    PROVE  Standard(d) /\ SameLayout(d, l)
<1> DEFINE e == [d EXCEPT ![at] = u]
<1>1. DOMAIN e = DOMAIN d /\ \A s \in DOMAIN d : e[s] = IF s = at THEN u ELSE d[s]
  OBVIOUS
<1>2. Standard(e) /\ SameLayout(e, l)
  OBVIOUS
<1> HIDE DEF e
<1>3. \A s \in DOMAIN d : SameEntries(e[s], d[s]) /\ (s # 0 => Stop(e[s]) = Stop(d[s]))
  BY <1>1 DEF SameEntries
<1>4. SameLayout(d, l)
  BY <1>1, <1>2, <1>3 DEF SameLayout, SameEntries
<1>5. \A s \in DOMAIN d \ {0} : \A i \in Entries : i > Stop(d[s]) => Unused(d[s][i])
  BY <1>1, <1>2, <1>3 DEF Standard, SameEntries, Unused
<1>6. \A i, j \in Extended(d[0]) : i = j
  <2>1. CASE 0 \in DOMAIN d
    <3>1. Extended(e[0]) = Extended(d[0])
      BY <1>3, <2>1 DEF Extended, SameEntries
    <3>2. QED
      BY <1>2, <3>1 DEF Standard
  <2>2. CASE 0 \notin DOMAIN d
    <3>1. at # 0 /\ e[0] = d[0]
      BY <2>2 DEF e
    <3>2. QED
      BY <1>2, <3>1 DEF Standard
  <2>3. QED
    BY <2>1, <2>2
<1>7. QED
  BY <1>4, <1>5, <1>6 DEF Standard

(* The walk is at a sector from which, on the disk that was scanned, the i-th  *)
(* entry at station p is reached.                                             *)
IsUnderWay(d, l, e, at, index, target, start, p, i, T) ==
    /\ IsDisk(d) /\ IsDisk(l) /\ Standard(d) /\ SameLayout(d, l)
    /\ e \in Entries /\ Extended(d[0]) = {e} /\ MbrLeadsOn(d[0]) /\ d[0][e].start \in Nat \ {0}
    /\ at \in DOMAIN d \ {0} /\ index \in Nat /\ target \in Nat
    /\ p \in Station /\ i \in Entries /\ IsEntry(l, p, i, target, start)
    /\ Leads(l, d[0][e].start, <<at, index>>, p)
    /\ Stop(d[at]) \in Entries => d[at][Stop(d[at])].flags # "bad"
    /\ Trail(d, d[0][e].start, at, T)

(* The walk ends with the partition active and no other, or goes on.          *)
IsActivated(d, l, e, at, index, target, start, p, T) ==
    LET next  == NextExtCurrent(d[at], d[0][e].start)
        after == index + Stop(d[at]) - 1
        f     == [d EXCEPT ![at] = EmbrFlags(d[at], index, target)]
    IN  \/ /\ target < after \/ next = 0
           /\ ActivePartitions(f) = {start}
        \/ /\ after <= target /\ next \in Nat \ {0}
           /\ Leads(l, d[0][e].start, <<next, after>>, p)
           /\ Trail(f, d[0][e].start, next, T \union {at})

(* Before the chosen partition the activation goes the way the scan went, and *)
(* at it it ends.                                                             *)
LEMMA SectorActivated ==
    ASSUME NEW d, NEW l, NEW e, NEW at, NEW index, NEW target, NEW start, NEW p, NEW i, NEW T,
           IsUnderWay(d, l, e, at, index, target, start, p, i, T)
    PROVE  IsActivated(d, l, e, at, index, target, start, p, T)
<1> DEFINE f == [d EXCEPT ![at] = EmbrFlags(d[at], index, target)]
<1> USE DEF IsUnderWay
<1> DEFINE base == d[0][e].start
           t == d[at]
           u == EmbrFlags(t, index, target)
           q == <<at, index>>
           after == index + Stop(t) - 1
           next == NextExtCurrent(t, base)
<1>1. t \in Tables /\ at \in Nat /\ at \in DOMAIN l /\ l[at] \in Tables /\ q \in Station
  BY DEF IsDisk, SameLayout, Station
<1>2. SameEntries(t, l[at])
  BY <1>1 DEF SameLayout, SameEntries
<1>3. /\ Linked(l[at]) => Linked(t) /\ Stop(t) = Stop(l[at])
      /\ \A j \in Entries : j < Stop(l[at]) => j < Stop(t)
  BY <1>1, <1>2, WalksAgree
<1>4. /\ SameEntries(u, t) /\ Stop(u) = Stop(t)
  BY <1>1, FlagsOnly
<1>5. /\ ActiveIn(u, "data") = {j \in Entries : j < Stop(t) /\ target = index + j - 1}
      /\ ActiveIn(u, "extended") = IF Linked(t) /\ target >= after THEN {Stop(t)} ELSE {}
  <2>1. \A j \in Entries : j > Stop(t) => Unused(t[j])
    BY DEF Standard
  <2>2. QED
    BY <1>1, <2>1, ActiveAfterwards
<1>6. Stop(t) \in 1 .. 5
  BY StopIsFirst
<1>7. f[at] = u /\ DOMAIN f = DOMAIN d /\ \A s \in DOMAIN d \ {at} : f[s] = d[s]
  OBVIOUS
<1>8. base \in Nat \ {0}
  OBVIOUS
<1>9. p[2] \in Nat /\ i \in Nat /\ i >= 1 /\ target = p[2] + i - 1
  BY DEF IsEntry, Station, Entries
<1>10. Leads(l, base, q, p) /\ Trail(d, base, at, T)
  OBVIOUS
<1> HIDE DEF u
<1>11. CASE q # p
  <2>1. Continues(l, q) /\ Leads(l, base, Onward(l, base, q), p)
    BY <1>1, <1>8, <1>10, <1>11, LeadsFromNext
  <2>2. Linked(t) /\ Stop(t) = Stop(l[at])
    BY <1>3, <2>1 DEF Continues
  <2>3. next = base + t[Stop(t)].start /\ next = NextSector(d, base, at)
    BY <2>2 DEF NextExtCurrent, NextSector
  <2>4. t[Stop(t)].start \in Nat \ {0} /\ Stop(t) \in Entries
    BY <1>1, <2>2, LinkIsExtended
  <2>5. next \in Nat \ {0}
    <3> HIDE DEF base, t, next
    <3>1. QED
      BY <1>8, <2>3, <2>4
  <2>6. Onward(l, base, q) = <<next, after>>
    <3>1. l[at][Stop(t)].start = t[Stop(t)].start
      BY <1>2, <2>4 DEF SameEntries
    <3>2. QED
      BY <2>2, <2>3, <3>1 DEF Onward
  <2>7. after <= p[2] /\ after \in Nat
    <3>1. Onward(l, base, q) \in Station
      BY <1>1, <1>8, <2>1, OnwardIsStation
    <3>2. Onward(l, base, q)[2] <= p[2]
      BY <1>8, <2>1, <3>1, LeadsUp
    <3>3. QED
      BY <2>6, <3>1, <3>2 DEF Station
  <2>8. after <= target
    <3> HIDE DEF after
    <3>1. QED
      BY <1>9, <2>7
  <2>9. ActiveIn(u, "data") = {}
    <3>1. \A j \in Entries : j < Stop(t) => target # index + j - 1
      BY <1>6, <2>8 DEF Entries
    <3>2. QED
      BY <1>5, <3>1
  <2>10. ActiveIn(u, "extended") = {Stop(t)}
    <3>1. target >= after
      <4> HIDE DEF after
      <4>1. QED
        BY <1>9, <2>7, <2>8
    <3>2. QED
      BY <1>5, <2>2, <3>1
  <2>11. Trail(f, base, next, T \union {at})
    <3>1. f[at][Stop(f[at])].start = d[at][Stop(d[at])].start
      BY <1>4, <1>7, <2>4 DEF SameEntries
    <3>2. DOMAIN d \subseteq Nat
      BY DEF IsDisk
    <3>3. /\ Stop(f[at]) = Stop(d[at]) /\ ActiveIn(f[at], "data") = {}
          /\ ActiveIn(f[at], "extended") = {Stop(f[at])}
      BY <1>4, <1>7, <2>9, <2>10
    <3> HIDE DEF base, t
    <3>4. Trail(f, base, NextSector(d, base, at), T \union {at})
      BY <1>7, <1>8, <1>10, <3>1, <3>2, <3>3, TrailGrows
    <3>5. QED
      BY <2>3, <3>4
  <2>12. QED
    BY <2>1, <2>5, <2>6, <2>8, <2>11 DEF IsActivated
<1>12. CASE q = p
  <2>1. p[1] = at /\ p[2] = index
    BY <1>12
  <2>2. i < Stop(t) /\ target = index + i - 1 /\ start = at + l[at][i].start
    BY <1>3, <2>1 DEF IsEntry
  <2>3. target < after
    BY <1>6, <2>2 DEF Entries
  <2>4. ActiveIn(u, "data") = {i}
    <3>1. \A j \in Entries : target = index + j - 1 <=> j = i
      BY <2>2 DEF Entries
    <3>2. QED
      BY <1>5, <2>2, <3>1
  <2>5. ActiveIn(u, "extended") = {}
    <3>1. ~(target >= after)
      BY <1>6, <2>2 DEF Entries
    <3>2. QED
      BY <1>5, <3>1
  <2>6. f[0] = d[0] /\ 0 \in DOMAIN d
    BY <1>7 DEF IsDisk
  <2>7. u \in Tables
    BY <1>1, FlagsAreTables DEF u
  <2>8. IsDisk(f)
    BY <1>7, <2>7 DEF IsDisk
  <2>9. Trail(f, f[0][e].start, at, T \ {at})
    <3> HIDE DEF base
    <3>1. Trail(f, base, at, T \ {at})
      BY <1>7, <1>10, TrailStops
    <3>2. QED
      BY <2>6, <3>1 DEF base
  <2>10. f[at][i].start = l[at][i].start
    BY <1>2, <1>4, <1>7 DEF SameEntries
  <2>11. ActivePartitions(f) = {at + f[at][i].start}
    <3>1. /\ Extended(f[0]) = {e} /\ MbrLeadsOn(f[0]) /\ f[0][e].start \in Nat \ {0}
          /\ at \in DOMAIN f \ {0} /\ at \notin T \ {at}
          /\ ActiveIn(f[at], "data") = {i} /\ ActiveIn(f[at], "extended") = {}
      BY <1>7, <2>4, <2>5, <2>6
    <3>2. QED
      BY <2>8, <2>9, <3>1, TrailEnds
  <2>12. QED
    BY <2>2, <2>3, <2>10, <2>11 DEF IsActivated
<1>13. QED
  BY <1>11, <1>12

(* Activating changes flags alone: the chosen entry's, or those of links.     *)
LEMMA MbrFlagsOnly ==
    ASSUME NEW t \in Tables, NEW target
    PROVE  LET u == MbrFlags(t, target)
           IN  \A i \in Entries :
                  /\ u[i].type = t[i].type /\ u[i].start = t[i].start
                  /\ u[i].flags = IF i = target + 1 \/ (target >= 4 /\ i \in Extended(t))
                                  THEN "on" ELSE "off"
<1> DEFINE u == MbrFlags(t, target)
<1>1. \A i \in Entries : u[i] = [t[i] EXCEPT !.flags =
                                   IF i = target + 1 \/ (target >= 4 /\ i \in Extended(t))
                                   THEN "on" ELSE "off"]
  BY DEF MbrFlags
<1>2. ASSUME NEW i \in Entries
      PROVE  /\ u[i].type = t[i].type /\ u[i].start = t[i].start
             /\ u[i].flags = IF i = target + 1 \/ (target >= 4 /\ i \in Extended(t))
                             THEN "on" ELSE "off"
  <2>1. t[i] \in Entry
    BY DEF Tables
  <2>2. \A g : /\ [t[i] EXCEPT !.flags = g].type = t[i].type
               /\ [t[i] EXCEPT !.flags = g].start = t[i].start
               /\ [t[i] EXCEPT !.flags = g].flags = g
    BY <2>1 DEF Entry
  <2> DEFINE g == IF i = target + 1 \/ (target >= 4 /\ i \in Extended(t)) THEN "on" ELSE "off"
  <2> HIDE DEF u
  <2>3. u[i] = [t[i] EXCEPT !.flags = g]
    BY <1>1
  <2> HIDE DEF g
  <2>4. u[i].type = t[i].type /\ u[i].start = t[i].start /\ u[i].flags = g
    BY <2>2, <2>3
  <2>5. QED
    BY <2>4 DEF g
<1>3. QED
  BY <1>2

MbrWritten(d, target) == [d EXCEPT ![0] = MbrFlags(d[0], target)]

(* The MBR leads on to the extended partition, or to the primary chosen.      *)
LEMMA MbrActivated ==
    ASSUME NEW d, IsDisk(d), Standard(d), NEW target \in Nat,
           NEW f, f = MbrWritten(d, target)
    PROVE  /\ IsDisk(f) /\ SameEntries(f[0], d[0])
           /\ target < 4 /\ Bootable(f[0], target) =>
                 ExtBase(d[0], target) = 0 /\ ActivePartitions(f) = {d[0][target + 1].start}
           /\ \A e \in Extended(d[0]) : target >= 4 =>
                 /\ Extended(f[0]) = {e} /\ MbrLeadsOn(f[0])
                 /\ ExtBase(d[0], target) = d[0][e].start /\ f[0][e].start = d[0][e].start
<1> DEFINE t == d[0]
           u == MbrFlags(t, target)
<1>1. t \in Tables /\ 0 \in DOMAIN d
  BY DEF IsDisk
<1>2. \A i \in Entries :
         /\ u[i].type = t[i].type /\ u[i].start = t[i].start
         /\ u[i].flags = IF i = target + 1 \/ (target >= 4 /\ i \in Extended(t))
                         THEN "on" ELSE "off"
  BY <1>1, MbrFlagsOnly
<1>3. f[0] = u /\ DOMAIN f = DOMAIN d /\ \A s \in DOMAIN d \ {0} : f[s] = d[s]
  BY <1>1 DEF MbrWritten
<1>4. u \in Tables
  <2>1. \A i \in Entries : /\ t[i] \in Entry /\ [t[i] EXCEPT !.flags = "on"] \in Entry
                           /\ [t[i] EXCEPT !.flags = "off"] \in Entry
    BY <1>1, EntryFields DEF Tables
  <2>2. QED
    BY <2>1 DEF MbrFlags, Tables
<1>5. IsDisk(f)
  BY <1>3, <1>4 DEF IsDisk
<1>6. SameEntries(u, t) /\ Extended(u) = Extended(t)
  BY <1>2 DEF SameEntries, Extended
<1> HIDE DEF t, u
<1>7. ASSUME target < 4, Bootable(u, target)
      PROVE  ExtBase(t, target) = 0 /\ ActivePartitions(f) = {t[target + 1].start}
  <2> DEFINE j == target + 1
  <2>1. j \in Entries /\ ~(target >= 4)
    BY <1>7 DEF Entries
  <2>2. ExtBase(t, target) = 0
    BY <2>1 DEF ExtBase
  <2>3. u[j].type = "data" /\ ~Unused(u[j]) /\ u[j].start = t[j].start
    BY <1>2, <1>7, <2>1 DEF Bootable
  <2>4. \A i \in Entries : u[i].flags = IF i = j THEN "on" ELSE "off"
    BY <1>2, <2>1
  <2> HIDE DEF j
  <2>5. ActiveIn(u, "data") = {j} /\ ActiveIn(u, "extended") = {}
    BY <2>1, <2>3, <2>4 DEF ActiveIn
  <2>6. LeadsTo(f, 0) = {}
    BY <1>3, <2>5 DEF LeadsTo
  <2>7. Reached(f) = {0}
    <3>1. {0} \in SUBSET DOMAIN f /\ FollowsLinks(f, {0})
      BY <1>5, <2>6 DEF FollowsLinks, IsDisk
    <3>2. QED
      BY <3>1 DEF Reached
  <2>8. ActivePartitions(f) = {0 + u[j].start}
    <3>1. ActivePartitions(f) = {0 + f[0][i].start : i \in ActiveIn(f[0], "data")}
      <4> DEFINE Behind(s) == {s + f[s][i].start : i \in ActiveIn(f[s], "data")}
      <4>1. ActivePartitions(f) = UNION {Behind(s) : s \in Reached(f)}
        BY DEF ActivePartitions
      <4> HIDE DEF Behind
      <4>2. ActivePartitions(f) = Behind(0)
        BY <2>7, <4>1
      <4>3. QED
        BY <4>2 DEF Behind
    <3>2. QED
      BY <1>3, <2>5, <3>1
  <2>9. u[j].start \in Nat
    BY <1>4, <2>1, EntryFields DEF Tables
  <2>10. 0 + u[j].start = t[j].start
    BY <2>3, <2>9
  <2>11. QED
    BY <2>2, <2>8, <2>10 DEF j
<1>8. ASSUME NEW e \in Extended(t), target >= 4
      PROVE  /\ Extended(u) = {e} /\ MbrLeadsOn(u)
             /\ ExtBase(t, target) = t[e].start /\ u[e].start = t[e].start
  <2>1. Extended(t) = {e} /\ e \in Entries
    BY DEF Standard, t, Extended
  <2>2. Max(Extended(t)) = e
    <3>1. Extended(t) \in SUBSET Entries /\ Extended(t) # {}
      BY <2>1
    <3>2. QED
      BY <2>1, <3>1, MaxOfEntries
  <2>3. \A i \in Entries : i # target + 1
    BY <1>8 DEF Entries
  <2>4. MbrLeadsOn(u)
    BY <1>2, <1>6, <1>8, <2>3 DEF MbrLeadsOn
  <2>5. QED
    BY <1>2, <1>6, <1>8, <2>1, <2>2, <2>4 DEF ExtBase
<1>9. QED
  BY <1>3, <1>5, <1>6, <1>7, <1>8 DEF t

------------------------------------------------------------------------------
(* The volumes are where the scan found them. *)

LEMMA LocatedFields ==
    ASSUME NEW d, NEW v, NEW w, w.index = v.index, w.start = v.start, Located(d, v)
    PROVE  Located(d, w)
  BY DEF Located

SameParts(v, w) == w.index = v.index /\ w.start = v.start /\ w.table = v.table

LEMMA KeepsLocated ==
    ASSUME LocatedInv, layout' = layout, DOMAIN vols' = DOMAIN vols,
           \A v \in DOMAIN vols : SameParts(vols[v], vols'[v]),
           pc' \in {"boot", "drivers"} \/ (pc' \in {"load", "running"} /\ back' = "drivers")
           => pc \in {"boot", "drivers"} \/ (pc \in {"load", "running"} /\ back = "drivers"),
           pc' \in {"scan", "relate"} /\ DOMAIN vols # {} =>
               pc \in {"scan", "relate"} /\ disk' = disk,
           walk' # NULL /\ pc' = "relate" => walk' = walk /\ pc = "relate"
    PROVE  LocatedInv'
<1>1. \A v \in DOMAIN vols' : vols'[v].table \in {NULL, layout[0]} /\ Located(layout, vols'[v])
  BY LocatedFields DEF LocatedInv, SameParts
<1>2. QED
  BY <1>1 DEF LocatedInv

LEMMA SamePartsAll ==
    ASSUME TypeOK, NEW v \in DOMAIN vols
    PROVE  /\ SameParts(vols[v], vols[v]) /\ SameParts(vols[v], UninitVolumes(vols[v]))
           /\ \A opens : SameParts(vols[v], ReinitVolumes(vols[v], opens))
<1>1. vols[v] \in Volume
  BY VolumesTyped
<1>2. QED
  BY <1>1 DEF SameParts, UninitVolumes, ReinitVolumes, Volume

LEMMA DiskIsDisk ==
    ASSUME TypeOK
    PROVE  IsDisk(disk)
  BY DEF TypeOK, ChainTypeOK, IsDisk, Tables

LEMMA QuietLocated ==
    ASSUME IInv, LocatedInv, Quiet \/ InitRefitLib \/ OpenDriverDir \/ CloseDriverDir,
           ~ScanMbrEntry, ~ScanSecondPass
    PROVE  LocatedInv'
<1>1. TypeOK /\ Phases
  BY DEF IInv
<1>2. UNCHANGED <<vols, layout>>
  BY DEF Quiet, StartProgram, LoadFails, ProgramWorks, ProgramStays, StartDriver, ScanEnds,
         ActivateMbrPartition, WalkBreaks, StartLegacy, LegacyLoad, Leave, InitRefitLib,
         OpenDriverDir, CloseDriverDir
<1>3. \A v \in DOMAIN vols : SameParts(vols[v], vols'[v])
  BY <1>1, <1>2, SamePartsAll
<1>4. CASE InitRefitLib \/ OpenDriverDir \/ CloseDriverDir
  <2>1. pc \in {"boot", "drivers"} /\ walk' = walk /\ disk' = disk
    BY <1>4 DEF InitRefitLib, OpenDriverDir, CloseDriverDir, chainVars
  <2>2. DOMAIN vols = {} /\ walk = NULL
    BY <1>1, <2>1 DEF LocatedInv, Phases
  <2>3. QED
    BY <1>2, <1>3, <2>1, <2>2, KeepsLocated
<1>5. CASE StartProgram \/ LoadFails \/ ProgramStays \/ StartDriver
  <2>1. /\ pc \in {"menu", "load", "running", "drivers"} /\ walk' = walk
        /\ pc' \in {"load", "off", back} /\ (pc' = back => pc = "load" /\ back' = back)
        /\ pc' = "load" => (pc = "menu" /\ back' = "menu") \/ pc = "drivers"
    BY <1>1, <1>5
       DEF StartProgram, LoadFails, ProgramStays, StartDriver, chainVars, TypeOK
  <2>2. back \in {"drivers", "menu"} /\ walk = NULL
    BY <1>1, <2>1 DEF TypeOK, Phases
  <2>3. QED
    BY <1>2, <1>3, <2>1, <2>2, KeepsLocated
<1>6. CASE ScanEnds \/ StartLegacy \/ LegacyLoad \/ Leave \/ ActivateMbrPartition
  <2>1. /\ pc' \in {"menu", "crashed", "legacy", "load", "off"}
        /\ pc' = "load" => back' = "menu"
    BY <1>6 DEF ScanEnds, StartLegacy, LegacyLoad, Leave, ActivateMbrPartition
  <2>2. QED
    BY <1>2, <1>3, <2>1, KeepsLocated
<1>7. CASE ProgramWorks
  BY <1>2, <1>3, <1>7, KeepsLocated DEF ProgramWorks
<1>8. CASE WalkBreaks
  <2>1. walk' = NULL /\ pc' = pc /\ back' = back /\ disk' = disk
    BY <1>8 DEF WalkBreaks, ScanBreaks, ActivateEmbrFails, End
  <2>2. QED
    BY <1>2, <1>3, <2>1, KeepsLocated
<1>9. QED
  BY <1>4, <1>5, <1>6, <1>7, <1>8 DEF Quiet

LEMMA ScanMbrEntryLocated ==
    ASSUME IInv, LocatedInv, ScanMbrEntry
    PROVE  LocatedInv'
<1>1. /\ TypeOK /\ Phases /\ pc = "relate" /\ walk = NULL /\ cursor \in DOMAIN vols
      /\ UNCHANGED <<pc, back, vols, layout, disk>>
  BY VolumesTyped DEF IInv, ScanMbrEntry, TypeOK
<1>2. \A v \in DOMAIN vols : SameParts(vols[v], vols'[v])
  BY <1>1, SamePartsAll
<1>3. CASE walk' = NULL
  BY <1>1, <1>2, <1>3, KeepsLocated
<1>4. CASE walk' # NULL
  <2> DEFINE v == vols[cursor]
             base == layout[0][slot].start
  <2>1. v.table # NULL /\ slot \in Extended(v.table) /\ StartScan(v.table[slot].start)
    BY <1>1, <1>4 DEF ScanMbrEntry
  <2>2. v.table = layout[0]
    BY <1>1, <2>1 DEF LocatedInv
  <2>3. slot \in Extended(layout[0]) /\ StartScan(base)
    BY <2>1, <2>2
  <2> HIDE DEF base
  <2>4. /\ base # 0
        /\ walk' = [fn |-> "scan", base |-> base, at |-> base, index |-> 4, target |-> NULL]
    BY <1>4, <2>3 DEF StartScan
  <2>5. /\ walk'.index = 4 /\ walk'.base = base /\ walk'.at = base
    BY <2>4
  <2>6. Leads(layout, base, <<base, 4>>, <<base, 4>>)
    BY LeadsToItself
  <2>7. /\ walk'.index >= 4
        /\ \E e \in Extended(layout[0]) :
              /\ walk'.base = layout[0][e].start /\ walk'.base # 0
              /\ Leads(layout, walk'.base, <<walk'.base, 4>>, <<walk'.at, walk'.index>>)
    BY <2>3, <2>4, <2>5, <2>6 DEF base
  <2>8. layout' = layout /\ DOMAIN vols' = DOMAIN vols /\ vols' = vols
    BY <1>1
  <2>9. QED
    BY <1>1, <2>7, <2>8 DEF LocatedInv
<1>5. QED
  BY <1>3, <1>4

LEMMA ScanSecondPassLocated ==
    ASSUME IInv, LocatedInv, ScanSecondPass
    PROVE  LocatedInv'
<1>1. /\ Phases /\ TypeOK /\ pc = "scan" /\ pc' = "relate" /\ walk = NULL
      /\ UNCHANGED <<vols, disk, walk>> /\ layout' = disk
  BY DEF IInv, ScanSecondPass, chainVars, Phases
<1>2. CASE DOMAIN vols = {}
  BY <1>1, <1>2 DEF LocatedInv
<1>3. CASE DOMAIN vols # {}
  <2>1. layout' = layout
    BY <1>1, <1>3 DEF LocatedInv
  <2>2. \A v \in DOMAIN vols : SameParts(vols[v], vols'[v])
    BY <1>1, SamePartsAll
  <2>3. QED
    BY <1>1, <2>1, <2>2, KeepsLocated
<1>4. QED
  BY <1>2, <1>3

LEMMA ScanVolumeLocated ==
    ASSUME IInv, LocatedInv, ScanVolume
    PROVE  LocatedInv'
<1>1. /\ Phases /\ TypeOK /\ pc = "scan" /\ walk = NULL
      /\ UNCHANGED <<pc, back, disk, walk>> /\ layout' = disk
  BY DEF IInv, ScanVolume, chainVars, Phases
<1>2. DOMAIN vols # {} => layout = disk
  BY <1>1 DEF LocatedInv
<1>3. IsDisk(disk)
  BY <1>1, DiskIsDisk
<1>4. CASE vols' = vols
  <2>1. \A v \in DOMAIN vols : vols[v].table \in {NULL, disk[0]} /\ Located(disk, vols[v])
    BY <1>2 DEF LocatedInv
  <2>2. QED
    BY <1>1, <1>3, <1>4, <2>1 DEF LocatedInv
<1>5. CASE vols' # vols
  <2>1. PICK w : vols' = Append(vols, w) /\ w.table \in {NULL, disk[0]} /\ w.index = NULL
    <3>1. PICK root, table :
             /\ table \in {NULL, disk[0]}
             /\ vols' = Append(vols, [device |-> Handles[cursor], handle |-> Handles[cursor],
                                      root |-> root, whole |-> WholeOf[Handles[cursor]],
                                      path |-> WholeOf[Handles[cursor]], table |-> table,
                                      index |-> NULL, start |-> 0])
      BY <1>5 DEF ScanVolume
    <3>2. QED
      BY <3>1
  <2>2. vols \in Seq(Volume)
    BY <1>1 DEF TypeOK
  <2>3. /\ DOMAIN vols' = 1 .. Len(vols) + 1 /\ DOMAIN vols = 1 .. Len(vols)
        /\ \A v \in DOMAIN vols' : vols'[v] = IF v \in DOMAIN vols THEN vols[v] ELSE w
    BY <2>1, <2>2
  <2>4. Located(disk, w)
    BY <2>1 DEF Located
  <2>5. \A v \in DOMAIN vols' : vols'[v].table \in {NULL, disk[0]} /\ Located(disk, vols'[v])
    BY <1>2, <2>1, <2>3, <2>4 DEF LocatedInv
  <2>6. QED
    BY <1>1, <1>3, <2>5 DEF LocatedInv
<1>6. QED
  BY <1>4, <1>5

LEMMA ScanExtendedPartitionLocated ==
    ASSUME IInv, LocatedInv, ScanExtendedPartition
    PROVE  LocatedInv'
<1>1. /\ Phases /\ TypeOK /\ pc = "relate" /\ walk # NULL /\ walk.at \in DOMAIN disk
      /\ UNCHANGED <<pc, back, disk, layout>> /\ cursor \in DOMAIN vols
  BY DEF IInv, Phases, ScanExtendedPartition, ScanEmbr, Readable, chainVars
<1>2. layout = disk /\ IsDisk(disk)
  BY <1>1, DiskIsDisk DEF LocatedInv
<1> DEFINE t == disk[walk.at]
           p == <<walk.at, walk.index>>
           new == [i \in DOMAIN Found |-> LogicalVolume(Found[i])]
           next == NextExtCurrent(t, walk.base)
<1>3. PICK e \in Extended(disk[0]) :
         /\ walk.base = disk[0][e].start /\ walk.base # 0 /\ walk.index >= 4
         /\ Leads(disk, walk.base, <<walk.base, 4>>, p)
  BY <1>1, <1>2 DEF LocatedInv
<1>4. walk.at \in Nat /\ walk.index \in Nat /\ p \in Station
  BY <1>1 DEF TypeOK, ChainTypeOK, Station
<1>5. Stop(t) \in 1 .. 5
  BY StopIsFirst
<1>6. /\ DOMAIN new = 1 .. Stop(t) - 1
      /\ \A i \in DOMAIN new : /\ new[i].table = NULL
                               /\ Located(disk, new[i])
  <2>1. DOMAIN new = 1 .. Stop(t) - 1
    BY DEF Found, Logical
  <2>2. ASSUME NEW i \in DOMAIN new
        PROVE  new[i].table = NULL /\ Located(disk, new[i])
    <3>1. /\ new[i].table = NULL /\ new[i].index = walk.index + i - 1
          /\ new[i].start = walk.at + t[i].start
      BY <2>1, <2>2 DEF LogicalVolume, Found, Logical
    <3>2. i \in Entries /\ i < Stop(t)
      BY <1>5, <2>1, <2>2 DEF Entries
    <3> HIDE DEF new
    <3>3. IsEntry(disk, p, i, new[i].index, new[i].start)
      BY <1>1, <1>3, <3>1, <3>2 DEF IsEntry
    <3>4. Located(disk, new[i])
      BY <1>3, <1>4, <3>2, <3>3 DEF Located
    <3>5. QED
      BY <3>1, <3>4
  <2>3. QED
    BY <2>1, <2>2
<1>7. /\ vols' = vols \o new /\ new = [i \in DOMAIN new |-> new[i]]
      /\ walk' = IF next = 0 THEN NULL
                 ELSE [walk EXCEPT !.at = next, !.index = @ + Stop(t) - 1]
  BY DEF ScanExtendedPartition, ScanEmbr
<1> HIDE DEF new
<1>8. vols \in Seq(Volume)
  BY <1>1 DEF TypeOK
<1>9. \A v \in DOMAIN vols' : \/ v \in DOMAIN vols /\ vols'[v] = vols[v]
                              \/ \E i \in DOMAIN new : vols'[v] = new[i]
  <2> DEFINE n == Stop(t) - 1
             S == {new[i] : i \in DOMAIN new}
  <2>1. n \in Nat /\ DOMAIN new = 1 .. n
    BY <1>5, <1>6
  <2> HIDE DEF n
  <2>2. new \in Seq(S)
    <3>1. new \in [1 .. n -> S]
      BY <1>7, <2>1
    <3>2. QED
      BY <2>1, <3>1
  <2>3. Len(new) = n
    BY <2>1, <2>2
  <2>4. /\ DOMAIN vols = 1 .. Len(vols) /\ Len(vols) \in Nat
        /\ DOMAIN vols' = 1 .. Len(vols) + n
        /\ \A v \in DOMAIN vols' : vols'[v] = IF v <= Len(vols) THEN vols[v]
                                                               ELSE new[v - Len(vols)]
    BY <1>7, <1>8, <2>1, <2>2, <2>3
  <2>5. \A v \in DOMAIN vols' : v > Len(vols) => v - Len(vols) \in DOMAIN new
    BY <2>1, <2>4
  <2>6. QED
    BY <2>4, <2>5
<1>10. \A v \in DOMAIN vols' : vols'[v].table \in {NULL, disk[0]} /\ Located(disk, vols'[v])
  BY <1>2, <1>6, <1>9 DEF LocatedInv
<1>11. ASSUME next # 0
       PROVE  /\ walk'.index >= 4 /\ walk'.base = walk.base
              /\ Leads(disk, walk.base, <<walk.base, 4>>, <<walk'.at, walk'.index>>)
  <2>1. walk' = [walk EXCEPT !.at = next, !.index = @ + Stop(t) - 1]
    BY <1>7, <1>11
  <2>2. walk'.at = next /\ walk'.index = walk.index + Stop(t) - 1 /\ walk'.base = walk.base
    BY <1>1, <2>1 DEF TypeOK, ChainTypeOK
  <2>3. Linked(t) /\ next = walk.base + t[Stop(t)].start
    BY <1>11 DEF NextExtCurrent
  <2>4. Continues(disk, p) /\ Onward(disk, walk.base, p) = <<walk'.at, walk'.index>>
    BY <1>1, <2>2, <2>3 DEF Continues, Onward
  <2>5. Leads(disk, walk.base, <<walk.base, 4>>, Onward(disk, walk.base, p))
    BY <1>3, <2>4, LeadsOnward
  <2>6. walk'.index >= 4
    <3> HIDE DEF t
    <3>1. QED
      BY <1>3, <1>4, <1>5, <2>2
  <2>7. QED
    BY <2>2, <2>4, <2>5, <2>6
<1>12. walk' # NULL => next # 0
  BY <1>7
<1>13. layout' = disk /\ disk' = disk /\ pc' = "relate" /\ IsDisk(disk)
  BY <1>1, <1>2
<1> HIDE DEF t, p, next
<1>14. walk' # NULL =>
         /\ walk'.index >= 4
         /\ \E f \in Extended(disk[0]) :
               /\ walk'.base = disk[0][f].start /\ walk'.base # 0
               /\ Leads(disk, walk'.base, <<walk'.base, 4>>, <<walk'.at, walk'.index>>)
  BY <1>3, <1>11, <1>12
<1>15. QED
  BY <1>10, <1>13, <1>14 DEF LocatedInv

LEMMA RelateVolumeLocated ==
    ASSUME IInv, LocatedInv, RelateVolume
    PROVE  LocatedInv'
<1>1. /\ TypeOK /\ pc = "relate" /\ walk = NULL /\ UNCHANGED <<pc, back, layout, disk, walk>>
      /\ cursor \in DOMAIN vols
  BY VolumesTyped DEF IInv, RelateVolume, chainVars, TypeOK
<1>2. \A v \in DOMAIN vols : vols[v] \in Volume
  BY <1>1, VolumesTyped
<1>3. CASE vols' = vols
  <2>1. \A v \in DOMAIN vols : SameParts(vols[v], vols'[v])
    BY <1>1, <1>3, SamePartsAll
  <2>2. QED
    BY <1>1, <1>3, <2>1, KeepsLocated
<1>4. CASE vols' # vols
  <2> DEFINE a == Associated(vols[cursor])
             s == StartOf[vols[cursor].device]
  <2>1. a # {} /\ vols' = [vols EXCEPT ![cursor].index = Min(a) - 1, ![cursor].start = s]
    BY <1>4 DEF RelateVolume
  <2>2. a \in SUBSET Nat /\ a \subseteq Entries
    BY DEF Associated, Entries
  <2>3. Min(a) \in a
    BY <2>1, <2>2, MinOfNaturals
  <2> DEFINE i == Min(a)
  <2>4. i \in Entries /\ Matches(vols[cursor], i)
    BY <2>2, <2>3 DEF Associated
  <2>5. s = layout[0][i].start
    BY <2>4 DEF Matches, LocatedInv
  <2> HIDE DEF i, s, a
  <2>6. vols' = [vols EXCEPT ![cursor].index = i - 1, ![cursor].start = s]
    BY <2>1 DEF i
  <2> DEFINE w == [vols[cursor] EXCEPT !.index = i - 1, !.start = s]
  <2>7. w.index = i - 1 /\ w.start = s /\ w.table = vols[cursor].table
    BY ONLY <1>1, <1>2 DEF Volume
  <2>8. /\ DOMAIN vols' = DOMAIN vols /\ vols'[cursor] = w
        /\ \A v \in DOMAIN vols : v # cursor => vols'[v] = vols[v]
    BY <1>1, <2>6
  <2> HIDE DEF w
  <2>9. i - 1 \in 0 .. 3 /\ i - 1 + 1 = i
    BY <2>4 DEF Entries
  <2>10. w.index \in 0 .. 3 /\ w.start = layout[0][w.index + 1].start
    BY <2>5, <2>7, <2>9
  <2>11. Located(layout, w)
    BY <2>10 DEF Located
  <2>12. \A v \in DOMAIN vols' : /\ vols'[v].table \in {NULL, layout[0]}
                                 /\ Located(layout, vols'[v])
    BY <1>1, <2>7, <2>8, <2>11 DEF LocatedInv
  <2>13. QED
    BY <1>1, <2>8, <2>12 DEF LocatedInv
<1>5. QED
  BY <1>3, <1>4

LEMMA LocatedStep ==
    ASSUME IInv, LocatedInv, [Next]_vars
    PROVE  LocatedInv'
<1>1. TypeOK
  BY DEF IInv
<1>2. CASE UNCHANGED vars
  <2>1. UNCHANGED <<vols, layout, pc, back, disk, walk>>
    BY <1>2 DEF vars, chainVars
  <2>2. \A v \in DOMAIN vols : SameParts(vols[v], vols'[v])
    BY <1>1, <2>1, SamePartsAll
  <2>3. QED
    BY <2>1, <2>2, KeepsLocated
<1>3. CASE Quiet \/ InitRefitLib \/ OpenDriverDir \/ CloseDriverDir
  BY <1>3, QuietLocated, ScanMbrEntryLocated, ScanSecondPassLocated
<1>4. CASE ScanVolume \/ ScanExtendedPartition \/ RelateVolume
  BY <1>4, ScanVolumeLocated, ScanExtendedPartitionLocated, RelateVolumeLocated
<1>5. CASE StartImage
  <2>1. /\ DOMAIN vols' = DOMAIN vols
        /\ \A v \in DOMAIN vols : vols'[v] = UninitVolumes(vols[v])
        /\ layout' = layout /\ pc = "load" /\ pc' \in {"running", "crashed"} /\ back' = back
    BY <1>5 DEF StartImage, UninitRefitLib
  <2>2. \A v \in DOMAIN vols : SameParts(vols[v], vols'[v])
    BY <1>1, <2>1, SamePartsAll
  <2>3. QED
    BY <2>1, <2>2, KeepsLocated
<1>6. CASE ProgramReturns
  <2>1. PICK opens \in SUBSET DOMAIN vols :
           vols' = [v \in DOMAIN vols |-> ReinitVolumes(vols[v], v \in opens)]
    BY <1>6 DEF ProgramReturns, ReinitRefitLib
  <2>2. /\ DOMAIN vols' = DOMAIN vols
        /\ \A v \in DOMAIN vols : SameParts(vols[v], vols'[v])
    BY <1>1, <2>1, SamePartsAll
  <2>3. /\ layout' = layout /\ pc = "running" /\ pc' = back /\ back' = back
        /\ back \in {"drivers", "menu"}
    BY <1>1, <1>6 DEF ProgramReturns, TypeOK
  <2>4. QED
    BY <2>2, <2>3, KeepsLocated
<1>7. QED
  BY <1>2, <1>3, <1>4, <1>5, <1>6 DEF Next, Files, Scan, Walk, Program, Quiet

------------------------------------------------------------------------------
(* The activation leads to the volume that was chosen. *)

LEMMA NoActivation ==
    ASSUME pc' # "legacy", pc' = "load" => chosen' = NULL,
           chosen' # NULL => pc' \in {"load", "running", "off", "crashed"}
    PROVE  ActivationInv'
  BY DEF ActivationInv

LEMMA StartLegacyActivates ==
    ASSUME IInv, LocatedInv, ActivationInv, StartLegacy
    PROVE  ActivationInv'
<1>1. TypeOK /\ Phases /\ walk = NULL /\ vols' = vols /\ layout' = layout
  BY DEF IInv, StartLegacy, Phases
<1>2. PICK v \in DOMAIN vols :
         /\ chosen' = v
         /\ \/ vols[v].index = NULL /\ pc' = "legacy" /\ UNCHANGED chainVars
            \/ vols[v].index # NULL /\ pc' = "crashed" /\ UNCHANGED chainVars
            \/ vols[v].index # NULL /\ pc' = "legacy" /\ (Activate(vols[v].index) \/ ActivateFails)
  BY DEF StartLegacy
<1>3. CASE pc' = "crashed"
  BY <1>3, NoActivation
<1>4. CASE vols[v].index = NULL /\ pc' = "legacy" /\ UNCHANGED chainVars
  BY <1>1, <1>2, <1>4 DEF ActivationInv, chainVars
<1>5. CASE pc' = "legacy" /\ ActivateFails
  BY <1>1, <1>2, <1>5 DEF ActivationInv, ActivateFails, End
<1>6. CASE pc' = "legacy" /\ vols[v].index # NULL /\ Activate(vols[v].index)
  <2> DEFINE target == vols[v].index
             base == ExtBase(disk[0], target)
  <2>1. target \in Nat /\ target # NULL
    BY <1>1, <1>6, VolumesTyped, VolumeUpdates
  <2>2. /\ disk' = [disk EXCEPT ![0] = MbrFlags(disk[0], target)]
        /\ IF base = 0 THEN walk' = NULL /\ status' = "success"
           ELSE walk' = [fn |-> "activate", base |-> base, at |-> base, index |-> 4,
                         target |-> target]
    BY <1>6 DEF Activate, End
  <2>3. IsDisk(disk) /\ IsDisk(layout) /\ Located(layout, vols[v])
    BY <1>1, DiskIsDisk DEF LocatedInv
  <2>4. vols'[chosen'] = vols[v]
    BY <1>1, <1>2
  <2>5. disk[0] \in Tables /\ 0 \in DOMAIN disk
    BY <2>3 DEF IsDisk
  <2>6. ASSUME AsScanned'
        PROVE  Standard(disk) /\ SameLayout(disk, layout)
    <3> DEFINE u == MbrFlags(disk[0], target)
    <3>1. SameEntries(u, disk[0])
      BY <2>5, MbrFlagsOnly DEF SameEntries
    <3>2. Standard(disk') /\ SameLayout(disk', layout)
      BY <1>1, <2>6 DEF AsScanned
    <3> HIDE DEF u
    <3>3. disk' = [disk EXCEPT ![0] = u]
      BY <2>2 DEF u
    <3>4. Standard([disk EXCEPT ![0] = u]) /\ SameLayout([disk EXCEPT ![0] = u], layout)
      BY <3>2, <3>3
    <3>5. QED
      BY ONLY <2>5, <3>1, <3>4, LayoutBefore
  <2>7. ASSUME AsScanned'
        PROVE  /\ disk'[0] \in Tables /\ 0 \in DOMAIN disk'
               /\ target < 4 /\ Bootable(disk'[0], target) =>
                     base = 0 /\ ActivePartitions(disk') = {disk[0][target + 1].start}
               /\ \A e \in Extended(disk[0]) : target >= 4 =>
                     /\ Extended(disk'[0]) = {e} /\ MbrLeadsOn(disk'[0])
                     /\ base = disk[0][e].start /\ disk'[0][e].start = disk[0][e].start
    <3> HIDE DEF target
    <3>1. disk' = MbrWritten(disk, target)
      BY <2>2 DEF MbrWritten
    <3>2. IsDisk(disk) /\ Standard(disk) /\ target \in Nat
      BY <2>1, <2>3, <2>6, <2>7
    <3>3. /\ IsDisk(disk')
          /\ target < 4 /\ Bootable(disk'[0], target) =>
                ExtBase(disk[0], target) = 0
                /\ ActivePartitions(disk') = {disk[0][target + 1].start}
          /\ \A e \in Extended(disk[0]) : target >= 4 =>
                /\ Extended(disk'[0]) = {e} /\ MbrLeadsOn(disk'[0])
                /\ ExtBase(disk[0], target) = disk[0][e].start
                /\ disk'[0][e].start = disk[0][e].start
      BY ONLY <3>1, <3>2, MbrActivated
    <3>4. disk'[0] \in Tables /\ 0 \in DOMAIN disk'
      BY <3>3 DEF IsDisk
    <3>5. QED
      BY <3>3, <3>4
  <2>8. CASE target \in 0 .. 3 /\ vols[v].start = layout[0][target + 1].start
    <3>1. base = 0
      BY <2>8 DEF ExtBase
    <3>2. walk' = NULL
      BY <2>2, <3>1
    <3>3. ASSUME AsScanned', Bootable(disk'[0], target)
          PROVE  ActivePartitions(disk') = {vols[v].start}
      <4>1. ActivePartitions(disk') = {disk[0][target + 1].start}
        BY <2>7, <2>8, <3>3
      <4>2. target + 1 \in Entries
        BY <2>8 DEF Entries
      <4>3. disk[0][target + 1].start = layout[0][target + 1].start
        BY <2>5, <2>6, <3>3, <4>2 DEF SameLayout
      <4>4. QED
        BY <2>8, <4>1, <4>3
    <3> HIDE DEF target
    <3>4. vols'[chosen'].index = target
      BY <2>4 DEF target
    <3>5. QED
      BY <1>6, <2>4, <3>2, <3>3, <3>4 DEF ActivationInv
  <2>9. CASE \E e \in Extended(layout[0]), p \in Station, i \in Entries :
                /\ layout[0][e].start # 0
                /\ Leads(layout, layout[0][e].start, <<layout[0][e].start, 4>>, p)
                /\ IsEntry(layout, p, i, target, vols[v].start)
    <3>1. PICK e \in Extended(layout[0]), p \in Station, i \in Entries :
             /\ layout[0][e].start # 0
             /\ Leads(layout, layout[0][e].start, <<layout[0][e].start, 4>>, p)
             /\ IsEntry(layout, p, i, target, vols[v].start)
      BY <2>9
    <3>2. target >= 4
      <4>1. p[2] >= 4 /\ p[2] \in Nat /\ i \in 1 .. 4 /\ target = p[2] + i - 1
        BY <3>1 DEF IsEntry, Station, Entries
      <4> HIDE DEF target
      <4>2. QED
        BY <4>1
    <3>3. ASSUME AsScanned'
          PROVE  /\ base = layout[0][e].start /\ base # 0 /\ MbrLeadsOn(disk'[0])
                 /\ e \in Extended(disk'[0]) /\ base = disk'[0][e].start
      <4>1. e \in Entries /\ disk[0][e].start = layout[0][e].start /\ e \in Extended(disk[0])
        BY <2>5, <2>6, <3>3 DEF SameLayout, Extended
      <4>2. QED
        BY <2>7, <3>1, <3>2, <3>3, <4>1
    <3>4. CASE base = 0
      <4>1. walk' = NULL /\ ~AsScanned'
        BY <2>2, <3>3, <3>4
      <4>2. QED
        BY <1>6, <4>1 DEF ActivationInv
    <3>5. CASE base # 0
      <4>1. /\ walk'.fn = "activate" /\ walk'.at = base /\ walk'.target = target
            /\ walk'.base = base /\ walk'.index = 4
            /\ walk' = [fn |-> "activate", base |-> base, at |-> base, index |-> 4,
                        target |-> target]
        BY <2>2, <3>5
      <4>2. ASSUME AsScanned'
            PROVE  OnTheWay'
        <5>1. /\ base = layout[0][e].start /\ MbrLeadsOn(disk'[0])
              /\ e \in Extended(disk'[0]) /\ base = disk'[0][e].start
          BY <3>3, <4>2
        <5> HIDE DEF base
        <5>2. Leads(layout, base, <<base, 4>>, p)
          BY <3>1, <5>1
        <5>3. Trail(disk', base, base, {})
          BY TrailBegins
        <5>4. IsEntry(layout', p, i, vols'[chosen'].index, vols'[chosen'].start)
          BY <1>1, <2>4, <3>1
        <5>5. Leads(layout', walk'.base, <<walk'.at, walk'.index>>, p)
          BY <1>1, <4>1, <5>2 DEF base
        <5>6. \E T \in SUBSET DOMAIN disk' : Trail(disk', walk'.base, walk'.at, T)
          BY <4>1, <5>3
        <5>7. QED
          BY <4>1, <5>1, <5>4, <5>5, <5>6 DEF OnTheWay
      <4>3. walk' # NULL
        <5>1. base \in Nat
          BY <2>5, ExtBaseIsNat
        <5> HIDE DEF base, target
        <5>2. walk' \in Walking
          BY <2>1, <4>1, <5>1 DEF Walking
        <5>3. QED
          BY <5>2, DisksAssumption
      <4>4. QED
        BY <1>6, <2>4, <3>5, <4>1, <4>2, <4>3 DEF ActivationInv
    <3>6. QED
      BY <3>4, <3>5
  <2>10. QED
    BY <2>1, <2>3, <2>8, <2>9 DEF Located
<1>7. QED
  BY <1>2, <1>3, <1>4, <1>5, <1>6

LEMMA ActivateMbrPartitionLeads ==
    ASSUME IInv, LocatedInv, ActivationInv, ActivateMbrPartition
    PROVE  ActivationInv'
<1> DEFINE t == disk[walk.at]
           at == walk.at
           target == walk.target
           next == NextExtCurrent(t, walk.base)
           after == walk.index + Stop(t) - 1
           u == EmbrFlags(t, walk.index, target)
<1>1. /\ TypeOK /\ Phases /\ pc = "legacy" /\ walk # NULL /\ ActivateEmbr
      /\ UNCHANGED <<pc, vols, chosen, layout>>
  BY DEF IInv, Phases, ActivateMbrPartition, ActivateEmbr, Readable
<1>2. /\ disk' = [disk EXCEPT ![at] = u] /\ at \in DOMAIN disk
      /\ Stop(t) \in Entries => t[Stop(t)].flags # "bad"
      /\ IF target < after \/ next = 0 THEN walk' = NULL /\ status' = "success"
         ELSE walk' = [walk EXCEPT !.at = next, !.index = after] /\ UNCHANGED status
  BY <1>1 DEF ActivateEmbr, Readable, End
<1>3. /\ walk.fn = "activate" /\ at # 0 /\ walk.base # 0 /\ target = vols[chosen].index
      /\ target # NULL
      /\ AsScanned => OnTheWay
  BY <1>1 DEF ActivationInv
<1>4. chosen \in DOMAIN vols /\ vols[chosen].index \in Nat \union {NULL}
  BY <1>1, VolumesTyped, VolumeUpdates DEF Phases, TypeOK
<1>5. IsDisk(disk) /\ IsDisk(layout)
  BY <1>1, <1>4, DiskIsDisk DEF LocatedInv
<1>6. /\ walk \in Walking /\ at \in Nat /\ walk.index \in Nat /\ walk.base \in Nat
      /\ t \in Tables
  BY <1>1, <1>2, <1>5 DEF TypeOK, ChainTypeOK, Walking, IsDisk
<1>7. ASSUME AsScanned', target \in Nat
      PROVE  AsScanned /\ Standard(disk) /\ SameLayout(disk, layout)
  <2>1. SameEntries(u, disk[at]) /\ Stop(u) = Stop(disk[at])
    BY <1>6, <1>7, FlagsOnly
  <2>2. Standard(disk') /\ SameLayout(disk', layout)
    BY <1>1, <1>7 DEF AsScanned
  <2> HIDE DEF u
  <2>3. Standard([disk EXCEPT ![at] = u]) /\ SameLayout([disk EXCEPT ![at] = u], layout)
    BY <1>2, <2>2
  <2>4. Standard(disk) /\ SameLayout(disk, layout)
    BY ONLY <1>2, <2>1, <2>3, LayoutBefore
  <2>5. QED
    BY <2>4 DEF AsScanned
<1>8. ASSUME AsScanned', target \in Nat
      PROVE  \/ /\ target < after \/ next = 0
                /\ ActivePartitions(disk') = {vols[chosen].start}
             \/ /\ ~(target < after) /\ next # 0
                /\ walk' = [walk EXCEPT !.at = next, !.index = after]
                /\ OnTheWay'
  <2>1. Standard(disk) /\ SameLayout(disk, layout) /\ OnTheWay
    BY <1>3, <1>7, <1>8
  <2>2. PICK e \in Extended(disk[0]), p \in Station, i \in Entries :
           /\ walk.base = disk[0][e].start
           /\ Leads(layout, walk.base, <<at, walk.index>>, p)
           /\ IsEntry(layout, p, i, target, vols[chosen].start)
           /\ MbrLeadsOn(disk[0])
           /\ \E T \in SUBSET DOMAIN disk : Trail(disk, walk.base, at, T)
    BY <1>3, <2>1 DEF OnTheWay
  <2>3. PICK T \in SUBSET DOMAIN disk : Trail(disk, walk.base, at, T)
    BY <2>2
  <2>4. Extended(disk[0]) = {e} /\ e \in Entries
    BY <2>1, <2>2 DEF Standard, Extended
  <2> DEFINE base == disk[0][e].start
             Goes == \/ /\ target < after \/ next = 0
                        /\ ActivePartitions(disk') = {vols[chosen].start}
                     \/ /\ after <= target /\ next \in Nat \ {0}
                        /\ Leads(layout, base, <<next, after>>, p)
                        /\ Trail(disk', base, next, T \union {at})
  <2>5. walk.base = base /\ base \in Nat \ {0}
    BY <1>3, <1>6, <2>2
  <2>6. Goes
    <3>1. IsUnderWay(disk, layout, e, at, walk.index, target, vols[chosen].start, p, i, T)
      BY <1>2, <1>3, <1>5, <1>6, <1>8, <2>1, <2>2, <2>3, <2>4, <2>5 DEF IsUnderWay
    <3>2. IsActivated(disk, layout, e, at, walk.index, target, vols[chosen].start, p, T)
      BY <3>1, SectorActivated
    <3>3. next = NextExtCurrent(disk[at], base) /\ disk' = [disk EXCEPT ![at] = u]
      BY <1>2, <2>5
    <3>4. QED
      BY <3>2, <3>3 DEF IsActivated
  <2>7. CASE (target < after \/ next = 0) /\ ActivePartitions(disk') = {vols[chosen].start}
    BY <2>7
  <2>8. CASE /\ after <= target /\ next \in Nat \ {0}
             /\ Leads(layout, base, <<next, after>>, p)
             /\ Trail(disk', base, next, T \union {at})
    <3>1. after \in Int
      BY <1>6, StopIsFirst
    <3>2. ~(target < after)
      <4> HIDE DEF after, target
      <4>1. QED
        BY <1>8, <2>8, <3>1
    <3>3. walk' = [walk EXCEPT !.at = next, !.index = after]
      BY <1>2, <2>8, <3>2
    <3>4. walk'.at = next /\ walk'.index = after /\ walk'.base = walk.base
      BY <1>6, <3>3 DEF Walking
    <3>5. disk'[0] = disk[0] /\ DOMAIN disk' = DOMAIN disk
      BY <1>2, <1>3
    <3>6. /\ e \in Extended(disk'[0]) /\ walk'.base = disk'[0][e].start /\ MbrLeadsOn(disk'[0])
          /\ IsEntry(layout', p, i, vols'[chosen'].index, vols'[chosen'].start)
      BY <1>1, <1>3, <2>2, <2>5, <3>4, <3>5
    <3>7. Leads(layout', walk'.base, <<walk'.at, walk'.index>>, p)
      BY <1>1, <2>5, <2>8, <3>4
    <3>8. \E S \in SUBSET DOMAIN disk' : Trail(disk', walk'.base, walk'.at, S)
      <4>1. T \union {at} \in SUBSET DOMAIN disk'
        BY <1>2, <3>5
      <4>2. Trail(disk', walk'.base, walk'.at, T \union {at})
        BY <2>5, <2>8, <3>4
      <4>3. QED
        BY <4>1, <4>2
    <3>9. OnTheWay'
      BY <3>6, <3>7, <3>8 DEF OnTheWay
    <3>10. QED
      BY <2>8, <3>2, <3>3, <3>9
  <2>9. QED
    BY <2>6, <2>7, <2>8
<1>9. CASE target < after \/ next = 0
  <2>1. walk' = NULL /\ pc' = "legacy"
    BY <1>1, <1>2, <1>9
  <2>2. ASSUME AsScanned', vols[chosen].index # NULL
        PROVE  ActivePartitions(disk') = {vols[chosen].start}
    <3>1. target \in Nat
      BY <1>3, <1>4, <2>2
    <3>2. QED
      BY <1>8, <1>9, <2>2, <3>1
  <2> HIDE DEF target, after, next
  <2>3. QED
    BY <1>1, <1>4, <2>1, <2>2 DEF ActivationInv
<1>10. CASE ~(target < after \/ next = 0)
  <2>1. walk' = [walk EXCEPT !.at = next, !.index = after]
    BY <1>2, <1>10
  <2>2. /\ walk'.fn = walk.fn /\ walk'.at = next /\ walk'.base = walk.base
        /\ walk'.target = target
    BY <1>6, <2>1 DEF Walking
  <2>3. walk' # NULL
    <3>1. after \in Nat /\ next \in Nat
      <4>1. next \in Nat
        BY <1>6, NextIsNat
      <4>2. Stop(t) \in Nat /\ Stop(t) >= 1
        BY StopIsFirst
      <4> HIDE DEF t
      <4>3. QED
        BY <1>6, <4>1, <4>2
    <3> HIDE DEF after, next
    <3>2. walk' \in Walking
      BY <1>6, <2>1, <3>1 DEF Walking
    <3>3. QED
      BY <3>2, DisksAssumption
  <2>4. ASSUME AsScanned', vols[chosen].index # NULL
        PROVE  OnTheWay'
    <3>1. target \in Nat
      BY <1>3, <1>4, <2>4
    <3>2. QED
      BY <1>8, <1>10, <2>4, <3>1
  <2>5. QED
    BY <1>1, <1>3, <1>10, <2>2, <2>3, <2>4 DEF ActivationInv
<1>11. QED
  BY <1>9, <1>10

LEMMA LegacyLoadKeeps ==
    ASSUME IInv, ActivationInv, LegacyLoad
    PROVE  ActivationInv'
<1>1. /\ pc = "legacy" /\ walk = NULL /\ pc' = "load"
      /\ UNCHANGED <<vols, chosen, layout, walk, disk, status>>
  BY DEF LegacyLoad, chainVars
<1>2. AsScanned' <=> AsScanned
  BY <1>1 DEF AsScanned
<1>3. QED
  BY <1>1, <1>2 DEF ActivationInv

LEMMA WalkBreaksGivesUp ==
    ASSUME IInv, ActivationInv, WalkBreaks
    PROVE  ActivationInv'
<1>1. Phases /\ walk # NULL /\ walk' = NULL /\ UNCHANGED <<pc, vols, chosen, layout, disk>>
  BY DEF IInv, WalkBreaks, ScanBreaks, ActivateEmbrFails, End
<1>2. CASE pc = "legacy"
  <2>1. walk.fn = "activate"
    BY <1>1, <1>2 DEF ActivationInv
  <2>2. status' = "error"
    BY <2>1 DEF WalkBreaks, ScanBreaks, ActivateEmbrFails, End
  <2>3. QED
    BY <1>1, <1>2, <2>2 DEF ActivationInv
<1>3. CASE pc # "legacy"
  BY <1>1, <1>3, NoActivation DEF ActivationInv, Phases
<1>4. QED
  BY <1>2, <1>3

LEMMA ActivationStep ==
    ASSUME IInv, LocatedInv, ActivationInv, [Next]_vars
    PROVE  ActivationInv'
<1>1. Phases /\ TypeOK
  BY DEF IInv
<1>2. CASE UNCHANGED vars
  <2>1. UNCHANGED <<pc, vols, chosen, layout, walk, disk, status>>
    BY <1>2 DEF vars, chainVars
  <2>2. (AsScanned' <=> AsScanned) /\ (OnTheWay' <=> OnTheWay)
    BY <2>1 DEF AsScanned, OnTheWay
  <2>3. QED
    BY <2>1, <2>2 DEF ActivationInv
<1>3. CASE Files \/ Scan \/ ScanExtendedPartition \/ StartProgram \/ Leave
  <2>1. /\ pc \in {"boot", "drivers", "scan", "relate", "menu"} /\ chosen' = chosen
        /\ pc' # "legacy"
    BY <1>3 DEF Files, Scan, InitRefitLib, OpenDriverDir, StartDriver, CloseDriverDir, ScanVolume,
                ScanSecondPass, ScanMbrEntry, RelateVolume, ScanEnds, ScanExtendedPartition,
                StartProgram, Leave
  <2>2. chosen = NULL
    BY <2>1 DEF ActivationInv
  <2>3. QED
    BY <2>1, <2>2, NoActivation
<1>4. CASE LoadFails \/ ProgramReturns
  <2>1. chosen' = NULL /\ pc' \in {"drivers", "menu"}
    BY <1>1, <1>4 DEF LoadFails, ProgramReturns, TypeOK
  <2>2. QED
    BY <2>1, NoActivation
<1>5. CASE StartImage \/ ProgramWorks \/ ProgramStays
  <2>1. pc' \in {"running", "crashed", "off"} /\ chosen' = chosen /\ pc \in {"load", "running"}
    BY <1>5 DEF StartImage, ProgramWorks, ProgramStays
  <2>2. CASE pc' = "crashed"
    BY <2>2 DEF ActivationInv
  <2>3. CASE pc' # "crashed"
    BY <2>1, <2>3, NoActivation
  <2>4. QED
    BY <2>2, <2>3
<1>6. CASE StartLegacy
  BY <1>6, StartLegacyActivates
<1>7. CASE ActivateMbrPartition
  BY <1>7, ActivateMbrPartitionLeads
<1>8. CASE WalkBreaks
  BY <1>8, WalkBreaksGivesUp
<1>9. CASE LegacyLoad
  BY <1>9, LegacyLoadKeeps
<1>10. QED
  BY <1>2, <1>3, <1>4, <1>5, <1>6, <1>7, <1>8, <1>9 DEF Next, Walk, Program

(* Volumes are numbered as the chains of the disk that was scanned number     *)
(* them, and an activation in progress is on its way to the one chosen.       *)
THEOREM RefitVolumesOnTheWay == Spec => [](LocatedInv /\ ActivationInv)
<1>1. Init => LocatedInv /\ ActivationInv
  BY DEF Init, LocatedInv, ActivationInv
<1>2. IInv /\ LocatedInv /\ [Next]_vars => LocatedInv'
  BY LocatedStep
<1>3. IInv /\ LocatedInv /\ ActivationInv /\ [Next]_vars => ActivationInv'
  BY ActivationStep
<1>4. QED
  BY <1>1, <1>2, <1>3, RefitVolumesInductive, PTL DEF Spec

(* For every disk: where the activation before a legacy boot succeeded, boot  *)
(* code that follows the active flags finds the partition that was chosen and *)
(* no other, however long the chain, and even where it leads in a circle.     *)
THEOREM RefitVolumesActiveLeads == Spec => []ActiveLeadsToChosen
<1>1. IInv /\ ActivationInv => ActiveLeadsToChosen
  BY DEF IInv, Phases, ActivationInv, ActiveLeadsToChosen, AsScanned
<1>2. QED
  BY <1>1, RefitVolumesInductive, RefitVolumesOnTheWay, PTL

================================================================================
