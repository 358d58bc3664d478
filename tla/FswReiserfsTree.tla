--------------------------- MODULE FswReiserfsTree ---------------------------
(***************************************************************************)
(* Finding an item in the tree of a reiserfs volume and the item after it:  *)
(* fsw_reiserfs_item_search, _item_next and _item_release                   *)
(* (fsw/fsw_reiserfs.c) on the blocks described in fsw_reiserfs_disk.h. A   *)
(* search is a value t that its caller keeps and takes through TreeStep(t)  *)
(* until it is at rest; each step gets one block of the tree, which may     *)
(* fail.                                                                    *)
(***************************************************************************)
EXTENDS Integers, Sequences, FiniteSets

CONSTANTS
    Nodes,       \* Nodes[b]: the tree block b
    RootBlock,   \* s_root_block
    TreeHeight   \* s_tree_height

Leaf   == 1                      \* DISK_LEAF_NODE_LEVEL
Levels == Leaf .. TreeHeight - 1

(* Keys in the order of their comparison: <<k_dir_id, k_objectid, offset>>.  *)
(* Both formats of an offset are decoded to the same number; the type that   *)
(* is decoded with it is the item's.                                         *)
Key == Nat \X Nat \X Nat
ItemTypes == {"stat", "indirect", "direct", "direntry"}
SameObject(k, l) == k[1] = l[1] /\ k[2] = l[2]

(* fsw_reiserfs_compare_key = FIRST_GREATER *)
FirstGreater(k, want) ==
    \/ k[1] > want[1]
    \/ k[1] = want[1] /\ k[2] > want[2]
    \/ SameObject(k, want) /\ k[3] > want[3]

(* An internal node has N keys and N + 1 pointers, a leaf items with keys.   *)
IsNode(n) == /\ n.level \in Nat
             /\ n.level > Leaf => /\ n.keys \in Seq(Key) /\ n.child \in Seq(DOMAIN Nodes)
                                  /\ Len(n.child) = Len(n.keys) + 1
             /\ n.level = Leaf => /\ Len(n.items) \in Nat \ {0}
                                  /\ DOMAIN n.items = 1 .. Len(n.items)
                                  /\ \A i \in DOMAIN n.items :
                                        /\ n.items[i].key \in Key
                                        /\ n.items[i].type \in ItemTypes
                                        /\ n.items[i].type = "indirect" =>
                                              n.items[i].pointers \in Seq(Nat)
                                        /\ n.items[i].type = "direct" =>
                                              n.items[i].data \in Seq(Nat \X Nat)

ASSUME TreeAssumption == /\ DOMAIN Nodes \subseteq Nat \ {0}
                         /\ \A b \in DOMAIN Nodes : IsNode(Nodes[b])
                         /\ RootBlock \in DOMAIN Nodes /\ TreeHeight \in Nat \ {0, 1}

------------------------------------------------------------------------------
(* A search at rest is "found", "none" (FSW_NOT_FOUND) or "error"; bno is    *)
(* the next block to get at level; held is block_bno, the leaf on loan.      *)

TreeSearch ==
    [pc : {"search", "up", "down", "found", "none", "error"}, next : BOOLEAN, want : Key,
     level : Nat, bno : Nat, held : Nat, path_bno : [Levels -> Nat],
     path_index : [Levels -> Nat]]

Search(want) ==
    [pc |-> "search", next |-> FALSE, want |-> want, level |-> TreeHeight - 1, bno |-> RootBlock,
     held |-> 0, path_bno |-> [l \in Levels |-> 0], path_index |-> [l \in Levels |-> 0]]

AtRest(t) == t.pc \in {"found", "none", "error"}
AtItem(t) == Nodes[t.held].items[t.path_index[Leaf] + 1]

Failed(t, why) == [t EXCEPT !.pc = why, !.held = 0]

(* The position of the first key that is greater than the one wanted, from   *)
(* zero; one past the last when there is none.                               *)
FirstGreaterAt(keys, want) ==
    Cardinality({i \in DOMAIN keys :
                    \A j \in 1 .. i : ~FirstGreater(keys[j], want)})

(* Seeded fault: the leaf stays on loan when its item is of another object. *)
SettleKeepsBlock(t, i) ==
    LET item == Nodes[t.bno].items[i + 1]
    IN  [t EXCEPT !.pc = IF SameObject(item.key, t.want) THEN "found" ELSE "none",
                  !.held = t.bno, !.path_index[Leaf] = i]

(* At item i of a leaf, from zero: the leaf stays on loan if it is of the    *)
(* object wanted.                                                            *)
Settle(t, i) ==
    LET at == [t EXCEPT !.path_index[Leaf] = i]
    IN  IF SameObject(Nodes[t.bno].items[i + 1].key, t.want)
        THEN [at EXCEPT !.pc = "found", !.held = t.bno]
        ELSE Failed(at, "none")

(* The last item whose key is not greater than the one wanted; item_search   *)
(* stops earlier at an identical key, and keys differ.                       *)
SearchLeaf(t) ==
    LET items == Nodes[t.bno].items
        i == FirstGreaterAt([j \in DOMAIN items |-> items[j].key], t.want)
    IN  IF i = 0 THEN Failed(t, "none") ELSE Settle(t, i - 1)

(* Seeded fault: the pointer to the left of the key at hand is followed when *)
(* the key is the one wanted.                                                *)
DescendLeft(t) ==
    LET node == Nodes[t.bno]
        i == Cardinality({j \in DOMAIN node.keys : FirstGreater(t.want, node.keys[j])})
    IN  [t EXCEPT !.path_index[t.level] = i, !.bno = node.child[i + 1], !.level = @ - 1]

Descend(t) ==
    LET i == FirstGreaterAt(Nodes[t.bno].keys, t.want)
    IN  [t EXCEPT !.path_index[t.level] = i, !.bno = Nodes[t.bno].child[i + 1],
                  !.level = @ - 1]

SearchStep(t) ==
    LET here == [t EXCEPT !.path_bno[t.level] = t.bno]
    IN  IF Nodes[t.bno].level # t.level THEN Failed(t, "error")
        ELSE IF t.level = Leaf THEN SearchLeaf(here) ELSE Descend(here)

------------------------------------------------------------------------------
(* item_next: up from the leaf until a node has a pointer to the right of    *)
(* the path, then down its leftmost path. The leaf is released first, and    *)
(* got again as the first block on the way.                                  *)

NextItem(t) == [t EXCEPT !.pc = "up", !.level = Leaf, !.held = 0, !.next = TRUE,
                         !.bno = t.path_bno[Leaf], !.want = AtItem(t).key]

Follow(t) == [t EXCEPT !.pc = "down", !.level = @ - 1,
                       !.bno = Nodes[t.bno].child[t.path_index[t.level] + 1]]

UpStep(t) ==
    LET node == Nodes[t.bno]
        next == t.path_index[t.level] + 1
        all  == IF t.level = Leaf THEN Len(node.items) ELSE Len(node.child)
    IN  IF node.level # t.level THEN Failed(t, "error") ELSE
        CASE next < all /\ t.level = Leaf -> Settle(t, next)
          [] next < all /\ t.level > Leaf ->
                Follow([t EXCEPT !.path_index[t.level] = next])
          [] next >= all /\ t.level = TreeHeight - 1 -> Failed(t, "none")
          [] OTHER -> [t EXCEPT !.path_index[t.level] = 0, !.level = @ + 1,
                                !.bno = t.path_bno[t.level + 1]]

DownStep(t) ==
    LET here == [t EXCEPT !.path_bno[t.level] = t.bno]
    IN  IF Nodes[t.bno].level # t.level THEN Failed(t, "error")
        ELSE IF t.level = Leaf THEN Settle(here, t.path_index[Leaf]) ELSE Follow(here)

(* What the next step may lead to; every fsw_block_get may fail. *)
TreeStep(t) ==
    {Failed(t, "error"),
     CASE t.pc = "search" -> SearchStep(t)
       [] t.pc = "up" -> UpStep(t)
       [] t.pc = "down" -> DownStep(t)}

------------------------------------------------------------------------------
(* Reference: the items of the tree, whatever its shape. *)

AllItems == UNION {{Nodes[b].items[i] : i \in DOMAIN Nodes[b].items} :
                      b \in {b \in DOMAIN Nodes : Nodes[b].level = Leaf}}
ObjectItems(object) == {it \in AllItems : it.key[1] = object[1] /\ it.key[2] = object[2]}

(* What the keys of internal nodes say of a sound tree: the key to the right *)
(* of a pointer is greater than all that is below it, and the key to its     *)
(* left is the first of those, unless no leaf is there.                      *)
Children(b)   == IF Nodes[b].level > Leaf
                 THEN {Nodes[b].child[i] : i \in DOMAIN Nodes[b].child} ELSE {}
Under(b)      == {c \in DOMAIN Nodes : \A S \in SUBSET DOMAIN Nodes :
                      b \in S /\ (\A d \in S : Children(d) \subseteq S) => c \in S}
ItemsOf(b)    == IF Nodes[b].level = Leaf
                 THEN {Nodes[b].items[i] : i \in DOMAIN Nodes[b].items} ELSE {}
ItemsUnder(b) == UNION {ItemsOf(c) : c \in Under(b)}

Ascending(keys) == \A i, j \in DOMAIN keys : i < j => FirstGreater(keys[j], keys[i])

Divides(n) ==
    \A i \in DOMAIN n.child :
        LET below == ItemsUnder(n.child[i])
        IN  /\ \A it \in below : i <= Len(n.keys) => FirstGreater(n.keys[i], it.key)
            /\ \A it \in below : i > 1 => ~FirstGreater(n.keys[i - 1], it.key)
            /\ below # {} /\ i > 1 => \E it \in below : it.key = n.keys[i - 1]

ASSUME SearchTreeAssumption ==
    /\ \A b \in DOMAIN Nodes :
          /\ Nodes[b].level = Leaf =>
                Ascending([i \in DOMAIN Nodes[b].items |-> Nodes[b].items[i].key])
          /\ Nodes[b].level > Leaf => Ascending(Nodes[b].keys) /\ Divides(Nodes[b])
    /\ AllItems = ItemsUnder(RootBlock)

(* A search finds "the position of the item which has key either equal to    *)
(* given key, or which is the maximal key less than the given key"           *)
(* (fsw_reiserfs_disk.h:1021-1022) among those of the object; next is the    *)
(* item after it, until there is none.                                       *)
ResultIsRight(t) ==
    LET fits == {it \in ObjectItems(t.want) : IF t.next THEN it.key[3] > t.want[3]
                                              ELSE it.key[3] <= t.want[3]}
        Closest(it) == \A other \in fits : IF t.next THEN it.key[3] <= other.key[3]
                                           ELSE other.key[3] <= it.key[3]
    IN  /\ t.pc = "found" => AtItem(t) \in fits /\ Closest(AtItem(t))
        /\ t.pc = "none" => fits = {}
================================================================================
