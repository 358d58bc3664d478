--------------------------- MODULE MCReiserfsVolume ---------------------------
(* A reiserfs volume with a tree of three levels for blocks of 8 bytes. The   *)
(* root directory <<1, 2>> has its entries in three items in three leaves,    *)
(* the directory <<2, 13>> in one. File <<2, 10>> has two indirect items in   *)
(* two leaves, <<2, 11>> an indirect item and a tail, <<2, 12>> no data,      *)
(* <<2, 14>> is in the format 3.5 and fits its tail, <<2, 15>> has a hole in  *)
(* an indirect item, <<2, 17>> one pointer too few and <<2, 18>> more bytes   *)
(* than seven bits count. Where <<3, 16>> should be the tree leads to a block *)
(* that was freed.                                                            *)
EXTENDS Integers, Sequences, TLC

It(type, key) == [type |-> type, key |-> key]
Stat(key, version, len, size, mode) ==
    It("stat", key) @@ [version |-> version, len |-> len, size |-> size, mode |-> mode]
Pointers3(key, p) == It("indirect", key) @@ [pointers |-> p]
Data(key, data) == It("direct", key) @@ [data |-> data]
DirItem(key, e) == It("direntry", key) @@ [entries |-> e]
E(offset, object, name) ==
    [offset |-> offset, object |-> object, name |-> name, info |-> 82]

DotR    == E(1, <<1, 2>>, <<".">>)
DotDotR == E(2, <<0, 1>>, <<".", ".">>)

LeafNode(items) == [level |-> 1, items |-> items]
Internal(level, child, keys) == [level |-> level, child |-> child, keys |-> keys]

VolumeNodes ==
    301 :> Internal(3, <<201, 202, 203>>, <<<<1, 2, 640>>, <<2, 13, 1>>>>) @@
    201 :> Internal(2, <<101, 102>>, <<<<1, 2, 256>>>>) @@
    202 :> Internal(2, <<103, 104, 105>>, <<<<2, 10, 17>>, <<2, 11, 9>>>>) @@
    203 :> Internal(2, <<106, 107, 108>>, <<<<2, 15, 0>>, <<3, 16, 0>>>>) @@
    101 :> LeafNode(<<Stat(<<1, 2, 0>>, 2, 44, 200, "dir"),
                      DirItem(<<1, 2, 1>>, <<DotR, DotDotR, E(128, <<2, 10>>, <<"a">>),
                                             E(129, <<2, 17>>, <<"p">>)>>)>>) @@
    102 :> LeafNode(<<DirItem(<<1, 2, 256>>, <<E(256, <<2, 13>>, <<"d">>)>>)>>) @@
    103 :> LeafNode(<<DirItem(<<1, 2, 640>>, <<E(640, <<2, 11>>, <<"b">>),
                                               E(768, <<3, 16>>, <<"x">>)>>),
                      Stat(<<2, 10, 0>>, 2, 44, 29, "file"),
                      Pointers3(<<2, 10, 1>>, <<80, 82>>)>>) @@
    104 :> LeafNode(<<Pointers3(<<2, 10, 17>>, <<81, 83>>),
                      Stat(<<2, 11, 0>>, 2, 44, 13, "file"),
                      Pointers3(<<2, 11, 1>>, <<84>>)>>) @@
    105 :> LeafNode(<<Data(<<2, 11, 9>>, <<<<105, 1>>, <<105, 2>>, <<105, 3>>, <<105, 4>>, <<105, 5>>>>),
                      Stat(<<2, 12, 0>>, 2, 44, 12, "file"),
                      Stat(<<2, 13, 0>>, 2, 44, 48, "dir")>>) @@
    106 :> LeafNode(<<DirItem(<<2, 13, 1>>,
                         <<DotR, DotDotR, E(130, <<2, 14>>, <<".reiserfs_priv">>)>>),
                      Stat(<<2, 14, 0>>, 1, 32, 6, "file"), Data(<<2, 14, 1>>, <<<<106, 1>>, <<106, 2>>, <<106, 3>>, <<106, 4>>, <<106, 5>>, <<106, 6>>>>)>>) @@
    107 :> LeafNode(<<Stat(<<2, 15, 0>>, 2, 44, 24, "file"),
                      Pointers3(<<2, 15, 1>>, <<85, 0, 86>>),
                      Stat(<<2, 17, 0>>, 1, 44, 12, "file"),
                      Pointers3(<<2, 17, 1>>, <<87>>),
                      Stat(<<2, 18, 0>>, 2, 44, 133, "file"),
                      Pointers3(<<2, 18, 1>>, [i \in 1 .. 17 |-> 400 + i])>>) @@
    108 :> [level |-> 0]
================================================================================
