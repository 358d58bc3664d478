----------------------------- MODULE MCFswFileRead -----------------------------
(* Files in blocks of 8 bytes. Of ext2, with 2 direct pointers and 2 per      *)
(* block: one that reaches into the triple-indirect block and has holes at    *)
(* several levels, one whose last block holds a single byte, and one without  *)
(* direct blocks. One of iso9660, and those of the reiserfs volume without a  *)
(* hole among their pointers; holes has one. The positions in long do not fit *)
(* W bits.                                                                    *)
EXTENDS FswFileRead, MCReiserfsVolume

FromZero(s) == [i \in 0 .. Len(s) - 1 |-> s[i + 1]]

Ext2(blocks, size) == [fs |-> "ext2", i_block |-> FromZero(blocks), size |-> size]
Reiser(object, size) == [fs |-> "reiserfs", object |-> object, size |-> size]

MCDisk == [deep    |-> Ext2(<<10, 11, 20, 30, 40>>, 95),
           odd     |-> Ext2(<<60, 61, 21, 0, 0>>, 17),
           sparse  |-> Ext2(<<0, 0, 22, 0, 0>>, 32),
           cd      |-> [fs |-> "iso9660", extent_location |-> 33, size |-> 27],
           items   |-> Reiser(<<2, 10>>, 29),
           tail    |-> Reiser(<<2, 11>>, 13),
           empty   |-> Reiser(<<2, 12>>, 12),
           old     |-> Reiser(<<2, 14>>, 6),
           short   |-> Reiser(<<2, 17>>, 12),
           long    |-> Reiser(<<2, 18>>, 133),
           gone    |-> Reiser(<<2, 16>>, 12),
           freed   |-> Reiser(<<3, 16>>, 12)]

MCDiskHoles == [holes |-> Reiser(<<2, 15>>, 24)]

MCPointers == 20 :> FromZero(<<12, 13>>) @@ 21 :> FromZero(<<62, 0>>)
           @@ 22 :> FromZero(<<0, 70>>)  @@ 30 :> FromZero(<<31, 0>>)
           @@ 31 :> FromZero(<<14, 16>>) @@ 40 :> FromZero(<<41, 0>>)
           @@ 41 :> FromZero(<<42, 43>>) @@ 42 :> FromZero(<<50, 51>>)
           @@ 43 :> FromZero(<<0, 52>>)
MCNodes == VolumeNodes

(* The file holes is the only one that is not whole. *)
ASSUME WholeFilesAssumption ==
    \A f \in DOMAIN Disk : Disk[f].fs = "reiserfs" => (WithoutHoles(f) <=> f # "holes")
================================================================================
