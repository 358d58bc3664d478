------------------------------- MODULE MCFswVolume ------------------------------
(* The directory tree, on whatever medium it is: /d (directory), /d/l (hard   *)
(* link of /f), /d/up -> l, /d/k (hard link of /l), /f (file), /l -> d/../d,  *)
(* /s (special).                                                              *)
EXTENDS FswVolume

MCIds == {"root", "d", "f", "up", "l", "s"}

MCKind == [root |-> "dir", d |-> "dir", f |-> "file",
           up |-> "symlink", l |-> "symlink", s |-> "special"]

E(n, i) == [name |-> n, id |-> i]

MCDir == [root |-> <<E("d", "d"), E("l", "l"), E("f", "f"), E("s", "s")>>,
          d    |-> <<E("l", "f"), E("up", "up"), E("k", "l")>>]

MCTarget == [up |-> <<"l">>, l |-> <<"d", "..", "d">>]

MCPaths == {<<"d", "up">>, <<"d", "k">>, <<"l", "up">>, <<"", "l", "", "l">>, <<"f", "x">>,
            <<"d", "..", ".">>, <<"..">>, <<"s">>}
------------------------------------------------------------------------------
(* Media, each made from what a driver is to find out about it.              *)

PerGroup == 8

(* ext2: the superblock at 1 KiB, and from the block after it the group      *)
(* descriptors; group g's inode table is at block 100 + 10 * g.              *)
Ext2(rev, incompat, bs, groups, inode_size, label, verdict) ==
    LET first    == IF bs = 1 THEN 1 ELSE 0
        perblock == bs * DescsPerKiB
        inodes   == (bs * InodesPerKiB) \div (IF rev = 0 THEN 1 ELSE inode_size)
        descs(b) == [is |-> "gdescs", tables |->
                       [i \in 1 .. perblock |-> 100 + 10 * (b * perblock + i - 1)]]
        super    == [is |-> "ext2", rev |-> rev, incompat |-> incompat, bs |-> bs,
                     first |-> first, inodes |-> groups * PerGroup, per_group |-> PerGroup,
                     inode_size |-> inode_size, label |-> label]
    IN [fs |-> "ext2", verdict |-> verdict, label |-> label, bs |-> bs, size |-> 4000,
        at |-> (1 :> super) @@ [pos \in {bs * (first + 1 + b) : b \in 0 .. 9} |->
                                   descs((pos \div bs) - first - 1)],
        inode |-> [ino \in 1 .. groups * PerGroup |->
                     LET n == (ino - 1) % PerGroup IN
                     [block |-> 100 + 10 * ((ino - 1) \div PerGroup) + (n \div inodes),
                      index |-> n % inodes]]]

ReiserSb(magic, version, rebuilding, bs, label) ==
    [is |-> "reiserfs", magic |-> magic, version |-> version,
     rebuilding |-> rebuilding, bs |-> bs, label |-> label]

Reiser(at, bs, label, verdict) ==
    [fs |-> "reiserfs", verdict |-> verdict, label |-> label, bs |-> bs, size |-> 4000,
     at |-> at]

Desc(id, type, bs, label) ==
    [is |-> "iso", id |-> id, type |-> type, version |-> 1, bs |-> bs, label |-> label]

(* ISO 9660: a Volume Descriptor Set from 32 KiB on.                         *)
Iso(set, size, label, verdict) ==
    [fs |-> "iso9660", verdict |-> verdict, label |-> label, bs |-> 2, size |-> size,
     at |-> [pos \in {32 + 2 * (i - 1) : i \in DOMAIN set} |-> set[((pos - 32) \div 2) + 1]]]

Boot == Desc("CD001", 0, 2, "")
End  == Desc("CD001", 255, 2, "")

AllMedia == {
    Ext2(1, {"filetype"}, 4, 3, 2, "Linux", "SUCCESS"),
    Ext2(0, {"journal"}, 1, 3, 3, "", "SUCCESS"),      \* revision 0 has neither field
    Ext2(1, {"filetype", "journal"}, 1, 1, 1, "ext4", "UNSUPPORTED"),
    Reiser(16 * 4 :> ReiserSb("jr", "v2", FALSE, 4, "data"), 4, "data", "SUCCESS"),
    Reiser((16 * 4 :> ReiserSb("jr", "v9", FALSE, 4, "new")) @@
           (2 * 4 :> ReiserSb("v1", "v9", FALSE, 1, "")), 1, "", "SUCCESS"),
    Reiser(16 * 4 :> ReiserSb("v2", "v2", TRUE, 4, "broken"), 4, "broken", "VOLUME_CORRUPTED"),
    Iso(<<Boot, Desc("CD001", 1, 2, "OLD"), Desc("CD001", 2, 2, "Joliet"),
          Desc("CD001", 1, 2, "DISC"), End>>, 4000, "DISC", "SUCCESS"),
    Iso(<<Desc("CD001", 1, 4, "DVD"), Desc("CDW02", 1, 2, "UDF")>>, 4000, "DVD", "UNSUPPORTED"),
    Iso(<<End>>, 4000, "", "UNSUPPORTED"),
    Iso(<<Boot, Boot>>, 36, "", "UNSUPPORTED")}        \* ends with the disc

MCMedia == AllMedia
------------------------------------------------------------------------------
(* What a path may name, worked out on the disk alone.                        *)

ParentsOf(id) == {d \in DOMAIN Dir : \E i \in DOMAIN Dir[d] : Dir[d][i].id = id}
Entries(dir, name) ==
    LET named == Named(dir, name)
    IN  IF named = {} THEN {} ELSE {Dir[dir][Max(named)].id}

RECURSIVE Walk(_, _, _)

(* What a symlink leads to, from a directory it is in; other ids as they are. *)
Followed(id) == IF Kind[id] = "symlink"
                THEN UNION {Walk(d, Target[id], TRUE) : d \in ParentsOf(id)} ELSE {id}

Walk(id, path, first) ==
    IF path = <<>> THEN {id}
    ELSE IF Head(path) = "" THEN Walk(IF first THEN Root ELSE id, Tail(path), FALSE)
    ELSE LET dirs == Followed(id) \cap DOMAIN Dir
             next == CASE Head(path) = "."  -> dirs
                       [] Head(path) = ".." -> UNION {ParentsOf(d) : d \in dirs}
                       [] OTHER -> UNION {Entries(d, Head(path)) : d \in dirs}
         IN  UNION {Walk(n, Tail(path), FALSE) : n \in next}

(* Whatever other dnodes are in memory and wherever they were found from, a  *)
(* path opens what it names on the disk: fsw_efi_dir_open reaches the object *)
(* its path leads to, through empty components, "..", and symlinks relative  *)
(* to the directory they are in. A symlink with several hard links is taken  *)
(* relative to one of its directories, not always the one in the path: its   *)
(* dnode keeps the parent it was first found in (fsw_core.c:374).            *)
OpensWhatThePathNames ==
    Running("dir_open") /\ Top.pc = "handle" =>
        heap[Top.dno].dnode_id
            \in UNION {Followed(id) :
                          id \in Walk(heap[files[Top.from].dnode].dnode_id, Top.path, TRUE)}
================================================================================
