------------------------------- MODULE FswDirRead -------------------------------
(***************************************************************************)
(* Listing and searching a directory, from rEFIt's directory iterator       *)
(* (refit/lib.c) through the EFI file protocol (fsw/fsw_efi.c) and the core *)
(* (fsw/fsw_core.c) down to the directory itself: records in the data of an *)
(* ext2 or iso9660 directory (fsw/fsw_ext2.c, fsw/fsw_iso9660.c), items in  *)
(* the tree of reiserfs (fsw/fsw_reiserfs.c). Reading the data is module    *)
(* FswFileRead; here a read of a record's header or name succeeds as a      *)
(* whole or fails. Names are sequences of characters.                       *)
(***************************************************************************)
EXTENDS FswReiserfsTree, SequencesExt, FiniteSetsExt

CONSTANTS
    Dirs,         \* Dirs[d]: a directory, with its records in the order of its
                  \*   data or, of reiserfs, with its object
    Names,        \* names clients look up
    Filters,      \* filter modes clients list with: 0 all, 1 directories, 2 files
    Patterns,     \* sets of names the clients' file patterns match
    FirstBuffer,  \* size of the buffer DirNextEntry starts with, 256 in the code
    MaxTries,     \* the last IterCount DirNextEntry retries at, 4 in the code
    NULL

(* The directory's data is covered by its records: start is where one lies,  *)
(* rec_len, name_len, inode and name are on the disk, kind and info (what an *)
(* EFI_FILE_INFO of it needs) are what its dnode will have. Of iso9660 all   *)
(* records are in use; after one of length zero nothing is, up to the next.   *)
(* The last record stands for the end of the data.                           *)
Record == [start : Nat, inode : Nat, rec_len : Nat, name_len : Nat, name : Seq(STRING),
           kind : {"dir", "file"}, info : Nat]
Covers(records) ==
    /\ records # <<>> /\ records[1].start = 0 /\ Last(records).rec_len = 0
    /\ \A k \in DOMAIN records \ {1} :
          IF records[k - 1].rec_len = 0 THEN records[k].start > records[k - 1].start
          ELSE records[k].start = records[k - 1].start + records[k - 1].rec_len

(* What names "." and ".." in an iso9660 directory: a byte of 0 and of 1.     *)
DotId == {<<"x00">>, <<"x01">>}

DOT_OFFSET == 1
DOT_DOT_OFFSET == 2
FIRST_ITEM_OFFSET == 1

(* The items of a reiserfs directory (the table at fsw_reiserfs_disk.h:1328), *)
(* "First directory item has k_offset component 1": one at least, with "."    *)
(* and "..", if there are any. An item has the offset of its first entry, and *)
(* the entries ascend in it and from item to item.                            *)
DirEntry == [offset : Nat, object : Nat \X Nat, name : Seq(STRING), info : Nat]
IsDirectory(object) ==
    LET items   == ObjectItems(object)
        listing == {it \in items : it.type = "direntry"}
    IN  /\ \A it \in items : it.type = "direntry" <=> it.key[3] # 0
        /\ listing # {} => \E it \in listing : it.key[3] = FIRST_ITEM_OFFSET
        /\ \A it \in listing :
              /\ it.entries \in Seq(DirEntry) /\ it.entries # <<>>
              /\ it.entries[1].offset = it.key[3]
              /\ \A i, j \in DOMAIN it.entries :
                    i < j => it.entries[i].offset < it.entries[j].offset
              /\ \A other \in listing \ {it} : it.key[3] <= other.key[3] =>
                    \A i \in DOMAIN it.entries : it.entries[i].offset < other.key[3]

(* A call at a record (or entry) of the directory. *)
Calls == [fn : {"dir_read", "dir_lookup"}, rec : Nat, name : Names \union {<<>>},
          pc : {"header", "name", "item", "create", "fill", "info"}]

ASSUME DirAssumption ==
    /\ \A d \in DOMAIN Dirs : IF Dirs[d].fs = "reiserfs"
                              THEN /\ Dirs[d].object \in Nat \X Nat
                                   /\ IsDirectory(Dirs[d].object)
                              ELSE /\ Dirs[d].records \in Seq(Record)
                                   /\ Covers(Dirs[d].records)
    /\ Names \cap DotId = {}   \* clients name files by characters
    /\ Filters \subseteq {0, 1, 2} /\ FirstBuffer \in Nat /\ MaxTries \in Nat
    /\ NULL \notin Calls

VARIABLES
    dir,    \* the directory
    pos,    \* position of the handle that is listed
    iter,   \* the REFIT_DIR_ITER on it, or NULL
    call,   \* the read or lookup in progress, or NULL
    at,     \* position of the handle that call reads through
    tree,   \* the tree search in progress, or NULL
    held,   \* the tree block on loan, or 0
    found   \* result of the last lookup, or NULL

vars == <<dir, pos, iter, call, at, tree, held, found>>

On(fs) == Dirs[dir].fs = fs

(* Bytes before a record's name. *)
Header == IF On("iso9660") THEN 33 ELSE 8

Records == Dirs[dir].records
Size    == Last(Records).start
RecordAt(p) == CHOOSE k \in DOMAIN Records : Records[k].start = p

Init == /\ dir \in DOMAIN Dirs
        /\ pos = 0 /\ at = 0
        /\ iter = NULL /\ call = NULL /\ found = NULL
        /\ tree = NULL /\ held = 0

------------------------------------------------------------------------------
(* The rEFIt side: DirIterOpen, DirIterNext and DirNextEntry, DirIterClose.  *)

(* A path opens a handle of its own; without one the base directory's handle *)
(* is used, at the position it has.                                          *)
IterOpen(path, filter, pattern) ==
    /\ iter = NULL /\ call = NULL
    /\ pos' = IF path THEN 0 ELSE pos
    /\ iter' = [filter |-> filter, pattern |-> pattern, status |-> "success",
                buffer |-> FirstBuffer, tries |-> 0, from |-> pos', seen |-> <<>>]
    /\ UNCHANGED <<dir, call, at, tree, held, found>>

Listing == iter # NULL /\ call = NULL /\ iter.status = "success"

(* The first read of a call: of a record's header, or for an item's key. *)
Begin(fn, name, start) ==
    /\ call' = [fn |-> fn, pc |-> IF On("reiserfs") THEN "item" ELSE "header",
                rec |-> 0, name |-> name]
    /\ at' = IF On("reiserfs") THEN Max({FIRST_ITEM_OFFSET, start}) ELSE start
    /\ tree' = IF On("reiserfs") THEN Search(Dirs[dir].object \o <<at'>>) ELSE NULL
    /\ UNCHANGED <<dir, pos, held>>

DirRead == Listing /\ Begin("dir_read", <<>>, pos) /\ UNCHANGED <<iter, found>>

IterClose ==
    /\ iter # NULL /\ iter.status # "success"
    /\ iter' = NULL
    /\ UNCHANGED <<dir, pos, call, at, tree, held, found>>

(* A driver's dir_lookup, with a handle or a search of its own. *)
Lookup(name) ==
    /\ iter = NULL /\ call = NULL
    /\ Begin("dir_lookup", name, 0)
    /\ found' = NULL
    /\ UNCHANGED iter

------------------------------------------------------------------------------
(* The ends of a call. *)

At(pc) == call # NULL /\ call.pc = pc

(* The call fails; fsw_dnode_dir_read puts the position back, so that pos    *)
(* is what it was. The iterator's user is told, and at the end of the        *)
(* directory told so.                                                        *)
Fail(status) ==
    /\ call' = NULL /\ tree' = NULL
    /\ IF call.fn = "dir_read"
       THEN iter' = [iter EXCEPT !.status = status] /\ UNCHANGED found
       ELSE found' = [name |-> call.name, rec |-> 0, status |-> status]
              /\ UNCHANGED iter
    /\ UNCHANGED <<dir, pos, at>>

(* A read of the directory or of an ext2 inode fails, or there is no memory  *)
(* for the dnode.                                                            *)
ReadFails ==
    /\ call # NULL /\ tree = NULL
    /\ At("info") => On("ext2")
    /\ Fail("error")
    /\ UNCHANGED held

------------------------------------------------------------------------------
(* fsw_ext2_read_dentry and fsw_iso9660_read_dirrec, and the loops of        *)
(* dir_lookup and dir_read around them.                                      *)

AtRecord == At("header") /\ at + Header <= Size
This     == Records[RecordAt(at)]

EndOfDirectory ==
    /\ At("header")
    /\ at + Header <= Size => This.rec_len = 0
    /\ Fail("end")
    /\ UNCHANGED held

Unsound ==
    /\ AtRecord /\ This.rec_len > 0
    /\ \/ This.rec_len < Header
       \/ This.inode # 0 /\ This.rec_len < Header + This.name_len
    /\ Fail("error")
    /\ UNCHANGED held

MoveOn(to, pc) ==
    /\ at' = to
    /\ call' = [call EXCEPT !.pc = pc, !.rec = RecordAt(at)]
    /\ UNCHANGED <<dir, pos, iter, tree, held, found>>

Unused == AtRecord /\ This.rec_len >= Header /\ This.inode = 0

(* Seeded fault: an unused record is taken for the end of the directory. *)
SkipUnusedIsEnd == Unused /\ Fail("end") /\ UNCHANGED held

SkipUnused == Unused /\ MoveOn((at + Header) + (This.rec_len - Header), "header")

ReadHeader ==
    /\ AtRecord /\ This.inode # 0 /\ This.rec_len >= Header + This.name_len
    /\ MoveOn(at + Header, "name")

(* What fsw_iso9660_read_dirrec makes of an identifier: without the version  *)
(* number, and without the separator of an empty extension.                  *)
Unversioned(id) ==
    LET versions == {i \in DOMAIN id : id[i] = ";"}
        name == IF versions = {} THEN id ELSE SubSeq(id, 1, Max(versions) - 1)
    IN  IF name # <<>> /\ Last(name) = "." THEN Front(name) ELSE name

Dots(r) == r.name \in IF On("iso9660") THEN DotId ELSE {<<".">>, <<".", ".">>}
NameOf(r) == IF On("iso9660") THEN Unversioned(r.name) ELSE r.name

(* Seeded fault: a lookup stops at the first name. *)
PassedOverByDots(r) == Dots(r)

(* dir_read passes over "." and "..", dir_lookup over every name but the one *)
(* it wants, in iso9660 over both.                                           *)
PassedOver(r) == \/ Dots(r) /\ (call.fn = "dir_read" \/ On("iso9660"))
                 \/ call.fn = "dir_lookup" /\ NameOf(r) # call.name

(* The name and the padding behind it. *)
ReadName ==
    /\ At("name")
    /\ LET r == Records[call.rec]
       IN  /\ at' = at + r.name_len + (r.rec_len - (Header + r.name_len))
           /\ call' = [call EXCEPT !.pc = IF PassedOver(r) THEN "header" ELSE "create"]
    /\ UNCHANGED <<dir, pos, iter, tree, held, found>>

------------------------------------------------------------------------------
(* fsw_reiserfs_dir_lookup and _dir_read; at is the offset of an entry.      *)

TreeWalk ==
    /\ tree # NULL /\ ~AtRest(tree)
    /\ \E t \in TreeStep(tree) : tree' = t /\ held' = t.held
    /\ UNCHANGED <<dir, pos, iter, call, at, found>>

AtItemFound(pc) == At(pc) /\ tree.pc = "found"

(* No item: the end of the directory, or for stat data a damaged volume.     *)
(* There is nothing to release.                                              *)
NoItem ==
    /\ At("item") \/ At("fill")
    /\ tree.pc \in {"none", "error"}
    /\ Fail(IF At("item") /\ tree.pc = "none" THEN "end" ELSE "error")
    /\ UNCHANGED held

EmptyDirectory ==
    /\ AtItemFound("item") /\ AtItem(tree).key[3] = 0
    /\ Fail("end")
    /\ held' = 0

Private == <<".reiserfs_priv">>

(* The entries of the item at hand the call is for. *)
Candidates ==
    {i \in DOMAIN AtItem(tree).entries :
        LET e == AtItem(tree).entries[i]
        IN  IF call.fn = "dir_lookup" THEN e.name = call.name
            ELSE /\ e.offset >= at /\ e.name # Private
                 /\ e.offset \notin {DOT_OFFSET, DOT_DOT_OFFSET}}

Entry ==
    /\ AtItemFound("item") /\ AtItem(tree).key[3] # 0 /\ Candidates # {}
    /\ LET e == AtItem(tree).entries[Min(Candidates)]
       IN  /\ call' = [call EXCEPT !.pc = "create", !.rec = e.offset]
           /\ at' = e.offset + 1
    /\ UNCHANGED <<dir, pos, iter, tree, held, found>>

NoEntryInItem ==
    /\ AtItemFound("item") /\ AtItem(tree).key[3] # 0 /\ Candidates = {}
    /\ tree' = NextItem(tree)
    /\ held' = 0
    /\ UNCHANGED <<dir, pos, iter, call, at, found>>

(* The dnode cannot be created; the item is released all the same. *)
CreateFails ==
    /\ At("create") /\ tree # NULL
    /\ Fail("error")
    /\ held' = 0

------------------------------------------------------------------------------
(* The dnode exists now: the lookup is done, ... *)
LookupCreated ==
    /\ At("create") /\ call.fn = "dir_lookup"
    /\ found' = [name |-> call.name, rec |-> call.rec, status |-> "success"]
    /\ call' = NULL /\ tree' = NULL /\ held' = 0
    /\ UNCHANGED <<dir, pos, iter, at>>

(* A reiserfs directory's entries, by their offset. *)
AllEntries == UNION {{<<it.key[1], it.key[2], it.entries[i]>> : i \in DOMAIN it.entries} :
                        it \in {it \in AllItems : it.type = "direntry"}}
Entries == {e[3] : e \in {e \in AllEntries : <<e[1], e[2]>> = Dirs[dir].object}}
EntryAt(offset) == CHOOSE e \in Entries : e.offset = offset

(* Seeded fault: the position is kept only by the reader, not the handle. *)
DirReadCreatedForgets ==
    /\ At("create") /\ call.fn = "dir_read"
    /\ call' = [call EXCEPT !.pc = "info"]
    /\ tree' = NULL /\ held' = 0
    /\ UNCHANGED <<dir, pos, iter, at, found>>

(* ... and so is fsw_dnode_dir_read, which keeps the new position. The       *)
(* dnode is filled next; of reiserfs its stat data has to be searched.       *)
DirReadCreated ==
    /\ At("create") /\ call.fn = "dir_read"
    /\ pos' = at
    /\ IF On("reiserfs")
       THEN /\ call' = [call EXCEPT !.pc = "fill"]
            /\ tree' = Search(EntryAt(call.rec).object \o <<0>>)
       ELSE call' = [call EXCEPT !.pc = "info"] /\ UNCHANGED tree
    /\ held' = 0
    /\ UNCHANGED <<dir, iter, at, found>>

(* fsw_reiserfs_dnode_fill: the stat data in one of two sizes, each in its   *)
(* version; FilledBefore when another handle has filled the dnode.           *)
KnownStat(it) == \/ it.version = 1 /\ it.len = 32
                 \/ it.version = 2 /\ it.len = 44

Filled ==
    /\ AtItemFound("fill") /\ AtItem(tree).key[3] = 0 /\ KnownStat(AtItem(tree))
    /\ call' = [call EXCEPT !.pc = "info"]
    /\ tree' = NULL /\ held' = 0
    /\ UNCHANGED <<dir, pos, iter, at, found>>

FillFails == AtItemFound("fill") /\ Fail("error") /\ held' = 0

FilledBefore ==
    /\ At("fill") /\ tree.pc = "search"
    /\ \E it \in ObjectItems(tree.want) : it.type = "stat" /\ KnownStat(it)
    /\ call' = [call EXCEPT !.pc = "info"]
    /\ tree' = NULL
    /\ UNCHANGED <<dir, pos, iter, at, held, found>>

------------------------------------------------------------------------------
(* fsw_efi_dnode_fill_FileInfo, and what DirNextEntry does with the result.  *)

(* The mode of a reiserfs object, as its stat data has it.                   *)
Kind(object) ==
    LET stats == {it \in ObjectItems(object) : it.type = "stat"}
    IN  IF stats = {} THEN "file" ELSE (CHOOSE it \in stats : TRUE).mode

(* The entry a call has got, as the iterator's user gets to see it.          *)
Shown(id) == IF On("reiserfs")
              THEN LET e == EntryAt(id)
                   IN  [name |-> e.name, kind |-> Kind(e.object), info |-> e.info]
              ELSE LET r == Records[id]
                   IN  [name |-> NameOf(r), kind |-> r.kind, info |-> r.info]

InfoTooSmall == At("info") /\ Shown(call.rec).info > iter.buffer

(* The position stays behind the entry; DirNextEntry reads again with the    *)
(* buffer it was told to bring, up to MaxTries times.                        *)
FileInfoTooSmall ==
    /\ InfoTooSmall
    /\ iter' = IF iter.tries >= MaxTries
               THEN [iter EXCEPT !.status = "error"]
               ELSE [iter EXCEPT !.buffer = Shown(call.rec).info, !.tries = @ + 1]
    /\ call' = NULL
    /\ UNCHANGED <<dir, pos, at, tree, held, found>>

(* What the iterator's user asked for: of the kind, and for a file of a name *)
(* that matches.                                                             *)
Accepted(e) == /\ iter.filter = 1 => e.kind = "dir"
               /\ iter.filter = 2 => e.kind = "file"
               /\ e.kind = "dir" \/ e.name \in iter.pattern

FileInfo ==
    /\ At("info") /\ ~InfoTooSmall
    /\ iter' = [iter EXCEPT !.buffer = FirstBuffer, !.tries = 0,
                            !.seen = IF Accepted(Shown(call.rec))
                                     THEN Append(@, call.rec) ELSE @]
    /\ call' = NULL
    /\ UNCHANGED <<dir, pos, at, tree, held, found>>

Step == \/ DirRead \/ ReadFails \/ EndOfDirectory \/ Unsound \/ SkipUnused
        \/ ReadHeader \/ ReadName
        \/ TreeWalk \/ NoItem \/ EmptyDirectory \/ Entry \/ NoEntryInItem \/ CreateFails
        \/ LookupCreated \/ DirReadCreated \/ Filled \/ FillFails \/ FilledBefore
        \/ FileInfoTooSmall \/ FileInfo

Client == \/ \E path \in BOOLEAN, filter \in Filters, pattern \in Patterns :
                IterOpen(path, filter, pattern)
          \/ IterClose
          \/ \E name \in Names : Lookup(name)

Next == Step \/ Client

Spec == Init /\ [][Next]_vars
FairSpec == Spec /\ WF_vars(Step)

------------------------------------------------------------------------------
(* Properties. *)

(* The records a reader can reach: up to one that says the rest is unused or *)
(* that is damaged; of reiserfs all entries.                                 *)
Sound(r)  == r.rec_len >= Header /\ (r.inode # 0 => r.rec_len >= Header + r.name_len)
Reachable == IF On("reiserfs") THEN {e.offset : e \in Entries}
             ELSE {k \in DOMAIN Records : /\ \A j \in 1 .. k : Sound(Records[j])
                                          /\ Records[k].inode # 0}

(* Where an entry lies, and whether a listing is to show it at all.          *)
Place(id)   == IF On("reiserfs") THEN id ELSE Records[id].start
Visible(id) == IF On("reiserfs")
               THEN id \notin {DOT_OFFSET, DOT_DOT_OFFSET} /\ EntryAt(id).name # Private
               ELSE ~Dots(Records[id])

(* A listing that ends without an error has shown, in order and once, every  *)
(* entry from where it started that is in use, is not "." or ".." and passes *)
(* the filter, as far as its file info fits the buffer DirNextEntry brings   *)
(* at first; of the others it may miss some, and adds nothing else.          *)
Listed == {id \in Reachable : /\ Place(id) >= iter.from /\ Visible(id)
                              /\ Accepted(Shown(id))}
ListingIsComplete ==
    iter # NULL /\ iter.status = "end" =>
        /\ \A i, j \in DOMAIN iter.seen : i < j => iter.seen[i] < iter.seen[j]
        /\ ToSet(iter.seen) \subseteq Listed
        /\ {id \in Listed : Shown(id).info <= FirstBuffer} \subseteq ToSet(iter.seen)

(* What fsw_efi_dir_read is documented to do, and what DirNextEntry's retry  *)
(* with a larger buffer is for: each read delivers the next entry, so that a *)
(* listing that ends without an error has missed none.                       *)
EveryEntryIsShown == iter # NULL /\ iter.status = "end" => ToSet(iter.seen) = Listed

(* A lookup finds the first entry of its name, and reports that there is     *)
(* none only when there is none.                                             *)
Named(n) == {id \in Reachable : Shown(id).name = n}
LookupIsRight ==
    found # NULL =>
        /\ found.status = "success" =>
               /\ found.rec \in Named(found.name)
               /\ \A id \in Named(found.name) : found.rec <= id
        /\ found.status = "end" => Named(found.name) = {}

(* Every listing ends, with the end of the directory or an error.            *)
ListingsEnd == []<>(iter = NULL \/ iter.status # "success")
================================================================================
