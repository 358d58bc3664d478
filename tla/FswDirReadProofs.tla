--------------------------- MODULE FswDirReadProofs ---------------------------
(***************************************************************************)
(* Every listing of a directory that ends at its end is complete, and every  *)
(* lookup that succeeds or finds nothing is right: for every directory, in   *)
(* records of ext2 and iso9660 and in the tree of reiserfs.                  *)
(***************************************************************************)
EXTENDS FswDirRead, FswReiserfsTreeProofs

------------------------------------------------------------------------------
(* What the readers know as they go.                                          *)

(* A directory as its readers are to see it: the entries they can reach, with *)
(* their places, those a listing shows, what is shown of them, and the        *)
(* positions a handle can be left at.                                         *)
View ==
    [ids |-> Reachable,
     place |-> [id \in Reachable |-> Place(id)],
     shown |-> [id \in Reachable |-> Shown(id)],
     visible |-> {id \in Reachable : Visible(id)},
     positions |-> IF On("reiserfs") THEN Nat
                   ELSE {Records[k].start : k \in {k \in DOMAIN Records :
                                                \A j \in 1 .. k - 1 : Sound(Records[j])}},
     header |-> Header,
     tree |-> On("reiserfs"),
     object |-> IF On("reiserfs") THEN Dirs[dir].object ELSE <<0, 0>>]

NamedIn(w, name) == {id \in w.ids : w.shown[id].name = name}

(* The entries a call can end with, when the handle is at p. *)
Wanted(w, c, p) == IF c.fn = "dir_read" THEN {id \in w.visible : w.place[id] >= p}
                   ELSE NamedIn(w, c.name)

NotPast(w, c, p, place) == /\ c.fn = "dir_read" => p <= place
                           /\ \A id \in Wanted(w, c, p) : place <= w.place[id]

(* Reading records: what is wanted is at or behind the record at hand. *)
AtHeader(w, c, p, a) == /\ ~w.tree /\ a \in w.positions
                        /\ NotPast(w, c, p, a)
AtName(w, c, p, a) == /\ ~w.tree /\ c.rec \in w.ids /\ a = w.place[c.rec] + w.header
                      /\ NotPast(w, c, p, w.place[c.rec])

(* Reading items: the entries of those up to the one at hand are not wanted.  *)
Listings(object) == {it \in ObjectItems(object) : it.type = "direntry"}
Candidate(c, a, e) ==
    IF c.fn = "dir_lookup" THEN e.name = c.name
    ELSE e.offset >= a /\ e.name # Private /\ e.offset \notin {DOT_OFFSET, DOT_DOT_OFFSET}
WithoutCandidate(c, a, it) == \A i \in DOMAIN it.entries : ~Candidate(c, a, it.entries[i])
FirstPosition(c, p) == IF c.fn = "dir_read" THEN Max({FIRST_ITEM_OFFSET, p})
                       ELSE FIRST_ITEM_OFFSET
AtItems(w, c, p, a, t) ==
    /\ w.tree /\ a = FirstPosition(c, p)
    /\ WalkHolds(t) /\ SameObject(t.want, w.object)
    /\ ~t.next => t.want[3] = a
    /\ t.next => \A it \in Listings(w.object) :
                    it.key[3] <= t.want[3] => WithoutCandidate(c, a, it)

(* The entry a call has come to is the first of those wanted, and the handle  *)
(* is left between it and the others.                                         *)
AtEntry(w, c, p, a) ==
    /\ c.rec \in Wanted(w, c, p) /\ a \in w.positions /\ w.place[c.rec] < a
    /\ \A id \in Wanted(w, c, p) : id = c.rec \/ a <= w.place[id]

CallHolds(w, c, p, a, t, it) ==
    /\ c \in Calls /\ (c.fn = "dir_lookup" => c.name \in Names)
    /\ IF c.fn = "dir_read" THEN it # NULL /\ it.status = "success" ELSE it = NULL
    /\ c.pc = "header" => AtHeader(w, c, p, a)
    /\ c.pc = "name" => AtName(w, c, p, a)
    /\ c.pc = "item" => AtItems(w, c, p, a, t)
    /\ c.pc = "create" => AtEntry(w, c, p, a)
    /\ c.pc \in {"fill", "info"} => c.fn = "dir_read"

(* The entry that the handle has left behind and the listing has not got yet. *)
PendingOf(c) == IF c # NULL /\ c.pc \in {"fill", "info"} THEN {c.rec} ELSE {}

Takes(it, e) == /\ it.filter = 1 => e.kind = "dir"
                /\ it.filter = 2 => e.kind = "file"
                /\ e.kind = "dir" \/ e.name \in it.pattern
Due(w, it, p) == {id \in w.visible : /\ it.from <= w.place[id] /\ w.place[id] < p
                                     /\ Takes(it, w.shown[id])}

Iters == [filter : Filters, pattern : Patterns, status : {"success", "end", "error"},
          buffer : Nat, tries : Nat, from : Nat, seen : Seq(Nat)]

(* A listing has seen what is due of the entries that the handle has passed.  *)
ListHolds(w, it, pending, p) ==
    LET due == Due(w, it, p) \ pending
    IN  /\ it \in Iters /\ it.from <= p /\ FirstBuffer <= it.buffer
        /\ \A i, j \in DOMAIN it.seen : i < j => it.seen[i] < it.seen[j]
        /\ ToSet(it.seen) \subseteq due
        /\ it.status # "error" =>
              {id \in due : w.shown[id].info <= FirstBuffer} \subseteq ToSet(it.seen)
        /\ \A r \in pending : /\ r \in w.visible /\ it.from <= w.place[r] /\ w.place[r] < p
                              /\ \A id \in ToSet(it.seen) : w.place[id] < w.place[r]
        /\ it.status = "end" => pending = {} /\ \A id \in w.visible : w.place[id] < p

FoundHolds(w, f) ==
    /\ f.status = "success" => /\ f.rec \in NamedIn(w, f.name)
                               /\ \A id \in NamedIn(w, f.name) : f.rec <= id
    /\ f.status = "end" => NamedIn(w, f.name) = {}

StateHolds(w, c, p, a, t, it, f) ==
    /\ p \in w.positions
    /\ c # NULL => CallHolds(w, c, p, a, t, it)
    /\ it # NULL => ListHolds(w, it, PendingOf(c), p)
    /\ f # NULL => FoundHolds(w, f)

DirInv == dir \in DOMAIN Dirs /\ StateHolds(View, call, pos, at, tree, iter, found)

------------------------------------------------------------------------------
(* Directories in records.                                                    *)

LEMMA RecordsOfDirectory ==
    ASSUME DirAssumption, dir \in DOMAIN Dirs, ~On("reiserfs")
    PROVE  /\ Len(Records) \in Nat \ {0} /\ DOMAIN Records = 1 .. Len(Records)
           /\ \A k \in 1 .. Len(Records) : Records[k] \in Record
           /\ Records[1].start = 0 /\ Records[Len(Records)].rec_len = 0
           /\ Size = Records[Len(Records)].start
           /\ \A k \in 2 .. Len(Records) :
                 IF Records[k - 1].rec_len = 0 THEN Records[k].start > Records[k - 1].start
                 ELSE Records[k].start = Records[k - 1].start + Records[k - 1].rec_len
           /\ Header \in Nat \ {0}
<1>1. Records \in Seq(Record) /\ Covers(Records)
  BY DEF DirAssumption, On, Records
<1>2. /\ Len(Records) \in Nat /\ DOMAIN Records = 1 .. Len(Records)
      /\ \A k \in 1 .. Len(Records) : Records[k] \in Record
  BY ONLY <1>1, LenProperties, ElementOfSeq
<1>3. Len(Records) # 0
  BY ONLY <1>1, EmptySeq DEF Covers
<1>4. \A k \in 2 .. Len(Records) : k \in DOMAIN Records \ {1}
  BY <1>2
<1> HIDE DEF Records
<1>5. Records[1].start = 0 /\ Records[Len(Records)].rec_len = 0
  BY <1>1 DEF Covers, Last
<1>6. Size = Records[Len(Records)].start
  BY DEF Size, Last
<1>7. \A k \in 2 .. Len(Records) :
        IF Records[k - 1].rec_len = 0 THEN Records[k].start > Records[k - 1].start
        ELSE Records[k].start = Records[k - 1].start + Records[k - 1].rec_len
  BY <1>1, <1>4 DEF Covers
<1>8. Header \in Nat \ {0}
  BY DEF Header
<1>9. QED
  BY <1>2, <1>3, <1>5, <1>6, <1>7, <1>8

(* Each record lies behind those before it. *)
LEMMA StartsAscend ==
    ASSUME DirAssumption, dir \in DOMAIN Dirs, ~On("reiserfs")
    PROVE  \A i, j \in 1 .. Len(Records) : i < j => Records[i].start < Records[j].start
<1> DEFINE n == Len(Records)
           s(k) == Records[k].start
           Bad == {j \in 1 .. n : \E i \in 1 .. n : i < j /\ ~(s(i) < s(j))}
<1>1. n \in Nat
  BY RecordsOfDirectory
<1>2. \A k \in 1 .. n : s(k) \in Nat
  BY RecordsOfDirectory DEF Record
<1>3. ASSUME NEW k \in 2 .. n PROVE s(k - 1) < s(k)
  <2>1. k - 1 \in 1 .. n /\ k \in 1 .. n
    BY <1>1
  <2>2. Records[k - 1].rec_len \in Nat /\ s(k - 1) \in Nat /\ s(k) \in Nat
    BY <2>1, RecordsOfDirectory DEF Record
  <2>3. IF Records[k - 1].rec_len = 0 THEN s(k) > s(k - 1)
        ELSE s(k) = s(k - 1) + Records[k - 1].rec_len
    BY RecordsOfDirectory
  <2> HIDE DEF s, n
  <2>4. QED
    BY <2>2, <2>3
<1> HIDE DEF s, n
<1>4. Bad = {}
  <2>1. SUFFICES ASSUME Bad # {} PROVE FALSE
    OBVIOUS
  <2>2. Bad \in SUBSET Nat
    BY <1>1
  <2>3. PICK j \in Bad : \A k \in Bad : j <= k
    <3> HIDE DEF Bad
    <3>1. QED
      BY <2>1, <2>2, MinOfNaturals
  <2>4. PICK i \in 1 .. n : i < j /\ ~(s(i) < s(j))
    OBVIOUS
  <2>5. j \in 2 .. n /\ j - 1 \in 1 .. n
    BY <1>1, <2>4
  <2>6. s(j - 1) < s(j)
    BY <1>3, <2>5
  <2>7. s(j - 1) \in Nat /\ s(j) \in Nat /\ s(i) \in Nat
    BY <1>2, <2>5
  <2>8. CASE i = j - 1
    BY <2>4, <2>6, <2>8
  <2>9. CASE i < j - 1
    <3>1. j - 1 \notin Bad
      <4> HIDE DEF Bad
      <4>1. QED
        BY <2>3, <2>5
    <3>2. s(i) < s(j - 1)
      BY <2>5, <2>9, <3>1
    <3>3. QED
      BY ONLY <2>4, <2>6, <2>7, <3>2
  <2>10. QED
    BY <1>1, <2>4, <2>5, <2>8, <2>9
<1>5. QED
  BY <1>4 DEF s, n

LEMMA RecordAtStart ==
    ASSUME DirAssumption, dir \in DOMAIN Dirs, ~On("reiserfs"), NEW k \in 1 .. Len(Records)
    PROVE  RecordAt(Records[k].start) = k
<1>1. Len(Records) \in Nat /\ DOMAIN Records = 1 .. Len(Records)
      /\ \A i \in 1 .. Len(Records) : Records[i].start \in Nat
  BY RecordsOfDirectory DEF Record
<1>2. \A i \in 1 .. Len(Records) : Records[i].start = Records[k].start => i = k
  <2>1. SUFFICES ASSUME NEW i \in 1 .. Len(Records), Records[i].start = Records[k].start, i # k
                 PROVE  FALSE
    OBVIOUS
  <2>2. i < k \/ k < i
    BY <1>1, <2>1
  <2>3. Records[i].start < Records[k].start \/ Records[k].start < Records[i].start
    BY <2>2, StartsAscend
  <2>4. QED
    BY <1>1, <2>1, <2>3
<1> HIDE DEF Records
<1>3. QED
  BY <1>1, <1>2 DEF RecordAt

(* Behind a sound record is the next one. *)
LEMMA RecordBehind ==
    ASSUME DirAssumption, dir \in DOMAIN Dirs, ~On("reiserfs"), NEW k \in 1 .. Len(Records),
           Records[k].rec_len # 0
    PROVE  /\ k + 1 \in 1 .. Len(Records) /\ Len(Records) \in Nat
           /\ Records[k + 1].start = Records[k].start + Records[k].rec_len
           /\ Records[k].start < Records[k + 1].start
<1>1. Len(Records) \in Nat /\ Records[Len(Records)].rec_len = 0
  BY RecordsOfDirectory
<1>2. k # Len(Records)
  BY <1>1
<1>3. k + 1 \in 2 .. Len(Records) /\ k + 1 - 1 = k /\ k < k + 1
  BY <1>1, <1>2
<1>4. Records[k + 1].start = Records[k].start + Records[k].rec_len
  BY <1>3, RecordsOfDirectory
<1>5. k + 1 \in 1 .. Len(Records)
  BY <1>3
<1>6. QED
  BY <1>1, <1>3, <1>4, <1>5, StartsAscend

------------------------------------------------------------------------------
(* Directories in items.                                                      *)

LEMMA ObjectOfDirectory ==
    ASSUME DirAssumption, dir \in DOMAIN Dirs, On("reiserfs")
    PROVE  Dirs[dir].object \in Nat \X Nat /\ IsDirectory(Dirs[dir].object)
BY DEF DirAssumption, On

(* The entries of an item, in the order of their offsets. *)
LEMMA EntriesOfItem ==
    ASSUME DirAssumption, TreeAssumption, dir \in DOMAIN Dirs, On("reiserfs"),
           NEW it \in Listings(Dirs[dir].object)
    PROVE  /\ Len(it.entries) \in Nat \ {0} /\ DOMAIN it.entries = 1 .. Len(it.entries)
           /\ \A i \in DOMAIN it.entries : it.entries[i] \in DirEntry
           /\ \A i \in DOMAIN it.entries : it.key[3] <= it.entries[i].offset
           /\ \A i, j \in DOMAIN it.entries :
                 i < j => it.entries[i].offset < it.entries[j].offset
           /\ \A other \in Listings(Dirs[dir].object) \ {it} : it.key[3] <= other.key[3] =>
                 \A i \in DOMAIN it.entries : it.entries[i].offset < other.key[3]
           /\ it.key \in Key /\ it.key[3] \in Nat \ {0}
<1> DEFINE n == Len(it.entries)
<1>1. IsDirectory(Dirs[dir].object)
  BY ObjectOfDirectory
<1>2. /\ it.entries \in Seq(DirEntry) /\ it.entries # <<>>
      /\ it.entries[1].offset = it.key[3]
      /\ \A i, j \in DOMAIN it.entries :
            i < j => it.entries[i].offset < it.entries[j].offset
      /\ \A other \in Listings(Dirs[dir].object) \ {it} : it.key[3] <= other.key[3] =>
            \A i \in DOMAIN it.entries : it.entries[i].offset < other.key[3]
  BY <1>1 DEF IsDirectory, Listings
<1>3. /\ n \in Nat \ {0} /\ DOMAIN it.entries = 1 .. n
      /\ \A i \in DOMAIN it.entries : it.entries[i] \in DirEntry
  <2>1. n \in Nat /\ DOMAIN it.entries = 1 .. n /\ n # 0
        /\ \A i \in 1 .. n : it.entries[i] \in DirEntry
    BY ONLY <1>2, LenProperties, ElementOfSeq, EmptySeq
  <2>2. QED
    BY <2>1
<1>4. it.key \in Key /\ it.key[3] \in Nat \ {0}
  <2>1. it \in AllItems /\ it \in ObjectItems(Dirs[dir].object) /\ it.type = "direntry"
    BY DEF Listings, ObjectItems
  <2>2. it.key \in Key
    BY <2>1, ItemsHaveKeys, TreeAssumption DEF TreeAssumption
  <2>3. it.key[3] # 0
    BY <1>1, <2>1 DEF IsDirectory
  <2>4. QED
    BY <2>2, <2>3 DEF Key
<1>5. ASSUME NEW i \in DOMAIN it.entries PROVE it.key[3] <= it.entries[i].offset
  <2>1. 1 \in DOMAIN it.entries /\ (i = 1 \/ 1 < i)
    BY <1>3
  <2>2. it.entries[1].offset \in Nat /\ it.entries[i].offset \in Nat
    BY <1>3, <2>1 DEF DirEntry
  <2>3. it.entries[1].offset = it.entries[i].offset \/ it.entries[1].offset < it.entries[i].offset
    BY <1>2, <2>1
  <2>4. QED
    BY <1>2, <2>2, <2>3
<1> HIDE DEF n
<1>6. QED
  BY <1>2, <1>3, <1>4, <1>5 DEF n

LEMMA EntriesOfDirectory ==
    ASSUME DirAssumption, TreeAssumption, dir \in DOMAIN Dirs, On("reiserfs")
    PROVE  Entries = UNION {{it.entries[i] : i \in DOMAIN it.entries} :
                               it \in Listings(Dirs[dir].object)}
<1> DEFINE o == Dirs[dir].object
<1>1. o \in Nat \X Nat
  BY ObjectOfDirectory
<1>2. ASSUME NEW x \in Entries
      PROVE  \E it \in Listings(o) : \E i \in DOMAIN it.entries : x = it.entries[i]
  <2>1. PICK e \in AllEntries : <<e[1], e[2]>> = o /\ x = e[3]
    BY DEF Entries
  <2>2. PICK it \in AllItems : it.type = "direntry" /\
           \E i \in DOMAIN it.entries : e = <<it.key[1], it.key[2], it.entries[i]>>
    BY DEF AllEntries
  <2>3. PICK i \in DOMAIN it.entries : e = <<it.key[1], it.key[2], it.entries[i]>>
    BY <2>2
  <2>4. it.key[1] = o[1] /\ it.key[2] = o[2]
    BY <2>1, <2>3
  <2>5. it \in Listings(o)
    BY <2>2, <2>4 DEF Listings, ObjectItems
  <2>6. x = it.entries[i]
    BY <2>1, <2>3
  <2>7. QED
    BY <2>5, <2>6
<1>3. ASSUME NEW it \in Listings(o), NEW i \in DOMAIN it.entries
      PROVE  it.entries[i] \in Entries
  <2> DEFINE e == <<it.key[1], it.key[2], it.entries[i]>>
  <2>1. it \in AllItems /\ it.type = "direntry" /\ it.key[1] = o[1] /\ it.key[2] = o[2]
    BY DEF Listings, ObjectItems
  <2>2. e \in AllEntries
    BY <2>1 DEF AllEntries
  <2>3. <<e[1], e[2]>> = o
    BY <1>1, <2>1
  <2>4. e[3] = it.entries[i]
    OBVIOUS
  <2> HIDE DEF e
  <2>5. QED
    BY <2>2, <2>3, <2>4 DEF Entries, o
<1>4. QED
  BY <1>2, <1>3

(* No two entries of a directory have the same offset. *)
LEMMA OffsetsDiffer ==
    ASSUME DirAssumption, TreeAssumption, dir \in DOMAIN Dirs, On("reiserfs"),
           NEW e \in Entries
    PROVE  /\ e \in DirEntry /\ e.offset \in Nat \ {0}
           /\ EntryAt(e.offset) = e
<1> DEFINE o == Dirs[dir].object
<1>1. ASSUME NEW x \in Entries
      PROVE  \E it \in Listings(o) : \E i \in DOMAIN it.entries : x = it.entries[i]
  BY EntriesOfDirectory
<1>2. PICK it \in Listings(o) : \E i \in DOMAIN it.entries : e = it.entries[i]
  BY <1>1
<1>3. PICK i \in DOMAIN it.entries : e = it.entries[i]
  BY <1>2
<1>4. /\ e \in DirEntry /\ it.key[3] \in Nat \ {0} /\ it.key[3] <= e.offset
  BY <1>3, EntriesOfItem, TreeAssumption
<1>5. e.offset \in Nat
  BY <1>4 DEF DirEntry
<1>6. ASSUME NEW f \in Entries, f.offset = e.offset PROVE f = e
  <2>1. PICK jt \in Listings(o) : \E j \in DOMAIN jt.entries : f = jt.entries[j]
    BY <1>1
  <2>2. PICK j \in DOMAIN jt.entries : f = jt.entries[j]
    BY <2>1
  <2>3. jt.key[3] \in Nat /\ jt.key[3] <= f.offset
    BY <2>2, EntriesOfItem, TreeAssumption
  <2>4. CASE it = jt
    <3>1. DOMAIN it.entries = 1 .. Len(it.entries) /\ Len(it.entries) \in Nat
      BY EntriesOfItem, TreeAssumption
    <3>2. ~(i < j) /\ ~(j < i)
      <4>1. i < j => it.entries[i].offset < it.entries[j].offset
        BY <1>3, <2>2, <2>4, EntriesOfItem, TreeAssumption
      <4>2. j < i => it.entries[j].offset < it.entries[i].offset
        BY <1>3, <2>2, <2>4, EntriesOfItem, TreeAssumption
      <4>3. it.entries[j].offset = e.offset /\ it.entries[i].offset = e.offset
        BY <1>3, <1>6, <2>2, <2>4
      <4>4. QED
        BY ONLY <1>5, <4>1, <4>2, <4>3
    <3>3. i = j
      BY <2>4, <3>1, <3>2
    <3>4. QED
      BY <1>3, <2>2, <2>4, <3>3
  <2>5. CASE it # jt
    <3>1. it.key[3] <= jt.key[3] => e.offset < jt.key[3]
      BY <1>3, <2>5, EntriesOfItem, TreeAssumption
    <3>2. jt.key[3] <= it.key[3] => f.offset < it.key[3]
      BY <2>2, <2>5, EntriesOfItem, TreeAssumption
    <3>3. QED
      BY <1>4, <1>5, <1>6, <2>3, <3>1, <3>2
  <2>6. QED
    BY <2>4, <2>5
<1>7. EntryAt(e.offset) = e
  BY <1>6 DEF EntryAt
<1>8. QED
  BY <1>4, <1>5, <1>7

------------------------------------------------------------------------------
(* What the readers see.                                                      *)

LEMMA ViewFields ==
    /\ View.ids = Reachable /\ View.header = Header /\ View.tree = On("reiserfs")
    /\ View.place = [id \in Reachable |-> Place(id)]
    /\ View.shown = [id \in Reachable |-> Shown(id)]
    /\ View.visible = {id \in Reachable : Visible(id)}
    /\ View.positions = IF On("reiserfs") THEN Nat
                        ELSE {Records[k].start : k \in {k \in DOMAIN Records :
                                                 \A j \in 1 .. k - 1 : Sound(Records[j])}}
    /\ View.object = IF On("reiserfs") THEN Dirs[dir].object ELSE <<0, 0>>
BY DEF View

(* Places are numbers, in the order of the entries. *)
WellFormed(w) ==
    /\ w.ids \subseteq Nat /\ w.visible \subseteq w.ids
    /\ w.positions \subseteq Nat /\ 0 \in w.positions /\ w.header \in Nat
    /\ \A id \in w.ids : w.place[id] \in Nat /\ w.shown[id].info \in Nat
    /\ \A i, j \in w.ids : w.place[i] < w.place[j] => i < j

LEMMA RecordsInView ==
    ASSUME DirAssumption, dir \in DOMAIN Dirs, ~On("reiserfs")
    PROVE  /\ View.ids \subseteq 1 .. Len(Records)
           /\ \A id \in View.ids : /\ View.place[id] = Records[id].start
                                   /\ View.shown[id] = [name |-> NameOf(Records[id]),
                                                        kind |-> Records[id].kind,
                                                        info |-> Records[id].info]
                                   /\ Records[id].inode # 0
                                   /\ \A j \in 1 .. id : Sound(Records[j])
           /\ View.visible = {id \in View.ids : ~Dots(Records[id])}
           /\ \A a \in View.positions : \E k \in 1 .. Len(Records) :
                 a = Records[k].start /\ \A j \in 1 .. k - 1 : Sound(Records[j])
<1>1. DOMAIN Records = 1 .. Len(Records)
  BY RecordsOfDirectory
<1>2. \A id \in Reachable : /\ id \in 1 .. Len(Records) /\ Records[id].inode # 0
                            /\ \A j \in 1 .. id : Sound(Records[j])
                            /\ Place(id) = Records[id].start
                            /\ Shown(id) = [name |-> NameOf(Records[id]),
                                            kind |-> Records[id].kind,
                                            info |-> Records[id].info]
  BY <1>1 DEF Reachable, Place, Shown
<1>3. \A id \in Reachable : Visible(id) <=> ~Dots(Records[id])
  BY DEF Visible
<1>4. QED
  BY <1>1, <1>2, <1>3, ViewFields

LEMMA EntriesInView ==
    ASSUME DirAssumption, TreeAssumption, dir \in DOMAIN Dirs, On("reiserfs")
    PROVE  /\ View.ids = {e.offset : e \in Entries} /\ View.positions = Nat
           /\ View.tree = TRUE /\ View.object = Dirs[dir].object
           /\ \A e \in Entries : /\ View.place[e.offset] = e.offset
                                 /\ View.shown[e.offset].name = e.name
                                 /\ View.shown[e.offset].info = e.info
                                 /\ e.offset \in View.visible <=>
                                       /\ e.offset \notin {DOT_OFFSET, DOT_DOT_OFFSET}
                                       /\ e.name # Private
<1>1. Reachable = {e.offset : e \in Entries}
  BY DEF Reachable
<1>2. ASSUME NEW e \in Entries
      PROVE  /\ View.place[e.offset] = e.offset
             /\ View.shown[e.offset].name = e.name
             /\ View.shown[e.offset].info = e.info
             /\ e.offset \in View.visible <=>
                   /\ e.offset \notin {DOT_OFFSET, DOT_DOT_OFFSET}
                   /\ e.name # Private
  <2>1. e.offset \in Reachable /\ EntryAt(e.offset) = e
    BY <1>1, OffsetsDiffer, TreeAssumption
  <2>2. Shown(e.offset).name = e.name /\ Shown(e.offset).info = e.info
    BY <2>1 DEF Shown
  <2>3. Place(e.offset) = e.offset
    BY DEF Place
  <2>4. Visible(e.offset) <=> /\ e.offset \notin {DOT_OFFSET, DOT_DOT_OFFSET}
                              /\ e.name # Private
    BY <2>1 DEF Visible
  <2>5. QED
    BY <2>1, <2>2, <2>3, <2>4, ViewFields
<1>3. QED
  BY <1>1, <1>2, ViewFields

LEMMA ViewIsWellFormed ==
    ASSUME DirAssumption, TreeAssumption, dir \in DOMAIN Dirs
    PROVE  WellFormed(View)
<1>1. CASE On("reiserfs")
  <2>1. /\ View.ids = {e.offset : e \in Entries} /\ View.positions = Nat
        /\ \A e \in Entries : View.place[e.offset] = e.offset
    BY <1>1, EntriesInView, TreeAssumption
  <2>5. \A e \in Entries : View.shown[e.offset].info = e.info
    BY <1>1, EntriesInView, TreeAssumption
  <2>2. \A e \in Entries : e.offset \in Nat /\ e.info \in Nat
    BY <1>1, OffsetsDiffer, TreeAssumption DEF DirEntry
  <2>3. View.visible \subseteq View.ids /\ View.header \in Nat
    BY ViewFields DEF Header
  <2>4. QED
    BY <2>1, <2>2, <2>3, <2>5 DEF WellFormed
<1>2. CASE ~On("reiserfs")
  <2> DEFINE n == Len(Records)
  <2>1. /\ View.ids \subseteq 1 .. n
        /\ \A id \in View.ids : View.place[id] = Records[id].start
        /\ \A a \in View.positions : \E k \in 1 .. n : a = Records[k].start
    BY <1>2, RecordsInView
  <2>7. ASSUME NEW id \in View.ids PROVE View.shown[id].info = Records[id].info
    <3>1. View.shown[id] = [name |-> NameOf(Records[id]), kind |-> Records[id].kind,
                            info |-> Records[id].info]
      BY <1>2, RecordsInView
    <3>2. QED
      BY ONLY <3>1
  <2>2. /\ n \in Nat \ {0} /\ DOMAIN Records = 1 .. n /\ Records[1].start = 0
        /\ \A k \in 1 .. n : Records[k].start \in Nat /\ Records[k].info \in Nat
    BY <1>2, RecordsOfDirectory DEF Record
  <2>3. View.visible \subseteq View.ids /\ View.header \in Nat
    BY ViewFields DEF Header
  <2>4. 0 \in View.positions
    <3>1. 1 \in DOMAIN Records /\ \A j \in 1 .. 1 - 1 : Sound(Records[j])
      BY <2>2
    <3>2. QED
      BY <1>2, <2>2, <3>1, ViewFields
  <2>5. ASSUME NEW i \in View.ids, NEW j \in View.ids, View.place[i] < View.place[j]
        PROVE  i < j
    <3>1. i \in 1 .. n /\ j \in 1 .. n /\ Records[i].start < Records[j].start
      BY <2>1, <2>5
    <3>2. Records[i].start \in Nat /\ Records[j].start \in Nat
      BY <2>2, <3>1
    <3>3. ~(j < i) /\ i # j
      BY <1>2, <3>1, <3>2, StartsAscend
    <3>4. QED
      BY <2>2, <3>1, <3>3
  <2>8. /\ View.ids \subseteq Nat /\ View.positions \subseteq Nat
        /\ \A id \in View.ids : View.place[id] \in Nat
    <3>1. \A k \in 1 .. n : k \in Nat /\ Records[k].start \in Nat
      BY <2>2
    <3> HIDE DEF n
    <3>2. View.ids \subseteq Nat
      BY ONLY <2>1, <3>1
    <3>3. \A id \in View.ids : View.place[id] \in Nat
      BY ONLY <2>1, <3>1
    <3>4. View.positions \subseteq Nat
      BY ONLY <2>1, <3>1
    <3>5. QED
      BY <3>2, <3>3, <3>4
  <2>9. \A id \in View.ids : View.shown[id].info \in Nat
    <3> HIDE DEF n
    <3>1. QED
      BY <2>1, <2>2, <2>7
  <2> HIDE DEF n
  <2>6. QED
    BY ONLY <2>3, <2>4, <2>5, <2>8, <2>9 DEF WellFormed
<1>3. QED
  BY <1>1, <1>2

LEMMA ViewStays ==
    ASSUME dir' = dir
    PROVE  View' = View
<1>1. On("reiserfs")' = On("reiserfs") /\ On("iso9660")' = On("iso9660")
  BY DEF On
<1>2. Records' = Records /\ Header' = Header /\ Entries' = Entries
  BY <1>1 DEF Records, Header, Entries
<1>3. \A r : Sound(r)' = Sound(r) /\ Dots(r)' = Dots(r) /\ NameOf(r)' = NameOf(r)
  BY <1>1, <1>2 DEF Sound, Dots, NameOf
<1>4. Reachable' = Reachable
  BY <1>1, <1>2, <1>3 DEF Reachable
<1>5. \A id : EntryAt(id)' = EntryAt(id)
  BY <1>2 DEF EntryAt
<1>6. \A id : Place(id)' = Place(id) /\ Visible(id)' = Visible(id) /\ Shown(id)' = Shown(id)
  BY <1>1, <1>2, <1>3, <1>5 DEF Place, Visible, Shown
<1>7. QED
  BY <1>1, <1>2, <1>3, <1>4, <1>6 DEF View

(* The steps leave the directory as it is: what is shown of them is shown for *)
(* the view that the readers have.                                            *)
LEMMA DirInvNext ==
    ASSUME DirInv, dir' = dir, StateHolds(View, call', pos', at', tree', iter', found')
    PROVE  DirInv'
<1>1. View' = View
  BY ViewStays
<1>2. QED
  BY <1>1 DEF DirInv

------------------------------------------------------------------------------
(* The iterator's side: what a listing has seen.                              *)

LEMMA ListOpens ==
    ASSUME NEW w, WellFormed(w), NEW it \in Iters, it.seen = <<>>, it.status = "success",
           FirstBuffer <= it.buffer
    PROVE  ListHolds(w, it, {}, it.from)
<1>1. it.from \in Nat
  BY DEF Iters
<1>2. Due(w, it, it.from) = {}
  BY <1>1 DEF Due, WellFormed
<1>3. ToSet(it.seen) = {} /\ DOMAIN it.seen = {}
  BY DEF ToSet
<1>4. QED
  BY <1>1, <1>2, <1>3 DEF ListHolds

(* The handle has moved behind entry r, which is read next. *)
LEMMA ListAdvances ==
    ASSUME NEW w, WellFormed(w), NEW it, NEW p \in Nat, NEW a \in Nat, NEW r \in w.visible,
           ListHolds(w, it, {}, p), it.status = "success",
           p <= w.place[r], w.place[r] < a,
           \A id \in w.visible : p <= w.place[id] => id = r \/ a <= w.place[id]
    PROVE  ListHolds(w, it, {r}, a)
<1>1. /\ it.from \in Nat /\ it.from <= p
      /\ \A id \in w.visible : w.place[id] \in Nat
      /\ r \in w.visible
  BY DEF ListHolds, Iters, WellFormed
<1>2. p <= a /\ it.from <= a /\ it.from <= w.place[r]
  BY <1>1
<1>3. Due(w, it, a) \ {r} = Due(w, it, p) \ {}
  <2>1. ASSUME NEW id \in w.visible
        PROVE  (it.from <= w.place[id] /\ w.place[id] < a /\ id # r)
                  <=> (it.from <= w.place[id] /\ w.place[id] < p)
    <3>1. w.place[id] \in Nat /\ w.place[r] \in Nat
      BY <1>1
    <3>2. p <= w.place[id] => id = r \/ a <= w.place[id]
      OBVIOUS
    <3>3. w.place[id] < p => id # r
      BY <1>1, <3>1
    <3>4. QED
      BY <1>2, <3>1, <3>2, <3>3
  <2>2. QED
    BY <2>1 DEF Due
<1>4. \A id \in ToSet(it.seen) : w.place[id] < w.place[r]
  <2>1. \A id \in ToSet(it.seen) : id \in w.visible /\ w.place[id] < p
    BY DEF ListHolds, Due
  <2>2. QED
    BY <1>1, <2>1
<1>5. QED
  BY <1>1, <1>2, <1>3, <1>4 DEF ListHolds

(* The listing's user has got entry r. *)
LEMMA ListTakes ==
    ASSUME NEW w, WellFormed(w), NEW it, NEW p \in Nat, NEW r \in Nat, NEW u,
           DirAssumption, ListHolds(w, it, {r}, p), it.status = "success",
           u = [it EXCEPT !.buffer = FirstBuffer, !.tries = 0,
                          !.seen = IF Takes(it, w.shown[r]) THEN Append(@, r) ELSE @]
    PROVE  ListHolds(w, u, {}, p)
<1>1. /\ it \in Iters /\ it.from <= p
      /\ \A i, j \in DOMAIN it.seen : i < j => it.seen[i] < it.seen[j]
      /\ ToSet(it.seen) \subseteq Due(w, it, p) \ {r}
      /\ {id \in Due(w, it, p) \ {r} : w.shown[id].info <= FirstBuffer} \subseteq ToSet(it.seen)
      /\ r \in w.visible /\ it.from <= w.place[r] /\ w.place[r] < p
      /\ \A id \in ToSet(it.seen) : w.place[id] < w.place[r]
  BY DEF ListHolds
<1> DEFINE more == Append(it.seen, r)
<1>2. it.seen \in Seq(Nat)
  BY <1>1 DEF Iters
<1>3. /\ more \in Seq(Nat) /\ ToSet(more) = ToSet(it.seen) \union {r}
      /\ \A i, j \in DOMAIN more : i < j => more[i] < more[j]
  <2> DEFINE n == Len(it.seen)
             s == it.seen
  <2>1. n \in Nat /\ DOMAIN s = 1 .. n /\ \A i \in 1 .. n : s[i] \in Nat
    BY <1>2, LenProperties, ElementOfSeq
  <2>2. more \in Seq(Nat) /\ DOMAIN more = 1 .. n + 1 /\ more[n + 1] = r
        /\ \A i \in 1 .. n : more[i] = s[i]
    BY <1>2, AppendProperties
  <2>3. 1 .. n + 1 = (1 .. n) \union {n + 1}
    BY <2>1
  <2>4. \A i \in 1 .. n : s[i] \in ToSet(s)
    BY <2>1 DEF ToSet
  <2>5. \A i \in 1 .. n : s[i] < r
    <3>1. ASSUME NEW i \in 1 .. n PROVE s[i] < r
      <4>1. s[i] \in w.visible /\ w.place[s[i]] < w.place[r]
        BY <1>1, <2>4 DEF Due
      <4>2. s[i] \in w.ids /\ r \in w.ids
        BY <1>1, <4>1 DEF WellFormed
      <4>3. QED
        BY <4>1, <4>2 DEF WellFormed
    <3>2. QED
      BY <3>1
  <2>6. ToSet(s) = {s[i] : i \in 1 .. n}
    BY <2>1 DEF ToSet
  <2>7. ToSet(more) = {more[i] : i \in 1 .. n + 1}
    BY <2>2 DEF ToSet
  <2> HIDE DEF more, n, s
  <2>8. ToSet(more) = ToSet(s) \union {r}
    BY <2>2, <2>3, <2>6, <2>7
  <2>9. ASSUME NEW i \in DOMAIN more, NEW j \in DOMAIN more, i < j PROVE more[i] < more[j]
    <3>1. i \in 1 .. n /\ (j \in 1 .. n \/ j = n + 1)
      BY <2>1, <2>2, <2>9
    <3>2. s[i] < r /\ more[i] = s[i]
      BY <2>2, <2>5, <3>1
    <3>3. j \in 1 .. n => more[j] = s[j] /\ s[i] < s[j]
      BY <1>1, <2>1, <2>2, <2>9, <3>1 DEF s
    <3>4. QED
      BY <2>2, <3>1, <3>2, <3>3
  <2>10. QED
    BY <2>2, <2>8, <2>9 DEF s
<1> DEFINE seen == IF Takes(it, w.shown[r]) THEN more ELSE it.seen
<1>4. /\ u \in Iters /\ u.seen = seen /\ u.from = it.from /\ u.filter = it.filter
      /\ u.pattern = it.pattern /\ u.status = "success" /\ u.buffer = FirstBuffer
  BY <1>1, <1>3, DirAssumption DEF Iters, DirAssumption
<1>5. Due(w, u, p) = Due(w, it, p)
  BY <1>4 DEF Due, Takes
<1>6. Takes(it, w.shown[r]) <=> r \in Due(w, it, p)
  BY <1>1 DEF Due
<1> HIDE DEF more
<1>7. /\ \A i, j \in DOMAIN u.seen : i < j => u.seen[i] < u.seen[j]
      /\ ToSet(u.seen) \subseteq Due(w, it, p)
      /\ {id \in Due(w, it, p) : w.shown[id].info <= FirstBuffer} \subseteq ToSet(u.seen)
  <2>1. CASE Takes(it, w.shown[r])
    <3>1. u.seen = more /\ r \in Due(w, it, p)
      BY <1>4, <1>6, <2>1
    <3>2. QED
      BY <1>1, <1>3, <3>1
  <2>2. CASE ~Takes(it, w.shown[r])
    <3>1. u.seen = it.seen /\ r \notin Due(w, it, p)
      BY <1>4, <1>6, <2>2
    <3>2. QED
      BY <1>1, <3>1
  <2>3. QED
    BY <2>1, <2>2
<1>8. Due(w, u, p) \ {} = Due(w, it, p)
  BY <1>5
<1>9. FirstBuffer <= u.buffer
  BY <1>4, DirAssumption DEF DirAssumption
<1>10. u.from <= p /\ u.status # "end"
  BY <1>1, <1>4
<1>11. QED
  BY <1>4, <1>7, <1>8, <1>9, <1>10 DEF ListHolds

(* The file info of entry r did not fit, and the listing goes on behind it. *)
LEMMA ListDrops ==
    ASSUME NEW w, WellFormed(w), NEW it, NEW p \in Nat, NEW r, NEW u \in Iters,
           DirAssumption, ListHolds(w, it, {r}, p), it.status = "success",
           it.buffer < w.shown[r].info,
           u.seen = it.seen, u.from = it.from, u.filter = it.filter, u.pattern = it.pattern,
           u.status # "end", FirstBuffer <= u.buffer
    PROVE  ListHolds(w, u, {}, p)
<1>1. /\ it \in Iters /\ it.from <= p /\ FirstBuffer <= it.buffer
      /\ \A i, j \in DOMAIN it.seen : i < j => it.seen[i] < it.seen[j]
      /\ ToSet(it.seen) \subseteq Due(w, it, p) \ {r}
      /\ {id \in Due(w, it, p) \ {r} : w.shown[id].info <= FirstBuffer} \subseteq ToSet(it.seen)
      /\ r \in w.visible
  BY DEF ListHolds
<1>2. Due(w, u, p) \ {} = Due(w, it, p)
  BY DEF Due, Takes
<1>3. ~(w.shown[r].info <= FirstBuffer)
  <2>1. FirstBuffer \in Nat /\ it.buffer \in Nat /\ w.shown[r].info \in Nat
    BY <1>1, DirAssumption DEF DirAssumption, Iters, WellFormed
  <2>2. QED
    BY <1>1, <2>1
<1>4. {id \in Due(w, it, p) : w.shown[id].info <= FirstBuffer} \subseteq ToSet(it.seen)
  BY <1>1, <1>3
<1>5. ToSet(it.seen) \subseteq Due(w, it, p)
  BY <1>1
<1>6. QED
  BY <1>1, <1>2, <1>4, <1>5 DEF ListHolds

(* The listing ends: at the end of the directory, or with an error. *)
LEMMA ListEnds ==
    ASSUME NEW w, WellFormed(w), NEW it, NEW p \in Nat, NEW pending, NEW s \in {"end", "error"},
           ListHolds(w, it, pending, p), it.status = "success",
           s = "end" => pending = {} /\ \A id \in w.visible : w.place[id] < p
    PROVE  ListHolds(w, [it EXCEPT !.status = s], {}, p)
<1> DEFINE u == [it EXCEPT !.status = s]
<1>1. /\ it \in Iters /\ it.from <= p /\ FirstBuffer <= it.buffer
      /\ \A i, j \in DOMAIN it.seen : i < j => it.seen[i] < it.seen[j]
      /\ ToSet(it.seen) \subseteq Due(w, it, p) \ pending
      /\ {id \in Due(w, it, p) \ pending : w.shown[id].info <= FirstBuffer}
            \subseteq ToSet(it.seen)
  BY DEF ListHolds
<1>2. /\ u \in Iters /\ u.seen = it.seen /\ u.from = it.from /\ u.filter = it.filter
      /\ u.pattern = it.pattern /\ u.status = s /\ u.buffer = it.buffer
  BY <1>1 DEF Iters
<1> HIDE DEF u
<1>3. Due(w, u, p) \ {} = Due(w, it, p)
  BY <1>2 DEF Due, Takes
<1>4. /\ u.from <= p /\ FirstBuffer <= u.buffer
      /\ \A i, j \in DOMAIN u.seen : i < j => u.seen[i] < u.seen[j]
  BY <1>1, <1>2
<1>5. ToSet(u.seen) \subseteq Due(w, it, p)
  BY <1>1, <1>2
<1>6. u.status # "error" =>
        {id \in Due(w, it, p) : w.shown[id].info <= FirstBuffer} \subseteq ToSet(u.seen)
  BY <1>1, <1>2
<1>7. u.status = "end" => {} = {} /\ \A id \in w.visible : w.place[id] < p
  BY <1>2
<1>8. QED
  BY <1>2, <1>3, <1>4, <1>5, <1>6, <1>7 DEF ListHolds, u

------------------------------------------------------------------------------
(* Going from record to record.                                               *)

LEMMA RecordAtPosition ==
    ASSUME DirAssumption, dir \in DOMAIN Dirs, ~On("reiserfs"), NEW a \in View.positions
    PROVE  \E k \in 1 .. Len(Records) :
              a = Records[k].start /\ RecordAt(a) = k /\ \A j \in 1 .. k - 1 : Sound(Records[j])
<1>1. PICK k \in 1 .. Len(Records) :
         a = Records[k].start /\ \A j \in 1 .. k - 1 : Sound(Records[j])
  BY RecordsInView
<1>2. QED
  BY <1>1, RecordAtStart

(* The next record is behind a sound one, and no entry between them. *)
LEMMA SoundIsPassed ==
    ASSUME DirAssumption, dir \in DOMAIN Dirs, ~On("reiserfs"), NEW k \in 1 .. Len(Records),
           \A j \in 1 .. k : Sound(Records[j])
    PROVE  /\ Records[k].start + Records[k].rec_len \in View.positions
           /\ Records[k].start < Records[k].start + Records[k].rec_len
           /\ \A id \in View.ids : \/ View.place[id] < Records[k].start
                                   \/ id = k
                                   \/ Records[k].start + Records[k].rec_len <= View.place[id]
           /\ k \in View.ids <=> Records[k].inode # 0
<1> DEFINE n == Len(Records)
<1>1. /\ n \in Nat /\ DOMAIN Records = 1 .. n /\ Header \in Nat \ {0}
      /\ \A i \in 1 .. n : Records[i].start \in Nat /\ Records[i].rec_len \in Nat
  BY RecordsOfDirectory DEF Record
<1>2. Records[k].rec_len # 0
  <2>1. k \in 1 .. k
    BY <1>1
  <2>2. Records[k].rec_len >= Header
    BY <2>1 DEF Sound
  <2>3. QED
    BY <1>1, <2>2
<1>3. /\ k + 1 \in 1 .. n /\ Records[k + 1].start = Records[k].start + Records[k].rec_len
      /\ Records[k].start < Records[k + 1].start
  BY <1>2, RecordBehind
<1>4. Records[k + 1].start \in View.positions
  <2>1. k + 1 - 1 = k
    BY <1>1
  <2>2. View.positions = {Records[i].start : i \in {i \in DOMAIN Records :
                                                \A j \in 1 .. i - 1 : Sound(Records[j])}}
    BY ViewFields
  <2>3. \A j \in 1 .. (k + 1) - 1 : Sound(Records[j])
    BY <2>1
  <2>4. QED
    BY <1>1, <1>3, <2>2, <2>3
<1>5. ASSUME NEW id \in View.ids
      PROVE  \/ View.place[id] < Records[k].start
             \/ id = k
             \/ Records[k + 1].start <= View.place[id]
  <2>1. id \in 1 .. n /\ View.place[id] = Records[id].start
    BY RecordsInView
  <2>2. CASE id < k
    BY <2>1, <2>2, StartsAscend
  <2>3. CASE k + 1 < id
    <3>1. Records[k + 1].start < Records[id].start
      BY <1>3, <2>1, <2>3, StartsAscend
    <3>2. Records[k + 1].start \in Nat /\ Records[id].start \in Nat
      BY <1>1, <1>3, <2>1
    <3>3. QED
      BY <2>1, <3>1, <3>2
  <2>4. CASE id = k + 1
    BY <1>1, <1>3, <2>1, <2>4
  <2>5. id < k \/ id = k \/ id = k + 1 \/ k + 1 < id
    BY <1>1, <2>1
  <2>6. QED
    BY <2>2, <2>3, <2>4, <2>5
<1>6. k \in View.ids <=> Records[k].inode # 0
  <2>1. View.ids = {i \in DOMAIN Records : /\ \A j \in 1 .. i : Sound(Records[j])
                                           /\ Records[i].inode # 0}
    BY ViewFields DEF Reachable
  <2>2. QED
    BY <1>1, <2>1
<1>7. QED
  BY <1>3, <1>4, <1>5, <1>6

(* Behind the end, or a record that is not sound, no entry can be reached. *)
LEMMA NothingBehind ==
    ASSUME DirAssumption, dir \in DOMAIN Dirs, ~On("reiserfs"), NEW k \in 1 .. Len(Records),
           \A j \in 1 .. k - 1 : Sound(Records[j]),
           Records[k].start + Header <= Size => Records[k].rec_len = 0
    PROVE  \A id \in View.ids : View.place[id] < Records[k].start
<1> DEFINE n == Len(Records)
<1>1. /\ n \in Nat \ {0} /\ DOMAIN Records = 1 .. n /\ Header \in Nat \ {0}
      /\ Size = Records[n].start
      /\ \A i \in 1 .. n : Records[i].start \in Nat /\ Records[i].rec_len \in Nat
  BY RecordsOfDirectory DEF Record
<1>2. ~Sound(Records[k])
  <2>1. SUFFICES ASSUME Sound(Records[k]) PROVE FALSE
    OBVIOUS
  <2>2. Records[k].rec_len >= Header
    BY <2>1 DEF Sound
  <2>3. Records[k].rec_len # 0
    BY <1>1, <2>2
  <2>4. /\ k + 1 \in 1 .. n /\ Records[k + 1].start = Records[k].start + Records[k].rec_len
    BY <2>3, RecordBehind
  <2>5. Records[k + 1].start <= Records[n].start
    <3>1. n \in 1 .. n /\ (k + 1 = n \/ k + 1 < n)
      <4>1. n \in Nat \ {0} /\ k + 1 \in 1 .. n
        BY <1>1, <2>4
      <4> HIDE DEF n
      <4>2. QED
        BY ONLY <4>1
    <3>2. k + 1 < n => Records[k + 1].start < Records[n].start
      BY <2>4, <3>1, StartsAscend
    <3>3. Records[k + 1].start \in Nat /\ Records[n].start \in Nat
      BY <1>1, <2>4, <3>1
    <3>4. QED
      BY <3>1, <3>2, <3>3
  <2>6. Records[k].start + Header <= Size
    <3>1. Records[k].start \in Nat /\ Records[k].rec_len \in Nat /\ Header \in Nat
          /\ Records[n].start \in Nat
      BY <1>1
    <3>2. QED
      BY <1>1, <2>2, <2>4, <2>5, <3>1
  <2>7. QED
    BY <2>3, <2>6
<1>3. ASSUME NEW id \in View.ids PROVE View.place[id] < Records[k].start
  <2>1. id \in 1 .. n /\ View.place[id] = Records[id].start
        /\ \A j \in 1 .. id : Sound(Records[j])
    BY RecordsInView
  <2>2. ~(k <= id)
    <3>1. k <= id => k \in 1 .. id
      BY <1>1, <2>1
    <3>2. QED
      BY <1>2, <2>1, <3>1
  <2>3. id < k
    BY <1>1, <2>1, <2>2
  <2>4. QED
    BY <2>1, <2>3, StartsAscend
<1>4. QED
  BY <1>3

(* What an iso9660 directory calls "." and ".." is no name of a client's. *)
LEMMA DotsAreNoNames ==
    ASSUME DirAssumption, dir \in DOMAIN Dirs, On("iso9660"), NEW r, Dots(r)
    PROVE  NameOf(r) \notin Names
<1>1. r.name \in DotId
  BY DEF Dots
<1>2. ASSUME NEW x \in {"x00", "x01"} PROVE Unversioned(<<x>>) = <<x>>
  <2>1. {i \in DOMAIN <<x>> : <<x>>[i] = ";"} = {}
    <3>1. x # ";"
      OBVIOUS
    <3>2. \A i \in DOMAIN <<x>> : <<x>>[i] = x
      OBVIOUS
    <3>3. QED
      BY ONLY <3>1, <3>2
  <2>2. Last(<<x>>) = x /\ x # "."
    BY DEF Last
  <2>3. QED
    BY <2>1, <2>2 DEF Unversioned
<1>3. Unversioned(r.name) = r.name
  BY <1>1, <1>2 DEF DotId
<1>4. QED
  BY <1>1, <1>3, DirAssumption DEF NameOf, DirAssumption

------------------------------------------------------------------------------
(* The steps keep the invariant: ends of a call.                              *)

LEMMA CallAtHand ==
    ASSUME DirInv, call # NULL
    PROVE  /\ CallHolds(View, call, pos, at, tree, iter) /\ call \in Calls
           /\ pos \in View.positions /\ dir \in DOMAIN Dirs
BY DEF DirInv, StateHolds, CallHolds

Waits == {"header", "name", "item", "create"}

(* A step on the way to an entry. *)
LEMMA StepInCall ==
    ASSUME DirInv, call # NULL, UNCHANGED <<dir, pos, iter, found>>,
           call.pc \in Waits, call'.pc \in Waits,
           CallHolds(View, call', pos, at', tree', iter)
    PROVE  DirInv'
<1>1. PendingOf(call) = {} /\ PendingOf(call') = {}
  BY DEF PendingOf, Waits
<1>2. StateHolds(View, call', pos', at', tree', iter', found')
  BY <1>1 DEF DirInv, StateHolds
<1>3. QED
  BY <1>2, DirInvNext

(* A call may fail at any time; it may end at the end of the directory when   *)
(* nothing that is wanted is left.                                            *)
LEMMA FailKeeps ==
    ASSUME DirAssumption, TreeAssumption, DirInv, call # NULL, NEW s \in {"end", "error"},
           s = "end" => call.pc \in Waits /\ Wanted(View, call, pos) = {},
           Fail(s)
    PROVE  DirInv'
<1>1. /\ CallHolds(View, call, pos, at, tree, iter) /\ call \in Calls
      /\ pos \in View.positions /\ WellFormed(View)
  BY CallAtHand, ViewIsWellFormed, TreeAssumption, DirAssumption
<1>2. pos \in Nat
  BY <1>1 DEF WellFormed
<1>3. /\ call' = NULL /\ UNCHANGED <<dir, pos, at>>
      /\ IF call.fn = "dir_read"
         THEN iter' = [iter EXCEPT !.status = s] /\ UNCHANGED found
         ELSE found' = [name |-> call.name, rec |-> 0, status |-> s] /\ UNCHANGED iter
  BY DEF Fail
<1>4. iter # NULL => ListHolds(View, iter, PendingOf(call), pos)
  BY DEF DirInv, StateHolds
<1>5. found # NULL => FoundHolds(View, found)
  BY DEF DirInv, StateHolds
<1>6. PendingOf(call') = {}
  BY <1>3 DEF PendingOf
<1>7. CASE call.fn = "dir_read"
  <2>1. iter # NULL /\ iter.status = "success"
    BY <1>1, <1>7 DEF CallHolds
  <2>2. s = "end" => PendingOf(call) = {} /\ \A id \in View.visible : View.place[id] < pos
    <3>1. SUFFICES ASSUME s = "end"
                   PROVE  PendingOf(call) = {} /\ \A id \in View.visible : View.place[id] < pos
      OBVIOUS
    <3>2. PendingOf(call) = {}
      BY <3>1 DEF PendingOf, Waits
    <3>3. \A id \in View.visible : ~(View.place[id] >= pos)
      BY <1>7, <3>1 DEF Wanted
    <3>4. \A id \in View.visible : View.place[id] \in Nat
      BY <1>1 DEF WellFormed
    <3>5. \A id \in View.visible : View.place[id] < pos
      BY <1>2, <3>3, <3>4
    <3>6. QED
      BY <3>2, <3>5
  <2>3. ListHolds(View, [iter EXCEPT !.status = s], {}, pos)
    BY <1>1, <1>2, <1>4, <2>1, <2>2, ListEnds
  <2>4. StateHolds(View, call', pos', at', tree', iter', found')
    BY <1>1, <1>3, <1>5, <1>6, <1>7, <2>3 DEF StateHolds
  <2>5. QED
    BY <1>3, <2>4, DirInvNext
<1>8. CASE call.fn # "dir_read"
  <2>1. call.fn = "dir_lookup" /\ iter = NULL
    BY <1>1, <1>8 DEF CallHolds, Calls
  <2>2. FoundHolds(View, found')
    <3>1. found' = [name |-> call.name, rec |-> 0, status |-> s]
      BY <1>3, <1>8
    <3>2. found'.name = call.name /\ found'.status = s
      BY ONLY <3>1
    <3>3. s = "end" => NamedIn(View, call.name) = {}
      BY <1>8 DEF Wanted
    <3>4. QED
      BY <3>2, <3>3 DEF FoundHolds
  <2>3. StateHolds(View, call', pos', at', tree', iter', found')
    BY <1>1, <1>3, <1>8, <2>1, <2>2 DEF StateHolds
  <2>4. QED
    BY <1>3, <2>3, DirInvNext
<1>9. QED
  BY <1>7, <1>8

------------------------------------------------------------------------------
(* The steps through the records.                                             *)

LEMMA CallAtRecord ==
    ASSUME DirAssumption, DirInv, At("header")
    PROVE  /\ call # NULL /\ call \in Calls /\ call.pc = "header" /\ AtHeader(View, call, pos, at)
           /\ ~On("reiserfs") /\ dir \in DOMAIN Dirs /\ Header \in Nat \ {0}
           /\ \E k \in 1 .. Len(Records) :
                 /\ at = Records[k].start /\ RecordAt(at) = k
                 /\ \A j \in 1 .. k - 1 : Sound(Records[j])
                 /\ Records[k] \in Record
<1>1. call # NULL /\ call.pc = "header"
  BY DEF At
<1>2. call \in Calls /\ AtHeader(View, call, pos, at) /\ dir \in DOMAIN Dirs
  BY <1>1, CallAtHand DEF CallHolds
<1>3. ~On("reiserfs") /\ at \in View.positions
  BY <1>2, ViewFields DEF AtHeader
<1>4. \A k \in 1 .. Len(Records) : Records[k] \in Record
  BY <1>2, <1>3, RecordsOfDirectory
<1>5. \E k \in 1 .. Len(Records) :
         /\ at = Records[k].start /\ RecordAt(at) = k
         /\ \A j \in 1 .. k - 1 : Sound(Records[j])
  BY <1>2, <1>3, RecordAtPosition
<1>6. Header \in Nat \ {0}
  BY DEF Header
<1>7. QED
  BY <1>1, <1>2, <1>3, <1>4, <1>5, <1>6

LEMMA EndOfDirectoryKeeps ==
    ASSUME DirAssumption, TreeAssumption, DirInv, EndOfDirectory
    PROVE  DirInv'
<1>1. At("header") /\ Fail("end") /\ (at + Header <= Size => This.rec_len = 0)
  BY DEF EndOfDirectory
<1>2. /\ call # NULL /\ call \in Calls /\ call.pc = "header" /\ AtHeader(View, call, pos, at)
      /\ ~On("reiserfs") /\ dir \in DOMAIN Dirs
  BY <1>1, CallAtRecord
<1>3. PICK k \in 1 .. Len(Records) :
         at = Records[k].start /\ RecordAt(at) = k /\ \A j \in 1 .. k - 1 : Sound(Records[j])
  BY <1>1, CallAtRecord
<1>4. \A id \in View.ids : View.place[id] < at
  <2>1. Records[k].start + Header <= Size => Records[k].rec_len = 0
    BY <1>1, <1>3 DEF This
  <2>2. QED
    BY <1>2, <1>3, <2>1, NothingBehind
<1>5. Wanted(View, call, pos) \subseteq View.ids /\ WellFormed(View)
  BY <1>2, ViewIsWellFormed, TreeAssumption DEF Wanted, NamedIn, WellFormed
<1>6. at \in Nat /\ \A id \in View.ids : View.place[id] \in Nat
  BY <1>2, <1>5 DEF WellFormed, AtHeader
<1>7. Wanted(View, call, pos) = {}
  <2>1. \A id \in Wanted(View, call, pos) : at <= View.place[id]
    BY <1>2 DEF AtHeader, NotPast
  <2>2. QED
    BY <1>4, <1>5, <1>6, <2>1
<1>8. QED
  BY <1>1, <1>2, <1>7, FailKeeps, TreeAssumption DEF Waits

LEMMA SkipUnusedKeeps ==
    ASSUME DirAssumption, TreeAssumption, DirInv, SkipUnused
    PROVE  DirInv'
<1>1. /\ At("header") /\ This.rec_len >= Header /\ This.inode = 0
      /\ at' = (at + Header) + (This.rec_len - Header)
      /\ call' = [call EXCEPT !.pc = "header", !.rec = RecordAt(at)]
      /\ UNCHANGED <<dir, pos, iter, found>>
  BY DEF SkipUnused, Unused, AtRecord, MoveOn
<1>2. /\ call # NULL /\ call \in Calls /\ call.pc = "header" /\ AtHeader(View, call, pos, at)
      /\ ~On("reiserfs") /\ dir \in DOMAIN Dirs /\ Header \in Nat
  BY <1>1, CallAtRecord
<1>3. PICK k \in 1 .. Len(Records) :
         /\ at = Records[k].start /\ RecordAt(at) = k /\ Records[k] \in Record
         /\ \A j \in 1 .. k - 1 : Sound(Records[j])
  BY <1>1, CallAtRecord
<1>4. \A j \in 1 .. k : Sound(Records[j])
  <2>1. Sound(Records[k])
    BY <1>1, <1>3 DEF Sound, This
  <2>2. \A j \in 1 .. k : j = k \/ j \in 1 .. k - 1
    OBVIOUS
  <2>3. QED
    BY <1>3, <2>1, <2>2
<1>5. /\ at' = at + Records[k].rec_len /\ at \in Nat /\ k \in Nat
  <2>1. at \in Nat /\ Records[k].rec_len \in Nat /\ This = Records[k]
    BY <1>3 DEF Record, This
  <2>2. at' = at + Records[k].rec_len
    BY <1>1, <1>2, <2>1
  <2>3. QED
    BY <2>1, <2>2
<1>6. /\ at' \in View.positions /\ at < at' /\ k \notin View.ids
      /\ \A id \in View.ids : View.place[id] < at \/ id = k \/ at' <= View.place[id]
  <2>1. Records[k].inode = 0
    BY <1>1, <1>3 DEF This
  <2>2. QED
    BY <1>2, <1>3, <1>4, <1>5, <2>1, SoundIsPassed
<1>7. /\ call' \in Calls /\ call'.pc = "header" /\ call'.fn = call.fn /\ call'.name = call.name
  BY <1>1, <1>2, <1>3, <1>5 DEF Calls
<1>8. Wanted(View, call', pos) = Wanted(View, call, pos)
  BY <1>7 DEF Wanted
<1>9. WellFormed(View) /\ Wanted(View, call, pos) \subseteq View.ids
  BY <1>2, ViewIsWellFormed, TreeAssumption DEF Wanted, NamedIn, WellFormed
<1>10. NotPast(View, call', pos, at')
  <2>1. /\ call.fn = "dir_read" => pos <= at
        /\ \A id \in Wanted(View, call, pos) : at <= View.place[id]
    BY <1>2 DEF AtHeader, NotPast
  <2>2. pos \in Nat /\ at \in Nat /\ at' \in Nat /\ \A id \in View.ids : View.place[id] \in Nat
    BY <1>2, <1>5, <1>6, <1>9, CallAtHand DEF WellFormed
  <2>3. call.fn = "dir_read" => pos <= at'
    BY <1>6, <2>1, <2>2
  <2>4. \A id \in Wanted(View, call, pos) : at' <= View.place[id]
    BY <1>6, <1>9, <2>1, <2>2
  <2>5. QED
    BY <1>7, <1>8, <2>3, <2>4 DEF NotPast
<1>11. CallHolds(View, call', pos, at', tree', iter)
  <2>1. AtHeader(View, call', pos, at')
    BY <1>2, <1>6, <1>10 DEF AtHeader
  <2>2. CallHolds(View, call, pos, at, tree, iter)
    BY <1>2, CallAtHand
  <2>3. QED
    BY <1>7, <2>1, <2>2 DEF CallHolds
<1>12. QED
  BY <1>1, <1>2, <1>7, <1>11, StepInCall DEF Waits

LEMMA ReadHeaderKeeps ==
    ASSUME DirAssumption, TreeAssumption, DirInv, ReadHeader
    PROVE  DirInv'
<1>1. /\ At("header") /\ This.inode # 0 /\ This.rec_len >= Header + This.name_len
      /\ at' = at + Header
      /\ call' = [call EXCEPT !.pc = "name", !.rec = RecordAt(at)]
      /\ UNCHANGED <<dir, pos, iter, found>>
  BY DEF ReadHeader, AtRecord, MoveOn
<1>2. /\ call # NULL /\ call \in Calls /\ call.pc = "header" /\ AtHeader(View, call, pos, at)
      /\ ~On("reiserfs") /\ dir \in DOMAIN Dirs /\ Header \in Nat
  BY <1>1, CallAtRecord
<1>3. PICK k \in 1 .. Len(Records) :
         /\ at = Records[k].start /\ RecordAt(at) = k /\ Records[k] \in Record
         /\ \A j \in 1 .. k - 1 : Sound(Records[j])
  BY <1>1, CallAtRecord
<1>4. \A j \in 1 .. k : Sound(Records[j])
  <2>1. This = Records[k] /\ Records[k].rec_len \in Nat /\ Records[k].name_len \in Nat
    BY <1>3 DEF This, Record
  <2>2. Records[k].rec_len >= Header
    BY <1>1, <1>2, <2>1
  <2>3. Sound(Records[k])
    BY <1>1, <2>1, <2>2 DEF Sound
  <2>4. \A j \in 1 .. k : j = k \/ j \in 1 .. k - 1
    OBVIOUS
  <2>5. QED
    BY <1>3, <2>3, <2>4
<1>5. k \in View.ids /\ View.place[k] = at /\ k \in Nat
  <2>1. Records[k].inode # 0
    BY <1>1, <1>3 DEF This
  <2>2. k \in View.ids
    BY <1>2, <1>4, <2>1, SoundIsPassed
  <2>3. View.place[k] = Records[k].start
    BY <1>2, <2>2, RecordsInView
  <2>4. k \in Nat
    OBVIOUS
  <2>5. QED
    BY <1>3, <2>2, <2>3, <2>4
<1>6. /\ call' \in Calls /\ call'.pc = "name" /\ call'.fn = call.fn /\ call'.name = call.name
      /\ call'.rec = k
  BY <1>1, <1>2, <1>3, <1>5 DEF Calls
<1>7. Wanted(View, call', pos) = Wanted(View, call, pos)
  BY <1>6 DEF Wanted
<1>8. AtName(View, call', pos, at')
  <2>1. NotPast(View, call', pos, at)
    BY <1>2, <1>6, <1>7 DEF AtHeader, NotPast
  <2>2. ~View.tree /\ View.header = Header
    BY <1>2, ViewFields
  <2>3. QED
    BY <1>1, <1>5, <1>6, <2>1, <2>2 DEF AtName
<1>9. CallHolds(View, call', pos, at', tree', iter)
  <2>1. CallHolds(View, call, pos, at, tree, iter)
    BY <1>2, CallAtHand
  <2>2. QED
    BY <1>6, <1>8, <2>1 DEF CallHolds
<1>10. QED
  BY <1>1, <1>2, <1>6, <1>9, StepInCall DEF Waits

(* The record at hand is wanted, or read past. *)
LEMMA ReadNameKeeps ==
    ASSUME DirAssumption, TreeAssumption, DirInv, ReadName
    PROVE  DirInv'
<1> DEFINE k == call.rec
           r == Records[k]
<1>1. /\ At("name") /\ at' = at + r.name_len + (r.rec_len - (Header + r.name_len))
      /\ call' = [call EXCEPT !.pc = IF PassedOver(r) THEN "header" ELSE "create"]
      /\ UNCHANGED <<dir, pos, iter, found>>
  BY DEF ReadName
<1>2. /\ call # NULL /\ call.pc = "name" /\ call \in Calls /\ dir \in DOMAIN Dirs
      /\ CallHolds(View, call, pos, at, tree, iter) /\ AtName(View, call, pos, at)
  BY <1>1, CallAtHand DEF At, CallHolds
<1>3. /\ ~On("reiserfs") /\ k \in View.ids /\ at = View.place[k] + Header
      /\ NotPast(View, call, pos, View.place[k]) /\ Header \in Nat
  BY <1>2, ViewFields DEF AtName, Header
<1>4. /\ View.place[k] = r.start /\ View.shown[k].name = NameOf(r) /\ r.inode # 0
      /\ (\A j \in 1 .. k : Sound(Records[j])) /\ k \in 1 .. Len(Records) /\ r \in Record
      /\ View.visible = {id \in View.ids : ~Dots(Records[id])}
  <2>1. View.shown[k] = [name |-> NameOf(r), kind |-> r.kind, info |-> r.info]
    BY <1>2, <1>3, RecordsInView
  <2>2. View.shown[k].name = NameOf(r)
    BY ONLY <2>1
  <2>3. /\ View.place[k] = r.start /\ r.inode # 0 /\ (\A j \in 1 .. k : Sound(Records[j]))
        /\ k \in 1 .. Len(Records) /\ View.visible = {id \in View.ids : ~Dots(Records[id])}
    BY <1>2, <1>3, RecordsInView
  <2>4. r \in Record
    BY <1>2, <1>3, <2>3, RecordsOfDirectory
  <2>5. QED
    BY <2>2, <2>3, <2>4
<1>5. at' = r.start + r.rec_len /\ r.start \in Nat
  <2>1. r.start \in Nat /\ r.name_len \in Nat /\ r.rec_len \in Nat /\ Header \in Nat
    BY <1>3, <1>4 DEF Record
  <2>2. at' = at + r.name_len + (r.rec_len - (Header + r.name_len)) /\ at = r.start + Header
    BY <1>1, <1>3, <1>4
  <2> HIDE DEF r
  <2>3. QED
    BY ONLY <2>1, <2>2
<1>6. /\ at' \in View.positions /\ View.place[k] < at'
      /\ \A id \in View.ids : View.place[id] < View.place[k] \/ id = k \/ at' <= View.place[id]
  BY <1>2, <1>3, <1>4, <1>5, SoundIsPassed
<1>7. WellFormed(View) /\ Wanted(View, call, pos) \subseteq View.ids
  BY <1>2, ViewIsWellFormed, TreeAssumption DEF Wanted, NamedIn, WellFormed
<1>8. /\ pos \in Nat /\ at' \in Nat /\ \A id \in View.ids : View.place[id] \in Nat
  BY <1>2, <1>6, <1>7, CallAtHand DEF WellFormed
<1>9. \A id \in Wanted(View, call, pos) : id = k \/ at' <= View.place[id]
  <2>1. \A id \in Wanted(View, call, pos) : View.place[k] <= View.place[id]
    BY <1>3 DEF NotPast
  <2>2. QED
    BY <1>3, <1>6, <1>7, <1>8, <2>1
<1>10. PassedOver(r) <=> k \notin Wanted(View, call, pos)
  <2>1. CASE call.fn = "dir_read"
    <3>1. PassedOver(r) <=> Dots(r)
      BY <2>1 DEF PassedOver
    <3>2. pos <= View.place[k]
      BY <1>3, <2>1 DEF NotPast
    <3>3. View.place[k] >= pos
      BY <1>3, <1>8, <3>2
    <3>4. k \in Wanted(View, call, pos) <=> k \in View.visible
      BY <2>1, <3>3 DEF Wanted
    <3>5. QED
      BY <1>3, <1>4, <3>1, <3>4
  <2>2. CASE call.fn = "dir_lookup"
    <3>1. call.name \in Names
      BY <1>2, <2>2 DEF CallHolds
    <3>2. k \in Wanted(View, call, pos) <=> NameOf(r) = call.name
      BY <1>3, <1>4, <2>2 DEF Wanted, NamedIn
    <3>3. On("iso9660") /\ Dots(r) => NameOf(r) # call.name
      BY <1>2, <3>1, DotsAreNoNames
    <3>4. QED
      BY <2>2, <3>2, <3>3 DEF PassedOver
  <2>3. QED
    BY <1>2, <2>1, <2>2 DEF Calls
<1>11. /\ call' \in Calls /\ call'.fn = call.fn /\ call'.name = call.name /\ call'.rec = k
       /\ call'.pc = IF PassedOver(r) THEN "header" ELSE "create"
  BY <1>1, <1>2 DEF Calls
<1>12. Wanted(View, call', pos) = Wanted(View, call, pos)
  BY <1>11 DEF Wanted
<1> HIDE DEF r, k
<1>13. CASE PassedOver(r)
  <2>1. \A id \in Wanted(View, call, pos) : at' <= View.place[id]
    BY <1>9, <1>10, <1>13
  <2>2. call'.fn = "dir_read" => pos <= at'
    <3>1. call.fn = "dir_read" => pos <= View.place[k]
      BY <1>3 DEF NotPast
    <3>2. View.place[k] \in Nat
      BY <1>3, <1>8
    <3>3. QED
      BY <1>6, <1>8, <1>11, <3>1, <3>2
  <2>3. AtHeader(View, call', pos, at')
    BY <1>3, <1>6, <1>12, <2>1, <2>2, ViewFields DEF AtHeader, NotPast
  <2>4. call'.pc = "header"
    BY <1>11, <1>13
  <2>5. CallHolds(View, call', pos, at', tree', iter)
    BY <1>2, <1>11, <2>3, <2>4 DEF CallHolds
  <2>6. QED
    BY <1>1, <1>2, <2>4, <2>5, StepInCall DEF Waits
<1>14. CASE ~PassedOver(r)
  <2>1. AtEntry(View, call', pos, at')
    BY <1>6, <1>9, <1>10, <1>11, <1>12, <1>14 DEF AtEntry
  <2>2. call'.pc = "create"
    BY <1>11, <1>14
  <2>3. CallHolds(View, call', pos, at', tree', iter)
    BY <1>2, <1>11, <2>1, <2>2 DEF CallHolds
  <2>4. QED
    BY <1>1, <1>2, <2>2, <2>3, StepInCall DEF Waits
<1>15. QED
  BY <1>13, <1>14

------------------------------------------------------------------------------
(* Going from item to item.                                                   *)

LEMMA FirstPositionIs ==
    ASSUME NEW c, NEW p \in Nat
    PROVE  /\ FirstPosition(c, p) \in Nat /\ FirstPosition(c, p) >= 1
           /\ c.fn # "dir_read" => FirstPosition(c, p) = 1
           /\ c.fn = "dir_read" => \A x \in Nat \ {0} : x >= FirstPosition(c, p) <=> x >= p
<1>1. Max({1, p}) = IF 1 <= p THEN p ELSE 1
  BY MaxOfTwo
<1>2. Max({1, p}) \in Nat /\ Max({1, p}) >= 1 /\ \A x \in Nat \ {0} : x >= Max({1, p}) <=> x >= p
  BY <1>1
<1>3. QED
  BY <1>2 DEF FirstPosition, FIRST_ITEM_OFFSET

(* The candidates in the items are what a call wants. *)
LEMMA CandidatesAreWanted ==
    ASSUME DirAssumption, TreeAssumption, dir \in DOMAIN Dirs, On("reiserfs"),
           NEW c \in Calls, NEW p \in Nat, NEW a, a = FirstPosition(c, p)
    PROVE  /\ \A it \in Listings(View.object) : \A i \in DOMAIN it.entries :
                 Candidate(c, a, it.entries[i]) => it.entries[i].offset \in Wanted(View, c, p)
           /\ \A id \in Wanted(View, c, p) :
                 /\ View.place[id] = id /\ id \in Nat
                 /\ \E it \in Listings(View.object) : \E i \in DOMAIN it.entries :
                       it.entries[i].offset = id /\ Candidate(c, a, it.entries[i])
<1> DEFINE L == Listings(View.object)
<1>1. View.object = Dirs[dir].object /\ View.ids = {e.offset : e \in Entries}
  BY EntriesInView, TreeAssumption
<1>2. Entries = UNION {{it.entries[i] : i \in DOMAIN it.entries} : it \in L}
  BY <1>1, EntriesOfDirectory, TreeAssumption
<1>3. ASSUME NEW e \in Entries
      PROVE  (Candidate(c, a, e) <=> e.offset \in Wanted(View, c, p))
             /\ View.place[e.offset] = e.offset /\ e.offset \in Nat
  <2>1. /\ View.place[e.offset] = e.offset /\ View.shown[e.offset].name = e.name
        /\ e.offset \in View.ids /\ e.offset \in Nat \ {0}
    BY <1>1, EntriesInView, OffsetsDiffer, TreeAssumption
  <2>2. e.offset \in View.visible <=> /\ e.offset \notin {DOT_OFFSET, DOT_DOT_OFFSET}
                                      /\ e.name # Private
    BY EntriesInView, TreeAssumption
  <2>3. CASE c.fn = "dir_read"
    <3>1. e.offset >= a <=> e.offset >= p
      BY <2>1, <2>3, FirstPositionIs
    <3>2. e.offset \in Wanted(View, c, p) <=> e.offset \in View.visible /\ e.offset >= p
      BY <2>1, <2>3 DEF Wanted
    <3>3. Candidate(c, a, e) <=> /\ e.offset >= a /\ e.name # Private
                                 /\ e.offset \notin {DOT_OFFSET, DOT_DOT_OFFSET}
      BY <2>3 DEF Candidate
    <3>4. Candidate(c, a, e) <=> e.offset \in Wanted(View, c, p)
      BY ONLY <2>2, <3>1, <3>2, <3>3
    <3>5. QED
      BY <2>1, <3>4
  <2>4. CASE c.fn = "dir_lookup"
    <3>1. e.offset \in Wanted(View, c, p) <=> e.name = c.name
      BY <2>1, <2>4 DEF Wanted, NamedIn
    <3>2. Candidate(c, a, e) <=> e.name = c.name
      BY <2>4 DEF Candidate
    <3>3. QED
      BY <2>1, <3>1, <3>2
  <2>5. QED
    BY <2>3, <2>4 DEF Calls
<1>4. ASSUME NEW it \in L, NEW i \in DOMAIN it.entries, Candidate(c, a, it.entries[i])
      PROVE  it.entries[i].offset \in Wanted(View, c, p)
  <2>1. it.entries[i] \in Entries
    BY <1>2
  <2>2. QED
    BY <1>3, <1>4, <2>1
<1>5. ASSUME NEW id \in Wanted(View, c, p)
      PROVE  /\ View.place[id] = id /\ id \in Nat
             /\ \E it \in L : \E i \in DOMAIN it.entries :
                   it.entries[i].offset = id /\ Candidate(c, a, it.entries[i])
  <2>1. id \in View.ids
    BY ViewFields DEF Wanted, NamedIn
  <2>2. PICK e \in Entries : e.offset = id
    BY <1>1, <2>1
  <2>3. PICK it \in L : \E i \in DOMAIN it.entries : e = it.entries[i]
    BY <1>2
  <2>4. PICK i \in DOMAIN it.entries : e = it.entries[i]
    BY <2>3
  <2>5. Candidate(c, a, e) /\ View.place[id] = id /\ id \in Nat
    BY <1>3, <2>2
  <2>6. QED
    BY <2>2, <2>4, <2>5
<1>6. QED
  BY <1>4, <1>5

(* What the search of a call has come to. *)
LEMMA CallAtItems ==
    ASSUME DirAssumption, TreeAssumption, DirInv, At("item")
    PROVE  /\ call # NULL /\ call \in Calls /\ call.pc = "item"
           /\ AtItems(View, call, pos, at, tree) /\ CallHolds(View, call, pos, at, tree, iter)
           /\ On("reiserfs") /\ dir \in DOMAIN Dirs /\ pos \in Nat
           /\ View.object = Dirs[dir].object /\ IsDirectory(View.object)
           /\ WalkHolds(tree) /\ ObjectItems(tree.want) = ObjectItems(View.object)
           /\ tree.want[3] \in Nat /\ at \in Nat /\ at >= 1
<1>1. call # NULL /\ call.pc = "item"
  BY DEF At
<1>2. /\ call \in Calls /\ CallHolds(View, call, pos, at, tree, iter)
      /\ pos \in View.positions /\ dir \in DOMAIN Dirs
  BY <1>1, CallAtHand
<1>3. AtItems(View, call, pos, at, tree)
  BY <1>1, <1>2 DEF CallHolds
<1>4. On("reiserfs")
  BY <1>3, ViewFields DEF AtItems
<1>5. View.object = Dirs[dir].object /\ pos \in Nat
  BY <1>2, <1>4, EntriesInView, TreeAssumption
<1>6. IsDirectory(View.object)
  BY <1>2, <1>4, <1>5, ObjectOfDirectory
<1>7. WalkHolds(tree) /\ SameObject(tree.want, View.object) /\ at = FirstPosition(call, pos)
  BY <1>3 DEF AtItems
<1>8. ObjectItems(tree.want) = ObjectItems(View.object)
  BY <1>7 DEF ObjectItems, SameObject
<1>9. tree.want[3] \in Nat
  BY <1>7 DEF WalkHolds, TreeWalks, Key
<1>10. at \in Nat /\ at >= 1
  BY <1>5, <1>7, FirstPositionIs
<1>11. QED
  BY <1>1, <1>2, <1>3, <1>4, <1>5, <1>6, <1>7, <1>8, <1>9, <1>10

(* Without an item for its position, or with the stat data only, a call finds *)
(* nothing.                                                                   *)
LEMMA NothingWanted ==
    ASSUME DirAssumption, TreeAssumption, DirInv, At("item"),
           tree.pc = "none" \/ (tree.pc = "found" /\ AtItem(tree).key[3] = 0)
    PROVE  Wanted(View, call, pos) = {}
<1> DEFINE L == Listings(View.object)
           fits == {it \in ObjectItems(tree.want) : IF tree.next THEN it.key[3] > tree.want[3]
                                                    ELSE it.key[3] <= tree.want[3]}
<1>1. /\ call \in Calls /\ AtItems(View, call, pos, at, tree)
      /\ On("reiserfs") /\ dir \in DOMAIN Dirs /\ pos \in Nat
      /\ View.object = Dirs[dir].object /\ IsDirectory(View.object)
      /\ WalkHolds(tree) /\ ObjectItems(tree.want) = ObjectItems(View.object)
      /\ tree.want[3] \in Nat /\ at \in Nat /\ at >= 1
  BY CallAtItems, TreeAssumption, DirAssumption
<1>2. ResultIsRight(tree) /\ at = FirstPosition(call, pos)
  BY <1>1 DEF WalkHolds, AtItems
<1>3. L \subseteq ObjectItems(tree.want)
  BY <1>1 DEF Listings
<1>4. \A it \in L : it.key[3] \in Nat \ {0}
  BY <1>1, EntriesOfItem, TreeAssumption
<1>5. \A it \in L : WithoutCandidate(call, at, it)
  <2>1. CASE tree.next
    <3>1. tree.pc # "found"
      <4>1. SUFFICES ASSUME tree.pc = "found", AtItem(tree).key[3] = 0 PROVE FALSE
        OBVIOUS
      <4>2. AtItem(tree).key[3] > tree.want[3]
        BY <1>2, <2>1, <4>1 DEF ResultIsRight
      <4>3. QED
        BY <1>1, <4>1, <4>2
    <3>2. \A it \in ObjectItems(tree.want) : ~(it.key[3] > tree.want[3])
      BY <1>2, <2>1, <3>1 DEF ResultIsRight
    <3>3. \A it \in L : it.key[3] <= tree.want[3]
      BY <1>1, <1>3, <1>4, <3>2
    <3>4. QED
      BY <1>1, <2>1, <3>3 DEF AtItems
  <2>2. CASE ~tree.next
    <3>1. tree.want[3] = at
      BY <1>1, <2>2 DEF AtItems
    <3>2. \A it \in L : ~(it.key[3] = 1)
      <4>1. SUFFICES ASSUME NEW it \in L, it.key[3] = 1 PROVE FALSE
        OBVIOUS
      <4>2. it \in ObjectItems(tree.want) /\ it.key[3] <= tree.want[3]
        BY <1>1, <1>3, <3>1, <4>1
      <4>3. tree.pc # "none"
        BY <1>2, <2>2, <4>2 DEF ResultIsRight
      <4>4. tree.pc = "found" /\ AtItem(tree).key[3] = 0
        BY <4>3
      <4>5. it.key[3] <= AtItem(tree).key[3]
        BY <1>2, <2>2, <4>2, <4>4 DEF ResultIsRight
      <4>6. QED
        BY <4>1, <4>4, <4>5
    <3>3. L = {}
      <4>1. L # {} => \E it \in L : it.key[3] = 1
        BY <1>1 DEF IsDirectory, Listings, FIRST_ITEM_OFFSET
      <4>2. QED
        BY <3>2, <4>1
    <3>4. QED
      BY <3>3
  <2>3. QED
    BY <2>1, <2>2
<1>6. QED
  <2>1. \A id \in Wanted(View, call, pos) :
           \E it \in L : \E i \in DOMAIN it.entries : Candidate(call, at, it.entries[i])
    BY <1>1, <1>2, CandidatesAreWanted, TreeAssumption
  <2>2. QED
    BY <1>5, <2>1 DEF WithoutCandidate

(* The items before the one found have nothing for the call. *)
LEMMA BehindIsPassed ==
    ASSUME DirAssumption, TreeAssumption, DirInv, At("item"), tree.pc = "found",
           AtItem(tree).key[3] # 0
    PROVE  /\ AtItem(tree) \in Listings(View.object)
           /\ \A it \in Listings(View.object) :
                 it.key[3] < AtItem(tree).key[3] => WithoutCandidate(call, at, it)
<1> DEFINE L == Listings(View.object)
           x == AtItem(tree)
<1>1. /\ call \in Calls /\ AtItems(View, call, pos, at, tree)
      /\ On("reiserfs") /\ dir \in DOMAIN Dirs /\ pos \in Nat
      /\ View.object = Dirs[dir].object /\ IsDirectory(View.object)
      /\ WalkHolds(tree) /\ ObjectItems(tree.want) = ObjectItems(View.object)
      /\ tree.want[3] \in Nat /\ at \in Nat /\ at >= 1
  BY CallAtItems, TreeAssumption, DirAssumption
<1>2. ResultIsRight(tree) /\ at = FirstPosition(call, pos)
  BY <1>1 DEF WalkHolds, AtItems
<1>3. x \in L
  <2>1. x \in ObjectItems(View.object)
    BY <1>1, <1>2 DEF ResultIsRight
  <2>2. x.type = "direntry"
    BY <1>1, <2>1 DEF IsDirectory
  <2>3. QED
    BY <2>1, <2>2 DEF Listings
<1>4. \A it \in L : it.key[3] \in Nat \ {0} /\ it \in ObjectItems(tree.want)
  BY <1>1, EntriesOfItem, TreeAssumption DEF Listings
<1>5. ASSUME NEW it \in L, it.key[3] < x.key[3] PROVE WithoutCandidate(call, at, it)
  <2>1. CASE tree.next
    <3>1. ~(it.key[3] > tree.want[3])
      <4>1. it.key[3] > tree.want[3] => x.key[3] <= it.key[3]
        BY <1>2, <1>4, <2>1 DEF ResultIsRight
      <4>2. x.key[3] \in Nat /\ it.key[3] \in Nat
        BY <1>3, <1>4
      <4>3. QED
        BY <1>5, <4>1, <4>2
    <3>2. it.key[3] <= tree.want[3]
      BY <1>1, <1>4, <3>1
    <3>3. QED
      BY <1>1, <2>1, <3>2 DEF AtItems
  <2>2. CASE ~tree.next
    <3>1. x.key[3] <= at
      BY <1>1, <1>2, <2>2 DEF AtItems, ResultIsRight
    <3>2. it # x /\ it.key[3] <= x.key[3] /\ it.key[3] \in Nat \ {0} /\ x.key[3] \in Nat
      BY <1>3, <1>4, <1>5
    <3>3. ASSUME NEW i \in DOMAIN it.entries PROVE ~Candidate(call, at, it.entries[i])
      <4>1. it.entries[i].offset < x.key[3] /\ it.key[3] <= it.entries[i].offset
        BY <1>1, <1>3, <3>2, EntriesOfItem, TreeAssumption
      <4>2. it.entries[i].offset \in Nat
        BY <1>1, EntriesOfItem, TreeAssumption DEF DirEntry
      <4>3. ~(it.entries[i].offset >= at)
        BY <1>1, <3>1, <3>2, <4>1, <4>2
      <4>4. call.fn = "dir_read"
        <5>1. SUFFICES ASSUME call.fn # "dir_read" PROVE FALSE
          OBVIOUS
        <5>2. at = 1
          BY <1>1, <1>2, <5>1, FirstPositionIs
        <5>3. QED
          BY <3>1, <3>2, <4>1, <4>2, <5>2
      <4>5. QED
        BY <4>3, <4>4 DEF Candidate
    <3>4. QED
      BY <3>3 DEF WithoutCandidate
  <2>3. QED
    BY <2>1, <2>2
<1>6. QED
  BY <1>3, <1>5

LEMMA CandidatesOfItem ==
    Candidates = {i \in DOMAIN AtItem(tree).entries :
                     Candidate(call, at, AtItem(tree).entries[i])}
BY DEF Candidates, Candidate

(* The call ends at the first entry that is wanted, and the handle is left    *)
(* behind it.                                                                 *)
LEMMA EntryKeeps ==
    ASSUME DirAssumption, TreeAssumption, DirInv, Entry
    PROVE  DirInv'
<1> DEFINE L == Listings(View.object)
           x == AtItem(tree)
           m == Min(Candidates)
           e == x.entries[m]
           C(i) == Candidate(call, at, x.entries[i])
<1>1. /\ At("item") /\ tree.pc = "found" /\ x.key[3] # 0 /\ Candidates # {}
      /\ call' = [call EXCEPT !.pc = "create", !.rec = e.offset]
      /\ at' = e.offset + 1 /\ UNCHANGED <<dir, pos, iter, found>>
  BY DEF Entry, AtItemFound
<1>2. /\ call # NULL /\ call \in Calls /\ call.pc = "item"
      /\ CallHolds(View, call, pos, at, tree, iter) /\ AtItems(View, call, pos, at, tree)
      /\ On("reiserfs") /\ dir \in DOMAIN Dirs /\ pos \in Nat /\ View.object = Dirs[dir].object
  BY <1>1, CallAtItems, TreeAssumption, DirAssumption
<1>3. /\ x \in L
      /\ \A it \in L : it.key[3] < x.key[3] => WithoutCandidate(call, at, it)
  BY <1>1, BehindIsPassed, TreeAssumption, DirAssumption
<1>4. /\ DOMAIN x.entries = 1 .. Len(x.entries)
      /\ \A i \in DOMAIN x.entries : x.entries[i].offset \in Nat
      /\ \A i, j \in DOMAIN x.entries : i < j => x.entries[i].offset < x.entries[j].offset
      /\ \A it \in L : it.key[3] \in Nat
      /\ \A it \in L : \A i \in DOMAIN it.entries : it.key[3] <= it.entries[i].offset
                                                    /\ it.entries[i].offset \in Nat
      /\ \A it \in L \ {x} : x.key[3] <= it.key[3] =>
            \A i \in DOMAIN x.entries : x.entries[i].offset < it.key[3]
  BY <1>2, <1>3, EntriesOfItem, TreeAssumption DEF DirEntry
<1>5. m \in DOMAIN x.entries /\ C(m) /\ \A i \in DOMAIN x.entries : C(i) => m <= i
  <2>1. Candidates = {i \in DOMAIN x.entries : C(i)}
    BY CandidatesOfItem
  <2>2. Candidates \in SUBSET Nat
    BY <1>4, <2>1
  <2>3. m \in Candidates /\ \A i \in Candidates : m <= i
    BY <1>1, <2>2, MinOfNaturals
  <2> HIDE DEF m, x, C
  <2>4. QED
    BY <2>1, <2>3
<1>6. e.offset \in Wanted(View, call, pos) /\ e.offset \in Nat
  BY <1>2, <1>3, <1>4, <1>5, CandidatesAreWanted, TreeAssumption, DirAssumption DEF AtItems
<1>7. ASSUME NEW id \in Wanted(View, call, pos)
      PROVE  View.place[id] = id /\ (id = e.offset \/ e.offset + 1 <= id)
  <2>1. /\ View.place[id] = id /\ id \in Nat
        /\ \E it \in L : \E i \in DOMAIN it.entries :
              it.entries[i].offset = id /\ Candidate(call, at, it.entries[i])
    BY <1>2, CandidatesAreWanted, TreeAssumption, DirAssumption DEF AtItems
  <2>2. PICK it \in L : \E i \in DOMAIN it.entries :
           it.entries[i].offset = id /\ Candidate(call, at, it.entries[i])
    BY <2>1
  <2>3. PICK i \in DOMAIN it.entries :
           it.entries[i].offset = id /\ Candidate(call, at, it.entries[i])
    BY <2>2
  <2> HIDE DEF m
  <2>4. CASE it = x
    <3>1. m <= i /\ i \in DOMAIN x.entries
      BY <1>5, <2>3, <2>4
    <3>2. m = i \/ m < i
      BY <1>4, <1>5, <3>1
    <3>3. m = i => id = e.offset
      BY <2>3, <2>4
    <3>4. m < i => e.offset < id
      BY <1>4, <1>5, <2>3, <2>4, <3>1
    <3>5. QED
      BY ONLY <1>6, <2>1, <3>2, <3>3, <3>4
  <2>5. CASE it # x
    <3>1. ~(it.key[3] < x.key[3])
      BY <1>3, <2>3 DEF WithoutCandidate
    <3>2. it.key[3] \in Nat /\ x.key[3] \in Nat
      BY <1>3, <1>4
    <3>3. x.key[3] <= it.key[3]
      BY <3>1, <3>2
    <3>4. e.offset < it.key[3]
      BY <1>4, <1>5, <2>5, <3>3
    <3>5. it.key[3] <= id
      BY <1>4, <2>3
    <3>6. QED
      BY ONLY <1>6, <2>1, <3>2, <3>4, <3>5
  <2>6. QED
    BY <2>4, <2>5
<1> DEFINE off == e.offset
<1>8. /\ call' \in Calls /\ call'.pc = "create" /\ call'.fn = call.fn
      /\ call'.name = call.name /\ call'.rec = off
  <2> HIDE DEF e
  <2>1. QED
    BY <1>1, <1>2, <1>6 DEF Calls
<1>9. Wanted(View, call', pos) = Wanted(View, call, pos)
  BY <1>8 DEF Wanted
<1>10. View.positions = Nat
  BY <1>2, EntriesInView, TreeAssumption
<1>11. AtEntry(View, call', pos, at')
  <2>1. off \in Wanted(View, call, pos) /\ off \in Nat /\ at' = off + 1
    BY <1>1, <1>6
  <2>2. \A id \in Wanted(View, call, pos) : View.place[id] = id /\ (id = off \/ off + 1 <= id)
    BY <1>7
  <2> HIDE DEF off
  <2>3. at' \in View.positions /\ View.place[off] < at'
    BY <1>10, <2>1, <2>2
  <2>4. \A id \in Wanted(View, call, pos) : id = off \/ at' <= View.place[id]
    BY <2>1, <2>2
  <2>5. QED
    BY <1>8, <1>9, <2>1, <2>3, <2>4 DEF AtEntry
<1> HIDE DEF off
<1>12. CallHolds(View, call', pos, at', tree', iter)
  BY <1>2, <1>8, <1>11 DEF CallHolds
<1>13. QED
  BY <1>1, <1>2, <1>8, <1>12, StepInCall DEF Waits

LEMMA NoEntryInItemKeeps ==
    ASSUME DirAssumption, TreeAssumption, DirInv, NoEntryInItem
    PROVE  DirInv'
<1> DEFINE L == Listings(View.object)
           x == AtItem(tree)
<1>1. /\ At("item") /\ tree.pc = "found" /\ x.key[3] # 0 /\ Candidates = {}
      /\ tree' = NextItem(tree) /\ UNCHANGED <<dir, pos, iter, call, at, found>>
  BY DEF NoEntryInItem, AtItemFound
<1>2. /\ call # NULL /\ call \in Calls /\ call.pc = "item"
      /\ CallHolds(View, call, pos, at, tree, iter) /\ AtItems(View, call, pos, at, tree)
      /\ On("reiserfs") /\ dir \in DOMAIN Dirs /\ pos \in Nat
      /\ View.object = Dirs[dir].object
  BY <1>1, CallAtItems, TreeAssumption, DirAssumption
<1>3. /\ x \in L
      /\ \A it \in L : it.key[3] < x.key[3] => WithoutCandidate(call, at, it)
  BY <1>1, BehindIsPassed, TreeAssumption, DirAssumption
<1>4. WithoutCandidate(call, at, x)
  BY <1>1, CandidatesOfItem DEF WithoutCandidate
<1>5. ASSUME NEW it \in L, it.key[3] <= x.key[3] PROVE WithoutCandidate(call, at, it)
  <2>1. it.key[3] \in Nat /\ x.key[3] \in Nat
    BY <1>2, <1>3, EntriesOfItem, TreeAssumption
  <2>2. CASE it.key[3] < x.key[3]
    BY <1>3, <2>2
  <2>3. CASE it.key[3] = x.key[3]
    <3>1. it = x
      <4>1. SUFFICES ASSUME it # x PROVE FALSE
        OBVIOUS
      <4>2. x.key[3] <= it.key[3]
        BY <2>1, <2>3
      <4>3. /\ \A i \in DOMAIN x.entries : x.entries[i].offset < it.key[3]
            /\ \A i \in DOMAIN x.entries : x.key[3] <= x.entries[i].offset
            /\ \A i \in DOMAIN x.entries : x.entries[i] \in DirEntry
        BY <1>2, <1>3, <4>1, <4>2, EntriesOfItem, TreeAssumption
      <4>4. 1 \in DOMAIN x.entries
        <5>1. Len(x.entries) \in Nat \ {0} /\ DOMAIN x.entries = 1 .. Len(x.entries)
          BY <1>2, <1>3, EntriesOfItem, TreeAssumption
        <5>2. QED
          BY <5>1
      <4>5. x.entries[1].offset \in Nat
        BY <4>3, <4>4 DEF DirEntry
      <4>6. x.entries[1].offset < it.key[3] /\ x.key[3] <= x.entries[1].offset
        BY <4>3, <4>4
      <4>7. QED
        BY ONLY <2>1, <2>3, <4>5, <4>6
    <3>2. QED
      BY <1>4, <3>1
  <2>4. QED
    BY <1>5, <2>1, <2>2, <2>3
<1>6. WalkHolds(tree') /\ tree'.want = x.key /\ tree'.next = TRUE
  BY <1>1, <1>2, NextBegins, TreeAssumption DEF AtItems
<1>7. SameObject(tree'.want, View.object)
  BY <1>3, <1>6 DEF Listings, ObjectItems, SameObject
<1>8. AtItems(View, call', pos, at', tree')
  BY <1>1, <1>2, <1>5, <1>6, <1>7 DEF AtItems
<1>9. CallHolds(View, call', pos, at', tree', iter)
  BY <1>1, <1>2, <1>8 DEF CallHolds
<1>10. QED
  BY <1>1, <1>2, <1>9, StepInCall DEF Waits

(* A search stays one, and so does a walk to the next item. *)
LEMMA WalkKeepsNext ==
    ASSUME TreeAssumption, NEW t \in TreeWalks, ~AtRest(t), NEW u \in TreeStep(t)
    PROVE  u.next = t.next
<1> DEFINE W(y) == "next" \in DOMAIN y /\ y.next = t.next
<1>1. W(t)
  BY DEF TreeWalks
<1>2. ASSUME NEW y, W(y), NEW why PROVE W(Failed(y, why))
  BY <1>2 DEF Failed
<1>3. ASSUME NEW y, W(y), NEW i PROVE W(Settle(y, i))
  <2> DEFINE z == [y EXCEPT !.path_index[Leaf] = i]
  <2>1. W(z)
    BY <1>3
  <2>2. W([z EXCEPT !.pc = "found", !.held = y.bno])
    <3> HIDE DEF z
    <3>1. QED
      BY <2>1
  <2>3. W(Failed(z, "none"))
    <3> HIDE DEF W, z
    <3>1. QED
      BY <1>2, <2>1
  <2> HIDE DEF W
  <2>4. QED
    BY <2>2, <2>3 DEF Settle
<1>4. ASSUME NEW y, W(y) PROVE W(Follow(y))
  BY <1>4 DEF Follow
<1>5. ASSUME NEW y, W(y) PROVE W(Descend(y))
  BY <1>5 DEF Descend
<1>6. ASSUME NEW y, W(y) PROVE W(SearchLeaf(y))
  <2> HIDE DEF W
  <2>1. QED
    BY <1>2, <1>3, <1>6 DEF SearchLeaf
<1>7. ASSUME NEW b, NEW l PROVE W([t EXCEPT !.path_bno[l] = b]) /\ W([t EXCEPT !.path_index[l] = b])
  BY <1>1
<1>8. W([t EXCEPT !.path_index[t.level] = 0, !.level = @ + 1, !.bno = t.path_bno[t.level + 1]])
  BY <1>1
<1> HIDE DEF W
<1>9. W(Failed(t, "error"))
  BY <1>1, <1>2
<1>10. W(SearchStep(t))
  BY <1>5, <1>6, <1>7, <1>9 DEF SearchStep
<1>11. W(DownStep(t))
  BY <1>3, <1>4, <1>7, <1>9 DEF DownStep
<1>12. W(UpStep(t))
  BY <1>1, <1>2, <1>3, <1>4, <1>7, <1>8, <1>9 DEF UpStep
<1>13. W(u)
  <2>1. t.pc \in {"search", "up", "down"}
    BY DEF TreeWalks, AtRest
  <2>2. u = Failed(t, "error") \/ u = SearchStep(t) \/ u = UpStep(t) \/ u = DownStep(t)
    BY <2>1 DEF TreeStep
  <2>3. QED
    BY <1>9, <1>10, <1>11, <1>12, <2>2
<1>14. QED
  BY <1>13 DEF W

LEMMA TreeWalkKeeps ==
    ASSUME DirAssumption, TreeAssumption, SearchTreeAssumption, DirInv, TreeWalk
    PROVE  DirInv'
<1>1. /\ ~AtRest(tree) /\ UNCHANGED <<dir, pos, iter, call, at, found>>
      /\ tree' \in TreeStep(tree)
  BY DEF TreeWalk
<1>2. ASSUME call # NULL PROVE CallHolds(View, call, pos, at, tree', iter)
  <2>1. CallHolds(View, call, pos, at, tree, iter)
    BY <1>2, CallAtHand
  <2>2. call.pc = "item" => AtItems(View, call, pos, at, tree')
    <3>1. SUFFICES ASSUME call.pc = "item" PROVE AtItems(View, call, pos, at, tree')
      OBVIOUS
    <3>2. AtItems(View, call, pos, at, tree)
      BY <2>1, <3>1 DEF CallHolds
    <3>3. WalkHolds(tree') /\ tree'.want = tree.want
      BY <1>1, <3>2, WalkStepHolds, TreeAssumption, SearchTreeAssumption DEF AtItems
    <3>4. tree'.next = tree.next
      BY <1>1, <3>2, WalkKeepsNext, TreeAssumption DEF AtItems, WalkHolds
    <3>5. QED
      BY <3>2, <3>3, <3>4 DEF AtItems
  <2>3. QED
    BY <2>1, <2>2 DEF CallHolds
<1>3. StateHolds(View, call', pos', at', tree', iter', found')
  BY <1>1, <1>2 DEF DirInv, StateHolds
<1>4. QED
  BY <1>1, <1>3, DirInvNext

------------------------------------------------------------------------------
(* The steps keep the invariant: calls that begin, and the iterator's.        *)

LEMMA BeginHolds ==
    ASSUME DirAssumption, TreeAssumption, SearchTreeAssumption, DirInv,
           NEW fn \in {"dir_read", "dir_lookup"}, NEW name \in Names \union {<<>>}, NEW start,
           Begin(fn, name, start),
           fn = "dir_read" => start = pos /\ iter # NULL /\ iter.status = "success",
           fn = "dir_lookup" => start = 0 /\ iter = NULL /\ name \in Names
    PROVE  /\ CallHolds(View, call', pos, at', tree', iter) /\ PendingOf(call') = {}
           /\ UNCHANGED <<dir, pos>> /\ pos \in View.positions
<1>1. /\ call' = [fn |-> fn, pc |-> IF On("reiserfs") THEN "item" ELSE "header",
                  rec |-> 0, name |-> name]
      /\ at' = IF On("reiserfs") THEN Max({FIRST_ITEM_OFFSET, start}) ELSE start
      /\ tree' = IF On("reiserfs") THEN Search(Dirs[dir].object \o <<at'>>) ELSE NULL
      /\ UNCHANGED <<dir, pos>>
  BY DEF Begin
<1>2. /\ call' \in Calls /\ call'.fn = fn /\ call'.name = name
      /\ call'.pc = IF On("reiserfs") THEN "item" ELSE "header"
  BY <1>1 DEF Calls
<1>3. dir \in DOMAIN Dirs /\ pos \in View.positions /\ WellFormed(View)
  BY ViewIsWellFormed, TreeAssumption, DirAssumption DEF DirInv, StateHolds
<1>4. pos \in Nat /\ \A id \in View.ids : View.place[id] \in Nat
  BY <1>3 DEF WellFormed
<1>5. PendingOf(call') = {}
  BY <1>2 DEF PendingOf
<1>6. CASE On("reiserfs")
  <2>1. at' = FirstPosition(call', pos)
    <3>1. fn = "dir_read" => at' = Max({FIRST_ITEM_OFFSET, pos})
      BY <1>1, <1>6
    <3>2. fn = "dir_lookup" => at' = FIRST_ITEM_OFFSET
      <4>1. Max({1, 0}) = 1
        BY MaxOfTwo
      <4>2. QED
        BY <1>1, <1>6, <4>1 DEF FIRST_ITEM_OFFSET
    <3>3. QED
      BY <1>2, <3>1, <3>2 DEF FirstPosition
  <2>2. at' \in Nat
    BY <1>4, <2>1, FirstPositionIs
  <2>3. View.object = Dirs[dir].object /\ View.object \in Nat \X Nat /\ View.tree
    BY <1>3, <1>6, EntriesInView, ObjectOfDirectory, TreeAssumption
  <2> DEFINE o == View.object
             want == o \o <<at'>>
  <2>4. want = <<o[1], o[2], at'>> /\ want \in Key
    <3> DEFINE k == at'
    <3>1. k \in Nat /\ o \in Nat \X Nat
      BY <2>2, <2>3
    <3> HIDE DEF k, o
    <3>2. o \o <<k>> = <<o[1], o[2], k>> /\ o \o <<k>> \in Key
      BY <3>1, KeyOfObject
    <3>3. QED
      BY <3>2 DEF k, o
  <2>6. want[1] = o[1] /\ want[2] = o[2] /\ want[3] = at'
    <3> HIDE DEF want
    <3>1. QED
      BY ONLY <2>4
  <2> HIDE DEF want
  <2>7. tree' = Search(want)
    BY <1>1, <1>6, <2>3 DEF want
  <2>8. WalkHolds(tree') /\ tree'.want = want
    BY <2>4, <2>7, WalkBegins, TreeAssumption, SearchTreeAssumption
  <2>9. tree'.next = FALSE
    BY <2>7 DEF Search
  <2>10. SameObject(tree'.want, View.object)
    BY <2>6, <2>8 DEF SameObject
  <2>11. AtItems(View, call', pos, at', tree')
    BY <2>1, <2>3, <2>6, <2>8, <2>9, <2>10 DEF AtItems
  <2>12. CallHolds(View, call', pos, at', tree', iter)
    BY <1>2, <1>6, <2>11 DEF CallHolds
  <2>13. QED
    BY <1>1, <1>3, <1>5, <2>12
<1>7. CASE ~On("reiserfs")
  <2>1. at' = start /\ (fn = "dir_read" => at' = pos) /\ (fn = "dir_lookup" => at' = 0)
    BY <1>1, <1>7
  <2>2. at' \in View.positions
    BY <1>3, <2>1 DEF WellFormed
  <2>3. NotPast(View, call', pos, at')
    <3>1. call'.fn = "dir_read" => pos <= at'
      BY <1>2, <1>4, <2>1
    <3>2. ASSUME NEW id \in Wanted(View, call', pos) PROVE at' <= View.place[id]
      <4>1. id \in View.ids
        BY <1>3 DEF Wanted, NamedIn, WellFormed
      <4>2. CASE fn = "dir_read"
        <5>1. View.place[id] >= pos
          BY <1>2, <4>2 DEF Wanted
        <5>2. QED
          BY <1>4, <2>1, <4>1, <4>2, <5>1
      <4>3. CASE fn = "dir_lookup"
        BY <1>4, <2>1, <4>1, <4>3
      <4>4. QED
        BY <4>2, <4>3
    <3>3. QED
      BY <3>1, <3>2 DEF NotPast
  <2>4. AtHeader(View, call', pos, at')
    BY <1>7, <2>2, <2>3, ViewFields DEF AtHeader
  <2>5. CallHolds(View, call', pos, at', tree', iter)
    BY <1>2, <1>7, <2>4 DEF CallHolds
  <2>6. QED
    BY <1>1, <1>3, <1>5, <2>5
<1>8. QED
  BY <1>6, <1>7

LEMMA DirReadKeeps ==
    ASSUME DirAssumption, TreeAssumption, SearchTreeAssumption, DirInv, DirRead
    PROVE  DirInv'
<1>1. /\ iter # NULL /\ call = NULL /\ iter.status = "success"
      /\ Begin("dir_read", <<>>, pos) /\ UNCHANGED <<iter, found>>
  BY DEF DirRead, Listing
<1>2. /\ CallHolds(View, call', pos, at', tree', iter) /\ PendingOf(call') = {}
      /\ UNCHANGED <<dir, pos>> /\ pos \in View.positions
  BY <1>1, BeginHolds, TreeAssumption, SearchTreeAssumption, DirAssumption
<1>3. PendingOf(call) = {}
  BY <1>1 DEF PendingOf
<1>4. StateHolds(View, call', pos', at', tree', iter', found')
  BY <1>1, <1>2, <1>3 DEF DirInv, StateHolds
<1>5. QED
  BY <1>2, <1>4, DirInvNext

LEMMA LookupKeeps ==
    ASSUME DirAssumption, TreeAssumption, SearchTreeAssumption, DirInv,
           NEW name \in Names, Lookup(name)
    PROVE  DirInv'
<1>1. /\ iter = NULL /\ call = NULL /\ Begin("dir_lookup", name, 0)
      /\ found' = NULL /\ UNCHANGED iter
  BY DEF Lookup
<1>2. /\ CallHolds(View, call', pos, at', tree', iter)
      /\ UNCHANGED <<dir, pos>> /\ pos \in View.positions
  BY <1>1, BeginHolds, TreeAssumption, SearchTreeAssumption, DirAssumption
<1>3. StateHolds(View, call', pos', at', tree', iter', found')
  BY <1>1, <1>2 DEF StateHolds
<1>4. QED
  BY <1>2, <1>3, DirInvNext

LEMMA IterOpenKeeps ==
    ASSUME DirAssumption, TreeAssumption, DirInv,
           NEW path \in BOOLEAN, NEW filter \in Filters, NEW pattern \in Patterns,
           IterOpen(path, filter, pattern)
    PROVE  DirInv'
<1>1. /\ call = NULL /\ pos' = (IF path THEN 0 ELSE pos)
      /\ iter' = [filter |-> filter, pattern |-> pattern, status |-> "success",
                  buffer |-> FirstBuffer, tries |-> 0, from |-> pos', seen |-> <<>>]
      /\ UNCHANGED <<dir, call, at, tree, found>>
  BY DEF IterOpen
<1>2. dir \in DOMAIN Dirs /\ pos \in View.positions /\ WellFormed(View)
  BY ViewIsWellFormed, TreeAssumption, DirAssumption DEF DirInv, StateHolds
<1>3. pos' \in View.positions /\ pos' \in Nat
  BY <1>1, <1>2 DEF WellFormed
<1>4. /\ iter' \in Iters /\ iter'.seen = <<>> /\ iter'.status = "success"
      /\ iter'.from = pos' /\ FirstBuffer <= iter'.buffer
  <2>1. FirstBuffer \in Nat /\ <<>> \in Seq(Nat)
    BY DirAssumption DEF DirAssumption
  <2>2. iter' \in Iters
    BY <1>1, <1>3, <2>1 DEF Iters
  <2>3. iter'.buffer = FirstBuffer
    BY ONLY <1>1
  <2>4. iter'.seen = <<>> /\ iter'.status = "success" /\ iter'.from = pos'
    BY ONLY <1>1
  <2>5. QED
    BY <2>1, <2>2, <2>3, <2>4
<1>5. ListHolds(View, iter', {}, pos')
  BY <1>2, <1>4, ListOpens
<1>6. PendingOf(call') = {}
  BY <1>1 DEF PendingOf
<1>7. StateHolds(View, call', pos', at', tree', iter', found')
  BY <1>1, <1>3, <1>5, <1>6 DEF DirInv, StateHolds
<1>8. QED
  BY <1>1, <1>7, DirInvNext

LEMMA IterCloseKeeps ==
    ASSUME DirAssumption, TreeAssumption, DirInv, IterClose
    PROVE  DirInv'
<1>1. /\ iter # NULL /\ iter.status # "success" /\ iter' = NULL
      /\ UNCHANGED <<dir, pos, call, at, tree, found>>
  BY DEF IterClose
<1>2. call = NULL
  <2>1. SUFFICES ASSUME call # NULL PROVE FALSE
    OBVIOUS
  <2>2. CallHolds(View, call, pos, at, tree, iter)
    BY <2>1, CallAtHand
  <2>3. QED
    BY <1>1, <2>2 DEF CallHolds
<1>3. StateHolds(View, call', pos', at', tree', iter', found')
  BY <1>1, <1>2 DEF DirInv, StateHolds
<1>4. QED
  BY <1>1, <1>3, DirInvNext

LEMMA CallIsNotNull ==
    ASSUME DirAssumption, NEW c \in Calls
    PROVE  c # NULL
BY DirAssumption DEF DirAssumption

------------------------------------------------------------------------------
(* The steps keep the invariant: what becomes of the entry a call has come to. *)

LEMMA CallAtEntry ==
    ASSUME DirAssumption, TreeAssumption, DirInv, At("create")
    PROVE  /\ call # NULL /\ call \in Calls /\ call.pc = "create"
           /\ AtEntry(View, call, pos, at) /\ CallHolds(View, call, pos, at, tree, iter)
           /\ dir \in DOMAIN Dirs /\ WellFormed(View) /\ PendingOf(call) = {}
           /\ Wanted(View, call, pos) \subseteq View.ids
           /\ pos \in Nat /\ at \in Nat /\ at \in View.positions
           /\ \A id \in View.ids : View.place[id] \in Nat
<1>1. call # NULL /\ call.pc = "create"
  BY DEF At
<1>2. call \in Calls /\ CallHolds(View, call, pos, at, tree, iter) /\ dir \in DOMAIN Dirs
      /\ pos \in View.positions
  BY <1>1, CallAtHand
<1>3. AtEntry(View, call, pos, at)
  BY <1>1, <1>2 DEF CallHolds
<1>4. WellFormed(View)
  BY <1>2, ViewIsWellFormed, TreeAssumption, DirAssumption
<1>5. at \in View.positions
  BY <1>3 DEF AtEntry
<1>6. PendingOf(call) = {}
  BY <1>1 DEF PendingOf
<1>7. Wanted(View, call, pos) \subseteq View.ids
  BY <1>4 DEF WellFormed, Wanted, NamedIn
<1>8. QED
  BY <1>1, <1>2, <1>3, <1>4, <1>5, <1>6, <1>7 DEF WellFormed

LEMMA LookupCreatedKeeps ==
    ASSUME DirAssumption, TreeAssumption, DirInv, LookupCreated
    PROVE  DirInv'
<1>1. /\ At("create") /\ call.fn = "dir_lookup"
      /\ found' = [name |-> call.name, rec |-> call.rec, status |-> "success"]
      /\ call' = NULL /\ UNCHANGED <<dir, pos, iter, at>>
  BY DEF LookupCreated
<1>2. /\ call # NULL /\ AtEntry(View, call, pos, at) /\ WellFormed(View)
      /\ CallHolds(View, call, pos, at, tree, iter)
      /\ Wanted(View, call, pos) \subseteq View.ids /\ at \in Nat
      /\ \A id \in View.ids : View.place[id] \in Nat
  BY <1>1, CallAtEntry, TreeAssumption, DirAssumption
<1>3. Wanted(View, call, pos) = NamedIn(View, call.name)
  BY <1>1 DEF Wanted
<1>4. call.rec \in NamedIn(View, call.name)
  BY <1>2, <1>3 DEF AtEntry
<1>5. ASSUME NEW id \in NamedIn(View, call.name) PROVE call.rec <= id
  <2>1. id \in View.ids /\ call.rec \in View.ids
    BY <1>2, <1>3, <1>4, <1>5
  <2>2. id = call.rec \/ View.place[call.rec] < View.place[id]
    <3>1. id = call.rec \/ at <= View.place[id]
      BY <1>2, <1>3, <1>5 DEF AtEntry
    <3>2. View.place[call.rec] < at
      BY <1>2 DEF AtEntry
    <3>3. View.place[id] \in Nat /\ View.place[call.rec] \in Nat /\ at \in Nat
      BY <1>2, <2>1
    <3>4. QED
      BY ONLY <3>1, <3>2, <3>3
  <2>3. id = call.rec \/ call.rec < id
    BY <1>2, <2>1, <2>2 DEF WellFormed
  <2>4. id \in Nat /\ call.rec \in Nat
    BY <1>2, <2>1 DEF WellFormed
  <2>5. QED
    BY ONLY <2>3, <2>4
<1>6. FoundHolds(View, found')
  <2>1. found'.name = call.name /\ found'.rec = call.rec /\ found'.status = "success"
    BY <1>1
  <2>2. QED
    BY <1>4, <1>5, <2>1 DEF FoundHolds
<1>7. iter = NULL
  BY <1>1, <1>2 DEF CallHolds
<1>8. StateHolds(View, call', pos', at', tree', iter', found')
  BY <1>1, <1>6, <1>7 DEF DirInv, StateHolds
<1>9. QED
  BY <1>1, <1>8, DirInvNext

LEMMA DirReadCreatedKeeps ==
    ASSUME DirAssumption, TreeAssumption, DirInv, DirReadCreated
    PROVE  DirInv'
<1>1. /\ At("create") /\ call.fn = "dir_read" /\ pos' = at
      /\ call' = [call EXCEPT !.pc = IF On("reiserfs") THEN "fill" ELSE "info"]
      /\ UNCHANGED <<dir, iter, at, found>>
  BY DEF DirReadCreated
<1>2. /\ call # NULL /\ call \in Calls /\ AtEntry(View, call, pos, at) /\ WellFormed(View)
      /\ CallHolds(View, call, pos, at, tree, iter) /\ PendingOf(call) = {}
      /\ pos \in Nat /\ at \in Nat /\ at \in View.positions
      /\ \A id \in View.ids : View.place[id] \in Nat
  BY <1>1, CallAtEntry, TreeAssumption, DirAssumption
<1>3. Wanted(View, call, pos) = {id \in View.visible : View.place[id] >= pos}
  BY <1>1 DEF Wanted
<1>4. /\ call.rec \in View.visible /\ pos <= View.place[call.rec] /\ View.place[call.rec] < at
  <2>1. call.rec \in View.visible /\ View.place[call.rec] >= pos /\ View.place[call.rec] < at
    BY <1>2, <1>3 DEF AtEntry
  <2>2. call.rec \in View.ids
    BY <1>2, <2>1 DEF WellFormed
  <2>3. QED
    BY <1>2, <2>1, <2>2
<1>5. \A id \in View.visible : pos <= View.place[id] => id = call.rec \/ at <= View.place[id]
  <2>1. ASSUME NEW id \in View.visible, pos <= View.place[id]
        PROVE  id = call.rec \/ at <= View.place[id]
    <3>1. id \in View.ids
      BY <1>2 DEF WellFormed
    <3>2. View.place[id] >= pos
      BY <1>2, <2>1, <3>1
    <3>3. id \in Wanted(View, call, pos)
      BY <1>3, <3>2
    <3>4. QED
      BY <1>2, <3>3 DEF AtEntry
  <2>2. QED
    BY <2>1
<1>6. iter # NULL /\ iter.status = "success"
  BY <1>1, <1>2 DEF CallHolds
<1>7. ListHolds(View, iter, {}, pos)
  BY <1>2, <1>6 DEF DirInv, StateHolds
<1>8. ListHolds(View, iter, {call.rec}, at)
  BY <1>2, <1>4, <1>5, <1>6, <1>7, ListAdvances
<1>9. /\ call' \in Calls /\ call'.rec = call.rec /\ call'.fn = "dir_read"
      /\ call'.pc \in {"fill", "info"}
  BY <1>1, <1>2 DEF Calls
<1>10. PendingOf(call') = {call.rec}
  BY <1>9, CallIsNotNull, DirAssumption DEF PendingOf
<1>11. CallHolds(View, call', pos', at', tree', iter')
  BY <1>1, <1>6, <1>9 DEF CallHolds
<1>12. StateHolds(View, call', pos', at', tree', iter', found')
  BY <1>1, <1>2, <1>8, <1>10, <1>11 DEF DirInv, StateHolds
<1>13. QED
  BY <1>1, <1>12, DirInvNext

(* The dnode is filled, now or before. *)
LEMMA FilledKeeps ==
    ASSUME DirAssumption, DirInv, Filled \/ FilledBefore
    PROVE  DirInv'
<1>1. /\ call # NULL /\ call.pc = "fill" /\ call' = [call EXCEPT !.pc = "info"]
      /\ UNCHANGED <<dir, pos, iter, at, found>>
  BY DEF Filled, FilledBefore, AtItemFound, At
<1>2. call \in Calls /\ CallHolds(View, call, pos, at, tree, iter) /\ call.fn = "dir_read"
  BY <1>1, CallAtHand DEF CallHolds
<1>3. call' \in Calls /\ call'.rec = call.rec /\ call'.fn = "dir_read" /\ call'.pc = "info"
  BY <1>1, <1>2 DEF Calls
<1>4. PendingOf(call') = {call.rec} /\ PendingOf(call) = {call.rec}
  BY <1>1, <1>3, CallIsNotNull, DirAssumption DEF PendingOf
<1>5. CallHolds(View, call', pos, at, tree', iter)
  BY <1>2, <1>3 DEF CallHolds
<1>6. StateHolds(View, call', pos', at', tree', iter', found')
  BY <1>1, <1>4, <1>5 DEF DirInv, StateHolds
<1>7. QED
  BY <1>1, <1>6, DirInvNext

LEMMA CallAtInfo ==
    ASSUME DirAssumption, TreeAssumption, DirInv, At("info")
    PROVE  /\ call # NULL /\ call \in Calls /\ iter # NULL /\ iter.status = "success"
           /\ ListHolds(View, iter, {call.rec}, pos)
           /\ View.shown[call.rec] = Shown(call.rec) /\ Shown(call.rec).info \in Nat
           /\ WellFormed(View) /\ pos \in View.positions /\ pos \in Nat
<1>1. call # NULL /\ call.pc = "info"
  BY DEF At
<1>2. /\ call \in Calls /\ CallHolds(View, call, pos, at, tree, iter)
      /\ pos \in View.positions /\ dir \in DOMAIN Dirs
  BY <1>1, CallAtHand
<1>3. iter # NULL /\ iter.status = "success"
  BY <1>1, <1>2 DEF CallHolds
<1>4. PendingOf(call) = {call.rec}
  BY <1>1 DEF PendingOf
<1>5. ListHolds(View, iter, {call.rec}, pos)
  BY <1>3, <1>4 DEF DirInv, StateHolds
<1>6. WellFormed(View)
  BY <1>2, ViewIsWellFormed, TreeAssumption, DirAssumption
<1>7. call.rec \in View.ids
  BY <1>5, <1>6 DEF ListHolds, WellFormed
<1>8. View.shown[call.rec] = Shown(call.rec)
  BY <1>7, ViewFields
<1>9. View.shown[call.rec].info \in Nat
  BY <1>6, <1>7 DEF WellFormed
<1>10. pos \in Nat
  BY <1>2, <1>6 DEF WellFormed
<1>11. QED
  BY <1>1, <1>2, <1>3, <1>5, <1>6, <1>8, <1>9, <1>10

LEMMA FileInfoKeeps ==
    ASSUME DirAssumption, TreeAssumption, DirInv, FileInfo
    PROVE  DirInv'
<1> DEFINE r == call.rec
<1>1. /\ At("info") /\ call' = NULL /\ UNCHANGED <<dir, pos, at, tree, found>>
      /\ iter' = [iter EXCEPT !.buffer = FirstBuffer, !.tries = 0,
                              !.seen = IF Accepted(Shown(r)) THEN Append(@, r) ELSE @]
  BY DEF FileInfo
<1>2. /\ call \in Calls /\ iter.status = "success" /\ ListHolds(View, iter, {r}, pos)
      /\ View.shown[r] = Shown(r) /\ WellFormed(View) /\ pos \in View.positions /\ pos \in Nat
  BY <1>1, CallAtInfo, TreeAssumption, DirAssumption
<1>3. r \in Nat
  BY <1>2 DEF Calls
<1>4. Accepted(Shown(r)) <=> Takes(iter, View.shown[r])
  BY <1>2 DEF Accepted, Takes
<1>5. iter' = [iter EXCEPT !.buffer = FirstBuffer, !.tries = 0,
                           !.seen = IF Takes(iter, View.shown[r]) THEN Append(@, r) ELSE @]
  BY <1>1, <1>4
<1> HIDE DEF r
<1>6. ListHolds(View, iter', {}, pos)
  BY ONLY <1>2, <1>3, <1>5, ListTakes, DirAssumption
<1>7. PendingOf(call') = {}
  BY <1>1 DEF PendingOf
<1>8. StateHolds(View, call', pos', at', tree', iter', found')
  BY <1>1, <1>2, <1>6, <1>7 DEF DirInv, StateHolds
<1>9. QED
  BY <1>1, <1>8, DirInvNext

LEMMA FileInfoTooSmallKeeps ==
    ASSUME DirAssumption, TreeAssumption, DirInv, FileInfoTooSmall
    PROVE  DirInv'
<1> DEFINE r == call.rec
           larger == Shown(r).info
<1>1. /\ At("info") /\ larger > iter.buffer
      /\ call' = NULL /\ UNCHANGED <<dir, pos, at, tree, found>>
      /\ iter' = IF iter.tries >= MaxTries
                 THEN [iter EXCEPT !.status = "error"]
                 ELSE [iter EXCEPT !.buffer = larger, !.tries = @ + 1]
  BY DEF FileInfoTooSmall, InfoTooSmall
<1>2. /\ iter.status = "success" /\ ListHolds(View, iter, {r}, pos)
      /\ View.shown[r] = Shown(r) /\ larger \in Nat
      /\ WellFormed(View) /\ pos \in View.positions /\ pos \in Nat
  BY <1>1, CallAtInfo, TreeAssumption, DirAssumption
<1>3. iter \in Iters /\ FirstBuffer <= iter.buffer /\ FirstBuffer \in Nat
  BY <1>2, DirAssumption DEF ListHolds, DirAssumption
<1>4. iter.buffer \in Nat /\ iter.tries \in Nat
  BY <1>3 DEF Iters
<1> HIDE DEF larger
<1>5. /\ iter' \in Iters /\ iter'.seen = iter.seen /\ iter'.from = iter.from
      /\ iter'.filter = iter.filter /\ iter'.pattern = iter.pattern /\ iter'.status # "end"
      /\ FirstBuffer <= iter'.buffer
  <2>1. CASE iter.tries >= MaxTries
    <3>1. iter' = [iter EXCEPT !.status = "error"]
      BY <1>1, <2>1
    <3>2. QED
      BY <1>3, <3>1 DEF Iters
  <2>2. CASE ~(iter.tries >= MaxTries)
    <3>1. iter' = [iter EXCEPT !.buffer = larger, !.tries = @ + 1]
      BY <1>1, <2>2
    <3>2. /\ iter' \in Iters /\ iter'.seen = iter.seen /\ iter'.from = iter.from
          /\ iter'.filter = iter.filter /\ iter'.pattern = iter.pattern
          /\ iter'.status = iter.status /\ iter'.buffer = larger
      <4> DEFINE more == iter.tries + 1
      <4>1. more \in Nat /\ iter' = [iter EXCEPT !.buffer = larger, !.tries = more]
        BY <1>4, <3>1
      <4> HIDE DEF more
      <4>2. QED
        BY ONLY <1>2, <1>3, <4>1 DEF Iters
    <3>3. FirstBuffer <= larger
      BY <1>1, <1>2, <1>3, <1>4
    <3>4. QED
      BY <1>2, <3>2, <3>3
  <2>3. QED
    BY <2>1, <2>2
<1>6. iter.buffer < View.shown[r].info
  BY <1>1, <1>2, <1>4 DEF larger
<1> HIDE DEF r
<1>7. ListHolds(View, iter', {}, pos)
  BY ONLY <1>2, <1>5, <1>6, ListDrops, DirAssumption
<1>8. PendingOf(call') = {}
  BY <1>1 DEF PendingOf
<1>9. StateHolds(View, call', pos', at', tree', iter', found')
  BY <1>1, <1>2, <1>7, <1>8 DEF DirInv, StateHolds
<1>10. QED
  BY <1>1, <1>9, DirInvNext

LEMMA FailuresKeep ==
    ASSUME DirAssumption, TreeAssumption, DirInv,
           \/ ReadFails \/ Unsound \/ NoItem \/ EmptyDirectory \/ CreateFails \/ FillFails
    PROVE  DirInv'
<1>1. ASSUME call # NULL, Fail("error") PROVE DirInv'
  BY <1>1, FailKeeps, TreeAssumption, DirAssumption
<1>2. ASSUME At("item"), Wanted(View, call, pos) = {}, Fail("end") PROVE DirInv'
  <2>1. call # NULL /\ call.pc \in Waits
    BY <1>2 DEF At, Waits
  <2>2. QED
    BY <1>2, <2>1, FailKeeps, TreeAssumption, DirAssumption
<1>3. CASE ReadFails \/ Unsound \/ CreateFails \/ FillFails
  BY <1>1, <1>3 DEF ReadFails, Unsound, CreateFails, FillFails, AtRecord, AtItemFound, At
<1>4. CASE EmptyDirectory
  <2>1. At("item") /\ tree.pc = "found" /\ AtItem(tree).key[3] = 0 /\ Fail("end")
    BY <1>4 DEF EmptyDirectory, AtItemFound
  <2>2. QED
    BY <1>2, <2>1, NothingWanted, TreeAssumption, DirAssumption
<1>5. CASE NoItem
  <2>2. CASE At("item") /\ tree.pc = "none"
    <3>1. Fail("end")
      BY <1>5, <2>2, Zenon DEF NoItem
    <3>2. Wanted(View, call, pos) = {}
      BY <2>2, NothingWanted, TreeAssumption, DirAssumption
    <3>3. QED
      BY <1>2, <2>2, <3>1, <3>2
  <2>3. CASE ~(At("item") /\ tree.pc = "none")
    <3>1. call # NULL
      BY <1>5 DEF NoItem, At
    <3>2. Fail("error")
      BY <1>5, <2>3, Zenon DEF NoItem
    <3>3. QED
      BY <1>1, <3>1, <3>2
  <2>4. QED
    BY <2>2, <2>3
<1>6. QED
  BY <1>3, <1>4, <1>5

------------------------------------------------------------------------------
(* The theorems.                                                              *)

(* In every state the readers know where they are: what a call wants lies at  *)
(* or behind the record or item at hand, and a listing has seen what is due   *)
(* of the entries its handle has passed.                                      *)
THEOREM DirReadInvariant == Spec => []DirInv
<1> USE DirAssumption, TreeAssumption, SearchTreeAssumption
<1>1. Init => DirInv
  <2> SUFFICES ASSUME Init PROVE DirInv
    OBVIOUS
  <2>1. /\ dir \in DOMAIN Dirs /\ pos = 0 /\ call = NULL /\ iter = NULL /\ found = NULL
    BY DEF Init
  <2>2. WellFormed(View)
    BY <2>1, ViewIsWellFormed
  <2>3. pos \in View.positions
    BY <2>1, <2>2 DEF WellFormed
  <2>4. QED
    BY <2>1, <2>3 DEF DirInv, StateHolds
<1>2. DirInv /\ [Next]_vars => DirInv'
  <2> SUFFICES ASSUME DirInv, [Next]_vars PROVE DirInv'
    OBVIOUS
  <2>1. CASE Step
    <3>1. CASE DirRead
      BY <3>1, DirReadKeeps
    <3>2. CASE EndOfDirectory
      BY <3>2, EndOfDirectoryKeeps
    <3>3. CASE ReadFails \/ Unsound \/ NoItem \/ EmptyDirectory \/ CreateFails \/ FillFails
      BY <3>3, FailuresKeep
    <3>4. CASE SkipUnused
      BY <3>4, SkipUnusedKeeps
    <3>5. CASE ReadHeader
      BY <3>5, ReadHeaderKeeps
    <3>6. CASE ReadName
      BY <3>6, ReadNameKeeps
    <3>7. CASE TreeWalk
      BY <3>7, TreeWalkKeeps
    <3>8. CASE Entry
      BY <3>8, EntryKeeps
    <3>9. CASE NoEntryInItem
      BY <3>9, NoEntryInItemKeeps
    <3>10. CASE LookupCreated
      BY <3>10, LookupCreatedKeeps
    <3>11. CASE DirReadCreated
      BY <3>11, DirReadCreatedKeeps
    <3>12. CASE Filled \/ FilledBefore
      BY <3>12, FilledKeeps
    <3>13. CASE FileInfoTooSmall
      BY <3>13, FileInfoTooSmallKeeps
    <3>14. CASE FileInfo
      BY <3>14, FileInfoKeeps
    <3>15. QED
      BY <2>1, <3>1, <3>2, <3>3, <3>4, <3>5, <3>6, <3>7, <3>8, <3>9, <3>10, <3>11, <3>12,
         <3>13, <3>14 DEF Step
  <2>2. CASE Client
    <3>1. ASSUME NEW path \in BOOLEAN, NEW filter \in Filters, NEW pattern \in Patterns,
                 IterOpen(path, filter, pattern)
          PROVE  DirInv'
      BY <3>1, IterOpenKeeps
    <3>2. CASE IterClose
      BY <3>2, IterCloseKeeps
    <3>3. ASSUME NEW name \in Names, Lookup(name)
          PROVE  DirInv'
      BY <3>3, LookupKeeps
    <3>4. QED
      BY <2>2, <3>1, <3>2, <3>3 DEF Client
  <2>3. CASE UNCHANGED vars
    <3>1. UNCHANGED <<dir, pos, iter, call, at, tree, found>>
      BY <2>3 DEF vars
    <3>2. StateHolds(View, call', pos', at', tree', iter', found')
      BY <3>1 DEF DirInv
    <3>3. QED
      BY <3>1, <3>2, DirInvNext
  <2>4. QED
    BY <2>1, <2>2, <2>3 DEF Next
<1>3. QED
  BY <1>1, <1>2, PTL DEF Spec

(* A listing that ends without an error has shown every entry it is to show,  *)
(* in order and once, but for those whose file info did not fit the first     *)
(* buffer, and none it is not to show (refit/lib.c DirIterNext and below).    *)
THEOREM DirListsAll == Spec => []ListingIsComplete
<1> USE DirAssumption, TreeAssumption, SearchTreeAssumption
<1>1. DirInv => ListingIsComplete
  <2> SUFFICES ASSUME DirInv, iter # NULL, iter.status = "end"
               PROVE  /\ \A i, j \in DOMAIN iter.seen : i < j => iter.seen[i] < iter.seen[j]
                      /\ ToSet(iter.seen) \subseteq Listed
                      /\ {id \in Listed : Shown(id).info <= FirstBuffer} \subseteq ToSet(iter.seen)
    BY DEF ListingIsComplete
  <2> DEFINE due == Due(View, iter, pos)
  <2>1. ListHolds(View, iter, PendingOf(call), pos) /\ dir \in DOMAIN Dirs
        /\ pos \in View.positions
    BY DEF DirInv, StateHolds
  <2>2. PendingOf(call) = {} /\ \A id \in View.visible : View.place[id] < pos
    BY <2>1 DEF ListHolds
  <2>3. WellFormed(View)
    BY <2>1, ViewIsWellFormed
  <2>4. iter.from \in Nat
    BY <2>1 DEF ListHolds, Iters
  <2>5. due = Listed
    <3>1. ASSUME NEW id \in View.visible
          PROVE  (iter.from <= View.place[id] /\ View.place[id] < pos
                    /\ Takes(iter, View.shown[id]))
                 <=> (Place(id) >= iter.from /\ Accepted(Shown(id)))
      <4>1. id \in Reachable /\ View.place[id] = Place(id) /\ View.shown[id] = Shown(id)
        BY ViewFields
      <4>2. View.place[id] \in Nat /\ View.place[id] < pos
        BY <2>2, <2>3 DEF WellFormed
      <4>3. Takes(iter, View.shown[id]) <=> Accepted(Shown(id))
        BY <4>1 DEF Takes, Accepted
      <4>4. iter.from <= View.place[id] <=> Place(id) >= iter.from
        BY <2>4, <4>1, <4>2
      <4>5. QED
        BY <4>2, <4>3, <4>4
    <3>2. View.visible = {id \in Reachable : Visible(id)}
      BY ViewFields
    <3>3. Listed = {id \in View.visible : Place(id) >= iter.from /\ Accepted(Shown(id))}
      BY <3>2 DEF Listed
    <3>4. QED
      BY <3>1, <3>3 DEF Due
  <2>6. \A id \in Listed : View.shown[id] = Shown(id)
    BY ViewFields DEF Listed
  <2>7. /\ \A i, j \in DOMAIN iter.seen : i < j => iter.seen[i] < iter.seen[j]
        /\ ToSet(iter.seen) \subseteq due
        /\ {id \in due : View.shown[id].info <= FirstBuffer} \subseteq ToSet(iter.seen)
    <3>1. due \ PendingOf(call) = due
      BY <2>2
    <3> HIDE DEF due
    <3>2. QED
      BY <2>1, <3>1 DEF ListHolds, due
  <2> HIDE DEF due
  <2>8. QED
    BY <2>5, <2>6, <2>7
<1>2. QED
  BY <1>1, DirReadInvariant, PTL

(* A lookup that succeeds has found the first entry of its name, and one that *)
(* finds nothing has passed none (the drivers' dir_lookup).                   *)
THEOREM DirLookupIsRight == Spec => []LookupIsRight
<1>1. DirInv => LookupIsRight
  <2> SUFFICES ASSUME DirInv, found # NULL
               PROVE  /\ found.status = "success" =>
                             /\ found.rec \in Named(found.name)
                             /\ \A id \in Named(found.name) : found.rec <= id
                      /\ found.status = "end" => Named(found.name) = {}
    BY DEF LookupIsRight
  <2>1. FoundHolds(View, found)
    BY DEF DirInv, StateHolds
  <2>2. NamedIn(View, found.name) = Named(found.name)
    <3>1. View.ids = Reachable /\ \A id \in Reachable : View.shown[id] = Shown(id)
      BY ViewFields
    <3>2. QED
      BY <3>1 DEF NamedIn, Named
  <2>3. QED
    BY <2>1, <2>2 DEF FoundHolds
<1>2. QED
  BY <1>1, DirReadInvariant, PTL

================================================================================
