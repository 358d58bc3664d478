-------------------------------- MODULE FswDnode --------------------------------
(***************************************************************************)
(* The dnodes of a mounted volume: reference-counted objects, one per file  *)
(* system object, each holding a reference to the directory it was found    *)
(* in (fsw/fsw_core.c), and the EFI file handles that use them              *)
(* (fsw/fsw_efi.c). fsw_dnode_lookup_path and fsw_dnode_resolve call each   *)
(* other; the calls in progress are an explicit stack, so that every read   *)
(* that may fail and every release happens in the order of the code.        *)
(***************************************************************************)
EXTENDS Naturals, Sequences, FiniteSets, SequencesExt, FiniteSetsExt

CONSTANTS
    Ids, Root,     \* dnode ids on the disk and the root directory's
    Kind,          \* Kind[id]: "dir", "file", "symlink" or "special"
    Dir,           \* Dir[id]: the entries of a directory, a sequence of
                   \* [name, id] without "." and ".."
    Target,        \* Target[id]: the path a symlink holds
    Paths,         \* paths clients open
    Addr,          \* bound: room for this many dnodes
    Files,         \* bound: FSW_FILE_DATA structures clients hold
    MaxLeaks,      \* bound: lost references before clients stop calling
    NamesMayFail,  \* whether memory for a dnode's name may run out
    NULL

ASSUME DiskAssumption ==
    /\ Root \in Ids /\ Kind[Root] = "dir"
    /\ \A id \in Ids : Kind[id] \in {"dir", "file", "symlink", "special"}
    /\ \A id \in Ids : Kind[id] = "dir" => Dir[id] \in Seq([name : STRING, id : Ids])
    /\ \A id \in Ids : Kind[id] = "symlink" => Target[id] \in Seq(STRING)
    /\ Paths \subseteq Seq(STRING)

ASSUME BoundsAssumption ==
    /\ Addr # {} /\ NULL \notin Addr
    /\ IsFiniteSet(Addr) /\ IsFiniteSet(Files)
    /\ NULL \notin [dnode : Addr, pos : Nat]
    /\ MaxLeaks \in Nat /\ NamesMayFail \in BOOLEAN

VARIABLES
    heap,       \* heap[a]: the dnode at address a, or Free
    dnode_head, \* addresses on the volume's list (its order does not matter
                \* as ids are unique)
    root,       \* vol->root
    files,      \* files[f]: the open handle [dnode, pos], or NULL
    stack,      \* calls in progress, innermost last
    ret,        \* what the call that just returned handed back
    drop,       \* the dnode fsw_dnode_release is working on, or NULL
    leaked      \* ghost: references nobody will ever give back, per address

vars == <<heap, dnode_head, root, files, stack, ret, drop, leaked>>

Dnode == [dnode_id : Ids, parent : Addr \union {NULL}, refcount : Nat, filled : BOOLEAN]

(* What is known of memory that no dnode occupies: nobody counts on it.     *)
Free == [dnode_id |-> Root, parent |-> NULL, refcount |-> 0, filled |-> FALSE]

Nothing   == [st |-> "none",  dno |-> NULL]
Error     == [st |-> "error", dno |-> NULL]
Found(a)  == [st |-> "ok",    dno |-> a]

(* A path is the sequence of its components: "a//b" is <<"a", "", "b">>,    *)
(* "/a" is <<"", "a">>, and fsw_strsplit drops one trailing separator.      *)
PathCall(a, path) == [fn |-> "lookup_path", dno |-> a, rest |-> path, first |-> TRUE]
ResolveCall(a)    == [fn |-> "resolve", dno |-> a]
OpenCall(f, dir, path) == [fn |-> "dir_open", dno |-> NULL, pc |-> "lookup",
                           file |-> f, from |-> dir, path |-> path]

Live      == {a \in Addr : heap[a].refcount > 0}
KindAt(a) == Kind[heap[a].dnode_id]
Handles   == {f \in Files : files[f] # NULL}
FreeAddr  == CHOOSE a \in Addr : a \notin Live

RootDnode == [dnode_id |-> Root, parent |-> NULL, refcount |-> 1, filled |-> FALSE]

(* Nothing is mounted yet. *)
Init == /\ heap = [a \in Addr |-> Free]
        /\ dnode_head = {}
        /\ root = NULL
        /\ files = [f \in Files |-> NULL]
        /\ stack = <<>>
        /\ ret = Nothing
        /\ drop = NULL
        /\ leaked = [a \in Addr |-> 0]

------------------------------------------------------------------------------
(* Retaining, filling, creating and releasing a dnode.                      *)

Retain(h, a) == [h EXCEPT ![a].refcount = @ + 1]

Fill(h, a) == [h EXCEPT ![a].filled = TRUE]

(* The driver reads the inode only once: after that dnode_fill succeeds.    *)
FillMayFail(a) == ~heap[a].filled

(* Seeded fault: the list of known dnodes is not searched. *)
NeverKnown(id) == {}

Known(id) == {a \in dnode_head : heap[a].dnode_id = id}

(* Seeded fault: the new dnode does not retain its parent. *)
CreateUnparented(h, parent, id, a) ==
    [h EXCEPT ![a] = [dnode_id |-> id, parent |-> parent, refcount |-> 1, filled |-> FALSE]]

(* fsw_dnode_create, once it has memory at address a. *)
Create(h, parent, id, a) ==
    [Retain(h, parent) EXCEPT ![a] = [dnode_id |-> id, parent |-> parent,
                                      refcount |-> 1, filled |-> FALSE]]

(* Seeded fault: the parent of a freed dnode is not released. *)
ReleaseKeepsParent ==
    /\ drop # NULL
    /\ IF heap[drop].refcount > 1
       THEN /\ heap' = [heap EXCEPT ![drop].refcount = @ - 1]
            /\ UNCHANGED dnode_head
       ELSE /\ heap' = [heap EXCEPT ![drop] = Free]
            /\ dnode_head' = dnode_head \ {drop}
    /\ drop' = NULL
    /\ UNCHANGED <<root, files, stack, ret, leaked>>

(* One level of fsw_dnode_release; the recursion on the parent is the next  *)
(* step.                                                                    *)
Release ==
    /\ drop # NULL
    /\ IF heap[drop].refcount > 1
       THEN /\ heap' = [heap EXCEPT ![drop].refcount = @ - 1]
            /\ drop' = NULL
            /\ UNCHANGED <<dnode_head, leaked>>
       ELSE /\ heap' = [heap EXCEPT ![drop] = Free]
            /\ dnode_head' = dnode_head \ {drop}
            /\ drop' = heap[drop].parent
            /\ UNCHANGED leaked
    /\ UNCHANGED <<root, files, stack, ret>>

------------------------------------------------------------------------------
(* The innermost call. *)

Top      == Last(stack)
Running(fn) == drop = NULL /\ stack # <<>> /\ Top.fn = fn
Caller   == Front(stack)
WithTop(frame) == Append(Caller, frame)

(* The innermost call gives up its dnode and fails (label errorexit). *)
FailTop == /\ drop' = Top.dno
           /\ stack' = Caller
           /\ ret' = Error

(* It moves on from its dnode to a, which it already holds. *)
MoveTo(frame, a) == /\ drop' = Top.dno
                    /\ stack' = WithTop([frame EXCEPT !.dno = a])
                    /\ ret' = Nothing

------------------------------------------------------------------------------
(* fsw_dnode_lookup_path: one turn of its loop per component.               *)

InPath == Running("lookup_path") /\ ret = Nothing
AtName == InPath /\ Top.rest # <<>> /\ Head(Top.rest) # ""
NextComponent == [Top EXCEPT !.rest = Tail(@), !.first = FALSE]

PathDone ==
    /\ InPath /\ Top.rest = <<>>
    /\ stack' = Caller
    /\ ret' = Found(Top.dno)
    /\ UNCHANGED <<heap, dnode_head, root, files, drop, leaked>>

(* Seeded fault: an empty component is not taken off the path. *)
PathEmptyComponentStays ==
    /\ InPath /\ Top.rest # <<>> /\ Head(Top.rest) = ""
    /\ LET child == IF Top.first THEN root ELSE Top.dno IN
       /\ heap' = Retain(heap, child)
       /\ MoveTo(Top, child)
    /\ UNCHANGED <<dnode_head, root, files, leaked>>

PathEmptyComponent ==
    /\ InPath /\ Top.rest # <<>> /\ Head(Top.rest) = ""
    /\ LET child == IF Top.first THEN root ELSE Top.dno IN
       /\ heap' = Retain(heap, child)
       /\ MoveTo(NextComponent, child)
    /\ UNCHANGED <<dnode_head, root, files, leaked>>

PathFillFails ==
    /\ AtName /\ FillMayFail(Top.dno)
    /\ FailTop
    /\ UNCHANGED <<heap, dnode_head, root, files, leaked>>

PathSymlink ==
    /\ AtName /\ KindAt(Top.dno) = "symlink"
    /\ heap' = Retain(Fill(heap, Top.dno), Top.dno)
    /\ stack' = Append(stack, ResolveCall(Top.dno))
    /\ UNCHANGED <<dnode_head, root, files, ret, drop, leaked>>

PathSymlinkResolved ==
    /\ Running("lookup_path") /\ ret.st = "ok"
    /\ MoveTo(Top, ret.dno)
    /\ UNCHANGED <<heap, dnode_head, root, files, leaked>>

PathSymlinkFails ==
    /\ Running("lookup_path") /\ ret = Error
    /\ FailTop
    /\ UNCHANGED <<heap, dnode_head, root, files, leaked>>

(* A component below something that is no directory: the code returns       *)
(* directly, ahead of its goto errorexit, and keeps its reference.          *)
PathNotDirectory ==
    /\ AtName /\ KindAt(Top.dno) \in {"file", "special"}
    /\ heap' = Fill(heap, Top.dno)
    /\ leaked' = [leaked EXCEPT ![Top.dno] = @ + 1]
    /\ stack' = Caller
    /\ ret' = Error
    /\ UNCHANGED <<dnode_head, root, files, drop>>

AtDirectory == AtName /\ KindAt(Top.dno) = "dir"

(* "." and "..": the root has no parent, and the lookup of ".." fails there. *)
PathSpecialName ==
    /\ AtDirectory /\ Head(Top.rest) \in {".", ".."}
    /\ LET child == IF Head(Top.rest) = "." THEN Top.dno ELSE heap[Top.dno].parent IN
       IF child = NULL
       THEN /\ heap' = Fill(heap, Top.dno)
            /\ FailTop
       ELSE /\ heap' = Retain(Fill(heap, Top.dno), child)
            /\ MoveTo(NextComponent, child)
    /\ UNCHANGED <<dnode_head, root, files, leaked>>

Named(id, name) == {i \in DOMAIN Dir[id] : Dir[id][i].name = name}

(* The entry is not there, or the directory's data cannot be read. *)
PathLookupFails ==
    /\ AtDirectory /\ Head(Top.rest) \notin {".", ".."}
    /\ heap' = Fill(heap, Top.dno)
    /\ FailTop
    /\ UNCHANGED <<dnode_head, root, files, leaked>>

(* The entry is found and fsw_dnode_create returns its dnode. *)
PathLookup ==
    /\ AtDirectory /\ Head(Top.rest) \notin {".", ".."}
    /\ \E i \in Named(heap[Top.dno].dnode_id, Head(Top.rest)) :
       LET id == Dir[heap[Top.dno].dnode_id][i].id IN
       \/ \E a \in Known(id) :
             /\ heap' = Retain(Fill(heap, Top.dno), a)
             /\ MoveTo(NextComponent, a)
             /\ UNCHANGED dnode_head
       \/ /\ Known(id) = {} /\ Live # Addr
          /\ LET a == FreeAddr IN
             /\ heap' = Create(Fill(heap, Top.dno), Top.dno, id, a)
             /\ dnode_head' = dnode_head \union {a}
             /\ MoveTo(NextComponent, a)
    /\ UNCHANGED <<root, files, leaked>>

(* fsw_dnode_create retains the parent before it copies the name; when the  *)
(* copy cannot be allocated it frees the new dnode and keeps that reference. *)
PathNameAllocFails ==
    /\ NamesMayFail /\ AtDirectory /\ Head(Top.rest) \notin {".", ".."}
    /\ \E i \in Named(heap[Top.dno].dnode_id, Head(Top.rest)) :
          Known(Dir[heap[Top.dno].dnode_id][i].id) = {}
    /\ Live # Addr
    /\ heap' = Retain(Fill(heap, Top.dno), Top.dno)
    /\ leaked' = [leaked EXCEPT ![Top.dno] = @ + 1]
    /\ FailTop
    /\ UNCHANGED <<dnode_head, root, files>>

LookupPath ==
    \/ PathDone \/ PathEmptyComponent \/ PathFillFails
    \/ PathSymlink \/ PathSymlinkResolved \/ PathSymlinkFails
    \/ PathNotDirectory \/ PathSpecialName
    \/ PathLookupFails \/ PathLookup \/ PathNameAllocFails

------------------------------------------------------------------------------
(* fsw_dnode_resolve: follow symlinks until something else is found.        *)

InResolve == Running("resolve") /\ ret = Nothing

ResolveDone ==
    /\ InResolve /\ KindAt(Top.dno) # "symlink"
    /\ heap' = Fill(heap, Top.dno)
    /\ stack' = Caller
    /\ ret' = Found(Top.dno)
    /\ UNCHANGED <<dnode_head, root, files, drop, leaked>>

(* The inode of the dnode, or the target of a symlink, cannot be read. *)
ResolveReadFails ==
    /\ InResolve
    /\ FillMayFail(Top.dno) \/ KindAt(Top.dno) = "symlink"
    /\ FailTop
    /\ UNCHANGED <<heap, dnode_head, root, files, leaked>>

(* Seeded fault: a relative target is looked up from the root. *)
ResolveFromRoot ==
    /\ InResolve /\ KindAt(Top.dno) = "symlink"
    /\ heap' = Retain(Fill(heap, Top.dno), root)
    /\ stack' = Append(stack, PathCall(root, Target[heap[Top.dno].dnode_id]))
    /\ UNCHANGED <<dnode_head, root, files, ret, drop, leaked>>

(* The target is looked up from the directory the symlink was found in. *)
ResolveFollow ==
    /\ InResolve /\ KindAt(Top.dno) = "symlink"
    /\ LET parent == heap[Top.dno].parent IN
       /\ parent # NULL
       /\ heap' = Retain(Fill(heap, Top.dno), parent)
       /\ stack' = Append(stack, PathCall(parent, Target[heap[Top.dno].dnode_id]))
    /\ UNCHANGED <<dnode_head, root, files, ret, drop, leaked>>

ResolveStepDone ==
    /\ Running("resolve") /\ ret.st = "ok"
    /\ MoveTo(Top, ret.dno)
    /\ UNCHANGED <<heap, dnode_head, root, files, leaked>>

ResolveFails ==
    /\ Running("resolve") /\ ret = Error
    /\ FailTop
    /\ UNCHANGED <<heap, dnode_head, root, files, leaked>>

Resolve == \/ ResolveDone \/ ResolveReadFails \/ ResolveFollow
           \/ ResolveStepDone \/ ResolveFails

------------------------------------------------------------------------------
(* The EFI host: file handles. Clients call it one call at a time.          *)

TotalLeaks == MapThenSumSet(LAMBDA a : leaked[a], Addr)

Idle  == stack = <<>> /\ drop = NULL /\ root # NULL
Calls == Idle /\ TotalLeaks < MaxLeaks

(* fsw_efi_FileSystem_OpenVolume. *)
OpenVolume(f) ==
    /\ Idle /\ files[f] = NULL
    /\ heap' = Retain(Fill(heap, root), root)
    /\ files' = [files EXCEPT ![f] = [dnode |-> root, pos |-> 0]]
    /\ UNCHANGED <<dnode_head, root, stack, ret, drop, leaked>>

(* fsw_efi_dir_open, on a directory handle: it looks the path up, ...       *)
Open(dir, f, path) ==
    /\ Calls /\ files[dir] # NULL /\ files[f] = NULL
    /\ KindAt(files[dir].dnode) = "dir"
    /\ heap' = Retain(heap, files[dir].dnode)
    /\ stack' = <<OpenCall(f, dir, path), PathCall(files[dir].dnode, path)>>
    /\ UNCHANGED <<dnode_head, root, files, ret, drop, leaked>>

(* ... resolves a symlink at its end, ...                                   *)
OpenLookedUp ==
    /\ Running("dir_open") /\ Top.pc = "lookup" /\ ret.st = "ok"
    /\ heap' = Retain(heap, ret.dno)
    /\ stack' = WithTop([Top EXCEPT !.dno = ret.dno, !.pc = "resolve"])
                  \o <<ResolveCall(ret.dno)>>
    /\ ret' = Nothing
    /\ UNCHANGED <<dnode_head, root, files, drop, leaked>>

OpenResolved ==
    /\ Running("dir_open") /\ Top.pc = "resolve" /\ ret.st = "ok"
    /\ MoveTo([Top EXCEPT !.pc = "handle"], ret.dno)
    /\ UNCHANGED <<heap, dnode_head, root, files, leaked>>

(* ... and opens a handle if the target is a file or a directory. Here too   *)
(* the result of AllocateZeroPool is used unchecked (fsw_efi.c:682), and      *)
(* there is no action for its failure.                                       *)
OpenHandle ==
    /\ Running("dir_open") /\ Top.pc = "handle"
    /\ IF KindAt(Top.dno) \in {"file", "dir"}
       THEN /\ heap' = Retain(heap, Top.dno)
            /\ files' = [files EXCEPT ![Top.file] = [dnode |-> Top.dno, pos |-> 0]]
       ELSE UNCHANGED <<heap, files>>
    /\ drop' = Top.dno
    /\ stack' = Caller
    /\ UNCHANGED <<dnode_head, root, ret, leaked>>

OpenFails ==
    /\ Running("dir_open") /\ ret = Error
    /\ drop' = Top.dno       \* NULL while the lookup has not returned a dnode
    /\ stack' = Caller
    /\ ret' = Nothing
    /\ UNCHANGED <<heap, dnode_head, root, files, leaked>>

DirOpen == OpenLookedUp \/ OpenResolved \/ OpenHandle \/ OpenFails

(* fsw_efi_FileHandle_Close. *)
Close(f) ==
    /\ Idle /\ files[f] # NULL
    /\ drop' = files[f].dnode
    /\ files' = [files EXCEPT ![f] = NULL]
    /\ UNCHANGED <<heap, dnode_head, root, stack, ret, leaked>>

(* fsw_efi_dir_read: the next entry's dnode is created, the position moves  *)
(* on, and the dnode is released, whether its information could be filled   *)
(* in, did not fit in the caller's buffer or could not be read.             *)
ReadEntry(f) ==
    /\ Idle /\ files[f] # NULL /\ KindAt(files[f].dnode) = "dir"
    /\ LET d == files[f].dnode
           id == heap[d].dnode_id
       IN /\ files[f].pos < Len(Dir[id])
          /\ LET child == Dir[id][files[f].pos + 1].id IN
             \/ \E a \in Known(child) :
                   /\ \/ heap' = Retain(Fill(heap, a), a)
                      \/ FillMayFail(a) /\ heap' = Retain(heap, a)
                   /\ drop' = a
                   /\ UNCHANGED dnode_head
             \/ /\ Known(child) = {} /\ Live # Addr
                /\ LET a == FreeAddr
                   IN /\ \/ heap' = Create(heap, d, child, a)
                         \/ heap' = Fill(Create(heap, d, child, a), a)
                      /\ drop' = a
                      /\ dnode_head' = dnode_head \union {a}
    /\ files' = [files EXCEPT ![f].pos = @ + 1]
    /\ UNCHANGED <<root, stack, ret, leaked>>

(* The same with no memory for the entry's name: the read fails and         *)
(* fsw_dnode_dir_read restores the position, but the directory keeps the    *)
(* reference the abandoned dnode had taken.                                 *)
ReadNameAllocFails(f) ==
    /\ NamesMayFail /\ Calls /\ files[f] # NULL /\ KindAt(files[f].dnode) = "dir"
    /\ LET d == files[f].dnode
           id == heap[d].dnode_id
       IN /\ files[f].pos < Len(Dir[id])
          /\ Known(Dir[id][files[f].pos + 1].id) = {}
          /\ heap' = Retain(heap, d)
          /\ leaked' = [leaked EXCEPT ![d] = @ + 1]
    /\ Live # Addr
    /\ UNCHANGED <<dnode_head, root, files, stack, ret, drop>>

(* fsw_efi_dir_setpos. *)
Rewind(f) ==
    /\ Idle /\ files[f] # NULL /\ KindAt(files[f].dnode) = "dir"
    /\ files' = [files EXCEPT ![f].pos = 0]
    /\ UNCHANGED <<heap, dnode_head, root, stack, ret, drop, leaked>>

(* fsw_unmount, called by fsw_efi_DriverBinding_Stop; its comment demands   *)
(* that all dnodes have been released.                                      *)
Unmount ==
    /\ Idle /\ Handles = {}
    /\ drop' = root
    /\ root' = NULL
    /\ UNCHANGED <<heap, dnode_head, files, stack, ret, leaked>>

(* The driver has mounted the volume, perhaps again: memory lost before     *)
(* stays lost.                                                              *)
Mount ==
    /\ root = NULL /\ drop = NULL
    /\ Live # Addr
    /\ LET a == FreeAddr IN
          /\ heap' = [heap EXCEPT ![a] = RootDnode]
          /\ dnode_head' = {a}
          /\ root' = a
    /\ UNCHANGED <<files, stack, ret, drop, leaked>>

Client == \/ \E f \in Files : \/ OpenVolume(f) \/ Close(f) \/ Rewind(f)
                              \/ ReadEntry(f) \/ ReadNameAllocFails(f)
          \/ \E dir, f \in Files, path \in Paths : Open(dir, f, path)

Host == Client \/ Unmount \/ Mount

Step == Release \/ LookupPath \/ Resolve \/ DirOpen

Next == Host \/ Step

Spec == Init /\ [][Next]_vars

------------------------------------------------------------------------------
(* Properties.                                                              *)

(* Every variable has its type: what each of the structures of fsw_core.h    *)
(* and fsw_efi.h and each frame of a call in progress may hold.             *)
PathFrame == [fn : {"lookup_path"}, dno : Addr, rest : Seq(STRING), first : BOOLEAN]
ResolveFrame == [fn : {"resolve"}, dno : Addr]
OpenFrame == [fn : {"dir_open"}, dno : {NULL}, pc : {"lookup"}, file : Files,
              from : Files, path : Paths]
               \union [fn : {"dir_open"}, dno : Addr, pc : {"resolve", "handle"},
                       file : Files, from : Files, path : Paths]
Frame == PathFrame \union ResolveFrame \union OpenFrame

TypeOK ==
    /\ heap \in [Addr -> Dnode]
    /\ dnode_head \subseteq Live
    /\ root \in Addr \union {NULL}
    /\ files \in [Files -> [dnode : Addr, pos : Nat] \union {NULL}]
    /\ stack \in Seq(Frame)
    /\ ret \in {Nothing, Error} \union {Found(a) : a \in Addr}
    /\ drop \in Addr \union {NULL}
    /\ leaked \in [Addr -> Nat]

(* Who holds a reference to a: its children, open file handles, the local   *)
(* variables of the calls in progress, the result being handed over, the    *)
(* volume, and whoever lost one.                                            *)
Holders(a) ==
    Cardinality({b \in Live : heap[b].parent = a})
      + Cardinality({f \in Handles : files[f].dnode = a})
      + Cardinality({i \in DOMAIN stack : stack[i].dno = a})
      + Cardinality({x \in {1} : ret.dno = a})
      + Cardinality({x \in {1} : drop = a})
      + Cardinality({x \in {1} : root = a})
      + leaked[a]

(* A dnode's reference count is the number of references held, however      *)
(* lookups recurse, share dnodes and fail: none is freed early              *)
(* (fsw_dnode_release) and a pointer anybody holds is to a live dnode.      *)
RefcountsAreExact ==
    \A a \in Addr : heap[a].refcount = Holders(a)

(* The volume never has two dnodes for one id, so that fsw_dnode_create     *)
(* always finds the one that is there (fsw_core.c:374).                     *)
OneDnodePerId ==
    \A a, b \in dnode_head : heap[a].dnode_id = heap[b].dnode_id => a = b

(* Once the volume is unmounted, with its handles closed and no reference   *)
(* lost, releasing the root has freed every dnode through the parents.      *)
Unmounted == root = NULL /\ drop = NULL
NothingLost == \A a \in Addr : leaked[a] = 0
UnmountFreesUnlessLost == Unmounted /\ NothingLost => Live = {}
================================================================================
