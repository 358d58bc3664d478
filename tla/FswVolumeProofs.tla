---------------------------- MODULE FswVolumeProofs ----------------------------
(***************************************************************************)
(* For every disk and any clients: the types of the dnode layer are kept    *)
(* through failing and nested lookups, no id ever has two dnodes, every     *)
(* refcount is the number of references there are and of those the code has *)
(* lost, and a volume that lost none frees every dnode when it is           *)
(* unmounted. A volume under its driver binding is used as FswDnode says,   *)
(* so that all this holds for it, whatever is mounted and unmounted; and a  *)
(* driver that does not start gives back all it has taken. One that starts  *)
(* has understood its medium, and is not refused one of its own. For every  *)
(* number of blocks, levels and table sizes, the block cache of a volume    *)
(* implements BlockStore.                                                   *)
(***************************************************************************)
EXTENDS FswVolume, FswBlockCache, SequenceTheorems, FiniteSetTheorems, WellFoundedInduction, TLAPS

(* The lowest number of a set exists and is in the set. *)
LEMMA MinOfNaturals ==
    ASSUME NEW S \in SUBSET Nat, S # {}
    PROVE  Min(S) \in S /\ \A y \in S : Min(S) <= y
<1> DEFINE R == OpToRel(<, Nat)
<1>1. IsWellFoundedOn(R, Nat) /\ \A x, y \in Nat : <<y, x>> \in R <=> y < x
  BY NatLessThanWellFounded DEF OpToRel
<1> HIDE DEF R
<1>2. PICK x \in S : \A y \in S : <<y, x>> \notin R
  BY <1>1, WFMin
<1>3. \A y \in S : x \in Nat /\ y \in Nat /\ ~(y < x)
  BY <1>1, <1>2
<1>4. \A y \in S : x <= y
  BY <1>3
<1>5. QED
  BY <1>4 DEF Min

(* The objects in memory and the volume's list of them. *)
Listed(h, L) == /\ h \in [Addr -> Dnode]
                /\ L \subseteq {a \in Addr : h[a].refcount > 0}
                /\ \A a, b \in L : h[a].dnode_id = h[b].dnode_id => a = b

(* The inductive invariant: a call in progress also keeps the volume mounted. *)
DnodeInv == /\ TypeOK
            /\ OneDnodePerId
            /\ stack # <<>> => root # NULL

------------------------------------------------------------------------------
(* What the operations on the heap preserve.                                 *)

LEMMA RetainListed ==
    ASSUME NEW h, NEW L, NEW a \in Addr, Listed(h, L)
    PROVE  Listed(Retain(h, a), L)
BY DEF Listed, Retain, Dnode

LEMMA FillListed ==
    ASSUME NEW h, NEW L, NEW a \in Addr, Listed(h, L)
    PROVE  Listed(Fill(h, a), L)
BY DEF Listed, Fill, Dnode

(* Filling a dnode changes neither ids nor counts. *)
LEMMA FillKeeps ==
    ASSUME NEW h, NEW L, NEW a \in Addr, Listed(h, L)
    PROVE  \A x \in Addr : /\ Fill(h, a)[x].dnode_id = h[x].dnode_id
                           /\ Fill(h, a)[x].refcount = h[x].refcount
BY DEF Listed, Fill, Dnode

LEMMA CreateListed ==
    ASSUME NEW h, NEW L, NEW p \in Addr, NEW id \in Ids, NEW a \in Addr,
           Listed(h, L), a \notin L, \A b \in L : h[b].dnode_id # id
    PROVE  Listed(Create(h, p, id, a), L \union {a})
<1> DEFINE g == Retain(h, p)
<1>1. Listed(g, L)
  BY RetainListed
<1>2. \A b \in L : g[b].dnode_id # id
  BY DEF Listed, Retain, Dnode
<1> DEFINE new == [dnode_id |-> id, parent |-> p, refcount |-> 1, filled |-> FALSE]
<1>3. new \in Dnode
  BY DEF Dnode
<1>4. Create(h, p, id, a) = [g EXCEPT ![a] = new]
  BY DEF Create
<1> HIDE DEF g
<1>5. Listed([g EXCEPT ![a] = new], L \union {a})
  <2> DEFINE k == [g EXCEPT ![a] = new]
  <2>1. k \in [Addr -> Dnode]
    BY <1>1, <1>3 DEF Listed
  <2>2. \A x \in Addr : k[x] = IF x = a THEN new ELSE g[x]
    BY <1>1 DEF Listed
  <2>3. new.dnode_id = id /\ new.refcount = 1
    OBVIOUS
  <2> HIDE DEF k, new
  <2>4. L \subseteq Addr
    BY <1>1 DEF Listed
  <2>5. \A x \in L \union {a} : k[x].refcount > 0
    BY <1>1, <2>2, <2>3, <2>4 DEF Listed
  <2>6. \A x, y \in L \union {a} : k[x].dnode_id = k[y].dnode_id => x = y
    BY <1>1, <1>2, <2>2, <2>3, <2>4 DEF Listed
  <2>7. QED
    BY <2>1, <2>4, <2>5, <2>6 DEF Listed, k
<1>6. QED
  BY <1>4, <1>5

(* Memory the allocator returns holds no dnode. *)
LEMMA FreeAddrIsFree ==
    ASSUME Live # Addr
    PROVE  FreeAddr \in Addr /\ FreeAddr \notin Live
BY DEF FreeAddr, Live

LEMMA InvIsListed ==
    ASSUME DnodeInv
    PROVE  Listed(heap, dnode_head)
BY DEF DnodeInv, TypeOK, OneDnodePerId, Listed, Live

(* The stack of calls. *)
LEMMA StackTypes ==
    ASSUME stack \in Seq(Frame), stack # <<>>
    PROVE  /\ Top \in Frame
           /\ Caller \in Seq(Frame)
           /\ \A frame \in Frame : WithTop(frame) \in Seq(Frame)
           /\ \A frame \in Frame : Append(stack, frame) \in Seq(Frame)
<1>1. Len(stack) \in Nat /\ Len(stack) > 0
  OBVIOUS
<1>2. Top \in Frame
  BY <1>1 DEF Top, Last
<1>3. Caller \in Seq(Frame)
  BY <1>1 DEF Caller, Front
<1>4. QED
  BY <1>2, <1>3 DEF WithTop

(* The kind of a frame tells what it holds. *)
LEMMA FrameKinds ==
    ASSUME NEW frame \in Frame
    PROVE  /\ frame.fn = "lookup_path" => frame \in PathFrame
           /\ frame.fn = "resolve" => frame \in ResolveFrame
           /\ frame.fn = "dir_open" => frame \in OpenFrame
           /\ frame.dno \in Addr \union {NULL}
BY DEF Frame, PathFrame, ResolveFrame, OpenFrame
------------------------------------------------------------------------------
(* One step: what it does to the dnodes, and what it does to the calls.      *)

(* The calls hold addresses, and the constants have the types assumed. *)
LEMMA Operands ==
    ASSUME DnodeInv, DiskAssumption, BoundsAssumption
    PROVE  /\ Running("lookup_path") => Top \in PathFrame /\ root \in Addr
           /\ Running("resolve") => Top \in ResolveFrame /\ root \in Addr
           /\ Running("dir_open") => Top \in OpenFrame /\ root \in Addr
           /\ ret.st = "ok" => ret.dno \in Addr
           /\ \A f \in Files : files[f] # NULL => files[f] \in [dnode : Addr, pos : Nat]
           /\ \A a \in Addr : heap[a] \in Dnode
           /\ \A id \in Ids : Kind[id] = "dir" =>
                 \A i \in DOMAIN Dir[id] : Dir[id][i].id \in Ids
<1>1. Running("lookup_path") => Top \in PathFrame /\ root \in Addr
  BY StackTypes, FrameKinds DEF DnodeInv, TypeOK, Running
<1>2. Running("resolve") => Top \in ResolveFrame /\ root \in Addr
  BY StackTypes, FrameKinds DEF DnodeInv, TypeOK, Running
<1>3. Running("dir_open") => Top \in OpenFrame /\ root \in Addr
  BY StackTypes, FrameKinds DEF DnodeInv, TypeOK, Running
<1>4. ret.st = "ok" => ret.dno \in Addr
  <2>1. ret = Nothing \/ ret = Error \/ \E a \in Addr : ret = Found(a)
    BY DEF DnodeInv, TypeOK
  <2>2. Nothing.st # "ok" /\ Error.st # "ok" /\ \A a \in Addr : Found(a).dno = a
    BY DEF Nothing, Error, Found
  <2>3. QED
    BY <2>1, <2>2
<1>5. /\ \A f \in Files : files[f] # NULL => files[f] \in [dnode : Addr, pos : Nat]
      /\ \A a \in Addr : heap[a] \in Dnode
  BY DEF DnodeInv, TypeOK
<1>6. \A id \in Ids : Kind[id] = "dir" =>
         \A i \in DOMAIN Dir[id] : Dir[id][i].id \in Ids
  <2> DEFINE E == [name : STRING, id : Ids]
  <2> SUFFICES ASSUME NEW id \in Ids, Kind[id] = "dir", NEW i \in DOMAIN Dir[id]
               PROVE  Dir[id][i].id \in Ids
    OBVIOUS
  <2>1. Dir[id] \in Seq(E)
    BY DEF DiskAssumption
  <2>2. Dir[id][i] \in E
    <3> HIDE DEF E
    <3>1. QED
      BY <2>1
  <2>3. QED
    BY <2>2
<1>7. QED
  BY <1>1, <1>2, <1>3, <1>4, <1>5, <1>6

LEMMA ReleaseHeap ==
    ASSUME DnodeInv, Release, DiskAssumption
    PROVE  Listed(heap', dnode_head')
<1>1. drop \in Addr /\ heap \in [Addr -> Dnode]
  BY DEF DnodeInv, TypeOK, Release
<1>2. Listed(heap, dnode_head)
  BY InvIsListed
<1>3. Free \in Dnode
  BY DEF Free, Dnode, DiskAssumption
<1>4. CASE heap[drop].refcount > 1
  <2>1. heap' = [heap EXCEPT ![drop].refcount = @ - 1] /\ dnode_head' = dnode_head
    BY <1>4 DEF Release
  <2>2. heap[drop] \in Dnode /\ heap[drop].refcount - 1 \in Nat
    BY <1>1, <1>4 DEF Dnode
  <2>3. heap' \in [Addr -> Dnode]
    BY <1>1, <2>1, <2>2 DEF Dnode
  <2>4. \A a \in Addr : /\ heap'[a].dnode_id = heap[a].dnode_id
                        /\ heap[a].refcount > 0 => heap'[a].refcount > 0
    BY <1>1, <1>4, <2>1, <2>2 DEF Dnode
  <2>5. QED
    BY <1>2, <2>1, <2>3, <2>4 DEF Listed
<1>5. CASE ~(heap[drop].refcount > 1)
  <2>1. heap' = [heap EXCEPT ![drop] = Free] /\ dnode_head' = dnode_head \ {drop}
    BY <1>5 DEF Release
  <2>2. heap' \in [Addr -> Dnode]
    BY <1>1, <1>3, <2>1
  <2>3. \A a \in dnode_head' : a \in Addr /\ a \in dnode_head /\ heap'[a] = heap[a]
    BY <1>1, <1>2, <2>1 DEF Listed
  <2>4. QED
    BY <1>2, <2>2, <2>3 DEF Listed
<1>6. QED
  BY <1>4, <1>5

(* A dnode newly created for an entry of a directory that is filled.         *)
LEMMA CreateAfterFill ==
    ASSUME DnodeInv, NEW d \in Addr, NEW id \in Ids, Known(id) = {}, Live # Addr
    PROVE  /\ FreeAddr \in Addr
           /\ Listed(Create(heap, d, id, FreeAddr), dnode_head \union {FreeAddr})
           /\ Listed(Create(Fill(heap, d), d, id, FreeAddr),
                     dnode_head \union {FreeAddr})
<1>1. FreeAddr \in Addr /\ FreeAddr \notin dnode_head
  BY FreeAddrIsFree DEF DnodeInv, TypeOK
<1>2. Listed(heap, dnode_head)
  BY InvIsListed
<1>3. \A b \in dnode_head : b \in Addr /\ heap[b].dnode_id # id
  BY <1>2 DEF Known, Listed
<1>4. Listed(Fill(heap, d), dnode_head)
  BY <1>2, FillListed
<1>5. \A b \in dnode_head : Fill(heap, d)[b].dnode_id # id
  BY <1>2, <1>3, FillKeeps
<1>6. QED
  BY <1>1, <1>2, <1>3, <1>4, <1>5, CreateListed

LEMMA LookupPathHeap ==
    ASSUME DnodeInv, LookupPath, DiskAssumption, BoundsAssumption
    PROVE  Listed(heap', dnode_head')
<1>1. Listed(heap, dnode_head)
  BY InvIsListed
<1>2. Top.dno \in Addr /\ root \in Addr
  <2>1. Running("lookup_path")
    BY DEF LookupPath, PathDone, PathEmptyComponent, PathFillFails, PathSymlink,
       PathSymlinkResolved, PathSymlinkFails, PathNotDirectory, PathSpecialName,
       PathLookupFails, PathLookup, PathNameAllocFails, AtDirectory, AtName, InPath
  <2>2. QED
    BY <2>1, Operands DEF PathFrame
<1>3. Listed(Fill(heap, Top.dno), dnode_head)
  BY <1>1, <1>2, FillListed
<1>4. CASE PathDone \/ PathFillFails \/ PathSymlinkResolved \/ PathSymlinkFails
  BY <1>1, <1>4 DEF PathDone, PathFillFails, PathSymlinkResolved, PathSymlinkFails
<1>5. CASE PathNotDirectory \/ PathLookupFails
  BY <1>3, <1>5 DEF PathNotDirectory, PathLookupFails
<1>6. CASE PathEmptyComponent
  BY <1>1, <1>2, <1>6, RetainListed DEF PathEmptyComponent
<1>7. CASE PathSymlink \/ PathNameAllocFails
  BY <1>2, <1>3, <1>7, RetainListed DEF PathSymlink, PathNameAllocFails
<1>8. CASE PathSpecialName
  <2>1. heap[Top.dno].parent \in Addr \union {NULL}
    BY <1>1, <1>2 DEF Listed, Dnode
  <2>2. QED
    BY <1>2, <1>3, <1>8, <2>1, RetainListed DEF PathSpecialName
<1>9. CASE PathLookup
  <2>1. PICK i \in Named(heap[Top.dno].dnode_id, Head(Top.rest)) :
           LET id == Dir[heap[Top.dno].dnode_id][i].id IN
           \/ \E a \in Known(id) :
                 /\ heap' = Retain(Fill(heap, Top.dno), a)
                 /\ UNCHANGED dnode_head
           \/ /\ Known(id) = {} /\ Live # Addr
              /\ heap' = Create(Fill(heap, Top.dno), Top.dno, id, FreeAddr)
              /\ dnode_head' = dnode_head \union {FreeAddr}
    BY <1>9 DEF PathLookup
  <2> DEFINE id == Dir[heap[Top.dno].dnode_id][i].id
  <2>2. id \in Ids
    <3>1. Kind[heap[Top.dno].dnode_id] = "dir" /\ heap[Top.dno].dnode_id \in Ids
      BY <1>1, <1>2, <1>9 DEF PathLookup, AtDirectory, KindAt, Listed, Dnode
    <3>2. QED
      BY <2>1, <3>1, Operands DEF Named
  <2>3. CASE \E a \in Known(id) : /\ heap' = Retain(Fill(heap, Top.dno), a)
                                 /\ UNCHANGED dnode_head
    <3>1. \A a \in Known(id) : a \in Addr
      BY <1>1 DEF Known, Listed
    <3>2. QED
      BY <1>3, <2>3, <3>1, RetainListed
  <2>4. CASE /\ Known(id) = {} /\ Live # Addr
             /\ heap' = Create(Fill(heap, Top.dno), Top.dno, id, FreeAddr)
             /\ dnode_head' = dnode_head \union {FreeAddr}
    BY <1>2, <2>2, <2>4, CreateAfterFill
  <2>5. QED
    BY <2>1, <2>3, <2>4
<1>10. QED
  BY <1>4, <1>5, <1>6, <1>7, <1>8, <1>9 DEF LookupPath

LEMMA ResolveHeap ==
    ASSUME DnodeInv, Resolve, DiskAssumption, BoundsAssumption
    PROVE  Listed(heap', dnode_head')
<1>1. Listed(heap, dnode_head)
  BY InvIsListed
<1>2. Top.dno \in Addr
  <2>1. Running("resolve")
    BY DEF Resolve, ResolveDone, ResolveReadFails, ResolveFollow, ResolveStepDone,
       ResolveFails, InResolve
  <2>2. QED
    BY <2>1, Operands DEF ResolveFrame
<1>3. Listed(Fill(heap, Top.dno), dnode_head)
  BY <1>1, <1>2, FillListed
<1>4. heap[Top.dno].parent \in Addr \union {NULL}
  BY <1>1, <1>2 DEF Listed, Dnode
<1>5. QED
  BY <1>1, <1>3, <1>4, RetainListed
     DEF Resolve, ResolveDone, ResolveReadFails, ResolveFollow, ResolveStepDone,
         ResolveFails

LEMMA DirOpenHeap ==
    ASSUME DnodeInv, DirOpen, DiskAssumption, BoundsAssumption
    PROVE  Listed(heap', dnode_head')
<1>1. Listed(heap, dnode_head)
  BY InvIsListed
<1>2. CASE OpenLookedUp
  BY <1>1, <1>2, Operands, RetainListed DEF OpenLookedUp
<1>3. CASE OpenResolved \/ OpenFails
  BY <1>1, <1>3 DEF OpenResolved, OpenFails
<1>4. CASE OpenHandle
  <2>1. Top.dno \in Addr
    BY <1>4, Operands DEF OpenHandle, OpenFrame
  <2>2. QED
    BY <1>1, <1>4, <2>1, RetainListed DEF OpenHandle
<1>5. QED
  BY <1>2, <1>3, <1>4 DEF DirOpen


LEMMA ReadEntryHeap ==
    ASSUME DnodeInv, DiskAssumption, BoundsAssumption, NEW f \in Files, ReadEntry(f)
    PROVE  Listed(heap', dnode_head') /\ drop' \in Addr
<1> DEFINE d == files[f].dnode
           child == Dir[heap[d].dnode_id][files[f].pos + 1].id
<1>1. Listed(heap, dnode_head)
  BY InvIsListed
<1>2. files[f] \in [dnode : Addr, pos : Nat]
  BY Operands DEF ReadEntry
<1>3. child \in Ids
  <2>1. Kind[heap[d].dnode_id] = "dir" /\ heap[d].dnode_id \in Ids
    BY <1>1, <1>2 DEF ReadEntry, KindAt, Listed, Dnode
  <2>2. Dir[heap[d].dnode_id] \in Seq([name : STRING, id : Ids])
    BY <2>1 DEF DiskAssumption
  <2>3. files[f].pos + 1 \in DOMAIN Dir[heap[d].dnode_id]
    <3>1. files[f].pos \in Nat /\ files[f].pos < Len(Dir[heap[d].dnode_id])
      BY <1>2 DEF ReadEntry
    <3>2. DOMAIN Dir[heap[d].dnode_id] = 1 .. Len(Dir[heap[d].dnode_id])
          /\ Len(Dir[heap[d].dnode_id]) \in Nat
      BY <2>2, LenProperties
    <3> HIDE DEF d
    <3>3. QED
      BY <3>1, <3>2
  <2>4. QED
    BY <2>1, <2>3, Operands
<1>4. \/ \E a \in Known(child) :
            /\ heap' = Retain(Fill(heap, a), a) \/ heap' = Retain(heap, a)
            /\ drop' = a /\ dnode_head' = dnode_head
      \/ /\ Known(child) = {} /\ Live # Addr
         /\ \/ heap' = Create(heap, d, child, FreeAddr)
            \/ heap' = Fill(Create(heap, d, child, FreeAddr), FreeAddr)
         /\ drop' = FreeAddr /\ dnode_head' = dnode_head \union {FreeAddr}
  BY DEF ReadEntry
<1> HIDE DEF child
<1>5. CASE \E a \in Known(child) :
            /\ heap' = Retain(Fill(heap, a), a) \/ heap' = Retain(heap, a)
            /\ drop' = a /\ dnode_head' = dnode_head
  <2>1. PICK a \in Known(child) :
            /\ heap' = Retain(Fill(heap, a), a) \/ heap' = Retain(heap, a)
            /\ drop' = a /\ dnode_head' = dnode_head
    BY <1>5
  <2>2. a \in Addr
    BY <1>1 DEF Known, Listed
  <2>3. QED
    BY <1>1, <2>1, <2>2, RetainListed, FillListed
<1>6. CASE /\ Known(child) = {} /\ Live # Addr
           /\ \/ heap' = Create(heap, d, child, FreeAddr)
              \/ heap' = Fill(Create(heap, d, child, FreeAddr), FreeAddr)
           /\ drop' = FreeAddr /\ dnode_head' = dnode_head \union {FreeAddr}
  <2>1. d \in Addr
    BY <1>2
  <2> HIDE DEF d
  <2>2. /\ FreeAddr \in Addr
        /\ Listed(Create(heap, d, child, FreeAddr), dnode_head \union {FreeAddr})
    BY <1>3, <1>6, <2>1, CreateAfterFill
  <2>3. QED
    BY <1>6, <2>2, FillListed
<1>7. QED
  BY <1>4, <1>5, <1>6

LEMMA MountHeap ==
    ASSUME DnodeInv, DiskAssumption, Mount
    PROVE  Listed(heap', dnode_head') /\ root' \in Addr
<1>1. FreeAddr \in Addr
  BY FreeAddrIsFree DEF Mount
<1>2. RootDnode \in Dnode /\ RootDnode.refcount = 1
  BY DEF RootDnode, Dnode, DiskAssumption
<1>3. heap \in [Addr -> Dnode]
  BY DEF DnodeInv, TypeOK
<1>4. /\ heap' = [heap EXCEPT ![FreeAddr] = RootDnode]
      /\ dnode_head' = {FreeAddr} /\ root' = FreeAddr
  BY DEF Mount
<1>5. QED
  BY <1>1, <1>2, <1>3, <1>4 DEF Listed

LEMMA HostHeap ==
    ASSUME DnodeInv, Host, DiskAssumption, BoundsAssumption
    PROVE  Listed(heap', dnode_head')
<1>1. Listed(heap, dnode_head)
  BY InvIsListed
<1>2. ASSUME NEW f \in Files, OpenVolume(f)
      PROVE  Listed(heap', dnode_head')
  <2>1. root \in Addr
    BY <1>2 DEF DnodeInv, TypeOK, OpenVolume, Idle
  <2>2. QED
    BY <1>1, <1>2, <2>1, RetainListed, FillListed DEF OpenVolume
<1>3. ASSUME NEW f \in Files, Close(f) \/ Rewind(f)
      PROVE  Listed(heap', dnode_head')
  BY <1>1, <1>3 DEF Close, Rewind
<1>4. ASSUME NEW f \in Files, ReadEntry(f)
      PROVE  Listed(heap', dnode_head')
  BY <1>4, ReadEntryHeap
<1>5. ASSUME NEW f \in Files, ReadNameAllocFails(f)
      PROVE  Listed(heap', dnode_head')
  <2>1. files[f].dnode \in Addr
    BY <1>5, Operands DEF ReadNameAllocFails
  <2>2. QED
    BY <1>1, <1>5, <2>1, RetainListed DEF ReadNameAllocFails
<1>6. ASSUME NEW dir \in Files, NEW f \in Files, NEW path \in Paths, Open(dir, f, path)
      PROVE  Listed(heap', dnode_head')
  <2>1. files[dir].dnode \in Addr
    BY <1>6, Operands DEF Open
  <2>2. QED
    BY <1>1, <1>6, <2>1, RetainListed DEF Open
<1>7. CASE Unmount
  BY <1>1, <1>7 DEF Unmount
<1>8. CASE Mount
  BY <1>8, MountHeap
<1>9. QED
  BY <1>2, <1>3, <1>4, <1>5, <1>6, <1>7, <1>8 DEF Host, Client


(* What the calls, the handles and the volume hold. *)
CallsTyped == /\ root \in Addr \union {NULL}
              /\ files \in [Files -> [dnode : Addr, pos : Nat] \union {NULL}]
              /\ stack \in Seq(Frame)
              /\ ret \in {Nothing, Error} \union {Found(a) : a \in Addr}
              /\ drop \in Addr \union {NULL}
              /\ leaked \in [Addr -> Nat]
              /\ stack # <<>> => root # NULL

LEMMA InvIsCallsTyped ==
    ASSUME DnodeInv
    PROVE  CallsTyped
BY DEF DnodeInv, TypeOK, CallsTyped

(* Returning, failing and moving on keep the stack a stack of calls. *)
LEMMA StackMoves ==
    ASSUME CallsTyped, BoundsAssumption, stack # <<>>, root' = root
    PROVE  /\ FailTop => /\ stack' \in Seq(Frame) /\ ret' = Error
                         /\ drop' \in Addr \union {NULL} /\ root' # NULL
           /\ \A frame \in PathFrame \union ResolveFrame \union OpenFrame, a \in Addr :
                 MoveTo(frame, a) /\ [frame EXCEPT !.dno = a] \in Frame
                   => /\ stack' \in Seq(Frame) /\ ret' = Nothing
                      /\ drop' \in Addr \union {NULL} /\ root' # NULL
<1>1. /\ Top \in Frame /\ Caller \in Seq(Frame)
      /\ \A frame \in Frame : WithTop(frame) \in Seq(Frame)
  BY StackTypes DEF CallsTyped
<1>2. Top.dno \in Addr \union {NULL}
  BY <1>1, FrameKinds
<1>3. QED
  BY <1>1, <1>2 DEF FailTop, MoveTo, CallsTyped

LEMMA LookupPathCalls ==
    ASSUME DnodeInv, LookupPath, DiskAssumption, BoundsAssumption
    PROVE  CallsTyped'
<1>1. CallsTyped
  BY InvIsCallsTyped
<1>2. Running("lookup_path")
  BY DEF LookupPath, PathDone, PathEmptyComponent, PathFillFails, PathSymlink,
     PathSymlinkResolved, PathSymlinkFails, PathNotDirectory, PathSpecialName,
     PathLookupFails, PathLookup, PathNameAllocFails, AtDirectory, AtName, InPath
<1>3. /\ Top \in PathFrame /\ root \in Addr /\ stack # <<>> /\ drop = NULL
      /\ Top.dno \in Addr /\ Top.rest \in Seq(STRING)
  BY <1>2, Operands DEF PathFrame, Running
<1>4. root' = root /\ files' = files
  BY DEF LookupPath, PathDone, PathEmptyComponent, PathFillFails, PathSymlink,
     PathSymlinkResolved, PathSymlinkFails, PathNotDirectory, PathSpecialName,
     PathLookupFails, PathLookup, PathNameAllocFails
<1>5. leaked' \in [Addr -> Nat]
  <2>1. leaked \in [Addr -> Nat]
    BY <1>1 DEF CallsTyped
  <2>2. leaked' = leaked \/ leaked' = [leaked EXCEPT ![Top.dno] = @ + 1]
    BY DEF LookupPath, PathDone, PathEmptyComponent, PathFillFails, PathSymlink,
       PathSymlinkResolved, PathSymlinkFails, PathNotDirectory, PathSpecialName,
       PathLookupFails, PathLookup, PathNameAllocFails
  <2>3. QED
    BY <1>3, <2>1, <2>2
<1>6. SUFFICES /\ stack' \in Seq(Frame) /\ drop' \in Addr \union {NULL}
               /\ ret' \in {Nothing, Error} \union {Found(a) : a \in Addr}
  BY <1>1, <1>3, <1>4, <1>5 DEF CallsTyped, BoundsAssumption
<1>7. CASE FailTop
  BY <1>1, <1>3, <1>4, <1>7, StackMoves
<1>8. CASE PathDone \/ PathNotDirectory
  <2>1. stack' = Caller /\ drop' = drop /\ (ret' = Found(Top.dno) \/ ret' = Error)
    BY <1>8 DEF PathDone, PathNotDirectory
  <2>2. QED
    BY <1>1, <1>3, <2>1, StackTypes DEF CallsTyped
<1>9. CASE PathSymlink
  <2>1. ResolveCall(Top.dno) \in Frame
    BY <1>3 DEF ResolveCall, Frame, ResolveFrame
  <2>2. QED
    BY <1>1, <1>3, <1>9, <2>1, StackTypes DEF PathSymlink, CallsTyped
<1>10. CASE \E a \in Addr : MoveTo(NextComponent, a) /\ Top.rest # <<>>
  <2>1. PICK a \in Addr : MoveTo(NextComponent, a) /\ Top.rest # <<>>
    BY <1>10
  <2>2. Tail(Top.rest) \in Seq(STRING)
    BY <1>3, <2>1, HeadTailProperties
  <2>3. /\ NextComponent \in PathFrame
        /\ [NextComponent EXCEPT !.dno = a] \in Frame
    BY <1>3, <2>2 DEF NextComponent, PathFrame, Frame
  <2>4. QED
    BY <1>1, <1>3, <1>4, <2>1, <2>3, StackMoves
<1>11. CASE PathSymlinkResolved
  <2>1. ret.dno \in Addr
    BY <1>11, Operands DEF PathSymlinkResolved
  <2>2. [Top EXCEPT !.dno = ret.dno] \in Frame
    BY <1>3, <2>1 DEF PathFrame, Frame
  <2>3. QED
    BY <1>1, <1>3, <1>4, <1>11, <2>1, <2>2, StackMoves DEF PathSymlinkResolved
<1>12. CASE PathEmptyComponent
  BY <1>3, <1>10, <1>12 DEF PathEmptyComponent, InPath
<1>13. CASE PathSpecialName
  <2>1. heap[Top.dno].parent \in Addr \union {NULL} /\ NULL \notin Addr
    BY <1>3, Operands DEF Dnode, BoundsAssumption
  <2>2. Top.rest # <<>>
    BY <1>13 DEF PathSpecialName, AtDirectory, AtName
  <2>3. QED
    BY <1>3, <1>7, <1>10, <1>13, <2>1, <2>2 DEF PathSpecialName
<1>14. CASE PathLookup
  <2>1. \A id : Known(id) \subseteq Addr
    BY DEF Known, DnodeInv, TypeOK, Live
  <2>2. Live # Addr => FreeAddr \in Addr
    BY FreeAddrIsFree
  <2>3. Top.rest # <<>>
    BY <1>14 DEF PathLookup, AtDirectory, AtName
  <2>4. \E a \in Addr : MoveTo(NextComponent, a)
    BY <1>14, <2>1, <2>2 DEF PathLookup
  <2>5. QED
    BY <1>10, <2>3, <2>4
<1>15. CASE PathFillFails \/ PathSymlinkFails \/ PathLookupFails \/ PathNameAllocFails
  BY <1>7, <1>15 DEF PathFillFails, PathSymlinkFails, PathLookupFails, PathNameAllocFails
<1>16. QED
  BY <1>8, <1>9, <1>11, <1>12, <1>13, <1>14, <1>15 DEF LookupPath

LEMMA ResolveCalls ==
    ASSUME DnodeInv, Resolve, DiskAssumption, BoundsAssumption
    PROVE  CallsTyped'
<1>1. CallsTyped
  BY InvIsCallsTyped
<1>2. Running("resolve")
  BY DEF Resolve, ResolveDone, ResolveReadFails, ResolveFollow, ResolveStepDone,
     ResolveFails, InResolve
<1>3. /\ Top \in ResolveFrame /\ root \in Addr /\ stack # <<>> /\ drop = NULL
      /\ Top.dno \in Addr
  BY <1>2, Operands DEF ResolveFrame, Running
<1>4. root' = root /\ files' = files /\ leaked' = leaked
  BY DEF Resolve, ResolveDone, ResolveReadFails, ResolveFollow, ResolveStepDone,
     ResolveFails
<1>6. SUFFICES /\ stack' \in Seq(Frame) /\ drop' \in Addr \union {NULL}
               /\ ret' \in {Nothing, Error} \union {Found(a) : a \in Addr}
  BY <1>1, <1>3, <1>4 DEF CallsTyped, BoundsAssumption
<1>7. CASE ResolveReadFails \/ ResolveFails
  BY <1>1, <1>3, <1>4, <1>7, StackMoves DEF ResolveReadFails, ResolveFails
<1>8. CASE ResolveDone
  BY <1>1, <1>3, <1>8, StackTypes DEF ResolveDone, CallsTyped
<1>9. CASE ResolveFollow
  <2> DEFINE id == heap[Top.dno].dnode_id
             parent == heap[Top.dno].parent
  <2>1. parent \in Addr /\ id \in Ids
    BY <1>3, <1>9, Operands DEF Dnode, ResolveFollow
  <2>2. Target[id] \in Seq(STRING)
    BY <1>9, <2>1 DEF ResolveFollow, KindAt, DiskAssumption
  <2>3. PathCall(parent, Target[id]) \in Frame
    <3> HIDE DEF parent, id
    <3>1. QED
      BY <2>1, <2>2 DEF PathCall, Frame, PathFrame
  <2>4. QED
    BY <1>1, <1>3, <1>9, <2>3, StackTypes DEF ResolveFollow, CallsTyped
<1>10. CASE ResolveStepDone
  <2>1. ret.dno \in Addr
    BY <1>10, Operands DEF ResolveStepDone
  <2>2. [Top EXCEPT !.dno = ret.dno] \in Frame
    BY <1>3, <2>1 DEF ResolveFrame, Frame
  <2>3. QED
    BY <1>1, <1>3, <1>4, <1>10, <2>1, <2>2, StackMoves DEF ResolveStepDone
<1>11. QED
  BY <1>7, <1>8, <1>9, <1>10 DEF Resolve


LEMMA DirOpenCalls ==
    ASSUME DnodeInv, DirOpen, DiskAssumption, BoundsAssumption
    PROVE  CallsTyped'
<1>1. CallsTyped
  BY InvIsCallsTyped
<1>2. Running("dir_open")
  BY DEF DirOpen, OpenLookedUp, OpenResolved, OpenHandle, OpenFails
<1>3. /\ Top \in OpenFrame /\ root \in Addr /\ stack # <<>> /\ drop = NULL
      /\ Top.dno \in Addr \union {NULL}
      /\ Top.file \in Files
  BY <1>2, Operands DEF OpenFrame, Running
<1>4. root' = root /\ leaked' = leaked
  BY DEF DirOpen, OpenLookedUp, OpenResolved, OpenHandle, OpenFails
<1>5. SUFFICES /\ stack' \in Seq(Frame) /\ drop' \in Addr \union {NULL}
               /\ ret' \in {Nothing, Error} \union {Found(a) : a \in Addr}
               /\ files' \in [Files -> [dnode : Addr, pos : Nat] \union {NULL}]
  BY <1>1, <1>3, <1>4 DEF CallsTyped, BoundsAssumption
<1>6. CASE OpenLookedUp
  <2> DEFINE fr == [Top EXCEPT !.dno = ret.dno, !.pc = "resolve"]
  <2>1. ret.dno \in Addr
    BY <1>6, Operands DEF OpenLookedUp
  <2>2. fr \in Frame
    BY <1>3, <1>6, <2>1 DEF OpenFrame, Frame, OpenLookedUp
  <2>3. ResolveCall(ret.dno) \in Frame
    BY <2>1 DEF ResolveCall, ResolveFrame, Frame
  <2>4. stack' = WithTop(fr) \o <<ResolveCall(ret.dno)>> /\ drop' = drop
        /\ ret' = Nothing /\ files' = files
    BY <1>6 DEF OpenLookedUp
  <2> HIDE DEF fr
  <2>5. WithTop(fr) \in Seq(Frame)
    BY <1>1, <1>3, <2>2, StackTypes DEF CallsTyped
  <2>6. stack' \in Seq(Frame)
    BY <2>3, <2>4, <2>5
  <2>7. QED
    BY <1>1, <2>4, <2>6 DEF CallsTyped
<1>7. CASE OpenResolved
  <2> DEFINE fr == [Top EXCEPT !.pc = "handle"]
  <2>1. ret.dno \in Addr /\ files' = files /\ MoveTo(fr, ret.dno)
    BY <1>7, Operands DEF OpenResolved
  <2>2. fr \in OpenFrame /\ [fr EXCEPT !.dno = ret.dno] \in Frame
    BY <1>3, <1>7, <2>1 DEF OpenFrame, Frame, OpenResolved
  <2> HIDE DEF fr
  <2>3. QED
    BY <1>1, <1>3, <1>4, <2>1, <2>2, StackMoves DEF CallsTyped
<1>8. CASE OpenHandle
  <2>1. Top.dno \in Addr
    BY <1>3, <1>8 DEF OpenHandle, OpenFrame
  <2>2. [dnode |-> Top.dno, pos |-> 0] \in [dnode : Addr, pos : Nat]
    BY <2>1
  <2>3. files' \in [Files -> [dnode : Addr, pos : Nat] \union {NULL}]
    BY <1>1, <1>3, <1>8, <2>2 DEF OpenHandle, CallsTyped
  <2>4. stack' = Caller /\ drop' = Top.dno /\ ret' = ret
    BY <1>8 DEF OpenHandle
  <2>5. QED
    BY <1>1, <1>3, <2>3, <2>4, StackTypes DEF CallsTyped
<1>9. CASE OpenFails
  BY <1>1, <1>3, <1>9, StackTypes DEF OpenFails, CallsTyped
<1>10. QED
  BY <1>6, <1>7, <1>8, <1>9 DEF DirOpen

LEMMA HostCalls ==
    ASSUME DnodeInv, Host, DiskAssumption, BoundsAssumption
    PROVE  CallsTyped'
<1>1. CallsTyped
  BY InvIsCallsTyped
<1>2. ASSUME NEW f \in Files, OpenVolume(f)
      PROVE  CallsTyped'
  <2>1. root \in Addr
    BY <1>1, <1>2 DEF CallsTyped, OpenVolume, Idle
  <2>2. [dnode |-> root, pos |-> 0] \in [dnode : Addr, pos : Nat]
    BY <2>1
  <2>3. QED
    BY <1>1, <1>2, <2>2 DEF CallsTyped, OpenVolume
<1>3. ASSUME NEW f \in Files, Close(f) \/ Rewind(f)
      PROVE  CallsTyped'
  <2>1. files[f] \in [dnode : Addr, pos : Nat]
    BY <1>3, Operands DEF Close, Rewind
  <2>2. files[f].dnode \in Addr /\ [files[f] EXCEPT !.pos = 0] \in [dnode : Addr, pos : Nat]
    BY <2>1
  <2>3. \/ files' = [files EXCEPT ![f] = NULL] /\ drop' = files[f].dnode
        \/ files' = [files EXCEPT ![f].pos = 0] /\ drop' = drop
    BY <1>3 DEF Close, Rewind
  <2>4. files' \in [Files -> [dnode : Addr, pos : Nat] \union {NULL}]
    BY <1>1, <2>2, <2>3 DEF CallsTyped
  <2>5. UNCHANGED <<root, stack, ret, leaked>>
    BY <1>3 DEF Close, Rewind
  <2>6. QED
    BY <1>1, <2>2, <2>3, <2>4, <2>5 DEF CallsTyped
<1>4. ASSUME NEW f \in Files, ReadEntry(f)
      PROVE  CallsTyped'
  <2>1. files[f] \in [dnode : Addr, pos : Nat]
    BY <1>4, Operands DEF ReadEntry
  <2>2. drop' \in Addr
    BY <1>4, ReadEntryHeap
  <2>3. files' = [files EXCEPT ![f].pos = @ + 1] /\ UNCHANGED <<root, stack, ret, leaked>>
    BY <1>4 DEF ReadEntry
  <2>4. [files[f] EXCEPT !.pos = @ + 1] \in [dnode : Addr, pos : Nat]
    BY <2>1
  <2>5. files' \in [Files -> [dnode : Addr, pos : Nat] \union {NULL}]
    BY <1>1, <2>3, <2>4 DEF CallsTyped
  <2>6. QED
    BY <1>1, <2>2, <2>3, <2>5 DEF CallsTyped
<1>5. ASSUME NEW f \in Files, ReadNameAllocFails(f)
      PROVE  CallsTyped'
  <2>1. files[f].dnode \in Addr
    BY <1>5, Operands DEF ReadNameAllocFails
  <2>2. /\ leaked' = [leaked EXCEPT ![files[f].dnode] = @ + 1]
        /\ UNCHANGED <<root, files, stack, ret, drop>>
    BY <1>5 DEF ReadNameAllocFails
  <2>3. QED
    BY <1>1, <2>1, <2>2 DEF CallsTyped
<1>6. ASSUME NEW dir \in Files, NEW f \in Files, NEW path \in Paths, Open(dir, f, path)
      PROVE  CallsTyped'
  <2>1. files[dir].dnode \in Addr /\ root \in Addr
    BY <1>1, <1>6, Operands DEF Open, Calls, Idle, CallsTyped
  <2>2. OpenCall(f, dir, path) \in Frame
    BY DEF OpenCall, OpenFrame, Frame
  <2>3. PathCall(files[dir].dnode, path) \in Frame
    BY <2>1 DEF PathCall, PathFrame, Frame, DiskAssumption
  <2>4. /\ stack' = <<OpenCall(f, dir, path), PathCall(files[dir].dnode, path)>>
        /\ UNCHANGED <<root, files, ret, drop, leaked>>
    BY <1>6 DEF Open
  <2>5. stack' \in Seq(Frame)
    BY <2>2, <2>3, <2>4
  <2>6. QED
    BY <1>1, <2>1, <2>4, <2>5 DEF CallsTyped, BoundsAssumption
<1>7. CASE Unmount
  BY <1>1, <1>7 DEF CallsTyped, Unmount, Idle
<1>8. CASE Mount
  BY <1>1, <1>8, MountHeap DEF CallsTyped, Mount, BoundsAssumption
<1>9. QED
  BY <1>2, <1>3, <1>4, <1>5, <1>6, <1>7, <1>8 DEF Host, Client

LEMMA ReleaseCalls ==
    ASSUME DnodeInv, Release, DiskAssumption
    PROVE  CallsTyped'
<1>1. CallsTyped /\ drop \in Addr
  BY InvIsCallsTyped DEF Release, CallsTyped
<1>2. heap[drop].parent \in Addr \union {NULL}
  BY <1>1 DEF DnodeInv, TypeOK, Dnode
<1>3. QED
  BY <1>1, <1>2 DEF Release, CallsTyped

------------------------------------------------------------------------------
(* The invariant and what follows from it. *)

LEMMA CallsTypedStep ==
    ASSUME DnodeInv, Next
    PROVE  CallsTyped'
BY DiskAssumption, BoundsAssumption, HostCalls, ReleaseCalls, LookupPathCalls,
   ResolveCalls, DirOpenCalls DEF Next, Step

LEMMA DnodeInvStep ==
    ASSUME DnodeInv, [Next]_vars
    PROVE  DnodeInv'
<1>1. CASE UNCHANGED vars
  BY <1>1 DEF vars, DnodeInv, TypeOK, OneDnodePerId, Live
<1>2. CASE Next
  <2>1. Listed(heap', dnode_head')
    BY <1>2, DiskAssumption, BoundsAssumption, HostHeap, ReleaseHeap, LookupPathHeap,
       ResolveHeap, DirOpenHeap DEF Next, Step
  <2>2. CallsTyped'
    BY <1>2, CallsTypedStep
  <2>3. QED
    BY <2>1, <2>2 DEF Listed, CallsTyped, DnodeInv, TypeOK, OneDnodePerId, Live
<1>3. QED
  BY <1>1, <1>2

LEMMA DnodeInvInit ==
    ASSUME Init
    PROVE  DnodeInv
<1>1. Free \in Dnode /\ Free.refcount = 0
  BY DiskAssumption DEF Free, Dnode, DiskAssumption
<1>2. QED
  BY <1>1 DEF Init, DnodeInv, TypeOK, OneDnodePerId, Live

(* The inductive invariant of the dnodes and of the calls that are running    *)
(* on them (fsw_core.c): types, the list without doubles, who holds what.     *)
THEOREM DnodeInvariant == Spec => []DnodeInv
BY DnodeInvInit, DnodeInvStep, PTL DEF Spec

(* Every structure keeps its type, and every dnode on the volume's list is   *)
(* one somebody counts on: none was freed while listed.                      *)
THEOREM DnodeTypes == Spec => []TypeOK
BY DnodeInvariant, PTL DEF DnodeInv

(* There is never a second dnode for an id, over any disk: two handles on    *)
(* one file share their dnode.                                               *)
THEOREM IdsAreUnique == Spec => []OneDnodePerId
BY DnodeInvariant, PTL DEF DnodeInv

------------------------------------------------------------------------------
(* Counting references.                                                       *)

(* The references to a, by who holds them: children, file handles, calls in   *)
(* progress, and single variables.                                            *)
ParentRefs(h, a)  == Cardinality({b \in Addr : h[b].refcount > 0 /\ h[b].parent = a})
HandleRefs(fs, a) == Cardinality({f \in Files : fs[f] # NULL /\ fs[f].dnode = a})
FrameRefs(st, a)  == Cardinality({i \in DOMAIN st : st[i].dno = a})
Is(x, a)          == IF x = a THEN 1 ELSE 0

(* Counting the references of each kind apart is what Holders does.           *)
LEMMA OneOrNone ==
    ASSUME NEW x, NEW a
    PROVE  Cardinality({y \in {1} : x = a}) = Is(x, a)
<1>1. CASE x = a
  <2>1. {y \in {1} : x = a} = {1}
    BY <1>1
  <2>2. QED
    BY <1>1, <2>1, FS_Singleton DEF Is
<1>2. CASE x # a
  <2>1. {y \in {1} : x = a} = {}
    BY <1>2
  <2>2. QED
    BY <1>2, <2>1, FS_EmptySet DEF Is
<1>3. QED
  BY <1>1, <1>2

LEMMA OneMore ==
    ASSUME NEW S, IsFiniteSet(S), Cardinality(S) \in Nat, NEW x, x \notin S, NEW p, NEW a,
           NEW T, T = IF p = a THEN S \union {x} ELSE S
    PROVE  Cardinality(T) = Cardinality(S) + Is(p, a)
<1>1. CASE p = a
  <2>1. Cardinality(S \union {x}) = Cardinality(S) + 1
    BY FS_AddElement
  <2>2. QED
    BY <1>1, <2>1 DEF Is
<1>2. CASE p # a
  <2>1. T = S /\ Is(p, a) = 0
    BY <1>2 DEF Is
  <2>2. QED
    BY <2>1
<1>3. QED
  BY <1>1, <1>2

LEMMA HoldersByKind ==
    \A a \in Addr :
        Holders(a) = ParentRefs(heap, a) + HandleRefs(files, a) + FrameRefs(stack, a)
                       + Is(ret.dno, a) + Is(drop, a) + Is(root, a) + leaked[a]
<1> SUFFICES ASSUME NEW a \in Addr
             PROVE  Holders(a) = ParentRefs(heap, a) + HandleRefs(files, a)
                       + FrameRefs(stack, a)
                       + Is(ret.dno, a) + Is(drop, a) + Is(root, a) + leaked[a]
  OBVIOUS
<1>1. {b \in Live : heap[b].parent = a}
        = {b \in Addr : heap[b].refcount > 0 /\ heap[b].parent = a}
  BY DEF Live
<1>2. {f \in Handles : files[f].dnode = a}
        = {f \in Files : files[f] # NULL /\ files[f].dnode = a}
  BY DEF Handles
<1>3. /\ Cardinality({x \in {1} : ret.dno = a}) = Is(ret.dno, a)
      /\ Cardinality({x \in {1} : drop = a}) = Is(drop, a)
      /\ Cardinality({x \in {1} : root = a}) = Is(root, a)
  BY OneOrNone
<1>4. QED
  BY <1>1, <1>2, <1>3 DEF Holders, ParentRefs, HandleRefs, FrameRefs

(* Each kind of reference is a number.                                        *)
LEMMA ParentRefsType ==
    ASSUME NEW h, NEW a
    PROVE  ParentRefs(h, a) \in Nat
<1>1. {b \in Addr : h[b].refcount > 0 /\ h[b].parent = a} \in SUBSET Addr
  OBVIOUS
<1>2. QED
  BY <1>1, FS_Subset, FS_CardinalityType, BoundsAssumption DEF ParentRefs

LEMMA HandleRefsType ==
    ASSUME NEW fs, NEW a
    PROVE  HandleRefs(fs, a) \in Nat
<1>1. {f \in Files : fs[f] # NULL /\ fs[f].dnode = a} \in SUBSET Files
  OBVIOUS
<1>2. QED
  BY <1>1, FS_Subset, FS_CardinalityType, BoundsAssumption DEF HandleRefs

LEMMA FramesFinite ==
    ASSUME NEW st \in Seq(Frame), NEW T \in SUBSET DOMAIN st
    PROVE  IsFiniteSet(T) /\ Cardinality(T) \in Nat
<1>1. DOMAIN st = 1 .. Len(st) /\ Len(st) \in Nat
  BY LenProperties
<1>2. IsFiniteSet(DOMAIN st)
  BY <1>1, FS_Interval
<1>3. QED
  BY <1>2, FS_Subset, FS_CardinalityType

LEMMA FrameRefsType ==
    ASSUME NEW st \in Seq(Frame), NEW a
    PROVE  FrameRefs(st, a) \in Nat
<1>1. {i \in DOMAIN st : st[i].dno = a} \in SUBSET DOMAIN st
  OBVIOUS
<1>2. QED
  BY <1>1, FramesFinite DEF FrameRefs

(* A call returns, and a call is made.                                        *)
LEMMA PushRefs ==
    ASSUME NEW st \in Seq(Frame), NEW fr \in Frame, NEW a
    PROVE  FrameRefs(Append(st, fr), a) = FrameRefs(st, a) + Is(fr.dno, a)
<1> DEFINE S == {i \in DOMAIN st : st[i].dno = a}
           T == {i \in DOMAIN Append(st, fr) : Append(st, fr)[i].dno = a}
           n == Len(st) + 1
<1>1. Len(st) \in Nat /\ DOMAIN st = 1 .. Len(st) /\ DOMAIN Append(st, fr) = 1 .. n
  BY LenProperties, AppendProperties
<1>2. /\ \A i \in 1 .. Len(st) : Append(st, fr)[i] = st[i]
      /\ Append(st, fr)[n] = fr
  BY AppendProperties
<1>3. S \in SUBSET DOMAIN st
  OBVIOUS
<1>4. IsFiniteSet(S) /\ Cardinality(S) \in Nat
  BY <1>3, FramesFinite
<1>5. n \notin S
  BY <1>1
<1>6. T = IF fr.dno = a THEN S \union {n} ELSE S
  BY <1>1, <1>2
<1>7. Cardinality(T) = Cardinality(S) + Is(fr.dno, a)
  <2> HIDE DEF S, T, n
  <2>1. QED
    BY <1>4, <1>5, <1>6, OneMore
<1>8. QED
  BY <1>7 DEF FrameRefs

LEMMA CallerAndTop ==
    ASSUME stack \in Seq(Frame), stack # <<>>
    PROVE  /\ Caller \in Seq(Frame) /\ Top \in Frame
           /\ Len(Caller) = Len(stack) - 1
           /\ \A i \in 1 .. Len(stack) - 1 : Caller[i] = stack[i]
           /\ Top = stack[Len(stack)]
           /\ stack = Append(Caller, Top)
<1>1. Len(stack) \in Nat /\ Len(stack) > 0
  OBVIOUS
<1>2. Caller \in Seq(Frame) /\ Top \in Frame
  BY StackTypes
<1>3. \A i \in 1 .. Len(stack) - 1 : stack[i] \in Frame
  BY ElementOfSeq
<1>4. /\ Len(Caller) = Len(stack) - 1
      /\ \A i \in 1 .. Len(stack) - 1 : Caller[i] = stack[i]
  <2>1. Caller = SubSeq(stack, 1, Len(stack) - 1)
    BY DEF Caller, Front
  <2> DEFINE n == Len(stack) - 1
  <2>2. n \in Nat /\ 1 \in Int /\ n \in Int /\ \A i \in 1 .. n : stack[i] \in Frame
    BY <1>1, <1>3
  <2> HIDE DEF n
  <2>3. /\ Len(SubSeq(stack, 1, n)) = IF 1 <= n THEN n - 1 + 1 ELSE 0
        /\ \A i \in 1 .. n - 1 + 1 : SubSeq(stack, 1, n)[i] = stack[1 + i - 1]
    BY <2>2, SubSeqProperties
  <2>4. n - 1 + 1 = n /\ (~(1 <= n) => n = 0) /\ \A i \in 1 .. n : 1 + i - 1 = i
    BY <2>2
  <2>5. Len(SubSeq(stack, 1, n)) = n /\ \A i \in 1 .. n : SubSeq(stack, 1, n)[i] = stack[i]
    BY <2>2, <2>3, <2>4
  <2>6. QED
    BY <2>1, <2>5 DEF n
<1>5. Top = stack[Len(stack)]
  BY DEF Top, Last
<1>6. stack = Append(Caller, Top)
  <2>1. /\ Append(Caller, Top) \in Seq(Frame)
        /\ Len(Append(Caller, Top)) = Len(stack)
        /\ \A i \in 1 .. Len(stack) : Append(Caller, Top)[i] = stack[i]
    BY <1>1, <1>2, <1>4, <1>5, AppendProperties
  <2>2. QED
    BY <2>1, SeqEqual
<1>7. QED
  BY <1>2, <1>4, <1>5, <1>6

LEMMA PopRefs ==
    ASSUME stack \in Seq(Frame), stack # <<>>, NEW a
    PROVE  FrameRefs(stack, a) = FrameRefs(Caller, a) + Is(Top.dno, a)
<1>1. Caller \in Seq(Frame) /\ Top \in Frame /\ stack = Append(Caller, Top)
  BY CallerAndTop
<1>2. FrameRefs(Append(Caller, Top), a) = FrameRefs(Caller, a) + Is(Top.dno, a)
  BY <1>1, PushRefs
<1>3. QED
  BY <1>1, <1>2

LEMMA EmptyRefs ==
    ASSUME NEW a
    PROVE  FrameRefs(<<>>, a) = 0
<1>1. {i \in DOMAIN <<>> : <<>>[i].dno = a} = {}
  OBVIOUS
<1>2. QED
  BY <1>1, FS_EmptySet DEF FrameRefs

(* Retaining and filling change no dnode's parent, and make none live.        *)
LEMMA SameParentRefs ==
    ASSUME NEW h, NEW k,
           \A b \in Addr : /\ k[b].refcount > 0 <=> h[b].refcount > 0
                           /\ h[b].refcount > 0 => k[b].parent = h[b].parent
    PROVE  \A a : ParentRefs(k, a) = ParentRefs(h, a)
<1> TAKE a
<1> DEFINE S == {b \in Addr : k[b].refcount > 0 /\ k[b].parent = a}
           T == {b \in Addr : h[b].refcount > 0 /\ h[b].parent = a}
<1>1. ASSUME NEW b \in Addr
      PROVE  b \in S <=> b \in T
  <2>1. CASE h[b].refcount > 0
    <3>1. k[b].refcount > 0 /\ k[b].parent = h[b].parent
      BY <2>1
    <3>2. QED
      BY <2>1, <3>1
  <2>2. CASE ~(h[b].refcount > 0)
    <3>1. ~(k[b].refcount > 0)
      BY <2>2
    <3>2. QED
      BY <2>2, <3>1
  <2>3. QED
    BY <2>1, <2>2
<1>2. S \subseteq Addr /\ T \subseteq Addr
  OBVIOUS
<1>3. S = T
  <2> HIDE DEF S, T
  <2>1. QED
    BY <1>1, <1>2
<1>4. QED
  BY <1>3 DEF ParentRefs

LEMMA RetainRefs ==
    ASSUME NEW h \in [Addr -> Dnode], NEW x \in Addr, h[x].refcount > 0
    PROVE  /\ Retain(h, x) \in [Addr -> Dnode]
           /\ \A a \in Addr : /\ Retain(h, x)[a].refcount = h[a].refcount + Is(x, a)
                              /\ Retain(h, x)[a].parent = h[a].parent
           /\ \A a : ParentRefs(Retain(h, x), a) = ParentRefs(h, a)
<1>1. \A a \in Addr : h[a].refcount \in Nat
  BY DEF Dnode
<1>2. /\ Retain(h, x) \in [Addr -> Dnode]
      /\ \A a \in Addr : /\ Retain(h, x)[a].refcount = IF a = x THEN h[a].refcount + 1
                                                       ELSE h[a].refcount
                         /\ Retain(h, x)[a].parent = h[a].parent
  BY DEF Retain, Dnode
<1>3. \A a \in Addr : Retain(h, x)[a].refcount = h[a].refcount + Is(x, a)
  BY <1>1, <1>2 DEF Is
<1>4. \A b \in Addr : /\ Retain(h, x)[b].refcount > 0 <=> h[b].refcount > 0
                      /\ Retain(h, x)[b].parent = h[b].parent
  BY <1>1, <1>2
<1>5. \A a : ParentRefs(Retain(h, x), a) = ParentRefs(h, a)
  BY <1>4, SameParentRefs
<1>6. QED
  BY <1>2, <1>3, <1>5

LEMMA FillRefs ==
    ASSUME NEW h \in [Addr -> Dnode], NEW x \in Addr
    PROVE  /\ Fill(h, x) \in [Addr -> Dnode]
           /\ \A a \in Addr : /\ Fill(h, x)[a].refcount = h[a].refcount
                              /\ Fill(h, x)[a].parent = h[a].parent
           /\ \A a : ParentRefs(Fill(h, x), a) = ParentRefs(h, a)
<1>1. /\ Fill(h, x) \in [Addr -> Dnode]
      /\ \A a \in Addr : /\ Fill(h, x)[a].refcount = h[a].refcount
                         /\ Fill(h, x)[a].parent = h[a].parent
  BY DEF Fill, Dnode
<1>2. QED
  BY <1>1, SameParentRefs

(* A new dnode where there was none: one more child for its parent.           *)
LEMMA NewDnodeRefs ==
    ASSUME NEW h \in [Addr -> Dnode], NEW x \in Addr, ~(h[x].refcount > 0),
           NEW new \in Dnode, new.refcount = 1,
           NEW k \in [Addr -> Dnode], \A a \in Addr : k[a] = IF a = x THEN new ELSE h[a]
    PROVE  /\ \A a \in Addr : k[a].refcount = IF a = x THEN 1 ELSE h[a].refcount
           /\ \A a : ParentRefs(k, a) = ParentRefs(h, a) + Is(new.parent, a)
<1>1. \A a \in Addr : k[a] = IF a = x THEN new ELSE h[a]
  OBVIOUS
<1>2. ASSUME NEW a
      PROVE  ParentRefs(k, a) = ParentRefs(h, a) + Is(new.parent, a)
  <2> DEFINE S == {b \in Addr : h[b].refcount > 0 /\ h[b].parent = a}
             T == {b \in Addr : k[b].refcount > 0 /\ k[b].parent = a}
  <2>1. IsFiniteSet(S) /\ Cardinality(S) \in Nat
    <3>1. S \in SUBSET Addr
      OBVIOUS
    <3>2. QED
      BY <3>1, FS_Subset, FS_CardinalityType, BoundsAssumption
  <2>2. x \notin S
    OBVIOUS
  <2>3. T = IF new.parent = a THEN S \union {x} ELSE S
    BY <1>1
  <2> HIDE DEF S, T
  <2>4. Cardinality(T) = Cardinality(S) + Is(new.parent, a)
    BY <2>1, <2>2, <2>3, OneMore
  <2>5. QED
    BY <2>4 DEF ParentRefs, S, T
<1>3. QED
  BY <1>1, <1>2

LEMMA CreateRefs ==
    ASSUME NEW h \in [Addr -> Dnode], NEW p \in Addr, NEW id \in Ids, NEW x \in Addr,
           h[p].refcount > 0, ~(h[x].refcount > 0)
    PROVE  /\ Create(h, p, id, x) \in [Addr -> Dnode]
           /\ \A a \in Addr : Create(h, p, id, x)[a].refcount
                                 = IF a = x THEN 1 ELSE h[a].refcount + Is(p, a)
           /\ \A a \in Addr : Create(h, p, id, x)[a].parent = IF a = x THEN p ELSE h[a].parent
           /\ \A a : ParentRefs(Create(h, p, id, x), a) = ParentRefs(h, a) + Is(p, a)
<1> DEFINE g == Retain(h, p)
           new == [dnode_id |-> id, parent |-> p, refcount |-> 1, filled |-> FALSE]
<1>1. /\ g \in [Addr -> Dnode]
      /\ \A a \in Addr : /\ g[a].refcount = h[a].refcount + Is(p, a)
                         /\ g[a].parent = h[a].parent
      /\ \A a : ParentRefs(g, a) = ParentRefs(h, a)
  BY RetainRefs
<1>2. ~(g[x].refcount > 0)
  BY <1>1 DEF Is, Dnode
<1>3. new \in Dnode /\ new.refcount = 1 /\ new.parent = p
  BY DEF Dnode
<1>4. Create(h, p, id, x) = [g EXCEPT ![x] = new]
  BY DEF Create
<1> HIDE DEF g, new
<1> DEFINE k == Create(h, p, id, x)
<1>5. k = [g EXCEPT ![x] = new]
  BY <1>4
<1> HIDE DEF k
<1>6. k \in [Addr -> Dnode] /\ \A a \in Addr : k[a] = IF a = x THEN new ELSE g[a]
  BY <1>1, <1>3, <1>5
<1>7. /\ \A a \in Addr : k[a].refcount = IF a = x THEN 1 ELSE g[a].refcount
      /\ \A a : ParentRefs(k, a) = ParentRefs(g, a) + Is(new.parent, a)
  <2>1. g \in [Addr -> Dnode] /\ new \in Dnode /\ new.refcount = 1 /\ ~(g[x].refcount > 0)
    BY <1>1, <1>2, <1>3
  <2>2. QED
    BY <1>6, <2>1, NewDnodeRefs
<1>8. QED
  BY <1>1, <1>3, <1>6, <1>7 DEF k

(* A dnode is freed: its parent loses a child.                                *)
LEMMA FreedRefs ==
    ASSUME NEW h \in [Addr -> Dnode], NEW x \in Addr, h[x].refcount > 0, Free \in Dnode, NEW k \in [Addr -> Dnode],
           \A a \in Addr : k[a] = IF a = x THEN Free ELSE h[a]
    PROVE  /\ \A a \in Addr : k[a].refcount = IF a = x THEN 0 ELSE h[a].refcount
           /\ \A a : ParentRefs(h, a) = ParentRefs(k, a) + Is(h[x].parent, a)
<1>1. \A a \in Addr : k[a] = IF a = x THEN Free ELSE h[a]
  OBVIOUS
<1>2. Free.refcount = 0
  BY DEF Free
<1>3. ASSUME NEW a
      PROVE  ParentRefs(h, a) = ParentRefs(k, a) + Is(h[x].parent, a)
  <2> DEFINE S == {b \in Addr : k[b].refcount > 0 /\ k[b].parent = a}
             T == {b \in Addr : h[b].refcount > 0 /\ h[b].parent = a}
  <2>1. IsFiniteSet(S) /\ Cardinality(S) \in Nat
    <3>1. S \in SUBSET Addr
      OBVIOUS
    <3>2. QED
      BY <3>1, FS_Subset, FS_CardinalityType, BoundsAssumption
  <2>2. x \notin S
    BY <1>1, <1>2
  <2>3. T = IF h[x].parent = a THEN S \union {x} ELSE S
    BY <1>1, <1>2
  <2> HIDE DEF S, T
  <2>4. Cardinality(T) = Cardinality(S) + Is(h[x].parent, a)
    BY <2>1, <2>2, <2>3, OneMore
  <2>5. QED
    BY <2>4 DEF ParentRefs, S, T
<1>4. QED
  BY <1>1, <1>2, <1>3

(* A handle is opened, and one is closed.                                     *)
LEMMA OpenedRefs ==
    ASSUME NEW fs, NEW f \in Files, fs[f] = NULL, NEW new, new # NULL,
           NEW gs, \A g \in Files : gs[g] = IF g = f THEN new ELSE fs[g]
    PROVE  \A a : HandleRefs(gs, a) = HandleRefs(fs, a) + Is(new.dnode, a)
<1> TAKE a
<1> DEFINE S == {g \in Files : fs[g] # NULL /\ fs[g].dnode = a}
           T == {g \in Files : gs[g] # NULL /\ gs[g].dnode = a}
<1>1. IsFiniteSet(S) /\ Cardinality(S) \in Nat
  <2>1. S \in SUBSET Files
    OBVIOUS
  <2>2. QED
    BY <2>1, FS_Subset, FS_CardinalityType, BoundsAssumption
<1>2. f \notin S
  OBVIOUS
<1>3. T = IF new.dnode = a THEN S \union {f} ELSE S
  OBVIOUS
<1> HIDE DEF S, T
<1>4. Cardinality(T) = Cardinality(S) + Is(new.dnode, a)
  BY <1>1, <1>2, <1>3, OneMore
<1>5. QED
  BY <1>4 DEF HandleRefs, S, T

LEMMA ClosedRefs ==
    ASSUME NEW fs, NEW f \in Files, fs[f] # NULL,
           NEW gs, \A g \in Files : gs[g] = IF g = f THEN NULL ELSE fs[g]
    PROVE  \A a : HandleRefs(fs, a) = HandleRefs(gs, a) + Is(fs[f].dnode, a)
<1> DEFINE new == fs[f]
<1>1. /\ gs[f] = NULL /\ new # NULL
      /\ \A g \in Files : fs[g] = IF g = f THEN new ELSE gs[g]
  OBVIOUS
<1> HIDE DEF new
<1>2. \A a : HandleRefs(fs, a) = HandleRefs(gs, a) + Is(new.dnode, a)
  BY <1>1, OpenedRefs
<1>3. QED
  BY <1>2 DEF new

(* Moving a handle's position moves no reference.                             *)
LEMMA MovedRefs ==
    ASSUME NEW fs \in [Files -> [dnode : Addr, pos : Nat] \union {NULL}], NEW f \in Files,
           fs[f] # NULL, NEW p \in Nat
    PROVE  \A a : HandleRefs([fs EXCEPT ![f].pos = p], a) = HandleRefs(fs, a)
<1> TAKE a
<1> DEFINE gs == [fs EXCEPT ![f].pos = p]
<1>1. fs[f] \in [dnode : Addr, pos : Nat]
  OBVIOUS
<1>2. \A g \in Files : gs[g] = IF g = f THEN [fs[f] EXCEPT !.pos = p] ELSE fs[g]
  OBVIOUS
<1>3. /\ [fs[f] EXCEPT !.pos = p] \in [dnode : Addr, pos : Nat]
      /\ [fs[f] EXCEPT !.pos = p].dnode = fs[f].dnode
  BY <1>1
<1>4. gs[f] # NULL /\ gs[f].dnode = fs[f].dnode
  BY <1>2, <1>3, BoundsAssumption
<1> HIDE DEF gs
<1>5. {g \in Files : gs[g] # NULL /\ gs[g].dnode = a}
        = {g \in Files : fs[g] # NULL /\ fs[g].dnode = a}
  BY <1>2, <1>4
<1>6. QED
  BY <1>5 DEF HandleRefs, gs

------------------------------------------------------------------------------
(* The balance of an address: its reference count, and those who hold it.     *)

(* Everybody but the children. *)
Held(a) == HandleRefs(files, a) + FrameRefs(stack, a) + Is(ret.dno, a) + Is(drop, a)
             + Is(root, a) + leaked[a]

Balanced == \A a \in Addr : heap[a].refcount = ParentRefs(heap, a) + Held(a)

(* A client's open is the outermost call and the only one of its kind; the    *)
(* handle it is to fill is free; and a result is always somebody's to take.   *)
CallShape ==
    /\ \A i \in DOMAIN stack : stack[i].fn = "dir_open" <=> i = 1
    /\ stack # <<>> => /\ files[stack[1].file] = NULL
                       /\ stack[1].pc = "handle" => Len(stack) = 1 /\ ret = Nothing
    /\ stack = <<>> => ret = Nothing

RefInv == DnodeInv /\ Balanced /\ CallShape

LEMMA IsType == \A x, a : Is(x, a) \in 0 .. 1 /\ (x # a => Is(x, a) = 0) /\ Is(a, a) = 1
BY DEF Is

LEMMA HeldType ==
    ASSUME CallsTyped, NEW a \in Addr
    PROVE  /\ HandleRefs(files, a) \in Nat /\ FrameRefs(stack, a) \in Nat
           /\ leaked[a] \in Nat /\ Held(a) \in Nat
<1>1. /\ HandleRefs(files, a) \in Nat /\ FrameRefs(stack, a) \in Nat
      /\ leaked[a] \in Nat
  BY HandleRefsType, FrameRefsType DEF CallsTyped
<1>2. QED
  BY <1>1, IsType DEF Held

LEMMA HeldTypeNext ==
    ASSUME CallsTyped', NEW a \in Addr
    PROVE  /\ HandleRefs(files', a) \in Nat /\ FrameRefs(stack', a) \in Nat
           /\ leaked'[a] \in Nat /\ Held(a)' \in Nat
<1>1. /\ HandleRefs(files', a) \in Nat /\ FrameRefs(stack', a) \in Nat
      /\ leaked'[a] \in Nat
  BY HandleRefsType, FrameRefsType DEF CallsTyped
<1>2. QED
  BY <1>1, IsType DEF Held

LEMMA BalancedIsExact ==
    ASSUME CallsTyped
    PROVE  RefcountsAreExact <=> Balanced
<1>1. ASSUME NEW a \in Addr
      PROVE  Holders(a) = ParentRefs(heap, a) + Held(a)
  <2>1. /\ HandleRefs(files, a) \in Nat /\ FrameRefs(stack, a) \in Nat
        /\ leaked[a] \in Nat /\ ParentRefs(heap, a) \in Nat
    BY HeldType, ParentRefsType
  <2>2. QED
    BY <2>1, HoldersByKind, IsType DEF Held
<1>2. QED
  BY <1>1 DEF RefcountsAreExact, Balanced

(* A pointer anybody holds is to a live dnode.                                *)
LEMMA HeldIsLive ==
    ASSUME RefInv, NEW a \in Addr, Held(a) > 0 \/ ParentRefs(heap, a) > 0
    PROVE  heap[a].refcount > 0
<1>1. Held(a) \in Nat /\ ParentRefs(heap, a) \in Nat
  BY InvIsCallsTyped, HeldType, ParentRefsType DEF RefInv
<1>2. heap[a].refcount = ParentRefs(heap, a) + Held(a)
  BY DEF RefInv, Balanced
<1>3. QED
  BY <1>1, <1>2

LEMMA ParentIsLive ==
    ASSUME RefInv, NEW b \in Addr, heap[b].refcount > 0, NEW a \in Addr,
           heap[b].parent = a
    PROVE  heap[a].refcount > 0
<1> DEFINE S == {c \in Addr : heap[c].refcount > 0 /\ heap[c].parent = a}
<1>1. b \in S /\ S \in SUBSET Addr
  OBVIOUS
<1>2. IsFiniteSet(S)
  BY <1>1, FS_Subset, BoundsAssumption
<1>3. Cardinality(S) # 0
  BY <1>1, <1>2, FS_EmptySet
<1>4. ParentRefs(heap, a) > 0
  <2>1. ParentRefs(heap, a) # 0
    BY <1>3 DEF ParentRefs
  <2>2. QED
    BY <2>1, ParentRefsType
<1>5. QED
  BY <1>4, HeldIsLive

LEMMA PointersAreLive ==
    ASSUME RefInv
    PROVE  /\ \A a \in Addr : a \in {ret.dno, drop, root} => heap[a].refcount > 0
           /\ stack # <<>> /\ Top.dno \in Addr => heap[Top.dno].refcount > 0
           /\ \A f \in Files : files[f] # NULL => heap[files[f].dnode].refcount > 0
<1>0. CallsTyped
  BY InvIsCallsTyped DEF RefInv
<1>1. ASSUME NEW a \in Addr, a \in {ret.dno, drop, root}
      PROVE  heap[a].refcount > 0
  <2>1. Is(ret.dno, a) = 1 \/ Is(drop, a) = 1 \/ Is(root, a) = 1
    BY <1>1 DEF Is
  <2>2. Held(a) > 0
    BY <1>0, <2>1, HeldType, IsType DEF Held
  <2>3. QED
    BY <2>2, HeldIsLive
<1>2. ASSUME stack # <<>>, Top.dno \in Addr
      PROVE  heap[Top.dno].refcount > 0
  <2> DEFINE a == Top.dno
  <2>1. stack \in Seq(Frame)
    BY <1>0 DEF CallsTyped
  <2>2. /\ FrameRefs(stack, a) = FrameRefs(Caller, a) + Is(Top.dno, a)
        /\ FrameRefs(Caller, a) \in Nat
    BY <1>2, <2>1, PopRefs, CallerAndTop, FrameRefsType
  <2>3. Is(Top.dno, a) = 1 /\ a \in Addr
    BY <1>2, IsType
  <2> HIDE DEF a
  <2>4. FrameRefs(stack, a) > 0
    BY <2>2, <2>3
  <2>5. Held(a) > 0
    BY <1>0, <2>3, <2>4, HeldType, IsType DEF Held
  <2>6. QED
    BY <2>3, <2>5, HeldIsLive DEF a
<1>3. ASSUME NEW f \in Files, files[f] # NULL
      PROVE  heap[files[f].dnode].refcount > 0
  <2> DEFINE a == files[f].dnode
             gs == [files EXCEPT ![f] = NULL]
  <2>1. files \in [Files -> [dnode : Addr, pos : Nat] \union {NULL}]
    BY <1>0 DEF CallsTyped
  <2>2. a \in Addr
    BY <1>3, <2>1
  <2>3. HandleRefs(files, a) = HandleRefs(gs, a) + Is(files[f].dnode, a)
    <3>1. \A g \in Files : gs[g] = IF g = f THEN NULL ELSE files[g]
      BY <2>1
    <3> HIDE DEF gs, a
    <3>2. \A b : HandleRefs(files, b) = HandleRefs(gs, b) + Is(files[f].dnode, b)
      BY ONLY <1>3, <3>1, f \in Files, ClosedRefs
    <3>3. QED
      BY <3>2
  <2>4. Is(files[f].dnode, a) = 1 /\ HandleRefs(gs, a) \in Nat
    BY IsType, HandleRefsType
  <2> HIDE DEF a, gs
  <2>5. HandleRefs(files, a) > 0
    BY <2>3, <2>4
  <2>6. Held(a) > 0
    BY <1>0, <2>2, <2>5, HeldType, IsType DEF Held
  <2>7. QED
    BY <2>2, <2>6, HeldIsLive DEF a
<1>4. QED
  BY <1>1, <1>2, <1>3

(* What a step may do to the heap, and what it owes in return. At most one    *)
(* dnode gets a parent, a new one whose parent is there.                      *)
SameLink(h, k, a) == k[a].refcount > 0 /\ k[a].parent # NULL
                       => h[a].refcount > 0 /\ h[a].parent = k[a].parent

LinksGrow(h, k) ==
    \/ \A a \in Addr : SameLink(h, k, a)
    \/ \E x, p \in Addr : /\ ~(h[x].refcount > 0) /\ h[p].refcount > 0
                          /\ k[x].parent = p
                          /\ \A a \in Addr \ {x} : SameLink(h, k, a)

Accounted == Balanced' /\ LinksGrow(heap, heap')

LEMMA KeepsBalance ==
    ASSUME RefInv, CallsTyped',
           heap' = heap \/ \E x \in Addr : heap' = Fill(heap, x),
           \A a \in Addr : Held(a)' = Held(a)
    PROVE  Accounted
<1>1. heap \in [Addr -> Dnode]
  BY DEF RefInv, DnodeInv, TypeOK
<1>2. \A a \in Addr : /\ heap'[a].refcount = heap[a].refcount
                      /\ heap'[a].parent = heap[a].parent
                      /\ ParentRefs(heap', a) = ParentRefs(heap, a)
  BY <1>1, FillRefs
<1>3. Balanced'
  BY <1>2 DEF RefInv, Balanced
<1>4. QED
  BY <1>2, <1>3 DEF Accounted, LinksGrow, SameLink

LEMMA RetainBalances ==
    ASSUME RefInv, CallsTyped', NEW x \in Addr, heap[x].refcount > 0,
           heap' = Retain(heap, x) \/ \E y \in Addr : heap' = Retain(Fill(heap, y), x),
           \A a \in Addr : Held(a)' = Held(a) + Is(x, a)
    PROVE  Accounted
<1>1. heap \in [Addr -> Dnode]
  BY DEF RefInv, DnodeInv, TypeOK
<1>2. \A a \in Addr : /\ heap'[a].refcount = heap[a].refcount + Is(x, a)
                      /\ heap'[a].parent = heap[a].parent
                      /\ ParentRefs(heap', a) = ParentRefs(heap, a)
  <2>1. CASE heap' = Retain(heap, x)
    BY <1>1, <2>1, RetainRefs
  <2>2. ASSUME NEW y \in Addr, heap' = Retain(Fill(heap, y), x)
        PROVE  \A a \in Addr : /\ heap'[a].refcount = heap[a].refcount + Is(x, a)
                               /\ heap'[a].parent = heap[a].parent
                               /\ ParentRefs(heap', a) = ParentRefs(heap, a)
    <3> DEFINE g == Fill(heap, y)
    <3>1. /\ g \in [Addr -> Dnode] /\ g[x].refcount > 0
          /\ \A a \in Addr : /\ g[a].refcount = heap[a].refcount
                             /\ g[a].parent = heap[a].parent
          /\ \A a : ParentRefs(g, a) = ParentRefs(heap, a)
      BY <1>1, FillRefs
    <3> HIDE DEF g
    <3>2. /\ \A a \in Addr : /\ Retain(g, x)[a].refcount = g[a].refcount + Is(x, a)
                             /\ Retain(g, x)[a].parent = g[a].parent
          /\ \A a : ParentRefs(Retain(g, x), a) = ParentRefs(g, a)
      BY <3>1, RetainRefs
    <3>3. QED
      BY <2>2, <3>1, <3>2 DEF g
  <2>3. QED
    BY <2>1, <2>2
<1>3. \A a \in Addr : /\ heap[a].refcount = ParentRefs(heap, a) + Held(a)
                      /\ ParentRefs(heap, a) \in Nat /\ Held(a) \in Nat
  BY HeldType, ParentRefsType, InvIsCallsTyped DEF RefInv, Balanced
<1>4. Balanced'
  BY <1>2, <1>3, IsType DEF Balanced
<1>5. ASSUME NEW a \in Addr, heap'[a].refcount > 0
      PROVE  heap[a].refcount > 0
  <2>1. heap'[a].refcount = heap[a].refcount + Is(x, a) /\ heap[a].refcount \in Nat
    BY <1>1, <1>2 DEF Dnode
  <2>2. x # a => Is(x, a) = 0
    BY IsType
  <2>3. QED
    BY <1>5, <2>1, <2>2
<1>6. QED
  BY <1>2, <1>4, <1>5 DEF Accounted, LinksGrow, SameLink

(* The first holder of a new dnode; its parent has one more child.            *)
LEMMA CreateBalances ==
    ASSUME RefInv, CallsTyped', NEW p \in Addr, heap[p].refcount > 0, NEW id \in Ids,
           NEW x \in Addr, ~(heap[x].refcount > 0),
           NEW h \in [Addr -> Dnode],
           \A a \in Addr : h[a].refcount = heap[a].refcount /\ h[a].parent = heap[a].parent,
           \A a : ParentRefs(h, a) = ParentRefs(heap, a),
           heap' = Create(h, p, id, x) \/ heap' = Fill(Create(h, p, id, x), x),
           \A a \in Addr : Held(a)' = Held(a) + Is(x, a)
    PROVE  Accounted
<1> DEFINE g == Create(h, p, id, x)
<1>1. /\ g \in [Addr -> Dnode]
      /\ \A a \in Addr : /\ g[a].refcount = IF a = x THEN 1 ELSE h[a].refcount + Is(p, a)
                         /\ g[a].parent = IF a = x THEN p ELSE h[a].parent
      /\ \A a : ParentRefs(g, a) = ParentRefs(h, a) + Is(p, a)
  BY CreateRefs
<1>2. heap' = g \/ heap' = Fill(g, x)
  OBVIOUS
<1> HIDE DEF g
<1>3. \A a \in Addr : /\ heap'[a].refcount = g[a].refcount
                      /\ heap'[a].parent = g[a].parent
                      /\ ParentRefs(heap', a) = ParentRefs(g, a)
  BY <1>1, <1>2, FillRefs
<1>4. \A a \in Addr : /\ heap[a].refcount = ParentRefs(heap, a) + Held(a)
                      /\ ParentRefs(heap, a) \in Nat /\ Held(a) \in Nat
  BY HeldType, ParentRefsType, InvIsCallsTyped DEF RefInv, Balanced
<1>5. ASSUME NEW a \in Addr
      PROVE  heap'[a].refcount = ParentRefs(heap', a) + Held(a)'
  <2>1. CASE a = x
    <3>1. ParentRefs(heap, a) = 0 /\ Held(a) = 0
      BY <1>4, <2>1
    <3>2. Is(p, a) = 0 /\ Is(x, a) = 1
      BY <2>1, IsType
    <3>3. QED
      BY <1>1, <1>3, <2>1, <3>1, <3>2
  <2>2. CASE a # x
    <3>1. Is(x, a) = 0
      BY <2>2, IsType
    <3>2. QED
      BY <1>1, <1>3, <1>4, <2>2, <3>1, IsType
  <2>3. QED
    BY <2>1, <2>2
<1>6. LinksGrow(heap, heap')
  <2>1. heap'[x].parent = p
    BY <1>1, <1>3
  <2>2. ASSUME NEW a \in Addr \ {x}, heap'[a].refcount > 0
        PROVE  heap[a].refcount > 0 /\ heap'[a].parent = heap[a].parent
    <3>1. /\ heap'[a].refcount = heap[a].refcount + Is(p, a)
          /\ heap'[a].parent = heap[a].parent
      BY <1>1, <1>3
    <3>2. p # a => Is(p, a) = 0
      BY IsType
    <3>3. heap[a].refcount \in Nat
      BY <1>4
    <3>4. QED
      BY <2>2, <3>1, <3>2, <3>3
  <2>3. QED
    BY <2>1, <2>2 DEF LinksGrow, SameLink
<1>7. QED
  BY <1>5, <1>6 DEF Accounted, Balanced

(* Freeing the last reference of a dnode passes the one on its parent on.     *)
LEMMA ReleaseBalances ==
    ASSUME RefInv, CallsTyped', Release
    PROVE  Accounted
<1>1. /\ drop \in Addr /\ heap \in [Addr -> Dnode] /\ CallsTyped
      /\ heap[drop].refcount > 0 /\ heap[drop].refcount \in Nat
  <2>1. drop \in Addr /\ heap \in [Addr -> Dnode] /\ CallsTyped
    BY InvIsCallsTyped DEF RefInv, DnodeInv, TypeOK, Release
  <2>2. QED
    BY <2>1, PointersAreLive DEF Dnode
<1>2. UNCHANGED <<root, files, stack, ret, leaked>>
  BY DEF Release
<1>3. \A a \in Addr : /\ Held(a) \in Nat /\ Held(a)' \in Nat
                      /\ Held(a)' + Is(drop, a) = Held(a) + Is(drop', a)
  BY <1>1, <1>2, HeldType, IsType DEF Held
<1>4. \A a \in Addr : /\ heap[a].refcount = ParentRefs(heap, a) + Held(a)
                      /\ ParentRefs(heap, a) \in Nat
  BY ParentRefsType DEF RefInv, Balanced
<1>5. CASE heap[drop].refcount > 1
  <2>1. heap' = [heap EXCEPT ![drop].refcount = @ - 1] /\ drop' = NULL
    BY <1>5 DEF Release
  <2>2. \A a \in Addr : /\ heap'[a].refcount = IF a = drop THEN heap[a].refcount - 1
                                                          ELSE heap[a].refcount
                       /\ heap'[a].parent = heap[a].parent
    BY <1>1, <2>1 DEF Dnode
  <2>3. \A a \in Addr : /\ heap'[a].refcount > 0 <=> heap[a].refcount > 0
                        /\ heap[a].refcount > 0 => heap'[a].parent = heap[a].parent
    BY <1>1, <1>5, <2>2
  <2>4. \A a \in Addr : ParentRefs(heap', a) = ParentRefs(heap, a)
    BY <2>3, SameParentRefs
  <2>5. \A a \in Addr : Is(drop', a) = 0
    BY <2>1, IsType, BoundsAssumption
  <2>6. \A a \in Addr : heap'[a].refcount = heap[a].refcount - Is(drop, a)
    BY <1>1, <1>4, <1>3, <2>2 DEF Is
  <2>7. Balanced'
    BY <1>3, <1>4, <2>4, <2>5, <2>6, IsType DEF Balanced
  <2>8. QED
    BY <2>3, <2>7 DEF Accounted, LinksGrow, SameLink
<1>6. CASE ~(heap[drop].refcount > 1)
  <2>1. heap' = [heap EXCEPT ![drop] = Free] /\ drop' = heap[drop].parent
    BY <1>6 DEF Release
  <2>2. Free \in Dnode
    BY DiskAssumption DEF Free, Dnode
  <2>3. /\ \A a \in Addr : heap'[a].refcount = IF a = drop THEN 0 ELSE heap[a].refcount
        /\ \A a \in Addr : ParentRefs(heap, a) = ParentRefs(heap', a) + Is(drop', a)
    <3>1. /\ heap' \in [Addr -> Dnode]
          /\ \A a \in Addr : heap'[a] = IF a = drop THEN Free ELSE heap[a]
      BY <1>1, <2>1, <2>2
    <3>2. /\ \A a \in Addr : heap'[a].refcount = IF a = drop THEN 0 ELSE heap[a].refcount
          /\ \A a : ParentRefs(heap, a) = ParentRefs(heap', a) + Is(heap[drop].parent, a)
      BY <1>1, <2>2, <3>1, FreedRefs
    <3>3. QED
      BY <2>1, <3>2
  <2>4. heap[drop].refcount = 1
    BY <1>1, <1>6
  <2>5. \A a \in Addr : ParentRefs(heap', a) \in Nat
    BY ParentRefsType
  <2>6. \A a \in Addr : heap'[a].refcount = heap[a].refcount - Is(drop, a)
    BY <1>1, <1>3, <1>4, <2>3, <2>4 DEF Is
  <2>7. Balanced'
    BY <1>3, <1>4, <2>3, <2>5, <2>6, IsType DEF Balanced
  <2>8. \A a \in Addr : heap'[a].refcount > 0 => heap'[a] = heap[a]
    BY <1>1, <2>1, <2>2, <2>3
  <2>9. QED
    BY <2>7, <2>8 DEF Accounted, LinksGrow, SameLink
<1>7. QED
  BY <1>5, <1>6

(* What the calls do to the references held. The innermost call returns; it   *)
(* fails; it moves on to another dnode; it makes a call of its own.           *)
LEMMA ReturnHeld ==
    ASSUME CallsTyped, CallsTyped', stack # <<>>, stack' = Caller, UNCHANGED <<root, files>>,
           NEW a \in Addr
    PROVE  Held(a)' + Is(Top.dno, a) + Is(ret.dno, a) + Is(drop, a) + leaked[a]
             = Held(a) + Is(ret'.dno, a) + Is(drop', a) + leaked'[a]
<1>1. /\ FrameRefs(stack, a) = FrameRefs(stack', a) + Is(Top.dno, a)
  BY PopRefs DEF CallsTyped
<1>2. /\ HandleRefs(files, a) \in Nat /\ FrameRefs(stack, a) \in Nat
      /\ leaked[a] \in Nat /\ leaked'[a] \in Nat /\ FrameRefs(stack', a) \in Nat
  BY HeldType, FrameRefsType DEF CallsTyped
<1>3. HandleRefs(files', a) = HandleRefs(files, a) /\ Is(root', a) = Is(root, a)
  OBVIOUS
<1>4. /\ Is(ret.dno, a) \in Nat /\ Is(ret'.dno, a) \in Nat /\ Is(drop, a) \in Nat
      /\ Is(drop', a) \in Nat /\ Is(root, a) \in Nat /\ Is(Top.dno, a) \in Nat
  BY IsType
<1>5. Held(a) = HandleRefs(files, a) + (FrameRefs(stack', a) + Is(Top.dno, a))
                  + Is(ret.dno, a) + Is(drop, a) + Is(root, a) + leaked[a]
  BY <1>1 DEF Held
<1>6. Held(a)' = HandleRefs(files, a) + FrameRefs(stack', a) + Is(ret'.dno, a)
                   + Is(drop', a) + Is(root, a) + leaked'[a]
  BY <1>3 DEF Held
<1>7. QED
  BY ONLY <1>2, <1>4, <1>5, <1>6

LEMMA FailHeld ==
    ASSUME CallsTyped, CallsTyped', stack # <<>>, drop = NULL, FailTop,
           UNCHANGED <<root, files>>, NEW a \in Addr
    PROVE  Held(a)' + Is(ret.dno, a) + leaked[a] = Held(a) + leaked'[a]
<1>1. stack' = Caller /\ drop' = Top.dno /\ ret'.dno = NULL
  BY DEF FailTop, Error
<1>2. Is(ret'.dno, a) = 0 /\ Is(drop, a) = 0
  BY <1>1, IsType, BoundsAssumption
<1>3. /\ Held(a) \in Nat /\ Held(a)' \in Nat /\ leaked[a] \in Nat /\ leaked'[a] \in Nat
  BY HeldType, HeldTypeNext
<1>4. Held(a)' + Is(Top.dno, a) + Is(ret.dno, a) + Is(drop, a) + leaked[a]
        = Held(a) + Is(ret'.dno, a) + Is(drop', a) + leaked'[a]
  BY <1>1, ReturnHeld
<1>5. Is(Top.dno, a) \in Nat /\ Is(ret.dno, a) \in Nat /\ Is(drop', a) = Is(Top.dno, a)
  BY <1>1, IsType
<1>6. QED
  BY <1>2, <1>3, <1>4, <1>5

LEMMA MoveHeld ==
    ASSUME CallsTyped, CallsTyped', stack # <<>>, drop = NULL,
           NEW frame, NEW x \in Addr, MoveTo(frame, x), [frame EXCEPT !.dno = x] \in Frame,
           [frame EXCEPT !.dno = x].dno = x,
           UNCHANGED <<root, files, leaked>>, NEW a \in Addr
    PROVE  Held(a)' + Is(ret.dno, a) = Held(a) + Is(x, a)
<1> DEFINE fr == [frame EXCEPT !.dno = x]
<1>1. stack' = Append(Caller, fr) /\ drop' = Top.dno /\ ret'.dno = NULL
  BY DEF MoveTo, WithTop, Nothing
<1>2. fr \in Frame /\ fr.dno = x
  OBVIOUS
<1> HIDE DEF fr
<1>3. FrameRefs(stack', a) = FrameRefs(Caller, a) + Is(x, a)
  BY <1>1, <1>2, CallerAndTop, PushRefs DEF CallsTyped
<1>4. FrameRefs(stack, a) = FrameRefs(Caller, a) + Is(Top.dno, a)
  BY PopRefs DEF CallsTyped
<1>5. FrameRefs(Caller, a) \in Nat
  BY CallerAndTop, FrameRefsType DEF CallsTyped
<1>6. HandleRefs(files', a) = HandleRefs(files, a) /\ root' = root /\ leaked' = leaked
  OBVIOUS
<1>7. HandleRefs(files, a) \in Nat /\ leaked[a] \in Nat
  BY HeldType
<1>8. Is(ret'.dno, a) = 0 /\ Is(drop, a) = 0
  BY <1>1, IsType, BoundsAssumption
<1>9. QED
  BY <1>1, <1>3, <1>4, <1>5, <1>6, <1>7, <1>8, IsType DEF Held

LEMMA CallHeld ==
    ASSUME CallsTyped, NEW frame \in Frame, stack' = Append(stack, frame),
           UNCHANGED <<root, files, ret, drop, leaked>>, NEW a \in Addr
    PROVE  Held(a)' = Held(a) + Is(frame.dno, a)
<1>1. FrameRefs(stack', a) = FrameRefs(stack, a) + Is(frame.dno, a)
  BY PushRefs DEF CallsTyped
<1>2. /\ HandleRefs(files, a) \in Nat /\ FrameRefs(stack, a) \in Nat /\ leaked[a] \in Nat
  BY HeldType
<1>3. /\ HandleRefs(files', a) = HandleRefs(files, a) /\ Is(root', a) = Is(root, a)
      /\ Is(ret'.dno, a) = Is(ret.dno, a) /\ Is(drop', a) = Is(drop, a)
      /\ leaked' = leaked
  OBVIOUS
<1>4. /\ Is(ret.dno, a) \in Nat /\ Is(drop, a) \in Nat /\ Is(root, a) \in Nat
      /\ Is(frame.dno, a) \in Nat
  BY IsType
<1>5. QED
  BY <1>1, <1>2, <1>3, <1>4 DEF Held

(* The names of the two steps a call that holds no result takes most.         *)
LEMMA LeakHeld ==
    ASSUME leaked \in [Addr -> Nat], NEW x \in Addr, leaked' = [leaked EXCEPT ![x] = @ + 1],
           NEW a \in Addr
    PROVE  leaked'[a] = leaked[a] + Is(x, a)
BY DEF Is

LEMMA NextFrame ==
    ASSUME Top \in PathFrame, Top.rest # <<>>, NEW x \in Addr
    PROVE  /\ [NextComponent EXCEPT !.dno = x] \in Frame
           /\ [NextComponent EXCEPT !.dno = x].dno = x
<1>1. Tail(Top.rest) \in Seq(STRING)
  BY HeadTailProperties DEF PathFrame
<1>2. QED
  BY <1>1 DEF NextComponent, PathFrame, Frame

(* A call that holds no result fails, or moves on to a dnode it retained.     *)
LEMMA FailBalances ==
    ASSUME RefInv, CallsTyped', stack # <<>>, drop = NULL, ret.dno = NULL, FailTop,
           UNCHANGED <<root, files, leaked>>,
           heap' = heap \/ \E x \in Addr : heap' = Fill(heap, x)
    PROVE  Accounted
<1>1. ASSUME NEW a \in Addr
      PROVE  Held(a)' = Held(a)
  <2>1. Held(a)' + Is(ret.dno, a) + leaked[a] = Held(a) + leaked'[a]
    BY FailHeld, InvIsCallsTyped DEF RefInv
  <2>2. leaked' = leaked /\ leaked[a] \in Nat /\ Held(a) \in Nat /\ Held(a)' \in Nat
    BY HeldType, HeldTypeNext, InvIsCallsTyped DEF RefInv
  <2>3. Is(ret.dno, a) = 0
    BY IsType, BoundsAssumption
  <2>4. QED
    BY <2>1, <2>2, <2>3
<1>2. QED
  BY <1>1, KeepsBalance

LEMMA MoveRetainHeld ==
    ASSUME RefInv, CallsTyped', stack # <<>>, drop = NULL, ret.dno = NULL,
           Top \in PathFrame, Top.rest # <<>>,
           NEW x \in Addr, MoveTo(NextComponent, x), UNCHANGED <<root, files, leaked>>
    PROVE  \A a \in Addr : Held(a)' = Held(a) + Is(x, a)
<1> SUFFICES ASSUME NEW a \in Addr PROVE Held(a)' = Held(a) + Is(x, a)
  OBVIOUS
<1> DEFINE frame == NextComponent
<1>1. [frame EXCEPT !.dno = x] \in Frame /\ [frame EXCEPT !.dno = x].dno = x
  BY NextFrame
<1>2. MoveTo(frame, x)
  OBVIOUS
<1> HIDE DEF frame
<1>3. Held(a)' + Is(ret.dno, a) = Held(a) + Is(x, a)
  BY <1>1, <1>2, MoveHeld, InvIsCallsTyped DEF RefInv
<1>4. Held(a) \in Nat /\ Held(a)' \in Nat
  BY HeldType, HeldTypeNext, InvIsCallsTyped DEF RefInv
<1>5. Is(ret.dno, a) = 0 /\ Is(x, a) \in Nat
  BY IsType, BoundsAssumption
<1>6. QED
  BY ONLY <1>3, <1>4, <1>5

(* Handing a result over to the caller that waits for it.                     *)
LEMMA TakeResultBalances ==
    ASSUME RefInv, CallsTyped', stack # <<>>, drop = NULL, NEW frame, ret.dno \in Addr,
           MoveTo(frame, ret.dno), [frame EXCEPT !.dno = ret.dno] \in Frame,
           [frame EXCEPT !.dno = ret.dno].dno = ret.dno,
           UNCHANGED <<heap, root, files, leaked>>
    PROVE  Accounted
<1>1. ASSUME NEW a \in Addr
      PROVE  Held(a)' = Held(a)
  <2> DEFINE x == ret.dno
  <2>1. /\ x \in Addr /\ MoveTo(frame, x) /\ [frame EXCEPT !.dno = x] \in Frame
        /\ [frame EXCEPT !.dno = x].dno = x
    OBVIOUS
  <2> HIDE DEF x
  <2>2. Held(a)' + Is(ret.dno, a) = Held(a) + Is(x, a)
    BY <2>1, MoveHeld, InvIsCallsTyped DEF RefInv
  <2>3. Held(a) \in Nat /\ Held(a)' \in Nat
    BY HeldType, HeldTypeNext, InvIsCallsTyped DEF RefInv
  <2>4. Is(ret.dno, a) = Is(x, a) /\ Is(x, a) \in Nat
    BY IsType DEF x
  <2>5. QED
    BY ONLY <2>2, <2>3, <2>4
<1>2. QED
  BY <1>1, KeepsBalance

(* A call made of a dnode that was retained for it.                           *)
LEMMA CallBalances ==
    ASSUME RefInv, CallsTyped', NEW frame \in Frame, frame.dno \in Addr,
           heap[frame.dno].refcount > 0, stack' = Append(stack, frame),
           UNCHANGED <<root, files, ret, drop, leaked>>,
           heap' = Retain(heap, frame.dno)
             \/ \E y \in Addr : heap' = Retain(Fill(heap, y), frame.dno)
    PROVE  Accounted
<1> DEFINE x == frame.dno
<1>1. \A a \in Addr : Held(a)' = Held(a) + Is(x, a)
  BY CallHeld, InvIsCallsTyped DEF RefInv
<1>2. /\ x \in Addr /\ heap[x].refcount > 0
      /\ heap' = Retain(heap, x) \/ \E y \in Addr : heap' = Retain(Fill(heap, y), x)
  OBVIOUS
<1> HIDE DEF x
<1>3. QED
  BY <1>1, <1>2, RetainBalances

LEMMA LookupPathBalances ==
    ASSUME RefInv, CallsTyped', LookupPath
    PROVE  Accounted
<1> USE DiskAssumption, BoundsAssumption
<1>1. CallsTyped /\ DnodeInv
  BY InvIsCallsTyped DEF RefInv
<1>2. Running("lookup_path")
  BY DEF LookupPath, PathDone, PathEmptyComponent, PathFillFails, PathSymlink,
     PathSymlinkResolved, PathSymlinkFails, PathNotDirectory, PathSpecialName,
     PathLookupFails, PathLookup, PathNameAllocFails, AtDirectory, AtName, InPath
<1>3. /\ Top \in PathFrame /\ root \in Addr /\ stack # <<>> /\ drop = NULL
      /\ Top.dno \in Addr
  BY <1>1, <1>2, Operands DEF PathFrame, Running
<1>4. heap[Top.dno].refcount > 0 /\ heap[root].refcount > 0
  BY <1>3, PointersAreLive
<1>5. root' = root /\ files' = files
  BY DEF LookupPath, PathDone, PathEmptyComponent, PathFillFails, PathSymlink,
     PathSymlinkResolved, PathSymlinkFails, PathNotDirectory, PathSpecialName,
     PathLookupFails, PathLookup, PathNameAllocFails
<1>6. ret = Nothing \/ ret = Error => ret.dno = NULL
  BY DEF Nothing, Error
<1>7. CASE PathFillFails \/ PathSymlinkFails \/ PathLookupFails
  <2>1. /\ FailTop /\ leaked' = leaked /\ heap' \in {heap, Fill(heap, Top.dno)}
        /\ ret = Nothing \/ ret = Error
    BY <1>7 DEF PathFillFails, PathSymlinkFails, PathLookupFails, AtDirectory, AtName, InPath
  <2>2. QED
    BY <1>3, <1>5, <1>6, <2>1, FailBalances
<1>8. ASSUME NEW x \in Addr, heap[x].refcount > 0, MoveTo(NextComponent, x),
             heap' = Retain(heap, x) \/ heap' = Retain(Fill(heap, Top.dno), x),
             Top.rest # <<>>, ret = Nothing, leaked' = leaked
      PROVE  Accounted
  <2>1. \A a \in Addr : Held(a)' = Held(a) + Is(x, a)
    BY <1>3, <1>5, <1>6, <1>8, MoveRetainHeld
  <2>2. heap' = Retain(heap, x) \/ \E y \in Addr : heap' = Retain(Fill(heap, y), x)
    BY <1>3, <1>8
  <2>3. QED
    BY <1>8, <2>1, <2>2, RetainBalances
<1>9. CASE PathEmptyComponent
  BY <1>3, <1>4, <1>8, <1>9 DEF PathEmptyComponent, InPath
<1>10. CASE PathSpecialName
  <2>1. /\ Top.rest # <<>> /\ ret = Nothing /\ leaked' = leaked
    BY <1>10 DEF PathSpecialName, AtDirectory, AtName, InPath
  <2> DEFINE child == IF Head(Top.rest) = "." THEN Top.dno ELSE heap[Top.dno].parent
  <2>2. CASE child = NULL
    <3>1. FailTop /\ heap' = Fill(heap, Top.dno)
      BY <1>10, <2>2 DEF PathSpecialName
    <3>2. QED
      BY <1>3, <1>5, <1>6, <2>1, <3>1, FailBalances
  <2>3. CASE child # NULL
    <3>1. heap' = Retain(Fill(heap, Top.dno), child) /\ MoveTo(NextComponent, child)
      BY <1>10, <2>3 DEF PathSpecialName
    <3>2. heap[Top.dno].parent \in Addr \union {NULL}
      BY <1>1, <1>3, Operands DEF Dnode
    <3>3. child \in Addr
      BY <1>3, <2>3, <3>2
    <3>4. heap[child].refcount > 0
      BY <1>3, <1>4, <3>3, ParentIsLive
    <3> HIDE DEF child
    <3>5. QED
      BY <1>8, <2>1, <3>1, <3>3, <3>4
  <2>4. QED
    BY <2>2, <2>3
<1>11. CASE PathSymlink
  <2>1. ResolveCall(Top.dno) \in Frame /\ ResolveCall(Top.dno).dno = Top.dno
    BY <1>3 DEF ResolveCall, Frame, ResolveFrame
  <2>2. /\ heap' = Retain(Fill(heap, Top.dno), Top.dno)
        /\ stack' = Append(stack, ResolveCall(Top.dno))
        /\ UNCHANGED <<root, files, ret, drop, leaked>>
    BY <1>11 DEF PathSymlink
  <2>3. QED
    BY <1>3, <1>4, <2>1, <2>2, CallBalances
<1>12. CASE PathSymlinkResolved
  <2>1. ret.dno \in Addr /\ MoveTo(Top, ret.dno) /\ UNCHANGED <<heap, root, files, leaked>>
    BY <1>1, <1>12, Operands DEF PathSymlinkResolved
  <2>2. [Top EXCEPT !.dno = ret.dno] \in Frame /\ [Top EXCEPT !.dno = ret.dno].dno = ret.dno
    BY <1>3, <2>1 DEF PathFrame, Frame
  <2>3. QED
    BY <1>3, <2>1, <2>2, TakeResultBalances
<1>13. CASE PathDone \/ PathNotDirectory
  <2>1. /\ stack' = Caller /\ drop' = drop /\ ret.dno = NULL
        /\ heap' \in {heap, Fill(heap, Top.dno)}
    <3>1. CASE PathDone
      BY <3>1 DEF PathDone, InPath, Nothing
    <3>2. CASE PathNotDirectory
      BY <3>2 DEF PathNotDirectory, AtName, InPath, Nothing
    <3>3. QED
      BY <1>13, <3>1, <3>2
  <2>2. \A a \in Addr : Is(ret'.dno, a) + leaked'[a] = leaked[a] + Is(Top.dno, a)
    <3>1. CASE ret' = Found(Top.dno) /\ leaked' = leaked
      <4>1. ret'.dno = Top.dno
        BY <3>1 DEF Found
      <4>2. \A a \in Addr : leaked[a] \in Nat /\ Is(Top.dno, a) \in Nat
        BY <1>1, HeldType, IsType
      <4>3. QED
        BY <3>1, <4>1, <4>2
    <3>2. CASE ret' = Error /\ leaked' = [leaked EXCEPT ![Top.dno] = @ + 1]
      <4>1. \A a \in Addr : leaked'[a] = leaked[a] + Is(Top.dno, a)
        BY <1>1, <1>3, <3>2, LeakHeld DEF CallsTyped
      <4>2. \A a \in Addr : leaked[a] \in Nat /\ Is(Top.dno, a) \in Nat
        BY <1>1, HeldType, IsType
      <4>3. \A a \in Addr : Is(ret'.dno, a) = 0
        BY <3>2, IsType DEF Error
      <4>4. QED
        BY <4>1, <4>2, <4>3
    <3>3. QED
      BY <1>13, <3>1, <3>2 DEF PathDone, PathNotDirectory
  <2>3. ASSUME NEW a \in Addr
        PROVE  Held(a)' = Held(a)
    <3>1. Held(a)' + Is(Top.dno, a) + Is(ret.dno, a) + Is(drop, a) + leaked[a]
            = Held(a) + Is(ret'.dno, a) + Is(drop', a) + leaked'[a]
      BY <1>1, <1>3, <1>5, <2>1, ReturnHeld
    <3>2. /\ Held(a) \in Nat /\ Held(a)' \in Nat /\ leaked[a] \in Nat /\ leaked'[a] \in Nat
      BY <1>1, HeldType, HeldTypeNext
    <3>3. /\ Is(ret.dno, a) = 0 /\ Is(drop, a) = 0 /\ Is(drop', a) = 0
          /\ Is(Top.dno, a) \in Nat /\ Is(ret'.dno, a) \in Nat
      BY <1>3, <2>1, IsType
    <3>4. Is(ret'.dno, a) + leaked'[a] = leaked[a] + Is(Top.dno, a)
      BY <2>2
    <3>5. Held(a)' + Is(Top.dno, a) + leaked[a] = Held(a) + Is(ret'.dno, a) + leaked'[a]
      BY ONLY <3>1, <3>2, <3>3
    <3>6. QED
      BY ONLY <3>2, <3>3, <3>4, <3>5
  <2>4. QED
    BY <1>3, <2>1, <2>3, KeepsBalance
<1>14. CASE PathNameAllocFails
  <2>1. /\ heap' = Retain(Fill(heap, Top.dno), Top.dno) /\ FailTop /\ ret.dno = NULL
        /\ leaked' = [leaked EXCEPT ![Top.dno] = @ + 1]
    BY <1>14 DEF PathNameAllocFails, AtDirectory, AtName, InPath, Nothing
  <2>2. ASSUME NEW a \in Addr
        PROVE  Held(a)' = Held(a) + Is(Top.dno, a)
    <3>1. Held(a)' + Is(ret.dno, a) + leaked[a] = Held(a) + leaked'[a]
      BY <1>1, <1>3, <1>5, <2>1, FailHeld
    <3>2. /\ Held(a) \in Nat /\ Held(a)' \in Nat /\ leaked[a] \in Nat
      BY <1>1, HeldType, HeldTypeNext
    <3>3. Is(ret.dno, a) = 0 /\ Is(Top.dno, a) \in Nat
      BY <2>1, IsType
    <3>4. leaked'[a] = leaked[a] + Is(Top.dno, a)
      BY <1>1, <1>3, <2>1, LeakHeld DEF CallsTyped
    <3>5. QED
      BY ONLY <3>1, <3>2, <3>3, <3>4
  <2>3. QED
    BY <1>3, <1>4, <2>1, <2>2, RetainBalances
<1>15. CASE PathLookup
  <2>1. /\ Top.rest # <<>> /\ ret = Nothing /\ leaked' = leaked
    BY <1>15 DEF PathLookup, AtDirectory, AtName, InPath
  <2>2. PICK i \in Named(heap[Top.dno].dnode_id, Head(Top.rest)) :
           LET id == Dir[heap[Top.dno].dnode_id][i].id IN
           \/ \E a \in Known(id) :
                 /\ heap' = Retain(Fill(heap, Top.dno), a)
                 /\ MoveTo(NextComponent, a)
           \/ /\ Known(id) = {} /\ Live # Addr
              /\ heap' = Create(Fill(heap, Top.dno), Top.dno, id, FreeAddr)
              /\ MoveTo(NextComponent, FreeAddr)
    BY <1>15 DEF PathLookup
  <2> DEFINE id == Dir[heap[Top.dno].dnode_id][i].id
  <2>3. id \in Ids
    <3>1. Kind[heap[Top.dno].dnode_id] = "dir" /\ heap[Top.dno].dnode_id \in Ids
      BY <1>1, <1>3, <1>15, Operands DEF PathLookup, AtDirectory, KindAt, Dnode
    <3>2. QED
      BY <1>1, <2>2, <3>1, Operands DEF Named
  <2>4. ASSUME NEW a \in Known(id), heap' = Retain(Fill(heap, Top.dno), a),
               MoveTo(NextComponent, a)
        PROVE  Accounted
    <3>1. a \in Addr /\ heap[a].refcount > 0
      BY <1>1 DEF Known, DnodeInv, TypeOK, Live
    <3>2. QED
      BY <1>8, <2>1, <2>4, <3>1
  <2>5. CASE /\ Known(id) = {} /\ Live # Addr
             /\ heap' = Create(Fill(heap, Top.dno), Top.dno, id, FreeAddr)
             /\ MoveTo(NextComponent, FreeAddr)
    <3> DEFINE h == Fill(heap, Top.dno)
               x == FreeAddr
    <3>1. x \in Addr /\ ~(heap[x].refcount > 0)
      BY <2>5, FreeAddrIsFree DEF Live
    <3>2. /\ h \in [Addr -> Dnode]
          /\ \A a \in Addr : h[a].refcount = heap[a].refcount /\ h[a].parent = heap[a].parent
          /\ \A a : ParentRefs(h, a) = ParentRefs(heap, a)
      BY <1>1, <1>3, FillRefs DEF DnodeInv, TypeOK
    <3>3. heap' = Create(h, Top.dno, id, x) /\ MoveTo(NextComponent, x)
      BY <2>5
    <3> HIDE DEF h, x, id
    <3>4. \A a \in Addr : Held(a)' = Held(a) + Is(x, a)
      BY <1>3, <1>5, <1>6, <2>1, <3>1, <3>3, MoveRetainHeld
    <3>5. QED
      BY <1>3, <1>4, <2>3, <3>1, <3>2, <3>3, <3>4, CreateBalances
  <2>6. QED
    BY <2>2, <2>4, <2>5
<1>16. QED
  BY <1>7, <1>9, <1>10, <1>11, <1>12, <1>13, <1>14, <1>15 DEF LookupPath

LEMMA ResolveBalances ==
    ASSUME RefInv, CallsTyped', Resolve
    PROVE  Accounted
<1> USE DiskAssumption, BoundsAssumption
<1>1. CallsTyped /\ DnodeInv
  BY InvIsCallsTyped DEF RefInv
<1>2. Running("resolve")
  BY DEF Resolve, ResolveDone, ResolveReadFails, ResolveFollow, ResolveStepDone,
     ResolveFails, InResolve
<1>3. /\ Top \in ResolveFrame /\ stack # <<>> /\ drop = NULL /\ Top.dno \in Addr
  BY <1>1, <1>2, Operands DEF ResolveFrame, Running
<1>4. heap[Top.dno].refcount > 0
  BY <1>3, PointersAreLive
<1>5. root' = root /\ files' = files /\ leaked' = leaked
  BY DEF Resolve, ResolveDone, ResolveReadFails, ResolveFollow, ResolveStepDone,
     ResolveFails
<1>6. ret = Nothing \/ ret = Error => ret.dno = NULL
  BY DEF Nothing, Error
<1>7. CASE ResolveReadFails \/ ResolveFails
  <2>1. FailTop /\ heap' = heap /\ (ret = Nothing \/ ret = Error)
    BY <1>7 DEF ResolveReadFails, ResolveFails, InResolve
  <2>2. QED
    BY <1>3, <1>5, <1>6, <2>1, FailBalances
<1>8. CASE ResolveDone
  <2>1. /\ stack' = Caller /\ drop' = drop /\ ret.dno = NULL /\ ret'.dno = Top.dno
        /\ heap' = Fill(heap, Top.dno)
    BY <1>8 DEF ResolveDone, InResolve, Nothing, Found
  <2>2. ASSUME NEW a \in Addr
        PROVE  Held(a)' = Held(a)
    <3>1. Held(a)' + Is(Top.dno, a) + Is(ret.dno, a) + Is(drop, a) + leaked[a]
            = Held(a) + Is(ret'.dno, a) + Is(drop', a) + leaked'[a]
      BY <1>1, <1>3, <1>5, <2>1, ReturnHeld
    <3>2. Held(a) \in Nat /\ Held(a)' \in Nat /\ leaked[a] \in Nat /\ leaked' = leaked
      BY <1>1, <1>5, HeldType, HeldTypeNext
    <3>3. /\ Is(ret.dno, a) = 0 /\ Is(drop, a) = 0 /\ Is(drop', a) = 0
          /\ Is(Top.dno, a) \in Nat /\ Is(ret'.dno, a) = Is(Top.dno, a)
      BY <1>3, <2>1, IsType
    <3>4. QED
      BY ONLY <3>1, <3>2, <3>3
  <2>3. QED
    BY <1>3, <2>1, <2>2, KeepsBalance
<1>9. CASE ResolveFollow
  <2> DEFINE id == heap[Top.dno].dnode_id
             parent == heap[Top.dno].parent
             frame == PathCall(parent, Target[id])
  <2>1. parent \in Addr /\ id \in Ids
    BY <1>1, <1>3, <1>9, Operands DEF Dnode, ResolveFollow
  <2>2. Target[id] \in Seq(STRING)
    BY <1>9, <2>1 DEF ResolveFollow, KindAt, DiskAssumption
  <2>3. frame \in Frame /\ frame.dno = parent
    <3> HIDE DEF parent, id
    <3>1. QED
      BY <2>1, <2>2 DEF PathCall, Frame, PathFrame
  <2>4. heap[parent].refcount > 0
    BY <1>3, <1>4, <2>1, ParentIsLive
  <2>5. /\ heap' = Retain(Fill(heap, Top.dno), parent) /\ stack' = Append(stack, frame)
        /\ UNCHANGED <<root, files, ret, drop, leaked>>
    BY <1>9 DEF ResolveFollow
  <2> HIDE DEF frame, parent, id
  <2>6. QED
    BY <1>3, <2>1, <2>3, <2>4, <2>5, CallBalances
<1>10. CASE ResolveStepDone
  <2>1. ret.dno \in Addr /\ MoveTo(Top, ret.dno) /\ UNCHANGED <<heap, root, files, leaked>>
    BY <1>1, <1>10, Operands DEF ResolveStepDone
  <2>2. [Top EXCEPT !.dno = ret.dno] \in Frame /\ [Top EXCEPT !.dno = ret.dno].dno = ret.dno
    BY <1>3, <2>1 DEF ResolveFrame, Frame
  <2>3. QED
    BY <1>3, <2>1, <2>2, TakeResultBalances
<1>11. QED
  BY <1>7, <1>8, <1>9, <1>10 DEF Resolve

LEMMA DirOpenBalances ==
    ASSUME RefInv, CallsTyped', DirOpen
    PROVE  Accounted
<1> USE DiskAssumption, BoundsAssumption
<1>1. CallsTyped /\ DnodeInv
  BY InvIsCallsTyped DEF RefInv
<1>2. Running("dir_open")
  BY DEF DirOpen, OpenLookedUp, OpenResolved, OpenHandle, OpenFails
<1>3. /\ Top \in OpenFrame /\ stack # <<>> /\ drop = NULL
      /\ Top.dno \in Addr \union {NULL} /\ Top.file \in Files
  BY <1>1, <1>2, Operands DEF OpenFrame, Running
<1>4. root' = root /\ leaked' = leaked
  BY DEF DirOpen, OpenLookedUp, OpenResolved, OpenHandle, OpenFails
<1>5. CASE OpenLookedUp
  <2> DEFINE x == ret.dno
             fr == [Top EXCEPT !.dno = x, !.pc = "resolve"]
  <2>1. x \in Addr /\ Top.dno = NULL
    BY <1>1, <1>3, <1>5, Operands DEF OpenLookedUp, OpenFrame
  <2>2. fr \in Frame /\ fr.dno = x
    BY <1>3, <1>5, <2>1 DEF OpenFrame, Frame, OpenLookedUp
  <2>3. ResolveCall(x) \in Frame /\ ResolveCall(x).dno = x
    BY <2>1 DEF ResolveCall, ResolveFrame, Frame
  <2>4. /\ stack' = Append(Caller, fr) \o <<ResolveCall(x)>> /\ drop' = drop
        /\ ret' = Nothing /\ files' = files /\ heap' = Retain(heap, x)
    BY <1>5 DEF OpenLookedUp, WithTop
  <2> HIDE DEF fr
  <2>5. Caller \in Seq(Frame) /\ Append(Caller, fr) \in Seq(Frame)
    BY <1>1, <1>3, <2>2, CallerAndTop DEF CallsTyped
  <2>6. stack' = Append(Append(Caller, fr), ResolveCall(x))
    BY <2>3, <2>4, <2>5
  <2>7. heap[x].refcount > 0
    BY <2>1, PointersAreLive
  <2>8. ASSUME NEW a \in Addr
        PROVE  Held(a)' = Held(a) + Is(x, a)
    <3>1. FrameRefs(stack', a) = FrameRefs(Append(Caller, fr), a) + Is(ResolveCall(x).dno, a)
      BY <2>3, <2>5, <2>6, PushRefs
    <3>2. FrameRefs(Append(Caller, fr), a) = FrameRefs(Caller, a) + Is(fr.dno, a)
      BY <2>2, <2>5, PushRefs
    <3>3. FrameRefs(stack, a) = FrameRefs(Caller, a) + Is(Top.dno, a)
      BY <1>1, <1>3, PopRefs DEF CallsTyped
    <3>4. /\ FrameRefs(Caller, a) \in Nat /\ HandleRefs(files, a) \in Nat
          /\ leaked[a] \in Nat
      BY <1>1, <2>5, FrameRefsType, HeldType
    <3>5. /\ Is(Top.dno, a) = 0 /\ Is(ret'.dno, a) = 0 /\ Is(drop, a) = 0 /\ Is(drop', a) = 0
          /\ Is(x, a) \in Nat /\ Is(root, a) \in Nat
      BY <1>3, <2>1, <2>4, IsType DEF Nothing
    <3>6. Held(a)' = HandleRefs(files, a) + ((FrameRefs(Caller, a) + Is(x, a)) + Is(x, a))
                       + 0 + 0 + Is(root, a) + leaked[a]
      BY <1>4, <2>2, <2>3, <2>4, <3>1, <3>2, <3>5 DEF Held
    <3>7. Held(a) = HandleRefs(files, a) + (FrameRefs(Caller, a) + 0)
                      + Is(x, a) + 0 + Is(root, a) + leaked[a]
      BY <3>3, <3>5 DEF Held
    <3>8. QED
      BY ONLY <3>4, <3>5, <3>6, <3>7
  <2> HIDE DEF x
  <2>9. QED
    BY <2>1, <2>4, <2>7, <2>8, RetainBalances
<1>6. CASE OpenResolved
  <2> DEFINE fr == [Top EXCEPT !.pc = "handle"]
  <2>1. /\ ret.dno \in Addr /\ MoveTo(fr, ret.dno)
        /\ UNCHANGED <<heap, root, files, leaked>>
    BY <1>1, <1>6, Operands DEF OpenResolved
  <2>2. /\ [fr EXCEPT !.dno = ret.dno] \in Frame
        /\ [fr EXCEPT !.dno = ret.dno].dno = ret.dno
    BY <1>3, <1>6, <2>1 DEF OpenFrame, Frame, OpenResolved
  <2> HIDE DEF fr
  <2>3. QED
    BY <1>3, <2>1, <2>2, TakeResultBalances
<1>7. CASE OpenFails
  <2>1. /\ stack' = Caller /\ drop' = Top.dno /\ ret'.dno = NULL /\ ret.dno = NULL
        /\ heap' = heap /\ files' = files
    BY <1>7 DEF OpenFails, Nothing, Error
  <2>2. ASSUME NEW a \in Addr
        PROVE  Held(a)' = Held(a)
    <3>1. Held(a)' + Is(Top.dno, a) + Is(ret.dno, a) + Is(drop, a) + leaked[a]
            = Held(a) + Is(ret'.dno, a) + Is(drop', a) + leaked'[a]
      BY <1>1, <1>3, <1>4, <2>1, ReturnHeld
    <3>2. Held(a) \in Nat /\ Held(a)' \in Nat /\ leaked[a] \in Nat /\ leaked' = leaked
      BY <1>1, <1>4, HeldType, HeldTypeNext
    <3>3. /\ Is(ret.dno, a) = 0 /\ Is(drop, a) = 0 /\ Is(ret'.dno, a) = 0
          /\ Is(Top.dno, a) \in Nat /\ Is(drop', a) = Is(Top.dno, a)
      BY <1>3, <2>1, IsType
    <3>4. QED
      BY ONLY <3>1, <3>2, <3>3
  <2>3. QED
    BY <2>1, <2>2, KeepsBalance
<1>8. CASE OpenHandle
  <2> DEFINE x == Top.dno
             f == Top.file
  <2>1. /\ x \in Addr /\ stack' = Caller /\ drop' = x /\ ret' = ret
    BY <1>3, <1>8 DEF OpenHandle, OpenFrame
  <2>2. files[f] = NULL
    <3>1. Top = stack[Len(stack)] /\ Len(stack) \in DOMAIN stack
      <4>1. stack \in Seq(Frame) /\ stack # <<>>
        BY <1>1, <1>3 DEF CallsTyped
      <4>2. Top = stack[Len(stack)]
        BY ONLY <4>1, CallerAndTop
      <4>3. Len(stack) \in DOMAIN stack
        BY ONLY <4>1, LenProperties
      <4>4. QED
        BY <4>2, <4>3
    <3>2. Len(stack) = 1
      BY <1>2, <3>1 DEF RefInv, CallShape, Running
    <3>3. QED
      BY <1>3, <3>1, <3>2 DEF RefInv, CallShape
  <2>3. heap[x].refcount > 0
    BY <1>3, <2>1, PointersAreLive
  <2> HIDE DEF x, f
  <2>4. \A a \in Addr : FrameRefs(stack, a) = FrameRefs(stack', a) + Is(x, a)
    BY <1>1, <1>3, <2>1, PopRefs DEF CallsTyped, x
  <2>5. \A a \in Addr : /\ FrameRefs(stack', a) \in Nat /\ leaked[a] \in Nat
                        /\ HandleRefs(files, a) \in Nat
                        /\ HandleRefs(files', a) \in Nat
    BY <1>1, HeldType, HeldTypeNext
  <2>6. \A a \in Addr : /\ Is(drop, a) = 0 /\ Is(drop', a) = Is(x, a) /\ Is(x, a) \in Nat
                        /\ Is(ret'.dno, a) = Is(ret.dno, a) /\ Is(ret.dno, a) \in Nat
                        /\ Is(root, a) \in Nat
    BY <1>3, <2>1, IsType
  <2>7. \A a \in Addr :
           Held(a)' + HandleRefs(files, a) = Held(a) + HandleRefs(files', a)
    <3> SUFFICES ASSUME NEW a \in Addr
                 PROVE  Held(a)' + HandleRefs(files, a) = Held(a) + HandleRefs(files', a)
      OBVIOUS
    <3>1. Held(a)' = HandleRefs(files', a) + FrameRefs(stack', a) + Is(ret.dno, a)
                       + Is(x, a) + Is(root, a) + leaked[a]
      BY <1>4, <2>6 DEF Held
    <3>2. Held(a) = HandleRefs(files, a) + (FrameRefs(stack', a) + Is(x, a)) + Is(ret.dno, a)
                      + 0 + Is(root, a) + leaked[a]
      BY <2>4, <2>6 DEF Held
    <3>3. QED
      BY ONLY <2>5, <2>6, <3>1, <3>2, a \in Addr
  <2>8. CASE KindAt(Top.dno) \in {"file", "dir"}
    <3> DEFINE new == [dnode |-> x, pos |-> 0]
    <3>1. heap' = Retain(heap, x) /\ files' = [files EXCEPT ![f] = new]
      BY <1>8, <2>8 DEF OpenHandle, x, f
    <3>2. new \in [dnode : Addr, pos : Nat] /\ new # NULL /\ new.dnode = x
      BY <2>1
    <3>3. files \in [Files -> [dnode : Addr, pos : Nat] \union {NULL}] /\ f \in Files
      BY <1>1, <1>3 DEF CallsTyped, f
    <3> HIDE DEF new
    <3>4. \A a \in Addr : HandleRefs(files', a) = HandleRefs(files, a) + Is(x, a)
      <4>1. \A g \in Files : files'[g] = IF g = f THEN new ELSE files[g]
        BY <3>1, <3>3
      <4>2. \A a : HandleRefs(files', a) = HandleRefs(files, a) + Is(new.dnode, a)
        BY <2>2, <3>2, <3>3, <4>1, OpenedRefs
      <4>3. QED
        BY <3>2, <4>2
    <3>5. ASSUME NEW a \in Addr
          PROVE  Held(a)' = Held(a) + Is(x, a)
      <4>1. Held(a) \in Nat /\ Held(a)' \in Nat
        BY <1>1, HeldType, HeldTypeNext
      <4>2. QED
        BY ONLY <2>5, <2>6, <2>7, <3>4, <4>1, a \in Addr
    <3>6. QED
      BY <2>1, <2>3, <3>1, <3>5, RetainBalances
  <2>9. CASE KindAt(Top.dno) \notin {"file", "dir"}
    <3>1. heap' = heap /\ files' = files
      BY <1>8, <2>9 DEF OpenHandle
    <3>2. ASSUME NEW a \in Addr
          PROVE  Held(a)' = Held(a)
      <4>1. Held(a) \in Nat /\ Held(a)' \in Nat /\ HandleRefs(files', a) = HandleRefs(files, a)
        BY <1>1, <3>1, HeldType, HeldTypeNext
      <4>2. QED
        BY ONLY <2>5, <2>7, <4>1, a \in Addr
    <3>3. QED
      BY <3>1, <3>2, KeepsBalance
  <2>10. QED
    BY <2>8, <2>9
<1>9. QED
  BY <1>5, <1>6, <1>7, <1>8 DEF DirOpen

LEMMA HostBalances ==
    ASSUME RefInv, CallsTyped', Host
    PROVE  Accounted
<1> USE DiskAssumption, BoundsAssumption
<1>1. CallsTyped /\ DnodeInv /\ heap \in [Addr -> Dnode]
  BY InvIsCallsTyped DEF RefInv, DnodeInv, TypeOK
<1>2. \A a \in Addr : /\ HandleRefs(files, a) \in Nat /\ FrameRefs(stack, a) \in Nat
                      /\ leaked[a] \in Nat /\ Held(a) \in Nat /\ Held(a)' \in Nat
                      /\ HandleRefs(files', a) \in Nat
  BY <1>1, HeldType, HeldTypeNext
<1>3. \A a \in Addr : /\ Is(ret.dno, a) \in Nat /\ Is(drop, a) \in Nat /\ Is(root, a) \in Nat
                      /\ Is(drop', a) \in Nat /\ Is(root', a) \in Nat
  BY IsType
<1>4. \A x, a : Is(x, a) \in Nat
  BY IsType
<1>5. ASSUME NEW f \in Files, OpenVolume(f)
      PROVE  Accounted
  <2> DEFINE new == [dnode |-> root, pos |-> 0]
  <2>1. /\ root \in Addr /\ files[f] = NULL /\ heap' = Retain(Fill(heap, root), root)
        /\ files' = [files EXCEPT ![f] = new]
        /\ UNCHANGED <<root, stack, ret, drop, leaked>>
    BY <1>1, <1>5 DEF OpenVolume, Idle, CallsTyped
  <2>2. new \in [dnode : Addr, pos : Nat] /\ new # NULL /\ new.dnode = root
    BY <2>1
  <2>3. files \in [Files -> [dnode : Addr, pos : Nat] \union {NULL}]
    BY <1>1 DEF CallsTyped
  <2> HIDE DEF new
  <2>4. \A a : HandleRefs(files', a) = HandleRefs(files, a) + Is(new.dnode, a)
    <3>1. \A g \in Files : files'[g] = IF g = f THEN new ELSE files[g]
      BY <2>1, <2>3
    <3>2. files[f] = NULL /\ new # NULL
      BY <2>1, <2>2
    <3>3. QED
      BY ONLY <3>1, <3>2, f \in Files, OpenedRefs
  <2>5. ASSUME NEW a \in Addr
        PROVE  Held(a)' = Held(a) + Is(root, a)
    <3>1. Held(a)' = HandleRefs(files', a) + FrameRefs(stack, a) + Is(ret.dno, a)
                       + Is(drop, a) + Is(root, a) + leaked[a]
      BY <2>1 DEF Held
    <3>2. HandleRefs(files', a) = HandleRefs(files, a) + Is(root, a)
      BY <2>2, <2>4
    <3>3. QED
      BY ONLY <1>2, <1>3, <3>1, <3>2, a \in Addr DEF Held
  <2>6. heap[root].refcount > 0
    BY <2>1, PointersAreLive
  <2>7. QED
    BY <2>1, <2>5, <2>6, RetainBalances
<1>6. ASSUME NEW f \in Files, Close(f)
      PROVE  Accounted
  <2>1. /\ files[f] # NULL /\ drop = NULL /\ drop' = files[f].dnode
        /\ files' = [files EXCEPT ![f] = NULL]
        /\ UNCHANGED <<heap, root, stack, ret, leaked>>
    BY <1>6 DEF Close, Idle
  <2>2. files \in [Files -> [dnode : Addr, pos : Nat] \union {NULL}]
    BY <1>1 DEF CallsTyped
  <2>3. \A a : HandleRefs(files, a) = HandleRefs(files', a) + Is(files[f].dnode, a)
    <3>1. \A g \in Files : files'[g] = IF g = f THEN NULL ELSE files[g]
      BY <2>1, <2>2
    <3>2. files[f] # NULL
      BY <2>1
    <3>3. QED
      BY ONLY <3>1, <3>2, f \in Files, ClosedRefs
  <2>4. ASSUME NEW a \in Addr
        PROVE  Held(a)' = Held(a)
    <3>1. Held(a)' = HandleRefs(files', a) + FrameRefs(stack, a) + Is(ret.dno, a)
                       + Is(drop', a) + Is(root, a) + leaked[a]
      BY <2>1 DEF Held
    <3>2. HandleRefs(files, a) = HandleRefs(files', a) + Is(drop', a) /\ Is(drop, a) = 0
      BY <2>1, <2>3, IsType
    <3>3. QED
      BY ONLY <1>2, <1>3, <3>1, <3>2, a \in Addr DEF Held
  <2>5. QED
    BY <2>1, <2>4, KeepsBalance
<1>7. ASSUME NEW f \in Files, Rewind(f)
      PROVE  Accounted
  <2>1. /\ files[f] # NULL /\ files' = [files EXCEPT ![f].pos = 0]
        /\ UNCHANGED <<heap, root, stack, ret, drop, leaked>>
    BY <1>7 DEF Rewind
  <2>2. files \in [Files -> [dnode : Addr, pos : Nat] \union {NULL}]
    BY <1>1 DEF CallsTyped
  <2>3. \A a : HandleRefs(files', a) = HandleRefs(files, a)
    <3>1. 0 \in Nat /\ f \in Files
      OBVIOUS
    <3>2. \A a : HandleRefs([files EXCEPT ![f].pos = 0], a) = HandleRefs(files, a)
      BY ONLY <2>1, <2>2, <3>1, MovedRefs
    <3>3. QED
      BY <2>1, <3>2
  <2>4. \A a \in Addr : Held(a)' = Held(a)
    BY <2>1, <2>3 DEF Held
  <2>5. QED
    BY <2>1, <2>4, KeepsBalance
<1>8. ASSUME NEW f \in Files, ReadEntry(f)
      PROVE  Accounted
  <2> DEFINE d == files[f].dnode
             child == Dir[heap[d].dnode_id][files[f].pos + 1].id
             p == files[f].pos + 1
  <2>1. /\ files[f] # NULL /\ drop = NULL /\ files' = [files EXCEPT ![f].pos = p]
        /\ UNCHANGED <<root, stack, ret, leaked>>
    BY <1>8 DEF ReadEntry, Idle
  <2>2. /\ files \in [Files -> [dnode : Addr, pos : Nat] \union {NULL}]
        /\ files[f] \in [dnode : Addr, pos : Nat]
    BY <1>1, <1>8, Operands DEF CallsTyped, ReadEntry
  <2>3. d \in Addr /\ p \in Nat /\ heap[d].refcount > 0
    BY <2>1, <2>2, PointersAreLive
  <2>4. \A a : HandleRefs(files', a) = HandleRefs(files, a)
    <3> HIDE DEF p
    <3>1. p \in Nat /\ f \in Files
      BY <2>3
    <3>2. \A a : HandleRefs([files EXCEPT ![f].pos = p], a) = HandleRefs(files, a)
      BY ONLY <2>1, <2>2, <3>1, MovedRefs
    <3>3. QED
      BY <2>1, <3>2
  <2>5. \A a \in Addr : Held(a)' = Held(a) + Is(drop', a)
    <3> SUFFICES ASSUME NEW a \in Addr PROVE Held(a)' = Held(a) + Is(drop', a)
      OBVIOUS
    <3>1. Held(a)' = HandleRefs(files, a) + FrameRefs(stack, a) + Is(ret.dno, a)
                       + Is(drop', a) + Is(root, a) + leaked[a]
      BY <2>1, <2>4 DEF Held
    <3>2. Is(drop, a) = 0
      BY <2>1, IsType
    <3>3. QED
      BY ONLY <1>2, <1>3, <3>1, <3>2, a \in Addr DEF Held
  <2>6. \/ \E a \in Known(child) :
              /\ heap' = Retain(Fill(heap, a), a) \/ heap' = Retain(heap, a)
              /\ drop' = a
        \/ /\ Known(child) = {} /\ Live # Addr
           /\ \/ heap' = Create(heap, d, child, FreeAddr)
              \/ heap' = Fill(Create(heap, d, child, FreeAddr), FreeAddr)
           /\ drop' = FreeAddr
    BY <1>8 DEF ReadEntry
  <2>7. child \in Ids
    <3>1. Kind[heap[d].dnode_id] = "dir" /\ heap[d].dnode_id \in Ids
      BY <1>1, <1>8, <2>2 DEF ReadEntry, KindAt, Dnode
    <3>2. Dir[heap[d].dnode_id] \in Seq([name : STRING, id : Ids])
      BY <3>1 DEF DiskAssumption
    <3>3. files[f].pos \in Nat /\ files[f].pos < Len(Dir[heap[d].dnode_id])
      BY <1>8, <2>2 DEF ReadEntry
    <3>4. p \in DOMAIN Dir[heap[d].dnode_id]
      <4>1. DOMAIN Dir[heap[d].dnode_id] = 1 .. Len(Dir[heap[d].dnode_id])
            /\ Len(Dir[heap[d].dnode_id]) \in Nat
        BY <3>2, LenProperties
      <4> HIDE DEF d
      <4>2. QED
        BY <3>3, <4>1
    <3>5. QED
      BY <1>1, <3>1, <3>4, Operands
  <2> HIDE DEF child, p
  <2>8. ASSUME NEW a \in Known(child),
               heap' = Retain(Fill(heap, a), a) \/ heap' = Retain(heap, a), drop' = a
        PROVE  Accounted
    <3>1. a \in Addr /\ heap[a].refcount > 0
      BY <1>1 DEF Known, DnodeInv, TypeOK, Live
    <3>2. \A b \in Addr : Held(b)' = Held(b) + Is(a, b)
      BY <2>5, <2>8
    <3>3. QED
      BY <2>8, <3>1, <3>2, RetainBalances
  <2>9. CASE /\ Known(child) = {} /\ Live # Addr
             /\ \/ heap' = Create(heap, d, child, FreeAddr)
                \/ heap' = Fill(Create(heap, d, child, FreeAddr), FreeAddr)
             /\ drop' = FreeAddr
    <3> DEFINE x == FreeAddr
    <3>1. x \in Addr /\ ~(heap[x].refcount > 0)
      BY <2>9, FreeAddrIsFree DEF Live
    <3>2. heap' = Create(heap, d, child, x) \/ heap' = Fill(Create(heap, d, child, x), x)
      BY <2>9
    <3>3. \A a \in Addr : Held(a)' = Held(a) + Is(x, a)
      BY <2>5, <2>9
    <3> HIDE DEF d, x
    <3>4. QED
      BY <1>1, <2>3, <2>7, <3>1, <3>2, <3>3, CreateBalances
  <2>10. QED
    BY <2>6, <2>8, <2>9
<1>9. ASSUME NEW f \in Files, ReadNameAllocFails(f)
      PROVE  Accounted
  <2> DEFINE d == files[f].dnode
  <2>1. /\ files[f] # NULL /\ heap' = Retain(heap, d)
        /\ leaked' = [leaked EXCEPT ![d] = @ + 1]
        /\ UNCHANGED <<root, files, stack, ret, drop>>
    BY <1>9 DEF ReadNameAllocFails
  <2>2. d \in Addr /\ heap[d].refcount > 0
    BY <1>1, <2>1, Operands, PointersAreLive
  <2> HIDE DEF d
  <2>3. ASSUME NEW a \in Addr
        PROVE  Held(a)' = Held(a) + Is(d, a)
    <3>1. leaked'[a] = leaked[a] + Is(d, a)
      BY <1>1, <2>1, <2>2, LeakHeld DEF CallsTyped
    <3>2. Held(a)' = HandleRefs(files, a) + FrameRefs(stack, a) + Is(ret.dno, a)
                       + Is(drop, a) + Is(root, a) + leaked'[a]
      BY <2>1 DEF Held
    <3>3. QED
      BY ONLY <1>2, <1>3, <1>4, <3>1, <3>2, a \in Addr DEF Held
  <2>4. QED
    BY <2>1, <2>2, <2>3, RetainBalances
<1>10. ASSUME NEW dir \in Files, NEW f \in Files, NEW path \in Paths, Open(dir, f, path)
       PROVE  Accounted
  <2> DEFINE d == files[dir].dnode
             outer == OpenCall(f, dir, path)
             inner == PathCall(d, path)
  <2>1. /\ files[dir] # NULL /\ heap' = Retain(heap, d) /\ stack = <<>>
        /\ stack' = <<outer, inner>> /\ UNCHANGED <<root, files, ret, drop, leaked>>
    BY <1>10 DEF Open, Calls, Idle
  <2>2. d \in Addr /\ heap[d].refcount > 0
    BY <1>1, <2>1, Operands, PointersAreLive
  <2>3. outer \in Frame /\ outer.dno = NULL
    BY DEF OpenCall, OpenFrame, Frame
  <2>4. inner \in Frame /\ inner.dno = d
    BY <2>2 DEF PathCall, PathFrame, Frame, DiskAssumption
  <2> HIDE DEF d, outer, inner
  <2>5. stack' = Append(Append(<<>>, outer), inner)
    BY <2>1
  <2>6. <<>> \in Seq(Frame) /\ Append(<<>>, outer) \in Seq(Frame)
    BY <2>3
  <2>7. ASSUME NEW a \in Addr
        PROVE  Held(a)' = Held(a) + Is(d, a)
    <3>1. FrameRefs(stack', a) = FrameRefs(Append(<<>>, outer), a) + Is(d, a)
      BY <2>4, <2>5, <2>6, PushRefs
    <3>2. FrameRefs(Append(<<>>, outer), a) = FrameRefs(<<>>, a) + Is(NULL, a)
      BY <2>3, <2>6, PushRefs
    <3>3. FrameRefs(<<>>, a) = 0 /\ Is(NULL, a) = 0 /\ FrameRefs(stack, a) = 0
      BY <2>1, EmptyRefs, IsType
    <3>4. Held(a)' = HandleRefs(files, a) + Is(d, a) + Is(ret.dno, a)
                       + Is(drop, a) + Is(root, a) + leaked[a]
      BY <1>4, <2>1, <3>1, <3>2, <3>3 DEF Held
    <3>5. Held(a) = HandleRefs(files, a) + 0 + Is(ret.dno, a) + Is(drop, a) + Is(root, a)
                      + leaked[a]
      BY <3>3 DEF Held
    <3>6. QED
      BY ONLY <1>2, <1>3, <1>4, <3>4, <3>5, a \in Addr
  <2>8. QED
    BY <2>1, <2>2, <2>7, RetainBalances
<1>11. CASE Unmount
  <2>1. /\ heap' = heap /\ drop = NULL /\ drop' = root /\ root' = NULL
        /\ UNCHANGED <<files, stack, ret, leaked>>
    BY <1>11 DEF Unmount, Idle
  <2>2. ASSUME NEW a \in Addr
        PROVE  Held(a)' = Held(a)
    <3>1. Is(drop, a) = 0 /\ Is(root', a) = 0 /\ Is(drop', a) = Is(root, a)
      BY <2>1, IsType
    <3>2. Held(a)' = HandleRefs(files, a) + FrameRefs(stack, a) + Is(ret.dno, a)
                       + Is(root, a) + 0 + leaked[a]
      BY <2>1, <3>1 DEF Held
    <3>3. QED
      BY ONLY <1>2, <1>3, <3>1, <3>2, a \in Addr DEF Held
  <2>3. QED
    BY <2>1, <2>2, KeepsBalance
<1>12. CASE Mount
  <2> DEFINE x == FreeAddr
  <2>1. /\ heap' = [heap EXCEPT ![x] = RootDnode] /\ root = NULL /\ root' = x
        /\ UNCHANGED <<files, stack, ret, drop, leaked>>
    BY <1>12 DEF Mount
  <2>2. x \in Addr /\ ~(heap[x].refcount > 0)
    BY <1>12, FreeAddrIsFree DEF Mount, Live
  <2>3. RootDnode \in Dnode /\ RootDnode.refcount = 1 /\ RootDnode.parent = NULL
    BY DEF RootDnode, Dnode, DiskAssumption
  <2> HIDE DEF x
  <2>4. heap' \in [Addr -> Dnode] /\ \A a \in Addr : heap'[a] = IF a = x THEN RootDnode ELSE heap[a]
    BY <1>1, <2>1, <2>3
  <2>5. /\ \A a \in Addr : heap'[a].refcount = IF a = x THEN 1 ELSE heap[a].refcount
        /\ \A a : ParentRefs(heap', a) = ParentRefs(heap, a) + Is(RootDnode.parent, a)
    BY <1>1, <2>2, <2>3, <2>4, NewDnodeRefs
  <2>6. ASSUME NEW a \in Addr
        PROVE  heap'[a].refcount = ParentRefs(heap', a) + Held(a)'
    <3>1. Is(root, a) = 0 /\ Is(RootDnode.parent, a) = 0 /\ Is(root', a) = Is(x, a)
      BY <2>1, <2>3, IsType
    <3>2. Held(a)' = HandleRefs(files, a) + FrameRefs(stack, a) + Is(ret.dno, a)
                       + Is(drop, a) + Is(x, a) + leaked[a]
      BY <2>1, <3>1 DEF Held
    <3>3. Held(a)' = Held(a) + Is(x, a)
      BY ONLY <1>2, <1>3, <1>4, <3>1, <3>2, a \in Addr DEF Held
    <3>4. heap[a].refcount = ParentRefs(heap, a) + Held(a) /\ ParentRefs(heap, a) \in Nat
      BY ParentRefsType DEF RefInv, Balanced
    <3>5. ParentRefs(heap', a) = ParentRefs(heap, a)
      BY <2>5, <3>1, <3>4
    <3>6. CASE a = x
      <4>1. ParentRefs(heap, a) = 0 /\ Held(a) = 0
        BY <1>2, <2>2, <3>4, <3>6
      <4>2. QED
        BY <2>5, <3>3, <3>5, <3>6, <4>1, IsType
    <3>7. CASE a # x
      <4>1. Is(x, a) = 0
        BY <3>7, IsType
      <4>2. QED
        BY <1>2, <2>5, <3>3, <3>4, <3>5, <3>7, <4>1
    <3>8. QED
      BY <3>6, <3>7
  <2>7. \A a \in Addr : SameLink(heap, heap', a)
    BY <2>3, <2>4 DEF SameLink
  <2>8. QED
    BY <2>6, <2>7 DEF Accounted, Balanced, LinksGrow
<1>13. QED
  BY <1>5, <1>6, <1>7, <1>8, <1>9, <1>10, <1>11, <1>12 DEF Host, Client

------------------------------------------------------------------------------
(* The shape of the calls.                                                    *)

LEMMA WiderSeq ==
    ASSUME NEW S, NEW T, S \subseteq T, NEW s \in Seq(S)
    PROVE  s \in Seq(T)
OBVIOUS

LEMMA InnerShape ==
    ASSUME RefInv, CallsTyped', stack # <<>>, Top.fn # "dir_open", UNCHANGED files,
           NEW fr, fr.fn # "dir_open",
           \/ stack' = Caller
           \/ stack' = Append(Caller, fr)
           \/ stack' = Append(stack, fr)
    PROVE  CallShape'
<1> DEFINE F == Frame \union {fr}
           n == Len(stack)
<1>1. /\ stack \in Seq(Frame) /\ n \in Nat /\ n > 0 /\ DOMAIN stack = 1 .. n
      /\ stack' \in Seq(Frame) /\ Len(stack') \in Nat /\ DOMAIN stack' = 1 .. Len(stack')
  BY InvIsCallsTyped, LenProperties DEF RefInv, CallsTyped
<1>2. /\ Caller \in Seq(Frame) /\ Len(Caller) = n - 1 /\ Top = stack[n]
      /\ \A i \in 1 .. n - 1 : Caller[i] = stack[i]
  BY <1>1, CallerAndTop
<1>3. /\ \A i \in 1 .. n : stack[i].fn = "dir_open" <=> i = 1
      /\ files[stack[1].file] = NULL
      /\ stack[1].pc = "handle" => n = 1
  BY <1>1 DEF RefInv, CallShape
<1> HIDE DEF n
<1>4. n # 1
  <2>1. Top.fn # "dir_open"
    OBVIOUS
  <2>2. 1 \in 1 .. n
    BY ONLY <1>1
  <2>3. stack[1].fn = "dir_open"
    BY ONLY <1>3, <2>2
  <2>4. QED
    BY ONLY <1>2, <2>1, <2>3
<1>5. /\ stack \in Seq(F) /\ Caller \in Seq(F) /\ fr \in F
  <2>1. Frame \subseteq F
    OBVIOUS
  <2> HIDE DEF F
  <2>2. stack \in Seq(F) /\ Caller \in Seq(F)
    BY ONLY <1>1, <1>2, <2>1, WiderSeq
  <2>3. QED
    BY <2>2 DEF F
<1> HIDE DEF F
<1>6. /\ Len(stack') >= 1 /\ stack'[1] = stack[1]
      /\ \A i \in 1 .. Len(stack') : 
            (stack'[i] = stack[i] /\ i \in 1 .. n) \/ (stack'[i] = fr /\ i # 1)
  <2>1. CASE stack' = Caller
    BY ONLY <1>1, <1>2, <1>4, <2>1
  <2>2. CASE stack' = Append(Caller, fr)
    <3>1. /\ Len(stack') = n /\ stack'[n] = fr
          /\ \A i \in 1 .. n - 1 : stack'[i] = Caller[i]
      BY <1>1, <1>2, <1>5, <2>2, AppendProperties
    <3>2. QED
      BY ONLY <1>1, <1>2, <1>4, <3>1
  <2>3. CASE stack' = Append(stack, fr)
    <3>1. /\ Len(stack') = n + 1 /\ stack'[n + 1] = fr
          /\ \A i \in 1 .. n : stack'[i] = stack[i]
      BY <1>1, <1>5, <2>3, AppendProperties DEF n
    <3>2. QED
      BY ONLY <1>1, <3>1
  <2>4. QED
    BY <2>1, <2>2, <2>3
<1>7. stack' # <<>>
  BY ONLY <1>1, <1>6
<1>8. \A i \in DOMAIN stack' : stack'[i].fn = "dir_open" <=> i = 1
  BY <1>1, <1>3, <1>6
<1>9. files'[stack'[1].file] = NULL /\ stack'[1].pc # "handle"
  BY <1>3, <1>4, <1>6
<1>10. QED
  BY <1>7, <1>8, <1>9 DEF CallShape

LEMMA LookupPathShape ==
    ASSUME RefInv, CallsTyped', LookupPath
    PROVE  CallShape'
<1>1. Running("lookup_path") /\ UNCHANGED files
  BY DEF LookupPath, PathDone, PathEmptyComponent, PathFillFails, PathSymlink,
     PathSymlinkResolved, PathSymlinkFails, PathNotDirectory, PathSpecialName,
     PathLookupFails, PathLookup, PathNameAllocFails, AtDirectory, AtName, InPath
<1>2. Top \in PathFrame /\ stack # <<>> /\ Top.fn = "lookup_path"
  BY <1>1, Operands, DiskAssumption, BoundsAssumption DEF RefInv, Running
<1>3. \/ stack' = Caller
      \/ stack' = Append(stack, ResolveCall(Top.dno))
      \/ \E x : stack' = Append(Caller, [Top EXCEPT !.dno = x])
      \/ \E x : stack' = Append(Caller, [NextComponent EXCEPT !.dno = x])
  BY DEF LookupPath, PathDone, PathEmptyComponent, PathFillFails, PathSymlink,
     PathSymlinkResolved, PathSymlinkFails, PathNotDirectory, PathSpecialName,
     PathLookupFails, PathLookup, PathNameAllocFails, FailTop, MoveTo, WithTop
<1>4. /\ ResolveCall(Top.dno).fn # "dir_open"
      /\ \A x : [Top EXCEPT !.dno = x].fn # "dir_open"
      /\ \A x : [NextComponent EXCEPT !.dno = x].fn # "dir_open"
  BY <1>2 DEF ResolveCall, PathFrame, NextComponent
<1>5. Top.fn # "dir_open"
  BY <1>2
<1>6. QED
  BY <1>1, <1>2, <1>3, <1>4, <1>5, InnerShape

LEMMA ResolveShape ==
    ASSUME RefInv, CallsTyped', Resolve
    PROVE  CallShape'
<1>1. Running("resolve") /\ UNCHANGED files
  BY DEF Resolve, ResolveDone, ResolveReadFails, ResolveFollow, ResolveStepDone,
     ResolveFails, InResolve
<1>2. Top \in ResolveFrame /\ stack # <<>> /\ Top.fn = "resolve"
  BY <1>1, Operands, DiskAssumption, BoundsAssumption DEF RefInv, Running
<1>3. \/ stack' = Caller
      \/ \E x, path : stack' = Append(stack, PathCall(x, path))
      \/ \E x : stack' = Append(Caller, [Top EXCEPT !.dno = x])
  BY DEF Resolve, ResolveDone, ResolveReadFails, ResolveFollow, ResolveStepDone,
     ResolveFails, FailTop, MoveTo, WithTop
<1>4. /\ \A x, path : PathCall(x, path).fn # "dir_open"
      /\ \A x : [Top EXCEPT !.dno = x].fn # "dir_open"
  BY <1>2 DEF PathCall, ResolveFrame
<1>5. Top.fn # "dir_open"
  BY <1>2
<1>6. QED
  BY <1>1, <1>2, <1>3, <1>4, <1>5, InnerShape

LEMMA DirOpenShape ==
    ASSUME RefInv, CallsTyped', DirOpen
    PROVE  CallShape'
<1>1. Running("dir_open")
  BY DEF DirOpen, OpenLookedUp, OpenResolved, OpenHandle, OpenFails
<1>2. Top \in OpenFrame /\ stack # <<>> /\ Top.fn = "dir_open"
  BY <1>1, Operands, DiskAssumption, BoundsAssumption DEF RefInv, Running
<1>3. /\ stack \in Seq(Frame) /\ Len(stack) \in Nat /\ Len(stack) > 0
      /\ DOMAIN stack = 1 .. Len(stack) /\ Top = stack[Len(stack)]
      /\ Caller \in Seq(Frame) /\ Len(Caller) = Len(stack) - 1
  BY <1>2, InvIsCallsTyped, LenProperties, CallerAndTop DEF RefInv, CallsTyped
<1>4. Len(stack) = 1 /\ Top = stack[1]
  BY <1>2, <1>3 DEF RefInv, CallShape
<1>5. Caller = <<>>
  BY <1>3, <1>4
<1>6. files[Top.file] = NULL /\ (Top.pc = "handle" => ret = Nothing)
  BY <1>2, <1>4 DEF RefInv, CallShape
<1>7. CASE OpenHandle \/ OpenFails
  <2>1. stack' = <<>> /\ ret' = Nothing
    BY <1>5, <1>6, <1>7 DEF OpenHandle, OpenFails
  <2>2. QED
    BY <2>1 DEF CallShape
<1>8. CASE OpenLookedUp
  <2> DEFINE fr == [Top EXCEPT !.dno = ret.dno, !.pc = "resolve"]
             inner == ResolveCall(ret.dno)
  <2>1. stack' = Append(Caller, fr) \o <<inner>> /\ files' = files
    BY <1>8 DEF OpenLookedUp, WithTop
  <2>2. fr.fn = "dir_open" /\ fr.pc = "resolve" /\ fr.file = Top.file
    BY <1>2 DEF OpenFrame
  <2>3. inner.fn = "resolve"
    BY DEF ResolveCall
  <2> HIDE DEF fr, inner
  <2>4. /\ <<fr>> \in Seq({fr, inner}) /\ Len(<<fr>>) = 1 /\ <<fr>>[1] = fr
        /\ inner \in {fr, inner}
    OBVIOUS
  <2>5. DOMAIN stack' = 1 .. 2 /\ stack'[1] = fr /\ stack'[2] = inner /\ stack' # <<>>
    <3>1. Append(Caller, fr) = <<fr>>
      BY <1>5
    <3>2. stack' = Append(<<fr>>, inner)
      BY <2>1, <2>4, <3>1, AppendIsConcat
    <3>3. /\ DOMAIN stack' = 1 .. Len(stack') /\ Len(stack') = 1 + 1
          /\ stack'[1] = fr /\ stack'[1 + 1] = inner
      BY ONLY <2>4, <3>2, AppendProperties, LenProperties
    <3>4. QED
      BY ONLY <3>3
  <2>6. QED
    BY <1>6, <2>1, <2>2, <2>3, <2>5 DEF CallShape
<1>9. CASE OpenResolved
  <2> DEFINE frame == [Top EXCEPT !.pc = "handle"]
             fr == [frame EXCEPT !.dno = ret.dno]
  <2>1. stack' = Append(Caller, fr) /\ files' = files /\ ret' = Nothing
    BY <1>9 DEF OpenResolved, MoveTo, WithTop
  <2>2. fr.fn = "dir_open" /\ fr.file = Top.file
    BY <1>2 DEF OpenFrame
  <2> HIDE DEF fr, frame
  <2>3. stack' = <<fr>>
    BY <1>5, <2>1
  <2>4. DOMAIN stack' = 1 .. 1 /\ stack'[1] = fr /\ stack' # <<>> /\ Len(stack') = 1
    BY <2>3
  <2>5. QED
    BY <1>6, <2>1, <2>2, <2>4 DEF CallShape
<1>10. QED
  BY <1>7, <1>8, <1>9 DEF DirOpen

LEMMA HostShape ==
    ASSUME RefInv, Host
    PROVE  CallShape'
<1>1. stack = <<>> /\ ret' = ret
  <2>1. root = NULL => stack = <<>>
    BY DEF RefInv, DnodeInv
  <2>2. CASE Client
    BY <2>2 DEF Client, OpenVolume, Close, Rewind, ReadEntry, ReadNameAllocFails, Open,
       Calls, Idle
  <2>3. CASE Unmount \/ Mount
    BY <2>1, <2>3 DEF Unmount, Mount, Idle
  <2>4. QED
    BY <2>2, <2>3 DEF Host
<1>2. ret = Nothing
  BY <1>1 DEF RefInv, CallShape
<1>3. ASSUME NEW dir \in Files, NEW f \in Files, NEW path \in Paths, Open(dir, f, path)
      PROVE  CallShape'
  <2> DEFINE outer == OpenCall(f, dir, path)
             inner == PathCall(files[dir].dnode, path)
  <2>1. stack' = <<outer, inner>> /\ files' = files /\ files[f] = NULL
    BY <1>3 DEF Open
  <2>2. /\ outer.fn = "dir_open" /\ outer.file = f /\ outer.pc = "lookup"
        /\ inner.fn = "lookup_path"
    BY DEF OpenCall, PathCall
  <2> HIDE DEF outer, inner
  <2>3. DOMAIN stack' = 1 .. 2 /\ stack'[1] = outer /\ stack'[2] = inner /\ stack' # <<>>
    BY <2>1
  <2>4. QED
    BY <2>1, <2>2, <2>3 DEF CallShape
<1>4. CASE stack' = <<>>
  BY <1>1, <1>2, <1>4 DEF CallShape
<1>5. Host => \/ stack' = stack
              \/ \E dir, f \in Files, path \in Paths : Open(dir, f, path)
  BY DEF Host, Client, OpenVolume, Close, Rewind, ReadEntry, ReadNameAllocFails,
     Unmount, Mount
<1>6. QED
  BY <1>1, <1>3, <1>4, <1>5

------------------------------------------------------------------------------
(* The invariant and what follows from it.                                    *)

LEMMA RefInvInit ==
    ASSUME Init
    PROVE  RefInv
<1>1. DnodeInv
  BY DnodeInvInit
<1>2. CallShape
  BY DEF Init, CallShape
<1>3. ASSUME NEW a \in Addr
      PROVE  heap[a].refcount = ParentRefs(heap, a) + Held(a)
  <2>1. \A b \in Addr : heap[b].refcount = 0
    BY DEF Init, Free
  <2>2. {b \in Addr : heap[b].refcount > 0 /\ heap[b].parent = a} = {}
    BY <2>1
  <2>3. {f \in Files : files[f] # NULL /\ files[f].dnode = a} = {}
    BY DEF Init
  <2>4. ParentRefs(heap, a) = 0 /\ HandleRefs(files, a) = 0
    BY <2>2, <2>3, FS_EmptySet DEF ParentRefs, HandleRefs
  <2>5. FrameRefs(stack, a) = 0
    BY EmptyRefs DEF Init
  <2>6. Is(ret.dno, a) = 0 /\ Is(drop, a) = 0 /\ Is(root, a) = 0 /\ leaked[a] = 0
    BY IsType, BoundsAssumption DEF Init, Nothing
  <2>7. Held(a) = 0
    BY <2>4, <2>5, <2>6 DEF Held
  <2>8. QED
    BY <2>1, <2>4, <2>7
<1>4. QED
  BY <1>1, <1>2, <1>3 DEF RefInv, Balanced

LEMMA StepAccounts ==
    ASSUME RefInv, Next
    PROVE  Accounted /\ CallShape'
<1>1. CallsTyped'
  BY CallsTypedStep DEF RefInv
<1>2. Accounted
  BY <1>1, HostBalances, ReleaseBalances, LookupPathBalances, ResolveBalances,
     DirOpenBalances DEF Next, Step
<1>3. Release => CallShape'
  BY DEF Release, RefInv, CallShape
<1>4. CallShape'
  BY <1>1, <1>3, HostShape, LookupPathShape, ResolveShape, DirOpenShape DEF Next, Step
<1>5. QED
  BY <1>2, <1>4

LEMMA RefInvStep ==
    ASSUME RefInv, [Next]_vars
    PROVE  RefInv'
<1>1. DnodeInv'
  BY DnodeInvStep DEF RefInv
<1>2. CASE UNCHANGED vars
  <2>1. Balanced' /\ CallShape'
    BY <1>2 DEF RefInv, Balanced, CallShape, Held, vars
  <2>2. QED
    BY <1>1, <2>1 DEF RefInv
<1>3. CASE Next
  BY <1>1, <1>3, StepAccounts DEF RefInv, Accounted
<1>4. QED
  BY <1>2, <1>3

(* At each step of a call the counts of the live dnodes are balanced by their *)
(* children, the handles, the references the call's frames hold and those     *)
(* that were lost.                                                            *)
THEOREM RefcountInvariant == Spec => []RefInv
BY RefInvInit, RefInvStep, PTL DEF Spec

(* However lookups recurse, share dnodes and fail, a dnode's reference count  *)
(* is the number of references held: it is freed neither early nor while      *)
(* anything in the program still points to it.                                *)
THEOREM RefcountsExact == Spec => []RefcountsAreExact
<1>1. RefInv => RefcountsAreExact
  BY BalancedIsExact, InvIsCallsTyped DEF RefInv
<1>2. QED
  BY <1>1, RefcountInvariant, PTL

------------------------------------------------------------------------------
(* Unmounting frees everything. Parents come before their children in some    *)
(* order, so that of any dnodes one has no child among them.                  *)

Ranks(rank) == \A a \in Addr : heap[a].refcount > 0 /\ heap[a].parent # NULL
                                 => rank[heap[a].parent] < rank[a]

Ranked == \E rank \in [Addr -> Nat] : Ranks(rank)

(* Handles are closed before the volume is unmounted. *)
HandlesNeedRoot == root = NULL => Handles = {}

UnmountInv == RefInv /\ Ranked /\ HandlesNeedRoot

LEMMA RankedStep ==
    ASSUME RefInv, RefInv', Ranked, LinksGrow(heap, heap')
    PROVE  Ranked'
<1>1. PICK rank \in [Addr -> Nat] : Ranks(rank)
  BY DEF Ranked
<1>2. \A a \in Addr : heap'[a].parent \in Addr \union {NULL} /\ heap[a].refcount \in Nat
  BY DEF RefInv, DnodeInv, TypeOK, Dnode
<1>3. CASE \A a \in Addr : SameLink(heap, heap', a)
  <2>1. Ranks(rank)'
    BY <1>1, <1>3 DEF Ranks, SameLink
  <2>2. QED
    BY <2>1 DEF Ranked
<1>4. ASSUME NEW x \in Addr, NEW p \in Addr, ~(heap[x].refcount > 0), heap[p].refcount > 0,
             heap'[x].parent = p, \A a \in Addr \ {x} : SameLink(heap, heap', a)
      PROVE  Ranked'
  <2> DEFINE rk == [rank EXCEPT ![x] = rank[p] + 1]
  <2>1. rk \in [Addr -> Nat] /\ rk[x] = rank[p] + 1 /\ \A a \in Addr \ {x} : rk[a] = rank[a]
    OBVIOUS
  <2> HIDE DEF rk
  <2>2. p # x
    BY <1>4
  <2>3. ASSUME NEW a \in Addr, heap'[a].refcount > 0, heap'[a].parent # NULL
        PROVE  rk[heap'[a].parent] < rk[a]
    <3>1. CASE a = x
      BY <1>4, <2>1, <2>2, <3>1
    <3>2. CASE a # x
      <4> DEFINE q == heap[a].parent
      <4>1. heap[a].refcount > 0 /\ heap'[a].parent = q
        BY <1>4, <2>3, <3>2 DEF SameLink
      <4>2. q \in Addr /\ q # NULL
        BY <1>2, <2>3, <4>1
      <4>3. heap[q].refcount > 0
        BY <4>1, <4>2, ParentIsLive
      <4>4. q # x
        BY <1>4, <4>3
      <4>5. rank[q] < rank[a]
        BY <1>1, <4>1, <4>2 DEF Ranks
      <4> HIDE DEF q
      <4>6. QED
        BY <2>1, <3>2, <4>1, <4>2, <4>4, <4>5
    <3>3. QED
      BY <3>1, <3>2
  <2>4. Ranks(rk)'
    BY <2>3 DEF Ranks
  <2>5. QED
    BY <2>1, <2>4 DEF Ranked
<1>5. QED
  BY <1>3, <1>4 DEF LinksGrow

LEMMA HandlesNeedRootStep ==
    ASSUME RefInv, HandlesNeedRoot, Next
    PROVE  HandlesNeedRoot'
<1>1. SUFFICES ASSUME root' = NULL PROVE Handles' = {}
  BY DEF HandlesNeedRoot
<1>2. SUFFICES files' = files /\ Handles = {}
  BY DEF Handles
<1>3. CASE Unmount
  BY <1>3 DEF Unmount
<1>4. Mount => root' # NULL
  BY FreeAddrIsFree, BoundsAssumption DEF Mount
<1>5. root = NULL => stack = <<>> /\ Handles = {}
  BY DEF RefInv, DnodeInv, HandlesNeedRoot
<1>6. CASE Client
  BY <1>1, <1>6 DEF Client, OpenVolume, Close, Rewind, ReadEntry, ReadNameAllocFails, Open,
     Calls, Idle
<1>7. CASE Release
  BY <1>1, <1>5, <1>7 DEF Release
<1>8. CASE LookupPath
  BY <1>1, <1>5, <1>8 DEF LookupPath, PathDone, PathEmptyComponent, PathFillFails,
     PathSymlink, PathSymlinkResolved, PathSymlinkFails, PathNotDirectory,
     PathSpecialName, PathLookupFails, PathLookup, PathNameAllocFails
<1>9. CASE Resolve
  BY <1>1, <1>5, <1>9 DEF Resolve, ResolveDone, ResolveReadFails, ResolveFollow,
     ResolveStepDone, ResolveFails
<1>10. CASE DirOpen
  <2>1. stack # <<>> /\ root' = root
    BY <1>10 DEF DirOpen, OpenLookedUp, OpenResolved, OpenHandle, OpenFails, Running
  <2>2. QED
    BY <1>1, <1>5, <2>1
<1>11. QED
  BY <1>1, <1>3, <1>4, <1>6, <1>7, <1>8, <1>9, <1>10 DEF Next, Host, Step

(* The parents of live dnodes never lead in a circle, which would keep each   *)
(* other's counts up for ever, and a volume is unmounted with its handles     *)
(* closed (fsw_dnode_create, fsw_unmount).                                    *)
THEOREM UnmountInvariant == Spec => []UnmountInv
<1>1. Init => UnmountInv
  <2> SUFFICES ASSUME Init PROVE UnmountInv
    OBVIOUS
  <2> DEFINE zero == [a \in Addr |-> 0]
  <2>1. RefInv
    BY RefInvInit
  <2>2. zero \in [Addr -> Nat] /\ Ranks(zero)
    BY DEF Init, Free, Ranks
  <2>3. Handles = {}
    BY DEF Init, Handles
  <2> HIDE DEF zero
  <2>4. QED
    BY <2>1, <2>2, <2>3 DEF UnmountInv, Ranked, HandlesNeedRoot
<1>2. UnmountInv /\ [Next]_vars => UnmountInv'
  <2> SUFFICES ASSUME UnmountInv, [Next]_vars PROVE UnmountInv'
    OBVIOUS
  <2>1. RefInv'
    BY RefInvStep DEF UnmountInv
  <2>2. CASE UNCHANGED vars
    <3>1. Ranked' /\ HandlesNeedRoot'
      BY <2>2 DEF UnmountInv, Ranked, Ranks, HandlesNeedRoot, Handles, vars
    <3>2. QED
      BY <2>1, <3>1 DEF UnmountInv
  <2>3. CASE Next
    <3>1. Ranked'
      BY <2>1, <2>3, StepAccounts, RankedStep DEF UnmountInv, Accounted
    <3>2. QED
      BY <2>1, <2>3, <3>1, HandlesNeedRootStep DEF UnmountInv
  <2>4. QED
    BY <2>2, <2>3
<1>3. QED
  BY <1>1, <1>2, PTL DEF Spec

(* Of finitely many dnodes one is ranked highest.                             *)
LEMMA HighestRank ==
    ASSUME NEW rank \in [Addr -> Nat], NEW S \in SUBSET Addr, S # {}
    PROVE  \E m \in S : \A a \in S : rank[a] <= rank[m]
<1> DEFINE Top1(T) == \E m \in T : \A a \in T : rank[a] <= rank[m]
           Bad == {T \in SUBSET S : T # {} /\ ~Top1(T)}
           sizes == {Cardinality(T) : T \in Bad}
<1>1. \A T \in SUBSET S : IsFiniteSet(T) /\ Cardinality(T) \in Nat
  <2>1. \A T \in SUBSET S : T \in SUBSET Addr
    OBVIOUS
  <2>2. QED
    BY <2>1, FS_Subset, FS_CardinalityType, BoundsAssumption
<1>2. SUFFICES ASSUME Bad # {} PROVE FALSE
  <2>1. S \notin Bad
    BY <1>2
  <2>2. QED
    BY <2>1
<1>3. sizes \in SUBSET Nat /\ sizes # {}
  BY <1>1, <1>2
<1>4. Min(sizes) \in sizes /\ \A n \in sizes : Min(sizes) <= n
  BY <1>3, MinOfNaturals
<1>5. PICK T \in Bad : \A U \in Bad : Cardinality(T) <= Cardinality(U)
  BY <1>4
<1>6. T \in SUBSET S /\ T # {} /\ ~Top1(T) /\ T \subseteq Addr
  BY <1>5
<1>7. PICK a \in T : TRUE
  BY <1>6
<1> DEFINE U == T \ {a}
<1>8. U \in SUBSET S /\ Cardinality(U) = Cardinality(T) - 1
  BY <1>1, <1>6, <1>7, FS_RemoveElement
<1>9. U \notin Bad
  <2> HIDE DEF U, Bad
  <2>1. Cardinality(T) \in Nat /\ Cardinality(U) \in Nat
    BY <1>1, <1>6, <1>8
  <2>2. QED
    BY <1>5, <1>8, <2>1
<1>10. CASE U = {}
  <2>1. T = {a}
    BY <1>7, <1>10
  <2>2. rank[a] <= rank[a]
    BY <1>6, <1>7
  <2>3. Top1(T)
    BY <2>1, <2>2
  <2>4. QED
    BY <1>6, <2>3
<1>11. CASE U # {}
  <2>1. PICK m \in U : \A b \in U : rank[b] <= rank[m]
    BY <1>8, <1>9, <1>11
  <2>2. m \in T /\ rank[m] \in Nat /\ rank[a] \in Nat /\ \A b \in T : b = a \/ b \in U
    BY <1>6, <1>7, <2>1
  <2>3. CASE rank[a] <= rank[m]
    <3>1. \A b \in T : rank[b] <= rank[m]
      BY <2>1, <2>2, <2>3
    <3>2. QED
      BY <1>6, <2>2, <3>1
  <2>4. CASE ~(rank[a] <= rank[m])
    <3>1. \A b \in T : rank[b] \in Nat
      BY <1>6
    <3> HIDE DEF U
    <3>2. \A b \in T : rank[b] <= rank[a]
      BY <2>1, <2>2, <2>4, <3>1
    <3>3. QED
      BY <1>6, <1>7, <3>2
  <2>5. QED
    BY <2>3, <2>4
<1>12. QED
  BY <1>10, <1>11

(* Nobody holds a dnode of an unmounted volume but its children, and the      *)
(* dnode ranked highest has none.                                             *)
LEMMA UnmountedIsFreed ==
    ASSUME UnmountInv
    PROVE  UnmountFreesUnlessLost
<1> SUFFICES ASSUME Unmounted, NothingLost, Live # {} PROVE FALSE
  BY DEF UnmountFreesUnlessLost
<1>1. stack = <<>> /\ ret = Nothing /\ Handles = {}
  BY DEF UnmountInv, RefInv, DnodeInv, CallShape, HandlesNeedRoot, Unmounted
<1>2. ASSUME NEW a \in Addr
      PROVE  Held(a) = 0
  <2>1. {f \in Files : files[f] # NULL /\ files[f].dnode = a} = {}
    BY <1>1 DEF Handles
  <2>2. HandleRefs(files, a) = 0
    BY <2>1, FS_EmptySet DEF HandleRefs
  <2>3. FrameRefs(stack, a) = 0
    BY <1>1, EmptyRefs
  <2>4. Is(ret.dno, a) = 0 /\ Is(drop, a) = 0 /\ Is(root, a) = 0 /\ leaked[a] = 0
    BY <1>1, IsType, BoundsAssumption DEF Nothing, Unmounted, NothingLost
  <2>5. QED
    BY <2>2, <2>3, <2>4 DEF Held
<1>3. PICK rank \in [Addr -> Nat] : Ranks(rank)
  BY DEF UnmountInv, Ranked
<1>4. PICK m \in Live : \A a \in Live : rank[a] <= rank[m]
  <2>1. Live \in SUBSET Addr
    BY DEF Live
  <2>2. QED
    BY <2>1, HighestRank
<1>5. m \in Addr /\ heap[m].refcount > 0 /\ m # NULL
  BY BoundsAssumption DEF Live
<1>6. ParentRefs(heap, m) # 0
  <2>1. heap[m].refcount = ParentRefs(heap, m) + 0
    BY <1>2, <1>5 DEF UnmountInv, RefInv, Balanced
  <2>2. ParentRefs(heap, m) \in Nat
    BY ParentRefsType
  <2>3. QED
    BY <1>5, <2>1, <2>2
<1>7. PICK b \in Addr : heap[b].refcount > 0 /\ heap[b].parent = m
  <2>1. {b \in Addr : heap[b].refcount > 0 /\ heap[b].parent = m} # {}
    BY <1>6, FS_EmptySet DEF ParentRefs
  <2>2. QED
    BY <2>1
<1>8. rank[m] < rank[b] /\ rank[b] <= rank[m]
  BY <1>3, <1>4, <1>5, <1>7 DEF Ranks, Live
<1>9. QED
  BY <1>5, <1>7, <1>8

(* Once the volume is unmounted with its handles closed and no reference      *)
(* lost, every dnode has been freed, whatever was opened, read and failed.    *)
THEOREM UnmountFreesAll == Spec => []UnmountFreesUnlessLost
BY UnmountInvariant, UnmountedIsFreed, PTL

------------------------------------------------------------------------------
(* The volume and its driver.                                                *)

(* What the driver binding does beside mounting and unmounting leaves the     *)
(* dnodes alone.                                                              *)
LEMMA BindingStep ==
    ASSUME Supported \/ Start \/ Stop \/ DriverStep
    PROVE  [Next]_vars
<1>1. CASE Ext2Mount \/ ReiserMount \/ IsoMount
  BY <1>1 DEF Ext2Mount, ReiserMount, IsoMount, MountStep, Ext2Alloc, Ext2Super,
     Ext2Label, Ext2AllocTables, Ext2Group, ReiserAlloc, ReiserSuper, ReiserLabel,
     IsoBegin, IsoDescriptor, IsoPrimary
<1>2. CASE CreateRoot
  BY <1>2 DEF CreateRoot, Next, Host
<1>3. CASE UnmountRoot
  BY <1>3 DEF UnmountRoot, Next, Host
<1>4. CASE Supported \/ Start \/ Stop \/ StartInstall \/ VolumeFree \/ Finish
  BY <1>4 DEF Supported, Start, Stop, StartInstall, VolumeFree, Finish
<1>5. QED
  BY <1>1, <1>2, <1>3, <1>4 DEF DriverStep

(* Every behaviour of a started and stopped driver (fsw_efi.c) is one of the  *)
(* dnodes of FswDnode: mounting, however it ends, shows there only as Mount   *)
(* and Unmount, and clients reach the dnodes only in between.                 *)
THEOREM VolumeUsesDnodes == VolumeSpec => Spec
<1>1. VolumeInit => Init
  BY DEF VolumeInit
<1>2. [VolumeNext]_allvars => [Next]_vars
  <2> SUFFICES ASSUME [VolumeNext]_allvars PROVE [Next]_vars
    OBVIOUS
  <2>1. CASE Supported \/ Start \/ Stop \/ DriverStep
    BY <2>1, BindingStep
  <2>2. CASE ClientCall
    BY <2>2 DEF ClientCall, Next, Host
  <2>3. CASE DnodeStep
    BY <2>3 DEF DnodeStep, Next
  <2>4. CASE UNCHANGED allvars
    BY <2>4 DEF allvars
  <2>5. QED
    BY <2>1, <2>2, <2>3, <2>4 DEF VolumeNext
<1>3. QED
  BY <1>1, <1>2, PTL DEF VolumeSpec, Spec

(* On a mounted volume there is never a second dnode for an id.               *)
THEOREM VolumeIdsAreUnique == VolumeSpec => []OneDnodePerId
BY VolumeUsesDnodes, IdsAreUnique

(* Through mounts, failed mounts and unmounts the counts stay exact.          *)
THEOREM VolumeRefcountsExact == VolumeSpec => []RefcountsAreExact
BY VolumeUsesDnodes, RefcountsExact

(* A driver that is stopped has freed every dnode, if no reference was lost.  *)
THEOREM VolumeUnmountFreesAll == VolumeSpec => []UnmountFreesUnlessLost
BY VolumeUsesDnodes, UnmountFreesAll

------------------------------------------------------------------------------
(* What the driver binding has taken, and has to give back, at each place in  *)
(* fsw_efi_DriverBinding_Start, fsw_mount and Stop.                           *)

Mounting == {"volume_mount", "superblock", "label", "inotab", "groups", "pvd", "root"}

(* The volume is mounted, and not on its way out. *)
Offered == installed \/ (pc = "mount_done" /\ published)

(* Start has taken the device; there is a struct fsw_volume. *)
Started == installed \/ pc \notin {"idle", "supported"}
There   == Offered \/ pc \in Mounting \union {"unmount", "volume_free"}

Control ==
    /\ fstype \in {"ext2", "reiserfs", "iso9660"} /\ medium \in Media
    /\ pc \in Mounting \union {"idle", "supported", "mount_done", "unmount",
                               "volume_free", "close"}
    /\ installed => pc = "idle" /\ published
    /\ published => installed \/ pc \in {"mount_done", "unmount", "volume_free", "close"}
    /\ diskio <=> Started
    /\ status = "SUCCESS" <=> Offered
    /\ Offered => root # NULL
    /\ root # NULL => Offered \/ pc = "unmount"

(* A volume, and blocks in its cache that come from the medium.               *)
Contents == {Blank} \union {medium.at[pos] : pos \in DOMAIN medium.at}

IsVolume(v) == /\ DOMAIN v = DOMAIN NewVolume
               /\ \A b \in DOMAIN v.cache : v.cache[b] \in Contents

(* Each driver allocates its own chunks, each once and at its place.          *)
OwnChunks(m, at) ==
    /\ DOMAIN m = Chunks
    /\ m["pvd"] # 0 => fstype = "iso9660"
    /\ m["sb"] \in {0, 1}
    /\ m["sb"] = 1 => fstype # "iso9660" /\ at # "volume_mount"
    /\ m["inotab"] \in {0, 1}
    /\ m["inotab"] = 1 => /\ fstype = "ext2"
                          /\ at \notin {"volume_mount", "superblock", "label", "inotab"}
    /\ m["label"] \in {0, 1}
    /\ m["label"] = 1 => at \notin {"volume_mount", "superblock", "label", "pvd"}

Memory ==
    /\ OwnChunks(mem, pc)
    /\ mem["pool"] = IF Started THEN 1 ELSE 0
    /\ mem["volume"] = IF There THEN 1 ELSE 0
    /\ There => IsVolume(vol) /\ mem["pvd"] = IF vol.pvd # NULL THEN 1 ELSE 0
    /\ ~There => vol = NULL /\ \A c \in Chunks \ {"pool"} : mem[c] = 0

VolumeInv == Control /\ Memory

------------------------------------------------------------------------------
(* What the operations on a volume and its memory preserve.                   *)

LEMMA SetField ==
    ASSUME NEW v, IsVolume(v), NEW x
    PROVE  /\ IsVolume([v EXCEPT !.bs = x]) /\ [v EXCEPT !.bs = x].pvd = v.pvd
           /\ IsVolume([v EXCEPT !.sb = x]) /\ [v EXCEPT !.sb = x].pvd = v.pvd
           /\ IsVolume([v EXCEPT !.version = x]) /\ [v EXCEPT !.version = x].pvd = v.pvd
           /\ IsVolume([v EXCEPT !.inotab = x]) /\ [v EXCEPT !.inotab = x].pvd = v.pvd
           /\ IsVolume([v EXCEPT !.label = x]) /\ [v EXCEPT !.label = x].pvd = v.pvd
           /\ IsVolume([v EXCEPT !.at = x]) /\ [v EXCEPT !.at = x].pvd = v.pvd
           /\ IsVolume([v EXCEPT !.pvd = x]) /\ [v EXCEPT !.pvd = x].pvd = x
BY DEF IsVolume, NewVolume

LEMMA SetCache ==
    ASSUME NEW v, IsVolume(v), NEW c, \A b \in DOMAIN c : c[b] \in Contents
    PROVE  IsVolume([v EXCEPT !.cache = c]) /\ [v EXCEPT !.cache = c].pvd = v.pvd
BY DEF IsVolume, NewVolume

LEMMA SetBlocksizeKeeps ==
    ASSUME NEW v, IsVolume(v), NEW bs
    PROVE  IsVolume(SetBlocksize(v, bs)) /\ SetBlocksize(v, bs).pvd = v.pvd
<1> DEFINE w == [v EXCEPT !.bs = bs]
<1>1. IsVolume(w) /\ w.pvd = v.pvd
  BY SetField
<1>2. SetBlocksize(v, bs) = [w EXCEPT !.cache = <<>>]
  BY DEF SetBlocksize
<1> HIDE DEF w
<1>3. \A b \in DOMAIN <<>> : <<>>[b] \in Contents
  OBVIOUS
<1>4. QED
  BY <1>1, <1>2, <1>3, SetCache

LEMMA GotKeeps ==
    ASSUME NEW v, IsVolume(v), NEW bno
    PROVE  /\ IsVolume(Got(v, bno)) /\ Got(v, bno).pvd = v.pvd
           /\ Got(v, bno).cache[bno] \in Contents
<1>1. CASE bno \in DOMAIN v.cache
  BY <1>1 DEF Got, IsVolume
<1>2. CASE bno \notin DOMAIN v.cache
  <2> DEFINE c == [b \in DOMAIN v.cache \union {bno} |->
                      IF b = bno THEN OnMedium(bno * v.bs) ELSE v.cache[b]]
  <2>1. OnMedium(bno * v.bs) \in Contents
    BY DEF OnMedium, Lies, Contents
  <2>2. \A b \in DOMAIN c : c[b] \in Contents
    BY <2>1 DEF IsVolume
  <2>3. Got(v, bno) = [v EXCEPT !.cache = c]
    BY <1>2 DEF Got
  <2>4. c[bno] \in Contents
    BY <2>2
  <2> HIDE DEF c
  <2>5. [v EXCEPT !.cache = c].cache = c
    BY DEF IsVolume, NewVolume
  <2>6. QED
    BY <2>2, <2>3, <2>4, <2>5, SetCache
<1>3. QED
  BY <1>1, <1>2

(* Memory that differs in one chunk. *)
Changed(m, n, c, x) == /\ DOMAIN n = DOMAIN m
                       /\ \A d \in DOMAIN m : n[d] = IF d = c THEN x ELSE m[d]

LEMMA AllocIs ==
    ASSUME NEW m, NEW c
    PROVE  Changed(m, Alloc(m, c), c, m[c] + 1)
BY DEF Alloc, Changed

LEMMA FreeIs ==
    ASSUME NEW m, NEW c
    PROVE  Changed(m, FreeChunk(m, c), c, m[c] - 1)
BY DEF FreeChunk, Changed

LEMMA WithCacheIs ==
    ASSUME NEW v
    PROVE  Changed(mem, WithCache(v), "cache", Cardinality(DOMAIN v.cache))
BY DEF WithCache, Changed

------------------------------------------------------------------------------
(* The steps of volume_mount.                                                 *)

(* The firmware is told of a failure, by one of its own names.                *)
LEMMA NoSuccess ==
    /\ \A io : \A st \in {"OUT_OF_MEMORY", "UNSUPPORTED", "VOLUME_CORRUPTED"} :
          MapStatus(st, io) # "SUCCESS"
    /\ \A io \in IoErrors : MapStatus("IO_ERROR", io) # "SUCCESS"
BY VolumeAssumption DEF MapStatus

(* volume_mount goes on, or fails. *)
GoesOn == pc' \in Mounting \ {"volume_mount"} /\ status' = status
Fails  == pc' = "unmount" /\ status' # "SUCCESS"

LEMMA MountControl ==
    ASSUME VolumeInv, pc \in Mounting, MountStep, GoesOn \/ Fails
    PROVE  Control' /\ There' /\ Started'
<1>1. UNCHANGED <<root, fstype, medium, diskio, installed, published>>
  BY DEF MountStep, vars, device
<1>2. ~installed /\ ~published /\ diskio /\ status # "SUCCESS" /\ root = NULL
  BY DEF VolumeInv, Control, Mounting, Started, Offered
<1>3. pc' \notin {"idle", "supported", "mount_done", "volume_free", "close"}
  BY DEF GoesOn, Fails, Mounting
<1>4. ~Offered' /\ Started' /\ There' /\ status' # "SUCCESS"
  BY <1>1, <1>2, <1>3 DEF Offered, Started, There, GoesOn, Fails
<1>5. QED
  BY <1>1, <1>2, <1>3, <1>4 DEF VolumeInv, Control, GoesOn, Fails

(* The memory of a volume that stays, with one chunk allocated or none.       *)
MountMemory(c) ==
    /\ DOMAIN mem' = Chunks
    /\ \A d \in Chunks \ {"cache"} : mem'[d] = IF d = c THEN mem[d] + 1 ELSE mem[d]
    /\ IsVolume(vol)'

LEMMA MountKeeps ==
    ASSUME VolumeInv, pc \in Mounting, MountStep, GoesOn \/ Fails, NEW c,
           MountMemory(c),
           mem'["pvd"] = IF vol'.pvd # NULL THEN 1 ELSE 0,
           mem'["pvd"] # 0 => fstype = "iso9660",
           c \in {"none", "sb", "inotab", "label"},
           c = "sb" => pc = "volume_mount" /\ fstype # "iso9660",
           c = "inotab" => pc = "inotab" /\ pc' \in {"groups", "unmount"} /\ fstype = "ext2",
           c = "label" => pc \in {"label", "pvd"} /\ pc' \in {"inotab", "root", "unmount"},
           pc' \in {"superblock", "label", "inotab"} =>
              pc \in {"volume_mount", "superblock", "label", "inotab"},
           pc' \in {"superblock", "label", "pvd"} =>
              pc \in {"volume_mount", "superblock", "label", "pvd"}
    PROVE  VolumeInv'
<1>1. Control' /\ There' /\ Started'
  BY MountControl
<1>2. There /\ Started /\ fstype' = fstype /\ pc' # "volume_mount"
  BY DEF There, Started, MountStep, device, GoesOn, Fails, Mounting
<1>3. OwnChunks(mem, pc) /\ mem["pool"] = 1 /\ mem["volume"] = 1
  BY <1>2 DEF VolumeInv, Memory
<1>4. mem'["pool"] = 1 /\ mem'["volume"] = 1
  BY <1>3 DEF MountMemory, Chunks
<1>5. OwnChunks(mem, pc)'
  <2>1. mem'["sb"] \in {0, 1} /\ (mem'["sb"] = 1 => fstype # "iso9660")
    BY <1>3 DEF OwnChunks, MountMemory, Chunks
  <2>2. /\ mem'["inotab"] \in {0, 1}
        /\ mem'["inotab"] = 1
             => fstype = "ext2" /\ pc' \notin {"superblock", "label", "inotab"}
    BY <1>3 DEF OwnChunks, MountMemory, Chunks
  <2>3. /\ mem'["label"] \in {0, 1}
        /\ mem'["label"] = 1 => pc' \notin {"superblock", "label", "pvd"}
    BY <1>3 DEF OwnChunks, MountMemory, Chunks
  <2>4. QED
    BY <1>2, <2>1, <2>2, <2>3 DEF OwnChunks, MountMemory
<1>6. QED
  BY <1>1, <1>4, <1>5 DEF VolumeInv, Memory, MountMemory

(* No memory but the cache's is touched, and the descriptor stays.            *)
LEMMA MountPasses ==
    ASSUME VolumeInv, pc \in Mounting, MountStep, GoesOn \/ Fails,
           DOMAIN mem' = Chunks, \A d \in Chunks \ {"cache"} : mem'[d] = mem[d],
           IsVolume(vol)', vol'.pvd = vol.pvd,
           pc' \in {"superblock", "label", "inotab"} =>
              pc \in {"volume_mount", "superblock", "label", "inotab"},
           pc' \in {"superblock", "label", "pvd"} =>
              pc \in {"volume_mount", "superblock", "label", "pvd"}
    PROVE  VolumeInv'
<1>1. There
  BY DEF There
<1>2. /\ mem["pvd"] = IF vol.pvd # NULL THEN 1 ELSE 0
      /\ mem["pvd"] # 0 => fstype = "iso9660"
  BY <1>1 DEF VolumeInv, Memory, OwnChunks
<1>3. MountMemory("none") /\ mem'["pvd"] = mem["pvd"]
  BY DEF MountMemory, Chunks
<1>4. QED
  BY <1>2, <1>3, MountKeeps

LEMMA MountingFacts ==
    ASSUME VolumeInv, pc \in Mounting
    PROVE  /\ DOMAIN mem = Chunks /\ IsVolume(vol)
           /\ mem["pvd"] = IF vol.pvd # NULL THEN 1 ELSE 0
           /\ mem["pvd"] # 0 => fstype = "iso9660"
<1>1. There
  BY DEF There
<1>2. QED
  BY <1>1 DEF VolumeInv, Memory, OwnChunks

(* The exits of a mount that fails before it has taken anything more.         *)
LEMMA NoMemoryKeeps ==
    ASSUME VolumeInv, pc \in Mounting, MountStep, NoMemory
    PROVE  VolumeInv'
<1>1. Fails /\ mem' = mem /\ vol' = vol /\ pc' = "unmount"
  BY NoSuccess DEF NoMemory, MountFails, Fails
<1>2. IsVolume(vol)'
  BY <1>1, MountingFacts DEF IsVolume, Contents, MountStep, device
<1>3. QED
  BY <1>1, <1>2, MountingFacts, MountPasses

LEMMA RefuseKeeps ==
    ASSUME VolumeInv, pc \in Mounting, MountStep,
           Refuse("UNSUPPORTED") \/ Refuse("VOLUME_CORRUPTED"),
           DOMAIN mem' = Chunks, \A d \in Chunks \ {"cache"} : mem'[d] = mem[d],
           IsVolume(vol'), vol'.pvd = vol.pvd
    PROVE  VolumeInv'
<1>1. Fails /\ pc' = "unmount"
  BY NoSuccess DEF Refuse, MountFails, Fails
<1>2. IsVolume(vol)'
  BY DEF IsVolume, Contents, MountStep, device
<1>3. QED
  BY <1>1, <1>2, MountPasses

LEMMA GetFailsKeeps ==
    ASSUME VolumeInv, pc \in Mounting, MountStep, NEW v, IsVolume(v), v.pvd = vol.pvd,
           NEW bno, GetFails(v, bno)
    PROVE  VolumeInv'
<1>1. CASE NoMemory
  BY <1>1, NoMemoryKeeps
<1>2. CASE ReadFails(v)
  <2>1. Fails /\ vol' = v /\ mem' = Alloc(mem, "cache") /\ pc' = "unmount"
    BY <1>2, NoSuccess DEF ReadFails, MountFails, Fails
  <2>2. DOMAIN mem' = Chunks /\ \A d \in Chunks \ {"cache"} : mem'[d] = mem[d]
    BY <2>1, AllocIs, MountingFacts DEF Changed
  <2>3. IsVolume(vol)'
    BY <2>1 DEF IsVolume, Contents, MountStep, device
  <2>4. QED
    BY <2>1, <2>2, <2>3, MountPasses
<1>3. QED
  BY <1>1, <1>2 DEF GetFails

(* The volume goes on with the blocks read, at another place.                 *)
LEMMA StepKeeps ==
    ASSUME VolumeInv, pc \in Mounting, MountStep, NEW v, mem' = WithCache(v) \/ mem' = mem,
           IsVolume(vol'), vol'.pvd = vol.pvd, NEW where, Goto(where),
           where \in Mounting \ {"volume_mount"},
           where \in {"superblock", "label", "inotab"} =>
              pc \in {"volume_mount", "superblock", "label", "inotab"},
           where \in {"superblock", "label", "pvd"} =>
              pc \in {"volume_mount", "superblock", "label", "pvd"}
    PROVE  VolumeInv'
<1>1. GoesOn /\ pc' = where
  BY DEF Goto, GoesOn
<1>2. DOMAIN mem' = Chunks /\ \A d \in Chunks \ {"cache"} : mem'[d] = mem[d]
  BY WithCacheIs, MountingFacts DEF Changed
<1>3. IsVolume(vol)'
  BY DEF IsVolume, Contents, MountStep, device
<1>4. QED
  BY <1>1, <1>2, <1>3, MountPasses

(* One chunk more.                                                            *)
LEMMA AllocKeeps ==
    ASSUME VolumeInv, pc \in Mounting, MountStep, NEW c, mem' = Alloc(mem, c),
           IsVolume(vol'), vol'.pvd = vol.pvd, NEW where, Goto(where),
           \/ c = "sb" /\ pc = "volume_mount" /\ where = "superblock" /\ fstype # "iso9660"
           \/ c = "inotab" /\ pc = "inotab" /\ where = "groups" /\ fstype = "ext2"
           \/ c = "label" /\ pc = "label" /\ where \in {"inotab", "root"}
           \/ c = "label" /\ pc = "pvd" /\ where = "root"
    PROVE  VolumeInv'
<1>1. GoesOn /\ pc' = where
  BY DEF Goto, GoesOn, Mounting
<1>2. MountMemory(c) /\ mem'["pvd"] = mem["pvd"]
  <2>1. /\ DOMAIN mem' = Chunks
        /\ \A d \in Chunks : mem'[d] = IF d = c THEN mem[d] + 1 ELSE mem[d]
    <3>1. DOMAIN mem = Chunks /\ Changed(mem, mem', c, mem[c] + 1)
      BY AllocIs, MountingFacts
    <3>2. QED
      BY ONLY <3>1 DEF Changed
  <2>2. IsVolume(vol)'
    BY DEF IsVolume, Contents, MountStep, device
  <2>3. c \notin {"cache", "pvd"}
    OBVIOUS
  <2>4. MountMemory(c)
    BY ONLY <2>1, <2>2 DEF MountMemory
  <2>5. mem'["pvd"] = mem["pvd"]
    BY ONLY <2>1, <2>3 DEF Chunks
  <2>6. QED
    BY <2>4, <2>5
<1>3. QED
  BY <1>1, <1>2, MountingFacts, MountKeeps

LEMMA KeepLabelKeeps ==
    ASSUME VolumeInv, MountStep, NEW text, NEW next, KeepLabel(vol, text, next),
           \/ pc = "label" /\ next \in {"inotab", "root"}
           \/ pc = "pvd" /\ next = "root"
    PROVE  VolumeInv'
<1>1. pc \in Mounting
  BY DEF Mounting
<1>2. CASE NoMemory
  BY <1>1, <1>2, NoMemoryKeeps
<1>3. CASE /\ vol' = [vol EXCEPT !.label = Coerce(text)]
           /\ mem' = IF text = "" THEN mem ELSE Alloc(mem, "label")
           /\ Goto(next)
  <2>1. IsVolume(vol') /\ vol'.pvd = vol.pvd
    BY <1>1, <1>3, SetField, MountingFacts
  <2>2. CASE mem' = mem
    <3>1. next \in Mounting \ {"volume_mount"}
      BY DEF Mounting
    <3>2. QED
      BY <1>1, <1>3, <2>1, <2>2, <3>1, StepKeeps
  <2>3. CASE mem' = Alloc(mem, "label")
    BY <1>1, <1>3, <2>1, <2>3, AllocKeeps
  <2>4. QED
    BY <1>3, <2>2, <2>3
<1>4. QED
  BY <1>2, <1>3 DEF KeepLabel

------------------------------------------------------------------------------
(* The three drivers. *)

LEMMA Ext2Keeps ==
    ASSUME VolumeInv, Ext2Mount
    PROVE  VolumeInv'
<1>1. /\ MountStep /\ fstype = "ext2"
      /\ pc \in {"volume_mount", "superblock", "label", "inotab", "groups"}
  BY DEF Ext2Mount, Ext2Alloc, Ext2Super, Ext2Label, Ext2AllocTables, Ext2Group, At
<1>2. pc \in Mounting
  BY <1>1 DEF Mounting
<1>3. IsVolume(vol)
  BY <1>2, MountingFacts
<1>4. CASE NoMemory
  BY <1>1, <1>2, <1>4, NoMemoryKeeps
<1>5. CASE Ext2Alloc /\ ~NoMemory
  <2>1. mem' = Alloc(mem, "sb") /\ Goto("superblock") /\ vol' = vol /\ pc = "volume_mount"
    BY <1>5 DEF Ext2Alloc, At
  <2>2. QED
    BY <1>1, <1>2, <1>3, <2>1, AllocKeeps
<1>6. CASE Ext2Super
  <2> DEFINE small == SetBlocksize(vol, 1)
             v     == Got(small, 1)
             data  == v.cache[1]
             w     == [v EXCEPT !.sb = data]
  <2>1. \/ GetFails(small, 1)
        \/ /\ mem' = WithCache(v)
           /\ \/ vol' = SetBlocksize(w, data.bs) /\ Goto("label")
              \/ vol' = w /\ Refuse("UNSUPPORTED")
    BY <1>6 DEF Ext2Super
  <2>2. pc = "superblock"
    BY <1>6 DEF Ext2Super, At
  <2>3. IsVolume(small) /\ small.pvd = vol.pvd
    BY <1>3, SetBlocksizeKeeps
  <2>4. IsVolume(v) /\ v.pvd = vol.pvd
    <3> HIDE DEF small
    <3>1. QED
      BY <2>3, GotKeeps
  <2>5. IsVolume(w) /\ w.pvd = vol.pvd
    <3> HIDE DEF v
    <3>1. QED
      BY <2>4, SetField
  <2> HIDE DEF small, v, data, w
  <2>6. IsVolume(SetBlocksize(w, data.bs)) /\ SetBlocksize(w, data.bs).pvd = vol.pvd
    BY <2>5, SetBlocksizeKeeps
  <2>7. CASE GetFails(small, 1)
    BY <1>1, <1>2, <2>3, <2>7, GetFailsKeeps
  <2>8. CASE mem' = WithCache(v) /\ vol' = SetBlocksize(w, data.bs) /\ Goto("label")
    <3>1. "label" \in Mounting \ {"volume_mount"}
      BY DEF Mounting
    <3>2. IsVolume(vol') /\ vol'.pvd = vol.pvd
      BY <2>6, <2>8
    <3>3. QED
      BY <1>1, <1>2, <2>2, <2>8, <3>1, <3>2, StepKeeps
  <2>9. CASE mem' = WithCache(v) /\ vol' = w /\ Refuse("UNSUPPORTED")
    <3>1. DOMAIN mem' = Chunks /\ \A d \in Chunks \ {"cache"} : mem'[d] = mem[d]
      BY <1>2, <2>9, WithCacheIs, MountingFacts DEF Changed
    <3>2. QED
      BY <1>1, <1>2, <2>5, <2>9, <3>1, RefuseKeeps
  <2>10. QED
    BY <2>1, <2>7, <2>8, <2>9
<1>7. CASE Ext2Label
  BY <1>1, <1>7, KeepLabelKeeps DEF Ext2Label, At
<1>8. CASE Ext2AllocTables /\ ~NoMemory
  <2>1. mem' = Alloc(mem, "inotab") /\ Goto("groups") /\ vol' = vol /\ pc = "inotab"
    BY <1>8 DEF Ext2AllocTables, At
  <2>2. QED
    BY <1>1, <1>2, <1>3, <2>1, AllocKeeps
<1>9. CASE Ext2Group
  <2> DEFINE bno == vol.sb.first + 1 + (Len(vol.inotab) \div (vol.bs * DescsPerKiB))
             v   == Got(vol, bno)
  <2>1. \/ Goto("root") /\ UNCHANGED <<vol, mem>>
        \/ GetFails(vol, bno)
        \/ /\ \E t : vol' = [v EXCEPT !.inotab = t]
           /\ mem' = WithCache(v)
           /\ Goto("groups")
    BY <1>9 DEF Ext2Group
  <2>2. pc = "groups" /\ "groups" \in Mounting \ {"volume_mount"}
        /\ "root" \in Mounting \ {"volume_mount"}
    BY <1>9 DEF Ext2Group, At, Mounting
  <2> HIDE DEF bno
  <2>3. IsVolume(v) /\ v.pvd = vol.pvd
    BY <1>3, GotKeeps
  <2> HIDE DEF v
  <2>4. CASE Goto("root") /\ UNCHANGED <<vol, mem>>
    BY <1>1, <1>2, <1>3, <2>2, <2>4, StepKeeps
  <2>5. CASE GetFails(vol, bno)
    BY <1>1, <1>2, <1>3, <2>5, GetFailsKeeps
  <2>6. ASSUME NEW t, vol' = [v EXCEPT !.inotab = t], mem' = WithCache(v), Goto("groups")
        PROVE  VolumeInv'
    <3>1. IsVolume(vol') /\ vol'.pvd = vol.pvd
      BY <2>3, <2>6, SetField
    <3>2. QED
      BY <1>1, <1>2, <2>2, <2>6, <3>1, StepKeeps
  <2>7. QED
    BY <2>1, <2>4, <2>5, <2>6
<1>10. QED
  BY <1>4, <1>5, <1>6, <1>7, <1>8, <1>9 DEF Ext2Mount

LEMMA ReiserKeeps ==
    ASSUME VolumeInv, ReiserMount
    PROVE  VolumeInv'
<1>1. /\ MountStep /\ fstype = "reiserfs"
      /\ pc \in {"volume_mount", "superblock", "label"}
  BY DEF ReiserMount, ReiserAlloc, ReiserSuper, ReiserLabel, At
<1>2. pc \in Mounting
  BY <1>1 DEF Mounting
<1>3. IsVolume(vol)
  BY <1>2, MountingFacts
<1>4. CASE NoMemory
  BY <1>1, <1>2, <1>4, NoMemoryKeeps
<1>5. CASE ReiserAlloc /\ ~NoMemory
  <2> DEFINE w == [vol EXCEPT !.at = 1]
  <2>1. /\ mem' = Alloc(mem, "sb") /\ Goto("superblock") /\ vol' = SetBlocksize(w, 4)
        /\ pc = "volume_mount"
    BY <1>5 DEF ReiserAlloc, At
  <2>2. IsVolume(w) /\ w.pvd = vol.pvd
    BY <1>3, SetField
  <2> HIDE DEF w
  <2>3. IsVolume(vol') /\ vol'.pvd = vol.pvd
    BY <2>1, <2>2, SetBlocksizeKeeps
  <2>4. QED
    BY <1>1, <1>2, <2>1, <2>3, AllocKeeps
<1>6. CASE ReiserSuper
  <2> DEFINE bno == SuperblockOffsets[vol.at]
             v    == Got(vol, bno)
             data == v.cache[bno]
             w    == [v EXCEPT !.sb = data]
             x    == [w EXCEPT !.version = ReiserVersion(data)]
  <2>1. \/ Refuse("UNSUPPORTED") /\ UNCHANGED <<vol, mem>>
        \/ GetFails(vol, bno)
        \/ /\ mem' = WithCache(v)
           /\ \/ vol' = [v EXCEPT !.sb = data, !.at = @ + 1] /\ Goto("superblock")
              \/ vol' = w /\ Refuse("VOLUME_CORRUPTED")
              \/ vol' = SetBlocksize(x, data.bs) /\ Goto("label")
    BY <1>6 DEF ReiserSuper
  <2>2. pc = "superblock" /\ "superblock" \in Mounting \ {"volume_mount"}
        /\ "label" \in Mounting \ {"volume_mount"}
    BY <1>6 DEF ReiserSuper, At, Mounting
  <2> HIDE DEF bno
  <2>3. IsVolume(v) /\ v.pvd = vol.pvd
    BY <1>3, GotKeeps
  <2> HIDE DEF v
  <2> HIDE DEF data
  <2>4. IsVolume(w) /\ w.pvd = vol.pvd
    BY <2>3, SetField
  <2>5. [v EXCEPT !.sb = data, !.at = @ + 1] = [w EXCEPT !.at = v.at + 1]
    BY <2>3 DEF IsVolume, NewVolume
  <2> HIDE DEF w
  <2>6. /\ IsVolume([w EXCEPT !.at = v.at + 1]) /\ [w EXCEPT !.at = v.at + 1].pvd = vol.pvd
        /\ IsVolume(x) /\ x.pvd = vol.pvd
    BY <2>4, SetField
  <2> HIDE DEF x
  <2>7. IsVolume(SetBlocksize(x, data.bs)) /\ SetBlocksize(x, data.bs).pvd = vol.pvd
    BY <2>6, SetBlocksizeKeeps
  <2>8. mem' = WithCache(v) \/ mem' = mem =>
           DOMAIN mem' = Chunks /\ \A d \in Chunks \ {"cache"} : mem'[d] = mem[d]
    BY <1>2, WithCacheIs, MountingFacts DEF Changed
  <2>9. CASE Refuse("UNSUPPORTED") /\ UNCHANGED <<vol, mem>>
    BY <1>1, <1>2, <1>3, <2>8, <2>9, RefuseKeeps
  <2>10. CASE GetFails(vol, bno)
    BY <1>1, <1>2, <1>3, <2>10, GetFailsKeeps
  <2>11. CASE mem' = WithCache(v) /\ vol' = [w EXCEPT !.at = v.at + 1] /\ Goto("superblock")
    <3>1. IsVolume(vol') /\ vol'.pvd = vol.pvd
      BY <2>6, <2>11
    <3>2. QED
      BY <1>1, <1>2, <2>2, <2>11, <3>1, StepKeeps
  <2>12. CASE mem' = WithCache(v) /\ vol' = w /\ Refuse("VOLUME_CORRUPTED")
    BY <1>1, <1>2, <2>4, <2>8, <2>12, RefuseKeeps
  <2>13. CASE mem' = WithCache(v) /\ vol' = SetBlocksize(x, data.bs) /\ Goto("label")
    <3>1. IsVolume(vol') /\ vol'.pvd = vol.pvd
      BY <2>7, <2>13
    <3>2. QED
      BY <1>1, <1>2, <2>2, <2>13, <3>1, StepKeeps
  <2>14. QED
    BY <2>1, <2>5, <2>9, <2>10, <2>11, <2>12, <2>13
<1>7. CASE ReiserLabel
  BY <1>1, <1>7, KeepLabelKeeps DEF ReiserLabel, At
<1>8. QED
  BY <1>4, <1>5, <1>6, <1>7 DEF ReiserMount

(* A primary descriptor is a block of the medium, and takes the place of an   *)
(* earlier one.                                                               *)
LEMMA PrimaryIsThere ==
    ASSUME VolumeInv, NEW data \in Contents, IsPrimary(data)
    PROVE  data # NULL
BY VolumeAssumption DEF VolumeInv, Control, Contents, IsPrimary, Blank

LEMMA DropPrimaryIs ==
    ASSUME VolumeInv, pc \in Mounting, NEW v
    PROVE  /\ DOMAIN DropPrimary(WithCache(v)) = Chunks
           /\ DropPrimary(WithCache(v))["pvd"] = 0
           /\ \A d \in Chunks \ {"cache", "pvd"} : DropPrimary(WithCache(v))[d] = mem[d]
<1> DEFINE m == WithCache(v)
<1>1. /\ DOMAIN m = Chunks /\ \A d \in Chunks \ {"cache"} : m[d] = mem[d]
      /\ m["pvd"] = IF vol.pvd # NULL THEN 1 ELSE 0
  BY WithCacheIs, MountingFacts DEF Changed, Chunks
<1> HIDE DEF m
<1>2. /\ DOMAIN FreeChunk(m, "pvd") = Chunks
      /\ \A d \in Chunks : FreeChunk(m, "pvd")[d] = IF d = "pvd" THEN m["pvd"] - 1 ELSE m[d]
  BY <1>1, FreeIs DEF Changed
<1>3. QED
  BY <1>1, <1>2 DEF DropPrimary, Chunks, m

LEMMA PrimaryKeeps ==
    ASSUME VolumeInv, MountStep, fstype = "iso9660", pc = "superblock",
           IsVolume(vol'), mem'["pvd"] = IF vol'.pvd # NULL THEN 1 ELSE 0,
           DOMAIN mem' = Chunks, \A d \in Chunks \ {"cache", "pvd"} : mem'[d] = mem[d],
           Goto("superblock") \/ MountFails("OUT_OF_MEMORY", lastio)
    PROVE  VolumeInv'
<1>1. pc \in Mounting /\ (GoesOn \/ Fails)
  BY NoSuccess DEF Goto, MountFails, GoesOn, Fails, Mounting
<1>2. There' /\ Started' /\ Control'
  BY <1>1, MountControl
<1>3. fstype' = fstype /\ pc' \in {"superblock", "unmount"}
  BY DEF MountStep, device, Goto, MountFails
<1>4. OwnChunks(mem, pc) /\ mem["pool"] = 1 /\ mem["volume"] = 1
  BY <1>1 DEF VolumeInv, Memory, There, Started, Mounting
<1>5. /\ mem'["pool"] = 1 /\ mem'["volume"] = 1 /\ mem'["sb"] = mem["sb"]
      /\ mem'["inotab"] = mem["inotab"] /\ mem'["label"] = mem["label"]
  BY <1>4 DEF Chunks
<1>6. OwnChunks(mem, pc)'
  BY <1>3, <1>4, <1>5 DEF OwnChunks
<1>7. IsVolume(vol)'
  BY DEF IsVolume, Contents, MountStep, device
<1>8. QED
  BY <1>2, <1>5, <1>6, <1>7 DEF VolumeInv, Memory

LEMMA IsoKeeps ==
    ASSUME VolumeInv, IsoMount
    PROVE  VolumeInv'
<1>1. MountStep /\ fstype = "iso9660" /\ pc \in {"volume_mount", "superblock", "pvd"}
  BY DEF IsoMount, IsoBegin, IsoDescriptor, IsoPrimary, At
<1>2. pc \in Mounting /\ "superblock" \in Mounting \ {"volume_mount"}
      /\ "pvd" \in Mounting \ {"volume_mount"}
  BY <1>1 DEF Mounting
<1>3. IsVolume(vol)
  BY <1>2, MountingFacts
<1>4. CASE IsoBegin
  <2> DEFINE w == [vol EXCEPT !.at = 16]
  <2>1. Goto("superblock") /\ mem' = mem /\ vol' = SetBlocksize(w, 2) /\ pc = "volume_mount"
    BY <1>4 DEF IsoBegin, At
  <2>2. IsVolume(w) /\ w.pvd = vol.pvd
    BY <1>3, SetField
  <2> HIDE DEF w
  <2>3. IsVolume(vol') /\ vol'.pvd = vol.pvd
    BY <2>1, <2>2, SetBlocksizeKeeps
  <2>4. QED
    BY <1>1, <1>2, <2>1, <2>3, StepKeeps
<1>5. CASE IsoDescriptor
  <2> DEFINE v    == Got(vol, vol.at)
             data == v.cache[vol.at]
             w    == [v EXCEPT !.at = @ + 1]
  <2>1. \/ GetFails(vol, vol.at)
        \/ /\ vol' = w /\ mem' = WithCache(v)
           /\ Goto("pvd") \/ Goto("superblock")
        \/ /\ IsPrimary(data)
           /\ vol' = [w EXCEPT !.pvd = data]
           /\ mem' = Alloc(DropPrimary(WithCache(v)), "pvd")
           /\ Goto("superblock")
        \/ /\ vol' = [v EXCEPT !.pvd = NULL]
           /\ mem' = DropPrimary(WithCache(v))
           /\ MountFails("OUT_OF_MEMORY", lastio)
    BY <1>5 DEF IsoDescriptor
  <2>2. pc = "superblock"
    BY <1>5 DEF IsoDescriptor, At
  <2>3. IsVolume(v) /\ v.pvd = vol.pvd /\ data \in Contents
    BY <1>3, GotKeeps
  <2>4. IsVolume(w) /\ w.pvd = vol.pvd
    <3> HIDE DEF v
    <3>1. QED
      BY <2>3, SetField
  <2> HIDE DEF v, data, w
  <2>5. CASE GetFails(vol, vol.at)
    BY <1>1, <1>2, <1>3, <2>5, GetFailsKeeps
  <2>6. CASE vol' = w /\ mem' = WithCache(v) /\ (Goto("pvd") \/ Goto("superblock"))
    BY <1>1, <1>2, <2>2, <2>4, <2>6, StepKeeps
  <2> DEFINE m == DropPrimary(WithCache(v))
  <2>7. /\ DOMAIN m = Chunks /\ m["pvd"] = 0
        /\ \A d \in Chunks \ {"cache", "pvd"} : m[d] = mem[d]
    BY <1>2, DropPrimaryIs
  <2> HIDE DEF m
  <2>8. CASE /\ IsPrimary(data) /\ vol' = [w EXCEPT !.pvd = data]
             /\ mem' = Alloc(m, "pvd") /\ Goto("superblock")
    <3>1. data # NULL
      BY <2>3, <2>8, PrimaryIsThere
    <3>2. IsVolume(vol') /\ vol'.pvd = data
      BY ONLY <2>4, <2>8, SetField
    <3>3. /\ DOMAIN mem' = Chunks /\ mem'["pvd"] = 1
          /\ \A d \in Chunks \ {"cache", "pvd"} : mem'[d] = mem[d]
      BY <2>7, <2>8, AllocIs DEF Changed, Chunks
    <3>4. QED
      BY <1>1, <1>2, <2>2, <2>8, <3>1, <3>2, <3>3, PrimaryKeeps
  <2>9. CASE /\ vol' = [v EXCEPT !.pvd = NULL] /\ mem' = m
             /\ MountFails("OUT_OF_MEMORY", lastio)
    <3>1. IsVolume(vol') /\ vol'.pvd = NULL
      BY ONLY <2>3, <2>9, SetField
    <3>2. QED
      BY <1>1, <1>2, <2>2, <2>7, <2>9, <3>1, PrimaryKeeps
  <2>10. QED
    BY <2>1, <2>5, <2>6, <2>8, <2>9 DEF m
<1>6. CASE IsoPrimary
  <2>1. pc = "pvd"
    BY <1>6 DEF IsoPrimary, At
  <2>2. CASE Refuse("UNSUPPORTED") /\ UNCHANGED <<vol, mem>>
    <3>1. DOMAIN mem' = Chunks /\ \A d \in Chunks \ {"cache"} : mem'[d] = mem[d]
      BY <1>2, <2>2, MountingFacts
    <3>2. QED
      BY <1>1, <1>2, <1>3, <2>2, <3>1, RefuseKeeps
  <2>3. CASE KeepLabel(vol, vol.pvd.label, "root")
    BY <1>1, <2>1, <2>3, KeepLabelKeeps
  <2>4. QED
    BY <1>6, <2>2, <2>3 DEF IsoPrimary
<1>7. QED
  BY <1>4, <1>5, <1>6 DEF IsoMount

(* Once there is a root the volume is mounted, without its descriptor.        *)
LEMMA CreateRootKeeps ==
    ASSUME VolumeInv, CreateRoot
    PROVE  VolumeInv'
<1>1. pc = "root" /\ pc \in Mounting
  BY DEF CreateRoot, Mounting
<1>2. CASE NoMemory /\ UNCHANGED <<vars, published>>
  <2>1. MountStep
    BY <1>2 DEF CreateRoot, MountStep, vars, device
  <2>2. QED
    BY <1>1, <1>2, <2>1, NoMemoryKeeps
<1>3. CASE /\ Mount /\ vol' = [vol EXCEPT !.pvd = NULL] /\ mem' = DropPrimary(mem)
           /\ pc' = "mount_done" /\ status' = "SUCCESS" /\ published' = TRUE
  <2>1. root' # NULL
    BY <1>3, FreeAddrIsFree, BoundsAssumption DEF Mount
  <2>2. UNCHANGED <<fstype, medium, diskio, installed>>
    BY DEF CreateRoot, device
  <2>3. ~installed /\ diskio /\ There /\ Started
    BY <1>1 DEF VolumeInv, Control, There, Started
  <2>4. Control'
    BY <1>3, <2>1, <2>2, <2>3 DEF VolumeInv, Control, Offered, Started
  <2>5. There' /\ Started'
    BY <1>3 DEF There, Offered, Started
  <2>6. IsVolume(vol') /\ vol'.pvd = NULL
    BY <1>1, <1>3, SetField, MountingFacts
  <2>7. IsVolume(vol)'
    BY <2>2, <2>6 DEF IsVolume, Contents
  <2>8. /\ DOMAIN mem' = Chunks /\ mem'["pvd"] = 0
        /\ \A d \in Chunks \ {"pvd"} : mem'[d] = mem[d]
    <3>1. /\ DOMAIN FreeChunk(mem, "pvd") = Chunks
          /\ \A d \in Chunks :
                FreeChunk(mem, "pvd")[d] = IF d = "pvd" THEN mem["pvd"] - 1 ELSE mem[d]
      BY <1>1, FreeIs, MountingFacts DEF Changed
    <3>2. QED
      BY <1>1, <1>3, <3>1, MountingFacts DEF DropPrimary, Chunks
  <2>9. OwnChunks(mem, pc) /\ mem["pool"] = 1 /\ mem["volume"] = 1
    BY <2>3 DEF VolumeInv, Memory
  <2>10. /\ mem'["pool"] = 1 /\ mem'["volume"] = 1 /\ mem'["sb"] = mem["sb"]
         /\ mem'["inotab"] = mem["inotab"] /\ mem'["label"] = mem["label"]
    BY <2>8, <2>9 DEF Chunks
  <2>11. OwnChunks(mem, pc)'
    BY <1>3, <2>2, <2>8, <2>9, <2>10 DEF OwnChunks
  <2>12. QED
    BY <2>4, <2>5, <2>6, <2>7, <2>8, <2>10, <2>11 DEF VolumeInv, Memory
<1>4. QED
  BY <1>2, <1>3 DEF CreateRoot

------------------------------------------------------------------------------
(* What the firmware calls. *)

(* Where volume_mount is not at work, memory that stays is as it was.         *)
LEMMA SameMemory ==
    ASSUME VolumeInv, UNCHANGED <<fstype, medium, vol, mem>>,
           Started' <=> Started, There' <=> There,
           pc' \in {"idle", "supported", "mount_done", "unmount", "volume_free", "close"}
    PROVE  Memory'
<1>1. OwnChunks(mem, pc)'
  BY DEF VolumeInv, Memory, OwnChunks
<1>2. IsVolume(vol)' <=> IsVolume(vol)
  BY DEF IsVolume, Contents
<1>3. QED
  BY <1>1, <1>2 DEF VolumeInv, Memory

LEMMA SupportedKeeps ==
    ASSUME VolumeInv, Supported
    PROVE  VolumeInv'
<1>1. /\ pc = "idle" /\ ~diskio /\ pc' = "supported"
      /\ UNCHANGED <<root, fstype, medium, diskio, installed, published, vol, mem, status>>
  BY DEF Supported, vars, device
<1>2. ~installed /\ ~Started
  BY <1>1 DEF VolumeInv, Control, Started
<1>3. (Started' <=> Started) /\ (There' <=> There) /\ (Offered' <=> Offered)
  BY <1>1, <1>2 DEF Started, There, Offered, Mounting
<1>4. Memory'
  BY <1>1, <1>3, SameMemory
<1>5. Control'
  BY <1>1, <1>2, <1>3 DEF VolumeInv, Control
<1>6. QED
  BY <1>4, <1>5 DEF VolumeInv

LEMMA StartKeeps ==
    ASSUME VolumeInv, Start
    PROVE  VolumeInv'
<1>1. /\ pc = "supported"
      /\ UNCHANGED <<root, fstype, medium, installed, published>>
  BY DEF Start, vars, device
<1>2. ~installed /\ ~Started /\ ~There /\ ~published /\ root = NULL /\ ~diskio
  BY <1>1 DEF VolumeInv, Control, Started, There, Offered, Mounting
<1>3. /\ DOMAIN mem = Chunks /\ mem["pool"] = 0 /\ vol = NULL
      /\ \A c \in Chunks \ {"pool"} : mem[c] = 0
  BY <1>2 DEF VolumeInv, Memory, OwnChunks
<1>4. CASE status' = "ALREADY_STARTED" /\ pc' = "idle" /\ UNCHANGED <<diskio, vol, mem>>
  <2>1. (Started' <=> Started) /\ (There' <=> There) /\ ~Offered'
    BY <1>1, <1>2, <1>4 DEF Started, There, Offered, Mounting
  <2>2. Memory'
    BY <1>1, <1>4, <2>1, SameMemory
  <2>3. Control'
    BY <1>1, <1>2, <1>4, <2>1 DEF VolumeInv, Control
  <2>4. QED
    BY <2>2, <2>3 DEF VolumeInv
<1> DEFINE m == Alloc(mem, "pool")
<1>5. DOMAIN m = Chunks /\ \A c \in Chunks : m[c] = IF c = "pool" THEN 1 ELSE 0
  <2>1. Changed(mem, m, "pool", mem["pool"] + 1)
    BY AllocIs
  <2>2. mem["pool"] + 1 = 1
    BY <1>3
  <2>3. QED
    BY ONLY <1>3, <2>1, <2>2 DEF Changed
<1> HIDE DEF m
<1>6. CASE /\ diskio' = TRUE /\ vol' = NewVolume /\ mem' = Alloc(m, "volume")
           /\ pc' = "volume_mount" /\ UNCHANGED status
  <2>1. /\ DOMAIN mem' = Chunks
        /\ \A c \in Chunks : mem'[c] = IF c \in {"pool", "volume"} THEN 1 ELSE 0
    <3>1. Changed(m, mem', "volume", m["volume"] + 1)
      BY <1>6, AllocIs
    <3>2. m["volume"] + 1 = 1
      BY <1>5 DEF Chunks
    <3>3. QED
      BY ONLY <1>5, <3>1, <3>2 DEF Changed
  <2>2. Started' /\ There' /\ ~Offered' /\ ~Offered
    BY <1>1, <1>2, <1>6 DEF Started, There, Offered, Mounting
  <2>3. Control'
    BY <1>1, <1>2, <1>6, <2>2 DEF VolumeInv, Control, Mounting
  <2>4. OwnChunks(mem, pc)'
    BY <2>1 DEF OwnChunks, Chunks
  <2>5. IsVolume(vol)' /\ vol'.pvd = NULL
    BY <1>6 DEF IsVolume, NewVolume
  <2>6. QED
    BY <2>1, <2>2, <2>3, <2>4, <2>5 DEF VolumeInv, Memory, Chunks
<1>7. CASE /\ diskio' = TRUE /\ vol' = vol /\ mem' = m
           /\ status' = MapStatus("OUT_OF_MEMORY", lastio') /\ pc' = "mount_done"
  <2>1. status' # "SUCCESS"
    BY <1>7, NoSuccess
  <2>2. Started' /\ ~There' /\ ~Offered'
    BY <1>1, <1>2, <1>7 DEF Started, There, Offered, Mounting
  <2>3. Control'
    BY <1>1, <1>2, <1>7, <2>1, <2>2 DEF VolumeInv, Control
  <2>4. OwnChunks(mem, pc)'
    BY <1>5, <1>7 DEF OwnChunks, Chunks
  <2>5. QED
    BY <1>3, <1>5, <1>7, <2>2, <2>3, <2>4 DEF VolumeInv, Memory, Chunks
<1>8. QED
  BY <1>4, <1>6, <1>7 DEF Start, m

LEMMA StartInstallKeeps ==
    ASSUME VolumeInv, StartInstall
    PROVE  VolumeInv'
<1>1. /\ pc = "mount_done"
      /\ UNCHANGED <<root, fstype, medium, diskio, published, vol, mem>>
  BY DEF StartInstall, vars, device
<1>2. /\ ~installed /\ Started /\ diskio /\ (There <=> published)
      /\ (status = "SUCCESS" <=> published) /\ (published <=> root # NULL)
  BY <1>1 DEF VolumeInv, Control, Started, There, Offered, Mounting
<1>3. CASE /\ status = "SUCCESS" /\ installed' = TRUE /\ pc' = "idle" /\ UNCHANGED status
  <2>1. Started' /\ There' /\ There /\ Offered'
    BY <1>2, <1>3 DEF Started, There, Offered
  <2>2. Memory'
    BY <1>1, <1>2, <1>3, <2>1, SameMemory
  <2>3. Control'
    BY <1>1, <1>2, <1>3, <2>1 DEF VolumeInv, Control
  <2>4. QED
    BY <2>2, <2>3 DEF VolumeInv
<1>4. CASE /\ status' # "SUCCESS" /\ pc' = IF published THEN "unmount" ELSE "close"
           /\ UNCHANGED installed
  <2>1. Started' /\ (There' <=> There) /\ ~Offered'
    BY <1>1, <1>2, <1>4 DEF Started, There, Offered, Mounting
  <2>2. Memory'
    BY <1>1, <1>2, <1>4, <2>1, SameMemory
  <2>3. Control'
    BY <1>1, <1>2, <1>4, <2>1 DEF VolumeInv, Control
  <2>4. QED
    BY <2>2, <2>3 DEF VolumeInv
<1>5. QED
  BY <1>3, <1>4 DEF StartInstall

LEMMA StopKeeps ==
    ASSUME VolumeInv, Stop
    PROVE  VolumeInv'
<1>1. /\ pc = "idle" /\ installed /\ ~installed' /\ status' = "NOT_STARTED" /\ pc' = "unmount"
      /\ UNCHANGED <<root, fstype, medium, diskio, published, vol, mem>>
  BY DEF Stop, vars, device
<1>2. published /\ Started /\ There /\ diskio
  BY <1>1 DEF VolumeInv, Control, Started, There, Offered
<1>3. Started' /\ There' /\ ~Offered'
  BY <1>1 DEF Started, There, Offered
<1>4. Memory'
  BY <1>1, <1>2, <1>3, SameMemory
<1>5. Control'
  BY <1>1, <1>2, <1>3 DEF VolumeInv, Control
<1>6. QED
  BY <1>4, <1>5 DEF VolumeInv

LEMMA UnmountRootKeeps ==
    ASSUME VolumeInv, UnmountRoot
    PROVE  VolumeInv'
<1>1. /\ pc = "unmount" /\ pc' = "volume_free" /\ root' = NULL
      /\ UNCHANGED <<fstype, medium, diskio, installed, published, vol, mem, status>>
  BY DEF UnmountRoot, Unmount, vars, device
<1>2. Started /\ There /\ ~installed /\ diskio /\ ~Offered
  BY <1>1 DEF VolumeInv, Control, Started, There, Offered
<1>3. Started' /\ There' /\ ~Offered'
  BY <1>1, <1>2 DEF Started, There, Offered
<1>4. Memory'
  BY <1>1, <1>2, <1>3, SameMemory
<1>5. Control'
  BY <1>1, <1>2, <1>3 DEF VolumeInv, Control
<1>6. QED
  BY <1>4, <1>5 DEF VolumeInv

(* The driver's own chunks are what its volume_free gives back, or the label. *)
LEMMA VolumeFreeKeeps ==
    ASSUME VolumeInv, VolumeFree
    PROVE  VolumeInv'
<1>1. /\ pc = "volume_free" /\ mem' = Remaining(mem) /\ vol' = NULL
      /\ pc' = IF published THEN "close" ELSE "mount_done"
      /\ UNCHANGED <<root, fstype, medium, diskio, installed, published, status>>
  BY DEF VolumeFree, vars, device
<1>2. Started /\ There /\ ~installed /\ diskio /\ ~Offered /\ root = NULL
  BY <1>1 DEF VolumeInv, Control, Started, There, Offered
<1>3. Started' /\ ~There' /\ ~Offered'
  BY <1>1, <1>2 DEF Started, There, Offered, Mounting
<1>4. Control'
  BY <1>1, <1>2, <1>3 DEF VolumeInv, Control
<1>5. /\ OwnChunks(mem, pc) /\ mem["pool"] = 1 /\ mem["volume"] = 1
      /\ mem["pvd"] \in {0, 1} /\ fstype \in {"ext2", "reiserfs", "iso9660"}
  BY <1>2 DEF VolumeInv, Memory, Control
<1>6. DOMAIN mem' = Chunks
  BY <1>1 DEF Remaining
<1>7. mem'["pool"] = 1
  BY <1>1, <1>5 DEF Remaining, Chunks, Freed
<1>8. mem'["volume"] = 0 /\ mem'["cache"] = 0 /\ mem'["label"] = 0
  BY <1>1, <1>5 DEF Remaining, Chunks, OwnChunks
<1>9. mem'["sb"] = 0
  BY <1>1, <1>5 DEF Remaining, Chunks, OwnChunks, Freed
<1>10. mem'["inotab"] = 0
  BY <1>1, <1>5 DEF Remaining, Chunks, OwnChunks, Freed
<1>11. mem'["pvd"] = 0
  BY <1>1, <1>5 DEF Remaining, Chunks, OwnChunks, Freed
<1>12. \A c \in Chunks \ {"pool"} : mem'[c] = 0
  BY ONLY <1>8, <1>9, <1>10, <1>11 DEF Chunks
<1>13. OwnChunks(mem, pc)'
  BY ONLY <1>6, <1>8, <1>9, <1>10, <1>11 DEF OwnChunks
<1>14. QED
  <2>1. vol' = NULL
    BY <1>1
  <2>2. Memory'
    <3>1. mem'["pool"] = IF Started' THEN 1 ELSE 0
      BY ONLY <1>3, <1>7
    <3>2. mem'["volume"] = IF There' THEN 1 ELSE 0
      BY ONLY <1>3, <1>8
    <3>3. QED
      BY ONLY <1>3, <1>12, <1>13, <2>1, <3>1, <3>2 DEF Memory
  <2>3. QED
    BY <1>4, <2>2 DEF VolumeInv

LEMMA FinishKeeps ==
    ASSUME VolumeInv, Finish
    PROVE  VolumeInv'
<1>1. /\ pc = "close" /\ mem' = FreeChunk(mem, "pool") /\ pc' = "idle"
      /\ published' = FALSE /\ diskio' = FALSE
      /\ UNCHANGED <<root, fstype, medium, installed, vol, status>>
  BY DEF Finish, vars, device
<1>2. Started /\ ~There /\ ~installed /\ ~Offered /\ root = NULL
  BY <1>1 DEF VolumeInv, Control, Started, There, Offered, Mounting
<1>3. ~Started' /\ ~There' /\ ~Offered'
  BY <1>1, <1>2 DEF Started, There, Offered, Mounting
<1>4. Control'
  BY <1>1, <1>2, <1>3 DEF VolumeInv, Control
<1>5. /\ DOMAIN mem = Chunks /\ mem["pool"] = 1 /\ vol = NULL
      /\ \A c \in Chunks \ {"pool"} : mem[c] = 0
  BY <1>2 DEF VolumeInv, Memory, OwnChunks
<1>6. DOMAIN mem' = Chunks /\ \A c \in Chunks : mem'[c] = 0
  <2>1. Changed(mem, mem', "pool", mem["pool"] - 1)
    BY <1>1, FreeIs
  <2>2. mem["pool"] - 1 = 0
    BY <1>5
  <2>3. QED
    BY ONLY <1>5, <2>1, <2>2 DEF Changed
<1>7. OwnChunks(mem, pc)'
  BY <1>6 DEF OwnChunks, Chunks
<1>8. QED
  BY <1>1, <1>3, <1>4, <1>5, <1>6, <1>7 DEF VolumeInv, Memory, Chunks

(* Clients, and releases under way, leave the volume itself alone.            *)
LEMMA DnodesKeep ==
    ASSUME VolumeInv, root' = root, UNCHANGED bvars
    PROVE  VolumeInv'
BY DEF VolumeInv, Control, Memory, bvars, Offered, Started, There, OwnChunks, IsVolume,
   Contents

LEMMA RootStays ==
    ASSUME Client \/ Step
    PROVE  root' = root
<1>1. CASE Client
  BY <1>1 DEF Client, OpenVolume, Close, Rewind, ReadEntry, ReadNameAllocFails, Open
<1>2. CASE Release \/ DirOpen
  BY <1>2 DEF Release, DirOpen, OpenLookedUp, OpenResolved, OpenHandle, OpenFails
<1>3. CASE LookupPath
  BY <1>3 DEF LookupPath, PathDone, PathEmptyComponent, PathFillFails, PathSymlink,
     PathSymlinkResolved, PathSymlinkFails, PathNotDirectory, PathSpecialName,
     PathLookupFails, PathLookup, PathNameAllocFails
<1>4. CASE Resolve
  BY <1>4 DEF Resolve, ResolveDone, ResolveReadFails, ResolveFollow, ResolveStepDone,
     ResolveFails
<1>5. QED
  BY <1>1, <1>2, <1>3, <1>4 DEF Step

LEMMA VolumeInitInv ==
    ASSUME VolumeInit
    PROVE  VolumeInv
<1>1. /\ fstype \in {"ext2", "reiserfs", "iso9660"} /\ medium \in Media
      /\ diskio = FALSE /\ installed = FALSE /\ published = FALSE /\ vol = NULL
      /\ mem = [c \in Chunks |-> 0] /\ pc = "idle" /\ status = "NOT_STARTED" /\ root = NULL
  BY VolumeAssumption DEF VolumeInit, Init
<1>2. ~Started /\ ~There /\ ~Offered
  BY <1>1 DEF Started, There, Offered, Mounting
<1>3. Control
  BY <1>1, <1>2 DEF Control
<1>4. Memory
  BY <1>1, <1>2 DEF Memory, OwnChunks, Chunks
<1>5. QED
  BY <1>3, <1>4 DEF VolumeInv

LEMMA VolumeInvStep ==
    ASSUME VolumeInv, [VolumeNext]_allvars
    PROVE  VolumeInv'
<1>1. CASE Ext2Mount \/ ReiserMount \/ IsoMount
  BY <1>1, Ext2Keeps, ReiserKeeps, IsoKeeps
<1>2. CASE CreateRoot
  BY <1>2, CreateRootKeeps
<1>3. CASE Supported \/ Start \/ StartInstall
  BY <1>3, SupportedKeeps, StartKeeps, StartInstallKeeps
<1>4. CASE Stop \/ UnmountRoot
  BY <1>4, StopKeeps, UnmountRootKeeps
<1>5. CASE VolumeFree \/ Finish
  BY <1>5, VolumeFreeKeeps, FinishKeeps
<1>6. CASE ClientCall \/ DnodeStep
  BY <1>6, RootStays, DnodesKeep DEF ClientCall, DnodeStep
<1>7. CASE UNCHANGED allvars
  BY <1>7, DnodesKeep DEF allvars, vars
<1>8. QED
  BY <1>1, <1>2, <1>3, <1>4, <1>5, <1>6, <1>7 DEF VolumeNext, DriverStep

(* What the driver binding holds fits the place it is at, whichever read,     *)
(* allocation or firmware call fails (fsw_efi.c, fsw_core.c).                 *)
THEOREM VolumeInvariant == VolumeSpec => []VolumeInv
<1>1. QED
  BY VolumeInitInv, VolumeInvStep, PTL DEF VolumeSpec

(* Between the firmware's calls a driver is started or has given everything   *)
(* back, for every medium and every driver.                                   *)
THEOREM StartsOrCleansUp == VolumeSpec => []StartedOrClean
<1>1. VolumeInv => StartedOrClean
  <2> SUFFICES ASSUME VolumeInv, Resting PROVE StartedOrClean
    BY DEF StartedOrClean
  <2>1. pc \in {"idle", "supported"}
    BY DEF Resting
  <2>2. CASE installed
    <3>1. Offered /\ Started /\ There /\ published
      BY <2>2 DEF VolumeInv, Control, Offered, Started, There
    <3>2. QED
      BY <2>2, <3>1 DEF VolumeInv, Control, Memory, StartedOrClean
  <2>3. CASE ~installed
    <3>1. ~Offered /\ ~Started /\ ~There /\ ~published
      BY <2>1, <2>3 DEF VolumeInv, Control, Offered, Started, There, Mounting
    <3>2. root = NULL /\ ~diskio /\ status # "SUCCESS"
      BY <2>1, <3>1 DEF VolumeInv, Control
    <3>3. vol = NULL /\ \A c \in Chunks : mem[c] = 0
      BY <3>1 DEF VolumeInv, Memory
    <3>4. QED
      BY <2>3, <3>1, <3>2, <3>3 DEF StartedOrClean
  <2>4. QED
    BY <2>2, <2>3
<1>2. QED
  BY <1>1, VolumeInvariant, PTL


------------------------------------------------------------------------------
(* What volume_mount has found out about the medium, at each of its places.   *)

(* What Start is to return: another driver may be the one for this medium.    *)
Expected == IF medium.fs = fstype THEN medium.verdict ELSE "UNSUPPORTED"

AsOnMedium(v) ==
    /\ StrCpy(v.label) = medium.label /\ v.bs = medium.bs
    /\ fstype = "ext2" =>
         \A ino \in DOMAIN medium.inode : InodeAt(v, ino) = medium.inode[ino]

(* The cached blocks are those of the medium at the block size in force.      *)
Mirrors(v) == \A b \in DOMAIN v.cache : v.cache[b] = OnMedium(b * v.bs)

(* The superblock is known for a good one, and its block size in force.       *)
Ext2Known(v) ==
    /\ medium.fs = "ext2" /\ medium.verdict = "SUCCESS"
    /\ v.sb = OnMedium(1) /\ v.bs = v.sb.bs

TablesOf(sb) == {InodeTable(medium, sb, g) : g \in Nat}

GroupsRead(v) ==
    /\ v.inotab \in Seq(TablesOf(v.sb))
    /\ Len(v.inotab) <= GroupCount(v.sb)
    /\ \A g \in 1 .. Len(v.inotab) : v.inotab[g] = InodeTable(medium, v.sb, g - 1)

Ext2Inv ==
    /\ pc # "pvd"
    /\ pc \in {"label", "inotab", "groups", "root"} => Ext2Known(vol)
    /\ pc \in {"inotab", "groups", "root"} => vol.label = Coerce(vol.sb.label)
    /\ pc \notin {"groups", "root"} => vol.inotab = <<>>
    /\ pc \in {"groups", "root"} => GroupsRead(vol)
    /\ pc = "root" => Len(vol.inotab) = GroupCount(vol.sb)

(* None of the places tried so far has a superblock; or the first that has.   *)
ReiserInv ==
    /\ pc \in {"volume_mount", "superblock", "label", "root"}
    /\ pc = "superblock" =>
         /\ vol.bs = 4 /\ vol.at \in 1 .. 3
         /\ vol.at > 1 => ~KnownFormat(OnMedium(64))
         /\ vol.at > 2 => ~KnownFormat(OnMedium(8))
    /\ pc \in {"label", "root"} =>
         /\ medium.fs = "reiserfs" /\ medium.verdict = "SUCCESS"
         /\ vol.sb.label = medium.label /\ vol.bs = medium.bs
    /\ pc = "root" => vol.label = Coerce(vol.sb.label)

(* The Primary Volume Descriptor kept is the last one of those before b.      *)
LastBefore(pvd, b) ==
    IF pvd = NULL THEN \A c \in 16 .. b - 1 : ~PrimaryAt(medium, c)
    ELSE \E c \in 16 .. b - 1 : /\ PrimaryAt(medium, c) /\ pvd = OnMedium(2 * c)
                                /\ \A d \in c + 1 .. b - 1 : ~PrimaryAt(medium, d)

IsoInv ==
    /\ pc \in {"volume_mount", "superblock", "pvd", "root"}
    /\ pc \in {"superblock", "pvd"} =>
         /\ vol.bs = 2 /\ vol.at \in Nat /\ vol.at >= 16
         /\ LastBefore(vol.pvd, vol.at)
         /\ InSet(medium, vol.at) <=> pc = "superblock"
    /\ pc = "root" =>
         /\ medium.fs = "iso9660" /\ medium.verdict = "SUCCESS"
         /\ vol.label = Coerce(medium.label) /\ vol.bs = medium.bs

(* What is proved of a mount as it goes on, and of what it leaves.            *)
MediumInv ==
    /\ pc \in Mounting =>
         /\ Mirrors(vol)
         /\ fstype = "ext2" => Ext2Inv
         /\ fstype = "reiserfs" => ReiserInv
         /\ fstype = "iso9660" => IsoInv
    /\ pc = "volume_mount" => vol.pvd = NULL
    /\ pc \notin Mounting /\ ~faulted /\ status # "NOT_STARTED" => status = Expected
    /\ Offered => AsOnMedium(vol)


LEMMA MediumFields ==
    ASSUME NEW v, IsVolume(v), NEW x
    PROVE  /\ LET w == [v EXCEPT !.sb = x] IN
                /\ w.sb = x /\ w.bs = v.bs /\ w.cache = v.cache /\ w.inotab = v.inotab
                /\ w.label = v.label /\ w.at = v.at /\ w.pvd = v.pvd
           /\ LET w == [v EXCEPT !.inotab = x] IN
                /\ w.inotab = x /\ w.bs = v.bs /\ w.cache = v.cache /\ w.sb = v.sb
                /\ w.label = v.label /\ w.at = v.at /\ w.pvd = v.pvd
           /\ LET w == [v EXCEPT !.label = x] IN
                /\ w.label = x /\ w.bs = v.bs /\ w.cache = v.cache /\ w.sb = v.sb
                /\ w.inotab = v.inotab /\ w.at = v.at /\ w.pvd = v.pvd
           /\ LET w == [v EXCEPT !.at = x] IN
                /\ w.at = x /\ w.bs = v.bs /\ w.cache = v.cache /\ w.sb = v.sb
                /\ w.inotab = v.inotab /\ w.label = v.label /\ w.pvd = v.pvd
           /\ LET w == [v EXCEPT !.pvd = x] IN
                /\ w.pvd = x /\ w.bs = v.bs /\ w.cache = v.cache /\ w.sb = v.sb
                /\ w.inotab = v.inotab /\ w.label = v.label /\ w.at = v.at
           /\ LET w == [v EXCEPT !.version = x] IN
                /\ w.sb = v.sb /\ w.bs = v.bs /\ w.cache = v.cache /\ w.inotab = v.inotab
                /\ w.label = v.label /\ w.at = v.at /\ w.pvd = v.pvd
BY DEF IsVolume, NewVolume

(* With another block size the cache starts anew; otherwise a block is read   *)
(* where it lies.                                                             *)
LEMMA SetBlocksizeMirrors ==
    ASSUME NEW v, IsVolume(v), NEW bs
    PROVE  LET w == SetBlocksize(v, bs) IN
             /\ Mirrors(w) /\ w.bs = bs /\ w.sb = v.sb /\ w.inotab = v.inotab
             /\ w.label = v.label /\ w.at = v.at /\ w.pvd = v.pvd
<1> DEFINE w == SetBlocksize(v, bs)
<1>1. /\ w.cache = <<>> /\ w.bs = bs /\ w.sb = v.sb /\ w.inotab = v.inotab
      /\ w.label = v.label /\ w.at = v.at /\ w.pvd = v.pvd
  BY DEF SetBlocksize, IsVolume, NewVolume
<1>2. DOMAIN <<>> = {}
  OBVIOUS
<1> HIDE DEF w
<1>3. Mirrors(w)
  BY <1>1, <1>2 DEF Mirrors
<1>4. QED
  BY <1>1, <1>3 DEF w

LEMMA GotMirrors ==
    ASSUME NEW v, IsVolume(v), Mirrors(v), NEW bno
    PROVE  LET w == Got(v, bno) IN
             /\ Mirrors(w) /\ w.cache[bno] = OnMedium(bno * v.bs)
             /\ w.bs = v.bs /\ w.sb = v.sb /\ w.inotab = v.inotab
             /\ w.label = v.label /\ w.at = v.at /\ w.pvd = v.pvd
<1>1. CASE bno \in DOMAIN v.cache
  BY <1>1 DEF Got, Mirrors
<1>2. CASE bno \notin DOMAIN v.cache
  <2> DEFINE c == [b \in DOMAIN v.cache \union {bno} |->
                      IF b = bno THEN OnMedium(bno * v.bs) ELSE v.cache[b]]
             w == [v EXCEPT !.cache = c]
  <2>1. Got(v, bno) = w
    BY <1>2 DEF Got
  <2>2. /\ DOMAIN c = DOMAIN v.cache \union {bno} /\ c[bno] = OnMedium(bno * v.bs)
        /\ \A b \in DOMAIN v.cache \ {bno} : c[b] = v.cache[b]
    OBVIOUS
  <2> HIDE DEF c
  <2>3. /\ w.cache = c /\ w.bs = v.bs /\ w.sb = v.sb /\ w.inotab = v.inotab
        /\ w.label = v.label /\ w.at = v.at /\ w.pvd = v.pvd
    BY DEF IsVolume, NewVolume
  <2> HIDE DEF w
  <2>4. Mirrors(w)
    BY <2>2, <2>3 DEF Mirrors
  <2>5. QED
    BY <2>1, <2>2, <2>3, <2>4
<1>3. QED
  BY <1>1, <1>2

(* A mount that goes on, and one that fails: for want of memory, because a    *)
(* block cannot be read, or with the answer that is due.                      *)
LEMMA MountGoesOn ==
    ASSUME VolumeInv, pc \in Mounting, MountStep, NEW where, Goto(where),
           where \in Mounting \ {"volume_mount"}, Mirrors(vol'),
           fstype = "ext2" => Ext2Inv',
           fstype = "reiserfs" => ReiserInv',
           fstype = "iso9660" => IsoInv'
    PROVE  MediumInv'
<1>1. /\ pc' = where /\ UNCHANGED <<fstype, medium, installed, published>>
      /\ ~installed
  BY DEF MountStep, Goto, device, VolumeInv, Control, Mounting
<1>2. pc' \in Mounting /\ pc' # "volume_mount" /\ ~Offered'
  BY <1>1 DEF Offered, Mounting
<1>3. Mirrors(vol)'
  BY <1>1 DEF Mirrors, OnMedium
<1>4. QED
  BY <1>1, <1>2, <1>3 DEF MediumInv

LEMMA MountEnds ==
    ASSUME VolumeInv, pc \in Mounting, MountStep, pc' = "unmount",
           faulted' \/ status' = Expected
    PROVE  MediumInv'
<1>1. UNCHANGED <<fstype, medium, installed, published>> /\ ~installed
  BY DEF MountStep, device, VolumeInv, Control, Mounting
<1>2. ~Offered' /\ pc' \notin Mounting /\ Expected' = Expected
  BY <1>1 DEF Offered, Mounting, Expected
<1>3. QED
  BY <1>2 DEF MediumInv

LEMMA MountFaults ==
    ASSUME VolumeInv, pc \in Mounting, MountStep,
           NEW v, NEW bno, NoMemory \/ GetFails(v, bno)
    PROVE  MediumInv'
<1>1. pc' = "unmount" /\ faulted'
  BY DEF NoMemory, GetFails, ReadFails, MountFails
<1>2. QED
  BY <1>1, MountEnds

LEMMA MountRefuses ==
    ASSUME VolumeInv, pc \in Mounting, MountStep,
           \/ Refuse("UNSUPPORTED") /\ Expected = "UNSUPPORTED"
           \/ Refuse("VOLUME_CORRUPTED") /\ Expected = "VOLUME_CORRUPTED"
    PROVE  MediumInv'
<1>1. pc' = "unmount" /\ status' = Expected
  BY DEF Refuse, MountFails, MapStatus
<1>2. QED
  BY <1>1, MountEnds

LEMMA MediumFacts ==
    ASSUME VolumeInv, MediumInv, pc \in Mounting
    PROVE  IsVolume(vol) /\ Mirrors(vol) /\ Ext2Truth(medium) /\ ReiserTruth(medium) /\ IsoTruth(medium)
BY MountingFacts, MediaAssumption DEF VolumeInv, Control, MediumInv


------------------------------------------------------------------------------
(* ext2. *)

(* As many groups as descriptors are read, and every inode is in one of them. *)
LEMMA GroupsOfInodes ==
    ASSUME NEW n \in Nat \ {0}, NEW p \in Nat \ {0, 1}, n % p = 0
    PROVE  /\ n \div p \in Nat /\ ((n - 2) \div p) + 1 = n \div p
           /\ \A ino \in 1 .. n : (ino - 1) \div p \in 0 .. (n \div p) - 1
<1> DEFINE k == n \div p
<1>1. k \in Nat /\ n = (p * k) + (n % p)
  OBVIOUS
<1>2. n = p * k /\ k # 0
  BY <1>1
<1> HIDE DEF k
<1> DEFINE j == k - 1
<1>3. j \in Nat /\ k = j + 1
  BY <1>1, <1>2
<1> HIDE DEF j
<1>4. n - 2 = (p * j) + (p - 2) /\ p - 2 \in Nat /\ p - 2 < p
  BY <1>2, <1>3
<1>5. ((p * j) + (p - 2)) \div p = j
  BY ONLY <1>3, <1>4, p \in Nat \ {0, 1}
<1>6. (n - 2) \div p = j
  BY <1>4, <1>5
<1>7. ASSUME NEW ino \in 1 .. n PROVE (ino - 1) \div p \in 0 .. k - 1
  <2> DEFINE q == (ino - 1) \div p
             r == (ino - 1) % p
  <2>1. q \in Nat /\ r \in Nat /\ ino - 1 = (p * q) + r
    OBVIOUS
  <2> HIDE DEF q, r
  <2>2. p * q < p * k /\ p * q \in Nat /\ p * k \in Nat
    BY <1>1, <1>2, <2>1
  <2>3. q < k
    <3>1. SUFFICES ASSUME k <= q PROVE FALSE
      BY <1>1, <2>1
    <3>2. p * k <= p * q
      BY ONLY <1>1, <2>1, <3>1, p \in Nat \ {0, 1}
    <3>3. QED
      BY ONLY <2>2, <3>2
  <2>4. QED
    BY <1>1, <2>1, <2>3 DEF q
<1>8. QED
  BY <1>1, <1>3, <1>6, <1>7 DEF k

LEMMA SuperblockIsKnown ==
    ASSUME Ext2Truth(medium), fstype = "ext2"
    PROVE  /\ Supported2(OnMedium(1)) => /\ medium.fs = "ext2" /\ medium.verdict = "SUCCESS"
                                         /\ medium.label = OnMedium(1).label
           /\ ~Supported2(OnMedium(1)) => Expected = "UNSUPPORTED"
BY DEF Ext2Truth, Supported2, Compatible, OnMedium, Expected

(* What is true of the groups of a medium whose superblock is good. *)
LEMMA GroupsAreThere ==
    ASSUME Ext2Truth(medium), NEW v, Ext2Known(v)
    PROVE  /\ Ext2Groups(medium, v.sb) /\ medium.label = v.sb.label /\ v.bs = medium.bs
           /\ GroupCount(v.sb) \in Nat
           /\ \A g \in 0 .. GroupCount(v.sb) - 1 :
                 DescriptorBlock(medium, v.sb, g).is = "gdescs"
           /\ \A ino \in DOMAIN medium.inode :
                 (ino - 1) \div v.sb.per_group \in 0 .. GroupCount(v.sb) - 1
<1> DEFINE sb == v.sb
<1>1. sb = Lies(medium, 1) /\ v.bs = sb.bs
  BY DEF Ext2Known, OnMedium
<1>2. Ext2Groups(medium, sb) /\ medium.label = sb.label /\ v.bs = medium.bs
  BY <1>1 DEF Ext2Known, Ext2Truth
<1>3. sb.inodes \in Nat \ {0} /\ sb.per_group \in Nat \ {0, 1} /\ sb.inodes % sb.per_group = 0
  BY <1>2 DEF Ext2Groups
<1>4. /\ sb.inodes \div sb.per_group \in Nat
      /\ GroupCount(sb) = sb.inodes \div sb.per_group
      /\ \A ino \in 1 .. sb.inodes :
            (ino - 1) \div sb.per_group \in 0 .. (sb.inodes \div sb.per_group) - 1
  BY <1>3, GroupsOfInodes DEF GroupCount
<1>5. QED
  BY <1>2, <1>4 DEF Ext2Groups

(* With all descriptors read an inode is found where it is. *)
LEMMA InodesAreFound ==
    ASSUME Ext2Truth(medium), NEW v, Ext2Known(v), GroupsRead(v),
           Len(v.inotab) = GroupCount(v.sb)
    PROVE  \A ino \in DOMAIN medium.inode : InodeAt(v, ino) = medium.inode[ino]
<1> SUFFICES ASSUME NEW ino \in DOMAIN medium.inode
             PROVE  InodeAt(v, ino) = medium.inode[ino]
  OBVIOUS
<1> DEFINE g == (ino - 1) \div v.sb.per_group
<1>1. /\ medium.inode[ino] = PlaceOfInode(medium, v.sb, ino)
      /\ GroupCount(v.sb) \in Nat /\ g \in 0 .. GroupCount(v.sb) - 1
  BY GroupsAreThere DEF Ext2Groups
<1>2. v.inotab[g + 1] = InodeTable(medium, v.sb, g)
  <2> HIDE DEF g
  <2>1. g + 1 \in 1 .. Len(v.inotab) /\ (g + 1) - 1 = g
    BY <1>1
  <2>2. v.inotab[g + 1] = InodeTable(medium, v.sb, (g + 1) - 1)
    BY <2>1 DEF GroupsRead
  <2>3. QED
    BY <2>1, <2>2
<1>3. v.bs = v.sb.bs
  BY DEF Ext2Known
<1>4. QED
  BY <1>1, <1>2, <1>3 DEF InodeAt, PlaceOfInode, InodesPerBlock, InodeSize

LEMMA Ext2Finds ==
    ASSUME VolumeInv, MediumInv, Ext2Mount
    PROVE  MediumInv'
<1>1. /\ MountStep /\ fstype = "ext2" /\ UNCHANGED <<fstype, medium>>
      /\ pc \in {"volume_mount", "superblock", "label", "inotab", "groups"}
  BY DEF Ext2Mount, Ext2Alloc, Ext2Super, Ext2Label, Ext2AllocTables, Ext2Group, At,
     MountStep, device
<1>2. pc \in Mounting /\ Ext2Inv
  BY <1>1 DEF Mounting, MediumInv
<1>3. IsVolume(vol) /\ Mirrors(vol) /\ Ext2Truth(medium)
  BY <1>2, MediumFacts
<1>4. ASSUME NEW where \in {"superblock", "label", "inotab", "groups", "root"},
             Goto(where), Mirrors(vol'), Ext2Inv'
      PROVE  MediumInv'
  <2>1. where \in Mounting \ {"volume_mount"}
    BY DEF Mounting
  <2>2. fstype' = "ext2"
    BY <1>1
  <2>3. QED
    BY <1>1, <1>2, <1>4, <2>1, <2>2, MountGoesOn
<1>5. CASE NoMemory
  BY <1>1, <1>2, <1>5, MountFaults
<1>6. CASE Ext2Alloc /\ ~NoMemory
  <2>1. Goto("superblock") /\ vol' = vol /\ pc = "volume_mount" /\ pc' = "superblock"
    BY <1>6 DEF Ext2Alloc, At, Goto
  <2>2. Ext2Inv'
    BY <1>2, <2>1 DEF Ext2Inv
  <2>3. QED
    BY <1>3, <1>4, <2>1, <2>2
<1>7. CASE Ext2Super
  <2> DEFINE small == SetBlocksize(vol, 1)
             v     == Got(small, 1)
             data  == v.cache[1]
             w     == [v EXCEPT !.sb = data]
  <2>1. \/ GetFails(small, 1)
        \/ /\ Supported2(data) /\ vol' = SetBlocksize(w, data.bs) /\ Goto("label")
        \/ ~Supported2(data) /\ Refuse("UNSUPPORTED")
    BY <1>7 DEF Ext2Super
  <2>2. pc = "superblock"
    BY <1>7 DEF Ext2Super, At
  <2>3. /\ IsVolume(small) /\ Mirrors(small) /\ small.bs = 1 /\ small.inotab = vol.inotab
    BY <1>3, SetBlocksizeKeeps, SetBlocksizeMirrors
  <2>4. IsVolume(v) /\ data = OnMedium(1 * 1) /\ v.inotab = vol.inotab
    <3> HIDE DEF small
    <3>1. QED
      BY <2>3, GotKeeps, GotMirrors
  <2>5. data = OnMedium(1)
    BY <2>4
  <2>6. IsVolume(w) /\ w.sb = data /\ w.inotab = vol.inotab
    <3> HIDE DEF v, data
    <3>1. IsVolume(v) /\ v.inotab = vol.inotab
      BY <2>4
    <3>2. IsVolume(w)
      BY ONLY <3>1, SetField
    <3>3. w.sb = data /\ w.inotab = v.inotab
      BY ONLY <3>1, MediumFields
    <3>4. QED
      BY ONLY <3>1, <3>2, <3>3
  <2> HIDE DEF small, v, data, w
  <2>7. CASE GetFails(small, 1)
    BY <1>1, <1>2, <2>7, MountFaults
  <2>8. CASE Supported2(data) /\ vol' = SetBlocksize(w, data.bs) /\ Goto("label")
    <3>1. /\ Mirrors(vol') /\ vol'.bs = data.bs /\ vol'.sb = data
          /\ vol'.inotab = vol.inotab
      BY <2>6, <2>8, SetBlocksizeMirrors
    <3>2. medium.fs = "ext2" /\ medium.verdict = "SUCCESS"
      BY <1>1, <1>3, <2>5, <2>8, SuperblockIsKnown
    <3>3. Ext2Known(vol)'
      BY <1>1, <2>5, <3>1, <3>2 DEF Ext2Known, OnMedium
    <3>4. vol.inotab = <<>> /\ pc' = "label"
      BY <1>2, <2>2, <2>8 DEF Ext2Inv, Goto
    <3>5. Ext2Inv'
      BY <3>1, <3>3, <3>4 DEF Ext2Inv
    <3>6. QED
      BY <1>4, <2>8, <3>1, <3>5
  <2>9. CASE ~Supported2(data) /\ Refuse("UNSUPPORTED")
    <3>1. Expected = "UNSUPPORTED"
      BY <1>1, <1>3, <2>5, <2>9, SuperblockIsKnown
    <3>2. QED
      BY <1>1, <1>2, <2>9, <3>1, MountRefuses
  <2>10. QED
    BY <2>1, <2>7, <2>8, <2>9
<1>8. CASE Ext2Label
  <2>1. pc = "label" /\ KeepLabel(vol, vol.sb.label, "inotab")
    BY <1>8 DEF Ext2Label, At
  <2>2. CASE vol' = [vol EXCEPT !.label = Coerce(vol.sb.label)] /\ Goto("inotab")
    <3>1. /\ Mirrors(vol') /\ vol'.sb = vol.sb /\ vol'.bs = vol.bs
          /\ vol'.inotab = vol.inotab /\ vol'.label = Coerce(vol.sb.label)
      BY <1>3, <2>2, MediumFields DEF Mirrors
    <3>2. Ext2Known(vol) /\ vol.inotab = <<>> /\ pc' = "inotab"
      BY <1>2, <2>1, <2>2 DEF Ext2Inv, Goto
    <3>3. Ext2Known(vol)'
      BY <1>1, <3>1, <3>2 DEF Ext2Known, OnMedium
    <3>4. Ext2Inv'
      BY <3>1, <3>2, <3>3 DEF Ext2Inv
    <3>5. QED
      BY <1>4, <2>2, <3>1, <3>4
  <2>3. QED
    BY <1>5, <2>1, <2>2 DEF KeepLabel
<1>9. CASE Ext2AllocTables /\ ~NoMemory
  <2>1. Goto("groups") /\ vol' = vol /\ pc = "inotab" /\ pc' = "groups"
    BY <1>9 DEF Ext2AllocTables, At, Goto
  <2>2. Ext2Known(vol) /\ vol.inotab = <<>> /\ vol.label = Coerce(vol.sb.label)
    BY <1>2, <2>1 DEF Ext2Inv
  <2>3. Ext2Known(vol)'
    BY <1>1, <2>1, <2>2 DEF Ext2Known, OnMedium
  <2>4. GroupsRead(vol)'
    <3>1. GroupCount(vol.sb) \in Nat
      BY <1>3, <2>2, GroupsAreThere
    <3>2. vol'.inotab = <<>> /\ vol'.sb = vol.sb /\ Len(<<>>) = 0
      BY <2>1, <2>2
    <3>3. <<>> \in Seq(TablesOf(vol.sb)')
      OBVIOUS
    <3>4. QED
      BY <3>1, <3>2, <3>3 DEF GroupsRead
  <2>5. Ext2Inv'
    BY <2>1, <2>2, <2>3, <2>4 DEF Ext2Inv
  <2>6. QED
    BY <1>3, <1>4, <2>1, <2>5
<1>10. CASE Ext2Group
  <2> DEFINE groupno  == Len(vol.inotab)
             perblock == vol.bs * DescsPerKiB
             bno      == vol.sb.first + 1 + (groupno \div perblock)
             v        == Got(vol, bno)
             table    == Table(v.cache[bno], groupno % perblock)
  <2>1. \/ groupno = GroupCount(vol.sb) /\ Goto("root") /\ vol' = vol
        \/ GetFails(vol, bno)
        \/ /\ groupno # GroupCount(vol.sb)
           /\ vol' = [v EXCEPT !.inotab = Append(@, table)] /\ Goto("groups")
    BY <1>10 DEF Ext2Group
  <2>2. pc = "groups"
    BY <1>10 DEF Ext2Group, At
  <2>3. Ext2Known(vol) /\ GroupsRead(vol) /\ vol.label = Coerce(vol.sb.label)
    BY <1>2, <2>2 DEF Ext2Inv
  <2>4. CASE groupno = GroupCount(vol.sb) /\ Goto("root") /\ vol' = vol
    <3>1. pc' = "root"
      BY <2>4 DEF Goto
    <3>2. Ext2Known(vol)' /\ GroupsRead(vol)'
      BY <1>1, <2>3, <2>4 DEF Ext2Known, OnMedium, GroupsRead, TablesOf
    <3>3. Ext2Inv'
      BY <2>3, <2>4, <3>1, <3>2 DEF Ext2Inv
    <3>4. QED
      BY <1>3, <1>4, <2>4, <3>3
  <2>5. CASE GetFails(vol, bno)
    BY <1>1, <1>2, <2>5, MountFaults
  <2>6. CASE /\ groupno # GroupCount(vol.sb)
             /\ vol' = [v EXCEPT !.inotab = Append(@, table)] /\ Goto("groups")
    <3>1. /\ IsVolume(v) /\ Mirrors(v) /\ v.cache[bno] = OnMedium(bno * vol.bs)
          /\ v.bs = vol.bs /\ v.sb = vol.sb /\ v.inotab = vol.inotab /\ v.label = vol.label
      <4> HIDE DEF bno
      <4>1. QED
        BY <1>3, GotKeeps, GotMirrors
    <3>2. /\ vol'.inotab = Append(vol.inotab, table) /\ vol'.bs = vol.bs
          /\ vol'.sb = vol.sb /\ vol'.label = vol.label /\ vol'.cache = v.cache
      <4> HIDE DEF v, table
      <4>1. QED
        BY <2>6, <3>1, MediumFields
    <3>3. Mirrors(vol')
      <4> HIDE DEF v
      <4>1. QED
        BY <1>1, <3>1, <3>2 DEF Mirrors
    <3>4. /\ groupno \in Nat /\ GroupCount(vol.sb) \in Nat
          /\ groupno + 1 <= GroupCount(vol.sb)
      <4>1. GroupCount(vol.sb) \in Nat
        BY <1>3, <2>3, GroupsAreThere
      <4>2. groupno \in Nat /\ groupno <= GroupCount(vol.sb)
        BY <2>3 DEF GroupsRead
      <4> HIDE DEF groupno
      <4>3. QED
        BY <2>6, <4>1, <4>2
    <3>5. table = InodeTable(medium, vol.sb, groupno)
      <4>1. vol.bs = vol.sb.bs /\ vol.sb.bs \in Nat /\ vol.sb.first \in Nat
        BY <1>3, <2>3, GroupsAreThere DEF Ext2Known, Ext2Groups
      <4>2. DescriptorBlock(medium, vol.sb, groupno).is = "gdescs"
        <5>1. groupno \in 0 .. GroupCount(vol.sb) - 1
          BY <3>4
        <5>2. QED
          BY <1>3, <2>3, <5>1, GroupsAreThere
      <4>3. bno * vol.bs = vol.sb.bs * (vol.sb.first + 1 + (groupno \div (vol.sb.bs * DescsPerKiB)))
        <5> DEFINE q == groupno \div perblock
        <5>1. perblock \in Nat \ {0}
          BY <1>3, <2>3, <4>1, GroupsAreThere, VolumeAssumption DEF Ext2Groups
        <5>2. q \in Nat /\ bno = vol.sb.first + 1 + q
          BY <3>4, <5>1
        <5>3. groupno \div (vol.sb.bs * DescsPerKiB) = q
          BY <4>1
        <5> HIDE DEF q, bno
        <5>4. QED
          BY <4>1, <5>2, <5>3
      <4>4. v.cache[bno] = DescriptorBlock(medium, vol.sb, groupno)
        BY <3>1, <4>3 DEF DescriptorBlock, OnMedium
      <4>5. QED
        BY <4>1, <4>2, <4>4 DEF Table, InodeTable
    <3>6. GroupsRead(vol)'
      <4> DEFINE s == vol.inotab
                 S == TablesOf(vol.sb)
      <4>1. s \in Seq(S) /\ \A g \in 1 .. Len(s) : s[g] = InodeTable(medium, vol.sb, g - 1)
        BY <2>3 DEF GroupsRead
      <4>2. table \in S
        BY <3>4, <3>5 DEF TablesOf
      <4> HIDE DEF S, table, s
      <4>3. /\ Append(s, table) \in Seq(S) /\ Len(Append(s, table)) = Len(s) + 1
            /\ Append(s, table)[Len(s) + 1] = table
            /\ \A g \in 1 .. Len(s) : Append(s, table)[g] = s[g]
        BY <4>1, <4>2
      <4>4. \A g \in 1 .. Len(s) + 1 : Append(s, table)[g] = InodeTable(medium, vol.sb, g - 1)
        <5>1. Len(s) \in Nat /\ (Len(s) + 1) - 1 = Len(s) /\ groupno = Len(s)
          BY <3>4 DEF s
        <5>2. SUFFICES ASSUME NEW g \in 1 .. Len(s) + 1
                       PROVE  Append(s, table)[g] = InodeTable(medium, vol.sb, g - 1)
          OBVIOUS
        <5>3. CASE g = Len(s) + 1
          BY <3>5, <4>3, <5>1, <5>3
        <5>4. CASE g \in 1 .. Len(s)
          BY <4>1, <4>3, <5>4
        <5>5. QED
          BY <5>1, <5>2, <5>3, <5>4
      <4>5. S' = S
        BY <1>1, <3>2 DEF S, TablesOf
      <4>6. vol'.inotab = Append(s, table) /\ vol'.sb = vol.sb /\ Len(s) + 1 <= GroupCount(vol.sb)
        BY <3>2, <3>4 DEF s
      <4>7. QED
        <5>1. vol'.inotab \in Seq(TablesOf(vol.sb)')
          BY <4>3, <4>5, <4>6 DEF S
        <5>2. Len(vol'.inotab) <= GroupCount(vol'.sb)
          BY <4>3, <4>6
        <5>3. \A g \in 1 .. Len(vol'.inotab) :
                 vol'.inotab[g] = InodeTable(medium', vol'.sb, g - 1)
          BY <1>1, <4>3, <4>4, <4>6
        <5>4. QED
          BY <5>1, <5>2, <5>3 DEF GroupsRead
    <3>7. Ext2Known(vol)'
      BY <1>1, <2>3, <3>2 DEF Ext2Known, OnMedium
    <3>8. pc' = "groups"
      BY <2>6 DEF Goto
    <3>9. Ext2Inv'
      BY <2>3, <3>2, <3>6, <3>7, <3>8 DEF Ext2Inv
    <3>10. QED
      BY <1>4, <2>6, <3>3, <3>9
  <2>7. QED
    BY <2>1, <2>4, <2>5, <2>6
<1>11. QED
  BY <1>5, <1>6, <1>7, <1>8, <1>9, <1>10 DEF Ext2Mount


------------------------------------------------------------------------------
(* reiserfs. *)

LEMMA FormatIsKnown ==
    ASSUME NEW data
    PROVE  Recognised(data) <=> KnownFormat(data)
BY DEF Recognised, KnownFormat, ReiserVersion

LEMMA ReiserSuperIs ==
    ASSUME ReiserTruth(medium), fstype = "reiserfs"
    PROVE  /\ ~KnownFormat(OnMedium(64)) /\ ~KnownFormat(OnMedium(8)) => Expected = "UNSUPPORTED"
           /\ \A pos \in {64, 8} :
                 KnownFormat(OnMedium(pos)) /\ (pos = 8 => ~KnownFormat(OnMedium(64))) =>
                    /\ medium.fs = "reiserfs" /\ Expected = medium.verdict
                    /\ medium.verdict =
                         IF OnMedium(pos).rebuilding THEN "VOLUME_CORRUPTED" ELSE "SUCCESS"
                    /\ medium.label = OnMedium(pos).label /\ medium.bs = OnMedium(pos).bs
BY DEF ReiserTruth, OnMedium, Expected

LEMMA ReiserFinds ==
    ASSUME VolumeInv, MediumInv, ReiserMount
    PROVE  MediumInv'
<1>1. /\ MountStep /\ fstype = "reiserfs" /\ UNCHANGED <<fstype, medium>>
      /\ pc \in {"volume_mount", "superblock", "label"}
  BY DEF ReiserMount, ReiserAlloc, ReiserSuper, ReiserLabel, At, MountStep, device
<1>2. pc \in Mounting /\ ReiserInv
  BY <1>1 DEF Mounting, MediumInv
<1>3. IsVolume(vol) /\ Mirrors(vol) /\ ReiserTruth(medium)
  BY <1>2, MediumFacts
<1>4. ASSUME NEW where \in {"superblock", "label", "root"},
             Goto(where), Mirrors(vol'), ReiserInv'
      PROVE  MediumInv'
  <2>1. where \in Mounting \ {"volume_mount"}
    BY DEF Mounting
  <2>2. fstype' = "reiserfs"
    BY <1>1
  <2>3. QED
    BY <1>1, <1>2, <1>4, <2>1, <2>2, MountGoesOn
<1>5. CASE NoMemory
  BY <1>1, <1>2, <1>5, MountFaults
<1>6. CASE ReiserAlloc /\ ~NoMemory
  <2> DEFINE w == [vol EXCEPT !.at = 1]
  <2>1. Goto("superblock") /\ vol' = SetBlocksize(w, 4) /\ pc' = "superblock"
    BY <1>6 DEF ReiserAlloc, Goto
  <2>2. IsVolume(w)
    BY <1>3, SetField
  <2>3. w.at = 1
    BY ONLY <1>3, MediumFields
  <2> HIDE DEF w
  <2>4. Mirrors(vol') /\ vol'.bs = 4 /\ vol'.at = 1
    BY <2>1, <2>2, <2>3, SetBlocksizeMirrors
  <2>5. ReiserInv'
    BY <2>1, <2>4 DEF ReiserInv
  <2>6. QED
    BY <1>4, <2>1, <2>4, <2>5
<1>7. CASE ReiserSuper
  <2> DEFINE bno == SuperblockOffsets[vol.at]
             v    == Got(vol, bno)
             data == v.cache[bno]
             w    == [v EXCEPT !.sb = data]
             x    == [w EXCEPT !.version = ReiserVersion(data)]
             y    == [w EXCEPT !.at = w.at + 1]
  <2>1. pc = "superblock"
    BY <1>7 DEF ReiserSuper, At
  <2>2. /\ vol.bs = 4 /\ vol.at \in 1 .. 3
        /\ vol.at > 1 => ~KnownFormat(OnMedium(64))
        /\ vol.at > 2 => ~KnownFormat(OnMedium(8))
    BY <1>2, <2>1 DEF ReiserInv
  <2>3. IsVolume(v) /\ Mirrors(v) /\ data = OnMedium(bno * vol.bs) /\ v.bs = 4 /\ v.at = vol.at
    <3> HIDE DEF bno
    <3>1. QED
      BY <1>3, <2>2, GotKeeps, GotMirrors
  <2>4. /\ IsVolume(w) /\ Mirrors(w) /\ w.sb = data /\ w.bs = 4 /\ w.at = vol.at
    <3> HIDE DEF v, data
    <3>1. IsVolume(v) /\ Mirrors(v) /\ v.bs = 4 /\ v.at = vol.at
      BY <2>3
    <3>2. IsVolume(w)
      BY ONLY <3>1, SetField
    <3>3. w.sb = data /\ w.bs = v.bs /\ w.at = v.at /\ w.cache = v.cache
      BY ONLY <3>1, MediumFields
    <3>4. QED
      BY <3>1, <3>2, <3>3 DEF Mirrors
  <2>5. [v EXCEPT !.sb = data, !.at = @ + 1] = y
    <3>1. [v EXCEPT !.sb = data, !.at = @ + 1] = [w EXCEPT !.at = v.at + 1]
      <4> HIDE DEF v, data
      <4>1. IsVolume(v)
        BY <2>3
      <4>2. QED
        BY ONLY <4>1 DEF IsVolume, NewVolume, w
    <3>2. v.at = w.at
      BY <2>3, <2>4
    <3>3. QED
      BY ONLY <3>1, <3>2
  <2>6. IsVolume(x) /\ x.sb = data
    <3> HIDE DEF w, data
    <3>1. IsVolume(w) /\ w.sb = data
      BY <2>4
    <3>2. IsVolume(x)
      BY ONLY <3>1, SetField
    <3>3. x.sb = w.sb
      BY ONLY <3>1, MediumFields
    <3>4. QED
      BY ONLY <3>1, <3>2, <3>3
  <2>7. Mirrors(y) /\ y.at = vol.at + 1 /\ y.bs = 4
    <3> HIDE DEF w
    <3>1. y.at = w.at + 1 /\ y.bs = w.bs /\ y.cache = w.cache
      BY <2>4, MediumFields
    <3> HIDE DEF y
    <3>2. QED
      BY <2>4, <3>1 DEF Mirrors
  <2>8. \/ vol.at > 2 /\ Refuse("UNSUPPORTED")
        \/ GetFails(vol, bno)
        \/ vol.at <= 2 /\ ~Recognised(data) /\ vol' = y /\ Goto("superblock")
        \/ vol.at <= 2 /\ Recognised(data) /\ data.rebuilding /\ Refuse("VOLUME_CORRUPTED")
        \/ /\ vol.at <= 2 /\ Recognised(data) /\ ~data.rebuilding
           /\ vol' = SetBlocksize(x, data.bs) /\ Goto("label")
    <3>1. Len(SuperblockOffsets) = 2
      BY DEF SuperblockOffsets
    <3> HIDE DEF y
    <3>2. QED
      BY <1>7, <2>5, <3>1 DEF ReiserSuper
  <2>9. vol.at <= 2 =>
           /\ data = OnMedium(IF vol.at = 1 THEN 64 ELSE 8)
           /\ vol.at \in {1, 2}
    <3>1. SUFFICES ASSUME vol.at <= 2 PROVE /\ data = OnMedium(IF vol.at = 1 THEN 64 ELSE 8)
                                            /\ vol.at \in {1, 2}
      OBVIOUS
    <3>2. vol.at = 1 \/ vol.at = 2
      BY <2>2, <3>1
    <3>3. bno * vol.bs = IF vol.at = 1 THEN 64 ELSE 8
      BY <2>2, <3>2 DEF SuperblockOffsets
    <3> HIDE DEF data
    <3>4. QED
      BY <2>3, <3>2, <3>3
  <2> HIDE DEF bno, v, data, w, x, y
  <2>10. CASE vol.at > 2 /\ Refuse("UNSUPPORTED")
    <3>1. Expected = "UNSUPPORTED"
      BY <1>1, <1>3, <2>2, <2>10, ReiserSuperIs
    <3>2. QED
      BY <1>1, <1>2, <2>10, <3>1, MountRefuses
  <2>11. CASE GetFails(vol, bno)
    BY <1>1, <1>2, <2>11, MountFaults
  <2>12. CASE vol.at <= 2 /\ ~Recognised(data) /\ vol' = y /\ Goto("superblock")
    <3>1. pc' = "superblock" /\ ~KnownFormat(data)
      BY <2>12, FormatIsKnown DEF Goto
    <3>2. /\ vol'.at \in 1 .. 3 /\ vol'.bs = 4
          /\ vol'.at > 1 => ~KnownFormat(OnMedium(64))
          /\ vol'.at > 2 => ~KnownFormat(OnMedium(8))
      BY <2>2, <2>7, <2>9, <2>12, <3>1
    <3>3. ReiserInv'
      BY <1>1, <3>1, <3>2 DEF ReiserInv, OnMedium
    <3>4. QED
      BY <1>4, <2>7, <2>12, <3>3
  <2>13. ASSUME vol.at <= 2, Recognised(data)
         PROVE  /\ medium.fs = "reiserfs" /\ Expected = medium.verdict
                /\ medium.verdict = IF data.rebuilding THEN "VOLUME_CORRUPTED" ELSE "SUCCESS"
                /\ medium.label = data.label /\ medium.bs = data.bs
    <3>1. KnownFormat(data)
      BY <2>13, FormatIsKnown
    <3>2. CASE vol.at = 1
      <4>1. data = OnMedium(64)
        BY <2>9, <3>2
      <4>2. QED
        BY <1>1, <1>3, <3>1, <4>1, ReiserSuperIs
    <3>3. CASE vol.at = 2
      <4>1. data = OnMedium(8) /\ ~KnownFormat(OnMedium(64))
        BY <2>2, <2>9, <3>3
      <4>2. QED
        BY <1>1, <1>3, <3>1, <4>1, ReiserSuperIs
    <3>4. QED
      BY <2>9, <2>13, <3>2, <3>3
  <2>14. CASE vol.at <= 2 /\ Recognised(data) /\ data.rebuilding /\ Refuse("VOLUME_CORRUPTED")
    BY <1>1, <1>2, <2>13, <2>14, MountRefuses
  <2>15. CASE /\ vol.at <= 2 /\ Recognised(data) /\ ~data.rebuilding
              /\ vol' = SetBlocksize(x, data.bs) /\ Goto("label")
    <3>1. Mirrors(vol') /\ vol'.bs = data.bs /\ vol'.sb = data /\ pc' = "label"
      BY <2>6, <2>15, SetBlocksizeMirrors DEF Goto
    <3>2. /\ medium.fs = "reiserfs" /\ medium.verdict = "SUCCESS"
          /\ medium.label = data.label /\ medium.bs = data.bs
      BY <2>13, <2>15
    <3>3. ReiserInv'
      BY <1>1, <3>1, <3>2 DEF ReiserInv
    <3>4. QED
      BY <1>4, <2>15, <3>1, <3>3
  <2>16. QED
    BY <2>8, <2>10, <2>11, <2>12, <2>14, <2>15
<1>8. CASE ReiserLabel
  <2>1. pc = "label" /\ KeepLabel(vol, vol.sb.label, "root")
    BY <1>8 DEF ReiserLabel, At
  <2>2. CASE vol' = [vol EXCEPT !.label = Coerce(vol.sb.label)] /\ Goto("root")
    <3>1. /\ Mirrors(vol') /\ vol'.sb = vol.sb /\ vol'.bs = vol.bs
          /\ vol'.label = Coerce(vol.sb.label) /\ pc' = "root"
      BY <1>3, <2>2, MediumFields DEF Mirrors, Goto
    <3>2. ReiserInv'
      BY <1>1, <1>2, <2>1, <3>1 DEF ReiserInv
    <3>3. QED
      BY <1>4, <2>2, <3>1, <3>2
  <2>3. QED
    BY <1>5, <2>1, <2>2 DEF KeepLabel
<1>9. QED
  BY <1>5, <1>6, <1>7, <1>8 DEF ReiserMount

------------------------------------------------------------------------------
(* ISO 9660. *)

LEMMA PrimaryIs ==
    ASSUME NEW b \in Nat, InSet(medium, b), NEW data, data = OnMedium(2 * b)
    PROVE  /\ IsPrimary(data) <=> PrimaryAt(medium, b)
           /\ InSet(medium, b + 1) <=> ~EndsTheSet(data)
<1>1. IsPrimary(data) <=> PrimaryAt(medium, b)
  BY DEF PrimaryAt, Standard, IsPrimary, OnMedium
<1>2. b >= 16 /\ \A k \in 16 .. b - 1 : Lies(medium, 2 * k).is = "iso" /\ Lies(medium, 2 * k).type # 255
  BY DEF InSet
<1>3. ~EndsTheSet(data) <=> Lies(medium, 2 * b).is = "iso" /\ Lies(medium, 2 * b).type # 255
  BY DEF EndsTheSet, OnMedium
<1>4. \A k \in 16 .. (b + 1) - 1 : k \in 16 .. b - 1 \/ k = b
  OBVIOUS
<1>5. b \in 16 .. (b + 1) - 1 /\ b + 1 >= 16
  BY <1>2
<1>6. QED
  BY <1>1, <1>2, <1>3, <1>4, <1>5 DEF InSet

LEMMA Extended ==
    ASSUME NEW pvd, NEW b \in Nat, b >= 16, LastBefore(pvd, b)
    PROVE  /\ ~PrimaryAt(medium, b) => LastBefore(pvd, b + 1)
           /\ \A data : PrimaryAt(medium, b) /\ data = OnMedium(2 * b) /\ data # NULL
                         => LastBefore(data, b + 1)
<1>1. /\ \A c \in 16 .. (b + 1) - 1 : c \in 16 .. b - 1 \/ c = b
      /\ \A c \in 16 .. b - 1 : c \in 16 .. (b + 1) - 1
      /\ b \in 16 .. (b + 1) - 1
      /\ \A d \in b + 1 .. (b + 1) - 1 : FALSE
  OBVIOUS
<1>2. ASSUME ~PrimaryAt(medium, b) PROVE LastBefore(pvd, b + 1)
  <2>1. CASE pvd = NULL
    BY <1>1, <1>2, <2>1 DEF LastBefore
  <2>2. CASE pvd # NULL
    <3>1. PICK c \in 16 .. b - 1 : /\ PrimaryAt(medium, c) /\ pvd = OnMedium(2 * c)
                                   /\ \A d \in c + 1 .. b - 1 : ~PrimaryAt(medium, d)
      BY <2>2 DEF LastBefore
    <3>2. \A d \in c + 1 .. (b + 1) - 1 : d \in c + 1 .. b - 1 \/ d = b
      OBVIOUS
    <3>3. QED
      BY <1>1, <1>2, <2>2, <3>1, <3>2 DEF LastBefore
  <2>3. QED
    BY <2>1, <2>2
<1>3. ASSUME PrimaryAt(medium, b), NEW data, data = OnMedium(2 * b), data # NULL
      PROVE  LastBefore(data, b + 1)
  BY <1>1, <1>3 DEF LastBefore
<1>4. QED
  BY <1>2, <1>3

(* A set ends once. *)
LEMMA NonePastTheEnd ==
    ASSUME NEW b \in Nat, ~InSet(medium, b), b >= 16
    PROVE  \A c \in Nat : c >= b => ~PrimaryAt(medium, c)
<1>1. SUFFICES ASSUME NEW c \in Nat, c >= b, InSet(medium, c) PROVE FALSE
  BY DEF PrimaryAt
<1>2. \A k \in 16 .. b - 1 : k \in 16 .. c - 1
  BY <1>1
<1>3. QED
  BY <1>1, <1>2 DEF InSet


(* What the set says once it has ended. *)
LEMMA SetIsRead ==
    ASSUME IsoTruth(medium), VolumeInv, fstype = "iso9660", NEW b \in Nat, b >= 16, ~InSet(medium, b),
           NEW pvd, LastBefore(pvd, b)
    PROVE  /\ pvd = NULL => Expected = "UNSUPPORTED"
           /\ pvd # NULL => /\ medium.fs = "iso9660" /\ Expected = medium.verdict
                            /\ medium.label = pvd.label
                            /\ medium.verdict = IF pvd.bs = 2 THEN "SUCCESS" ELSE "UNSUPPORTED"
                            /\ medium.verdict = "SUCCESS" => medium.bs = 2
<1> DEFINE blocks    == {pos \div 2 : pos \in DOMAIN medium.at}
           primaries == {c \in blocks : PrimaryAt(medium, c)}
<1>1. \A c \in primaries : c \in 16 .. b - 1
  <2> SUFFICES ASSUME NEW c \in blocks, PrimaryAt(medium, c) PROVE c \in 16 .. b - 1
    OBVIOUS
  <2>1. c \in Nat
    BY VolumeAssumption DEF VolumeInv, Control
  <2>2. c >= 16 /\ c < b
    <3>1. c >= 16
      BY DEF PrimaryAt, InSet
    <3>2. ~(c >= b)
      BY <2>1, NonePastTheEnd
    <3>3. QED
      BY ONLY <2>1, <3>1, <3>2, b \in Nat
  <2>3. QED
    BY <2>1, <2>2
<1>2. ASSUME pvd = NULL PROVE Expected = "UNSUPPORTED"
  <2>1. primaries = {}
    BY <1>1, <1>2 DEF LastBefore
  <2>2. QED
    BY <2>1 DEF IsoTruth, Expected
<1>3. ASSUME pvd # NULL
      PROVE  /\ medium.fs = "iso9660" /\ Expected = medium.verdict
             /\ medium.label = pvd.label
             /\ medium.verdict = IF pvd.bs = 2 THEN "SUCCESS" ELSE "UNSUPPORTED"
             /\ medium.verdict = "SUCCESS" => medium.bs = 2
  <2>1. PICK c \in 16 .. b - 1 : /\ PrimaryAt(medium, c) /\ pvd = OnMedium(2 * c)
                                 /\ \A d \in c + 1 .. b - 1 : ~PrimaryAt(medium, d)
    BY <1>3 DEF LastBefore
  <2>2. 2 * c \in DOMAIN medium.at
    BY <2>1 DEF PrimaryAt, Standard, Lies, Blank
  <2>3. (2 * c) \div 2 = c
    BY <2>1
  <2>4. c \in primaries
    BY <2>1, <2>2, <2>3
  <2>5. \A d \in primaries : d <= c
    <3> SUFFICES ASSUME NEW d \in primaries, d > c PROVE FALSE
      BY <1>1
    <3>1. d \in c + 1 .. b - 1 /\ PrimaryAt(medium, d)
      BY <1>1
    <3>2. QED
      BY <2>1, <3>1
  <2> HIDE DEF blocks
  <2>6. /\ medium.fs = "iso9660" /\ medium.label = Lies(medium, 2 * c).label
        /\ medium.verdict = IF Lies(medium, 2 * c).bs = 2 THEN "SUCCESS" ELSE "UNSUPPORTED"
        /\ medium.verdict = "SUCCESS" => medium.bs = 2
    BY <2>4, <2>5 DEF IsoTruth, blocks
  <2>7. QED
    BY <2>1, <2>6 DEF OnMedium, Expected
<1>4. QED
  BY <1>2, <1>3


LEMMA IsoFinds ==
    ASSUME VolumeInv, MediumInv, IsoMount
    PROVE  MediumInv'
<1>1. /\ MountStep /\ fstype = "iso9660" /\ UNCHANGED <<fstype, medium>>
      /\ pc \in {"volume_mount", "superblock", "pvd"}
  BY DEF IsoMount, IsoBegin, IsoDescriptor, IsoPrimary, At, MountStep, device
<1>2. pc \in Mounting /\ IsoInv
  BY <1>1 DEF Mounting, MediumInv
<1>3. IsVolume(vol) /\ Mirrors(vol) /\ IsoTruth(medium)
  BY <1>2, MediumFacts
<1>4. ASSUME NEW where \in {"superblock", "pvd", "root"},
             Goto(where), Mirrors(vol'), IsoInv'
      PROVE  MediumInv'
  <2>1. where \in Mounting \ {"volume_mount"}
    BY DEF Mounting
  <2>2. fstype' = "iso9660"
    BY <1>1
  <2>3. QED
    BY <1>1, <1>2, <1>4, <2>1, <2>2, MountGoesOn
<1>5. CASE NoMemory
  BY <1>1, <1>2, <1>5, MountFaults
<1>6. CASE IsoBegin
  <2> DEFINE w == [vol EXCEPT !.at = 16]
  <2>1. /\ Goto("superblock") /\ vol' = SetBlocksize(w, 2) /\ pc' = "superblock"
        /\ pc = "volume_mount"
    BY <1>6 DEF IsoBegin, Goto, At
  <2>2. IsVolume(w)
    BY <1>3, SetField
  <2>3. w.at = 16 /\ w.pvd = vol.pvd
    BY ONLY <1>3, MediumFields
  <2> HIDE DEF w
  <2>4. vol.pvd = NULL
    BY <2>1 DEF MediumInv
  <2>5. Mirrors(vol') /\ vol'.bs = 2 /\ vol'.at = 16 /\ vol'.pvd = NULL
    BY <2>1, <2>2, <2>3, <2>4, SetBlocksizeMirrors
  <2>6. InSet(medium, 16) /\ LastBefore(NULL, 16)
    BY DEF InSet, LastBefore
  <2>7. LastBefore(NULL, 16)' /\ InSet(medium, 16)'
    BY <1>1, <2>6 DEF LastBefore
  <2>8. IsoInv'
    BY <2>1, <2>5, <2>7 DEF IsoInv, LastBefore
  <2>9. QED
    BY <1>4, <2>1, <2>5, <2>8
<1>7. CASE IsoDescriptor
  <2> DEFINE bno  == vol.at
             v    == Got(vol, bno)
             data == v.cache[bno]
             w    == [v EXCEPT !.at = bno + 1]
             y    == [w EXCEPT !.pvd = data]
  <2>1. pc = "superblock"
    BY <1>7 DEF IsoDescriptor, At
  <2>2. /\ vol.bs = 2 /\ bno \in Nat /\ bno >= 16 /\ LastBefore(vol.pvd, bno)
        /\ InSet(medium, bno)
    BY <1>2, <2>1 DEF IsoInv
  <2>3. /\ IsVolume(v) /\ Mirrors(v) /\ data = OnMedium(bno * vol.bs) /\ v.bs = 2
        /\ v.at = bno /\ v.pvd = vol.pvd
    <3> HIDE DEF bno
    <3>1. bno = vol.at
      BY DEF bno
    <3>2. QED
      BY <1>3, <2>2, <3>1, GotKeeps, GotMirrors
  <2>4. data = OnMedium(2 * bno)
    <3>1. bno * vol.bs = 2 * bno
      BY <2>2
    <3> HIDE DEF data, bno
    <3>2. QED
      BY <2>3, <3>1
  <2>5. IsVolume(w) /\ w.at = bno + 1 /\ w.bs = 2 /\ w.pvd = vol.pvd /\ Mirrors(w)
    <3> HIDE DEF v, bno
    <3>1. IsVolume(v) /\ Mirrors(v) /\ v.bs = 2 /\ v.pvd = vol.pvd
      BY <2>3
    <3>2. IsVolume(w)
      BY ONLY <3>1, SetField
    <3>3. w.at = bno + 1 /\ w.bs = v.bs /\ w.pvd = v.pvd /\ w.cache = v.cache
      BY ONLY <3>1, MediumFields
    <3> HIDE DEF w
    <3>4. QED
      BY <3>1, <3>2, <3>3 DEF Mirrors
  <2>6. y.at = bno + 1 /\ y.bs = 2 /\ y.pvd = data /\ Mirrors(y)
    <3> HIDE DEF w, data, bno
    <3>1. IsVolume(w)
      BY <2>5
    <3>2. y.at = w.at /\ y.bs = w.bs /\ y.pvd = data /\ y.cache = w.cache
      BY ONLY <3>1, MediumFields
    <3> HIDE DEF y
    <3>3. QED
      BY <2>5, <3>2 DEF Mirrors
  <2>7. /\ [v EXCEPT !.at = @ + 1] = w
        /\ [v EXCEPT !.at = @ + 1, !.pvd = data] = y
    <3>1. v.at = bno
      BY <2>3
    <3> HIDE DEF v, data, bno
    <3>2. [v EXCEPT !.at = @ + 1] = w
      BY ONLY <3>1 DEF w
    <3>3. [v EXCEPT !.at = @ + 1, !.pvd = data] = y
      <4>1. IsVolume(v)
        BY <2>3
      <4>2. QED
        BY ONLY <3>1, <4>1 DEF w, y, IsVolume, NewVolume
    <3>4. QED
      BY <3>2, <3>3
  <2>8. \/ GetFails(vol, bno)
        \/ /\ ~IsPrimary(data) /\ vol' = w
           /\ Goto(IF EndsTheSet(data) THEN "pvd" ELSE "superblock")
        \/ IsPrimary(data) /\ vol' = y /\ Goto("superblock")
        \/ MountFails("OUT_OF_MEMORY", lastio) /\ faulted' = TRUE
    <3> HIDE DEF w, y
    <3>1. QED
      BY <1>7, <2>7 DEF IsoDescriptor
  <2>9. data \in Contents
    <3> HIDE DEF bno
    <3>1. QED
      BY <1>3, GotKeeps
  <2> HIDE DEF bno, v, data, w, y
  <2>10. CASE GetFails(vol, bno)
    BY <1>1, <1>2, <2>10, MountFaults
  <2>11. CASE /\ ~IsPrimary(data) /\ vol' = w
              /\ Goto(IF EndsTheSet(data) THEN "pvd" ELSE "superblock")
    <3>1. /\ ~PrimaryAt(medium, bno)
          /\ InSet(medium, bno + 1) <=> ~EndsTheSet(data)
      BY <2>2, <2>4, <2>11, PrimaryIs
    <3>2. LastBefore(vol.pvd, bno + 1)
      BY <2>2, <3>1, Extended
    <3>3. /\ pc' \in {"superblock", "pvd"}
          /\ InSet(medium, bno + 1) <=> pc' = "superblock"
      BY <2>11, <3>1 DEF Goto
    <3>4. /\ vol'.at = bno + 1 /\ vol'.at \in Nat /\ vol'.at >= 16 /\ vol'.bs = 2
          /\ vol'.pvd = vol.pvd
      BY <2>2, <2>5, <2>11
    <3>5. IsoInv'
      BY <1>1, <3>2, <3>3, <3>4 DEF IsoInv, LastBefore, OnMedium
    <3>6. QED
      BY <1>4, <2>5, <2>11, <3>5
  <2>12. CASE IsPrimary(data) /\ vol' = y /\ Goto("superblock")
    <3>1. data # NULL
      BY <2>9, <2>12, PrimaryIsThere
    <3>2. PrimaryAt(medium, bno) /\ InSet(medium, bno + 1)
      <4>1. ~EndsTheSet(data)
        BY <2>12 DEF EndsTheSet, IsPrimary
      <4>2. QED
        BY <2>2, <2>4, <2>12, <4>1, PrimaryIs
    <3>3. LastBefore(data, bno + 1)
      BY <2>2, <2>4, <3>1, <3>2, Extended
    <3>4. /\ vol'.at = bno + 1 /\ vol'.at \in Nat /\ vol'.at >= 16 /\ vol'.bs = 2
          /\ vol'.pvd = data /\ pc' = "superblock"
      BY <2>2, <2>6, <2>12 DEF Goto
    <3>5. IsoInv'
      BY <1>1, <3>2, <3>3, <3>4 DEF IsoInv, LastBefore, OnMedium
    <3>6. QED
      BY <1>4, <2>6, <2>12, <3>5
  <2>13. CASE MountFails("OUT_OF_MEMORY", lastio) /\ faulted' = TRUE
    BY <1>1, <1>2, <2>13, MountEnds DEF MountFails
  <2>14. QED
    BY <2>8, <2>10, <2>11, <2>12, <2>13
<1>8. CASE IsoPrimary
  <2>1. pc = "pvd"
    BY <1>8 DEF IsoPrimary, At
  <2>2. /\ vol.bs = 2 /\ vol.at \in Nat /\ vol.at >= 16 /\ LastBefore(vol.pvd, vol.at)
        /\ ~InSet(medium, vol.at)
    BY <1>2, <2>1 DEF IsoInv
  <2>3. /\ vol.pvd = NULL => Expected = "UNSUPPORTED"
        /\ vol.pvd # NULL => /\ medium.fs = "iso9660" /\ Expected = medium.verdict
                             /\ medium.label = vol.pvd.label
                             /\ medium.verdict = IF vol.pvd.bs = 2 THEN "SUCCESS" ELSE "UNSUPPORTED"
                             /\ medium.verdict = "SUCCESS" => medium.bs = 2
    BY <1>1, <1>3, <2>2, SetIsRead
  <2>4. CASE (vol.pvd = NULL \/ vol.pvd.bs # 2) /\ Refuse("UNSUPPORTED")
    <3>1. Expected = "UNSUPPORTED"
      BY <2>3, <2>4
    <3>2. QED
      BY <1>1, <1>2, <2>4, <3>1, MountRefuses
  <2>5. CASE /\ vol.pvd # NULL /\ vol.pvd.bs = 2
             /\ vol' = [vol EXCEPT !.label = Coerce(vol.pvd.label)] /\ Goto("root")
    <3>1. /\ Mirrors(vol') /\ vol'.bs = vol.bs /\ vol'.label = Coerce(vol.pvd.label)
          /\ pc' = "root"
      BY <1>3, <2>5, MediumFields DEF Mirrors, Goto
    <3>2. IsoInv'
      BY <1>1, <2>2, <2>3, <2>5, <3>1 DEF IsoInv
    <3>3. QED
      BY <1>4, <2>5, <3>1, <3>2
  <2>6. QED
    BY <1>5, <1>8, <2>4, <2>5 DEF IsoPrimary, KeepLabel
<1>9. QED
  BY <1>6, <1>7, <1>8 DEF IsoMount

------------------------------------------------------------------------------
(* The root, and what the firmware calls. *)

LEMMA RootFinds ==
    ASSUME VolumeInv, MediumInv, CreateRoot
    PROVE  MediumInv'
<1>1. /\ pc = "root" /\ pc \in Mounting /\ UNCHANGED <<fstype, medium, installed>>
      /\ fstype \in {"ext2", "reiserfs", "iso9660"}
  BY DEF CreateRoot, Mounting, device, VolumeInv, Control
<1>2. CASE NoMemory /\ UNCHANGED <<vars, published>>
  <2>1. MountStep
    BY <1>2 DEF CreateRoot, MountStep, vars, device
  <2>2. QED
    BY <1>1, <1>2, <2>1, MountFaults
<1>3. CASE /\ vol' = [vol EXCEPT !.pvd = NULL]
           /\ pc' = "mount_done" /\ status' = "SUCCESS"
  <2>1. IsVolume(vol) /\ Ext2Truth(medium)
    BY <1>1, MediumFacts
  <2>2. /\ vol'.sb = vol.sb /\ vol'.bs = vol.bs /\ vol'.label = vol.label
        /\ vol'.inotab = vol.inotab
    BY ONLY <1>3, <2>1, MediumFields
  <2>3. CASE fstype = "ext2"
    <3>1. /\ Ext2Known(vol) /\ GroupsRead(vol) /\ vol.label = Coerce(vol.sb.label)
          /\ Len(vol.inotab) = GroupCount(vol.sb)
      BY <1>1, <2>3 DEF MediumInv, Ext2Inv
    <3>2. medium.label = vol.sb.label /\ vol.bs = medium.bs
      BY <2>1, <3>1, GroupsAreThere
    <3>3. \A ino \in DOMAIN medium.inode : InodeAt(vol, ino) = medium.inode[ino]
      BY <2>1, <3>1, InodesAreFound
    <3>4. \A ino : InodeAt(vol', ino) = InodeAt(vol, ino)
      BY <2>2 DEF InodeAt, InodesPerBlock
    <3>5. AsOnMedium(vol)'
      BY <1>1, <2>2, <3>1, <3>2, <3>3, <3>4 DEF AsOnMedium, StrCpy, Coerce
    <3>6. Expected' = "SUCCESS"
      BY <1>1, <2>3, <3>1 DEF Ext2Known, Expected
    <3>7. QED
      BY <1>3, <3>5, <3>6 DEF MediumInv, Mounting
  <2>4. CASE fstype = "reiserfs"
    <3>1. /\ medium.fs = "reiserfs" /\ medium.verdict = "SUCCESS" /\ vol.bs = medium.bs
          /\ vol.label = Coerce(medium.label)
      BY <1>1, <2>4 DEF MediumInv, ReiserInv
    <3>2. AsOnMedium(vol)' /\ Expected' = "SUCCESS"
      BY <1>1, <2>2, <2>4, <3>1 DEF AsOnMedium, StrCpy, Coerce, Expected
    <3>3. QED
      BY <1>3, <3>2 DEF MediumInv, Mounting
  <2>5. CASE fstype = "iso9660"
    <3>1. /\ medium.fs = "iso9660" /\ medium.verdict = "SUCCESS" /\ vol.bs = medium.bs
          /\ vol.label = Coerce(medium.label)
      BY <1>1, <2>5 DEF MediumInv, IsoInv
    <3>2. AsOnMedium(vol)' /\ Expected' = "SUCCESS"
      BY <1>1, <2>2, <2>5, <3>1 DEF AsOnMedium, StrCpy, Coerce, Expected
    <3>3. QED
      BY <1>3, <3>2 DEF MediumInv, Mounting
  <2>6. QED
    BY <1>1, <2>3, <2>4, <2>5
<1>4. QED
  BY <1>2, <1>3 DEF CreateRoot

(* Away from a mount only a Start or an error changes what is to be returned, *)
(* and nothing the volume that is offered.                                    *)
LEMMA StaysAsOnMedium ==
    ASSUME MediumInv, UNCHANGED <<fstype, medium, vol>>, Offered' => Offered,
           pc' \notin Mounting,
           \/ pc \notin Mounting /\ status' = status /\ faulted' = faulted
           \/ status' = "NOT_STARTED"
           \/ faulted'
    PROVE  MediumInv'
<1>1. Expected' = Expected
  BY DEF Expected
<1>2. Offered => AsOnMedium(vol)'
  BY DEF MediumInv, AsOnMedium, InodeAt, InodesPerBlock
<1>3. pc' # "volume_mount"
  BY DEF Mounting
<1>4. QED
  BY <1>1, <1>2, <1>3 DEF MediumInv

LEMMA BindingFinds ==
    ASSUME VolumeInv, MediumInv,
           Supported \/ Start \/ StartInstall \/ Stop \/ UnmountRoot \/ VolumeFree \/ Finish
    PROVE  MediumInv'
<1>1. UNCHANGED <<fstype, medium>>
  BY DEF Supported, Start, StartInstall, Stop, UnmountRoot, VolumeFree, Finish, device
<1>2. CASE Supported
  BY <1>1, <1>2, StaysAsOnMedium DEF Supported, Offered, Mounting
<1>3. CASE Start
  <2>1. pc = "supported" /\ ~diskio /\ ~installed /\ installed' = installed
    BY <1>3 DEF Start, VolumeInv, Control, Started
  <2>2. CASE pc' = "idle" /\ faulted' = ~diskio /\ vol' = vol
    BY <1>1, <2>1, <2>2, StaysAsOnMedium DEF Offered, Mounting
  <2>3. CASE vol' = NewVolume /\ pc' = "volume_mount"
    <3>1. /\ vol'.pvd = NULL /\ vol'.cache = <<>> /\ vol'.inotab = <<>>
      BY <2>3 DEF NewVolume
    <3>2. DOMAIN <<>> = {}
      OBVIOUS
    <3>3. Mirrors(vol)'
      BY <3>1, <3>2 DEF Mirrors
    <3>4. Ext2Inv' /\ ReiserInv' /\ IsoInv'
      BY <2>3, <3>1 DEF Ext2Inv, ReiserInv, IsoInv
    <3>5. ~Offered' /\ pc' \in Mounting
      BY <2>1, <2>3 DEF Offered, Mounting
    <3>6. QED
      BY <3>1, <3>3, <3>4, <3>5 DEF MediumInv
  <2>4. CASE pc' = "mount_done" /\ faulted' = TRUE /\ vol' = vol
    <3>1. ~published /\ published' = published
      BY <1>3, <2>1 DEF Start, VolumeInv, Control
    <3>2. QED
      BY <1>1, <2>1, <2>4, <3>1, StaysAsOnMedium DEF Offered, Mounting
  <2>5. QED
    BY <1>3, <2>2, <2>3, <2>4 DEF Start
<1>4. CASE StartInstall
  <2>1. /\ pc = "mount_done" /\ vol' = vol /\ ~installed /\ published' = published
        /\ pc' \in {"idle", "unmount", "close"} /\ (status = "SUCCESS" <=> published)
    BY <1>4 DEF StartInstall, VolumeInv, Control, Offered
  <2>2. \/ status = "SUCCESS" /\ installed' = TRUE /\ UNCHANGED <<status, faulted>>
        \/ installed' = installed /\ faulted' = TRUE
        \/ installed' = installed /\ UNCHANGED <<status, faulted>>
    BY <1>4 DEF StartInstall
  <2>3. Offered' => Offered
    BY <2>1, <2>2 DEF Offered
  <2>4. pc \notin Mounting /\ pc' \notin Mounting
    BY <2>1 DEF Mounting
  <2>5. QED
    BY <1>1, <2>1, <2>2, <2>3, <2>4, StaysAsOnMedium
<1>5. CASE Stop
  BY <1>1, <1>5, StaysAsOnMedium DEF Stop, Offered, Mounting
<1>6. CASE UnmountRoot
  BY <1>1, <1>6, StaysAsOnMedium DEF UnmountRoot, Offered, Mounting
<1>7. CASE VolumeFree
  <2>1. /\ pc = "volume_free" /\ pc' = (IF published THEN "close" ELSE "mount_done")
        /\ ~installed /\ UNCHANGED <<installed, published, status, faulted>>
    BY <1>7 DEF VolumeFree, VolumeInv, Control
  <2>2. ~Offered' /\ pc \notin Mounting /\ pc' \notin Mounting /\ Expected' = Expected
    BY <1>1, <2>1 DEF Offered, Mounting, Expected
  <2>3. QED
    BY <2>1, <2>2 DEF MediumInv, Mounting
<1>8. CASE Finish
  BY <1>1, <1>8, StaysAsOnMedium DEF Finish, Offered, Mounting
<1>9. QED
  BY <1>2, <1>3, <1>4, <1>5, <1>6, <1>7, <1>8

LEMMA MediumInvInit ==
    ASSUME VolumeInit
    PROVE  MediumInv
BY DEF VolumeInit, MediumInv, Mounting, Offered

LEMMA MediumInvStep ==
    ASSUME VolumeInv, MediumInv, [VolumeNext]_allvars
    PROVE  MediumInv'
<1>1. CASE Ext2Mount \/ ReiserMount \/ IsoMount \/ CreateRoot
  BY <1>1, Ext2Finds, ReiserFinds, IsoFinds, RootFinds
<1>2. CASE Supported \/ Start \/ StartInstall \/ Stop \/ UnmountRoot \/ VolumeFree \/ Finish
  BY <1>2, BindingFinds
<1>3. CASE UNCHANGED bvars
  BY <1>3 DEF bvars, MediumInv, Mirrors, Ext2Inv, ReiserInv, IsoInv, Ext2Known, GroupsRead,
     TablesOf, LastBefore, OnMedium, Offered, Expected, AsOnMedium, InodeAt, InodesPerBlock
<1>4. QED
  BY <1>1, <1>2, <1>3 DEF VolumeNext, DriverStep, ClientCall, DnodeStep, allvars

(* At every place of volume_mount the volume holds what the medium says, read *)
(* through a cache that always has the block size in force.                   *)
THEOREM MediumInvariant == VolumeSpec => [](VolumeInv /\ MediumInv)
<1>1. VolumeInit => VolumeInv /\ MediumInv
  BY VolumeInitInv, MediumInvInit
<1>2. VolumeInv /\ MediumInv /\ [VolumeNext]_allvars => (VolumeInv /\ MediumInv)'
  BY VolumeInvStep, MediumInvStep
<1>3. QED
  BY <1>1, <1>2, PTL DEF VolumeSpec

(* Whatever lies on a medium, each of the three drivers answers with what is  *)
(* true of it, unless something failed (the checks in volume_mount).          *)
THEOREM VolumeRecognisesItsOwn == VolumeSpec => []RecognisesItsOwn
<1>1. MediumInv => RecognisesItsOwn
  BY DEF MediumInv, RecognisesItsOwn, Resting, Mounting, Expected
<1>2. QED
  BY <1>1, MediumInvariant, PTL

(* What is mounted is the volume on the medium, for every block size, number  *)
(* of groups and size of inodes (fsw_ext2_volume_mount, fsw_ext2_dnode_fill).  *)
THEOREM VolumeAgreesWithDisk == VolumeSpec => []MountedAgreesWithDisk
<1>1. MediumInv => MountedAgreesWithDisk
  BY DEF MediumInv, MountedAgreesWithDisk, Offered, AsOnMedium
<1>2. QED
  BY <1>1, MediumInvariant, PTL


------------------------------------------------------------------------------
(* The block cache of a volume.                                             *)

(* The table a missed block is read into: well typed, at least as large as  *)
(* the old one, equal to it on the old entries and empty on the new ones.   *)
LEMMA TableProperties ==
    ASSUME CacheAssumption, CacheTypeOK
    PROVE  /\ NewSize \in Nat /\ NewSize >= bcache_size
           /\ NewTable \in [0 .. NewSize - 1 -> Entry]
           /\ \A i \in Slots : i \in 0 .. NewSize - 1 /\ NewTable[i] = bcache[i]
           /\ \A i \in 0 .. NewSize - 1 : i \notin Slots => NewTable[i] = EmptyEntry
<1> USE DEF CacheTypeOK, Slots
<1>1. NewSize \in Nat /\ NewSize >= bcache_size
  BY DEF NewSize, CacheAssumption
<1>2. EmptyEntry \in Entry
  BY DEF EmptyEntry, Entry, CacheAssumption
<1>3. QED
  BY <1>1, <1>2 DEF NewTable

(* The entry chosen is in the table and nobody uses it: it is fresh, idle   *)
(* or, being invalid, without a count.                                      *)
LEMMA SlotIsIdle ==
    ASSUME CacheAssumption, CacheTypeOK, InvalidIsIdle
    PROVE  /\ Slot \in 0 .. NewSize - 1
           /\ NewTable[Slot].refcount = 0
           /\ Slot \in Slots => bcache[Slot].refcount = 0
<1>1. CASE FreeSlots # {}
  <2>1. Slot \in FreeSlots
    <3>1. FreeSlots \in SUBSET Nat
      BY DEF FreeSlots, Slots, CacheTypeOK
    <3>2. Slot = Min(FreeSlots)
      BY <1>1 DEF Slot, TableFull
    <3>3. QED
      BY <1>1, <3>1, <3>2, MinOfNaturals
  <2>2. Slot \in Slots /\ bcache[Slot].refcount = 0
    BY <2>1 DEF FreeSlots, InvalidIsIdle
  <2>3. QED
    BY <2>2, TableProperties
<1>2. CASE FreeSlots = {} /\ TableFull
  <2>1. Slot = bcache_size
    BY <1>2 DEF Slot
  <2>2. bcache_size \in 0 .. NewSize - 1
    BY <1>2 DEF NewSize, CacheAssumption, CacheTypeOK
  <2>3. NewTable[Slot] = EmptyEntry /\ Slot \notin Slots
    BY <2>1, <2>2, TableProperties DEF Slots, CacheTypeOK
  <2>4. QED
    BY <2>1, <2>2, <2>3 DEF EmptyEntry
<1>3. CASE FreeSlots = {} /\ ~TableFull
  <2> DEFINE Levels == {level \in 0..MaxLevel : Discardable(level) # {}}
  <2>1. Discardable(MaxLevel) # {}
    BY <1>3 DEF TableFull
  <2>2. DiscardLevel \in Levels
    <3>1. Levels \in SUBSET Nat /\ MaxLevel \in Levels
      BY <2>1 DEF CacheAssumption
    <3>2. DiscardLevel = Min(Levels)
      BY DEF DiscardLevel
    <3> HIDE DEF Levels
    <3>3. QED
      BY <3>1, <3>2, MinOfNaturals
  <2>3. Slot \in Discardable(DiscardLevel)
    <3>1. Discardable(DiscardLevel) \in SUBSET Nat
      BY DEF Discardable, Slots, CacheTypeOK
    <3>2. Slot = Min(Discardable(DiscardLevel))
      BY <1>3 DEF Slot
    <3>3. QED
      BY <2>2, <3>1, <3>2, MinOfNaturals
  <2>4. Slot \in Slots /\ bcache[Slot].refcount = 0
    BY <2>3 DEF Discardable
  <2>5. QED
    BY <2>4, TableProperties
<1>4. QED
  BY <1>1, <1>2, <1>3

------------------------------------------------------------------------------
(* A missed block leaves the table with one entry replaced: whatever entry  *)
(* e is written in the chosen slot, the others keep what they had, and the  *)
(* loans of every block still equal the counts, provided e is idle or is    *)
(* the freshly read block on its first loan.                                *)
LEMMA ReplacedEntry ==
    ASSUME CacheAssumption, CacheInv,
           NEW e \in Entry, NEW b \in Blocks, Holding(b) = {},
           bcache_size' = NewSize,
           bcache' = [NewTable EXCEPT ![Slot] = e],
           UNCHANGED phys_blocksize, UNCHANGED invalid_matches,
           \/ /\ e.phys_bno = INVALID /\ e.refcount = 0
              /\ UNCHANGED loans
           \/ /\ e.phys_bno = b /\ e.refcount = 1
              /\ e.data = Content(b, phys_blocksize)
              /\ loans' = [loans EXCEPT ![b] = @ + 1]
    PROVE  CacheInv'
<1> USE DEF CacheInv
<1>1. /\ Slot \in 0 .. NewSize - 1
      /\ Slot \in Slots => bcache[Slot].refcount = 0
  BY SlotIsIdle
<1>2. Slots' = 0 .. NewSize - 1
  BY DEF Slots
<1>3. \A i \in Slots' : bcache'[i] = IF i = Slot THEN e ELSE
                              IF i \in Slots THEN bcache[i] ELSE EmptyEntry
  BY <1>1, <1>2, TableProperties
<1>4. CacheTypeOK'
  <2>1. NewTable \in [0 .. NewSize - 1 -> Entry] /\ NewSize \in Nat
    BY TableProperties
  <2>2. bcache' \in [Slots' -> Entry]
    BY <2>1, <1>2
  <2>3. loans' \in [Blocks -> Nat]
    BY DEF CacheTypeOK
  <2>4. QED
    BY <2>1, <2>2, <2>3 DEF CacheTypeOK
<1>5. Slots \subseteq Slots'
  BY <1>2, TableProperties
<1>6. EmptyEntry.phys_bno = INVALID /\ EmptyEntry.refcount = 0
  BY DEF EmptyEntry
<1>7. \A i \in Slots : bcache[i].phys_bno # b
  BY DEF Holding
<1>8. INVALID \notin Blocks
  BY DEF CacheAssumption
<1>9. BlockCachedOnce'
  <2>1. \A i \in Slots' : \/ i = Slot /\ bcache'[i].phys_bno \in {INVALID, b}
                          \/ i \in Slots /\ bcache'[i] = bcache[i] /\ bcache[i].phys_bno # b
                          \/ bcache'[i].phys_bno = INVALID
    BY <1>3, <1>6, <1>7
  <2>2. QED
    BY <2>1 DEF BlockCachedOnce
<1>10. InvalidIsIdle'
  BY <1>3, <1>6, <1>8 DEF InvalidIsIdle
<1>11. CacheIsCoherent'
  BY <1>3, <1>6 DEF CacheIsCoherent, Content
<1>12. CountsAreLoans'
  <2> SUFFICES ASSUME NEW c \in Blocks
               PROVE  /\ \A i \in Slots' : bcache'[i].phys_bno = c => bcache'[i].refcount = loans'[c]
                      /\ loans'[c] > 0 => \E i \in Slots' : bcache'[i].phys_bno = c
    BY DEF CountsAreLoans, Holding
  <2>1. /\ \A i \in Slots : bcache[i].phys_bno = c => bcache[i].refcount = loans[c]
        /\ loans[c] > 0 => \E i \in Slots : bcache[i].phys_bno = c
    BY DEF CountsAreLoans, Holding
  <2>2. loans \in [Blocks -> Nat]
    BY DEF CacheTypeOK
  <2>3. CASE c = b /\ e.phys_bno = b
    <3>1. loans[b] = 0
      BY <2>1, <2>2, <2>3, <1>7
    <3>2. e.refcount = 1 /\ loans'[b] = 1
      BY <2>2, <2>3, <3>1, <1>8
    <3>3. QED
      BY <2>3, <3>2, <1>1, <1>2, <1>3, <1>6, <1>7, <1>8
  <2>4. CASE ~(c = b /\ e.phys_bno = b)
    <3>1. loans'[c] = loans[c] /\ e.phys_bno # c
      BY <2>2, <2>4, <1>8
    <3>2. \A i \in Slots' : bcache'[i].phys_bno = c => bcache'[i].refcount = loans'[c]
      BY <3>1, <2>1, <1>3, <1>6, <1>8
    <3>3. ASSUME loans'[c] > 0 PROVE \E i \in Slots' : bcache'[i].phys_bno = c
      <4>1. PICK i \in Slots : bcache[i].phys_bno = c
        BY <3>1, <3>3, <2>1
      <4>2. bcache[i].refcount > 0
        BY <4>1, <3>1, <3>3, <2>1
      <4>3. i # Slot
        BY <4>2, <1>1
      <4>4. QED
        BY <4>1, <4>3, <1>3, <1>5
    <3>4. QED
      BY <3>2, <3>3
  <2>5. QED
    BY <2>3, <2>4
<1>13. QED
  BY <1>4, <1>9, <1>10, <1>11, <1>12

(* Every call preserves the invariant. *)
LEMMA CacheInvStep ==
    ASSUME CacheAssumption, CacheInv, [CacheNext]_cacheVars
    PROVE  CacheInv'
<1> USE DEF CacheInv
<1>1. ASSUME NEW b \in Blocks, NEW level \in 0 .. MaxLevel + 1, GetHit(b, level)
      PROVE  CacheInv'
  <2> DEFINE i == Min(Holding(b))
  <2>1. i \in Holding(b) /\ i \in Slots /\ bcache[i].phys_bno = b
    <3>1. Holding(b) \in SUBSET Nat /\ Holding(b) # {}
      BY <1>1 DEF GetHit, Holding, Slots, CacheTypeOK
    <3>2. QED
      BY <3>1, MinOfNaturals DEF Holding
  <2>2. \A j \in Slots : bcache[j].phys_bno = b => j = i
    BY <2>1, CacheAssumption DEF BlockCachedOnce, CacheAssumption
  <2>3. Clamp(level) \in 0..MaxLevel
    BY DEF Clamp, CacheAssumption
  <2> HIDE DEF i
  <2>4. /\ bcache' = [bcache EXCEPT
                        ![i].cache_level = IF @ < Clamp(level) THEN Clamp(level) ELSE @,
                        ![i].refcount = @ + 1]
        /\ loans' = [loans EXCEPT ![b] = @ + 1]
        /\ UNCHANGED <<phys_blocksize, bcache_size, invalid_matches>>
    BY <1>1 DEF GetHit, i
  <2>5. Slots' = Slots /\ bcache[i] \in Entry /\ bcache \in [Slots -> Entry]
    BY <2>1, <2>4 DEF Slots, CacheTypeOK
  <2>6. /\ bcache'[i] \in Entry
        /\ bcache'[i].phys_bno = b
        /\ bcache'[i].refcount = bcache[i].refcount + 1
        /\ bcache'[i].data = bcache[i].data
        /\ \A j \in Slots : j # i => bcache'[j] = bcache[j]
        /\ DOMAIN bcache' = Slots
        /\ bcache' = [j \in Slots |-> bcache'[j]]
    BY <2>1, <2>3, <2>4, <2>5 DEF Entry
  <2>7. CacheTypeOK'
    <3>1. bcache' \in [Slots' -> Entry]
      BY <2>5, <2>6
    <3>2. QED
      BY <3>1, <2>4 DEF CacheTypeOK
  <2>8. BlockCachedOnce' /\ InvalidIsIdle' /\ CacheIsCoherent'
    BY <2>1, <2>2, <2>4, <2>5, <2>6
       DEF BlockCachedOnce, InvalidIsIdle, CacheIsCoherent, Content, CacheAssumption
  <2>9. CountsAreLoans'
    BY <2>1, <2>2, <2>4, <2>5, <2>6 DEF CountsAreLoans, Holding, CacheTypeOK
  <2>10. QED
    BY <2>7, <2>8, <2>9
<1>2. ASSUME NEW b \in Blocks, NEW level \in 0 .. MaxLevel + 1, GetMiss(b, level)
      PROVE  CacheInv'
  <2> DEFINE e == [refcount |-> 1, cache_level |-> Clamp(level), phys_bno |-> b,
                   data |-> Content(b, phys_blocksize)]
  <2>1. Clamp(level) \in 0..MaxLevel
    BY DEF Clamp, CacheAssumption
  <2>2. e \in Entry
    BY <2>1 DEF Entry, Content, CacheTypeOK
  <2>3. /\ Holding(b) = {} /\ bcache_size' = NewSize
        /\ bcache' = [NewTable EXCEPT ![Slot] = e]
        /\ UNCHANGED phys_blocksize /\ UNCHANGED invalid_matches
        /\ loans' = [loans EXCEPT ![b] = @ + 1]
    BY <1>2 DEF GetMiss, Miss
  <2>4. e.phys_bno = b /\ e.refcount = 1 /\ e.data = Content(b, phys_blocksize)
    OBVIOUS
  <2> HIDE DEF e
  <2>5. QED
    BY <2>2, <2>3, <2>4, ReplacedEntry
<1>3. ASSUME NEW b \in Blocks, GetReadError(b) \/ GetBufferError(b)
      PROVE  CacheInv'
  <2>1. /\ Slot \in 0 .. NewSize - 1 /\ NewTable \in [0 .. NewSize - 1 -> Entry]
        /\ NewTable[Slot] \in Entry /\ NewTable[Slot].refcount = 0
    BY SlotIsIdle, TableProperties
  <2>2. \E e \in Entry : /\ e.phys_bno = INVALID /\ e.refcount = 0
                         /\ bcache' = [NewTable EXCEPT ![Slot] = e]
    <3>1. CASE GetReadError(b)
      <4> DEFINE e == [NewTable[Slot] EXCEPT !.phys_bno = INVALID, !.data = GARBAGE]
      <4>1. e \in Entry /\ e.phys_bno = INVALID /\ e.refcount = 0
        BY <2>1 DEF Entry
      <4>2. bcache' = [NewTable EXCEPT ![Slot] = e]
        BY <3>1, <2>1 DEF GetReadError
      <4>3. QED
        BY <4>1, <4>2
    <3>2. CASE GetBufferError(b)
      <4> DEFINE e == [NewTable[Slot] EXCEPT !.phys_bno = INVALID]
      <4>1. e \in Entry /\ e.phys_bno = INVALID /\ e.refcount = 0
        BY <2>1 DEF Entry
      <4>2. bcache' = [NewTable EXCEPT ![Slot] = e]
        BY <3>2, <2>1 DEF GetBufferError
      <4>3. QED
        BY <4>1, <4>2
    <3>3. QED
      BY <1>3, <3>1, <3>2
  <2>3. /\ Holding(b) = {} /\ bcache_size' = NewSize
        /\ UNCHANGED phys_blocksize /\ UNCHANGED invalid_matches /\ UNCHANGED loans
    BY <1>3 DEF GetReadError, GetBufferError, Miss
  <2>4. QED
    BY <2>2, <2>3, ReplacedEntry
<1>4. ASSUME NEW b \in Blocks, BlockRelease(b)
      PROVE  CacheInv'
  <2>1. /\ Slots' = Slots /\ loans[b] > 0
        /\ loans' = [loans EXCEPT ![b] = @ - 1]
        /\ UNCHANGED <<phys_blocksize, bcache_size, invalid_matches>>
    BY <1>4 DEF BlockRelease, Slots
  <2>2. \A i \in Slots : bcache[i].phys_bno = b => bcache[i].refcount > 0
    BY <2>1 DEF CountsAreLoans, Holding
  <2>3. \A i \in Slots :
          bcache'[i] = IF bcache[i].phys_bno = b
                       THEN [bcache[i] EXCEPT !.refcount = @ - 1] ELSE bcache[i]
    BY <1>4, <2>2 DEF BlockRelease
  <2>4. \A i \in Slots : /\ bcache'[i] \in Entry
                         /\ bcache'[i].phys_bno = bcache[i].phys_bno
                         /\ bcache'[i].data = bcache[i].data
                         /\ bcache'[i].refcount = IF bcache[i].phys_bno = b
                               THEN bcache[i].refcount - 1 ELSE bcache[i].refcount
    <3> SUFFICES ASSUME NEW i \in Slots
                 PROVE  /\ bcache'[i] \in Entry
                        /\ bcache'[i].phys_bno = bcache[i].phys_bno
                        /\ bcache'[i].data = bcache[i].data
                        /\ bcache'[i].refcount = IF bcache[i].phys_bno = b
                              THEN bcache[i].refcount - 1 ELSE bcache[i].refcount
      OBVIOUS
    <3>1. bcache[i] \in Entry
      BY DEF CacheTypeOK
    <3>2. CASE bcache[i].phys_bno = b
      <4>1. bcache'[i] = [bcache[i] EXCEPT !.refcount = @ - 1] /\ bcache[i].refcount - 1 \in Nat
        BY <2>2, <2>3, <3>1, <3>2 DEF Entry
      <4>2. QED
        BY <3>1, <3>2, <4>1 DEF Entry
    <3>3. CASE bcache[i].phys_bno # b
      BY <2>3, <3>1, <3>3
    <3>4. QED
      BY <3>2, <3>3
  <2>5. CacheTypeOK'
    <3>1. bcache' = [i \in Slots |-> bcache'[i]]
      BY <1>4 DEF BlockRelease
    <3>2. bcache' \in [Slots' -> Entry]
      BY <3>1, <2>1, <2>4
    <3>3. QED
      BY <3>2, <2>1 DEF CacheTypeOK
  <2>6. BlockCachedOnce' /\ CacheIsCoherent'
    BY <2>1, <2>4 DEF BlockCachedOnce, CacheIsCoherent, Content
  <2>7. InvalidIsIdle'
    BY <2>1, <2>4 DEF InvalidIsIdle, CacheAssumption
  <2>8. CountsAreLoans'
    BY <2>1, <2>4 DEF CountsAreLoans, Holding, CacheTypeOK
  <2>9. QED
    BY <2>5, <2>6, <2>7, <2>8
<1>5. ASSUME NEW size \in Sizes, SetPhysBlocksize(size)
      PROVE  CacheInv'
  <2>1. Slots' = {} /\ bcache_size' = 0 /\ phys_blocksize' = size
    BY <1>5 DEF SetPhysBlocksize, Slots
  <2>2. /\ loans' = loans /\ invalid_matches' = invalid_matches
        /\ \A b \in Blocks : loans[b] = 0
        /\ bcache' = [i \in Slots' |-> EmptyEntry]
    BY <1>5, <2>1 DEF SetPhysBlocksize, Slots
  <2>3. CacheTypeOK'
    BY <2>1, <2>2 DEF CacheTypeOK
  <2>4. QED
    BY <2>1, <2>2, <2>3
       DEF BlockCachedOnce, InvalidIsIdle, CacheIsCoherent, CountsAreLoans, Holding
<1>6. CASE UNCHANGED cacheVars
  BY <1>6 DEF cacheVars, CacheTypeOK, Slots, BlockCachedOnce, InvalidIsIdle, CacheIsCoherent,
              CountsAreLoans, Holding, Content
<1>7. QED
  BY <1>1, <1>2, <1>3, <1>4, <1>5, <1>6 DEF CacheNext

(* For every set of blocks, number of levels and table sizes, a block is     *)
(* cached once, its count is the number of gets outstanding, an invalid      *)
(* entry is idle and a valid one shows the disk.                             *)
THEOREM CacheInvariant == CacheSpec => []CacheInv
<1>1. CacheInit => CacheInv
  BY CacheAssumption DEF CacheInit, CacheInv, CacheTypeOK, Slots, BlockCachedOnce, InvalidIsIdle,
     CountsAreLoans, CacheIsCoherent, Holding, CacheAssumption
<1>2. CacheInv /\ [CacheNext]_cacheVars => CacheInv'
  BY CacheInvStep, CacheAssumption
<1>3. QED
  BY <1>1, <1>2, PTL DEF CacheSpec

(* The table is only ever enlarged when every entry is pinned.               *)
THEOREM TableGrowth == CacheSpec => GrowsOnlyWhenPinned
<1>1. CacheInv /\ [CacheNext]_cacheVars =>
        [bcache_size' > bcache_size => \A i \in Slots : bcache[i].refcount > 0]_cacheVars
  <2> SUFFICES ASSUME CacheInv, [CacheNext]_cacheVars, bcache_size' > bcache_size
               PROVE  \A i \in Slots : bcache[i].refcount > 0
    OBVIOUS
  <2>1. bcache_size \in Nat /\ bcache_size' # bcache_size
    BY DEF CacheInv, CacheTypeOK
  <2>2. bcache_size' = NewSize
    <3>1. \/ \E b \in Blocks : Miss(b)
          \/ bcache_size' = 0
          \/ bcache_size' = bcache_size
      BY DEF CacheNext, cacheVars, GetHit, GetMiss, GetReadError, GetBufferError,
             BlockRelease, SetPhysBlocksize
    <3>2. QED
      BY <2>1, <3>1 DEF Miss
  <2>3. TableFull
    BY <2>1, <2>2 DEF NewSize
  <2>4. \A i \in Slots : /\ bcache[i].refcount \in Nat
                         /\ bcache[i].cache_level \in 0..MaxLevel
    BY DEF CacheInv, CacheTypeOK, Entry
  <2>5. QED
    BY <2>3, <2>4, CacheAssumption DEF TableFull, Discardable, CacheAssumption
<1>2. QED
  BY <1>1, CacheInvariant, PTL DEF CacheSpec, GrowsOnlyWhenPinned

(* The block that goes is one of the least important idle ones, whatever     *)
(* the order of the entries.                                                 *)
THEOREM PurgeOrder == CacheSpec => LowLevelsGoFirst
<1> DEFINE Lowest == \A i \in Slots :
              (/\ bcache_size' >= bcache_size
               /\ bcache[i].phys_bno # INVALID
               /\ bcache'[i].phys_bno # bcache[i].phys_bno)
              => \A j \in Slots : bcache[j].refcount = 0 =>
                     bcache[j].cache_level >= bcache[i].cache_level
<1>1. CacheInv /\ [CacheNext]_cacheVars => [Lowest]_cacheVars
  <2> SUFFICES ASSUME CacheInv, CacheNext,
                      NEW i \in Slots, NEW j \in Slots,
                      bcache_size' >= bcache_size,
                      bcache[i].phys_bno # INVALID,
                      bcache'[i].phys_bno # bcache[i].phys_bno,
                      bcache[j].refcount = 0
               PROVE  bcache[j].cache_level >= bcache[i].cache_level
    BY DEF cacheVars
  <2> USE DEF CacheInv
  <2>1. /\ bcache_size \in Nat /\ bcache_size' # 0 /\ Slots \in SUBSET Nat
        /\ \A k \in Slots : bcache[k] \in Entry
    BY DEF CacheTypeOK, Slots
  <2>2. PICK b \in Blocks : \/ \E level \in 0 .. MaxLevel + 1 : GetMiss(b, level)
                           \/ GetReadError(b) \/ GetBufferError(b)
    <3>1. \A b \in Blocks, level \in 0 .. MaxLevel + 1 : ~GetHit(b, level)
      BY <2>1 DEF GetHit, CacheTypeOK, Entry
    <3>2. \A b \in Blocks : ~BlockRelease(b)
      BY <2>1 DEF BlockRelease, CacheTypeOK, Entry
    <3>3. \A size \in Sizes : ~SetPhysBlocksize(size)
      BY <2>1 DEF SetPhysBlocksize
    <3>4. QED
      BY <3>1, <3>2, <3>3 DEF CacheNext
  <2>3. i = Slot
    <3>1. \A k \in Slots : k # Slot => bcache'[k] = bcache[k]
      BY <2>2, TableProperties, SlotIsIdle, CacheAssumption
         DEF GetMiss, GetReadError, GetBufferError
    <3>2. QED
      BY <3>1
  <2>4. ~TableFull /\ FreeSlots = {}
    <3>1. ~TableFull
      BY <2>1, <2>3 DEF Slot, Slots
    <3>2. CASE FreeSlots # {}
      <4>1. FreeSlots \in SUBSET Nat
        BY <2>1 DEF FreeSlots
      <4>2. Slot = Min(FreeSlots)
        BY <3>1, <3>2 DEF Slot
      <4>3. Slot \in FreeSlots
        BY <3>2, <4>1, <4>2, MinOfNaturals
      <4>4. QED
        BY <2>3, <4>3 DEF FreeSlots
    <3>3. QED
      BY <3>1, <3>2
  <2> DEFINE Levels == {level \in 0..MaxLevel : Discardable(level) # {}}
  <2>5. bcache[j].cache_level \in Levels
    BY <2>1 DEF Discardable, Entry, CacheAssumption
  <2>6. DiscardLevel \in Levels /\ DiscardLevel <= bcache[j].cache_level
    <3>1. Levels \in SUBSET Nat /\ DiscardLevel = Min(Levels)
      BY DEF DiscardLevel
    <3> HIDE DEF Levels
    <3>2. QED
      BY <2>5, <3>1, MinOfNaturals
  <2>7. Slot \in Discardable(DiscardLevel)
    <3>1. Discardable(DiscardLevel) \in SUBSET Nat
      BY <2>1 DEF Discardable
    <3>2. Slot = Min(Discardable(DiscardLevel))
      BY <2>4 DEF Slot
    <3>3. QED
      BY <2>6, <3>1, <3>2, MinOfNaturals
  <2>8. bcache[i].cache_level <= DiscardLevel
    BY <2>3, <2>7 DEF Discardable
  <2>9. QED
    BY <2>1, <2>6, <2>8, CacheAssumption DEF Entry, CacheAssumption
<1>2. QED
  BY <1>1, CacheInvariant, PTL DEF CacheSpec, LowLevelsGoFirst

------------------------------------------------------------------------------
(* Under the invariant what a borrower reads is a function of the loans and *)
(* the block size alone: the content of the block, as long as it is lent.   *)
LEMMA LentValue ==
    ASSUME CacheAssumption, CacheInv
    PROVE  Lent = [b \in Blocks |-> IF loans[b] = 0 THEN NoData
                                    ELSE Content(b, phys_blocksize)]
<1> SUFFICES ASSUME NEW b \in Blocks
             PROVE  Lent[b] = IF loans[b] = 0 THEN NoData ELSE Content(b, phys_blocksize)
  BY DEF Lent
<1> USE DEF CacheInv
<1>1. loans[b] \in Nat /\ \A i \in Holding(b) : bcache[i].refcount = loans[b]
  BY DEF CacheTypeOK, CountsAreLoans
<1>2. CASE loans[b] = 0
  <2>1. Pinned(b) = {}
    BY <1>1, <1>2 DEF Pinned
  <2>2. QED
    BY <1>2, <2>1 DEF Lent
<1>3. CASE loans[b] # 0
  <2>1. Pinned(b) # {} /\ Pinned(b) \in SUBSET Nat
    BY <1>1, <1>3 DEF Pinned, CountsAreLoans, Holding, Slots, CacheTypeOK
  <2>2. Min(Pinned(b)) \in Pinned(b)
    BY <2>1, MinOfNaturals
  <2>3. bcache[Min(Pinned(b))].data = Content(b, phys_blocksize)
    BY <2>2 DEF Pinned, Holding, CacheIsCoherent, CacheAssumption
  <2>4. QED
    BY <1>3, <2>1, <2>3 DEF Lent
<1>4. QED
  BY <1>2, <1>3

(* The same in the next state. *)
LEMMA LentValueNext ==
    CacheInv' => (Lent = [b \in Blocks |-> IF loans[b] = 0 THEN NoData
                                           ELSE Content(b, phys_blocksize)])'
<1>1. CacheInv => Lent = [b \in Blocks |-> IF loans[b] = 0 THEN NoData
                                           ELSE Content(b, phys_blocksize)]
  BY LentValue, CacheAssumption
<1>2. QED
  BY <1>1, PTL

(* Every step of the cache is a step of the store or leaves it unchanged.    *)
LEMMA StoreStep ==
    ASSUME CacheAssumption, CacheInv, CacheInv', [CacheNext]_cacheVars
    PROVE  [Store!Next]_(Store!vars)
<1> DEFINE View(l, s) == [b \in Blocks |-> IF l[b] = 0 THEN NoData ELSE Content(b, s)]
<1>1. Lent = View(loans, phys_blocksize)
  BY LentValue
<1>2. Lent' = View(loans', phys_blocksize')
  BY LentValueNext DEF Content
<1>3. loans \in [Blocks -> Nat] /\ loans' \in [Blocks -> Nat]
  BY DEF CacheInv, CacheTypeOK
<1> USE DEF Store!Next, Store!vars, Store!Content, Content
<1>4. ASSUME NEW b \in Blocks, loans' = [loans EXCEPT ![b] = @ + 1],
             phys_blocksize' = phys_blocksize
      PROVE  Store!Borrow(b)
  BY <1>1, <1>2, <1>3, <1>4 DEF Store!Borrow
<1>5. ASSUME NEW b \in Blocks, BlockRelease(b)
      PROVE  Store!Return(b)
  BY <1>1, <1>2, <1>3, <1>5 DEF BlockRelease, Store!Return
<1>6. ASSUME NEW size \in Sizes, SetPhysBlocksize(size)
      PROVE  Store!Resize(size)
  BY <1>1, <1>2, <1>3, <1>6 DEF SetPhysBlocksize, Store!Resize
<1>7. ASSUME UNCHANGED <<loans, phys_blocksize>>
      PROVE  UNCHANGED Store!vars
  BY <1>1, <1>2, <1>7
<1>8. QED
  <2>1. CASE \E b \in Blocks, level \in 0 .. MaxLevel + 1 :
                GetHit(b, level) \/ GetMiss(b, level)
    BY <1>4, <2>1 DEF GetHit, GetMiss
  <2>2. CASE \E b \in Blocks : GetReadError(b) \/ GetBufferError(b)
    BY <1>7, <2>2 DEF GetReadError, GetBufferError
  <2>3. CASE \E b \in Blocks : BlockRelease(b)
    BY <1>5, <2>3
  <2>4. CASE \E size \in Sizes : SetPhysBlocksize(size)
    BY <1>6, <2>4
  <2>5. CASE UNCHANGED cacheVars
    BY <1>7, <2>5 DEF cacheVars
  <2>6. QED
    BY <2>1, <2>2, <2>3, <2>4, <2>5 DEF CacheNext

(* fsw_block_get keeps its promise: "the returned data pointer is valid      *)
(* until the caller calls fsw_block_release", through every sequence of hits, *)
(* evictions, growths, failed reads and changes of the block size.           *)
THEOREM CacheImplementsStore == CacheSpec => ImplementsStore
<1>1. CacheInit => Store!Init
  <2> SUFFICES ASSUME CacheInit PROVE Store!Init
    OBVIOUS
  <2>1. Slots = {}
    BY DEF CacheInit, Slots
  <2>2. Lent = [b \in Blocks |-> NoData]
    BY <2>1 DEF Lent, Pinned, Holding
  <2>3. QED
    BY <2>2 DEF CacheInit, Store!Init
<1>2. CacheInv /\ CacheInv' /\ [CacheNext]_cacheVars => [Store!Next]_(Store!vars)
  BY StoreStep, CacheAssumption
<1>3. QED
  BY <1>1, <1>2, CacheInvariant, PTL DEF CacheSpec, ImplementsStore, Store!Spec
=============================================================================
