----------------------------- MODULE GptSyncProofs -----------------------------
(***************************************************************************)
(* For every GPT, every MBR and whatever file systems gptsync fails to       *)
(* detect: it leaves exactly one partition active, the one that was if it is  *)
(* still there, in a table it accepts itself and does not write again.        *)
(***************************************************************************)
EXTENDS GptSync, WellFoundedInduction, FiniteSetTheorems, FunctionTheorems, TLAPS

(* The lowest number of a set exists and is in the set. *)
LEMMA MinOfNaturals ==
    ASSUME NEW S \in SUBSET Nat, S # {}
    PROVE  Min(S) \in S /\ \A y \in S : Min(S) <= y
<1> DEFINE R == OpToRel(<, Nat)
<1>1. IsWellFoundedOn(R, Nat) /\ \A x, y \in Nat : <<y, x>> \in R <=> y < x
  BY NatLessThanWellFounded DEF OpToRel
<1> HIDE DEF R
<1>2. PICK x \in S : \A y \in S : <<y, x>> \notin R
  BY <1>1, WFMin
<1>3. \A y \in S : x \in Nat /\ y \in Nat /\ ~(y < x)
  BY <1>1, <1>2
<1>4. \A y \in S : x <= y
  BY <1>3
<1>5. QED
  BY <1>4 DEF Min

(* A table of n entries, as far as their active flags are concerned. *)
Flagged(parts, n) ==
    /\ DOMAIN parts = 1 .. n
    /\ \A i \in 1 .. n : \E start, end, type : \E active \in BOOLEAN :
          parts[i] = Part(start, end, type, active)

LEMMA PartFields ==
    ASSUME NEW start, NEW end, NEW type, NEW active, NEW new
    PROVE  LET p == Part(start, end, type, active) IN
           /\ p.start = start /\ p.end = end /\ p.type = type /\ p.active = active
           /\ [p EXCEPT !.active = new] = Part(start, end, type, new)
  BY DEF Part

(* Activating one entry makes it the only active one. *)
LEMMA OnlyActiveIsOne ==
    ASSUME NEW n \in Nat, NEW parts, Flagged(parts, n), NEW k \in 1 .. n
    PROVE  /\ Flagged(OnlyActive(parts, k), n)
           /\ Active(OnlyActive(parts, k)) = {k}
<1> DEFINE new == OnlyActive(parts, k)
<1>1. DOMAIN new = 1 .. n
  BY DEF OnlyActive, Flagged
<1>2. ASSUME NEW i \in 1 .. n
      PROVE  \E start, end, type : new[i] = Part(start, end, type, i = k)
  <2>1. PICK start, end, type, active : parts[i] = Part(start, end, type, active)
    BY DEF Flagged
  <2>2. [parts[i] EXCEPT !.active = (i = k)] = Part(start, end, type, i = k)
    BY <2>1, PartFields
  <2>3. new[i] = [parts[i] EXCEPT !.active = (i = k)]
    BY DEF OnlyActive, Flagged
  <2>4. QED
    BY <2>2, <2>3
<1> HIDE DEF new
<1>3. Flagged(new, n)
  <2>1. ASSUME NEW i \in 1 .. n
        PROVE  \E start, end, type : \E active \in BOOLEAN :
                  new[i] = Part(start, end, type, active)
    <3>1. PICK start, end, type : new[i] = Part(start, end, type, i = k)
      BY <1>2
    <3>2. (i = k) \in BOOLEAN
      OBVIOUS
    <3>3. QED
      BY <3>1, <3>2
  <2>2. QED
    BY <1>1, <2>1 DEF Flagged
<1>4. ASSUME NEW i \in 1 .. n PROVE new[i].active <=> i = k
  <2>1. PICK start, end, type : new[i] = Part(start, end, type, i = k)
    BY <1>2
  <2>2. new[i].active = (i = k)
    BY <2>1, PartFields
  <2>3. QED
    BY <2>2
<1>5. Active(new) = {k}
  BY <1>1, <1>4 DEF Active
<1>6. QED
  BY <1>3, <1>5 DEF new

(* The rounds of the fix: each keeps the table's shape and what is right      *)
(* already, the second repairs too many, and the third too few.               *)
LEMMA FixKeepsShape ==
    ASSUME NEW n \in Nat, n >= 1, NEW parts, Flagged(parts, n), NEW iter \in 0 .. 2
    PROVE  LET new == FixActive(parts, iter) IN
           /\ Flagged(new, n)
           /\ OneElement(Active(parts)) => OneElement(Active(new))
           /\ iter >= 1 /\ Active(parts) # {} => OneElement(Active(new))
           /\ iter = 2 /\ n >= 2 => OneElement(Active(new))
<1>1. Active(parts) \in SUBSET Nat /\ Active(parts) \subseteq 1 .. n
      /\ Bootable(parts, iter) \in SUBSET Nat /\ Bootable(parts, iter) \subseteq 1 .. n
  BY DEF Active, Bootable, Flagged
<1>2. CASE OneElement(Active(parts))
  <2>1. FixActive(parts, iter) = parts
    BY <1>2 DEF FixActive
  <2>2. QED
    BY <1>2, <2>1
<1>3. CASE ~OneElement(Active(parts)) /\ Active(parts) = {} /\ Bootable(parts, iter) = {}
  <2>1. FixActive(parts, iter) = parts
    BY <1>3 DEF FixActive
  <2>2. iter = 2 /\ n >= 2 => 2 \in Bootable(parts, iter)
    BY DEF Bootable, Flagged
  <2>3. QED
    BY <1>3, <2>1, <2>2
<1>4. CASE ~OneElement(Active(parts)) /\ Active(parts) = {} /\ Bootable(parts, iter) # {}
  <2>1. Min(Bootable(parts, iter)) \in 1 .. n
    BY <1>1, <1>4, MinOfNaturals
  <2>2. FixActive(parts, iter) = OnlyActive(parts, Min(Bootable(parts, iter)))
    BY <1>4 DEF FixActive
  <2> DEFINE k == Min(Bootable(parts, iter))
  <2>3. /\ Flagged(OnlyActive(parts, k), n)
        /\ Active(OnlyActive(parts, k)) = {k}
    BY <2>1, OnlyActiveIsOne
  <2>4. OneElement(Active(OnlyActive(parts, k)))
    BY <2>3 DEF OneElement
  <2>5. QED
    BY <2>2, <2>3, <2>4
<1>5. CASE ~OneElement(Active(parts)) /\ Active(parts) # {} /\ iter # 0
  <2>1. Min(Active(parts)) \in 1 .. n
    BY <1>1, <1>5, MinOfNaturals
  <2>2. FixActive(parts, iter) = OnlyActive(parts, Min(Active(parts)))
    BY <1>5 DEF FixActive
  <2> DEFINE k == Min(Active(parts))
  <2>3. /\ Flagged(OnlyActive(parts, k), n)
        /\ Active(OnlyActive(parts, k)) = {k}
    BY <2>1, OnlyActiveIsOne
  <2>4. OneElement(Active(OnlyActive(parts, k)))
    BY <2>3 DEF OneElement
  <2>5. QED
    BY <2>2, <2>3, <2>4
<1>6. CASE ~OneElement(Active(parts)) /\ Active(parts) # {} /\ iter = 0
  <2>1. FixActive(parts, iter) = [parts EXCEPT ![1] = [@ EXCEPT !.active = FALSE]]
    BY <1>6 DEF FixActive
  <2>2. 1 \in 1 .. n
    OBVIOUS
  <2>3. PICK start, end, type : [parts[1] EXCEPT !.active = FALSE]
                                  = Part(start, end, type, FALSE)
    <3>1. PICK start, end, type, active : parts[1] = Part(start, end, type, active)
      BY <2>2 DEF Flagged
    <3>2. PICK off : off = FALSE
      OBVIOUS
    <3>3. [parts[1] EXCEPT !.active = off] = Part(start, end, type, off)
      BY <3>1, PartFields
    <3>4. QED
      BY <3>2, <3>3, Zenon
  <2> DEFINE p == Part(start, end, type, FALSE)
             new == [parts EXCEPT ![1] = p]
  <2>4. FixActive(parts, iter) = new
    BY <2>1, <2>3
  <2>5. /\ DOMAIN new = 1 .. n
        /\ \A i \in 1 .. n : new[i] = IF i = 1 THEN p ELSE parts[i]
    BY DEF Flagged
  <2>6. \E active \in BOOLEAN : p = Part(start, end, type, active)
    OBVIOUS
  <2> HIDE DEF p, new
  <2>7. Flagged(new, n)
    <3>1. \A i \in 1 .. n : \E s, e, t : \E active \in BOOLEAN : new[i] = Part(s, e, t, active)
      BY <2>5, <2>6 DEF Flagged
    <3>2. QED
      BY <2>5, <3>1 DEF Flagged
  <2>8. iter # 1 /\ iter # 2 /\ ~(iter >= 1)
    BY <1>6
  <2>9. QED
    BY <1>6, <2>4, <2>7, <2>8
<1>7. QED
  BY <1>2, <1>3, <1>4, <1>5, <1>6

LEMMA ComposeIsFlagged ==
    ASSUME NEW old, NEW parts, Len(parts) \in Nat, Len(parts) >= 1,
           parts[1].type = "esp" => Len(parts) >= 2
    PROVE  \E n \in 2 .. 4 : Flagged(Compose(old, parts), n)
<1> DEFINE skipped == IF parts[1].type = "esp" THEN 1 ELSE 0
           n == 1 + Room(skipped, Len(parts))
           new == Compose(old, parts)
<1>1. n \in 2 .. 4
  <2> DEFINE count == Len(parts)
  <2>1. /\ count \in Nat /\ count >= 1
        /\ skipped = 0 \/ (skipped = 1 /\ count >= 2)
    OBVIOUS
  <2> HIDE DEF skipped, count
  <2>2. 1 + Room(skipped, count) \in 2 .. 4
    BY <2>1 DEF Room
  <2>3. QED
    BY <2>2 DEF count
<1> HIDE DEF n
<1>2. new = [i \in 1 .. n |->
               IF i = 1 THEN Protective(parts) ELSE Mirror(old, parts[i - 1 + skipped])]
  BY DEF Compose, n
<1>3. \E start, end, type : \E active \in BOOLEAN :
         Protective(parts) = Part(start, end, type, active)
  BY DEF Protective
<1>4. ASSUME NEW part
      PROVE  \E start, end, type : \E active \in BOOLEAN :
                Mirror(old, part) = Part(start, end, type, active)
  <2> DEFINE k == Min(Matching(old, part))
             kept == IF Matching(old, part) = {} THEN "none" ELSE old[k].type
             type == IF part.type # "none" THEN part.type
                     ELSE IF kept # "none" THEN kept ELSE "fallback"
             active == Matching(old, part) # {} /\ old[k].active
  <2>1. Mirror(old, part) = Part(part.start, part.end, type, active)
    BY Zenon DEF Mirror
  <2>2. active \in BOOLEAN
    OBVIOUS
  <2> HIDE DEF active, type
  <2>3. QED
    BY <2>1, <2>2
<1>5. Flagged(new, n)
  BY <1>1, <1>2, <1>3, <1>4 DEF Flagged
<1>6. QED
  BY <1>1, <1>5

(* "make sure there's exactly one active partition" (gptsync.c:373-411). *)
LEMMA ProposalHasOneActive ==
    ASSUME NEW old, NEW parts, Len(parts) \in Nat, Len(parts) >= 1,
           parts[1].type = "esp" => Len(parts) >= 2
    PROVE  \E n \in 2 .. 4 : /\ Flagged(Propose(old, parts), n)
                             /\ OneElement(Active(Propose(old, parts)))
<1>1. PICK n \in 2 .. 4 : Flagged(Compose(old, parts), n)
  BY ComposeIsFlagged
<1> DEFINE first == FixActive(Compose(old, parts), 0)
           second == FixActive(first, 1)
<1>2. n \in Nat /\ n >= 1 /\ n >= 2
  BY <1>1
<1>3. Flagged(first, n)
  BY <1>1, <1>2, FixKeepsShape
<1> HIDE DEF first
<1>4. Flagged(second, n)
  BY <1>2, <1>3, FixKeepsShape
<1> HIDE DEF second
<1>5. Flagged(FixActive(second, 2), n) /\ OneElement(Active(FixActive(second, 2)))
  BY <1>2, <1>4, FixKeepsShape
<1>6. Propose(old, parts) = FixActive(second, 2)
  BY DEF Propose, first, second
<1>7. QED
  BY <1>1, <1>5, <1>6

(* The write carries the flag of the one active partition to the disk.       *)
LEMMA WrittenHasOneActive ==
    ASSUME NEW n \in 2 .. 4, NEW parts, Flagged(parts, n), OneElement(Active(parts))
    PROVE  OneElement(Active(Written(parts)))
<1>1. PICK k : Active(parts) = {k}
  BY DEF OneElement
<1>2. k \in 1 .. n /\ k \in Slots /\ DOMAIN parts \subseteq Slots
  BY <1>1 DEF Active, Flagged, Slots
<1>3. DOMAIN Written(parts) = Slots
  BY DEF Written
<1>4. ASSUME NEW i \in Slots, i \notin DOMAIN parts
      PROVE  ~Written(parts)[i].active
  BY <1>4 DEF Written, Unused
<1>5. ASSUME NEW i \in DOMAIN parts
      PROVE  Written(parts)[i].active <=> i = k
  <2> DEFINE flag == parts[i].active /\ \A j \in Active(parts) : i <= j
  <2>1. i \in Slots /\ i \in Nat
    BY <1>2 DEF Slots
  <2>2. Written(parts)[i].active = flag
    BY <2>1 DEF Written
  <2>3. parts[i].active <=> i = k
    BY <1>1 DEF Active
  <2>4. flag <=> i = k
    BY <1>1, <2>1, <2>3
  <2> HIDE DEF flag
  <2>5. QED
    BY <2>2, <2>4
<1>6. k \in DOMAIN parts
  BY <1>1 DEF Active
<1>7. Active(Written(parts)) = {k}
  BY <1>2, <1>3, <1>4, <1>5, <1>6 DEF Active
<1>8. QED
  BY <1>7 DEF OneElement

------------------------------------------------------------------------------
(* An MBR on the disk, as far as its active flags are concerned. *)
IsMbr(table) ==
    /\ DOMAIN table = Slots
    /\ \A i \in Slots : \E active, type, start, size :
          table[i] = [active |-> active, type |-> type, start |-> start, size |-> size]

LEMMA MbrsAreMbrs == \A table \in Mbrs : IsMbr(table)
<1> SUFFICES ASSUME NEW table \in Mbrs PROVE IsMbr(table)
  OBVIOUS
<1>1. table \in [Slots -> MbrEntry]
  BY GptSyncAssumption
<1>2. ASSUME NEW entry \in MbrEntry
      PROVE  \E active, type, start, size :
                entry = [active |-> active, type |-> type, start |-> start, size |-> size]
  BY DEF MbrEntry
<1>3. QED
  BY <1>1, <1>2 DEF IsMbr

LEMMA WrittenIsMbr == ASSUME NEW parts PROVE IsMbr(Written(parts))
  BY Zenon DEF IsMbr, Written, Unused

(* ActivateMbrPartition of rEFIt activates the one it is given, and no other. *)
LEMMA ActivatedIsOne ==
    ASSUME NEW table, IsMbr(table), NEW k \in Slots
    PROVE  LET new == [i \in Slots |-> [table[i] EXCEPT !.active = (i = k)]] IN
           IsMbr(new) /\ OneElement(Active(new))
<1> DEFINE new == [i \in Slots |-> [table[i] EXCEPT !.active = (i = k)]]
<1>1. ASSUME NEW i \in Slots
      PROVE  \E type, start, size :
                new[i] = [active |-> i = k, type |-> type, start |-> start, size |-> size]
  <2>1. PICK active, type, start, size :
           table[i] = [active |-> active, type |-> type, start |-> start, size |-> size]
    BY DEF IsMbr
  <2>2. PICK flag : flag = (i = k)
    OBVIOUS
  <2>3. [table[i] EXCEPT !.active = flag]
           = [active |-> flag, type |-> type, start |-> start, size |-> size]
    BY <2>1
  <2>4. new[i] = [table[i] EXCEPT !.active = (i = k)]
    OBVIOUS
  <2> HIDE DEF new
  <2>5. QED
    BY <2>2, <2>3, <2>4, Zenon
<1>2. DOMAIN new = Slots
  OBVIOUS
<1> HIDE DEF new
<1>3. IsMbr(new)
  BY <1>1, <1>2 DEF IsMbr
<1>4. ASSUME NEW i \in Slots PROVE new[i].active <=> i = k
  <2>1. PICK type, start, size :
           new[i] = [active |-> i = k, type |-> type, start |-> start, size |-> size]
    BY <1>1
  <2>2. new[i].active = (i = k)
    BY <2>1
  <2>3. QED
    BY <2>2
<1>5. Active(new) = {k}
  BY <1>2, <1>4 DEF Active
<1>6. QED
  BY <1>3, <1>5 DEF OneElement, new

(* A table that check_gpt accepts has a partition besides a leading ESP.      *)
LEMMA AcceptedHasData ==
    ASSUME NEW table \in Tables, CheckGpt(table), NEW unreadable
    PROVE  LET parts == Typed(table, unreadable) IN
           /\ Len(parts) \in Nat /\ Len(parts) >= 1
           /\ parts[1].type = "esp" => Len(parts) >= 2
<1> DEFINE parts == Typed(table, unreadable)
<1>1. table \in Seq(GptEntry)
  BY GptSyncAssumption
<1>2. PICK i \in DOMAIN table : table[i].kind \in {"data", "basic"}
  BY DEF CheckGpt
<1>3. /\ Len(table) \in Nat /\ DOMAIN table = 1 .. Len(table)
      /\ Len(table) >= 1 /\ 1 \in DOMAIN table /\ i \in 1 .. Len(table)
  BY <1>1, <1>2
<1>4. Len(parts) = Len(table)
  BY <1>3 DEF Typed
<1>5. parts[1].type = MbrType(table, unreadable, 1)
  <2>1. parts[1] = Part(table[1].start, table[1].end, MbrType(table, unreadable, 1), FALSE)
    BY <1>3, Zenon DEF Typed
  <2> HIDE DEF parts
  <2>2. QED
    BY <2>1 DEF Part
<1>6. table[1] \in GptEntry
  BY <1>1, <1>3
<1>7. Detected(table, unreadable, 1) \in FsTypes
  BY <1>6 DEF Detected, GptEntry, FsTypes
<1>8. MbrType(table, unreadable, 1) = "esp" => table[1].kind = "system"
  <2>1. MbrType(table, unreadable, 1) = "esp" => table[1].type = "esp"
    <3>1. table[1].kind = "basic" => MbrType(table, unreadable, 1) # "esp"
      BY <1>7 DEF MbrType, FsTypes, FatTypes
    <3>2. table[1].kind # "basic" /\ table[1].type # "esp"
             => MbrType(table, unreadable, 1) = table[1].type
      BY DEF MbrType
    <3>3. QED
      BY <3>1, <3>2
  <2>2. QED
    BY <1>3, <2>1, GptSyncAssumption
<1>9. table[1].kind = "system" => i # 1
  BY <1>2
<1> HIDE DEF parts
<1>10. QED
  BY <1>3, <1>4, <1>5, <1>8, <1>9 DEF parts

------------------------------------------------------------------------------
(* The inductive invariant: what each step of the program relies on from the  *)
(* one before it.                                                             *)
ActiveInv ==
    /\ pc \in {"off", "check", "analyze", "ask", "write"}
    /\ pc = "check" => gpt_parts \in Tables
    /\ pc = "analyze" => /\ Len(gpt_parts) \in Nat /\ Len(gpt_parts) >= 1
                         /\ gpt_parts[1].type = "esp" => Len(gpt_parts) >= 2
    /\ pc \in {"ask", "write"} => \E n \in 2 .. 4 : Flagged(new_mbr_parts, n)
    /\ gpt \in Tables
    /\ IsMbr(mbr)
    /\ OneIsActive

LEMMA InitActiveInv == Init => ActiveInv
  BY MbrsAreMbrs DEF Init, ActiveInv, OneIsActive

LEMMA NextActiveInv == ActiveInv /\ [Next]_vars => ActiveInv'
<1> SUFFICES ASSUME ActiveInv, [Next]_vars PROVE ActiveInv'
  OBVIOUS
<1> USE DEF ActiveInv, OneIsActive
<1>1. CASE ReadTables
  BY <1>1 DEF ReadTables
<1>2. CASE Refuse
  BY <1>2 DEF Refuse, Exit
<1>3. CASE DetectTypes
  <2>1. gpt_parts \in Tables /\ CheckGpt(gpt_parts)
    BY <1>3 DEF DetectTypes
  <2>2. PICK unreadable : gpt_parts' = Typed(gpt_parts, unreadable)
    BY <1>3 DEF DetectTypes
  <2>3. /\ Len(gpt_parts') \in Nat /\ Len(gpt_parts') >= 1
        /\ gpt_parts'[1].type = "esp" => Len(gpt_parts') >= 2
    BY <2>1, <2>2, AcceptedHasData
  <2>4. pc' = "analyze" /\ UNCHANGED <<gpt, mbr, mirrored>>
    BY <1>3 DEF DetectTypes
  <2>5. QED
    BY <2>3, <2>4
<1>4. CASE NoNeedOrUnclear
  BY <1>4 DEF NoNeedOrUnclear, Exit
<1>5. CASE Analyze
  <2>1. PICK n \in 2 .. 4 : /\ Flagged(new_mbr_parts', n)
                            /\ OneElement(Active(new_mbr_parts'))
    BY <1>5, ProposalHasOneActive DEF Analyze
  <2>2. pc' = "ask" /\ UNCHANGED <<gpt, mbr, mirrored>>
    BY <1>5 DEF Analyze
  <2>3. QED
    BY <2>1, <2>2
<1>6. CASE Confirm
  BY <1>6 DEF Confirm
<1>7. CASE DeclineOrFail
  BY <1>7 DEF DeclineOrFail, Exit
<1>8. CASE WriteMbr
  <2>1. mbr' = Written(new_mbr_parts) /\ pc' = "off" /\ gpt' = gpt
    BY <1>8 DEF WriteMbr, Exit
  <2>2. OneElement(Active(mbr'))
    BY <1>8, <2>1, WrittenHasOneActive DEF WriteMbr
  <2>3. IsMbr(mbr')
    BY <2>1, WrittenIsMbr
  <2>4. QED
    BY <2>1, <2>2, <2>3
<1>9. CASE Repartition
  BY <1>9 DEF Repartition, Other
<1>10. CASE ReplaceMbr
  <2>1. IsMbr(mbr')
    BY <1>10, MbrsAreMbrs DEF ReplaceMbr
  <2>2. QED
    BY <1>10, <2>1 DEF ReplaceMbr, Other
<1>11. ASSUME NEW k \in Slots, ActivateMbrPartition(k) PROVE ActiveInv'
  <2>1. IsMbr(mbr') /\ OneElement(Active(mbr'))
    BY <1>11, ActivatedIsOne DEF ActivateMbrPartition
  <2>2. pc' = "off" /\ gpt' = gpt
    BY <1>11 DEF ActivateMbrPartition, Other
  <2>3. QED
    BY <2>1, <2>2
<1>12. CASE UNCHANGED vars
  BY <1>12 DEF vars
<1>13. QED
  BY <1>1, <1>2, <1>3, <1>4, <1>5, <1>6, <1>7, <1>8, <1>9, <1>10, <1>11, <1>12
  DEF Next, Program

(* "make sure there's exactly one active partition": every proposal gptsync   *)
(* asks about has one, and so has the MBR from the write on.                  *)
THEOREM GptSyncOneIsActive == Spec => []OneIsActive
<1>1. ActiveInv => OneIsActive
  BY DEF ActiveInv
<1>2. QED
  BY <1>1, InitActiveInv, NextActiveInv, PTL DEF Spec


------------------------------------------------------------------------------
(* Reading the MBR.                                                           *)

LEMMA RankIsBijection ==
    ASSUME NEW S \in SUBSET Nat, IsFiniteSet(S)
    PROVE  LET rank == [i \in S |-> Cardinality({j \in S : j <= i})] IN
           rank \in Surjection(S, 1 .. Cardinality(S)) /\ rank \in Injection(S, 1 .. Cardinality(S))
<1> DEFINE upto(i) == {j \in S : j <= i}
           rank == [i \in S |-> Cardinality(upto(i))]
           n == Cardinality(S)
<1>1. n \in Nat /\ IsFiniteSet(1 .. n) /\ Cardinality(1 .. n) = n
  BY FS_CardinalityType, FS_Interval
<1>2. ASSUME NEW i \in S
      PROVE  IsFiniteSet(upto(i)) /\ Cardinality(upto(i)) \in 1 .. n
  <2>1. upto(i) \in SUBSET S /\ i \in upto(i)
    OBVIOUS
  <2> HIDE DEF upto
  <2>2. IsFiniteSet(upto(i)) /\ Cardinality(upto(i)) <= n
    BY <2>1, FS_Subset
  <2>3. Cardinality(upto(i)) \in Nat /\ Cardinality(upto(i)) # 0
    BY <2>1, <2>2, FS_CardinalityType, FS_EmptySet
  <2>4. QED
    BY <1>1, <2>2, <2>3
<1>3. rank \in [S -> 1 .. n]
  BY <1>2
<1>4. ASSUME NEW i \in S, NEW k \in S, i < k PROVE Cardinality(upto(i)) # Cardinality(upto(k))
  <2>1. upto(i) \in SUBSET upto(k) /\ k \in upto(k) /\ k \notin upto(i)
    <3>1. i \in Nat /\ k \in Nat
      OBVIOUS
    <3>2. k <= k /\ ~(k <= i)
      BY <1>4, <3>1
    <3>3. \A j \in S : j <= i => j <= k
      BY <1>4, <3>1
    <3>4. QED
      BY <3>2, <3>3
  <2>2. IsFiniteSet(upto(k))
    BY <1>2
  <2> HIDE DEF upto
  <2>3. QED
    BY <2>1, <2>2, FS_Subset
<1>5. ASSUME NEW i \in S, NEW k \in S, rank[i] = rank[k] PROVE i = k
  <2>1. Cardinality(upto(i)) = Cardinality(upto(k))
    BY <1>5
  <2> HIDE DEF upto
  <2>2. ~(i < k) /\ ~(k < i)
    BY <1>4, <2>1
  <2>3. QED
    BY <2>2
<1> HIDE DEF upto, n
<1>6. rank \in Injection(S, 1 .. n)
  <2> HIDE DEF rank
  <2>1. QED
    BY <1>3, <1>5 DEF Injection, IsInjective
<1>7. rank \in Surjection(S, 1 .. n)
  <2> HIDE DEF rank
  <2>1. QED
    BY <1>1, <1>6, FS_Injection DEF n
<1>8. QED
  BY <1>6, <1>7 DEF upto, n

(* mbr_parts has exactly the used entries of the table.                       *)
LEMMA ReadsTheUsed ==
    ASSUME NEW table
    PROVE  /\ IsFiniteSet(UsedSlots(table)) /\ Cardinality(UsedSlots(table)) \in Nat
           /\ \A n \in DOMAIN ReadMbr(table) : \E i \in UsedSlots(table) :
                 ReadMbr(table)[n] = AsPart(table[i])
           /\ \A i \in UsedSlots(table) : \E n \in DOMAIN ReadMbr(table) :
                 ReadMbr(table)[n] = AsPart(table[i])
<1> DEFINE S == UsedSlots(table)
           rank == [i \in S |-> Cardinality({j \in S : j <= i})]
<1>1. S \in SUBSET Nat /\ S \in SUBSET (1 .. 4)
  BY DEF UsedSlots, Slots
<1>2. IsFiniteSet(S) /\ Cardinality(S) \in Nat
  <2> HIDE DEF S
  <2>1. IsFiniteSet(1 .. 4)
    <3>1. 1 \in Int /\ 4 \in Int
      OBVIOUS
    <3>2. QED
      BY ONLY <3>1, FS_Interval
  <2>2. IsFiniteSet(S)
    BY <1>1, <2>1, FS_Subset
  <2>3. QED
    BY <2>2, FS_CardinalityType
<1> HIDE DEF S
<1>3. rank \in Surjection(S, 1 .. Cardinality(S)) /\ rank \in Injection(S, 1 .. Cardinality(S))
  BY <1>1, <1>2, RankIsBijection
<1>4. ASSUME NEW i \in S PROVE rank[i] = Cardinality({j \in S : j <= i})
  OBVIOUS
<1>5. /\ rank \in [S -> 1 .. Cardinality(S)]
      /\ \A i, k \in S : rank[i] = rank[k] => i = k
      /\ \A n \in 1 .. Cardinality(S) : \E i \in S : rank[i] = n
  <2> HIDE DEF rank
  <2>1. QED
    BY <1>3 DEF Surjection, Injection, IsInjective
<1> HIDE DEF rank
<1>6. ASSUME NEW n \in 1 .. Cardinality(S) PROVE Nth(S, n) \in S /\ rank[Nth(S, n)] = n
  <2>1. \E i \in S : Cardinality({j \in S : j <= i}) = n
    BY <1>4, <1>5
  <2>2. Nth(S, n) \in S /\ Cardinality({j \in S : j <= Nth(S, n)}) = n
    BY <2>1 DEF Nth
  <2>3. QED
    BY <1>4, <2>2
<1>7. ASSUME NEW i \in S PROVE Nth(S, rank[i]) = i
  BY <1>5, <1>6
<1>8. /\ DOMAIN ReadMbr(table) = 1 .. Cardinality(S)
      /\ \A n \in 1 .. Cardinality(S) : ReadMbr(table)[n] = AsPart(table[Nth(S, n)])
  BY DEF ReadMbr, S
<1>9. \A n \in 1 .. Cardinality(S) : \E i \in S : ReadMbr(table)[n] = AsPart(table[i])
  BY <1>6, <1>8
<1>10. \A i \in S : \E n \in 1 .. Cardinality(S) : ReadMbr(table)[n] = AsPart(table[i])
  BY <1>5, <1>7, <1>8
<1>11. QED
  BY <1>2, <1>8, <1>9, <1>10 DEF S

(* Where the first slots are used and no others, they are what is read.       *)
LEMMA ReadsFirstSlots ==
    ASSUME NEW table, NEW n \in 0 .. 4, UsedSlots(table) = 1 .. n
    PROVE  ReadMbr(table) = [i \in 1 .. n |-> AsPart(table[i])]
<1>1. Cardinality(1 .. n) = n
  <2>1. Cardinality(1 .. n) = IF 1 > n THEN 0 ELSE n - 1 + 1
    BY FS_Interval
  <2>2. QED
    BY <2>1
<1>2. ASSUME NEW k \in 1 .. n PROVE Nth(1 .. n, k) = k
  <2>1. ASSUME NEW i \in 1 .. n PROVE Cardinality({j \in 1 .. n : j <= i}) = i
    <3>1. {j \in 1 .. n : j <= i} = 1 .. i
      OBVIOUS
    <3>2. Cardinality(1 .. i) = i
      BY FS_Interval
    <3>3. QED
      BY <3>1, <3>2
  <2>2. \E i \in 1 .. n : Cardinality({j \in 1 .. n : j <= i}) = k
    BY <2>1
  <2>3. Nth(1 .. n, k) \in 1 .. n /\ Cardinality({j \in 1 .. n : j <= Nth(1 .. n, k)}) = k
    BY <2>2 DEF Nth
  <2>4. QED
    BY <2>1, <2>3
<1>3. QED
  BY <1>1, <1>2 DEF ReadMbr


LEMMA AsPartFields ==
    ASSUME NEW entry
    PROVE  /\ AsPart(entry).start = entry.start
           /\ AsPart(entry).end = entry.start + entry.size - 1
           /\ AsPart(entry).type = entry.type /\ AsPart(entry).active = entry.active
BY DEF AsPart, Part

Partition == [start : Nat, end : Nat, type : Types, active : BOOLEAN]

(* A table that has been read and checked: from the GPT, and from the MBR.    *)
SoundGpt(parts) ==
    /\ parts \in Seq(Partition) /\ Len(parts) >= 1
    /\ \A i \in DOMAIN parts : /\ parts[i].start > 1 /\ parts[i].start <= parts[i].end
                               /\ parts[i].type # "extended"
    /\ Disjoint(parts)
    /\ parts[1].type = "esp" => Len(parts) >= 2

SoundMbr(parts) ==
    /\ parts \in Seq(Partition)
    /\ \A i \in DOMAIN parts : parts[i].start > 0 /\ parts[i].start <= parts[i].end
    /\ CheckMbr(parts)

LEMMA ReadIsTyped ==
    ASSUME NEW table \in [Slots -> MbrEntry]
    PROVE  /\ ReadMbr(table) \in Seq(Partition)
           /\ \A n \in DOMAIN ReadMbr(table) : /\ ReadMbr(table)[n].start > 0
                                               /\ ReadMbr(table)[n].start <= ReadMbr(table)[n].end
<1>1. ASSUME NEW i \in UsedSlots(table)
      PROVE  LET p == AsPart(table[i]) IN p \in Partition /\ p.start > 0 /\ p.start <= p.end
  <2>1. table[i] \in MbrEntry /\ table[i].start # 0 /\ table[i].size # 0
    BY DEF UsedSlots, Used
  <2>2. /\ table[i].start \in Nat /\ table[i].size \in Nat /\ table[i].type \in Types
        /\ table[i].active \in BOOLEAN
    BY <2>1 DEF MbrEntry
  <2>3. table[i].start + table[i].size - 1 \in Nat
        /\ table[i].start <= table[i].start + table[i].size - 1 /\ table[i].start > 0
    BY <2>1, <2>2
  <2>4. QED
    BY <2>2, <2>3, AsPartFields DEF AsPart, Part, Partition
<1>2. \A n \in DOMAIN ReadMbr(table) : \E i \in UsedSlots(table) :
                 ReadMbr(table)[n] = AsPart(table[i])
  BY ReadsTheUsed
<1>3. ASSUME NEW n \in DOMAIN ReadMbr(table)
      PROVE  /\ ReadMbr(table)[n] \in Partition /\ ReadMbr(table)[n].start > 0
             /\ ReadMbr(table)[n].start <= ReadMbr(table)[n].end
  BY <1>1, <1>2
<1>4. /\ DOMAIN ReadMbr(table) = 1 .. Cardinality(UsedSlots(table))
      /\ ReadMbr(table) = [n \in 1 .. Cardinality(UsedSlots(table)) |-> ReadMbr(table)[n]]
      /\ Cardinality(UsedSlots(table)) \in Nat
  BY ReadsTheUsed DEF ReadMbr
<1>5. ReadMbr(table) \in Seq(Partition)
  <2> DEFINE r == ReadMbr(table)
             n == Cardinality(UsedSlots(table))
  <2>1. n \in Nat /\ r = [k \in 1 .. n |-> r[k]] /\ \A k \in 1 .. n : r[k] \in Partition
    BY <1>3, <1>4
  <2> HIDE DEF r, n
  <2>2. r \in [1 .. n -> Partition]
    BY <2>1
  <2>3. r \in Seq(Partition)
    BY ONLY <2>1, <2>2
  <2>4. QED
    BY <2>3 DEF r
<1>6. QED
  BY <1>3, <1>5

LEMMA TypedIsSound ==
    ASSUME NEW table \in Tables, CheckGpt(table), NEW unreadable
    PROVE  SoundGpt(Typed(table, unreadable))
<1> DEFINE parts == Typed(table, unreadable)
<1>1. table \in Seq(GptEntry)
  BY GptSyncAssumption
<1>2. /\ Len(parts) \in Nat /\ Len(parts) >= 1
      /\ parts[1].type = "esp" => Len(parts) >= 2
  BY AcceptedHasData
<1>3. DOMAIN table = 1 .. Len(table) /\ Len(table) \in Nat
  BY <1>1
<1>4. parts = [i \in 1 .. Len(table) |-> Part(table[i].start, table[i].end,
                                              MbrType(table, unreadable, i), FALSE)]
  BY <1>3 DEF Typed
<1>5. ASSUME NEW i \in 1 .. Len(table)
      PROVE  /\ table[i].start \in Nat /\ table[i].end \in Nat
             /\ table[i].start > 1 /\ table[i].start <= table[i].end
             /\ MbrType(table, unreadable, i) \in Types \ {"extended"}
  <2>1. table[i] \in GptEntry
    BY <1>1
  <2>2. /\ table[i].start \in Nat /\ table[i].end \in Nat /\ table[i].type \in Types
        /\ table[i].fs \in FsTypes
    BY <2>1 DEF GptEntry
  <2>3. table[i].start > 1 /\ table[i].type # "extended"
    BY <1>3, GptSyncAssumption
  <2>4. table[i].start <= table[i].end
    BY <1>3 DEF CheckGpt
  <2>5. Detected(table, unreadable, i) \in Types \ {"extended"}
    BY <2>2 DEF Detected, FsTypes, FatTypes, Types
  <2>6. MbrType(table, unreadable, i) \in Types \ {"extended"}
    BY <2>2, <2>3, <2>5 DEF MbrType, Types
  <2>7. QED
    BY <2>2, <2>3, <2>4, <2>6
<1>6. ASSUME NEW i \in 1 .. Len(table)
      PROVE  /\ parts[i] \in Partition /\ parts[i].start = table[i].start
             /\ parts[i].end = table[i].end /\ parts[i].type # "extended"
  <2>1. parts[i] = Part(table[i].start, table[i].end, MbrType(table, unreadable, i), FALSE)
    BY <1>4
  <2> HIDE DEF parts
  <2>2. QED
    BY <1>5, <2>1 DEF Part, Partition
<1> HIDE DEF parts
<1>7. parts \in Seq(Partition) /\ DOMAIN parts = 1 .. Len(table)
  <2>1. parts \in [1 .. Len(table) -> Partition]
    BY <1>4, <1>6
  <2>2. QED
    BY <1>3, <2>1
<1>8. Disjoint(parts)
  <2>1. Disjoint(table)
    BY DEF CheckGpt
  <2>2. ASSUME NEW i \in 1 .. Len(table), NEW k \in 1 .. Len(table), i # k
        PROVE  ~Overlap(parts[i], parts[k])
    <3>1. ~Overlap(table[i], table[k])
      BY <1>3, <2>1, <2>2 DEF Disjoint
    <3>2. QED
      BY <1>6, <3>1 DEF Overlap
  <2>3. QED
    BY <1>7, <2>2 DEF Disjoint
<1>9. \A i \in DOMAIN parts : /\ parts[i].start > 1 /\ parts[i].start <= parts[i].end
                               /\ parts[i].type # "extended"
  BY <1>5, <1>6, <1>7
<1>10. QED
  BY <1>2, <1>7, <1>8, <1>9 DEF SoundGpt, parts


------------------------------------------------------------------------------
(* The proposal: which partitions its entries are, activity aside.            *)

Skipped(parts) == IF parts[1].type = "esp" THEN 1 ELSE 0
Entries(parts) == 1 + Room(Skipped(parts), Len(parts))
SameButActive(a, b) == a.start = b.start /\ a.end = b.end /\ a.type = b.type

LEMMA PartitionFields ==
    ASSUME NEW parts \in Seq(Partition)
    PROVE  /\ DOMAIN parts \in SUBSET Nat
           /\ \A i \in DOMAIN parts :
                 /\ parts[i] \in Partition /\ parts[i].start \in Nat /\ parts[i].end \in Nat
                 /\ parts[i].type \in Types /\ parts[i].active \in BOOLEAN
<1>1. DOMAIN parts = 1 .. Len(parts) /\ \A i \in 1 .. Len(parts) : parts[i] \in Partition
  OBVIOUS
<1>2. QED
  BY <1>1 DEF Partition

LEMMA EntriesFit ==
    ASSUME NEW parts, SoundGpt(parts)
    PROVE  /\ Entries(parts) \in 2 .. 4 /\ Skipped(parts) \in {0, 1}
           /\ Len(parts) \in Nat /\ DOMAIN parts = 1 .. Len(parts)
           /\ \A i \in 2 .. Entries(parts) : i - 1 + Skipped(parts) \in DOMAIN parts
<1> DEFINE count == Len(parts)
           skipped == Skipped(parts)
<1>1. count \in Nat /\ count >= 1 /\ DOMAIN parts = 1 .. count
  BY DEF SoundGpt
<1>2. skipped = 0 \/ (skipped = 1 /\ count >= 2)
  BY DEF SoundGpt, Skipped
<1>3. Entries(parts) = 1 + Room(skipped, count)
  BY DEF Entries
<1> HIDE DEF count, skipped
<1>4. Entries(parts) \in 2 .. 4 /\ Entries(parts) + skipped <= count + 1
  BY <1>1, <1>2, <1>3 DEF Room
<1>5. \A i \in 2 .. Entries(parts) : i - 1 + skipped \in 1 .. count
  BY <1>1, <1>2, <1>4
<1>6. QED
  BY <1>1, <1>2, <1>4, <1>5 DEF count, skipped

LEMMA LowestStart ==
    ASSUME NEW parts, SoundGpt(parts)
    PROVE  LET low == Min({parts[k].start : k \in DOMAIN parts}) IN
           /\ low \in Nat /\ low > 1 /\ \A i \in DOMAIN parts : low <= parts[i].start
           /\ \E i \in DOMAIN parts : low = parts[i].start
<1> DEFINE S == {parts[k].start : k \in DOMAIN parts}
<1>1. \A i \in DOMAIN parts : parts[i].start \in Nat /\ parts[i].start > 1
  BY PartitionFields DEF SoundGpt
<1>2. S \in SUBSET Nat /\ S # {}
  BY <1>1, EntriesFit DEF SoundGpt
<1>3. Min(S) \in S /\ \A y \in S : Min(S) <= y
  BY <1>2, MinOfNaturals
<1>4. QED
  BY <1>1, <1>3

LEMMA MirrorFields ==
    ASSUME NEW parts, SoundGpt(parts), NEW old, SoundMbr(old), NEW i \in DOMAIN parts
    PROVE  LET m == Mirror(old, parts[i])
               matching == Matching(old, parts[i]) IN
           /\ m \in Partition /\ m.start = parts[i].start /\ m.end = parts[i].end
           /\ m.type # "extended"
           /\ parts[i].type # "none" => m.type = parts[i].type
           /\ matching = {} => ~m.active
           /\ matching # {} => \E k \in matching : m.active = old[k].active
<1> DEFINE p == parts[i]
           matching == Matching(old, p)
           k == Min(matching)
           kept == IF matching = {} THEN "none" ELSE old[k].type
           type == IF p.type # "none" THEN p.type
                   ELSE IF kept # "none" THEN kept ELSE "fallback"
           active == matching # {} /\ old[k].active
<1>1. /\ p \in Partition /\ p.start \in Nat /\ p.end \in Nat /\ p.type \in Types
      /\ p.type # "extended"
  BY PartitionFields DEF SoundGpt
<1>2. Mirror(old, p) = Part(p.start, p.end, type, active)
  BY Zenon DEF Mirror
<1>3. /\ DOMAIN old \in SUBSET Nat /\ \A n \in DOMAIN old : old[n] \in Partition
      /\ \A n \in DOMAIN old : old[n].type \in Types /\ old[n].type # "extended"
                               /\ old[n].active \in BOOLEAN
  BY PartitionFields DEF SoundMbr, CheckMbr
<1>4. matching \in SUBSET DOMAIN old
  BY DEF Matching
<1> HIDE DEF p, matching
<1>5. matching # {} => k \in matching /\ k \in DOMAIN old
  BY <1>3, <1>4, MinOfNaturals
<1> HIDE DEF k
<1>6. kept \in Types /\ kept # "extended"
  BY <1>3, <1>5 DEF Types
<1>7. active \in BOOLEAN /\ (matching = {} => ~active)
      /\ (matching # {} => k \in matching /\ active = old[k].active)
  BY <1>3, <1>5
<1> HIDE DEF kept, active
<1>8. type \in Types /\ type # "extended" /\ (p.type # "none" => type = p.type)
  BY <1>1, <1>6 DEF Types
<1> HIDE DEF type
<1>9. /\ Mirror(old, p) \in Partition /\ Mirror(old, p).start = p.start
      /\ Mirror(old, p).end = p.end /\ Mirror(old, p).type = type
      /\ Mirror(old, p).active = active
  BY <1>1, <1>2, <1>7, <1>8 DEF Part, Partition
<1>10. QED
  BY <1>7, <1>8, <1>9 DEF p, matching

LEMMA ProtectiveFields ==
    ASSUME NEW parts, SoundGpt(parts)
    PROVE  LET p == Protective(parts) IN
           /\ p \in Partition /\ p.start = 1 /\ p.end >= 1 /\ p.type = "protective" /\ ~p.active
           /\ parts[1].type = "esp" => p.end = parts[1].end
           /\ parts[1].type # "esp" => \A i \in DOMAIN parts : p.end < parts[i].start
           /\ \E i \in DOMAIN parts : p.end <= parts[i].end
<1> DEFINE low == Min({parts[k].start : k \in DOMAIN parts})
           end == IF parts[1].type = "esp" THEN parts[1].end ELSE low - 1
<1>1. /\ low \in Nat /\ low > 1 /\ \A i \in DOMAIN parts : low <= parts[i].start
      /\ \E i \in DOMAIN parts : low = parts[i].start
  BY LowestStart
<1> HIDE DEF low
<1>2. /\ 1 \in DOMAIN parts /\ parts[1].end \in Nat /\ parts[1].end >= 1
      /\ \A i \in DOMAIN parts : /\ parts[i].start \in Nat /\ parts[i].end \in Nat
                                 /\ parts[i].start <= parts[i].end
  <2>1. 1 \in DOMAIN parts
    BY EntriesFit DEF SoundGpt
  <2>3. \A i \in DOMAIN parts : /\ parts[i].start \in Nat /\ parts[i].end \in Nat
                                 /\ parts[i].start <= parts[i].end /\ parts[i].start > 1
    BY PartitionFields DEF SoundGpt
  <2>4. QED
    BY <2>1, <2>3
<1>3. Protective(parts) = Part(1, end, "protective", FALSE)
  BY DEF Protective, low
<1>4. end \in Nat /\ end >= 1
  BY <1>1, <1>2
<1>5. \E i \in DOMAIN parts : end <= parts[i].end
  <2>1. CASE parts[1].type = "esp"
    BY <1>2, <2>1
  <2>2. CASE parts[1].type # "esp"
    BY <1>1, <1>2, <2>2
  <2>3. QED
    BY <2>1, <2>2
<1>6. parts[1].type # "esp" => \A i \in DOMAIN parts : end < parts[i].start
  BY <1>1, <1>2
<1>7. parts[1].type = "esp" => end = parts[1].end
  OBVIOUS
<1> HIDE DEF end
<1>8. LET p == Protective(parts) IN
      p \in Partition /\ p.start = 1 /\ p.end = end /\ p.type = "protective" /\ ~p.active
  BY <1>3, <1>4 DEF Part, Partition, Types
<1>9. QED
  BY <1>4, <1>5, <1>6, <1>7, <1>8


LEMMA SetActive ==
    ASSUME NEW p \in Partition, NEW on \in BOOLEAN
    PROVE  /\ [p EXCEPT !.active = on] \in Partition
           /\ SameButActive([p EXCEPT !.active = on], p)
BY DEF Partition, SameButActive

(* The rounds of the fix change nothing but the active flags, and not these   *)
(* where exactly one is set.                                                  *)
LEMMA FixKeepsEntries ==
    ASSUME NEW n \in Nat, n >= 1, NEW parts \in [1 .. n -> Partition], NEW iter
    PROVE  LET new == FixActive(parts, iter) IN
           /\ new \in [1 .. n -> Partition]
           /\ \A i \in 1 .. n : SameButActive(new[i], parts[i])
           /\ OneElement(Active(parts)) => new = parts
<1>1. ASSUME NEW k
      PROVE  LET new == OnlyActive(parts, k) IN
             /\ new \in [1 .. n -> Partition]
             /\ \A i \in 1 .. n : SameButActive(new[i], parts[i])
  <2> DEFINE new == OnlyActive(parts, k)
  <2>1. new = [i \in 1 .. n |-> [parts[i] EXCEPT !.active = (i = k)]]
    BY DEF OnlyActive
  <2>2. ASSUME NEW i \in 1 .. n
        PROVE  /\ [parts[i] EXCEPT !.active = (i = k)] \in Partition
               /\ SameButActive([parts[i] EXCEPT !.active = (i = k)], parts[i])
    <3>1. PICK on \in BOOLEAN : on = (i = k)
      OBVIOUS
    <3>2. parts[i] \in Partition
      OBVIOUS
    <3>3. /\ [parts[i] EXCEPT !.active = on] \in Partition
          /\ SameButActive([parts[i] EXCEPT !.active = on], parts[i])
      BY <3>2, SetActive
    <3>4. QED
      BY <3>1, <3>3, Zenon
  <2> HIDE DEF new
  <2>3. \A i \in 1 .. n : new[i] = [parts[i] EXCEPT !.active = (i = k)]
    BY <2>1
  <2>4. \A i \in 1 .. n : new[i] \in Partition /\ SameButActive(new[i], parts[i])
    BY <2>2, <2>3, Zenon
  <2>5. new \in [1 .. n -> Partition]
    <3>1. new = [i \in 1 .. n |-> new[i]]
      BY <2>1
    <3>2. QED
      BY ONLY <2>4, <3>1
  <2>6. QED
    BY <2>4, <2>5 DEF new
<1>2. LET new == [parts EXCEPT ![1] = [@ EXCEPT !.active = FALSE]] IN
      /\ new \in [1 .. n -> Partition]
      /\ \A i \in 1 .. n : SameButActive(new[i], parts[i])
  <2> DEFINE p == [parts[1] EXCEPT !.active = FALSE]
  <2>1. parts[1] \in Partition /\ FALSE \in BOOLEAN
    OBVIOUS
  <2>2. p \in Partition /\ SameButActive(p, parts[1])
    BY <2>1, SetActive
  <2> HIDE DEF p
  <2>3. /\ [parts EXCEPT ![1] = p] \in [1 .. n -> Partition]
        /\ \A i \in 1 .. n : [parts EXCEPT ![1] = p][i] = IF i = 1 THEN p ELSE parts[i]
    BY <2>2
  <2>4. \A i \in 1 .. n : SameButActive([parts EXCEPT ![1] = p][i], parts[i])
    BY <2>2, <2>3 DEF SameButActive
  <2>5. QED
    BY <2>3, <2>4 DEF p
<1>3. \A i \in 1 .. n : SameButActive(parts[i], parts[i])
  BY DEF SameButActive
<1>4. CASE OneElement(Active(parts)) \/ (Active(parts) = {} /\ Bootable(parts, iter) = {})
  <2>1. FixActive(parts, iter) = parts
    BY <1>4, Zenon DEF FixActive
  <2>2. QED
    BY <1>3, <2>1
<1>5. CASE ~OneElement(Active(parts)) /\ Active(parts) = {} /\ Bootable(parts, iter) # {}
  <2>1. FixActive(parts, iter) = OnlyActive(parts, Min(Bootable(parts, iter)))
    BY <1>5, Zenon DEF FixActive
  <2>2. QED
    BY <1>1, <1>5, <2>1
<1>6. CASE ~OneElement(Active(parts)) /\ Active(parts) # {} /\ iter # 0
  <2>1. FixActive(parts, iter) = OnlyActive(parts, Min(Active(parts)))
    BY <1>6, Zenon DEF FixActive
  <2>2. QED
    BY <1>1, <1>6, <2>1
<1>7. CASE ~OneElement(Active(parts)) /\ Active(parts) # {} /\ iter = 0
  <2>1. FixActive(parts, iter) = [parts EXCEPT ![1] = [@ EXCEPT !.active = FALSE]]
    BY <1>7, Zenon DEF FixActive
  <2>2. QED
    BY <1>2, <1>7, <2>1
<1>8. QED
  BY <1>4, <1>5, <1>6, <1>7

LEMMA Composed ==
    ASSUME NEW parts, SoundGpt(parts), NEW old, SoundMbr(old)
    PROVE  /\ Compose(old, parts) \in [1 .. Entries(parts) -> Partition]
           /\ Compose(old, parts)[1] = Protective(parts)
           /\ \A i \in 2 .. Entries(parts) :
                 Compose(old, parts)[i] = Mirror(old, parts[i - 1 + Skipped(parts)])
<1> DEFINE n == Entries(parts)
           s == Skipped(parts)
           new == Compose(old, parts)
<1>1. /\ n \in 2 .. 4 /\ s \in {0, 1}
      /\ \A i \in 2 .. n : i - 1 + s \in DOMAIN parts
  BY EntriesFit
<1>2. new = [i \in 1 .. n |->
               IF i = 1 THEN Protective(parts) ELSE Mirror(old, parts[i - 1 + s])]
  BY DEF Compose, Entries, Skipped
<1> HIDE DEF n, s, new
<1>3. new[1] = Protective(parts) /\ \A i \in 2 .. n : new[i] = Mirror(old, parts[i - 1 + s])
  BY <1>1, <1>2
<1>4. Protective(parts) \in Partition
  BY ProtectiveFields
<1>5. \A i \in 2 .. n : Mirror(old, parts[i - 1 + s]) \in Partition
  BY <1>1, MirrorFields
<1>6. \A i \in 1 .. n : new[i] \in Partition
  <2>1. \A i \in 1 .. n : i = 1 \/ i \in 2 .. n
    BY <1>1
  <2>2. QED
    BY <1>3, <1>4, <1>5, <2>1
<1>7. new \in [1 .. n -> Partition]
  BY <1>2, <1>6
<1>8. QED
  BY <1>3, <1>7 DEF n, s, new

LEMMA Proposed ==
    ASSUME NEW parts, SoundGpt(parts), NEW old, SoundMbr(old)
    PROVE  /\ Propose(old, parts) \in [1 .. Entries(parts) -> Partition]
           /\ \A i \in 1 .. Entries(parts) :
                 SameButActive(Propose(old, parts)[i], Compose(old, parts)[i])
           /\ OneElement(Active(Compose(old, parts))) => Propose(old, parts) = Compose(old, parts)
<1> DEFINE n == Entries(parts)
           c == Compose(old, parts)
           first == FixActive(c, 0)
           second == FixActive(first, 1)
           third == FixActive(second, 2)
<1>1. n \in Nat /\ n >= 1
  BY EntriesFit
<1>2. c \in [1 .. n -> Partition] /\ Propose(old, parts) = third
  BY Composed DEF Propose
<1> HIDE DEF n, c
<1>3. /\ first \in [1 .. n -> Partition] /\ \A i \in 1 .. n : SameButActive(first[i], c[i])
      /\ OneElement(Active(c)) => first = c
  BY <1>1, <1>2, FixKeepsEntries
<1> HIDE DEF first
<1>4. /\ second \in [1 .. n -> Partition] /\ \A i \in 1 .. n : SameButActive(second[i], first[i])
      /\ OneElement(Active(first)) => second = first
  BY <1>1, <1>3, FixKeepsEntries
<1> HIDE DEF second
<1>5. /\ third \in [1 .. n -> Partition] /\ \A i \in 1 .. n : SameButActive(third[i], second[i])
      /\ OneElement(Active(second)) => third = second
  BY <1>1, <1>4, FixKeepsEntries
<1> HIDE DEF third
<1>6. \A i \in 1 .. n : SameButActive(third[i], c[i])
  BY <1>3, <1>4, <1>5 DEF SameButActive
<1>7. QED
  BY <1>2, <1>3, <1>4, <1>5, <1>6 DEF n, c


------------------------------------------------------------------------------
(* The MBR on the disk after the write, whatever is activated in it later.    *)

OnDisk(table, old, parts) ==
    /\ table \in [Slots -> MbrEntry]
    /\ LET written == Written(Propose(old, parts)) IN
       \A i \in Slots : /\ table[i].start = written[i].start /\ table[i].size = written[i].size
                        /\ table[i].type = written[i].type
    /\ Active(table) \subseteq UsedSlots(table)

LEMMA WrittenFields ==
    ASSUME NEW parts, NEW i \in Slots
    PROVE  /\ i \in DOMAIN parts =>
                 /\ Written(parts)[i].type = parts[i].type
                 /\ Written(parts)[i].start = Fit(parts[i].start)
                 /\ Written(parts)[i].size = Fit(parts[i].end + 1 - parts[i].start)
                 /\ Written(parts)[i].active =
                       (parts[i].active /\ \A k \in Active(parts) : i <= k)
           /\ i \notin DOMAIN parts => Written(parts)[i] = Unused
<1>1. Written(parts)[i] =
        IF i \notin DOMAIN parts THEN Unused
        ELSE [active |-> parts[i].active /\ \A k \in Active(parts) : i <= k,
              type   |-> parts[i].type,
              start  |-> Fit(parts[i].start),
              size   |-> Fit(parts[i].end + 1 - parts[i].start)]
  BY DEF Written
<1>2. QED
  BY <1>1

LEMMA WrittenIsTyped ==
    ASSUME NEW n \in Nat, NEW parts \in [1 .. n -> Partition],
           \A i \in 1 .. n : parts[i].start <= parts[i].end
    PROVE  Written(parts) \in [Slots -> MbrEntry]
<1>1. ASSUME NEW i \in Slots, i \in 1 .. n
      PROVE  [active |-> parts[i].active /\ \A k \in Active(parts) : i <= k,
              type   |-> parts[i].type,
              start  |-> Fit(parts[i].start),
              size   |-> Fit(parts[i].end + 1 - parts[i].start)] \in MbrEntry
  <2> DEFINE on == parts[i].active /\ \A k \in Active(parts) : i <= k
  <2>1. on \in BOOLEAN
    OBVIOUS
  <2> HIDE DEF on
  <2>2. parts[i] \in Partition
    BY <1>1
  <2>3. parts[i].start \in Nat /\ parts[i].end \in Nat /\ parts[i].type \in Types
    BY <2>2 DEF Partition
  <2>4. Fit(parts[i].start) \in Nat /\ Fit(parts[i].end + 1 - parts[i].start) \in Nat
    BY <1>1, <2>3, GptSyncAssumption DEF Fit
  <2>5. [active |-> on, type |-> parts[i].type, start |-> Fit(parts[i].start),
         size |-> Fit(parts[i].end + 1 - parts[i].start)] \in MbrEntry
    BY <2>1, <2>3, <2>4 DEF MbrEntry
  <2>6. QED
    BY <2>5 DEF on
<1>2. Unused \in MbrEntry
  BY DEF Unused, MbrEntry, Types
<1>3. DOMAIN parts = 1 .. n
  OBVIOUS
<1>4. \A i \in Slots : Written(parts)[i] \in MbrEntry
  BY <1>1, <1>2, <1>3 DEF Written
<1>5. QED
  BY <1>4 DEF Written

(* Within the limit the entries say where the partitions are.                 *)
LEMMA ReadsWhatWasWritten ==
    ASSUME NEW parts, SoundGpt(parts), NEW old, SoundMbr(old), InLimit(parts),
           NEW table, OnDisk(table, old, parts)
    PROVE  /\ UsedSlots(table) = 1 .. Entries(parts)
           /\ ReadMbr(table) = [i \in 1 .. Entries(parts) |-> AsPart(table[i])]
           /\ \A i \in 1 .. Entries(parts) :
                 SameButActive(ReadMbr(table)[i], Compose(old, parts)[i])
<1> DEFINE n == Entries(parts)
           c == Compose(old, parts)
           p == Propose(old, parts)
<1>1. n \in 2 .. 4 /\ 1 .. n \subseteq Slots /\ Slots \subseteq Nat
  BY EntriesFit DEF Slots
<1>2. /\ p \in [1 .. n -> Partition] /\ DOMAIN p = 1 .. n
      /\ \A i \in 1 .. n : SameButActive(p[i], c[i])
  BY Proposed
<1>3. ASSUME NEW i \in 1 .. n
      PROVE  /\ c[i].start \in Nat /\ c[i].end \in Nat /\ c[i].start >= 1
             /\ c[i].start <= c[i].end /\ c[i].end <= MaxLba
  <2>1. ASSUME NEW k \in DOMAIN parts
        PROVE  /\ parts[k].start \in Nat /\ parts[k].end \in Nat /\ parts[k].start > 1
               /\ parts[k].start <= parts[k].end /\ parts[k].end <= MaxLba
    BY PartitionFields DEF SoundGpt, InLimit
  <2>2. CASE i = 1
    <3> DEFINE e == Protective(parts)
    <3>1. c[i] = e
      BY <2>2, Composed
    <3>2. e \in Partition /\ e.start = 1 /\ e.end >= 1 /\ \E k \in DOMAIN parts : e.end <= parts[k].end
      BY ProtectiveFields
    <3> HIDE DEF e, c
    <3>3. e.end \in Nat
      BY <3>2 DEF Partition
    <3>4. e.end <= MaxLba
      BY <2>1, <3>2, <3>3, GptSyncAssumption
    <3>5. QED
      BY <3>1, <3>2, <3>3, <3>4
  <2>3. CASE i # 1
    <3> DEFINE k == i - 1 + Skipped(parts)
    <3>1. i \in 2 .. n
      BY <1>1, <2>3
    <3>2. c[i] = Mirror(old, parts[k]) /\ k \in DOMAIN parts
      BY <3>1, Composed, EntriesFit
    <3> HIDE DEF k, c
    <3>3. c[i].start = parts[k].start /\ c[i].end = parts[k].end
      BY <3>2, MirrorFields
    <3>4. QED
      BY <2>1, <3>2, <3>3
  <2>4. QED
    BY <2>2, <2>3
<1> HIDE DEF n, c, p
<1>4. /\ table \in [Slots -> MbrEntry]
      /\ \A i \in Slots : /\ table[i].start = Written(p)[i].start
                          /\ table[i].size = Written(p)[i].size
                          /\ table[i].type = Written(p)[i].type
  BY DEF OnDisk, p
<1>5. ASSUME NEW i \in 1 .. n
      PROVE  /\ table[i].start = c[i].start /\ table[i].type = c[i].type
             /\ table[i].size = c[i].end + 1 - c[i].start
  <2>1. p[i].start = c[i].start /\ p[i].end = c[i].end /\ p[i].type = c[i].type
    BY <1>2 DEF SameButActive
  <2>2. /\ table[i].start = Fit(c[i].start) /\ table[i].type = c[i].type
        /\ table[i].size = Fit(c[i].end + 1 - c[i].start)
    BY <1>1, <1>2, <1>4, <2>1, WrittenFields
  <2>3. MaxLba \in Nat
    BY GptSyncAssumption
  <2>4. c[i].start <= MaxLba /\ c[i].end + 1 - c[i].start <= MaxLba
    BY <1>3, <2>3
  <2>5. Fit(c[i].start) = c[i].start
    BY <1>3, <2>3, <2>4 DEF Fit
  <2>6. Fit(c[i].end + 1 - c[i].start) = c[i].end + 1 - c[i].start
    BY <1>3, <2>3, <2>4 DEF Fit
  <2>7. QED
    BY <2>2, <2>5, <2>6
<1>6. UsedSlots(table) = 1 .. n
  <2>1. ASSUME NEW i \in 1 .. n PROVE Used(table[i])
    <3>1. c[i].start # 0 /\ c[i].end + 1 - c[i].start # 0
      BY <1>3
    <3>2. QED
      BY <1>5, <3>1 DEF Used
  <2>2. ASSUME NEW i \in Slots, i \notin 1 .. n PROVE ~Used(table[i])
    <3>1. table[i].start = Unused.start
      BY <1>2, <1>4, <2>2, WrittenFields
    <3>2. QED
      BY <3>1 DEF Used, Unused
  <2>3. QED
    BY <1>1, <2>1, <2>2 DEF UsedSlots
<1>7. ReadMbr(table) = [i \in 1 .. n |-> AsPart(table[i])]
  <2>1. n \in 0 .. 4
    BY <1>1
  <2>2. QED
    BY <1>6, <2>1, ReadsFirstSlots
<1>8. ASSUME NEW i \in 1 .. n PROVE SameButActive(ReadMbr(table)[i], c[i])
  <2>1. ReadMbr(table)[i] = AsPart(table[i])
    BY <1>7
  <2>2. /\ AsPart(table[i]).start = c[i].start /\ AsPart(table[i]).type = c[i].type
        /\ AsPart(table[i]).end = c[i].start + (c[i].end + 1 - c[i].start) - 1
    BY <1>5, AsPartFields
  <2>3. c[i].start + (c[i].end + 1 - c[i].start) - 1 = c[i].end
    BY <1>3
  <2>4. QED
    BY <2>1, <2>2, <2>3 DEF SameButActive
<1>9. QED
  BY <1>6, <1>7, <1>8 DEF n, c


(* The entries of the table composed for parts, seen from parts.              *)
LEMMA ComposedFields ==
    ASSUME NEW parts, SoundGpt(parts), NEW old, SoundMbr(old), NEW i \in 2 .. Entries(parts)
    PROVE  LET c == Compose(old, parts)[i]
               p == parts[i - 1 + Skipped(parts)] IN
           /\ i - 1 + Skipped(parts) \in DOMAIN parts
           /\ c.start = p.start /\ c.end = p.end /\ c.type # "extended"
           /\ p.type # "none" => c.type = p.type
           /\ Matching(old, p) = {} => ~c.active
           /\ Matching(old, p) # {} => \E k \in Matching(old, p) : c.active = old[k].active
<1> DEFINE k == i - 1 + Skipped(parts)
           c == Compose(old, parts)[i]
<1>1. k \in DOMAIN parts
  BY EntriesFit
<1>2. c = Mirror(old, parts[k])
  BY Composed
<1> HIDE DEF k, c
<1>3. QED
  BY <1>1, <1>2, MirrorFields DEF k, c

LEMMA AcceptsWhatItWrote ==
    ASSUME NEW parts, SoundGpt(parts), NEW old, SoundMbr(old), InLimit(parts),
           EspIsLowest(parts), NEW table, OnDisk(table, old, parts)
    PROVE  CheckMbr(ReadMbr(table))
<1> DEFINE n == Entries(parts)
           s == Skipped(parts)
           c == Compose(old, parts)
           r == ReadMbr(table)
<1>1. n \in 2 .. 4 /\ s \in {0, 1} /\ Len(parts) \in Nat /\ DOMAIN parts = 1 .. Len(parts)
  BY EntriesFit
<1>2. DOMAIN r = 1 .. n /\ \A i \in 1 .. n : SameButActive(r[i], c[i])
  BY ReadsWhatWasWritten
<1>3. /\ c[1].start = 1 /\ c[1].type = "protective"
      /\ parts[1].type = "esp" => c[1].end = parts[1].end
      /\ parts[1].type # "esp" => \A i \in DOMAIN parts : c[1].end < parts[i].start
  BY Composed, ProtectiveFields
<1>4. ASSUME NEW i \in 2 .. n
      PROVE  /\ i - 1 + s \in DOMAIN parts /\ c[i].type # "extended"
             /\ c[i].start = parts[i - 1 + s].start /\ c[i].end = parts[i - 1 + s].end
  BY ComposedFields
<1>5. parts[1].type = "esp" <=> s = 1
  BY DEF Skipped
<1> HIDE DEF n, s, c, r
<1>6. ASSUME NEW i \in 2 .. n PROVE c[1].end < c[i].start
  <2>1. CASE parts[1].type = "esp"
    <3>1. i - 1 + s \in 2 .. Len(parts)
      BY <1>1, <1>4, <1>5, <2>1
    <3>2. parts[i - 1 + s].start > parts[1].end
      BY <2>1, <3>1 DEF EspIsLowest
    <3>3. parts[i - 1 + s].start \in Nat /\ parts[1].end \in Nat
      BY <1>1, <3>1, PartitionFields DEF SoundGpt
    <3>4. QED
      BY <1>3, <1>4, <2>1, <3>2, <3>3
  <2>2. CASE parts[1].type # "esp"
    BY <1>3, <1>4, <2>2
  <2>3. QED
    BY <2>1, <2>2
<1>7. ASSUME NEW i \in 1 .. n, NEW k \in 1 .. n, i < k PROVE ~Overlap(c[i], c[k])
  <2>1. CASE i = 1
    <3>1. k \in 2 .. n
      BY <1>1, <1>7
    <3>2. c[k].start > c[1].end
      <4>1. c[1].end < c[k].start
        BY <1>6, <3>1
      <4>2. QED
        BY ONLY <4>1
    <3>3. QED
      BY <2>1, <3>2 DEF Overlap
  <2>2. CASE i # 1
    <3>1. i \in 2 .. n /\ k \in 2 .. n /\ i - 1 + s # k - 1 + s
      BY <1>1, <1>7, <2>2
    <3>2. ~Overlap(parts[i - 1 + s], parts[k - 1 + s])
      BY <1>4, <3>1 DEF SoundGpt, Disjoint
    <3>3. QED
      BY <1>4, <3>1, <3>2 DEF Overlap
  <2>3. QED
    BY <2>1, <2>2
<1>8. ASSUME NEW i \in 1 .. n, NEW k \in 1 .. n, i # k PROVE ~Overlap(r[i], r[k])
  <2>1. i < k \/ k < i
    BY <1>1, <1>8
  <2>2. ~Overlap(c[i], c[k])
    <3>1. CASE i < k
      BY <1>7, <3>1
    <3>2. CASE k < i
      <4>1. ~Overlap(c[k], c[i])
        BY <1>7, <3>2
      <4>2. QED
        BY <4>1 DEF Overlap
    <3>3. QED
      BY <2>1, <3>1, <3>2
  <2>3. QED
    BY <1>2, <2>2 DEF Overlap, SameButActive
<1>9. ASSUME NEW i \in 1 .. n PROVE r[i].type # "extended"
  <2>1. r[i].type = c[i].type
    BY <1>2 DEF SameButActive
  <2>2. i = 1 \/ i \in 2 .. n
    BY <1>1
  <2>3. QED
    BY <1>3, <1>4, <2>1, <2>2
<1>10. CheckMbr(r)
  BY <1>2, <1>8, <1>9 DEF CheckMbr, Disjoint
<1>11. QED
  BY <1>10 DEF r

LEMMA NothingLeftToDo ==
    ASSUME NEW parts, SoundGpt(parts), NEW old, SoundMbr(old), InLimit(parts),
           parts[1].type = "esp", NEW table, OnDisk(table, old, parts),
           OneElement(Active(table))
    PROVE  Action(ReadMbr(table), parts) = "nop"
<1> DEFINE n == Entries(parts)
           c == Compose(old, parts)
           r == ReadMbr(table)
<1>1. n \in 2 .. 4 /\ Len(parts) \in Nat /\ Len(parts) >= 2 /\ Skipped(parts) = 1
  BY EntriesFit DEF SoundGpt, Skipped
<1>2. /\ r = [i \in 1 .. n |-> AsPart(table[i])] /\ DOMAIN r = 1 .. n
      /\ UsedSlots(table) = 1 .. n
      /\ \A i \in 1 .. n : SameButActive(r[i], c[i])
  BY ReadsWhatWasWritten
<1>3. c[1].start = 1 /\ c[1].type = "protective" /\ c[1].end = parts[1].end
  BY Composed, ProtectiveFields
<1>4. n = IF Len(parts) <= 4 THEN Len(parts) ELSE 4
  <2> DEFINE count == Len(parts)
  <2>1. count \in Nat /\ count >= 2 /\ n = 1 + Room(1, count)
    BY <1>1 DEF Entries
  <2> HIDE DEF n, count
  <2>2. n = IF count <= 4 THEN count ELSE 4
    BY <2>1 DEF Room
  <2>3. QED
    BY <2>2 DEF count
<1>5. ASSUME NEW i \in 2 .. n
      PROVE  /\ c[i].start = parts[i].start /\ c[i].end = parts[i].end
             /\ parts[i].type # "none" => c[i].type = parts[i].type
  <2>1. i - 1 + Skipped(parts) = i
    BY <1>1
  <2>2. QED
    BY <2>1, ComposedFields
<1> HIDE DEF n, c, r
<1>6. Len(r) = n
  BY <1>1, <1>2
<1>7. Active(r) = Active(table)
  <2>1. ASSUME NEW i \in 1 .. n PROVE r[i].active = table[i].active
    BY <1>2, AsPartFields
  <2>2. Active(table) \subseteq 1 .. n /\ DOMAIN table = Slots /\ 1 .. n \subseteq Slots
    BY <1>1, <1>2 DEF OnDisk, Slots
  <2>3. QED
    BY <1>2, <2>1, <2>2 DEF Active
<1>8. ~Untouched(r)
  BY <1>1, <1>6 DEF Untouched
<1>9. 1 \in 1 .. n
  BY <1>1
<1>10. AppleWay(r, parts)
  BY <1>2, <1>3, <1>9 DEF AppleWay, SameButActive
<1>11. \A i \in 2 .. n : Same(r[i], parts[i])
  <2>1. ASSUME NEW i \in 2 .. n PROVE Same(r[i], parts[i])
    <3>1. SameButActive(r[i], c[i])
      BY <1>1, <1>2
    <3>2. QED
      BY <1>5, <3>1 DEF Same, SameButActive
  <2>2. QED
    BY <2>1
<1>12. Synchronized(r, parts)
  BY <1>4, <1>6, <1>7, <1>11 DEF Synchronized
<1>13. QED
  BY <1>8, <1>10, <1>12 DEF Action, r


(* Two partitions that begin in one place overlap. *)
LEMMA StartsDiffer ==
    ASSUME NEW parts, Disjoint(parts), NEW i \in DOMAIN parts, NEW k \in DOMAIN parts,
           parts[i].start \in Nat, parts[i].end \in Nat, parts[k].end \in Nat,
           parts[i].start <= parts[i].end, parts[k].start <= parts[k].end,
           parts[i].start = parts[k].start
    PROVE  i = k
<1>1. Overlap(parts[i], parts[k])
  BY DEF Overlap
<1>2. QED
  BY <1>1 DEF Disjoint

(* "keep active flag" (gptsync.c:360). *)
LEMMA ActiveIsKept ==
    ASSUME NEW parts, SoundGpt(parts), InLimit(parts),
           NEW table \in [Slots -> MbrEntry], SoundMbr(ReadMbr(table)),
           NEW i \in Slots, NEW k \in 2 .. 4, Active(table) = {i}, Used(table[i]),
           Written(Propose(ReadMbr(table), parts))[k].start = table[i].start
    PROVE  Active(Written(Propose(ReadMbr(table), parts))) = {k}
<1> DEFINE n == Entries(parts)
           s == Skipped(parts)
           old == ReadMbr(table)
           c == Compose(old, parts)
           p == Propose(old, parts)
           w == Written(p)
<1>1. n \in 2 .. 4 /\ s \in {0, 1} /\ k \in Slots /\ 1 .. n \subseteq Slots
  BY EntriesFit DEF Slots
<1>2. /\ p \in [1 .. n -> Partition] /\ DOMAIN p = 1 .. n
      /\ c \in [1 .. n -> Partition] /\ DOMAIN c = 1 .. n
      /\ \A j \in 1 .. n : SameButActive(p[j], c[j])
      /\ OneElement(Active(c)) => p = c
  BY Proposed, Composed
<1>3. ASSUME NEW j \in 2 .. n
      PROVE  /\ j - 1 + s \in DOMAIN parts
             /\ c[j].start = parts[j - 1 + s].start /\ c[j].end = parts[j - 1 + s].end
             /\ Matching(old, parts[j - 1 + s]) = {} => ~c[j].active
             /\ Matching(old, parts[j - 1 + s]) # {} =>
                   \E m \in Matching(old, parts[j - 1 + s]) : c[j].active = old[m].active
  BY ComposedFields
<1>4. ~c[1].active
  BY Composed, ProtectiveFields
<1>5. /\ \A m \in DOMAIN old : \E u \in UsedSlots(table) : old[m] = AsPart(table[u])
      /\ \A u \in UsedSlots(table) : \E m \in DOMAIN old : old[m] = AsPart(table[u])
  BY ReadsTheUsed
<1>6. /\ old \in Seq(Partition) /\ Disjoint(old)
      /\ \A m \in DOMAIN old : old[m].start <= old[m].end
      /\ \A m \in DOMAIN old : old[m].start \in Nat /\ old[m].end \in Nat
  BY PartitionFields DEF SoundMbr, CheckMbr
<1>7. /\ Disjoint(parts)
      /\ \A m \in DOMAIN parts : /\ parts[m].start \in Nat /\ parts[m].end \in Nat
                                 /\ parts[m].start <= parts[m].end /\ parts[m].end <= MaxLba
  BY PartitionFields DEF SoundGpt, InLimit
<1>8. \A j \in Slots : /\ j \in 1 .. n => /\ w[j].start = Fit(p[j].start)
                                          /\ w[j].active = (p[j].active /\ \A m \in Active(p) : j <= m)
                       /\ j \notin 1 .. n => w[j] = Unused
  <2> HIDE DEF p
  <2>1. QED
    BY <1>2, WrittenFields
<1>9. w[k].start = table[i].start /\ table[i].start # 0 /\ DOMAIN w = Slots
  BY DEF Used, Written
<1> HIDE DEF n, s, old, c, p, w
<1>10. k \in 2 .. n
  <2>1. CASE k \notin 1 .. n
    <3>1. w[k].start = 0
      BY <1>1, <1>8, <2>1 DEF Unused
    <3>2. QED
      BY <1>9, <3>1
  <2>2. QED
    BY <1>1, <2>1
<1> DEFINE at == k - 1 + s
           q == parts[at]
<1>11. at \in DOMAIN parts /\ q.start = table[i].start
  <2>1. at \in DOMAIN parts /\ c[k].start = q.start
    BY <1>3, <1>10
  <2>2. w[k].start = Fit(q.start)
    <3>1. k \in 1 .. n
      BY <1>1, <1>10
    <3>2. p[k].start = c[k].start
      BY <1>2, <3>1 DEF SameButActive
    <3>3. QED
      BY <1>1, <1>8, <2>1, <3>1, <3>2
  <2>3. q.start \in Nat /\ q.start <= MaxLba
    <3>1. /\ q.start \in Nat /\ q.end \in Nat /\ q.start <= q.end /\ q.end <= MaxLba
      BY <1>7, <2>1
    <3>2. QED
      BY <3>1, GptSyncAssumption
  <2>4. Fit(q.start) = q.start
    BY <2>3, GptSyncAssumption DEF Fit
  <2>5. QED
    BY <1>9, <2>1, <2>2, <2>4
<1> HIDE DEF at
<1>12. PICK m \in DOMAIN old : old[m] = AsPart(table[i])
  <2>1. i \in UsedSlots(table)
    BY DEF UsedSlots
  <2>2. QED
    BY <1>5, <2>1
<1>13. old[m].start = q.start /\ old[m].active
  <2>1. table[i].active
    BY DEF Active
  <2>2. QED
    BY <1>11, <1>12, <2>1, AsPartFields
<1>14. Matching(old, q) = {m}
  <2>1. m \in Matching(old, q)
    BY <1>13 DEF Matching
  <2>2. ASSUME NEW other \in Matching(old, q) PROVE other = m
    <3>1. other \in DOMAIN old /\ old[other].start = old[m].start
      BY <1>13 DEF Matching
    <3>2. QED
      BY <1>6, <3>1, StartsDiffer
  <2>3. QED
    BY <2>1, <2>2
<1>15. c[k].active
  <2>1. Matching(old, q) # {}
    BY <1>14
  <2>2. \E j \in Matching(old, q) : c[k].active = old[j].active
    BY <1>3, <1>10, <2>1 DEF at
  <2>3. QED
    BY <1>13, <1>14, <2>2
<1>16. ASSUME NEW j \in 2 .. n, j # k, c[j].active PROVE FALSE
  <2> DEFINE r == parts[j - 1 + s]
  <2>1. Matching(old, r) # {}
    BY <1>3, <1>16
  <2>2. PICK l \in Matching(old, r) : c[j].active = old[l].active
    BY <1>3, <2>1
  <2>3. l \in DOMAIN old /\ old[l].start = r.start /\ old[l].active
    BY <1>16, <2>2 DEF Matching
  <2>4. PICK u \in UsedSlots(table) : old[l] = AsPart(table[u])
    BY <1>5, <2>3
  <2>5. u \in Active(table)
    <3>1. table[u].active /\ u \in Slots
      BY <2>3, <2>4, AsPartFields DEF UsedSlots
    <3>2. QED
      BY <3>1 DEF Active
  <2>6. r.start = table[i].start
    BY <2>3, <2>4, <2>5, AsPartFields
  <2>7. j - 1 + s = at
    <3>1. j - 1 + s \in DOMAIN parts /\ parts[j - 1 + s].start = parts[at].start
      BY <1>3, <1>11, <2>6
    <3>2. QED
      BY <1>7, <1>11, <3>1, StartsDiffer
  <2>8. QED
    BY <1>1, <1>10, <1>16, <2>7 DEF at
<1>17. Active(c) = {k}
  <2>1. k \in 1 .. n /\ \A j \in 1 .. n : j = 1 \/ j \in 2 .. n
    BY <1>1, <1>10
  <2>2. \A j \in 1 .. n : c[j].active => j = k
    BY <1>4, <1>16, <2>1
  <2>3. QED
    BY <1>2, <1>15, <2>1, <2>2 DEF Active
<1>18. p = c /\ Active(p) = {k}
  BY <1>2, <1>17 DEF OneElement
<1>19. ASSUME NEW j \in Slots PROVE w[j].active <=> j = k
  <2>1. CASE j \in 1 .. n
    <3>1. w[j].active = (p[j].active /\ \A e \in Active(p) : j <= e)
      BY <1>8, <2>1
    <3>2. p[j].active <=> j = k
      BY <1>2, <1>18, <2>1 DEF Active
    <3>3. k <= k
      OBVIOUS
    <3>4. QED
      BY <1>18, <3>1, <3>2, <3>3
  <2>2. CASE j \notin 1 .. n
    <3>1. ~w[j].active
      BY <1>8, <2>2 DEF Unused
    <3>2. j # k
      BY <1>1, <1>10, <2>2
    <3>3. QED
      BY <3>1, <3>2
  <2>3. QED
    BY <2>1, <2>2
<1>20. Active(w) = {k}
  BY <1>1, <1>9, <1>19 DEF Active
<1>21. QED
  BY <1>20 DEF w, p, old


------------------------------------------------------------------------------
(* The inductive invariant: what is in memory comes from the tables on the    *)
(* disk, and the MBR on the disk from the tables it was last made for.        *)

TablesInv ==
    /\ mbr \in [Slots -> MbrEntry]
    /\ pc \in {"check", "analyze", "ask", "write"} => mbr_parts = ReadMbr(mbr)
    /\ pc \in {"analyze", "ask", "write"} => SoundGpt(gpt_parts) /\ SoundMbr(mbr_parts)
    /\ pc \in {"ask", "write"} => new_mbr_parts = Propose(mbr_parts, gpt_parts)
    /\ mirrored # NULL => /\ SoundGpt(mirrored)
                          /\ \E old : SoundMbr(old) /\ OnDisk(mbr, old, mirrored)

LEMMA WriteMirrors ==
    ASSUME NEW parts, SoundGpt(parts), NEW old, SoundMbr(old)
    PROVE  /\ Written(Propose(old, parts)) \in [Slots -> MbrEntry]
           /\ OnDisk(Written(Propose(old, parts)), old, parts)
<1> DEFINE n == Entries(parts)
           p == Propose(old, parts)
           w == Written(p)
           c == Compose(old, parts)
<1>1. n \in 2 .. 4 /\ 1 .. n \subseteq Slots
  BY EntriesFit DEF Slots
<1>2. /\ p \in [1 .. n -> Partition] /\ DOMAIN p = 1 .. n
      /\ \A i \in 1 .. n : SameButActive(p[i], c[i])
  BY Proposed
<1>3. /\ c[1] \in Partition /\ c[1].start = 1 /\ c[1].end >= 1
  BY Composed, ProtectiveFields
<1>4. ASSUME NEW i \in 2 .. n
      PROVE  c[i].start \in Nat /\ c[i].end \in Nat /\ c[i].start > 1 /\ c[i].start <= c[i].end
  <2> DEFINE k == i - 1 + Skipped(parts)
  <2>1. k \in DOMAIN parts /\ c[i].start = parts[k].start /\ c[i].end = parts[k].end
    BY ComposedFields
  <2> HIDE DEF k, c
  <2>2. /\ parts[k].start \in Nat /\ parts[k].end \in Nat /\ parts[k].start > 1
        /\ parts[k].start <= parts[k].end
    BY <2>1, PartitionFields DEF SoundGpt
  <2>3. QED
    BY <2>1, <2>2
<1> HIDE DEF n, p, w, c
<1>5. ASSUME NEW i \in 1 .. n
      PROVE  p[i].start \in Nat /\ p[i].end \in Nat /\ p[i].start > 0 /\ p[i].start <= p[i].end
  <2>1. p[i].start = c[i].start /\ p[i].end = c[i].end
    BY <1>2 DEF SameButActive
  <2>2. c[1].end \in Nat
    BY <1>3 DEF Partition
  <2>3. i = 1 \/ i \in 2 .. n
    BY <1>1
  <2>4. QED
    BY <1>3, <1>4, <2>1, <2>2, <2>3
<1>6. w \in [Slots -> MbrEntry]
  <2>1. n \in Nat
    BY <1>1
  <2>2. QED
    BY <1>2, <1>5, <2>1, WrittenIsTyped DEF w
<1>7. Active(w) \subseteq UsedSlots(w)
  <2>1. ASSUME NEW i \in Slots, w[i].active PROVE Used(w[i])
    <3>1. i \in 1 .. n
      <4>1. CASE i \notin 1 .. n
        <5>1. w[i] = Unused
          BY <1>2, <4>1, WrittenFields DEF w
        <5>2. QED
          BY <2>1, <5>1 DEF Unused
      <4>2. QED
        BY <4>1
    <3>2. w[i].start = Fit(p[i].start) /\ w[i].size = Fit(p[i].end + 1 - p[i].start)
      BY <1>2, <3>1, WrittenFields DEF w
    <3>3. MaxLba \in Nat /\ MaxLba # 0 /\ p[i].end + 1 - p[i].start \in Nat \ {0}
          /\ p[i].start \in Nat \ {0}
      <4>1. MaxLba \in Nat /\ MaxLba # 0
        BY ONLY GptSyncAssumption
      <4>2. p[i].start \in Nat /\ p[i].end \in Nat /\ p[i].start > 0 /\ p[i].start <= p[i].end
        BY ONLY <1>5, <3>1
      <4>3. QED
        BY ONLY <4>1, <4>2
    <3>4. Fit(p[i].start) # 0 /\ Fit(p[i].end + 1 - p[i].start) # 0
      BY <3>3 DEF Fit
    <3>5. QED
      BY <3>2, <3>4 DEF Used
  <2>2. DOMAIN w = Slots
    BY <1>6
  <2>3. QED
    BY <2>1, <2>2 DEF Active, UsedSlots
<1>8. QED
  BY <1>6, <1>7 DEF OnDisk, w, p

(* rEFIt's activation leaves the entries where they are. *)
LEMMA ActivationKeeps ==
    ASSUME NEW table \in [Slots -> MbrEntry], NEW k \in Slots, Used(table[k]),
           NEW new, new = [i \in Slots |-> [table[i] EXCEPT !.active = (i = k)]]
    PROVE  /\ new \in [Slots -> MbrEntry]
           /\ \A old, parts : OnDisk(table, old, parts) => OnDisk(new, old, parts)
<1>1. ASSUME NEW i \in Slots
      PROVE  /\ new[i] \in MbrEntry /\ new[i].start = table[i].start
             /\ new[i].size = table[i].size /\ new[i].type = table[i].type
             /\ new[i].active = (i = k)
  <2>1. PICK on \in BOOLEAN : on = (i = k)
    OBVIOUS
  <2>2. table[i] \in MbrEntry
    OBVIOUS
  <2>3. /\ [table[i] EXCEPT !.active = on] \in MbrEntry
        /\ [table[i] EXCEPT !.active = on].start = table[i].start
        /\ [table[i] EXCEPT !.active = on].size = table[i].size
        /\ [table[i] EXCEPT !.active = on].type = table[i].type
        /\ [table[i] EXCEPT !.active = on].active = on
    BY <2>2 DEF MbrEntry
  <2>4. new[i] = [table[i] EXCEPT !.active = (i = k)]
    OBVIOUS
  <2>5. new[i] = [table[i] EXCEPT !.active = on]
    BY ONLY <2>1, <2>4, Zenon
  <2>6. QED
    BY ONLY <2>1, <2>3, <2>5, Zenon
<1>2. new \in [Slots -> MbrEntry]
  BY <1>1
<1>3. Active(new) \subseteq UsedSlots(new)
  <2>1. Used(new[k])
    BY <1>1 DEF Used
  <2>2. \A i \in Slots : new[i].active => i = k
    BY <1>1
  <2>3. QED
    BY <1>2, <2>1, <2>2 DEF Active, UsedSlots
<1>4. QED
  BY <1>1, <1>2, <1>3 DEF OnDisk

LEMMA InitTablesInv == Init => TablesInv
  BY GptSyncAssumption DEF Init, TablesInv

LEMMA NextTablesInv == ActiveInv /\ TablesInv /\ [Next]_vars => TablesInv'
<1> SUFFICES ASSUME ActiveInv, TablesInv, [Next]_vars PROVE TablesInv'
  OBVIOUS
<1>1. CASE ReadTables
  BY <1>1 DEF TablesInv, ReadTables
<1>2. CASE Refuse \/ NoNeedOrUnclear \/ DeclineOrFail
  BY <1>2 DEF TablesInv, Refuse, NoNeedOrUnclear, DeclineOrFail, Exit
<1>3. CASE DetectTypes
  <2>1. /\ gpt_parts \in Tables /\ CheckGpt(gpt_parts) /\ CheckMbr(mbr_parts)
        /\ mbr_parts = ReadMbr(mbr) /\ mbr \in [Slots -> MbrEntry]
    BY <1>3 DEF DetectTypes, ActiveInv, TablesInv
  <2>2. PICK unreadable : gpt_parts' = Typed(gpt_parts, unreadable)
    BY <1>3 DEF DetectTypes
  <2>3. SoundGpt(gpt_parts')
    BY <2>1, <2>2, TypedIsSound
  <2>4. SoundMbr(mbr_parts)
    BY <2>1, ReadIsTyped DEF SoundMbr
  <2>5. pc' = "analyze" /\ UNCHANGED <<gpt, mbr, mbr_parts, new_mbr_parts, mirrored>>
    BY <1>3 DEF DetectTypes
  <2>6. QED
    BY <2>1, <2>3, <2>4, <2>5 DEF TablesInv
<1>4. CASE Analyze
  BY <1>4 DEF TablesInv, Analyze
<1>5. CASE Confirm
  BY <1>5 DEF TablesInv, Confirm
<1>6. CASE WriteMbr
  <2>1. /\ SoundGpt(gpt_parts) /\ SoundMbr(mbr_parts)
        /\ new_mbr_parts = Propose(mbr_parts, gpt_parts)
    BY <1>6 DEF TablesInv, WriteMbr
  <2>2. mbr' = Written(new_mbr_parts) /\ mirrored' = gpt_parts /\ pc' = "off"
    BY <1>6 DEF WriteMbr, Exit
  <2>3. mbr' \in [Slots -> MbrEntry] /\ OnDisk(mbr', mbr_parts, mirrored')
    BY <2>1, <2>2, WriteMirrors
  <2>4. QED
    BY <2>1, <2>2, <2>3 DEF TablesInv
<1>7. CASE Repartition
  BY <1>7 DEF TablesInv, Repartition, Other
<1>8. CASE ReplaceMbr
  BY <1>8, GptSyncAssumption DEF TablesInv, ReplaceMbr, Other
<1>9. ASSUME NEW k \in Slots, ActivateMbrPartition(k) PROVE TablesInv'
  <2>1. /\ mbr \in [Slots -> MbrEntry] /\ Used(mbr[k])
        /\ mbr' = [i \in Slots |-> [mbr[i] EXCEPT !.active = (i = k)]]
        /\ pc' = "off" /\ mirrored' = mirrored
    BY <1>9 DEF TablesInv, ActivateMbrPartition, Other
  <2>2. /\ mbr' \in [Slots -> MbrEntry]
        /\ \A old, parts : OnDisk(mbr, old, parts) => OnDisk(mbr', old, parts)
    BY <2>1, ActivationKeeps
  <2>3. QED
    BY <2>1, <2>2 DEF TablesInv
<1>10. CASE UNCHANGED vars
  BY <1>10 DEF TablesInv, vars
<1>11. QED
  BY <1>1, <1>2, <1>3, <1>4, <1>5, <1>6, <1>7, <1>8, <1>9, <1>10 DEF Next, Program

(* In memory and on the disk the tables of gptsync belong together, whatever   *)
(* is activated, replaced and repartitioned between its runs.                  *)
THEOREM GptSyncTables == Spec => [](ActiveInv /\ TablesInv)
<1>1. Init => ActiveInv /\ TablesInv
  BY InitActiveInv, InitTablesInv
<1>2. ActiveInv /\ TablesInv /\ [Next]_vars => ActiveInv' /\ TablesInv'
  BY NextActiveInv, NextTablesInv
<1>3. QED
  BY <1>1, <1>2, PTL DEF Spec

(* "keep active flag" (gptsync.c:360): where the new MBR has the partition    *)
(* that was the only active one, it is the only active one again.             *)
THEOREM GptSyncKeepsTheActive == Spec => KeepsTheActive
<1> DEFINE Kept == \A i \in Slots, k \in 2 .. 4 :
                      Active(mbr) = {i} /\ Used(mbr[i]) /\ mbr'[k].start = mbr[i].start
                         => Active(mbr') = {k}
           Step == pc = "write" /\ mbr' # mbr /\ InLimit(gpt_parts) => Kept
<1>1. TablesInv /\ [Next]_vars => [Step]_vars
  <2> SUFFICES ASSUME TablesInv, [Next]_vars, pc = "write", mbr' # mbr, InLimit(gpt_parts)
               PROVE  Kept
    OBVIOUS
  <2>1. WriteMbr
    BY DEF Next, Program, vars, ReadTables, Refuse, DetectTypes, NoNeedOrUnclear, Analyze,
           Confirm, DeclineOrFail, Repartition, ReplaceMbr, ActivateMbrPartition
  <2>2. /\ mbr' = Written(Propose(ReadMbr(mbr), gpt_parts)) /\ mbr \in [Slots -> MbrEntry]
        /\ SoundGpt(gpt_parts) /\ SoundMbr(ReadMbr(mbr))
    BY <2>1 DEF WriteMbr, TablesInv
  <2>3. ASSUME NEW i \in Slots, NEW k \in 2 .. 4,
               Active(mbr) = {i}, Used(mbr[i]), mbr'[k].start = mbr[i].start
        PROVE  Active(mbr') = {k}
    BY <2>2, <2>3, ActiveIsKept
  <2>4. QED
    BY <2>3
<1>2. QED
  BY <1>1, GptSyncTables, PTL DEF KeepsTheActive, Spec

(* check_mbr (gptsync.c:45) accepts what gptsync wrote, on a disk within the  *)
(* limit whose ESP, if it is first, lies lowest.                              *)
THEOREM GptSyncAcceptsItsOwn == Spec => []AcceptsItsOwn
<1>1. TablesInv => AcceptsItsOwn
  BY AcceptsWhatItWrote DEF TablesInv, AcceptsItsOwn
<1>2. QED
  BY <1>1, GptSyncTables, PTL

(* The run after a write finds nothing to do, whatever was activated in       *)
(* between, if the types of the partitions are detected as before.            *)
THEOREM GptSyncSettles == Spec => []Settles
<1>1. ActiveInv /\ TablesInv => Settles
  <2> SUFFICES ASSUME ActiveInv, TablesInv, pc = "analyze", mirrored = gpt_parts,
                      InLimit(gpt_parts), gpt_parts[1].type = "esp"
               PROVE  Action(mbr_parts, gpt_parts) = "nop"
    BY DEF Settles
  <2>1. SoundGpt(gpt_parts) /\ mbr_parts = ReadMbr(mbr)
    BY DEF TablesInv
  <2>2. mirrored # NULL
    BY <2>1, GptSyncAssumption DEF SoundGpt, Partition
  <2>3. PICK old : SoundMbr(old) /\ OnDisk(mbr, old, gpt_parts)
    BY <2>2 DEF TablesInv
  <2>4. OneElement(Active(mbr))
    BY <2>2 DEF ActiveInv, OneIsActive
  <2>5. QED
    BY <2>1, <2>3, <2>4, NothingLeftToDo
<1>2. QED
  BY <1>1, GptSyncTables, PTL

================================================================================
