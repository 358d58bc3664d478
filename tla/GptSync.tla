-------------------------------- MODULE GptSync --------------------------------
(***************************************************************************)
(* gptsync: mirrors the GPT of a disk in its MBR, for systems that know only *)
(* the MBR. It reads both tables, refuses what it does not understand,       *)
(* composes a new MBR, asks, and writes it (gptsync/gptsync.c, lib.c).       *)
(* Between its runs others repartition the disk, write the MBR themselves,   *)
(* or set a partition active, as rEFIt does to boot from it.                 *)
(***************************************************************************)
EXTENDS Integers, Sequences, FiniteSetsExt

CONSTANTS
    Tables,  \* the GPTs others leave: sequences of [start, end, kind, type, fs]
    Mbrs,    \* the MBRs others leave: [active, type, start, size] for slots 1 to 4
    MaxLba,  \* 0xffffffff, the largest number an MBR entry holds
    NULL

(* The MBR types the program tells apart, "none" being 0 and "fallback" 0xc0. *)
Types == {"none", "fat12", "fat16", "fat32", "fat32lba", "ntfs", "linux", "hfs",
          "extended", "protective", "esp", "fallback"}
FatTypes == {"fat12", "fat16", "fat32lba"}  \* those that detect_mbrtype_fs finds
FsTypes  == FatTypes \union {"none", "ntfs", "linux", "hfs"}
Kinds    == {"system", "data", "basic", "fatal"}
Slots    == 1 .. 4

GptEntry == [start : Nat, end : Nat, kind : Kinds, type : Types, fs : FsTypes]
MbrEntry == [active : BOOLEAN, type : Types, start : Nat, size : Nat]

ASSUME GptSyncAssumption ==
    /\ Tables \subseteq Seq(GptEntry) /\ Tables # {}
    /\ \A t \in Tables : \A i \in DOMAIN t :
          /\ t[i].start > 1
          /\ t[i].type = "esp" => t[i].kind = "system"
          /\ t[i].type # "extended"       \* gpt_types (lib.c:93) has no such type
    /\ Mbrs \subseteq [Slots -> MbrEntry] /\ Mbrs # {}
    /\ MaxLba \in Nat \ {0}
    /\ NULL \notin Seq([start : Nat, end : Nat, type : Types, active : BOOLEAN])

VARIABLES
    gpt, mbr,       \* the tables on the disk
    pc,             \* "off", "check", "analyze", "ask" or "write"
    gpt_parts,      \* what gptsync has read: the GPT, with types when analyzed,
    mbr_parts,      \* and the used slots of the MBR in their order
    new_mbr_parts,  \* the MBR it proposes
    mirrored        \* ghost: the gpt_parts last written to the MBR, if the disk is
                    \* not repartitioned and the MBR not replaced since, or NULL

vars == <<gpt, mbr, pc, gpt_parts, mbr_parts, new_mbr_parts, mirrored>>

Part(start, end, type, active) ==
    [start |-> start, end |-> end, type |-> type, active |-> active]

OneElement(S) == \E x \in S : S = {x}
Active(parts) == {i \in DOMAIN parts : parts[i].active}

Overlap(a, b) == ~(a.start > b.end \/ b.start > a.end)
Disjoint(parts) == \A i, k \in DOMAIN parts : i # k => ~Overlap(parts[i], parts[k])

------------------------------------------------------------------------------
(* Reading the MBR, and the checks of both tables. *)

Used(entry) == entry.start # 0 /\ entry.size # 0

UsedSlots(table) == {i \in Slots : Used(table[i])}

Nth(S, n) == CHOOSE i \in S : Cardinality({j \in S : j <= i}) = n

AsPart(entry) == Part(entry.start, entry.start + entry.size - 1, entry.type, entry.active)

(* mbr_parts: the entries that are used, in the order of their slots. *)
ReadMbr(table) ==
    [n \in 1 .. Cardinality(UsedSlots(table)) |-> AsPart(table[Nth(UsedSlots(table), n)])]

CheckMbr(parts) == /\ Disjoint(parts)
                   /\ \A i \in DOMAIN parts : parts[i].type # "extended"

CheckGpt(table) ==
    /\ \A i \in DOMAIN table : table[i].start <= table[i].end /\ table[i].kind # "fatal"
    /\ Disjoint(table)
    /\ \E i \in DOMAIN table : table[i].kind \in {"data", "basic"}

------------------------------------------------------------------------------
(* The MBR types of the GPT's partitions. unreadable are those whose file      *)
(* system cannot be detected because a sector cannot be read.                  *)

Detected(table, unreadable, i) == IF i \in unreadable THEN "none" ELSE table[i].fs

(* The first EFI System Partition that is FAT, or not known to be another. *)
EspCandidates(table, unreadable) ==
    {i \in DOMAIN table : table[i].type = "esp"
                          /\ Detected(table, unreadable, i) \in FatTypes \union {"none"}}

MbrType(table, unreadable, i) ==
    LET detected == Detected(table, unreadable, i)
        before == {k \in EspCandidates(table, unreadable) : k < i}
    IN  IF table[i].kind = "basic"
        THEN IF detected # "none" THEN detected ELSE "fat32"
        ELSE IF table[i].type # "esp" THEN table[i].type
        ELSE IF before = {} /\ detected \in FatTypes THEN "esp"
        ELSE IF detected # "none" THEN detected
        ELSE IF before # {} THEN "linux" ELSE "esp"

Typed(table, unreadable) ==
    [i \in DOMAIN table |-> Part(table[i].start, table[i].end,
                                 MbrType(table, unreadable, i), FALSE)]

------------------------------------------------------------------------------
(* analyze: what is to be done, "nop", "rewrite" or "none" of both. *)

(* Seeded fault: a type that is not known for the GPT must match as well. *)
SameUntyped(old, part) == old.start = part.start /\ old.end = part.end /\ old.type = part.type

Same(old, part) == /\ old.start = part.start /\ old.end = part.end
                   /\ part.type # "none" => old.type = part.type

Untouched(old) == Len(old) = 0 \/ (Len(old) = 1 /\ old[1].type = "protective")

(* "The Apple Way": the protective entry covers the tables and the ESP. *)
AppleWay(old, parts) == /\ old[1].type = "protective" /\ parts[1].type = "esp"
                        /\ old[1].start = 1 /\ old[1].end = parts[1].end

Synchronized(old, parts) ==
    /\ Len(old) = IF Len(parts) <= 4 THEN Len(parts) ELSE 4
    /\ \A i \in 2 .. Len(old) : Same(old[i], parts[i])
    /\ OneElement(Active(old))

(* "The XOM Way": all partitions mirrored 1:1. *)
XomWay(old, parts) ==
    /\ old[1].type = "esp"
    /\ \A i \in DOMAIN old : i \in DOMAIN parts /\ Same(old[i], parts[i])

Action(old, parts) ==
    IF Untouched(old) THEN "rewrite"
    ELSE IF AppleWay(old, parts)
         THEN IF Synchronized(old, parts) THEN "nop" ELSE "rewrite"
    ELSE IF XomWay(old, parts) THEN "rewrite" ELSE "none"

------------------------------------------------------------------------------
(* analyze: the new table. *)

Matching(old, part) == {k \in DOMAIN old : old[k].start = part.start}

(* Seeded fault: the active flag is not taken over. *)
MirrorInactive(old, part) == Part(part.start, part.end,
                                  IF part.type # "none" THEN part.type ELSE "fallback", FALSE)

(* The type and the active flag are kept from the old table. *)
Mirror(old, part) ==
    LET k == Min(Matching(old, part))
        kept == IF Matching(old, part) = {} THEN "none" ELSE old[k].type
    IN  Part(part.start, part.end,
             IF part.type # "none" THEN part.type
             ELSE IF kept # "none" THEN kept ELSE "fallback",
             Matching(old, part) # {} /\ old[k].active)

(* Seeded fault: the entry covers the first sector of a partition. *)
ProtectiveTooLong(parts) ==
    Part(1, IF parts[1].type = "esp" THEN parts[1].end
            ELSE Min({parts[k].start : k \in DOMAIN parts}), "protective", FALSE)

Protective(parts) ==
    Part(1, IF parts[1].type = "esp" THEN parts[1].end
            ELSE Min({parts[k].start : k \in DOMAIN parts}) - 1, "protective", FALSE)

(* The other entries, until the table is full. *)
Room(skipped, count) == IF count - skipped < 3 THEN count - skipped ELSE 3

Compose(old, parts) ==
    LET skipped == IF parts[1].type = "esp" THEN 1 ELSE 0
    IN  [i \in 1 .. 1 + Room(skipped, Len(parts)) |->
            IF i = 1 THEN Protective(parts) ELSE Mirror(old, parts[i - 1 + skipped])]

(* Seeded fault: only partitions with a known file system are considered. *)
BootableKnown(parts, iter) ==
    {i \in DOMAIN parts : \/ parts[i].type \in {"ntfs", "fat32", "fat32lba"}
                          \/ iter >= 1 /\ parts[i].type = "linux"}

Bootable(parts, iter) ==
    {i \in DOMAIN parts : \/ parts[i].type \in {"ntfs", "fat32", "fat32lba"}
                          \/ iter >= 1 /\ parts[i].type = "linux"
                          \/ iter >= 2 /\ i > 1}

OnlyActive(parts, k) == [i \in DOMAIN parts |-> [parts[i] EXCEPT !.active = (i = k)]]

(* One of the three rounds that make sure exactly one partition is active. *)
FixActive(parts, iter) ==
    LET on == Active(parts) IN
    IF OneElement(on) \/ (on = {} /\ Bootable(parts, iter) = {}) THEN parts
    ELSE IF on = {} THEN OnlyActive(parts, Min(Bootable(parts, iter)))
    ELSE IF iter = 0 THEN [parts EXCEPT ![1] = [@ EXCEPT !.active = FALSE]]
    ELSE OnlyActive(parts, Min(on))

Propose(old, parts) == FixActive(FixActive(FixActive(Compose(old, parts), 0), 1), 2)

------------------------------------------------------------------------------
Init == /\ gpt \in Tables /\ mbr \in Mbrs
        /\ pc = "off"
        /\ gpt_parts = <<>> /\ mbr_parts = <<>> /\ new_mbr_parts = <<>>
        /\ mirrored = NULL

Exit == /\ pc' = "off"
        /\ gpt_parts' = <<>> /\ mbr_parts' = <<>> /\ new_mbr_parts' = <<>>

(* The program is started and reads both tables; an unreadable sector or a   *)
(* table that is invalid ends it at once.                                     *)
ReadTables ==
    /\ pc = "off"
    /\ gpt_parts' = gpt
    /\ mbr_parts' = ReadMbr(mbr)
    /\ pc' = "check"
    /\ UNCHANGED <<gpt, mbr, new_mbr_parts, mirrored>>

Refuse ==
    /\ pc = "check"
    /\ ~(CheckGpt(gpt_parts) /\ CheckMbr(mbr_parts))
    /\ Exit
    /\ UNCHANGED <<gpt, mbr, mirrored>>

DetectTypes ==
    /\ pc = "check"
    /\ CheckGpt(gpt_parts) /\ CheckMbr(mbr_parts)
    /\ \E unreadable \in SUBSET DOMAIN gpt_parts :
          gpt_parts' = Typed(gpt_parts, unreadable)
    /\ pc' = "analyze"
    /\ UNCHANGED <<gpt, mbr, mbr_parts, new_mbr_parts, mirrored>>

NoNeedOrUnclear ==
    /\ pc = "analyze"
    /\ Action(mbr_parts, gpt_parts) # "rewrite"
    /\ Exit
    /\ UNCHANGED <<gpt, mbr, mirrored>>

Analyze ==
    /\ pc = "analyze"
    /\ Action(mbr_parts, gpt_parts) = "rewrite"
    /\ new_mbr_parts' = Propose(mbr_parts, gpt_parts)
    /\ pc' = "ask"
    /\ UNCHANGED <<gpt, mbr, gpt_parts, mbr_parts, mirrored>>

Confirm ==
    /\ pc = "ask"
    /\ pc' = "write"
    /\ UNCHANGED <<gpt, mbr, gpt_parts, mbr_parts, new_mbr_parts, mirrored>>

(* The user declines, or sector 0 cannot be read again or written. *)
DeclineOrFail ==
    /\ pc \in {"ask", "write"}
    /\ Exit
    /\ UNCHANGED <<gpt, mbr, mirrored>>

Fit(lba) == IF lba > MaxLba THEN MaxLba ELSE lba

Unused == [active |-> FALSE, type |-> "none", start |-> 0, size |-> 0]

(* Only the first active partition gets its flag. *)
Written(parts) ==
    [i \in Slots |->
        IF i \notin DOMAIN parts THEN Unused
        ELSE [active |-> parts[i].active /\ \A k \in Active(parts) : i <= k,
              type   |-> parts[i].type,
              start  |-> Fit(parts[i].start),
              size   |-> Fit(parts[i].end + 1 - parts[i].start)]]

WriteMbr ==
    /\ pc = "write"
    /\ mbr' = Written(new_mbr_parts)
    /\ mirrored' = gpt_parts
    /\ Exit
    /\ UNCHANGED gpt

------------------------------------------------------------------------------
(* What others do between the runs. *)

Other == UNCHANGED <<pc, gpt_parts, mbr_parts, new_mbr_parts>>

Repartition ==
    /\ pc = "off"
    /\ gpt' \in Tables /\ mirrored' = NULL
    /\ UNCHANGED mbr /\ Other

ReplaceMbr ==
    /\ pc = "off"
    /\ mbr' \in Mbrs /\ mirrored' = NULL
    /\ UNCHANGED gpt /\ Other

(* rEFIt, before it boots from a primary partition. *)
ActivateMbrPartition(PartitionIndex) ==
    /\ pc = "off"
    /\ Used(mbr[PartitionIndex])
    /\ mbr' = [i \in Slots |-> [mbr[i] EXCEPT !.active = (i = PartitionIndex)]]
    /\ UNCHANGED <<gpt, mirrored>> /\ Other

Program == \/ ReadTables \/ Refuse \/ DetectTypes \/ NoNeedOrUnclear \/ Analyze
           \/ Confirm \/ DeclineOrFail \/ WriteMbr

Next == \/ Program \/ Repartition \/ ReplaceMbr
        \/ \E i \in Slots : ActivateMbrPartition(i)

Spec == Init /\ [][Next]_vars

------------------------------------------------------------------------------
(* Properties. *)

(* "make sure there's exactly one active partition" (gptsync.c:373): whatever *)
(* the old table had, the proposal has one, and so has the disk from the      *)
(* write on, rEFIt's own activations included.                                *)
OneIsActive ==
    /\ pc \in {"ask", "write"} => OneElement(Active(new_mbr_parts))
    /\ mirrored # NULL => OneElement(Active(mbr))

InLimit(parts) == \A i \in DOMAIN parts : parts[i].end <= MaxLba
EspIsLowest(parts) == parts[1].type = "esp" =>
                          \A i \in 2 .. Len(parts) : parts[i].start > parts[1].end

(* A system that could be booted still is the one that is booted: if one      *)
(* partition was active and the new MBR has it, it is the active one          *)
(* ("keep active flag", gptsync.c:360).                                       *)
KeepsTheActive ==
    [][pc = "write" /\ mbr' # mbr /\ InLimit(gpt_parts) =>
          \A i \in Slots, k \in 2 .. 4 :
             Active(mbr) = {i} /\ Used(mbr[i]) /\ mbr'[k].start = mbr[i].start
                => Active(mbr') = {k}]_vars

(* What gptsync writes is a table it accepts itself (check_mbr, gptsync.c:45), *)
(* on a disk an MBR can describe whose ESP is where it usually is.             *)
AcceptsItsOwn ==
    mirrored # NULL /\ InLimit(mirrored) /\ EspIsLowest(mirrored) => CheckMbr(ReadMbr(mbr))

(* Once the tables are mirrored the program finds them synchronized, unless    *)
(* a type is detected differently: it does not rewrite the MBR at every run.   *)
Settles ==
    pc = "analyze" /\ mirrored = gpt_parts /\ InLimit(gpt_parts)
       /\ gpt_parts[1].type = "esp" => Action(mbr_parts, gpt_parts) = "nop"

(* "MBR partition table is invalid, partitions overlap" (gptsync.c:54) is what *)
(* the program says of no table it has written itself.                         *)
WritesAValidTable ==
    mirrored # NULL /\ InLimit(mirrored) => Disjoint(ReadMbr(mbr))
================================================================================
