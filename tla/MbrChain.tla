-------------------------------- MODULE MbrChain --------------------------------
(***************************************************************************)
(* Logical partitions of an MBR disk: the chain of extended boot records     *)
(* (EMBRs), which rEFIt walks to find the partitions                         *)
(* (ScanExtendedPartition, refit/lib.c) and again, counting them as it did   *)
(* then, to set one active (ActivateMbrPartition, refit/main.c). Any sector  *)
(* may fail to be read or written.                                           *)
(***************************************************************************)
EXTENDS Integers, Sequences, FiniteSetsExt

CONSTANTS
    Disks,  \* disks: from sectors to tables of four entries [type, start, flags];
            \* sector 0 is the MBR, sectors left out hold no valid table
    NULL

Entries == 1 .. 4
Entry == [type : {"data", "extended"}, start : Nat, flags : {"on", "off", "bad"}]

(* A walk is at the sector `at`, where the next partition has number index;   *)
(* base is where the extended partition begins, target what is to be active.  *)
Walking == [fn : {"scan", "activate"}, base : Nat, at : Nat, index : Nat,
            target : Nat \union {NULL}]

ASSUME DisksAssumption ==
    /\ NULL \notin Nat \union Walking
    /\ \A d \in Disks : 0 \in DOMAIN d /\ DOMAIN d \subseteq Nat
                        /\ \A s \in DOMAIN d : d[s] \in [Entries -> Entry]

VARIABLES
    disk,   \* the disk as it is
    walk,   \* the walk in progress, or NULL
    status  \* of the last walk, "success" or "error"

chainVars == <<disk, walk, status>>

ChainTypeOK ==
    /\ 0 \in DOMAIN disk /\ DOMAIN disk \subseteq Nat
    /\ \A s \in DOMAIN disk : disk[s] \in [Entries -> Entry]
    /\ walk \in {NULL} \union Walking
    /\ status \in {"success", "error"}

Unused(entry) == entry.start = 0   \* or without a size
Extended(table) == {i \in Entries : table[i].type = "extended"}

(* Both walks look at a table's entries up to one that is invalid, unused or *)
(* the link to the next EMBR; those before it are logical partitions.        *)
Stop(table) == Min({i \in Entries : \/ table[i].flags = "bad" \/ Unused(table[i])
                                    \/ table[i].type = "extended"} \union {5})
Linked(table) == /\ Stop(table) \in Entries
                 /\ table[Stop(table)].flags # "bad" /\ ~Unused(table[Stop(table)])

(* Seeded fault: where there is no link the walk stays where it is. *)
NextWithoutReset(table, base) == IF Linked(table) THEN base + table[Stop(table)].start ELSE walk.at

NextExtCurrent(table, base) == IF Linked(table) THEN base + table[Stop(table)].start ELSE 0

(* The sector holds a table, and the walk finds no reason to give up in it. *)
Readable == /\ walk # NULL /\ walk.at \in DOMAIN disk
            /\ walk.fn = "activate" /\ Stop(disk[walk.at]) \in Entries
               => disk[walk.at][Stop(disk[walk.at])].flags # "bad"

End(result) == walk' = NULL /\ status' = result

------------------------------------------------------------------------------
(* ScanExtendedPartition, called with an extended entry's start; what it     *)
(* finds is handed to AddListElement by the module that extends this one.    *)

StartScan(base) ==
    walk' = IF base = 0 THEN NULL
            ELSE [fn |-> "scan", base |-> base, at |-> base, index |-> 4, target |-> NULL]

Logical(table, at, index) ==
    [i \in 1 .. Stop(table) - 1 |-> [index |-> index + i - 1, start |-> at + table[i].start]]

Found == Logical(disk[walk.at], walk.at, walk.index)

ScanEmbr ==
    /\ Readable /\ walk.fn = "scan"
    /\ LET table == disk[walk.at]
           next  == NextExtCurrent(table, walk.base)
       IN  walk' = IF next = 0 THEN NULL
                   ELSE [walk EXCEPT !.at = next, !.index = @ + Stop(table) - 1]
    /\ UNCHANGED <<disk, status>>

(* The sector cannot be read, or holds no table: what is found so far stays. *)
ScanBreaks ==
    /\ walk # NULL /\ walk.fn = "scan"
    /\ walk' = NULL
    /\ UNCHANGED <<disk, status>>

------------------------------------------------------------------------------
(* ActivateMbrPartition *)

(* The MBR is written first; for a logical partition (from 4 on) every        *)
(* extended entry is activated, and the last one is followed.                 *)
MbrFlags(table, target) ==
    [i \in Entries |->
        [table[i] EXCEPT !.flags = IF \/ i = target + 1
                                      \/ target >= 4 /\ i \in Extended(table)
                                   THEN "on" ELSE "off"]]

ExtBase(table, target) ==
    IF target >= 4 /\ Extended(table) # {} THEN table[Max(Extended(table))].start ELSE 0

Activate(target) ==
    /\ \A i \in Entries : disk[0][i].flags # "bad"
    /\ disk' = [disk EXCEPT ![0] = MbrFlags(disk[0], target)]
    /\ LET base == ExtBase(disk[0], target)
       IN  IF base = 0 THEN End("success")
           ELSE /\ walk' = [fn |-> "activate", base |-> base, at |-> base,
                            index |-> 4, target |-> target]
                /\ UNCHANGED status

ActivateFails == End("error") /\ UNCHANGED disk

(* Seeded fault: the link is not activated for the first partition behind it. *)
EmbrFlagsTooFew(table, index, target) ==
    [i \in Entries |->
        IF i < Stop(table)
        THEN [table[i] EXCEPT !.flags = IF target = index + i - 1 THEN "on" ELSE "off"]
        ELSE IF i = Stop(table) /\ Linked(table)
        THEN [table[i] EXCEPT !.flags = IF target > index + i - 1 THEN "on" ELSE "off"]
        ELSE table[i]]

EmbrFlags(table, index, target) ==
    [i \in Entries |->
        IF i < Stop(table)
        THEN [table[i] EXCEPT !.flags = IF target = index + i - 1 THEN "on" ELSE "off"]
        ELSE IF i = Stop(table) /\ Linked(table)
        THEN [table[i] EXCEPT !.flags = IF target >= index + i - 1 THEN "on" ELSE "off"]
        ELSE table[i]]

ActivateEmbr ==
    /\ Readable /\ walk.fn = "activate"
    /\ LET table == disk[walk.at]
           next  == NextExtCurrent(table, walk.base)
           index == walk.index + Stop(table) - 1
       IN  /\ disk' = [disk EXCEPT ![walk.at] = EmbrFlags(table, walk.index, walk.target)]
           /\ IF walk.target < index \/ next = 0
              THEN End("success")
              ELSE walk' = [walk EXCEPT !.at = next, !.index = index] /\ UNCHANGED status

(* The EMBR cannot be read or written, or is invalid: those before it stay    *)
(* written.                                                                   *)
ActivateEmbrFails ==
    /\ walk # NULL /\ walk.fn = "activate"
    /\ End("error")
    /\ UNCHANGED disk

------------------------------------------------------------------------------
(* What boot code finds that follows the active flags from the MBR on, the    *)
(* links after the first relative to the extended partition.                  *)

ActiveIn(table, type) ==
    {i \in Entries : table[i].flags = "on" /\ ~Unused(table[i]) /\ table[i].type = type}

LinkBases(d, s) == IF s = 0 THEN {0} ELSE {d[0][i].start : i \in ActiveIn(d[0], "extended")}

LeadsTo(d, s) ==
    {base + d[s][i].start : base \in LinkBases(d, s), i \in ActiveIn(d[s], "extended")}

(* A set of sectors that boot code does not leave. *)
FollowsLinks(d, C) == \A s \in C : LeadsTo(d, s) \intersect DOMAIN d \subseteq C

Reached(d) == {s \in DOMAIN d : \A C \in SUBSET DOMAIN d : 0 \in C /\ FollowsLinks(d, C) => s \in C}

ActivePartitions(d) ==
    UNION {{s + d[s][i].start : i \in ActiveIn(d[s], "data")} : s \in Reached(d)}
================================================================================
