---------------------------- MODULE MCRefitVolumes ----------------------------
(* A hard disk with one partition the firmware knows, from which rEFIt was    *)
(* loaded; logical partitions, two in a chain of two EMBRs.                   *)
EXTENDS RefitVolumes, TLC

E(type, start, flags) == [type |-> type, start |-> start, flags |-> flags]
Table(used) == [i \in Entries |-> IF i \in DOMAIN used THEN used[i] ELSE E("data", 0, "off")]

Mbr == Table(<<E("data", 1, "on"), E("extended", 10, "off")>>)

MCDisks ==
    { \* a chain of two EMBRs with a partition each
      (0 :> Mbr) @@ (10 :> Table(<<E("data", 1, "off"), E("extended", 5, "on")>>))
                 @@ (15 :> Table(<<E("data", 1, "off")>>)),
      \* the first deleted, the last EMBR empty
      (0 :> Mbr) @@ (10 :> Table(<<E("extended", 5, "off")>>)) @@ (15 :> Table(<<>>)),
      \* two extended partitions
      (0 :> Table(<<E("data", 1, "off"), E("extended", 10, "on"), E("extended", 20, "off")>>))
          @@ (10 :> Table(<<E("data", 1, "on")>>)) @@ (20 :> Table(<<E("data", 1, "off")>>)),
      \* an invalid entry behind a partition
      (0 :> Mbr) @@ (10 :> Table(<<E("data", 1, "on"), E("data", 2, "bad")>>)),
      \* no MBR partition table
      (0 :> Table(<<E("data", 1, "bad")>>)) }

MCHandles == <<"hd", "hd1">>
MCWholeOf == ("hd" :> "hd") @@ ("hd1" :> "hd")
MCStartOf == ("hd" :> 0) @@ ("hd1" :> 1)
================================================================================
