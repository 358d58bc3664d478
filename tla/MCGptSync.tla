------------------------------- MODULE MCGptSync -------------------------------
(* Disks with and without an ESP, with it at the end, with two, with more     *)
(* partitions than slots, with one beyond the limit, and some that gptsync    *)
(* refuses; MBRs that are empty, protective, Apple's with two active          *)
(* partitions, mirrored 1:1, and with an extended partition.                  *)
EXTENDS GptSync

G(start, end, kind, type, fs) ==
    [start |-> start, end |-> end, kind |-> kind, type |-> type, fs |-> fs]

Esp   == G(4, 7, "system", "esp", "fat16")
Hfs   == G(8, 15, "data", "hfs", "hfs")
Ntfs  == G(16, 23, "basic", "none", "ntfs")
Spare == G(16, 23, "basic", "none", "none")
Res   == G(24, 25, "system", "none", "none")
Linux == G(26, 31, "basic", "none", "linux")

MCTables ==
    { <<Esp, Hfs, Ntfs>>,
      <<Esp, Hfs, Ntfs, Res, Linux>>,
      <<Esp, Res, Hfs>>,
      <<Hfs, Linux>>,
      <<Hfs, Spare, Ntfs>>,                            \* overlapping
      <<G(24, 25, "system", "esp", "fat16"), Hfs, Ntfs>>,
      <<Esp, G(24, 25, "system", "esp", "none"), Spare>>,
      <<Esp, Hfs, G(30, 50, "basic", "none", "linux")>>,
      <<Esp, G(8, 15, "fatal", "none", "none"), Ntfs>>,
      <<Esp>> }

M(active, type, start, end) ==
    [active |-> active, type |-> type, start |-> start, size |-> end + 1 - start]

MCMbrs ==
    { <<Unused, Unused, Unused, Unused>>,
      <<M(FALSE, "protective", 1, 39), Unused, Unused, Unused>>,
      <<M(FALSE, "protective", 1, 7), Unused, M(TRUE, "hfs", 8, 15), M(TRUE, "fat32", 16, 23)>>,
      <<M(FALSE, "protective", 1, 7), M(FALSE, "hfs", 8, 15), M(FALSE, "ntfs", 24, 25), Unused>>,
      <<M(FALSE, "esp", 4, 7), M(FALSE, "hfs", 8, 15), M(TRUE, "ntfs", 16, 23), Unused>>,
      <<M(FALSE, "protective", 1, 7), M(TRUE, "extended", 8, 31), Unused, Unused>> }
================================================================================
