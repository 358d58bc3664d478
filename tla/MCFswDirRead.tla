------------------------------ MODULE MCFswDirRead ------------------------------
(* Directories of ext2 with names, padding, unused records in the middle and  *)
(* at the end, one cut short, one damaged, and two with entries whose file    *)
(* info needs a larger buffer than the first: one such entry, and two in a    *)
(* row. Of iso9660: one with and without versions, one with a damaged record, *)
(* one that goes on in a second sector. Of reiserfs: one in several items,    *)
(* one item with an entry that is not shown, and one that is not there.       *)
EXTENDS FswDirRead, MCReiserfsVolume

R(inode, rec_len, name, kind, info) ==
    [start |-> 0, inode |-> inode, rec_len |-> rec_len, name_len |-> Len(name), name |-> name,
     kind |-> kind, info |-> info]
Rest(rec_len) == R(0, rec_len, <<>>, "file", 0)
Dot    == R(2, 12, <<".">>, "dir", 82)
DotDot == R(2, 12, <<".", ".">>, "dir", 84)
A == R(11, 12, <<"a">>, "file", 90)
B == R(12, 20, <<"b">>, "dir", 82)
C == R(13, 16, <<"c", ".", "e">>, "file", 82)
LongName   == R(14, 108, <<"long">>, "file", 282)
LongerName == R(17, 128, <<"longer">>, "file", 322)

(* One record behind the others, and the end behind the last; what follows a  *)
(* record of length zero is unused for 40 bytes.                              *)
records ++ r ==
    LET last == Last(records)
    IN  Append(records, [r EXCEPT !.start =
                            last.start + (IF last.rec_len = 0 THEN 40 ELSE last.rec_len)])
Ext2Dir(records) == [fs |-> "ext2", records |-> records ++ Rest(0)]

Cd(rec_len, name, kind) == R(1, rec_len, name, kind, 82)
CdDots == <<Cd(34, <<"x00">>, "dir")>> ++ Cd(34, <<"x01">>, "dir")
CdDir(records) == [fs |-> "iso9660", records |-> records ++ Rest(0)]

Dots2 == <<Dot>> ++ DotDot
Directories ==
          [plain   |-> Ext2Dir(Dots2 ++ A ++ B ++ C),
           gaps    |-> Ext2Dir(Dots2 ++ Rest(24) ++ C ++ Rest(8) ++ A ++ Rest(40)),
           cut     |-> Ext2Dir(Dots2 ++ B ++ R(15, 0, <<"a">>, "file", 82)),
           damaged |-> Ext2Dir(Dots2 ++ A ++ R(16, 8, <<"b">>, "file", 82) ++ C),
           long    |-> Ext2Dir(Dots2 ++ LongName ++ A),
           longer  |-> Ext2Dir(Dots2 ++ LongName ++ LongerName ++ A),
           cd      |-> CdDir(CdDots ++ Cd(38, <<"a", ".", ";", "1">>, "file")
                               ++ Cd(34, <<"b">>, "dir")
                               ++ Cd(38, <<"c", ".", "e", ";", "2">>, "file")),
           cdshort |-> CdDir(CdDots ++ Cd(40, <<"a", ";", "1">>, "file")
                               ++ Cd(33, <<"b">>, "dir")),
           cdtwo   |-> CdDir(CdDots ++ Cd(34, <<"b">>, "dir") ++ Rest(0)
                               ++ Cd(34, <<"a">>, "file")),
           root    |-> [fs |-> "reiserfs", object |-> <<1, 2>>],
           leaf    |-> [fs |-> "reiserfs", object |-> <<2, 13>>],
           nowhere |-> [fs |-> "reiserfs", object |-> <<2, 16>>],
           empty   |-> [fs |-> "reiserfs", object |-> <<2, 12>>]]

MCNames == {<<"a">>, <<"b">>, <<"c", ".", "e">>, <<"x">>, <<"y">>}
MCPatterns == {{<<"a">>, <<"x">>, <<"long">>, <<"longer">>}, {<<"b">>, <<"c", ".", "e">>}}

MCDirs  == Directories
MCNodes == VolumeNodes
================================================================================
