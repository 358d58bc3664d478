------------------------------ MODULE RefitConfig ------------------------------
(***************************************************************************)
(* rEFIt's configuration (refit/config.c): how refit.conf becomes lines, a   *)
(* line becomes tokens and a line of tokens changes GlobalConfig. A file is  *)
(* the sequence of its pieces: words (names, numbers and byte order marks)   *)
(* and the characters that separate them.                                    *)
(***************************************************************************)
EXTENDS Integers, SequencesExt, FiniteSetsExt

CONSTANT NULL

LineEnd == {"CR", "LF"}
Space   == {" ", "TAB", "="}
IsWord(piece) == piece \notin LineEnd \union Space \union {"#"}

Flag   == {"shell", "tools", "optical", "external", "internal", "singleuser", "hwtest"}
UIFlag == {"banner", "funcs", "label"}

DefaultConfig ==
    [TextOnly |-> FALSE, Timeout |-> 20, DisableFlags |-> {}, HideBadges |-> 0,
     HideUIFlags |-> {}, LegacyFirst |-> FALSE, BannerFileName |-> NULL,
     SelectionSmallFileName |-> NULL, SelectionBigFileName |-> NULL,
     DefaultSelection |-> NULL]

(* The value of a word for Atoi, which reads digits up to the first other     *)
(* character.                                                                 *)
Atoi(word) == CASE word = "20" -> 20 [] word = "5" -> 5 [] word = "2" -> 2 [] word = "1" -> 1
                [] OTHER -> 0

------------------------------------------------------------------------------
(* From the file to its lines and tokens *)

(* A mark is looked for in files of four bytes or more, which are those with     *)
(* anything behind it, and passed over; a mark alone is read as a word. Words are *)
(* in ASCII, which every encoding the code knows, found by the mark or by zeros    *)
(* between the bytes, gives alike; other characters of UTF-8 it takes byte by byte. *)
Marked(text) == Len(text) > 1 /\ Head(text) \in {"BOM8", "BOM16"}

ReadFile(file) == IF Marked(file.text) THEN Tail(file.text) ELSE file.text

(* How many of the first pieces of a text are not in stop.                     *)
Span(text, stop) ==
    Min({i \in 1 .. Len(text) : text[i] \in stop} \union {Len(text) + 1}) - 1

(* ReadLine: the first line, and the text from the next line that is not empty *)
FirstLine(text) == SubSeq(text, 1, Span(text, LineEnd))

AfterLine(text) ==
    LET rest  == SubSeq(text, Span(text, LineEnd) + 1, Len(text))
        other == {rest[i] : i \in DOMAIN rest} \ LineEnd
    IN  SubSeq(rest, Span(rest, other) + 1, Len(rest))

(* Seeded fault: a comment is read as well.                                    *)
TokensWithComment(line) == SelectSeq(line, IsWord)

(* ReadTokenLine, of one line *)
Tokens(line) == SelectSeq(SubSeq(line, 1, Span(line, {"#"})), IsWord)

------------------------------------------------------------------------------
(* What a line of tokens does to the configuration *)

Set(config, field, tokens, value) ==
    IF Len(tokens) = 2 THEN [config EXCEPT ![field] = value] ELSE config

HandleInt(config, field, tokens) == Set(config, field, tokens, Atoi(tokens[Len(tokens)]))

HandleString(config, field, tokens) == Set(config, field, tokens, tokens[Len(tokens)])

HideBadgesEnum == <<"none", "internal", "all">>

HandleEnum(config, field, enum, tokens) ==
    LET word  == tokens[Len(tokens)]
        named == {i \in DOMAIN enum : enum[i] = word}
    IN  Set(config, field, tokens, IF named # {} THEN Min(named) - 1 ELSE Atoi(word))

Disable(config, names) == [config EXCEPT !.DisableFlags = @ \union names]

DisableAll == Flag \ {"internal"}

(* "all" sets the flags, all others are added to them.                         *)
DisableFlag(config, name) ==
    IF name = "all" THEN [config EXCEPT !.DisableFlags = DisableAll]
    ELSE Disable(config, {name} \intersect Flag)

HideAtLeast(config, level) ==
    [config EXCEPT !.HideBadges = IF @ < level THEN level ELSE @]

HideUIFlag(config, name) ==
    CASE name \in UIFlag             -> [config EXCEPT !.HideUIFlags = @ \union {name}]
      [] name \in {"shell", "tools"} -> Disable(config, {name})
      [] name = "hdbadges"           -> HideAtLeast(config, 1)
      [] name = "badges"             -> HideAtLeast(config, 2)
      [] name = "all"                -> Disable(HideAtLeast([config EXCEPT !.HideUIFlags = UIFlag], 1),
                                                {"shell", "tools"})
      [] OTHER                       -> config

Command(config, tokens) ==
    LET name == Head(tokens) IN
    CASE name = "timeout"             -> HandleInt(config, "Timeout", tokens)
      [] name = "disable"             -> FoldLeft(DisableFlag, config, Tail(tokens))
      [] name = "disableopticalboot"  -> Disable(config, {"optical"})
      [] name = "disableexternalboot" -> Disable(config, {"external"})
      [] name = "disableinternalboot" -> Disable(config, {"internal"})
      [] name = "hidebadges"          -> HandleEnum(config, "HideBadges", HideBadgesEnum, tokens)
      [] name = "hideui"              -> FoldLeft(HideUIFlag, config, Tail(tokens))
      [] name = "banner"              -> HandleString(config, "BannerFileName", tokens)
      [] name = "selection_small"     -> HandleString(config, "SelectionSmallFileName", tokens)
      [] name = "selection_big"       -> HandleString(config, "SelectionBigFileName", tokens)
      [] name = "default_selection"   -> HandleString(config, "DefaultSelection", tokens)
      [] name = "textonly"            -> [config EXCEPT !.TextOnly = TRUE]
      [] name = "legacyfirst"         -> [config EXCEPT !.LegacyFirst = TRUE]
      [] OTHER                        -> config

------------------------------------------------------------------------------
(* What the file says, by the places of its words: a word counts unless a "#"  *)
(* stands before it on its line, and the first that counts is the command.     *)

SameLine(text, i, j) == \A k \in i .. j : text[k] \notin LineEnd

Counts(text, i) == /\ IsWord(text[i])
                   /\ \A k \in 1 .. i : text[k] = "#" => ~SameLine(text, k, i)

Words(text) == {i \in DOMAIN text : Counts(text, i)}

IsCommand(text, i) == \A k \in Words(text) : k < i => ~SameLine(text, k, i)

Arguments(text, i) == {k \in Words(text) : k > i /\ SameLine(text, i, k)}

(* The command words, by what they change *)
Commands(text, names) == {i \in Words(text) : text[i] \in names /\ IsCommand(text, i)}

(* The value of the last line with that command that has one argument.         *)
LastSaid(text, name, default) ==
    LET said == {i \in Commands(text, {name}) : Cardinality(Arguments(text, i)) = 1}
    IN  IF said = {} THEN default ELSE text[Min(Arguments(text, Max(said)))]

(* Whether a command has an argument, on some line.                            *)
Names(text, name, word) ==
    \E i \in Commands(text, {name}) : \E k \in Arguments(text, i) : text[k] = word

(* The words that name a flag to disable                                       *)
Naming(text, flag) ==
    {k \in Words(text) : text[k] = flag /\ \E i \in Commands(text, {"disable"}) : k \in Arguments(text, i)}
        \union Commands(text, CASE flag = "optical"  -> {"disableopticalboot"}
                                [] flag = "external" -> {"disableexternalboot"}
                                [] flag = "internal" -> {"disableinternalboot"}
                                [] OTHER -> {})

(* By refit.conf, a flag is set if a line names it or, unless it is "internal",  *)
(* "all" of them.                                                              *)
SaysDisabled(text, flag) ==
    \/ Naming(text, flag) # {}
    \/ flag # "internal" /\ Naming(text, "all") # {}
    \/ flag \in {"shell", "tools"} /\ (Names(text, "hideui", flag) \/ Names(text, "hideui", "all"))

(* "internal" is named before an "all", and not again: the code clears it then,  *)
(* where refit.conf does not say so.                                           *)
TakenBack(text, flag) ==
    flag = "internal" /\ \A k \in Naming(text, flag) : \E a \in Naming(text, "all") : k < a

(* "hidebadges" sets the level, and "hideui" after it can only raise it.        *)
BadgesSaid(text) ==
    LET sets  == {i \in Commands(text, {"hidebadges"}) : Cardinality(Arguments(text, i)) = 1}
        value == LastSaid(text, "hidebadges", "none")
        level(words, n) == {n : k \in {k \in Words(text) :
                               /\ text[k] \in words /\ \A i \in sets : i < k
                               /\ \E i \in Commands(text, {"hideui"}) : k \in Arguments(text, i)}}
    IN  Max(level({"badges"}, 2) \union level({"hdbadges", "all"}, 1)
             \union {CASE value = "none" -> 0 [] value = "internal" -> 1 [] value = "all" -> 2
                        [] OTHER -> Atoi(value)})

Says(text, config) ==
    /\ config.HideBadges = BadgesSaid(text)
    /\ config.Timeout = Atoi(LastSaid(text, "timeout", "20"))
    /\ config.BannerFileName = LastSaid(text, "banner", NULL)
    /\ config.SelectionSmallFileName = LastSaid(text, "selection_small", NULL)
    /\ config.SelectionBigFileName = LastSaid(text, "selection_big", NULL)
    /\ config.DefaultSelection = LastSaid(text, "default_selection", NULL)
    /\ config.TextOnly = (Commands(text, {"textonly"}) # {})
    /\ config.LegacyFirst = (Commands(text, {"legacyfirst"}) # {})
    /\ config.DisableFlags \subseteq Flag
    /\ \A flag \in Flag : (flag \in config.DisableFlags) = SaysDisabled(text, flag)
                              \/ (SaysDisabled(text, flag) /\ TakenBack(text, flag))
    /\ config.HideUIFlags = {flag \in UIFlag : Names(text, "hideui", flag)
                                                  \/ Names(text, "hideui", "all")}
================================================================================
