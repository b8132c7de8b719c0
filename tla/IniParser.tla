------------------------------- MODULE IniParser -------------------------------
(***************************************************************************)
(* examples/parsers/ini-parser: read_conf() feeds a file to the automaton  *)
(* that Ragel generated (ini.cc), whose actions fill the settings.         *)
(*                                                                         *)
(* One character stands for all those that no state tells apart: "k" and   *)
(* "j" for what may be in a name, "SP" for all blanks but the line end,    *)
(* ";" for # too, "o" for the rest.  The file is chosen line by line while *)
(* it is read.                                                             *)
(***************************************************************************)
EXTENDS Integers, Sequences

CONSTANTS
    IniLines,     \* the lines of files, see LineFormAssumption
    MaxIniLines   \* bound: the lines of a file

IniName == {"k", "j"}
IniChars == IniName \cup {"SP", "LF", "'", ";", "=", "[", "]", "o"}

\* What the text of a line of each kind is: broken cannot be read, because it begins
\* with what begins no line or holds a quote, and odd means nothing certain.
Blanks(n) == [i \in 1 .. n |-> "SP"]
Holds(text, c) == \E i \in DOMAIN text : text[i] = c
IsSection(l) == l.name \in Seq(IniName) \ {<<>>} /\ l.text = <<"[">> \o l.name \o <<"]">>
IsSetting(l) ==
    /\ l.name \in Seq(IniName) \ {<<>>}
    /\ ~Holds(l.value, "'") /\ (l.value # <<>> => l.value[1] # "SP")
    /\ \E m, n \in 0 .. Len(l.text) :
          l.text = l.name \o Blanks(m) \o <<"=">> \o Blanks(n) \o l.value
IsBroken(text) ==
    /\ text # <<>> /\ text[1] # "["
    /\ text[1] \in {"SP", "'", "=", "]", "o"} \/ Holds(text, "'")

ASSUME LineFormAssumption ==
    /\ MaxIniLines \in Nat
    /\ \A l \in IniLines :
          /\ l.kind \in {"blank", "comment", "section", "setting", "broken", "odd"}
          /\ {l.text, l.name, l.value} \subseteq Seq(IniChars \ {"LF"})
          /\ l.kind = "blank" => l.text = <<>>
          /\ l.kind = "comment" => l.text # <<>> /\ l.text[1] = ";" /\ ~Holds(l.text, "'")
          /\ l.kind = "section" => IsSection(l)
          /\ l.kind = "setting" => IsSetting(l)
          /\ l.kind = "broken" => IsBroken(l.text)

-----------------------------------------------------------------------------
(***************************************************************************)
(* The automaton.  State 13 is the start, 0 the error.                     *)
(***************************************************************************)
IniEdge(from, chars, to, acts) == [from |-> from, chars |-> chars, to |-> to, acts |-> acts]
Rest(chars) == IniChars \ chars
SaveKey == <<"store_key">>
SaveValue == <<"store_value">>
SetMark == <<"mark">>

\* The line of a comment, a name, and its value.
CommentEdges ==
    {IniEdge(1, Rest({"LF", "'"}), 1, <<>>), IniEdge(1, {"LF"}, 13, <<>>)}
NameEdges ==
    {IniEdge(2, {"SP", "LF"}, 3, SaveKey), IniEdge(2, IniName, 2, <<>>), IniEdge(2, {"="}, 4, SaveKey),
     IniEdge(3, {"SP", "LF"}, 3, <<>>), IniEdge(3, {"="}, 4, <<>>)}
ValueEdges ==
    {IniEdge(4, Rest({"SP", "LF", "'"}), 5, SetMark), IniEdge(4, {"SP"}, 4, SetMark),
     IniEdge(4, {"LF"}, 14, SetMark \o SaveValue),
     IniEdge(5, Rest({"LF", "'"}), 5, <<>>), IniEdge(5, {"LF"}, 13, SaveValue)}

\* Behind an empty value, what may be more of it or the name of the next setting.
NextNameEdges ==
    {IniEdge(6, {"o", ";", "[", "]"}, 5, <<>>), IniEdge(6, {"SP"}, 7, SaveKey),
     IniEdge(6, {"LF"}, 15, SaveKey \o SaveValue), IniEdge(6, IniName, 6, <<>>),
     IniEdge(6, {"="}, 4, SaveKey),
     IniEdge(7, Rest({"SP", "LF", "=", "'"}), 5, <<>>), IniEdge(7, {"SP"}, 7, <<>>),
     IniEdge(7, {"LF"}, 15, SaveValue), IniEdge(7, {"="}, 4, <<>>)}

\* The opening of a section, and what may be one behind an empty value.
SectionEdges ==
    {IniEdge(8, IniName, 9, SetMark), IniEdge(9, IniName, 9, <<>>),
     IniEdge(9, {"]"}, 10, <<"set_section">>), IniEdge(10, {"LF"}, 13, <<>>)}
NextSectionEdges ==
    {IniEdge(11, IniName, 12, SetMark), IniEdge(11, {"LF"}, 13, SaveValue),
     IniEdge(11, Rest(IniName \cup {"LF", "'"}), 5, <<>>),
     IniEdge(12, IniName, 12, <<>>), IniEdge(12, {"LF"}, 13, SaveValue),
     IniEdge(12, {"]"}, 5, <<"set_section">>),
     IniEdge(12, Rest(IniName \cup {"LF", "'", "]"}), 5, <<>>)}

\* The first character of a line: of any, behind an empty value, behind a name.
LineEdges ==
    {IniEdge(13, {"LF"}, 13, <<>>), IniEdge(13, {";"}, 1, <<>>),
     IniEdge(13, IniName, 2, SetMark), IniEdge(13, {"["}, 8, <<>>)}
NextLineEdges ==
    {IniEdge(14, {"o", ";", "=", "]"}, 5, SetMark), IniEdge(14, {"SP"}, 4, SetMark),
     IniEdge(14, {"LF"}, 14, SetMark \o SaveValue), IniEdge(14, IniName, 6, SetMark),
     IniEdge(14, {"["}, 11, SetMark)}
NamedLineEdges ==
    {IniEdge(15, {"SP"}, 3, <<>>), IniEdge(15, {"LF"}, 15, <<>>), IniEdge(15, {";"}, 1, <<>>),
     IniEdge(15, IniName, 2, SetMark), IniEdge(15, {"="}, 4, <<>>), IniEdge(15, {"["}, 8, <<>>)}

_parser_edges ==
    CommentEdges \cup NameEdges \cup ValueEdges \cup NextNameEdges \cup SectionEdges
    \cup NextSectionEdges \cup LineEdges \cup NextLineEdges \cup NamedLineEdges

parser_start == 13
parser_error == 0

_parser_table == [s \in 0 .. 15 |-> [c \in IniChars |->
    LET es == {e \in _parser_edges : e.from = s /\ c \in e.chars}
    IN  IF es = {} THEN IniEdge(s, {c}, parser_error, <<>>) ELSE CHOOSE e \in es : TRUE]]

ASSUME ParserIsDeterministic ==
    \A e, f \in _parser_edges : e.from = f.from /\ e.chars \cap f.chars # {} => e = f

-----------------------------------------------------------------------------
VARIABLES
    ini_pc,       \* reading, returned
    ini_lines,    \* the lines of the file so far
    ini_text,     \* its characters up to p
    ini_ahead,    \* the characters of the last line that are still to come
    ini_cs, ini_mark, ini_key,
    ini_section,  \* the name of the current section, a sequence of one name or none
    ini_settings

iniVars == <<ini_pc, ini_lines, ini_text, ini_ahead, ini_cs, ini_mark, ini_key, ini_section,
             ini_settings>>
iniParser == <<ini_cs, ini_mark, ini_key, ini_section, ini_settings>>

NoSettings == [k \in {} |-> <<>>]

IniInit ==
    /\ ini_pc = "reading"
    /\ ini_lines = <<>> /\ ini_text = <<>> /\ ini_ahead = <<>>
    /\ ini_cs = parser_start /\ ini_mark = 0 /\ ini_key = <<>>
    /\ ini_section = <<>> /\ ini_settings = NoSettings

Does(acts, act) == \E i \in DOMAIN acts : acts[i] = act
Marked(mark) == SubSeq(ini_text, mark + 1, Len(ini_text))
With(f, key, x) == [k \in DOMAIN f \cup {key} |-> IF k = key THEN x ELSE f[k]]

\* The next line of the file.
IniLine ==
    /\ ini_pc = "reading" /\ ini_ahead = <<>> /\ Len(ini_lines) < MaxIniLines
    /\ \E l \in IniLines :
          /\ ini_lines' = Append(ini_lines, l)
          /\ ini_ahead' = Append(l.text, "LF")
    /\ UNCHANGED <<ini_pc, ini_text, iniParser>>

set_section(name) ==
    /\ ini_settings' = With(ini_settings, name, NoSettings)
    /\ ini_section' = <<name>>

\* emplace keeps the value that is there; it may or may not have emptied the key
\* that it has been given to move.
store_value(key, v) ==
    IF ini_section = <<>> THEN ini_key' = key /\ UNCHANGED ini_settings
    ELSE LET section == ini_settings[ini_section[1]] IN
         IF key \in DOMAIN section
         THEN ini_key' \in {key, <<>>} /\ UNCHANGED ini_settings
         ELSE /\ ini_key' = <<>>
              /\ ini_settings' = [ini_settings EXCEPT ![ini_section[1]] = With(@, key, v)]

\* One character of feed().
IniChar ==
    /\ ini_pc = "reading" /\ ini_cs # parser_error /\ ini_ahead # <<>>
    /\ LET e == _parser_table[ini_cs][Head(ini_ahead)]
           mark == IF Does(e.acts, "mark") THEN Len(ini_text) ELSE ini_mark
           key == IF Does(e.acts, "store_key") THEN Marked(mark) ELSE ini_key IN
       /\ ini_cs' = e.to /\ ini_mark' = mark
       /\ IF Does(e.acts, "set_section")
          THEN set_section(Marked(mark)) /\ ini_key' = key
          ELSE /\ IF Does(e.acts, "store_value") THEN store_value(key, Marked(mark))
                  ELSE ini_key' = key /\ UNCHANGED ini_settings
               /\ UNCHANGED ini_section
    /\ ini_text' = Append(ini_text, Head(ini_ahead))
    /\ ini_ahead' = Tail(ini_ahead)
    /\ UNCHANGED <<ini_pc, ini_lines>>

\* An error has stopped the parser, or the file ends, with a line end or without.
IniReturns ==
    /\ ini_pc = "reading" /\ ini_lines # <<>>
    /\ ini_cs = parser_error \/ ini_ahead \in {<<>>, <<"LF">>}
    /\ ini_pc' = "returned"
    /\ UNCHANGED <<ini_lines, ini_text, ini_ahead, iniParser>>

IniNext == IniLine \/ IniChar \/ IniReturns

IniSpec == IniInit /\ [][IniNext]_iniVars

-----------------------------------------------------------------------------
(***************************************************************************)
(* Properties.                                                             *)
(***************************************************************************)
\* Type invariant of the reader of settings.
IniTypeOK ==
    /\ ini_pc \in {"reading", "returned"}
    /\ Len(ini_lines) <= MaxIniLines
    /\ ini_cs \in 0 .. 15
    /\ ini_mark \in 0 .. Len(ini_text)
    /\ \A s \in DOMAIN ini_settings : \A k \in DOMAIN ini_settings[s] :
          ini_settings[s][k] \in Seq(IniChars)

\* Behind an empty value the automaton takes the next line for more of it, unless
\* that line is a setting.
EmptySetting(l) == l.kind = "setting" /\ l.value = <<>>
Regular(lines, i) ==
    /\ lines[i].kind \in {"blank", "comment", "section", "setting"}
    /\ i > 1 /\ EmptySetting(lines[i - 1]) => lines[i].kind = "setting"
AllRegular(lines) == \A i \in DOMAIN lines : Regular(lines, i)

\* The settings that lines give: those of a section are the ones since it was last
\* opened, and the first one of a name counts.
Opens(lines) == {i \in DOMAIN lines : lines[i].kind = "section"}
LatestOpen(lines, s) ==
    CHOOSE i \in Opens(lines) : /\ lines[i].name = s
                                /\ \A j \in Opens(lines) : lines[j].name = s => j <= i
InSection(lines, i) ==
    {j \in DOMAIN lines : /\ i < j /\ lines[j].kind = "setting"
                          /\ \A o \in Opens(lines) : o > j \/ o <= i}
FirstNamed(lines, places, key) ==
    CHOOSE j \in places : /\ lines[j].name = key
                          /\ \A other \in places : lines[other].name = key => j <= other
SettingsOf(lines) ==
    [s \in {lines[i].name : i \in Opens(lines)} |->
       LET places == InSection(lines, LatestOpen(lines, s)) IN
       [key \in {lines[j].name : j \in places} |-> lines[FirstNamed(lines, places, key)].value]]

\* A file of regular lines is read as it stands, line by line.  A line that cannot
\* be read stops the reader with the settings before it and an error, whatever
\* follows.
IniAnswers ==
    LET n == Len(ini_lines)
        before == SubSeq(ini_lines, 1, n - 1) IN
    /\ ini_ahead = <<>> /\ AllRegular(ini_lines) =>
         ini_cs # parser_error /\ ini_settings = SettingsOf(ini_lines)
    /\ /\ n > 0 /\ ini_lines[n].kind = "broken" /\ AllRegular(before)
       /\ n > 1 => ~EmptySetting(ini_lines[n - 1])
       /\ ini_pc = "returned"
       => /\ ini_cs = parser_error
          /\ ini_settings = SettingsOf(before)

=============================================================================
