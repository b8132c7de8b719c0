------------------------------- MODULE UriPath -------------------------------
(***************************************************************************)
(* Paths and percent-encoding of examples/parsers/uri: Path.cpp and        *)
(* Encoding.cpp.  The functions are pure; the only state is the text that  *)
(* a user types, which every property gives to all of them.                *)
(***************************************************************************)
EXTENDS Naturals, Sequences, SequencesExt, FiniteSetsExt

CONSTANTS
    PathChars,   \* the characters of the paths
    MaxPath,     \* bound: the length of a path
    EscapeChars, \* the characters of the texts that are encoded
    MaxEscape    \* bound: their length

\* The characters with the codes that the examples of an escape need.
CodedChars == {" ", "%", "/", ".", "0", "2", "F", "a"}

ASSUME PathAssumption ==
    /\ MaxPath \in Nat /\ MaxEscape \in Nat
    /\ EscapeChars \subseteq CodedChars

VARIABLES up_kind, up_text
pathVars == <<up_kind, up_text>>

SEPARATOR == "/"

-----------------------------------------------------------------------------
(***************************************************************************)
(* Path.cpp.                                                               *)
(***************************************************************************)
\* The components that the searches for a separator find.
Found(found, c) ==
    IF c = SEPARATOR THEN Append(found, <<>>) ELSE [found EXCEPT ![Len(found)] = Append(@, c)]
Components(path) == FoldLeft(Found, <<<<>>>>, path)

Separators(path) == {i \in DOMAIN path : path[i] = SEPARATOR}

\* Mutant: the search for the parent starts at the last character.
PopAtLast(path) ==
    IF Separators(path) = {} THEN <<>> ELSE SubSeq(path, 1, Max(Separators(path)))

\* The search starts one before the last character, and at the end of a text that
\* is too short for that: the subtraction wraps around.
Popped(path) ==
    LET parents == {i \in Separators(path) : Len(path) >= 2 => i < Len(path)}
    IN  IF parents = {} THEN <<>> ELSE SubSeq(path, 1, Max(parents))

Pushed(result, component, more) == result \o component \o (IF more THEN <<SEPARATOR>> ELSE <<>>)

Dot == <<".">>
DotDot == <<".", ".">>

\* Only a component that is not empty can be popped again.
Turn(sofar, parts, i) ==
    CASE parts[i] = Dot -> sofar
      [] parts[i] = DotDot /\ sofar.depth > 0 ->
            [result |-> Popped(sofar.result), depth |-> sofar.depth - 1]
      [] OTHER ->
            [result |-> Pushed(sofar.result, parts[i], i < Len(parts)),
             depth |-> sofar.depth + IF parts[i] \in {<<>>, DotDot} THEN 0 ELSE 1]
Simplified(parts) ==
    FoldLeft(LAMBDA sofar, i : Turn(sofar, parts, i),
             [result |-> <<>>, depth |-> 0], [i \in DOMAIN parts |-> i])
simplify(path) == Simplified(Components(path)).result

is_absolute(path) == path # <<>> /\ Head(path) = SEPARATOR
is_directory(path) == path # <<>> /\ Last(path) = SEPARATOR
directory(path) == IF is_directory(path) THEN path ELSE Popped(path)

\* operator+
JoinPaths(path, other) == IF is_absolute(other) THEN other ELSE directory(path) \o other

base_name(path) ==
    IF Separators(path) = {} THEN path ELSE SubSeq(path, Max(Separators(path)) + 1, Len(path))

\* With its last separator at the front, position - 1 wraps around and finds the
\* same one again; the length wraps too, and the rest of the path is returned.
directory_name(path) ==
    IF Separators(path) = {} THEN <<>>
    ELSE LET position == Max(Separators(path))
             before == {i \in Separators(path) : position > 1 => i < position}
             start == IF before = {} THEN 1 ELSE Max(before) + 1
         IN  SubSeq(path, start, IF start > position THEN Len(path) ELSE position - 1)

\* A dot that begins the name begins no extension.
extension(path) ==
    LET position == IF Separators(path) = {} THEN 0 ELSE Max(Separators(path))
        dots == {i \in DOMAIN path : path[i] = "." /\ i > position + 1}
    IN  IF dots = {} THEN <<>> ELSE SubSeq(path, Max(dots) + 1, Len(path))

-----------------------------------------------------------------------------
(***************************************************************************)
(* Encoding.cpp.  "throws" ends a text whose decoding throws.              *)
(***************************************************************************)
Codes == [c \in CodedChars |->
            CASE c = " " -> 32 [] c = "%" -> 37 [] c = "/" -> 47 [] c = "." -> 46
              [] c = "0" -> 48 [] c = "2" -> 50 [] c = "F" -> 70 [] c = "a" -> 97]
CharacterOf(code) == IF \E c \in DOMAIN Codes : Codes[c] = code
                   THEN CHOOSE c \in DOMAIN Codes : Codes[c] = code ELSE "other"

to_hex(v) == <<"0", "1", "2", "3", "4", "5", "6", "7", "8", "9", "A", "B", "C", "D", "E", "F">>[v + 1]
from_hex == [c \in {"0", "2", "5", "F", "a"} |->
               CASE c = "0" -> 0 [] c = "2" -> 2 [] c = "5" -> 5 [] c = "F" -> 15 [] OTHER -> 10]

is_unreserved == {"a", "0", "2", "F", "."}
is_path_unreserved == DOMAIN Codes \ {" ", "%", SEPARATOR}

Escaped(c) == <<"%", to_hex(Codes[c] \div 16), to_hex(Codes[c] % 16)>>
encode(input, is_safe) ==
    FlattenSeq([i \in DOMAIN input |-> IF input[i] \in is_safe THEN <<input[i]>> ELSE Escaped(input[i])])

\* An escape that is cut off throws, after one digit as well: the second digit is
\* then the zero behind the text.
DecodeBut(input, refused) ==
    LET decoded[i \in 1 .. Len(input) + 1] ==
            IF i = Len(input) + 1 THEN <<>>
            ELSE IF input[i] # "%" THEN <<input[i]>> \o decoded[i + 1]
            ELSE IF i + 2 > Len(input) \/ ~({input[i + 1], input[i + 2]} \subseteq DOMAIN from_hex)
            THEN <<"throws">>
            ELSE LET c == CharacterOf(16 * from_hex[input[i + 1]] + from_hex[input[i + 2]])
                 IN  IF c \in refused THEN <<"throws">> ELSE <<c>> \o decoded[i + 3]
    IN  decoded[1]

decode(input) == DecodeBut(input, {})

\* From the separator of the platform, and back.
encode_path(native_path, separator, is_dir) ==
    LET buffer == FlattenSeq([i \in DOMAIN native_path |->
                     IF native_path[i] = separator THEN <<SEPARATOR>>
                     ELSE encode(<<native_path[i]>>, is_path_unreserved)])
    IN  IF is_dir /\ Last(buffer) # SEPARATOR THEN Append(buffer, SEPARATOR) ELSE buffer
decode_path(path, separator) == DecodeBut(path, {separator})

\* The constructor of Path from a range of names, and its inverse.
Named(path, names, i) ==
    path \o (IF i = 1 THEN <<>> ELSE <<SEPARATOR>>) \o encode(names[i], is_path_unreserved)
FromNames(names) ==
    FoldLeft(LAMBDA path, i : Named(path, names, i), <<>>, [i \in DOMAIN names |-> i])
to_vector(path) == [i \in DOMAIN Components(path) |-> decode(Components(path)[i])]

-----------------------------------------------------------------------------
PathInit == up_kind \in {"path", "text"} /\ up_text = <<>>

TypeCharacter ==
    /\ Len(up_text) < IF up_kind = "path" THEN MaxPath ELSE MaxEscape
    /\ \E c \in IF up_kind = "path" THEN PathChars ELSE EscapeChars : up_text' = Append(up_text, c)
    /\ UNCHANGED up_kind

PathSpec == PathInit /\ [][TypeCharacter]_pathVars

-----------------------------------------------------------------------------
(***************************************************************************)
(* Properties.                                                             *)
(***************************************************************************)
\* Type invariant of the text.
PathTypeOK == up_text \in Seq(PathChars) \/ up_text \in Seq(EscapeChars)

\* Where components lead: so many steps up, and then down the names.
Go(at, c) ==
    CASE c \in {<<>>, Dot} -> at
      [] c = DotDot -> IF at.names = <<>> THEN [at EXCEPT !.up = @ + 1]
                       ELSE [at EXCEPT !.names = Front(@)]
      [] OTHER -> [at EXCEPT !.names = Append(@, c)]
Walk(components) == FoldLeft(Go, [up |-> 0, names |-> <<>>], components)

HasEmptyComponent(path) == \E i \in 2 .. Len(path) : path[i - 1] = SEPARATOR /\ path[i] = SEPARATOR

\* The other reading, of URIs: an empty component is a name of its own, which a step
\* up takes back, unless it only says that the path ends with a separator.
EmptyName == <<"empty">>
StepMarks(components) ==
    [i \in DOMAIN components |-> IF components[i] = <<>> THEN EmptyName ELSE components[i]]
EndDropped(components) == IF Last(components) = <<>> THEN Front(components) ELSE components
NamedWalk(components) == Walk(StepMarks(EndDropped(components)))

\* Every path is simplified to one that leads to the same place when its empty
\* components are names: a step up takes back what it should, although only the
\* other components are counted.  A path without an empty component leads to the
\* same place too when they are none, stays absolute or relative, and has no step
\* up behind a name.  (With one it need not: a//../.. becomes a/.., and a/..//b
\* becomes /b.)
SimplifyLeadsThere ==
    LET simple == simplify(up_text)
        parts == Components(simple) IN
    /\ NamedWalk(parts) = NamedWalk(Components(up_text))
    /\ \A i \in DOMAIN parts : parts[i] # Dot
    /\ ~HasEmptyComponent(up_text) =>
          /\ Walk(parts) = Walk(Components(up_text))
          /\ is_absolute(simple) = is_absolute(up_text)
          /\ \A i \in DOMAIN parts :
                parts[i] = DotDot => \A j \in 1 .. i - 1 : parts[j] \in {<<>>, DotDot}

\* A relative path is resolved against the directory of its base, wherever a text
\* is cut in two.
JoinLeadsThere ==
    \A i \in 0 .. Len(up_text) :
        LET base == SubSeq(up_text, 1, i)
            other == SubSeq(up_text, i + 1, Len(up_text)) IN
        Walk(Components(JoinPaths(base, other))) =
            Walk((IF is_absolute(other) THEN <<>> ELSE Front(Components(base))) \o Components(other))

\* The names are the components they are said to be; a path whose only separator
\* is at its front has no directory name of its own.
NamesAreComponents ==
    LET parts == Components(up_text)
        name == Last(parts) IN
    /\ base_name(up_text) = name
    /\ Separators(up_text) # {1} =>
          directory_name(up_text) = IF Len(parts) = 1 THEN <<>> ELSE parts[Len(parts) - 1]
    /\ extension(up_text) # <<>> => \E i \in 2 .. Len(name) - 1 :
          name[i] = "." /\ extension(up_text) = SubSeq(name, i + 1, Len(name))

\* What is encoded can be decoded, as one text, as a path of the platform, and as
\* the names of a path, whatever separators and escapes they hold.
EncodingIsUndone ==
    /\ decode(encode(up_text, is_unreserved)) = up_text
    /\ decode_path(encode_path(up_text, SEPARATOR, FALSE), SEPARATOR) = up_text
    /\ \A i \in 0 .. Len(up_text) :
          LET names == <<SubSeq(up_text, 1, i), SubSeq(up_text, i + 1, Len(up_text))>>
          IN  to_vector(FromNames(names)) = names

\* A path is what its author meant.
PathAnswers ==
    IF up_kind = "path" THEN SimplifyLeadsThere /\ JoinLeadsThere /\ NamesAreComponents
    ELSE EncodingIsUndone

=============================================================================
