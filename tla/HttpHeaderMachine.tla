--------------------------- MODULE HttpHeaderMachine ---------------------------
(***************************************************************************)
(* The automaton of examples/parsers/http_parser, parser.c, which Ragel    *)
(* generated: its states, the characters each state accepts, and what it   *)
(* does on the way.                                                        *)
(*                                                                         *)
(* One character stands for all those that no state tells apart: "G" for   *)
(* the capitals and the dash, "g" for the small letters and the plus, "1"  *)
(* for the digits, "A" and "a" for the other hexadecimal digits, "_" for   *)
(* what is safe in a method, "!" for what else may be in an address and in *)
(* a name, "=" for what may be in an address but in no name (delimiters,   *)
(* and bytes above 127), "ctl" for the control characters.                 *)
(***************************************************************************)
EXTENDS Naturals, Sequences

Capital == {"A", "G", "H", "T", "P"}
Letter7 == {"g", "u", "a"} \cup Capital
Xdigit == {"1", "A", "a"}
HttpChars == Letter7 \cup {"1", ".", "/", "*", ":", "%", "#", "?", " ", "CR", "LF", "!", "_",
                           "=", "ctl"}

MethodChar == Capital \cup {"1", ".", "_"}
SchemeChar == Letter7 \cup {"1", "."}
Uchar == HttpChars \ {"%", "#", " ", "CR", "LF", "ctl"}
TokenChar == HttpChars \ {"/", ":", "?", " ", "CR", "LF", "=", "ctl"}

\* In state from, a character of chars leads to state to, doing acts.
Edge(from, chars, to, acts) == [from |-> from, chars |-> chars, to |-> to, acts |-> acts]

\* An escape: % and two hexadecimal digits, or %u and three.
Escape(first, back) ==
    {Edge(first, Xdigit, first + 1, <<>>), Edge(first, {"u"}, first + 2, <<>>),
     Edge(first + 1, Xdigit, back, <<>>), Edge(first + 2, Xdigit, first + 1, <<>>)}

RequestStart ==
    {Edge(1, MethodChar, 2, <<"mark">>),
     Edge(2, {" "}, 3, <<"request_method">>), Edge(2, MethodChar, 39, <<>>),
     Edge(3, {"*"}, 4, <<"mark">>), Edge(3, SchemeChar, 25, <<"mark">>),
     Edge(3, {":"}, 26, <<"mark">>), Edge(3, {"/"}, 30, <<"mark">>)}

\* The first state behind the address; it ends at a blank or a #.
AddressEnd(from, acts) ==
    {Edge(from, {" "}, 5, acts), Edge(from, {"#"}, 20, acts)}

StarAddress == AddressEnd(4, <<"request_uri">>)

VersionPart ==
    {Edge(5, {"H"}, 6, <<"mark">>), Edge(6, {"T"}, 7, <<>>), Edge(7, {"T"}, 8, <<>>),
     Edge(8, {"P"}, 9, <<>>), Edge(9, {"/"}, 10, <<>>), Edge(10, {"1"}, 11, <<>>),
     Edge(11, {"1"}, 11, <<>>), Edge(11, {"."}, 12, <<>>), Edge(12, {"1"}, 13, <<>>),
     Edge(13, {"1"}, 13, <<>>), Edge(13, {"CR"}, 14, <<"http_version">>),
     Edge(14, {"LF"}, 15, <<>>)}

HeaderStart ==
    {Edge(15, {"CR"}, 16, <<>>), Edge(15, TokenChar, 17, <<"start_field">>),
     Edge(16, {"LF"}, 58, <<"done">>)}

HeaderField ==
    {Edge(17, TokenChar, 17, <<>>), Edge(17, {":"}, 18, <<"write_field">>),
     Edge(18, {" "}, 18, <<"mark">>), Edge(18, {"CR"}, 14, <<"mark", "http_field">>),
     Edge(18, HttpChars \ {" ", "CR"}, 19, <<"mark">>),
     Edge(19, HttpChars \ {"CR"}, 19, <<>>), Edge(19, {"CR"}, 14, <<"http_field">>)}

FragmentPart ==
    {Edge(20, {" "}, 5, <<"mark", "fragment">>), Edge(20, {"%"}, 22, <<"mark">>),
     Edge(20, Uchar, 21, <<"mark">>),
     Edge(21, {" "}, 5, <<"fragment">>), Edge(21, {"%"}, 22, <<>>), Edge(21, Uchar, 21, <<>>)}

FragmentEscape == Escape(22, 21)

AbsoluteAddress ==
    {Edge(25, SchemeChar, 25, <<>>), Edge(25, {":"}, 26, <<>>),
     Edge(26, {"%"}, 27, <<>>), Edge(26, Uchar, 26, <<>>)}
    \cup AddressEnd(26, <<"request_uri">>) \cup Escape(27, 26)

PathPart ==
    {Edge(30, {"%"}, 31, <<>>), Edge(30, {"?"}, 34, <<"request_path">>),
     Edge(30, Uchar \ {"?"}, 30, <<>>)}
    \cup AddressEnd(30, <<"request_path", "request_uri">>) \cup Escape(31, 30)

QueryPart ==
    {Edge(34, {"%"}, 36, <<"start_query">>), Edge(34, Uchar, 35, <<"start_query">>),
     Edge(35, {"%"}, 36, <<>>), Edge(35, Uchar, 35, <<>>)}
    \cup AddressEnd(34, <<"start_query", "query_string", "request_uri">>)
    \cup AddressEnd(35, <<"query_string", "request_uri">>)
    \cup Escape(36, 35)

\* The second to the twentieth character of the method, one state each.
MethodRest(states) ==
    UNION {{Edge(s, {" "}, 3, <<"request_method">>), Edge(s, MethodChar, s + 1, <<>>)}
           : s \in states}
MethodTo6 == MethodRest(39 .. 43)
MethodTo11 == MethodRest(44 .. 48)
MethodTo16 == MethodRest(49 .. 53)
MethodTo20 == MethodRest(54 .. 56) \cup {Edge(57, {" "}, 3, <<"request_method">>)}

Edges == RequestStart \cup StarAddress \cup VersionPart \cup HeaderStart \cup HeaderField
         \cup FragmentPart \cup FragmentEscape \cup AbsoluteAddress \cup PathPart \cup QueryPart
         \cup MethodTo6 \cup MethodTo11 \cup MethodTo16 \cup MethodTo20

HttpError == 0
HttpStart == 1
HttpFirstFinal == 58
HttpStates == 0 .. 58

\* The table: where a character leads, or to the error state.
Machine == [s \in HttpStates |-> [c \in HttpChars |->
    LET es == {e \in Edges : e.from = s /\ c \in e.chars}
    IN  IF es = {} THEN Edge(s, {c}, HttpError, <<>>) ELSE CHOOSE e \in es : TRUE]]

\* No state has two ways to go with the same character.
ASSUME MachineIsDeterministic ==
    \A e, f \in Edges : e.from = f.from /\ e.chars \cap f.chars # {} => e = f
=============================================================================
