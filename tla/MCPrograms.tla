------------------------------ MODULE MCPrograms ------------------------------
(***************************************************************************)
(* Small inputs for the programs.                                          *)
(***************************************************************************)
EXTENDS Programs

-----------------------------------------------------------------------------
\* The sheet.
Lit(text) == [kind |-> "literal", text |-> text]
Ref(a) == [kind |-> "cell", at |-> a]
Bin(op, left, right) == [op |-> op, args |-> <<left, right>>]

\* =1, =A1..., references that may form a cycle, a call, and what throws.
SomeFormulas ==
    {[op |-> "leaf", args |-> <<Lit(<<1>>)>>], [op |-> "leaf", args |-> <<Lit(<<Letter>>)>>]}
    \cup {[op |-> "leaf", args |-> <<Ref(a)>>] : a \in 1 .. 3}
    \cup {Bin("add", Ref(2), Ref(3)), Bin("subtract", Ref(1), Lit(<<1>>))}
    \cup {[op |-> "call", args |-> <<Ref(3)>>]}
    \cup {[op |-> o, args |-> <<>>] : o \in {"invalid", "range"}}

SomeConfigs ==
    [exists : {TRUE}, keys : {ConfigKeys, ConfigKeys \ {"debug"}, ConfigKeys \ {"port"}}]
    \cup [exists : {FALSE}, keys : {{}}]

\* Responses of every framing.
\* Bodies that hold line ends, digits, nothing, or several chunks.
Data == {<<>>, <<<<"d">>>>, <<<<"CR", "LF", "d">>>>, <<<<"d", "CR">>, <<"LF", "1">>>>,
         <<<<"CR", "LF">>, <<"CR", "LF", "0">>, <<"d">>>>}

MixedMessages ==
    [fields : {<<"length">>, <<"chunked">>, <<"other">>, <<"other", "length">>,
               <<"length", "chunked">>}, chunks : Data]
    \cup [fields : {<<>>}, chunks : {<<<<"d">>>>}]

\* Headers of requests.
Version == <<"H", "T", "T", "P", "/", "1", ".", "1">>
PlainRequest == [method |-> <<"G">>, form |-> "path", address |-> <<"/">>, query |-> <<>>,
          fragment |-> <<>>, version |-> Version, fields |-> <<>>, rest |-> <<>>, damage |-> 0]
HttpField(name, blanks, val) == [name |-> name, blanks |-> blanks, value |-> val]

\* Every kind of address, with and without a query and a fragment.
HttpAddresses == {<<"star", <<"*">>>>, <<"absolute", <<"g", ":", "/", "%", "u", "1", "a", "A">>>>,
    <<"path", <<"/", "%", "1", "a", "/", "=">>>>, <<"path", <<"/">>>>}
AddressRequests ==
    {[PlainRequest EXCEPT !.form = a[1], !.address = a[2], !.query = q, !.fragment = f] :
       a \in HttpAddresses, q \in {<<>>, <<<<>>>>, <<<<"?", "%", "u", "1", "1", "1">>>>},
       f \in {<<>>, <<<<>>>>, <<<<"%", "A", "1", ":">>>>}}
\* Headers: none, empty, twice the same, values that look like line ends, with a
\* control character, and texts that just fit their buffer or do not.
FieldRequests ==
    {[PlainRequest EXCEPT !.fields = fs] :
       fs \in {<<HttpField(<<"H">>, 0, <<>>)>>, <<HttpField(<<"H">>, 2, <<>>), HttpField(<<"T">>, 1, <<"1">>)>>,
               <<HttpField(<<"H">>, 1, <<"g">>), HttpField(<<"H">>, 2, <<":", " ", "LF">>)>>,
               <<HttpField(<<"H">>, 1, <<"ctl", "g", "ctl">>)>>,
               <<HttpField([i \in 1 .. 15 |-> "g"], 0, <<>>)>>, <<HttpField([i \in 1 .. 16 |-> "g"], 0, <<>>)>>}}
    \cup {[PlainRequest EXCEPT !.fields = fs, !.rest = <<"G", "CR">>] :
            fs \in {<<>>, <<HttpField(<<"P">>, 0, <<"g">>), HttpField(<<"_">>, 0, <<"1">>),
                            HttpField(<<"g", "T">>, 0, <<"1">>)>>}}
    \cup {[PlainRequest EXCEPT !.method = m] : m \in {[i \in 1 .. 20 |-> "A"], <<"_", "1", ".", "G">>}}

\* A control character in any place of a request line, and of fields.
Damaged ==
    LET line == [PlainRequest EXCEPT !.address = <<"/", "%", "u", "1", "1", "1">>,
                   !.query = <<<<"%", "1", "1">>>>, !.fragment = <<<<"%", "u", "1", "1", "1">>>>]
        fields == [PlainRequest EXCEPT !.fields = <<HttpField(<<"H">>, 1, <<"g">>), HttpField(<<"T">>, 0, <<"1">>)>>]
    IN  {[line EXCEPT !.damage = d] : d \in 1 .. Len(Intact(line))}
        \cup {[fields EXCEPT !.damage = d] : d \in Len(RequestLine(fields)) + 1 .. Len(Intact(fields))}
SomeHttpInputs == {r \in AddressRequests : r.form # "star" \/ r.query = <<>>} \cup FieldRequests \cup Damaged

\* Formulas of dice: trees of two levels.
Node(c, left, right, modifier) == <<c, left, right, modifier>>
One == Num(1)
Two == Num(2)
Ten == Num(10)
Modifiers == {NoModifier, <<"!">>, <<"M", 10>>, <<"m", 1>>}
Casts(left, right) == {Node("d", l, r, mo) : l \in left, r \in right, mo \in Modifiers}
Terms(ops, left, right) == {Node(c, l, r, NoModifier) : c \in ops, l \in left, r \in right}
SmallTrees ==
    Casts({Two}, {Two}) \cup {Node("d", One, Two, NoModifier)}
    \cup Terms({"+", "-", "*", "/", "%"}, {Two}, {One})
Trees ==
    {One, Ten} \cup SmallTrees \cup Casts({Two} \cup SmallTrees, {One} \cup SmallTrees)
    \cup Terms({"+", "-", "*", "/"}, {Ten} \cup SmallTrees, {One} \cup SmallTrees)

\* The values of a tree, when all dice have gen sides.  Throwing n dice counts
\* the last throw once more, and of the highest ones at most n - 1.
LastAgain(throws, modifier) ==
    LET n == Len(throws)
        Sums(size) == {SumFunctionOnSet(throws, S) : S \in kSubset(size, 1 .. n)}
    IN  throws[n] + CASE modifier[1] = "M" -> Max(Sums(Min({modifier[2], n - 1})))
                      [] modifier[1] = "m" -> Min(Sums(Min({modifier[2], n})))
                      [] OTHER -> SumFunction(throws)
\* A recast goes on until n throws have shown another side, and ends with one.
ThrowsOf(n, sides, modifier, gen) ==
    {q \in UNION {[1 .. k -> 1 .. gen] : k \in 1 .. MaxThrows} :
       IF modifier = <<"!">>
       THEN q[Len(q)] # sides /\ Cardinality({k \in DOMAIN q : q[k] # sides}) = n
       ELSE Len(q) = n}
ValuesOf(c, modifier, l, r, gen) ==
    IF c # "d"
    THEN IF c \in {"/", "%"} /\ r = 0 THEN {Undefined} ELSE {Num(Arithmetic(c, l, r))}
    ELSE IF gen < 1 \/ l = 0 THEN {Undefined}
    ELSE {Num(LastAgain(q, modifier)) : q \in ThrowsOf(l, r, modifier, gen)}

RECURSIVE Values(_, _), Sides(_)
Values(t, gen) ==
    IF t[1] = "num" THEN {t}
    ELSE LET left == Values(t[2], gen) right == Values(t[3], gen)
         IN  ((left \cup right) \cap {Undefined})
             \cup UNION {ValuesOf(t[1], t[4], l[2], r[2], gen) :
                           l \in left \ {Undefined}, r \in right \ {Undefined}}
\* The sides of the cast that is evaluated first, or 0.
Sides(t) ==
    IF t[1] = "num" THEN 0
    ELSE IF Sides(t[2]) # 0 THEN Sides(t[2])
    ELSE IF Sides(t[3]) # 0 THEN Sides(t[3])
    ELSE IF t[1] = "d" THEN (CHOOSE v \in Values(t[3], 0) : TRUE)[2] ELSE 0

\* A tree is written with the parentheses it needs, and then with blanks, or
\* without the 1 of a single die.
Precedence(t) ==
    CASE t[1] \in {"+", "-"} -> 1 [] t[1] \in {"*", "/", "%"} -> 2 [] t[1] = "d" -> 3 [] OTHER -> 4
WriteNumber(t, bare, need) == CASE t = One -> <<"1">> [] t = Two -> <<"2">> [] OTHER -> <<"1", "0">>
WriteTree(t, bare, need, W(_, _, _)) ==
    LET p == Precedence(t)
        text == (IF bare /\ p = 3 /\ t[2] = One THEN <<>> ELSE W(t[2], bare, p))
                \o (IF bare THEN <<t[1]>> ELSE <<" ", t[1]>>) \o W(t[3], bare, p + 1)
                \o CASE t[4] = NoModifier -> <<>> [] t[4] = <<"!">> -> <<"!">>
                     [] OTHER -> <<t[4][1]>> \o WriteNumber(Num(t[4][2]), bare, 4)
    IN  IF p = 4 THEN WriteNumber(t, bare, 4)
        ELSE IF p < need THEN <<"(">> \o text \o <<")">> ELSE text
WriteSmall(t, bare, need) == WriteTree(t, bare, need, WriteNumber)

SomeDiceInputs ==
    {[tree |-> t, text |-> WriteTree(t, bare, 1, WriteSmall), values |-> Values(t, Sides(t))]
       : t \in Trees, bare \in BOOLEAN}
    \cup [tree : {<<>>}, values : {{}},
          text : {<<>>, <<"0">>, <<"1", " ", "1">>, <<"1", "other">>, <<"1", "*", "+", "1">>,
                  <<"(", "1">>, <<"(", "1", "+", "1">>, <<"1", ")">>, <<"M">>, <<"1", "!">>,
                  <<"d">>, <<"d", "M">>, <<"d", "1", "M">>}]

\* Lines of files of settings.
IniForm(kind, text, name, val) == [kind |-> kind, text |-> text, name |-> name, value |-> val]
SettingLine(name, blanks, val) ==
    IniForm("setting", name \o blanks \o <<"=">> \o blanks \o val, name, val)
SectionLine(name) == IniForm("section", <<"[">> \o name \o <<"]">>, name, <<>>)
SomeIniLines ==
    {IniForm("blank", <<>>, <<>>, <<>>), IniForm("comment", <<";", "k", "=">>, <<>>, <<>>),
     SectionLine(<<"k">>), SectionLine(<<"j", "k">>),
     SettingLine(<<"k">>, <<"SP">>, <<"j", "SP", "=", ";">>), SettingLine(<<"k">>, <<>>, <<>>),
     SettingLine(<<"k", "j">>, <<>>, <<"[", "k", "]">>), SettingLine(<<"k">>, <<>>, <<"o">>),
     IniForm("broken", <<"k", "=", "'">>, <<>>, <<>>), IniForm("broken", <<"SP", "k">>, <<>>, <<>>),
     IniForm("odd", <<"k">>, <<>>, <<>>), IniForm("odd", <<"k", "SP", "o">>, <<>>, <<>>),
     IniForm("odd", <<"[", "SP">>, <<>>, <<>>)}

\* Schemes that are right, right but not http, and wrong; and longer URIs.
SomeUriStarts ==
    {<<"http", ":", "/", "/">>, <<"x", "1", "+", ":", "/", "/", "@">>,
     <<"http", ":", "/", "/", "x", ":", "x", "@", "x", ":", "1", "/", "x", "?", "x", "#", "x">>,
     <<"http", ":", "/", "/", "x", ":", "@", "x", " ", "?", ":", "CR", "LF", "x", "@">>,
     <<"1", ":", "/", "/", "x", "x", "x", "x">>, <<"http", ":", "/", "x", "x", "x", "x">>,
     <<"http", "x", "x", "x", "x", "x", "x">>}
SomeHeaderLists ==
    {<<>>, <<Field(<<"X", "+">>, <<" ", "x", "TAB">>), Field(<<"x">>, <<>>)>>,
     <<Field(<<"x">>, <<"CR", "LF", "x", ":">>)>>, <<Field(<<"x", ":">>, <<"x">>)>>}
SomeSizes == {<<"1", "0">>}
Piece(blanks, text) == [blanks |-> blanks, text |-> text]
ResponseField(name, pieces) == [name |-> name, pieces |-> pieces]
OneResponse ==
    [code |-> <<"1", "0", "1">>, reason |-> <<"x", " ">>, damage |-> 0,
     fields |-> <<ResponseField(<<"X">>, <<Piece(2, <<"x", ":">>)>>)>>]
ResponseFields ==
    {ResponseField(<<"length">>, <<Piece(1, d)>>)
       : d \in {<<"1", "0">>, <<"1", "1", "1">>, <<"0", "1">>, <<"x">>}}
    \cup {ResponseField(<<"coding">>, <<Piece(1, <<"chunked">>)>>),
          ResponseField(<<"coding">>, <<Piece(0, <<"x">>)>>),
          ResponseField(<<"x">>, <<Piece(0, <<>>), Piece(2, <<"x">>), Piece(1, <<"1", ":">>)>>),
          ResponseField(<<"X">>, <<Piece(1, <<"x", " ", "X">>), Piece(1, <<>>)>>)}
SomeResponses ==
    {[OneResponse EXCEPT !.fields = <<v, w>>] : v, w \in ResponseFields}
    \cup {OneResponse, [OneResponse EXCEPT !.code = <<"1", "0">>], [OneResponse EXCEPT !.reason = <<>>]}
    \cup {[OneResponse EXCEPT !.damage = d] : d \in 1 .. Len(HeaderText(OneResponse))}

\* A complete file, and ones that differ from it in one thing.
FullTree ==
    [k \in ConfigFields |->
        CASE k = Headers -> <<<<"X", "1">>, <<"Y", "2">>>>
          [] k = Conf("server", "port") -> 4443
          [] k = Conf("server", "shared_folder") -> "shared"
          [] k = Conf("webhook", "url") -> "url"
          [] k[1] = "ssl" -> "pem"
          [] k \in {Conf("auth", "token"), Conf("webhook", "api_key")} -> "key"
          [] OTHER -> TRUE]
Lacking(keys) == [k \in ConfigFields \ keys |-> FullTree[k]]
SomeConfigTrees ==
    {FullTree} \cup {Lacking({k}) : k \in ConfigFields}
    \cup {Lacking({k \in ConfigFields : k[1] = s}) : s \in {"ssl", "webhook"}}
    \cup {[FullTree EXCEPT ![Conf("auth", "enabled")] = FALSE],
          [FullTree EXCEPT ![Conf("webhook", "url")] = "no url"],
          [FullTree EXCEPT ![Conf("server", "shared_folder")] = ""],
          [FullTree EXCEPT ![Conf("ssl", "key_file")] = "not a key"]}

=============================================================================
