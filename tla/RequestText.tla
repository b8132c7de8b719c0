------------------------------ MODULE RequestText ------------------------------
(***************************************************************************)
(* The texts of core/shared/http/http_request.hpp: a URI is cut into its   *)
(* parts, a request is written out, and the header of a response is read.  *)
(* ResponseReader has the socket and the body of the same call.            *)
(*                                                                         *)
(* A text is a sequence of characters.  One character stands for all those *)
(* the code does not tell apart; words the code compares are characters    *)
(* too: "http" (a scheme, letters), "HTTP/" (the start of a version).      *)
(***************************************************************************)
EXTENDS Integers, Sequences, FiniteSets, SequencesExt

CONSTANTS
    UriStarts,   \* how the texts of URIs begin, see TextAssumption
    MaxUri,      \* bound: the characters that follow
    HeaderLists, \* the fields that a caller gives to send()
    BodySizes,   \* bound: the sizes of the body, in digits
    Responses,   \* the headers that servers send
    SizeBits     \* the bits of size_t, 64 in the code

Alpha == {"x", "X", "http", "host", "length", "coding", "chunked"}
DigitChar == {"0", "1"}
WhiteSpace == {" ", "TAB"}
TokenChars == Alpha \cup DigitChar \cup {"+", "#"}
VisibleChars == TokenChars \cup {":", "/", "?", "@", "=", "HTTP/", "."}
FieldChars == WhiteSpace \cup VisibleChars
TextChars == FieldChars \cup {"CR", "LF", "ctl"}
UriTail == {"x", ":", "/", "#", "?", "@", " ", "CR", "LF"}

\* A field of a response has pieces: the first text of its value, and the texts
\* behind obsolete line folds, each after some blanks.  damage is 0 or the
\* position of a character that a control character has replaced.
SentFields == [name : Seq(TokenChars), pieces : Seq([blanks : Nat, text : Seq(FieldChars)])]

\* That a power of two is positive is something TLC knows and the provers do not.
ASSUME TextAssumption ==
    /\ UriStarts \subseteq Seq(TextChars) /\ MaxUri \in Nat
    /\ SizeBits \in Nat /\ 2^SizeBits > 0
    /\ HeaderLists \subseteq Seq([name : Seq(TextChars), value : Seq(TextChars)])
    /\ BodySizes \subseteq Seq(DigitChar)
    /\ \A r \in Responses : /\ r.code \in Seq(DigitChar) /\ r.reason \in Seq(FieldChars)
                            /\ r.fields \in Seq(SentFields) /\ r.damage \in Nat

ToLower(text) == [i \in DOMAIN text |-> IF text[i] = "X" THEN "x" ELSE text[i]]

-----------------------------------------------------------------------------
(***************************************************************************)
(* parseUri.                                                               *)
(***************************************************************************)
\* The first place of c in text, or one place behind its end.
FirstOf(text, c) ==
    LET at == {i \in DOMAIN text : text[i] = c}
    IN  IF at = {} THEN Len(text) + 1 ELSE CHOOSE i \in at : \A j \in at : i <= j
Before(text, c) == SubSeq(text, 1, FirstOf(text, c) - 1)
Behind(text, c) == SubSeq(text, FirstOf(text, c) + 1, Len(text))

SchemeEnd(text) ==
    LET out == {i \in DOMAIN text : text[i] \notin Alpha \cup DigitChar \cup {"+", "."}}
    IN  IF out = {} THEN Len(text) + 1 ELSE CHOOSE i \in out : \A j \in out : i <= j
HasScheme(text) ==
    /\ text # <<>> /\ text[1] \in Alpha
    /\ IsPrefix(<<":", "/", "/">>, SubSeq(text, SchemeEnd(text), Len(text)))

\* Mutant: the query is cut off before the fragment.
parseUriQueryFirst(text) ==
    LET rest == SubSeq(text, SchemeEnd(text) + 3, Len(text))
        whole == Before(rest, "?")
        toQuery == Before(whole, "#")
        authority == Before(toQuery, "/")
        userinfo == IF FirstOf(authority, "@") > Len(authority) THEN <<>> ELSE Before(authority, "@")
        hostPort == IF FirstOf(authority, "@") > Len(authority) THEN authority
                    ELSE Behind(authority, "@")
        path == SubSeq(toQuery, FirstOf(toQuery, "/"), Len(toQuery))
    IN  [scheme |-> SubSeq(text, 1, SchemeEnd(text) - 1),
         user |-> Before(userinfo, ":"), password |-> Behind(userinfo, ":"),
         host |-> Before(hostPort, ":"), port |-> Behind(hostPort, ":"),
         path |-> IF path = <<>> THEN <<"/">> ELSE path,
         query |-> Behind(rest, "?"), fragment |-> Behind(whole, "#")]

parseUri(text) ==
    LET rest == SubSeq(text, SchemeEnd(text) + 3, Len(text))
        whole == Before(rest, "#")
        toQuery == Before(whole, "?")
        authority == Before(toQuery, "/")
        userinfo == IF FirstOf(authority, "@") > Len(authority) THEN <<>> ELSE Before(authority, "@")
        hostPort == IF FirstOf(authority, "@") > Len(authority) THEN authority
                    ELSE Behind(authority, "@")
        path == SubSeq(toQuery, FirstOf(toQuery, "/"), Len(toQuery))
    IN  [scheme |-> SubSeq(text, 1, SchemeEnd(text) - 1),
         user |-> Before(userinfo, ":"), password |-> Behind(userinfo, ":"),
         host |-> Before(hostPort, ":"), port |-> Behind(hostPort, ":"),
         path |-> IF path = <<>> THEN <<"/">> ELSE path,
         query |-> Behind(whole, "?"), fragment |-> Behind(rest, "#")]

NoUri == [scheme |-> <<>>, user |-> <<>>, password |-> <<>>, host |-> <<>>, port |-> <<>>,
          path |-> <<>>, query |-> <<>>, fragment |-> <<>>]

-----------------------------------------------------------------------------
(***************************************************************************)
(* encodeHtml and what it calls.                                           *)
(***************************************************************************)
Field(name, value) == [name |-> name, value |-> value]
Line(text) == text \o <<"CR", "LF">>

Encodable(field) ==
    /\ field.name # <<>> /\ ToSet(field.name) \subseteq TokenChars
    /\ ToSet(field.value) \subseteq FieldChars
encodeHeaderFields(fields) ==
    FlattenSeq([i \in DOMAIN fields |->
                  Line(fields[i].name \o <<":", " ">> \o fields[i].value)])

encodeRequestLine(target) == Line(<<"method", " ">> \o target \o <<" ", "HTTP/", "1", ".", "1">>)

\* The code of a character in a user or a password, to have something to encode.
ByteOf(c) == CASE c = "x" -> 120 [] c = "?" -> 63 [] c = ":" -> 58 [] OTHER -> 255
Pad == -1

\* Three bytes become four indices of chars; the last one or two bytes become two
\* or three, and padding.
encodeBase64(bytes) ==
    LET n == Len(bytes)
        at(i) == IF i <= n THEN bytes[i] ELSE 0
        group(i) == <<at(i) \div 4, (at(i) % 4) * 16 + at(i + 1) \div 16,
                      IF i + 1 > n THEN Pad
                      ELSE (at(i + 1) % 16) * 4 + at(i + 2) \div 64,
                      IF i + 2 > n THEN Pad ELSE at(i + 2) % 64>>
    IN  FlattenSeq([g \in 1 .. (n + 2) \div 3 |-> group(3 * g - 2)])

Target(uri) == uri.path \o IF uri.query = <<>> THEN <<>> ELSE <<"?">> \o uri.query
HasUser(uri) == uri.user # <<>> \/ uri.password # <<>>
UserBytes(uri) ==
    LET userinfo == uri.user \o <<":">> \o uri.password
    IN  [i \in DOMAIN userinfo |-> ByteOf(userinfo[i])]

\* The fields of the caller, the host without its port, and the length.  The value
\* of Authorization is kept as its bytes in rt_credentials.
AllFields(uri, fields, size) ==
    fields \o <<Field(<<"host">>, uri.host), Field(<<"length">>, size)>>

VARIABLES
    rt_pc,          \* typing, parsed, encoded; status, header, read; threw
    rt_text,        \* the text of the URI; the wire; then what is left of the response
    rt_uri,         \* the URI in parts
    rt_fields,      \* given by the caller; then read from the response
    rt_credentials, \* the indices of Authorization
    rt_response,    \* the response that is being read
    rt_length       \* contentLength, or -1

textVars == <<rt_pc, rt_text, rt_uri, rt_fields, rt_credentials, rt_response, rt_length>>

NoAnswer == [code |-> <<>>]

\* The text of a response, without the empty line at its end.
FieldText(f) ==
    f.name \o <<":">>
    \o FlattenSeq([i \in DOMAIN f.pieces |->
         (IF i = 1 THEN <<>> ELSE <<"CR", "LF">>)
         \o [j \in 1 .. f.pieces[i].blanks |-> " "] \o f.pieces[i].text])
HeaderText(r) ==
    LET intact == Line(<<"HTTP/", "1", ".", "1", " ">> \o r.code \o <<" ">> \o r.reason)
                  \o FlattenSeq([i \in DOMAIN r.fields |-> Line(FieldText(r.fields[i]))])
    IN  IF r.damage = 0 THEN intact ELSE [intact EXCEPT ![r.damage] = "ctl"]

TextInit ==
    /\ \/ rt_pc = "typing" /\ rt_text \in UriStarts /\ rt_response = NoAnswer
       \/ rt_pc = "status" /\ rt_response \in Responses /\ rt_text = HeaderText(rt_response)
    /\ rt_uri = NoUri
    /\ rt_fields = <<>> /\ rt_credentials = <<>> /\ rt_length = -1

TypeUri ==
    /\ rt_pc = "typing" /\ Len(rt_text) < MaxUri
    /\ \E c \in UriTail : rt_text' = Append(rt_text, c)
    /\ UNCHANGED <<rt_pc, rt_uri, rt_fields, rt_credentials, rt_response, rt_length>>

ParseUri ==
    /\ rt_pc = "typing"
    /\ IF HasScheme(rt_text) THEN rt_pc' = "parsed" /\ rt_uri' = parseUri(rt_text)
       ELSE rt_pc' = "threw" /\ UNCHANGED rt_uri
    /\ UNCHANGED <<rt_text, rt_fields, rt_credentials, rt_response, rt_length>>

\* send() as far as the bytes of the request.
EncodeRequest ==
    /\ rt_pc = "parsed"
    /\ \E fields \in HeaderLists, size \in BodySizes :
          LET all == AllFields(rt_uri, fields, size) IN
          IF rt_uri.scheme # <<"http">> \/ \E i \in DOMAIN all : ~Encodable(all[i])
          THEN rt_pc' = "threw" /\ UNCHANGED <<rt_text, rt_fields, rt_credentials>>
          ELSE /\ rt_pc' = "encoded" /\ rt_fields' = all
               /\ rt_text' = encodeRequestLine(Target(rt_uri)) \o encodeHeaderFields(all)
                             \o <<"CR", "LF">>
               /\ rt_credentials' = IF HasUser(rt_uri) THEN encodeBase64(UserBytes(rt_uri)) ELSE <<>>
    /\ UNCHANGED <<rt_uri, rt_response, rt_length>>

-----------------------------------------------------------------------------
(***************************************************************************)
(* The header of a response.  A position is the one of the next character; *)
(* 0 stands for a ResponseError.                                           *)
(***************************************************************************)
\* The first position from i on whose character is not in chars.
RunEnd(text, i, chars) ==
    LET end[j \in i .. Len(text) + 1] ==
            IF j <= Len(text) /\ text[j] \in chars THEN end[j + 1] ELSE j
    IN  end[i]
LineEnds(text, i) == i < Len(text) /\ SubSeq(text, i, i + 1) = <<"CR", "LF">>

CharAt(text, i, chars) == i \in DOMAIN text /\ text[i] \in chars

parseVersion(text) ==
    IF CharAt(text, 1, {"HTTP/"}) /\ CharAt(text, 2, DigitChar) /\ CharAt(text, 3, {"."}) /\ CharAt(text, 4, DigitChar)
    THEN 5 ELSE 0

parseStatusCode(text, begin) ==
    LET end == RunEnd(text, begin, DigitChar) IN IF end = begin + 3 THEN end ELSE 0

parseReasonPhrase(text, begin) == RunEnd(text, begin, FieldChars)

parseStatusLine(text) ==
    LET code == parseVersion(text)
        reason == parseStatusCode(text, code + 1)
        end == parseReasonPhrase(text, reason + 1) IN
    IF code # 0 /\ CharAt(text, code, {" "}) /\ reason # 0 /\ CharAt(text, reason, {" "}) /\ LineEnds(text, end)
    THEN end + 2 ELSE 0

ParseStatusLine ==
    /\ rt_pc = "status"
    /\ LET next == parseStatusLine(rt_text) IN
       IF next = 0 THEN rt_pc' = "threw" /\ UNCHANGED rt_text
       ELSE rt_pc' = "header" /\ rt_text' = SubSeq(rt_text, next, Len(rt_text))
    /\ UNCHANGED <<rt_uri, rt_fields, rt_credentials, rt_response, rt_length>>

TrimEnd(text) ==
    LET kept == {i \in DOMAIN text : text[i] \notin WhiteSpace}
    IN  IF kept = {} THEN <<>> ELSE SubSeq(text, 1, CHOOSE i \in kept : \A j \in kept : j <= i)

\* A fold is a line end and one blank; it becomes a blank.
parseFieldContent(text, begin) ==
    LET content[i \in begin .. Len(text) + 1] ==
            LET end == RunEnd(text, i, FieldChars)
                piece == TrimEnd(SubSeq(text, i, end - 1)) IN
            IF LineEnds(text, end) /\ end + 2 <= Len(text) /\ text[end + 2] \in WhiteSpace
            THEN [content[end + 3] EXCEPT !.value = piece \o <<" ">> \o @]
            ELSE [value |-> piece, next |-> end]
    IN  content[begin]

parseToken(text) ==
    LET end == RunEnd(text, 1, TokenChars) IN IF end > 1 THEN end ELSE 0

parseHeaderField(text) ==
    LET nameEnd == parseToken(text) IN
    IF CharAt(text, nameEnd, {":"})
    THEN LET content == parseFieldContent(text, RunEnd(text, nameEnd + 1, WhiteSpace)) IN
         IF LineEnds(text, content.next)
         THEN [field |-> Field(ToLower(SubSeq(text, 1, nameEnd - 1)), content.value),
               next |-> content.next + 2]
         ELSE [field |-> Field(<<>>, <<>>), next |-> 0]
    ELSE [field |-> Field(<<>>, <<>>), next |-> 0]

digitToUint(c) == IF c = "1" THEN 1 ELSE 0

\* The digits are summed up in a size_t.
AddDigit(sum, c) == (10 * sum + digitToUint(c)) % 2^SizeBits
stringToUint(digits) == FoldLeft(AddDigit, 0, digits)

\* One turn of the loop over the fields, with what it makes of two of them.
ParseHeaderField ==
    /\ rt_pc = "header"
    /\ LET r == parseHeaderField(rt_text)
           bad == \/ r.next = 0
                  \/ r.field.name = <<"coding">> /\ r.field.value # <<"chunked">>
                  \/ r.field.name = <<"length">> /\ ~(ToSet(r.field.value) \subseteq DigitChar) IN
       IF bad THEN rt_pc' = "threw" /\ UNCHANGED <<rt_text, rt_fields, rt_length>>
       ELSE /\ rt_fields' = Append(rt_fields, r.field)
            /\ rt_length' = IF r.field.name = <<"length">> THEN stringToUint(r.field.value)
                            ELSE rt_length
            /\ rt_text' = SubSeq(rt_text, r.next, Len(rt_text))
            /\ rt_pc' = IF rt_text' = <<>> THEN "read" ELSE "header"
    /\ UNCHANGED <<rt_uri, rt_credentials, rt_response>>

TextNext == TypeUri \/ ParseUri \/ EncodeRequest \/ ParseStatusLine \/ ParseHeaderField

TextSpec == TextInit /\ [][TextNext]_textVars

-----------------------------------------------------------------------------
(***************************************************************************)
(* Properties.                                                             *)
(***************************************************************************)
\* Type invariant of the texts.
TextTypeOK ==
    /\ rt_pc \in {"typing", "parsed", "encoded", "status", "header", "read", "threw"}
    /\ rt_text \in Seq(TextChars \cup {"method"})
    /\ \A part \in DOMAIN rt_uri : rt_uri[part] \in Seq(TextChars)
    /\ \A i \in DOMAIN rt_fields : rt_fields[i].value \in Seq(TextChars)
    /\ \A i \in DOMAIN rt_credentials : rt_credentials[i] \in Pad .. 63
    /\ rt_length \in -1 .. 2^SizeBits - 1

\* What separates two parts of a URI may be there or not when the part is empty.
Part(mark, text) == {<<mark>> \o text} \cup IF text = <<>> THEN {<<>>} ELSE {}
Joined(uri) ==
    {uri.scheme \o <<":", "/", "/">> \o user \o uri.host \o port \o path \o query \o fragment :
       user \in {none \in {<<>>} : "@" \notin ToSet(uri.host)} \cup
               {uri.user \o password \o <<"@">> : password \in Part(":", uri.password)},
       port \in Part(":", uri.port),
       path \in {uri.path} \cup IF uri.path = <<"/">> THEN {<<>>} ELSE {},
       query \in Part("?", uri.query), fragment \in Part("#", uri.fragment)}

Without(text, chars) == ToSet(text) \cap chars = {}

\* A URI is cut where RFC 3986 cuts it: its parts make up its text, and no part
\* holds the mark that ends it.
UriIsItsParts ==
    rt_pc = "parsed" =>
      /\ rt_text \in Joined(rt_uri)
      /\ Without(rt_uri.user, {":", "@", "/", "?", "#"}) /\ Without(rt_uri.password, {"@", "/", "?", "#"})
      /\ Without(rt_uri.host, {":", "/", "?", "#"}) /\ Without(rt_uri.port, {"/", "?", "#"})
      /\ Without(rt_uri.path, {"?", "#"}) /\ rt_uri.path[1] = "/" /\ Without(rt_uri.query, {"#"})

\* The bytes that the indices stand for, three to four.
Decoded(indices) ==
    LET at(i) == IF indices[i] = Pad THEN 0 ELSE indices[i]
        word(g) == ((at(4 * g - 3) * 64 + at(4 * g - 2)) * 64 + at(4 * g - 1)) * 64 + at(4 * g)
        bytes == FlattenSeq([g \in 1 .. Len(indices) \div 4 |->
                    <<word(g) \div 65536, (word(g) \div 256) % 256, word(g) % 256>>])
    IN  SubSeq(bytes, 1, Len(bytes) - Cardinality({i \in DOMAIN indices : indices[i] = Pad}))

\* The request line as a server reads it: the target ends at the first blank or
\* line end, and the version has to follow.
Breaks == {" ", "CR", "LF"}
TargetEnd(text) == CHOOSE i \in 3 .. Len(text) :
                     text[i] \in Breaks /\ \A j \in 3 .. i - 1 : text[j] \notin Breaks
LineIsRead(text, target) ==
    LET end == TargetEnd(text) IN
    /\ SubSeq(text, 3, end - 1) = target
    /\ SubSeq(text, end, end + 6) = Line(<<" ", "HTTP/", "1", ".", "1">>)

\* What send() writes can be read back: behind the request line, the parser of the
\* library itself finds the fields that were given, in their order and with nothing
\* of the caller's text taken for another line; and the credentials decode to those
\* of the URI.  The request line is the one that was meant exactly when path and
\* query hold no blank and no line end: parseUri takes such a URI and send() writes
\* it as it is, so that a server finds another target, another version or more
\* lines.  (In the host they are refused with the other fields, but for the blank.)
RequestReadsBack ==
    rt_pc = "encoded" =>
      LET line == Len(encodeRequestLine(Target(rt_uri)))
          header == SubSeq(rt_text, line + 1, Len(rt_text) - 2)
          read[k \in 0 .. Len(rt_fields)] ==
              IF k = 0 THEN [next |-> 1, good |-> TRUE]
              ELSE LET r == parseHeaderField(SubSeq(header, read[k - 1].next, Len(header))) IN
                   [next |-> read[k - 1].next + r.next - 1,
                    good |-> /\ read[k - 1].good /\ r.next > 0
                             /\ r.field.name = ToLower(rt_fields[k].name)
                             /\ r.field.value =
                                  SubSeq(TrimEnd(rt_fields[k].value),
                                         RunEnd(rt_fields[k].value, 1, WhiteSpace),
                                         Len(TrimEnd(rt_fields[k].value)))] IN
      /\ LineIsRead(rt_text, Target(rt_uri)) <=> Without(Target(rt_uri), Breaks)
      /\ read[Len(rt_fields)].good /\ read[Len(rt_fields)].next = Len(header) + 1
      /\ HasUser(rt_uri) => Decoded(rt_credentials) = UserBytes(rt_uri)

\* What the server means with a field.
MeantField(f) ==
    Field(ToLower(f.name),
          FlattenSeq([i \in DOMAIN f.pieces |->
             (IF i = 1 THEN <<>> ELSE [j \in 1 .. f.pieces[i].blanks |-> " "]) \o f.pieces[i].text]))

\* A response is read as the server means it, its folded lines joined by their
\* blanks; one with a damaged character, or with a length that is no number, is
\* never taken for a response.  The length is the one that was sent last, modulo
\* what a size_t can hold: a longer one is not refused but taken for another.
ResponseReadsBack ==
    LET r == rt_response
        exact(digits) == FoldLeft(LAMBDA sum, c : 10 * sum + IF c = "1" THEN 1 ELSE 0, 0, digits) IN
    /\ rt_pc \in {"header", "read"} =>
         IsPrefix(rt_fields, [i \in DOMAIN r.fields |-> MeantField(r.fields[i])])
    /\ rt_pc = "read" =>
         LET lengths == {i \in DOMAIN r.fields : r.fields[i].name = <<"length">>}
             sent == exact(rt_fields[CHOOSE i \in lengths : \A j \in lengths : j <= i].value) IN
         /\ Len(rt_fields) = Len(r.fields) /\ r.damage = 0
         /\ lengths # {} => rt_length = sent % 2^SizeBits
    /\ rt_pc = "threw" /\ r # NoAnswer =>
         \/ r.damage # 0 \/ Len(r.code) # 3
         \/ \E i \in DOMAIN r.fields :
               /\ r.fields[i].name \in {<<"length">>, <<"coding">>}
               /\ MeantField(r.fields[i]).value # <<"chunked">>

=============================================================================
