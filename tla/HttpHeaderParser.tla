--------------------------- MODULE HttpHeaderParser ---------------------------
(***************************************************************************)
(* examples/parsers/http_parser: http_parser_execute (parser.c), called    *)
(* with a buffer that grows and the offset it has returned, and the        *)
(* callbacks of the Python module (http_parser.c), which fill the          *)
(* dictionary of the request.  The Python module itself always passes the  *)
(* offset 0: it is right for one call with all the header, as its test     *)
(* makes; what a second one comes to is HttpStartOver.                     *)
(*                                                                         *)
(* Positions count from 0 as in the code, the sequences of TLA+ from 1.    *)
(***************************************************************************)
EXTENDS HttpHeaderMachine, SequencesExt

CONSTANTS
    HttpInputs,  \* what clients send, see InputAssumption
    BufferLen    \* BUFF_LEN, 4096 in the code

Texts == Seq(HttpChars)

\* A request is written down part by part.  query and fragment hold one text or
\* none; a field has blanks before its value.  damage is 0, or the position of a
\* character that a control character has replaced.
ASSUME InputAssumption ==
    /\ BufferLen \in Nat
    /\ \A r \in HttpInputs :
        /\ {r.method, r.address, r.version, r.rest} \subseteq Texts
        /\ r.form \in {"star", "absolute", "path"}
        /\ r.query \in Seq(Texts) /\ r.fragment \in Seq(Texts)
        /\ r.fields \in Seq([name : Texts, value : Texts, blanks : Nat])
        /\ r.damage \in Nat

Crlf == <<"CR", "LF">>
Optional(mark, texts) == IF texts = <<>> THEN <<>> ELSE <<mark>> \o texts[1]
Uri(r) == r.address \o Optional("?", r.query)
FieldLine(f) == f.name \o <<":">> \o [i \in 1 .. f.blanks |-> " "] \o f.value \o Crlf
RequestLine(r) ==
    r.method \o <<" ">> \o Uri(r) \o Optional("#", r.fragment) \o <<" ">> \o r.version \o Crlf
HeaderOf(r) ==
    RequestLine(r) \o FlattenSeq([i \in DOMAIN r.fields |-> FieldLine(r.fields[i])]) \o Crlf
Intact(r) == HeaderOf(r) \o r.rest
TextOf(r) == IF r.damage = 0 THEN Intact(r) ELSE [Intact(r) EXCEPT ![r.damage] = "ctl"]

VARIABLES
    http_request,  \* the request that is being read
    http_text,     \* its characters
    http_pc,       \* idle, reading; what http_parser_finish says at the end; or
                   \* aborted, overflown, astray
    http,          \* the struct http_parser
    http_events,   \* (ghost) the calls of callbacks: what, and its texts
    environ        \* the dictionary of the Python caller

httpVars == <<http_request, http_text, http_pc, http, http_events, environ>>

\* http_parser_init; nread is what the last execute returned.
NewParser == [cs |-> HttpStart, mark |-> 0, nread |-> 0, body_start |-> 0,
              field_start |-> 0, field_len |-> 0, query_start |-> 0]

\* The keys are tuples.  The three names that header_done looks for and VERSION
\* are abbreviated to one letter.
Key(name) == <<name>>
FieldKey(upcased) == <<"HTTP_">> \o upcased
HTTP_HOST == FieldKey(<<"H">>)
HTTP_CONTENT_LENGTH == FieldKey(<<"T">>)
HTTP_CONTENT_TYPE == FieldKey(<<"P">>)
HTTP_VERSION == FieldKey(<<"_">>)
InputKey == Key("wsgi.input")
NoRequest == [form |-> "none"]

HttpInit ==
    /\ http_request = NoRequest /\ http_text = <<>> /\ http_pc = "idle"
    /\ http = NewParser
    /\ http_events = <<>>
    /\ environ = [k \in {InputKey} |-> <<>>]

-----------------------------------------------------------------------------
(***************************************************************************)
(* The dictionary.                                                         *)
(***************************************************************************)
Put(dict, key, text) == [k \in DOMAIN dict \cup {key} |-> IF k = key THEN text ELSE dict[k]]
Renamed(dict, from, to) ==
    IF from \notin DOMAIN dict THEN dict
    ELSE [k \in (DOMAIN dict \cup {to}) \ {from} |-> IF k = to THEN dict[from] ELSE dict[k]]
Default(dict, key) == IF key \in DOMAIN dict THEN dict ELSE Put(dict, key, <<>>)

Upcase(c) == IF c = "a" THEN "A" ELSE IF c \in {"g", "u"} THEN "G" ELSE c

http_field(dict, name, value) ==
    Put(dict, FieldKey([i \in DOMAIN name |-> Upcase(name[i])]), value)

request_path(dict, path) == Put(Put(dict, Key("REQUEST_PATH"), path), Key("PATH_INFO"), path)

\* The entries with a constant value are left out.
header_done(dict) ==
    LET moved == Renamed(Renamed(dict, HTTP_CONTENT_LENGTH, Key("CONTENT_LENGTH")),
                      HTTP_CONTENT_TYPE, Key("CONTENT_TYPE"))
        named == IF HTTP_HOST \in DOMAIN moved
                 THEN Put(moved, Key("SERVER_NAME"), moved[HTTP_HOST]) ELSE moved
    IN  Default(Default(named, Key("QUERY_STRING")), Key("PATH_INFO"))

Callback(dict, event) ==
    CASE event.what = "http_field" -> http_field(dict, event.texts[1], event.texts[2])
      [] event.what = "request_path" -> request_path(dict, event.texts[1])
      [] event.what = "header_done" -> header_done(dict)
      [] event.what = "request_method" -> Put(dict, Key("REQUEST_METHOD"), event.texts[1])
      [] event.what = "request_uri" -> Put(dict, Key("REQUEST_URI"), event.texts[1])
      [] event.what = "fragment" -> Put(dict, Key("FRAGMENT"), event.texts[1])
      [] event.what = "query_string" -> Put(dict, Key("QUERY_STRING"), event.texts[1])
      [] event.what = "http_version" -> Put(dict, HTTP_VERSION, event.texts[1])

\* The callbacks copy each text into a buffer without asking whether it fits, with
\* a NUL behind it, and a name also with five characters before it.
Overflows(event) ==
    \/ \E i \in DOMAIN event.texts : Len(event.texts[i]) >= BufferLen
    \/ event.what = "http_field" /\ Len(event.texts[1]) + 5 >= BufferLen

-----------------------------------------------------------------------------
(***************************************************************************)
(* http_parser_execute(parser, buffer, len, off) with off = nread <= len.  *)
(***************************************************************************)
\* The characters from position a up to, not including, position p.
Slice(a, p) == SubSeq(http_text, a + 1, p)
Event(what, texts) == [what |-> what, texts |-> texts]

\* One action of the machine at position p.  run.h is the parser, run.events
\* what it has reported in this call.
Act(run, act, p) ==
    CASE act = "mark" -> [run EXCEPT !.h.mark = p]
      [] act = "start_field" -> [run EXCEPT !.h.field_start = p]
      [] act = "write_field" -> [run EXCEPT !.h.field_len = p - run.h.field_start]
      [] act = "start_query" -> [run EXCEPT !.h.query_start = p]
      [] act = "http_field" ->
           [run EXCEPT !.events = Append(@, Event(act,
              <<Slice(run.h.field_start, run.h.field_start + run.h.field_len),
                Slice(run.h.mark, p)>>))]
      [] act = "query_string" ->
           [run EXCEPT !.events = Append(@, Event(act, <<Slice(run.h.query_start, p)>>))]
      [] act = "done" ->
           [run EXCEPT !.h.body_start = p + 1, !.events = Append(@, Event("header_done", <<>>))]
      [] OTHER -> [run EXCEPT !.events = Append(@, Event(act, <<Slice(run.h.mark, p)>>))]

\* The actions of an edge, in their order.
Acted(run, acts, p) == FoldLeft(LAMBDA r, act : Act(r, act, p), run, acts)

\* The character at position p; an error and the end of the header stop the run.
Character(run, p) ==
    LET e == Machine[run.h.cs][http_text[p + 1]] IN
    IF run.stopped THEN run
    ELSE IF e.to = HttpError THEN [run EXCEPT !.h.cs = HttpError, !.stopped = TRUE]
    ELSE [Acted(run, e.acts, p)
            EXCEPT !.h.cs = e.to, !.p = p + 1, !.stopped = (e.to = HttpFirstFinal)]

\* The run over the characters of a call whose buffer has len of them.
CharactersRead(len) ==
    LET off == http.nread
    IN  FoldLeft(Character, [h |-> http, events |-> <<>>, p |-> off, stopped |-> FALSE],
                 [i \in 1 .. len - off |-> off + i - 1])

\* The parser that a run leaves behind.
Stored(end, nread) == [end.h EXCEPT !.nread = nread + IF end.h.body_start # 0 THEN 1 ELSE 0]

\* The assertions at the end of the call, for a buffer of len characters.
Asserted(end, nread, len) ==
    /\ end.p <= len /\ nread <= len /\ end.h.body_start <= len
    /\ end.h.mark < len /\ end.h.field_len <= len /\ end.h.field_start < len

\* Mutant: what has been read is counted from the start of the buffer.
HttpExecuteCountsAgain(len) ==
    /\ http_pc = "reading" /\ http.cs # HttpError /\ http.body_start = 0
    /\ \E end \in {CharactersRead(len)} : LET nread == http.nread + end.p IN
       IF \E i \in DOMAIN end.events : Overflows(end.events[i])
       THEN http_pc' = "overflown" /\ UNCHANGED <<http, http_events, environ>>
       ELSE /\ http_pc' = IF Asserted(end, nread, len) THEN "reading" ELSE "aborted"
            /\ http' = Stored(end, nread)
            /\ http_events' = http_events \o end.events
            /\ environ' = FoldLeft(Callback, environ, end.events)
    /\ UNCHANGED <<http_request, http_text>>

\* The buffer has len characters by now.  When the header ends, nread counts one
\* character more than has been read.  An assertion that fails ends the process,
\* and a text that overflows its buffer leaves it undefined.
HttpExecute(len) ==
    /\ http_pc = "reading" /\ http.cs # HttpError /\ http.body_start = 0
    /\ \E end \in {CharactersRead(len)} : LET nread == http.nread + (end.p - http.nread) IN
       IF \E i \in DOMAIN end.events : Overflows(end.events[i])
       THEN http_pc' = "overflown" /\ UNCHANGED <<http, http_events, environ>>
       ELSE /\ http_pc' = IF Asserted(end, nread, len) THEN "reading" ELSE "aborted"
            /\ http' = Stored(end, nread)
            /\ http_events' = http_events \o end.events
            /\ environ' = FoldLeft(Callback, environ, end.events)
    /\ UNCHANGED <<http_request, http_text>>

\* A client connects; the caller makes a parser for its request.
HttpBegin ==
    /\ http_pc = "idle"
    /\ http_request' \in HttpInputs
    /\ http_text' = TextOf(http_request')
    /\ http_pc' = "reading"
    /\ UNCHANGED <<http, http_events, environ>>

HttpRead == \E len \in http.nread .. Len(http_text) : HttpExecute(len)

\* The Python module calls with the offset 0 again.  Unless that reading stops at an
\* error or at the end of a header, nread is longer than the buffer and the call is
\* aborted; before that, lengths counted from the marks of the last call may be
\* negative.  What it reports is not followed.
HttpStartOver ==
    /\ http_pc = "reading" /\ http.nread > 0
    /\ http_pc' = "astray"
    /\ UNCHANGED <<http_request, http_text, http, http_events, environ>>

\* http_parser_finish, when there is an answer or the client sends no more.
HttpFinish ==
    /\ http_pc = "reading"
    /\ http.cs \in {HttpError, HttpFirstFinal} \/ http.nread = Len(http_text)
    /\ http_pc' = CASE http.cs = HttpError -> "error"
                    [] http.cs = HttpFirstFinal -> "finished"
                    [] OTHER -> "incomplete"
    /\ UNCHANGED <<http_request, http_text, http, http_events, environ>>

HttpNext == HttpBegin \/ HttpRead \/ HttpStartOver \/ HttpFinish

HttpSpec == HttpInit /\ [][HttpNext]_httpVars

-----------------------------------------------------------------------------
(***************************************************************************)
(* Properties.                                                             *)
(***************************************************************************)
\* Type invariant of the header parser.
HttpTypeOK ==
    /\ http_pc \in {"idle", "reading", "error", "finished", "incomplete", "aborted", "overflown", "astray"}
    /\ http_text \in Texts
    /\ http.cs \in HttpStates
    /\ {http.mark, http.nread, http.body_start, http.field_start, http.field_len,
        http.query_start} \subseteq Nat
    /\ \A k \in DOMAIN environ : environ[k] \in Texts

\* What the client meant, as calls of the callbacks in their order.
Meant(r) ==
    LET path == <<Event("request_path", <<r.address>>)>>
        uri == <<Event("request_uri", <<Uri(r)>>)>> IN
    <<Event("request_method", <<r.method>>)>>
    \o (IF r.form # "path" THEN uri
        ELSE IF r.query = <<>> THEN path \o uri
        ELSE path \o <<Event("query_string", r.query)>> \o uri)
    \o (IF r.fragment = <<>> THEN <<>> ELSE <<Event("fragment", r.fragment)>>)
    \o <<Event("http_version", <<r.version>>)>>
    \o [i \in DOMAIN r.fields |->
          Event("http_field", <<r.fields[i].name, r.fields[i].value>>)]
    \o <<Event("header_done", <<>>)>>

\* The fields whose value, or the line end behind it, is damaged, and the number of
\* calls before the one for field i.
Spoilt(r) ==
    {i \in DOMAIN r.fields : r.damage # 0 /\
       LET line == Len(RequestLine(r) \o FlattenSeq([j \in 1 .. i |-> FieldLine(r.fields[j])]))
           value == line - 1 - Len(r.fields[i].value) - r.fields[i].blanks
       IN  r.damage \in value .. line - 1}
CallsBefore(r, i) == Len(Meant(r)) - 1 - Len(r.fields) + i - 1

\* However the client's bytes are cut, and whatever single character outside the
\* values is damaged: the callbacks so far are the first ones the client meant, each
\* with its own text and nothing else; a request in order is never refused and is
\* reported to its end; a damaged one is refused.  A control character in a value is
\* part of the value for the code, and one in place of the CR behind it lets the
\* value run on to the next CR; then the calls before it are still the ones that
\* were meant.  A text is only copied beyond its buffer if the client made one so
\* long.
CallbacksAreMeant ==
    http_pc # "idle" =>
      LET r == http_request
          meant == Meant(r) IN
      /\ Spoilt(r) = {} =>
           /\ IsPrefix(http_events, meant)
           /\ http_pc \in {"error", "incomplete"} => r.damage # 0
           /\ http_pc = "finished" =>
                /\ r.damage = 0
                /\ http_events = meant
                /\ http.body_start = Len(HeaderOf(r))
           /\ http_pc = "overflown" => \E i \in DOMAIN meant : Overflows(meant[i])
      /\ \A i \in Spoilt(r) :
           \/ IsPrefix(http_events, meant)
           \/ IsPrefix(SubSeq(meant, 1, CallsBefore(r, i)), http_events)

\* No assertion at the end of http_parser_execute fails however the header is cut,
\* as long as there is something to read: only the call with an empty first buffer,
\* whose marks cannot lie before its end, is aborted.
HttpAsserts == http_pc = "aborted" => http.nread = 0 /\ http.cs # HttpError

\* The dictionary says what the request was: the parts that the client left out
\* are empty and not missing, a header stands under its own name with the value
\* that came last, and the host is the server's name.  (A header called Version
\* would take the place of the protocol's version.)
EnvironTellsRequest ==
    http_pc = "finished" /\ http_request.damage = 0 =>
      LET r == http_request
          given(name) == {i \in DOMAIN r.fields : r.fields[i].name = name}
          last(name) == r.fields[CHOOSE i \in given(name) : \A j \in given(name) : j <= i].value
          has(key, text) == key \in DOMAIN environ /\ environ[key] = text IN
      /\ has(Key("REQUEST_METHOD"), r.method) /\ has(Key("REQUEST_URI"), Uri(r))
      /\ has(Key("PATH_INFO"), IF r.form = "path" THEN r.address ELSE <<>>)
      /\ has(Key("QUERY_STRING"), IF r.form = "path" /\ r.query # <<>> THEN r.query[1] ELSE <<>>)
      /\ given(<<"_">>) = {} => has(HTTP_VERSION, r.version)
      /\ given(<<"H">>) # {} => has(HTTP_HOST, last(<<"H">>)) /\ has(Key("SERVER_NAME"), last(<<"H">>))
      /\ IF given(<<"T">>) # {} THEN has(Key("CONTENT_LENGTH"), last(<<"T">>))
         ELSE Key("CONTENT_LENGTH") \notin DOMAIN environ
      /\ {HTTP_CONTENT_LENGTH, HTTP_CONTENT_TYPE} \cap DOMAIN environ = {}

=============================================================================
