---------------------------- MODULE ResponseReader ----------------------------
(***************************************************************************)
(* Request::send of core/shared/http/http_request.hpp, one call: the       *)
(* connection, the request, and the incremental parser of the response.    *)
(*                                                                         *)
(* The peer sends one well-formed response.  TCP cuts it anywhere: every   *)
(* recv returns one or more of the bytes that are left, and the connection *)
(* may break between any two.  A byte of the wire is a string: "CR", "LF", *)
(* a hex digit, a letter of the status line ("s"), a whole header field    *)
(* ("length", "chunked", "other") or a byte of data.                       *)
(***************************************************************************)
EXTENDS Naturals, Sequences, SequencesExt

CONSTANTS
    Messages,    \* the responses: [fields, chunks], see MessageAssumption
    RequestSize, \* bound: the bytes of the request
    RecvMax,     \* bound: the bytes of tempBuffer
    Timed        \* TRUE when the caller gives a timeout, FALSE for -1

Fields == {"length", "chunked", "other"}
Digits == {"0", "1", "2", "3"}
Bytes == {"CR", "LF", "s", "d"} \cup Fields \cup Digits
DigitValue == [c \in Digits |-> CASE c = "0" -> 0 [] c = "1" -> 1
                                  [] c = "2" -> 2 [] c = "3" -> 3]
DigitOf(n) == CHOOSE c \in Digits : DigitValue[c] = n

\* chunks is the body: the chunks of a chunked one, or a single piece.
ASSUME MessageAssumption ==
    \A m \in Messages :
        /\ m.fields \in Seq(Fields)
        /\ m.chunks \in Seq(Seq(Bytes))
        /\ \A i \in DOMAIN m.chunks : Len(m.chunks[i]) \in 1..3

ASSUME BoundAssumption == RequestSize \in Nat /\ RecvMax \in Nat \ {0} /\ Timed \in BOOLEAN

crlf == <<"CR", "LF">>
headerEnd == crlf \o crlf

IsChunked(m) == "chunked" \in ToSet(m.fields)
HasLength(m) == "length" \in ToSet(m.fields)

\* What the peer means, and the bytes it sends for it.
Payload(m) == FlattenSeq(m.chunks)
ContentLength(m) == Len(Payload(m))
EncodeChunk(c) == <<DigitOf(Len(c))>> \o crlf \o c \o crlf
Wire(m) ==
    <<"s">> \o crlf \o FlattenSeq([i \in DOMAIN m.fields |-> <<m.fields[i]>> \o crlf]) \o crlf
    \o IF IsChunked(m)
       THEN FlattenSeq([i \in DOMAIN m.chunks |-> EncodeChunk(m.chunks[i])])
            \o <<"0">> \o crlf \o crlf
       ELSE Payload(m)

VARIABLES
    pc,          \* resolve, socket, connect, send, recv, header, body, chunks,
                 \* returned, threw
    endpoint,    \* the descriptor of the Socket: none, open, closed
    remaining,   \* bytes of the request still to send
    message,     \* the response of the peer
    received,    \* how many bytes of its wire recv has returned
    disconnected,
    responseData, parsingBody, contentLengthReceived, contentLength,
    chunkedResponse, expectedChunkSize, removeCrlfAfterChunk,
    body,        \* response.body
    why          \* (ghost) what made the call throw

parser == <<responseData, parsingBody, contentLengthReceived, contentLength,
            chunkedResponse, expectedChunkSize, removeCrlfAfterChunk, body>>
network == <<endpoint, remaining, message, received, disconnected>>
header == <<parsingBody, contentLengthReceived, contentLength, chunkedResponse>>
vars == <<pc, network, parser, why>>

Init ==
    /\ pc = "resolve" /\ endpoint = "none"
    /\ remaining = RequestSize
    /\ message \in Messages
    /\ received = 0 /\ disconnected = FALSE
    /\ responseData = <<>> /\ parsingBody = FALSE
    /\ contentLengthReceived = FALSE /\ contentLength = 0
    /\ chunkedResponse = FALSE /\ expectedChunkSize = 0
    /\ removeCrlfAfterChunk = FALSE
    /\ body = <<>> /\ why = "none"

Throw(reason) == pc' = "threw" /\ why' = reason
Goto(to) == pc' = to /\ UNCHANGED why
Return == Goto("returned")

-----------------------------------------------------------------------------
(***************************************************************************)
(* The socket.                                                             *)
(***************************************************************************)
\* getaddrinfo and encodeHtml; RequestText has the URI and the bytes.
Resolve ==
    /\ pc = "resolve"
    /\ Goto("socket")
    /\ UNCHANGED <<network, parser>>

ResolveFails ==
    /\ pc = "resolve"
    /\ Throw("resolve")
    /\ UNCHANGED <<network, parser>>

OpenSocket ==
    /\ pc = "socket"
    /\ endpoint' = "open"
    /\ Goto("connect")
    /\ UNCHANGED <<remaining, message, received, disconnected, parser>>

\* Mutant: the constructor throws without a close.
OpenFailsOpen ==
    /\ pc = "socket"
    /\ endpoint' \in {"none", "open"}
    /\ Throw("constructor")
    /\ UNCHANGED <<remaining, message, received, disconnected, parser>>

\* Without a descriptor, or without its flags: an object that has not been
\* constructed is not destroyed, so the constructor closes the descriptor itself.
OpenFails ==
    /\ pc = "socket"
    /\ endpoint' \in {"none", "closed"}
    /\ Throw("constructor")
    /\ UNCHANGED <<remaining, message, received, disconnected, parser>>

\* ~Socket, on the way out of send().
ReleaseSocket ==
    /\ pc \in {"returned", "threw"} /\ endpoint = "open" /\ why # "constructor"
    /\ endpoint' = "closed"
    /\ UNCHANGED <<pc, remaining, message, received, disconnected, parser, why>>

Connect ==
    /\ pc = "connect"
    /\ Goto(IF remaining > 0 THEN "send" ELSE "recv")
    /\ UNCHANGED <<network, parser>>

\* Mutant: every call of send is given the length of the whole request.
SendPartWhole ==
    /\ pc = "send"
    /\ \E size \in 1..RequestSize : remaining' = remaining - size
    /\ Goto(IF remaining' > 0 THEN "send" ELSE "recv")
    /\ UNCHANGED <<endpoint, message, received, disconnected, parser>>

SendPart ==
    /\ pc = "send"
    /\ \E size \in 1..remaining : remaining' = remaining - size
    /\ Goto(IF remaining' > 0 THEN "send" ELSE "recv")
    /\ UNCHANGED <<endpoint, message, received, disconnected, parser>>

InSocket == pc \in {"connect", "send", "recv"}

\* The connection is refused, or the wait for it fails.
ConnectFails ==
    /\ pc = "connect"
    /\ Throw("socket")
    /\ UNCHANGED <<network, parser>>

SendFails ==
    /\ pc = "send"
    /\ Throw("socket")
    /\ UNCHANGED <<network, parser>>

RecvFails ==
    /\ pc = "recv"
    /\ Throw("socket")
    /\ UNCHANGED <<network, parser>>

\* select() returns 0, on the way to connect, send or recv.
TimesOut ==
    /\ InSocket /\ Timed
    /\ Throw("timeout")
    /\ UNCHANGED <<network, parser>>

\* An empty line has to be in what the first recv returned: the search is made
\* before anything else is received.
Receive ==
    /\ pc = "recv"
    /\ \E size \in 1..RecvMax :
          /\ received + size <= Len(Wire(message))
          /\ received' = received + size
          /\ responseData' = responseData \o SubSeq(Wire(message), received + 1, received')
    /\ Goto(IF ~parsingBody THEN "header" ELSE IF chunkedResponse THEN "chunks" ELSE "body")
    /\ UNCHANGED <<endpoint, remaining, message, disconnected, header, expectedChunkSize,
                   removeCrlfAfterChunk, body>>

Disconnected ==
    /\ pc = "recv"
    /\ disconnected' = TRUE
    /\ Return
    /\ UNCHANGED <<endpoint, remaining, message, received, parser>>

-----------------------------------------------------------------------------
(***************************************************************************)
(* The header section.                                                     *)
(***************************************************************************)
\* Where sep begins in s for the first time, or 0.
Find(s, sep) ==
    LET at == {i \in 1..(Len(s) + 1 - Len(sep)) : SubSeq(s, i, i + Len(sep) - 1) = sep}
    IN  IF at = {} THEN 0 ELSE Min(at)

NoHeaderEnd ==
    /\ pc = "header" /\ Find(responseData, headerEnd) = 0
    /\ Return
    /\ UNCHANGED <<network, parser>>

\* Mutant: only one of the two line ends is skipped.
ParseHeaderShort ==
    /\ pc = "header"
    /\ LET e == Find(responseData, headerEnd)
           names == ToSet(SubSeq(responseData, 4, e)) \cap Fields IN
       /\ e > 3
       /\ chunkedResponse' = ("chunked" \in names)
       /\ contentLengthReceived' = ("length" \in names)
       /\ contentLength' = IF "length" \in names THEN ContentLength(message) ELSE 0
       /\ responseData' = SubSeq(responseData, e + 2, Len(responseData))
       /\ parsingBody' = TRUE
       /\ Goto(IF "chunked" \in names THEN "chunks" ELSE "body")
    /\ UNCHANGED <<network, expectedChunkSize, removeCrlfAfterChunk, body>>

\* The status line is three bytes, the fields lie between it and the empty line.
ParseHeader ==
    /\ pc = "header"
    /\ LET e == Find(responseData, headerEnd)
           names == ToSet(SubSeq(responseData, 4, e)) \cap Fields IN
       /\ e > 3
       /\ chunkedResponse' = ("chunked" \in names)
       /\ contentLengthReceived' = ("length" \in names)
       /\ contentLength' = IF "length" \in names THEN ContentLength(message) ELSE 0
       /\ responseData' = SubSeq(responseData, e + 4, Len(responseData))
       /\ parsingBody' = TRUE
       /\ Goto(IF "chunked" \in names THEN "chunks" ELSE "body")
    /\ UNCHANGED <<network, expectedChunkSize, removeCrlfAfterChunk, body>>

\* parseHeaderField is called before the end is looked for: without a field the
\* token is empty.
ParseNoField ==
    /\ pc = "header" /\ Find(responseData, headerEnd) = 2
    /\ Throw("token")
    /\ UNCHANGED <<network, parser>>

-----------------------------------------------------------------------------
(***************************************************************************)
(* The body.                                                               *)
(***************************************************************************)
CopyBody ==
    /\ pc = "body"
    /\ body' = body \o responseData
    /\ responseData' = <<>>
    /\ IF contentLengthReceived /\ Len(body') >= contentLength THEN Return ELSE Goto("recv")
    /\ UNCHANGED <<network, header, expectedChunkSize, removeCrlfAfterChunk>>

\* Mutant: the line end behind a chunk is forgotten.
CopyChunkBare ==
    /\ pc = "chunks" /\ expectedChunkSize > 0
    /\ \E toWrite \in {Min({expectedChunkSize, Len(responseData)})} :
          /\ body' = body \o SubSeq(responseData, 1, toWrite)
          /\ responseData' = SubSeq(responseData, toWrite + 1, Len(responseData))
          /\ expectedChunkSize' = expectedChunkSize - toWrite
    /\ Goto(IF responseData' = <<>> THEN "recv" ELSE "chunks")
    /\ UNCHANGED <<network, header, removeCrlfAfterChunk>>

CopyChunk ==
    /\ pc = "chunks" /\ expectedChunkSize > 0
    /\ \E toWrite \in {Min({expectedChunkSize, Len(responseData)})} :
          /\ body' = body \o SubSeq(responseData, 1, toWrite)
          /\ responseData' = SubSeq(responseData, toWrite + 1, Len(responseData))
          /\ expectedChunkSize' = expectedChunkSize - toWrite
          /\ removeCrlfAfterChunk' = (toWrite = expectedChunkSize \/ removeCrlfAfterChunk)
    /\ Goto(IF responseData' = <<>> THEN "recv" ELSE "chunks")
    /\ UNCHANGED <<network, header>>

AtChunkEnd == pc = "chunks" /\ expectedChunkSize = 0 /\ removeCrlfAfterChunk

\* Mutant: one byte is enough to look at the line end.
DropCrlfEarly ==
    /\ AtChunkEnd
    /\ IF Len(responseData) < 1
       THEN Goto("recv") /\ UNCHANGED <<responseData, removeCrlfAfterChunk>>
       ELSE IF ~IsPrefix(crlf, responseData)
       THEN Throw("chunk") /\ UNCHANGED <<responseData, removeCrlfAfterChunk>>
       ELSE /\ removeCrlfAfterChunk' = FALSE
            /\ responseData' = SubSeq(responseData, 3, Len(responseData))
            /\ Goto("chunks")
    /\ UNCHANGED <<network, header, expectedChunkSize, body>>

DropCrlf ==
    /\ AtChunkEnd
    /\ IF Len(responseData) < 2
       THEN Goto("recv") /\ UNCHANGED <<responseData, removeCrlfAfterChunk>>
       ELSE IF ~IsPrefix(crlf, responseData)
       THEN Throw("chunk") /\ UNCHANGED <<responseData, removeCrlfAfterChunk>>
       ELSE /\ removeCrlfAfterChunk' = FALSE
            /\ responseData' = SubSeq(responseData, 3, Len(responseData))
            /\ Goto("chunks")
    /\ UNCHANGED <<network, header, expectedChunkSize, body>>

\* hexStringToUint: an empty string is 0; the sizes of the model have few digits.
hexStringToUint(s) == FoldLeft(LAMBDA n, c : 16 * n + DigitValue[c], 0, s)

ChunkSize ==
    /\ pc = "chunks" /\ expectedChunkSize = 0 /\ ~removeCrlfAfterChunk
    /\ LET i == Find(responseData, crlf)
           digits == SubSeq(responseData, 1, i - 1) IN
       IF i = 0
       THEN Goto("recv") /\ UNCHANGED <<responseData, expectedChunkSize>>
       ELSE IF ~(ToSet(digits) \subseteq Digits)
       THEN Throw("digit") /\ UNCHANGED <<responseData, expectedChunkSize>>
       ELSE /\ expectedChunkSize' = hexStringToUint(digits)
            /\ responseData' = SubSeq(responseData, i + 2, Len(responseData))
            /\ IF expectedChunkSize' = 0 THEN Return ELSE Goto("chunks")
    /\ UNCHANGED <<network, header, removeCrlfAfterChunk, body>>

-----------------------------------------------------------------------------
Parse == NoHeaderEnd \/ ParseHeader \/ ParseNoField \/ CopyBody \/ CopyChunk \/ DropCrlf \/ ChunkSize

ReaderStep == Resolve \/ OpenSocket \/ Connect \/ SendPart \/ Receive \/ Parse \/ ReleaseSocket

Next == \/ ReaderStep \/ Disconnected \/ TimesOut
        \/ ResolveFails \/ OpenFails \/ ConnectFails \/ SendFails \/ RecvFails

Spec == Init /\ [][Next]_vars

\* The peer accepts, reads and sends its response, and closes the connection
\* only when it has nothing else to mark the end of the body with.
ClosesConnection ==
    /\ ~IsChunked(message) /\ ~HasLength(message) /\ received = Len(Wire(message))
    /\ Disconnected

FairSpec ==
    /\ Spec
    /\ WF_vars(ReaderStep)
    /\ WF_vars(ClosesConnection)

-----------------------------------------------------------------------------
(***************************************************************************)
(* Properties.                                                             *)
(***************************************************************************)
\* Type invariant of the reader.
TypeOK ==
    /\ pc \in {"resolve", "socket", "connect", "send", "recv", "header", "body", "chunks", "returned", "threw"}
    /\ endpoint \in {"none", "open", "closed"}
    /\ remaining \in 0..RequestSize
    /\ message \in Messages
    /\ received \in 0..Len(Wire(message))
    /\ {disconnected, parsingBody, contentLengthReceived, chunkedResponse,
        removeCrlfAfterChunk} \subseteq BOOLEAN
    /\ responseData \in Seq(Bytes) /\ body \in Seq(Bytes)
    /\ contentLength \in Nat /\ expectedChunkSize \in Nat
    /\ why \in {"none", "resolve", "constructor", "socket", "timeout", "token", "chunk", "digit"}

\* However TCP cuts the response, response.body holds the first bytes of what the
\* peer meant, without a byte of the header or of the chunk frames.
BodyIsPrefix == IsPrefix(body, Payload(message))

\* When send() returns before the connection has ended, with a status, the body
\* is complete.
WholeWhenReturned ==
    pc = "returned" /\ parsingBody /\ ~disconnected => body = Payload(message)

\* What the caller of send() gets of the body is what was sent, as far as it came.
BodyIsSent == BodyIsPrefix /\ WholeWhenReturned

\* A well-formed response is never refused as malformed, as long as it has a
\* header field: the state kept between two calls of recv (expectedChunkSize,
\* removeCrlfAfterChunk, the rest of responseData) is right at every cut.
WellFormedNeverThrows ==
    why \in {"chunk", "digit", "token"} => message.fields = <<>>

\* send() comes back, without a timeout and on a connection that the peer keeps
\* open: the end of the body is recognised from the length or the last chunk.
\* Whichever way it comes back, and a constructor that has failed is one of them,
\* the descriptor is closed.
ReaderReturns == <>(pc \in {"returned", "threw"} /\ endpoint # "open")

\* "Empty line indicates the end of the header section": send() waits for the
\* empty line, and a connection that stays open gives a response with a status.
HeaderAwaited == pc = "returned" /\ ~disconnected => parsingBody

=============================================================================
