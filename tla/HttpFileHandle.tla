---------------------------- MODULE HttpFileHandle ----------------------------
(***************************************************************************)
(* HttpFileHandle of core/http_server: uploads and downloads of files of   *)
(* the shared folder, each by a worker of the server and without a lock.   *)
(*                                                                         *)
(* A file is a sequence of blocks; block `at` of the body of upload `by`   *)
(* is [by, at].  Opening for writing truncates, every writer has its own   *)
(* position, and a read or write of one block is a step, as for the        *)
(* system calls behind the streams.  A request is handled once.            *)
(***************************************************************************)
EXTENDS Naturals, Sequences, FiniteSetsExt

CONSTANTS
    Names,      \* file names of the shared folder
    Streams,    \* POST /upload/<name>, the body is the file
    Multiparts, \* POST /upload/, a multipart form with one file
    Downloads,  \* POST /download/<name>
    NameOf,     \* the name each request is about
    SizeOf,     \* the blocks of each upload's body
    PieceMax,   \* the blocks a multipart body is cut into: the receive buffer
    Old,        \* the upload that wrote the files that exist at the start
    OldSize,    \* their blocks
    Missing,    \* the names without a file at the start
    NoFile

Uploads == Streams \cup Multiparts
Requests == Uploads \cup Downloads

ASSUME FileAssumption ==
    /\ Streams \cap Multiparts = {} /\ Uploads \cap Downloads = {}
    /\ NameOf \in [Requests -> Names]
    /\ SizeOf \in [Uploads -> Nat]
    /\ PieceMax \in Nat \ {0} /\ OldSize \in Nat
    /\ Old \notin Requests
    /\ Missing \subseteq Names

Hole == [by |-> Old, at |-> 0]
Blocks == [by : Uploads \cup {Old}, at : Nat]
ASSUME NoFileAssumption == NoFile \notin Seq(Blocks)

VARIABLES
    files,     \* the shared folder
    contested, \* (ghost) the names that two writers have had open together
    pc,        \* where each handler is
    taken,     \* blocks of the body that earlier pieces held
    len,       \* blocks in hand: the collected body, or the current piece
    pos,       \* the position of the handler's stream in the file
    size,      \* the Content-Length of each download
    out,       \* the blocks each download has sent
    status     \* the answer: none, 200, 404, 500, or gone for a client that left

uploadVars == <<taken, len>>
downloadVars == <<size, out>>
vars == <<files, contested, pc, uploadVars, pos, downloadVars, status>>

Init ==
    /\ files = [n \in Names |-> IF n \in Missing THEN NoFile
                                ELSE [i \in 1..OldSize |-> [by |-> Old, at |-> i]]]
    /\ contested = {}
    /\ pc = [r \in Requests |-> IF r \in Uploads THEN "read" ELSE "open"]
    /\ taken = [r \in Uploads |-> 0]
    /\ len = [r \in Uploads |-> 0]
    /\ pos = [r \in Requests |-> 0]
    /\ size = [r \in Downloads |-> 0]
    /\ out = [r \in Downloads |-> <<>>]
    /\ status = [r \in Requests |-> "none"]

Goto(r, to) == pc' = [pc EXCEPT ![r] = to]

Answer(r, code) ==
    /\ status' = [status EXCEPT ![r] = code]
    /\ Goto(r, "done")

\* Mutant: the file is opened for appending.
WriteAtEnd(s, p, b) == Append(s, b)

\* The file s after block b was written at position p (from 0).
WriteAt(s, p, b) ==
    [i \in 1..Max({Len(s), p + 1}) |->
        IF i = p + 1 THEN b ELSE IF i \in DOMAIN s THEN s[i] ELSE Hole]

-----------------------------------------------------------------------------
(***************************************************************************)
(* Uploads.  The handler ignores whether the content reader reached the    *)
(* end of the body: when the client goes away in between, what has arrived *)
(* is taken for the body.  200 stands for the message of success.          *)
(***************************************************************************)
\* A stream is collected in memory first.
ReadBody(r) ==
    /\ r \in Streams /\ pc[r] = "read"
    /\ \E k \in 0..SizeOf[r] : len' = [len EXCEPT ![r] = k]
    /\ Goto(r, "open")
    /\ UNCHANGED <<files, contested, taken, pos, downloadVars, status>>

\* The second callback of handle_multipart_file gets one piece of the file.
ReadPiece(r) ==
    /\ r \in Multiparts /\ pc[r] = "read"
    /\ \E k \in 1..PieceMax :
          /\ taken[r] + k <= SizeOf[r]
          /\ len' = [len EXCEPT ![r] = k]
    /\ Goto(r, "open")
    /\ UNCHANGED <<files, contested, taken, pos, downloadVars, status>>

ReaderEnds(r) ==
    /\ r \in Multiparts /\ pc[r] = "read"
    /\ Answer(r, "200")
    /\ UNCHANGED <<files, contested, uploadVars, pos, downloadVars>>

Writers(n) == {r \in Uploads : pc[r] = "write" /\ NameOf[r] = n}

\* Mutant: the file is opened without truncation.
OpenInPlace(r) ==
    /\ r \in Uploads /\ pc[r] = "open"
    /\ LET n == NameOf[r] IN
       /\ files' = IF files[n] = NoFile THEN [files EXCEPT ![n] = <<>>] ELSE files
       /\ contested' = IF Writers(n) = {} THEN contested \ {n} ELSE contested \cup {n}
    /\ pos' = [pos EXCEPT ![r] = 0]
    /\ Goto(r, "write")
    /\ UNCHANGED <<uploadVars, downloadVars, status>>

\* std::ofstream, here or in fs_write, once for every piece.
OpenFile(r) ==
    /\ r \in Uploads /\ pc[r] = "open"
    /\ LET n == NameOf[r] IN
       /\ files' = [files EXCEPT ![n] = <<>>]
       /\ contested' = IF Writers(n) = {} THEN contested \ {n} ELSE contested \cup {n}
    /\ pos' = [pos EXCEPT ![r] = 0]
    /\ Goto(r, "write")
    /\ UNCHANGED <<uploadVars, downloadVars, status>>

\* A stream is answered with 500; fs_write throws, which the server answers
\* with 500 too.
OpenFails(r) ==
    /\ r \in Uploads /\ pc[r] = "open"
    /\ Answer(r, "500")
    /\ UNCHANGED <<files, contested, uploadVars, pos, downloadVars>>

\* Mutant: one block too many.
WriteBlockBeyond(r) ==
    /\ pc[r] = "write" /\ pos[r] <= len[r]
    /\ files' = [files EXCEPT ![NameOf[r]] =
                    WriteAt(@, pos[r], [by |-> r, at |-> taken[r] + pos[r] + 1])]
    /\ pos' = [pos EXCEPT ![r] = @ + 1]
    /\ UNCHANGED <<contested, pc, uploadVars, downloadVars, status>>

WriteBlock(r) ==
    /\ r \in Uploads /\ pc[r] = "write" /\ pos[r] < len[r]
    /\ files' = [files EXCEPT ![NameOf[r]] =
                    WriteAt(@, pos[r], [by |-> r, at |-> taken[r] + pos[r] + 1])]
    /\ pos' = [pos EXCEPT ![r] = @ + 1]
    /\ UNCHANGED <<contested, pc, uploadVars, downloadVars, status>>

PieceDone(r) ==
    /\ taken' = [taken EXCEPT ![r] = @ + len[r]]
    /\ Goto(r, "read")
    /\ UNCHANGED status

\* The disk is full.  handle_file_upload sees it after close(), fs_write does
\* not look.
WriteFails(r) ==
    /\ r \in Uploads /\ pc[r] = "write" /\ pos[r] < len[r]
    /\ IF r \in Streams THEN Answer(r, "500") /\ UNCHANGED taken ELSE PieceDone(r)
    /\ UNCHANGED <<files, contested, len, pos, downloadVars>>

CloseFile(r) ==
    /\ r \in Uploads /\ pc[r] = "write" /\ pos[r] = len[r]
    /\ IF r \in Streams THEN Answer(r, "200") /\ UNCHANGED taken ELSE PieceDone(r)
    /\ UNCHANGED <<files, contested, len, pos, downloadVars>>

-----------------------------------------------------------------------------
(***************************************************************************)
(* Downloads.  The length is announced when the file is first opened; the  *)
(* content provider opens it again, seeks and reads until the length is    *)
(* reached.  At the end of a file that has become shorter it returns TRUE  *)
(* without progress and httplib calls it again.                            *)
(***************************************************************************)
NotFound(r) ==
    /\ r \in Downloads /\ pc[r] = "open" /\ files[NameOf[r]] = NoFile
    /\ Answer(r, "404")
    /\ UNCHANGED <<files, contested, uploadVars, pos, downloadVars>>

OpenDownload(r) ==
    /\ r \in Downloads /\ pc[r] = "open" /\ files[NameOf[r]] # NoFile
    /\ size' = [size EXCEPT ![r] = Len(files[NameOf[r]])]
    /\ Goto(r, "send")
    /\ UNCHANGED <<files, contested, uploadVars, pos, out, status>>

\* Mutant: the provider does not seek to the offset when it opens the file.
SendBlockUnseeked(r) ==
    /\ r \in Downloads /\ pc[r] = "send" /\ pos[r] < size[r]
    /\ \E p \in {0, pos[r]} :
          /\ p < Len(files[NameOf[r]])
          /\ out' = [out EXCEPT ![r] = Append(@, files[NameOf[r]][p + 1])]
    /\ pos' = [pos EXCEPT ![r] = @ + 1]
    /\ UNCHANGED <<files, contested, pc, uploadVars, size, status>>

\* Mutant: the last block of the file is not read.
SendBlockShort(r) ==
    /\ r \in Downloads /\ pc[r] = "send" /\ pos[r] < size[r]
    /\ pos[r] + 1 < Len(files[NameOf[r]])
    /\ out' = [out EXCEPT ![r] = Append(@, files[NameOf[r]][pos[r] + 1])]
    /\ pos' = [pos EXCEPT ![r] = @ + 1]
    /\ UNCHANGED <<files, contested, pc, uploadVars, size, status>>

SendBlock(r) ==
    /\ r \in Downloads /\ pc[r] = "send" /\ pos[r] < size[r]
    /\ pos[r] < Len(files[NameOf[r]])
    /\ out' = [out EXCEPT ![r] = Append(@, files[NameOf[r]][pos[r] + 1])]
    /\ pos' = [pos EXCEPT ![r] = @ + 1]
    /\ UNCHANGED <<files, contested, pc, uploadVars, size, status>>

SendEnds(r) ==
    /\ r \in Downloads /\ pc[r] = "send" /\ pos[r] = size[r]
    /\ Answer(r, "200")
    /\ UNCHANGED <<files, contested, uploadVars, pos, downloadVars>>

\* The client has gone or the server stops: httplib gives the download up.
SendGivenUp(r) ==
    /\ r \in Downloads /\ pc[r] = "send"
    /\ Answer(r, "gone")
    /\ UNCHANGED <<files, contested, uploadVars, pos, downloadVars>>

-----------------------------------------------------------------------------
Progress(r) ==
    \/ ReadBody(r) \/ ReadPiece(r) \/ ReaderEnds(r)
    \/ OpenFile(r) \/ WriteBlock(r) \/ CloseFile(r)
    \/ NotFound(r) \/ OpenDownload(r) \/ SendBlock(r) \/ SendEnds(r)

Failure(r) == OpenFails(r) \/ WriteFails(r) \/ SendGivenUp(r)

Next == \E r \in Requests : Progress(r) \/ Failure(r)

Spec == Init /\ [][Next]_vars

\* The workers are scheduled; nothing has to fail.
FairSpec == Spec /\ \A r \in Requests : WF_vars(Progress(r))

-----------------------------------------------------------------------------
(***************************************************************************)
(* Properties.                                                             *)
(***************************************************************************)
\* Type invariant of the file handler.
TypeOK ==
    /\ files \in [Names -> Seq(Blocks) \cup {NoFile}]
    /\ contested \subseteq Names
    /\ pc \in [Requests -> {"read", "open", "write", "send", "done"}]
    /\ taken \in [Uploads -> Nat] /\ len \in [Uploads -> Nat]
    /\ pos \in [Requests -> Nat] /\ size \in [Downloads -> Nat]
    /\ \A r \in Uploads : /\ taken[r] <= SizeOf[r] /\ len[r] <= SizeOf[r]
                          /\ pos[r] <= SizeOf[r]
    /\ \A r \in Downloads : pos[r] <= size[r]
    /\ out \in [Downloads -> Seq(Blocks)]
    /\ status \in [Requests -> {"none", "200", "404", "500", "gone"}]

InPlace(s) == \A i \in DOMAIN s : s[i] = Hole \/ s[i].at = i

\* Every block of a file lies where it lay in the body it came from, however
\* the writers of the file overlap ("upload a file either by multipart form or
\* stream", http_file_handle.hpp).
BlocksInPlace == \A n \in Names : files[n] # NoFile => InPlace(files[n])

\* The first k blocks of the body of r.
FirstBlocks(r, k) == [i \in 1..k |-> [by |-> r, at |-> i]]

\* A stream is stored: until its answer is given the file holds exactly what
\* has been written of its body, nothing of the file it replaces, unless another
\* writer had the file open at the same time; and "File uploaded successfully"
\* is only said when all that was read has been written.
StreamIsStored ==
    \A r \in Streams :
        /\ pc[r] = "write" /\ NameOf[r] \notin contested =>
              files[NameOf[r]] = FirstBlocks(r, pos[r])
        /\ status[r] = "200" => pos[r] = len[r]

\* A download sends the blocks in order, none twice and none left out, although
\* uploads replace the file under it and the content provider may have to open
\* the file again (it may mix versions of the file).
DownloadInOrder ==
    \A r \in Downloads : InPlace(out[r]) /\ Len(out[r]) = pos[r]

Shrunk(r) == files[NameOf[r]] # NoFile /\ Len(files[NameOf[r]]) < size[r]

\* A download ends, unless the file becomes shorter than the length announced.
DownloadEnds ==
    \A r \in Downloads : pc[r] = "send" ~> pc[r] = "done" \/ Shrunk(r)

=============================================================================
