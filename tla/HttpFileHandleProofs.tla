------------------------- MODULE HttpFileHandleProofs -------------------------
(***************************************************************************)
(* Proofs about HttpFileHandle, for any requests, names and sizes.         *)
(*                                                                         *)
(* The inductive invariant adds to the types what holds at the places of a *)
(* handler (HandlerInv) and who has an uncontested file open (OwnerInv).   *)
(* PlaceInv, the places of the blocks, is inductive as long as no          *)
(* multipart body is cut into pieces: that hypothesis is named where it is *)
(* used, and the run files_pieces shows that it is needed.                 *)
(***************************************************************************)
EXTENDS HttpFileHandle, TLAPS

HandlerInv ==
    /\ \A r \in Streams : taken[r] = 0
    /\ \A r \in Multiparts : pc[r] \in {"open", "write"} => taken[r] + len[r] <= SizeOf[r]
    /\ \A r \in Uploads : pc[r] = "write" => pos[r] <= len[r] /\ files[NameOf[r]] # NoFile
    /\ \A r \in Uploads : status[r] # "none" => pc[r] = "done"
    /\ \A r \in Streams : status[r] = "200" => pos[r] = len[r]
    /\ \A r \in Downloads : pc[r] = "send" => files[NameOf[r]] # NoFile
    /\ \A r \in Downloads : pc[r] = "open" => pos[r] = 0
    /\ \A r \in Downloads : Len(out[r]) = pos[r]

\* A writer of an uncontested file is alone, and a stream has written exactly
\* what the file holds.
OwnerInv ==
    \A r \in Uploads :
        pc[r] = "write" /\ NameOf[r] \notin contested =>
            /\ Writers(NameOf[r]) = {r}
            /\ r \in Streams =>
                  files[NameOf[r]] = FirstBlocks(r, pos[r])

IInv == TypeOK /\ HandlerInv /\ OwnerInv

\* Every body fits in one piece of one block.
Uncut == \A r \in Multiparts : SizeOf[r] <= 1

\* With it, blocks lie in their places in the files and in what is sent.
PlaceInv == BlocksInPlace /\ \A r \in Downloads : InPlace(out[r])

-----------------------------------------------------------------------------
(***************************************************************************)
(* Files as sequences of blocks.                                           *)
(***************************************************************************)
LEMMA MaxPair ==
    ASSUME NEW a \in Nat, NEW b \in Nat
    PROVE  Max({a, b}) = IF a >= b THEN a ELSE b
<1> DEFINE m == IF a >= b THEN a ELSE b
           IsMax(x) == \A y \in {a, b} : x >= y
<1>1. m \in {a, b} /\ IsMax(m)
  OBVIOUS
<1>2. \A x \in {a, b} : IsMax(x) => x = m
  OBVIOUS
<1>3. (CHOOSE x \in {a, b} : IsMax(x)) = m
  <2> HIDE DEF m, IsMax
  <2>1. QED
    BY <1>1, <1>2
<1>4. QED
  BY <1>3 DEF Max

\* Writing a block gives a file, longer by one at most.
LEMMA WriteAtType ==
    ASSUME NEW s \in Seq(Blocks), NEW p \in Nat, NEW b \in Blocks
    PROVE  /\ WriteAt(s, p, b) \in Seq(Blocks)
           /\ Len(WriteAt(s, p, b)) = IF Len(s) >= p + 1 THEN Len(s) ELSE p + 1
           /\ \A i \in 1..Len(WriteAt(s, p, b)) :
                 WriteAt(s, p, b)[i] = IF i = p + 1 THEN b
                                       ELSE IF i \in 1..Len(s) THEN s[i] ELSE Hole
<1> DEFINE n == IF Len(s) >= p + 1 THEN Len(s) ELSE p + 1
<1>1. Len(s) \in Nat /\ p + 1 \in Nat /\ n \in Nat /\ DOMAIN s = 1..Len(s)
  OBVIOUS
<1>2. Max({Len(s), p + 1}) = n
  BY <1>1, MaxPair
<1>3. WriteAt(s, p, b) = [i \in 1..n |-> IF i = p + 1 THEN b
                                      ELSE IF i \in 1..Len(s) THEN s[i] ELSE Hole]
  BY <1>1, <1>2 DEF WriteAt
<1>4. Hole \in Blocks
  BY DEF Hole, Blocks
<1>5. \A i \in 1..n : (IF i = p + 1 THEN b
                       ELSE IF i \in 1..Len(s) THEN s[i] ELSE Hole) \in Blocks
  BY <1>4
<1> HIDE DEF n
<1>6. QED
  BY <1>1, <1>3, <1>5 DEF n

\* A block written at its place leaves every block at its place.
LEMMA WriteInPlace ==
    ASSUME NEW s \in Seq(Blocks), NEW p \in Nat, NEW b \in Blocks,
           b.at = p + 1, InPlace(s)
    PROVE  InPlace(WriteAt(s, p, b))
<1> DEFINE t == WriteAt(s, p, b)
<1>1. /\ t \in Seq(Blocks)
      /\ \A i \in 1..Len(t) : t[i] = IF i = p + 1 THEN b
                                    ELSE IF i \in 1..Len(s) THEN s[i] ELSE Hole
  <2>1. t \in Seq(Blocks)
    BY WriteAtType
  <2>2. \A i \in 1..Len(WriteAt(s, p, b)) :
           WriteAt(s, p, b)[i] = IF i = p + 1 THEN b
                                 ELSE IF i \in 1..Len(s) THEN s[i] ELSE Hole
    BY WriteAtType
  <2>3. QED
    BY <2>1, <2>2
<1>2. SUFFICES InPlace(t)
  OBVIOUS
<1> HIDE DEF t
<1>3. DOMAIN s = 1..Len(s) /\ DOMAIN t = 1..Len(t)
  BY <1>1
<1> SUFFICES ASSUME NEW i \in 1..Len(t) PROVE t[i] = Hole \/ t[i].at = i
  BY <1>3 DEF InPlace
<1>4. CASE i = p + 1
  BY <1>1, <1>4
<1>5. CASE i # p + 1 /\ i \in 1..Len(s)
  <2>1. t[i] = s[i]
    BY <1>1, <1>5
  <2>2. s[i] = Hole \/ s[i].at = i
    BY <1>3, <1>5 DEF InPlace
  <2>3. QED
    BY <2>1, <2>2
<1>6. CASE i # p + 1 /\ i \notin 1..Len(s)
  BY <1>1, <1>6
<1>7. QED
  BY <1>4, <1>5, <1>6

\* Writing at the end of what one stream has written.
LEMMA WriteNext ==
    ASSUME NEW r \in Uploads, NEW p \in Nat, NEW s \in Seq(Blocks),
           s = FirstBlocks(r, p)
    PROVE  WriteAt(s, p, [by |-> r, at |-> p + 1]) = FirstBlocks(r, p + 1)
<1>1. Len(s) = p /\ DOMAIN s = 1..p
  BY DEF FirstBlocks
<1>2. Max({Len(s), p + 1}) = p + 1
  BY <1>1, MaxPair
<1>3. \A i \in 1..(p + 1) : (IF i = p + 1 THEN [by |-> r, at |-> p + 1]
                             ELSE IF i \in DOMAIN s THEN s[i] ELSE Hole) = [by |-> r, at |-> i]
  BY <1>1 DEF FirstBlocks
<1>4. QED
  BY <1>2, <1>3 DEF WriteAt, FirstBlocks

-----------------------------------------------------------------------------
(***************************************************************************)
(* The inductive invariant.                                                *)
(***************************************************************************)
\* The kinds of requests, and the names they are about.
LEMMA Kinds ==
    /\ \A r \in Requests : NameOf[r] \in Names
    /\ \A r \in Uploads : SizeOf[r] \in Nat /\ r \in Requests /\ r \notin Downloads
    /\ \A r \in Downloads : r \in Requests /\ r \notin Uploads
    /\ \A r \in Streams : r \in Uploads /\ r \notin Multiparts
    /\ \A r \in Multiparts : r \in Uploads /\ r \notin Streams
    /\ \A r \in Uploads : r \in Streams \/ r \in Multiparts
    /\ \A r \in Requests : r \in Uploads \/ r \in Downloads
  BY FileAssumption DEF Requests, Uploads

\* The invariant holds in the initial states.
LEMMA InitIInv == Init => IInv
<1> SUFFICES ASSUME Init PROVE IInv
  OBVIOUS
<1> USE Kinds DEF Init
<1>1. TypeOK
  <2>1. files \in [Names -> Seq(Blocks) \cup {NoFile}]
    <3>1. \A i \in 1..OldSize : [by |-> Old, at |-> i] \in Blocks
      BY FileAssumption DEF Blocks
    <3>2. [i \in 1..OldSize |-> [by |-> Old, at |-> i]] \in Seq(Blocks)
      BY <3>1, FileAssumption
    <3>3. QED
      BY <3>2
  <2>2. out \in [Downloads -> Seq(Blocks)]
    OBVIOUS
  <2>3. QED
    BY <2>1, <2>2 DEF TypeOK
<1>2. HandlerInv
  BY DEF HandlerInv
<1>3. OwnerInv
  BY DEF OwnerInv
<1>4. QED
  BY <1>1, <1>2, <1>3 DEF IInv

\* Every step of a handler preserves it.
LEMMA StepIInv == IInv /\ [Next]_vars => IInv'
<1> SUFFICES ASSUME IInv, [Next]_vars PROVE IInv'
  OBVIOUS
<1> USE Kinds DEF IInv, uploadVars, downloadVars
<1>1. ASSUME NEW r \in Requests, Progress(r) \/ Failure(r) PROVE IInv'
  <2>1. CASE ReadBody(r)
    <3>1. TypeOK'
      BY <2>1 DEF ReadBody, Goto, TypeOK
    <3>2. HandlerInv'
      BY <2>1 DEF ReadBody, Goto, TypeOK, HandlerInv
    <3>3. OwnerInv'
      BY <2>1 DEF ReadBody, Goto, TypeOK, OwnerInv, Writers
    <3>4. QED
      BY <3>1, <3>2, <3>3
  <2>2. CASE ReadPiece(r)
    <3>1. TypeOK'
      BY <2>2 DEF ReadPiece, Goto, TypeOK
    <3>2. HandlerInv'
      <4>1. PICK k \in 1..PieceMax :
               taken[r] + k <= SizeOf[r] /\ len' = [len EXCEPT ![r] = k]
        BY <2>2 DEF ReadPiece
      <4>2. taken[r] + len'[r] <= SizeOf[r]
        BY <4>1, <2>2 DEF ReadPiece, TypeOK
      <4>3. QED
        BY <2>2, <4>1, <4>2 DEF ReadPiece, Goto, TypeOK, HandlerInv
    <3>3. OwnerInv'
      BY <2>2 DEF ReadPiece, Goto, TypeOK, OwnerInv, Writers
    <3>4. QED
      BY <3>1, <3>2, <3>3
  <2>3. CASE ReaderEnds(r)
    <3>1. TypeOK'
      BY <2>3 DEF ReaderEnds, Answer, Goto, TypeOK
    <3>2. HandlerInv'
      BY <2>3 DEF ReaderEnds, Answer, Goto, TypeOK, HandlerInv
    <3>3. OwnerInv'
      BY <2>3 DEF ReaderEnds, Answer, Goto, TypeOK, OwnerInv, Writers
    <3>4. QED
      BY <3>1, <3>2, <3>3
  <2>4. CASE OpenFile(r)
    <3>1. TypeOK'
      BY <2>4 DEF OpenFile, Goto, TypeOK
    <3>2. HandlerInv'
      <4>1. files' = [files EXCEPT ![NameOf[r]] = <<>>] /\ pos' = [pos EXCEPT ![r] = 0]
        BY <2>4 DEF OpenFile
      <4>2. \A n \in Names : files'[n] = <<>> \/ files'[n] = files[n]
        BY <4>1 DEF TypeOK
      <4>3. <<>> # NoFile
        <5>1. <<>> \in Seq(Blocks)
          OBVIOUS
        <5>2. QED
          BY <5>1, NoFileAssumption
      <4>4. QED
        BY <2>4, <4>1, <4>2, <4>3 DEF OpenFile, Goto, TypeOK, HandlerInv
    <3>3. OwnerInv'
      <4> DEFINE n == NameOf[r]
      <4>1. /\ r \in Uploads /\ pc[r] = "open"
            /\ files' = [files EXCEPT ![n] = <<>>]
            /\ contested' = IF Writers(n) = {} THEN contested \ {n} ELSE contested \cup {n}
            /\ pos' = [pos EXCEPT ![r] = 0]
            /\ pc' = [pc EXCEPT ![r] = "write"]
        BY <2>4 DEF OpenFile, Goto
      <4>2. SUFFICES ASSUME NEW q \in Uploads, pc'[q] = "write", NameOf[q] \notin contested'
                     PROVE  /\ Writers(NameOf[q])' = {q}
                            /\ q \in Streams => files'[NameOf[q]] = FirstBlocks(q, pos'[q])
        BY DEF OwnerInv
      <4>3. CASE NameOf[q] = n
        <5>1. Writers(n) = {}
          BY <4>1, <4>2, <4>3
        <5>2. q = r
          BY <4>1, <4>2, <4>3, <5>1 DEF Writers, TypeOK
        <5>3. Writers(n)' = {r}
          BY <4>1, <5>1 DEF Writers, TypeOK
        <5>4. files'[n] = <<>> /\ pos'[r] = 0
          BY <4>1 DEF TypeOK
        <5>5. FirstBlocks(r, 0) = <<>>
          BY DEF FirstBlocks
        <5>6. QED
          BY <4>3, <5>2, <5>3, <5>4, <5>5
      <4>4. CASE NameOf[q] # n
        <5>1. q # r /\ pc[q] = "write" /\ NameOf[q] \notin contested
          BY <4>1, <4>2, <4>4 DEF TypeOK
        <5>2. Writers(NameOf[q])' = Writers(NameOf[q])
          BY <4>1, <4>4 DEF Writers, TypeOK
        <5>3. files'[NameOf[q]] = files[NameOf[q]] /\ pos'[q] = pos[q]
          BY <4>1, <4>4, <5>1 DEF TypeOK
        <5>4. QED
          BY <5>1, <5>2, <5>3 DEF OwnerInv
      <4>5. QED
        BY <4>3, <4>4
    <3>4. QED
      BY <3>1, <3>2, <3>3
  <2>5. CASE OpenFails(r)
    <3>1. TypeOK'
      BY <2>5 DEF OpenFails, Answer, Goto, TypeOK
    <3>2. HandlerInv'
      BY <2>5 DEF OpenFails, Answer, Goto, TypeOK, HandlerInv
    <3>3. OwnerInv'
      BY <2>5 DEF OpenFails, Answer, Goto, TypeOK, OwnerInv, Writers
    <3>4. QED
      BY <3>1, <3>2, <3>3
  <2>6. CASE WriteBlock(r)
    <3> DEFINE n == NameOf[r]
               b == [by |-> r, at |-> taken[r] + pos[r] + 1]
    <3>5. /\ r \in Uploads /\ pc[r] = "write" /\ pos[r] < len[r]
          /\ files' = [files EXCEPT ![n] = WriteAt(files[n], pos[r], b)]
          /\ pos' = [pos EXCEPT ![r] = @ + 1]
          /\ UNCHANGED <<contested, pc, taken, len, size, out, status>>
      BY <2>6 DEF WriteBlock
    <3>6. files[n] \in Seq(Blocks) /\ pos[r] \in Nat /\ b \in Blocks
      <4>1. files[n] \in Seq(Blocks) /\ pos[r] \in Nat /\ taken[r] \in Nat
        BY <3>5 DEF TypeOK, HandlerInv
      <4>2. r \in Uploads \cup {Old} /\ taken[r] + pos[r] + 1 \in Nat
        BY <3>5, <4>1
      <4>3. QED
        BY <4>1, <4>2 DEF Blocks
    <3>7. WriteAt(files[n], pos[r], b) \in Seq(Blocks)
      BY <3>6, WriteAtType
    <3> HIDE DEF b
    <3>1. TypeOK'
      <4>1. files' \in [Names -> Seq(Blocks) \cup {NoFile}]
        BY <3>5, <3>7 DEF TypeOK
      <4>2. \A q \in Uploads : pos'[q] <= SizeOf[q]
        BY <3>5 DEF TypeOK
      <4>3. \A q \in Downloads : pos'[q] = pos[q]
        BY <3>5 DEF TypeOK
      <4>4. QED
        BY <3>5, <4>1, <4>2, <4>3 DEF TypeOK
    <3>2. HandlerInv'
      <4>1. \A m \in Names : files[m] # NoFile => files'[m] # NoFile
        BY <3>5, <3>7, NoFileAssumption DEF TypeOK
      <4>2. pos'[r] <= len[r] /\ \A q \in Requests : q # r => pos'[q] = pos[q]
        BY <3>5 DEF TypeOK
      <4>3. status[r] = "none"
        BY <3>5 DEF HandlerInv
      <4>4. QED
        BY <3>5, <4>1, <4>2, <4>3 DEF HandlerInv
    <3>3. OwnerInv'
      <4>1. SUFFICES ASSUME NEW q \in Uploads, pc[q] = "write", NameOf[q] \notin contested
                     PROVE  /\ Writers(NameOf[q])' = {q}
                            /\ q \in Streams => files'[NameOf[q]] = FirstBlocks(q, pos'[q])
        BY <3>5 DEF OwnerInv
      <4>2. Writers(NameOf[q])' = {q}
        BY <3>5, <4>1 DEF OwnerInv, Writers
      <4>3. CASE NameOf[q] = n
        <5>1. q = r
          BY <3>5, <4>1, <4>3 DEF OwnerInv, Writers
        <5>2. ASSUME r \in Streams
              PROVE  files'[n] = FirstBlocks(r, pos'[r])
          <6>1. b = [by |-> r, at |-> pos[r] + 1]
            BY <5>2, <3>6 DEF HandlerInv, b
          <6>2. files[n] = FirstBlocks(r, pos[r])
            BY <3>5, <4>1, <5>1, <5>2 DEF OwnerInv
          <6>3. WriteAt(files[n], pos[r], [by |-> r, at |-> pos[r] + 1]) =
                   FirstBlocks(r, pos[r] + 1)
            BY <3>5, <3>6, <6>2, WriteNext
          <6>4. files'[n] = WriteAt(files[n], pos[r], b) /\ pos'[r] = pos[r] + 1
            BY <3>5 DEF TypeOK
          <6>5. QED
            BY <6>1, <6>3, <6>4
        <5>3. QED
          BY <4>2, <4>3, <5>1, <5>2
      <4>4. CASE NameOf[q] # n
        <5>1. files'[NameOf[q]] = files[NameOf[q]] /\ pos'[q] = pos[q]
          BY <3>5, <4>4 DEF TypeOK
        <5>2. QED
          BY <4>1, <4>2, <5>1 DEF OwnerInv
      <4>5. QED
        BY <4>3, <4>4
    <3>4. QED
      BY <3>1, <3>2, <3>3
  <2>7. CASE WriteFails(r)
    <3>1. TypeOK'
      <4>1. \A q \in Uploads : taken'[q] <= SizeOf[q]
        <5>1. CASE r \in Streams
          BY <2>7, <5>1 DEF WriteFails, TypeOK
        <5>2. CASE r \in Multiparts
          <6>1. taken' = [taken EXCEPT ![r] = @ + len[r]] /\ taken[r] + len[r] <= SizeOf[r]
            BY <2>7, <5>2 DEF WriteFails, PieceDone, HandlerInv
          <6>2. QED
            BY <5>2, <6>1 DEF TypeOK
        <5>3. QED
          BY <2>7, <5>1, <5>2 DEF WriteFails
      <4>2. taken' \in [Uploads -> Nat]
        <5>1. taken[r] + len[r] \in Nat
          BY <2>7 DEF WriteFails, TypeOK
        <5>2. taken' = taken \/ taken' = [taken EXCEPT ![r] = taken[r] + len[r]]
          BY <2>7 DEF WriteFails, PieceDone
        <5>3. taken \in [Uploads -> Nat]
          BY DEF TypeOK
        <5> QED
          BY <5>1, <5>2, <5>3, Zenon
      <4>3. status' \in [Requests -> {"none", "200", "404", "500", "gone"}]
        BY <2>7 DEF WriteFails, Answer, PieceDone, TypeOK
      <4>4. pc' \in [Requests -> {"read", "open", "write", "send", "done"}]
        BY <2>7 DEF WriteFails, Answer, Goto, PieceDone, TypeOK
      <4>5. QED
        BY <2>7, <4>1, <4>2, <4>3, <4>4 DEF WriteFails, TypeOK
    <3>2. HandlerInv'
      <4>1. CASE r \in Streams
        BY <2>7, <4>1 DEF WriteFails, Answer, Goto, TypeOK, HandlerInv
      <4>2. CASE r \in Multiparts
        BY <2>7, <4>2 DEF WriteFails, Goto, PieceDone, TypeOK, HandlerInv
      <4>3. QED
        BY <2>7, <4>1, <4>2 DEF WriteFails
    <3>3. OwnerInv'
      BY <2>7 DEF WriteFails, Answer, Goto, PieceDone, TypeOK, OwnerInv, Writers
    <3>4. QED
      BY <3>1, <3>2, <3>3
  <2>8. CASE CloseFile(r)
    <3>1. TypeOK'
      <4>1. \A q \in Uploads : taken'[q] <= SizeOf[q]
        <5>1. CASE r \in Streams
          BY <2>8, <5>1 DEF CloseFile, TypeOK
        <5>2. CASE r \in Multiparts
          <6>1. taken' = [taken EXCEPT ![r] = @ + len[r]] /\ taken[r] + len[r] <= SizeOf[r]
            BY <2>8, <5>2 DEF CloseFile, PieceDone, HandlerInv
          <6>2. QED
            BY <5>2, <6>1 DEF TypeOK
        <5>3. QED
          BY <2>8, <5>1, <5>2 DEF CloseFile
      <4>2. taken' \in [Uploads -> Nat]
        <5>1. taken[r] + len[r] \in Nat
          BY <2>8 DEF CloseFile, TypeOK
        <5>2. taken' = taken \/ taken' = [taken EXCEPT ![r] = taken[r] + len[r]]
          BY <2>8 DEF CloseFile, PieceDone
        <5>3. taken \in [Uploads -> Nat]
          BY DEF TypeOK
        <5> QED
          BY <5>1, <5>2, <5>3, Zenon
      <4>3. status' \in [Requests -> {"none", "200", "404", "500", "gone"}]
        BY <2>8 DEF CloseFile, Answer, PieceDone, TypeOK
      <4>4. pc' \in [Requests -> {"read", "open", "write", "send", "done"}]
        BY <2>8 DEF CloseFile, Answer, Goto, PieceDone, TypeOK
      <4>5. QED
        BY <2>8, <4>1, <4>2, <4>3, <4>4 DEF CloseFile, TypeOK
    <3>2. HandlerInv'
      <4>1. CASE r \in Streams
        BY <2>8, <4>1 DEF CloseFile, Answer, Goto, TypeOK, HandlerInv
      <4>2. CASE r \in Multiparts
        BY <2>8, <4>2 DEF CloseFile, Goto, PieceDone, TypeOK, HandlerInv
      <4>3. QED
        BY <2>8, <4>1, <4>2 DEF CloseFile
    <3>3. OwnerInv'
      BY <2>8 DEF CloseFile, Answer, Goto, PieceDone, TypeOK, OwnerInv, Writers
    <3>4. QED
      BY <3>1, <3>2, <3>3
  <2>9. CASE NotFound(r)
    <3>1. TypeOK'
      BY <2>9 DEF NotFound, Answer, Goto, TypeOK
    <3>2. HandlerInv'
      BY <2>9 DEF NotFound, Answer, Goto, TypeOK, HandlerInv
    <3>3. OwnerInv'
      BY <2>9 DEF NotFound, Answer, Goto, TypeOK, OwnerInv, Writers
    <3>4. QED
      BY <3>1, <3>2, <3>3
  <2>10. CASE OpenDownload(r)
    <3>1. TypeOK'
      <4>1. files[NameOf[r]] \in Seq(Blocks) /\ Len(files[NameOf[r]]) \in Nat
        BY <2>10 DEF OpenDownload, TypeOK
      <4>2. \A q \in Downloads : pos[q] <= size'[q]
        BY <2>10, <4>1 DEF OpenDownload, TypeOK, HandlerInv
      <4>3. QED
        BY <2>10, <4>2 DEF OpenDownload, Goto, TypeOK
    <3>2. HandlerInv'
      BY <2>10 DEF OpenDownload, Goto, TypeOK, HandlerInv
    <3>3. OwnerInv'
      BY <2>10 DEF OpenDownload, Goto, TypeOK, OwnerInv, Writers
    <3>4. QED
      BY <3>1, <3>2, <3>3
  <2>11. CASE SendBlock(r)
    <3> DEFINE b == files[NameOf[r]][pos[r] + 1]
    <3>5. /\ r \in Downloads /\ pc[r] = "send" /\ pos[r] < size[r]
          /\ pos[r] < Len(files[NameOf[r]])
          /\ out' = [out EXCEPT ![r] = Append(@, b)]
          /\ pos' = [pos EXCEPT ![r] = @ + 1]
          /\ UNCHANGED <<files, contested, pc, taken, len, size, status>>
      BY <2>11 DEF SendBlock
    <3>6. files[NameOf[r]] \in Seq(Blocks) /\ pos[r] \in Nat /\ size[r] \in Nat
      BY <3>5 DEF TypeOK, HandlerInv
    <3>7. b \in Blocks
      BY <3>5, <3>6
    <3>8. out[r] \in Seq(Blocks)
      BY <3>5 DEF TypeOK
    <3> HIDE DEF b
    <3>9. Append(out[r], b) \in Seq(Blocks) /\ Len(Append(out[r], b)) = Len(out[r]) + 1
      BY <3>7, <3>8
    <3>1. TypeOK'
      <4>1. out' \in [Downloads -> Seq(Blocks)]
        BY <3>5, <3>9 DEF TypeOK
      <4>2. \A q \in Uploads : pos'[q] = pos[q]
        BY <3>5 DEF TypeOK
      <4>3. \A q \in Downloads : pos'[q] <= size[q]
        BY <3>5, <3>6 DEF TypeOK
      <4>4. QED
        BY <3>5, <4>1, <4>2, <4>3 DEF TypeOK
    <3>2. HandlerInv'
      <4>1. \A q \in Downloads : Len(out'[q]) = pos'[q]
        BY <3>5, <3>9 DEF TypeOK, HandlerInv
      <4>2. \A q \in Uploads : pos'[q] = pos[q]
        BY <3>5 DEF TypeOK
      <4>3. QED
        BY <3>5, <4>1, <4>2 DEF HandlerInv
    <3>3. OwnerInv'
      <4>1. \A q \in Uploads : pos'[q] = pos[q]
        BY <3>5 DEF TypeOK
      <4>2. QED
        BY <3>5, <4>1 DEF OwnerInv, Writers
    <3>4. QED
      BY <3>1, <3>2, <3>3
  <2>12. CASE SendEnds(r)
    <3>1. TypeOK'
      BY <2>12 DEF SendEnds, Answer, Goto, TypeOK
    <3>2. HandlerInv'
      BY <2>12 DEF SendEnds, Answer, Goto, TypeOK, HandlerInv
    <3>3. OwnerInv'
      BY <2>12 DEF SendEnds, Answer, Goto, TypeOK, OwnerInv, Writers
    <3>4. QED
      BY <3>1, <3>2, <3>3
  <2>13. CASE SendGivenUp(r)
    <3>1. TypeOK'
      BY <2>13 DEF SendGivenUp, Answer, Goto, TypeOK
    <3>2. HandlerInv'
      BY <2>13 DEF SendGivenUp, Answer, Goto, TypeOK, HandlerInv
    <3>3. OwnerInv'
      BY <2>13 DEF SendGivenUp, Answer, Goto, TypeOK, OwnerInv, Writers
    <3>4. QED
      BY <3>1, <3>2, <3>3
  <2>14. QED
    BY <1>1, <2>1, <2>2, <2>3, <2>4, <2>5, <2>6, <2>7, <2>8, <2>9, <2>10, <2>11, <2>12, <2>13 DEF Progress, Failure
<1>2. CASE UNCHANGED vars
  BY <1>2 DEF vars, TypeOK, HandlerInv, OwnerInv, Writers
<1>3. QED
  BY <1>1, <1>2 DEF Next

\* The invariant holds for ever.
LEMMA AlwaysIInv == Spec => []IInv
  BY InitIInv, StepIInv, PTL DEF Spec

-----------------------------------------------------------------------------
(***************************************************************************)
(* The places of the blocks, when no multipart body is cut.                *)
(***************************************************************************)
LEMMA InitPlace == Init => PlaceInv
<1> SUFFICES ASSUME Init PROVE PlaceInv
  OBVIOUS
<1>1. BlocksInPlace
  <2>1. InPlace([i \in 1..OldSize |-> [by |-> Old, at |-> i]])
    BY DEF InPlace
  <2>2. \A n \in Names : files[n] # NoFile =>
           files[n] = [i \in 1..OldSize |-> [by |-> Old, at |-> i]]
    BY DEF Init
  <2>3. QED
    BY <2>1, <2>2 DEF BlocksInPlace
<1>2. \A r \in Downloads : out[r] = <<>>
  BY DEF Init
<1>3. InPlace(<<>>)
  BY DEF InPlace
<1>4. QED
  BY <1>1, <1>2, <1>3 DEF PlaceInv

\* A step of a handler leaves every block in its place.
LEMMA StepPlace ==
    ASSUME Uncut
    PROVE  IInv /\ PlaceInv /\ [Next]_vars => PlaceInv'
<1> SUFFICES ASSUME IInv, PlaceInv, [Next]_vars PROVE PlaceInv'
  OBVIOUS
<1> USE Kinds
<1>1. ASSUME UNCHANGED <<files, out>> PROVE PlaceInv'
  BY <1>1 DEF PlaceInv, BlocksInPlace
<1>2. ASSUME NEW r \in Uploads, OpenFile(r) PROVE PlaceInv'
  <2>1. files' = [files EXCEPT ![NameOf[r]] = <<>>] /\ out' = out
    BY <1>2 DEF OpenFile, downloadVars
  <2>2. InPlace(<<>>)
    BY DEF InPlace
  <2>3. \A n \in Names : files'[n] = <<>> \/ files'[n] = files[n]
    BY <2>1 DEF IInv, TypeOK
  <2>4. QED
    BY <2>1, <2>2, <2>3 DEF PlaceInv, BlocksInPlace
<1>3. ASSUME NEW r \in Uploads, WriteBlock(r) PROVE PlaceInv'
  <2> DEFINE n == NameOf[r]
             b == [by |-> r, at |-> taken[r] + pos[r] + 1]
  <2>1. /\ pc[r] = "write" /\ pos[r] < len[r] /\ out' = out
        /\ files' = [files EXCEPT ![n] = WriteAt(files[n], pos[r], b)]
    BY <1>3 DEF WriteBlock, downloadVars
  <2>2. /\ taken[r] \in Nat /\ pos[r] \in Nat /\ len[r] \in Nat
        /\ files[n] \in Seq(Blocks) /\ files[n] # NoFile
    BY <2>1 DEF IInv, TypeOK, HandlerInv
  <2>3. taken[r] = 0
    BY <2>1, <2>2, Uncut DEF Uncut, IInv, HandlerInv
  <2>4. b \in Blocks /\ b.at = pos[r] + 1
    BY <2>2, <2>3 DEF Blocks
  <2>5. InPlace(files[n])
    BY <2>2 DEF PlaceInv, BlocksInPlace
  <2> HIDE DEF b
  <2>6. InPlace(WriteAt(files[n], pos[r], b))
    BY <2>2, <2>4, <2>5, WriteInPlace
  <2>7. \A m \in Names : files'[m] = files[m] \/ files'[m] = WriteAt(files[n], pos[r], b)
    BY <2>1 DEF IInv, TypeOK
  <2>8. QED
    BY <2>1, <2>6, <2>7 DEF PlaceInv, BlocksInPlace
<1>4. ASSUME NEW r \in Downloads, SendBlock(r) PROVE PlaceInv'
  <2> DEFINE b == files[NameOf[r]][pos[r] + 1]
  <2>1. /\ pc[r] = "send" /\ pos[r] < Len(files[NameOf[r]]) /\ files' = files
        /\ out' = [out EXCEPT ![r] = Append(@, b)]
    BY <1>4 DEF SendBlock
  <2>2. /\ files[NameOf[r]] \in Seq(Blocks) /\ files[NameOf[r]] # NoFile
        /\ out[r] \in Seq(Blocks) /\ pos[r] \in Nat /\ Len(out[r]) = pos[r]
    BY <2>1 DEF IInv, TypeOK, HandlerInv
  <2>3. b = Hole \/ b.at = pos[r] + 1
    BY <2>1, <2>2 DEF PlaceInv, BlocksInPlace, InPlace
  <2>4. InPlace(out[r])
    BY DEF PlaceInv
  <2>5. b \in Blocks
    BY <2>1, <2>2
  <2> HIDE DEF b
  <2>6. InPlace(Append(out[r], b))
    BY <2>2, <2>3, <2>4, <2>5 DEF InPlace
  <2>7. \A q \in Downloads : out'[q] = out[q] \/ out'[q] = Append(out[r], b)
    BY <2>1 DEF IInv, TypeOK
  <2>8. QED
    BY <2>1, <2>6, <2>7 DEF PlaceInv, BlocksInPlace
<1>5. ASSUME NEW r \in Requests,
             \/ ReadBody(r) \/ ReadPiece(r) \/ ReaderEnds(r) \/ OpenFails(r)
             \/ WriteFails(r) \/ CloseFile(r) \/ NotFound(r) \/ OpenDownload(r)
             \/ SendEnds(r) \/ SendGivenUp(r)
      PROVE  UNCHANGED <<files, out>>
  BY <1>5 DEF ReadBody, ReadPiece, ReaderEnds, OpenFails, WriteFails, CloseFile, NotFound,
              OpenDownload, SendEnds, SendGivenUp, downloadVars
<1>6. CASE UNCHANGED vars
  BY <1>1, <1>6 DEF vars, downloadVars
<1>7. CASE Next
  <2>1. PICK r \in Requests : Progress(r) \/ Failure(r)
    BY <1>7 DEF Next
  <2>2. OpenFile(r) \/ WriteBlock(r) => r \in Uploads
    BY DEF OpenFile, WriteBlock
  <2>3. SendBlock(r) => r \in Downloads
    BY DEF SendBlock
  <2>4. QED
    BY <1>1, <1>2, <1>3, <1>4, <1>5, <2>1, <2>2, <2>3 DEF Progress, Failure
<1>8. QED
  BY <1>6, <1>7

-----------------------------------------------------------------------------
(***************************************************************************)
(* The theorems.                                                           *)
(***************************************************************************)
\* HttpFileHandle is well typed for any requests and sizes; in particular no
\* handler writes or sends beyond the size it has been given.
THEOREM TypeCorrect == Spec => []TypeOK
<1>1. IInv => TypeOK
  BY DEF IInv
<1>2. QED
  BY <1>1, AlwaysIInv, PTL

\* handle_file_upload: an uncontested stream is stored exactly, and success is
\* only reported when everything has been written.
THEOREM UncontestedStreamIsStored == Spec => []StreamIsStored
<1>1. IInv => StreamIsStored
  BY Kinds DEF IInv, HandlerInv, OwnerInv, StreamIsStored
<1>2. QED
  BY <1>1, AlwaysIInv, PTL

\* However many uploads of the same file overlap, every block lies in its place,
\* as long as no multipart body arrives in more than one piece.
THEOREM UncutBlocksInPlace ==
    ASSUME Uncut
    PROVE  Spec => []BlocksInPlace
<1>1. PlaceInv => BlocksInPlace
  BY DEF PlaceInv
<1>2. IInv /\ PlaceInv /\ [Next]_vars => PlaceInv'
  BY StepPlace
<1>3. QED
  BY <1>1, <1>2, InitPlace, AlwaysIInv, PTL DEF Spec

\* handle_file_download: under the same hypothesis a download sends every block
\* once and in order, whatever is uploaded under it.
THEOREM UncutDownloadInOrder ==
    ASSUME Uncut
    PROVE  Spec => []DownloadInOrder
<1>1. IInv /\ PlaceInv => DownloadInOrder
  BY DEF IInv, HandlerInv, PlaceInv, DownloadInOrder
<1>2. IInv /\ PlaceInv /\ [Next]_vars => PlaceInv'
  BY StepPlace
<1>3. QED
  BY <1>1, <1>2, InitPlace, AlwaysIInv, PTL DEF Spec

=============================================================================
