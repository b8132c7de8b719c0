-------------------------- MODULE ResponseReaderProofs --------------------------
(***************************************************************************)
(* Proofs about ResponseReader, for all well-formed responses, all cuts of *)
(* TCP and all places at which the connection breaks.                      *)
(*                                                                         *)
(* The argument is about positions.  Consumed is how far in the wire the   *)
(* parser is; the invariant says what of the body lies before that place:  *)
(* for a plain body the bytes behind the header section (PlainBody), for a *)
(* chunked one k whole chunks, with or without a part of the next one      *)
(* (ChunkedBody).  What the parser then finds in responseData is read off  *)
(* the wire: the first empty line ends the header section (FindHeader), a  *)
(* size line is one digit and a line end (SizeLine), and the bytes of a    *)
(* chunk and its line end follow it (ChunkLine).                           *)
(*                                                                         *)
(* The facts about FlattenSeq, which the wire and the payload are built    *)
(* with, go by the least index at which they could fail (UpTo).            *)
(***************************************************************************)
EXTENDS ResponseReader, SequenceTheorems, WellFoundedInduction, TLAPS

-----------------------------------------------------------------------------
(***************************************************************************)
(* Induction over numbers, for a set, for the proofs about texts of any    *)
(* length here and in the modules that extend this one.                    *)
(***************************************************************************)
\* A set with 0 in it that has the successor of each of its members below N holds
\* all numbers up to N: induction, for a set.
LEMMA UpTo ==
    ASSUME NEW N \in Nat, NEW T, 0 \in T,
           \A k \in 0..(N - 1) : k \in T => k + 1 \in T
    PROVE  0..N \subseteq T
<1>1. SUFFICES ASSUME (0..N) \ T # {} PROVE FALSE
  OBVIOUS
<1>2. PICK k \in (0..N) \ T : \A y \in (0..N) \ T : ~(<<y, k>> \in OpToRel(<, Nat))
  <2>1. (0..N) \ T \subseteq Nat
    OBVIOUS
  <2>2. QED
    BY <1>1, <2>1, NatLessThanWellFounded, WFMin, Zenon
<1>3. k # 0 /\ k - 1 \in 0..(N - 1) /\ (k - 1) + 1 = k
  OBVIOUS
<1>4. k - 1 \notin T
  BY <1>2, <1>3
<1>5. <<k - 1, k>> \in OpToRel(<, Nat)
  BY <1>3 DEF OpToRel
<1>6. k - 1 \in (0..N) \ T
  BY <1>3, <1>4
<1>7. QED
  BY <1>2, <1>5, <1>6

\* A set of natural numbers that is not empty has a least one.
LEMMA LeastExists ==
    ASSUME NEW at \in SUBSET Nat, at # {}
    PROVE  \E i \in at : \A j \in at : i <= j
<1>1. PICK i \in at : \A j \in at : ~(<<j, i>> \in OpToRel(<, Nat))
  BY NatLessThanWellFounded, WFMin, Zenon
<1>2. ASSUME NEW j \in at PROVE i <= j
  <2>1. i \in Nat /\ j \in Nat
    OBVIOUS
  <2>2. ~(j < i)
    BY <1>1, <2>1 DEF OpToRel
  <2> QED
    BY <2>1, <2>2
<1> QED
  BY <1>2

\* A set holds 1 .. N if it holds every one above which it holds all: induction
\* downwards, for a set.
LEMMA DownTo ==
    ASSUME NEW N \in Nat, NEW T,
           \A j \in 1 .. N : (\A k \in j + 1 .. N : k \in T) => j \in T
    PROVE  \A j \in 1 .. N : j \in T
<1> SUFFICES ASSUME NEW a \in 1 .. N, a \notin T PROVE FALSE
  OBVIOUS
<1> DEFINE out == {d \in 0 .. N : N - d \in 1 .. N /\ N - d \notin T}
<1>1. out \in SUBSET Nat /\ out # {}
  <2>1. N - a \in 0 .. N /\ N - (N - a) = a
    OBVIOUS
  <2> QED
    BY <2>1
<1>2. PICK d \in out : \A e \in out : d <= e
  BY <1>1, LeastExists
<1>3. d \in 0 .. N /\ N - d \in 1 .. N /\ N - d \notin T
  BY <1>2
<1>4. ASSUME NEW k \in N - d + 1 .. N PROVE k \in T
  <2>1. N - k \in 0 .. N /\ N - (N - k) = k /\ k \in 1 .. N /\ ~(d <= N - k)
    BY <1>3
  <2> QED
    BY <1>2, <2>1
<1> QED
  BY <1>3, <1>4

\* The values from j on of a function that is defined by recursion from the end.
IsDown(f, j, N, ends, val, nxt, step) ==
    \A i \in j .. N : f[i] = IF i \in ends THEN val[i] ELSE step[i][f[nxt[i]]]

\* There is a function whose values are defined by those at later places.
LEMMA DownwardRecursion ==
    ASSUME NEW N \in Nat, NEW V, NEW v0 \in V, NEW ends,
           NEW val \in [1 .. N -> V], NEW nxt \in [1 .. N -> Nat], NEW step \in [1 .. N -> [V -> V]],
           \A j \in 1 .. N : j \notin ends => nxt[j] \in j + 1 .. N
    PROVE  \E f \in [1 .. N -> V] : IsDown(f, 1, N, ends, val, nxt, step)
<1> DEFINE T == {k \in 0 .. N : \E f \in [1 .. N -> V] : IsDown(f, N - k + 1, N, ends, val, nxt, step)}
<1>1. 0 \in T
  <2>1. [i \in 1 .. N |-> v0] \in [1 .. N -> V]
    OBVIOUS
  <2>2. N - 0 + 1 = N + 1 /\ 0 \in 0 .. N /\ (N + 1) .. N = {}
    OBVIOUS
  <2>3. \A f : IsDown(f, N + 1, N, ends, val, nxt, step)
    BY <2>2 DEF IsDown
  <2> QED
    BY <2>1, <2>2, <2>3
<1>2. ASSUME NEW k \in 0 .. (N - 1), k \in T PROVE k + 1 \in T
  <2> DEFINE j == N - k
  <2>1. j \in 1 .. N /\ N - k + 1 = j + 1 /\ N - (k + 1) + 1 = j /\ k + 1 \in 0 .. N
    OBVIOUS
  <2>2. PICK f \in [1 .. N -> V] : IsDown(f, N - k + 1, N, ends, val, nxt, step)
    BY <1>2
  <2> DEFINE v == IF j \in ends THEN val[j] ELSE step[j][f[nxt[j]]]
             g == [f EXCEPT ![j] = v]
  <2> HIDE DEF j, v
  <2>3. v \in V
    <3>1. CASE j \in ends
      BY <2>1, <3>1 DEF v
    <3>2. CASE j \notin ends
      <4>1. nxt[j] \in 1 .. N
        BY <2>1, <3>2
      <4> QED
        BY <2>1, <3>2, <4>1 DEF v
    <3> QED
      BY <3>1, <3>2
  <2>4. g \in [1 .. N -> V] /\ g[j] = v /\ \A i \in 1 .. N : i # j => g[i] = f[i]
    BY <2>1, <2>3
  <2> HIDE DEF g
  <2>5. ASSUME NEW i \in j .. N PROVE g[i] = IF i \in ends THEN val[i] ELSE step[i][g[nxt[i]]]
    <3>1. i \in 1 .. N /\ (i \notin ends => nxt[i] \in 1 .. N /\ nxt[i] # j)
      BY <2>1
    <3>2. CASE i = j
      BY <2>4, <3>1, <3>2 DEF v
    <3>3. CASE i # j
      <4>1. i \in j + 1 .. N
        BY <2>1, <3>3
      <4>2. f[i] = IF i \in ends THEN val[i] ELSE step[i][f[nxt[i]]]
        BY <2>1, <2>2, <4>1 DEF IsDown
      <4> QED
        BY <2>4, <3>1, <3>3, <4>2
    <3> QED
      BY <3>2, <3>3
  <2>6. IsDown(g, N - (k + 1) + 1, N, ends, val, nxt, step)
    BY <2>1, <2>5 DEF IsDown
  <2> QED
    BY <2>1, <2>4, <2>6
<1> HIDE DEF T
<1>3. \A k \in 0 .. (N - 1) : k \in T => k + 1 \in T
  BY <1>2
<1>4. 0 .. N \subseteq T
  BY <1>1, <1>3, UpTo
<1>5. N \in T
  BY <1>4
<1>6. N - N + 1 = 1
  OBVIOUS
<1> QED
  BY <1>5, <1>6 DEF T

\* The greatest element of a set that holds its bound.
LEMMA MaxOfUpTo ==
  ASSUME NEW k \in Nat, NEW t \in SUBSET (1 .. k + 1), k + 1 \in t
  PROVE  Max(t) = k + 1
<1>1. k + 1 \in t /\ \A y \in t : k + 1 >= y
  OBVIOUS
<1>2. \A x \in t : (\A y \in t : x >= y) => x = k + 1
  OBVIOUS
<1> QED
  BY <1>1, <1>2 DEF Max

-----------------------------------------------------------------------------
(***************************************************************************)
(* FlattenSeq, and sequences that begin alike.                             *)
(***************************************************************************)
\* What the recursive function of FlattenSeq computes: the i-th value is the first
\* i sequences, one behind the other.
IsFlattening(f, s) ==
    f = [i \in 1..Len(s) |-> IF i = 1 THEN s[i] ELSE f[i - 1] \o s[i]]

\* FlattenSeq is the last value of that function.
LEMMA FlattenSeqDef ==
    ASSUME NEW s, Len(s) # 0
    PROVE  FlattenSeq(s) = (CHOOSE f : IsFlattening(f, s))[Len(s)]
BY DEF FlattenSeq, IsFlattening

\* Nothing to flatten.
LEMMA FlattenSeqNil == FlattenSeq(<<>>) = <<>>
BY DEF FlattenSeq

\* There is such a function.
LEMMA FlatteningExists ==
    ASSUME NEW S, NEW s \in Seq(Seq(S))
    PROVE  \E f : IsFlattening(f, s)
<1> DEFINE Step(g, i) == g[i] = IF i = 1 THEN s[i] ELSE g[i - 1] \o s[i]
           T == {k \in 0..Len(s) : \E g \in [1..k -> Seq(S)] : \A i \in 1..k : Step(g, i)}
<1>1. 0 \in T
  <2>1. [i \in 1..0 |-> s[1]] \in [1..0 -> Seq(S)]
    BY SMT
  <2>2. \A i \in 1..0 : Step([j \in 1..0 |-> s[1]], i)
    BY SMT
  <2>3. 0 \in 0..Len(s)
    BY LenProperties
  <2>4. QED
    BY <2>1, <2>2, <2>3
<1>2. ASSUME NEW k \in 0..(Len(s) - 1), k \in T PROVE k + 1 \in T
  <2>1. PICK g \in [1..k -> Seq(S)] : \A i \in 1..k : Step(g, i)
    BY <1>2
  <2> DEFINE x == IF k = 0 THEN s[k + 1] ELSE g[k] \o s[k + 1]
             h == [i \in 1..(k + 1) |-> IF i = k + 1 THEN x ELSE g[i]]
  <2>2. k \in Nat /\ k + 1 \in 1..Len(s) /\ k + 1 \in 0..Len(s) /\ s[k + 1] \in Seq(S)
    BY LenProperties, ElementOfSeq
  <2>3. x \in Seq(S)
    <3>1. CASE k = 0
      BY <2>2, <3>1
    <3>2. CASE k # 0
      <4>1. k \in 1..k
        BY <2>2, <3>2
      <4>2. g[k] \in Seq(S)
        BY <4>1
      <4>3. QED
        BY <2>2, <4>2, <3>2, ConcatProperties
    <3>3. QED
      BY <3>1, <3>2
  <2>4. h \in [1..(k + 1) -> Seq(S)]
    <3> HIDE DEF x
    <3>1. ASSUME NEW i \in 1..(k + 1), i # k + 1 PROVE i \in 1..k
      BY <2>2, <3>1
    <3>2. QED
      BY <2>3, <3>1
  <2>5. ASSUME NEW i \in 1..(k + 1) PROVE Step(h, i)
    <3>1. CASE i = k + 1
      <4>1. h[i] = x /\ (k # 0 => h[k] = g[k])
        BY <3>1, <2>2
      <4>2. i - 1 = k /\ (i = 1 <=> k = 0)
        BY <3>1, <2>2
      <4>3. QED
        BY <4>1, <4>2, <3>1
    <3>2. CASE i # k + 1
      <4>1. i \in 1..k /\ (i # 1 => i - 1 \in 1..k)
        BY <3>2, <2>2
      <4> HIDE DEF x
      <4>2. h[i] = g[i]
        BY <3>2
      <4>3. i # 1 => i - 1 \in 1..(k + 1) /\ i - 1 # k + 1
        BY <4>1, <2>2
      <4>4. i # 1 => h[i - 1] = g[i - 1]
        BY <4>3
      <4>5. QED
        BY <4>1, <4>2, <4>4, <2>1
    <3>3. QED
      BY <3>1, <3>2
  <2>6. QED
    BY <2>2, <2>4, <2>5
<1>3. Len(s) \in T
  <2> HIDE DEF T
  <2>1. 0..Len(s) \subseteq T
    BY <1>1, <1>2, UpTo, LenProperties
  <2>2. QED
    BY <2>1, LenProperties
<1>4. PICK g \in [1..Len(s) -> Seq(S)] : \A i \in 1..Len(s) : Step(g, i)
  BY <1>3
<1>5. IsFlattening(g, s)
  BY <1>4 DEF IsFlattening
<1>6. QED
  BY <1>5

\* The function that FlattenSeq takes, step by step.
LEMMA FlatteningSteps ==
    ASSUME NEW S, NEW s \in Seq(Seq(S)), Len(s) # 0, NEW f, IsFlattening(f, s)
    PROVE  /\ f[1] = s[1]
           /\ \A i \in 1..(Len(s) - 1) : f[i + 1] = f[i] \o s[i + 1]
           /\ \A i \in 1..Len(s) : f[i] \in Seq(S)
<1>1. Len(s) \in Nat \ {0} /\ 1 \in 1..Len(s)
  BY LenProperties
<1>0. \A i \in 1..Len(s) : f[i] = IF i = 1 THEN s[i] ELSE f[i - 1] \o s[i]
  <2> DEFINE g == [i \in 1..Len(s) |-> IF i = 1 THEN s[i] ELSE f[i - 1] \o s[i]]
  <2>1. f = g
    BY DEF IsFlattening
  <2>2. \A i \in 1..Len(s) : g[i] = IF i = 1 THEN s[i] ELSE f[i - 1] \o s[i]
    OBVIOUS
  <2>3. QED
    BY <2>1, <2>2, Zenon
<1>2. f[1] = s[1]
  BY <1>0, <1>1
<1>3. ASSUME NEW i \in 1..(Len(s) - 1) PROVE f[i + 1] = f[i] \o s[i + 1]
  <2>1. i + 1 \in 1..Len(s) /\ i + 1 # 1 /\ (i + 1) - 1 = i
    BY <1>1
  <2>2. f[i + 1] = IF i + 1 = 1 THEN s[i + 1] ELSE f[(i + 1) - 1] \o s[i + 1]
    BY <2>1, <1>0
  <2>3. QED
    BY <2>1, <2>2
<1> DEFINE T == {k \in 0..Len(s) : k # 0 => f[k] \in Seq(S)}
<1>4. 0 \in T
  BY <1>1
<1>5. ASSUME NEW k \in 0..(Len(s) - 1), k \in T PROVE k + 1 \in T
  <2>1. k + 1 \in 1..Len(s) /\ k + 1 \in 0..Len(s) /\ s[k + 1] \in Seq(S)
    BY <1>1, ElementOfSeq
  <2>2. CASE k = 0
    BY <2>1, <2>2, <1>2
  <2>3. CASE k # 0
    <3>1. k \in 1..(Len(s) - 1) /\ f[k] \in Seq(S)
      BY <2>3, <1>5
    <3>2. QED
      BY <3>1, <2>1, <1>3, ConcatProperties
  <2>4. QED
    BY <2>2, <2>3
<1>6. \A i \in 1..Len(s) : f[i] \in Seq(S)
  <2> HIDE DEF T
  <2>1. 0..Len(s) \subseteq T
    BY <1>1, <1>4, <1>5, UpTo
  <2>2. QED
    BY <2>1 DEF T
<1>7. QED
  BY <1>2, <1>3, <1>6

\* Sequences over S are flattened to one over S.
LEMMA FlattenSeqType ==
    ASSUME NEW S, NEW s \in Seq(Seq(S))
    PROVE  FlattenSeq(s) \in Seq(S)
<1>1. CASE Len(s) = 0
  <2>1. s = <<>>
    BY <1>1, EmptySeq
  <2>2. FlattenSeq(s) = <<>>
    BY <2>1, FlattenSeqNil
  <2>3. QED
    BY <2>2
<1>2. CASE Len(s) # 0
  <2> DEFINE f == CHOOSE f : IsFlattening(f, s)
  <2>1. IsFlattening(f, s)
    BY FlatteningExists
  <2>2. FlattenSeq(s) = f[Len(s)] /\ Len(s) \in 1..Len(s)
    BY <1>2, FlattenSeqDef, LenProperties
  <2> HIDE DEF f
  <2>3. QED
    BY <1>2, <2>1, <2>2, FlatteningSteps
<1>3. QED
  BY <1>1, <1>2

\* A sequence of sequences is flattened from left to right.
LEMMA FlattenSeqAppend ==
    ASSUME NEW S, NEW s \in Seq(Seq(S)), NEW x \in Seq(S)
    PROVE  FlattenSeq(Append(s, x)) = FlattenSeq(s) \o x
<1> DEFINE t == Append(s, x)
           g == CHOOSE g : IsFlattening(g, t)
<1>1. /\ t \in Seq(Seq(S)) /\ Len(t) = Len(s) + 1 /\ t[Len(s) + 1] = x
      /\ \A i \in 1..Len(s) : t[i] = s[i]
      /\ Len(s) \in Nat
  BY AppendProperties, LenProperties
<1>2. IsFlattening(g, t) /\ FlattenSeq(t) = g[Len(t)]
  <2> HIDE DEF t
  <2>1. Len(t) # 0
    BY <1>1
  <2>2. \E f : IsFlattening(f, t)
    BY <1>1, FlatteningExists, Zenon
  <2>3. QED
    BY <2>1, <2>2, FlattenSeqDef
<1> HIDE DEF t, g
<1>3. /\ g[1] = t[1]
      /\ \A i \in 1..(Len(t) - 1) : g[i + 1] = g[i] \o t[i + 1]
      /\ \A i \in 1..Len(t) : g[i] \in Seq(S)
  <2>1. Len(t) # 0
    BY <1>1
  <2>2. QED
    BY <1>1, <1>2, <2>1, FlatteningSteps, Zenon
<1>4. CASE Len(s) = 0
  <2>1. s = <<>> /\ FlattenSeq(s) = <<>>
    BY <1>4, EmptySeq, FlattenSeqNil
  <2>2. FlattenSeq(t) = x
    BY <1>1, <1>2, <1>3, <1>4
  <2>3. QED
    BY <2>1, <2>2, ConcatEmptySeq DEF t
<1>5. CASE Len(s) # 0
  <2> DEFINE f == CHOOSE f : IsFlattening(f, s)
             T == {k \in 0..Len(s) : k # 0 => f[k] = g[k]}
  <2>1. IsFlattening(f, s) /\ FlattenSeq(s) = f[Len(s)]
    BY <1>5, FlatteningExists, FlattenSeqDef
  <2> HIDE DEF f
  <2>2. /\ f[1] = s[1]
        /\ \A i \in 1..(Len(s) - 1) : f[i + 1] = f[i] \o s[i + 1]
        /\ \A i \in 1..Len(s) : f[i] \in Seq(S)
    BY <1>5, <2>1, FlatteningSteps, Zenon
  <2>3. 0 \in T
    BY <1>1
  <2>4. ASSUME NEW k \in 0..(Len(s) - 1), k \in T PROVE k + 1 \in T
    <3>1. k + 1 \in 1..Len(s) /\ k + 1 \in 0..Len(s)
      BY <1>1
    <3>2. CASE k = 0
      BY <3>1, <3>2, <2>2, <1>3, <1>1
    <3>3. CASE k # 0
      <4>1. k \in 1..(Len(s) - 1) /\ k \in 1..(Len(t) - 1) /\ f[k] = g[k] /\ k + 1 \in 1..Len(s)
        BY <3>3, <1>1, <2>4
      <4>2. f[k + 1] = g[k + 1]
        BY <4>1, <2>2, <1>3, <1>1, Zenon
      <4>3. QED
        BY <4>2, <3>1
    <3>4. QED
      BY <3>2, <3>3
  <2>5. f[Len(s)] = g[Len(s)]
    <3> HIDE DEF T
    <3>1. 0..Len(s) \subseteq T
      BY <1>1, <2>3, <2>4, UpTo
    <3>2. Len(s) \in 0..Len(s)
      BY <1>1
    <3>3. QED
      BY <3>1, <3>2, <1>5 DEF T
  <2>6. g[Len(s) + 1] = g[Len(s)] \o x
    <3>1. Len(s) \in 1..(Len(t) - 1)
      BY <1>1, <1>5
    <3>2. QED
      BY <3>1, <1>1, <1>3
  <2>7. QED
    BY <2>1, <2>5, <2>6, <1>1, <1>2 DEF t
<1>6. QED
  BY <1>4, <1>5

\* The first k of the sequences, one behind the other.
First(s, k) == FlattenSeq(SubSeq(s, 1, k))

\* The first k + 1 are the first k and the next; the first of all are all.
LEMMA FirstSteps ==
    ASSUME NEW S, NEW s \in Seq(Seq(S))
    PROVE  /\ First(s, 0) = <<>>
           /\ First(s, Len(s)) = FlattenSeq(s)
           /\ \A k \in 0..Len(s) : First(s, k) \in Seq(S)
           /\ \A k \in 0..(Len(s) - 1) : First(s, k + 1) = First(s, k) \o s[k + 1]
<1>1. Len(s) \in Nat
  BY LenProperties
<1>2. First(s, 0) = <<>>
  <2>1. SubSeq(s, 1, 0) = <<>>
    BY SubSeqEmpty
  <2>2. QED
    BY <2>1, FlattenSeqNil DEF First
<1>3. First(s, Len(s)) = FlattenSeq(s)
  BY SubSeqFull DEF First
<1>4. ASSUME NEW k \in 0..Len(s)
      PROVE  SubSeq(s, 1, k) \in Seq(Seq(S)) /\ Len(SubSeq(s, 1, k)) = k
  <2>1. k \in 1..Len(s) => 1 \in 1..(Len(s) + 1) /\ 1..k \subseteq 1..Len(s)
    BY <1>1
  <2>2. QED
    BY <1>1
<1>5. \A k \in 0..Len(s) : First(s, k) \in Seq(S)
  BY <1>4, FlattenSeqType DEF First
<1>6. ASSUME NEW k \in 0..(Len(s) - 1)
      PROVE  First(s, k + 1) = First(s, k) \o s[k + 1]
  <2> DEFINE a == SubSeq(s, 1, k)
             b == SubSeq(s, 1, k + 1)
  <2>1. k \in 0..Len(s) /\ k + 1 \in 0..Len(s) /\ k + 1 \in 1..Len(s) /\ s[k + 1] \in Seq(S)
    BY <1>1, ElementOfSeq
  <2>2. b = Append(a, s[k + 1])
    BY <2>1, <1>1, <1>4
  <2>3. a \in Seq(Seq(S))
    BY <2>1, <1>4
  <2> HIDE DEF a, b
  <2>4. FlattenSeq(b) = FlattenSeq(a) \o s[k + 1]
    BY <2>1, <2>2, <2>3, FlattenSeqAppend
  <2>5. QED
    BY <2>4 DEF First, a, b
<1>7. QED
  BY <1>2, <1>3, <1>5, <1>6

\* p stands at the beginning of s.
Begins(p, s) == Len(p) <= Len(s) /\ \A i \in 1..Len(p) : s[i] = p[i]

\* A sequence begins what is appended to it.
LEMMA BeginsConcat ==
    ASSUME NEW S, NEW p \in Seq(S), NEW s \in Seq(S), NEW t \in Seq(S), Begins(p, s)
    PROVE  Begins(p, s \o t)
<1>1. /\ Len(p) \in Nat /\ Len(s) \in Nat /\ Len(t) \in Nat /\ Len(s \o t) = Len(s) + Len(t)
      /\ \A i \in 1..Len(s) : (s \o t)[i] = s[i]
  BY LenProperties, ConcatProperties
<1>2. QED
  BY <1>1 DEF Begins

\* The first k begin the whole.
LEMMA FirstBegins ==
    ASSUME NEW S, NEW s \in Seq(Seq(S)), NEW k \in 0..Len(s)
    PROVE  Begins(First(s, k), FlattenSeq(s))
<1> DEFINE N == Len(s) - k
           T == {j \in 0..N : Begins(First(s, k), First(s, k + j))}
<1>1. Len(s) \in Nat /\ k \in Nat /\ N \in Nat /\ k + N = Len(s) /\ k + 0 = k
  BY LenProperties
<1>2. 0 \in T
  <2>1. Begins(First(s, k), First(s, k))
    BY FirstSteps, LenProperties DEF Begins
  <2>2. QED
    BY <2>1, <1>1
<1>3. ASSUME NEW j \in 0..(N - 1), j \in T PROVE j + 1 \in T
  <2>1. /\ k + j \in 0..(Len(s) - 1) /\ (k + j) + 1 = k + (j + 1) /\ k + j \in 0..Len(s)
        /\ (k + j) + 1 \in 1..Len(s) /\ j + 1 \in 0..N
    BY <1>1
  <2>2. First(s, k + (j + 1)) = First(s, k + j) \o s[(k + j) + 1]
    BY <2>1, FirstSteps
  <2>3. First(s, k + j) \in Seq(S) /\ s[(k + j) + 1] \in Seq(S) /\ First(s, k) \in Seq(S)
    BY <2>1, FirstSteps, ElementOfSeq
  <2>4. Begins(First(s, k), First(s, k + (j + 1)))
    BY <1>3, <2>2, <2>3, BeginsConcat
  <2>5. QED
    BY <2>4, <2>1
<1>4. Begins(First(s, k), First(s, k + N))
  <2> HIDE DEF T, N
  <2>1. 0..N \subseteq T
    BY <1>1, <1>2, <1>3, UpTo
  <2>2. N \in 0..N
    BY <1>1
  <2>3. QED
    BY <2>1, <2>2 DEF T
<1>5. QED
  BY <1>1, <1>4, FirstSteps

\* Where the sequence k + 1 lies in the whole.
LEMMA LiesBehind ==
    ASSUME NEW S, NEW s \in Seq(Seq(S)), NEW k \in 0..(Len(s) - 1)
    PROVE  /\ Len(First(s, k + 1)) = Len(First(s, k)) + Len(s[k + 1])
           /\ Len(First(s, k + 1)) <= Len(FlattenSeq(s))
           /\ \A j \in 1..Len(s[k + 1]) : FlattenSeq(s)[Len(First(s, k)) + j] = s[k + 1][j]
<1>1. Len(s) \in Nat /\ k \in 0..Len(s) /\ k + 1 \in 0..Len(s) /\ k + 1 \in 1..Len(s)
  BY LenProperties
<1>2. First(s, k) \in Seq(S) /\ s[k + 1] \in Seq(S) /\ First(s, k + 1) = First(s, k) \o s[k + 1]
  BY <1>1, FirstSteps, ElementOfSeq
<1>3. /\ Len(First(s, k)) \in Nat /\ Len(s[k + 1]) \in Nat
      /\ Len(First(s, k + 1)) = Len(First(s, k)) + Len(s[k + 1])
      /\ \A i \in 1..Len(First(s, k + 1)) :
            First(s, k + 1)[i] = IF i <= Len(First(s, k)) THEN First(s, k)[i]
                                 ELSE s[k + 1][i - Len(First(s, k))]
  BY <1>2, LenProperties, ConcatProperties
<1>4. Begins(First(s, k + 1), FlattenSeq(s))
  BY <1>1, FirstBegins
<1>5. ASSUME NEW j \in 1..Len(s[k + 1])
      PROVE  FlattenSeq(s)[Len(First(s, k)) + j] = s[k + 1][j]
  <2>1. /\ Len(First(s, k)) + j \in 1..Len(First(s, k + 1))
        /\ ~(Len(First(s, k)) + j <= Len(First(s, k)))
        /\ (Len(First(s, k)) + j) - Len(First(s, k)) = j
    BY <1>3
  <2>2. First(s, k + 1)[Len(First(s, k)) + j] = s[k + 1][j]
    BY <2>1, <1>3
  <2>3. QED
    BY <2>1, <2>2, <1>4 DEF Begins
<1>6. QED
  BY <1>3, <1>4, <1>5 DEF Begins

-----------------------------------------------------------------------------
(***************************************************************************)
(* The wire.                                                               *)
(***************************************************************************)
FieldLines(m) == [i \in DOMAIN m.fields |-> <<m.fields[i]>> \o crlf]
ChunkFrames(m) == [i \in DOMAIN m.chunks |-> EncodeChunk(m.chunks[i])]
HeaderWire(m) == <<"s">> \o crlf \o FlattenSeq(FieldLines(m)) \o crlf
BodyWire(m) == IF IsChunked(m) THEN FlattenSeq(ChunkFrames(m)) \o <<"0">> \o crlf \o crlf
               ELSE Payload(m)
HeaderSize(m) == 3 * Len(m.fields) + 5

\* The wire is the header section and the body.
LEMMA WireParts == \A m : Wire(m) = HeaderWire(m) \o BodyWire(m)
BY DEF Wire, HeaderWire, BodyWire, FieldLines, ChunkFrames

\* A line end is two bytes.
LEMMA CrlfType == crlf \in Seq(Bytes) /\ Len(crlf) = 2 /\ crlf[1] = "CR" /\ crlf[2] = "LF"
BY DEF crlf, Bytes

\* What MessageAssumption says of one response.
LEMMA MessageType ==
    ASSUME NEW m \in Messages
    PROVE  /\ m.fields \in Seq(Fields) /\ Len(m.fields) \in Nat
           /\ DOMAIN m.fields = 1..Len(m.fields)
           /\ m.chunks \in Seq(Seq(Bytes)) /\ Len(m.chunks) \in Nat
           /\ DOMAIN m.chunks = 1..Len(m.chunks)
           /\ \A i \in 1..Len(m.chunks) : m.chunks[i] \in Seq(Bytes) /\ Len(m.chunks[i]) \in 1..3
<1>1. m.fields \in Seq(Fields) /\ m.chunks \in Seq(Seq(Bytes))
  BY MessageAssumption
<1>2. \A i \in DOMAIN m.chunks : Len(m.chunks[i]) \in 1..3
  BY MessageAssumption
<1>3. QED
  BY <1>1, <1>2, LenProperties, ElementOfSeq

\* A function on 1..n is a sequence of length n.
LEMMA FunctionIsSequence ==
    ASSUME NEW S, NEW n \in Nat, NEW f \in [1..n -> S]
    PROVE  f \in Seq(S) /\ Len(f) = n
OBVIOUS

\* u is s and t one behind the other, whose lengths are a and b.
IsJoin(u, s, a, t, b) ==
    /\ u \in Seq(Bytes) /\ Len(u) = a + b
    /\ \A i \in 1..(a + b) : u[i] = IF i <= a THEN s[i] ELSE t[i - a]

IsWord(s, n) == s \in Seq(Bytes) /\ n \in Nat /\ Len(s) = n

\* What lies where in two sequences that are joined.
LEMMA JoinedParts ==
    ASSUME NEW s, NEW a, IsWord(s, a), NEW t, NEW b, IsWord(t, b)
    PROVE  IsJoin(s \o t, s, a, t, b)
<1>1. /\ s \o t \in Seq(Bytes) /\ Len(s \o t) = Len(s) + Len(t)
      /\ \A i \in 1..(Len(s) + Len(t)) : (s \o t)[i] = IF i <= Len(s) THEN s[i] ELSE t[i - Len(s)]
  BY ConcatProperties DEF IsWord
<1>2. QED
  BY <1>1 DEF IsJoin, IsWord

\* The line of a header field: the field and a line end.
LEMMA LineType ==
    ASSUME NEW f \in Bytes
    PROVE  /\ <<f>> \o crlf \in Seq(Bytes) /\ Len(<<f>> \o crlf) = 3
           /\ (<<f>> \o crlf)[1] = f
           /\ (<<f>> \o crlf)[2] = "CR" /\ (<<f>> \o crlf)[3] = "LF"
<1> DEFINE a == <<f>>
<1>2. <<f>> \in Seq(Bytes) /\ Len(<<f>>) = 1 /\ <<f>>[1] = f
  OBVIOUS
<1>3. a \in Seq(Bytes) /\ Len(a) = 1 /\ a[1] = f
  BY <1>2
<1> HIDE DEF a
<1>4. /\ a \o crlf \in Seq(Bytes) /\ Len(a \o crlf) = 1 + 2
      /\ \A i \in 1..(1 + 2) : (a \o crlf)[i] = IF i <= 1 THEN a[i] ELSE crlf[i - 1]
  <2>1. IsWord(a, 1) /\ IsWord(crlf, 2)
    BY <1>3, CrlfType DEF IsWord
  <2>2. IsJoin(a \o crlf, a, 1, crlf, 2)
    BY <2>1, JoinedParts
  <2>3. QED
    BY <2>2 DEF IsJoin
<1>5. (a \o crlf)[1] = a[1] /\ (a \o crlf)[2] = crlf[1] /\ (a \o crlf)[3] = crlf[2]
  BY <1>4
<1>6. QED
  BY <1>3, <1>4, <1>5, CrlfType DEF a

\* The lines of the header fields.
LEMMA FieldLinesType ==
    ASSUME NEW m \in Messages
    PROVE  /\ FieldLines(m) \in Seq(Seq(Bytes))
           /\ Len(FieldLines(m)) = Len(m.fields)
           /\ \A i \in 1..Len(m.fields) :
                 /\ Len(FieldLines(m)[i]) = 3
                 /\ FieldLines(m)[i][1] = m.fields[i]
                 /\ FieldLines(m)[i][2] = "CR" /\ FieldLines(m)[i][3] = "LF"
<1>1. \A i \in 1..Len(m.fields) : m.fields[i] \in Bytes
  <2>1. \A i \in 1..Len(m.fields) : m.fields[i] \in Fields
    BY MessageType, ElementOfSeq
  <2>2. QED
    BY <2>1 DEF Bytes
<1>2. \A i \in 1..Len(m.fields) : FieldLines(m)[i] = <<m.fields[i]>> \o crlf
  BY MessageType DEF FieldLines
<1>3. \A i \in 1..Len(m.fields) : FieldLines(m)[i] \in Seq(Bytes)
  BY <1>1, <1>2, LineType
<1>4. FieldLines(m) = [i \in 1..Len(m.fields) |-> FieldLines(m)[i]]
  BY MessageType DEF FieldLines
<1>5. FieldLines(m) \in Seq(Seq(Bytes)) /\ Len(FieldLines(m)) = Len(m.fields)
  <2>1. FieldLines(m) \in [1..Len(m.fields) -> Seq(Bytes)]
    BY <1>3, <1>4
  <2>2. QED
    BY <2>1, MessageType, FunctionIsSequence, Zenon
<1>6. ASSUME NEW i \in 1..Len(m.fields)
      PROVE  /\ Len(FieldLines(m)[i]) = 3 /\ FieldLines(m)[i][1] = m.fields[i]
             /\ FieldLines(m)[i][2] = "CR" /\ FieldLines(m)[i][3] = "LF"
  <2> DEFINE line == <<m.fields[i]>> \o crlf
  <2>1. m.fields[i] \in Bytes /\ FieldLines(m)[i] = line
    BY <1>1, <1>2
  <2>2. /\ Len(line) = 3 /\ line[1] = m.fields[i]
        /\ line[2] = "CR" /\ line[3] = "LF"
    BY <2>1, LineType
  <2> HIDE DEF line
  <2>3. QED
    BY <2>1, <2>2
<1>7. QED
  BY <1>5, <1>6

\* Three bytes for each field.
LEMMA FieldsPart ==
    ASSUME NEW m \in Messages
    PROVE  LET F == FlattenSeq(FieldLines(m)) IN
           /\ F \in Seq(Bytes) /\ Len(F) = 3 * Len(m.fields)
           /\ \A i \in 1..Len(m.fields) :
                 F[3 * i - 2] = m.fields[i] /\ F[3 * i - 1] = "CR" /\ F[3 * i] = "LF"
<1> DEFINE s == FieldLines(m)
           N == Len(m.fields)
           T == {k \in 0..N : Len(First(s, k)) = 3 * k}
<1>1. s \in Seq(Seq(Bytes)) /\ Len(s) = N /\ N \in Nat
  BY FieldLinesType, MessageType
<1>2. /\ First(s, 0) = <<>> /\ First(s, N) = FlattenSeq(s)
  BY <1>1, FirstSteps
<1>3. \A k \in 0..(N - 1) : /\ Len(First(s, k + 1)) = Len(First(s, k)) + Len(s[k + 1])
                            /\ \A j \in 1..Len(s[k + 1]) :
                                  FlattenSeq(s)[Len(First(s, k)) + j] = s[k + 1][j]
  BY <1>1, LiesBehind
<1>4. \A k \in 0..(N - 1) :
         /\ Len(s[k + 1]) = 3 /\ s[k + 1][1] = m.fields[k + 1]
         /\ s[k + 1][2] = "CR" /\ s[k + 1][3] = "LF"
  <2>1. \A k \in 0..(N - 1) : k + 1 \in 1..N
    BY <1>1
  <2>2. QED
    BY <2>1, FieldLinesType
<1>5. \A k \in 0..N : Len(First(s, k)) = 3 * k
  <2>1. 0 \in T
    <3>1. Len(First(s, 0)) = 0
      BY <1>2
    <3>2. QED
      BY <3>1, <1>1
  <2>2. ASSUME NEW k \in 0..(N - 1), k \in T PROVE k + 1 \in T
    <3>1. Len(First(s, k + 1)) = Len(First(s, k)) + 3
      BY <1>3, <1>4
    <3>2. k + 1 \in 0..N /\ 3 * (k + 1) = 3 * k + 3
      BY <1>1
    <3>3. QED
      BY <3>1, <3>2, <2>2
  <2> HIDE DEF T, s, N
  <2>3. 0..N \subseteq T
    BY <1>1, <2>1, <2>2, UpTo
  <2>4. QED
    BY <2>3 DEF T
<1>6. FlattenSeq(s) \in Seq(Bytes) /\ Len(FlattenSeq(s)) = 3 * N
  <2> HIDE DEF s, N
  <2>1. N \in 0..N
    BY <1>1
  <2>2. QED
    BY <2>1, <1>1, <1>2, <1>5, FlattenSeqType
<1>7. ASSUME NEW i \in 1..N
      PROVE  /\ FlattenSeq(s)[3 * i - 2] = m.fields[i]
             /\ FlattenSeq(s)[3 * i - 1] = "CR" /\ FlattenSeq(s)[3 * i] = "LF"
  <2> HIDE DEF s, N
  <2>1. PICK k \in 0..(N - 1) : k + 1 = i
    <3>1. i - 1 \in 0..(N - 1) /\ (i - 1) + 1 = i
      BY <1>1
    <3>2. QED
      BY <3>1
  <2>2. Len(First(s, k)) = 3 * k /\ Len(s[k + 1]) = 3
    BY <1>1, <1>4, <1>5
  <2>3. 3 * k + 1 = 3 * i - 2 /\ 3 * k + 2 = 3 * i - 1 /\ 3 * k + 3 = 3 * i
    BY <2>1, <1>1
  <2>4. \A j \in 1..3 : FlattenSeq(s)[3 * k + j] = s[i][j]
    BY <2>1, <2>2, <1>3
  <2>5. s[i][1] = m.fields[i] /\ s[i][2] = "CR" /\ s[i][3] = "LF"
    BY <2>1, <1>4
  <2>6. 1 \in 1..3 /\ 2 \in 1..3 /\ 3 \in 1..3
    OBVIOUS
  <2>7. QED
    BY <2>3, <2>4, <2>5, <2>6
<1>8. QED
  BY <1>6, <1>7

\* The bytes of the header section.
LEMMA HeaderBytes ==
    ASSUME NEW m \in Messages
    PROVE  LET h == HeaderWire(m)  n == Len(m.fields) IN
           /\ h \in Seq(Bytes) /\ Len(h) = HeaderSize(m)
           /\ h[1] = "s" /\ h[2] = "CR" /\ h[3] = "LF"
           /\ \A i \in 1..n :
                 h[3 * i + 1] = m.fields[i] /\ h[3 * i + 2] = "CR" /\ h[3 * i + 3] = "LF"
           /\ h[3 * n + 4] = "CR" /\ h[3 * n + 5] = "LF"
<1> DEFINE a == <<"s">> \o crlf
           F == FlattenSeq(FieldLines(m))
           n == Len(m.fields)
           h == (a \o F) \o crlf
<1>1. a \in Seq(Bytes) /\ Len(a) = 3 /\ a[1] = "s" /\ a[2] = "CR" /\ a[3] = "LF"
  <2>1. "s" \in Bytes
    BY DEF Bytes
  <2>2. QED
    BY <2>1, LineType
<1>2. /\ F \in Seq(Bytes) /\ Len(F) = 3 * n
      /\ \A i \in 1..n : F[3 * i - 2] = m.fields[i] /\ F[3 * i - 1] = "CR" /\ F[3 * i] = "LF"
  BY FieldsPart
<1>3. n \in Nat /\ HeaderSize(m) = 3 * n + 5
  BY MessageType DEF HeaderSize
<1>4. HeaderWire(m) = h
  BY DEF HeaderWire
<1> HIDE DEF a, F, n
<1>5. /\ a \o F \in Seq(Bytes) /\ Len(a \o F) = 3 + 3 * n
      /\ \A i \in 1..(3 + 3 * n) : (a \o F)[i] = IF i <= 3 THEN a[i] ELSE F[i - 3]
  <2>1. IsWord(a, 3) /\ IsWord(F, 3 * n)
    BY <1>1, <1>2, <1>3 DEF IsWord
  <2>2. IsJoin(a \o F, a, 3, F, 3 * n)
    BY <2>1, JoinedParts
  <2>3. QED
    BY <2>2 DEF IsJoin
<1> DEFINE b == a \o F
<1> HIDE DEF b
<1>6. /\ b \o crlf \in Seq(Bytes) /\ Len(b \o crlf) = (3 + 3 * n) + 2
      /\ \A i \in 1..((3 + 3 * n) + 2) :
            (b \o crlf)[i] = IF i <= 3 + 3 * n THEN b[i] ELSE crlf[i - (3 + 3 * n)]
  <2>1. IsWord(b, 3 + 3 * n) /\ IsWord(crlf, 2)
    BY <1>3, <1>5, CrlfType DEF IsWord, b
  <2>2. IsJoin(b \o crlf, b, 3 + 3 * n, crlf, 2)
    BY <2>1, JoinedParts
  <2>3. QED
    BY <2>2 DEF IsJoin
<1>7. h = b \o crlf
  BY DEF b
<1> HIDE DEF h
<1>8. h \in Seq(Bytes) /\ Len(h) = HeaderSize(m)
  BY <1>6, <1>7, <1>3
<1>9. \A i \in 1..(5 + 3 * n) :
         h[i] = IF i <= 3 THEN a[i] ELSE IF i <= 3 + 3 * n THEN F[i - 3] ELSE crlf[i - (3 + 3 * n)]
  BY <1>3, <1>5, <1>6, <1>7 DEF b
<1>10. h[1] = "s" /\ h[2] = "CR" /\ h[3] = "LF"
  BY <1>1, <1>3, <1>9
<1>11. ASSUME NEW i \in 1..n
       PROVE h[3 * i + 1] = m.fields[i] /\ h[3 * i + 2] = "CR" /\ h[3 * i + 3] = "LF"
  <2>1. /\ 3 * i + 1 \in 1..(5 + 3 * n) /\ 3 * i + 2 \in 1..(5 + 3 * n) /\ 3 * i + 3 \in 1..(5 + 3 * n)
        /\ ~(3 * i + 1 <= 3) /\ ~(3 * i + 2 <= 3) /\ ~(3 * i + 3 <= 3)
        /\ 3 * i + 1 <= 3 + 3 * n /\ 3 * i + 2 <= 3 + 3 * n /\ 3 * i + 3 <= 3 + 3 * n
        /\ (3 * i + 1) - 3 = 3 * i - 2 /\ (3 * i + 2) - 3 = 3 * i - 1 /\ (3 * i + 3) - 3 = 3 * i
    BY <1>3
  <2>2. h[3 * i + 1] = F[3 * i - 2] /\ h[3 * i + 2] = F[3 * i - 1] /\ h[3 * i + 3] = F[3 * i]
    BY <2>1, <1>9
  <2>3. QED
    BY <2>2, <1>2
<1>12. h[3 * n + 4] = "CR" /\ h[3 * n + 5] = "LF"
  <2>1. /\ 3 * n + 4 \in 1..(5 + 3 * n) /\ 3 * n + 5 \in 1..(5 + 3 * n)
        /\ ~(3 * n + 4 <= 3) /\ ~(3 * n + 4 <= 3 + 3 * n) /\ (3 * n + 4) - (3 + 3 * n) = 1
        /\ ~(3 * n + 5 <= 3) /\ ~(3 * n + 5 <= 3 + 3 * n) /\ (3 * n + 5) - (3 + 3 * n) = 2
    BY <1>3
  <2>2. QED
    BY <2>1, <1>9, CrlfType
<1>13. QED
  BY <1>4, <1>8, <1>10, <1>11, <1>12 DEF n

\* A size up to 3 has a digit, which is no line end.
LEMMA DigitFacts ==
    /\ \A n \in 0..3 : DigitOf(n) \in Digits /\ DigitValue[DigitOf(n)] = n
    /\ "0" \in Digits /\ DigitValue["0"] = 0
    /\ Digits \subseteq Bytes
    /\ "CR" \notin Digits /\ "LF" \notin Digits
<1>1. /\ "0" \in Digits /\ DigitValue["0"] = 0 /\ "1" \in Digits /\ DigitValue["1"] = 1
      /\ "2" \in Digits /\ DigitValue["2"] = 2 /\ "3" \in Digits /\ DigitValue["3"] = 3
  BY DEF Digits, DigitValue
<1>2. \A n \in 0..3 : n = 0 \/ n = 1 \/ n = 2 \/ n = 3
  OBVIOUS
<1>3. \A n \in 0..3 : \E c \in Digits : DigitValue[c] = n
  BY <1>1, <1>2
<1>4. \A n \in 0..3 : DigitOf(n) \in Digits /\ DigitValue[DigitOf(n)] = n
  BY <1>3 DEF DigitOf
<1>5. QED
  BY <1>1, <1>4 DEF Bytes, Digits

\* A chunk on the wire: its size, a line end, its bytes and a line end.
LEMMA FrameBytes ==
    ASSUME NEW c \in Seq(Bytes), Len(c) \in 1..3
    PROVE  LET e == EncodeChunk(c) IN
           /\ e \in Seq(Bytes) /\ Len(e) = Len(c) + 5
           /\ e[1] = DigitOf(Len(c)) /\ e[2] = "CR" /\ e[3] = "LF"
           /\ \A j \in 1..Len(c) : e[3 + j] = c[j]
           /\ e[Len(c) + 4] = "CR" /\ e[Len(c) + 5] = "LF"
<1> DEFINE d == DigitOf(Len(c))
           a == <<d>> \o crlf
           n == Len(c)
           e == (a \o c) \o crlf
<1>1. a \in Seq(Bytes) /\ Len(a) = 3 /\ a[1] = d /\ a[2] = "CR" /\ a[3] = "LF"
  <2>1. d \in Bytes
    <3>1. Len(c) \in 0..3
      OBVIOUS
    <3>2. d \in Digits
      BY <3>1, DigitFacts
    <3>3. QED
      BY <3>2, DigitFacts
  <2>2. QED
    BY <2>1, LineType
<1>2. EncodeChunk(c) = e
  BY DEF EncodeChunk
<1>3. n \in Nat
  OBVIOUS
<1> HIDE DEF a, n
<1>4. /\ a \o c \in Seq(Bytes) /\ Len(a \o c) = 3 + n
      /\ \A i \in 1..(3 + n) : (a \o c)[i] = IF i <= 3 THEN a[i] ELSE c[i - 3]
  <2>1. IsWord(a, 3) /\ IsWord(c, n)
    BY <1>1, <1>3 DEF IsWord, n
  <2>2. IsJoin(a \o c, a, 3, c, n)
    BY <2>1, JoinedParts
  <2>3. QED
    BY <2>2 DEF IsJoin
<1> DEFINE b == a \o c
<1> HIDE DEF b
<1>5. /\ b \o crlf \in Seq(Bytes) /\ Len(b \o crlf) = (3 + n) + 2
      /\ \A i \in 1..((3 + n) + 2) :
            (b \o crlf)[i] = IF i <= 3 + n THEN b[i] ELSE crlf[i - (3 + n)]
  <2>1. IsWord(b, 3 + n) /\ IsWord(crlf, 2)
    BY <1>3, <1>4, CrlfType DEF IsWord, b
  <2>2. IsJoin(b \o crlf, b, 3 + n, crlf, 2)
    BY <2>1, JoinedParts
  <2>3. QED
    BY <2>2 DEF IsJoin
<1>6. e = b \o crlf
  BY DEF b
<1> HIDE DEF e
<1>7. e \in Seq(Bytes) /\ Len(e) = n + 5
  BY <1>5, <1>6, <1>3
<1>8. \A i \in 1..(5 + n) :
         e[i] = IF i <= 3 THEN a[i] ELSE IF i <= 3 + n THEN c[i - 3] ELSE crlf[i - (3 + n)]
  BY <1>3, <1>4, <1>5, <1>6 DEF b
<1>9. e[1] = d /\ e[2] = "CR" /\ e[3] = "LF"
  BY <1>1, <1>3, <1>8
<1>10. ASSUME NEW j \in 1..n PROVE e[3 + j] = c[j]
  <2>1. 3 + j \in 1..(5 + n) /\ ~(3 + j <= 3) /\ 3 + j <= 3 + n /\ (3 + j) - 3 = j
    BY <1>3
  <2>2. QED
    BY <2>1, <1>8
<1>11. e[n + 4] = "CR" /\ e[n + 5] = "LF"
  <2>1. /\ n + 4 \in 1..(5 + n) /\ ~(n + 4 <= 3) /\ ~(n + 4 <= 3 + n) /\ (n + 4) - (3 + n) = 1
        /\ n + 5 \in 1..(5 + n) /\ ~(n + 5 <= 3) /\ ~(n + 5 <= 3 + n) /\ (n + 5) - (3 + n) = 2
    BY <1>3
  <2>2. QED
    BY <2>1, <1>8, CrlfType
<1>12. QED
  BY <1>2, <1>7, <1>9, <1>10, <1>11 DEF n

\* The frames of the chunks.
LEMMA FramesType ==
    ASSUME NEW m \in Messages
    PROVE  /\ ChunkFrames(m) \in Seq(Seq(Bytes)) /\ Len(ChunkFrames(m)) = Len(m.chunks)
           /\ \A i \in 1..Len(m.chunks) : ChunkFrames(m)[i] = EncodeChunk(m.chunks[i])
<1>1. \A i \in 1..Len(m.chunks) : ChunkFrames(m)[i] = EncodeChunk(m.chunks[i])
  BY MessageType DEF ChunkFrames
<1>2. \A i \in 1..Len(m.chunks) : EncodeChunk(m.chunks[i]) \in Seq(Bytes)
  BY MessageType, FrameBytes
<1>3. ChunkFrames(m) = [i \in 1..Len(m.chunks) |-> EncodeChunk(m.chunks[i])]
  BY MessageType DEF ChunkFrames
<1>4. ChunkFrames(m) \in [1..Len(m.chunks) -> Seq(Bytes)]
  BY <1>2, <1>3
<1>5. QED
  BY <1>1, <1>4, MessageType, FunctionIsSequence, Zenon

\* Where the frame of chunk k + 1 begins behind the header.
Offset(m, k) == Len(First(ChunkFrames(m), k))

\* A frame is five bytes longer than its chunk.
LEMMA OffsetSteps ==
    ASSUME NEW m \in Messages
    PROVE  /\ Offset(m, 0) = 0
           /\ \A k \in 0..Len(m.chunks) : Offset(m, k) \in Nat
           /\ \A k \in 0..(Len(m.chunks) - 1) :
                 Offset(m, k + 1) = Offset(m, k) + Len(m.chunks[k + 1]) + 5
<1>1. /\ ChunkFrames(m) \in Seq(Seq(Bytes)) /\ Len(ChunkFrames(m)) = Len(m.chunks) /\ Len(m.chunks) \in Nat
  BY FramesType, MessageType
<1>2. Offset(m, 0) = 0
  BY <1>1, FirstSteps DEF Offset
<1>3. \A k \in 0..Len(m.chunks) : Offset(m, k) \in Nat
  BY <1>1, FirstSteps, LenProperties DEF Offset
<1>4. ASSUME NEW k \in 0..(Len(m.chunks) - 1)
      PROVE  Offset(m, k + 1) = Offset(m, k) + Len(m.chunks[k + 1]) + 5
  <2>1. k + 1 \in 1..Len(m.chunks) /\ k \in 0..Len(m.chunks)
    BY <1>1
  <2>2. Offset(m, k + 1) = Offset(m, k) + Len(ChunkFrames(m)[k + 1])
    BY <1>1, LiesBehind DEF Offset
  <2>3. Len(ChunkFrames(m)[k + 1]) = Len(m.chunks[k + 1]) + 5 /\ Len(m.chunks[k + 1]) \in Nat
    BY <2>1, FramesType, MessageType, FrameBytes
  <2>4. QED
    BY <2>1, <2>2, <2>3, <1>3
<1>5. QED
  BY <1>2, <1>3, <1>4

\* The wire is bytes, and it is as long as its two parts.
LEMMA WireType ==
    ASSUME NEW m \in Messages
    PROVE  /\ Payload(m) \in Seq(Bytes)
           /\ IsWord(HeaderWire(m), HeaderSize(m))
           /\ IsWord(BodyWire(m), Len(BodyWire(m)))
           /\ IsWord(Wire(m), HeaderSize(m) + Len(BodyWire(m)))
           /\ \A i \in 1..HeaderSize(m) : Wire(m)[i] = HeaderWire(m)[i]
           /\ \A j \in 1..Len(BodyWire(m)) : Wire(m)[HeaderSize(m) + j] = BodyWire(m)[j]
<1>1. Payload(m) \in Seq(Bytes)
  BY MessageType, FlattenSeqType DEF Payload
<1>2. BodyWire(m) \in Seq(Bytes)
  <2>1. CASE IsChunked(m)
    <3>1. FlattenSeq(ChunkFrames(m)) \in Seq(Bytes)
      BY FramesType, FlattenSeqType
    <3>2. <<"0">> \in Seq(Bytes)
      BY DigitFacts
    <3>3. FlattenSeq(ChunkFrames(m)) \o <<"0">> \in Seq(Bytes)
      BY <3>1, <3>2, ConcatProperties
    <3>4. (FlattenSeq(ChunkFrames(m)) \o <<"0">>) \o crlf \in Seq(Bytes)
      BY <3>3, CrlfType, ConcatProperties
    <3>5. ((FlattenSeq(ChunkFrames(m)) \o <<"0">>) \o crlf) \o crlf \in Seq(Bytes)
      BY <3>4, CrlfType, ConcatProperties
    <3>6. QED
      BY <3>5, <2>1 DEF BodyWire
  <2>2. CASE ~IsChunked(m)
    BY <1>1, <2>2 DEF BodyWire
  <2>3. QED
    BY <2>1, <2>2
<1>3. IsWord(BodyWire(m), Len(BodyWire(m)))
  BY <1>2, LenProperties DEF IsWord
<1>4. IsWord(HeaderWire(m), HeaderSize(m))
  BY HeaderBytes, LenProperties DEF IsWord
<1>5. IsJoin(Wire(m), HeaderWire(m), HeaderSize(m), BodyWire(m), Len(BodyWire(m)))
  BY <1>3, <1>4, WireParts, JoinedParts
<1>6. HeaderSize(m) \in Nat /\ Len(BodyWire(m)) \in Nat
  BY <1>3, <1>4 DEF IsWord
<1>7. IsWord(Wire(m), HeaderSize(m) + Len(BodyWire(m)))
  BY <1>5, <1>6 DEF IsWord, IsJoin
<1>8. \A i \in 1..HeaderSize(m) : Wire(m)[i] = HeaderWire(m)[i]
  BY <1>5, <1>6 DEF IsJoin
<1>9. ASSUME NEW j \in 1..Len(BodyWire(m))
      PROVE  Wire(m)[HeaderSize(m) + j] = BodyWire(m)[j]
  <2>1. /\ HeaderSize(m) + j \in 1..(HeaderSize(m) + Len(BodyWire(m)))
        /\ ~(HeaderSize(m) + j <= HeaderSize(m)) /\ (HeaderSize(m) + j) - HeaderSize(m) = j
    BY <1>6
  <2>2. QED
    BY <2>1, <1>5 DEF IsJoin
<1>10. QED
  BY <1>1, <1>3, <1>4, <1>7, <1>8, <1>9

\* The frames, and behind them the last chunk of size 0 and an empty line.
LEMMA ChunkedBytes ==
    ASSUME NEW m \in Messages, IsChunked(m)
    PROVE  LET b == BodyWire(m)  F == FlattenSeq(ChunkFrames(m)) IN
           /\ Len(F) \in Nat /\ Len(b) = Len(F) + 5
           /\ \A i \in 1..Len(F) : b[i] = F[i]
           /\ b[Len(F) + 1] = "0" /\ b[Len(F) + 2] = "CR" /\ b[Len(F) + 3] = "LF"
<1> DEFINE F == FlattenSeq(ChunkFrames(m))
           n == Len(F)
           z == <<"0">>
           s == F \o z
           t == s \o crlf
           b == t \o crlf
<1>1. BodyWire(m) = b
  BY DEF BodyWire
<1>2. IsWord(F, n) /\ n \in Nat
  BY FramesType, FlattenSeqType, LenProperties DEF IsWord
<1>3. IsWord(z, 1) /\ z[1] = "0"
  BY DigitFacts DEF IsWord
<1>4. IsWord(crlf, 2)
  BY CrlfType DEF IsWord
<1> HIDE DEF F, n, z
<1>5. IsJoin(s, F, n, z, 1)
  BY <1>2, <1>3, JoinedParts
<1>6. IsWord(s, n + 1)
  BY <1>2, <1>5 DEF IsJoin, IsWord
<1> HIDE DEF s
<1>7. IsJoin(t, s, n + 1, crlf, 2)
  BY <1>4, <1>6, JoinedParts
<1>8. IsWord(t, n + 3)
  BY <1>2, <1>7 DEF IsJoin, IsWord
<1> HIDE DEF t
<1>9. IsJoin(b, t, n + 3, crlf, 2)
  BY <1>4, <1>8, JoinedParts
<1> HIDE DEF b
<1>10. Len(b) = n + 5
  BY <1>2, <1>9 DEF IsJoin
<1>11. ASSUME NEW i \in 1..n PROVE b[i] = F[i]
  <2>1. i \in 1..((n + 3) + 2) /\ i <= n + 3 /\ i \in 1..((n + 1) + 2) /\ i <= n + 1 /\ i \in 1..(n + 1) /\ i <= n
    BY <1>2
  <2>2. b[i] = t[i]
    BY <2>1, <1>9 DEF IsJoin
  <2>3. t[i] = s[i]
    BY <2>1, <1>7 DEF IsJoin
  <2>4. s[i] = F[i]
    BY <2>1, <1>5 DEF IsJoin
  <2>5. QED
    BY <2>2, <2>3, <2>4
<1>12. b[n + 1] = "0" /\ b[n + 2] = "CR" /\ b[n + 3] = "LF"
  <2>1. /\ n + 1 \in 1..((n + 3) + 2) /\ n + 2 \in 1..((n + 3) + 2) /\ n + 3 \in 1..((n + 3) + 2)
        /\ n + 1 <= n + 3 /\ n + 2 <= n + 3 /\ n + 3 <= n + 3
        /\ n + 1 \in 1..((n + 1) + 2) /\ n + 2 \in 1..((n + 1) + 2) /\ n + 3 \in 1..((n + 1) + 2)
        /\ n + 1 <= n + 1 /\ ~(n + 2 <= n + 1) /\ ~(n + 3 <= n + 1)
        /\ (n + 2) - (n + 1) = 1 /\ (n + 3) - (n + 1) = 2
        /\ n + 1 \in 1..(n + 1) /\ ~(n + 1 <= n) /\ (n + 1) - n = 1
    BY <1>2
  <2>2. b[n + 1] = t[n + 1] /\ b[n + 2] = t[n + 2] /\ b[n + 3] = t[n + 3]
    BY <2>1, <1>9 DEF IsJoin
  <2>3. t[n + 1] = s[n + 1] /\ t[n + 2] = crlf[1] /\ t[n + 3] = crlf[2]
    BY <2>1, <1>7 DEF IsJoin
  <2>4. s[n + 1] = z[1]
    BY <2>1, <1>5 DEF IsJoin
  <2>5. QED
    BY <2>2, <2>3, <2>4, <1>3, CrlfType
<1>13. QED
  BY <1>1, <1>2, <1>10, <1>11, <1>12 DEF n, F

\* Where the frame of chunk k + 1 begins, the last one of size 0 included, and the
\* digit it begins with.
FrameAt(m, k) == HeaderSize(m) + Offset(m, k)
SizeDigit(m, k) == IF k < Len(m.chunks) THEN DigitOf(Len(m.chunks[k + 1])) ELSE "0"

\* Places the beginning of each frame, the last one included, a digit and a line end.
LEMMA SizeLine ==
    ASSUME NEW m \in Messages, IsChunked(m), NEW k \in 0..Len(m.chunks)
    PROVE  LET p == FrameAt(m, k) IN
           /\ p \in Nat /\ p + 5 <= Len(Wire(m))
           /\ Wire(m)[p + 1] = SizeDigit(m, k)
           /\ Wire(m)[p + 2] = "CR" /\ Wire(m)[p + 3] = "LF"
<1> DEFINE F == FlattenSeq(ChunkFrames(m))
           n == Len(F)
           N == Len(m.chunks)
           H == HeaderSize(m)
           b == BodyWire(m)
           W == Wire(m)
           o == Offset(m, k)
<1>1. /\ n \in Nat /\ Len(b) = n + 5 /\ (\A i \in 1..n : b[i] = F[i])
      /\ b[n + 1] = "0" /\ b[n + 2] = "CR" /\ b[n + 3] = "LF"
  BY ChunkedBytes
<1>2. /\ H \in Nat /\ Len(W) = H + Len(b)
      /\ \A j \in 1..Len(b) : W[H + j] = b[j]
  BY WireType DEF IsWord
<1>3. N \in Nat /\ o \in Nat
  BY MessageType, OffsetSteps
<1>4. ChunkFrames(m) \in Seq(Seq(Bytes)) /\ Len(ChunkFrames(m)) = N
  BY FramesType
<1>5. CASE k < N
  <2>1. k \in 0..(N - 1) /\ k + 1 \in 1..N
    BY <1>5, <1>3
  <2>2. /\ Offset(m, k + 1) = o + Len(ChunkFrames(m)[k + 1])
        /\ Offset(m, k + 1) <= n
        /\ \A j \in 1..Len(ChunkFrames(m)[k + 1]) : F[o + j] = ChunkFrames(m)[k + 1][j]
    BY <1>4, <2>1, LiesBehind DEF Offset
  <2> DEFINE c == m.chunks[k + 1]
             e == EncodeChunk(c)
  <2>3. c \in Seq(Bytes) /\ Len(c) \in 1..3 /\ ChunkFrames(m)[k + 1] = e
    BY <2>1, MessageType, FramesType
  <2>4. /\ Len(e) = Len(c) + 5
        /\ e[1] = DigitOf(Len(c)) /\ e[2] = "CR" /\ e[3] = "LF"
    BY <2>3, FrameBytes
  <2> HIDE DEF c, e, F, n, N, H, b, W, o
  <2>5. 1 \in 1..Len(e) /\ 2 \in 1..Len(e) /\ 3 \in 1..Len(e)
    BY <2>3, <2>4
  <2>6. F[o + 1] = e[1] /\ F[o + 2] = e[2] /\ F[o + 3] = e[3]
    BY <2>2, <2>3, <2>5
  <2>7. /\ o + 1 \in 1..n /\ o + 2 \in 1..n /\ o + 3 \in 1..n /\ o + 5 <= n
    BY <1>1, <1>3, <2>2, <2>3, <2>4
  <2>8. /\ o + 1 \in 1..Len(b) /\ o + 2 \in 1..Len(b) /\ o + 3 \in 1..Len(b)
        /\ H + (o + 1) = (H + o) + 1 /\ H + (o + 2) = (H + o) + 2 /\ H + (o + 3) = (H + o) + 3
    BY <1>1, <1>2, <1>3, <2>7
  <2>9. W[(H + o) + 1] = e[1] /\ W[(H + o) + 2] = e[2] /\ W[(H + o) + 3] = e[3]
    BY <1>1, <1>2, <2>6, <2>7, <2>8
  <2>10. H + o \in Nat /\ (H + o) + 5 <= Len(W)
    BY <1>1, <1>2, <1>3, <2>7
  <2>11. SizeDigit(m, k) = DigitOf(Len(c))
    BY <1>5 DEF SizeDigit, N, c
  <2>12. QED
    BY <2>4, <2>9, <2>10, <2>11 DEF FrameAt, H, o, W
<1>6. CASE ~(k < N)
  <2>1. k = N
    BY <1>6, <1>3
  <2>2. o = n
    BY <2>1, <1>4, FirstSteps DEF Offset
  <2>3. SizeDigit(m, k) = "0"
    BY <1>6 DEF SizeDigit
  <2> HIDE DEF F, n, N, H, b, W, o
  <2>4. /\ o + 1 \in 1..Len(b) /\ o + 2 \in 1..Len(b) /\ o + 3 \in 1..Len(b)
        /\ H + (o + 1) = (H + o) + 1 /\ H + (o + 2) = (H + o) + 2 /\ H + (o + 3) = (H + o) + 3
    BY <1>1, <1>2, <1>3, <2>2
  <2>5. W[(H + o) + 1] = "0" /\ W[(H + o) + 2] = "CR" /\ W[(H + o) + 3] = "LF"
    BY <1>1, <1>2, <2>2, <2>4
  <2>6. H + o \in Nat /\ (H + o) + 5 <= Len(W)
    BY <1>1, <1>2, <1>3, <2>2
  <2>7. QED
    BY <2>3, <2>5, <2>6 DEF FrameAt, H, o, W
<1>7. QED
  BY <1>5, <1>6

\* Behind the size line the bytes of the chunk, its line end, and the next frame.
LEMMA ChunkLine ==
    ASSUME NEW m \in Messages, IsChunked(m), NEW k \in 0..(Len(m.chunks) - 1)
    PROVE  LET p == FrameAt(m, k)  c == m.chunks[k + 1] IN
           /\ p \in Nat /\ c \in Seq(Bytes) /\ Len(c) \in 1..3
           /\ FrameAt(m, k + 1) = p + 5 + Len(c)
           /\ p + 5 + Len(c) <= Len(Wire(m))
           /\ \A j \in 1..Len(c) : Wire(m)[p + 3 + j] = c[j]
           /\ Wire(m)[p + 4 + Len(c)] = "CR" /\ Wire(m)[p + 5 + Len(c)] = "LF"
<1> DEFINE F == FlattenSeq(ChunkFrames(m))
           n == Len(F)
           N == Len(m.chunks)
           H == HeaderSize(m)
           b == BodyWire(m)
           W == Wire(m)
           o == Offset(m, k)
           c == m.chunks[k + 1]
           e == EncodeChunk(c)
           l == Len(c)
<1>1. n \in Nat /\ Len(b) = n + 5 /\ (\A i \in 1..n : b[i] = F[i])
  BY ChunkedBytes
<1>2. /\ H \in Nat /\ Len(W) = H + Len(b)
      /\ \A j \in 1..Len(b) : W[H + j] = b[j]
  BY WireType DEF IsWord
<1>3. N \in Nat /\ o \in Nat /\ k + 1 \in 1..N /\ k \in 0..N
  <2>1. N \in Nat /\ k \in 0..N /\ k + 1 \in 1..N
    BY MessageType
  <2>2. QED
    BY <2>1, OffsetSteps
<1>4. ChunkFrames(m) \in Seq(Seq(Bytes)) /\ Len(ChunkFrames(m)) = N
  BY FramesType
<1>5. /\ Offset(m, k + 1) = o + Len(ChunkFrames(m)[k + 1])
      /\ Offset(m, k + 1) <= n
      /\ \A j \in 1..Len(ChunkFrames(m)[k + 1]) : F[o + j] = ChunkFrames(m)[k + 1][j]
  <2>1. k \in 0..(Len(ChunkFrames(m)) - 1)
    BY <1>4
  <2>2. QED
    BY <1>4, <2>1, LiesBehind DEF Offset
<1>6. c \in Seq(Bytes) /\ l \in 1..3 /\ ChunkFrames(m)[k + 1] = e
  BY <1>3, MessageType, FramesType
<1>7. /\ Len(e) = l + 5
      /\ \A j \in 1..l : e[3 + j] = c[j]
      /\ e[l + 4] = "CR" /\ e[l + 5] = "LF"
  BY <1>6, FrameBytes
<1> HIDE DEF F, n, N, H, b, W, o, c, e, l
<1>8. \A j \in 1..(l + 5) : W[(H + o) + j] = e[j]
  <2> TAKE j \in 1..(l + 5)
  <2>1. o + j \in 1..n /\ j \in 1..Len(e)
    BY <1>1, <1>3, <1>5, <1>6, <1>7
  <2>2. o + j \in 1..Len(b) /\ H + (o + j) = (H + o) + j
    BY <2>1, <1>1, <1>2, <1>3
  <2>3. W[H + (o + j)] = F[o + j] /\ F[o + j] = e[j]
    BY <2>1, <2>2, <1>1, <1>2, <1>5, <1>6
  <2>4. QED
    BY <2>2, <2>3
<1>9. H + Offset(m, k + 1) = (H + o) + 5 + l /\ (H + o) + 5 + l <= Len(W) /\ H + o \in Nat
  BY <1>1, <1>2, <1>3, <1>5, <1>6, <1>7
<1>10. ASSUME NEW j \in 1..l PROVE W[(H + o) + 3 + j] = c[j]
  <2>1. 3 + j \in 1..(l + 5) /\ (H + o) + (3 + j) = (H + o) + 3 + j
    BY <1>6, <1>9
  <2>2. QED
    BY <2>1, <1>7, <1>8
<1>11. W[(H + o) + 4 + l] = "CR" /\ W[(H + o) + 5 + l] = "LF"
  <2>1. /\ l + 4 \in 1..(l + 5) /\ l + 5 \in 1..(l + 5)
        /\ (H + o) + (l + 4) = (H + o) + 4 + l /\ (H + o) + (l + 5) = (H + o) + 5 + l
    BY <1>6, <1>9
  <2>2. QED
    BY <2>1, <1>7, <1>8
<1>12. QED
  BY <1>6, <1>9, <1>10, <1>11 DEF FrameAt, H, o, W, c, l

-----------------------------------------------------------------------------
(***************************************************************************)
(* The search for the end of a line, in what has been received of the wire.*)
(***************************************************************************)
Places(s, sep) == {i \in 1..(Len(s) + 1 - Len(sep)) : SubSeq(s, i, i + Len(sep) - 1) = sep}

\* What Find returns: the first place, if there is one.
LEMMA FindAt ==
    ASSUME NEW s, NEW sep
    PROVE  /\ Places(s, sep) = {} => Find(s, sep) = 0
           /\ \A p \in Places(s, sep) : p \in Int /\ (\A i \in Places(s, sep) : i \in Int /\ p <= i) => Find(s, sep) = p
<1>1. Find(s, sep) = IF Places(s, sep) = {} THEN 0 ELSE Min(Places(s, sep))
  BY DEF Find, Places
<1>2. ASSUME NEW p \in Places(s, sep), p \in Int, \A i \in Places(s, sep) : i \in Int /\ p <= i
      PROVE  Min(Places(s, sep)) = p
  <2> DEFINE A == Places(s, sep)
             x == CHOOSE x \in A : \A y \in A : x <= y
  <2>1. x \in A /\ \A y \in A : x <= y
    BY <1>2
  <2>2. x <= p /\ p <= x /\ x \in Int
    BY <1>2, <2>1
  <2>3. x = p
    BY <1>2, <2>2
  <2>4. QED
    BY <2>3 DEF Min
<1>3. QED
  BY <1>1, <1>2

\* Where a line end is.
LEMMA AtCrlf ==
    ASSUME NEW s \in Seq(Bytes)
    PROVE  Places(s, crlf) = {i \in 1..(Len(s) - 1) : s[i] = "CR" /\ s[i + 1] = "LF"}
<1>1. Len(crlf) = 2 /\ Len(s) \in Nat /\ crlf = <<"CR", "LF">>
  BY CrlfType, LenProperties DEF crlf
<1>2. Len(s) + 1 - Len(crlf) = Len(s) - 1
  BY <1>1
<1>3. ASSUME NEW i \in 1..(Len(s) - 1)
      PROVE  (SubSeq(s, i, i + Len(crlf) - 1) = crlf) <=> (s[i] = "CR" /\ s[i + 1] = "LF")
  <2> DEFINE u == SubSeq(s, i, i + 1)
  <2>1. i + Len(crlf) - 1 = i + 1
    BY <1>1
  <2>2. u \in Seq(Bytes) /\ Len(u) = 2 /\ u[1] = s[i] /\ u[2] = s[i + 1]
    BY <1>1
  <2> HIDE DEF u
  <2>3. u = <<u[1], u[2]>>
    BY <2>2
  <2>4. (u = <<"CR", "LF">>) <=> (u[1] = "CR" /\ u[2] = "LF")
    BY <2>3
  <2>5. QED
    BY <1>1, <2>1, <2>2, <2>4 DEF u
<1>4. QED
  BY <1>2, <1>3 DEF Places

\* An empty line is four bytes.
LEMMA HeaderEndType ==
    /\ Len(headerEnd) = 4 /\ headerEnd = <<"CR", "LF", "CR", "LF">>
<1>1. IsWord(crlf, 2)
  BY CrlfType DEF IsWord
<1>2. IsJoin(crlf \o crlf, crlf, 2, crlf, 2)
  BY <1>1, JoinedParts
<1> DEFINE u == crlf \o crlf
<1>3. u = headerEnd
  BY DEF headerEnd
<1> HIDE DEF u
<1>4. u \in Seq(Bytes) /\ Len(u) = 4 /\ u[1] = "CR" /\ u[2] = "LF" /\ u[3] = "CR" /\ u[4] = "LF"
  BY <1>2, CrlfType DEF IsJoin, u
<1>5. u = <<u[1], u[2], u[3], u[4]>>
  BY <1>4
<1>6. QED
  BY <1>3, <1>4, <1>5

\* Where an empty line is.
LEMMA AtHeaderEnd ==
    ASSUME NEW s \in Seq(Bytes)
    PROVE  Places(s, headerEnd) = {i \in 1..(Len(s) - 3) : /\ s[i] = "CR" /\ s[i + 1] = "LF"
                                                       /\ s[i + 2] = "CR" /\ s[i + 3] = "LF"}
<1>1. Len(headerEnd) = 4 /\ Len(s) \in Nat /\ headerEnd = <<"CR", "LF", "CR", "LF">>
  BY HeaderEndType, LenProperties
<1>2. Len(s) + 1 - Len(headerEnd) = Len(s) - 3
  BY <1>1
<1>3. ASSUME NEW i \in 1..(Len(s) - 3)
      PROVE  (SubSeq(s, i, i + Len(headerEnd) - 1) = headerEnd)
             <=> (s[i] = "CR" /\ s[i + 1] = "LF" /\ s[i + 2] = "CR" /\ s[i + 3] = "LF")
  <2> DEFINE u == SubSeq(s, i, i + 3)
  <2>1. i + Len(headerEnd) - 1 = i + 3
    BY <1>1
  <2>2. /\ u \in Seq(Bytes) /\ Len(u) = 4
        /\ u[1] = s[i] /\ u[2] = s[i + 1] /\ u[3] = s[i + 2] /\ u[4] = s[i + 3]
    BY <1>1
  <2> HIDE DEF u
  <2>3. u = <<u[1], u[2], u[3], u[4]>>
    BY <2>2
  <2>4. (u = <<"CR", "LF", "CR", "LF">>)
        <=> (u[1] = "CR" /\ u[2] = "LF" /\ u[3] = "CR" /\ u[4] = "LF")
    BY <2>3
  <2>5. QED
    BY <1>1, <2>1, <2>2, <2>4 DEF u
<1>4. QED
  BY <1>2, <1>3 DEF Places

\* A size line: a digit and a line end, as much of it as is there.
LEMMA FindSize ==
    ASSUME NEW s \in Seq(Bytes),
           Len(s) >= 1 => s[1] \in Digits,
           Len(s) >= 2 => s[2] = "CR",
           Len(s) >= 3 => s[3] = "LF"
    PROVE  Find(s, crlf) = IF Len(s) < 3 THEN 0 ELSE 2
<1>1. Len(s) \in Nat
  BY LenProperties
<1>2. 1 \notin Places(s, crlf)
  <2>1. "CR" \notin Digits
    BY DigitFacts
  <2>2. QED
    BY <1>1, <2>1, AtCrlf
<1>3. CASE Len(s) < 3
  <2>1. Places(s, crlf) = {}
    <3>1. \A i \in 1..(Len(s) - 1) : i = 1
      BY <1>1, <1>3
    <3>2. QED
      BY <3>1, <1>2, AtCrlf
  <2>2. QED
    BY <1>3, <2>1, FindAt
<1>4. CASE ~(Len(s) < 3)
  <2>1. 2 \in Places(s, crlf)
    <3>1. 2 \in 1..(Len(s) - 1) /\ s[2] = "CR" /\ s[2 + 1] = "LF"
      BY <1>1, <1>4
    <3>2. QED
      BY <3>1, AtCrlf
  <2>2. \A i \in Places(s, crlf) : i \in Int /\ 2 <= i
    <3>1. \A i \in Places(s, crlf) : i \in 1..(Len(s) - 1) /\ i # 1
      BY <1>2, AtCrlf
    <3>2. QED
      BY <3>1, <1>1
  <2>3. QED
    BY <1>4, <2>1, <2>2, FindAt
<1>5. QED
  BY <1>3, <1>4

\* The bytes of the wire that lie behind the first from ones, up to to.
LEMMA WireSlice ==
    ASSUME NEW m \in Messages, NEW from \in Nat, NEW to \in Nat,
           from <= to, to <= Len(Wire(m))
    PROVE  LET s == SubSeq(Wire(m), from + 1, to) IN
           /\ s \in Seq(Bytes) /\ Len(s) = to - from
           /\ \A i \in 1..(to - from) : s[i] = Wire(m)[from + i]
<1> DEFINE W == Wire(m)
<1>1. W \in Seq(Bytes) /\ Len(W) \in Nat
  BY WireType DEF IsWord
<1> HIDE DEF W
<1>2. to <= Len(W)
  BY DEF W
<1>3. /\ SubSeq(W, from + 1, to) \in Seq(Bytes) /\ Len(SubSeq(W, from + 1, to)) = to - from
      /\ \A i \in 1..(to - from) : SubSeq(W, from + 1, to)[i] = W[from + i]
  BY <1>1, <1>2
<1>4. QED
  BY <1>3 DEF W

\* The first empty line on the wire ends the header section, so that it is found
\* when the section is there, and nothing is found before.
LEMMA FindHeader ==
    ASSUME NEW m \in Messages, NEW to \in Nat, to <= Len(Wire(m))
    PROVE  LET s == SubSeq(Wire(m), 1, to)  n == Len(m.fields) IN
           Find(s, headerEnd) = IF to < HeaderSize(m) THEN 0 ELSE 3 * n + 2
<1> DEFINE s == SubSeq(Wire(m), 1, to)
           n == Len(m.fields)
           W == Wire(m)
           h == HeaderWire(m)
<1>1. n \in Nat /\ HeaderSize(m) = 3 * n + 5
  BY MessageType DEF HeaderSize
<1>2. s \in Seq(Bytes) /\ Len(s) = to /\ \A i \in 1..to : s[i] = W[i]
  <2>1. 0 \in Nat /\ 0 <= to /\ 0 + 1 = 1 /\ to - 0 = to
    OBVIOUS
  <2>2. /\ SubSeq(W, 0 + 1, to) \in Seq(Bytes) /\ Len(SubSeq(W, 0 + 1, to)) = to - 0
        /\ \A i \in 1..(to - 0) : SubSeq(W, 0 + 1, to)[i] = W[0 + i]
    BY <2>1, WireSlice
  <2>3. QED
    BY <2>1, <2>2
<1>3. \A i \in 1..(3 * n + 5) : W[i] = h[i]
  BY <1>1, WireType
<1>4. /\ h[2] = "CR" /\ h[3] = "LF" /\ h[1] = "s"
      /\ \A i \in 1..n :
            h[3 * i + 1] = m.fields[i] /\ h[3 * i + 2] = "CR" /\ h[3 * i + 3] = "LF"
      /\ h[3 * n + 4] = "CR" /\ h[3 * n + 5] = "LF"
  BY HeaderBytes
<1>5. \A i \in 1..n : m.fields[i] # "CR"
  <2>1. \A i \in 1..n : m.fields[i] \in Fields
    BY MessageType, ElementOfSeq
  <2>2. QED
    BY <2>1 DEF Fields
<1>6. h[3 * n + 2] = "CR" /\ h[3 * n + 3] = "LF"
  <2>1. CASE n = 0
    BY <2>1, <1>4
  <2>2. CASE n # 0
    BY <2>2, <1>1, <1>4
  <2>3. QED
    BY <2>1, <2>2
<1> HIDE DEF s, n, W, h
<1>7. ASSUME NEW i \in 1..(3 * n + 1), h[i] = "CR" PROVE h[i + 2] # "CR"
  <2>1. PICK j \in Nat : i = 3 * j \/ i = 3 * j + 1 \/ i = 3 * j + 2
    <3>1. i \div 3 \in Nat /\ i % 3 \in 0..2 /\ i = 3 * (i \div 3) + (i % 3)
      BY <1>1
    <3>2. QED
      BY <3>1
  <2>2. CASE i = 3 * j
    <3>1. i = 3 \/ (j - 1 \in 1..n /\ i = 3 * (j - 1) + 3)
      BY <2>2, <1>1
    <3>2. QED
      BY <3>1, <1>4, <1>7
  <2>3. CASE i = 3 * j + 1
    <3>1. i = 1 \/ j \in 1..n
      BY <2>3, <1>1
    <3>2. QED
      BY <2>3, <3>1, <1>4, <1>5, <1>7
  <2>4. CASE i = 3 * j + 2
    <3>1. j + 1 \in 1..n /\ i + 2 = 3 * (j + 1) + 1
      BY <2>4, <1>1
    <3>2. QED
      BY <3>1, <1>4, <1>5
  <2>5. QED
    BY <2>1, <2>2, <2>3, <2>4
<1>8. ASSUME NEW i \in Places(s, headerEnd) PROVE i \in Int /\ 3 * n + 2 <= i /\ i + 3 <= to
  <2>1. i \in 1..(to - 3) /\ s[i] = "CR" /\ s[i + 2] = "CR"
    BY <1>2, AtHeaderEnd
  <2>2. i \in 1..to /\ i + 2 \in 1..to
    BY <2>1
  <2>3. W[i] = "CR" /\ W[i + 2] = "CR"
    BY <2>1, <2>2, <1>2
  <2>4. ASSUME i < 3 * n + 2 PROVE FALSE
    <3>1. i \in 1..(3 * n + 1) /\ i \in 1..(3 * n + 5) /\ i + 2 \in 1..(3 * n + 5)
      BY <2>1, <2>4, <1>1
    <3>2. h[i] = "CR" /\ h[i + 2] = "CR"
      BY <3>1, <2>3, <1>3
    <3>3. QED
      BY <3>1, <3>2, <1>7
  <2>5. QED
    BY <2>1, <2>4, <1>1
<1>9. CASE to < HeaderSize(m)
  <2>1. Places(s, headerEnd) = {}
    BY <1>1, <1>8, <1>9
  <2>2. QED
    BY <1>9, <2>1, FindAt DEF s
<1>10. CASE ~(to < HeaderSize(m))
  <2> DEFINE p == 3 * n + 2
  <2>1. /\ p \in 1..(to - 3) /\ p \in 1..to /\ p + 1 \in 1..to /\ p + 2 \in 1..to /\ p + 3 \in 1..to
        /\ p \in 1..(3 * n + 5) /\ p + 1 \in 1..(3 * n + 5) /\ p + 2 \in 1..(3 * n + 5)
        /\ p + 3 \in 1..(3 * n + 5)
        /\ p + 1 = 3 * n + 3 /\ p + 2 = 3 * n + 4 /\ p + 3 = 3 * n + 5
    BY <1>1, <1>10
  <2>2. s[p] = "CR" /\ s[p + 1] = "LF" /\ s[p + 2] = "CR" /\ s[p + 3] = "LF"
    BY <2>1, <1>2, <1>3, <1>4, <1>6
  <2>3. p \in Places(s, headerEnd)
    BY <2>1, <2>2, <1>2, AtHeaderEnd
  <2>4. p \in Int /\ \A i \in Places(s, headerEnd) : i \in Int /\ p <= i
    BY <2>1, <1>8
  <2>5. Find(s, headerEnd) = p
    BY <2>3, <2>4, FindAt
  <2>6. QED
    BY <2>5, <1>10 DEF s, n
<1>11. QED
  BY <1>9, <1>10

\* hexStringToUint, of the one digit that the sizes of the model have.
IsValue(iter, s) ==
    iter = [t \in SUBSET DOMAIN s |->
              IF t = {} THEN 0 ELSE 16 * iter[t \ {Max(t)}] + DigitValue[s[Max(t)]]]

\* The function that hexStringToUint folds with.
LEMMA HexDef ==
    ASSUME NEW s
    PROVE  hexStringToUint(s) = (CHOOSE iter : IsValue(iter, s))[DOMAIN s]
BY DEF hexStringToUint, FoldLeft, MapThenFoldSet, IsValue

\* The value of one digit.
LEMMA HexDigit ==
    ASSUME NEW d \in Digits
    PROVE  hexStringToUint(<<d>>) = DigitValue[d]
<1> DEFINE s == <<d>>
           g == [t \in SUBSET {1} |-> IF t = {} THEN 0 ELSE DigitValue[d]]
           iter == CHOOSE iter : IsValue(iter, s)
<1>1. DOMAIN s = {1} /\ s[1] = d
  OBVIOUS
<1>2. DigitValue[d] \in Nat
  BY DEF Digits, DigitValue
<1>3. \A t \in SUBSET {1} : t = {} \/ t = {1}
  OBVIOUS
<1>4. Max({1}) = 1 /\ {1} \ {1} = {}
  <2>1. \E x \in {1} : \A y \in {1} : x >= y
    OBVIOUS
  <2>2. QED
    BY <2>1 DEF Max
<1>5. IsValue(g, s)
  <2>1. g[{}] = 0 /\ g[{1}] = DigitValue[d]
    OBVIOUS
  <2>2. \A t \in SUBSET {1} : g[t] = IF t = {} THEN 0 ELSE 16 * g[t \ {Max(t)}] + DigitValue[s[Max(t)]]
    <3> TAKE t \in SUBSET {1}
    <3>1. CASE t = {}
      BY <2>1, <3>1
    <3>2. CASE t = {1}
      <4>1. Max(t) = 1 /\ t \ {Max(t)} = {} /\ t # {}
        BY <3>2, <1>4
      <4>2. 16 * g[{}] + DigitValue[s[1]] = DigitValue[d]
        <5>1. 16 * 0 + DigitValue[d] = DigitValue[d]
          BY <1>2
        <5>2. QED
          BY <5>1, <2>1, <1>1
      <4>3. QED
        BY <4>1, <4>2, <3>2, <2>1
    <3>3. QED
      BY <3>1, <3>2, <1>3
  <2>3. QED
    BY <2>2, <1>1 DEF IsValue
<1>6. IsValue(iter, s)
  BY <1>5
<1> HIDE DEF iter, g
<1>7. \A t \in SUBSET {1} :
         iter[t] = IF t = {} THEN 0 ELSE 16 * iter[t \ {Max(t)}] + DigitValue[s[Max(t)]]
  <2> DEFINE h == [t \in SUBSET {1} |->
                     IF t = {} THEN 0 ELSE 16 * iter[t \ {Max(t)}] + DigitValue[s[Max(t)]]]
  <2>1. iter = h
    BY <1>1, <1>6 DEF IsValue
  <2>2. \A t \in SUBSET {1} :
           h[t] = IF t = {} THEN 0 ELSE 16 * iter[t \ {Max(t)}] + DigitValue[s[Max(t)]]
    OBVIOUS
  <2>3. QED
    BY <2>1, <2>2, Zenon
<1>8. iter[{}] = 0
  BY <1>7
<1>9. iter[{1}] = 16 * iter[{}] + DigitValue[s[1]]
  <2>1. {1} \in SUBSET {1} /\ {1} # {}
    OBVIOUS
  <2>2. QED
    BY <2>1, <1>4, <1>7
<1>10. iter[{1}] = DigitValue[d]
  <2>1. 16 * 0 + DigitValue[d] = DigitValue[d]
    BY <1>2
  <2>2. QED
    BY <2>1, <1>1, <1>8, <1>9
<1>11. QED
  BY <1>1, <1>10, HexDef DEF iter

-----------------------------------------------------------------------------
(***************************************************************************)
(* The inductive invariant.                                                *)
(***************************************************************************)
Settled == pc \in {"returned", "threw"}
Reading == parsingBody /\ ~Settled

\* How many bytes of the wire the parser has done with.
Consumed == received - Len(responseData)

\* responseData is what has come and has not been looked at.
RestOfWire ==
    /\ Len(responseData) <= received
    /\ responseData = SubSeq(Wire(message), Consumed + 1, received)

\* The first recv is the only one before the header section is parsed.
HeaderSoFar ==
    /\ pc = "header" => responseData = SubSeq(Wire(message), 1, received)
    /\ ~parsingBody => body = <<>> /\ expectedChunkSize = 0 /\ ~removeCrlfAfterChunk
    /\ ~parsingBody /\ pc \notin {"header", "returned", "threw"} =>
          received = 0 /\ responseData = <<>>
    /\ parsingBody =>
          /\ chunkedResponse = IsChunked(message)
          /\ contentLengthReceived = HasLength(message)
          /\ contentLength = IF HasLength(message) THEN ContentLength(message) ELSE 0

\* A body that is not chunked: the bytes behind the header section.
PlainBody ==
    /\ HeaderSize(message) <= Consumed
    /\ body = SubSeq(Payload(message), 1, Consumed - HeaderSize(message))

\* A chunked one: k chunks are done; or the next one is being copied; or it is
\* copied and its line end is still to come.
BetweenChunks(k) ==
    /\ expectedChunkSize = 0 /\ ~removeCrlfAfterChunk
    /\ Consumed = FrameAt(message, k)
    /\ body = First(message.chunks, k)

WithinChunk(k) ==
    LET size == Len(message.chunks[k + 1]) IN
    /\ expectedChunkSize \in 1..size /\ ~removeCrlfAfterChunk
    /\ Consumed = FrameAt(message, k) + 3 + (size - expectedChunkSize)
    /\ body = First(message.chunks, k)
              \o SubSeq(message.chunks[k + 1], 1, size - expectedChunkSize)

BehindChunk(k) ==
    /\ expectedChunkSize = 0 /\ removeCrlfAfterChunk
    /\ Consumed = FrameAt(message, k) + 3 + Len(message.chunks[k + 1])
    /\ body = First(message.chunks, k + 1)

ChunkedBody ==
    \/ \E k \in 0..Len(message.chunks) : BetweenChunks(k)
    \/ \E k \in 0..(Len(message.chunks) - 1) : WithinChunk(k) \/ BehindChunk(k)

BodySoFar == RestOfWire /\ IF chunkedResponse THEN ChunkedBody ELSE PlainBody

Control ==
    /\ disconnected => pc = "returned"
    /\ pc \in {"resolve", "socket", "connect", "send", "header"} => ~parsingBody
    /\ pc = "body" => parsingBody /\ ~chunkedResponse
    /\ pc = "chunks" => parsingBody /\ chunkedResponse
    /\ why \notin {"chunk", "digit"}
    /\ why = "token" => message.fields = <<>>

ReaderInv ==
    /\ TypeOK
    /\ Control
    /\ HeaderSoFar
    /\ Reading => BodySoFar
    /\ Settled => BodyIsPrefix
    /\ WholeWhenReturned

-----------------------------------------------------------------------------
\* Two sequences with the same elements are the same.
LEMMA SameWords ==
    ASSUME NEW s \in Seq(Bytes), NEW t \in Seq(Bytes), Len(s) = Len(t),
           \A i \in 1..Len(s) : s[i] = t[i]
    PROVE  s = t
BY SeqEqual

\* The first n bytes of t.
LEMMA PrefixOfWord ==
    ASSUME NEW t \in Seq(Bytes), NEW n \in Nat, n <= Len(t)
    PROVE  /\ SubSeq(t, 1, n) \in Seq(Bytes) /\ Len(SubSeq(t, 1, n)) = n
           /\ \A i \in 1..n : SubSeq(t, 1, n)[i] = t[i]
           /\ IsPrefix(SubSeq(t, 1, n), t)
<1> DEFINE u == SubSeq(t, 1, n)
<1>1. Len(t) \in Nat
  BY LenProperties
<1>2. u \in Seq(Bytes) /\ Len(u) = n /\ \A i \in 1..n : u[i] = t[i]
  BY <1>1
<1> HIDE DEF u
<1>3. SubSeq(u, 1, Len(u)) = u
  BY <1>2, SubSeqFull
<1>4. u = SubSeq(t, 1, Len(u))
  BY <1>2 DEF u
<1>5. IsPrefix(u, t)
  BY <1>2, <1>3, <1>4 DEF IsPrefix
<1>6. QED
  BY <1>2, <1>5 DEF u

\* A sequence that begins another one is a prefix of it.
LEMMA BeginsIsPrefix ==
    ASSUME NEW s \in Seq(Bytes), NEW t \in Seq(Bytes), Begins(s, t)
    PROVE  IsPrefix(s, t)
<1> DEFINE u == SubSeq(t, 1, Len(s))
<1>1. Len(s) \in Nat /\ Len(t) \in Nat /\ Len(s) <= Len(t) /\ \A i \in 1..Len(s) : t[i] = s[i]
  BY LenProperties DEF Begins
<1>2. u \in Seq(Bytes) /\ Len(u) = Len(s) /\ (\A i \in 1..Len(s) : u[i] = t[i]) /\ IsPrefix(u, t)
  BY <1>1, PrefixOfWord
<1> HIDE DEF u
<1>3. u = s
  BY <1>1, <1>2, SameWords
<1>4. QED
  BY <1>2, <1>3

\* To begin is transitive.
LEMMA BeginsTwice ==
    ASSUME NEW p \in Seq(Bytes), NEW s \in Seq(Bytes), NEW t \in Seq(Bytes),
           Begins(p, s), Begins(s, t)
    PROVE  Begins(p, t)
<1>1. Len(p) \in Nat /\ Len(s) \in Nat /\ Len(t) \in Nat
  BY LenProperties
<1>2. \A i \in 1..Len(p) : i \in 1..Len(s)
  BY <1>1 DEF Begins
<1>3. QED
  BY <1>1, <1>2 DEF Begins

\* The empty sequence is a prefix.
LEMMA EmptyIsPrefix == \A t \in Seq(Bytes) : IsPrefix(<<>>, t)
<1> TAKE t \in Seq(Bytes)
<1>1. Len(<<>>) = 0 /\ SubSeq(<<>>, 1, 0) = <<>> /\ SubSeq(t, 1, 0) = <<>> /\ Len(t) >= 0
  BY SubSeqEmpty, LenProperties
<1>2. QED
  BY <1>1 DEF IsPrefix

\* In every state of the parser, what is in body is a prefix.
LEMMA InvPrefix ==
    ASSUME ReaderInv PROVE BodyIsPrefix
<1> DEFINE m == message
<1>1. m \in Messages /\ Payload(m) \in Seq(Bytes) /\ TypeOK
  BY WireType DEF ReaderInv, TypeOK
<1>2. CASE Settled
  BY <1>2 DEF ReaderInv
<1>3. CASE ~parsingBody
  BY <1>1, <1>3, EmptyIsPrefix DEF ReaderInv, HeaderSoFar, BodyIsPrefix
<1>4. CASE Reading /\ ~chunkedResponse
  <2>1. PlainBody /\ ~IsChunked(m)
    BY <1>4 DEF ReaderInv, BodySoFar, Reading, HeaderSoFar
  <2> DEFINE n == Consumed - HeaderSize(m)
  <2>2. n \in Nat /\ n <= Len(Payload(m))
    <3>1. Len(Wire(m)) = HeaderSize(m) + Len(Payload(m)) /\ HeaderSize(m) \in Nat /\ Len(Payload(m)) \in Nat
      BY <1>1, <2>1, WireType DEF IsWord, BodyWire
    <3>2. received \in Nat /\ received <= Len(Wire(m)) /\ Len(responseData) \in Nat
      <4>1. received \in 0..Len(Wire(m)) /\ responseData \in Seq(Bytes)
        BY <1>1 DEF TypeOK
      <4>2. QED
        BY <4>1, <3>1, LenProperties
    <3>3. HeaderSize(m) <= received - Len(responseData)
      BY <2>1 DEF PlainBody, Consumed
    <3>4. QED
      BY <3>1, <3>2, <3>3 DEF Consumed
  <2>3. body = SubSeq(Payload(m), 1, n)
    BY <2>1 DEF PlainBody
  <2> HIDE DEF n
  <2>4. QED
    BY <1>1, <2>2, <2>3, PrefixOfWord DEF BodyIsPrefix
<1>5. CASE Reading /\ chunkedResponse
  <2> DEFINE c == m.chunks
             N == Len(c)
  <2>1. c \in Seq(Seq(Bytes)) /\ N \in Nat
    BY <1>1, MessageType
  <2>2. ASSUME NEW k \in 0..N, body = First(c, k) PROVE BodyIsPrefix
    <3>1. First(c, k) \in Seq(Bytes) /\ Begins(First(c, k), Payload(m))
      BY <2>1, FirstSteps, FirstBegins DEF Payload
    <3>2. QED
      BY <1>1, <2>2, <3>1, BeginsIsPrefix DEF BodyIsPrefix
  <2>3. ChunkedBody
    BY <1>5 DEF ReaderInv, BodySoFar
  <2>4. CASE \E k \in 0..N : BetweenChunks(k)
    BY <2>2, <2>4 DEF BetweenChunks
  <2>5. CASE \E k \in 0..(N - 1) : BehindChunk(k)
    <3>1. PICK k \in 0..(N - 1) : BehindChunk(k)
      BY <2>5
    <3>2. k + 1 \in 0..N /\ body = First(c, k + 1)
      BY <2>1, <3>1 DEF BehindChunk
    <3>3. QED
      BY <2>2, <3>2
  <2>6. CASE \E k \in 0..(N - 1) : WithinChunk(k)
    <3>1. PICK k \in 0..(N - 1) : WithinChunk(k)
      BY <2>6
    <3> DEFINE f == First(c, k)
               s == c[k + 1]
               n == Len(s) - expectedChunkSize
               t == SubSeq(s, 1, n)
    <3>2. k \in 0..N /\ k + 1 \in 0..N /\ k + 1 \in 1..N
      BY <2>1
    <3>3. f \in Seq(Bytes) /\ s \in Seq(Bytes) /\ First(c, k + 1) = f \o s /\ f \o s \in Seq(Bytes)
      BY <2>1, <3>2, FirstSteps, ElementOfSeq
    <3>4. n \in Nat /\ n <= Len(s)
      BY <3>1, <3>3, LenProperties DEF WithinChunk
    <3>5. body = f \o t
      BY <3>1 DEF WithinChunk
    <3> HIDE DEF f, n, s
    <3>6. t \in Seq(Bytes) /\ Len(t) = n /\ \A i \in 1..n : t[i] = s[i]
      BY <3>3, <3>4, PrefixOfWord
    <3> HIDE DEF t
    <3>7. Begins(f \o t, f \o s)
      BY <3>3, <3>4, <3>6, ConcatProperties, LenProperties DEF Begins
    <3>8. Begins(f \o s, Payload(m))
      BY <2>1, <3>2, <3>3, FirstBegins DEF Payload
    <3>10. f \o t \in Seq(Bytes)
      BY <3>3, <3>6, ConcatProperties
    <3>9. Begins(f \o t, Payload(m))
      BY <1>1, <3>3, <3>7, <3>8, <3>10, BeginsTwice
    <3>11. QED
      BY <1>1, <3>5, <3>9, <3>10, BeginsIsPrefix DEF BodyIsPrefix
  <2>7. QED
    BY <2>3, <2>4, <2>5, <2>6 DEF ChunkedBody
<1>6. QED
  BY <1>2, <1>3, <1>4, <1>5 DEF Reading

-----------------------------------------------------------------------------
(***************************************************************************)
(* What is left of the wire, after some of it is taken off the front, and  *)
(* after more has come.                                                    *)
(***************************************************************************)
\* What responseData holds: byte i of it is byte Consumed + i of the wire.
LEMMA RestFacts ==
    ASSUME TypeOK, RestOfWire
    PROVE  /\ message \in Messages /\ Wire(message) \in Seq(Bytes)
           /\ received \in Nat /\ received <= Len(Wire(message))
           /\ Consumed \in Nat /\ Consumed <= received
           /\ Len(responseData) = received - Consumed /\ Len(responseData) \in Nat
           /\ \A i \in 1..Len(responseData) : responseData[i] = Wire(message)[Consumed + i]
<1> DEFINE c == received - Len(responseData)
<1>1. message \in Messages /\ Wire(message) \in Seq(Bytes) /\ Len(Wire(message)) \in Nat
  BY WireType, LenProperties DEF TypeOK, IsWord
<1>2. received \in Nat /\ received <= Len(Wire(message)) /\ Len(responseData) \in Nat
  BY <1>1, LenProperties DEF TypeOK
<1>3. c \in Nat /\ c <= received /\ Len(responseData) = received - c
  <2>1. Len(responseData) <= received
    BY DEF RestOfWire
  <2>2. QED
    BY <1>2, <2>1
<1>4. responseData = SubSeq(Wire(message), c + 1, received)
  BY DEF RestOfWire, Consumed
<1> HIDE DEF c
<1>5. \A i \in 1..(received - c) : responseData[i] = Wire(message)[c + i]
  BY <1>1, <1>2, <1>3, <1>4, WireSlice
<1>6. Consumed = c
  BY DEF Consumed, c
<1>7. QED
  BY <1>1, <1>2, <1>3, <1>5, <1>6

\* The first a bytes of responseData are done with.
LEMMA TakenOff ==
    ASSUME TypeOK, RestOfWire, NEW a \in Nat, a <= Len(responseData),
           responseData' = SubSeq(responseData, a + 1, Len(responseData)),
           received' = received, message' = message
    PROVE  RestOfWire' /\ Consumed' = Consumed + a /\ responseData' \in Seq(Bytes)
<1> DEFINE W == Wire(message)
           c == Consumed
           r == received
           d == responseData
           e == responseData'
           f == SubSeq(W, (c + a) + 1, r)
<1>1. /\ message \in Messages /\ W \in Seq(Bytes) /\ r \in Nat /\ r <= Len(W) /\ c \in Nat
      /\ c <= r /\ Len(d) = r - c /\ \A i \in 1..Len(d) : d[i] = W[c + i]
  BY RestFacts
<1>2. d \in Seq(Bytes) /\ e = SubSeq(d, a + 1, Len(d))
  BY DEF TypeOK
<1> HIDE DEF W, c, r, d, e
<1>3. c + a \in Nat /\ c + a <= r /\ a <= r - c
  BY <1>1 DEF d
<1>4. e \in Seq(Bytes) /\ Len(e) = r - (c + a) /\ \A i \in 1..Len(e) : e[i] = d[a + i]
  BY <1>1, <1>2, <1>3
<1>5. f \in Seq(Bytes) /\ Len(f) = r - (c + a) /\ \A i \in 1..(r - (c + a)) : f[i] = W[(c + a) + i]
  BY <1>1, <1>3, WireSlice DEF W
<1> HIDE DEF f
<1>6. \A i \in 1..Len(e) : e[i] = f[i]
  <2> TAKE i \in 1..Len(e)
  <2>1. a + i \in 1..Len(d) /\ i \in 1..(r - (c + a)) /\ c + (a + i) = (c + a) + i
    BY <1>1, <1>3, <1>4
  <2>2. QED
    BY <2>1, <1>1, <1>4, <1>5
<1>7. e = f
  BY <1>4, <1>5, <1>6, SameWords
<1>8. Consumed' = c + a
  <2>1. Consumed' = r - Len(e)
    BY DEF Consumed, e, r
  <2>2. QED
    BY <2>1, <1>1, <1>3, <1>4
<1>9. Len(e) <= r
  BY <1>1, <1>3, <1>4
<1>10. RestOfWire'
  BY <1>7, <1>8, <1>9 DEF RestOfWire, e, f, r, W
<1>11. QED
  BY <1>4, <1>8, <1>10 DEF c, e

\* recv has returned size more bytes.
LEMMA MoreCame ==
    ASSUME TypeOK, RestOfWire, NEW size \in Nat,
           received + size <= Len(Wire(message)),
           received' = received + size, message' = message,
           responseData' = responseData \o SubSeq(Wire(message), received + 1, received')
    PROVE  RestOfWire' /\ Consumed' = Consumed /\ responseData' \in Seq(Bytes)
<1> DEFINE W == Wire(message)
           c == Consumed
           r == received
           d == responseData
           g == SubSeq(W, r + 1, r + size)
           e == d \o g
           f == SubSeq(W, c + 1, r + size)
<1>1. /\ message \in Messages /\ W \in Seq(Bytes) /\ r \in Nat /\ r <= Len(W) /\ c \in Nat
      /\ c <= r /\ Len(d) = r - c /\ \A i \in 1..Len(d) : d[i] = W[c + i]
  BY RestFacts
<1>2. d \in Seq(Bytes) /\ responseData' = e /\ received' = r + size
  BY DEF TypeOK
<1> HIDE DEF W, c, r, d
<1>3. r + size \in Nat /\ r <= r + size /\ r + size <= Len(W) /\ c <= r + size
  BY <1>1 DEF r, W
<1>4. /\ g \in Seq(Bytes) /\ Len(g) = (r + size) - r
      /\ \A i \in 1..((r + size) - r) : g[i] = W[r + i]
  BY <1>1, <1>3, WireSlice DEF W
<1>5. /\ f \in Seq(Bytes) /\ Len(f) = (r + size) - c
      /\ \A i \in 1..((r + size) - c) : f[i] = W[c + i]
  BY <1>1, <1>3, WireSlice DEF W
<1> HIDE DEF f, g
<1>6. IsWord(d, r - c) /\ IsWord(g, size)
  BY <1>1, <1>2, <1>4 DEF IsWord
<1>7. IsJoin(e, d, r - c, g, size)
  BY <1>6, JoinedParts
<1> HIDE DEF e
<1>8. e \in Seq(Bytes) /\ Len(e) = (r + size) - c
  BY <1>1, <1>7 DEF IsJoin
<1>9. \A i \in 1..Len(e) : e[i] = f[i]
  <2> TAKE i \in 1..Len(e)
  <2>1. i \in 1..((r - c) + size) /\ i \in 1..((r + size) - c)
    BY <1>1, <1>8
  <2>2. CASE i <= r - c
    <3>1. e[i] = d[i] /\ i \in 1..Len(d)
      BY <1>1, <1>7, <2>1, <2>2 DEF IsJoin
    <3>2. QED
      BY <3>1, <1>1, <1>5, <2>1
  <2>3. CASE ~(i <= r - c)
    <3>1. e[i] = g[i - (r - c)] /\ i - (r - c) \in 1..((r + size) - r) /\ r + (i - (r - c)) = c + i
      BY <1>1, <1>7, <2>1, <2>3 DEF IsJoin
    <3>2. QED
      BY <3>1, <1>4, <1>5, <2>1
  <2>4. QED
    BY <2>2, <2>3
<1>10. e = f
  BY <1>5, <1>8, <1>9, SameWords
<1>11. Consumed' = c /\ Len(e) <= r + size
  <2>1. Consumed' = (r + size) - Len(e)
    BY <1>2 DEF Consumed
  <2>2. QED
    BY <2>1, <1>1, <1>3, <1>8
<1>12. RestOfWire'
  BY <1>2, <1>10, <1>11 DEF RestOfWire, f, W
<1>13. QED
  BY <1>2, <1>8, <1>11, <1>12 DEF c

-----------------------------------------------------------------------------
(***************************************************************************)
(* The steps.                                                              *)
(***************************************************************************)
\* The invariant holds at first.
LEMMA InitReader ==
    ASSUME Init PROVE ReaderInv
<1>1. message \in Messages /\ Len(Wire(message)) \in Nat /\ Payload(message) \in Seq(Bytes)
  BY WireType, LenProperties DEF Init, IsWord
<1>2. TypeOK
  <2>1. responseData \in Seq(Bytes) /\ body \in Seq(Bytes)
    BY DEF Init
  <2>2. {disconnected, parsingBody, contentLengthReceived, chunkedResponse,
         removeCrlfAfterChunk} \subseteq BOOLEAN
    BY DEF Init
  <2>3. remaining \in 0..RequestSize /\ received \in 0..Len(Wire(message))
    BY <1>1, BoundAssumption DEF Init
  <2>4. QED
    BY <1>1, <2>1, <2>2, <2>3 DEF Init, TypeOK
<1>3. QED
  BY <1>2 DEF Init, ReaderInv, Control, HeaderSoFar, Reading, Settled, WholeWhenReturned

\* The parser and its message stay as they are, and send() ends.
LEMMA Ends ==
    ASSUME ReaderInv, UNCHANGED <<message, received, parser>>,
           pc' \in {"returned", "threw"},
           disconnected' \in BOOLEAN, disconnected' => pc' = "returned",
           endpoint' \in {"none", "open", "closed"}, remaining' \in 0..RequestSize,
           why' \in {"none", "resolve", "constructor", "socket", "timeout", "token"},
           why' = "token" => message.fields = <<>>,
           pc' = "returned" => disconnected' \/ ~parsingBody \/ body = Payload(message)
    PROVE  ReaderInv'
<1>1. BodyIsPrefix
  BY InvPrefix
<1>2. TypeOK'
  BY DEF ReaderInv, TypeOK, parser
<1>3. Control'
  BY DEF Control
<1>4. HeaderSoFar'
  BY DEF ReaderInv, HeaderSoFar, parser
<1>5. ~Reading' /\ BodyIsPrefix'
  BY <1>1 DEF Reading, Settled, BodyIsPrefix, parser
<1>6. WholeWhenReturned'
  BY DEF WholeWhenReturned, parser
<1>7. QED
  BY <1>2, <1>3, <1>4, <1>5, <1>6 DEF ReaderInv

\* Before the first recv.
LEMMA Prepares ==
    ASSUME ReaderInv, UNCHANGED <<message, received, disconnected, parser, why>>,
           pc \in {"resolve", "socket", "connect", "send"},
           pc' \in {"socket", "connect", "send", "recv"},
           endpoint' \in {"none", "open", "closed"}, remaining' \in 0..RequestSize
    PROVE  ReaderInv'
<1>1. TypeOK'
  BY DEF ReaderInv, TypeOK, parser
<1>2. ~parsingBody /\ ~disconnected
  BY DEF ReaderInv, Control
<1>3. Control'
  BY <1>2 DEF ReaderInv, Control, parser
<1>4. HeaderSoFar'
  BY <1>2 DEF ReaderInv, HeaderSoFar, parser
<1>5. ~Reading' /\ ~Settled' /\ WholeWhenReturned'
  BY <1>2 DEF Reading, Settled, WholeWhenReturned, parser
<1>6. QED
  BY <1>1, <1>3, <1>4, <1>5 DEF ReaderInv

\* What the parser has done depends on the message and the parser only.
LEMMA BodySoFarStays ==
    ASSUME BodySoFar, UNCHANGED <<message, received, parser>>
    PROVE  BodySoFar'
BY DEF BodySoFar, RestOfWire, ChunkedBody, PlainBody, BetweenChunks, WithinChunk, BehindChunk,
       Consumed, parser

\* The parser needs more bytes.
LEMMA NeedsMore ==
    ASSUME ReaderInv, UNCHANGED <<network, parser, why>>, pc = "chunks", pc' = "recv"
    PROVE  ReaderInv'
<1>1. TypeOK'
  BY DEF ReaderInv, TypeOK, parser, network
<1>2. parsingBody /\ ~disconnected
  BY DEF ReaderInv, Control
<1>3. Control'
  BY <1>2 DEF ReaderInv, Control, parser, network
<1>4. HeaderSoFar'
  BY <1>2 DEF ReaderInv, HeaderSoFar, parser, network
<1>5. BodySoFar'
  BY <1>2, BodySoFarStays DEF ReaderInv, Reading, Settled, network
<1>6. ~Settled' /\ WholeWhenReturned'
  BY DEF Settled, WholeWhenReturned
<1>7. QED
  BY <1>1, <1>3, <1>4, <1>5, <1>6 DEF ReaderInv

\* The steps that leave the parser alone.
LEMMA SocketSteps ==
    ASSUME ReaderInv,
           \/ Resolve \/ OpenSocket \/ Connect \/ SendPart \/ ReleaseSocket \/ Disconnected
           \/ TimesOut \/ ResolveFails \/ OpenFails \/ ConnectFails \/ SendFails \/ RecvFails
           \/ NoHeaderEnd
    PROVE  ReaderInv'
<1> USE DEF Goto, Return, Throw, network
<1>1. /\ endpoint \in {"none", "open", "closed"} /\ remaining \in 0..RequestSize
      /\ disconnected \in BOOLEAN /\ (disconnected => pc = "returned")
      /\ RequestSize \in Nat
  BY BoundAssumption DEF ReaderInv, TypeOK, Control
<1>2. /\ why \in {"none", "resolve", "constructor", "socket", "timeout", "token"}
      /\ why = "token" => message.fields = <<>>
  BY DEF ReaderInv, TypeOK, Control
<1>3. CASE Resolve \/ OpenSocket \/ Connect
  <2>1. /\ UNCHANGED <<message, received, disconnected, parser, why>>
        /\ pc \in {"resolve", "socket", "connect", "send"}
        /\ pc' \in {"socket", "connect", "send", "recv"}
        /\ endpoint' \in {"none", "open", "closed"} /\ remaining' \in 0..RequestSize
    BY <1>1, <1>3 DEF Resolve, OpenSocket, Connect
  <2>2. QED
    BY <2>1, Prepares
<1>4. CASE SendPart
  <2>1. PICK size \in 1..remaining : remaining' = remaining - size
    BY <1>4 DEF SendPart
  <2>2. remaining' \in 0..RequestSize
    BY <1>1, <2>1
  <2>3. /\ UNCHANGED <<message, received, disconnected, parser, why>>
        /\ pc = "send" /\ pc' \in {"send", "recv"} /\ endpoint' = endpoint
    BY <1>4 DEF SendPart
  <2>4. QED
    BY <1>1, <2>2, <2>3, Prepares
<1>5. CASE ReleaseSocket
  <2>1. /\ UNCHANGED <<message, received, parser, pc, disconnected, remaining, why>>
        /\ pc \in {"returned", "threw"} /\ endpoint' = "closed"
    BY <1>5 DEF ReleaseSocket
  <2>2. pc = "returned" => disconnected \/ ~parsingBody \/ body = Payload(message)
    BY DEF ReaderInv, WholeWhenReturned
  <2>3. QED
    BY <1>1, <1>2, <2>1, <2>2, Ends
<1>6. CASE Disconnected
  <2>1. /\ UNCHANGED <<message, received, parser, endpoint, remaining, why>>
        /\ pc' = "returned" /\ disconnected' = TRUE
    BY <1>6 DEF Disconnected
  <2>2. QED
    BY <1>1, <1>2, <2>1, Ends
<1>7. CASE TimesOut \/ ResolveFails \/ ConnectFails \/ SendFails \/ RecvFails \/ OpenFails
  <2>1. /\ UNCHANGED <<message, received, parser, disconnected, remaining>>
        /\ pc' = "threw" /\ why' \in {"resolve", "constructor", "socket", "timeout"}
        /\ endpoint' \in {"none", "open", "closed"}
        /\ pc # "returned"
    BY <1>1, <1>7 DEF TimesOut, InSocket, ResolveFails, ConnectFails, SendFails, RecvFails, OpenFails
  <2>2. ~disconnected'
    BY <1>1, <2>1
  <2>3. QED
    BY <1>1, <2>1, <2>2, Ends
<1>8. CASE NoHeaderEnd
  <2>1. UNCHANGED <<network, parser, why>> /\ pc' = "returned" /\ pc = "header"
    BY <1>8 DEF NoHeaderEnd
  <2>2. ~parsingBody
    BY <2>1 DEF ReaderInv, Control
  <2>3. QED
    BY <1>1, <1>2, <2>1, <2>2, Ends
<1>9. QED
  BY <1>3, <1>4, <1>5, <1>6, <1>7, <1>8

\* The step of recv.
LEMMA ReceiveStep ==
    ASSUME ReaderInv, Receive PROVE ReaderInv'
<1>1. PICK size \in 1..RecvMax :
         /\ received + size <= Len(Wire(message))
         /\ received' = received + size
         /\ responseData' = responseData \o SubSeq(Wire(message), received + 1, received')
  BY DEF Receive
<1>2. /\ pc = "recv" /\ UNCHANGED <<endpoint, remaining, message, disconnected, header,
                                    expectedChunkSize, removeCrlfAfterChunk, body, why>>
      /\ pc' = IF ~parsingBody THEN "header" ELSE IF chunkedResponse THEN "chunks" ELSE "body"
  BY DEF Receive, Goto
<1>3. TypeOK /\ Control /\ HeaderSoFar /\ size \in Nat
  BY BoundAssumption DEF ReaderInv
<1>4. message \in Messages /\ Wire(message) \in Seq(Bytes) /\ Len(Wire(message)) \in Nat
  BY <1>3, WireType, LenProperties DEF TypeOK, IsWord
<1>5. received' \in 0..Len(Wire(message))
  <2>1. received \in 0..Len(Wire(message))
    BY <1>3 DEF TypeOK
  <2>2. QED
    BY <1>1, <1>3, <1>4, <2>1
<1>6. ~Settled' /\ ~Settled /\ WholeWhenReturned' /\ ~disconnected
  BY <1>2, <1>3 DEF Settled, WholeWhenReturned, Control
<1>7. Control'
  BY <1>2, <1>3, <1>6 DEF Control, header
<1>8. CASE ~parsingBody
  <2>1. received = 0 /\ responseData = <<>>
    BY <1>2, <1>3, <1>8 DEF HeaderSoFar
  <2>2. received' = size /\ size <= Len(Wire(message)) /\ received + 1 = 1
    BY <1>1, <1>3, <2>1
  <2>3. SubSeq(Wire(message), 1, size) \in Seq(Bytes)
    BY <1>3, <1>4, <2>2, PrefixOfWord
  <2>4. responseData' = SubSeq(Wire(message), 1, received')
    BY <1>1, <2>1, <2>2, <2>3, ConcatEmptySeq
  <2>5. responseData' \in Seq(Bytes)
    BY <2>2, <2>3, <2>4
  <2>6. TypeOK'
    BY <1>2, <1>3, <1>5, <2>5 DEF TypeOK, header
  <2>7. HeaderSoFar'
    BY <1>2, <1>3, <1>8, <2>4 DEF HeaderSoFar, header
  <2>8. ~Reading'
    BY <1>2, <1>8 DEF Reading, header
  <2>9. QED
    BY <1>6, <1>7, <2>6, <2>7, <2>8 DEF ReaderInv
<1>9. CASE parsingBody
  <2>1. BodySoFar
    BY <1>6, <1>9 DEF ReaderInv, Reading
  <2>2. RestOfWire
    BY <2>1 DEF BodySoFar
  <2>3. RestOfWire' /\ Consumed' = Consumed /\ responseData' \in Seq(Bytes)
    BY <1>1, <1>2, <1>3, <2>2, MoreCame
  <2>4. TypeOK'
    BY <1>2, <1>3, <1>5, <2>3 DEF TypeOK, header
  <2>5. HeaderSoFar'
    BY <1>2, <1>3, <1>9 DEF HeaderSoFar, header
  <2>6. chunkedResponse => ChunkedBody'
    BY <1>2, <2>1, <2>3 DEF BodySoFar, ChunkedBody, BetweenChunks, WithinChunk, BehindChunk
  <2>7. ~chunkedResponse => PlainBody'
    BY <1>2, <2>1, <2>3 DEF BodySoFar, PlainBody
  <2>8. BodySoFar'
    BY <1>2, <2>3, <2>6, <2>7 DEF BodySoFar, header
  <2>9. QED
    BY <1>6, <1>7, <2>4, <2>5, <2>8 DEF ReaderInv
<1>10. QED
  BY <1>8, <1>9

\* An empty line right behind the status line: there is no header field.
LEMMA NoFieldStep ==
    ASSUME ReaderInv, ParseNoField PROVE ReaderInv'
<1>1. /\ pc = "header" /\ Find(responseData, headerEnd) = 2
      /\ pc' = "threw" /\ why' = "token" /\ UNCHANGED <<network, parser>>
  BY DEF ParseNoField, Throw
<1>2. TypeOK /\ Control /\ HeaderSoFar
  BY DEF ReaderInv
<1>3. /\ message \in Messages /\ Len(Wire(message)) \in Nat
      /\ received \in Nat /\ received <= Len(Wire(message))
  <2>1. message \in Messages /\ received \in 0..Len(Wire(message))
    BY <1>2 DEF TypeOK
  <2>2. Len(Wire(message)) \in Nat
    BY <2>1, WireType, LenProperties DEF IsWord
  <2>3. QED
    BY <2>1, <2>2
<1>4. Find(responseData, headerEnd) =
         IF received < HeaderSize(message) THEN 0 ELSE 3 * Len(message.fields) + 2
  BY <1>1, <1>2, <1>3, FindHeader DEF HeaderSoFar
<1>5. message.fields = <<>>
  <2>1. message.fields \in Seq(Fields) /\ Len(message.fields) \in Nat
    BY <1>3, MessageType
  <2>2. Len(message.fields) = 0
    BY <1>1, <1>4, <2>1
  <2>3. QED
    BY <2>1, <2>2, EmptySeq
<1>6. /\ endpoint' \in {"none", "open", "closed"} /\ remaining' \in 0..RequestSize
      /\ disconnected' \in BOOLEAN /\ ~disconnected'
  BY <1>1, <1>2 DEF TypeOK, Control, network
<1>7. QED
  BY <1>1, <1>5, <1>6, Ends DEF network

\* The fields that the parser sees are the fields of the message.
LEMMA NamesSeen ==
    ASSUME NEW m \in Messages, NEW to \in Nat, to <= Len(Wire(m)), HeaderSize(m) <= to
    PROVE  ToSet(SubSeq(SubSeq(Wire(m), 1, to), 4, 3 * Len(m.fields) + 2)) \cap Fields
             = ToSet(m.fields)
<1> DEFINE s == SubSeq(Wire(m), 1, to)
           n == Len(m.fields)
           W == Wire(m)
           h == HeaderWire(m)
           u == SubSeq(s, 4, 3 * n + 2)
<1>1. n \in Nat /\ HeaderSize(m) = 3 * n + 5 /\ m.fields \in Seq(Fields) /\ DOMAIN m.fields = 1..n
  BY MessageType DEF HeaderSize
<1>2. W \in Seq(Bytes) /\ Len(W) \in Nat
  BY WireType, LenProperties DEF IsWord
<1>3. s \in Seq(Bytes) /\ Len(s) = to /\ \A i \in 1..to : s[i] = W[i]
  BY <1>2, PrefixOfWord
<1>4. \A i \in 1..(3 * n + 5) : W[i] = h[i]
  BY <1>1, WireType
<1>5. \A i \in 1..n : h[3 * i + 1] = m.fields[i] /\ h[3 * i + 2] = "CR" /\ h[3 * i + 3] = "LF"
  BY HeaderBytes
<1>6. \A i \in 1..n : m.fields[i] \in Fields
  BY <1>1, ElementOfSeq
<1>7. "CR" \notin Fields /\ "LF" \notin Fields
  BY DEF Fields
<1> HIDE DEF s, n, W, h
<1>8. u \in Seq(Bytes) /\ DOMAIN u = 1..(3 * n - 1) /\ \A i \in 1..(3 * n - 1) : u[i] = s[i + 3]
  <2>1. 3 * n + 2 <= Len(s)
    BY <1>1, <1>3
  <2>2. QED
    BY <1>1, <1>3, <2>1
<1> HIDE DEF u
<1>9. \A i \in 1..(3 * n - 1) : u[i] = h[i + 3]
  <2> TAKE i \in 1..(3 * n - 1)
  <2>1. i + 3 \in 1..(3 * n + 5) /\ i + 3 \in 1..to
    BY <1>1
  <2>2. QED
    BY <2>1, <1>3, <1>4, <1>8
<1>10. ASSUME NEW x \in ToSet(m.fields) PROVE x \in ToSet(u) \cap Fields
  <2>1. PICK i \in 1..n : x = m.fields[i]
    BY <1>1 DEF ToSet
  <2>2. 3 * i - 2 \in 1..(3 * n - 1) /\ (3 * i - 2) + 3 = 3 * i + 1
    BY <1>1
  <2>3. u[3 * i - 2] = x
    BY <2>1, <2>2, <1>5, <1>9
  <2>4. QED
    BY <2>1, <2>2, <2>3, <1>6, <1>8 DEF ToSet
<1>11. ASSUME NEW x \in ToSet(u) \cap Fields PROVE x \in ToSet(m.fields)
  <2>1. PICK i \in 1..(3 * n - 1) : x = u[i]
    BY <1>8 DEF ToSet
  <2>2. PICK j \in Nat : i = 3 * j \/ i = 3 * j + 1 \/ i = 3 * j + 2
    <3>1. i \div 3 \in Nat /\ i % 3 \in 0..2 /\ i = 3 * (i \div 3) + (i % 3)
      BY <1>1
    <3>2. QED
      BY <3>1
  <2>3. CASE i = 3 * j
    <3>1. j \in 1..n /\ i + 3 = 3 * j + 3
      BY <1>1, <2>3
    <3>2. x = h[3 * j + 3]
      BY <3>1, <1>9, <2>1
    <3>3. x = "LF"
      BY <3>1, <3>2, <1>5
    <3>4. QED
      BY <3>3, <1>7
  <2>4. CASE i = 3 * j + 1
    <3>1. j + 1 \in 1..n /\ i + 3 = 3 * (j + 1) + 1
      BY <1>1, <2>4
    <3>2. x = m.fields[j + 1]
      BY <3>1, <1>5, <1>9, <2>1
    <3>3. QED
      BY <3>1, <3>2, <1>1 DEF ToSet
  <2>5. CASE i = 3 * j + 2
    <3>1. j + 1 \in 1..n /\ i + 3 = 3 * (j + 1) + 2
      BY <1>1, <2>5
    <3>2. x = h[3 * (j + 1) + 2]
      BY <3>1, <1>9, <2>1
    <3>3. x = "CR"
      BY <3>1, <3>2, <1>5
    <3>4. QED
      BY <3>3, <1>7
  <2>6. QED
    BY <2>2, <2>3, <2>4, <2>5
<1>12. ToSet(u) \cap Fields = ToSet(m.fields)
  BY <1>10, <1>11
<1>13. QED
  BY <1>12 DEF u, s, n

\* The header section is parsed and the parser is at its end.
LEMMA ParseHeaderStep ==
    ASSUME ReaderInv, ParseHeader PROVE ReaderInv'
<1> DEFINE m == message
           n == Len(m.fields)
           e == Find(responseData, headerEnd)
           names == ToSet(SubSeq(responseData, 4, e)) \cap Fields
           H == HeaderSize(m)
<1>1. /\ pc = "header" /\ e > 3
      /\ chunkedResponse' = ("chunked" \in names)
      /\ contentLengthReceived' = ("length" \in names)
      /\ contentLength' = IF "length" \in names THEN ContentLength(m) ELSE 0
      /\ responseData' = SubSeq(responseData, e + 4, Len(responseData))
      /\ parsingBody' = TRUE
      /\ pc' = IF "chunked" \in names THEN "chunks" ELSE "body"
      /\ UNCHANGED <<network, expectedChunkSize, removeCrlfAfterChunk, body, why>>
  BY DEF ParseHeader, Goto
<1>2. TypeOK /\ Control /\ HeaderSoFar
  BY DEF ReaderInv
<1>3. /\ m \in Messages /\ Wire(m) \in Seq(Bytes) /\ Len(Wire(m)) \in Nat
      /\ received \in Nat /\ received <= Len(Wire(m))
  <2>1. m \in Messages /\ received \in 0..Len(Wire(m))
    BY <1>2 DEF TypeOK
  <2>2. Wire(m) \in Seq(Bytes) /\ Len(Wire(m)) \in Nat
    BY <2>1, WireType, LenProperties DEF IsWord
  <2>3. QED
    BY <2>1, <2>2
<1>4. ~parsingBody /\ ~disconnected /\ body = <<>> /\ expectedChunkSize = 0 /\ ~removeCrlfAfterChunk
      /\ responseData = SubSeq(Wire(m), 1, received)
  BY <1>1, <1>2 DEF Control, HeaderSoFar
<1>5. n \in Nat /\ H = 3 * n + 5 /\ Payload(m) \in Seq(Bytes) /\ Len(Payload(m)) \in Nat
  BY <1>3, MessageType, WireType, LenProperties DEF HeaderSize
<1>6. e = IF received < H THEN 0 ELSE 3 * n + 2
  BY <1>3, <1>4, FindHeader
<1>7. ~(received < H) /\ H <= received /\ e = 3 * n + 2 /\ e + 4 = H + 1
  BY <1>1, <1>3, <1>5, <1>6
<1>8. names = ToSet(m.fields)
  BY <1>3, <1>4, <1>7, NamesSeen
<1>9. /\ chunkedResponse' = IsChunked(m) /\ contentLengthReceived' = HasLength(m)
      /\ contentLength' = IF HasLength(m) THEN ContentLength(m) ELSE 0
      /\ pc' = IF IsChunked(m) THEN "chunks" ELSE "body"
      /\ IsChunked(m) \in BOOLEAN /\ HasLength(m) \in BOOLEAN
  BY <1>1, <1>8 DEF IsChunked, HasLength
<1>10. RestOfWire /\ Consumed = 0 /\ Len(responseData) = received
  <2>1. Len(responseData) = received
    BY <1>3, <1>4, PrefixOfWord
  <2>2. Consumed = 0
    BY <1>3, <2>1 DEF Consumed
  <2>3. Consumed + 1 = 1 /\ Len(responseData) <= received
    BY <1>3, <2>1, <2>2
  <2>4. QED
    BY <1>4, <2>1, <2>2, <2>3 DEF RestOfWire
<1> HIDE DEF n, e, names, H
<1>11. RestOfWire' /\ Consumed' = H /\ responseData' \in Seq(Bytes)
  <2>1. H \in Nat /\ H <= Len(responseData)
    BY <1>5, <1>7, <1>10
  <2>2. responseData' = SubSeq(responseData, H + 1, Len(responseData))
    BY <1>1, <1>7
  <2>3. received' = received /\ message' = message
    BY <1>1 DEF network
  <2>4. RestOfWire' /\ Consumed' = Consumed + H /\ responseData' \in Seq(Bytes)
    BY <1>2, <1>10, <2>1, <2>2, <2>3, TakenOff
  <2>5. QED
    BY <1>10, <2>1, <2>4
<1>12. TypeOK'
  <2>1. contentLength' \in Nat
    BY <1>5, <1>9 DEF ContentLength
  <2>2. {disconnected', parsingBody', contentLengthReceived', chunkedResponse',
         removeCrlfAfterChunk'} \subseteq BOOLEAN
    BY <1>1, <1>2, <1>9 DEF TypeOK, network
  <2>3. pc' \in {"chunks", "body"}
    BY <1>9
  <2>4. QED
    BY <1>1, <1>2, <1>11, <2>1, <2>2, <2>3 DEF TypeOK, network
<1>13. Control'
  BY <1>1, <1>2, <1>4, <1>9 DEF Control, network
<1>14. HeaderSoFar'
  BY <1>1, <1>4, <1>9 DEF HeaderSoFar, network, m
<1>15. body' = <<>> /\ expectedChunkSize' = 0 /\ ~removeCrlfAfterChunk' /\ message' = m
  BY <1>1, <1>4 DEF network
<1>16. IsChunked(m) => ChunkedBody'
  <2>1. FrameAt(m, 0) = H /\ First(m.chunks, 0) = <<>> /\ 0 \in 0..Len(m.chunks)
    <3>1. First(m.chunks, 0) = <<>> /\ 0 \in 0..Len(m.chunks)
      BY <1>3, MessageType, FirstSteps
    <3>2. Offset(m, 0) = 0
      BY <1>3, OffsetSteps
    <3>3. QED
      BY <3>1, <3>2, <1>5 DEF FrameAt, H
  <2>2. Consumed' = FrameAt(message', 0) /\ body' = First(message'.chunks, 0) /\ 0 \in 0..Len(message'.chunks)
    BY <1>11, <1>15, <2>1
  <2>3. BetweenChunks(0)'
    BY <1>15, <2>2 DEF BetweenChunks
  <2>4. QED
    BY <2>2, <2>3 DEF ChunkedBody
<1>17. ~IsChunked(m) => PlainBody'
  <2>1. HeaderSize(message') = H /\ H <= Consumed' /\ Consumed' - H = 0
    BY <1>5, <1>11, <1>15 DEF H
  <2>2. SubSeq(Payload(m), 1, 0) = <<>>
    BY SubSeqEmpty
  <2>3. QED
    BY <1>15, <2>1, <2>2 DEF PlainBody
<1>18. BodySoFar'
  BY <1>9, <1>11, <1>16, <1>17 DEF BodySoFar
<1>19. ~Settled' /\ WholeWhenReturned'
  BY <1>9 DEF Settled, WholeWhenReturned
<1>20. QED
  BY <1>12, <1>13, <1>14, <1>18, <1>19 DEF ReaderInv

\* A piece of a body that is not chunked is what the wire holds behind the header.
LEMMA CopyBodyStep ==
    ASSUME ReaderInv, CopyBody PROVE ReaderInv'
<1> DEFINE m == message
           P == Payload(m)
           H == HeaderSize(m)
           r == received
           c == Consumed
           d == responseData
           W == Wire(m)
<1>1. /\ pc = "body" /\ body' = body \o d /\ responseData' = <<>>
      /\ (IF contentLengthReceived /\ Len(body') >= contentLength
          THEN pc' = "returned" ELSE pc' = "recv")
      /\ UNCHANGED <<network, header, expectedChunkSize, removeCrlfAfterChunk, why>>
  BY DEF CopyBody, Return, Goto
<1>2. TypeOK /\ Control /\ HeaderSoFar /\ parsingBody /\ ~chunkedResponse /\ ~disconnected
  BY <1>1 DEF ReaderInv, Control
<1>3. RestOfWire /\ PlainBody /\ ~IsChunked(m)
  BY <1>1, <1>2 DEF ReaderInv, Reading, Settled, BodySoFar, HeaderSoFar
<1>4. /\ m \in Messages /\ W \in Seq(Bytes) /\ r \in Nat /\ r <= Len(W) /\ c \in Nat
      /\ c <= r /\ Len(d) = r - c /\ \A i \in 1..Len(d) : d[i] = W[c + i]
  BY <1>2, <1>3, RestFacts
<1>5. /\ P \in Seq(Bytes) /\ Len(P) \in Nat /\ H \in Nat /\ Len(W) = H + Len(P)
      /\ \A j \in 1..Len(P) : W[H + j] = P[j]
  BY <1>3, <1>4, WireType DEF IsWord, BodyWire
<1>6. H <= c /\ body = SubSeq(P, 1, c - H) /\ d \in Seq(Bytes)
  BY <1>2, <1>3 DEF PlainBody, TypeOK
<1> HIDE DEF m, P, H, r, c, d, W
<1> DEFINE a == c - H
           b == r - H
           u == SubSeq(P, 1, a)
           t == SubSeq(P, 1, b)
           v == u \o d
<1>7. /\ a \in Nat /\ b \in Nat /\ a <= b /\ b <= Len(P) /\ Len(d) = b - a
      /\ a + (b - a) = b /\ c = H + a
  BY <1>4, <1>5, <1>6
<1>8. u \in Seq(Bytes) /\ Len(u) = a /\ \A i \in 1..a : u[i] = P[i]
  BY <1>5, <1>7, PrefixOfWord
<1>9. t \in Seq(Bytes) /\ Len(t) = b /\ (\A i \in 1..b : t[i] = P[i]) /\ IsPrefix(t, P)
  BY <1>5, <1>7, PrefixOfWord
<1> HIDE DEF u, t, a, b
<1>10. IsJoin(v, u, a, d, b - a)
  <2>1. IsWord(u, a) /\ IsWord(d, b - a)
    BY <1>6, <1>7, <1>8 DEF IsWord
  <2>2. QED
    BY <2>1, JoinedParts
<1> HIDE DEF v
<1>11. v = t
  <2>1. v \in Seq(Bytes) /\ Len(v) = b
    BY <1>7, <1>10 DEF IsJoin
  <2>2. \A i \in 1..Len(v) : v[i] = t[i]
    <3> TAKE i \in 1..Len(v)
    <3>1. i \in 1..b /\ i \in 1..(a + (b - a))
      BY <1>7, <2>1
    <3>2. CASE i <= a
      <4>1. v[i] = u[i] /\ i \in 1..a
        BY <3>1, <3>2, <1>7, <1>10 DEF IsJoin
      <4>2. QED
        BY <4>1, <3>1, <1>8, <1>9
    <3>3. CASE ~(i <= a)
      <4>0. i - a \in 1..Len(d)
        BY <3>1, <3>3, <1>7
      <4>1. i - a \in 1..Len(d) /\ c + (i - a) = H + i /\ i \in 1..Len(P)
        BY <4>0, <3>1, <1>5, <1>7
      <4>2. v[i] = d[i - a]
        BY <3>1, <3>3, <1>10 DEF IsJoin
      <4>3. d[i - a] = P[i]
        BY <4>1, <1>4, <1>5
      <4>4. QED
        BY <4>2, <4>3, <3>1, <1>9
    <3>4. QED
      BY <3>2, <3>3
  <2>3. QED
    BY <2>1, <2>2, <1>9, SameWords
<1>12. body' = t
  BY <1>1, <1>6, <1>11 DEF v, u, a
<1>13. /\ message' = m /\ received' = r /\ Len(responseData') = 0 /\ responseData' \in Seq(Bytes)
       /\ parsingBody' /\ ~chunkedResponse' /\ ~disconnected'
  BY <1>1, <1>2 DEF network, header, m, r
<1>14. TypeOK'
  <2>1. body' \in Seq(Bytes)
    BY <1>9, <1>12
  <2>2. QED
    BY <1>1, <1>2, <1>13, <2>1 DEF TypeOK, network, header
<1>15. Control'
  BY <1>1, <1>2, <1>13 DEF Control, network, header
<1>16. HeaderSoFar'
  BY <1>1, <1>2, <1>13 DEF HeaderSoFar, network, header
<1>17. BodyIsPrefix'
  BY <1>9, <1>12, <1>13 DEF BodyIsPrefix, P
<1>18. WholeWhenReturned'
  <2>1. ASSUME pc' = "returned" PROVE body' = P
    <3>1. contentLengthReceived /\ Len(body') >= contentLength
      BY <1>1, <2>1
    <3>2. contentLength = Len(P)
      BY <3>1, <1>2 DEF HeaderSoFar, ContentLength, P, m
    <3>3. b = Len(P)
      BY <3>1, <3>2, <1>5, <1>7, <1>9, <1>12
    <3>4. SubSeq(P, 1, Len(P)) = P
      BY <1>5, SubSeqFull
    <3>5. QED
      BY <3>3, <3>4, <1>12 DEF t
  <2>2. QED
    BY <2>1, <1>13 DEF WholeWhenReturned, P
<1>19. RestOfWire' /\ Consumed' = r
  <2>1. Consumed' = r /\ Len(responseData') <= received'
    BY <1>4, <1>13 DEF Consumed
  <2>2. SubSeq(W, r + 1, r) = <<>>
    <3>1. r \in Nat /\ r <= r
      BY <1>4
    <3>2. SubSeq(W, r + 1, r) \in Seq(Bytes) /\ Len(SubSeq(W, r + 1, r)) = r - r
      BY <3>1, <1>4, WireSlice DEF W
    <3>3. QED
      BY <3>1, <3>2, EmptySeq
  <2>3. QED
    BY <2>1, <2>2, <1>1, <1>13 DEF RestOfWire, W
<1>20. PlainBody'
  <2>1. H <= r /\ b = r - H
    BY <1>4, <1>5, <1>6 DEF b
  <2>2. HeaderSize(message') = H /\ Payload(message') = P
    BY <1>13 DEF H, P
  <2>3. body' = SubSeq(P, 1, r - H)
    BY <1>12, <2>1 DEF t
  <2>4. QED
    BY <1>19, <2>1, <2>2, <2>3 DEF PlainBody
<1>21. BodySoFar'
  BY <1>13, <1>19, <1>20 DEF BodySoFar
<1>22. QED
  BY <1>14, <1>15, <1>16, <1>17, <1>18, <1>21 DEF ReaderInv

\* What is known at the head of the chunk loop.
LEMMA InChunks ==
    ASSUME ReaderInv, pc = "chunks"
    PROVE  /\ TypeOK /\ Control /\ HeaderSoFar /\ parsingBody /\ chunkedResponse /\ ~disconnected
           /\ RestOfWire /\ ChunkedBody
           /\ message \in Messages /\ IsChunked(message)
BY DEF ReaderInv, Control, Reading, Settled, BodySoFar, HeaderSoFar, TypeOK

\* A step of the chunk loop that goes on: what it has to show.
LEMMA GoesOn ==
    ASSUME ReaderInv, pc = "chunks", pc' \in {"chunks", "recv"},
           UNCHANGED <<network, header, why>>,
           responseData' \in Seq(Bytes), body' \in Seq(Bytes), expectedChunkSize' \in Nat,
           removeCrlfAfterChunk' \in BOOLEAN, RestOfWire', ChunkedBody'
    PROVE  ReaderInv'
<1>1. TypeOK /\ Control /\ HeaderSoFar /\ parsingBody /\ chunkedResponse /\ ~disconnected
  BY InChunks
<1>2. parsingBody' /\ chunkedResponse' /\ ~disconnected' /\ message' = message
  BY <1>1 DEF network, header
<1>3. TypeOK'
  <2>1. {disconnected', parsingBody', contentLengthReceived', chunkedResponse',
         removeCrlfAfterChunk'} \subseteq BOOLEAN
    BY <1>1 DEF TypeOK, network, header
  <2>2. QED
    BY <1>1, <2>1 DEF TypeOK, network, header
<1>4. Control'
  BY <1>1, <1>2 DEF Control, network, header
<1>5. HeaderSoFar'
  BY <1>1, <1>2 DEF HeaderSoFar, network, header
<1>6. BodySoFar'
  BY <1>2 DEF BodySoFar
<1>7. ~Settled' /\ WholeWhenReturned'
  BY DEF Settled, WholeWhenReturned
<1>8. QED
  BY <1>3, <1>4, <1>5, <1>6, <1>7 DEF ReaderInv

\* A piece of a chunk, or all that is left of it, goes to the body.
LEMMA CopyChunkStep ==
    ASSUME ReaderInv, CopyChunk PROVE ReaderInv'
<1> DEFINE m == message
           r == received
           p == Consumed
           d == responseData
           W == Wire(m)
           q == expectedChunkSize
<1>1. PICK w \in {Min({q, Len(d)})} :
         /\ body' = body \o SubSeq(d, 1, w)
         /\ responseData' = SubSeq(d, w + 1, Len(d))
         /\ expectedChunkSize' = q - w
         /\ removeCrlfAfterChunk' = (w = q \/ removeCrlfAfterChunk)
  BY DEF CopyChunk
<1>2. /\ pc = "chunks" /\ q > 0 /\ pc' \in {"chunks", "recv"}
      /\ UNCHANGED <<network, header, why>>
  BY DEF CopyChunk, Goto
<1>3. /\ TypeOK /\ RestOfWire /\ ChunkedBody /\ m \in Messages /\ IsChunked(m)
  BY <1>2, InChunks
<1>4. /\ W \in Seq(Bytes) /\ r \in Nat /\ r <= Len(W) /\ p \in Nat
      /\ p <= r /\ Len(d) = r - p /\ Len(d) \in Nat /\ \A i \in 1..Len(d) : d[i] = W[p + i]
  BY <1>3, RestFacts
<1>5. d \in Seq(Bytes) /\ q \in Nat
  BY <1>3 DEF TypeOK
<1>6. PICK k \in 0..(Len(m.chunks) - 1) : WithinChunk(k)
  BY <1>2, <1>3 DEF ChunkedBody, BetweenChunks, BehindChunk
<1> DEFINE s == m.chunks[k + 1]
           l == Len(s)
           f == First(m.chunks, k)
           at == FrameAt(m, k)
           o == l - q
<1>7. /\ q \in 1..l /\ ~removeCrlfAfterChunk
      /\ p = at + 3 + o /\ body = f \o SubSeq(s, 1, o) /\ o = l - q
  BY <1>6 DEF WithinChunk
<1>8. /\ at \in Nat /\ s \in Seq(Bytes) /\ l \in 1..3
      /\ \A j \in 1..l : W[at + 3 + j] = s[j]
  BY <1>3, ChunkLine
<1>9. /\ f \in Seq(Bytes) /\ First(m.chunks, k + 1) = f \o s
  <2>1. m.chunks \in Seq(Seq(Bytes)) /\ k \in 0..Len(m.chunks)
    BY <1>3, MessageType
  <2>2. QED
    BY <2>1, FirstSteps
<1>10. w \in Nat /\ w <= q /\ w <= Len(d) /\ (w = q \/ w = Len(d))
  <2>1. \E x \in {q, Len(d)} : \A y \in {q, Len(d)} : x <= y
    BY <1>4, <1>5
  <2>2. /\ Min({q, Len(d)}) \in {q, Len(d)}
        /\ Min({q, Len(d)}) <= q /\ Min({q, Len(d)}) <= Len(d)
    BY <2>1 DEF Min
  <2>3. QED
    BY <2>2, <1>1, <1>4, <1>5
<1>11. /\ RestOfWire' /\ Consumed' = p + w /\ responseData' \in Seq(Bytes)
  <2>1. received' = received /\ message' = message
    BY <1>2 DEF network
  <2>2. QED
    BY <1>1, <1>3, <1>10, <2>1, TakenOff
<1>12. message' = m
  BY <1>2 DEF network
<1> HIDE DEF m, r, p, d, W, q, s, l, f, at, o
<1>13. o \in Nat /\ o + w \in Nat /\ o + w <= l /\ o <= l /\ o + w = l - (q - w) /\ q - w \in Nat
  <2>1. q \in Nat /\ l \in Nat /\ w \in Nat /\ q <= l /\ w <= q /\ o = l - q
    BY <1>5, <1>7, <1>8, <1>10
  <2>2. QED
    BY <2>1
\* The piece lies behind what has been copied of the chunk.
<1>14. SubSeq(s, 1, o) \o SubSeq(d, 1, w) = SubSeq(s, 1, o + w)
  <2> DEFINE x == SubSeq(s, 1, o)
             y == SubSeq(d, 1, w)
             z == SubSeq(s, 1, o + w)
             v == x \o y
  <2>1. x \in Seq(Bytes) /\ Len(x) = o /\ \A i \in 1..o : x[i] = s[i]
    BY <1>8, <1>13, PrefixOfWord DEF l
  <2>2. y \in Seq(Bytes) /\ Len(y) = w /\ \A i \in 1..w : y[i] = d[i]
    BY <1>5, <1>10, PrefixOfWord
  <2>3. z \in Seq(Bytes) /\ Len(z) = o + w /\ \A i \in 1..(o + w) : z[i] = s[i]
    BY <1>8, <1>13, PrefixOfWord DEF l
  <2> HIDE DEF x, y, z
  <2>4. IsJoin(v, x, o, y, w)
    <3>1. IsWord(x, o) /\ IsWord(y, w)
      BY <1>10, <1>13, <2>1, <2>2 DEF IsWord
    <3>2. QED
      BY <3>1, JoinedParts
  <2> HIDE DEF v
  <2>5. \A i \in 1..Len(v) : v[i] = z[i]
    <3> TAKE i \in 1..Len(v)
    <3>1. i \in 1..(o + w)
      BY <2>4 DEF IsJoin
    <3>0. v[i] = IF i <= o THEN x[i] ELSE y[i - o]
      BY <3>1, <2>4 DEF IsJoin
    <3>2. CASE i <= o
      <4>1. v[i] = x[i] /\ i \in 1..o
        BY <3>0, <3>1, <3>2, <1>13
      <4>2. QED
        BY <4>1, <3>1, <2>1, <2>3
    <3>3. CASE ~(i <= o)
      <4>0. i - o \in 1..w
        BY <3>1, <3>3, <1>10, <1>13
      <4>1. v[i] = y[i - o] /\ i - o \in 1..w /\ i - o \in 1..Len(d)
        BY <3>0, <3>3, <4>0, <1>4, <1>10
      <4>2. i \in 1..l /\ p + (i - o) = at + 3 + i
        BY <3>1, <1>7, <1>8, <1>13
      <4>3. y[i - o] = d[i - o] /\ d[i - o] = W[p + (i - o)] /\ W[at + 3 + i] = s[i]
        BY <4>1, <4>2, <1>4, <1>8, <2>2
      <4>4. QED
        BY <4>1, <4>2, <4>3, <3>1, <2>3
    <3>4. QED
      BY <3>2, <3>3
  <2>6. v \in Seq(Bytes) /\ Len(v) = o + w
    BY <2>4 DEF IsJoin
  <2>7. v = z
    BY <2>3, <2>5, <2>6, SameWords
  <2>8. QED
    BY <2>7 DEF v, x, y, z
<1>15. body' = f \o SubSeq(s, 1, o + w) /\ body' \in Seq(Bytes)
  <2>1. SubSeq(s, 1, o) \in Seq(Bytes) /\ SubSeq(d, 1, w) \in Seq(Bytes) /\ SubSeq(s, 1, o + w) \in Seq(Bytes)
    BY <1>5, <1>8, <1>10, <1>13, PrefixOfWord DEF l
  <2>2. (f \o SubSeq(s, 1, o)) \o SubSeq(d, 1, w) = f \o (SubSeq(s, 1, o) \o SubSeq(d, 1, w))
    <3> DEFINE x == SubSeq(s, 1, o)
               y == SubSeq(d, 1, w)
    <3> HIDE DEF x, y
    <3>1. x \in Seq(Bytes) /\ y \in Seq(Bytes)
      BY <2>1 DEF x, y
    <3>2. (f \o x) \o y = f \o (x \o y)
      BY <1>9, <3>1, ConcatAssociative
    <3>3. QED
      BY <3>2 DEF x, y
  <2>3. body' = f \o SubSeq(s, 1, o + w)
    BY <1>1, <1>7, <1>14, <2>2
  <2>4. QED
    BY <1>9, <2>1, <2>3, ConcatProperties
<1>16. Consumed' = at + 3 + (o + w)
  <2>1. at \in Nat /\ o \in Nat /\ w \in Nat /\ p = at + 3 + o /\ Consumed' = p + w
    BY <1>7, <1>8, <1>10, <1>11, <1>13
  <2>2. QED
    BY <2>1
<1>17. /\ Len(message'.chunks[k + 1]) = l /\ FrameAt(message', k) = at
       /\ First(message'.chunks, k) = f /\ message'.chunks[k + 1] = s
       /\ k \in 0..(Len(message'.chunks) - 1)
  BY <1>12 DEF l, s, at, f, m
<1>18. CASE w = q
  <2>1. o + w = l /\ q - w = 0
    BY <1>8, <1>13, <1>18, <1>5
  <2>2. SubSeq(s, 1, l) = s
    BY <1>8, SubSeqFull DEF l
  <2>3. body' = First(message'.chunks, k + 1)
    BY <1>9, <1>12, <1>15, <2>1, <2>2
  <2>4. Consumed' = FrameAt(message', k) + 3 + Len(message'.chunks[k + 1])
    BY <1>16, <1>17, <2>1
  <2>5. expectedChunkSize' = 0 /\ removeCrlfAfterChunk' = TRUE
    BY <1>1, <1>18, <2>1
  <2>6. BehindChunk(k)'
    BY <2>3, <2>4, <2>5 DEF BehindChunk
  <2>7. ChunkedBody'
    BY <1>17, <2>6 DEF ChunkedBody
  <2>8. expectedChunkSize' \in Nat /\ removeCrlfAfterChunk' \in BOOLEAN
    BY <2>5
  <2>9. QED
    BY <1>2, <1>11, <1>15, <2>7, <2>8, GoesOn
<1>19. CASE w # q
  <2>1. q - w \in 1..l /\ l - (q - w) = o + w
    BY <1>7, <1>8, <1>10, <1>13, <1>19
  <2>2. expectedChunkSize' = q - w /\ removeCrlfAfterChunk' = FALSE
    BY <1>1, <1>7, <1>19
  <2>3. WithinChunk(k)'
    BY <1>15, <1>16, <1>17, <2>1, <2>2 DEF WithinChunk
  <2>4. ChunkedBody'
    BY <1>17, <2>3 DEF ChunkedBody
  <2>5. expectedChunkSize' \in Nat /\ removeCrlfAfterChunk' \in BOOLEAN
    BY <1>13, <2>2
  <2>6. QED
    BY <1>2, <1>11, <1>15, <2>4, <2>5, GoesOn
<1>20. QED
  BY <1>18, <1>19

\* The line end behind a chunk is what the parser finds there.
LEMMA DropCrlfStep ==
    ASSUME ReaderInv, DropCrlf PROVE ReaderInv'
<1> DEFINE m == message
           p == Consumed
           d == responseData
           W == Wire(m)
<1>1. pc = "chunks" /\ expectedChunkSize = 0 /\ removeCrlfAfterChunk
  BY DEF DropCrlf, AtChunkEnd
<1>2. /\ TypeOK /\ RestOfWire /\ ChunkedBody /\ m \in Messages /\ IsChunked(m)
  BY <1>1, InChunks
<1>3. /\ p \in Nat /\ Len(d) \in Nat /\ \A i \in 1..Len(d) : d[i] = W[p + i]
  BY <1>2, RestFacts
<1>4. d \in Seq(Bytes)
  BY <1>2 DEF TypeOK
<1>5. PICK k \in 0..(Len(m.chunks) - 1) : BehindChunk(k)
  BY <1>1, <1>2 DEF ChunkedBody, BetweenChunks, WithinChunk
<1> DEFINE l == Len(m.chunks[k + 1])
           at == FrameAt(m, k)
<1>6. p = at + 3 + l /\ body = First(m.chunks, k + 1)
  BY <1>5 DEF BehindChunk
<1>7. /\ at \in Nat /\ l \in 1..3 /\ FrameAt(m, k + 1) = at + 5 + l
      /\ W[at + 4 + l] = "CR" /\ W[at + 5 + l] = "LF"
  BY <1>2, ChunkLine
<1>8. k + 1 \in 0..Len(m.chunks)
  BY <1>2, MessageType
<1> HIDE DEF m, p, d, W, l, at
<1>9. p + 1 = at + 4 + l /\ p + 2 = at + 5 + l
  BY <1>6, <1>7
<1>10. CASE Len(d) < 2
  <2>1. UNCHANGED <<network, parser, why>> /\ pc' = "recv"
    BY <1>10 DEF DropCrlf, AtChunkEnd, Goto, parser, header, d
  <2>2. QED
    BY <1>1, <2>1, NeedsMore
<1>11. CASE ~(Len(d) < 2)
  <2>1. 1 \in 1..Len(d) /\ 2 \in 1..Len(d) /\ 2 <= Len(d)
    BY <1>3, <1>11
  <2>2. d[1] = "CR" /\ d[2] = "LF"
    BY <2>1, <1>3, <1>7, <1>9
  <2>3. IsPrefix(crlf, d)
    <3>1. Begins(crlf, d)
      <4>1. \A i \in 1..2 : i = 1 \/ i = 2
        OBVIOUS
      <4>2. QED
        BY <2>1, <2>2, <4>1, CrlfType DEF Begins
    <3>2. QED
      BY <1>4, <3>1, CrlfType, BeginsIsPrefix
  <2>4. /\ removeCrlfAfterChunk' = FALSE /\ responseData' = SubSeq(d, 3, Len(d))
        /\ pc' = "chunks" /\ UNCHANGED <<network, header, expectedChunkSize, body, why>>
    BY <1>11, <2>3 DEF DropCrlf, AtChunkEnd, Goto, d
  <2>5. /\ RestOfWire' /\ Consumed' = p + 2 /\ responseData' \in Seq(Bytes)
    <3>1. /\ responseData' = SubSeq(responseData, 2 + 1, Len(responseData))
          /\ received' = received /\ message' = message /\ 2 \in Nat /\ 2 <= Len(responseData)
      BY <2>1, <2>4 DEF network, d
    <3>2. QED
      BY <1>2, <3>1, TakenOff DEF p
  <2>6. message' = m
    BY <2>4 DEF network, m
  <2>7. /\ Consumed' = FrameAt(message', k + 1) /\ body' = First(message'.chunks, k + 1)
        /\ k + 1 \in 0..Len(message'.chunks)
    BY <1>6, <1>7, <1>8, <1>9, <2>4, <2>5, <2>6
  <2>8. BetweenChunks(k + 1)'
    BY <1>1, <2>4, <2>7 DEF BetweenChunks
  <2>9. ChunkedBody'
    BY <2>7, <2>8 DEF ChunkedBody
  <2>10. body' \in Seq(Bytes) /\ expectedChunkSize' \in Nat /\ removeCrlfAfterChunk' \in BOOLEAN
    BY <1>2, <2>4 DEF TypeOK
  <2>11. QED
    BY <1>1, <2>4, <2>5, <2>9, <2>10, GoesOn
<1>12. QED
  BY <1>10, <1>11

\* A size line: the next chunk begins, or the response is complete.
LEMMA ChunkSizeStep ==
    ASSUME ReaderInv, ChunkSize PROVE ReaderInv'
<1> DEFINE m == message
           p == Consumed
           d == responseData
           W == Wire(m)
           N == Len(m.chunks)
           e == Find(d, crlf)
           digits == SubSeq(d, 1, e - 1)
<1>1. pc = "chunks" /\ expectedChunkSize = 0 /\ ~removeCrlfAfterChunk
  BY DEF ChunkSize
<1>2. /\ TypeOK /\ Control /\ HeaderSoFar /\ RestOfWire /\ ChunkedBody /\ m \in Messages
      /\ IsChunked(m) /\ parsingBody /\ chunkedResponse /\ ~disconnected
  BY <1>1, InChunks
<1>3. /\ p \in Nat /\ Len(d) \in Nat /\ \A i \in 1..Len(d) : d[i] = W[p + i]
  BY <1>2, RestFacts
<1>4. d \in Seq(Bytes)
  BY <1>2 DEF TypeOK
<1>5. PICK k \in 0..N : BetweenChunks(k)
  BY <1>1, <1>2 DEF ChunkedBody, WithinChunk, BehindChunk
<1>6. p = FrameAt(m, k) /\ body = First(m.chunks, k)
  BY <1>5 DEF BetweenChunks
<1>7. W[p + 1] = SizeDigit(m, k) /\ W[p + 2] = "CR" /\ W[p + 3] = "LF"
  BY <1>2, <1>6, SizeLine
<1>8. N \in Nat /\ m.chunks \in Seq(Seq(Bytes))
  BY <1>2, MessageType
<1>9. /\ SizeDigit(m, k) \in Digits
      /\ k < N => /\ DigitValue[SizeDigit(m, k)] = Len(m.chunks[k + 1])
                  /\ Len(m.chunks[k + 1]) \in 1..3
      /\ ~(k < N) => DigitValue[SizeDigit(m, k)] = 0
  <2>1. CASE k < N
    <3>1. k + 1 \in 1..N
      BY <2>1, <1>8
    <3>2. Len(m.chunks[k + 1]) \in 1..3
      BY <3>1, <1>2, MessageType
    <3>3. Len(m.chunks[k + 1]) \in 0..3
      BY <3>2
    <3>4. SizeDigit(m, k) = DigitOf(Len(m.chunks[k + 1]))
      BY <2>1 DEF SizeDigit
    <3>5. QED
      BY <2>1, <3>2, <3>3, <3>4, DigitFacts
  <2>2. CASE ~(k < N)
    BY <2>2, DigitFacts DEF SizeDigit
  <2>3. QED
    BY <2>1, <2>2
<1> HIDE DEF m, p, d, W, N, e
<1>10. /\ Len(d) >= 1 => d[1] = SizeDigit(m, k)
       /\ Len(d) >= 2 => d[2] = "CR"
       /\ Len(d) >= 3 => d[3] = "LF"
  <2>1. /\ Len(d) >= 1 => 1 \in 1..Len(d)
        /\ Len(d) >= 2 => 2 \in 1..Len(d)
        /\ Len(d) >= 3 => 3 \in 1..Len(d)
    BY <1>3
  <2>2. QED
    BY <2>1, <1>3, <1>7
<1>11. e = IF Len(d) < 3 THEN 0 ELSE 2
  BY <1>4, <1>9, <1>10, FindSize DEF e
<1>12. CASE Len(d) < 3
  <2>1. e = 0
    BY <1>11, <1>12
  <2>2. UNCHANGED <<network, parser, why>> /\ pc' = "recv"
    BY <2>1 DEF ChunkSize, Goto, parser, header, d, e
  <2>3. QED
    BY <1>1, <2>2, NeedsMore
<1>13. CASE ~(Len(d) < 3)
  <2>1. e = 2 /\ 1 \in 1..Len(d) /\ Len(d) >= 1 /\ 3 <= Len(d)
    BY <1>3, <1>11, <1>13
  <2>2. digits = <<SizeDigit(m, k)>>
    <3> DEFINE u == SubSeq(d, 1, 1)
    <3>1. u \in Seq(Bytes) /\ Len(u) = 1 /\ u[1] = d[1]
      BY <1>4, <2>1
    <3> HIDE DEF u
    <3>2. u = <<u[1]>>
      BY <3>1
    <3>3. digits = u
      BY <2>1 DEF u
    <3>4. QED
      BY <1>10, <2>1, <3>1, <3>2, <3>3
  <2>3. ToSet(digits) \subseteq Digits
    <3> DEFINE x == SizeDigit(m, k)
    <3>1. digits = <<x>>
      BY <2>2
    <3> HIDE DEF digits, x
    <3>2. ToSet(digits) = {x}
      BY <3>1 DEF ToSet
    <3>3. x \in Digits
      BY <1>9 DEF x
    <3>4. QED
      BY <3>2, <3>3
  <2>4. hexStringToUint(digits) = DigitValue[SizeDigit(m, k)]
    BY <2>2, <1>9, HexDigit
  <2>5. e # 0
    BY <2>1
  <2>6. /\ expectedChunkSize' = hexStringToUint(digits)
        /\ responseData' = SubSeq(d, e + 2, Len(d))
        /\ pc' = IF expectedChunkSize' = 0 THEN "returned" ELSE "chunks"
        /\ UNCHANGED <<network, header, removeCrlfAfterChunk, body, why>>
    <3> HIDE DEF digits
    <3>1. /\ expectedChunkSize' = hexStringToUint(SubSeq(d, 1, e - 1))
          /\ responseData' = SubSeq(d, e + 2, Len(d))
          /\ IF expectedChunkSize' = 0 THEN Return ELSE Goto("chunks")
          /\ UNCHANGED <<network, header, removeCrlfAfterChunk, body>>
      BY <2>3, <2>5 DEF ChunkSize, d, e, digits
    <3>2. QED
      BY <3>1 DEF Return, Goto, digits
  <2> HIDE DEF digits
  <2>7. /\ RestOfWire' /\ Consumed' = p + 3 /\ responseData' \in Seq(Bytes)
    <3>1. /\ responseData' = SubSeq(responseData, 3 + 1, Len(responseData))
          /\ received' = received /\ message' = message /\ 3 \in Nat /\ 3 <= Len(responseData)
      BY <2>1, <2>6 DEF network, d
    <3>2. QED
      BY <1>2, <3>1, TakenOff DEF p
  <2>8. message' = m /\ body' = body /\ body' \in Seq(Bytes) /\ removeCrlfAfterChunk' = FALSE
    BY <1>1, <1>2, <2>6 DEF network, m, TypeOK
  <2>9. CASE k < N
    <3> DEFINE s == m.chunks[k + 1]
               l == Len(s)
    <3>1. k \in 0..(N - 1) /\ k \in 0..N /\ l \in 1..3 /\ expectedChunkSize' = l
      BY <1>8, <1>9, <2>4, <2>6, <2>9
    <3>2. pc' = "chunks" /\ l - l = 0 /\ l \in 1..l /\ l \in Nat
      BY <3>1, <2>6
    <3>3. First(m.chunks, k) \o SubSeq(s, 1, 0) = First(m.chunks, k)
      <4>1. First(m.chunks, k) \in Seq(Bytes)
        BY <1>8, FirstSteps DEF N
      <4>2. SubSeq(s, 1, 0) = <<>>
        BY SubSeqEmpty
      <4>3. QED
        BY <4>1, <4>2, ConcatEmptySeq
    <3>4. FrameAt(m, k) + 3 + (l - l) = p + 3
      BY <1>3, <1>6, <3>2
    <3> HIDE DEF l, s
    <3>5. /\ Len(message'.chunks[k + 1]) = l /\ message'.chunks[k + 1] = s
          /\ k \in 0..(Len(message'.chunks) - 1)
      BY <2>8, <3>1 DEF N, l, s
    <3>6. Consumed' = FrameAt(message', k) + 3 + (l - expectedChunkSize')
      BY <2>7, <2>8, <3>1, <3>4
    <3>7. body' = First(message'.chunks, k) \o SubSeq(s, 1, l - expectedChunkSize')
      BY <1>6, <2>8, <3>1, <3>2, <3>3
    <3>8. WithinChunk(k)'
      BY <2>8, <3>1, <3>2, <3>5, <3>6, <3>7 DEF WithinChunk
    <3>9. ChunkedBody'
      BY <3>5, <3>8 DEF ChunkedBody
    <3>10. expectedChunkSize' \in Nat /\ removeCrlfAfterChunk' \in BOOLEAN
      BY <2>8, <3>1, <3>2
    <3>11. QED
      BY <1>1, <2>6, <2>7, <2>8, <3>2, <3>9, <3>10, GoesOn
  <2>10. CASE ~(k < N)
    <3>1. k = N /\ expectedChunkSize' = 0 /\ pc' = "returned"
      BY <1>8, <1>9, <2>4, <2>6, <2>10
    <3>2. body' = Payload(m)
      BY <1>6, <1>8, <2>8, <3>1, FirstSteps DEF Payload, N
    <3>3. Payload(m) \in Seq(Bytes)
      BY <1>2, WireType
    <3>4. BodyIsPrefix'
      <4>1. IsPrefix(Payload(m), Payload(m))
        BY DEF IsPrefix
      <4>2. QED
        BY <2>8, <3>2, <4>1 DEF BodyIsPrefix
    <3>5. WholeWhenReturned'
      BY <2>8, <3>2 DEF WholeWhenReturned
    <3>6. TypeOK'
      <4>1. {disconnected', parsingBody', contentLengthReceived', chunkedResponse',
             removeCrlfAfterChunk'} \subseteq BOOLEAN
        BY <1>2, <2>6, <2>8 DEF TypeOK, network, header
      <4>2. expectedChunkSize' \in Nat
        BY <3>1
      <4>3. QED
        BY <1>2, <2>6, <2>7, <2>8, <3>1, <4>1, <4>2 DEF TypeOK, network, header
    <3>7. Control'
      BY <1>2, <2>6, <3>1 DEF Control, network, header
    <3>8. HeaderSoFar'
      BY <1>2, <2>6, <2>8, <3>1 DEF HeaderSoFar, network, header
    <3>9. ~Reading'
      BY <3>1 DEF Reading, Settled
    <3>10. QED
      BY <3>4, <3>5, <3>6, <3>7, <3>8, <3>9 DEF ReaderInv
  <2>11. QED
    BY <2>9, <2>10
<1>14. QED
  BY <1>12, <1>13

\* Every step keeps the invariant.
LEMMA ReaderSteps ==
    ASSUME ReaderInv, [Next]_vars PROVE ReaderInv'
<1>1. CASE Next
  BY <1>1, SocketSteps, ReceiveStep, NoFieldStep, ParseHeaderStep, CopyBodyStep, CopyChunkStep,
     DropCrlfStep, ChunkSizeStep DEF Next, ReaderStep, Parse
<1>2. CASE UNCHANGED vars
  <2>1. UNCHANGED <<pc, network, parser, why>>
    BY <1>2 DEF vars
  <2>2. TypeOK'
    BY <2>1 DEF ReaderInv, TypeOK, network, parser
  <2>3. Control' /\ HeaderSoFar'
    BY <2>1 DEF ReaderInv, Control, HeaderSoFar, network, parser
  <2>4. (Reading' => BodySoFar') /\ (Settled' => BodyIsPrefix') /\ WholeWhenReturned'
    <3>1. UNCHANGED <<message, received, parser>>
      BY <2>1 DEF network
    <3>2. Reading' => BodySoFar'
      BY <2>1, <3>1, BodySoFarStays DEF ReaderInv, Reading, Settled, parser
    <3>3. (Settled' => BodyIsPrefix') /\ WholeWhenReturned'
      BY <2>1 DEF ReaderInv, Settled, BodyIsPrefix, WholeWhenReturned, network, parser
    <3>4. QED
      BY <3>2, <3>3
  <2>5. QED
    BY <2>2, <2>3, <2>4 DEF ReaderInv
<1>3. QED
  BY <1>1, <1>2

-----------------------------------------------------------------------------
\* The invariant holds in every state.
LEMMA ReaderInvAlways == Spec => []ReaderInv
<1>1. Init => ReaderInv
  BY InitReader
<1>2. ReaderInv /\ [Next]_vars => ReaderInv'
  BY ReaderSteps
<1>3. QED
  BY <1>1, <1>2, PTL DEF Spec

\* The state of the reader has its types.
THEOREM ReaderTyped == Spec => []TypeOK
<1>1. ReaderInv => TypeOK
  BY DEF ReaderInv
<1>2. QED
  BY <1>1, ReaderInvAlways, PTL

\* However TCP cuts the response and wherever the connection breaks, response.body
\* holds the first bytes of what the peer meant, and all of them when send() comes
\* back with a status before the connection has ended.
THEOREM BodyAsSent == Spec => []BodyIsSent
<1>1. ReaderInv => BodyIsSent
  BY InvPrefix DEF ReaderInv, BodyIsSent
<1>2. QED
  BY <1>1, ReaderInvAlways, PTL

\* The chunk parser never refuses a well-formed response: neither "Invalid chunk"
\* nor an invalid digit, and an empty token only without any header field.
THEOREM WellFormedAccepted == Spec => []WellFormedNeverThrows
<1>1. ReaderInv => WellFormedNeverThrows
  BY DEF ReaderInv, Control, WellFormedNeverThrows
<1>2. QED
  BY <1>1, ReaderInvAlways, PTL
=============================================================================
