------------------------------ MODULE TextProofs ------------------------------
(***************************************************************************)
(* Proofs about the programs that take a text apart, for texts of any      *)
(* length: a URI is cut into its parts, a command line into its arguments, *)
(* and a file of settings into its sections, as their grammars say; and    *)
(* the types of what the formulas of dice, the files of settings and the   *)
(* requests become.                                                        *)
(***************************************************************************)
EXTENDS Programs, ResponseReaderProofs, SequenceTheorems

-----------------------------------------------------------------------------
(***************************************************************************)
(* The parts of a URI.  A text is cut at the first place of a mark (Cut);  *)
(* so the parts that parseUri cuts out, one after the other, make up the   *)
(* text again (PartsJoin).                                                 *)
(***************************************************************************)
\* FirstOf is the first place of a character, or the one behind the end.
LEMMA FirstPlace ==
    ASSUME NEW S, NEW text \in Seq(S), NEW c
    PROVE  /\ FirstOf(text, c) \in 1 .. Len(text) + 1
           /\ FirstOf(text, c) <= Len(text) => text[FirstOf(text, c)] = c
           /\ \A i \in 1 .. FirstOf(text, c) - 1 : text[i] # c
<1> DEFINE at == {i \in DOMAIN text : text[i] = c}
           n == Len(text)
<1>1. n \in Nat /\ DOMAIN text = 1 .. n
  BY LenProperties
<1> HIDE DEF n
<1>2. CASE at = {}
  <2>1. FirstOf(text, c) = n + 1
    BY <1>2 DEF FirstOf, n
  <2>2. \A i \in 1 .. n : text[i] # c
    BY <1>1, <1>2
  <2> QED
    BY <1>1, <2>1, <2>2 DEF n
<1>3. CASE at # {}
  <2>1. at \in SUBSET Nat
    BY <1>1
  <2>2. \E i \in at : \A j \in at : i <= j
    BY <1>3, <2>1, LeastExists, Zenon
  <2>3. FirstOf(text, c) = CHOOSE i \in at : \A j \in at : i <= j
    BY <1>3 DEF FirstOf
  <2> DEFINE f == FirstOf(text, c)
  <2>4. f \in at /\ \A j \in at : f <= j
    BY <2>2, <2>3, Zenon
  <2> HIDE DEF f
  <2>5. f \in 1 .. n /\ text[f] = c
    BY <1>1, <2>4
  <2>6. ASSUME NEW i \in 1 .. f - 1 PROVE text[i] # c
    <3>1. i \in 1 .. n /\ ~(f <= i)
      BY <1>1, <2>5
    <3> QED
      BY <1>1, <2>4, <3>1
  <2>7. f \in 1 .. n + 1
    BY <1>1, <2>5
  <2> QED
    BY <2>5, <2>6, <2>7 DEF f, n
<1> QED
  BY <1>2, <1>3

\* t is a text of S, in which only characters of s occur.
Within(t, s, S) == t \in Seq(S) /\ ToSet(t) \subseteq ToSet(s)

\* A stretch of a text.
LEMMA Stretch ==
    ASSUME NEW S, NEW s \in Seq(S), NEW a \in 1 .. Len(s) + 1, NEW b \in 0 .. Len(s)
    PROVE  /\ SubSeq(s, a, b) \in Seq(S)
           /\ Len(SubSeq(s, a, b)) = IF a <= b THEN b - a + 1 ELSE 0
           /\ \A i \in 1 .. b - a + 1 : SubSeq(s, a, b)[i] = s[a + i - 1] /\ a + i - 1 \in 1 .. Len(s)
           /\ Within(SubSeq(s, a, b), s, S)
<1> DEFINE n == Len(s)
           t == SubSeq(s, a, b)
<1>1. n \in Nat /\ DOMAIN s = 1 .. n /\ a \in 1 .. n + 1 /\ b \in 0 .. n
  BY LenProperties
<1>2. \A i \in a .. b : s[i] \in S
  <2>1. \A i \in a .. b : i \in 1 .. Len(s)
    <3> HIDE DEF n
    <3>1. \A i \in a .. b : i \in 1 .. n
      BY <1>1
    <3> QED
      BY <3>1 DEF n
  <2> QED
    BY <2>1, ElementOfSeq
<1> HIDE DEF n
<1>3. a \in Int /\ b \in Int
  BY <1>1
<1>4. /\ t \in Seq(S) /\ Len(t) = IF a <= b THEN b - a + 1 ELSE 0
      /\ \A i \in 1 .. b - a + 1 : t[i] = s[a + i - 1]
  BY <1>2, <1>3, SubSeqProperties
<1> HIDE DEF t
<1>5. \A i \in 1 .. b - a + 1 : a + i - 1 \in 1 .. n
  BY <1>1
<1>6. ASSUME NEW x \in ToSet(t) PROVE x \in ToSet(s)
  <2>1. PICK i \in 1 .. Len(t) : x = t[i]
    BY <1>4, LenProperties DEF ToSet
  <2>2. i \in 1 .. b - a + 1
    BY <1>1, <1>4
  <2>3. x = s[a + i - 1] /\ a + i - 1 \in DOMAIN s
    BY <1>1, <1>4, <1>5, <2>1, <2>2
  <2> QED
    BY <2>3 DEF ToSet
<1> QED
  BY <1>4, <1>5, <1>6 DEF t, n, Within

\* How a text is cut at the first c: before it no c, and what is behind it.
IsCut(text, c, before, behind) ==
    IF FirstOf(text, c) > Len(text) THEN before = text /\ behind = <<>>
    ELSE text = before \o <<c>> \o behind

\* Before and Behind cut it so, and both are texts of its characters.
LEMMA Cut ==
    ASSUME NEW S, NEW text \in Seq(S), NEW c
    PROVE  /\ Within(Before(text, c), text, S) /\ Within(Behind(text, c), text, S)
           /\ c \notin ToSet(Before(text, c))
           /\ IsCut(text, c, Before(text, c), Behind(text, c))
<1> DEFINE f == FirstOf(text, c)
           n == Len(text)
           b == Before(text, c)
           r == Behind(text, c)
<1>1. /\ f \in 1 .. n + 1 /\ (f <= n => text[f] = c) /\ \A i \in 1 .. f - 1 : text[i] # c
  BY FirstPlace
<1>2. n \in Nat /\ DOMAIN text = 1 .. n
  BY LenProperties
<1>3. /\ b = SubSeq(text, 1, f - 1) /\ r = SubSeq(text, f + 1, n)
  BY DEF Before, Behind
<1> HIDE DEF f, n, b, r
<1>4. /\ 1 \in 1 .. n + 1 /\ f - 1 \in 0 .. n /\ n \in 0 .. n /\ (f <= n => f + 1 \in 1 .. n + 1)
      /\ (IF 1 <= f - 1 THEN f - 1 - 1 + 1 ELSE 0) = f - 1 /\ f \in Int /\ n \in Int
  BY <1>1, <1>2
<1>5. /\ b \in Seq(S) /\ Len(b) = f - 1 /\ Within(b, text, S)
      /\ \A i \in 1 .. f - 1 : b[i] = text[i]
  <2>1. /\ b \in Seq(S) /\ Within(b, text, S)
        /\ Len(b) = IF 1 <= f - 1 THEN f - 1 - 1 + 1 ELSE 0
        /\ \A i \in 1 .. f - 1 - 1 + 1 : b[i] = text[1 + i - 1]
    BY <1>3, <1>4, Stretch DEF n
  <2>2. f - 1 - 1 + 1 = f - 1 /\ \A i \in 1 .. f - 1 : 1 + i - 1 = i
    BY <1>4
  <2> QED
    BY <1>4, <2>1, <2>2
<1>6. Within(r, text, S)
  <2>1. CASE f <= n
    BY <1>3, <1>4, <2>1, Stretch DEF n
  <2>2. CASE f > n
    <3>1. n < f + 1 /\ f + 1 \in Int
      BY <1>4, <2>2
    <3>2. r = <<>>
      BY <1>3, <1>4, <3>1, SubSeqEmpty
    <3> QED
      BY <3>2 DEF Within, ToSet
  <2> QED
    BY <1>4, <2>1, <2>2
<1>7. c \notin ToSet(b)
  <2>1. SUFFICES ASSUME NEW i \in DOMAIN b PROVE b[i] # c
    BY DEF ToSet
  <2>2. DOMAIN b = 1 .. f - 1
    BY <1>5, LenProperties
  <2> QED
    BY <1>1, <1>5, <2>2
<1>8. CASE f > n
  <2>1. f = n + 1 /\ f - 1 = n /\ n < f + 1 /\ f + 1 \in Int
    BY <1>1, <1>4, <1>8
  <2>2. b = text
    BY <1>3, <2>1, SubSeqFull DEF n
  <2>3. r = <<>>
    BY <1>3, <1>4, <2>1, SubSeqEmpty
  <2> QED
    BY <1>5, <1>6, <1>7, <1>8, <2>2, <2>3 DEF IsCut, f, n, b, r
<1>9. CASE f <= n
  <2>1. /\ f \in 1 .. n /\ 1 \in 1 .. Len(text) + 1 /\ f - 1 \in 1 - 1 .. Len(text)
        /\ n \in f - 1 .. Len(text) /\ f - 1 + 1 = f
    BY <1>1, <1>2, <1>9 DEF n
  <2>2. SubSeq(text, 1, f - 1) \o SubSeq(text, f, n) = SubSeq(text, 1, n)
    BY <2>1, ConcatAdjacentSubSeq
  <2>3. SubSeq(text, 1, n) = text
    BY SubSeqFull DEF n
  <2>4. /\ f \in 1 .. Len(text) /\ n \in f .. Len(text)
    BY <1>2, <1>9, <2>1 DEF n
  <2>5. SubSeq(text, f, n) = <<text[f]>> \o SubSeq(text, f + 1, n)
    BY <2>4, SubSeqRecursiveFirst
  <2>6. text = b \o (<<c>> \o r)
    BY <1>1, <1>3, <1>9, <2>2, <2>3, <2>5
  <2>7. c \in S
    BY <1>1, <1>9, <2>4, ElementOfSeq
  <2>8. <<c>> \in Seq(S) /\ r \in Seq(S)
    BY <1>6, <2>7 DEF Within
  <2>9. (b \o <<c>>) \o r = b \o (<<c>> \o r)
    BY <1>5, <2>8, ConcatAssociative
  <2>10. ~(f > n)
    BY <1>4, <1>9
  <2> QED
    BY <1>5, <1>6, <1>7, <2>6, <2>9, <2>10 DEF IsCut, f, n, b, r
<1> QED
  BY <1>4, <1>8, <1>9

\* A text is the part before a mark, and one of the ways to write the part behind it.
Joins(S, text, c, before, behind) ==
    \E q \in Part(c, behind) : q \in Seq(S) /\ text = before \o q

\* The first mark cuts a text so.
LEMMA CutJoins ==
    ASSUME NEW S, NEW text \in Seq(S), NEW c \in S
    PROVE  Joins(S, text, c, Before(text, c), Behind(text, c))
<1> DEFINE b == Before(text, c)
           r == Behind(text, c)
<1>1. b \in Seq(S) /\ r \in Seq(S) /\ IsCut(text, c, b, r)
  BY Cut DEF Within
<1> HIDE DEF b, r
<1>2. CASE FirstOf(text, c) > Len(text)
  <2>1. b = text /\ r = <<>>
    BY <1>1, <1>2 DEF IsCut
  <2>2. <<>> \in Part(c, r)
    BY <2>1 DEF Part
  <2>3. text = b \o <<>> /\ <<>> \in Seq(S)
    BY <2>1, ConcatEmptySeq, EmptySeq
  <2> QED
    BY <2>2, <2>3 DEF b, r, Joins
<1>3. CASE ~(FirstOf(text, c) > Len(text))
  <2>1. text = b \o <<c>> \o r
    BY <1>1, <1>3 DEF IsCut
  <2>2. <<c>> \in Seq(S)
    OBVIOUS
  <2>3. text = b \o (<<c>> \o r)
    BY <1>1, <2>1, <2>2, ConcatAssociative
  <2>4. <<c>> \o r \in Part(c, r) /\ <<c>> \o r \in Seq(S)
    <3>1. <<c>> \o r \in Part(c, r)
      BY DEF Part
    <3>2. <<c>> \o r \in Seq(S)
      BY <1>1, <2>2, ConcatProperties
    <3> QED
      BY <3>1, <3>2
  <2> QED
    BY <2>3, <2>4 DEF b, r, Joins
<1> QED
  BY <1>2, <1>3

\* A text that has a scheme is the scheme, its mark and the rest.
SchemeOf(text) == SubSeq(text, 1, SchemeEnd(text) - 1)
RestOf(text) == SubSeq(text, SchemeEnd(text) + 3, Len(text))
SchemeMark == <<":", "/", "/">>

\* Such a text is cut so.
LEMMA SchemeCut ==
    ASSUME NEW S, NEW text \in Seq(S), HasScheme(text)
    PROVE  /\ SchemeOf(text) \in Seq(S) /\ SchemeMark \in Seq(S) /\ RestOf(text) \in Seq(S)
           /\ text = SchemeOf(text) \o SchemeMark \o RestOf(text)
<1> DEFINE e == SchemeEnd(text)
           n == Len(text)
           out == {i \in DOMAIN text : text[i] \notin Alpha \cup DigitChar \cup {"+", "."}}
           tail == SubSeq(text, e, n)
<1>1. n \in Nat /\ DOMAIN text = 1 .. n
  BY LenProperties
<1>2. e \in 1 .. n + 1
  <2>1. CASE out = {}
    <3>1. e = n + 1
      BY <2>1 DEF SchemeEnd
    <3> HIDE DEF n, e
    <3> QED
      BY <1>1, <3>1
  <2>2. CASE out # {}
    <3>1. out \in SUBSET Nat
      BY <1>1
    <3>2. \E i \in out : \A j \in out : i <= j
      BY <2>2, <3>1, LeastExists, Zenon
    <3>3. e = CHOOSE i \in out : \A j \in out : i <= j
      BY <2>2 DEF SchemeEnd
    <3>4. e \in out
      BY <3>2, <3>3, Zenon
    <3>5. e \in 1 .. n
      BY <1>1, <3>4
    <3> HIDE DEF n, e
    <3> QED
      BY <1>1, <3>5
  <2> QED
    BY <2>1, <2>2
<1>3. Len(SchemeMark) <= Len(tail) /\ SubSeq(SchemeMark, 1, Len(SchemeMark)) = SubSeq(tail, 1, Len(SchemeMark))
  BY DEF HasScheme, IsPrefix, SchemeMark
<1>4. Len(SchemeMark) = 3
  BY DEF SchemeMark
<1> HIDE DEF e, n, out
<1>5. /\ e \in 1 .. Len(text) + 1 /\ n \in 0 .. Len(text)
      /\ e \in Int /\ n \in Int
  <2>1. n = Len(text)
    BY DEF n
  <2> QED
    BY <1>1, <1>2, <2>1
<1>6. /\ tail \in Seq(S) /\ Len(tail) = IF e <= n THEN n - e + 1 ELSE 0
      /\ \A i \in 1 .. n - e + 1 : tail[i] = text[e + i - 1]
  BY <1>5, Stretch
<1> HIDE DEF tail
<1>7. /\ e + 2 <= n /\ e + 2 \in Nat
  BY <1>2, <1>1, <1>3, <1>4, <1>6
<1>8. /\ text[e] = ":" /\ text[e + 1] = "/" /\ text[e + 2] = "/"
  <2>1. SubSeq(SchemeMark, 1, 3) = SchemeMark
    <3>1. SchemeMark \in Seq({":", "/"})
      BY DEF SchemeMark
    <3> QED
      BY <1>4, <3>1, SubSeqFull
  <2>2. SchemeMark = SubSeq(tail, 1, 3)
    BY <1>3, <1>4, <2>1
  <2>3. 1 \in 1 .. Len(tail) + 1 /\ 3 \in 0 .. Len(tail) /\ 3 - 1 + 1 = 3
    BY <1>3, <1>4, <1>6, LenProperties
  <2>4. \A i \in 1 .. 3 - 1 + 1 : SubSeq(tail, 1, 3)[i] = tail[1 + i - 1]
    BY <1>6, <2>3, Stretch
  <2>5. \A i \in 1 .. 3 : SchemeMark[i] = text[e + i - 1]
    <3> SUFFICES ASSUME NEW i \in 1 .. 3 PROVE SchemeMark[i] = text[e + i - 1]
      OBVIOUS
    <3>1. i \in 1 .. 3 - 1 + 1 /\ 1 + i - 1 = i /\ i \in 1 .. n - e + 1
      BY <1>1, <1>2, <1>7
    <3>2. SchemeMark[i] = tail[i]
      BY <2>2, <2>4, <3>1
    <3> QED
      BY <1>6, <3>1, <3>2
  <2>6. SchemeMark[1] = ":" /\ SchemeMark[2] = "/" /\ SchemeMark[3] = "/"
    BY DEF SchemeMark
  <2>7. e + 1 - 1 = e /\ e + 2 - 1 = e + 1 /\ e + 3 - 1 = e + 2
    BY <1>5
  <2>8. 1 \in 1 .. 3 /\ 2 \in 1 .. 3 /\ 3 \in 1 .. 3
    OBVIOUS
  <2> QED
    BY <2>5, <2>6, <2>7, <2>8
<1> DEFINE mid == SubSeq(text, e, e + 2)
           s == SchemeOf(text)
           r == RestOf(text)
<1>9. s = SubSeq(text, 1, e - 1) /\ r = SubSeq(text, e + 2 + 1, n)
  <2>1. e + 3 = e + 2 + 1
    BY <1>5
  <2> QED
    BY <2>1 DEF SchemeOf, RestOf, e, n
<1> HIDE DEF s, r
<1>10. /\ 1 \in 1 .. Len(text) + 1 /\ e - 1 \in 0 .. Len(text) /\ e + 2 \in 0 .. Len(text)
       /\ e + 2 + 1 \in 1 .. Len(text) + 1 /\ e <= e + 2 /\ e + 2 - e + 1 = 3
  <2>1. n = Len(text)
    BY DEF n
  <2> QED
    BY <1>1, <1>2, <1>7, <2>1
<1>11. s \in Seq(S) /\ r \in Seq(S)
  BY <1>5, <1>9, <1>10, Stretch
<1>12. /\ mid \in Seq(S) /\ Len(mid) = 3
       /\ \A i \in 1 .. 3 : mid[i] = text[e + i - 1]
  <2>1. /\ mid \in Seq(S) /\ Len(mid) = IF e <= e + 2 THEN e + 2 - e + 1 ELSE 0
        /\ \A i \in 1 .. e + 2 - e + 1 : mid[i] = text[e + i - 1]
    BY <1>5, <1>10, Stretch
  <2> HIDE DEF mid
  <2> QED
    BY <1>10, <2>1
<1>13. mid = SchemeMark
  <2>1. DOMAIN mid = 1 .. 3 /\ DOMAIN SchemeMark = 1 .. 3
    <3>1. DOMAIN mid = 1 .. 3
      BY <1>12, LenProperties
    <3>2. DOMAIN SchemeMark = 1 .. 3
      BY DEF SchemeMark
    <3> QED
      BY <3>1, <3>2
  <2> HIDE DEF mid
  <2>2. e + 1 - 1 = e /\ e + 2 - 1 = e + 1 /\ e + 3 - 1 = e + 2
    BY <1>5
  <2>3. mid[1] = ":" /\ mid[2] = "/" /\ mid[3] = "/"
    <3>1. 1 \in 1 .. 3 /\ 2 \in 1 .. 3 /\ 3 \in 1 .. 3
      OBVIOUS
    <3> QED
      BY <1>8, <1>12, <2>2, <3>1
  <2>4. SchemeMark[1] = ":" /\ SchemeMark[2] = "/" /\ SchemeMark[3] = "/"
    BY DEF SchemeMark
  <2>5. Len(SchemeMark) = Len(mid) /\ SchemeMark \in Seq({":", "/"})
    BY <1>4, <1>12 DEF SchemeMark
  <2>6. \A i \in 1 .. 3 : mid[i] = SchemeMark[i]
    <3> SUFFICES ASSUME NEW i \in 1 .. 3 PROVE mid[i] = SchemeMark[i]
      OBVIOUS
    <3>1. i = 1 \/ i = 2 \/ i = 3
      OBVIOUS
    <3> QED
      BY <2>3, <2>4, <3>1
  <2>7. mid \in Seq(S \cup {":", "/"}) /\ SchemeMark \in Seq(S \cup {":", "/"})
    BY <1>12, <2>5, SeqMonotonic
  <2> QED
    BY <1>4, <1>12, <2>6, <2>7, SeqEqual
<1>14. s \o mid = SubSeq(text, 1, e + 2)
  <2>1. e - 1 + 1 = e /\ e - 1 \in 1 - 1 .. Len(text) /\ e + 2 \in e - 1 .. Len(text)
    BY <1>5, <1>10
  <2>2. SubSeq(text, 1, e - 1) \o SubSeq(text, e - 1 + 1, e + 2) = SubSeq(text, 1, e + 2)
    BY <1>10, <2>1, ConcatAdjacentSubSeq
  <2> QED
    BY <1>9, <2>1, <2>2
<1>15. SubSeq(text, 1, e + 2) \o r = text
  <2>1. e + 2 \in 1 - 1 .. Len(text) /\ Len(text) \in e + 2 .. Len(text) /\ n = Len(text)
    BY <1>1, <1>7, <1>10 DEF n
  <2>2. SubSeq(text, 1, e + 2) \o SubSeq(text, e + 2 + 1, Len(text)) = SubSeq(text, 1, Len(text))
    BY <1>10, <2>1, ConcatAdjacentSubSeq
  <2> QED
    BY <1>9, <2>1, <2>2, SubSeqFull
<1> QED
  BY <1>11, <1>12, <1>13, <1>14, <1>15 DEF s, r

\* The parts of the text between the scheme and the fragment.
WholeOf(text) == Before(RestOf(text), "#")
ToQueryOf(text) == Before(WholeOf(text), "?")
AuthorityOf(text) == Before(ToQueryOf(text), "/")
UserInfoOf(a) == IF FirstOf(a, "@") > Len(a) THEN <<>> ELSE Before(a, "@")
HostPortOf(a) == IF FirstOf(a, "@") > Len(a) THEN a ELSE Behind(a, "@")
PathOf(q) == SubSeq(q, FirstOf(q, "/"), Len(q))

\* The record that parseUri builds of them.
LEMMA ParseUriFields ==
    ASSUME NEW text
    PROVE  LET u == parseUri(text)
               a == AuthorityOf(text)
               p == PathOf(ToQueryOf(text)) IN
           /\ DOMAIN u = {"scheme", "user", "password", "host", "port", "path", "query", "fragment"}
           /\ u.scheme = SchemeOf(text)
           /\ u.user = Before(UserInfoOf(a), ":") /\ u.password = Behind(UserInfoOf(a), ":")
           /\ u.host = Before(HostPortOf(a), ":") /\ u.port = Behind(HostPortOf(a), ":")
           /\ u.path = IF p = <<>> THEN <<"/">> ELSE p
           /\ u.query = Behind(WholeOf(text), "?") /\ u.fragment = Behind(RestOf(text), "#")
  BY DEF parseUri, SchemeOf, RestOf, WholeOf, ToQueryOf, AuthorityOf, UserInfoOf, HostPortOf, PathOf

\* How an authority is cut at its @ and at colons.
CutAuthority(a, user, password, host, port) ==
    /\ Within(user, a, TextChars) /\ Within(password, a, TextChars)
    /\ Within(host, a, TextChars) /\ Within(port, a, TextChars)
    /\ ":" \notin ToSet(user) /\ "@" \notin ToSet(user) /\ "@" \notin ToSet(password)
    /\ ":" \notin ToSet(host)
    /\ \E h \in Part(":", port) : h \in Seq(TextChars) /\
         \/ "@" \notin ToSet(host) /\ a = host \o h
         \/ \E pw \in Part(":", password) : pw \in Seq(TextChars) /\ a = user \o pw \o <<"@">> \o (host \o h)

\* parseUri cuts it so.
LEMMA AuthorityCut ==
    ASSUME NEW a \in Seq(TextChars)
    PROVE  CutAuthority(a, Before(UserInfoOf(a), ":"), Behind(UserInfoOf(a), ":"),
                        Before(HostPortOf(a), ":"), Behind(HostPortOf(a), ":"))
<1> DEFINE user == Before(UserInfoOf(a), ":")
           password == Behind(UserInfoOf(a), ":")
           host == Before(HostPortOf(a), ":")
           port == Behind(HostPortOf(a), ":")
<1>1. ":" \in TextChars /\ "@" \in TextChars
  BY DEF TextChars, FieldChars, VisibleChars
<1> DEFINE ui == UserInfoOf(a)
           hp == HostPortOf(a)
<1>2. Within(ui, a, TextChars) /\ Within(hp, a, TextChars) /\ "@" \notin ToSet(ui)
  <2>1. Within(<<>>, a, TextChars) /\ Within(a, a, TextChars) /\ "@" \notin ToSet(<<>>)
    BY DEF Within, ToSet
  <2>2. /\ Within(Before(a, "@"), a, TextChars) /\ Within(Behind(a, "@"), a, TextChars)
        /\ "@" \notin ToSet(Before(a, "@"))
    BY Cut
  <2> QED
    BY <2>1, <2>2 DEF UserInfoOf, HostPortOf
<1>3. user = Before(ui, ":") /\ password = Behind(ui, ":") /\ host = Before(hp, ":") /\ port = Behind(hp, ":")
  OBVIOUS
<1> HIDE DEF ui, hp, user, password, host, port
<1>4. ui \in Seq(TextChars) /\ hp \in Seq(TextChars)
  BY <1>2 DEF Within
<1>5. /\ Within(user, ui, TextChars) /\ Within(password, ui, TextChars) /\ ":" \notin ToSet(user)
      /\ Within(host, hp, TextChars) /\ Within(port, hp, TextChars) /\ ":" \notin ToSet(host)
  BY <1>3, <1>4, Cut
<1>6. /\ Within(user, a, TextChars) /\ Within(password, a, TextChars)
      /\ Within(host, a, TextChars) /\ Within(port, a, TextChars)
      /\ "@" \notin ToSet(user) /\ "@" \notin ToSet(password)
  BY <1>2, <1>5, Zenon DEF Within
<1>7. PICK h \in Part(":", port) : h \in Seq(TextChars) /\ hp = host \o h
  <2>1. Joins(TextChars, hp, ":", host, port)
    BY <1>1, <1>3, <1>4, CutJoins
  <2> QED
    BY <2>1, Zenon DEF Joins
<1>8. CASE FirstOf(a, "@") > Len(a)
  <2>1. hp = a
    BY <1>8 DEF hp, HostPortOf
  <2>2. "@" \notin ToSet(a)
    <3>1. IsCut(a, "@", Before(a, "@"), Behind(a, "@")) /\ "@" \notin ToSet(Before(a, "@"))
      BY Cut
    <3> QED
      BY <1>8, <3>1 DEF IsCut
  <2>3. "@" \notin ToSet(host)
    BY <1>6, <2>2, Zenon DEF Within
  <2> QED
    BY <1>5, <1>6, <1>7, <2>1, <2>3 DEF CutAuthority, user, password, host, port
<1>9. CASE ~(FirstOf(a, "@") > Len(a))
  <2>1. ui = Before(a, "@") /\ hp = Behind(a, "@")
    BY <1>9 DEF ui, hp, UserInfoOf, HostPortOf
  <2>2. IsCut(a, "@", Before(a, "@"), Behind(a, "@"))
    BY Cut
  <2>3. a = ui \o <<"@">> \o hp
    BY <1>9, <2>1, <2>2 DEF IsCut
  <2>4. PICK pw \in Part(":", password) : pw \in Seq(TextChars) /\ ui = user \o pw
    <3>1. Joins(TextChars, ui, ":", user, password)
      BY <1>1, <1>3, <1>4, CutJoins
    <3> QED
      BY <3>1, Zenon DEF Joins
  <2>5. a = user \o pw \o <<"@">> \o (host \o h)
    BY <1>7, <2>3, <2>4
  <2> QED
    BY <1>5, <1>6, <1>7, <2>4, <2>5 DEF CutAuthority, user, password, host, port
<1> QED
  BY <1>8, <1>9

\* The path begins with its first slash.
LEMMA PathCut ==
    ASSUME NEW S, NEW q \in Seq(S)
    PROVE  /\ Within(PathOf(q), q, S)
           /\ q = Before(q, "/") \o PathOf(q)
           /\ PathOf(q) # <<>> => PathOf(q)[1] = "/"
<1> DEFINE f == FirstOf(q, "/")
           n == Len(q)
           p == PathOf(q)
<1>1. f \in 1 .. n + 1 /\ (f <= n => q[f] = "/")
  BY FirstPlace
<1>2. n \in Nat
  BY LenProperties
<1>3. p = SubSeq(q, f, n) /\ Before(q, "/") = SubSeq(q, 1, f - 1)
  BY DEF PathOf, Before
<1>4. n = Len(q)
  OBVIOUS
<1> HIDE DEF f, n, p
<1>5. /\ f \in 1 .. Len(q) + 1 /\ n \in 0 .. Len(q) /\ 1 \in 1 .. Len(q) + 1 /\ f - 1 \in 1 - 1 .. Len(q)
      /\ n \in f - 1 .. Len(q) /\ f - 1 + 1 = f
  BY <1>1, <1>2, <1>4
<1>6. /\ Within(p, q, S) /\ Len(p) = IF f <= n THEN n - f + 1 ELSE 0
      /\ \A i \in 1 .. n - f + 1 : p[i] = q[f + i - 1]
  BY <1>3, <1>5, Stretch
<1>7. q = Before(q, "/") \o p
  <2>1. SubSeq(q, 1, f - 1) \o SubSeq(q, f, n) = SubSeq(q, 1, n)
    BY <1>5, ConcatAdjacentSubSeq
  <2> QED
    BY <1>3, <1>4, <2>1, SubSeqFull
<1>8. ASSUME p # <<>> PROVE p[1] = "/"
  <2>1. Len(p) # 0
    BY <1>6, <1>8, EmptySeq DEF Within
  <2>2. f <= n /\ 1 \in 1 .. n - f + 1 /\ f + 1 - 1 = f
    BY <1>1, <1>2, <1>6, <2>1
  <2> QED
    BY <1>1, <1>6, <2>2
<1> QED
  BY <1>6, <1>7, <1>8 DEF p

\* Concatenation, as an operator whose definition the provers need not see.
Cat(s, t) == s \o t

\* It is associative.
LEMMA CatFacts ==
    ASSUME NEW S
    PROVE  \A s, t, u \in Seq(S) : Cat(s, t) \in Seq(S) /\ Cat(Cat(s, t), u) = Cat(s, Cat(t, u))
  BY ConcatAssociative, ConcatProperties DEF Cat

\* The parts of a URI, x the scheme and its mark, in a row and as they are found.
Row(x, u, h, o, p, q, f) == x \o u \o h \o o \o p \o q \o f
Nested(x, u, h, o, p, q, f) == x \o ((((u \o (h \o o)) \o p) \o q) \o f)
\* All of them are texts.
AllTexts(S, x, u, h, o, p, q, f) ==
    /\ x \in Seq(S) /\ u \in Seq(S) /\ h \in Seq(S) /\ o \in Seq(S)
    /\ p \in Seq(S) /\ q \in Seq(S) /\ f \in Seq(S)

\* It is the same text.
LEMMA Reassociated ==
    ASSUME NEW S, NEW x, NEW u, NEW h, NEW o, NEW p, NEW q, NEW f,
           AllTexts(S, x, u, h, o, p, q, f)
    PROVE  Nested(x, u, h, o, p, q, f) = Row(x, u, h, o, p, q, f)
<1> DEFINE ho == Cat(h, o)
           a == Cat(u, ho)
           ap == Cat(a, p)
           apq == Cat(ap, q)
<1>0. /\ x \in Seq(S) /\ u \in Seq(S) /\ h \in Seq(S) /\ o \in Seq(S)
      /\ p \in Seq(S) /\ q \in Seq(S) /\ f \in Seq(S)
  BY DEF AllTexts
<1>1. ho \in Seq(S) /\ Cat(x, u) \in Seq(S)
  BY <1>0, CatFacts
<1>2. a \in Seq(S)
  BY <1>0, <1>1, CatFacts
<1>3. Cat(Cat(Cat(x, u), h), o) = Cat(x, a)
  <2>1. Cat(Cat(Cat(x, u), h), o) = Cat(Cat(x, u), ho)
    BY <1>0, <1>1, CatFacts
  <2>2. Cat(Cat(x, u), ho) = Cat(x, Cat(u, ho))
    BY <1>0, <1>1, CatFacts
  <2> QED
    BY <2>1, <2>2
<1> HIDE DEF a
<1>4. ap \in Seq(S)
  BY <1>0, <1>2, CatFacts
<1>5. apq \in Seq(S)
  BY <1>0, <1>4, CatFacts
<1>6. Cat(x, Cat(apq, f)) = Cat(Cat(Cat(Cat(x, a), p), q), f)
  <2>1. Cat(Cat(x, a), p) = Cat(x, Cat(a, p))
    BY <1>0, <1>2, CatFacts
  <2>2. Cat(Cat(x, ap), q) = Cat(x, Cat(ap, q))
    BY <1>0, <1>4, CatFacts
  <2>3. Cat(Cat(x, apq), f) = Cat(x, Cat(apq, f))
    BY <1>0, <1>5, CatFacts
  <2> QED
    BY <2>1, <2>2, <2>3
<1> QED
  BY <1>3, <1>6 DEF a, Cat, Row, Nested

\* The ways to write the user of a URI.
UserWays(uri) ==
    {none \in {<<>>} : "@" \notin ToSet(uri.host)} \cup
    {uri.user \o password \o <<"@">> : password \in Part(":", uri.password)}

\* The parts that parseUri finds make up the text.
LEMMA PartsJoin ==
    ASSUME NEW text \in Seq(TextChars), HasScheme(text)
    PROVE  LET u == parseUri(text) IN
           /\ \A part \in DOMAIN u : u[part] \in Seq(TextChars)
           /\ text \in Joined(u)
           /\ Without(u.user, {":", "@", "/", "?", "#"}) /\ Without(u.password, {"@", "/", "?", "#"})
           /\ Without(u.host, {":", "/", "?", "#"}) /\ Without(u.port, {"/", "?", "#"})
           /\ Without(u.path, {"?", "#"}) /\ u.path[1] = "/" /\ Without(u.query, {"#"})
<1> DEFINE T == TextChars
           rest == RestOf(text)
           whole == WholeOf(text)
           tq == ToQueryOf(text)
           a == AuthorityOf(text)
           pa == PathOf(tq)
           uri == parseUri(text)
<1>1. {":", "/", "?", "#", "@"} \subseteq T
  BY DEF TextChars, FieldChars, VisibleChars, TokenChars
<1>2. /\ SchemeOf(text) \in Seq(T) /\ SchemeMark \in Seq(T) /\ rest \in Seq(T)
      /\ text = SchemeOf(text) \o SchemeMark \o rest
  BY SchemeCut
<1>3. whole = Before(rest, "#") /\ tq = Before(whole, "?") /\ a = Before(tq, "/")
  BY DEF WholeOf, ToQueryOf, AuthorityOf
<1>4. /\ DOMAIN uri = {"scheme", "user", "password", "host", "port", "path", "query", "fragment"}
      /\ uri.scheme = SchemeOf(text)
      /\ uri.user = Before(UserInfoOf(a), ":") /\ uri.password = Behind(UserInfoOf(a), ":")
      /\ uri.host = Before(HostPortOf(a), ":") /\ uri.port = Behind(HostPortOf(a), ":")
      /\ uri.path = (IF pa = <<>> THEN <<"/">> ELSE pa)
      /\ uri.query = Behind(whole, "?") /\ uri.fragment = Behind(rest, "#")
  BY ParseUriFields
<1> HIDE DEF T, rest, whole, tq, a, pa, uri
<1>5. whole \in Seq(T) /\ uri.fragment \in Seq(T) /\ "#" \notin ToSet(whole)
  BY <1>2, <1>3, <1>4, Cut DEF Within
<1>6. /\ tq \in Seq(T) /\ Within(tq, whole, T) /\ Within(uri.query, whole, T) /\ "?" \notin ToSet(tq)
  BY <1>3, <1>4, <1>5, Cut DEF Within
<1>7. a \in Seq(T) /\ Within(a, tq, T) /\ "/" \notin ToSet(a)
  BY <1>3, <1>6, Cut DEF Within
<1>8. /\ Within(pa, tq, T) /\ tq = a \o pa /\ (pa # <<>> => pa[1] = "/")
  BY <1>3, <1>6, PathCut DEF pa
<1>9. CutAuthority(a, uri.user, uri.password, uri.host, uri.port)
  <2>1. a \in Seq(TextChars)
    BY <1>7 DEF T
  <2>2. CutAuthority(a, Before(UserInfoOf(a), ":"), Behind(UserInfoOf(a), ":"),
                     Before(HostPortOf(a), ":"), Behind(HostPortOf(a), ":"))
    BY <2>1, AuthorityCut, Zenon
  <2> QED
    BY <1>4, <2>2, Zenon
<1>10. uri.path \in Seq(T) /\ uri.path[1] = "/" /\ Without(uri.path, {"?", "#"})
  <2>1. CASE pa = <<>>
    <3>1. uri.path = <<"/">>
      BY <1>4, <2>1
    <3>2. ToSet(<<"/">>) = {"/"}
      BY DEF ToSet
    <3> QED
      BY <1>1, <3>1, <3>2 DEF Without
  <2>2. CASE pa # <<>>
    <3>1. uri.path = pa
      BY <1>4, <2>2
    <3>2. "?" \notin ToSet(pa) /\ "#" \notin ToSet(pa)
      BY <1>5, <1>6, <1>8, Zenon DEF Within
    <3> QED
      BY <1>8, <2>2, <3>1, <3>2 DEF Without, Within
  <2> QED
    BY <2>1, <2>2
<1>11. \A part \in DOMAIN uri : uri[part] \in Seq(T)
  <2>1. /\ uri.scheme \in Seq(T) /\ uri.user \in Seq(T) /\ uri.password \in Seq(T)
        /\ uri.host \in Seq(T) /\ uri.port \in Seq(T) /\ uri.path \in Seq(T)
        /\ uri.query \in Seq(T) /\ uri.fragment \in Seq(T)
    BY <1>2, <1>4, <1>5, <1>6, <1>9, <1>10, Zenon DEF Within, CutAuthority, T
  <2> QED
    BY <1>4, <2>1
<1>12. /\ Without(uri.user, {":", "@", "/", "?", "#"}) /\ Without(uri.password, {"@", "/", "?", "#"})
       /\ Without(uri.host, {":", "/", "?", "#"}) /\ Without(uri.port, {"/", "?", "#"})
       /\ Without(uri.query, {"#"})
  <2>1. /\ "/" \notin ToSet(a) /\ "?" \notin ToSet(a) /\ "#" \notin ToSet(a)
    BY <1>5, <1>6, <1>7, Zenon DEF Within
  <2>2. /\ ToSet(uri.user) \subseteq ToSet(a) /\ ToSet(uri.password) \subseteq ToSet(a)
        /\ ToSet(uri.host) \subseteq ToSet(a) /\ ToSet(uri.port) \subseteq ToSet(a)
        /\ ToSet(uri.query) \subseteq ToSet(whole)
    BY <1>6, <1>9, Zenon DEF Within, CutAuthority
  <2>3. Without(uri.user, {":", "@", "/", "?", "#"})
    BY <1>9, <2>1, <2>2 DEF Without, CutAuthority
  <2>4. Without(uri.password, {"@", "/", "?", "#"})
    BY <1>9, <2>1, <2>2 DEF Without, CutAuthority
  <2>5. Without(uri.host, {":", "/", "?", "#"})
    BY <1>9, <2>1, <2>2 DEF Without, CutAuthority
  <2>6. Without(uri.port, {"/", "?", "#"}) /\ Without(uri.query, {"#"})
    BY <1>5, <2>1, <2>2 DEF Without
  <2> QED
    BY <2>3, <2>4, <2>5, <2>6
<1>13. text \in Joined(uri)
  <2>1. PICK f \in Part("#", uri.fragment) : f \in Seq(T) /\ rest = whole \o f
    <3>1. Joins(T, rest, "#", whole, uri.fragment)
      BY <1>1, <1>2, <1>3, <1>4, CutJoins
    <3> QED
      BY <3>1, Zenon DEF Joins
  <2>2. PICK q \in Part("?", uri.query) : q \in Seq(T) /\ whole = tq \o q
    <3>1. Joins(T, whole, "?", tq, uri.query)
      BY <1>1, <1>3, <1>4, <1>5, CutJoins
    <3> QED
      BY <3>1, Zenon DEF Joins
  <2>3. PICK h \in Part(":", uri.port) : h \in Seq(T) /\
           \/ "@" \notin ToSet(uri.host) /\ a = uri.host \o h
           \/ \E pw \in Part(":", uri.password) :
                 pw \in Seq(T) /\ a = uri.user \o pw \o <<"@">> \o (uri.host \o h)
    BY <1>9, Zenon DEF CutAuthority, T
  <2>4. \E user \in UserWays(uri) : user \in Seq(T) /\ a = user \o (uri.host \o h)
    <3>1. CASE "@" \notin ToSet(uri.host) /\ a = uri.host \o h
      <4>1. <<>> \in UserWays(uri)
        BY <3>1 DEF UserWays
      <4>2. <<>> \in Seq(T) /\ <<>> \o (uri.host \o h) = uri.host \o h
        BY <1>7, <3>1, ConcatEmptySeq, EmptySeq
      <4> QED
        BY <3>1, <4>1, <4>2
    <3>2. CASE \E pw \in Part(":", uri.password) :
                 pw \in Seq(T) /\ a = uri.user \o pw \o <<"@">> \o (uri.host \o h)
      <4>1. PICK pw \in Part(":", uri.password) :
                 pw \in Seq(T) /\ a = uri.user \o pw \o <<"@">> \o (uri.host \o h)
        BY <3>2, Zenon
      <4>2. uri.user \o pw \o <<"@">> \in UserWays(uri)
        BY DEF UserWays
      <4>3. uri.user \o pw \o <<"@">> \in Seq(T)
        <5>1. <<"@">> \in Seq(T) /\ uri.user \in Seq(T)
          BY <1>1, <1>9 DEF Within, CutAuthority, T
        <5>2. uri.user \o pw \in Seq(T)
          BY <4>1, <5>1, ConcatProperties
        <5> QED
          BY <5>1, <5>2, ConcatProperties
      <4> QED
        BY <4>1, <4>2, <4>3, Zenon
    <3> QED
      BY <2>3, <3>1, <3>2, Zenon
  <2>5. PICK user \in UserWays(uri) : user \in Seq(T) /\ a = user \o (uri.host \o h)
    BY <2>4, Zenon
  <2> DEFINE x == uri.scheme \o SchemeMark
             paths == {uri.path} \cup IF uri.path = <<"/">> THEN {<<>>} ELSE {}
  <2>6. pa \in paths
    BY <1>4
  <2>7. text = Nested(x, user, uri.host, h, pa, q, f)
    BY <1>2, <1>4, <1>8, <2>1, <2>2, <2>5 DEF Nested
  <2>8. x \in Seq(T)
    BY <1>2, <1>4, ConcatProperties
  <2> HIDE DEF x
  <2>9. uri.host \in Seq(T) /\ pa \in Seq(T)
    BY <1>8, <1>9 DEF Within, CutAuthority, T
  <2>10. text = Row(x, user, uri.host, h, pa, q, f)
    <3>1. /\ user \in Seq(T) /\ h \in Seq(T) /\ q \in Seq(T) /\ f \in Seq(T)
      BY <2>1, <2>2, <2>3, <2>5, Zenon
    <3>2. AllTexts(T, x, user, uri.host, h, pa, q, f)
      BY <2>8, <2>9, <3>1, Zenon DEF AllTexts
    <3>3. Nested(x, user, uri.host, h, pa, q, f) = Row(x, user, uri.host, h, pa, q, f)
      BY <3>2, Reassociated
    <3> QED
      BY <2>7, <3>3
  <2> HIDE DEF paths
  <2>11. Joined(uri) = {Row(x, us, uri.host, port, path, query, fragment) :
            us \in UserWays(uri), port \in Part(":", uri.port), path \in paths,
            query \in Part("?", uri.query), fragment \in Part("#", uri.fragment)}
    BY DEF Joined, UserWays, Row, paths, x, SchemeMark
  <2>12. \E us \in UserWays(uri), port \in Part(":", uri.port), path \in paths,
            query \in Part("?", uri.query), fragment \in Part("#", uri.fragment) :
            text = Row(x, us, uri.host, port, path, query, fragment)
    BY <2>1, <2>2, <2>3, <2>5, <2>6, <2>10, Zenon
  <2> QED
    BY <2>11, <2>12
<1> QED
  BY <1>10, <1>11, <1>12, <1>13 DEF uri, T

\* What is typed is a text, and what is parsed is the URI of that text.
UriInv ==
    /\ rt_pc \in {"typing", "parsed"} => rt_text \in Seq(TextChars)
    /\ rt_pc = "parsed" => HasScheme(rt_text) /\ rt_uri = parseUri(rt_text)

\* Nothing is typed or parsed yet.
LEMMA InitUriInv == TextInit => UriInv
  BY TextAssumption DEF TextInit, UriInv

\* Typing appends a character of texts, and parsing is of the text.
LEMMA StepUriInv == UriInv /\ [TextNext]_textVars => UriInv'
<1> SUFFICES ASSUME UriInv, [TextNext]_textVars PROVE UriInv'
  OBVIOUS
<1>1. CASE TypeUri
  <2>1. PICK c \in UriTail : rt_text' = Append(rt_text, c)
    BY <1>1 DEF TypeUri
  <2>2. rt_text \in Seq(TextChars) /\ c \in TextChars /\ rt_pc' = "typing"
    BY <1>1 DEF TypeUri, UriInv, UriTail, TextChars, FieldChars, WhiteSpace, VisibleChars, TokenChars, Alpha
  <2> QED
    BY <2>1, <2>2, AppendProperties DEF UriInv
<1>2. CASE ParseUri
  BY <1>2 DEF ParseUri, UriInv
<1>3. CASE EncodeRequest
  BY <1>3 DEF EncodeRequest, UriInv
<1>4. CASE ParseStatusLine
  BY <1>4 DEF ParseStatusLine, UriInv
<1>5. CASE ParseHeaderField
  BY <1>5 DEF ParseHeaderField, UriInv
<1>6. CASE UNCHANGED textVars
  BY <1>6 DEF UriInv, textVars
<1> QED
  BY <1>1, <1>2, <1>3, <1>4, <1>5, <1>6 DEF TextNext

\* A text with a scheme is cut where RFC 3986 cuts it, whatever the text: the parts
\* that parseUri finds make up the text again, and no part holds a mark that would
\* have ended it.
THEOREM UriIsCut == TextSpec => []UriIsItsParts
<1>1. UriInv => UriIsItsParts
  <2> SUFFICES ASSUME UriInv, rt_pc = "parsed" PROVE UriIsItsParts
    BY DEF UriIsItsParts
  <2>1. rt_text \in Seq(TextChars) /\ HasScheme(rt_text) /\ rt_uri = parseUri(rt_text)
    BY DEF UriInv
  <2> QED
    BY <2>1, PartsJoin DEF UriIsItsParts
<1> QED
  BY <1>1, InitUriInv, StepUriInv, PTL DEF TextSpec

-----------------------------------------------------------------------------
(***************************************************************************)
(* The splitter of command lines: its stack holds the states to return to. *)
(***************************************************************************)
\* The tables at the states and transitions the proofs need.
LEMMA ArgvKeys ==
    /\ _buildargv_trans_keys[2] = 1 /\ _buildargv_trans_keys[3] = 0
    /\ _buildargv_trans_keys[4] = 2 /\ _buildargv_trans_keys[5] = 4
    /\ _buildargv_trans_keys[6] = 2 /\ _buildargv_trans_keys[7] = 4
    /\ _buildargv_trans_keys[8] = 3 /\ _buildargv_trans_keys[9] = 4
    /\ _buildargv_trans_keys[10] = 3 /\ _buildargv_trans_keys[11] = 4
    /\ _buildargv_trans_keys[12] = 0 /\ _buildargv_trans_keys[13] = 4
    /\ _buildargv_trans_keys[14] = 0 /\ _buildargv_trans_keys[15] = 4
    /\ _buildargv_trans_keys[16] = 0 /\ _buildargv_trans_keys[17] = 4
BY DEF _buildargv_trans_keys, CArray

\* Where the transitions of each state begin.
LEMMA ArgvOffsets ==
    /\ _buildargv_index_offsets[1] = 0 /\ _buildargv_index_offsets[2] = 0
    /\ _buildargv_index_offsets[3] = 3 /\ _buildargv_index_offsets[4] = 6
    /\ _buildargv_index_offsets[5] = 8 /\ _buildargv_index_offsets[6] = 10
    /\ _buildargv_index_offsets[7] = 15 /\ _buildargv_index_offsets[8] = 20
BY DEF _buildargv_index_offsets, CArray

\* The transition of a state for the characters outside its range.
LEMMA ArgvDefaults ==
    /\ _buildargv_index_defaults[1] = 0 /\ _buildargv_index_defaults[2] = 1
    /\ _buildargv_index_defaults[3] = 1 /\ _buildargv_index_defaults[4] = 5
    /\ _buildargv_index_defaults[5] = 5
BY DEF _buildargv_index_defaults, CArray

\* The transitions of the characters inside it.
LEMMA ArgvIndicies ==
    /\ _buildargv_indicies[0] = 2 /\ _buildargv_indicies[1] = 1 /\ _buildargv_indicies[2] = 3
    /\ _buildargv_indicies[3] = 4 /\ _buildargv_indicies[4] = 1 /\ _buildargv_indicies[5] = 3
    /\ _buildargv_indicies[6] = 2 /\ _buildargv_indicies[7] = 6
    /\ _buildargv_indicies[8] = 7 /\ _buildargv_indicies[9] = 6
    /\ _buildargv_indicies[10] = 9 /\ _buildargv_indicies[11] = 8 /\ _buildargv_indicies[12] = 10
    /\ _buildargv_indicies[13] = 11 /\ _buildargv_indicies[14] = 12
    /\ _buildargv_indicies[15] = 14 /\ _buildargv_indicies[16] = 13 /\ _buildargv_indicies[17] = 15
    /\ _buildargv_indicies[18] = 16 /\ _buildargv_indicies[19] = 17
    /\ _buildargv_indicies[20] = 14 /\ _buildargv_indicies[21] = 18 /\ _buildargv_indicies[22] = 15
    /\ _buildargv_indicies[23] = 16 /\ _buildargv_indicies[24] = 19
BY DEF _buildargv_indicies, CArray

\* The lists of actions.
LEMMA ArgvActions ==
    /\ _buildargv_actions[0] = <<>> /\ _buildargv_actions[5] = <<2>> /\ _buildargv_actions[7] = <<3>>
    /\ _buildargv_actions[9] = <<4>> /\ _buildargv_actions[11] = <<5>>
    /\ _buildargv_actions[13] = <<6>> /\ _buildargv_actions[15] = <<7>>
    /\ _buildargv_actions[17] = <<8>> /\ _buildargv_actions[19] = <<11>>
    /\ _buildargv_actions[21] = <<2, 9>> /\ _buildargv_actions[24] = <<2, 10>>
    /\ _buildargv_actions[27] = <<2, 11>> /\ _buildargv_actions[30] = <<3, 2>>
    /\ _buildargv_actions[33] = <<3, 2, 9>> /\ _buildargv_actions[37] = <<3, 2, 10>>
    /\ _buildargv_actions[41] = <<3, 2, 11>>
BY DEF _buildargv_actions

\* The states that the transitions lead to.
LEMMA ArgvTargets ==
    /\ _buildargv_cond_targs[0] = 9 /\ _buildargv_cond_targs[1] = 3 /\ _buildargv_cond_targs[2] = 0
    /\ _buildargv_cond_targs[3] = 3 /\ _buildargv_cond_targs[4] = 10 /\ _buildargv_cond_targs[5] = 5
    /\ _buildargv_cond_targs[6] = 5 /\ _buildargv_cond_targs[7] = 11 /\ _buildargv_cond_targs[8] = 7
    /\ _buildargv_cond_targs[9] = 6 /\ _buildargv_cond_targs[10] = 8 /\ _buildargv_cond_targs[11] = 8
    /\ _buildargv_cond_targs[12] = 7 /\ _buildargv_cond_targs[13] = 7 /\ _buildargv_cond_targs[14] = 6
    /\ _buildargv_cond_targs[15] = 8 /\ _buildargv_cond_targs[16] = 8 /\ _buildargv_cond_targs[17] = 7
    /\ _buildargv_cond_targs[18] = 7 /\ _buildargv_cond_targs[19] = 7
BY DEF _buildargv_cond_targs, CArray

\* The lists of actions that the transitions run.
LEMMA ArgvLists ==
    /\ _buildargv_cond_actions[0] = 9 /\ _buildargv_cond_actions[1] = 0 /\ _buildargv_cond_actions[2] = 0
    /\ _buildargv_cond_actions[3] = 11 /\ _buildargv_cond_actions[4] = 13 /\ _buildargv_cond_actions[5] = 0
    /\ _buildargv_cond_actions[6] = 15 /\ _buildargv_cond_actions[7] = 17 /\ _buildargv_cond_actions[8] = 5
    /\ _buildargv_cond_actions[9] = 0 /\ _buildargv_cond_actions[10] = 24 /\ _buildargv_cond_actions[11] = 21
    /\ _buildargv_cond_actions[12] = 27 /\ _buildargv_cond_actions[13] = 0 /\ _buildargv_cond_actions[14] = 7
    /\ _buildargv_cond_actions[15] = 37 /\ _buildargv_cond_actions[16] = 33 /\ _buildargv_cond_actions[17] = 19
    /\ _buildargv_cond_actions[18] = 30 /\ _buildargv_cond_actions[19] = 41
BY DEF _buildargv_cond_actions, CArray

\* What a character does in a state, and where it leads.
Acts(cs, char) == _buildargv_actions[_buildargv_cond_actions[Trans(cs, char)]]
Targ(cs, char) == _buildargv_cond_targs[Trans(cs, char)]

\* The characters that quote, and those that end a plain argument.
Quotes == {DQuote, SQuote}
Stops == {Blank, DQuote, SQuote}

\* The state of the automaton between two quotes q.
Inner(q) == IF q = DQuote THEN 3 ELSE 5

\* The classes of characters.
LEMMA Classes ==
    /\ LineChars = {Blank, Plain, DQuote, SQuote, Backslash}
    /\ Quotes = {DQuote, SQuote} /\ Stops = {Blank, DQuote, SQuote} /\ DQuote # SQuote
    /\ Blank \notin Quotes /\ Plain \notin Stops /\ Backslash \notin Stops
    /\ Plain # Backslash /\ Plain # Blank
    /\ Inner(DQuote) = 3 /\ Inner(SQuote) = 5
<1>1. Blank = 0 /\ Plain = 1 /\ DQuote = 2 /\ SQuote = 3 /\ Backslash = 4
  BY DEF Blank, Plain, DQuote, SQuote, Backslash
<1>2. LineChars = 0 .. 4
  BY <1>1 DEF LineChars
<1>3. 0 .. 4 = {0, 1, 2, 3, 4}
  OBVIOUS
<1> QED
  BY <1>1, <1>2, <1>3 DEF Quotes, Stops, Inner

\* What each character does in each state, read from the tables.
LEMMA ArgvTable ==
    ASSUME NEW cs \in 1 .. 8, NEW char \in LineChars
    PROVE  /\ cs = 1 => Acts(cs, char) = <<4>>
           /\ cs \in {2, 3} /\ char = Backslash => Acts(cs, char) = <<5>> /\ Targ(cs, char) = 3
           /\ cs \in {4, 5} /\ char = Backslash => Acts(cs, char) = <<7>> /\ Targ(cs, char) = 5
           /\ cs = 2 /\ char = DQuote => Acts(cs, char) = <<>> /\ Targ(cs, char) = 0
           /\ cs = 4 /\ char = SQuote => Acts(cs, char) = <<>> /\ Targ(cs, char) = 0
           /\ cs = 3 /\ char = DQuote => Acts(cs, char) = <<6>>
           /\ cs = 5 /\ char = SQuote => Acts(cs, char) = <<8>>
           /\ cs \in {2, 3} /\ char \notin {DQuote, Backslash} =>
                 Acts(cs, char) = <<>> /\ Targ(cs, char) = 3
           /\ cs \in {4, 5} /\ char \notin {SQuote, Backslash} =>
                 Acts(cs, char) = <<>> /\ Targ(cs, char) = 5
           /\ cs = 6 /\ char = Blank => Acts(cs, char) = <<>> /\ Targ(cs, char) = 6
           /\ cs \in {7, 8} /\ char = Blank => Acts(cs, char) = <<3>> /\ Targ(cs, char) = 6
           /\ cs = 6 /\ char = Plain => Acts(cs, char) = <<2>> /\ Targ(cs, char) = 7
           /\ cs = 7 /\ char = Plain => Acts(cs, char) = <<>> /\ Targ(cs, char) = 7
           /\ cs = 8 /\ char = Plain => Acts(cs, char) = <<3, 2>> /\ Targ(cs, char) = 7
           /\ cs = 6 /\ char = DQuote => Acts(cs, char) = <<2, 10>> /\ Targ(cs, char) = 8
           /\ cs \in {7, 8} /\ char = DQuote => Acts(cs, char) = <<3, 2, 10>> /\ Targ(cs, char) = 8
           /\ cs = 6 /\ char = SQuote => Acts(cs, char) = <<2, 9>> /\ Targ(cs, char) = 8
           /\ cs \in {7, 8} /\ char = SQuote => Acts(cs, char) = <<3, 2, 9>> /\ Targ(cs, char) = 8
           /\ cs = 6 /\ char = Backslash => Acts(cs, char) = <<2, 11>> /\ Targ(cs, char) = 7
           /\ cs = 7 /\ char = Backslash => Acts(cs, char) = <<11>> /\ Targ(cs, char) = 7
           /\ cs = 8 /\ char = Backslash => Acts(cs, char) = <<3, 2, 11>> /\ Targ(cs, char) = 7
<1>1. CASE cs = 1
  <2>1. char \in 0 .. 4
    BY DEF LineChars, Blank, Backslash
  <2>2. ASSUME char = 0 \/ char = 1 \/ char = 2 \/ char = 3 \/ char = 4
       PROVE  Acts(cs, char) = <<4>> /\ Targ(cs, char) = 9
    <3>1. Trans(cs, char) = 0
      BY <1>1, <2>2, ArgvKeys, ArgvOffsets, ArgvDefaults, ArgvIndicies DEF Trans
    <3>2. QED
      BY <3>1, ArgvLists, ArgvTargets, ArgvActions DEF Acts, Targ
  <2>3. QED
    BY <1>1, <2>1, <2>2 DEF Blank, Plain, DQuote, SQuote, Backslash
<1>2. CASE cs = 2
  <2>1. char \in 0 .. 4
    BY DEF LineChars, Blank, Backslash
  <2>2. ASSUME char = 0 \/ char = 1 \/ char = 3
       PROVE  Acts(cs, char) = <<>> /\ Targ(cs, char) = 3
    <3>1. Trans(cs, char) = 1
      BY <1>2, <2>2, ArgvKeys, ArgvOffsets, ArgvDefaults, ArgvIndicies DEF Trans
    <3>2. QED
      BY <3>1, ArgvLists, ArgvTargets, ArgvActions DEF Acts, Targ
  <2>3. ASSUME char = 2
       PROVE  Acts(cs, char) = <<>> /\ Targ(cs, char) = 0
    <3>1. Trans(cs, char) = 2
      BY <1>2, <2>3, ArgvKeys, ArgvOffsets, ArgvDefaults, ArgvIndicies DEF Trans
    <3>2. QED
      BY <3>1, ArgvLists, ArgvTargets, ArgvActions DEF Acts, Targ
  <2>4. ASSUME char = 4
       PROVE  Acts(cs, char) = <<5>> /\ Targ(cs, char) = 3
    <3>1. Trans(cs, char) = 3
      BY <1>2, <2>4, ArgvKeys, ArgvOffsets, ArgvDefaults, ArgvIndicies DEF Trans
    <3>2. QED
      BY <3>1, ArgvLists, ArgvTargets, ArgvActions DEF Acts, Targ
  <2>5. QED
    BY <1>2, <2>1, <2>2, <2>3, <2>4 DEF Blank, Plain, DQuote, SQuote, Backslash
<1>3. CASE cs = 3
  <2>1. char \in 0 .. 4
    BY DEF LineChars, Blank, Backslash
  <2>2. ASSUME char = 0 \/ char = 1 \/ char = 3
       PROVE  Acts(cs, char) = <<>> /\ Targ(cs, char) = 3
    <3>1. Trans(cs, char) = 1
      BY <1>3, <2>2, ArgvKeys, ArgvOffsets, ArgvDefaults, ArgvIndicies DEF Trans
    <3>2. QED
      BY <3>1, ArgvLists, ArgvTargets, ArgvActions DEF Acts, Targ
  <2>3. ASSUME char = 2
       PROVE  Acts(cs, char) = <<6>> /\ Targ(cs, char) = 10
    <3>1. Trans(cs, char) = 4
      BY <1>3, <2>3, ArgvKeys, ArgvOffsets, ArgvDefaults, ArgvIndicies DEF Trans
    <3>2. QED
      BY <3>1, ArgvLists, ArgvTargets, ArgvActions DEF Acts, Targ
  <2>4. ASSUME char = 4
       PROVE  Acts(cs, char) = <<5>> /\ Targ(cs, char) = 3
    <3>1. Trans(cs, char) = 3
      BY <1>3, <2>4, ArgvKeys, ArgvOffsets, ArgvDefaults, ArgvIndicies DEF Trans
    <3>2. QED
      BY <3>1, ArgvLists, ArgvTargets, ArgvActions DEF Acts, Targ
  <2>5. QED
    BY <1>3, <2>1, <2>2, <2>3, <2>4 DEF Blank, Plain, DQuote, SQuote, Backslash
<1>4. CASE cs = 4
  <2>1. char \in 0 .. 4
    BY DEF LineChars, Blank, Backslash
  <2>2. ASSUME char = 0 \/ char = 1 \/ char = 2
       PROVE  Acts(cs, char) = <<>> /\ Targ(cs, char) = 5
    <3>1. Trans(cs, char) = 5
      BY <1>4, <2>2, ArgvKeys, ArgvOffsets, ArgvDefaults, ArgvIndicies DEF Trans
    <3>2. QED
      BY <3>1, ArgvLists, ArgvTargets, ArgvActions DEF Acts, Targ
  <2>3. ASSUME char = 3
       PROVE  Acts(cs, char) = <<>> /\ Targ(cs, char) = 0
    <3>1. Trans(cs, char) = 2
      BY <1>4, <2>3, ArgvKeys, ArgvOffsets, ArgvDefaults, ArgvIndicies DEF Trans
    <3>2. QED
      BY <3>1, ArgvLists, ArgvTargets, ArgvActions DEF Acts, Targ
  <2>4. ASSUME char = 4
       PROVE  Acts(cs, char) = <<7>> /\ Targ(cs, char) = 5
    <3>1. Trans(cs, char) = 6
      BY <1>4, <2>4, ArgvKeys, ArgvOffsets, ArgvDefaults, ArgvIndicies DEF Trans
    <3>2. QED
      BY <3>1, ArgvLists, ArgvTargets, ArgvActions DEF Acts, Targ
  <2>5. QED
    BY <1>4, <2>1, <2>2, <2>3, <2>4 DEF Blank, Plain, DQuote, SQuote, Backslash
<1>5. CASE cs = 5
  <2>1. char \in 0 .. 4
    BY DEF LineChars, Blank, Backslash
  <2>2. ASSUME char = 0 \/ char = 1 \/ char = 2
       PROVE  Acts(cs, char) = <<>> /\ Targ(cs, char) = 5
    <3>1. Trans(cs, char) = 5
      BY <1>5, <2>2, ArgvKeys, ArgvOffsets, ArgvDefaults, ArgvIndicies DEF Trans
    <3>2. QED
      BY <3>1, ArgvLists, ArgvTargets, ArgvActions DEF Acts, Targ
  <2>3. ASSUME char = 3
       PROVE  Acts(cs, char) = <<8>> /\ Targ(cs, char) = 11
    <3>1. Trans(cs, char) = 7
      BY <1>5, <2>3, ArgvKeys, ArgvOffsets, ArgvDefaults, ArgvIndicies DEF Trans
    <3>2. QED
      BY <3>1, ArgvLists, ArgvTargets, ArgvActions DEF Acts, Targ
  <2>4. ASSUME char = 4
       PROVE  Acts(cs, char) = <<7>> /\ Targ(cs, char) = 5
    <3>1. Trans(cs, char) = 6
      BY <1>5, <2>4, ArgvKeys, ArgvOffsets, ArgvDefaults, ArgvIndicies DEF Trans
    <3>2. QED
      BY <3>1, ArgvLists, ArgvTargets, ArgvActions DEF Acts, Targ
  <2>5. QED
    BY <1>5, <2>1, <2>2, <2>3, <2>4 DEF Blank, Plain, DQuote, SQuote, Backslash
<1>6. CASE cs = 6
  <2>1. char \in 0 .. 4
    BY DEF LineChars, Blank, Backslash
  <2>2. ASSUME char = 0
       PROVE  Acts(cs, char) = <<>> /\ Targ(cs, char) = 6
    <3>1. Trans(cs, char) = 9
      BY <1>6, <2>2, ArgvKeys, ArgvOffsets, ArgvDefaults, ArgvIndicies DEF Trans
    <3>2. QED
      BY <3>1, ArgvLists, ArgvTargets, ArgvActions DEF Acts, Targ
  <2>3. ASSUME char = 1
       PROVE  Acts(cs, char) = <<2>> /\ Targ(cs, char) = 7
    <3>1. Trans(cs, char) = 8
      BY <1>6, <2>3, ArgvKeys, ArgvOffsets, ArgvDefaults, ArgvIndicies DEF Trans
    <3>2. QED
      BY <3>1, ArgvLists, ArgvTargets, ArgvActions DEF Acts, Targ
  <2>4. ASSUME char = 2
       PROVE  Acts(cs, char) = <<2, 10>> /\ Targ(cs, char) = 8
    <3>1. Trans(cs, char) = 10
      BY <1>6, <2>4, ArgvKeys, ArgvOffsets, ArgvDefaults, ArgvIndicies DEF Trans
    <3>2. QED
      BY <3>1, ArgvLists, ArgvTargets, ArgvActions DEF Acts, Targ
  <2>5. ASSUME char = 3
       PROVE  Acts(cs, char) = <<2, 9>> /\ Targ(cs, char) = 8
    <3>1. Trans(cs, char) = 11
      BY <1>6, <2>5, ArgvKeys, ArgvOffsets, ArgvDefaults, ArgvIndicies DEF Trans
    <3>2. QED
      BY <3>1, ArgvLists, ArgvTargets, ArgvActions DEF Acts, Targ
  <2>6. ASSUME char = 4
       PROVE  Acts(cs, char) = <<2, 11>> /\ Targ(cs, char) = 7
    <3>1. Trans(cs, char) = 12
      BY <1>6, <2>6, ArgvKeys, ArgvOffsets, ArgvDefaults, ArgvIndicies DEF Trans
    <3>2. QED
      BY <3>1, ArgvLists, ArgvTargets, ArgvActions DEF Acts, Targ
  <2>7. QED
    BY <1>6, <2>1, <2>2, <2>3, <2>4, <2>5, <2>6 DEF Blank, Plain, DQuote, SQuote, Backslash
<1>7. CASE cs = 7
  <2>1. char \in 0 .. 4
    BY DEF LineChars, Blank, Backslash
  <2>2. ASSUME char = 0
       PROVE  Acts(cs, char) = <<3>> /\ Targ(cs, char) = 6
    <3>1. Trans(cs, char) = 14
      BY <1>7, <2>2, ArgvKeys, ArgvOffsets, ArgvDefaults, ArgvIndicies DEF Trans
    <3>2. QED
      BY <3>1, ArgvLists, ArgvTargets, ArgvActions DEF Acts, Targ
  <2>3. ASSUME char = 1
       PROVE  Acts(cs, char) = <<>> /\ Targ(cs, char) = 7
    <3>1. Trans(cs, char) = 13
      BY <1>7, <2>3, ArgvKeys, ArgvOffsets, ArgvDefaults, ArgvIndicies DEF Trans
    <3>2. QED
      BY <3>1, ArgvLists, ArgvTargets, ArgvActions DEF Acts, Targ
  <2>4. ASSUME char = 2
       PROVE  Acts(cs, char) = <<3, 2, 10>> /\ Targ(cs, char) = 8
    <3>1. Trans(cs, char) = 15
      BY <1>7, <2>4, ArgvKeys, ArgvOffsets, ArgvDefaults, ArgvIndicies DEF Trans
    <3>2. QED
      BY <3>1, ArgvLists, ArgvTargets, ArgvActions DEF Acts, Targ
  <2>5. ASSUME char = 3
       PROVE  Acts(cs, char) = <<3, 2, 9>> /\ Targ(cs, char) = 8
    <3>1. Trans(cs, char) = 16
      BY <1>7, <2>5, ArgvKeys, ArgvOffsets, ArgvDefaults, ArgvIndicies DEF Trans
    <3>2. QED
      BY <3>1, ArgvLists, ArgvTargets, ArgvActions DEF Acts, Targ
  <2>6. ASSUME char = 4
       PROVE  Acts(cs, char) = <<11>> /\ Targ(cs, char) = 7
    <3>1. Trans(cs, char) = 17
      BY <1>7, <2>6, ArgvKeys, ArgvOffsets, ArgvDefaults, ArgvIndicies DEF Trans
    <3>2. QED
      BY <3>1, ArgvLists, ArgvTargets, ArgvActions DEF Acts, Targ
  <2>7. QED
    BY <1>7, <2>1, <2>2, <2>3, <2>4, <2>5, <2>6 DEF Blank, Plain, DQuote, SQuote, Backslash
<1>8. CASE cs = 8
  <2>1. char \in 0 .. 4
    BY DEF LineChars, Blank, Backslash
  <2>2. ASSUME char = 0
       PROVE  Acts(cs, char) = <<3>> /\ Targ(cs, char) = 6
    <3>1. Trans(cs, char) = 14
      BY <1>8, <2>2, ArgvKeys, ArgvOffsets, ArgvDefaults, ArgvIndicies DEF Trans
    <3>2. QED
      BY <3>1, ArgvLists, ArgvTargets, ArgvActions DEF Acts, Targ
  <2>3. ASSUME char = 1
       PROVE  Acts(cs, char) = <<3, 2>> /\ Targ(cs, char) = 7
    <3>1. Trans(cs, char) = 18
      BY <1>8, <2>3, ArgvKeys, ArgvOffsets, ArgvDefaults, ArgvIndicies DEF Trans
    <3>2. QED
      BY <3>1, ArgvLists, ArgvTargets, ArgvActions DEF Acts, Targ
  <2>4. ASSUME char = 2
       PROVE  Acts(cs, char) = <<3, 2, 10>> /\ Targ(cs, char) = 8
    <3>1. Trans(cs, char) = 15
      BY <1>8, <2>4, ArgvKeys, ArgvOffsets, ArgvDefaults, ArgvIndicies DEF Trans
    <3>2. QED
      BY <3>1, ArgvLists, ArgvTargets, ArgvActions DEF Acts, Targ
  <2>5. ASSUME char = 3
       PROVE  Acts(cs, char) = <<3, 2, 9>> /\ Targ(cs, char) = 8
    <3>1. Trans(cs, char) = 16
      BY <1>8, <2>5, ArgvKeys, ArgvOffsets, ArgvDefaults, ArgvIndicies DEF Trans
    <3>2. QED
      BY <3>1, ArgvLists, ArgvTargets, ArgvActions DEF Acts, Targ
  <2>6. ASSUME char = 4
       PROVE  Acts(cs, char) = <<3, 2, 11>> /\ Targ(cs, char) = 7
    <3>1. Trans(cs, char) = 19
      BY <1>8, <2>6, ArgvKeys, ArgvOffsets, ArgvDefaults, ArgvIndicies DEF Trans
    <3>2. QED
      BY <3>1, ArgvLists, ArgvTargets, ArgvActions DEF Acts, Targ
  <2>7. QED
    BY <1>8, <2>1, <2>2, <2>3, <2>4, <2>5, <2>6 DEF Blank, Plain, DQuote, SQuote, Backslash
<1>9. QED
  BY <1>1, <1>2, <1>3, <1>4, <1>5, <1>6, <1>7, <1>8

\* The kind of its list of actions, and where it leads.
LEMMA ArgvRead ==
    ASSUME NEW cs \in 1 .. 8, NEW char \in LineChars
    PROVE  \/ cs = 1 /\ Acts(cs, char) = <<4>>
           \/ cs \in {2, 3} /\ Acts(cs, char) = <<>> /\ Targ(cs, char) \in {0, 3}
           \/ cs \in {2, 3} /\ Acts(cs, char) = <<5>> /\ Targ(cs, char) = 3
           \/ cs \in {2, 3} /\ Acts(cs, char) = <<6>>
           \/ cs \in {4, 5} /\ Acts(cs, char) = <<>> /\ Targ(cs, char) \in {0, 5}
           \/ cs \in {4, 5} /\ Acts(cs, char) = <<7>> /\ Targ(cs, char) = 5
           \/ cs \in {4, 5} /\ Acts(cs, char) = <<8>>
           \/ /\ cs \in 6 .. 8 /\ Targ(cs, char) \in 6 .. 8
              /\ Acts(cs, char) \in {<<>>, <<2>>, <<3>>, <<3, 2>>}
           \/ /\ cs \in 6 .. 8 /\ Targ(cs, char) = 8
              /\ Acts(cs, char) \in {<<2, 9>>, <<2, 10>>, <<3, 2, 9>>, <<3, 2, 10>>}
           \/ /\ cs \in 6 .. 8 /\ Targ(cs, char) = 7
              /\ Acts(cs, char) \in {<<11>>, <<2, 11>>, <<3, 2, 11>>}
<1>1. cs \in {1, 2, 3, 4, 5, 6, 7, 8}
  OBVIOUS
<1>2. char \in {Blank, Plain, DQuote, SQuote, Backslash}
  BY Classes
<1>3. CASE cs = 1
  BY <1>3, ArgvTable
<1>4. CASE cs \in {2, 3, 4, 5}
  BY <1>4, ArgvTable
<1>5. CASE cs \in {6, 7, 8} /\ char \in {Blank, Plain}
  BY <1>5, ArgvTable
<1>6. CASE cs \in {6, 7, 8} /\ char \in {DQuote, SQuote}
  BY <1>6, ArgvTable
<1>7. CASE cs \in {6, 7, 8} /\ char = Backslash
  BY <1>7, ArgvTable
<1> QED
  BY <1>1, <1>2, <1>3, <1>4, <1>5, <1>6, <1>7

\* The actions in a list.
LEMMA HasList ==
    /\ \A x : ~Has(<<>>, x)
    /\ \A a, x : Has(<<a>>, x) <=> x = a
    /\ \A a, b, x : Has(<<a, b>>, x) <=> x \in {a, b}
    /\ \A a, b, c, x : Has(<<a, b, c>>, x) <=> x \in {a, b, c}
<1>1. \A x : ~Has(<<>>, x)
  BY DEF Has
<1>2. ASSUME NEW a, NEW x PROVE Has(<<a>>, x) <=> x = a
  <2>1. DOMAIN <<a>> = {1} /\ <<a>>[1] = a
    OBVIOUS
  <2>2. QED
    BY <2>1 DEF Has
<1>3. ASSUME NEW a, NEW b, NEW x PROVE Has(<<a, b>>, x) <=> x \in {a, b}
  <2>1. DOMAIN <<a, b>> = {1, 2} /\ <<a, b>>[1] = a /\ <<a, b>>[2] = b
    OBVIOUS
  <2>2. QED
    BY <2>1 DEF Has
<1>4. ASSUME NEW a, NEW b, NEW c, NEW x PROVE Has(<<a, b, c>>, x) <=> x \in {a, b, c}
  <2>1. /\ DOMAIN <<a, b, c>> = {1, 2, 3}
        /\ <<a, b, c>>[1] = a /\ <<a, b, c>>[2] = b /\ <<a, b, c>>[3] = c
    OBVIOUS
  <2>2. QED
    BY <2>1 DEF Has
<1>5. QED
  BY <1>1, <1>2, <1>3, <1>4

\* What a list does to the state of the automaton: it calls, returns or goes on.
CallsFor(acts, entry) ==
    /\ \E act \in DOMAIN Calls : Has(acts, act)
    /\ Calls[CHOOSE act \in DOMAIN Calls : Has(acts, act)] = entry
GoesBack(acts) ==
    /\ ~ \E act \in DOMAIN Calls : Has(acts, act)
    /\ \E act \in Returns : Has(acts, act)
GoesAhead(acts) ==
    /\ ~ \E act \in DOMAIN Calls : Has(acts, act)
    /\ ~ \E act \in Returns : Has(acts, act)

\* Which lists call a part of the automaton, which return and which go on.
LEMMA ListKinds ==
    /\ \A acts \in {<<5>>, <<7>>, <<11>>, <<2, 11>>, <<3, 2, 11>>} : CallsFor(acts, 1)
    /\ \A acts \in {<<2, 10>>, <<3, 2, 10>>} : CallsFor(acts, 2)
    /\ \A acts \in {<<2, 9>>, <<3, 2, 9>>} : CallsFor(acts, 4)
    /\ \A acts \in {<<4>>, <<6>>, <<8>>} : GoesBack(acts)
    /\ \A acts \in {<<>>, <<2>>, <<3>>, <<3, 2>>} : GoesAhead(acts)
<1>1. DOMAIN Calls = {5, 7, 9, 10, 11} /\ Returns = {4, 6, 8}
  BY DEF Calls, Returns
<1>2. Calls[5] = 1 /\ Calls[7] = 1 /\ Calls[11] = 1 /\ Calls[10] = 2 /\ Calls[9] = 4
  BY DEF Calls, en_skip, en_dquote, en_squote
<1>3. ASSUME NEW acts, NEW act \in DOMAIN Calls, Has(acts, act),
             \A other \in DOMAIN Calls : Has(acts, other) => other = act
      PROVE  CallsFor(acts, Calls[act])
  <2>1. (CHOOSE a \in DOMAIN Calls : Has(acts, a)) = act
    BY <1>3
  <2>2. QED
    BY <1>3, <2>1 DEF CallsFor
<1>4. CallsFor(<<5>>, 1) /\ CallsFor(<<7>>, 1) /\ CallsFor(<<11>>, 1)
  <2>1. \A a \in {5, 7, 11} : a \in DOMAIN Calls /\ Has(<<a>>, a)
                              /\ \A o \in DOMAIN Calls : Has(<<a>>, o) => o = a
    BY <1>1, HasList
  <2>2. \A a \in {5, 7, 11} : CallsFor(<<a>>, Calls[a])
    BY <2>1, <1>3, Zenon
  <2>3. QED
    BY <2>2, <1>2
<1>5. CallsFor(<<2, 11>>, 1) /\ CallsFor(<<2, 10>>, 2) /\ CallsFor(<<2, 9>>, 4)
  <2>1. \A a \in {9, 10, 11} : a \in DOMAIN Calls /\ Has(<<2, a>>, a)
                               /\ \A o \in DOMAIN Calls : Has(<<2, a>>, o) => o = a
    BY <1>1, HasList
  <2>2. \A a \in {9, 10, 11} : CallsFor(<<2, a>>, Calls[a])
    BY <2>1, <1>3, Zenon
  <2>3. QED
    BY <2>2, <1>2
<1>6. CallsFor(<<3, 2, 11>>, 1) /\ CallsFor(<<3, 2, 10>>, 2) /\ CallsFor(<<3, 2, 9>>, 4)
  <2>1. \A a \in {9, 10, 11} : a \in DOMAIN Calls /\ Has(<<3, 2, a>>, a)
                               /\ \A o \in DOMAIN Calls : Has(<<3, 2, a>>, o) => o = a
    BY <1>1, HasList
  <2>2. \A a \in {9, 10, 11} : CallsFor(<<3, 2, a>>, Calls[a])
    BY <2>1, <1>3, Zenon
  <2>3. QED
    BY <2>2, <1>2
<1>7. GoesBack(<<4>>) /\ GoesBack(<<6>>) /\ GoesBack(<<8>>)
  <2>1. \A a \in {4, 6, 8} : Has(<<a>>, a) /\ a \in Returns
                             /\ \A o \in DOMAIN Calls : ~Has(<<a>>, o)
    BY <1>1, HasList
  <2>2. QED
    BY <2>1 DEF GoesBack
<1>8. GoesAhead(<<>>) /\ GoesAhead(<<2>>) /\ GoesAhead(<<3>>) /\ GoesAhead(<<3, 2>>)
  <2>1. \A o \in DOMAIN Calls \cup Returns :
           ~Has(<<>>, o) /\ ~Has(<<2>>, o) /\ ~Has(<<3>>, o) /\ ~Has(<<3, 2>>, o)
    BY <1>1, HasList
  <2>2. QED
    BY <2>1 DEF GoesAhead
<1>9. QED
  BY <1>4, <1>5, <1>6, <1>7, <1>8

\* A stack of one element, and one of two.
LEMMA Two ==
    ASSUME NEW a, NEW b
    PROVE  /\ Append(<<a>>, b) = <<a, b>>
           /\ Len(<<a, b>>) = 2 /\ <<a, b>>[2] = b
           /\ SubSeq(<<a, b>>, 1, 1) = <<a>>
<1> DEFINE s == <<a, b>>
           t == Append(<<a>>, b)
           u == SubSeq(s, 1, 1)
<1>1. <<a>> \in Seq({a, b}) /\ Len(<<a>>) = 1
  OBVIOUS
<1>2. s \in Seq({a, b}) /\ Len(s) = 2 /\ s[1] = a /\ s[2] = b
  OBVIOUS
<1>3. t \in Seq({a, b}) /\ Len(t) = 2 /\ t[1] = a /\ t[2] = b
  BY <1>1
<1> HIDE DEF s
<1>4. u \in Seq({a, b}) /\ Len(u) = 1 /\ u[1] = a
  BY <1>2
<1> HIDE DEF t, u
<1>5. s = t
  BY <1>2, <1>3, SeqEqual
<1>6. u = <<a>>
  BY <1>4
<1>7. QED
  BY <1>2, <1>5, <1>6 DEF s, t, u

\* The states of the line have nothing to return to, those of a quote the line, and
\* that of an escape the line or the quote.
ArgvStackInv ==
    \/ argv_cs \in 6 .. 8 /\ argv_stack = <<>>
    \/ argv_cs \in 2 .. 5 /\ argv_stack = <<8>>
    \/ argv_cs = 1 /\ argv_stack \in {<<7>>, <<8, 3>>, <<8, 5>>}
    \/ argv_cs = 0 /\ argv_stack = <<8>>

\* The invariant of the splitter.
ArgvInv == ArgvTypeOK /\ ArgvStackInv

\* A line begins with an empty stack.
LEMMA InitArgvInv == ArgvInit => ArgvInv
BY LineAssumption DEF ArgvInit, ArgvInv, ArgvTypeOK, ArgvStackInv, buildargv_start

\* The automaton stays within its states and its stack.
LEMMA ReadLineCharStack == ArgvStackInv /\ ReadLineChar => ArgvStackInv' /\ argv_cs' \in 0 .. 8
<1> SUFFICES ASSUME ArgvStackInv, ReadLineChar PROVE ArgvStackInv' /\ argv_cs' \in 0 .. 8
  OBVIOUS
<1>1. PICK char \in LineChars :
        /\ (\E act \in DOMAIN Calls : Has(Acts(argv_cs, char), act))
           => /\ argv_cs' = Calls[CHOOSE act \in DOMAIN Calls : Has(Acts(argv_cs, char), act)]
              /\ argv_stack' = Append(argv_stack, Targ(argv_cs, char))
        /\ GoesBack(Acts(argv_cs, char))
           => /\ argv_cs' = argv_stack[Len(argv_stack)]
              /\ argv_stack' = SubSeq(argv_stack, 1, Len(argv_stack) - 1)
        /\ GoesAhead(Acts(argv_cs, char))
           => argv_cs' = Targ(argv_cs, char) /\ argv_stack' = argv_stack
  BY DEF ReadLineChar, Acts, Targ, GoesBack, GoesAhead
<1> DEFINE acts == Acts(argv_cs, char)
           targ == Targ(argv_cs, char)
<1>2. argv_cs # 0 /\ argv_cs \in 1 .. 8
  BY DEF ArgvStackInv, ReadLineChar
<1>3. \A entry : CallsFor(acts, entry) => argv_cs' = entry /\ argv_stack' = Append(argv_stack, targ)
  BY <1>1 DEF CallsFor
<1>4. /\ GoesBack(acts) => /\ argv_cs' = argv_stack[Len(argv_stack)]
                           /\ argv_stack' = SubSeq(argv_stack, 1, Len(argv_stack) - 1)
      /\ GoesAhead(acts) => argv_cs' = targ /\ argv_stack' = argv_stack
  BY <1>1
<1>5. \/ argv_cs = 1 /\ acts = <<4>>
      \/ argv_cs \in {2, 3} /\ acts = <<>> /\ targ \in {0, 3}
      \/ argv_cs \in {2, 3} /\ acts = <<5>> /\ targ = 3
      \/ argv_cs \in {2, 3} /\ acts = <<6>>
      \/ argv_cs \in {4, 5} /\ acts = <<>> /\ targ \in {0, 5}
      \/ argv_cs \in {4, 5} /\ acts = <<7>> /\ targ = 5
      \/ argv_cs \in {4, 5} /\ acts = <<8>>
      \/ argv_cs \in 6 .. 8 /\ targ \in 6 .. 8 /\ acts \in {<<>>, <<2>>, <<3>>, <<3, 2>>}
      \/ argv_cs \in 6 .. 8 /\ targ = 8 /\ acts \in {<<2, 9>>, <<2, 10>>, <<3, 2, 9>>, <<3, 2, 10>>}
      \/ argv_cs \in 6 .. 8 /\ targ = 7 /\ acts \in {<<11>>, <<2, 11>>, <<3, 2, 11>>}
  BY <1>2, ArgvRead
<1> HIDE DEF acts, targ
<1>6. CASE argv_cs = 1
  <2>1. acts = <<4>> /\ argv_stack \in {<<7>>, <<8, 3>>, <<8, 5>>}
    BY <1>5, <1>6 DEF ArgvStackInv
  <2>2. /\ argv_cs' = argv_stack[Len(argv_stack)]
        /\ argv_stack' = SubSeq(argv_stack, 1, Len(argv_stack) - 1)
    BY <1>4, <2>1, ListKinds
  <2>3. CASE argv_stack = <<7>>
    <3>1. argv_cs' = 7 /\ argv_stack' = <<>>
      BY <2>2, <2>3
    <3>2. QED
      BY <3>1 DEF ArgvStackInv
  <2>4. CASE argv_stack \in {<<8, 3>>, <<8, 5>>}
    <3>1. PICK r \in {3, 5} : argv_stack = <<8, r>>
      BY <2>4
    <3>2. argv_cs' = r /\ argv_stack' = <<8>>
      <4>1. Len(<<8, r>>) = 2 /\ <<8, r>>[2] = r /\ SubSeq(<<8, r>>, 1, 1) = <<8>>
        BY Two, Zenon
      <4>2. 2 - 1 = 1
        OBVIOUS
      <4>3. QED
        BY <2>2, <3>1, <4>1, <4>2, Zenon
    <3>3. QED
      BY <3>2 DEF ArgvStackInv
  <2>5. QED
    BY <2>1, <2>3, <2>4
<1>7. CASE argv_cs \in 2 .. 5
  <2>1. argv_stack = <<8>>
    BY <1>7 DEF ArgvStackInv
  <2>2. CASE acts = <<>> /\ targ \in {0, 3, 5}
    <3>1. argv_cs' \in {0, 3, 5} /\ argv_stack' = <<8>>
      BY <1>4, <2>1, <2>2, ListKinds
    <3>2. QED
      BY <3>1 DEF ArgvStackInv
  <2>3. CASE acts \in {<<5>>, <<7>>} /\ targ \in {3, 5}
    <3>1. argv_cs' = 1 /\ argv_stack' = Append(<<8>>, targ)
      BY <1>3, <2>1, <2>3, ListKinds
    <3>2. argv_stack' = <<8, targ>>
      BY <3>1, Two, Zenon
    <3>3. argv_stack' = <<8, 3>> \/ argv_stack' = <<8, 5>>
      BY <2>3, <3>2, Zenon
    <3>4. QED
      BY <3>1, <3>3 DEF ArgvStackInv
  <2>4. CASE acts \in {<<6>>, <<8>>}
    <3>1. argv_cs' = argv_stack[Len(argv_stack)] /\ argv_stack' = SubSeq(argv_stack, 1, Len(argv_stack) - 1)
      BY <1>4, <2>4, ListKinds
    <3>2. argv_cs' = 8 /\ argv_stack' = <<>>
      BY <2>1, <3>1
    <3>3. QED
      BY <3>2 DEF ArgvStackInv
  <2>5. \/ acts = <<>> /\ targ \in {0, 3, 5}
        \/ acts \in {<<5>>, <<7>>} /\ targ \in {3, 5}
        \/ acts \in {<<6>>, <<8>>}
    BY <1>5, <1>7
  <2>6. QED
    BY <2>2, <2>3, <2>4, <2>5
<1>8. CASE argv_cs \in 6 .. 8
  <2>1. argv_stack = <<>>
    BY <1>8 DEF ArgvStackInv
  <2>2. CASE targ \in 6 .. 8 /\ acts \in {<<>>, <<2>>, <<3>>, <<3, 2>>}
    <3>1. argv_cs' \in 6 .. 8 /\ argv_stack' = <<>>
      BY <1>4, <2>1, <2>2, ListKinds
    <3>2. QED
      BY <3>1 DEF ArgvStackInv
  <2>3. CASE targ = 8 /\ acts \in {<<2, 9>>, <<2, 10>>, <<3, 2, 9>>, <<3, 2, 10>>}
    <3>1. argv_cs' \in {2, 4} /\ argv_stack' = Append(<<>>, 8)
      BY <1>3, <2>1, <2>3, ListKinds
    <3>2. argv_stack' = <<8>>
      BY <3>1
    <3>3. QED
      BY <3>1, <3>2 DEF ArgvStackInv
  <2>4. CASE targ = 7 /\ acts \in {<<11>>, <<2, 11>>, <<3, 2, 11>>}
    <3>1. argv_cs' = 1 /\ argv_stack' = Append(<<>>, 7)
      BY <1>3, <2>1, <2>4, ListKinds
    <3>2. argv_stack' = <<7>>
      BY <3>1
    <3>3. QED
      BY <3>1, <3>2 DEF ArgvStackInv
  <2>5. QED
    BY <1>5, <1>8, <2>2, <2>3, <2>4
<1>9. QED
  BY <1>2, <1>6, <1>7, <1>8

\* Every step keeps the invariant of the splitter.
LEMMA StepArgvInv == ArgvInv /\ [ArgvNext]_argvVars => ArgvInv'
<1> SUFFICES ASSUME ArgvInv, [ArgvNext]_argvVars PROVE ArgvInv'
  OBVIOUS
<1>0. ASSUME ArgvStackInv' PROVE argv_cs' \in 0 .. 8 /\ argv_stack' \in Seq(1 .. 11)
  <2>1. /\ <<>> \in Seq(1 .. 11) /\ <<7>> \in Seq(1 .. 11) /\ <<8>> \in Seq(1 .. 11)
        /\ <<8, 3>> \in Seq(1 .. 11) /\ <<8, 5>> \in Seq(1 .. 11)
    OBVIOUS
  <2>2. argv_stack' \in {<<>>, <<7>>, <<8>>, <<8, 3>>, <<8, 5>>}
    BY <1>0, Zenon DEF ArgvStackInv
  <2>3. argv_cs' \in 0 .. 8
    BY <1>0 DEF ArgvStackInv
  <2>4. QED
    BY <2>1, <2>2, <2>3, Zenon
<1>1. CASE ReadLineChar
  <2>1. ArgvStackInv'
    BY <1>1, ReadLineCharStack DEF ArgvInv
  <2>2. PICK char \in LineChars :
          /\ argv_text' = Append(argv_text, char)
          /\ argv_s' = argv_s \/ argv_s' = Len(argv_text)
          /\ UNCHANGED <<argv_pc, argv_ret>> /\ Len(argv_text) < MaxLine
    BY <1>1 DEF ReadLineChar
  <2>3. /\ argv_text' \in Seq(LineChars) /\ Len(argv_text') = Len(argv_text) + 1
        /\ Len(argv_text) \in Nat
    BY <2>2 DEF ArgvInv, ArgvTypeOK
  <2>4. argv_s' \in 0 .. Len(argv_text') /\ Len(argv_text') <= MaxLine
    BY <2>2, <2>3, LineAssumption DEF ArgvInv, ArgvTypeOK
  <2>5. QED
    BY <2>1, <2>2, <2>3, <2>4, <1>0 DEF ArgvInv, ArgvTypeOK
<1>2. CASE EndOfLine
  <2>1. argv_pc' = "returned" /\ argv_ret' \in {"EOK", "EDQUOTE", "ESQUOTE"}
        /\ UNCHANGED <<argv_text, argv_cs, argv_stack, argv_s>>
    BY <1>2 DEF EndOfLine
  <2>2. QED
    BY <2>1 DEF ArgvInv, ArgvTypeOK, ArgvStackInv
<1>3. CASE UNCHANGED argvVars
  BY <1>3 DEF ArgvInv, ArgvTypeOK, ArgvStackInv, argvVars
<1>4. QED
  BY <1>1, <1>2, <1>3 DEF ArgvNext

\* The stack of return states is never deeper than its two entries.
LEMMA ArgvFits == ArgvInv => ArgvStackFits
<1> SUFFICES ASSUME ArgvStackInv PROVE ArgvStackFits
  BY DEF ArgvInv
<1>1. Len(argv_stack) \in 0 .. 2 /\ (argv_cs = 1 => argv_stack # <<>>)
      /\ (argv_cs \in 2 .. 5 => Len(argv_stack) = 1)
      /\ (argv_cs \in 6 .. 8 => argv_stack = <<>>)
  BY DEF ArgvStackInv
<1>2. QED
  BY <1>1 DEF ArgvStackFits, en_skip, en_dquote, buildargv_start

-----------------------------------------------------------------------------
(***************************************************************************)
(* The arguments of a command line.  The recursive functions of LastOfRun  *)
(* and ArgsFrom unfold from the end of the text (DownwardRecursion), and   *)
(* for every text that begins with what is read, each state knows where in *)
(* an argument it is (StateKnows).                                         *)
(***************************************************************************)
\* A unit is one character, or two.
LEMMA UnitEnds ==
    ASSUME NEW text, NEW j \in Nat
    PROVE  UnitEnd(text, j) \in {j, j + 1}
  BY DEF UnitEnd

\* What the recursive function of LastOfRun is.
IsRunEnd(f, text, stop) ==
    f = [j \in 1 .. Len(text) + 2 |->
           IF j > Len(text) \/ (j <= Len(text) /\ text[j] \in stop) THEN j - 1
           ELSE f[UnitEnd(text, j) + 1]]

\* There is such a function.
LEMMA RunEndExists ==
    ASSUME NEW text \in Seq(LineChars), NEW stop
    PROVE  \E f : IsRunEnd(f, text, stop)
<1> DEFINE n == Len(text)
           N == n + 2
           ends == {j \in 1 .. N : j > n \/ (j <= n /\ text[j] \in stop)}
           val == [j \in 1 .. N |-> j - 1]
           nxt == [j \in 1 .. N |-> UnitEnd(text, j) + 1]
           step == [j \in 1 .. N |-> [v \in Nat |-> v]]
<1>1. n \in Nat
  BY LenProperties
<1> HIDE DEF n
<1>2. N \in Nat /\ 0 \in Nat /\ val \in [1 .. N -> Nat] /\ step \in [1 .. N -> [Nat -> Nat]]
  BY <1>1
<1>3. \A j \in 1 .. N : UnitEnd(text, j) \in {j, j + 1}
  BY <1>1, UnitEnds
<1>4. nxt \in [1 .. N -> Nat]
  BY <1>1, <1>3
<1>5. \A j \in 1 .. N : j \notin ends => nxt[j] \in j + 1 .. N
  BY <1>1, <1>3
<1> HIDE DEF ends
<1>6. PICK f \in [1 .. N -> Nat] : IsDown(f, 1, N, ends, val, nxt, step)
  <2> HIDE DEF N, val, nxt, step
  <2> QED
    BY <1>2, <1>4, <1>5, DownwardRecursion
<1>7. ASSUME NEW j \in 1 .. N
      PROVE  f[j] = IF j > n \/ (j <= n /\ text[j] \in stop) THEN j - 1 ELSE f[UnitEnd(text, j) + 1]
  <2>1. f[j] = IF j \in ends THEN val[j] ELSE step[j][f[nxt[j]]]
    BY <1>6 DEF IsDown
  <2>2. CASE j \in ends
    BY <2>1, <2>2 DEF ends
  <2>3. CASE j \notin ends
    <3>1. nxt[j] \in 1 .. N /\ nxt[j] = UnitEnd(text, j) + 1
      BY <1>1, <1>5, <2>3
    <3>2. step[j][f[nxt[j]]] = f[nxt[j]]
      BY <1>6, <3>1
    <3> QED
      BY <2>1, <2>3, <3>1, <3>2 DEF ends
  <2> QED
    BY <2>2, <2>3
<1>8. f = [j \in 1 .. N |-> IF j > n \/ (j <= n /\ text[j] \in stop) THEN j - 1
                            ELSE f[UnitEnd(text, j) + 1]]
  BY <1>6, <1>7
<1> QED
  BY <1>8 DEF IsRunEnd, n

\* Where a run ends that starts with a unit.
LEMMA RunStep ==
    ASSUME NEW text \in Seq(LineChars), NEW stop, NEW i \in 1 .. Len(text) + 2
    PROVE  LastOfRun(text, i, stop) =
             IF i > Len(text) \/ (i <= Len(text) /\ text[i] \in stop) THEN i - 1
             ELSE LastOfRun(text, UnitEnd(text, i) + 1, stop)
<1> DEFINE f == CHOOSE g : IsRunEnd(g, text, stop)
<1>1. IsRunEnd(f, text, stop)
  BY RunEndExists
<1>2. \A j : LastOfRun(text, j, stop) = f[j]
  BY Zenon DEF LastOfRun, IsRunEnd
<1> HIDE DEF f
<1> QED
  BY <1>1, <1>2 DEF IsRunEnd

\* A run ends at its start or behind it, and at most one unit past the text.
LEMMA RunBounds ==
    ASSUME NEW text \in Seq(LineChars), NEW stop
    PROVE  \A i \in 1 .. Len(text) + 2 : LastOfRun(text, i, stop) \in i - 1 .. Len(text) + 1
<1> DEFINE n == Len(text)
           N == n + 2
           T == {i \in 1 .. N : LastOfRun(text, i, stop) \in i - 1 .. n + 1}
<1>1. n \in Nat
  BY LenProperties
<1> HIDE DEF n
<1>2. ASSUME NEW i \in 1 .. N, \A k \in i + 1 .. N : k \in T PROVE i \in T
  <2>1. LastOfRun(text, i, stop) =
             IF i > n \/ (i <= n /\ text[i] \in stop) THEN i - 1
             ELSE LastOfRun(text, UnitEnd(text, i) + 1, stop)
    BY RunStep DEF n
  <2>2. CASE i > n \/ (i <= n /\ text[i] \in stop)
    BY <1>1, <2>1, <2>2
  <2>3. CASE ~(i > n \/ (i <= n /\ text[i] \in stop))
    <3>1. UnitEnd(text, i) \in {i, i + 1} /\ i <= n
      BY <1>1, <2>3, UnitEnds
    <3>2. UnitEnd(text, i) + 1 \in i + 1 .. N
      BY <1>1, <3>1
    <3>3. UnitEnd(text, i) + 1 \in T
      BY <1>2, <3>2
    <3> QED
      BY <1>1, <2>1, <2>3, <3>1, <3>3
  <2> QED
    BY <2>2, <2>3
<1>3. N \in Nat /\ \A i \in 1 .. N : (\A k \in i + 1 .. N : k \in T) => i \in T
  BY <1>1, <1>2
<1>4. \A i \in 1 .. N : i \in T
  <2> HIDE DEF T, N
  <2> QED
    BY <1>3, DownTo
<1> QED
  BY <1>4 DEF T, n

\* The closing quote of the one at i, and the end of the plain argument at i.
CloseOf(text, i) == LastOfRun(text, i + 1, {text[i]}) + 1
EndOf(text, i) == LastOfRun(text, i, Stops)

\* Where the reading ends, what is returned there, and where else it goes on.
LastPlaces(text) ==
    LET n == Len(text) IN
    {i \in 1 .. n + 2 :
       \/ i > n
       \/ text[i] \in Quotes /\ (CloseOf(text, i) > n \/ CloseOf(text, i) = i + 1)
       \/ text[i] \notin Stops /\ EndOf(text, i) > n}
ErrorAt(text, i) ==
    IF i < Len(text) /\ text[i] \in Quotes /\ CloseOf(text, i) = Len(text) + 1
    THEN IF text[i] = DQuote THEN "EDQUOTE" ELSE "ESQUOTE"
    ELSE "EOK"
LastOfArg(text, i) ==
    IF text[i] = Blank THEN i
    ELSE IF text[i] \in Quotes THEN CloseOf(text, i) ELSE EndOf(text, i)

Answers == [args : Seq(Seq(LineChars)), ret : {"EOK", "EDQUOTE", "ESQUOTE"}]

\* The values of a function that says what the part from each place on adds.
ArgsAt(f, text, i) ==
    IF i \in LastPlaces(text) THEN NoArgs(ErrorAt(text, i))
    ELSE IF text[i] = Blank THEN f[i + 1]
    ELSE ArgFirst(SubSeq(text, i, LastOfArg(text, i)), f[LastOfArg(text, i) + 1])

\* What the recursive function of ArgsFrom is.
IsArgsFrom(f, text) ==
    f = [i \in 1 .. Len(text) + 2 |->
            IF i > Len(text) THEN NoArgs("EOK")
            ELSE IF text[i] = Blank THEN f[i + 1]
            ELSE IF text[i] \in {DQuote, SQuote}
            THEN LET close == LastOfRun(text, i + 1, {text[i]}) + 1 IN
                 IF close = Len(text) + 1 /\ i < Len(text)
                 THEN NoArgs(IF text[i] = DQuote THEN "EDQUOTE" ELSE "ESQUOTE")
                 ELSE IF close > Len(text) \/ close = i + 1 THEN NoArgs("EOK")
                 ELSE ArgFirst(SubSeq(text, i, close), f[close + 1])
            ELSE LET last == LastOfRun(text, i, {Blank, DQuote, SQuote}) IN
                 IF last > Len(text) THEN NoArgs("EOK")
                 ELSE ArgFirst(SubSeq(text, i, last), f[last + 1])]

\* The places in a text where the reading goes on.
LEMMA ArgPlaces ==
    ASSUME NEW text \in Seq(LineChars), NEW i \in 1 .. Len(text) + 2
    PROVE  /\ Len(text) \in Nat
           /\ i \in LastPlaces(text) \/ (i \in 1 .. Len(text) /\ LastOfArg(text, i) \in i .. Len(text))
           /\ i <= Len(text) /\ text[i] \in Quotes => CloseOf(text, i) \in i + 1 .. Len(text) + 2
<1> DEFINE n == Len(text)
<1>1. n \in Nat
  BY LenProperties
<1>2. \A j \in 1 .. n + 2 : \A stop : LastOfRun(text, j, stop) \in j - 1 .. n + 1
  BY RunBounds
<1>3. \A stop : i <= n /\ text[i] \notin stop => LastOfRun(text, i, stop) = LastOfRun(text, UnitEnd(text, i) + 1, stop)
  BY <1>1, RunStep DEF n
<1> HIDE DEF n
<1>4. ASSUME i <= n PROVE CloseOf(text, i) \in i + 1 .. n + 2
  <2>1. i + 1 \in 1 .. n + 2
    BY <1>1, <1>4
  <2>2. LastOfRun(text, i + 1, {text[i]}) \in (i + 1) - 1 .. n + 1
    BY <1>2, <2>1
  <2> QED
    BY <1>1, <1>4, <2>2 DEF CloseOf
<1>5. ASSUME i <= n, text[i] \notin Stops PROVE EndOf(text, i) \in i .. n + 1
  <2>1. UnitEnd(text, i) \in {i, i + 1}
    BY UnitEnds
  <2>2. UnitEnd(text, i) + 1 \in 1 .. n + 2
    BY <1>1, <1>5, <2>1
  <2>3. EndOf(text, i) = LastOfRun(text, UnitEnd(text, i) + 1, Stops)
    BY <1>3, <1>5 DEF EndOf
  <2>4. LastOfRun(text, UnitEnd(text, i) + 1, Stops) \in (UnitEnd(text, i) + 1) - 1 .. n + 1
    BY <1>2, <2>2
  <2> QED
    BY <1>1, <2>1, <2>3, <2>4
<1>6. i \in LastPlaces(text) \/ (i \in 1 .. n /\ LastOfArg(text, i) \in i .. n)
  <2> SUFFICES ASSUME i \notin LastPlaces(text) PROVE i \in 1 .. n /\ LastOfArg(text, i) \in i .. n
    OBVIOUS
  <2>1. /\ i <= n
        /\ text[i] \in Quotes => ~(CloseOf(text, i) > n)
        /\ text[i] \notin Stops => ~(EndOf(text, i) > n)
    BY <1>1 DEF LastPlaces, n
  <2>2. CASE text[i] = Blank
    BY <1>1, <2>1, <2>2 DEF LastOfArg
  <2>3. CASE text[i] # Blank /\ text[i] \in Quotes
    <3>1. CloseOf(text, i) \in i .. n
      BY <1>1, <1>4, <2>1, <2>3
    <3> QED
      BY <1>1, <2>1, <2>3, <3>1 DEF LastOfArg
  <2>4. CASE text[i] # Blank /\ text[i] \notin Quotes
    <3>1. EndOf(text, i) \in i .. n
      BY <1>1, <1>5, <2>1, <2>4 DEF Stops, Quotes
    <3> QED
      BY <1>1, <2>1, <2>4, <3>1 DEF LastOfArg
  <2> QED
    BY <2>2, <2>3, <2>4
<1> QED
  BY <1>1, <1>4, <1>6 DEF n

\* A function with those values is the recursive one.
LEMMA ArgsAtIs ==
    ASSUME NEW text \in Seq(LineChars), NEW f, f = [i \in 1 .. Len(text) + 2 |-> f[i]]
    PROVE  IsArgsFrom(f, text) <=> \A i \in 1 .. Len(text) + 2 : f[i] = ArgsAt(f, text, i)
<1> DEFINE n == Len(text)
           read(i) ==
            IF i > Len(text) THEN NoArgs("EOK")
            ELSE IF text[i] = Blank THEN f[i + 1]
            ELSE IF text[i] \in {DQuote, SQuote}
            THEN LET close == LastOfRun(text, i + 1, {text[i]}) + 1 IN
                 IF close = Len(text) + 1 /\ i < Len(text)
                 THEN NoArgs(IF text[i] = DQuote THEN "EDQUOTE" ELSE "ESQUOTE")
                 ELSE IF close > Len(text) \/ close = i + 1 THEN NoArgs("EOK")
                 ELSE ArgFirst(SubSeq(text, i, close), f[close + 1])
            ELSE LET last == LastOfRun(text, i, {Blank, DQuote, SQuote}) IN
                 IF last > Len(text) THEN NoArgs("EOK")
                 ELSE ArgFirst(SubSeq(text, i, last), f[last + 1])
<1>1. Blank = 0 /\ DQuote = 2 /\ SQuote = 3
  BY DEF Blank, DQuote, SQuote
<1>2. ASSUME NEW i \in 1 .. n + 2 PROVE read(i) = ArgsAt(f, text, i)
  <2>1. n \in Nat /\ (i <= n /\ text[i] \in Quotes => CloseOf(text, i) \in i + 1 .. n + 2)
    BY ArgPlaces
  <2>2. CASE i > n
    <3>1. i \in LastPlaces(text) /\ ~(i < n)
      BY <2>1, <2>2 DEF LastPlaces
    <3> QED
      BY <2>2, <3>1 DEF ArgsAt, ErrorAt
  <2>3. CASE i <= n /\ text[i] = Blank
    <3>1. i \notin LastPlaces(text)
      BY <1>1, <2>1, <2>3 DEF LastPlaces, Stops, Quotes
    <3> QED
      BY <2>1, <2>3, <3>1 DEF ArgsAt
  <2>4. CASE i <= n /\ text[i] # Blank /\ text[i] \in Quotes
    <3> DEFINE close == CloseOf(text, i)
    <3>1. i \in LastPlaces(text) <=> close > n \/ close = i + 1
      BY <1>1, <2>1, <2>4 DEF LastPlaces, Stops, Quotes
    <3>2. LastOfArg(text, i) = close
      BY <2>4 DEF LastOfArg
    <3>3. read(i) = IF close = n + 1 /\ i < n
                 THEN NoArgs(IF text[i] = DQuote THEN "EDQUOTE" ELSE "ESQUOTE")
                 ELSE IF close > n \/ close = i + 1 THEN NoArgs("EOK")
                 ELSE ArgFirst(SubSeq(text, i, close), f[close + 1])
      BY <2>1, <2>4 DEF CloseOf, Quotes
    <3>4. ErrorAt(text, i) = IF i < n /\ close = n + 1
                             THEN IF text[i] = DQuote THEN "EDQUOTE" ELSE "ESQUOTE" ELSE "EOK"
      BY <2>4 DEF ErrorAt
    <3>5. ArgsAt(f, text, i) = IF close > n \/ close = i + 1 THEN NoArgs(ErrorAt(text, i))
                               ELSE ArgFirst(SubSeq(text, i, close), f[close + 1])
      BY <2>4, <3>1, <3>2 DEF ArgsAt
    <3>6. close = n + 1 => close > n
      BY <2>1
    <3> HIDE DEF close, n, read
    <3> QED
      BY <3>3, <3>4, <3>5, <3>6
  <2>5. CASE i <= n /\ text[i] # Blank /\ text[i] \notin Quotes
    <3> DEFINE last == EndOf(text, i)
    <3>1. i \in LastPlaces(text) <=> last > n
      BY <1>1, <2>1, <2>5 DEF LastPlaces, Stops, Quotes
    <3>2. LastOfArg(text, i) = last
      BY <2>5 DEF LastOfArg
    <3>3. read(i) = IF last > n THEN NoArgs("EOK") ELSE ArgFirst(SubSeq(text, i, last), f[last + 1])
      BY <2>1, <2>5 DEF EndOf, Quotes, Stops
    <3>4. ErrorAt(text, i) = "EOK"
      BY <2>5 DEF ErrorAt
    <3>5. ArgsAt(f, text, i) = IF last > n THEN NoArgs(ErrorAt(text, i))
                               ELSE ArgFirst(SubSeq(text, i, last), f[last + 1])
      BY <2>5, <3>1, <3>2 DEF ArgsAt
    <3> HIDE DEF last, n, read
    <3> QED
      BY <3>3, <3>4, <3>5
  <2>6. i > n \/ i <= n
    BY <2>1
  <2> QED
    BY <2>2, <2>3, <2>4, <2>5, <2>6, Zenon
<1>3. IsArgsFrom(f, text) <=> f = [i \in 1 .. n + 2 |-> read(i)]
  BY Zenon DEF IsArgsFrom
<1> HIDE DEF read
<1> QED
  BY <1>2, <1>3

\* One argument more is an answer again.
LEMMA OneMoreArg ==
    ASSUME NEW text \in Seq(LineChars), NEW i \in 1 .. Len(text), NEW j \in i .. Len(text),
           NEW rest \in Answers
    PROVE  ArgFirst(SubSeq(text, i, j), rest) \in Answers
<1>1. SubSeq(text, i, j) \in Seq(LineChars)
  <2>1. i \in 1 .. Len(text) + 1 /\ j \in 0 .. Len(text)
    BY LenProperties
  <2> QED
    BY <2>1, Stretch
<1> DEFINE arg == SubSeq(text, i, j)
<1> HIDE DEF arg
<1>2. rest.args \in Seq(Seq(LineChars)) /\ rest.ret \in {"EOK", "EDQUOTE", "ESQUOTE"}
  BY DEF Answers
<1>3. <<arg>> \in Seq(Seq(LineChars))
  BY <1>1 DEF arg
<1>4. <<arg>> \o rest.args \in Seq(Seq(LineChars))
  BY <1>2, <1>3, ConcatProperties
<1> QED
  BY <1>2, <1>4 DEF ArgFirst, Answers, arg

\* Nothing read is an answer.
LEMMA NoArgsAnswer ==
    ASSUME NEW text, NEW i
    PROVE  NoArgs(ErrorAt(text, i)) \in Answers
<1>1. ErrorAt(text, i) \in {"EOK", "EDQUOTE", "ESQUOTE"}
  BY DEF ErrorAt
<1>2. <<>> \in Seq(Seq(LineChars))
  OBVIOUS
<1> QED
  BY <1>1, <1>2 DEF NoArgs, Answers

\* There is a function that reads the arguments from every place on.
LEMMA ArgsFromExists ==
    ASSUME NEW text \in Seq(LineChars)
    PROVE  \E f : IsArgsFrom(f, text)
<1> DEFINE n == Len(text)
           N == n + 2
           ends == LastPlaces(text)
           last(i) == LastOfArg(text, i)
           val == [i \in 1 .. N |-> NoArgs(ErrorAt(text, i))]
           nxt == [i \in 1 .. N |-> IF i \in ends THEN 0 ELSE last(i) + 1]
           step == [i \in 1 .. N |->
                      [v \in Answers |-> IF i \in ends \/ text[i] = Blank THEN v
                                         ELSE ArgFirst(SubSeq(text, i, last(i)), v)]]
<1>1. n \in Nat
  BY LenProperties
<1>2. \A i \in 1 .. N : i \notin ends => i \in 1 .. n /\ last(i) \in i .. n
  BY ArgPlaces
<1>3. val \in [1 .. N -> Answers]
  BY NoArgsAnswer
<1>4. step \in [1 .. N -> [Answers -> Answers]]
  <2>1. ASSUME NEW i \in 1 .. N, NEW v \in Answers
        PROVE  (IF i \in ends \/ text[i] = Blank THEN v ELSE ArgFirst(SubSeq(text, i, last(i)), v)) \in Answers
    <3>1. CASE i \in ends \/ text[i] = Blank
      BY <3>1
    <3>2. CASE i \notin ends /\ text[i] # Blank
      <4>1. i \in 1 .. Len(text) /\ last(i) \in i .. Len(text)
        BY <1>2, <3>2
      <4> HIDE DEF last
      <4>2. ArgFirst(SubSeq(text, i, last(i)), v) \in Answers
        BY <4>1, OneMoreArg
      <4> QED
        BY <3>2, <4>2
    <3> QED
      BY <3>1, <3>2
  <2> HIDE DEF last, n, ends
  <2> QED
    BY <2>1
<1> HIDE DEF n
<1> HIDE DEF ends, last
<1>5. N \in Nat /\ nxt \in [1 .. N -> Nat]
      /\ \A j \in 1 .. N : j \notin ends => nxt[j] = last(j) + 1 /\ nxt[j] \in j + 1 .. N
  BY <1>1, <1>2
<1>6. NoArgs("EOK") \in Answers
  BY DEF NoArgs, Answers
<1>7. PICK f \in [1 .. N -> Answers] : IsDown(f, 1, N, ends, val, nxt, step)
  <2> HIDE DEF N, val, nxt, step
  <2> QED
    BY <1>3, <1>4, <1>5, <1>6, DownwardRecursion
<1>8. ASSUME NEW i \in 1 .. N PROVE f[i] = ArgsAt(f, text, i)
  <2>1. f[i] = IF i \in ends THEN val[i] ELSE step[i][f[nxt[i]]]
    BY <1>7 DEF IsDown
  <2>2. CASE i \in ends
    <3>1. val[i] = NoArgs(ErrorAt(text, i))
      OBVIOUS
    <3> QED
      BY <2>1, <2>2, <3>1 DEF ArgsAt, ends
  <2>3. CASE i \notin ends
    <3>1. nxt[i] = last(i) + 1 /\ nxt[i] \in 1 .. N
      BY <1>5, <2>3
    <3> DEFINE w == f[nxt[i]]
    <3>2. w \in Answers
      BY <1>7, <3>1
    <3> HIDE DEF w
    <3>3. step[i][w] = IF i \in ends \/ text[i] = Blank THEN w ELSE ArgFirst(SubSeq(text, i, last(i)), w)
      BY <3>2
    <3>4. f[i] = IF text[i] = Blank THEN w ELSE ArgFirst(SubSeq(text, i, last(i)), w)
      BY <2>1, <2>3, <3>3 DEF w
    <3>5. CASE text[i] = Blank
      <4>1. last(i) = i
        BY <3>5 DEF last, LastOfArg
      <4> QED
        BY <2>3, <3>1, <3>4, <3>5, <4>1 DEF ArgsAt, ends, w
    <3>6. CASE text[i] # Blank
      BY <2>3, <3>1, <3>4, <3>6 DEF ArgsAt, ends, w, last
    <3> QED
      BY <3>5, <3>6
  <2> QED
    BY <2>2, <2>3
<1>9. f = [i \in 1 .. N |-> f[i]]
  BY <1>7
<1>10. IsArgsFrom(f, text)
  BY <1>8, <1>9, ArgsAtIs, Zenon DEF n
<1> QED
  BY <1>10

\* What is read from a place on.
LEMMA ArgsStep ==
    ASSUME NEW text \in Seq(LineChars)
    PROVE  \A i \in 1 .. Len(text) + 2 : ArgsFrom(text)[i] = ArgsAt(ArgsFrom(text), text, i)
<1> DEFINE f == CHOOSE g : IsArgsFrom(g, text)
<1>1. IsArgsFrom(f, text)
  BY ArgsFromExists
<1>2. ArgsFrom(text) = f
  BY Zenon DEF ArgsFrom, IsArgsFrom
<1> HIDE DEF f
<1>3. f = [i \in 1 .. Len(text) + 2 |-> f[i]]
  BY <1>1 DEF IsArgsFrom
<1> QED
  BY <1>1, <1>2, <1>3, ArgsAtIs, Zenon

\* It is an answer.
LEMMA ArgsTyped ==
    ASSUME NEW text \in Seq(LineChars)
    PROVE  \A i \in 1 .. Len(text) + 2 : ArgsFrom(text)[i] \in Answers
<1> DEFINE n == Len(text)
           N == n + 2
           f == ArgsFrom(text)
           T == {i \in 1 .. N : f[i] \in Answers}
<1>1. N \in Nat /\ n \in Nat
  BY LenProperties
<1>2. ASSUME NEW i \in 1 .. N, \A k \in i + 1 .. N : k \in T PROVE i \in T
  <2>1. f[i] = ArgsAt(f, text, i)
    BY ArgsStep
  <2>2. i \in LastPlaces(text) \/ (i \in 1 .. n /\ LastOfArg(text, i) \in i .. n)
    BY ArgPlaces
  <2> HIDE DEF f
  <2>3. CASE i \in LastPlaces(text)
    <3>1. f[i] = NoArgs(ErrorAt(text, i))
      BY <2>1, <2>3 DEF ArgsAt
    <3> QED
      BY <3>1, NoArgsAnswer
  <2>4. CASE i \notin LastPlaces(text) /\ text[i] = Blank
    <3>1. f[i] = f[i + 1]
      BY <2>1, <2>4 DEF ArgsAt
    <3>2. i + 1 \in i + 1 .. N
      BY <1>1, <2>2, <2>4
    <3> QED
      BY <1>2, <3>1, <3>2
  <2>5. CASE i \notin LastPlaces(text) /\ text[i] # Blank
    <3> DEFINE last == LastOfArg(text, i)
    <3>1. f[i] = ArgFirst(SubSeq(text, i, last), f[last + 1])
      BY <2>1, <2>5 DEF ArgsAt
    <3>2. i \in 1 .. n /\ last \in i .. n
      BY <2>2, <2>5
    <3> HIDE DEF last, n
    <3>3. last + 1 \in i + 1 .. N
      BY <1>1, <3>2
    <3>4. f[last + 1] \in Answers
      BY <1>2, <3>3
    <3>5. ArgFirst(SubSeq(text, i, last), f[last + 1]) \in Answers
      BY <3>2, <3>4, OneMoreArg DEF n
    <3> QED
      BY <3>1, <3>5
  <2> QED
    BY <2>3, <2>4, <2>5
<1>3. \A i \in 1 .. N : (\A k \in i + 1 .. N : k \in T) => i \in T
  BY <1>2
<1>4. \A i \in 1 .. N : i \in T
  <2> HIDE DEF T, N
  <2> QED
    BY <1>1, <1>3, DownTo
<1> QED
  BY <1>4

\* Where the plain or the quoted argument ends that starts behind s, of a text
\* that is read up to p, is where the run ends that is at a place.
InPlain(T, s, p, at) == s < p /\ T[s + 1] \notin Stops /\ EndOf(T, s + 1) = LastOfRun(T, at, Stops)
InQuote(T, s, p, at, q) == s + 2 <= p /\ T[s + 1] = q /\ CloseOf(T, s + 1) = LastOfRun(T, at, {q}) + 1

\* What a state of the automaton knows of the argument that starts behind s.
StateKnows(T, cs, back, s, p) ==
    \/ cs = 6
    \/ cs = 7 /\ InPlain(T, s, p, p + 1)
    \/ cs = 1 /\ back = <<7>> /\ T[p] = Backslash /\ InPlain(T, s, p, p)
    \/ \E q \in Quotes : cs = Inner(q) - 1 /\ s + 1 = p /\ T[p] = q
    \/ \E q \in Quotes : cs = Inner(q) /\ InQuote(T, s, p, p + 1, q)
    \/ \E q \in Quotes : cs = 1 /\ back = <<8, Inner(q)>> /\ T[p] = Backslash /\ InQuote(T, s, p, p, q)
    \/ cs = 8 /\ s + 3 <= p /\ T[s + 1] \in Quotes /\ CloseOf(T, s + 1) = p
    \/ cs = 0 /\ s + 2 <= p /\ T[s + 1] \in Quotes /\ CloseOf(T, s + 1) = s + 2

\* The answer for the text is the arguments so far, and what the part from k on adds.
AllRead(T, args, k) ==
    ArgsFrom(T)[1] = [args |-> args \o ArgsFrom(T)[k].args, ret |-> ArgsFrom(T)[k].ret]

\* How the place of a run moves on.
LEMMA RunMoves ==
    ASSUME NEW T \in Seq(LineChars), NEW stop, NEW i \in 1 .. Len(T) + 2
    PROVE  /\ i > Len(T) => LastOfRun(T, i, stop) = i - 1
           /\ i <= Len(T) /\ T[i] \in stop => LastOfRun(T, i, stop) = i - 1
           /\ i <= Len(T) /\ T[i] \notin stop /\ T[i] = Backslash =>
                 LastOfRun(T, i, stop) = LastOfRun(T, i + 2, stop)
           /\ i <= Len(T) /\ T[i] \notin stop /\ T[i] # Backslash =>
                 LastOfRun(T, i, stop) = LastOfRun(T, i + 1, stop)
<1> DEFINE n == Len(T)
<1>1. n \in Nat /\ i \in 1 .. n + 2
  BY LenProperties
<1>2. LastOfRun(T, i, stop) =
             IF i > n \/ (i <= n /\ T[i] \in stop) THEN i - 1
             ELSE LastOfRun(T, UnitEnd(T, i) + 1, stop)
  BY RunStep
<1> HIDE DEF n
<1>3. /\ T[i] = Backslash => UnitEnd(T, i) + 1 = i + 2
      /\ T[i] # Backslash => UnitEnd(T, i) + 1 = i + 1
  BY <1>1 DEF UnitEnd
<1>5. i > n => LastOfRun(T, i, stop) = i - 1
  BY <1>2
<1>6. i <= n /\ T[i] \in stop => LastOfRun(T, i, stop) = i - 1
  BY <1>2
<1>7. i <= n /\ T[i] \notin stop => LastOfRun(T, i, stop) = LastOfRun(T, UnitEnd(T, i) + 1, stop)
  BY <1>1, <1>2
<1> QED
  BY <1>3, <1>5, <1>6, <1>7 DEF n

\* The argument that ends at p is the next one of the answer.
LEMMA ArgEnds ==
    ASSUME NEW T \in Seq(LineChars), NEW args \in Seq(Seq(LineChars)),
           NEW s \in Nat, NEW p \in s + 1 .. Len(T), AllRead(T, args, s + 1),
           s + 1 \notin LastPlaces(T), LastOfArg(T, s + 1) = p, T[s + 1] # Blank
    PROVE  /\ Append(args, SubSeq(T, s + 1, p)) \in Seq(Seq(LineChars))
           /\ AllRead(T, Append(args, SubSeq(T, s + 1, p)), p + 1)
<1> DEFINE n == Len(T)
           f == ArgsFrom(T)
           arg == SubSeq(T, s + 1, p)
           rest == f[p + 1]
<1>1. n \in Nat /\ s + 1 \in 1 .. n /\ p \in s + 1 .. n /\ p \in 0 .. n /\ s + 1 \in 1 .. n + 1
  BY LenProperties
<1>2. arg \in Seq(LineChars)
  BY <1>1, Stretch
<1>3. f[s + 1] = ArgsAt(f, T, s + 1)
  <2>1. s + 1 \in 1 .. n + 2
    BY <1>1
  <2> QED
    BY <2>1, ArgsStep
<1>4. rest \in Answers
  <2>1. p + 1 \in 1 .. n + 2
    BY <1>1
  <2> QED
    BY <2>1, ArgsTyped
<1>5. f[s + 1] = ArgFirst(arg, rest)
  <2> HIDE DEF f
  <2> QED
    BY <1>3 DEF ArgsAt
<1>6. f[1] = [args |-> args \o f[s + 1].args, ret |-> f[s + 1].ret]
  BY DEF AllRead
<1> HIDE DEF arg, rest, f
<1>7. rest.args \in Seq(Seq(LineChars)) /\ <<arg>> \in Seq(Seq(LineChars))
  BY <1>2, <1>4 DEF Answers
<1>8. f[s + 1].args = <<arg>> \o rest.args /\ f[s + 1].ret = rest.ret
  BY <1>5 DEF ArgFirst
<1>9. args \o (<<arg>> \o rest.args) = (args \o <<arg>>) \o rest.args
  <2> DEFINE one == <<arg>>
             more == rest.args
  <2>1. one \in Seq(Seq(LineChars)) /\ more \in Seq(Seq(LineChars))
    BY <1>7
  <2> HIDE DEF one, more
  <2>2. Cat(Cat(args, one), more) = Cat(args, Cat(one, more))
    BY <2>1, CatFacts
  <2> QED
    BY <2>2, Zenon DEF Cat, one, more
<1>10. args \o <<arg>> = Append(args, arg)
  BY <1>2
<1>11. Append(args, arg) \in Seq(Seq(LineChars))
  BY <1>2
<1>12. f[1] = [args |-> Append(args, arg) \o rest.args, ret |-> rest.ret]
  BY <1>6, <1>8, <1>9, <1>10, Zenon
<1> QED
  BY <1>11, <1>12 DEF AllRead, arg, rest, f

\* A plain argument ends before a blank or a quote, or at the end of the text.
LEMMA PlainEnds ==
    ASSUME NEW T \in Seq(LineChars), NEW s \in Nat, NEW p \in s + 1 .. Len(T),
           InPlain(T, s, p, p + 1), p = Len(T) \/ T[p + 1] \in Stops
    PROVE  s + 1 \notin LastPlaces(T) /\ LastOfArg(T, s + 1) = p /\ T[s + 1] # Blank
<1> DEFINE n == Len(T)
<1>1. n \in Nat /\ p <= n /\ s + 1 <= n /\ p + 1 \in 1 .. n + 2 /\ p \in Nat
  BY LenProperties
<1>2. LastOfRun(T, p + 1, Stops) = p
  <2>1. LastOfRun(T, p + 1, Stops) = (p + 1) - 1
    <3>1. p + 1 > n \/ (p + 1 <= n /\ T[p + 1] \in Stops)
      BY <1>1
    <3> QED
      BY <1>1, <3>1, RunMoves
  <2> QED
    BY <1>1, <2>1
<1>3. EndOf(T, s + 1) = p /\ T[s + 1] \notin Stops
  BY <1>2 DEF InPlain
<1>4. T[s + 1] # Blank /\ T[s + 1] \notin Quotes
  BY <1>3 DEF Stops, Quotes
<1> HIDE DEF n
<1>5. s + 1 \notin LastPlaces(T)
  BY <1>1, <1>3, <1>4 DEF LastPlaces, n
<1> QED
  BY <1>3, <1>4, <1>5 DEF LastOfArg

\* A quoted argument ends with its closing quote.
LEMMA QuoteEnds ==
    ASSUME NEW T \in Seq(LineChars), NEW s \in Nat, NEW p \in s + 3 .. Len(T),
           T[s + 1] \in Quotes, CloseOf(T, s + 1) = p
    PROVE  s + 1 \notin LastPlaces(T) /\ LastOfArg(T, s + 1) = p /\ T[s + 1] # Blank
<1> DEFINE n == Len(T)
<1>1. n \in Nat /\ p <= n /\ s + 1 <= n /\ p # (s + 1) + 1 /\ p \in Nat
  BY LenProperties
<1>2. T[s + 1] # Blank /\ T[s + 1] \in Stops
  BY Classes
<1> HIDE DEF n
<1>5. s + 1 \notin LastPlaces(T)
  BY <1>1, <1>2 DEF LastPlaces, n
<1> QED
  BY <1>2, <1>5 DEF LastOfArg

\* What the automaton does with the character at p, after the one before it ended
\* an argument, or a blank: the state, the states to return to and the start of
\* the argument that follow.
Starts(char, p, cs, back, s) ==
    \/ char = Blank /\ cs = 6
    \/ char = Plain /\ cs = 7 /\ s = p
    \/ char \in Quotes /\ cs = Inner(char) - 1 /\ s = p
    \/ char = Backslash /\ cs = 1 /\ back = <<7>> /\ s = p

\* What it does with a character in each state.
Moves(char, arg, p, cs, back, s, args, cs2, back2, s2, args2) ==
    \/ cs = 6 /\ args2 = args /\ Starts(char, p, cs2, back2, s2)
    \/ cs = 7 /\ char \in Stops /\ args2 = Append(args, arg) /\ Starts(char, p, cs2, back2, s2)
    \/ cs = 7 /\ char = Plain /\ cs2 = 7 /\ s2 = s /\ args2 = args
    \/ cs = 7 /\ char = Backslash /\ cs2 = 1 /\ back2 = <<7>> /\ s2 = s /\ args2 = args
    \/ cs = 8 /\ args2 = Append(args, arg) /\ Starts(char, p, cs2, back2, s2)
    \/ cs = 1 /\ back = <<7>> /\ cs2 = 7 /\ s2 = s /\ args2 = args
    \/ /\ s2 = s /\ args2 = args
       /\ \E q \in Quotes :
            \/ cs = 1 /\ back = <<8, Inner(q)>> /\ cs2 = Inner(q)
            \/ cs = Inner(q) - 1 /\ char = q /\ cs2 = 0
            \/ cs = Inner(q) /\ char = q /\ cs2 = 8
            \/ /\ cs \in {Inner(q) - 1, Inner(q)} /\ char = Backslash
               /\ cs2 = 1 /\ back2 = <<8, Inner(q)>>
            \/ cs \in {Inner(q) - 1, Inner(q)} /\ char \notin {q, Backslash} /\ cs2 = Inner(q)

\* Where the part begins that is still to be answered.
Place(cs, s, p) == IF cs = 6 THEN p + 1 ELSE s + 1

\* The state after the first character behind an argument knows what it must.
LEMMA StartKnows ==
    ASSUME NEW T \in Seq(LineChars), NEW args, NEW p \in 0 .. Len(T) - 1, AllRead(T, args, p + 1),
           NEW cs, NEW back, NEW s, Starts(T[p + 1], p, cs, back, s)
    PROVE  /\ AllRead(T, args, Place(cs, s, p + 1))
           /\ StateKnows(T, cs, back, s, p + 1)
<1> DEFINE n == Len(T)
           char == T[p + 1]
<1>1. n \in Nat /\ p \in Nat /\ p + 1 \in 1 .. n /\ p + 1 \in 1 .. n + 2 /\ p + 1 <= n /\ p + 1 > p
  BY LenProperties
<1>2. (p + 1) + 1 = p + 2
  BY <1>1
<1>3. CASE char = Blank /\ cs = 6
  <2>1. p + 1 \notin LastPlaces(T)
    BY <1>1, <1>3, Classes DEF LastPlaces
  <2>2. ArgsFrom(T)[p + 1] = ArgsFrom(T)[(p + 1) + 1]
    <3>1. ArgsFrom(T)[p + 1] = ArgsAt(ArgsFrom(T), T, p + 1)
      BY <1>1, ArgsStep
    <3> QED
      BY <1>3, <2>1, <3>1 DEF ArgsAt
  <2>3. Place(cs, s, p + 1) = (p + 1) + 1
    BY <1>3 DEF Place
  <2>4. AllRead(T, args, (p + 1) + 1)
    BY <2>2, Zenon DEF AllRead
  <2> QED
    BY <1>3, <2>3, <2>4 DEF StateKnows
<1>4. CASE char = Plain /\ cs = 7 /\ s = p
  <2>1. EndOf(T, s + 1) = LastOfRun(T, (p + 1) + 1, Stops)
    BY <1>1, <1>4, Classes, RunMoves DEF EndOf
  <2>2. s < p + 1 /\ T[s + 1] \notin Stops
    BY <1>1, <1>4, Classes
  <2>3. Place(cs, s, p + 1) = p + 1
    BY <1>4 DEF Place
  <2> QED
    BY <1>4, <2>1, <2>2, <2>3 DEF StateKnows, InPlain
<1>5. CASE char \in Quotes /\ cs = Inner(char) - 1 /\ s = p
  <2>1. cs # 6
    BY <1>5, Classes
  <2>2. Place(cs, s, p + 1) = p + 1
    BY <1>5, <2>1 DEF Place
  <2>3. \E q \in Quotes : cs = Inner(q) - 1 /\ s + 1 = p + 1 /\ T[p + 1] = q
    BY <1>5
  <2> QED
    BY <2>2, <2>3 DEF StateKnows
<1>6. CASE char = Backslash /\ cs = 1 /\ back = <<7>> /\ s = p
  <2>1. s < p + 1 /\ T[s + 1] \notin Stops /\ EndOf(T, s + 1) = LastOfRun(T, p + 1, Stops)
    BY <1>1, <1>6, Classes DEF EndOf
  <2>2. Place(cs, s, p + 1) = p + 1
    BY <1>6 DEF Place
  <2> QED
    BY <1>6, <2>1, <2>2 DEF StateKnows, InPlain
<1> QED
  BY <1>3, <1>4, <1>5, <1>6 DEF Starts

\* A text that begins with another one.
Extends(T, text) == Len(text) <= Len(T) /\ \A i \in 1 .. Len(text) : T[i] = text[i]

\* The state after any character knows what it must.
LEMMA MoveKnows ==
    ASSUME NEW T \in Seq(LineChars), NEW args \in Seq(Seq(LineChars)), NEW p \in 0 .. Len(T) - 1,
           NEW cs \in 0 .. 8, NEW back, NEW s \in 0 .. p,
           AllRead(T, args, Place(cs, s, p)), StateKnows(T, cs, back, s, p),
           NEW cs2, NEW back2, NEW s2, NEW args2,
           Moves(T[p + 1], SubSeq(T, s + 1, p), p, cs, back, s, args, cs2, back2, s2, args2)
    PROVE  /\ AllRead(T, args2, Place(cs2, s2, p + 1))
           /\ StateKnows(T, cs2, back2, s2, p + 1)
           /\ args2 \in Seq(Seq(LineChars))
<1> DEFINE n == Len(T)
           char == T[p + 1]
           arg == SubSeq(T, s + 1, p)
<1>1. n \in Nat /\ p \in Nat /\ s \in Nat /\ p + 1 \in 1 .. n /\ p + 1 \in 1 .. n + 2 /\ p + 1 <= n
      /\ s < p + 1 /\ (p + 1) + 1 = p + 2 /\ p \in 0 .. n /\ p <= n
  BY LenProperties
<1> HIDE DEF n
<1>2. CASE cs = 6 /\ args2 = args /\ Starts(char, p, cs2, back2, s2)
  <2>1. AllRead(T, args, p + 1)
    BY <1>2 DEF Place
  <2> QED
    BY <1>2, <2>1, StartKnows
<1>3. CASE cs = 7 /\ char \in Stops /\ args2 = Append(args, arg) /\ Starts(char, p, cs2, back2, s2)
  <2>1. InPlain(T, s, p, p + 1)
    BY <1>3, Classes DEF StateKnows
  <2>2. p \in s + 1 .. Len(T)
    BY <1>1, <2>1 DEF InPlain, n
  <2>3. s + 1 \notin LastPlaces(T) /\ LastOfArg(T, s + 1) = p /\ T[s + 1] # Blank
    BY <1>1, <1>3, <2>1, <2>2, PlainEnds
  <2>4. AllRead(T, args, s + 1)
    BY <1>3 DEF Place
  <2>5. args2 \in Seq(Seq(LineChars)) /\ AllRead(T, args2, p + 1)
    BY <1>1, <1>3, <2>2, <2>3, <2>4, ArgEnds
  <2> QED
    BY <1>3, <2>5, StartKnows
<1>4. CASE cs = 7 /\ char = Plain /\ cs2 = 7 /\ s2 = s /\ args2 = args
  <2>1. InPlain(T, s, p, p + 1)
    BY <1>4, Classes DEF StateKnows
  <2>2. LastOfRun(T, p + 1, Stops) = LastOfRun(T, (p + 1) + 1, Stops)
    BY <1>1, <1>4, Classes, RunMoves DEF n
  <2>3. InPlain(T, s, p + 1, (p + 1) + 1)
    BY <1>1, <2>1, <2>2 DEF InPlain
  <2> QED
    BY <1>4, <2>3 DEF StateKnows, Place
<1>5. CASE cs = 7 /\ char = Backslash /\ cs2 = 1 /\ back2 = <<7>> /\ s2 = s /\ args2 = args
  <2>1. InPlain(T, s, p, p + 1)
    BY <1>5, Classes DEF StateKnows
  <2>2. InPlain(T, s, p + 1, p + 1)
    BY <1>1, <2>1 DEF InPlain
  <2> QED
    BY <1>5, <2>2 DEF StateKnows, Place
<1>6. CASE cs = 8 /\ args2 = Append(args, arg) /\ Starts(char, p, cs2, back2, s2)
  <2>1. s + 3 <= p /\ T[s + 1] \in Quotes /\ CloseOf(T, s + 1) = p
    BY <1>6, Classes DEF StateKnows
  <2>2. p \in s + 3 .. Len(T) /\ p \in s + 1 .. Len(T)
    BY <1>1, <2>1 DEF n
  <2>3. s + 1 \notin LastPlaces(T) /\ LastOfArg(T, s + 1) = p /\ T[s + 1] # Blank
    BY <1>1, <2>1, <2>2, QuoteEnds
  <2>4. AllRead(T, args, s + 1)
    BY <1>6 DEF Place
  <2>5. args2 \in Seq(Seq(LineChars)) /\ AllRead(T, args2, p + 1)
    BY <1>1, <1>6, <2>2, <2>3, <2>4, ArgEnds
  <2> QED
    BY <1>6, <2>5, StartKnows
<1>7. CASE cs = 1 /\ back = <<7>> /\ cs2 = 7 /\ s2 = s /\ args2 = args
  <2>1. T[p] = Backslash /\ InPlain(T, s, p, p)
    <3>1. \A q \in Quotes : Inner(q) # 1 /\ Inner(q) - 1 # 1 /\ <<8, Inner(q)>> # <<7>>
      BY Classes
    <3> QED
      BY <1>7, <3>1 DEF StateKnows
  <2>2. p \in 1 .. n + 2
    BY <1>1, <2>1 DEF InPlain
  <2>3. LastOfRun(T, p, Stops) = LastOfRun(T, p + 2, Stops)
    BY <1>1, <2>1, <2>2, Classes, RunMoves DEF n
  <2>4. InPlain(T, s, p + 1, (p + 1) + 1)
    BY <1>1, <2>1, <2>3 DEF InPlain
  <2> QED
    BY <1>7, <2>4 DEF StateKnows, Place
<1>8. ASSUME s2 = s, args2 = args, NEW q \in Quotes,
             cs = 1 /\ back = <<8, Inner(q)>> /\ cs2 = Inner(q)
      PROVE  AllRead(T, args2, Place(cs2, s2, p + 1)) /\ StateKnows(T, cs2, back2, s2, p + 1)
  <2>1. T[p] = Backslash /\ InQuote(T, s, p, p, q)
    <3>1. /\ \A r \in Quotes : Inner(r) # 1 /\ Inner(r) - 1 # 1
          /\ \A r \in Quotes : Inner(r) = Inner(q) => r = q
      BY Classes
    <3>2. \A r : <<8, Inner(r)>> = <<8, Inner(q)>> => Inner(r) = Inner(q)
      OBVIOUS
    <3>3. <<8, Inner(q)>> # <<7>>
      OBVIOUS
    <3> QED
      BY <1>8, <3>1, <3>2, <3>3 DEF StateKnows
  <2>2. p \in 1 .. n + 2
    BY <1>1, <2>1 DEF InQuote
  <2>3. LastOfRun(T, p, {q}) = LastOfRun(T, p + 2, {q})
    <3>1. T[p] \notin {q}
      BY <2>1, Classes
    <3> QED
      BY <1>1, <2>1, <2>2, <3>1, RunMoves DEF n
  <2>4. InQuote(T, s, p + 1, (p + 1) + 1, q)
    BY <1>1, <2>1, <2>3 DEF InQuote
  <2>5. cs2 # 6
    BY <1>8, Classes
  <2> QED
    BY <1>8, <2>4, <2>5 DEF StateKnows, Place
\* In a quote: it begins behind s, and what is read of it does not end it.
<1>9. ASSUME NEW q \in Quotes, cs \in {Inner(q) - 1, Inner(q)}
      PROVE  /\ T[s + 1] = q /\ s + 2 <= p + 1 /\ CloseOf(T, s + 1) = LastOfRun(T, p + 1, {q}) + 1
             /\ cs = Inner(q) - 1 => s + 1 = p
             /\ cs = Inner(q) => s + 3 <= p + 1
             /\ cs # 6
  <2>1. /\ \A r \in Quotes : Inner(r) = Inner(q) => r = q
        /\ \A r \in Quotes : Inner(r) \in {3, 5}
    BY Classes
  <2>2. CASE cs = Inner(q) - 1
    <3>1. \A r \in Quotes : cs = Inner(r) - 1 => r = q
      BY <2>1, <2>2
    <3>2. \A r \in Quotes : cs # Inner(r)
      BY <2>1, <2>2
    <3>3. cs \notin {6, 7, 1, 8, 0}
      BY <2>1, <2>2
    <3>4. s + 1 = p /\ T[p] = q
      BY <3>1, <3>2, <3>3 DEF StateKnows
    <3>5. CloseOf(T, s + 1) = LastOfRun(T, p + 1, {q}) + 1
      BY <3>4, Zenon DEF CloseOf
    <3> QED
      BY <1>1, <2>1, <2>2, <3>3, <3>4, <3>5
  <2>3. CASE cs = Inner(q)
    <3>1. \A r \in Quotes : cs = Inner(r) => r = q
      BY <2>1, <2>3
    <3>0. cs \in {3, 5} /\ \A r \in Quotes : Inner(r) - 1 \in {2, 4}
      BY <2>1, <2>3
    <3>2. \A r \in Quotes : cs # Inner(r) - 1
      BY <3>0
    <3>3. cs \notin {6, 7, 1, 8, 0}
      BY <3>0
    <3>4. InQuote(T, s, p, p + 1, q)
      BY <3>1, <3>2, <3>3 DEF StateKnows
    <3> QED
      BY <1>1, <2>1, <2>3, <3>3, <3>4 DEF InQuote
  <2> QED
    BY <1>9, <2>2, <2>3
<1>10. ASSUME s2 = s, args2 = args, NEW q \in Quotes, cs \in {Inner(q) - 1, Inner(q)},
              \/ cs = Inner(q) - 1 /\ char = q /\ cs2 = 0
              \/ cs = Inner(q) /\ char = q /\ cs2 = 8
       PROVE  AllRead(T, args2, Place(cs2, s2, p + 1)) /\ StateKnows(T, cs2, back2, s2, p + 1)
  <2>1. LastOfRun(T, p + 1, {q}) = p
    <3>1. LastOfRun(T, p + 1, {q}) = (p + 1) - 1
      BY <1>1, <1>10, RunMoves DEF n
    <3> QED
      BY <1>1, <3>1
  <2>2. CloseOf(T, s + 1) = p + 1 /\ T[s + 1] \in Quotes /\ cs # 6 /\ cs2 # 6
    BY <1>1, <1>9, <1>10, <2>1
  <2>3. AllRead(T, args, s + 1)
    BY <2>2 DEF Place
  <2>4. AllRead(T, args2, Place(cs2, s2, p + 1))
    BY <1>10, <2>2, <2>3 DEF Place
  <2>5. CASE cs = Inner(q) - 1 /\ cs2 = 0
    <3>1. s + 1 = p
      BY <1>9, <1>10, <2>5
    <3>2. CloseOf(T, s + 1) = s + 2 /\ s + 2 <= p + 1
      BY <1>1, <2>2, <3>1
    <3> QED
      BY <1>10, <2>2, <2>4, <2>5, <3>2 DEF StateKnows
  <2>6. CASE cs = Inner(q) /\ cs2 = 8
    <3>1. s + 3 <= p + 1
      BY <1>9, <1>10, <2>6
    <3> QED
      BY <1>10, <2>2, <2>4, <2>6, <3>1 DEF StateKnows
  <2> QED
    BY <1>10, <2>5, <2>6
<1>11. ASSUME s2 = s, args2 = args, NEW q \in Quotes, cs \in {Inner(q) - 1, Inner(q)},
              char = Backslash, cs2 = 1, back2 = <<8, Inner(q)>>
       PROVE  AllRead(T, args2, Place(cs2, s2, p + 1)) /\ StateKnows(T, cs2, back2, s2, p + 1)
  <2>1. InQuote(T, s, p + 1, p + 1, q) /\ cs # 6
    BY <1>9, <1>11 DEF InQuote
  <2> QED
    BY <1>11, <2>1 DEF StateKnows, Place
<1>12. ASSUME s2 = s, args2 = args, NEW q \in Quotes, cs \in {Inner(q) - 1, Inner(q)},
              char \notin {q, Backslash}, cs2 = Inner(q)
       PROVE  AllRead(T, args2, Place(cs2, s2, p + 1)) /\ StateKnows(T, cs2, back2, s2, p + 1)
  <2>1. LastOfRun(T, p + 1, {q}) = LastOfRun(T, (p + 1) + 1, {q})
    BY <1>1, <1>12, RunMoves DEF n
  <2>2. InQuote(T, s, p + 1, (p + 1) + 1, q) /\ cs # 6
    BY <1>9, <1>12, <2>1 DEF InQuote
  <2>3. cs2 # 6
    BY <1>12, Classes
  <2> QED
    BY <1>12, <2>2, <2>3 DEF StateKnows, Place
<1>13. ASSUME s2 = s, args2 = args,
              \E q \in Quotes :
                 \/ cs = 1 /\ back = <<8, Inner(q)>> /\ cs2 = Inner(q)
                 \/ cs = Inner(q) - 1 /\ char = q /\ cs2 = 0
                 \/ cs = Inner(q) /\ char = q /\ cs2 = 8
                 \/ /\ cs \in {Inner(q) - 1, Inner(q)} /\ char = Backslash
                    /\ cs2 = 1 /\ back2 = <<8, Inner(q)>>
                 \/ cs \in {Inner(q) - 1, Inner(q)} /\ char \notin {q, Backslash} /\ cs2 = Inner(q)
       PROVE  AllRead(T, args2, Place(cs2, s2, p + 1)) /\ StateKnows(T, cs2, back2, s2, p + 1)
  <2> HIDE DEF char
  <2> QED
    BY <1>8, <1>10, <1>11, <1>12, <1>13
<1>14. \/ cs = 6 /\ args2 = args /\ Starts(char, p, cs2, back2, s2)
       \/ cs = 7 /\ char \in Stops /\ args2 = Append(args, arg) /\ Starts(char, p, cs2, back2, s2)
       \/ cs = 7 /\ char = Plain /\ cs2 = 7 /\ s2 = s /\ args2 = args
       \/ cs = 7 /\ char = Backslash /\ cs2 = 1 /\ back2 = <<7>> /\ s2 = s /\ args2 = args
       \/ cs = 8 /\ args2 = Append(args, arg) /\ Starts(char, p, cs2, back2, s2)
       \/ cs = 1 /\ back = <<7>> /\ cs2 = 7 /\ s2 = s /\ args2 = args
       \/ /\ s2 = s /\ args2 = args
          /\ \E q \in Quotes :
                 \/ cs = 1 /\ back = <<8, Inner(q)>> /\ cs2 = Inner(q)
                 \/ cs = Inner(q) - 1 /\ char = q /\ cs2 = 0
                 \/ cs = Inner(q) /\ char = q /\ cs2 = 8
                 \/ /\ cs \in {Inner(q) - 1, Inner(q)} /\ char = Backslash
                    /\ cs2 = 1 /\ back2 = <<8, Inner(q)>>
                 \/ cs \in {Inner(q) - 1, Inner(q)} /\ char \notin {q, Backslash} /\ cs2 = Inner(q)
  BY Zenon DEF Moves
<1> HIDE DEF char, arg
<1> QED
  BY <1>2, <1>3, <1>4, <1>5, <1>6, <1>7, <1>13, <1>14, Zenon

\* Which lists push an argument, and which set its start.
LEMMA ListEffects ==
    /\ \A acts \in {<<3>>, <<3, 2>>, <<3, 2, 9>>, <<3, 2, 10>>, <<3, 2, 11>>} : Has(acts, 3)
    /\ \A acts \in {<<>>, <<2>>, <<4>>, <<5>>, <<6>>, <<7>>, <<8>>, <<11>>,
                    <<2, 9>>, <<2, 10>>, <<2, 11>>} : ~Has(acts, 3)
    /\ \A acts \in {<<2>>, <<3, 2>>, <<2, 9>>, <<2, 10>>, <<2, 11>>,
                    <<3, 2, 9>>, <<3, 2, 10>>, <<3, 2, 11>>} : Has(acts, 2)
    /\ \A acts \in {<<>>, <<3>>, <<4>>, <<5>>, <<6>>, <<7>>, <<8>>, <<11>>} : ~Has(acts, 2)
<1>1. /\ Has(<<3>>, 3) /\ Has(<<3, 2>>, 3) /\ Has(<<3, 2, 9>>, 3) /\ Has(<<3, 2, 10>>, 3) /\ Has(<<3, 2, 11>>, 3)
  BY HasList
<1>2. /\ ~Has(<<>>, 3) /\ ~Has(<<2>>, 3) /\ ~Has(<<4>>, 3) /\ ~Has(<<5>>, 3) /\ ~Has(<<6>>, 3) /\ ~Has(<<7>>, 3)
      /\ ~Has(<<8>>, 3) /\ ~Has(<<11>>, 3) /\ ~Has(<<2, 9>>, 3) /\ ~Has(<<2, 10>>, 3) /\ ~Has(<<2, 11>>, 3)
  BY HasList
<1>3. /\ Has(<<2>>, 2) /\ Has(<<3, 2>>, 2) /\ Has(<<2, 9>>, 2) /\ Has(<<2, 10>>, 2) /\ Has(<<2, 11>>, 2)
      /\ Has(<<3, 2, 9>>, 2) /\ Has(<<3, 2, 10>>, 2) /\ Has(<<3, 2, 11>>, 2)
  BY HasList
<1>4. /\ ~Has(<<>>, 2) /\ ~Has(<<3>>, 2) /\ ~Has(<<4>>, 2) /\ ~Has(<<5>>, 2) /\ ~Has(<<6>>, 2)
      /\ ~Has(<<7>>, 2) /\ ~Has(<<8>>, 2) /\ ~Has(<<11>>, 2)
  BY HasList
<1> QED
  BY <1>1, <1>2, <1>3, <1>4, Zenon

\* The automaton moves as its tables say.
LEMMA TablesMove ==
    ASSUME ArgvInv, ReadLineChar
    PROVE  \E char \in LineChars :
             /\ argv_text' = Append(argv_text, char)
             /\ Moves(char, ArgumentUpTo(Len(argv_text)), Len(argv_text), argv_cs, argv_stack, argv_s, argv,
                      argv_cs', argv_stack', argv_s', argv')
<1>1. PICK char \in LineChars :
        /\ argv_text' = Append(argv_text, char)
        /\ argv' = IF Has(Acts(argv_cs, char), 3)
                   THEN Append(argv, ArgumentUpTo(Len(argv_text))) ELSE argv
        /\ argv_s' = IF Has(Acts(argv_cs, char), 2) THEN Len(argv_text) ELSE argv_s
        /\ (\E act \in DOMAIN Calls : Has(Acts(argv_cs, char), act))
           => /\ argv_cs' = Calls[CHOOSE act \in DOMAIN Calls : Has(Acts(argv_cs, char), act)]
              /\ argv_stack' = Append(argv_stack, Targ(argv_cs, char))
        /\ GoesBack(Acts(argv_cs, char))
           => /\ argv_cs' = argv_stack[Len(argv_stack)]
              /\ argv_stack' = SubSeq(argv_stack, 1, Len(argv_stack) - 1)
        /\ GoesAhead(Acts(argv_cs, char))
           => argv_cs' = Targ(argv_cs, char) /\ argv_stack' = argv_stack
  BY DEF ReadLineChar, Acts, Targ, GoesBack, GoesAhead
<1> DEFINE acts == Acts(argv_cs, char)
           targ == Targ(argv_cs, char)
           p == Len(argv_text)
           arg == ArgumentUpTo(p)
           M == Moves(char, arg, p, argv_cs, argv_stack, argv_s, argv,
                      argv_cs', argv_stack', argv_s', argv')
<1>2. /\ Has(acts, 3) => argv' = Append(argv, arg)
      /\ ~Has(acts, 3) => argv' = argv
      /\ Has(acts, 2) => argv_s' = p
      /\ ~Has(acts, 2) => argv_s' = argv_s
  BY <1>1
<1>3. \A entry : CallsFor(acts, entry) => argv_cs' = entry /\ argv_stack' = Append(argv_stack, targ)
  BY <1>1 DEF CallsFor
<1>4. /\ GoesBack(acts) => /\ argv_cs' = argv_stack[Len(argv_stack)]
                           /\ argv_stack' = SubSeq(argv_stack, 1, Len(argv_stack) - 1)
      /\ GoesAhead(acts) => argv_cs' = targ /\ argv_stack' = argv_stack
  BY <1>1
<1>5. /\ \/ argv_cs \in 6 .. 8 /\ argv_stack = <<>>
         \/ argv_cs \in 2 .. 5 /\ argv_stack = <<8>>
         \/ argv_cs = 1 /\ argv_stack \in {<<7>>, <<8, 3>>, <<8, 5>>}
      /\ argv_cs \in 1 .. 8
  BY DEF ArgvInv, ArgvStackInv, ReadLineChar
<1>6. char \in {Blank, Plain, DQuote, SQuote, Backslash}
  BY Classes
<1> HIDE DEF p, arg
\* Behind an argument, or before one.
<1>7. ASSUME argv_cs \in {6, 7, 8}
      PROVE  /\ char \in {Blank, Plain} => \/ argv_cs = 7 /\ char = Plain /\ acts = <<>> /\ targ = 7
                                           \/ Starts(char, p, argv_cs', argv_stack', argv_s')
             /\ char \in Quotes \cup {Backslash} =>
                  \/ argv_cs = 7 /\ char = Backslash /\ acts = <<11>> /\ targ = 7
                  \/ Starts(char, p, argv_cs', argv_stack', argv_s')
  <2>1. argv_stack = <<>>
    BY <1>5, <1>7
  <2>2. Append(<<>>, 7) = <<7>>
    OBVIOUS
  <2>3. CASE char = Blank
    <3>1. acts \in {<<>>, <<3>>} /\ targ = 6
      BY <1>7, <2>3, ArgvTable
    <3> HIDE DEF acts, targ
    <3>2. argv_cs' = 6
      BY <1>4, <3>1, ListKinds
    <3> QED
      BY <2>3, <3>2, Classes DEF Starts
  <2>4. CASE char = Plain
    <3>1. (argv_cs = 7 /\ acts = <<>> /\ targ = 7) \/ (acts \in {<<2>>, <<3, 2>>} /\ targ = 7)
      BY <1>7, <2>4, ArgvTable
    <3> HIDE DEF acts, targ
    <3>2. CASE acts \in {<<2>>, <<3, 2>>} /\ targ = 7
      <4>1. argv_cs' = 7 /\ argv_s' = p
        BY <1>2, <1>4, <3>2, ListKinds, ListEffects
      <4> QED
        BY <2>4, <4>1, Classes DEF Starts
    <3> QED
      BY <2>4, <3>1, <3>2, Classes
  <2>5. CASE char = DQuote
    <3>1. acts \in {<<2, 10>>, <<3, 2, 10>>} /\ targ = 8
      BY <1>7, <2>5, ArgvTable
    <3> HIDE DEF acts, targ
    <3>2. argv_cs' = 2 /\ argv_s' = p
      BY <1>2, <1>3, <3>1, ListKinds, ListEffects
    <3>3. Inner(char) - 1 = 2 /\ char \in Quotes
      BY <2>5, Classes
    <3> QED
      BY <2>5, <3>2, <3>3, Classes DEF Starts
  <2>6. CASE char = SQuote
    <3>1. acts \in {<<2, 9>>, <<3, 2, 9>>} /\ targ = 8
      BY <1>7, <2>6, ArgvTable
    <3> HIDE DEF acts, targ
    <3>2. argv_cs' = 4 /\ argv_s' = p
      BY <1>2, <1>3, <3>1, ListKinds, ListEffects
    <3>3. Inner(char) - 1 = 4 /\ char \in Quotes
      BY <2>6, Classes
    <3> QED
      BY <2>6, <3>2, <3>3, Classes DEF Starts
  <2>7. CASE char = Backslash
    <3>1. (argv_cs = 7 /\ acts = <<11>> /\ targ = 7) \/ (acts \in {<<2, 11>>, <<3, 2, 11>>} /\ targ = 7)
      BY <1>7, <2>7, ArgvTable
    <3> HIDE DEF acts, targ
    <3>2. CASE acts \in {<<2, 11>>, <<3, 2, 11>>} /\ targ = 7
      <4>1. argv_cs' = 1 /\ argv_s' = p /\ argv_stack' = <<7>>
        BY <1>2, <1>3, <2>1, <2>2, <3>2, ListKinds, ListEffects
      <4> QED
        BY <2>7, <4>1, Classes DEF Starts
    <3> QED
      BY <2>7, <3>1, <3>2, Classes
  <2> QED
    BY <1>6, <2>3, <2>4, <2>5, <2>6, <2>7, Classes
<1>8. CASE argv_cs = 6
  <2>1. Starts(char, p, argv_cs', argv_stack', argv_s')
    BY <1>6, <1>7, <1>8, Classes
  <2>2. acts \in {<<>>, <<2>>, <<2, 9>>, <<2, 10>>, <<2, 11>>}
    BY <1>6, <1>8, ArgvTable
  <2>3. argv' = argv
    <3> HIDE DEF acts
    <3> QED
      BY <1>2, <2>2, ListEffects
  <2> QED
    BY <1>1, <1>8, <2>1, <2>3 DEF Moves, arg, p
<1>9. CASE argv_cs = 8
  <2>1. Starts(char, p, argv_cs', argv_stack', argv_s')
    BY <1>6, <1>7, <1>9, Classes
  <2>2. acts \in {<<3>>, <<3, 2>>, <<3, 2, 9>>, <<3, 2, 10>>, <<3, 2, 11>>}
    BY <1>6, <1>9, ArgvTable
  <2>3. argv' = Append(argv, arg)
    <3> HIDE DEF acts
    <3> QED
      BY <1>2, <2>2, ListEffects
  <2> QED
    BY <1>1, <1>9, <2>1, <2>3 DEF Moves, arg, p
<1>10. CASE argv_cs = 7
  <2>1. CASE char \in Stops
    <3>1. Starts(char, p, argv_cs', argv_stack', argv_s')
      BY <1>6, <1>7, <1>10, <2>1, Classes
    <3>2. acts \in {<<3>>, <<3, 2, 9>>, <<3, 2, 10>>}
      BY <1>6, <1>10, <2>1, ArgvTable, Classes
    <3>3. argv' = Append(argv, arg)
      <4> HIDE DEF acts
      <4> QED
        BY <1>2, <3>2, ListEffects
    <3> QED
      BY <1>1, <1>10, <2>1, <3>1, <3>3 DEF Moves, arg, p
  <2>2. CASE char = Plain
    <3>1. acts = <<>> /\ targ = 7
      BY <1>10, <2>2, ArgvTable
    <3>2. argv_cs' = 7 /\ argv' = argv /\ argv_s' = argv_s
      <4> HIDE DEF acts, targ
      <4> QED
        BY <1>2, <1>4, <3>1, ListKinds, ListEffects
    <3> QED
      BY <1>1, <1>10, <2>2, <3>2 DEF Moves, arg, p
  <2>3. CASE char = Backslash
    <3>1. acts = <<11>> /\ targ = 7
      BY <1>10, <2>3, ArgvTable
    <3>2. argv_stack = <<>> /\ Append(<<>>, 7) = <<7>>
      BY <1>5, <1>10
    <3>3. argv_cs' = 1 /\ argv' = argv /\ argv_s' = argv_s /\ argv_stack' = <<7>>
      <4> HIDE DEF acts, targ
      <4> QED
        BY <1>2, <1>3, <3>1, <3>2, ListKinds, ListEffects
    <3> QED
      BY <1>1, <1>10, <2>3, <3>3 DEF Moves, arg, p
  <2> QED
    BY <1>6, <2>1, <2>2, <2>3, Classes
\* Behind a backslash.
<1>11. CASE argv_cs = 1
  <2>1. acts = <<4>>
    BY <1>11, ArgvTable
  <2>2. argv' = argv /\ argv_s' = argv_s /\ argv_cs' = argv_stack[Len(argv_stack)]
    <3> HIDE DEF acts
    <3> QED
      BY <1>2, <1>4, <2>1, ListKinds, ListEffects
  <2>3. CASE argv_stack = <<7>>
    <3>1. argv_cs' = 7
      BY <2>2, <2>3
    <3> QED
      BY <1>1, <1>11, <2>2, <2>3, <3>1 DEF Moves, arg, p
  <2>4. CASE argv_stack \in {<<8, 3>>, <<8, 5>>}
    <3>1. PICK q \in Quotes : argv_stack = <<8, Inner(q)>>
      BY <2>4, Classes
    <3>2. argv_cs' = Inner(q)
      <4>1. Len(<<8, Inner(q)>>) = 2 /\ <<8, Inner(q)>>[2] = Inner(q)
        BY Two, Zenon
      <4> QED
        BY <2>2, <3>1, <4>1
    <3> QED
      BY <1>1, <1>11, <2>2, <3>1, <3>2 DEF Moves, arg, p
  <2> QED
    BY <1>5, <1>11, <2>3, <2>4
\* Between quotes.
<1>12. ASSUME NEW q \in Quotes, argv_cs \in {Inner(q) - 1, Inner(q)} PROVE M
  <2>1. argv_stack = <<8>>
    BY <1>5, <1>12, Classes
  <2>2. CASE char = q /\ argv_cs = Inner(q) - 1
    <3>1. acts = <<>> /\ targ = 0
      BY <1>12, <2>2, Classes, ArgvTable
    <3>2. argv_cs' = 0 /\ argv' = argv /\ argv_s' = argv_s
      <4> HIDE DEF acts, targ
      <4> QED
        BY <1>2, <1>4, <3>1, ListKinds, ListEffects
    <3> QED
      BY <1>1, <2>2, <3>2 DEF Moves, arg, p
  <2>3. CASE char = q /\ argv_cs = Inner(q)
    <3>1. acts \in {<<6>>, <<8>>}
      BY <1>12, <2>3, Classes, ArgvTable
    <3>2. argv_cs' = argv_stack[Len(argv_stack)] /\ argv' = argv /\ argv_s' = argv_s
      <4> HIDE DEF acts
      <4> QED
        BY <1>2, <1>4, <3>1, ListKinds, ListEffects
    <3>3. argv_cs' = 8
      BY <2>1, <3>2
    <3> QED
      BY <1>1, <2>3, <3>2, <3>3 DEF Moves, arg, p
  <2>4. CASE char = Backslash
    <3>1. acts \in {<<5>>, <<7>>} /\ targ = Inner(q)
      BY <1>12, <2>4, Classes, ArgvTable
    <3>2. argv_cs' = 1 /\ argv_stack' = Append(<<8>>, Inner(q)) /\ argv' = argv /\ argv_s' = argv_s
      <4> HIDE DEF acts, targ
      <4> QED
        BY <1>2, <1>3, <2>1, <3>1, ListKinds, ListEffects
    <3>3. argv_stack' = <<8, Inner(q)>>
      BY <3>2, Two, Zenon
    <3> QED
      BY <1>1, <1>12, <2>4, <3>2, <3>3 DEF Moves, arg, p
  <2>5. CASE char \notin {q, Backslash}
    <3>1. acts = <<>> /\ targ = Inner(q)
      BY <1>12, <2>5, Classes, ArgvTable
    <3>2. argv_cs' = Inner(q) /\ argv' = argv /\ argv_s' = argv_s
      <4> HIDE DEF acts, targ
      <4> QED
        BY <1>2, <1>4, <3>1, ListKinds, ListEffects
    <3> QED
      BY <1>1, <1>12, <2>5, <3>2 DEF Moves, arg, p
  <2> QED
    BY <1>12, <2>2, <2>3, <2>4, <2>5
<1>13. argv_cs \in 2 .. 5 => \E q \in Quotes : argv_cs \in {Inner(q) - 1, Inner(q)}
  BY Classes
<1>14. CASE argv_cs \in 2 .. 5
  <2>1. M
    <3> HIDE DEF M
    <3> QED
      BY <1>12, <1>13, <1>14, Zenon
  <2> QED
    BY <1>1, <2>1 DEF p, arg
<1>15. argv_cs \in 2 .. 5 \/ argv_cs = 1 \/ argv_cs = 6 \/ argv_cs = 7 \/ argv_cs = 8
  BY <1>5
<1> QED
  BY <1>8, <1>9, <1>10, <1>11, <1>14, <1>15, Zenon

\* Where the reading ends, nothing is added.
LEMMA NoMoreArgs ==
    ASSUME NEW T \in Seq(LineChars), NEW args \in Seq(Seq(LineChars)), NEW k \in 1 .. Len(T) + 2,
           AllRead(T, args, k), k \in LastPlaces(T)
    PROVE  ArgsFrom(T)[1] = [args |-> args, ret |-> ErrorAt(T, k)]
<1>1. ArgsFrom(T)[k] = ArgsAt(ArgsFrom(T), T, k)
  BY ArgsStep
<1>2. ArgsFrom(T)[k] = NoArgs(ErrorAt(T, k))
  BY <1>1 DEF ArgsAt
<1>3. ArgsFrom(T)[k].args = <<>> /\ ArgsFrom(T)[k].ret = ErrorAt(T, k)
  BY <1>2 DEF NoArgs
<1>4. args \o <<>> = args
  BY ConcatEmptySeq
<1> QED
  BY <1>3, <1>4, Zenon DEF AllRead

\* The answer when the text ends in a state.
LEMMA EndKnows ==
    ASSUME NEW T \in Seq(LineChars), NEW args \in Seq(Seq(LineChars)), NEW cs \in 0 .. 8, NEW back,
           NEW s \in 0 .. Len(T), AllRead(T, args, Place(cs, s, Len(T))),
           StateKnows(T, cs, back, s, Len(T))
    PROVE  /\ cs \in {7, 8} =>
                ArgsFrom(T)[1] = [args |-> Append(args, SubSeq(T, s + 1, Len(T))), ret |-> "EOK"]
           /\ cs \in {0, 1, 2, 4, 6} => ArgsFrom(T)[1] = [args |-> args, ret |-> "EOK"]
           /\ cs = 3 => ArgsFrom(T)[1] = [args |-> args, ret |-> "EDQUOTE"]
           /\ cs = 5 => ArgsFrom(T)[1] = [args |-> args, ret |-> "ESQUOTE"]
<1> DEFINE n == Len(T)
<1>1. n \in Nat /\ s \in Nat /\ s <= n /\ n + 1 \in 1 .. n + 2 /\ n + 1 > n /\ ~(n + 1 < n)
  BY LenProperties
<1> HIDE DEF n
<1>2. n + 1 \in LastPlaces(T) /\ ErrorAt(T, n + 1) = "EOK"
  BY <1>1 DEF LastPlaces, ErrorAt, n
<1>3. \A stop : LastOfRun(T, n + 1, stop) = n
  <2>1. \A stop : LastOfRun(T, n + 1, stop) = (n + 1) - 1
    BY <1>1, RunMoves DEF n
  <2> QED
    BY <1>1, <2>1
<1>4. \A stop : T[n] = Backslash /\ n \in 1 .. n /\ Backslash \notin stop => LastOfRun(T, n, stop) = n + 1
  <2> SUFFICES ASSUME NEW stop, T[n] = Backslash, n \in 1 .. n, Backslash \notin stop
               PROVE  LastOfRun(T, n, stop) = n + 1
    OBVIOUS
  <2>1. n \in 1 .. n + 2 /\ n + 2 \in 1 .. n + 2 /\ n <= n /\ n + 2 > n /\ (n + 2) - 1 = n + 1
    BY <1>1
  <2>2. LastOfRun(T, n, stop) = LastOfRun(T, n + 2, stop)
    BY <2>1, RunMoves DEF n
  <2>3. LastOfRun(T, n + 2, stop) = (n + 2) - 1
    BY <2>1, RunMoves DEF n
  <2> QED
    BY <2>1, <2>2, <2>3
<1>5. CASE cs = 6
  <2>1. AllRead(T, args, n + 1)
    BY <1>5 DEF Place, n
  <2> QED
    BY <1>1, <1>2, <1>5, <2>1, NoMoreArgs DEF n
<1>6. cs # 6 => AllRead(T, args, s + 1)
  BY DEF Place
<1>7. CASE cs \in {7, 8}
  <2>1. \A q \in Quotes : Inner(q) \in {3, 5}
    BY Classes
  <2>2. \/ cs = 7 /\ InPlain(T, s, n, n + 1)
        \/ cs = 8 /\ s + 3 <= n /\ T[s + 1] \in Quotes /\ CloseOf(T, s + 1) = n
    <3>1. \A q \in Quotes : cs # Inner(q) - 1 /\ cs # Inner(q)
      BY <1>7, <2>1
    <3> QED
      BY <1>7, <3>1 DEF StateKnows, n
  <2>3. n \in s + 1 .. Len(T) /\ (cs = 8 => n \in s + 3 .. Len(T))
    BY <1>1, <2>2 DEF InPlain, n
  <2>4. s + 1 \notin LastPlaces(T) /\ LastOfArg(T, s + 1) = n /\ T[s + 1] # Blank
    <3>1. CASE cs = 7
      BY <1>1, <2>2, <2>3, <3>1, PlainEnds DEF n
    <3>2. CASE cs = 8
      BY <1>1, <2>2, <2>3, <3>2, QuoteEnds DEF n
    <3> QED
      BY <1>7, <3>1, <3>2
  <2>5. AllRead(T, args, s + 1)
    BY <1>6, <1>7
  <2> DEFINE more == Append(args, SubSeq(T, s + 1, n))
  <2>6. more \in Seq(Seq(LineChars)) /\ AllRead(T, more, n + 1)
    BY <1>1, <2>3, <2>4, <2>5, ArgEnds
  <2> HIDE DEF more
  <2>7. ArgsFrom(T)[1] = [args |-> more, ret |-> "EOK"]
    BY <1>1, <1>2, <2>6, NoMoreArgs DEF n
  <2> QED
    BY <1>7, <2>7 DEF more, n
\* In the other states the part from the start of the argument on adds nothing.
<1>8. ASSUME cs # 6, s + 1 \in 1 .. n, s + 1 \in LastPlaces(T)
      PROVE  ArgsFrom(T)[1] = [args |-> args, ret |-> ErrorAt(T, s + 1)]
  <2>1. s + 1 \in 1 .. n + 2
    BY <1>1, <1>8
  <2> QED
    BY <1>6, <1>8, <2>1, NoMoreArgs DEF n
<1>9. ASSUME s + 1 \in 1 .. n, T[s + 1] \in Quotes, CloseOf(T, s + 1) > n \/ CloseOf(T, s + 1) = (s + 1) + 1
      PROVE  s + 1 \in LastPlaces(T)
  <2>1. s + 1 \in 1 .. n + 2
    BY <1>1, <1>9
  <2> QED
    BY <1>9, <2>1 DEF LastPlaces, n
<1>10. CASE cs = 0
  <2>1. s + 2 <= n /\ T[s + 1] \in Quotes /\ CloseOf(T, s + 1) = s + 2
    <3>1. \A q \in Quotes : cs # Inner(q) - 1 /\ cs # Inner(q)
      BY <1>10, Classes
    <3> QED
      BY <1>10, <3>1 DEF StateKnows, n
  <2>2. s + 1 \in 1 .. n /\ CloseOf(T, s + 1) = (s + 1) + 1 /\ CloseOf(T, s + 1) # n + 1
    BY <1>1, <2>1
  <2>3. ErrorAt(T, s + 1) = "EOK"
    BY <2>2 DEF ErrorAt, n
  <2>4. s + 1 \in LastPlaces(T)
    BY <1>9, <2>1, <2>2
  <2> QED
    BY <1>8, <1>10, <2>2, <2>3, <2>4
<1>11. CASE cs = 1
  <2>0. \A q \in Quotes : cs # Inner(q) - 1 /\ cs # Inner(q)
    BY <1>11, Classes
  <2>1. CASE T[n] = Backslash /\ InPlain(T, s, n, n)
    <3>1. s + 1 \in 1 .. n /\ n \in 1 .. n /\ T[s + 1] \notin Stops /\ s + 1 \in 1 .. n + 2
      BY <1>1, <2>1 DEF InPlain
    <3>2. EndOf(T, s + 1) = n + 1
      BY <1>4, <2>1, <3>1, Classes DEF InPlain
    <3>3. s + 1 \in LastPlaces(T)
      BY <1>1, <3>1, <3>2 DEF LastPlaces, n
    <3>4. ErrorAt(T, s + 1) = "EOK"
      BY <3>1 DEF ErrorAt, Stops, Quotes
    <3> QED
      BY <1>8, <1>11, <3>1, <3>3, <3>4
  <2>2. ASSUME NEW q \in Quotes, T[n] = Backslash, InQuote(T, s, n, n, q)
        PROVE  ArgsFrom(T)[1] = [args |-> args, ret |-> "EOK"]
    <3>1. s + 1 \in 1 .. n /\ n \in 1 .. n /\ T[s + 1] \in Quotes
      BY <1>1, <2>2 DEF InQuote
    <3>2. LastOfRun(T, n, {q}) = n + 1
      <4>1. Backslash \notin {q}
        BY Classes
      <4> QED
        BY <1>4, <2>2, <3>1, <4>1
    <3>3. CloseOf(T, s + 1) > n /\ CloseOf(T, s + 1) # n + 1
      BY <1>1, <2>2, <3>2 DEF InQuote
    <3>4. s + 1 \in LastPlaces(T)
      BY <1>9, <3>1, <3>3
    <3>5. ErrorAt(T, s + 1) = "EOK"
      BY <3>3 DEF ErrorAt, n
    <3> QED
      BY <1>8, <1>11, <3>1, <3>4, <3>5
  <2>3. \/ T[n] = Backslash /\ InPlain(T, s, n, n)
        \/ \E q \in Quotes : T[n] = Backslash /\ InQuote(T, s, n, n, q)
    BY <1>11, <2>0 DEF StateKnows, n
  <2> QED
    BY <1>11, <2>1, <2>2, <2>3
<1>12. CASE cs \in {2, 4}
  <2>1. s + 1 = n /\ T[n] \in Quotes
    <3>1. \A q \in Quotes : cs # Inner(q)
      BY <1>12, Classes
    <3> QED
      BY <1>12, <3>1 DEF StateKnows, n
  <2>2. CloseOf(T, s + 1) = n + 1
    BY <1>3, <2>1 DEF CloseOf
  <2>3. s + 1 \in 1 .. n /\ ~(s + 1 < n)
    BY <1>1, <2>1
  <2>4. s + 1 \in LastPlaces(T)
    BY <1>1, <1>9, <2>1, <2>2, <2>3
  <2>5. ErrorAt(T, s + 1) = "EOK"
    BY <2>3 DEF ErrorAt, n
  <2> QED
    BY <1>8, <1>12, <2>3, <2>4, <2>5
<1>13. CASE cs \in {3, 5}
  <2>1. PICK q \in Quotes : cs = Inner(q) /\ InQuote(T, s, n, n + 1, q)
    <3>1. \A q \in Quotes : cs # Inner(q) - 1
      BY <1>13, Classes
    <3> QED
      BY <1>13, <3>1 DEF StateKnows, n
  <2>2. s + 1 \in 1 .. n /\ s + 1 < n /\ T[s + 1] = q
    BY <1>1, <2>1 DEF InQuote
  <2>3. CloseOf(T, s + 1) = n + 1
    BY <1>3, <2>1 DEF InQuote
  <2>4. s + 1 \in LastPlaces(T)
    BY <1>1, <1>9, <2>2, <2>3
  <2>5. ErrorAt(T, s + 1) = IF q = DQuote THEN "EDQUOTE" ELSE "ESQUOTE"
    BY <2>2, <2>3 DEF ErrorAt, n
  <2>6. cs = 3 <=> q = DQuote
    BY <2>1, Classes
  <2>7. ArgsFrom(T)[1] = [args |-> args, ret |-> ErrorAt(T, s + 1)]
    BY <1>8, <1>13, <2>2, <2>4
  <2> QED
    BY <1>13, <2>5, <2>6, <2>7
<1> QED
  BY <1>5, <1>7, <1>10, <1>11, <1>12, <1>13

\* Whatever follows, what is read so far is the beginning of the answer, and the
\* state knows where it is.
ArgvReadInv ==
    /\ ArgvInv /\ ArgvAnswers
    /\ argv_pc = "reading" =>
          /\ argv \in Seq(Seq(LineChars))
          /\ \A T \in Seq(LineChars) : Extends(T, argv_text) =>
                /\ AllRead(T, argv, Place(argv_cs, argv_s, Len(argv_text)))
                /\ StateKnows(T, argv_cs, argv_stack, argv_s, Len(argv_text))

\* Before the first character nothing is read.
LEMMA InitArgvReadInv == ArgvInit => ArgvReadInv
<1> SUFFICES ASSUME ArgvInit PROVE ArgvReadInv
  OBVIOUS
<1>1. argv_text = <<>> /\ argv = <<>> /\ argv_cs = 6 /\ argv_pc = "reading"
  BY DEF ArgvInit, buildargv_start
<1>2. ASSUME NEW T \in Seq(LineChars) PROVE AllRead(T, <<>>, 1)
  <2> DEFINE r == ArgsFrom(T)[1]
  <2>1. r \in Answers
    <3>1. 1 \in 1 .. Len(T) + 2
      BY LenProperties
    <3> QED
      BY <3>1, ArgsTyped
  <2> HIDE DEF r
  <2>2. r.args \in Seq(Seq(LineChars)) /\ r = [args |-> r.args, ret |-> r.ret]
    BY <2>1 DEF Answers
  <2>3. <<>> \o r.args = r.args
    BY <2>2, ConcatEmptySeq
  <2> QED
    BY <2>2, <2>3, Zenon DEF AllRead, r
<1>3. Len(argv_text) = 0 /\ Place(6, argv_s, 0) = 1 /\ \A T, s, p : StateKnows(T, 6, argv_stack, s, p)
  BY <1>1 DEF Place, StateKnows
<1>4. ArgvInv /\ ArgvAnswers /\ argv \in Seq(Seq(LineChars))
  BY <1>1, InitArgvInv DEF ArgvAnswers
<1> QED
  BY <1>1, <1>2, <1>3, <1>4 DEF ArgvReadInv

\* A part of a text is the same part of one that begins with it.
LEMMA SamePart ==
    ASSUME NEW T \in Seq(LineChars), NEW text \in Seq(LineChars), Extends(T, text),
           NEW s \in 0 .. Len(text)
    PROVE  SubSeq(T, s + 1, Len(text)) = SubSeq(text, s + 1, Len(text))
<1> DEFINE p == Len(text)
           a == SubSeq(T, s + 1, p)
           b == SubSeq(text, s + 1, p)
<1>1. /\ p \in Nat /\ Len(T) \in Nat /\ s \in Nat /\ s <= p /\ p <= Len(T)
      /\ \A i \in 1 .. p : T[i] = text[i]
  BY LenProperties DEF Extends
<1>2. s + 1 \in 1 .. Len(T) + 1 /\ p \in 0 .. Len(T) /\ s + 1 \in 1 .. p + 1 /\ p \in 0 .. p
  BY <1>1
<1> DEFINE len == IF s + 1 <= p THEN p - (s + 1) + 1 ELSE 0
<1>3. /\ a \in Seq(LineChars) /\ Len(a) = len
      /\ \A i \in 1 .. p - (s + 1) + 1 : a[i] = T[(s + 1) + i - 1]
  BY <1>2, Stretch
<1>4. /\ b \in Seq(LineChars) /\ Len(b) = len
      /\ \A i \in 1 .. p - (s + 1) + 1 : b[i] = text[(s + 1) + i - 1]
  BY <1>2, Stretch
<1> HIDE DEF a, b, p
<1>5. ASSUME NEW i \in 1 .. Len(a) PROVE a[i] = b[i]
  <2>1. i \in 1 .. p - (s + 1) + 1 /\ (s + 1) + i - 1 \in 1 .. p
    BY <1>1, <1>3
  <2> QED
    BY <1>1, <1>3, <1>4, <2>1
<1>6. a = b
  <2> HIDE DEF len
  <2> QED
    BY <1>3, <1>4, <1>5, SeqEqual
<1> QED
  BY <1>6 DEF a, b, p

\* What the end of the line does, in each state.
LEMMA EndActions ==
    /\ \A cs \in {1, 2, 4, 6} : _buildargv_actions[_buildargv_eof_actions[cs]] = <<>>
    /\ \A cs \in {7, 8} : _buildargv_actions[_buildargv_eof_actions[cs]] = <<3>>
    /\ _buildargv_actions[_buildargv_eof_actions[3]] = <<0>>
    /\ _buildargv_actions[_buildargv_eof_actions[5]] = <<1>>
<1>1. /\ \A cs \in {1, 2, 4, 6} : _buildargv_eof_actions[cs] = 0
      /\ \A cs \in {7, 8} : _buildargv_eof_actions[cs] = 7
      /\ _buildargv_eof_actions[3] = 1 /\ _buildargv_eof_actions[5] = 3
  BY DEF _buildargv_eof_actions, CArray
<1>2. _buildargv_actions[0] = <<>> /\ _buildargv_actions[7] = <<3>>
      /\ _buildargv_actions[1] = <<0>> /\ _buildargv_actions[3] = <<1>>
  BY DEF _buildargv_actions
<1> QED
  BY <1>1, <1>2

\* Every step keeps what is read the beginning of the answer.
LEMMA StepArgvReadInv == ArgvReadInv /\ [ArgvNext]_argvVars => ArgvReadInv'
<1> SUFFICES ASSUME ArgvReadInv, [ArgvNext]_argvVars PROVE ArgvReadInv'
  OBVIOUS
<1> DEFINE p == Len(argv_text)
<1>1. ArgvInv'
  BY StepArgvInv DEF ArgvReadInv
<1>2. /\ ArgvInv /\ argv_text \in Seq(LineChars) /\ p \in Nat /\ argv_s \in 0 .. p
      /\ argv_pc = "reading" => argv_cs \in 0 .. 8
  BY LenProperties DEF ArgvReadInv, ArgvInv, ArgvTypeOK, ArgvStackInv
<1>3. CASE ReadLineChar
  <2>1. argv_pc = "reading" /\ argv_pc' = "reading"
    BY <1>3 DEF ReadLineChar
  <2>2. PICK char \in LineChars :
          /\ argv_text' = Append(argv_text, char)
          /\ Moves(char, ArgumentUpTo(p), p, argv_cs, argv_stack, argv_s, argv,
                   argv_cs', argv_stack', argv_s', argv')
    BY <1>2, <1>3, TablesMove
  <2>3. argv \in Seq(Seq(LineChars))
    BY <2>1 DEF ArgvReadInv
  <2>4. Len(argv_text') = p + 1 /\ argv_text'[p + 1] = char
        /\ \A i \in 1 .. p : argv_text'[i] = argv_text[i]
    BY <1>2, <2>2, AppendProperties
  <2>5. ASSUME NEW T \in Seq(LineChars), Extends(T, argv_text')
        PROVE  /\ AllRead(T, argv', Place(argv_cs', argv_s', p + 1))
               /\ StateKnows(T, argv_cs', argv_stack', argv_s', p + 1)
               /\ argv' \in Seq(Seq(LineChars))
    <3>1. Len(T) \in Nat
      BY LenProperties
    <3>2. p + 1 <= Len(T) /\ \A i \in 1 .. p + 1 : T[i] = argv_text'[i]
      BY <2>4, <2>5, Zenon DEF Extends
    <3>3. Extends(T, argv_text) /\ T[p + 1] = char /\ p \in 0 .. Len(T) - 1
      <4>1. p + 1 \in 1 .. p + 1 /\ \A i \in 1 .. p : i \in 1 .. p + 1
        BY <1>2
      <4>2. T[p + 1] = char
        BY <2>4, <3>2, <4>1
      <4>3. \A i \in 1 .. p : T[i] = argv_text[i]
        BY <2>4, <3>2, <4>1
      <4>4. p <= Len(T) /\ p \in 0 .. Len(T) - 1
        BY <1>2, <3>1, <3>2
      <4> QED
        BY <4>2, <4>3, <4>4 DEF Extends
    <3>4. /\ AllRead(T, argv, Place(argv_cs, argv_s, p))
          /\ StateKnows(T, argv_cs, argv_stack, argv_s, p)
      BY <2>1, <3>3 DEF ArgvReadInv
    <3>5. SubSeq(T, argv_s + 1, p) = ArgumentUpTo(p)
      BY <1>2, <3>3, SamePart DEF ArgumentUpTo
    <3>6. Moves(T[p + 1], SubSeq(T, argv_s + 1, p), p, argv_cs, argv_stack, argv_s, argv,
                argv_cs', argv_stack', argv_s', argv')
      BY <2>2, <3>3, <3>5
    <3>7. argv_cs \in 0 .. 8 /\ argv_s \in 0 .. p
      BY <1>2, <2>1
    <3> HIDE DEF p
    <3> QED
      BY <2>3, <3>3, <3>4, <3>6, <3>7, MoveKnows
  <2>6. argv' \in Seq(Seq(LineChars))
    <3>1. argv_text' \in Seq(LineChars)
      BY <1>2, <2>2, AppendProperties
    <3>2. Extends(argv_text', argv_text')
      BY <1>2, <2>4 DEF Extends
    <3> QED
      BY <2>5, <3>1, <3>2
  <2>7. ArgvAnswers'
    BY <2>1 DEF ArgvAnswers
  <2> QED
    BY <1>1, <2>4, <2>5, <2>6, <2>7 DEF ArgvReadInv
<1>4. CASE EndOfLine
  <2> DEFINE acts == IF argv_cs = 0 THEN <<>> ELSE _buildargv_actions[_buildargv_eof_actions[argv_cs]]
             r == ArgsFrom(argv_text)[1]
  <2>1. argv_pc = "reading" /\ argv_pc' = "returned" /\ argv_text' = argv_text
    BY <1>4 DEF EndOfLine
  <2>2. /\ argv' = IF Has(acts, 3) THEN Append(argv, ArgumentUpTo(p)) ELSE argv
        /\ argv_ret' = IF Has(acts, 0) THEN "EDQUOTE" ELSE IF Has(acts, 1) THEN "ESQUOTE" ELSE "EOK"
    BY <1>4 DEF EndOfLine
  <2>3. Extends(argv_text, argv_text)
    BY <1>2 DEF Extends
  <2>4. /\ argv \in Seq(Seq(LineChars)) /\ AllRead(argv_text, argv, Place(argv_cs, argv_s, p))
        /\ StateKnows(argv_text, argv_cs, argv_stack, argv_s, p)
        /\ argv_cs \in 0 .. 8
    BY <1>2, <2>1, <2>3 DEF ArgvReadInv
  <2>5. /\ argv_cs \in {7, 8} => r = [args |-> Append(argv, ArgumentUpTo(p)), ret |-> "EOK"]
        /\ argv_cs \in {0, 1, 2, 4, 6} => r = [args |-> argv, ret |-> "EOK"]
        /\ argv_cs = 3 => r = [args |-> argv, ret |-> "EDQUOTE"]
        /\ argv_cs = 5 => r = [args |-> argv, ret |-> "ESQUOTE"]
    BY <1>2, <2>4, EndKnows DEF ArgumentUpTo
  <2>6. Meaning' = r
    BY <2>1 DEF Meaning
  <2> HIDE DEF r, p
  <2>7. CASE argv_cs \in {7, 8}
    <3>1. acts = <<3>>
      BY <2>7, EndActions
    <3> HIDE DEF acts
    <3>2. Has(acts, 3) /\ ~Has(acts, 0) /\ ~Has(acts, 1)
      BY <3>1, HasList
    <3>3. argv' = r.args /\ argv_ret' = r.ret
      BY <2>2, <2>5, <2>7, <3>2
    <3> QED
      BY <1>1, <2>1, <2>6, <3>3 DEF ArgvReadInv, ArgvAnswers
  <2>8. CASE argv_cs \in {0, 1, 2, 4, 6}
    <3>1. acts = <<>>
      BY <2>8, EndActions
    <3> HIDE DEF acts
    <3>2. ~Has(acts, 3) /\ ~Has(acts, 0) /\ ~Has(acts, 1)
      BY <3>1, HasList
    <3>3. argv' = r.args /\ argv_ret' = r.ret
      BY <2>2, <2>5, <2>8, <3>2
    <3> QED
      BY <1>1, <2>1, <2>6, <3>3 DEF ArgvReadInv, ArgvAnswers
  <2>9. CASE argv_cs = 3
    <3>1. acts = <<0>>
      BY <2>9, EndActions
    <3> HIDE DEF acts
    <3>2. ~Has(acts, 3) /\ Has(acts, 0)
      BY <3>1, HasList
    <3>3. argv' = r.args /\ argv_ret' = r.ret
      BY <2>2, <2>5, <2>9, <3>2
    <3> QED
      BY <1>1, <2>1, <2>6, <3>3 DEF ArgvReadInv, ArgvAnswers
  <2>10. CASE argv_cs = 5
    <3>1. acts = <<1>>
      BY <2>10, EndActions
    <3> HIDE DEF acts
    <3>2. ~Has(acts, 3) /\ ~Has(acts, 0) /\ Has(acts, 1)
      BY <3>1, HasList
    <3>3. argv' = r.args /\ argv_ret' = r.ret
      BY <2>2, <2>5, <2>10, <3>2
    <3> QED
      BY <1>1, <2>1, <2>6, <3>3 DEF ArgvReadInv, ArgvAnswers
  <2> QED
    BY <2>4, <2>7, <2>8, <2>9, <2>10
<1>5. CASE UNCHANGED argvVars
  BY <1>1, <1>5 DEF ArgvReadInv, ArgvAnswers, Meaning, argvVars
<1> QED
  BY <1>3, <1>4, <1>5 DEF ArgvNext

\* The tables read every command line as the grammar says, whatever its characters
\* and however long it is.
THEOREM CommandLinesAreRead == ArgvSpec => []ArgvAnswers
<1>1. ArgvReadInv => ArgvAnswers
  BY DEF ArgvReadInv
<1> QED
  BY <1>1, InitArgvReadInv, StepArgvReadInv, PTL DEF ArgvSpec

-----------------------------------------------------------------------------
(***************************************************************************)
(* The types of the dice.  The formula in postfix is a sequence about      *)
(* whose items nothing has to be known.                                    *)
(***************************************************************************)
\* What is put on the formula may be anything.
IsSequence(s) == \E Items : s \in Seq(Items)

\* What the prover needs of sequences whose items have no type.
LEMMA Grown ==
    ASSUME NEW s, IsSequence(s), NEW x
    PROVE  /\ IsSequence(Append(s, x)) /\ Len(Append(s, x)) = Len(s) + 1 /\ Len(s) \in Nat
<1>1. PICK Items : s \in Seq(Items)
  BY DEF IsSequence
<1>2. s \in Seq(Items \cup {x}) /\ x \in Items \cup {x}
  BY <1>1
<1> HIDE DEF IsSequence
<1>3. Append(s, x) \in Seq(Items \cup {x}) /\ Len(Append(s, x)) = Len(s) + 1 /\ Len(s) \in Nat
  BY <1>2
<1> QED
  BY <1>3, Zenon DEF IsSequence

\* A sequence that is made behind another one.
LEMMA PutBehind ==
    ASSUME NEW s, IsSequence(s), NEW n \in Nat, NEW f, DOMAIN f = 1 .. n, f = [i \in 1 .. n |-> f[i]]
    PROVE  IsSequence(s \o f) /\ Len(s \o f) = Len(s) + n /\ Len(s) \in Nat
<1>1. PICK Items : s \in Seq(Items)
  BY DEF IsSequence
<1> DEFINE All == Items \cup {f[i] : i \in 1 .. n}
<1>2. s \in Seq(All)
  BY <1>1
<1>3. f \in Seq(All) /\ Len(f) = n
  <2>1. \A i \in 1 .. n : f[i] \in All
    OBVIOUS
  <2> HIDE DEF All
  <2> QED
    BY <2>1
<1> HIDE DEF All
<1>4. s \o f \in Seq(All) /\ Len(s \o f) = Len(s) + n /\ Len(s) \in Nat
  BY <1>2, <1>3
<1> QED
  BY <1>4, Zenon DEF IsSequence

\* What is cut out leaves a sequence.
LEMMA CutOut ==
    ASSUME NEW s, IsSequence(s), NEW from \in 1 .. Len(s), NEW to \in from .. Len(s)
    PROVE  LET rest == SubSeq(s, 1, from - 1) \o SubSeq(s, to + 1, Len(s)) IN
           IsSequence(rest) /\ Len(rest) = Len(s) - (to - from + 1) /\ Len(s) \in Nat
<1>1. PICK Items : s \in Seq(Items)
  BY DEF IsSequence
<1>2. Len(s) \in Nat
  BY <1>1
<1> DEFINE front == SubSeq(s, 1, from - 1) back == SubSeq(s, to + 1, Len(s))
<1>3. front \in Seq(Items) /\ Len(front) = from - 1
  BY <1>1, <1>2
<1>4. back \in Seq(Items) /\ Len(back) = Len(s) - to
  BY <1>1, <1>2
<1> HIDE DEF front, back
<1>5. front \o back \in Seq(Items) /\ Len(front \o back) = from - 1 + (Len(s) - to)
  BY <1>2, <1>3, <1>4
<1>6. IsSequence(front \o back)
  BY <1>5, Zenon DEF IsSequence
<1>7. Len(front \o back) = Len(s) - (to - from + 1)
  BY <1>2, <1>5
<1> QED
  BY <1>2, <1>6, <1>7, Zenon DEF front, back

\* An item may be replaced.
LEMMA Replaced ==
    ASSUME NEW s, IsSequence(s), NEW i \in 1 .. Len(s), NEW x
    PROVE  IsSequence([s EXCEPT ![i] = x]) /\ Len([s EXCEPT ![i] = x]) = Len(s)
<1>1. PICK Items : s \in Seq(Items)
  BY DEF IsSequence
<1>2. s \in Seq(Items \cup {x}) /\ x \in Items \cup {x}
  BY <1>1
<1>3. [s EXCEPT ![i] = x] \in Seq(Items \cup {x}) /\ Len([s EXCEPT ![i] = x]) = Len(s)
  BY <1>2
<1> QED
  BY <1>3, Zenon DEF IsSequence

\* The type invariant, with what is being read, and the operands of a cast.
DiceInv ==
    /\ DiceTypeOK
    /\ dice_input \in DiceInputs
    /\ IsSequence(dice_rpn)
    /\ dice_pc = "casting" => dice_i \in 3 .. Len(dice_rpn)

\* Nothing is read, and no number is begun.
LEMMA InitDiceInv == DiceInit => DiceInv
<1> SUFFICES ASSUME DiceInit PROVE DiceInv
  OBVIOUS
<1>1. dice_input.text \in Seq(DiceChars)
  BY DiceAssumption DEF DiceInit
<1>2. Len(dice_input.text) \in Nat
  BY <1>1
<1>3. IsSequence(<<>>)
  <2>1. <<>> \in Seq({})
    OBVIOUS
  <2> QED
    BY <2>1, Zenon DEF IsSequence
<1>4. dice_ops \in Seq(DiceChars)
  BY DEF DiceInit
<1>5. Len(<<>>) = 0 /\ 1 \in 1 .. 0 + 1 /\ 1 \in 1 .. Len(dice_input.text) + 1 /\ 0 \in Nat
  BY <1>2
<1>6. dice_intVal \in Nat /\ dice_cs \in {1, 2} /\ (dice_cs = 2) = (dice_intVal > 0)
  BY DEF DiceInit
<1>7. dice_p \in 1 .. Len(dice_input.text) + 1 /\ dice_i \in 1 .. Len(dice_rpn) + 1
  BY <1>5 DEF DiceInit
<1>8. IsSequence(dice_rpn)
  BY <1>3, Zenon DEF DiceInit
<1> QED
  BY <1>4, <1>6, <1>7, <1>8 DEF DiceInit, DiceInv, DiceTypeOK

\* A number that ends is put on the formula.
LEMMA NumberEnds ==
    DiceInv => /\ IsSequence(NumberEnded) /\ Len(NumberEnded) \in Nat
               /\ Len(NumberEnded) >= Len(dice_rpn) /\ Len(dice_rpn) \in Nat
<1> SUFFICES ASSUME DiceInv
             PROVE  /\ IsSequence(NumberEnded) /\ Len(NumberEnded) \in Nat
                    /\ Len(NumberEnded) >= Len(dice_rpn) /\ Len(dice_rpn) \in Nat
  OBVIOUS
<1>1. IsSequence(dice_rpn)
  BY DEF DiceInv
<1>2. IsSequence(Append(dice_rpn, Num(dice_intVal))) /\ Len(Append(dice_rpn, Num(dice_intVal))) = Len(dice_rpn) + 1 /\ Len(dice_rpn) \in Nat
  BY <1>1, Grown
<1> QED
  BY <1>1, <1>2 DEF NumberEnded

\* The reading of a character keeps what it says, whichever it is.
ReadKeeps ==
    /\ dice_pc' \in {"reading", "evaluating", "threw"}
    /\ dice_p' \in {dice_p, dice_p + 1} /\ (dice_p' = dice_p + 1 => Char # "NUL")
    /\ dice_cs' = 1 /\ dice_intVal' = 0
    /\ dice_numPut' \in BOOLEAN /\ dice_bang' \in BOOLEAN
    /\ dice_ops' \in Seq(DiceChars)
    /\ IsSequence(dice_rpn') /\ Len(dice_rpn') \in Nat /\ Len(dice_rpn') >= Len(dice_rpn)
    /\ dice_i' = dice_i /\ dice_input' = dice_input

\* The character that is read, and the next position while it is none of the end.
LEMMA CharTyped == DiceInv => /\ dice_input.text \in Seq(DiceChars) /\ Char \in DiceChars \cup {"NUL"}
                             /\ (Char # "NUL" => dice_p + 1 \in 1 .. Len(dice_input.text) + 1)
                             /\ Len(dice_input.text) \in Nat
<1> SUFFICES ASSUME DiceInv PROVE /\ dice_input.text \in Seq(DiceChars) /\ Char \in DiceChars \cup {"NUL"}
                             /\ (Char # "NUL" => dice_p + 1 \in 1 .. Len(dice_input.text) + 1)
                             /\ Len(dice_input.text) \in Nat
  OBVIOUS
<1>1. dice_input.text \in Seq(DiceChars) /\ dice_p \in 1 .. Len(dice_input.text) + 1
  BY DiceAssumption DEF DiceInv, DiceTypeOK
<1>2. Len(dice_input.text) \in Nat
  BY <1>1
<1>3. dice_p <= Len(dice_input.text) => dice_input.text[dice_p] \in DiceChars
  BY <1>1, <1>2
<1> QED
  BY <1>1, <1>2, <1>3 DEF Char


\* The reading of one character, but of a digit.
LEMMA ReadStep ==
    DiceInv /\ DiceRead => \/ ReadKeeps \/ DiceDigit \/ DiceThrows
<1> SUFFICES ASSUME DiceInv, DiceRead PROVE ReadKeeps \/ DiceDigit \/ DiceThrows
  OBVIOUS
<1> DEFINE Kept == IsSequence(dice_rpn') /\ Len(dice_rpn') \in Nat /\ Len(dice_rpn') >= Len(dice_rpn)
<1>1. /\ dice_ops \in Seq(DiceChars) /\ Char \in DiceChars \cup {"NUL"} /\ dice_p \in Nat
      /\ dice_numPut \in BOOLEAN /\ dice_bang \in BOOLEAN /\ NumPut \in BOOLEAN
  BY CharTyped DEF DiceInv, DiceTypeOK, NumPut
<1>2. IsSequence(NumberEnded) /\ Len(NumberEnded) \in Nat /\ Len(NumberEnded) >= Len(dice_rpn) /\ Len(dice_rpn) \in Nat
  BY NumberEnds
<1>3. ASSUME NEW x, dice_rpn' = Append(NumberEnded, x) PROVE Kept
  <2>1. IsSequence(dice_rpn') /\ Len(dice_rpn') = Len(NumberEnded) + 1
    BY <1>2, <1>3, Grown
  <2> QED
    BY <1>2, <2>1
<1>4. dice_rpn' = NumberEnded => Kept
  BY <1>2
<1>5. PopOp \in Seq(DiceChars) /\ TopOp \in DiceChars
  <2>1. CASE dice_ops = <<>>
    <3>1. Len(dice_ops) = 0 /\ Len(dice_ops) - 1 = -1
      BY <2>1
    <3>2. PopOp \in Seq(DiceChars)
      BY <1>1, <3>1 DEF PopOp
    <3>3. TopOp \in DiceChars
      BY <2>1, Zenon DEF TopOp, DiceChars
    <3> QED
      BY <3>2, <3>3
  <2>2. CASE dice_ops # <<>>
    <3>1. Len(dice_ops) \in Nat /\ Len(dice_ops) > 0
      BY <1>1, <2>2
    <3> QED
      BY <1>1, <2>2, <3>1 DEF PopOp, TopOp
  <2> QED
    BY <2>1, <2>2
<1>6. PopAndReread => Kept /\ dice_ops' \in Seq(DiceChars) /\ dice_p' = dice_p /\ dice_bang' = dice_bang
  <2> SUFFICES ASSUME PopAndReread PROVE Kept /\ dice_ops' \in Seq(DiceChars) /\ dice_p' = dice_p /\ dice_bang' = dice_bang
    OBVIOUS
  <2>1. Kept
    BY <1>3, Zenon DEF PopAndReread
  <2> QED
    BY <1>5, <2>1, Zenon DEF PopAndReread
<1>7. ASSUME NEW c \in DiceChars PROVE Append(dice_ops, c) \in Seq(DiceChars)
  BY <1>1
<1> HIDE DEF Kept
<1> DEFINE Advances == dice_p' \in {dice_p, dice_p + 1} /\ (dice_p' = dice_p + 1 => Char # "NUL")
<1>8. /\ dice_p' = dice_p => Advances
      /\ (dice_p' = dice_p + 1 /\ Char # "NUL" => Advances)
  <2>1. dice_p # dice_p + 1
    BY <1>1
  <2> QED
    BY <2>1
<1> HIDE DEF Advances
<1>9. ASSUME dice_pc = "reading", dice_pc' \in {"reading", "evaluating", "threw"}, Kept, Advances, EndNumber,
             dice_ops' \in Seq(DiceChars), dice_numPut' \in BOOLEAN, dice_bang' \in BOOLEAN,
             dice_i' = dice_i, dice_input' = dice_input
      PROVE ReadKeeps
  BY <1>9, Zenon DEF ReadKeeps, Kept, Advances, EndNumber
<1>10. CASE DiceBlank
  <2>1. Char # "NUL" /\ dice_pc = "reading"
    BY <1>10 DEF DiceBlank, Reads
  <2>2. Kept
    BY <1>4, <1>10, Zenon DEF DiceBlank
  <2>3. Advances
    BY <1>8, <1>10, <2>1, Zenon DEF DiceBlank
  <2>4. /\ EndNumber /\ dice_i' = dice_i /\ dice_input' = dice_input /\ dice_numPut' = NumPut
        /\ dice_pc' = dice_pc /\ dice_ops' = dice_ops /\ dice_bang' = dice_bang
    BY <1>10 DEF DiceBlank, notReading
  <2> QED
    BY <1>1, <1>9, <2>1, <2>2, <2>3, <2>4
<1>11. CASE DiceOpen
  <2>1. Char # "NUL" /\ dice_pc = "reading"
    BY <1>11 DEF DiceOpen, Reads
  <2>2. Kept
    BY <1>4, <1>11, Zenon DEF DiceOpen
  <2>3. Advances
    BY <1>8, <1>11, <2>1, Zenon DEF DiceOpen
  <2>4. /\ EndNumber /\ dice_i' = dice_i /\ dice_input' = dice_input /\ dice_numPut' = TRUE
        /\ dice_pc' = dice_pc /\ dice_bang' = dice_bang /\ dice_ops' = Append(dice_ops, "(")
    BY <1>11 DEF DiceOpen, notReading
  <2>5. dice_ops' \in Seq(DiceChars)
    BY <1>7, <2>4 DEF DiceChars
  <2> QED
    BY <1>1, <1>9, <2>1, <2>2, <2>3, <2>4, <2>5
<1>12. CASE DiceClose
  <2>1. Char # "NUL" /\ dice_pc = "reading"
    BY <1>12 DEF DiceClose, Reads
  <2>2. /\ EndNumber /\ dice_i' = dice_i /\ dice_input' = dice_input /\ dice_numPut' = TRUE /\ dice_pc' = dice_pc
    BY <1>12 DEF DiceClose, notReading
  <2>3. CASE TopOp = "("
    <3>1. dice_ops' = PopOp /\ dice_rpn' = NumberEnded /\ dice_p' = dice_p + 1 /\ dice_bang' = dice_bang
      BY <1>12, <2>3 DEF DiceClose
    <3> QED
      BY <1>1, <1>4, <1>5, <1>8, <1>9, <2>1, <2>2, <3>1
  <2>4. CASE TopOp # "("
    <3>1. PopAndReread
      BY <1>12, <2>4 DEF DiceClose
    <3> QED
      BY <1>1, <1>6, <1>8, <1>9, <2>1, <2>2, <3>1
  <2> QED
    BY <2>3, <2>4
<1>13. ASSUME NEW below, PushOrReread(below), Reads({"*", "/", "%", "+", "-"}) PROVE ReadKeeps
  <2>1. Char # "NUL" /\ dice_pc = "reading" /\ Char \in DiceChars
    BY <1>1, <1>13 DEF Reads
  <2>2. /\ EndNumber /\ dice_i' = dice_i /\ dice_input' = dice_input /\ dice_numPut' = FALSE /\ dice_pc' = dice_pc
    BY <1>13 DEF PushOrReread, notReading
  <2>3. CASE dice_ops = <<>> \/ TopOp \in below
    <3>1. dice_ops' = Append(dice_ops, Char) /\ dice_rpn' = NumberEnded /\ dice_bang' = FALSE /\ dice_p' = dice_p + 1
      BY <1>13, <2>3 DEF PushOrReread
    <3> QED
      BY <1>4, <1>7, <1>8, <1>9, <2>1, <2>2, <3>1
  <2>4. CASE ~(dice_ops = <<>> \/ TopOp \in below)
    <3>1. PopAndReread
      BY <1>13, <2>4 DEF PushOrReread
    <3> QED
      BY <1>1, <1>6, <1>8, <1>9, <2>1, <2>2, <3>1
  <2> QED
    BY <2>3, <2>4
<1>14. CASE DiceTimes
  BY <1>13, <1>14 DEF DiceTimes, Reads
<1>15. CASE DicePlus
  BY <1>13, <1>15 DEF DicePlus, Reads
<1>16. CASE DiceCast
  <2>1. Char # "NUL" /\ dice_pc = "reading"
    BY <1>16 DEF DiceCast, Reads
  <2>2. /\ EndNumber /\ dice_i' = dice_i /\ dice_input' = dice_input /\ dice_numPut' = NumPut /\ dice_pc' = dice_pc
    BY <1>16 DEF DiceCast, notReading
  <2>3. CASE dice_ops = <<>> \/ TopOp \in {"+", "-", "*", "/", "%", "("}
    <3>1. dice_ops' = Append(dice_ops, "d") /\ dice_bang' = dice_bang /\ dice_p' = dice_p + 1
      BY <1>16, <2>3 DEF DiceCast
    <3>2. dice_rpn' = IF NumPut THEN NumberEnded ELSE Append(NumberEnded, Num(1))
      BY <1>16, <2>3 DEF DiceCast
    <3>3. Kept
      BY <1>3, <1>4, <3>2, Zenon
    <3>4. dice_ops' \in Seq(DiceChars)
      BY <1>7, <3>1 DEF DiceChars
    <3> QED
      BY <1>1, <1>8, <1>9, <2>1, <2>2, <3>1, <3>3, <3>4
  <2>4. CASE ~(dice_ops = <<>> \/ TopOp \in {"+", "-", "*", "/", "%", "("})
    <3>1. PopAndReread
      BY <1>16, <2>4 DEF DiceCast
    <3> QED
      BY <1>1, <1>6, <1>8, <1>9, <2>1, <2>2, <3>1
  <2> QED
    BY <2>3, <2>4
<1>17. CASE DiceModifier
  <2>1. Char # "NUL" /\ dice_pc = "reading" /\ Char \in DiceChars
    BY <1>1, <1>17 DEF DiceModifier, Reads
  <2>2. Kept
    BY <1>4, <1>17, Zenon DEF DiceModifier
  <2>3. Advances
    BY <1>8, <1>17, <2>1, Zenon DEF DiceModifier
  <2>4. /\ EndNumber /\ dice_i' = dice_i /\ dice_input' = dice_input /\ dice_numPut' = NumPut
        /\ dice_pc' = dice_pc /\ dice_bang' = dice_bang /\ dice_ops' = Append(dice_ops, Char)
    BY <1>17 DEF DiceModifier, notReading
  <2> QED
    BY <1>1, <1>7, <1>9, <2>1, <2>2, <2>3, <2>4
<1>18. CASE DiceRecast
  <2>1. Char # "NUL" /\ dice_pc = "reading"
    BY <1>18 DEF DiceRecast, Reads
  <2>2. Kept
    BY <1>3, <1>18, Zenon DEF DiceRecast
  <2>3. Advances
    BY <1>8, <1>18, <2>1, Zenon DEF DiceRecast
  <2>4. /\ EndNumber /\ dice_i' = dice_i /\ dice_input' = dice_input /\ dice_numPut' = NumPut
        /\ dice_pc' = dice_pc /\ dice_bang' = TRUE /\ dice_ops' = dice_ops
    BY <1>18 DEF DiceRecast, notReading
  <2> QED
    BY <1>1, <1>9, <2>1, <2>2, <2>3, <2>4
<1>19. CASE DiceEnd
  <2>1. dice_pc = "reading"
    BY <1>19 DEF DiceEnd, Reads
  <2> DEFINE left == [i \in DOMAIN dice_ops |-> Op(dice_ops[Len(dice_ops) + 1 - i])]
  <2>2. /\ EndNumber /\ dice_i' = dice_i /\ dice_input' = dice_input /\ dice_numPut' = NumPut
        /\ dice_pc' = "evaluating" /\ dice_bang' = dice_bang /\ dice_ops' = <<>> /\ dice_p' = dice_p
        /\ dice_rpn' = NumberEnded \o left
    BY <1>19 DEF DiceEnd, notReading
  <2>3. Len(dice_ops) \in Nat /\ DOMAIN dice_ops = 1 .. Len(dice_ops)
    BY <1>1
  <2>4. DOMAIN left = 1 .. Len(dice_ops) /\ left = [i \in 1 .. Len(dice_ops) |-> left[i]]
    BY <2>3
  <2> HIDE DEF left
  <2>5. IsSequence(NumberEnded \o left) /\ Len(NumberEnded \o left) = Len(NumberEnded) + Len(dice_ops)
    BY <1>2, <2>3, <2>4, PutBehind
  <2>6. Kept
    BY <1>2, <2>2, <2>3, <2>5 DEF Kept
  <2>7. Advances
    BY <1>8, <2>2
  <2>8. dice_ops' \in Seq(DiceChars)
    BY <2>2
  <2> QED
    BY <1>1, <1>9, <2>1, <2>2, <2>6, <2>7, <2>8
<1>20. CASE DiceRefuses
  BY <1>20 DEF DiceRefuses
<1> QED
  BY <1>10, <1>11, <1>12, <1>14, <1>15, <1>16, <1>17, <1>18, <1>19, <1>20 DEF DiceRead

\* Every step keeps the types of the dice.
LEMMA StepDiceInv == DiceInv /\ [DiceNext]_diceVars => DiceInv'
<1> SUFFICES ASSUME DiceInv, [DiceNext]_diceVars PROVE DiceInv'
  OBVIOUS
<1>1. /\ dice_input \in DiceInputs /\ IsSequence(dice_rpn) /\ DiceTypeOK
      /\ dice_input.text \in Seq(DiceChars) /\ Len(dice_input.text) \in Nat
      /\ Char \in DiceChars \cup {"NUL"} /\ (Char # "NUL" => dice_p + 1 \in 1 .. Len(dice_input.text) + 1)
  BY CharTyped DEF DiceInv
<1>2. Len(dice_rpn) \in Nat
  BY NumberEnds
<1>3. CASE ReadKeeps
  <2>1. dice_input' = dice_input /\ dice_i' = dice_i /\ IsSequence(dice_rpn') /\ dice_ops' \in Seq(DiceChars)
    BY <1>3 DEF ReadKeeps
  <2>2. dice_pc' \in {"reading", "evaluating", "casting", "answered", "threw", "undefined"} /\ dice_pc' # "casting"
    BY <1>3 DEF ReadKeeps
  <2>3. dice_p' \in 1 .. Len(dice_input'.text) + 1
    BY <1>1, <1>3, <2>1 DEF ReadKeeps, DiceTypeOK
  <2>4. dice_i' \in 1 .. Len(dice_rpn') + 1
    BY <1>1, <1>2, <1>3, <2>1 DEF ReadKeeps, DiceTypeOK
  <2>5. dice_cs' \in {1, 2} /\ dice_intVal' \in Nat /\ (dice_cs' = 2) = (dice_intVal' > 0)
    BY <1>3 DEF ReadKeeps
  <2>6. {dice_numPut', dice_bang'} \subseteq BOOLEAN
    BY <1>3 DEF ReadKeeps
  <2>7. dice_input' \in DiceInputs
    BY <1>1, <2>1
  <2> QED
    BY <2>1, <2>2, <2>3, <2>4, <2>5, <2>6, <2>7 DEF DiceInv, DiceTypeOK
<1>4. CASE DiceDigit
  <2>1. /\ dice_input' = dice_input /\ dice_i' = dice_i /\ dice_rpn' = dice_rpn /\ dice_ops' = dice_ops
        /\ dice_pc' = dice_pc /\ dice_numPut' = dice_numPut /\ dice_bang' = dice_bang
        /\ dice_cs' = 2 /\ dice_p' = dice_p + 1 /\ Char # "NUL"
        /\ dice_intVal' = dice_intVal * 10 + DiceDigitOf(Char) /\ dice_pc = "reading"
        /\ Char \in IF dice_cs = 2 THEN {"0", "1", "2"} ELSE {"1", "2"}
    BY <1>4 DEF DiceDigit, notReading, Reads, DiceDigits
  <2>2. dice_p' \in 1 .. Len(dice_input'.text) + 1
    BY <1>1, <2>1
  <2>3. dice_intVal \in Nat /\ (dice_cs = 2) = (dice_intVal > 0)
    BY <1>1 DEF DiceTypeOK
  <2>4. dice_intVal' \in Nat /\ dice_intVal' > 0
    <3>1. DiceDigitOf(Char) \in {0, 1, 2} /\ (Char # "0" => DiceDigitOf(Char) > 0)
      <4>1. Char = "0" => DiceDigitOf(Char) = 0
        BY Zenon DEF DiceDigitOf
      <4>2. Char # "0" => DiceDigitOf(Char) = 1 \/ DiceDigitOf(Char) = 2
        BY <2>1, Zenon DEF DiceDigitOf
      <4> QED
        BY <4>1, <4>2
    <3>2. CASE Char # "0"
      BY <2>1, <2>3, <3>1, <3>2
    <3>3. CASE Char = "0"
      <4>1. dice_cs = 2
        BY <2>1, <3>3
      <4> QED
        BY <2>1, <2>3, <3>1, <4>1
    <3> QED
      BY <3>2, <3>3
  <2>5. dice_cs' \in {1, 2} /\ dice_intVal' \in Nat /\ (dice_cs' = 2) = (dice_intVal' > 0)
    BY <2>1, <2>4
  <2>6. IsSequence(dice_rpn')
    BY <1>1, <2>1
  <2>7. dice_i' \in 1 .. Len(dice_rpn') + 1
    BY <1>1, <2>1 DEF DiceTypeOK
  <2>8. /\ dice_pc' \in {"reading", "evaluating", "casting", "answered", "threw", "undefined"} /\ dice_pc' # "casting"
        /\ {dice_numPut', dice_bang'} \subseteq BOOLEAN /\ dice_ops' \in Seq(DiceChars) /\ dice_input' \in DiceInputs
    BY <1>1, <2>1 DEF DiceTypeOK
  <2> QED
    BY <2>2, <2>5, <2>6, <2>7, <2>8 DEF DiceInv, DiceTypeOK
<1> DEFINE Rest5 == UNCHANGED <<dice_input, dice_p, dice_cs, dice_intVal, dice_numPut, dice_bang, dice_ops>>
<1>5. ASSUME Rest5, dice_pc' \in {"reading", "evaluating", "casting", "answered", "threw", "undefined"},
             IsSequence(dice_rpn'), dice_i' \in 1 .. Len(dice_rpn') + 1,
             dice_pc' = "casting" => dice_i' \in 3 .. Len(dice_rpn')
      PROVE DiceInv'
  <2>1. /\ dice_input' = dice_input /\ dice_p' = dice_p /\ dice_cs' = dice_cs /\ dice_intVal' = dice_intVal
        /\ dice_numPut' = dice_numPut /\ dice_bang' = dice_bang /\ dice_ops' = dice_ops
    BY <1>5
  <2>2. /\ dice_input' \in DiceInputs /\ dice_p' \in 1 .. Len(dice_input'.text) + 1 /\ dice_ops' \in Seq(DiceChars)
        /\ {dice_numPut', dice_bang'} \subseteq BOOLEAN
    BY <1>1, <2>1, Zenon DEF DiceTypeOK
  <2>3. dice_cs' \in {1, 2} /\ dice_intVal' \in Nat /\ (dice_cs' = 2) = (dice_intVal' > 0)
    BY <1>1, <2>1, Zenon DEF DiceTypeOK
  <2> QED
    BY <1>5, <2>2, <2>3, Zenon DEF DiceInv, DiceTypeOK
<1> HIDE DEF Rest5
<1>6. dice_i \in 1 .. Len(dice_rpn) + 1 /\ dice_pc \in {"reading", "evaluating", "casting", "answered", "threw", "undefined"}
  BY <1>1 DEF DiceTypeOK
<1>c. dice_pc = "casting" => dice_i \in 3 .. Len(dice_rpn)
  BY DEF DiceInv
<1>7. CASE DiceThrows
  <2>1. Rest5 /\ dice_pc' = "threw" /\ dice_rpn' = dice_rpn /\ dice_i' = dice_i
    BY <1>7 DEF DiceThrows, Rest5, notReading
  <2> QED
    BY <1>1, <1>5, <1>6, <2>1
<1>8. CASE UNCHANGED diceVars
  <2>1. Rest5 /\ dice_pc' = dice_pc /\ dice_rpn' = dice_rpn /\ dice_i' = dice_i
    BY <1>8 DEF diceVars, Rest5
  <2> QED
    BY <1>1, <1>5, <1>6, <1>c, <2>1
<1>9. CASE SkipNumber
  <2>1. /\ Rest5 /\ dice_pc' = dice_pc /\ dice_rpn' = dice_rpn /\ dice_i' = dice_i + 1 /\ dice_i <= Len(dice_rpn)
        /\ dice_pc = "evaluating"
    BY <1>9 DEF SkipNumber, notEvaluating, Rest5, Evaluating
  <2>2. dice_i' \in 1 .. Len(dice_rpn') + 1
    BY <1>2, <1>6, <2>1
  <2> QED
    BY <1>1, <1>5, <1>6, <2>1, <2>2
<1>10. CASE TakeModifier
  <2>1. Rest5 /\ dice_pc' = dice_pc /\ dice_i \in 1 .. Len(dice_rpn) /\ dice_pc = "evaluating"
    BY <1>2, <1>6, <1>10 DEF TakeModifier, notEvaluating, Rest5, Evaluating
  <2>2. CASE dice_rpn' = Removed(dice_i, dice_i) /\ dice_i' = dice_i
    <3>1. dice_i \in dice_i .. Len(dice_rpn)
      BY <1>2, <2>1
    <3>2. IsSequence(dice_rpn') /\ Len(dice_rpn') = Len(dice_rpn) - (dice_i - dice_i + 1)
      BY <1>1, <2>1, <2>2, <3>1, CutOut, Zenon DEF Removed
    <3>3. dice_i' \in 1 .. Len(dice_rpn') + 1
      BY <1>2, <2>1, <2>2, <3>2
    <3> QED
      BY <1>5, <1>6, <2>1, <3>2, <3>3
  <2>3. CASE dice_rpn' = Removed(dice_i - 1, dice_i) /\ dice_i' = dice_i - 1 /\ dice_i > 1
    <3>1. dice_i - 1 \in 1 .. Len(dice_rpn) /\ dice_i \in dice_i - 1 .. Len(dice_rpn)
      BY <1>2, <2>1, <2>3
    <3>2. IsSequence(dice_rpn') /\ Len(dice_rpn') = Len(dice_rpn) - (dice_i - (dice_i - 1) + 1)
      BY <1>1, <2>1, <2>3, <3>1, CutOut, Zenon DEF Removed
    <3>3. dice_i' \in 1 .. Len(dice_rpn') + 1
      BY <1>2, <2>1, <2>3, <3>2
    <3> QED
      BY <1>5, <1>6, <2>1, <3>2, <3>3
  <2> QED
    BY <1>10, <2>2, <2>3 DEF TakeModifier
<1>11. ASSUME NEW n, Becomes(n), Rest5, dice_i \in 3 .. Len(dice_rpn), dice_pc' = "evaluating"
       PROVE  DiceInv'
  <2>1. /\ dice_i \in 1 .. Len(dice_rpn) /\ dice_i > 2
        /\ dice_rpn' = [Removed(dice_i - 1, dice_i) EXCEPT ![dice_i - 2] = Num(n)]
        /\ dice_i' = dice_i - 1
    <3>1. dice_i \in 1 .. Len(dice_rpn) /\ dice_i > 2
      BY <1>2, <1>11
    <3>2. dice_rpn' = [Removed(dice_i - 1, dice_i) EXCEPT ![dice_i - 2] = Num(n)] /\ dice_i' = dice_i - 1
      BY <1>11, Zenon DEF Becomes
    <3> QED
      BY <3>1, <3>2
  <2>2. dice_i - 1 \in 1 .. Len(dice_rpn) /\ dice_i \in dice_i - 1 .. Len(dice_rpn)
    BY <1>2, <2>1
  <2>3. IsSequence(Removed(dice_i - 1, dice_i)) /\ Len(Removed(dice_i - 1, dice_i)) = Len(dice_rpn) - (dice_i - (dice_i - 1) + 1)
    BY <1>1, <2>1, <2>2, CutOut, Zenon DEF Removed
  <2>4. dice_i - 2 \in 1 .. Len(Removed(dice_i - 1, dice_i))
    BY <1>2, <2>1, <2>3
  <2>5. IsSequence(dice_rpn') /\ Len(dice_rpn') = Len(Removed(dice_i - 1, dice_i))
    BY <2>1, <2>3, <2>4, Replaced, Zenon
  <2>6. dice_i' \in 1 .. Len(dice_rpn') + 1
    BY <1>2, <2>1, <2>3, <2>5
  <2>7. dice_pc' \in {"reading", "evaluating", "casting", "answered", "threw", "undefined"} /\ dice_pc' # "casting"
    BY <1>11
  <2> QED
    BY <1>5, <1>11, <2>5, <2>6, <2>7
<1>14. CASE Calculate
  <2>1. Rest5 /\ dice_pc = "evaluating" /\ dice_i \in 3 .. Len(dice_rpn)
    <3>1. Rest5
      BY <1>14 DEF Calculate, notEvaluating, Rest5
    <3>2. dice_pc = "evaluating" /\ dice_i <= Len(dice_rpn) /\ dice_i > 2
      BY <1>14 DEF Calculate, HasOperands, Evaluating
    <3> QED
      BY <1>2, <1>6, <3>1, <3>2
  <2>2. CASE dice_pc' = "undefined" /\ dice_rpn' = dice_rpn /\ dice_i' = dice_i
    BY <1>1, <1>5, <1>6, <2>1, <2>2
  <2>3. CASE Becomes(Arithmetic(Operation, Left, Right)) /\ dice_pc' = dice_pc
    <3>1. dice_pc' = "evaluating"
      BY <2>1, <2>3
    <3> QED
      BY <1>11, <2>1, <2>3, <3>1, Zenon
  <2> QED
    BY <1>14, <2>2, <2>3, Zenon DEF Calculate
<1>15. CASE BeginCast
  <2>1. /\ Rest5 /\ dice_rpn' = dice_rpn /\ dice_i' = dice_i
        /\ dice_pc' \in {"undefined", "casting"}
    BY <1>15 DEF BeginCast, notEvaluating, Rest5
  <2>2. dice_i <= Len(dice_rpn) /\ dice_i > 2
    BY <1>15 DEF BeginCast, HasOperands, Evaluating
  <2>3. dice_i' \in 3 .. Len(dice_rpn') /\ dice_i' \in 1 .. Len(dice_rpn') + 1
    BY <1>2, <1>6, <2>1, <2>2
  <2> QED
    BY <1>1, <1>5, <1>6, <2>1, <2>3
<1>16. CASE ThrowDie
  <2>1. Rest5 /\ dice_rpn' = dice_rpn /\ dice_i' = dice_i /\ dice_pc' = dice_pc
    BY <1>16, Zenon DEF ThrowDie, notEvaluating, Rest5
  <2> QED
    BY <1>1, <1>5, <1>6, <1>c, <2>1
<1>17. CASE CastEnds
  <2>1. Rest5 /\ dice_pc = "casting"
    BY <1>17, Zenon DEF CastEnds, CastIsOver, notEvaluating, Rest5
  <2>2. CASE dice_pc' = "undefined" /\ dice_rpn' = dice_rpn /\ dice_i' = dice_i
    BY <1>1, <1>5, <1>6, <2>1, <2>2
  <2>3. CASE dice_pc' = "evaluating" /\ Becomes(dice_last + SumFunctionOnSet(dice_rolls, Counted))
    BY <1>11, <1>c, <2>1, <2>3, Zenon
  <2> QED
    BY <1>17, <2>2, <2>3, Zenon DEF CastEnds, CastIsOver
<1>12. CASE DiceResult
  <2>1. /\ Rest5 /\ dice_rpn' = dice_rpn /\ dice_i' = dice_i
        /\ dice_pc' = CASE Len(dice_rpn) = 1 -> "answered" [] Len(dice_rpn) = 0 -> "undefined"
                        [] OTHER -> "threw"
    BY <1>12 DEF DiceResult, notEvaluating, Rest5
  <2>2. dice_pc' \in {"answered", "undefined", "threw"}
    BY <2>1, Zenon
  <2> QED
    BY <1>1, <1>5, <1>6, <2>1, <2>2
<1>13. CASE EvaluationFails
  <2>1. Rest5 /\ dice_rpn' = dice_rpn /\ dice_i' = dice_i /\ dice_pc' \in {"threw", "undefined"}
    BY <1>13, Zenon DEF EvaluationFails, notEvaluating, Rest5
  <2> QED
    BY <1>1, <1>5, <1>6, <2>1
<1> QED
  BY <1>3, <1>4, <1>7, <1>8, <1>9, <1>10, <1>12, <1>13, <1>14, <1>15, <1>16, <1>17, ReadStep DEF DiceNext, DiceEvaluate

-----------------------------------------------------------------------------
(***************************************************************************)
(* The types of the reader of settings.                                   *)
(***************************************************************************)
\* All values are texts.
ValuesTyped(entries) ==
    \A s \in DOMAIN entries : \A k \in DOMAIN entries[s] : entries[s][k] \in Seq(IniChars)

\* The type invariant, with the sequences it is about.
IniInv ==
    /\ IniTypeOK
    /\ ini_lines \in Seq(IniLines)
    /\ ini_text \in Seq(IniChars) /\ ini_ahead \in Seq(IniChars)

\* Every entry of the automaton leads to one of its states.
IsIniEdge(e) == e.to \in 0 .. 15

\* So the table does.
LEMMA IniStates == \A s \in 0 .. 15, c \in IniChars : _parser_table[s][c].to \in 0 .. 15
<1>1. \A e \in _parser_edges : IsIniEdge(e)
  <2>1. \A from, chars, acts : \A to \in 0 .. 15 : IsIniEdge(IniEdge(from, chars, to, acts))
    BY DEF IniEdge, IsIniEdge
  <2>2. \A e \in CommentEdges : IsIniEdge(e)
    <3>1. 1 \in 0 .. 15 /\ 13 \in 0 .. 15
      OBVIOUS
    <3> QED
      BY <2>1, <3>1, Zenon DEF CommentEdges
  <2>3. \A e \in NameEdges : IsIniEdge(e)
    <3>1. 2 \in 0 .. 15 /\ 3 \in 0 .. 15 /\ 4 \in 0 .. 15
      OBVIOUS
    <3> QED
      BY <2>1, <3>1, Zenon DEF NameEdges
  <2>4. \A e \in ValueEdges : IsIniEdge(e)
    <3>1. 4 \in 0 .. 15 /\ 5 \in 0 .. 15 /\ 13 \in 0 .. 15 /\ 14 \in 0 .. 15
      OBVIOUS
    <3> QED
      BY <2>1, <3>1, Zenon DEF ValueEdges
  <2>5. \A e \in NextNameEdges : IsIniEdge(e)
    <3>1. 4 \in 0 .. 15 /\ 5 \in 0 .. 15 /\ 6 \in 0 .. 15 /\ 7 \in 0 .. 15 /\ 15 \in 0 .. 15
      OBVIOUS
    <3> QED
      BY <2>1, <3>1, Zenon DEF NextNameEdges
  <2>6. \A e \in SectionEdges : IsIniEdge(e)
    <3>1. 9 \in 0 .. 15 /\ 10 \in 0 .. 15 /\ 13 \in 0 .. 15
      OBVIOUS
    <3> QED
      BY <2>1, <3>1, Zenon DEF SectionEdges
  <2>7. \A e \in NextSectionEdges : IsIniEdge(e)
    <3>1. 5 \in 0 .. 15 /\ 12 \in 0 .. 15 /\ 13 \in 0 .. 15
      OBVIOUS
    <3> QED
      BY <2>1, <3>1, Zenon DEF NextSectionEdges
  <2>8. \A e \in LineEdges : IsIniEdge(e)
    <3>1. 1 \in 0 .. 15 /\ 2 \in 0 .. 15 /\ 8 \in 0 .. 15 /\ 13 \in 0 .. 15
      OBVIOUS
    <3> QED
      BY <2>1, <3>1, Zenon DEF LineEdges
  <2>9. \A e \in NextLineEdges : IsIniEdge(e)
    <3>1. 4 \in 0 .. 15 /\ 5 \in 0 .. 15 /\ 6 \in 0 .. 15 /\ 11 \in 0 .. 15 /\ 14 \in 0 .. 15
      OBVIOUS
    <3> QED
      BY <2>1, <3>1, Zenon DEF NextLineEdges
  <2>10. \A e \in NamedLineEdges : IsIniEdge(e)
    <3>1. 1 \in 0 .. 15 /\ 2 \in 0 .. 15 /\ 3 \in 0 .. 15 /\ 4 \in 0 .. 15 /\ 8 \in 0 .. 15 /\ 15 \in 0 .. 15
      OBVIOUS
    <3> QED
      BY <2>1, <3>1, Zenon DEF NamedLineEdges
  <2> QED
    BY <2>2, <2>3, <2>4, <2>5, <2>6, <2>7, <2>8, <2>9, <2>10, Zenon DEF _parser_edges
<1>2. ASSUME NEW s \in 0 .. 15, NEW c \in IniChars PROVE _parser_table[s][c].to \in 0 .. 15
  <2> DEFINE es == {e \in _parser_edges : e.from = s /\ c \in e.chars}
  <2>1. _parser_table[s][c] = IF es = {} THEN IniEdge(s, {c}, parser_error, <<>>) ELSE CHOOSE e \in es : TRUE
    BY Zenon DEF _parser_table
  <2>2. CASE es = {}
    <3>1. _parser_table[s][c] = IniEdge(s, {c}, parser_error, <<>>)
      BY <2>1, <2>2, Zenon
    <3> QED
      BY <3>1 DEF IniEdge, parser_error
  <2>3. CASE es # {}
    <3>1. _parser_table[s][c] \in es
      BY <2>1, <2>3, Zenon
    <3> QED
      BY <1>1, <3>1, Zenon DEF IsIniEdge
  <2> QED
    BY <2>2, <2>3
<1> QED
  BY <1>2

\* What the types need of a file: its lines are bounded, and their texts characters.
LEMMA LinesAreTexts ==
    MaxIniLines \in Nat /\ \A l \in IniLines : l.text \in Seq(IniChars \ {"LF"})
<1>1. MaxIniLines \in Nat
  BY LineFormAssumption, Zenon
<1>2. ASSUME NEW l \in IniLines PROVE l.text \in Seq(IniChars \ {"LF"})
  <2>1. {l.text, l.name, l.value} \subseteq Seq(IniChars \ {"LF"})
    BY LineFormAssumption, Zenon
  <2> QED
    BY <2>1, Zenon
<1> QED
  BY <1>1, <1>2, Zenon

\* No line is read.
LEMMA InitIniInv == IniInit => IniInv
<1> SUFFICES ASSUME IniInit PROVE IniInv
  OBVIOUS
<1>1. ini_lines \in Seq(IniLines) /\ ini_text \in Seq(IniChars) /\ ini_ahead \in Seq(IniChars)
  BY DEF IniInit
<1>2. Len(ini_lines) <= MaxIniLines /\ ini_mark \in 0 .. Len(ini_text)
  BY LinesAreTexts DEF IniInit
<1>3. ini_cs \in 0 .. 15 /\ ini_pc \in {"reading", "returned"}
  BY DEF IniInit, parser_start
<1>4. DOMAIN ini_settings = {}
  BY Zenon DEF IniInit, NoSettings
<1> QED
  BY <1>1, <1>2, <1>3, <1>4, Zenon DEF IniInv, IniTypeOK

\* A section without settings, and a setting more.
LEMMA SectionOpened ==
    ASSUME NEW entries, ValuesTyped(entries), NEW name
    PROVE  ValuesTyped(With(entries, name, NoSettings))
<1>1. ASSUME NEW s \in DOMAIN With(entries, name, NoSettings),
             NEW k \in DOMAIN With(entries, name, NoSettings)[s]
      PROVE  With(entries, name, NoSettings)[s][k] \in Seq(IniChars)
  <2>1. s \in DOMAIN entries \cup {name}
    BY Zenon DEF With
  <2>2. With(entries, name, NoSettings)[s] = IF s = name THEN NoSettings ELSE entries[s]
    BY <2>1, Zenon DEF With
  <2>3. s # name
    BY <1>1, <2>2, Zenon DEF NoSettings
  <2> QED
    BY <1>1, <2>1, <2>2, <2>3, Zenon DEF ValuesTyped
<1> QED
  BY <1>1, Zenon DEF ValuesTyped

\* A setting more in a section.
LEMMA SettingStored ==
    ASSUME NEW entries, ValuesTyped(entries), NEW name, NEW key, NEW v \in Seq(IniChars)
    PROVE  ValuesTyped([entries EXCEPT ![name] = With(@, key, v)])
<1> DEFINE after == [entries EXCEPT ![name] = With(@, key, v)]
<1>1. ASSUME NEW s \in DOMAIN after, NEW k \in DOMAIN after[s] PROVE after[s][k] \in Seq(IniChars)
  <2>1. s \in DOMAIN entries
    BY Zenon
  <2>2. after[s] = IF s = name THEN With(entries[s], key, v) ELSE entries[s]
    BY <2>1, Zenon
  <2> HIDE DEF after
  <2>3. CASE s # name
    BY <1>1, <2>1, <2>2, <2>3, Zenon DEF ValuesTyped
  <2>4. CASE s = name
    <3>1. after[s] = With(entries[s], key, v)
      BY <2>2, <2>4, Zenon
    <3>2. k \in DOMAIN entries[s] \cup {key}
      BY <1>1, <3>1, Zenon DEF With
    <3>3. after[s][k] = IF k = key THEN v ELSE entries[s][k]
      BY <3>1, <3>2, Zenon DEF With
    <3>4. k # key => entries[s][k] \in Seq(IniChars)
      BY <2>1, <3>2, Zenon DEF ValuesTyped
    <3> QED
      BY <3>3, <3>4, Zenon
  <2> QED
    BY <2>3, <2>4
<1> QED
  BY <1>1, Zenon DEF ValuesTyped

\* Every step keeps the types of the reader of settings.
LEMMA StepIniInv == IniInv /\ [IniNext]_iniVars => IniInv'
<1> SUFFICES ASSUME IniInv, [IniNext]_iniVars PROVE IniInv'
  OBVIOUS
<1>1. /\ ini_lines \in Seq(IniLines) /\ ini_text \in Seq(IniChars) /\ ini_ahead \in Seq(IniChars)
      /\ ini_pc \in {"reading", "returned"} /\ Len(ini_lines) <= MaxIniLines
      /\ ini_cs \in 0 .. 15 /\ ini_mark \in 0 .. Len(ini_text) /\ ValuesTyped(ini_settings)
  BY Zenon DEF IniInv, IniTypeOK, ValuesTyped
<1>2. ASSUME ini_lines' \in Seq(IniLines), ini_text' \in Seq(IniChars), ini_ahead' \in Seq(IniChars),
             ini_pc' \in {"reading", "returned"}, Len(ini_lines') <= MaxIniLines,
             ini_cs' \in 0 .. 15, ini_mark' \in 0 .. Len(ini_text'), ValuesTyped(ini_settings')
      PROVE IniInv'
  BY <1>2, Zenon DEF IniInv, IniTypeOK, ValuesTyped
<1>3. CASE IniLine
  <2>1. PICK l \in IniLines : ini_lines' = Append(ini_lines, l) /\ ini_ahead' = Append(l.text, "LF")
    BY <1>3 DEF IniLine
  <2>2. /\ ini_pc' = ini_pc /\ ini_text' = ini_text /\ ini_cs' = ini_cs /\ ini_mark' = ini_mark
        /\ ini_settings' = ini_settings /\ Len(ini_lines) < MaxIniLines
    BY <1>3 DEF IniLine, iniParser
  <2>3. l.text \in Seq(IniChars \ {"LF"})
    BY LinesAreTexts
  <2>4. l.text \in Seq(IniChars) /\ "LF" \in IniChars
    <3>1. "LF" \in IniChars /\ IniChars \ {"LF"} \subseteq IniChars
      BY Zenon DEF IniChars
    <3>2. Seq(IniChars \ {"LF"}) \subseteq Seq(IniChars)
      BY <3>1
    <3> QED
      BY <2>3, <3>1, <3>2
  <2>5. ini_ahead' \in Seq(IniChars)
    BY <2>1, <2>4
  <2>6. ini_lines' \in Seq(IniLines) /\ Len(ini_lines') = Len(ini_lines) + 1 /\ Len(ini_lines) \in Nat
    BY <1>1, <2>1
  <2>7. Len(ini_lines') <= MaxIniLines
    BY <2>2, <2>6, LinesAreTexts
  <2> QED
    BY <1>1, <1>2, <2>2, <2>5, <2>6, <2>7
<1>4. CASE IniChar
  <2> DEFINE e == _parser_table[ini_cs][Head(ini_ahead)]
             mark == IF Does(e.acts, "mark") THEN Len(ini_text) ELSE ini_mark
             key == IF Does(e.acts, "store_key") THEN Marked(mark) ELSE ini_key
  <2>1. Head(ini_ahead) \in IniChars /\ Tail(ini_ahead) \in Seq(IniChars)
    BY <1>1, <1>4 DEF IniChar
  <2>2. e.to \in 0 .. 15
    BY <1>1, <2>1, IniStates
  <2>3. Len(ini_text) \in Nat
    BY <1>1
  <2> HIDE DEF e
  <2>4. mark \in 0 .. Len(ini_text)
    BY <1>1, <2>3
  <2> HIDE DEF mark
  <2>5. Marked(mark) \in Seq(IniChars)
    BY <1>1, <2>3, <2>4 DEF Marked
  <2> HIDE DEF key
  <2>6. /\ ini_cs' = e.to /\ ini_mark' = mark /\ ini_pc' = ini_pc /\ ini_lines' = ini_lines
        /\ ini_text' = Append(ini_text, Head(ini_ahead)) /\ ini_ahead' = Tail(ini_ahead)
    BY <1>4, Zenon DEF IniChar, e, mark
  <2>7. \/ set_section(Marked(mark))
        \/ store_value(key, Marked(mark))
        \/ ini_settings' = ini_settings
    BY <1>4, Zenon DEF IniChar, e, mark, key
  <2>8. ValuesTyped(ini_settings')
    <3>1. CASE set_section(Marked(mark))
      BY <1>1, <3>1, SectionOpened, Zenon DEF set_section
    <3>2. CASE store_value(key, Marked(mark))
      <4>1. \/ ini_settings' = ini_settings
            \/ ini_settings' = [ini_settings EXCEPT ![ini_section[1]] = With(@, key, Marked(mark))]
        BY <3>2, Zenon DEF store_value
      <4>2. ValuesTyped([ini_settings EXCEPT ![ini_section[1]] = With(@, key, Marked(mark))])
        BY <1>1, <2>5, SettingStored, Zenon
      <4> HIDE DEF ValuesTyped
      <4> QED
        BY <1>1, <4>1, <4>2
    <3>3. CASE ini_settings' = ini_settings
      BY <1>1, <3>3
    <3> QED
      BY <2>7, <3>1, <3>2, <3>3
  <2>9. ini_text' \in Seq(IniChars) /\ Len(ini_text') = Len(ini_text) + 1
    BY <1>1, <2>1, <2>6
  <2>10. ini_mark' \in 0 .. Len(ini_text')
    BY <2>3, <2>4, <2>6, <2>9
  <2> QED
    BY <1>1, <1>2, <2>1, <2>2, <2>6, <2>8, <2>9, <2>10
<1>5. CASE IniReturns
  BY <1>1, <1>2, <1>5 DEF IniReturns, iniParser
<1>6. CASE UNCHANGED iniVars
  BY <1>1, <1>2, <1>6 DEF iniVars
<1> QED
  BY <1>3, <1>4, <1>5, <1>6 DEF IniNext

-----------------------------------------------------------------------------
(***************************************************************************)
(* The settings that lines give, and what one more line adds to them.      *)
(***************************************************************************)
\* A set of places that is not empty has a last one.
LEMMA LastExists ==
    ASSUME NEW n \in Nat, NEW at \in SUBSET (1 .. n), at # {}
    PROVE  \E i \in at : \A j \in at : j <= i
<1> DEFINE co == {n - i : i \in at}
<1>1. co \in SUBSET Nat /\ co # {}
  <2>1. \A i \in at : n - i \in Nat
    OBVIOUS
  <2>2. PICK i \in at : TRUE
    OBVIOUS
  <2>3. n - i \in co
    OBVIOUS
  <2> QED
    BY <2>1, <2>3
<1>2. PICK c \in co : \A d \in co : c <= d
  <2> HIDE DEF co
  <2> QED
    BY <1>1, LeastExists, Zenon
<1>3. PICK i \in at : c = n - i
  BY <1>2
<1>4. ASSUME NEW j \in at PROVE j <= i
  <2>1. c <= n - j
    BY <1>2
  <2> QED
    BY <1>3, <2>1
<1> QED
  BY <1>3, <1>4

\* The lines of a file and one more.
LEMMA LineAdded ==
    ASSUME NEW S, NEW lines \in Seq(S), NEW l \in S
    PROVE  LET more == Append(lines, l) IN
           /\ more \in Seq(S) /\ Len(more) = Len(lines) + 1 /\ Len(lines) \in Nat
           /\ DOMAIN lines = 1 .. Len(lines) /\ DOMAIN more = DOMAIN lines \cup {Len(lines) + 1}
           /\ \A i \in DOMAIN lines : more[i] = lines[i] /\ i \in Nat /\ i < Len(lines) + 1
           /\ more[Len(lines) + 1] = l /\ Len(lines) + 1 \notin DOMAIN lines
  OBVIOUS

\* The opening of a section that the settings of the section are behind.
IsLatest(lines, s, i) ==
    i \in Opens(lines) /\ lines[i].name = s /\ \A j \in Opens(lines) : lines[j].name = s => j <= i

\* The setting of a name that counts.
IsFirst(lines, places, key, j) ==
    j \in places /\ lines[j].name = key /\ \A other \in places : lines[other].name = key => j <= other

SectionNames(lines) == {lines[i].name : i \in Opens(lines)}
NamesAt(lines, places) == {lines[j].name : j \in places}

\* What is chosen is the one there is.
LEMMA LatestIs ==
    ASSUME NEW S, NEW lines \in Seq(S), NEW s
    PROVE  /\ \A i : IsLatest(lines, s, i) => LatestOpen(lines, s) = i
           /\ s \in SectionNames(lines) => IsLatest(lines, s, LatestOpen(lines, s))
<1>1. Opens(lines) \subseteq 1 .. Len(lines) /\ Len(lines) \in Nat
  BY DEF Opens
<1>2. ASSUME NEW i, IsLatest(lines, s, i) PROVE IsLatest(lines, s, LatestOpen(lines, s))
  BY <1>2, Zenon DEF IsLatest, LatestOpen
<1>3. ASSUME NEW i, NEW j, IsLatest(lines, s, i), IsLatest(lines, s, j) PROVE i = j
  <2>1. i \in Opens(lines) /\ j \in Opens(lines) /\ i <= j /\ j <= i
    BY <1>3 DEF IsLatest
  <2>2. i \in Nat /\ j \in Nat
    BY <1>1, <2>1
  <2> QED
    BY <2>1, <2>2
<1>4. ASSUME s \in SectionNames(lines) PROVE \E i : IsLatest(lines, s, i)
  <2> DEFINE at == {i \in Opens(lines) : lines[i].name = s}
  <2>1. at # {} /\ at \in SUBSET (1 .. Len(lines))
    <3>1. PICK i \in Opens(lines) : lines[i].name = s
      BY <1>4, Zenon DEF SectionNames
    <3> QED
      BY <1>1, <3>1
  <2>2. PICK i \in at : \A j \in at : j <= i
    <3> HIDE DEF at
    <3> QED
      BY <1>1, <2>1, LastExists, Zenon
  <2> QED
    BY <2>2, Zenon DEF IsLatest
<1> QED
  BY <1>2, <1>3, <1>4, Zenon

\* So it is with the settings of a name.
LEMMA FirstIs ==
    ASSUME NEW lines, NEW places \in SUBSET Nat, NEW key
    PROVE  /\ \A j : IsFirst(lines, places, key, j) => FirstNamed(lines, places, key) = j
           /\ key \in NamesAt(lines, places) => IsFirst(lines, places, key, FirstNamed(lines, places, key))
<1>2. ASSUME NEW i, IsFirst(lines, places, key, i) PROVE IsFirst(lines, places, key, FirstNamed(lines, places, key))
  BY <1>2, Zenon DEF IsFirst, FirstNamed
<1>3. ASSUME NEW i, NEW j, IsFirst(lines, places, key, i), IsFirst(lines, places, key, j) PROVE i = j
  <2>1. i \in places /\ j \in places /\ i <= j /\ j <= i
    BY <1>3 DEF IsFirst
  <2>2. i \in Nat /\ j \in Nat
    BY <2>1
  <2> QED
    BY <2>1, <2>2
<1>4. ASSUME key \in NamesAt(lines, places) PROVE \E i : IsFirst(lines, places, key, i)
  <2> DEFINE at == {i \in places : lines[i].name = key}
  <2>1. at # {} /\ at \in SUBSET Nat
    <3>1. PICK i \in places : lines[i].name = key
      BY <1>4, Zenon DEF NamesAt
    <3> QED
      BY <3>1
  <2>2. PICK i \in at : \A j \in at : i <= j
    <3> HIDE DEF at
    <3> QED
      BY <2>1, LeastExists, Zenon
  <2> QED
    BY <2>2, Zenon DEF IsFirst
<1> QED
  BY <1>2, <1>3, <1>4, Zenon

\* The settings of the section that place i opens.
SettingsAt(lines, places) == [key \in NamesAt(lines, places) |-> lines[FirstNamed(lines, places, key)].value]

\* The settings are those of the sections.
LEMMA SettingsAre ==
    ASSUME NEW lines
    PROVE  SettingsOf(lines) =
             [s \in SectionNames(lines) |-> SettingsAt(lines, InSection(lines, LatestOpen(lines, s)))]
  BY Zenon DEF SettingsOf, SectionNames, SettingsAt, NamesAt

\* A line behind them changes nothing in places before it.
LEMMA SettingsAtStay ==
    ASSUME NEW S, NEW lines \in Seq(S), NEW l \in S, NEW places \in SUBSET (DOMAIN lines)
    PROVE  SettingsAt(Append(lines, l), places) = SettingsAt(lines, places)
<1> DEFINE more == Append(lines, l)
<1>1. (\A i \in places : more[i] = lines[i]) /\ places \in SUBSET Nat
  BY LineAdded
<1> HIDE DEF more
<1>2. NamesAt(more, places) = NamesAt(lines, places)
  BY <1>1 DEF NamesAt
<1>3. ASSUME NEW key \in NamesAt(lines, places)
      PROVE  more[FirstNamed(more, places, key)].value = lines[FirstNamed(lines, places, key)].value
  <2> DEFINE j == FirstNamed(lines, places, key)
  <2>1. IsFirst(lines, places, key, j)
    BY <1>1, <1>3, FirstIs, Zenon
  <2> HIDE DEF j
  <2>2. IsFirst(more, places, key, j) /\ j \in places
    BY <1>1, <2>1 DEF IsFirst
  <2>3. FirstNamed(more, places, key) = j
    BY <1>1, <2>2, FirstIs, Zenon
  <2> QED
    BY <1>1, <2>2, <2>3 DEF j
<1> QED
  BY <1>2, <1>3, Zenon DEF SettingsAt, more

\* A setting behind them is one more, unless there is one of its name.
LEMMA SettingsAtGrow ==
    ASSUME NEW S, NEW lines \in Seq(S), NEW l \in S, NEW places \in SUBSET (DOMAIN lines)
    PROVE  SettingsAt(Append(lines, l), places \cup {Len(lines) + 1}) =
             IF l.name \in DOMAIN SettingsAt(lines, places) THEN SettingsAt(lines, places)
             ELSE With(SettingsAt(lines, places), l.name, l.value)
<1> DEFINE more == Append(lines, l)
           n == Len(lines) + 1
           grown == places \cup {n}
           f == SettingsAt(lines, places)
<1>1. /\ \A i \in places : more[i] = lines[i] /\ i < n
      /\ places \in SUBSET Nat /\ n \in Nat /\ more[n] = l
  BY LineAdded
<1>2. grown \in SUBSET Nat
  BY <1>1
<1> HIDE DEF more, n
<1>3. NamesAt(more, grown) = NamesAt(lines, places) \cup {l.name}
  BY <1>1 DEF NamesAt
<1>4. DOMAIN f = NamesAt(lines, places)
  BY Zenon DEF SettingsAt
<1>5. ASSUME NEW key \in NamesAt(lines, places)
      PROVE  more[FirstNamed(more, grown, key)].value = f[key]
  <2> DEFINE j == FirstNamed(lines, places, key)
  <2>1. IsFirst(lines, places, key, j)
    BY <1>1, <1>5, FirstIs, Zenon
  <2>2. f[key] = lines[j].value
    BY <1>5, Zenon DEF SettingsAt
  <2> HIDE DEF j
  <2>3. j \in places /\ j \in Nat /\ lines[j].name = key /\ (\A other \in places : lines[other].name = key => j <= other)
    BY <1>1, <2>1 DEF IsFirst
  <2>4. \A other \in grown : more[other].name = key => j <= other
    BY <1>1, <2>3
  <2>5. IsFirst(more, grown, key, j)
    BY <1>1, <2>3, <2>4 DEF IsFirst
  <2>6. FirstNamed(more, grown, key) = j
    BY <1>2, <2>5, FirstIs, Zenon
  <2> QED
    BY <1>1, <2>2, <2>3, <2>6
<1>6. ASSUME l.name \notin NamesAt(lines, places) PROVE more[FirstNamed(more, grown, l.name)].value = l.value
  <2>1. ASSUME NEW other \in grown, more[other].name = l.name PROVE other = n
    <3>1. other \in places => l.name \in NamesAt(lines, places)
      BY <1>1, <2>1 DEF NamesAt
    <3> QED
      BY <1>6, <2>1, <3>1
  <2>2. IsFirst(more, grown, l.name, n)
    BY <1>1, <2>1 DEF IsFirst
  <2>3. FirstNamed(more, grown, l.name) = n
    BY <1>2, <2>2, FirstIs, Zenon
  <2> QED
    BY <1>1, <2>3
<1>7. SettingsAt(more, grown) =
        [key \in NamesAt(lines, places) \cup {l.name} |-> more[FirstNamed(more, grown, key)].value]
  BY <1>3, Zenon DEF SettingsAt
<1>8. f = [key \in NamesAt(lines, places) |-> f[key]]
  BY Zenon DEF SettingsAt
<1> HIDE DEF grown, f
<1>9. CASE l.name \in NamesAt(lines, places)
  <2>1. NamesAt(lines, places) \cup {l.name} = NamesAt(lines, places)
    BY <1>9
  <2>2. SettingsAt(more, grown) = f
    BY <1>5, <1>7, <1>8, <2>1
  <2> QED
    BY <1>4, <1>9, <2>2, Zenon DEF grown, f, n, more
<1>10. CASE l.name \notin NamesAt(lines, places)
  <2>1. With(f, l.name, l.value) =
          [key \in NamesAt(lines, places) \cup {l.name} |-> IF key = l.name THEN l.value ELSE f[key]]
    BY <1>4, Zenon DEF With
  <2>2. \A key \in NamesAt(lines, places) \cup {l.name} :
          more[FirstNamed(more, grown, key)].value = IF key = l.name THEN l.value ELSE f[key]
    BY <1>5, <1>6, <1>10, Zenon
  <2>3. SettingsAt(more, grown) = With(f, l.name, l.value)
    BY <1>7, <2>1, <2>2, Zenon
  <2> QED
    BY <1>4, <1>10, <2>3, Zenon DEF grown, f, n, more
<1> QED
  BY <1>9, <1>10

\* What a line adds to the sections and to the places in them.
LEMMA PlacesGrow ==
    ASSUME NEW S, NEW lines \in Seq(S), NEW l \in S
    PROVE  LET more == Append(lines, l)
               n == Len(lines) + 1 IN
           /\ Opens(lines) \subseteq DOMAIN lines
           /\ l.kind = "section" => Opens(more) = Opens(lines) \cup {n} /\ InSection(more, n) = {}
           /\ l.kind # "section" => Opens(more) = Opens(lines)
           /\ \A i \in Opens(lines) :
                 /\ InSection(lines, i) \subseteq DOMAIN lines
                 /\ l.kind = "setting" /\ (\A o \in Opens(lines) : o <= i)
                      => InSection(more, i) = InSection(lines, i) \cup {n}
                 /\ l.kind = "setting" /\ ~(\A o \in Opens(lines) : o <= i)
                      => InSection(more, i) = InSection(lines, i)
                 /\ l.kind # "setting" => InSection(more, i) = InSection(lines, i)
<1> DEFINE more == Append(lines, l)
           n == Len(lines) + 1
<1>1. /\ n \in Nat /\ DOMAIN more = DOMAIN lines \cup {n} /\ more[n] = l /\ n \notin DOMAIN lines
      /\ \A i \in DOMAIN lines : more[i] = lines[i] /\ i \in Nat /\ i < n
  BY LineAdded
<1> HIDE DEF more, n
<1>2. Opens(lines) \subseteq DOMAIN lines
  BY DEF Opens
<1>3. ASSUME l.kind = "section" PROVE Opens(more) = Opens(lines) \cup {n} /\ InSection(more, n) = {}
  <2>1. Opens(more) = Opens(lines) \cup {n}
    BY <1>1, <1>3 DEF Opens
  <2>2. ASSUME NEW j \in InSection(more, n) PROVE FALSE
    <3>1. j \in DOMAIN lines \cup {n} /\ n < j
      BY <1>1 DEF InSection
    <3> QED
      BY <1>1, <3>1
  <2> QED
    BY <2>1, <2>2
<1>4. ASSUME l.kind # "section" PROVE Opens(more) = Opens(lines)
  BY <1>1, <1>4 DEF Opens
<1>5. ASSUME NEW i \in Opens(lines)
      PROVE  /\ InSection(lines, i) \subseteq DOMAIN lines
             /\ l.kind = "setting" /\ (\A o \in Opens(lines) : o <= i)
                  => InSection(more, i) = InSection(lines, i) \cup {n}
             /\ l.kind = "setting" /\ ~(\A o \in Opens(lines) : o <= i)
                  => InSection(more, i) = InSection(lines, i)
             /\ l.kind # "setting" => InSection(more, i) = InSection(lines, i)
  <2>1. i \in Nat /\ i < n /\ (\A o \in Opens(lines) : o \in Nat /\ o < n)
    BY <1>1, <1>2
  <2>2. InSection(lines, i) \subseteq DOMAIN lines
    BY DEF InSection
  <2>3. ASSUME NEW j \in DOMAIN lines PROVE j \in InSection(more, i) <=> j \in InSection(lines, i)
    <3>1. j \in Nat /\ j < n /\ j \in DOMAIN more /\ more[j] = lines[j]
      BY <1>1
    <3>2. (\A o \in Opens(more) : o > j \/ o <= i) <=> (\A o \in Opens(lines) : o > j \/ o <= i)
      <4>1. CASE l.kind = "section"
        BY <1>1, <1>3, <3>1, <4>1
      <4>2. CASE l.kind # "section"
        BY <1>4, <4>2
      <4> QED
        BY <4>1, <4>2
    <3> QED
      BY <3>1, <3>2 DEF InSection
  <2>4. InSection(more, i) \subseteq DOMAIN lines \cup {n}
    BY <1>1 DEF InSection
  <2>5. l.kind # "setting" => n \notin InSection(more, i)
    BY <1>1 DEF InSection
  <2>6. ASSUME l.kind = "setting" PROVE n \in InSection(more, i) <=> \A o \in Opens(lines) : o <= i
    <3>1. Opens(more) = Opens(lines)
      BY <1>4, <2>6
    <3>2. n \in InSection(more, i) <=> \A o \in Opens(lines) : o > n \/ o <= i
      BY <1>1, <2>1, <2>6, <3>1 DEF InSection
    <3>3. \A o \in Opens(lines) : ~(o > n)
      BY <1>1, <2>1
    <3> QED
      BY <3>2, <3>3
  <2>7. n \notin InSection(more, i) => InSection(more, i) = InSection(lines, i)
    BY <2>2, <2>3, <2>4
  <2>8. n \in InSection(more, i) => InSection(more, i) = InSection(lines, i) \cup {n}
    BY <2>2, <2>3, <2>4
  <2> QED
    BY <2>2, <2>5, <2>6, <2>7, <2>8, Zenon
<1> QED
  BY <1>2, <1>3, <1>4, <1>5, Zenon DEF more, n

\* A line that opens no section leaves the openings as they are.
LEMMA OpensStay ==
    ASSUME NEW S, NEW lines \in Seq(S), NEW l \in S, l.kind # "section"
    PROVE  LET more == Append(lines, l) IN
           /\ SectionNames(more) = SectionNames(lines)
           /\ \A s \in SectionNames(lines) :
                 /\ LatestOpen(more, s) = LatestOpen(lines, s)
                 /\ LatestOpen(lines, s) \in Opens(lines) /\ lines[LatestOpen(lines, s)].name = s
<1> DEFINE more == Append(lines, l)
<1>1. more \in Seq(S) /\ \A i \in DOMAIN lines : more[i] = lines[i]
  BY LineAdded
<1>2. Opens(more) = Opens(lines) /\ Opens(lines) \subseteq DOMAIN lines
  BY PlacesGrow
<1> HIDE DEF more
<1>3. SectionNames(more) = SectionNames(lines)
  BY <1>1, <1>2 DEF SectionNames
<1>4. ASSUME NEW s \in SectionNames(lines)
      PROVE  /\ LatestOpen(more, s) = LatestOpen(lines, s)
             /\ LatestOpen(lines, s) \in Opens(lines) /\ lines[LatestOpen(lines, s)].name = s
  <2> DEFINE i == LatestOpen(lines, s)
  <2>1. IsLatest(lines, s, i)
    BY LatestIs, Zenon
  <2> HIDE DEF i
  <2>2. IsLatest(more, s, i)
    BY <1>1, <1>2, <2>1 DEF IsLatest
  <2>3. LatestOpen(more, s) = i
    BY <1>1, <2>2, LatestIs, Zenon
  <2> QED
    BY <2>1, <2>3, Zenon DEF IsLatest, i
<1> QED
  BY <1>3, <1>4, Zenon DEF more

\* What is neither a section nor a setting adds nothing.
LEMMA PlainLineGives ==
    ASSUME NEW S, NEW lines \in Seq(S), NEW l \in S, l.kind \notin {"section", "setting"}
    PROVE  SettingsOf(Append(lines, l)) = SettingsOf(lines)
<1> DEFINE more == Append(lines, l)
<1>1. ASSUME NEW s \in SectionNames(lines)
      PROVE  SettingsAt(more, InSection(more, LatestOpen(more, s))) =
               SettingsAt(lines, InSection(lines, LatestOpen(lines, s)))
  <2> DEFINE i == LatestOpen(lines, s)
  <2>1. LatestOpen(more, s) = i /\ i \in Opens(lines)
    BY OpensStay
  <2> HIDE DEF i
  <2>2. InSection(more, i) = InSection(lines, i) /\ InSection(lines, i) \subseteq DOMAIN lines
    BY <2>1, PlacesGrow
  <2>3. SettingsAt(more, InSection(lines, i)) = SettingsAt(lines, InSection(lines, i))
    BY <2>2, SettingsAtStay
  <2> QED
    BY <2>1, <2>2, <2>3, Zenon DEF i
<1>2. SectionNames(more) = SectionNames(lines)
  BY OpensStay
<1> HIDE DEF more
<1> QED
  BY <1>1, <1>2, SettingsAre, Zenon DEF more

\* A section that is opened has no settings.
LEMMA SectionGives ==
    ASSUME NEW S, NEW lines \in Seq(S), NEW l \in S, l.kind = "section"
    PROVE  SettingsOf(Append(lines, l)) = With(SettingsOf(lines), l.name, NoSettings)
<1> DEFINE more == Append(lines, l)
           n == Len(lines) + 1
<1>1. /\ more \in Seq(S) /\ n \in Nat /\ more[n] = l
      /\ \A i \in DOMAIN lines : more[i] = lines[i] /\ i \in Nat /\ i < n
  BY LineAdded
<1>2. Opens(more) = Opens(lines) \cup {n} /\ InSection(more, n) = {} /\ Opens(lines) \subseteq DOMAIN lines
  BY PlacesGrow
<1>3. \A i \in Opens(lines) : InSection(more, i) = InSection(lines, i) /\ InSection(lines, i) \subseteq DOMAIN lines
  BY PlacesGrow
<1>0. \A places \in SUBSET (DOMAIN lines) : SettingsAt(more, places) = SettingsAt(lines, places)
  BY SettingsAtStay
<1> HIDE DEF more, n
<1>4. SectionNames(more) = SectionNames(lines) \cup {l.name}
  BY <1>1, <1>2 DEF SectionNames
<1>5. SettingsAt(more, InSection(more, LatestOpen(more, l.name))) = NoSettings
  <2>1. IsLatest(more, l.name, n)
    <3>1. \A j \in Opens(more) : j <= n
      BY <1>1, <1>2
    <3> QED
      BY <1>1, <1>2, <3>1 DEF IsLatest
  <2>2. LatestOpen(more, l.name) = n
    BY <1>1, <2>1, LatestIs, Zenon
  <2>3. SettingsAt(more, {}) = NoSettings
    BY Zenon DEF SettingsAt, NamesAt, NoSettings
  <2> QED
    BY <1>2, <2>2, <2>3, Zenon
<1>6. ASSUME NEW s \in SectionNames(lines), s # l.name
      PROVE  SettingsAt(more, InSection(more, LatestOpen(more, s))) =
               SettingsAt(lines, InSection(lines, LatestOpen(lines, s)))
  <2> DEFINE i == LatestOpen(lines, s)
  <2>1. IsLatest(lines, s, i)
    BY LatestIs, Zenon
  <2> HIDE DEF i
  <2>2. i \in Opens(lines)
    BY <2>1 DEF IsLatest
  <2>3. IsLatest(more, s, i)
    BY <1>1, <1>2, <1>6, <2>1 DEF IsLatest
  <2>4. LatestOpen(more, s) = i
    BY <1>1, <2>3, LatestIs, Zenon
  <2>5. InSection(more, i) = InSection(lines, i) /\ InSection(lines, i) \in SUBSET (DOMAIN lines)
    BY <1>3, <2>2
  <2>6. SettingsAt(more, InSection(lines, i)) = SettingsAt(lines, InSection(lines, i))
    BY <1>0, <2>5, Zenon
  <2> QED
    BY <2>4, <2>5, <2>6, Zenon DEF i
<1> DEFINE f == SettingsOf(lines)
<1>7. f = [s \in SectionNames(lines) |-> SettingsAt(lines, InSection(lines, LatestOpen(lines, s)))]
  BY SettingsAre, Zenon
<1>8. DOMAIN f = SectionNames(lines)
      /\ \A s \in SectionNames(lines) : f[s] = SettingsAt(lines, InSection(lines, LatestOpen(lines, s)))
  BY <1>7, Zenon
<1> HIDE DEF f
<1>9. With(f, l.name, NoSettings) =
        [s \in SectionNames(lines) \cup {l.name} |-> IF s = l.name THEN NoSettings ELSE f[s]]
  BY <1>8, Zenon DEF With
<1>10. \A s \in SectionNames(lines) \cup {l.name} :
          SettingsAt(more, InSection(more, LatestOpen(more, s))) = IF s = l.name THEN NoSettings ELSE f[s]
  BY <1>5, <1>6, <1>8, Zenon
<1>11. SettingsOf(more) =
         [s \in SectionNames(lines) \cup {l.name} |-> SettingsAt(more, InSection(more, LatestOpen(more, s)))]
  BY <1>4, SettingsAre, Zenon
<1>12. SettingsOf(more) = With(f, l.name, NoSettings)
  BY <1>9, <1>10, <1>11, Zenon
<1> QED
  BY <1>12, Zenon DEF f, more

\* A setting is one more of the section that was opened last, if there is one.
LEMMA SettingGives ==
    ASSUME NEW S, NEW lines \in Seq(S), NEW l \in S, l.kind = "setting"
    PROVE  LET f == SettingsOf(lines) IN
           /\ Opens(lines) = {} => SettingsOf(Append(lines, l)) = f
           /\ \A i \in Opens(lines) : (\A o \in Opens(lines) : o <= i) =>
                 LET s == lines[i].name IN
                 SettingsOf(Append(lines, l)) =
                   IF l.name \in DOMAIN f[s] THEN f ELSE [f EXCEPT ![s] = With(@, l.name, l.value)]
<1> DEFINE more == Append(lines, l)
           f == SettingsOf(lines)
           n == Len(lines) + 1
<1>1. /\ more \in Seq(S) /\ n \in Nat
      /\ \A i \in DOMAIN lines : i \in Nat /\ i < n
  BY LineAdded
<1>2. SectionNames(more) = SectionNames(lines)
  BY OpensStay
<1>3. \A s \in SectionNames(lines) :
         /\ LatestOpen(more, s) = LatestOpen(lines, s)
         /\ LatestOpen(lines, s) \in Opens(lines) /\ lines[LatestOpen(lines, s)].name = s
  BY OpensStay
<1>4. \A places \in SUBSET (DOMAIN lines) :
         /\ SettingsAt(more, places) = SettingsAt(lines, places)
         /\ SettingsAt(more, places \cup {n}) =
              IF l.name \in DOMAIN SettingsAt(lines, places) THEN SettingsAt(lines, places)
              ELSE With(SettingsAt(lines, places), l.name, l.value)
  BY SettingsAtStay, SettingsAtGrow
<1>5. \A i \in Opens(lines) :
         /\ InSection(lines, i) \in SUBSET (DOMAIN lines)
         /\ (\A o \in Opens(lines) : o <= i) => InSection(more, i) = InSection(lines, i) \cup {n}
         /\ ~(\A o \in Opens(lines) : o <= i) => InSection(more, i) = InSection(lines, i)
  BY PlacesGrow
<1>6. Opens(lines) \subseteq DOMAIN lines
  BY DEF Opens
<1> HIDE DEF more, n
<1>7. SettingsOf(more) = [s \in SectionNames(lines) |-> SettingsAt(more, InSection(more, LatestOpen(lines, s)))]
  BY <1>2, <1>3, SettingsAre, Zenon
<1>8. f = [s \in SectionNames(lines) |-> SettingsAt(lines, InSection(lines, LatestOpen(lines, s)))]
  BY SettingsAre, Zenon
<1> HIDE DEF f
<1>9. ASSUME Opens(lines) = {} PROVE SettingsOf(more) = f
  <2>1. SectionNames(lines) = {}
    BY <1>9 DEF SectionNames
  <2> QED
    BY <1>7, <1>8, <2>1, Zenon
<1>10. ASSUME NEW i \in Opens(lines), \A o \in Opens(lines) : o <= i
       PROVE  LET s == lines[i].name IN
              SettingsOf(more) =
                IF l.name \in DOMAIN f[s] THEN f ELSE [f EXCEPT ![s] = With(@, l.name, l.value)]
  <2> DEFINE s == lines[i].name
             g == [f EXCEPT ![s] = With(@, l.name, l.value)]
  <2>1. s \in SectionNames(lines)
    BY Zenon DEF SectionNames
  <2>2. LatestOpen(lines, s) = i
    <3>1. IsLatest(lines, s, i)
      BY <1>10, Zenon DEF IsLatest
    <3> QED
      BY <3>1, LatestIs, Zenon
  <2>3. ASSUME NEW r \in SectionNames(lines), r # s
        PROVE  SettingsAt(more, InSection(more, LatestOpen(lines, r))) = f[r]
    <3> DEFINE j == LatestOpen(lines, r)
    <3>1. j \in Opens(lines) /\ lines[j].name = r
      BY <1>3
    <3> HIDE DEF j
    <3>2. j # i
      BY <2>3, <3>1
    <3>3. ~(\A o \in Opens(lines) : o <= j)
      <4>1. i \in Nat /\ j \in Nat /\ j <= i
        BY <1>1, <1>6, <1>10, <3>1
      <4>2. ~(i <= j)
        BY <3>2, <4>1
      <4> QED
        BY <4>2
    <3>4. InSection(more, j) = InSection(lines, j) /\ InSection(lines, j) \in SUBSET (DOMAIN lines)
      BY <1>5, <3>1, <3>3, Zenon
    <3>5. SettingsAt(more, InSection(more, j)) = SettingsAt(lines, InSection(lines, j))
      BY <1>4, <3>4, Zenon
    <3>6. f[r] = SettingsAt(lines, InSection(lines, j))
      BY <1>8, Zenon DEF j
    <3> QED
      BY <3>5, <3>6, Zenon DEF j
  <2>4. f[s] = SettingsAt(lines, InSection(lines, i))
    BY <1>8, <2>1, <2>2, Zenon
  <2>5. SettingsAt(more, InSection(more, LatestOpen(lines, s))) =
          IF l.name \in DOMAIN f[s] THEN f[s] ELSE With(f[s], l.name, l.value)
    <3>1. InSection(more, i) = InSection(lines, i) \cup {n} /\ InSection(lines, i) \in SUBSET (DOMAIN lines)
      BY <1>5, <1>10, Zenon
    <3> QED
      BY <1>4, <2>2, <2>4, <3>1, Zenon
  <2>6. DOMAIN f = SectionNames(lines) /\ f = [r \in SectionNames(lines) |-> f[r]]
    BY <1>8, Zenon
  <2> HIDE DEF s
  <2>7. CASE l.name \in DOMAIN f[s]
    <3>1. \A r \in SectionNames(lines) : SettingsAt(more, InSection(more, LatestOpen(lines, r))) = f[r]
      BY <2>3, <2>5, <2>7, Zenon
    <3>2. SettingsOf(more) = f
      BY <1>7, <2>6, <3>1, Zenon
    <3> QED
      BY <2>7, <3>2, Zenon DEF s
  <2>8. CASE l.name \notin DOMAIN f[s]
    <3>1. g = [r \in SectionNames(lines) |-> IF r = s THEN With(f[s], l.name, l.value) ELSE f[r]]
      BY <2>6, Zenon
    <3> HIDE DEF g
    <3>2. \A r \in SectionNames(lines) :
             SettingsAt(more, InSection(more, LatestOpen(lines, r))) =
               IF r = s THEN With(f[s], l.name, l.value) ELSE f[r]
      BY <2>3, <2>5, <2>8, Zenon
    <3>3. SettingsOf(more) = g
      BY <1>7, <3>1, <3>2, Zenon
    <3> QED
      BY <2>8, <3>3, Zenon DEF s, g
  <2> QED
    BY <2>7, <2>8
<1> QED
  BY <1>9, <1>10, Zenon DEF more, f

-----------------------------------------------------------------------------
(***************************************************************************)
(* What the automaton of the settings reads where.  The characters that    *)
(* mark the parts of a line have names here.                               *)
(***************************************************************************)
IniQuote == "'"
IniEquals == "="
IniOpen == "["
IniClose == "]"
IniSemicolon == ";"

\* The entry of the table.
IniReads(s, c, to, acts) == _parser_table[s][c].to = to /\ _parser_table[s][c].acts = acts

\* An edge is the entry for its characters.
LEMMA EdgeReads ==
    ASSUME NEW from \in 0 .. 15, NEW chars, NEW to, NEW acts,
           IniEdge(from, chars, to, acts) \in _parser_edges, NEW c \in IniChars, c \in chars
    PROVE  IniReads(from, c, to, acts)
<1> DEFINE e == IniEdge(from, chars, to, acts)
           es == {f \in _parser_edges : f.from = from /\ c \in f.chars}
<1>1. e.from = from /\ e.chars = chars /\ e.to = to /\ e.acts = acts
  BY Zenon DEF IniEdge
<1>2. _parser_table[from][c] = IF es = {} THEN IniEdge(from, {c}, parser_error, <<>>) ELSE CHOOSE f \in es : TRUE
  BY Zenon DEF _parser_table
<1> HIDE DEF e
<1>3. e \in es
  BY <1>1, Zenon DEF e
<1>4. ASSUME NEW f \in es PROVE f = e
  <2>1. f \in _parser_edges /\ e \in _parser_edges /\ f.from = e.from /\ c \in f.chars /\ c \in e.chars
    BY <1>1, <1>3, Zenon
  <2>2. f.chars \cap e.chars # {}
    BY <2>1, Zenon
  <2> QED
    BY <2>1, <2>2, ParserIsDeterministic, Zenon
<1>5. (CHOOSE f \in es : TRUE) \in es /\ es # {}
  BY <1>3, Zenon
<1>6. _parser_table[from][c] = e
  BY <1>2, <1>4, <1>5, Zenon
<1> QED
  BY <1>1, <1>6, Zenon DEF IniReads

\* The characters that have names are characters of files.
LEMMA MarksAreChars ==
    /\ {"LF", "SP", IniQuote, IniEquals, IniOpen, IniClose, IniSemicolon} \subseteq IniChars
    /\ IniName \subseteq IniChars
  BY Zenon DEF IniChars, IniQuote, IniEquals, IniOpen, IniClose, IniSemicolon

\* The first character of a line, that is not behind an empty value.
LEMMA StartReads ==
    /\ IniReads(13, "LF", 13, <<>>) /\ IniReads(13, IniSemicolon, 1, <<>>) /\ IniReads(13, IniOpen, 8, <<>>)
    /\ \A c \in IniName : IniReads(13, c, 2, SetMark)
<1>1. 13 \in 0 .. 15
  OBVIOUS
<1>2. /\ IniEdge(13, {"LF"}, 13, <<>>) \in _parser_edges
      /\ IniEdge(13, {IniSemicolon}, 1, <<>>) \in _parser_edges
      /\ IniEdge(13, {IniOpen}, 8, <<>>) \in _parser_edges
      /\ IniEdge(13, IniName, 2, SetMark) \in _parser_edges
  BY Zenon DEF _parser_edges, LineEdges, IniSemicolon, IniOpen
<1> QED
  BY <1>1, <1>2, EdgeReads, MarksAreChars, Zenon

\* The line of a comment.
LEMMA CommentReads ==
    /\ IniReads(1, "LF", 13, <<>>)
    /\ \A c \in IniChars \ {"LF", IniQuote} : IniReads(1, c, 1, <<>>)
<1>1. 1 \in 0 .. 15
  OBVIOUS
<1>2. /\ IniEdge(1, {"LF"}, 13, <<>>) \in _parser_edges
      /\ IniEdge(1, Rest({"LF", IniQuote}), 1, <<>>) \in _parser_edges
  BY Zenon DEF _parser_edges, CommentEdges, IniQuote
<1>3. \A c \in IniChars \ {"LF", IniQuote} : c \in Rest({"LF", IniQuote})
  BY Zenon DEF Rest
<1> QED
  BY <1>1, <1>2, <1>3, EdgeReads, MarksAreChars, Zenon

\* The name of a setting, behind a line and behind an empty value.
LEMMA NameReads ==
    /\ \A c \in IniName : IniReads(2, c, 2, <<>>) /\ IniReads(14, c, 6, SetMark) /\ IniReads(6, c, 6, <<>>)
    /\ IniReads(2, "SP", 3, SaveKey) /\ IniReads(6, "SP", 7, SaveKey)
    /\ IniReads(3, "SP", 3, <<>>) /\ IniReads(7, "SP", 7, <<>>)
    /\ IniReads(2, IniEquals, 4, SaveKey) /\ IniReads(6, IniEquals, 4, SaveKey)
    /\ IniReads(3, IniEquals, 4, <<>>) /\ IniReads(7, IniEquals, 4, <<>>)
<1>1. 2 \in 0 .. 15 /\ 3 \in 0 .. 15 /\ 6 \in 0 .. 15 /\ 7 \in 0 .. 15 /\ 14 \in 0 .. 15
  OBVIOUS
<1>2. /\ IniEdge(2, IniName, 2, <<>>) \in _parser_edges
      /\ IniEdge(2, {"SP", "LF"}, 3, SaveKey) \in _parser_edges
      /\ IniEdge(2, {IniEquals}, 4, SaveKey) \in _parser_edges
      /\ IniEdge(3, {"SP", "LF"}, 3, <<>>) \in _parser_edges
      /\ IniEdge(3, {IniEquals}, 4, <<>>) \in _parser_edges
  BY Zenon DEF _parser_edges, NameEdges, IniEquals
<1>3. /\ IniEdge(6, IniName, 6, <<>>) \in _parser_edges
      /\ IniEdge(6, {"SP"}, 7, SaveKey) \in _parser_edges
      /\ IniEdge(6, {IniEquals}, 4, SaveKey) \in _parser_edges
      /\ IniEdge(7, {"SP"}, 7, <<>>) \in _parser_edges
      /\ IniEdge(7, {IniEquals}, 4, <<>>) \in _parser_edges
  BY Zenon DEF _parser_edges, NextNameEdges, IniEquals
<1>4. IniEdge(14, IniName, 6, SetMark) \in _parser_edges
  BY Zenon DEF _parser_edges, NextLineEdges
<1>5. \A c \in IniName : IniReads(2, c, 2, <<>>) /\ IniReads(14, c, 6, SetMark) /\ IniReads(6, c, 6, <<>>)
  BY <1>1, <1>2, <1>3, <1>4, EdgeReads, MarksAreChars, Zenon
<1>6. IniReads(2, "SP", 3, SaveKey) /\ IniReads(6, "SP", 7, SaveKey) /\ IniReads(3, "SP", 3, <<>>) /\ IniReads(7, "SP", 7, <<>>)
  BY <1>1, <1>2, <1>3, EdgeReads, MarksAreChars, Zenon
<1>7. /\ IniReads(2, IniEquals, 4, SaveKey) /\ IniReads(6, IniEquals, 4, SaveKey)
      /\ IniReads(3, IniEquals, 4, <<>>) /\ IniReads(7, IniEquals, 4, <<>>)
  BY <1>1, <1>2, <1>3, EdgeReads, MarksAreChars, Zenon
<1> QED
  BY <1>5, <1>6, <1>7

\* Its value.
LEMMA ValueReads ==
    /\ IniReads(4, "SP", 4, SetMark) /\ IniReads(4, "LF", 14, SetMark \o SaveValue) /\ IniReads(5, "LF", 13, SaveValue)
    /\ \A c \in IniChars \ {"LF", IniQuote} : IniReads(5, c, 5, <<>>) /\ (c # "SP" => IniReads(4, c, 5, SetMark))
<1>1. 4 \in 0 .. 15 /\ 5 \in 0 .. 15
  OBVIOUS
<1>2. /\ IniEdge(4, Rest({"SP", "LF", IniQuote}), 5, SetMark) \in _parser_edges
      /\ IniEdge(4, {"SP"}, 4, SetMark) \in _parser_edges
      /\ IniEdge(4, {"LF"}, 14, SetMark \o SaveValue) \in _parser_edges
      /\ IniEdge(5, Rest({"LF", IniQuote}), 5, <<>>) \in _parser_edges
      /\ IniEdge(5, {"LF"}, 13, SaveValue) \in _parser_edges
  BY Zenon DEF _parser_edges, ValueEdges, IniQuote
<1>3. \A c \in IniChars \ {"LF", IniQuote} :
         c \in Rest({"LF", IniQuote}) /\ (c # "SP" => c \in Rest({"SP", "LF", IniQuote}))
  BY Zenon DEF Rest
<1>4. IniReads(4, "SP", 4, SetMark) /\ IniReads(4, "LF", 14, SetMark \o SaveValue) /\ IniReads(5, "LF", 13, SaveValue)
  BY <1>1, <1>2, EdgeReads, MarksAreChars, Zenon
<1>5. ASSUME NEW c \in IniChars \ {"LF", IniQuote}
      PROVE  IniReads(5, c, 5, <<>>) /\ (c # "SP" => IniReads(4, c, 5, SetMark))
  BY <1>1, <1>2, <1>3, EdgeReads, Zenon
<1> QED
  BY <1>4, <1>5

\* The opening of a section.
LEMMA SectionReads ==
    /\ \A c \in IniName : IniReads(8, c, 9, SetMark) /\ IniReads(9, c, 9, <<>>)
    /\ IniReads(9, IniClose, 10, <<"set_section">>) /\ IniReads(10, "LF", 13, <<>>)
<1>1. 8 \in 0 .. 15 /\ 9 \in 0 .. 15 /\ 10 \in 0 .. 15
  OBVIOUS
<1>2. /\ IniEdge(8, IniName, 9, SetMark) \in _parser_edges /\ IniEdge(9, IniName, 9, <<>>) \in _parser_edges
      /\ IniEdge(9, {IniClose}, 10, <<"set_section">>) \in _parser_edges
      /\ IniEdge(10, {"LF"}, 13, <<>>) \in _parser_edges
  BY Zenon DEF _parser_edges, SectionEdges, IniClose
<1> QED
  BY <1>1, <1>2, EdgeReads, MarksAreChars, Zenon

\* Within a line that does not begin with a bracket, an edge for more than the line
\* end leads to the states of such a line, stores nothing, and is for no quote;
\* at its first character it is for none that begins no line.
NoStart == {"SP", IniQuote, IniEquals, IniClose, "o"}
QuietActs == {<<>>, SaveKey, SetMark}
IsQuiet(e) ==
    e.from \in {1, 2, 3, 4, 5, 13} =>
      \/ e.chars = {"LF"}
      \/ e.from = 13 /\ e.chars = {IniOpen}
      \/ /\ e.to \in 0 .. 5 /\ e.acts \in QuietActs /\ IniQuote \notin e.chars
         /\ e.from = 13 => e.chars \cap NoStart = {}

\* So are all edges.
LEMMA EdgesAreQuiet == \A e \in _parser_edges : IsQuiet(e)
<1>1. \A from, chars, to, acts : from \notin {1, 2, 3, 4, 5, 13} => IsQuiet(IniEdge(from, chars, to, acts))
  <2> SUFFICES ASSUME NEW from, NEW chars, NEW to, NEW acts, from \notin {1, 2, 3, 4, 5, 13}
               PROVE  IsQuiet(IniEdge(from, chars, to, acts))
    OBVIOUS
  <2> DEFINE e == IniEdge(from, chars, to, acts)
  <2>1. e.from = from /\ e.chars = chars /\ e.to = to /\ e.acts = acts
    BY Zenon DEF IniEdge
  <2> HIDE DEF e
  <2>2. IsQuiet(e)
    BY <2>1, Zenon DEF IsQuiet
  <2> QED
    BY <2>2 DEF e
<1>2. \A from, to, acts : IsQuiet(IniEdge(from, {"LF"}, to, acts)) /\ IsQuiet(IniEdge(13, {IniOpen}, to, acts))
  <2> SUFFICES ASSUME NEW from, NEW to, NEW acts
               PROVE  IsQuiet(IniEdge(from, {"LF"}, to, acts)) /\ IsQuiet(IniEdge(13, {IniOpen}, to, acts))
    OBVIOUS
  <2> DEFINE e == IniEdge(from, {"LF"}, to, acts)
             f == IniEdge(13, {IniOpen}, to, acts)
  <2>1. e.chars = {"LF"} /\ f.from = 13 /\ f.chars = {IniOpen}
    BY Zenon DEF IniEdge
  <2> HIDE DEF e, f
  <2>2. IsQuiet(e) /\ IsQuiet(f)
    BY <2>1, Zenon DEF IsQuiet
  <2> QED
    BY <2>2 DEF e, f
<1>3. \A from, chars, to, acts : to \in 0 .. 5 /\ acts \in QuietActs /\ IniQuote \notin chars
                                  /\ (from # 13 \/ chars \cap NoStart = {})
         => IsQuiet(IniEdge(from, chars, to, acts))
  <2> SUFFICES ASSUME NEW from, NEW chars, NEW to, NEW acts, to \in 0 .. 5,
                      acts \in QuietActs, IniQuote \notin chars, from # 13 \/ chars \cap NoStart = {}
               PROVE  IsQuiet(IniEdge(from, chars, to, acts))
    OBVIOUS
  <2> DEFINE e == IniEdge(from, chars, to, acts)
  <2>1. e.from = from /\ e.chars = chars /\ e.to = to /\ e.acts = acts
    BY Zenon DEF IniEdge
  <2> HIDE DEF e
  <2>2. IsQuiet(e)
    BY <2>1, Zenon DEF IsQuiet
  <2> QED
    BY <2>2 DEF e
<1>4. <<>> \in QuietActs /\ SaveKey \in QuietActs /\ SetMark \in QuietActs
  BY Zenon DEF QuietActs
<1>5. /\ IniQuote \notin {"SP", "LF"} /\ IniQuote \notin IniName /\ IniQuote \notin {IniEquals} /\ IniQuote \notin {"SP"}
      /\ \A chars : IniQuote \in chars => IniQuote \notin Rest(chars)
      /\ IniQuote \notin {IniSemicolon}
  BY Zenon DEF IniQuote, IniEquals, IniSemicolon, IniName, Rest
<1>6. {IniSemicolon} \cap NoStart = {} /\ IniName \cap NoStart = {}
  BY Zenon DEF NoStart, IniQuote, IniEquals, IniSemicolon, IniClose, IniName
<1>7. \A e \in CommentEdges : IsQuiet(e)
  <2>1. 1 \in 0 .. 5 /\ 1 # 13
    OBVIOUS
  <2>2. IsQuiet(IniEdge(1, Rest({"LF", IniQuote}), 1, <<>>)) /\ IsQuiet(IniEdge(1, {"LF"}, 13, <<>>))
    BY <1>2, <1>3, <1>4, <1>5, <2>1, Zenon
  <2> QED
    BY <2>2, Zenon DEF CommentEdges, IniQuote
<1>8. \A e \in NameEdges : IsQuiet(e)
  <2>1. 2 \in 0 .. 5 /\ 3 \in 0 .. 5 /\ 4 \in 0 .. 5 /\ 2 # 13 /\ 3 # 13
    OBVIOUS
  <2>2. /\ IsQuiet(IniEdge(2, {"SP", "LF"}, 3, SaveKey)) /\ IsQuiet(IniEdge(2, IniName, 2, <<>>))
        /\ IsQuiet(IniEdge(2, {IniEquals}, 4, SaveKey)) /\ IsQuiet(IniEdge(3, {"SP", "LF"}, 3, <<>>))
        /\ IsQuiet(IniEdge(3, {IniEquals}, 4, <<>>))
    BY <1>3, <1>4, <1>5, <2>1, Zenon
  <2> QED
    BY <2>2, Zenon DEF NameEdges, IniEquals
<1>9. \A e \in ValueEdges : IsQuiet(e)
  <2>1. 4 \in 0 .. 5 /\ 5 \in 0 .. 5 /\ 4 # 13 /\ 5 # 13
    OBVIOUS
  <2>2. /\ IsQuiet(IniEdge(4, Rest({"SP", "LF", IniQuote}), 5, SetMark)) /\ IsQuiet(IniEdge(4, {"SP"}, 4, SetMark))
        /\ IsQuiet(IniEdge(5, Rest({"LF", IniQuote}), 5, <<>>))
    BY <1>3, <1>4, <1>5, <2>1, Zenon
  <2>3. IsQuiet(IniEdge(4, {"LF"}, 14, SetMark \o SaveValue)) /\ IsQuiet(IniEdge(5, {"LF"}, 13, SaveValue))
    BY <1>2, Zenon
  <2> QED
    BY <2>2, <2>3, Zenon DEF ValueEdges, IniQuote
<1>10. \A e \in NextNameEdges : IsQuiet(e)
  <2>1. 6 \notin {1, 2, 3, 4, 5, 13} /\ 7 \notin {1, 2, 3, 4, 5, 13}
    OBVIOUS
  <2> QED
    BY <1>1, <2>1, Zenon DEF NextNameEdges
<1>11. \A e \in SectionEdges : IsQuiet(e)
  <2>1. 8 \notin {1, 2, 3, 4, 5, 13} /\ 9 \notin {1, 2, 3, 4, 5, 13} /\ 10 \notin {1, 2, 3, 4, 5, 13}
    OBVIOUS
  <2> QED
    BY <1>1, <2>1, Zenon DEF SectionEdges
<1>12. \A e \in NextSectionEdges : IsQuiet(e)
  <2>1. 11 \notin {1, 2, 3, 4, 5, 13} /\ 12 \notin {1, 2, 3, 4, 5, 13}
    OBVIOUS
  <2> QED
    BY <1>1, <2>1, Zenon DEF NextSectionEdges
<1>13. \A e \in LineEdges : IsQuiet(e)
  <2>1. 1 \in 0 .. 5 /\ 2 \in 0 .. 5
    OBVIOUS
  <2>2. /\ IsQuiet(IniEdge(13, {"LF"}, 13, <<>>)) /\ IsQuiet(IniEdge(13, {IniSemicolon}, 1, <<>>))
        /\ IsQuiet(IniEdge(13, IniName, 2, SetMark)) /\ IsQuiet(IniEdge(13, {IniOpen}, 8, <<>>))
    BY <1>2, <1>3, <1>4, <1>5, <1>6, <2>1, Zenon
  <2> QED
    BY <2>2, Zenon DEF LineEdges, IniSemicolon, IniOpen
<1>14. \A e \in NextLineEdges : IsQuiet(e)
  <2>1. 14 \notin {1, 2, 3, 4, 5, 13}
    OBVIOUS
  <2>2. \A chars, to, acts : IsQuiet(IniEdge(14, chars, to, acts))
    BY <1>1, <2>1, Zenon
  <2> QED
    BY <2>2, Zenon DEF NextLineEdges
<1>15. \A e \in NamedLineEdges : IsQuiet(e)
  <2>1. 15 \notin {1, 2, 3, 4, 5, 13}
    OBVIOUS
  <2>2. \A chars, to, acts : IsQuiet(IniEdge(15, chars, to, acts))
    BY <1>1, <2>1, Zenon
  <2> QED
    BY <2>2, Zenon DEF NamedLineEdges
<1> QED
  BY <1>7, <1>8, <1>9, <1>10, <1>11, <1>12, <1>13, <1>14, <1>15, Zenon DEF _parser_edges

\* Within such a line nothing is stored, and what makes it broken is refused.
LEMMA QuietReads ==
    ASSUME NEW s \in {1, 2, 3, 4, 5, 13}, NEW c \in IniChars \ {"LF"}, s = 13 => c # IniOpen
    PROVE  /\ _parser_table[s][c].to \in 0 .. 5 /\ _parser_table[s][c].acts \in QuietActs
           /\ c = IniQuote \/ (s = 13 /\ c \in NoStart) => _parser_table[s][c].to = 0
<1> DEFINE es == {f \in _parser_edges : f.from = s /\ c \in f.chars}
           e == _parser_table[s][c]
<1>1. e = IF es = {} THEN IniEdge(s, {c}, parser_error, <<>>) ELSE CHOOSE f \in es : TRUE
  <2>1. s \in 0 .. 15
    OBVIOUS
  <2> QED
    BY <2>1, Zenon DEF _parser_table
<1> HIDE DEF e
<1>2. CASE es = {}
  <2>1. e = IniEdge(s, {c}, parser_error, <<>>)
    BY <1>1, <1>2, Zenon
  <2>2. e.to = 0 /\ e.acts = <<>>
    BY <2>1 DEF IniEdge, parser_error
  <2>3. 0 \in 0 .. 5
    OBVIOUS
  <2> QED
    BY <2>2, <2>3, Zenon DEF QuietActs, e
<1>3. CASE es # {}
  <2>1. e \in es
    BY <1>1, <1>3, Zenon
  <2>2. IsQuiet(e) /\ e.from = s /\ c \in e.chars
    BY <2>1, EdgesAreQuiet, Zenon
  <2>3. e.chars # {"LF"} /\ ~(e.from = 13 /\ e.chars = {IniOpen})
    BY <2>2, Zenon
  <2>4. e.to \in 0 .. 5 /\ e.acts \in QuietActs /\ IniQuote \notin e.chars /\ (e.from = 13 => e.chars \cap NoStart = {})
    BY <2>2, <2>3, Zenon DEF IsQuiet
  <2>5. ~(c = IniQuote \/ (s = 13 /\ c \in NoStart))
    BY <2>2, <2>4, Zenon
  <2> QED
    BY <2>4, <2>5, Zenon DEF e
<1> QED
  BY <1>2, <1>3

-----------------------------------------------------------------------------
(***************************************************************************)
(* What a character does, and what the end of a line does to the settings. *)
(***************************************************************************)
\* The lists of actions, and what is in them.
LEMMA DoesWhat ==
    /\ \A act : ~Does(<<>>, act)
    /\ \A act : Does(SetMark, act) <=> act = "mark"
    /\ \A act : Does(SaveKey, act) <=> act = "store_key"
    /\ \A act : Does(SaveValue, act) <=> act = "store_value"
    /\ \A act : Does(SetMark \o SaveValue, act) <=> act \in {"mark", "store_value"}
    /\ \A act : Does(<<"set_section">>, act) <=> act = "set_section"
<1>1. \A act : ~Does(<<>>, act)
  BY DEF Does
<1>2. \A x, act : Does(<<x>>, act) <=> act = x
  <2> SUFFICES ASSUME NEW x, NEW act PROVE Does(<<x>>, act) <=> act = x
    OBVIOUS
  <2>1. DOMAIN <<x>> = {1} /\ <<x>>[1] = x
    OBVIOUS
  <2> QED
    BY <2>1, Zenon DEF Does
<1>3. \A act : Does(SetMark \o SaveValue, act) <=> act \in {"mark", "store_value"}
  <2> SUFFICES ASSUME NEW act PROVE Does(SetMark \o SaveValue, act) <=> act \in {"mark", "store_value"}
    OBVIOUS
  <2> DEFINE s == SetMark \o SaveValue
  <2>1. DOMAIN s = {1, 2} /\ s[1] = "mark" /\ s[2] = "store_value"
    BY DEF SetMark, SaveValue
  <2> HIDE DEF s
  <2>2. Does(s, act) <=> act \in {"mark", "store_value"}
    BY <2>1, Zenon DEF Does
  <2> QED
    BY <2>2 DEF s
<1> QED
  BY <1>1, <1>2, <1>3, Zenon DEF SetMark, SaveKey, SaveValue

\* What the entry of the table does.
LEMMA CharDoes ==
    ASSUME IniChar, NEW to, NEW acts, IniReads(ini_cs, Head(ini_ahead), to, acts)
    PROVE  /\ ini_cs' = to /\ ini_text' = Append(ini_text, Head(ini_ahead)) /\ ini_ahead' = Tail(ini_ahead)
           /\ ini_pc' = ini_pc /\ ini_lines' = ini_lines
           /\ acts = <<>> => UNCHANGED <<ini_mark, ini_key, ini_section, ini_settings>>
           /\ acts = SetMark => ini_mark' = Len(ini_text) /\ UNCHANGED <<ini_key, ini_section, ini_settings>>
           /\ acts = SaveKey => ini_key' = Marked(ini_mark) /\ UNCHANGED <<ini_mark, ini_section, ini_settings>>
           /\ acts = SaveValue => store_value(ini_key, Marked(ini_mark)) /\ ini_section' = ini_section
           /\ acts = SetMark \o SaveValue =>
                store_value(ini_key, Marked(Len(ini_text))) /\ ini_section' = ini_section
           /\ acts = <<"set_section">> => set_section(Marked(ini_mark))
<1> DEFINE e == _parser_table[ini_cs][Head(ini_ahead)]
           mark == IF Does(e.acts, "mark") THEN Len(ini_text) ELSE ini_mark
           key == IF Does(e.acts, "store_key") THEN Marked(mark) ELSE ini_key
<1>1. e.to = to /\ e.acts = acts
  BY Zenon DEF IniReads
<1>2. /\ ini_cs' = e.to /\ ini_mark' = mark /\ ini_text' = Append(ini_text, Head(ini_ahead))
      /\ ini_ahead' = Tail(ini_ahead) /\ ini_pc' = ini_pc /\ ini_lines' = ini_lines
  BY Zenon DEF IniChar
<1>3. Does(e.acts, "set_section") => set_section(Marked(mark)) /\ ini_key' = key
  BY Zenon DEF IniChar
<1>4. ~Does(e.acts, "set_section") =>
         /\ ini_section' = ini_section
         /\ Does(e.acts, "store_value") => store_value(key, Marked(mark))
         /\ ~Does(e.acts, "store_value") => ini_key' = key /\ ini_settings' = ini_settings
  BY Zenon DEF IniChar
<1> HIDE DEF e
<1>5. ASSUME acts = <<>> PROVE UNCHANGED <<ini_mark, ini_key, ini_section, ini_settings>>
  BY <1>1, <1>2, <1>4, <1>5, DoesWhat, Zenon
<1>6. ASSUME acts = SetMark PROVE ini_mark' = Len(ini_text) /\ UNCHANGED <<ini_key, ini_section, ini_settings>>
  <2>1. Does(acts, "mark") /\ ~Does(acts, "store_key") /\ ~Does(acts, "store_value") /\ ~Does(acts, "set_section")
    BY <1>6, DoesWhat, Zenon
  <2> QED
    BY <1>1, <1>2, <1>4, <2>1, Zenon
<1>7. ASSUME acts = SaveKey
      PROVE  ini_key' = Marked(ini_mark) /\ UNCHANGED <<ini_mark, ini_section, ini_settings>>
  <2>1. ~Does(acts, "mark") /\ Does(acts, "store_key") /\ ~Does(acts, "store_value") /\ ~Does(acts, "set_section")
    BY <1>7, DoesWhat, Zenon
  <2> QED
    BY <1>1, <1>2, <1>4, <2>1, Zenon
<1>8. ASSUME acts = SaveValue PROVE store_value(ini_key, Marked(ini_mark)) /\ ini_section' = ini_section
  <2>1. ~Does(acts, "mark") /\ ~Does(acts, "store_key") /\ Does(acts, "store_value") /\ ~Does(acts, "set_section")
    BY <1>8, DoesWhat, Zenon
  <2>2. mark = ini_mark /\ key = ini_key
    BY <1>1, <2>1, Zenon
  <2> HIDE DEF mark, key
  <2> QED
    BY <1>1, <1>4, <2>1, <2>2, Zenon
<1>9. ASSUME acts = SetMark \o SaveValue
      PROVE  store_value(ini_key, Marked(Len(ini_text))) /\ ini_section' = ini_section
  <2>1. Does(acts, "mark") /\ ~Does(acts, "store_key") /\ Does(acts, "store_value") /\ ~Does(acts, "set_section")
    BY <1>9, DoesWhat, Zenon
  <2>2. mark = Len(ini_text) /\ key = ini_key
    BY <1>1, <2>1, Zenon
  <2> HIDE DEF mark, key
  <2> QED
    BY <1>1, <1>4, <2>1, <2>2, Zenon
<1>10. ASSUME acts = <<"set_section">> PROVE set_section(Marked(ini_mark))
  <2>1. ~Does(acts, "mark") /\ Does(acts, "set_section")
    BY <1>10, DoesWhat, Zenon
  <2>2. mark = ini_mark
    BY <1>1, <2>1, Zenon
  <2> HIDE DEF mark
  <2> QED
    BY <1>1, <1>3, <2>1, <2>2, Zenon
<1> QED
  BY <1>1, <1>2, <1>5, <1>6, <1>7, <1>8, <1>9, <1>10, Zenon

\* The section that is open behind lines.
SectionIs(lines, section) ==
    \/ Opens(lines) = {} /\ section = <<>>
    \/ \E i \in Opens(lines) : (\A o \in Opens(lines) : o <= i) /\ section = <<lines[i].name>>

\* A section is opened.
LEMMA SectionOpens ==
    ASSUME NEW lines \in Seq(IniLines), NEW l \in IniLines, l.kind = "section",
           ini_settings = SettingsOf(lines), set_section(l.name)
    PROVE  ini_settings' = SettingsOf(Append(lines, l)) /\ SectionIs(Append(lines, l), ini_section')
<1> DEFINE more == Append(lines, l)
           n == Len(lines) + 1
<1>1. ini_settings' = SettingsOf(more)
  BY SectionGives, Zenon DEF set_section
<1>2. Opens(more) = Opens(lines) \cup {n} /\ Opens(lines) \subseteq DOMAIN lines
  BY PlacesGrow
<1>3. more[n] = l /\ n \in Nat /\ \A i \in DOMAIN lines : i \in Nat /\ i < n
  BY LineAdded
<1> HIDE DEF more, n
<1>4. \A o \in Opens(more) : o <= n
  BY <1>2, <1>3
<1>5. ini_section' = <<more[n].name>> /\ n \in Opens(more)
  BY <1>2, <1>3 DEF set_section
<1> QED
  BY <1>1, <1>4, <1>5, Zenon DEF SectionIs, more

\* The section stays open behind a line that opens none.
LEMMA SectionStays ==
    ASSUME NEW lines \in Seq(IniLines), NEW l \in IniLines, l.kind # "section", NEW section,
           SectionIs(lines, section)
    PROVE  SectionIs(Append(lines, l), section)
<1> DEFINE more == Append(lines, l)
<1>1. Opens(more) = Opens(lines) /\ Opens(lines) \subseteq DOMAIN lines
  BY PlacesGrow
<1>2. \A i \in DOMAIN lines : more[i] = lines[i]
  BY LineAdded
<1> HIDE DEF more
<1>3. \A i \in Opens(lines) : more[i].name = lines[i].name
  BY <1>1, <1>2, Zenon
<1> QED
  BY <1>1, <1>3, Zenon DEF SectionIs, more

\* A setting is stored.
LEMMA SettingStores ==
    ASSUME NEW lines \in Seq(IniLines), NEW l \in IniLines, l.kind = "setting",
           ini_settings = SettingsOf(lines), SectionIs(lines, ini_section), store_value(l.name, l.value)
    PROVE  ini_settings' = SettingsOf(Append(lines, l))
<1> DEFINE more == Append(lines, l)
           f == SettingsOf(lines)
<1>1. CASE Opens(lines) = {} /\ ini_section = <<>>
  <2>1. ini_settings' = ini_settings
    BY <1>1, Zenon DEF store_value
  <2>2. SettingsOf(more) = f
    BY <1>1, SettingGives
  <2> QED
    BY <2>1, <2>2
<1>2. CASE \E i \in Opens(lines) : (\A o \in Opens(lines) : o <= i) /\ ini_section = <<lines[i].name>>
  <2>1. PICK i \in Opens(lines) : (\A o \in Opens(lines) : o <= i) /\ ini_section = <<lines[i].name>>
    BY <1>2
  <2> DEFINE s == lines[i].name
  <2>2. ini_section # <<>> /\ ini_section[1] = s
    BY <2>1
  <2>3. SettingsOf(more) = IF l.name \in DOMAIN f[s] THEN f ELSE [f EXCEPT ![s] = With(@, l.name, l.value)]
    BY <2>1, SettingGives
  <2>4. ini_settings' = IF l.name \in DOMAIN ini_settings[s] THEN ini_settings
                        ELSE [ini_settings EXCEPT ![s] = With(@, l.name, l.value)]
    BY <2>2, Zenon DEF store_value
  <2> HIDE DEF f
  <2> QED
    BY <2>3, <2>4, Zenon DEF f
<1> QED
  BY <1>1, <1>2 DEF SectionIs

-----------------------------------------------------------------------------
(***************************************************************************)
(* A line while it is read: begin is the state before its first character, *)
(* p the number of its characters that have been read, and base the place  *)
(* in the text where it begins.                                            *)
(***************************************************************************)
Ended(l) == Append(l.text, "LF")
BeginOf(lines) == IF lines # <<>> /\ EmptySetting(lines[Len(lines)]) THEN 14 ELSE 13

\* Two texts, one after the other.
LEMMA JoinedAt ==
    ASSUME NEW S, NEW s \in Seq(S), NEW t \in Seq(S)
    PROVE  /\ s \o t \in Seq(S) /\ Len(s \o t) = Len(s) + Len(t)
           /\ \A i \in 1 .. Len(s) : (s \o t)[i] = s[i]
           /\ \A i \in 1 .. Len(t) : (s \o t)[Len(s) + i] = t[i]
  OBVIOUS

\* The parts of a setting's line: a name, m blanks, the sign, n blanks, a value.
SettingLayout(l, m, n) ==
    LET a == Len(l.name)
        v == Len(l.value) IN
    /\ a \in Nat /\ a > 0 /\ v \in Nat /\ Len(l.text) = a + m + 1 + n + v
    /\ \A i \in 1 .. a : l.text[i] = l.name[i] /\ l.name[i] \in IniName
    /\ \A i \in 1 .. m : l.text[a + i] = "SP"
    /\ l.text[a + m + 1] = IniEquals
    /\ \A i \in 1 .. n : l.text[a + m + 1 + i] = "SP"
    /\ \A i \in 1 .. v : /\ l.text[a + m + 1 + n + i] = l.value[i]
                         /\ l.value[i] \in IniChars \ {"LF", IniQuote}
    /\ v > 0 => l.value[1] # "SP"

\* Every setting has them.
LEMMA SettingHasLayout ==
    ASSUME NEW l \in IniLines, l.kind = "setting"
    PROVE  /\ l.name \in Seq(IniName) /\ l.name \in Seq(IniChars) /\ l.value \in Seq(IniChars)
           /\ \E m, n \in Nat : SettingLayout(l, m, n)
<1>1. IsSetting(l) /\ l.text \in Seq(IniChars \ {"LF"}) /\ l.value \in Seq(IniChars \ {"LF"})
  <2>1. IsSetting(l)
    BY LineFormAssumption, Zenon
  <2>2. {l.text, l.name, l.value} \subseteq Seq(IniChars \ {"LF"})
    BY LineFormAssumption, Zenon
  <2> QED
    BY <2>1, <2>2, Zenon
<1>2. Len(l.text) \in Nat /\ Len(l.value) \in Nat /\ IniName \subseteq IniChars
  BY <1>1, MarksAreChars
<1>3. l.name \in Seq(IniName) /\ l.name # <<>>
  BY <1>1, Zenon DEF IsSetting
<1>4. Len(l.name) \in Nat /\ Len(l.name) > 0
  BY <1>3
<1>5. ~Holds(l.value, IniQuote) /\ (l.value # <<>> => l.value[1] # "SP")
  BY <1>1, Zenon DEF IsSetting, IniQuote
<1>6. PICK m, n \in 0 .. Len(l.text) : l.text = l.name \o Blanks(m) \o <<IniEquals>> \o Blanks(n) \o l.value
  BY <1>1, Zenon DEF IsSetting, IniEquals
<1>7. m \in Nat /\ n \in Nat
  BY <1>2
<1>8. \A k \in Nat : Blanks(k) \in Seq(IniChars) /\ Len(Blanks(k)) = k /\ \A i \in 1 .. k : Blanks(k)[i] = "SP"
  <2>1. "SP" \in IniChars
    BY MarksAreChars, Zenon
  <2>2. \A k \in Nat : Blanks(k) \in [1 .. k -> IniChars]
    BY <2>1, Zenon DEF Blanks
  <2> QED
    BY <2>2 DEF Blanks
<1>9. l.name \in Seq(IniChars) /\ l.value \in Seq(IniChars)
  <2>1. Seq(IniName) \subseteq Seq(IniChars) /\ Seq(IniChars \ {"LF"}) \subseteq Seq(IniChars)
    BY <1>2
  <2> QED
    BY <1>1, <1>3, <2>1
<1>10. <<IniEquals>> \in Seq(IniChars) /\ Len(<<IniEquals>>) = 1 /\ <<IniEquals>>[1] = IniEquals
  BY MarksAreChars
<1> DEFINE a == Len(l.name)
           x1 == l.name \o Blanks(m)
           x2 == x1 \o <<IniEquals>>
           x3 == x2 \o Blanks(n)
           x4 == x3 \o l.value
<1>11. x1 \in Seq(IniChars) /\ Len(x1) = a + m
       /\ (\A i \in 1 .. a : x1[i] = l.name[i]) /\ (\A i \in 1 .. m : x1[a + i] = "SP")
  <2>0. l.name \in Seq(IniChars) /\ Blanks(m) \in Seq(IniChars)
    BY <1>7, <1>8, <1>9
  <2>1. Len(x1) = Len(l.name) + Len(Blanks(m)) /\ x1 \in Seq(IniChars)
        /\ (\A i \in 1 .. Len(l.name) : x1[i] = l.name[i])
        /\ (\A i \in 1 .. Len(Blanks(m)) : x1[Len(l.name) + i] = Blanks(m)[i])
    BY <2>0, JoinedAt
  <2> HIDE DEF x1
  <2> QED
    BY <2>1, <1>7, <1>8
<1>12. x2 \in Seq(IniChars) /\ Len(x2) = a + m + 1 /\ (\A i \in 1 .. a + m : x2[i] = x1[i]) /\ x2[a + m + 1] = IniEquals
  <2> HIDE DEF x1
  <2>0. x1 \in Seq(IniChars) /\ <<IniEquals>> \in Seq(IniChars)
    BY <1>10, <1>11
  <2>1. Len(x2) = Len(x1) + Len(<<IniEquals>>) /\ x2 \in Seq(IniChars)
        /\ (\A i \in 1 .. Len(x1) : x2[i] = x1[i])
        /\ (\A i \in 1 .. Len(<<IniEquals>>) : x2[Len(x1) + i] = <<IniEquals>>[i])
    BY <2>0, JoinedAt
  <2> HIDE DEF x2
  <2>2. 1 \in 1 .. Len(<<IniEquals>>)
    BY <1>10
  <2> QED
    BY <2>1, <2>2, <1>4, <1>7, <1>10, <1>11
<1>13. x3 \in Seq(IniChars) /\ Len(x3) = a + m + 1 + n /\ (\A i \in 1 .. a + m + 1 : x3[i] = x2[i])
       /\ (\A i \in 1 .. n : x3[a + m + 1 + i] = "SP")
  <2> HIDE DEF x2
  <2>0. x2 \in Seq(IniChars) /\ Blanks(n) \in Seq(IniChars)
    BY <1>7, <1>8, <1>12
  <2>1. Len(x3) = Len(x2) + Len(Blanks(n)) /\ x3 \in Seq(IniChars)
        /\ (\A i \in 1 .. Len(x2) : x3[i] = x2[i])
        /\ (\A i \in 1 .. Len(Blanks(n)) : x3[Len(x2) + i] = Blanks(n)[i])
    BY <2>0, JoinedAt
  <2> HIDE DEF x3
  <2> QED
    BY <2>1, <1>4, <1>7, <1>8, <1>12
<1>14. Len(x4) = a + m + 1 + n + Len(l.value) /\ (\A i \in 1 .. a + m + 1 + n : x4[i] = x3[i])
       /\ (\A i \in 1 .. Len(l.value) : x4[a + m + 1 + n + i] = l.value[i])
  <2> HIDE DEF x3
  <2>0. x3 \in Seq(IniChars) /\ l.value \in Seq(IniChars)
    BY <1>9, <1>13
  <2>1. Len(x4) = Len(x3) + Len(l.value) /\ x4 \in Seq(IniChars)
        /\ (\A i \in 1 .. Len(x3) : x4[i] = x3[i])
        /\ (\A i \in 1 .. Len(l.value) : x4[Len(x3) + i] = l.value[i])
    BY <2>0, JoinedAt
  <2> HIDE DEF x4
  <2> QED
    BY <2>1, <1>2, <1>4, <1>7, <1>13
<1>15. l.text = x4
  BY <1>6
<1> HIDE DEF x1, x2, x3, x4
<1>16. /\ \A i \in 1 .. a : l.text[i] = l.name[i]
       /\ \A i \in 1 .. m : l.text[a + i] = "SP"
       /\ l.text[a + m + 1] = IniEquals
       /\ \A i \in 1 .. n : l.text[a + m + 1 + i] = "SP"
  <2>1. ASSUME NEW i \in 1 .. a PROVE l.text[i] = l.name[i]
    <3>1. i \in 1 .. a + m /\ i \in 1 .. a + m + 1 /\ i \in 1 .. a + m + 1 + n
      BY <1>4, <1>7
    <3> QED
      BY <3>1, <1>11, <1>12, <1>13, <1>14, <1>15
  <2>2. ASSUME NEW i \in 1 .. m PROVE l.text[a + i] = "SP"
    <3>1. a + i \in 1 .. a + m /\ a + i \in 1 .. a + m + 1 /\ a + i \in 1 .. a + m + 1 + n
      BY <1>4, <1>7
    <3> DEFINE j == a + i
    <3>2. x4[j] = x3[j] /\ x3[j] = x2[j] /\ x2[j] = x1[j]
      BY <3>1, <1>12, <1>13, <1>14, Zenon
    <3> QED
      BY <3>2, <1>11, <1>15
  <2>3. l.text[a + m + 1] = IniEquals
    <3>1. a + m + 1 \in 1 .. a + m + 1 /\ a + m + 1 \in 1 .. a + m + 1 + n
      BY <1>4, <1>7
    <3> QED
      BY <3>1, <1>12, <1>13, <1>14, <1>15
  <2>4. ASSUME NEW i \in 1 .. n PROVE l.text[a + m + 1 + i] = "SP"
    <3>1. a + m + 1 + i \in 1 .. a + m + 1 + n
      BY <1>4, <1>7
    <3> QED
      BY <3>1, <1>13, <1>14, <1>15
  <2> QED
    BY <2>1, <2>2, <2>3, <2>4
<1>17. \A i \in 1 .. Len(l.value) : l.value[i] \in IniChars \ {"LF", IniQuote}
  <2>1. \A i \in 1 .. Len(l.value) : l.value[i] \in IniChars \ {"LF"} /\ i \in DOMAIN l.value
    BY <1>1
  <2>2. \A i \in DOMAIN l.value : l.value[i] # IniQuote
    BY <1>5, Zenon DEF Holds
  <2> QED
    BY <2>1, <2>2
<1>18. \A i \in 1 .. a : l.name[i] \in IniName
  BY <1>3
<1>19. Len(l.value) > 0 => l.value[1] # "SP"
  BY <1>5, <1>9
<1>20. SettingLayout(l, m, n)
  BY <1>2, <1>4, <1>14, <1>15, <1>16, <1>17, <1>18, <1>19 DEF SettingLayout
<1> QED
  BY <1>3, <1>7, <1>9, <1>20

\* The text holds the first p characters of t behind base, and t the text w behind k.
Holding(base, p, t) == \A i \in 1 .. p : ini_text[base + i] = t[i]
PartAt(t, k, w) == \A i \in 1 .. Len(w) : t[k + i] = w[i]

\* The text since the mark is the part of the line that stands there.
LEMMA MarkedIs ==
    ASSUME ini_text \in Seq(IniChars), NEW p \in Nat, NEW base \in Nat, Len(ini_text) = base + p,
           NEW t, Holding(base, p, t), NEW k \in 0 .. p, NEW w \in Seq(IniChars), Len(w) = p - k,
           PartAt(t, k, w)
    PROVE  Marked(base + k) = w
<1>0. (\A i \in 1 .. p : ini_text[base + i] = t[i]) /\ (\A i \in 1 .. Len(w) : t[k + i] = w[i])
  BY DEF Holding, PartAt
<1> DEFINE u == SubSeq(ini_text, base + k + 1, Len(ini_text))
<1>1. u \in Seq(IniChars) /\ Len(u) = p - k /\ \A i \in 1 .. p - k : u[i] = ini_text[base + k + i]
  <2> DEFINE a == base + k + 1
             b == Len(ini_text)
  <2>1. a \in Int /\ b \in Int /\ (\A i \in a .. b : ini_text[i] \in IniChars) /\ b - a + 1 = p - k
    OBVIOUS
  <2>2. /\ SubSeq(ini_text, a, b) \in Seq(IniChars)
        /\ Len(SubSeq(ini_text, a, b)) = IF a <= b THEN b - a + 1 ELSE 0
        /\ \A i \in 1 .. b - a + 1 : SubSeq(ini_text, a, b)[i] = ini_text[a + i - 1]
    <3> HIDE DEF a, b
    <3> QED
      BY <2>1, SubSeqProperties
  <2>3. \A i \in 1 .. p - k : a + i - 1 = base + k + i
    OBVIOUS
  <2>4. (IF a <= b THEN b - a + 1 ELSE 0) = p - k
    OBVIOUS
  <2> QED
    BY <2>1, <2>2, <2>3, <2>4, Zenon
<1>2. \A i \in 1 .. p - k : k + i \in 1 .. p /\ base + (k + i) = base + k + i
  OBVIOUS
<1>3. u = Marked(base + k)
  BY DEF Marked
<1> HIDE DEF u
<1>4. \A i \in 1 .. p - k : u[i] = w[i]
  BY <1>0, <1>1, <1>2
<1> QED
  BY <1>1, <1>3, <1>4, SeqEqual

\* The character behind p others of a setting.
SettingChar(a, m, n, p, c) ==
    /\ p < a => c \in IniName
    /\ a <= p /\ p < a + m => c = "SP"
    /\ p = a + m => c = IniEquals
    /\ a + m < p /\ p < a + m + 1 + n => c = "SP"
    /\ a + m + 1 + n <= p => c \in IniChars \ {"LF", IniQuote}
    /\ p = a + m + 1 + n => c # "SP"

\* It is what the layout says.
LEMMA SettingChars ==
    ASSUME NEW l, NEW m \in Nat, NEW n \in Nat, SettingLayout(l, m, n), NEW p \in Nat, p < Len(l.text)
    PROVE  SettingChar(Len(l.name), m, n, p, l.text[p + 1])
<1> DEFINE a == Len(l.name)
           v == Len(l.value)
           t == l.text
<1>1. a \in Nat /\ a > 0 /\ v \in Nat /\ Len(t) = a + m + 1 + n + v
  BY DEF SettingLayout
<1>2. \A i \in 1 .. a : t[i] \in IniName
  BY DEF SettingLayout
<1>3. \A i \in 1 .. m : t[a + i] = "SP"
  BY DEF SettingLayout
<1>4. t[a + m + 1] = IniEquals
  BY DEF SettingLayout
<1>5. \A i \in 1 .. n : t[a + m + 1 + i] = "SP"
  BY DEF SettingLayout
<1>6. \A i \in 1 .. v : t[a + m + 1 + n + i] \in IniChars \ {"LF", IniQuote}
  BY DEF SettingLayout
<1>7. v > 0 => t[a + m + 1 + n + 1] # "SP"
  <2>1. v > 0 => 1 \in 1 .. v
    BY <1>1
  <2>2. v > 0 => l.value[1] # "SP"
    BY DEF SettingLayout
  <2>3. \A i \in 1 .. v : t[a + m + 1 + n + i] = l.value[i]
    BY DEF SettingLayout
  <2>4. v > 0 => t[a + m + 1 + n + 1] = l.value[1]
    BY <2>1, <2>3
  <2> QED
    BY <2>2, <2>4
<1>8. p < Len(t)
  OBVIOUS
<1> DEFINE c == t[p + 1]
<1> HIDE DEF a, v, t, c
<1>9. p < a => c \in IniName
  <2> SUFFICES ASSUME p < a PROVE c \in IniName
    OBVIOUS
  <2>1. p + 1 \in 1 .. a
    BY <1>1
  <2> QED
    BY <1>2, <2>1 DEF c
<1>10. a <= p /\ p < a + m => c = "SP"
  <2> SUFFICES ASSUME a <= p, p < a + m PROVE c = "SP"
    OBVIOUS
  <2>1. p + 1 - a \in 1 .. m /\ a + (p + 1 - a) = p + 1
    BY <1>1
  <2> QED
    BY <1>3, <2>1 DEF c
<1>11. p = a + m => c = IniEquals
  BY <1>4 DEF c
<1>12. a + m < p /\ p < a + m + 1 + n => c = "SP"
  <2> SUFFICES ASSUME a + m < p, p < a + m + 1 + n PROVE c = "SP"
    OBVIOUS
  <2>1. p - a - m \in 1 .. n /\ a + m + 1 + (p - a - m) = p + 1
    BY <1>1
  <2> QED
    BY <1>5, <2>1 DEF c
<1>13. a + m + 1 + n <= p => c \in IniChars \ {"LF", IniQuote}
  <2> SUFFICES ASSUME a + m + 1 + n <= p PROVE c \in IniChars \ {"LF", IniQuote}
    OBVIOUS
  <2>1. p - (a + m + n) \in 1 .. v /\ a + m + 1 + n + (p - (a + m + n)) = p + 1
    BY <1>1, <1>8
  <2> QED
    BY <1>6, <2>1 DEF c
<1>14. p = a + m + 1 + n => c # "SP"
  <2> SUFFICES ASSUME p = a + m + 1 + n PROVE c # "SP"
    OBVIOUS
  <2>1. v > 0 /\ p + 1 = a + m + 1 + n + 1
    BY <1>1, <1>8
  <2> QED
    BY <1>7, <2>1 DEF c
<1> QED
  <2>1. SettingChar(a, m, n, p, c)
    BY <1>9, <1>10, <1>11, <1>12, <1>13, <1>14, Zenon DEF SettingChar
  <2> QED
    BY <2>1 DEF a, c, t

\* The states in a name and behind it, behind a line and behind an empty value.
NameState(begin) == IF begin = 13 THEN 2 ELSE 6
BlankState(begin) == IF begin = 13 THEN 3 ELSE 7

\* Where the reader of a setting stands behind p of its characters.
InSetting(a, m, n, name, begin, p, base, cs, mark, key) ==
    /\ 0 < p /\ p <= a => cs = NameState(begin) /\ mark = base
    /\ a < p /\ p <= a + m => cs = BlankState(begin) /\ key = name
    /\ a + m < p /\ p <= a + m + 1 + n => cs = 4 /\ key = name
    /\ a + m + 1 + n < p => cs = 5 /\ key = name /\ mark = base + (a + m + 1 + n)

\* It has come one character further: in the name, behind it, behind the sign, and in
\* the value.
LEMMA SettingPlaces ==
    ASSUME NEW a \in Nat, NEW m \in Nat, NEW n \in Nat, NEW p \in Nat, NEW base, NEW name, NEW begin,
           NEW cs, NEW mark, NEW key
    PROVE  LET moved == InSetting(a, m, n, name, begin, p + 1, base, cs, mark, key) IN
           /\ p < a /\ cs = NameState(begin) /\ mark = base => moved
           /\ a <= p /\ p < a + m /\ cs = BlankState(begin) /\ key = name => moved
           /\ a + m <= p /\ p < a + m + 1 + n /\ cs = 4 /\ key = name => moved
           /\ a + m + 1 + n <= p /\ cs = 5 /\ key = name /\ mark = base + (a + m + 1 + n) => moved
  BY DEF InSetting

\* The p characters of the line that are in the text, and the one that comes next.
AtPlace(l, p, base) ==
    /\ p \in 0 .. Len(l.text) /\ base \in Nat /\ Len(ini_text) = base + p
    /\ Holding(base, p, l.text)
    /\ p < Len(l.text) => Head(ini_ahead) = l.text[p + 1]
    /\ p = Len(l.text) => Head(ini_ahead) = "LF"

\* What an entry of the table that stores nothing does.
LEMMA CharMoves ==
    ASSUME IniChar, NEW to, NEW acts \in {<<>>, SetMark, SaveKey}, IniReads(ini_cs, Head(ini_ahead), to, acts)
    PROVE  /\ ini_cs' = to /\ UNCHANGED <<ini_section, ini_settings>>
           /\ acts = <<>> => UNCHANGED <<ini_mark, ini_key>>
           /\ acts = SetMark => ini_mark' = Len(ini_text) /\ ini_key' = ini_key
           /\ acts = SaveKey => ini_key' = Marked(ini_mark) /\ ini_mark' = ini_mark
  BY CharDoes, Zenon

\* The sizes of a setting.
LEMMA SettingSizes ==
    ASSUME NEW l, NEW m \in Nat, NEW n \in Nat, SettingLayout(l, m, n)
    PROVE  Len(l.name) \in Nat /\ Len(l.name) > 0 /\ Len(l.text) \in Nat
<1> DEFINE a == Len(l.name)
           v == Len(l.value)
<1>1. a \in Nat /\ a > 0 /\ v \in Nat
  BY Zenon DEF SettingLayout
<1>2. Len(l.text) = a + m + 1 + n + v
  BY Zenon DEF SettingLayout
<1> HIDE DEF a, v
<1>3. a + m + 1 + n + v \in Nat
  BY <1>1
<1> QED
  BY <1>1, <1>2, <1>3, Zenon DEF a

\* The entries for a name and what is behind it.
LEMMA SettingReads ==
    ASSUME NEW begin \in {13, 14}
    PROVE  /\ \A c \in IniName : IniReads(begin, c, NameState(begin), SetMark)
           /\ \A c \in IniName : IniReads(NameState(begin), c, NameState(begin), <<>>)
           /\ IniReads(NameState(begin), "SP", BlankState(begin), SaveKey)
           /\ IniReads(NameState(begin), IniEquals, 4, SaveKey)
           /\ IniReads(BlankState(begin), "SP", BlankState(begin), <<>>)
           /\ IniReads(BlankState(begin), IniEquals, 4, <<>>)
<1>1. CASE begin = 13
  <2>1. NameState(begin) = 2 /\ BlankState(begin) = 3
    BY <1>1 DEF NameState, BlankState
  <2> QED
    BY <1>1, <2>1, StartReads, NameReads, Zenon
<1>2. CASE begin = 14
  <2>1. NameState(begin) = 6 /\ BlankState(begin) = 7
    BY <1>2 DEF NameState, BlankState
  <2> QED
    BY <1>2, <2>1, NameReads, Zenon
<1> QED
  BY <1>1, <1>2

\* A character of a setting.
LEMMA SettingMoves ==
    ASSUME NEW l, NEW m \in Nat, NEW n \in Nat, NEW begin \in {13, 14}, NEW p, NEW base,
           l.name \in Seq(IniChars), ini_text \in Seq(IniChars), SettingLayout(l, m, n), AtPlace(l, p, base),
           p < Len(l.text), IniChar, p = 0 => ini_cs = begin,
           InSetting(Len(l.name), m, n, l.name, begin, p, base, ini_cs, ini_mark, ini_key)
    PROVE  /\ InSetting(Len(l.name), m, n, l.name, begin, p + 1, base, ini_cs', ini_mark', ini_key')
           /\ UNCHANGED <<ini_section, ini_settings>>
<1> DEFINE a == Len(l.name)
           c == Head(ini_ahead)
           name == l.name
           moved == InSetting(a, m, n, name, begin, p + 1, base, ini_cs', ini_mark', ini_key')
           still == UNCHANGED <<ini_section, ini_settings>>
<1>1. a \in Nat /\ a > 0 /\ Len(l.text) \in Nat
  BY SettingSizes, Zenon
<1>2. p \in Nat /\ base \in Nat /\ Len(ini_text) = base + p
  BY <1>1 DEF AtPlace
<1>3. SettingChar(a, m, n, p, c)
  <2>1. c = l.text[p + 1]
    BY DEF AtPlace
  <2> HIDE DEF a, c
  <2>2. SettingChar(Len(l.name), m, n, p, l.text[p + 1])
    BY <1>2, SettingChars
  <2> QED
    BY <2>1, <2>2 DEF a
<1>4. InSetting(a, m, n, name, begin, p, base, ini_cs, ini_mark, ini_key)
  BY Zenon
<1>5. p = a => Marked(base) = name
  <2> SUFFICES ASSUME p = a PROVE Marked(base) = name
    OBVIOUS
  <2>1. Holding(base, p, l.text)
    BY Zenon DEF AtPlace
  <2>2. PartAt(l.text, 0, name)
    <3>1. \A i \in 1 .. a : l.text[i] = name[i]
      BY DEF SettingLayout
    <3>2. \A i \in 1 .. a : 0 + i = i
      BY <1>1
    <3> QED
      BY <3>1, <3>2 DEF PartAt
  <2>3. 0 \in 0 .. p /\ Len(name) = p - 0 /\ base + 0 = base
    BY <1>1, <1>2
  <2>4. name \in Seq(IniChars)
    OBVIOUS
  <2> DEFINE t == l.text
  <2> HIDE DEF name, a, c, t
  <2>5. Holding(base, p, t) /\ PartAt(t, 0, name)
    BY <2>1, <2>2 DEF t
  <2>6. Marked(base + 0) = name
    BY <1>2, <2>3, <2>4, <2>5, MarkedIs
  <2> QED
    BY <2>3, <2>6
<1>6. \A to : \A acts \in {<<>>, SetMark, SaveKey} : IniReads(ini_cs, c, to, acts) =>
         /\ ini_cs' = to /\ still
         /\ acts = <<>> => ini_mark' = ini_mark /\ ini_key' = ini_key
         /\ acts = SetMark => ini_mark' = Len(ini_text) /\ ini_key' = ini_key
         /\ acts = SaveKey => ini_key' = Marked(ini_mark) /\ ini_mark' = ini_mark
  BY CharMoves
<1>7. p = 0 => ini_cs = begin
  OBVIOUS
<1> HIDE DEF still, a, c, name
<1>8. /\ p < a /\ ini_cs' = NameState(begin) /\ ini_mark' = base => moved
      /\ a <= p /\ p < a + m /\ ini_cs' = BlankState(begin) /\ ini_key' = name => moved
      /\ a + m <= p /\ p < a + m + 1 + n /\ ini_cs' = 4 /\ ini_key' = name => moved
      /\ a + m + 1 + n <= p /\ ini_cs' = 5 /\ ini_key' = name /\ ini_mark' = base + (a + m + 1 + n) => moved
  BY <1>1, <1>2, SettingPlaces
<1> HIDE DEF moved
<1>10. CASE p = 0
  <2>1. p < a /\ Len(ini_text) = base
    BY <1>1, <1>2, <1>10
  <2>2. c \in IniName
    BY <1>3, <2>1, Zenon DEF SettingChar
  <2>3. IniReads(ini_cs, c, NameState(begin), SetMark)
    BY <1>7, <1>10, <2>2, SettingReads, Zenon
  <2>4. ini_cs' = NameState(begin) /\ ini_mark' = Len(ini_text) /\ still
    BY <1>6, <2>3, Zenon
  <2> QED
    BY <1>8, <2>1, <2>4, Zenon DEF moved, still, a, name
<1>11. CASE p > 0 /\ p < a
  <2>1. p < a /\ 0 < p /\ p <= a
    BY <1>1, <1>2, <1>11
  <2>2. c \in IniName
    BY <1>3, <2>1, Zenon DEF SettingChar
  <2>3. ini_cs = NameState(begin) /\ ini_mark = base
    BY <1>4, <2>1, Zenon DEF InSetting
  <2>4. IniReads(ini_cs, c, NameState(begin), <<>>)
    BY <2>2, <2>3, SettingReads, Zenon
  <2>5. ini_cs' = NameState(begin) /\ ini_mark' = ini_mark /\ still
    BY <1>6, <2>4, Zenon
  <2> QED
    BY <1>8, <2>1, <2>3, <2>5, Zenon DEF moved, still, a, name
<1>12. CASE p = a /\ m > 0
  <2>1. a <= p /\ p < a + m /\ 0 < p /\ p <= a
    BY <1>1, <1>2, <1>12
  <2>2. c = "SP"
    BY <1>3, <2>1, Zenon DEF SettingChar
  <2>3. ini_cs = NameState(begin) /\ ini_mark = base
    BY <1>4, <2>1, Zenon DEF InSetting
  <2>4. IniReads(ini_cs, c, BlankState(begin), SaveKey)
    BY <2>2, <2>3, SettingReads, Zenon
  <2>5. ini_cs' = BlankState(begin) /\ ini_key' = Marked(ini_mark) /\ still
    BY <1>6, <2>4, Zenon
  <2> QED
    BY <1>5, <1>8, <1>12, <2>1, <2>3, <2>5, Zenon DEF moved, still, a, name
<1>13. CASE p = a /\ m = 0
  <2>1. a + m <= p /\ p < a + m + 1 + n /\ p = a + m /\ 0 < p /\ p <= a
    BY <1>1, <1>2, <1>13
  <2>2. c = IniEquals
    BY <1>3, <2>1, Zenon DEF SettingChar
  <2>3. ini_cs = NameState(begin) /\ ini_mark = base
    BY <1>4, <2>1, Zenon DEF InSetting
  <2>4. IniReads(ini_cs, c, 4, SaveKey)
    BY <2>2, <2>3, SettingReads, Zenon
  <2>5. ini_cs' = 4 /\ ini_key' = Marked(ini_mark) /\ still
    BY <1>6, <2>4, Zenon
  <2> QED
    BY <1>5, <1>8, <1>13, <2>1, <2>3, <2>5, Zenon DEF moved, still, a, name
<1>14. CASE p > a /\ p < a + m
  <2>1. a <= p /\ p < a + m /\ a < p /\ p <= a + m
    BY <1>1, <1>2, <1>14
  <2>2. c = "SP"
    BY <1>3, <2>1, Zenon DEF SettingChar
  <2>3. ini_cs = BlankState(begin) /\ ini_key = name
    BY <1>4, <2>1, Zenon DEF InSetting
  <2>4. IniReads(ini_cs, c, BlankState(begin), <<>>)
    BY <2>2, <2>3, SettingReads, Zenon
  <2>5. ini_cs' = BlankState(begin) /\ ini_key' = ini_key /\ still
    BY <1>6, <2>4, Zenon
  <2> QED
    BY <1>8, <2>1, <2>3, <2>5, Zenon DEF moved, still, a, name
<1>15. CASE p = a + m /\ m > 0
  <2>1. a + m <= p /\ p < a + m + 1 + n /\ a < p /\ p <= a + m
    BY <1>1, <1>2, <1>15
  <2>2. c = IniEquals
    BY <1>3, <1>15, Zenon DEF SettingChar
  <2>3. ini_cs = BlankState(begin) /\ ini_key = name
    BY <1>4, <2>1, Zenon DEF InSetting
  <2>4. IniReads(ini_cs, c, 4, <<>>)
    BY <2>2, <2>3, SettingReads, Zenon
  <2>5. ini_cs' = 4 /\ ini_key' = ini_key /\ still
    BY <1>6, <2>4, Zenon
  <2> QED
    BY <1>8, <2>1, <2>3, <2>5, Zenon DEF moved, still, a, name
<1>16. CASE p > a + m /\ p < a + m + 1 + n
  <2>1. a + m <= p /\ p < a + m + 1 + n /\ a + m < p /\ p <= a + m + 1 + n
    BY <1>1, <1>2, <1>16
  <2>2. c = "SP"
    BY <1>3, <2>1, Zenon DEF SettingChar
  <2>3. ini_cs = 4 /\ ini_key = name
    BY <1>4, <2>1, Zenon DEF InSetting
  <2>4. IniReads(ini_cs, c, 4, SetMark)
    BY <2>2, <2>3, ValueReads, Zenon
  <2>5. ini_cs' = 4 /\ ini_key' = ini_key /\ still
    BY <1>6, <2>4, Zenon
  <2> QED
    BY <1>8, <2>1, <2>3, <2>5, Zenon DEF moved, still, a, name
<1>17. CASE p = a + m + 1 + n
  <2>1. a + m + 1 + n <= p /\ a + m < p /\ p <= a + m + 1 + n /\ Len(ini_text) = base + (a + m + 1 + n)
    BY <1>1, <1>2, <1>17
  <2>2. c \in IniChars \ {"LF", IniQuote} /\ c # "SP"
    BY <1>3, <1>17, <2>1, Zenon DEF SettingChar
  <2>3. ini_cs = 4 /\ ini_key = name
    BY <1>4, <2>1, Zenon DEF InSetting
  <2>4. IniReads(ini_cs, c, 5, SetMark)
    BY <2>2, <2>3, ValueReads, Zenon
  <2>5. ini_cs' = 5 /\ ini_mark' = Len(ini_text) /\ ini_key' = ini_key /\ still
    BY <1>6, <2>4, Zenon
  <2> QED
    BY <1>8, <2>1, <2>3, <2>5, Zenon DEF moved, still, a, name
<1>18. CASE p > a + m + 1 + n
  <2>1. a + m + 1 + n <= p /\ a + m + 1 + n < p
    BY <1>1, <1>2, <1>18
  <2>2. c \in IniChars \ {"LF", IniQuote}
    BY <1>3, <2>1, Zenon DEF SettingChar
  <2>3. ini_cs = 5 /\ ini_key = name /\ ini_mark = base + (a + m + 1 + n)
    BY <1>4, <2>1, Zenon DEF InSetting
  <2>4. IniReads(ini_cs, c, 5, <<>>)
    BY <2>2, <2>3, ValueReads, Zenon
  <2>5. ini_cs' = 5 /\ ini_mark' = ini_mark /\ ini_key' = ini_key /\ still
    BY <1>6, <2>4, Zenon
  <2> QED
    BY <1>8, <2>1, <2>3, <2>5, Zenon DEF moved, still, a, name
<1> QED
  <2>1. \/ p = 0
        \/ p > 0 /\ p < a
        \/ p = a /\ m > 0
        \/ p = a /\ m = 0
        \/ p > a /\ p < a + m
        \/ p = a + m /\ m > 0
        \/ p > a + m /\ p < a + m + 1 + n
        \/ p = a + m + 1 + n
        \/ p > a + m + 1 + n
    BY <1>1, <1>2
  <2> QED
    BY <2>1, <1>10, <1>11, <1>12, <1>13, <1>14, <1>15, <1>16, <1>17, <1>18, Zenon

\* The end of a setting's line stores it.
LEMMA SettingEnds ==
    ASSUME NEW l, NEW m \in Nat, NEW n \in Nat, NEW begin \in {13, 14}, NEW p, NEW base,
           l.value \in Seq(IniChars), ini_text \in Seq(IniChars), SettingLayout(l, m, n),
           AtPlace(l, p, base), p = Len(l.text), IniChar,
           InSetting(Len(l.name), m, n, l.name, begin, p, base, ini_cs, ini_mark, ini_key)
    PROVE  /\ ini_cs' = IF l.value = <<>> THEN 14 ELSE 13
           /\ store_value(l.name, l.value) /\ ini_section' = ini_section
<1> DEFINE a == Len(l.name)
           v == Len(l.value)
           c == Head(ini_ahead)
           k == a + m + 1 + n
           t == l.text
           w == l.value
<1>1. a \in Nat /\ v \in Nat /\ p = a + m + 1 + n + v
  BY DEF SettingLayout
<1>2. base \in Nat /\ Len(ini_text) = base + p /\ Holding(base, p, t)
  BY DEF AtPlace
<1>3. c = "LF"
  BY DEF AtPlace
<1>4. InSetting(a, m, n, l.name, begin, p, base, ini_cs, ini_mark, ini_key)
  BY Zenon
<1>5. PartAt(t, k, w)
  <2>1. \A i \in 1 .. v : t[a + m + 1 + n + i] = w[i]
    BY DEF SettingLayout
  <2> QED
    BY <2>1 DEF PartAt
<1>6. w \in Seq(IniChars)
  OBVIOUS
<1>7. v = 0 <=> w = <<>>
  BY <1>6
<1> HIDE DEF t, w, v, a, c
<1>8. k \in 0 .. p /\ v = p - k /\ p \in Nat
  BY <1>1
<1>9. Marked(base + k) = w
  <2>1. Len(w) = p - k
    BY <1>8 DEF v, w
  <2> HIDE DEF k
  <2> QED
    BY <1>2, <1>5, <1>6, <1>8, <2>1, MarkedIs
<1>10. CASE v = 0
  <2>1. a + m < p /\ p <= a + m + 1 + n /\ Len(ini_text) = base + k
    BY <1>1, <1>2, <1>10
  <2> HIDE DEF k
  <2>2. ini_cs = 4 /\ ini_key = l.name
    BY <1>4, <2>1, Zenon DEF InSetting
  <2>3. IniReads(ini_cs, c, 14, SetMark \o SaveValue)
    BY <1>3, <2>2, ValueReads, Zenon
  <2>4. ini_cs' = 14 /\ store_value(ini_key, Marked(Len(ini_text))) /\ ini_section' = ini_section
    BY <2>3, CharDoes, Zenon DEF c
  <2>5. w = <<>> /\ store_value(l.name, w)
    BY <1>7, <1>9, <1>10, <2>1, <2>2, <2>4, Zenon
  <2> QED
    BY <2>4, <2>5, Zenon DEF w
<1>11. CASE v > 0
  <2>1. a + m + 1 + n < p /\ v # 0
    BY <1>1, <1>11
  <2>2. ini_cs = 5 /\ ini_key = l.name /\ ini_mark = base + k
    BY <1>4, <2>1, Zenon DEF InSetting
  <2> HIDE DEF k
  <2>3. IniReads(ini_cs, c, 13, SaveValue)
    BY <1>3, <2>2, ValueReads, Zenon
  <2>4. ini_cs' = 13 /\ store_value(ini_key, Marked(ini_mark)) /\ ini_section' = ini_section
    BY <2>3, CharDoes, Zenon DEF c
  <2>5. w # <<>> /\ store_value(l.name, w)
    BY <1>7, <1>9, <2>1, <2>2, <2>4, Zenon
  <2> QED
    BY <2>4, <2>5, Zenon DEF w
<1> QED
  <2>1. v = 0 \/ v > 0
    BY <1>1
  <2> QED
    BY <2>1, <1>10, <1>11, Zenon

\* Whether a line goes on as the lines before it let it, in the states of the reader.
LineGoesOn(lines, l) ==
    /\ l.kind \in {"blank", "comment", "section", "setting"}
    /\ BeginOf(lines) = 14 => l.kind = "setting"

\* Lines are regular when the last one goes on behind the regular others.
LEMMA RegularAdded ==
    ASSUME NEW lines \in Seq(IniLines), NEW l \in IniLines
    PROVE  AllRegular(Append(lines, l)) <=> AllRegular(lines) /\ LineGoesOn(lines, l)
<1> DEFINE more == Append(lines, l)
           n == Len(lines) + 1
           first(i) == IF i > 1 /\ EmptySetting(lines[i - 1]) THEN 14 ELSE 13
<1>1. /\ DOMAIN lines = 1 .. Len(lines) /\ DOMAIN more = DOMAIN lines \cup {n}
      /\ \A i \in DOMAIN lines : more[i] = lines[i]
      /\ more[n] = l /\ Len(lines) \in Nat
  BY LineAdded
<1> HIDE DEF more
<1>2. \A i \in DOMAIN lines : i > 1 => i - 1 \in DOMAIN lines
  BY <1>1
<1>3. \A i \in DOMAIN lines : Regular(more, i) <=> Regular(lines, i)
  <2> SUFFICES ASSUME NEW i \in DOMAIN lines PROVE Regular(more, i) <=> Regular(lines, i)
    OBVIOUS
  <2>1. more[i] = lines[i] /\ (i > 1 => more[i - 1] = lines[i - 1])
    BY <1>1, <1>2
  <2> QED
    BY <2>1, Zenon DEF Regular
<1>4. n > 1 /\ EmptySetting(more[n - 1]) <=> BeginOf(lines) = 14
  <2>1. n > 1 <=> lines # <<>>
    BY <1>1
  <2>2. n > 1 => more[n - 1] = lines[Len(lines)]
    <3>1. n - 1 = Len(lines) /\ (n > 1 => Len(lines) \in DOMAIN lines)
      BY <1>1
    <3> QED
      BY <1>1, <3>1
  <2>3. BeginOf(lines) = 14 <=> lines # <<>> /\ EmptySetting(lines[Len(lines)])
    BY DEF BeginOf
  <2> QED
    BY <2>1, <2>2, <2>3, Zenon
<1>5. Regular(more, n) <=> LineGoesOn(lines, l)
  BY <1>1, <1>4, Zenon DEF Regular, LineGoesOn
<1> QED
  BY <1>1, <1>3, <1>5, Zenon DEF AllRegular, more

\* The settings and the section are those that lines give.
Kept(lines) == ini_settings = SettingsOf(lines) /\ SectionIs(lines, ini_section)

\* Behind whole lines the reader holds what they give, and no line has stopped it.
StopsAt(lines, l) == AllRegular(lines) /\ l.kind = "broken" /\ BeginOf(lines) = 13
LinesRead(lines) ==
    /\ AllRegular(lines) => ini_cs = BeginOf(lines) /\ Kept(lines)
    /\ \A done \in Seq(IniLines), l \in IniLines : lines = Append(done, l) => ~StopsAt(done, l)

\* Where the reader stands behind p characters of a line: of a comment, of the
\* opening of a section, of a setting, and of a line that cannot be read.
CommentRead(done, p) == ini_cs = (IF p = 0 THEN 13 ELSE 1) /\ Kept(done)
SectionRead(done, l, p, base) ==
    /\ p = 0 => ini_cs = 13
    /\ p = 1 => ini_cs = 8
    /\ 1 < p /\ p < Len(l.text) => ini_cs = 9 /\ ini_mark = base + 1
    /\ p = Len(l.text) => ini_cs = 10
    /\ Kept(IF p = Len(l.text) THEN Append(done, l) ELSE done)
SettingRead(done, l, p, base) ==
    /\ Kept(done)
    /\ p = 0 => ini_cs = BeginOf(done)
    /\ \E m, n \in Nat :
          /\ SettingLayout(l, m, n)
          /\ InSetting(Len(l.name), m, n, l.name, BeginOf(done), p, base, ini_cs, ini_mark, ini_key)
Refused(t, p) == p > 0 /\ (t[1] \in NoStart \/ \E i \in 1 .. p : t[i] = IniQuote)
BrokenRead(done, l, p) ==
    /\ Kept(done)
    /\ ini_cs \in {0, 1, 2, 3, 4, 5, 13}
    /\ ini_cs = 13 <=> p = 0
    /\ Refused(l.text, p) => ini_cs = 0

\* What is true in the middle of a line, when the lines before it are regular.
LineRead(done, l, p, base) ==
    AllRegular(done) =>
      /\ LineGoesOn(done, l) =>
           /\ l.kind \in {"blank", "comment"} => CommentRead(done, p)
           /\ l.kind = "section" => SectionRead(done, l, p, base)
           /\ l.kind = "setting" => SettingRead(done, l, p, base)
      /\ StopsAt(done, l) => BrokenRead(done, l, p)

\* The p characters of the line that are in the text, and those that are to come.
InLine(l, p, base) ==
    /\ p \in Nat /\ p <= Len(l.text) /\ base \in Nat /\ Len(ini_text) = base + p
    /\ Holding(base, p, l.text)
    /\ ini_ahead = SubSeq(Ended(l), p + 1, Len(l.text) + 1)

\* What is true in every state of the reader.
IniReadInv ==
    /\ ini_ahead = <<>> => LinesRead(ini_lines)
    /\ ini_ahead # <<>> =>
         \E done \in Seq(IniLines), l \in IniLines, p, base \in Nat :
            ini_lines = Append(done, l) /\ InLine(l, p, base) /\ LineRead(done, l, p, base)
    /\ ini_pc = "returned" => ini_cs = 0 \/ ini_ahead \in {<<>>, <<"LF">>}

\* The line's text, and what of it is to come.
LEMMA LineAhead ==
    ASSUME NEW l \in IniLines, NEW p, NEW base, InLine(l, p, base)
    PROVE  /\ l.text \in Seq(IniChars) /\ l.text \in Seq(IniChars \ {"LF"}) /\ Len(l.text) \in Nat
           /\ p \in Nat /\ base \in Nat /\ AtPlace(l, p, base)
           /\ p < Len(l.text) => /\ Head(ini_ahead) \in IniChars \ {"LF"} /\ Len(ini_ahead) > 1
                                 /\ Tail(ini_ahead) = SubSeq(Ended(l), p + 2, Len(l.text) + 1)
           /\ p = Len(l.text) => Tail(ini_ahead) = <<>>
<1> DEFINE t == l.text
           e == Ended(l)
<1>1. t \in Seq(IniChars \ {"LF"})
  BY LinesAreTexts
<1>2. t \in Seq(IniChars) /\ "LF" \in IniChars /\ Len(t) \in Nat
  <2>1. IniChars \ {"LF"} \subseteq IniChars /\ "LF" \in IniChars
    BY MarksAreChars, Zenon
  <2> HIDE DEF t
  <2> QED
    BY <1>1, <2>1
<1>3. e \in Seq(IniChars) /\ Len(e) = Len(t) + 1 /\ e[Len(t) + 1] = "LF" /\ \A i \in 1 .. Len(t) : e[i] = t[i]
  <2> DEFINE x == "LF"
             S == IniChars
  <2>1. e = Append(t, x) /\ x \in S /\ t \in Seq(S)
    BY <1>2, Zenon DEF Ended
  <2> HIDE DEF e, t, x, S
  <2>2. e \in Seq(S) /\ Len(e) = Len(t) + 1 /\ e[Len(t) + 1] = x /\ \A i \in 1 .. Len(t) : e[i] = t[i]
    BY <2>1
  <2> QED
    BY <2>2 DEF x, S
<1>4. p \in Nat /\ base \in Nat /\ p <= Len(t) /\ Len(ini_text) = base + p /\ Holding(base, p, t)
  BY Zenon DEF InLine
<1>5. ini_ahead = SubSeq(e, p + 1, Len(t) + 1)
  BY Zenon DEF InLine
<1>6. /\ ini_ahead \in Seq(IniChars) /\ Len(ini_ahead) = Len(t) + 1 - p /\ Len(ini_ahead) > 0
      /\ \A i \in 1 .. Len(t) + 1 - p : ini_ahead[i] = e[p + i]
  <2> DEFINE a == p + 1
             b == Len(t) + 1
  <2> HIDE DEF t, e
  <2>1. a \in Int /\ b \in Int /\ (\A i \in a .. b : e[i] \in IniChars) /\ a <= b /\ b - a + 1 = Len(t) + 1 - p
    BY <1>2, <1>3, <1>4
  <2>2. \A i \in 1 .. Len(t) + 1 - p : a + i - 1 = p + i
    BY <1>2, <1>4
  <2>3. ini_ahead = SubSeq(e, a, b)
    BY <1>5
  <2> HIDE DEF a, b
  <2>4. /\ SubSeq(e, a, b) \in Seq(IniChars)
        /\ Len(SubSeq(e, a, b)) = IF a <= b THEN b - a + 1 ELSE 0
        /\ \A i \in 1 .. b - a + 1 : SubSeq(e, a, b)[i] = e[a + i - 1]
    BY <2>1, SubSeqProperties
  <2>5. Len(ini_ahead) = b - a + 1
    BY <2>1, <2>3, <2>4
  <2>6. \A i \in 1 .. Len(t) + 1 - p : ini_ahead[i] = e[p + i]
    BY <2>1, <2>2, <2>3, <2>4
  <2>7. Len(t) + 1 - p > 0
    BY <1>2, <1>4
  <2> QED
    BY <2>1, <2>3, <2>4, <2>5, <2>6, <2>7
<1> HIDE DEF t, e
<1>7. Head(ini_ahead) = e[p + 1]
  <2>1. 1 \in 1 .. Len(t) + 1 - p
    BY <1>2, <1>4
  <2>2. Head(ini_ahead) = ini_ahead[1]
    BY <1>6
  <2> QED
    BY <1>6, <2>1, <2>2
<1>8. p < Len(t) => /\ Head(ini_ahead) = t[p + 1] /\ Head(ini_ahead) \in IniChars \ {"LF"} /\ Len(ini_ahead) > 1
  <2> SUFFICES ASSUME p < Len(t)
               PROVE Head(ini_ahead) = t[p + 1] /\ Head(ini_ahead) \in IniChars \ {"LF"} /\ Len(ini_ahead) > 1
    OBVIOUS
  <2>1. p + 1 \in 1 .. Len(t) /\ Len(t) + 1 - p > 1
    BY <1>2, <1>4
  <2>2. t[p + 1] \in IniChars \ {"LF"}
    BY <1>1, <2>1
  <2> QED
    BY <1>3, <1>6, <1>7, <2>1, <2>2
<1>9. p = Len(t) => Head(ini_ahead) = "LF"
  BY <1>3, <1>7
<1>10. AtPlace(l, p, base)
  <2>1. p \in 0 .. Len(l.text)
    BY <1>2, <1>4 DEF t
  <2> QED
    BY <1>4, <1>8, <1>9, <2>1, Zenon DEF AtPlace, t
<1>11. p < Len(t) => Tail(ini_ahead) = SubSeq(e, p + 2, Len(t) + 1)
  <2> SUFFICES ASSUME p < Len(t) PROVE Tail(ini_ahead) = SubSeq(e, p + 2, Len(t) + 1)
    OBVIOUS
  <2> DEFINE u == Tail(ini_ahead)
             w == SubSeq(e, p + 2, Len(t) + 1)
             k == Len(t) - p
  <2>1. k \in Nat /\ p + 2 <= Len(t) + 1 /\ p + 2 \in Int /\ Len(t) + 1 \in Int /\ Len(t) + 1 - (p + 2) + 1 = k
    BY <1>2, <1>4
  <2>2. u \in Seq(IniChars) /\ Len(u) = k /\ \A i \in 1 .. k : u[i] = ini_ahead[i + 1]
    <3>1. ini_ahead # <<>> /\ Len(ini_ahead) - 1 = k
      BY <1>2, <1>4, <1>6
    <3> HIDE DEF k
    <3> QED
      BY <1>6, <3>1, HeadTailProperties
  <2>3. w \in Seq(IniChars) /\ Len(w) = k /\ \A i \in 1 .. k : w[i] = e[p + 2 + i - 1]
    <3> DEFINE a == p + 2
               b == Len(t) + 1
    <3>1. \A i \in a .. b : e[i] \in IniChars
      BY <1>2, <1>3, <1>4
    <3>2. w = SubSeq(e, a, b) /\ a \in Int /\ b \in Int /\ a <= b /\ b - a + 1 = k
      BY <2>1
    <3> HIDE DEF a, b, w, k
    <3>3. w \in Seq(IniChars) /\ Len(w) = k /\ \A i \in 1 .. k : w[i] = e[a + i - 1]
      BY <3>1, <3>2, SubSeqProperties
    <3> QED
      BY <3>3 DEF a
  <2> HIDE DEF u, w
  <2>4. \A i \in 1 .. k : u[i] = w[i]
    <3>1. \A i \in 1 .. k : i + 1 \in 1 .. Len(t) + 1 - p /\ p + (i + 1) = p + 2 + i - 1
      BY <1>2, <1>4
    <3> QED
      BY <1>6, <2>2, <2>3, <3>1
  <2>5. u = w
    BY <2>2, <2>3, <2>4, SeqEqual
  <2> QED
    BY <2>5 DEF u, w
<1>12. p = Len(t) => Tail(ini_ahead) = <<>>
  <2> SUFFICES ASSUME p = Len(t) PROVE Tail(ini_ahead) = <<>>
    OBVIOUS
  <2> DEFINE u == Tail(ini_ahead)
  <2>1. Len(t) + 1 - p = 1
    BY <1>2
  <2>2. Len(ini_ahead) = 1 /\ ini_ahead \in Seq(IniChars)
    BY <1>6, <2>1
  <2>3. ini_ahead # <<>>
    BY <2>2
  <2>4. u \in Seq(IniChars) /\ Len(u) = 0
    BY <2>2, <2>3, HeadTailProperties
  <2> HIDE DEF u
  <2>5. u = <<>>
    BY <2>4
  <2> QED
    BY <2>5 DEF u
<1> QED
  BY <1>1, <1>2, <1>4, <1>8, <1>10, <1>11, <1>12, Zenon DEF t, e

\* A character moves the reader one further.
LEMMA InLineMoves ==
    ASSUME NEW l \in IniLines, NEW p, NEW base, InLine(l, p, base), p < Len(l.text), ini_text \in Seq(IniChars), IniChar
    PROVE  InLine(l, p + 1, base)'
<1> DEFINE t == l.text
           c == Head(ini_ahead)
<1>1. /\ Len(t) \in Nat /\ p \in Nat /\ base \in Nat /\ c \in IniChars
      /\ Tail(ini_ahead) = SubSeq(Ended(l), p + 2, Len(t) + 1)
  BY LineAhead
<1>2. c = t[p + 1] /\ Len(ini_text) = base + p /\ Holding(base, p, t) /\ p < Len(t)
  <2>1. AtPlace(l, p, base)
    BY LineAhead
  <2> QED
    BY <2>1 DEF AtPlace
<1>3. ini_text' = Append(ini_text, c) /\ ini_ahead' = Tail(ini_ahead)
  BY Zenon DEF IniChar
<1> HIDE DEF t, c
<1>4. Len(ini_text') = base + (p + 1) /\ ini_text'[base + (p + 1)] = c /\ (\A i \in 1 .. p : ini_text'[base + i] = ini_text[base + i])
  <2>1. /\ Len(ini_text') = Len(ini_text) + 1 /\ ini_text'[Len(ini_text) + 1] = c
        /\ \A i \in 1 .. Len(ini_text) : ini_text'[i] = ini_text[i]
    BY <1>1, <1>3
  <2>2. base + (p + 1) = Len(ini_text) + 1 /\ \A i \in 1 .. p : base + i \in 1 .. Len(ini_text)
    BY <1>1, <1>2
  <2> QED
    BY <2>1, <2>2
<1>5. \A i \in 1 .. p + 1 : ini_text'[base + i] = t[i]
  <2> SUFFICES ASSUME NEW i \in 1 .. p + 1 PROVE ini_text'[base + i] = t[i]
    OBVIOUS
  <2>1. i = p + 1 \/ i \in 1 .. p
    BY <1>1
  <2>2. \A j \in 1 .. p : ini_text[base + j] = t[j]
    BY <1>2 DEF Holding
  <2> QED
    BY <1>2, <1>4, <2>1, <2>2
<1>6. p + 1 \in Nat /\ p + 1 <= Len(t) /\ p + 1 + 1 = p + 2
  BY <1>1, <1>2
<1>7. Holding(base, p + 1, t)'
  BY <1>5 DEF Holding, t
<1>8. ini_ahead' = SubSeq(Ended(l), p + 1 + 1, Len(t) + 1)
  BY <1>1, <1>3, <1>6
<1> QED
  BY <1>1, <1>4, <1>6, <1>7, <1>8, Zenon DEF InLine, t

\* What is kept stays so when no action stores.
LEMMA KeptStays ==
    ASSUME UNCHANGED <<ini_section, ini_settings>>, NEW lines, Kept(lines)
    PROVE  Kept(lines)'
  BY Zenon DEF Kept

\* Where the next line begins.
LEMMA EndBegins ==
    ASSUME NEW lines \in Seq(IniLines), NEW l \in IniLines
    PROVE  BeginOf(Append(lines, l)) = IF EmptySetting(l) THEN 14 ELSE 13
<1>1. LET more == Append(lines, l) IN more # <<>> /\ more[Len(more)] = l
  BY LineAdded
<1> QED
  BY <1>1, Zenon DEF BeginOf

\* A line that is neither a section nor a setting is kept as it gives nothing.
LEMMA PlainLineKept ==
    ASSUME NEW lines \in Seq(IniLines), NEW l \in IniLines, l.kind \notin {"section", "setting"}, Kept(lines)'
    PROVE  Kept(Append(lines, l))'
<1>1. SettingsOf(Append(lines, l)) = SettingsOf(lines)
  BY PlainLineGives
<1>2. l.kind # "section" /\ SectionIs(lines, ini_section') /\ ini_settings' = SettingsOf(lines)
  BY Zenon DEF Kept
<1>3. SectionIs(Append(lines, l), ini_section')
  BY <1>2, SectionStays
<1> QED
  BY <1>1, <1>2, <1>3, Zenon DEF Kept

\* A character of a comment.
LEMMA CommentMoves ==
    ASSUME NEW done, NEW l \in IniLines, l.kind \in {"blank", "comment"}, NEW p, NEW base, InLine(l, p, base),
           p < Len(l.text), IniChar, CommentRead(done, p)
    PROVE  CommentRead(done, p + 1)'
<1> DEFINE c == Head(ini_ahead)
           t == l.text
<1>1. p \in Nat /\ c \in IniChars \ {"LF"} /\ c = t[p + 1] /\ p < Len(t) /\ DOMAIN t = 1 .. Len(t) /\ Len(t) \in Nat
  <2>1. AtPlace(l, p, base) /\ p \in Nat /\ c \in IniChars \ {"LF"} /\ t \in Seq(IniChars)
    BY LineAhead
  <2>2. c = t[p + 1]
    BY <2>1 DEF AtPlace
  <2> HIDE DEF c
  <2> QED
    BY <2>1, <2>2
<1>2. l.kind = "comment"
  <2>1. l.kind = "blank" => t = <<>>
    BY LineFormAssumption, Zenon
  <2>2. l.kind = "blank" => Len(t) = 0
    BY <2>1
  <2>3. Len(t) # 0
    BY <1>1
  <2> QED
    BY <2>2, <2>3
<1>3. t[1] = IniSemicolon /\ \A i \in DOMAIN t : t[i] # IniQuote
  BY <1>2, LineFormAssumption, Zenon DEF Holds, IniQuote, IniSemicolon
<1> HIDE DEF c, t
<1>4. ini_cs = (IF p = 0 THEN 13 ELSE 1) /\ Kept(done)
  BY Zenon DEF CommentRead
<1>5. IniReads(ini_cs, c, 1, <<>>)
  <2>1. CASE p = 0
    <3>1. c = IniSemicolon
      BY <1>1, <1>3, <2>1
    <3> QED
      BY <1>4, <2>1, <3>1, StartReads, Zenon
  <2>2. CASE p # 0
    <3>1. p + 1 \in DOMAIN t
      BY <1>1
    <3>2. c # IniQuote
      BY <1>1, <1>3, <3>1, Zenon
    <3> QED
      BY <1>1, <1>4, <2>2, <3>2, CommentReads, Zenon
  <2> QED
    BY <2>1, <2>2
<1>6. ini_cs' = 1 /\ UNCHANGED <<ini_section, ini_settings>>
  BY <1>5, CharMoves, Zenon DEF c
<1>7. Kept(done)'
  BY <1>4, <1>6, KeptStays, Zenon
<1>8. p + 1 # 0
  BY <1>1
<1> QED
  BY <1>6, <1>7, <1>8, Zenon DEF CommentRead

\* The end of its line, and of an empty one.
LEMMA CommentEnds ==
    ASSUME NEW done \in Seq(IniLines), NEW l \in IniLines, l.kind \in {"blank", "comment"}, NEW p, NEW base,
           InLine(l, p, base), p = Len(l.text), IniChar, CommentRead(done, p)
    PROVE  ini_cs' = BeginOf(Append(done, l)) /\ Kept(Append(done, l))'
<1>1. Head(ini_ahead) = "LF"
  <2>1. AtPlace(l, p, base)
    BY LineAhead
  <2> QED
    BY <2>1, Zenon DEF AtPlace
<1>2. ini_cs = (IF p = 0 THEN 13 ELSE 1) /\ Kept(done)
  BY Zenon DEF CommentRead
<1>3. IniReads(ini_cs, Head(ini_ahead), 13, <<>>)
  BY <1>1, <1>2, StartReads, CommentReads, Zenon
<1>4. ini_cs' = 13 /\ UNCHANGED <<ini_section, ini_settings>>
  BY <1>3, CharMoves, Zenon
<1>5. Kept(done)'
  BY <1>2, <1>4, KeptStays, Zenon
<1>6. l.kind \notin {"section", "setting"} /\ ~EmptySetting(l)
  BY DEF EmptySetting
<1>7. Kept(Append(done, l))'
  BY <1>5, <1>6, PlainLineKept
<1> QED
  BY <1>4, <1>6, <1>7, EndBegins, Zenon

\* The opening of a section is a bracket, a name and a bracket.
LEMMA SectionText ==
    ASSUME NEW l \in IniLines, l.kind = "section"
    PROVE  LET a == Len(l.name) IN
           /\ a \in Nat /\ a > 0 /\ Len(l.text) = a + 2 /\ l.name \in Seq(IniChars)
           /\ l.text[1] = IniOpen /\ l.text[a + 2] = IniClose
           /\ \A i \in 1 .. a : l.text[1 + i] = l.name[i] /\ l.name[i] \in IniName
<1> DEFINE a == Len(l.name)
           open == <<IniOpen>>
           close == <<IniClose>>
           x == open \o l.name
           t == l.text
<1>1. l.name \in Seq(IniName) /\ l.name # <<>> /\ t = open \o l.name \o close
  BY LineFormAssumption, Zenon DEF IsSection, IniOpen, IniClose
<1>2. open \in Seq(IniChars) /\ Len(open) = 1 /\ open[1] = IniOpen /\ close \in Seq(IniChars) /\ Len(close) = 1 /\ close[1] = IniClose
  BY MarksAreChars
<1>3. IniName \subseteq IniChars
  BY MarksAreChars, Zenon
<1>4. a \in Nat /\ a > 0 /\ l.name \in Seq(IniChars) /\ \A i \in 1 .. a : l.name[i] \in IniName
  BY <1>1, <1>3
<1>5. t = x \o close
  BY <1>1
<1> HIDE DEF open, close, t
<1>6. x \in Seq(IniChars) /\ Len(x) = a + 1 /\ x[1] = IniOpen /\ \A i \in 1 .. a : x[1 + i] = l.name[i]
  <2>1. x \in Seq(IniChars) /\ Len(x) = Len(open) + a
        /\ (\A i \in 1 .. Len(open) : x[i] = open[i])
        /\ (\A i \in 1 .. a : x[Len(open) + i] = l.name[i])
    <3>1. open \in Seq(IniChars) /\ l.name \in Seq(IniChars)
      BY <1>2, <1>4
    <3> QED
      BY <3>1, JoinedAt
  <2> HIDE DEF x, a
  <2>2. 1 \in 1 .. Len(open)
    BY <1>2
  <2> QED
    BY <1>2, <1>4, <2>1, <2>2
<1> HIDE DEF x, a
<1>7. Len(t) = a + 2 /\ t[1] = IniOpen /\ t[a + 2] = IniClose /\ \A i \in 1 .. a : t[1 + i] = l.name[i]
  <2>1. Len(t) = Len(x) + Len(close)
        /\ (\A i \in 1 .. Len(x) : t[i] = x[i])
        /\ (\A i \in 1 .. Len(close) : t[Len(x) + i] = close[i])
    <3> DEFINE y == x \o close
    <3>1. x \in Seq(IniChars) /\ close \in Seq(IniChars)
      BY <1>2, <1>6
    <3>2. Len(y) = Len(x) + Len(close)
          /\ (\A i \in 1 .. Len(x) : y[i] = x[i])
          /\ (\A i \in 1 .. Len(close) : y[Len(x) + i] = close[i])
      BY <3>1, JoinedAt
    <3> HIDE DEF y
    <3>3. t = y
      BY <1>5 DEF y
    <3> QED
      BY <3>2, <3>3, Zenon
  <2>2. 1 \in 1 .. Len(close) /\ 1 \in 1 .. Len(x) /\ (\A i \in 1 .. a : 1 + i \in 1 .. Len(x)) /\ Len(x) + 1 = a + 2
    BY <1>2, <1>4, <1>6
  <2>3. t[1] = IniOpen /\ t[a + 2] = IniClose
    BY <1>2, <1>6, <2>1, <2>2
  <2>4. \A i \in 1 .. a : t[1 + i] = l.name[i]
    BY <1>6, <2>1, <2>2
  <2>5. Len(t) = a + 2
    BY <1>2, <1>4, <1>6, <2>1
  <2> QED
    BY <2>3, <2>4, <2>5
<1> QED
  BY <1>4, <1>7, Zenon DEF a, t

\* A character of it.
LEMMA SectionMoves ==
    ASSUME NEW done \in Seq(IniLines), NEW l \in IniLines, l.kind = "section", NEW p, NEW base, InLine(l, p, base),
           ini_text \in Seq(IniChars), p < Len(l.text), IniChar, SectionRead(done, l, p, base)
    PROVE  SectionRead(done, l, p + 1, base)'
<1> DEFINE a == Len(l.name)
           c == Head(ini_ahead)
           t == l.text
           name == l.name
           more == Append(done, l)
<1>1. /\ a \in Nat /\ a > 0 /\ Len(t) = a + 2 /\ name \in Seq(IniChars)
      /\ t[1] = IniOpen /\ t[a + 2] = IniClose
      /\ \A i \in 1 .. a : t[1 + i] = name[i] /\ name[i] \in IniName
  BY SectionText, Zenon
<1>2. AtPlace(l, p, base) /\ p \in Nat /\ base \in Nat
  BY LineAhead
<1>3. c = t[p + 1] /\ Len(ini_text) = base + p /\ Holding(base, p, t) /\ p < Len(t)
  BY <1>2 DEF AtPlace
<1>4. /\ p = 0 => ini_cs = 13
      /\ p = 1 => ini_cs = 8
      /\ 1 < p /\ p < Len(t) => ini_cs = 9 /\ ini_mark = base + 1
      /\ Kept(IF p = Len(t) THEN more ELSE done)
  BY Zenon DEF SectionRead
<1>5. p # Len(t)
  BY <1>1, <1>2, <1>3
<1>6. Kept(done)
  BY <1>4, <1>5, Zenon
<1> HIDE DEF a, c, t, name, more
<1>7. CASE p = 0
  <2>1. c = IniOpen /\ ini_cs = 13 /\ p + 1 = 1 /\ 1 # 0 /\ ~(1 < 1) /\ 1 # Len(t)
    BY <1>1, <1>3, <1>4, <1>7
  <2>2. IniReads(ini_cs, c, 8, <<>>)
    BY <2>1, StartReads, Zenon
  <2>3. ini_cs' = 8 /\ UNCHANGED <<ini_section, ini_settings>>
    BY <2>2, CharMoves, Zenon DEF c
  <2>4. Kept(done)'
    BY <1>6, <2>3, KeptStays, Zenon
  <2> QED
    BY <2>1, <2>3, <2>4, Zenon DEF SectionRead, t
<1>8. CASE p > 0 /\ p < a + 1
  <2>1. p \in 1 .. a /\ 1 + p = p + 1 /\ p + 1 # 0 /\ p + 1 # 1 /\ p + 1 # Len(t)
    BY <1>1, <1>2, <1>8
  <2>2. c \in IniName
    BY <1>1, <1>3, <2>1
  <2>3. ini_cs' = 9 /\ ini_mark' = base + 1 /\ UNCHANGED <<ini_section, ini_settings>>
    <3>1. CASE p = 1
      <4>1. ini_cs = 8 /\ Len(ini_text) = base + 1
        BY <1>3, <1>4, <3>1
      <4>2. IniReads(ini_cs, c, 9, SetMark)
        BY <2>2, <4>1, SectionReads, Zenon
      <4> QED
        BY <4>1, <4>2, CharMoves, Zenon DEF c
    <3>2. CASE p # 1
      <4>1. 1 < p /\ p < Len(t)
        BY <1>1, <1>2, <1>3, <1>8, <3>2
      <4>2. ini_cs = 9 /\ ini_mark = base + 1
        BY <1>4, <4>1, Zenon
      <4>3. IniReads(ini_cs, c, 9, <<>>)
        BY <2>2, <4>2, SectionReads, Zenon
      <4> QED
        BY <4>2, <4>3, CharMoves, Zenon DEF c
    <3> QED
      BY <3>1, <3>2
  <2>4. Kept(done)'
    BY <1>6, <2>3, KeptStays, Zenon
  <2> QED
    BY <2>1, <2>3, <2>4, Zenon DEF SectionRead, t
<1>9. CASE p = a + 1
  <2>1. c = IniClose
    <3>1. p + 1 = a + 2
      BY <1>1, <1>9
    <3> QED
      BY <1>1, <1>3, <3>1
  <2>2. ini_cs = 9 /\ ini_mark = base + 1
    <3>1. 1 < p /\ p < Len(t)
      BY <1>1, <1>9
    <3> QED
      BY <1>4, <3>1, Zenon
  <2>3. IniReads(ini_cs, c, 10, <<"set_section">>)
    BY <2>1, <2>2, SectionReads, Zenon
  <2>4. ini_cs' = 10 /\ set_section(Marked(ini_mark))
    BY <2>3, CharDoes, Zenon DEF c
  <2>5. Marked(base + 1) = name
    <3>1. 1 \in 0 .. p /\ Len(name) = p - 1
      BY <1>1, <1>9 DEF a, name
    <3>2. PartAt(t, 1, name)
      BY <1>1 DEF PartAt, a, name
    <3> QED
      BY <1>1, <1>2, <1>3, <3>1, <3>2, MarkedIs
  <2>6. set_section(l.name)
    BY <2>2, <2>4, <2>5, Zenon DEF name
  <2>7. ini_settings = SettingsOf(done)
    BY <1>6, Zenon DEF Kept
  <2>8. Kept(more)'
    BY <2>6, <2>7, SectionOpens, Zenon DEF Kept, more
  <2>9. p + 1 # 0 /\ p + 1 # 1 /\ p + 1 = Len(t) /\ ~(p + 1 < Len(t))
    BY <1>1, <1>9
  <2> QED
    BY <2>4, <2>8, <2>9, Zenon DEF SectionRead, t, more
<1> QED
  <2>1. p = 0 \/ (p > 0 /\ p < a + 1) \/ p = a + 1
    BY <1>1, <1>2, <1>3
  <2> QED
    BY <2>1, <1>7, <1>8, <1>9

\* The end of its line.
LEMMA SectionEnds ==
    ASSUME NEW done \in Seq(IniLines), NEW l \in IniLines, l.kind = "section", NEW p, NEW base,
           InLine(l, p, base), p = Len(l.text), IniChar, SectionRead(done, l, p, base)
    PROVE  ini_cs' = BeginOf(Append(done, l)) /\ Kept(Append(done, l))'
<1>1. Head(ini_ahead) = "LF"
  <2>1. AtPlace(l, p, base)
    BY LineAhead
  <2> QED
    BY <2>1, Zenon DEF AtPlace
<1>2. ini_cs = 10 /\ Kept(Append(done, l))
  BY Zenon DEF SectionRead
<1>3. IniReads(ini_cs, Head(ini_ahead), 13, <<>>)
  BY <1>1, <1>2, SectionReads, Zenon
<1>4. ini_cs' = 13 /\ UNCHANGED <<ini_section, ini_settings>>
  BY <1>3, CharMoves, Zenon
<1>5. Kept(Append(done, l))'
  BY <1>2, <1>4, KeptStays, Zenon
<1>6. ~EmptySetting(l)
  BY DEF EmptySetting
<1> QED
  BY <1>4, <1>5, <1>6, EndBegins, Zenon

\* A character of a setting's line.
LEMMA SettingLineMoves ==
    ASSUME NEW done \in Seq(IniLines), NEW l \in IniLines, l.kind = "setting", NEW p, NEW base, InLine(l, p, base),
           ini_text \in Seq(IniChars), p < Len(l.text), IniChar, SettingRead(done, l, p, base)
    PROVE  SettingRead(done, l, p + 1, base)'
<1> DEFINE begin == BeginOf(done)
<1>1. begin \in {13, 14}
  BY DEF BeginOf
<1>2. Kept(done) /\ (p = 0 => ini_cs = begin)
  BY Zenon DEF SettingRead
<1>3. PICK m, n \in Nat :
         /\ SettingLayout(l, m, n)
         /\ InSetting(Len(l.name), m, n, l.name, begin, p, base, ini_cs, ini_mark, ini_key)
  BY Zenon DEF SettingRead
<1>4. l.name \in Seq(IniChars)
  BY SettingHasLayout
<1>5. AtPlace(l, p, base) /\ p \in Nat
  BY LineAhead
<1> HIDE DEF begin
<1>6. /\ InSetting(Len(l.name), m, n, l.name, begin, p + 1, base, ini_cs', ini_mark', ini_key')
      /\ UNCHANGED <<ini_section, ini_settings>>
  BY <1>1, <1>2, <1>3, <1>4, <1>5, SettingMoves, Zenon
<1>7. Kept(done)'
  BY <1>2, <1>6, KeptStays, Zenon
<1>8. p + 1 # 0
  BY <1>5
<1> QED
  BY <1>3, <1>6, <1>7, <1>8, Zenon DEF SettingRead, begin

\* The end of its line.
LEMMA SettingLineEnds ==
    ASSUME NEW done \in Seq(IniLines), NEW l \in IniLines, l.kind = "setting", NEW p, NEW base, InLine(l, p, base),
           ini_text \in Seq(IniChars), p = Len(l.text), IniChar, SettingRead(done, l, p, base)
    PROVE  ini_cs' = BeginOf(Append(done, l)) /\ Kept(Append(done, l))'
<1> DEFINE begin == BeginOf(done)
<1>1. begin \in {13, 14}
  BY DEF BeginOf
<1>2. Kept(done)
  BY Zenon DEF SettingRead
<1>3. PICK m, n \in Nat :
         /\ SettingLayout(l, m, n)
         /\ InSetting(Len(l.name), m, n, l.name, begin, p, base, ini_cs, ini_mark, ini_key)
  BY Zenon DEF SettingRead
<1>4. l.value \in Seq(IniChars)
  BY SettingHasLayout
<1>5. AtPlace(l, p, base)
  BY LineAhead
<1> HIDE DEF begin
<1>6. /\ ini_cs' = IF l.value = <<>> THEN 14 ELSE 13
      /\ store_value(l.name, l.value) /\ ini_section' = ini_section
  BY <1>1, <1>3, <1>4, <1>5, SettingEnds, Zenon
<1>7. EmptySetting(l) <=> l.value = <<>>
  BY Zenon DEF EmptySetting
<1>8. ini_settings = SettingsOf(done) /\ SectionIs(done, ini_section)
  BY <1>2, Zenon DEF Kept
<1>9. ini_settings' = SettingsOf(Append(done, l))
  BY <1>6, <1>8, SettingStores
<1>10. SectionIs(Append(done, l), ini_section)
  <2>1. l.kind # "section"
    OBVIOUS
  <2> QED
    BY <1>8, <2>1, SectionStays, Zenon
<1>11. Kept(Append(done, l))'
  BY <1>6, <1>9, <1>10, Zenon DEF Kept
<1> QED
  BY <1>6, <1>7, <1>11, EndBegins, Zenon

\* A character of a line that cannot be read.
LEMMA BrokenMoves ==
    ASSUME NEW done \in Seq(IniLines), NEW l \in IniLines, l.kind = "broken", NEW p, NEW base, InLine(l, p, base),
           p < Len(l.text), IniChar, BrokenRead(done, l, p)
    PROVE  BrokenRead(done, l, p + 1)'
<1> DEFINE c == Head(ini_ahead)
           t == l.text
           e == _parser_table[ini_cs][c]
<1>1. AtPlace(l, p, base) /\ p \in Nat /\ c \in IniChars \ {"LF"}
  BY LineAhead
<1>2. c = t[p + 1]
  BY <1>1 DEF AtPlace
<1>3. t[1] # IniOpen
  BY LineFormAssumption, Zenon DEF IsBroken, IniOpen
<1>4. Kept(done) /\ ini_cs \in {0, 1, 2, 3, 4, 5, 13} /\ (ini_cs = 13 <=> p = 0) /\ (Refused(t, p) => ini_cs = 0)
  BY Zenon DEF BrokenRead
<1>5. ini_cs # 0
  BY Zenon DEF IniChar, parser_error
<1>6. ini_cs \in {1, 2, 3, 4, 5, 13}
  BY <1>4, <1>5, Zenon
<1> HIDE DEF c, t
<1>7. ini_cs = 13 => c # IniOpen
  <2>1. p = 0 => p + 1 = 1
    OBVIOUS
  <2> QED
    BY <1>2, <1>3, <1>4, <2>1, Zenon
<1>8. e.to \in 0 .. 5 /\ e.acts \in QuietActs /\ (c = IniQuote \/ (ini_cs = 13 /\ c \in NoStart) => e.to = 0)
  BY <1>1, <1>6, <1>7, QuietReads, Zenon
<1>9. IniReads(ini_cs, c, e.to, e.acts)
  BY Zenon DEF IniReads
<1> HIDE DEF e
<1>10. ini_cs' = e.to /\ UNCHANGED <<ini_section, ini_settings>>
  <2>1. e.acts \in {<<>>, SetMark, SaveKey}
    BY <1>8, Zenon DEF QuietActs
  <2> QED
    BY <1>9, <2>1, CharMoves, Zenon DEF c
<1>11. Kept(done)'
  BY <1>4, <1>10, KeptStays, Zenon
<1>12. ini_cs' \in {0, 1, 2, 3, 4, 5, 13} /\ ini_cs' # 13 /\ p + 1 # 0
  BY <1>1, <1>8, <1>10
<1>13. ASSUME Refused(t, p + 1) PROVE ini_cs' = 0
  <2>1. ~Refused(t, p)
    BY <1>4, <1>5, Zenon
  <2>2. CASE p = 0
    <3>1. p + 1 = 1 /\ \A i \in 1 .. p + 1 : i = 1
      BY <2>2
    <3>2. c \in NoStart \/ c = IniQuote
      BY <1>2, <1>13, <3>1, Zenon DEF Refused
    <3> QED
      BY <1>4, <1>8, <1>10, <2>2, <3>2, Zenon
  <2>3. CASE p # 0
    <3>1. p > 0 /\ \A i \in 1 .. p + 1 : i \in 1 .. p \/ i = p + 1
      BY <1>1, <2>3
    <3>2. c = IniQuote
      BY <1>2, <1>13, <2>1, <3>1, Zenon DEF Refused
    <3> QED
      BY <1>8, <1>10, <3>2, Zenon
  <2> QED
    BY <2>2, <2>3
<1> QED
  BY <1>11, <1>12, <1>13, Zenon DEF BrokenRead, t

\* Before its end it is refused.
LEMMA BrokenStops ==
    ASSUME NEW done, NEW l \in IniLines, l.kind = "broken", NEW p, NEW base, InLine(l, p, base),
           p = Len(l.text), BrokenRead(done, l, p)
    PROVE  ini_cs = 0
<1> DEFINE t == l.text
<1>1. t # <<>> /\ (t[1] \in {"SP", IniQuote, IniEquals, IniClose, "o"} \/ Holds(t, IniQuote))
  BY LineFormAssumption, Zenon DEF IsBroken, IniQuote, IniEquals, IniClose
<1>2. t \in Seq(IniChars)
  BY LineAhead
<1> HIDE DEF t
<1>3. Len(t) > 0 /\ DOMAIN t = 1 .. Len(t)
  BY <1>1, <1>2
<1>4. t[1] \in NoStart \/ \E i \in 1 .. Len(t) : t[i] = IniQuote
  BY <1>1, <1>3, Zenon DEF NoStart, Holds
<1>5. Refused(t, p)
  BY <1>3, <1>4, Zenon DEF Refused, t
<1> QED
  BY <1>5, Zenon DEF BrokenRead, t

\* The last line of lines, and those before it.
LEMMA LastLine ==
    ASSUME NEW done \in Seq(IniLines), NEW l \in IniLines, NEW others \in Seq(IniLines), NEW k \in IniLines,
           Append(done, l) = Append(others, k)
    PROVE  done = others /\ l = k
<1> DEFINE more == Append(done, l)
           same == Append(others, k)
<1>1. more[Len(more)] = l /\ Len(more) = Len(done) + 1 /\ \A i \in 1 .. Len(done) : more[i] = done[i]
  OBVIOUS
<1>2. same[Len(same)] = k /\ Len(same) = Len(others) + 1 /\ \A i \in 1 .. Len(others) : same[i] = others[i]
  OBVIOUS
<1>3. more = same
  OBVIOUS
<1> HIDE DEF more, same
<1>4. Len(done) = Len(others) /\ l = k
  BY <1>1, <1>2, <1>3
<1>5. \A i \in 1 .. Len(done) : done[i] = others[i]
  BY <1>1, <1>2, <1>3, <1>4
<1>6. done = others
  BY <1>4, <1>5, SeqEqual
<1> QED
  BY <1>4, <1>6

\* A character within a line.
LEMMA LineReadMoves ==
    ASSUME NEW done \in Seq(IniLines), NEW l \in IniLines, NEW p, NEW base, InLine(l, p, base),
           ini_text \in Seq(IniChars), p < Len(l.text), IniChar, LineRead(done, l, p, base)
    PROVE  LineRead(done, l, p + 1, base)'
<1>1. ASSUME AllRegular(done), LineGoesOn(done, l), l.kind \in {"blank", "comment"} PROVE CommentRead(done, p + 1)'
  <2>1. CommentRead(done, p)
    BY <1>1, Zenon DEF LineRead
  <2> QED
    BY <1>1, <2>1, CommentMoves, Zenon
<1>2. ASSUME AllRegular(done), LineGoesOn(done, l), l.kind = "section" PROVE SectionRead(done, l, p + 1, base)'
  <2>1. SectionRead(done, l, p, base)
    BY <1>2, Zenon DEF LineRead
  <2> QED
    BY <1>2, <2>1, SectionMoves, Zenon
<1>3. ASSUME AllRegular(done), LineGoesOn(done, l), l.kind = "setting" PROVE SettingRead(done, l, p + 1, base)'
  <2>1. SettingRead(done, l, p, base)
    BY <1>3, Zenon DEF LineRead
  <2> QED
    BY <1>3, <2>1, SettingLineMoves, Zenon
<1>4. ASSUME AllRegular(done), StopsAt(done, l) PROVE BrokenRead(done, l, p + 1)'
  <2>1. BrokenRead(done, l, p) /\ l.kind = "broken"
    BY <1>4, Zenon DEF LineRead, StopsAt
  <2> QED
    BY <2>1, BrokenMoves, Zenon
<1> QED
  BY <1>1, <1>2, <1>3, <1>4, Zenon DEF LineRead

\* The end of a line.
LEMMA LineReadEnds ==
    ASSUME NEW done \in Seq(IniLines), NEW l \in IniLines, NEW p, NEW base, InLine(l, p, base),
           ini_text \in Seq(IniChars), p = Len(l.text), IniChar, LineRead(done, l, p, base)
    PROVE  LinesRead(Append(done, l))'
<1> DEFINE more == Append(done, l)
<1>1. ASSUME AllRegular(more) PROVE ini_cs' = BeginOf(more) /\ Kept(more)'
  <2>1. AllRegular(done) /\ LineGoesOn(done, l)
    BY <1>1, RegularAdded, Zenon
  <2>2. l.kind \in {"blank", "comment"} \/ l.kind = "section" \/ l.kind = "setting"
    BY <2>1, Zenon DEF LineGoesOn
  <2>3. CASE l.kind \in {"blank", "comment"}
    <3>1. CommentRead(done, p)
      BY <2>1, <2>3, Zenon DEF LineRead
    <3> QED
      BY <2>3, <3>1, CommentEnds, Zenon
  <2>4. CASE l.kind = "section"
    <3>1. SectionRead(done, l, p, base)
      BY <2>1, <2>4, Zenon DEF LineRead
    <3> QED
      BY <2>4, <3>1, SectionEnds, Zenon
  <2>5. CASE l.kind = "setting"
    <3>1. SettingRead(done, l, p, base)
      BY <2>1, <2>5, Zenon DEF LineRead
    <3> QED
      BY <2>5, <3>1, SettingLineEnds, Zenon
  <2> QED
    BY <2>2, <2>3, <2>4, <2>5
<1>2. ASSUME NEW others \in Seq(IniLines), NEW k \in IniLines, more = Append(others, k) PROVE ~StopsAt(others, k)
  <2> SUFFICES ASSUME StopsAt(others, k) PROVE FALSE
    OBVIOUS
  <2>1. done = others /\ l = k
    BY <1>2, LastLine, Zenon
  <2>2. AllRegular(done) /\ StopsAt(done, l) /\ l.kind = "broken"
    BY <2>1, Zenon DEF StopsAt
  <2>3. BrokenRead(done, l, p)
    BY <2>2, Zenon DEF LineRead
  <2>4. ini_cs = 0
    BY <2>2, <2>3, BrokenStops, Zenon
  <2> QED
    BY <2>4, Zenon DEF IniChar, parser_error
<1> QED
  BY <1>1, <1>2, Zenon DEF LinesRead, more

\* A line begins.
LEMMA LineBegins ==
    ASSUME NEW lines \in Seq(IniLines), NEW l \in IniLines, LinesRead(lines), ini_text \in Seq(IniChars),
           ini_text' = ini_text, ini_ahead' = Ended(l), UNCHANGED iniParser, NEW base, base = Len(ini_text)
    PROVE  InLine(l, 0, base)' /\ LineRead(lines, l, 0, base)'
<1> DEFINE t == l.text
           e == Ended(l)
           b == BeginOf(lines)
<1>1. t \in Seq(IniChars) /\ Len(t) \in Nat
  <2>1. t \in Seq(IniChars \ {"LF"})
    BY LinesAreTexts
  <2>2. IniChars \ {"LF"} \subseteq IniChars
    BY Zenon
  <2> HIDE DEF t
  <2> QED
    BY <2>1, <2>2
<1>2. e \in Seq(IniChars) /\ Len(e) = Len(t) + 1
  <2> DEFINE x == "LF"
             S == IniChars
  <2>1. x \in S
    BY MarksAreChars, Zenon
  <2>2. e = Append(t, x) /\ t \in Seq(S)
    BY <1>1, Zenon DEF Ended
  <2> HIDE DEF e, t, x, S
  <2>3. e \in Seq(S) /\ Len(e) = Len(t) + 1
    BY <2>1, <2>2
  <2> QED
    BY <2>3 DEF S
<1> HIDE DEF t, e
<1>3. SubSeq(e, 0 + 1, Len(t) + 1) = e
  <2> DEFINE w == SubSeq(e, 1, Len(e))
  <2>1. Len(e) \in Nat /\ Len(e) > 0 /\ Len(e) - 1 + 1 = Len(e)
    BY <1>1, <1>2
  <2>2. \A i \in 1 .. Len(e) : e[i] \in IniChars
    BY <1>2
  <2>3. w \in Seq(IniChars) /\ Len(w) = Len(e) /\ \A i \in 1 .. Len(e) : w[i] = e[1 + i - 1]
    <3> DEFINE z == Len(e)
    <3>1. 1 \in Int /\ z \in Int /\ 1 <= z /\ z - 1 + 1 = z /\ w = SubSeq(e, 1, z)
      BY <2>1
    <3>2. \A i \in 1 .. z : e[i] \in IniChars
      BY <2>2
    <3> HIDE DEF w, z
    <3>3. w \in Seq(IniChars) /\ Len(w) = z /\ \A i \in 1 .. z : w[i] = e[1 + i - 1]
      BY <3>1, <3>2, SubSeqProperties
    <3> QED
      BY <3>3 DEF z
  <2> HIDE DEF w
  <2>4. \A i \in 1 .. Len(e) : w[i] = e[i]
    <3>1. \A i \in 1 .. Len(e) : 1 + i - 1 = i
      OBVIOUS
    <3> QED
      BY <2>3, <3>1
  <2>5. w = e
    BY <1>2, <2>3, <2>4, SeqEqual
  <2>6. w = SubSeq(e, 0 + 1, Len(t) + 1)
    BY <1>2 DEF w
  <2> QED
    BY <2>5, <2>6
<1>4. base \in Nat /\ Len(ini_text') = base + 0 /\ 0 \in Nat /\ 0 <= Len(t)
  BY <1>1
<1>5. Holding(base, 0, t)'
  BY DEF Holding
<1>6. InLine(l, 0, base)'
  <2>1. ini_ahead' = SubSeq(Ended(l), 0 + 1, Len(l.text) + 1)
    BY <1>3, Zenon DEF e, t
  <2> QED
    BY <1>4, <1>5, <2>1, Zenon DEF InLine, t
<1>7. LineRead(lines, l, 0, base)'
  <2> SUFFICES ASSUME AllRegular(lines) PROVE LineRead(lines, l, 0, base)'
    BY Zenon DEF LineRead
  <2>1. ini_cs' = b /\ Kept(lines)'
    <3>1. ini_cs = BeginOf(lines) /\ Kept(lines)
      BY Zenon DEF LinesRead
    <3>2. UNCHANGED <<ini_section, ini_settings>> /\ ini_cs' = ini_cs
      BY DEF iniParser
    <3> QED
      BY <3>1, <3>2, KeptStays, Zenon
  <2>2. b \in {13, 14}
    BY DEF BeginOf
  <2>3. LineGoesOn(lines, l) /\ l.kind # "setting" => b = 13
    BY <2>2, Zenon DEF LineGoesOn
  <2> HIDE DEF b
  <2>4. ASSUME LineGoesOn(lines, l), l.kind \in {"blank", "comment"} PROVE CommentRead(lines, 0)'
    <3>1. l.kind # "setting"
      BY <2>4
    <3> QED
      BY <2>1, <2>3, <2>4, <3>1, Zenon DEF CommentRead
  <2>5. ASSUME LineGoesOn(lines, l), l.kind = "section" PROVE SectionRead(lines, l, 0, base)'
    <3>1. l.kind # "setting"
      BY <2>5
    <3>2. ini_cs' = 13
      BY <2>1, <2>3, <2>5, <3>1, Zenon
    <3>3. 0 # Len(t)
      <4>1. Len(t) = Len(l.name) + 2 /\ Len(l.name) \in Nat
        BY <2>5, SectionText, Zenon DEF t
      <4> QED
        BY <4>1
    <3>4. 0 # 1 /\ ~(1 < 0)
      OBVIOUS
    <3> QED
      BY <2>1, <3>2, <3>3, <3>4, Zenon DEF SectionRead, t
  <2>6. ASSUME LineGoesOn(lines, l), l.kind = "setting" PROVE SettingRead(lines, l, 0, base)'
    <3>1. PICK m, n \in Nat : SettingLayout(l, m, n)
      BY <2>6, SettingHasLayout, Zenon
    <3> DEFINE a == Len(l.name)
    <3>2. a \in Nat /\ m \in Nat /\ n \in Nat
      BY <3>1, SettingSizes, Zenon
    <3> HIDE DEF a
    <3>3. ~(0 < 0) /\ ~(a < 0) /\ ~(a + m < 0) /\ ~(a + m + 1 + n < 0)
      BY <3>2
    <3>4. InSetting(a, m, n, l.name, BeginOf(lines), 0, base, ini_cs', ini_mark', ini_key')
      BY <3>3, Zenon DEF InSetting
    <3> QED
      BY <2>1, <3>1, <3>4, Zenon DEF SettingRead, a, b
  <2>7. ASSUME StopsAt(lines, l) PROVE BrokenRead(lines, l, 0)'
    <3>1. ini_cs' = 13
      BY <2>1, <2>7, Zenon DEF StopsAt, b
    <3>2. ~Refused(l.text, 0)
      BY DEF Refused
    <3> QED
      BY <2>1, <3>1, <3>2, Zenon DEF BrokenRead
  <2> QED
    BY <2>4, <2>5, <2>6, <2>7, Zenon DEF LineRead
<1> QED
  BY <1>6, <1>7

\* What the reader holds stays true while it stands still.
LEMMA SameReads ==
    ASSUME UNCHANGED <<ini_text, ini_ahead, iniParser>>
    PROVE  /\ \A lines : LinesRead(lines) => LinesRead(lines)'
           /\ \A l, p, base : InLine(l, p, base) => InLine(l, p, base)'
           /\ \A done, l, p, base : LineRead(done, l, p, base) => LineRead(done, l, p, base)'
<1>1. /\ ini_text' = ini_text /\ ini_ahead' = ini_ahead /\ ini_cs' = ini_cs /\ ini_mark' = ini_mark
      /\ ini_key' = ini_key /\ ini_section' = ini_section /\ ini_settings' = ini_settings
  BY DEF iniParser
<1>2. \A lines : Kept(lines)' <=> Kept(lines)
  BY <1>1, Zenon DEF Kept
<1>3. \A lines : LinesRead(lines) => LinesRead(lines)'
  BY <1>1, <1>2, Zenon DEF LinesRead
<1>4. \A l, p, base : InLine(l, p, base) => InLine(l, p, base)'
  BY <1>1, Zenon DEF InLine, Holding
<1>5. \A done, p : CommentRead(done, p) => CommentRead(done, p)'
  BY <1>1, <1>2, Zenon DEF CommentRead
<1>6. \A done, l, p, base : SectionRead(done, l, p, base) => SectionRead(done, l, p, base)'
  <2> SUFFICES ASSUME NEW done, NEW l, NEW p, NEW base, SectionRead(done, l, p, base)
               PROVE  SectionRead(done, l, p, base)'
    OBVIOUS
  <2> DEFINE held == IF p = Len(l.text) THEN Append(done, l) ELSE done
  <2>1. /\ p = 0 => ini_cs = 13
        /\ p = 1 => ini_cs = 8
        /\ 1 < p /\ p < Len(l.text) => ini_cs = 9 /\ ini_mark = base + 1
        /\ p = Len(l.text) => ini_cs = 10
        /\ Kept(held)
    BY Zenon DEF SectionRead
  <2>2. Kept(held)'
    <3>1. UNCHANGED <<ini_section, ini_settings>>
      BY <1>1
    <3> HIDE DEF held
    <3> QED
      BY <2>1, <3>1, KeptStays, Zenon
  <2>3. SectionRead(done, l, p, base)' <=>
          /\ p = 0 => ini_cs' = 13
          /\ p = 1 => ini_cs' = 8
          /\ 1 < p /\ p < Len(l.text) => ini_cs' = 9 /\ ini_mark' = base + 1
          /\ p = Len(l.text) => ini_cs' = 10
          /\ Kept(held)'
    BY Zenon DEF SectionRead
  <2> HIDE DEF held
  <2> QED
    BY <1>1, <2>1, <2>2, <2>3, Zenon
<1>7. \A done, l, p, base : SettingRead(done, l, p, base) => SettingRead(done, l, p, base)'
  BY <1>1, <1>2, Zenon DEF SettingRead
<1>8. \A done, l, p : BrokenRead(done, l, p) => BrokenRead(done, l, p)'
  BY <1>1, <1>2, Zenon DEF BrokenRead
<1>9. \A done, l, p, base : LineRead(done, l, p, base) => LineRead(done, l, p, base)'
  <2> SUFFICES ASSUME NEW done, NEW l, NEW p, NEW base, LineRead(done, l, p, base)
               PROVE  LineRead(done, l, p, base)'
    OBVIOUS
  <2>1. CommentRead(done, p) => CommentRead(done, p)'
    BY <1>5, Zenon
  <2>2. SectionRead(done, l, p, base) => SectionRead(done, l, p, base)'
    BY <1>6, Zenon
  <2>3. SettingRead(done, l, p, base) => SettingRead(done, l, p, base)'
    BY <1>7, Zenon
  <2>4. BrokenRead(done, l, p) => BrokenRead(done, l, p)'
    BY <1>8, Zenon
  <2> QED
    BY <2>1, <2>2, <2>3, <2>4, Zenon DEF LineRead
<1> QED
  BY <1>3, <1>4, <1>9

\* No lines give no settings.
LEMMA InitIniReadInv == IniInit => IniReadInv
<1> SUFFICES ASSUME IniInit PROVE IniReadInv
  OBVIOUS
<1>1. /\ ini_pc = "reading" /\ ini_lines = <<>> /\ ini_ahead = <<>> /\ ini_cs = 13
      /\ ini_section = <<>> /\ ini_settings = NoSettings
  BY Zenon DEF IniInit, parser_start
<1>2. Opens(<<>>) = {}
  BY DEF Opens
<1>3. SettingsOf(<<>>) = NoSettings
  <2>1. SectionNames(<<>>) = {}
    BY <1>2, Zenon DEF SectionNames
  <2>2. DOMAIN SettingsOf(<<>>) = {} /\ SettingsOf(<<>>) = [s \in {} |-> SettingsAt(<<>>, InSection(<<>>, LatestOpen(<<>>, s)))]
    BY <2>1, SettingsAre
  <2> QED
    BY <2>2 DEF NoSettings
<1>4. Kept(<<>>)
  BY <1>1, <1>2, <1>3, Zenon DEF Kept, SectionIs
<1>5. BeginOf(<<>>) = 13
  BY DEF BeginOf
<1>6. \A done \in Seq(IniLines), l \in IniLines : Append(done, l) # <<>>
  <2> SUFFICES ASSUME NEW done \in Seq(IniLines), NEW l \in IniLines PROVE Append(done, l) # <<>>
    OBVIOUS
  <2> DEFINE more == Append(done, l)
  <2>1. Len(more) = Len(done) + 1 /\ Len(done) \in Nat
    OBVIOUS
  <2> HIDE DEF more
  <2>2. more # <<>>
    BY <2>1
  <2> QED
    BY <2>2 DEF more
<1>7. LinesRead(<<>>)
  BY <1>1, <1>4, <1>5, <1>6, Zenon DEF LinesRead
<1>8. ini_pc # "returned"
  BY <1>1
<1> QED
  BY <1>1, <1>7, <1>8, Zenon DEF IniReadInv

\* Every step of the reader keeps what it holds.
LEMMA StepIniReadInv == IniInv /\ IniReadInv /\ [IniNext]_iniVars => IniReadInv'
<1> SUFFICES ASSUME IniInv, IniReadInv, [IniNext]_iniVars PROVE IniReadInv'
  OBVIOUS
<1>0. ini_lines \in Seq(IniLines) /\ ini_text \in Seq(IniChars)
  BY Zenon DEF IniInv
<1>1. CASE IniLine
  <2>1. PICK l \in IniLines : ini_lines' = Append(ini_lines, l) /\ ini_ahead' = Append(l.text, "LF")
    BY <1>1, Zenon DEF IniLine
  <2>2. ini_ahead = <<>> /\ ini_text' = ini_text /\ UNCHANGED iniParser /\ ini_pc' = "reading"
    BY <1>1 DEF IniLine
  <2>3. ini_ahead' = Ended(l)
    BY <2>1, Zenon DEF Ended
  <2>4. LinesRead(ini_lines)
    BY <2>2, Zenon DEF IniReadInv
  <2>9. PICK done, base : done = ini_lines /\ base = Len(ini_text)
    OBVIOUS
  <2>5. base \in Nat /\ 0 \in Nat /\ done \in Seq(IniLines) /\ ini_lines' = Append(done, l) /\ base = Len(ini_text)
    BY <1>0, <2>1, <2>9
  <2>6. InLine(l, 0, base)' /\ LineRead(done, l, 0, base)'
    <3>1. LinesRead(done)
      BY <2>4, <2>9
    <3> QED
      BY <1>0, <2>2, <2>3, <2>5, <3>1, LineBegins, Zenon
  <2>7. ini_ahead' # <<>>
    <3>1. l.text \in Seq(IniChars \ {"LF"})
      BY LinesAreTexts
    <3> QED
      BY <2>1, <3>1
  <2>8. ini_pc' # "returned"
    BY <2>2
  <2> QED
    BY <2>5, <2>6, <2>7, <2>8, Zenon DEF IniReadInv
<1>2. CASE IniChar
  <2>1. ini_ahead # <<>> /\ ini_ahead' = Tail(ini_ahead) /\ ini_lines' = ini_lines /\ ini_pc' = "reading"
    BY <1>2 DEF IniChar
  <2>2. PICK done \in Seq(IniLines), l \in IniLines, p, base \in Nat :
           ini_lines = Append(done, l) /\ InLine(l, p, base) /\ LineRead(done, l, p, base)
    BY <2>1, Zenon DEF IniReadInv
  <2>3. p <= Len(l.text) /\ Len(l.text) \in Nat /\ p \in Nat
    BY <2>2, LineAhead DEF InLine
  <2>4. ini_pc' # "returned"
    BY <2>1
  <2>5. CASE p < Len(l.text)
    <3>1. InLine(l, p + 1, base)' /\ LineRead(done, l, p + 1, base)'
      BY <1>0, <1>2, <2>2, <2>5, InLineMoves, LineReadMoves, Zenon
    <3>2. ini_ahead' # <<>>
      <4>1. Len(ini_ahead) > 1
        BY <2>2, <2>5, LineAhead, Zenon
      <4>2. ini_ahead \in Seq(IniChars)
        BY Zenon DEF IniInv
      <4>3. Len(Tail(ini_ahead)) = Len(ini_ahead) - 1
        BY <2>1, <4>2, HeadTailProperties
      <4>4. Len(Tail(ini_ahead)) > 0
        BY <4>1, <4>2, <4>3
      <4>5. Tail(ini_ahead) # <<>>
        BY <4>4
      <4> QED
        BY <2>1, <4>5
    <3>3. p + 1 \in Nat /\ ini_lines' = Append(done, l)
      BY <2>1, <2>2, <2>3
    <3> QED
      BY <2>2, <2>4, <3>1, <3>2, <3>3, Zenon DEF IniReadInv
  <2>6. CASE p = Len(l.text)
    <3>1. LinesRead(Append(done, l))'
      BY <1>0, <1>2, <2>2, <2>6, LineReadEnds, Zenon
    <3>2. ini_ahead' = <<>>
      BY <2>1, <2>2, <2>6, LineAhead, Zenon
    <3>3. ini_lines' = Append(done, l)
      BY <2>1, <2>2
    <3>4. LinesRead(ini_lines)'
      BY <3>1, <3>3, Zenon DEF LinesRead
    <3> QED
      BY <2>4, <3>2, <3>4, Zenon DEF IniReadInv
  <2> QED
    BY <2>3, <2>5, <2>6
<1>3. ASSUME UNCHANGED <<ini_lines, ini_text, ini_ahead, iniParser>>,
             ini_pc' = "returned" => ini_cs = 0 \/ ini_ahead \in {<<>>, <<"LF">>}
      PROVE  IniReadInv'
  <2>1. UNCHANGED <<ini_text, ini_ahead, iniParser>> /\ ini_lines' = ini_lines /\ ini_ahead' = ini_ahead
    BY <1>3
  <2>2. ini_cs' = ini_cs
    BY <1>3 DEF iniParser
  <2>3. ini_ahead = <<>> => LinesRead(ini_lines)'
    <3>1. \A lines : LinesRead(lines) => LinesRead(lines)'
      BY <2>1, SameReads
    <3>5. PICK done : done = ini_lines
      OBVIOUS
    <3>2. ini_ahead = <<>> => LinesRead(done)
      BY <3>5, Zenon DEF IniReadInv
    <3>3. ini_lines' = done
      BY <2>1, <3>5
    <3>4. ini_ahead = <<>> => LinesRead(done)'
      BY <3>1, <3>2
    <3> QED
      BY <3>3, <3>4, Zenon DEF LinesRead
  <2>4. ASSUME ini_ahead # <<>>
        PROVE  \E done \in Seq(IniLines), l \in IniLines, p, base \in Nat :
                  ini_lines' = Append(done, l) /\ InLine(l, p, base)' /\ LineRead(done, l, p, base)'
    <3>1. PICK done \in Seq(IniLines), l \in IniLines, p, base \in Nat :
             ini_lines = Append(done, l) /\ InLine(l, p, base) /\ LineRead(done, l, p, base)
      BY <2>4, Zenon DEF IniReadInv
    <3>2. InLine(l, p, base)' /\ LineRead(done, l, p, base)'
      BY <2>1, <3>1, SameReads, Zenon
    <3> QED
      BY <2>1, <3>1, <3>2, Zenon
  <2> QED
    BY <1>3, <2>1, <2>2, <2>3, <2>4, Zenon DEF IniReadInv
<1>4. CASE IniReturns
  <2>1. UNCHANGED <<ini_lines, ini_text, ini_ahead, iniParser>>
    BY <1>4, Zenon DEF IniReturns
  <2>2. ini_cs = 0 \/ ini_ahead \in {<<>>, <<"LF">>}
    BY <1>4, Zenon DEF IniReturns, parser_error
  <2> QED
    BY <1>3, <2>1, <2>2, Zenon
<1>5. CASE UNCHANGED iniVars
  <2>1. UNCHANGED <<ini_lines, ini_text, ini_ahead, iniParser>> /\ ini_pc' = ini_pc
    BY <1>5 DEF iniVars, iniParser
  <2>2. ini_pc = "returned" => ini_cs = 0 \/ ini_ahead \in {<<>>, <<"LF">>}
    BY Zenon DEF IniReadInv
  <2> QED
    BY <1>3, <2>1, <2>2
<1> QED
  BY <1>1, <1>2, <1>4, <1>5, Zenon DEF IniNext

\* What the reader holds is what the file says.
LEMMA IniReadAnswers == IniInv /\ IniReadInv => IniAnswers
<1> SUFFICES ASSUME IniInv, IniReadInv PROVE IniAnswers
  OBVIOUS
<1> DEFINE n == Len(ini_lines)
           before == SubSeq(ini_lines, 1, n - 1)
           last == ini_lines[n]
<1>0. ini_lines \in Seq(IniLines) /\ ini_ahead \in Seq(IniChars) /\ n \in Nat
  BY DEF IniInv
<1>1. ASSUME ini_ahead = <<>>, AllRegular(ini_lines)
      PROVE  ini_cs # parser_error /\ ini_settings = SettingsOf(ini_lines)
  <2>1. ini_cs = BeginOf(ini_lines) /\ Kept(ini_lines)
    BY <1>1, Zenon DEF IniReadInv, LinesRead
  <2>2. BeginOf(ini_lines) # 0
    BY DEF BeginOf
  <2> QED
    BY <2>1, <2>2, Zenon DEF Kept, parser_error
<1>2. ASSUME n > 0, last.kind = "broken", AllRegular(before), n > 1 => ~EmptySetting(ini_lines[n - 1]),
             ini_pc = "returned"
      PROVE  ini_cs = parser_error /\ ini_settings = SettingsOf(before)
  <2>0. n > 0 /\ (n > 1 => ~EmptySetting(ini_lines[n - 1]))
    BY <1>2
  <2>1. /\ before \in Seq(IniLines) /\ Len(before) = n - 1 /\ last \in IniLines
        /\ \A i \in 1 .. n - 1 : before[i] = ini_lines[i]
    <3> DEFINE m == n - 1
               s == ini_lines
    <3>1. m \in Nat /\ s \in Seq(IniLines) /\ n = Len(s) /\ m < n
      BY <1>0, <1>2
    <3>2. before = SubSeq(s, 1, m)
      OBVIOUS
    <3> HIDE DEF m, s, n, before
    <3>3. \A i \in 1 .. m : s[i] \in IniLines
      BY <3>1
    <3>4. before \in Seq(IniLines) /\ Len(before) = m /\ \A i \in 1 .. m : before[i] = s[1 + i - 1]
      <4>1. 1 \in Int /\ m \in Int /\ (1 <= m \/ m = 0) /\ m - 1 + 1 = m
        BY <3>1
      <4> QED
        BY <3>2, <3>3, <4>1, SubSeqProperties
    <3>5. \A i \in 1 .. m : 1 + i - 1 = i
      BY <3>1
    <3>6. s[n] \in IniLines
      BY <1>2, <3>1
    <3> QED
      BY <3>4, <3>5, <3>6 DEF m, s
  <2>2. ini_lines = Append(before, last)
    <3> DEFINE more == Append(before, last)
               s == ini_lines
    <3> HIDE DEF before, last
    <3>1. more \in Seq(IniLines) /\ Len(more) = n /\ (\A i \in 1 .. n - 1 : more[i] = before[i]) /\ more[n] = last
      BY <1>0, <1>2, <2>1
    <3> HIDE DEF more, n
    <3>2. \A i \in 1 .. n : i \in 1 .. n - 1 \/ i = n
      BY <1>0
    <3>3. s[n] = last /\ s \in Seq(IniLines) /\ Len(s) = n
      BY <1>0 DEF last, n
    <3> HIDE DEF s
    <3>4. \A i \in 1 .. n : s[i] = more[i]
      BY <2>1, <3>1, <3>2, <3>3 DEF s
    <3>5. s = more
      BY <3>1, <3>3, <3>4, SeqEqual
    <3> QED
      BY <3>5 DEF s, more
  <2>3. BeginOf(before) = 13
    <3> HIDE DEF before
    <3>1. CASE n = 1
      <4>1. before = <<>>
        BY <2>1, <3>1
      <4> QED
        BY <4>1 DEF BeginOf
    <3>2. CASE n # 1
      <4>1. n > 1 /\ n - 1 \in 1 .. n - 1
        <5> HIDE DEF n
        <5> QED
          BY <1>0, <2>0, <3>2
      <4>2. ~EmptySetting(before[Len(before)])
        BY <2>0, <2>1, <4>1, Zenon
      <4> QED
        BY <4>2, Zenon DEF BeginOf
    <3> QED
      BY <3>1, <3>2
  <2> HIDE DEF before, last, n
  <2>4. StopsAt(before, last)
    BY <1>2, <2>3, Zenon DEF StopsAt
  <2>5. ini_ahead # <<>>
    BY <2>1, <2>2, <2>4, Zenon DEF IniReadInv, LinesRead
  <2>6. PICK done \in Seq(IniLines), l \in IniLines, p, base \in Nat :
           ini_lines = Append(done, l) /\ InLine(l, p, base) /\ LineRead(done, l, p, base)
    BY <2>5, Zenon DEF IniReadInv
  <2>7. done = before /\ l = last
    <3>1. Append(done, l) = Append(before, last) /\ before \in Seq(IniLines) /\ last \in IniLines
      BY <2>1, <2>2, <2>6
    <3> QED
      BY <3>1, LastLine, Zenon
  <2>8. AllRegular(done) /\ StopsAt(done, l) /\ l.kind = "broken"
    BY <2>4, <2>7, Zenon DEF StopsAt
  <2>9. BrokenRead(done, l, p)
    BY <2>6, <2>8, Zenon DEF LineRead
  <2>10. ini_cs = 0
    <3>1. ini_cs = 0 \/ ini_ahead = <<"LF">>
      BY <1>2, <2>5, Zenon DEF IniReadInv
    <3>2. CASE ini_ahead = <<"LF">>
      <4>1. Len(ini_ahead) = 1
        BY <3>2
      <4>2. ~(Len(ini_ahead) > 1)
        BY <4>1
      <4>3. ~(p < Len(l.text))
        BY <2>6, <4>2, LineAhead, Zenon
      <4>4. p <= Len(l.text) /\ Len(l.text) \in Nat
        BY <2>6, LineAhead DEF InLine
      <4>5. p = Len(l.text)
        BY <4>3, <4>4
      <4> QED
        BY <2>6, <2>8, <2>9, <4>5, BrokenStops, Zenon
    <3> QED
      BY <3>1, <3>2
  <2> QED
    BY <2>7, <2>9, <2>10, Zenon DEF BrokenRead, Kept, parser_error
<1> QED
  BY <1>1, <1>2, Zenon DEF IniAnswers, n, before, last

\* A file of regular lines gives the settings that stand in it, and one that cannot
\* be read those before the line that cannot, and an error.
THEOREM SettingsAreRead == IniSpec => []IniAnswers
<1>1. IniInit => IniInv /\ IniReadInv
  BY InitIniInv, InitIniReadInv
<1>2. IniInv /\ IniReadInv /\ [IniNext]_iniVars => (IniInv /\ IniReadInv)'
  BY StepIniInv, StepIniReadInv
<1>3. IniInv /\ IniReadInv => IniAnswers
  BY IniReadAnswers
<1> QED
  BY <1>1, <1>2, <1>3, PTL DEF IniSpec

-----------------------------------------------------------------------------
(***************************************************************************)
(* The types of the texts of requests and responses.                       *)
(***************************************************************************)
\* The characters that the code writes itself.
LEMMA WrittenChars ==
    /\ "HTTP/" \in TextChars /\ "1" \in TextChars /\ "." \in TextChars /\ " " \in TextChars
    /\ ":" \in TextChars /\ "CR" \in TextChars /\ "LF" \in TextChars /\ "ctl" \in TextChars
    /\ "host" \in TextChars /\ "length" \in TextChars /\ "?" \in TextChars
  BY Zenon DEF TextChars, FieldChars, VisibleChars, TokenChars, Alpha, DigitChar, WhiteSpace

\* What is in the parts of a header is a text.
LEMMA PartsOfTexts ==
    /\ TokenChars \subseteq TextChars /\ FieldChars \subseteq TextChars /\ DigitChar \subseteq TextChars
  BY Zenon DEF TextChars, FieldChars, VisibleChars, TokenChars

\* More characters, more texts.
LEMMA SeqGrows ==
    ASSUME NEW A, NEW B, A \subseteq B
    PROVE  Seq(A) \subseteq Seq(B)
  OBVIOUS

\* Short texts.
LEMMA ShortTexts ==
    ASSUME NEW S
    PROVE  /\ <<>> \in Seq(S)
           /\ \A a \in S : <<a>> \in Seq(S)
           /\ \A a, b \in S : <<a, b>> \in Seq(S)
           /\ \A a, b, c, d, e \in S : <<a, b, c, d, e>> \in Seq(S)
  OBVIOUS

\* A line is a text.
LEMMA LineTyped ==
    ASSUME NEW S, TextChars \subseteq S, NEW text \in Seq(S)
    PROVE  Line(text) \in Seq(S)
<1>1. <<"CR", "LF">> \in Seq(S)
  <2>1. "CR" \in S /\ "LF" \in S
    BY WrittenChars, Zenon
  <2> QED
    BY <2>1, ShortTexts, Zenon
<1> QED
  BY <1>1, ConcatProperties, Zenon DEF Line

\* A sequence that is made of the members of another one.
LEMMA EachTyped ==
    ASSUME NEW A, NEW S, NEW s \in Seq(A), NEW f, f = [i \in DOMAIN s |-> f[i]],
           \A i \in DOMAIN s : f[i] \in Seq(S)
    PROVE  FlattenSeq(f) \in Seq(S)
<1>1. f \in Seq(Seq(S))
  <2>1. Len(s) \in Nat /\ DOMAIN s = 1 .. Len(s)
    OBVIOUS
  <2>2. f \in [1 .. Len(s) -> Seq(S)]
    BY <2>1
  <2> QED
    BY <2>1, <2>2, FunctionIsSequence
<1> QED
  BY <1>1, FlattenSeqType

\* The text of a field, and of a response, is a text.
LEMMA FieldTextTyped ==
    ASSUME NEW f \in SentFields
    PROVE  FieldText(f) \in Seq(TextChars)
<1>1. f.name \in Seq(TextChars) /\ f.pieces \in Seq([blanks : Nat, text : Seq(FieldChars)])
  <2>1. f.name \in Seq(TokenChars) /\ f.pieces \in Seq([blanks : Nat, text : Seq(FieldChars)])
    BY DEF SentFields
  <2> QED
    BY <2>1, PartsOfTexts, SeqGrows
<1> DEFINE piece(i) == (IF i = 1 THEN <<>> ELSE <<"CR", "LF">>)
                       \o [j \in 1 .. f.pieces[i].blanks |-> " "] \o f.pieces[i].text
           pieces == [i \in DOMAIN f.pieces |-> piece(i)]
<1>2. ASSUME NEW i \in DOMAIN f.pieces PROVE piece(i) \in Seq(TextChars)
  <2> DEFINE Pieces == [blanks : Nat, text : Seq(FieldChars)]
  <2>1. f.pieces[i] \in Pieces
    <3>1. f.pieces \in Seq(Pieces)
      BY <1>1
    <3> HIDE DEF Pieces, piece
    <3> QED
      BY <3>1
  <2>2. f.pieces[i].blanks \in Nat /\ f.pieces[i].text \in Seq(TextChars)
    BY <2>1, PartsOfTexts, SeqGrows
  <2>3. [j \in 1 .. f.pieces[i].blanks |-> " "] \in Seq(TextChars)
    <3> DEFINE n == f.pieces[i].blanks
    <3>1. n \in Nat /\ [j \in 1 .. n |-> " "] \in [1 .. n -> TextChars]
      BY <2>2, WrittenChars, Zenon
    <3> HIDE DEF n
    <3>2. [j \in 1 .. n |-> " "] \in Seq(TextChars)
      BY <3>1, FunctionIsSequence, Zenon
    <3> QED
      BY <3>2, Zenon DEF n
  <2>4. (IF i = 1 THEN <<>> ELSE <<"CR", "LF">>) \in Seq(TextChars)
    BY WrittenChars, ShortTexts, Zenon
  <2> QED
    BY <2>2, <2>3, <2>4, ConcatProperties, Zenon
<1>3. FlattenSeq(pieces) \in Seq(TextChars)
  <2>1. pieces = [i \in DOMAIN f.pieces |-> pieces[i]] /\ \A i \in DOMAIN f.pieces : pieces[i] \in Seq(TextChars)
    BY <1>2
  <2> HIDE DEF pieces
  <2> QED
    BY <1>1, <2>1, EachTyped
<1>4. <<":">> \in Seq(TextChars)
  BY WrittenChars, ShortTexts, Zenon
<1>5. (f.name \o <<":">>) \o FlattenSeq(pieces) \in Seq(TextChars)
  BY <1>1, <1>3, <1>4, ConcatProperties, Zenon
<1> QED
  BY <1>5, Zenon DEF FieldText

\* The header of a response is a text, whole or damaged.
LEMMA HeaderTextTyped ==
    ASSUME NEW r \in Responses
    PROVE  HeaderText(r) \in Seq(TextChars)
<1>1. r.code \in Seq(TextChars) /\ r.reason \in Seq(TextChars) /\ r.fields \in Seq(SentFields) /\ r.damage \in Nat
  BY TextAssumption, PartsOfTexts, SeqGrows
<1> DEFINE fields == [i \in DOMAIN r.fields |-> Line(FieldText(r.fields[i]))]
           intact == Line(<<"HTTP/", "1", ".", "1", " ">> \o r.code \o <<" ">> \o r.reason) \o FlattenSeq(fields)
<1>2. FlattenSeq(fields) \in Seq(TextChars)
  <2>1. ASSUME NEW i \in DOMAIN r.fields PROVE Line(FieldText(r.fields[i])) \in Seq(TextChars)
    <3>1. r.fields[i] \in SentFields
      BY <1>1
    <3> QED
      BY <3>1, FieldTextTyped, LineTyped
  <2>2. fields = [i \in DOMAIN r.fields |-> fields[i]] /\ \A i \in DOMAIN r.fields : fields[i] \in Seq(TextChars)
    BY <2>1
  <2> HIDE DEF fields
  <2> QED
    BY <1>1, <2>2, EachTyped
<1>3. <<"HTTP/", "1", ".", "1", " ">> \in Seq(TextChars) /\ <<" ">> \in Seq(TextChars)
  BY WrittenChars, ShortTexts, Zenon
<1>4. Line(<<"HTTP/", "1", ".", "1", " ">> \o r.code \o <<" ">> \o r.reason) \in Seq(TextChars)
  BY <1>1, <1>3, ConcatProperties, LineTyped, Zenon
<1>5. intact \in Seq(TextChars)
  BY <1>2, <1>4, ConcatProperties, Zenon
<1>6. HeaderText(r) = IF r.damage = 0 THEN intact ELSE [intact EXCEPT ![r.damage] = "ctl"]
  BY Zenon DEF HeaderText
<1> HIDE DEF intact
<1>7. [intact EXCEPT ![r.damage] = "ctl"] \in Seq(TextChars)
  <2> DEFINE d == r.damage
  <2>1. "ctl" \in TextChars
    BY WrittenChars
  <2>2. Len(intact) \in Nat /\ intact \in [1 .. Len(intact) -> TextChars]
    BY <1>5
  <2>3. [intact EXCEPT ![d] = "ctl"] \in [1 .. Len(intact) -> TextChars]
    BY <2>1, <2>2
  <2> HIDE DEF d
  <2>4. [intact EXCEPT ![d] = "ctl"] \in Seq(TextChars)
    BY <2>2, <2>3, FunctionIsSequence
  <2> QED
    BY <2>4 DEF d
<1> QED
  BY <1>5, <1>6, <1>7, Zenon

-----------------------------------------------------------------------------
\* What RunEnd computes: the end of the run from every place from i on.
IsEndOf(end, text, i, chars) ==
    end = [j \in i .. Len(text) + 1 |->
             IF j <= Len(text) /\ text[j] \in chars THEN end[j + 1] ELSE j]

\* RunEnd takes the value of such a function.
LEMMA RunEndIs ==
    ASSUME NEW text, NEW i, NEW chars
    PROVE  RunEnd(text, i, chars) = (CHOOSE f : IsEndOf(f, text, i, chars))[i]
  BY Zenon DEF RunEnd, IsEndOf

\* There is such a function.
LEMMA EndExists ==
    ASSUME NEW S, NEW text \in Seq(S), NEW chars, NEW i \in 1 .. Len(text) + 1
    PROVE  \E f : IsEndOf(f, text, i, chars)
<1> DEFINE n == Len(text)
           N == n + 1
           V == 1 .. N
           ends == {j \in 1 .. N : ~(j <= n /\ text[j] \in chars)}
           val == [j \in 1 .. N |-> j]
           nxt == [j \in 1 .. N |-> j + 1]
           step == [j \in 1 .. N |-> [v \in V |-> v]]
<1>1. n \in Nat
  OBVIOUS
<1> HIDE DEF n
<1>2. /\ N \in Nat /\ 1 \in V /\ val \in [1 .. N -> V] /\ nxt \in [1 .. N -> Nat]
      /\ step \in [1 .. N -> [V -> V]]
  BY <1>1
<1>3. \A j \in 1 .. N : j \notin ends => nxt[j] = j + 1 /\ nxt[j] \in j + 1 .. N
  BY <1>1
<1>4. PICK f \in [1 .. N -> V] : IsDown(f, 1, N, ends, val, nxt, step)
  <2> HIDE DEF N, V, ends, val, nxt, step
  <2> QED
    BY <1>2, <1>3, DownwardRecursion
<1> DEFINE g == [j \in i .. N |-> f[j]]
<1>5. ASSUME NEW j \in i .. N
      PROVE  g[j] = IF j <= n /\ text[j] \in chars THEN g[j + 1] ELSE j
  <2>1. j \in 1 .. N /\ i \in 1 .. N
    BY <1>1 DEF n
  <2>2. f[j] = IF j \in ends THEN val[j] ELSE step[j][f[nxt[j]]]
    BY <1>4, <2>1 DEF IsDown
  <2>3. CASE j \in ends
    <3>1. val[j] = j
      BY <2>1
    <3> QED
      BY <2>2, <2>3, <3>1
  <2>4. CASE j \notin ends
    <3>1. nxt[j] = j + 1 /\ j + 1 \in j + 1 .. N
      BY <1>3, <2>1, <2>4
    <3>2. j + 1 \in 1 .. N /\ j + 1 \in i .. N
      BY <1>1, <2>1, <3>1
    <3>3. f[j + 1] \in V
      BY <1>4, <3>2
    <3>4. step[j][f[j + 1]] = f[j + 1]
      BY <2>1, <3>3
    <3>5. j <= n /\ text[j] \in chars
      BY <2>1, <2>4
    <3> QED
      BY <2>2, <2>4, <3>1, <3>2, <3>4, <3>5
  <2> QED
    BY <2>3, <2>4
<1>6. g = [j \in i .. N |-> IF j <= n /\ text[j] \in chars THEN g[j + 1] ELSE j]
  BY <1>5
<1> HIDE DEF g
<1>7. IsEndOf(g, text, i, chars)
  BY <1>6, Zenon DEF IsEndOf, n
<1> QED
  BY <1>7

\* A run ends at its start or behind it, one place behind the text at most.
LEMMA RunEndBounds ==
    ASSUME NEW S, NEW text \in Seq(S), NEW chars, NEW i \in 1 .. Len(text) + 1
    PROVE  RunEnd(text, i, chars) \in i .. Len(text) + 1
<1> DEFINE end == CHOOSE f : IsEndOf(f, text, i, chars)
           n == Len(text)
           N == n + 1
           T == {j \in 1 .. N : j >= i => end[j] \in j .. N}
<1>1. n \in Nat
  OBVIOUS
<1>2. \A j \in i .. N : end[j] = IF j <= n /\ text[j] \in chars THEN end[j + 1] ELSE j
  <2>1. IsEndOf(end, text, i, chars)
    BY EndExists
  <2> HIDE DEF end
  <2> QED
    BY <2>1 DEF IsEndOf
<1>3. RunEnd(text, i, chars) = end[i] /\ i \in 1 .. N
  BY RunEndIs
<1> HIDE DEF end, n
<1>4. ASSUME NEW j \in 1 .. N, \A k \in j + 1 .. N : k \in T PROVE j \in T
  <2> SUFFICES ASSUME j >= i PROVE end[j] \in j .. N
    OBVIOUS
  <2>1. j \in i .. N
    BY <1>1, <1>3
  <2>2. CASE j <= n /\ text[j] \in chars
    <3>1. j + 1 \in j + 1 .. N /\ j + 1 >= i
      BY <1>1, <1>3, <2>1, <2>2
    <3>2. end[j + 1] \in j + 1 .. N
      BY <1>4, <3>1
    <3>3. end[j] = end[j + 1]
      BY <1>2, <2>1, <2>2
    <3> QED
      BY <1>1, <3>2, <3>3
  <2>3. CASE ~(j <= n /\ text[j] \in chars)
    <3>1. end[j] = j
      BY <1>2, <2>1, <2>3
    <3> QED
      BY <1>1, <3>1
  <2> QED
    BY <2>2, <2>3
<1>5. N \in Nat /\ \A j \in 1 .. N : (\A k \in j + 1 .. N : k \in T) => j \in T
  BY <1>1, <1>4
<1>6. \A j \in 1 .. N : j \in T
  <2> HIDE DEF T, N
  <2> QED
    BY <1>5, DownTo
<1> QED
  BY <1>1, <1>3, <1>6 DEF n
\* A text without the blanks at its end is one.
LEMMA TrimmedTyped ==
    ASSUME NEW S, NEW text \in Seq(S)
    PROVE  TrimEnd(text) \in Seq(S)
<1> DEFINE kept == {i \in DOMAIN text : text[i] \notin WhiteSpace}
           n == Len(text)
<1>1. n \in Nat /\ DOMAIN text = 1 .. n
  OBVIOUS
<1>2. TrimEnd(text) = IF kept = {} THEN <<>> ELSE SubSeq(text, 1, CHOOSE i \in kept : \A j \in kept : j <= i)
  BY Zenon DEF TrimEnd
<1>3. kept \in SUBSET (1 .. n)
  BY <1>1
<1> HIDE DEF kept, n
<1>4. CASE kept = {}
  <2>1. <<>> \in Seq(S)
    OBVIOUS
  <2> QED
    BY <1>2, <1>4, <2>1, Zenon
<1>5. CASE kept # {}
  <2> DEFINE below == {d \in Nat : d <= n /\ n - d \in kept}
  <2>1. below \in SUBSET Nat /\ below # {}
    <3>1. PICK i \in kept : TRUE
      BY <1>5
    <3>2. n - i \in below
      BY <1>1, <1>3
    <3> QED
      BY <3>2
  <2>2. PICK d \in below : \A e \in below : d <= e
    BY <2>1, LeastExists
  <2>3. n - d \in kept /\ \A j \in kept : j <= n - d
    <3>1. ASSUME NEW j \in kept PROVE j <= n - d
      <4>1. j \in 1 .. n /\ n - (n - j) = j
        BY <1>1, <1>3
      <4>2. n - j \in below
        BY <1>1, <4>1
      <4>3. d <= n - j
        BY <2>2, <4>2
      <4> QED
        BY <1>1, <4>1, <4>3
    <3> QED
      BY <3>1
  <2> DEFINE k == CHOOSE i \in kept : \A j \in kept : j <= i
  <2>4. k \in kept
    BY <2>3, Zenon
  <2> HIDE DEF k
  <2>5. k \in 1 .. n
    BY <1>3, <2>4
  <2>6. SubSeq(text, 1, k) \in Seq(S)
    BY <1>1, <2>5 DEF n
  <2> QED
    BY <1>2, <1>5, <2>6, Zenon DEF k
<1> QED
  BY <1>4, <1>5

\* The piece of a value at i, where its line ends, and whether the next line goes on.
PieceEnd(text, i) == RunEnd(text, i, FieldChars)
PieceAt(text, i) == TrimEnd(SubSeq(text, i, PieceEnd(text, i) - 1))
ContinuesAt(text, i) ==
    /\ LineEnds(text, PieceEnd(text, i))
    /\ PieceEnd(text, i) + 2 <= Len(text) /\ text[PieceEnd(text, i) + 2] \in WhiteSpace

\* What parseFieldContent computes: the value from every place from begin on.
IsContent(content, text, begin) ==
    content = [i \in begin .. Len(text) + 1 |->
       IF ContinuesAt(text, i)
       THEN [content[PieceEnd(text, i) + 3] EXCEPT !.value = PieceAt(text, i) \o <<" ">> \o @]
       ELSE [value |-> PieceAt(text, i), next |-> PieceEnd(text, i)]]

\* parseFieldContent takes the value of such a function.
LEMMA ContentIs ==
    ASSUME NEW text, NEW begin
    PROVE  parseFieldContent(text, begin) = (CHOOSE f : IsContent(f, text, begin))[begin]
  BY Zenon DEF parseFieldContent, IsContent, ContinuesAt, PieceAt, PieceEnd

\* A piece is a text; behind a fold there is one place at least.
LEMMA PieceTyped ==
    ASSUME NEW S, NEW text \in Seq(S), NEW i \in 1 .. Len(text) + 1
    PROVE  /\ PieceEnd(text, i) \in i .. Len(text) + 1 /\ PieceAt(text, i) \in Seq(S)
           /\ ContinuesAt(text, i) => PieceEnd(text, i) + 3 \in i + 1 .. Len(text) + 1
<1> DEFINE n == Len(text)
           e == PieceEnd(text, i)
<1>1. n \in Nat
  OBVIOUS
<1>2. e \in i .. n + 1
  BY RunEndBounds DEF PieceEnd
<1>3. SubSeq(text, i, e - 1) \in Seq(S)
  <2>1. e - 1 \in 0 .. n /\ i \in 1 .. n + 1
    BY <1>1, <1>2
  <2> HIDE DEF e
  <2> QED
    BY <2>1, Stretch
<1>4. ContinuesAt(text, i) => e + 2 <= n
  BY Zenon DEF ContinuesAt
<1> HIDE DEF n, e
<1>5. ContinuesAt(text, i) => e + 3 \in i + 1 .. n + 1
  BY <1>1, <1>2, <1>4 DEF n
<1> QED
  BY <1>2, <1>3, <1>5, TrimmedTyped DEF n, e, PieceAt

\* What a value may be.
HasBlank(S) == " " \in S
Contents(S, n) == [value : Seq(S), next : 1 .. n + 1]

\* A piece more in front of a content.
LEMMA PrefixedContent ==
    ASSUME NEW S, NEW n, NEW v \in Contents(S, n), NEW piece \in Seq(S), HasBlank(S)
    PROVE  [v EXCEPT !.value = piece \o <<" ">> \o @] \in Contents(S, n)
<1>1. v.value \in Seq(S) /\ v.next \in 1 .. n + 1 /\ v = [value |-> v.value, next |-> v.next]
  BY DEF Contents
<1>2. <<" ">> \in Seq(S)
  BY ShortTexts, Zenon DEF HasBlank
<1>3. piece \o <<" ">> \o v.value \in Seq(S)
  BY <1>1, <1>2, ConcatProperties, Zenon
<1> QED
  BY <1>1, <1>3 DEF Contents

\* There is such a function.
LEMMA ContentExists ==
    ASSUME NEW S, NEW text \in Seq(S), HasBlank(S), NEW begin \in 1 .. Len(text) + 1
    PROVE  \E f : IsContent(f, text, begin)
<1> DEFINE n == Len(text)
           N == n + 1
           V == Contents(S, n)
           ends == {i \in 1 .. N : ~ContinuesAt(text, i)}
           val == [i \in 1 .. N |-> [value |-> PieceAt(text, i), next |-> PieceEnd(text, i)]]
           nxt == [i \in 1 .. N |-> PieceEnd(text, i) + 3]
           step == [i \in 1 .. N |-> [v \in V |-> [v EXCEPT !.value = PieceAt(text, i) \o <<" ">> \o @]]]
<1>1. n \in Nat
  OBVIOUS
<1>2. \A i \in 1 .. N : /\ PieceEnd(text, i) \in i .. N /\ PieceAt(text, i) \in Seq(S)
                        /\ ContinuesAt(text, i) => PieceEnd(text, i) + 3 \in i + 1 .. N
  BY PieceTyped
<1> HIDE DEF n
<1>3. val \in [1 .. N -> V]
  <2>1. ASSUME NEW i \in 1 .. N PROVE [value |-> PieceAt(text, i), next |-> PieceEnd(text, i)] \in V
    <3>1. PieceEnd(text, i) \in 1 .. n + 1 /\ PieceAt(text, i) \in Seq(S)
      BY <1>1, <1>2
    <3> QED
      BY <3>1 DEF Contents
  <2> HIDE DEF V, N
  <2> QED
    BY <2>1
<1>4. step \in [1 .. N -> [V -> V]]
  <2>1. ASSUME NEW i \in 1 .. N, NEW v \in V PROVE [v EXCEPT !.value = PieceAt(text, i) \o <<" ">> \o @] \in V
    BY <1>2, PrefixedContent
  <2> HIDE DEF V, N
  <2> QED
    BY <2>1
<1>5. N \in Nat /\ nxt \in [1 .. N -> Nat] /\ val[1] \in V
      /\ \A i \in 1 .. N : i \notin ends => nxt[i] = PieceEnd(text, i) + 3 /\ nxt[i] \in i + 1 .. N
  <2>1. N \in Nat /\ 1 \in 1 .. N
    BY <1>1
  <2>2. val[1] \in V
    <3> HIDE DEF val, V, N
    <3> QED
      BY <1>3, <2>1
  <2>3. \A i \in 1 .. N : i \notin ends => nxt[i] = PieceEnd(text, i) + 3 /\ nxt[i] \in i + 1 .. N
    BY <1>2
  <2>4. nxt \in [1 .. N -> Nat]
    <3>1. \A i \in 1 .. N : PieceEnd(text, i) + 3 \in Nat
      BY <1>1, <1>2
    <3> QED
      BY <3>1
  <2> QED
    BY <2>1, <2>2, <2>3, <2>4
<1>6. PICK f \in [1 .. N -> V] : IsDown(f, 1, N, ends, val, nxt, step)
  <2> DEFINE v0 == val[1]
  <2>1. v0 \in V
    BY <1>5
  <2> HIDE DEF N, V, ends, val, nxt, step, v0
  <2> QED
    BY <1>3, <1>4, <1>5, <2>1, DownwardRecursion
<1> DEFINE g == [i \in begin .. N |-> f[i]]
           read(i) == IF ContinuesAt(text, i)
                      THEN [g[PieceEnd(text, i) + 3] EXCEPT !.value = PieceAt(text, i) \o <<" ">> \o @]
                      ELSE [value |-> PieceAt(text, i), next |-> PieceEnd(text, i)]
<1>7. ASSUME NEW i \in begin .. N PROVE g[i] = read(i)
  <2>1. i \in 1 .. N /\ begin \in 1 .. N
    BY <1>1 DEF n
  <2>2. f[i] = IF i \in ends THEN val[i] ELSE step[i][f[nxt[i]]]
    BY <1>6, <2>1 DEF IsDown
  <2>3. CASE i \in ends
    <3>1. val[i] = [value |-> PieceAt(text, i), next |-> PieceEnd(text, i)] /\ ~ContinuesAt(text, i)
      BY <2>1, <2>3
    <3> QED
      BY <2>2, <2>3, <3>1
  <2>4. CASE i \notin ends
    <3>1. nxt[i] = PieceEnd(text, i) + 3 /\ nxt[i] \in i + 1 .. N /\ ContinuesAt(text, i)
      BY <1>5, <2>1, <2>4
    <3>2. nxt[i] \in 1 .. N /\ nxt[i] \in begin .. N
      BY <1>1, <2>1, <3>1
    <3> DEFINE w == f[nxt[i]]
    <3>3. w \in V /\ g[PieceEnd(text, i) + 3] = w
      BY <1>6, <3>1, <3>2
    <3>4. f[i] = step[i][w]
      BY <2>2, <2>4
    <3> HIDE DEF w
    <3>5. step[i][w] = [w EXCEPT !.value = PieceAt(text, i) \o <<" ">> \o @]
      BY <2>1, <3>3
    <3>6. read(i) = [w EXCEPT !.value = PieceAt(text, i) \o <<" ">> \o @]
      BY <3>1, <3>3, Zenon
    <3>7. g[i] = f[i]
      OBVIOUS
    <3> QED
      BY <3>4, <3>5, <3>6, <3>7, Zenon
  <2> QED
    BY <2>3, <2>4
<1>8. g = [i \in begin .. N |-> read(i)]
  <2> HIDE DEF read
  <2> QED
    BY <1>7
<1> HIDE DEF g
<1>9. IsContent(g, text, begin)
  BY <1>8, Zenon DEF IsContent, n
<1> QED
  BY <1>9
\* The value of a field, and where the next field is.
LEMMA ContentTyped ==
    ASSUME NEW S, NEW text \in Seq(S), HasBlank(S), NEW begin \in 1 .. Len(text) + 1
    PROVE  /\ parseFieldContent(text, begin).value \in Seq(S)
           /\ parseFieldContent(text, begin).next \in 1 .. Len(text) + 1
<1> DEFINE g == CHOOSE f : IsContent(f, text, begin)
           n == Len(text)
           N == n + 1
           V == Contents(S, n)
           T == {i \in 1 .. N : i >= begin => g[i] \in V}
<1>1. n \in Nat
  OBVIOUS
<1>2. \A i \in begin .. N :
         g[i] = IF ContinuesAt(text, i)
                THEN [g[PieceEnd(text, i) + 3] EXCEPT !.value = PieceAt(text, i) \o <<" ">> \o @]
                ELSE [value |-> PieceAt(text, i), next |-> PieceEnd(text, i)]
  <2>1. IsContent(g, text, begin)
    BY ContentExists, Zenon
  <2> HIDE DEF g
  <2> QED
    BY <2>1, Zenon DEF IsContent
<1>3. parseFieldContent(text, begin) = g[begin] /\ begin \in 1 .. N
  BY ContentIs, Zenon
<1>4. \A i \in 1 .. N : /\ PieceEnd(text, i) \in i .. N /\ PieceAt(text, i) \in Seq(S)
                        /\ ContinuesAt(text, i) => PieceEnd(text, i) + 3 \in i + 1 .. N
  BY PieceTyped
<1> HIDE DEF g, n
<1>5. ASSUME NEW i \in 1 .. N, \A k \in i + 1 .. N : k \in T PROVE i \in T
  <2> SUFFICES ASSUME i >= begin PROVE g[i] \in V
    OBVIOUS
  <2>1. i \in begin .. N
    BY <1>1, <1>3
  <2>2. CASE ContinuesAt(text, i)
    <3> DEFINE w == g[PieceEnd(text, i) + 3]
    <3>1. PieceEnd(text, i) + 3 \in i + 1 .. N /\ PieceEnd(text, i) + 3 >= begin
      BY <1>1, <1>3, <1>4, <2>1, <2>2
    <3>2. w \in V
      BY <1>5, <3>1
    <3>3. g[i] = [w EXCEPT !.value = PieceAt(text, i) \o <<" ">> \o @]
      BY <1>2, <2>1, <2>2, Zenon
    <3> HIDE DEF w
    <3>4. PieceAt(text, i) \in Seq(S)
      BY <1>4
    <3>5. [w EXCEPT !.value = PieceAt(text, i) \o <<" ">> \o @] \in V
      BY <3>2, <3>4, PrefixedContent
    <3> QED
      BY <3>3, <3>5, Zenon
  <2>3. CASE ~ContinuesAt(text, i)
    <3>1. g[i] = [value |-> PieceAt(text, i), next |-> PieceEnd(text, i)]
      BY <1>2, <2>1, <2>3, Zenon
    <3>2. PieceEnd(text, i) \in 1 .. n + 1 /\ PieceAt(text, i) \in Seq(S)
      BY <1>1, <1>4
    <3> QED
      BY <3>1, <3>2 DEF Contents
  <2> QED
    BY <2>2, <2>3
<1>6. N \in Nat /\ \A i \in 1 .. N : (\A k \in i + 1 .. N : k \in T) => i \in T
  BY <1>1, <1>5
<1>7. \A i \in 1 .. N : i \in T
  <2> HIDE DEF T, N
  <2> QED
    BY <1>6, DownTo
<1>8. g[begin] \in V
  BY <1>3, <1>7
<1> QED
  BY <1>3, <1>8 DEF Contents, n

\* The first places behind the status line and behind a field.
LEMMA StatusLineTyped ==
    ASSUME NEW text \in Seq(TextChars), parseStatusLine(text) # 0
    PROVE  parseStatusLine(text) \in 1 .. Len(text) + 1
<1> DEFINE reason == parseStatusCode(text, parseVersion(text) + 1)
           end == parseReasonPhrase(text, reason + 1)
<1>1. CharAt(text, reason, {" "}) /\ LineEnds(text, end) /\ parseStatusLine(text) = end + 2
  BY Zenon DEF parseStatusLine
<1>5. parseStatusLine(text) = end + 2
  BY <1>1, Zenon
<1>2. reason \in 1 .. Len(text) /\ Len(text) \in Nat
  <2>1. reason \in DOMAIN text
    BY <1>1, Zenon DEF CharAt
  <2> HIDE DEF reason
  <2> QED
    BY <2>1
<1>3. end < Len(text)
  BY <1>1, Zenon DEF LineEnds
<1> HIDE DEF reason
<1>4. end \in reason + 1 .. Len(text) + 1
  <2>1. reason + 1 \in 1 .. Len(text) + 1
    BY <1>2
  <2> QED
    BY <2>1, RunEndBounds DEF parseReasonPhrase
<1> HIDE DEF end
<1> QED
  BY <1>2, <1>3, <1>4, <1>5

\* The place behind a field, and its value.
LEMMA HeaderFieldTyped ==
    ASSUME NEW text \in Seq(TextChars), parseHeaderField(text).next # 0
    PROVE  /\ parseHeaderField(text).next \in 1 .. Len(text) + 1
           /\ parseHeaderField(text).field.value \in Seq(TextChars)
<1> DEFINE nameEnd == parseToken(text)
           start == RunEnd(text, nameEnd + 1, WhiteSpace)
           content == parseFieldContent(text, start)
           r == parseHeaderField(text)
<1>1. /\ CharAt(text, nameEnd, {":"}) /\ LineEnds(text, content.next)
      /\ r = [field |-> Field(ToLower(SubSeq(text, 1, nameEnd - 1)), content.value), next |-> content.next + 2]
  <2>1. r = IF CharAt(text, nameEnd, {":"})
            THEN IF LineEnds(text, content.next)
                 THEN [field |-> Field(ToLower(SubSeq(text, 1, nameEnd - 1)), content.value),
                       next |-> content.next + 2]
                 ELSE [field |-> Field(<<>>, <<>>), next |-> 0]
            ELSE [field |-> Field(<<>>, <<>>), next |-> 0]
    BY Zenon DEF parseHeaderField
  <2>2. \A f : [field |-> f, next |-> 0].next = 0
    OBVIOUS
  <2> HIDE DEF nameEnd, start, content
  <2> QED
    BY <2>1, <2>2, Zenon
<1>2. nameEnd \in 1 .. Len(text) /\ Len(text) \in Nat
  <2>1. nameEnd \in DOMAIN text
    BY <1>1, Zenon DEF CharAt
  <2> HIDE DEF nameEnd
  <2> QED
    BY <2>1
<1> HIDE DEF nameEnd
<1>3. start \in 1 .. Len(text) + 1
  <2>1. nameEnd + 1 \in 1 .. Len(text) + 1
    BY <1>2
  <2>2. start \in nameEnd + 1 .. Len(text) + 1
    BY <2>1, RunEndBounds
  <2> HIDE DEF start
  <2> QED
    BY <1>2, <2>2
<1> HIDE DEF start
<1>4. content.value \in Seq(TextChars) /\ content.next \in 1 .. Len(text) + 1
  <2>1. HasBlank(TextChars)
    BY WrittenChars, Zenon DEF HasBlank
  <2> QED
    BY <1>3, <2>1, ContentTyped
<1>5. content.next < Len(text)
  BY <1>1, Zenon DEF LineEnds
<1> HIDE DEF content, r
<1>6. r.next = content.next + 2 /\ r.field.value = content.value
  BY <1>1 DEF Field
<1>7. r.next \in 1 .. Len(text) + 1 /\ r.field.value \in Seq(TextChars)
  BY <1>2, <1>4, <1>5, <1>6
<1> QED
  BY <1>7 DEF r

\* The function that the fold over digits is taken from.
IsDigitFold(f, base, s) ==
    f = [t \in SUBSET DOMAIN s |->
           IF t = {} THEN base ELSE AddDigit(f[t \ {Max(t)}], s[Max(t)])]

\* The fold over digits is its value at the set of all indices.
LEMMA DigitFold ==
  ASSUME NEW base, NEW s
  PROVE  FoldLeft(AddDigit, base, s) = (CHOOSE f : IsDigitFold(f, base, s))[DOMAIN s]
  BY DEF FoldLeft, MapThenFoldSet, IsDigitFold

\* There is such a function, as for the runs of the header parser.
LEMMA DigitFoldExists ==
  ASSUME NEW base, NEW N \in Nat, NEW s, DOMAIN s = 1 .. N
  PROVE  \E f : IsDigitFold(f, base, s)
<1> DEFINE IsPart(f, k) == f = [t \in SUBSET (1 .. k) |->
                             IF t = {} THEN base ELSE AddDigit(f[t \ {Max(t)}], s[Max(t)])]
           T == {k \in 0 .. N : \E f : IsPart(f, k)}
<1>1. 0 \in T
  <2>1. SUBSET (1 .. 0) = {{}} /\ 0 \in 0 .. N
    OBVIOUS
  <2>2. IsPart([t \in SUBSET (1 .. 0) |-> base], 0)
    BY <2>1, Zenon
  <2> QED
    BY <2>1, <2>2
<1>2. ASSUME NEW k \in 0 .. N - 1, k \in T PROVE k + 1 \in T
  <2>1. PICK f : IsPart(f, k)
    BY <1>2
  <2> DEFINE g == [t \in SUBSET (1 .. k + 1) |->
                     IF k + 1 \in t THEN AddDigit(f[t \ {k + 1}], s[k + 1]) ELSE f[t]]
  <2>2. ASSUME NEW t \in SUBSET (1 .. k + 1)
        PROVE  g[t] = IF t = {} THEN base ELSE AddDigit(g[t \ {Max(t)}], s[Max(t)])
    <3>1. CASE k + 1 \in t
      <4>1. Max(t) = k + 1
        BY <3>1, MaxOfUpTo
      <4>2. t \ {k + 1} \in SUBSET (1 .. k) /\ t \ {k + 1} \in SUBSET (1 .. k + 1) /\ t # {}
            /\ k + 1 \notin t \ {k + 1}
        BY <3>1
      <4>3. g[t \ {k + 1}] = f[t \ {k + 1}]
        BY <4>2
      <4>4. g[t] = AddDigit(f[t \ {k + 1}], s[k + 1])
        BY <3>1
      <4> QED
        BY <4>1, <4>2, <4>3, <4>4, Zenon
    <3>2. CASE k + 1 \notin t
      <4>1. t \in SUBSET (1 .. k)
        BY <3>2
      <4>2. g[t] = f[t]
        BY <3>2
      <4>3. f[t] = IF t = {} THEN base ELSE AddDigit(f[t \ {Max(t)}], s[Max(t)])
        BY <2>1, <4>1
      <4>4. t \ {Max(t)} \in SUBSET (1 .. k + 1) /\ k + 1 \notin t \ {Max(t)}
        BY <3>2
      <4>5. g[t \ {Max(t)}] = f[t \ {Max(t)}]
        BY <4>4, Zenon
      <4> QED
        BY <4>2, <4>3, <4>5, Zenon
    <3> QED
      BY <3>1, <3>2
  <2>3. IsPart(g, k + 1)
    BY <2>2
  <2>4. k + 1 \in 0 .. N
    OBVIOUS
  <2> HIDE DEF g
  <2> QED
    BY <2>3, <2>4
<1> HIDE DEF T
<1>3. N \in T
  <2>1. \A k \in 0 .. (N - 1) : k \in T => k + 1 \in T
    BY <1>2
  <2>2. 0 .. N \subseteq T
    BY <1>1, <2>1, UpTo
  <2> QED
    BY <2>2
<1> QED
  BY <1>3 DEF T, IsDigitFold

\* f[k] is the sum after k digits.
DigitSteps(f, base, s, N) ==
    /\ f[0] = base
    /\ \A k \in 0 .. N - 1 : f[k + 1] = AddDigit(f[k], s[k + 1])
    /\ FoldLeft(AddDigit, base, s) = f[N]

\* The digits are added one after the other.
LEMMA DigitFoldSteps ==
  ASSUME NEW base, NEW N \in Nat, NEW s, DOMAIN s = 1 .. N
  PROVE  \E f : DigitSteps(f, base, s, N)
<1> DEFINE g == CHOOSE f : IsDigitFold(f, base, s)
           f == [k \in 0 .. N |-> g[1 .. k]]
<1>1. IsDigitFold(g, base, s)
  BY DigitFoldExists
<1>2. FoldLeft(AddDigit, base, s) = g[1 .. N]
  BY DigitFold
<1>3. \A t \in SUBSET (1 .. N) :
         g[t] = IF t = {} THEN base ELSE AddDigit(g[t \ {Max(t)}], s[Max(t)])
  <2> HIDE DEF g
  <2> QED
    BY <1>1 DEF IsDigitFold
<1> HIDE DEF g
<1>4. f[0] = base
  <2>1. 1 .. 0 = {} /\ {} \in SUBSET (1 .. N) /\ 0 \in 0 .. N
    OBVIOUS
  <2>2. f[0] = g[1 .. 0]
    BY <2>1
  <2> QED
    BY <1>3, <2>1, <2>2, Zenon
<1>5. ASSUME NEW k \in 0 .. N - 1
      PROVE  f[k + 1] = AddDigit(f[k], s[k + 1])
  <2>1. k + 1 \in 1 .. k + 1 /\ 1 .. k + 1 \in SUBSET (1 .. k + 1)
    OBVIOUS
  <2>2. Max(1 .. k + 1) = k + 1
    BY <2>1, MaxOfUpTo
  <2>3. 1 .. k + 1 \in SUBSET (1 .. N) /\ 1 .. k + 1 # {}
    BY <2>1
  <2>4. (1 .. k + 1) \ {k + 1} = 1 .. k
    OBVIOUS
  <2>5. g[1 .. k + 1] = AddDigit(g[1 .. k], s[k + 1])
    BY <1>3, <2>2, <2>3, <2>4, Zenon
  <2>6. k \in 0 .. N /\ k + 1 \in 0 .. N
    OBVIOUS
  <2> QED
    BY <2>5, <2>6, Zenon
<1>6. FoldLeft(AddDigit, base, s) = f[N]
  BY <1>2
<1> HIDE DEF f
<1> QED
  BY <1>4, <1>5, <1>6 DEF DigitSteps

\* A length is a number that a size_t holds.
LEMMA LengthTyped ==
    ASSUME NEW S, NEW digits \in Seq(S)
    PROVE  stringToUint(digits) \in 0 .. 2^SizeBits - 1
<1> DEFINE M == 2^SizeBits
           N == Len(digits)
<1>1. M \in Nat /\ M > 0
  BY TextAssumption
<1>2. N \in Nat /\ DOMAIN digits = 1 .. N
  OBVIOUS
<1>3. \A sum \in Nat : \A c : AddDigit(sum, c) \in 0 .. M - 1
  <2> SUFFICES ASSUME NEW sum \in Nat, NEW c PROVE AddDigit(sum, c) \in 0 .. M - 1
    OBVIOUS
  <2> DEFINE d == 10 * sum + digitToUint(c)
  <2>1. digitToUint(c) \in 0 .. 1
    BY DEF digitToUint
  <2>2. d \in Nat
    BY <2>1
  <2>3. AddDigit(sum, c) = d % M
    BY DEF AddDigit
  <2> HIDE DEF d, M
  <2> QED
    BY <1>1, <2>2, <2>3
<1>4. PICK f : DigitSteps(f, 0, digits, N)
  <2> HIDE DEF N
  <2> QED
    BY <1>2, DigitFoldSteps, Zenon
<1>5. /\ f[0] = 0 /\ \A k \in 0 .. N - 1 : f[k + 1] = AddDigit(f[k], digits[k + 1])
      /\ stringToUint(digits) = f[N]
  BY <1>4 DEF DigitSteps, stringToUint
<1> HIDE DEF M, N
<1> DEFINE T == {k \in 0 .. N : f[k] \in 0 .. M - 1}
<1>6. 0 \in T
  BY <1>1, <1>2, <1>5
<1>7. ASSUME NEW k \in 0 .. (N - 1), k \in T PROVE k + 1 \in T
  <2>1. f[k] \in Nat /\ k + 1 \in 0 .. N
    BY <1>1, <1>2, <1>7
  <2> QED
    BY <1>3, <1>5, <2>1
<1> HIDE DEF T
<1>8. N \in T
  <2>1. \A k \in 0 .. (N - 1) : k \in T => k + 1 \in T
    BY <1>7
  <2>2. 0 .. N \subseteq T
    BY <1>2, <1>6, <2>1, UpTo
  <2> QED
    BY <1>2, <2>2
<1> QED
  BY <1>5, <1>8 DEF T, M

\* The code of a character is a byte.
LEMMA ByteTyped == \A c : ByteOf(c) \in 0 .. 255
  BY DEF ByteOf

\* The four indices of a group are indices of the alphabet, or padding.
Indices(a, b, c, second, third) ==
    <<a \div 4, (a % 4) * 16 + b \div 16,
      IF ~second THEN Pad ELSE (b % 16) * 4 + c \div 64, IF ~third THEN Pad ELSE c % 64>>

\* They are, for three bytes.
LEMMA GroupTyped ==
    ASSUME NEW a \in 0 .. 255, NEW b \in 0 .. 255, NEW c \in 0 .. 255, NEW second \in BOOLEAN, NEW third \in BOOLEAN
    PROVE  Indices(a, b, c, second, third) \in Seq(Pad .. 63)
<1>1. a \div 4 \in 0 .. 63 /\ a % 4 \in 0 .. 3 /\ b \div 16 \in 0 .. 15 /\ b % 16 \in 0 .. 15 /\ c \div 64 \in 0 .. 3 /\ c % 64 \in 0 .. 63
  OBVIOUS
<1> DEFINE p == a \div 4
           q == a % 4
           r == b \div 16
           s == b % 16
           t == c \div 64
           u == c % 64
<1>2. p \in 0 .. 63 /\ q \in 0 .. 3 /\ r \in 0 .. 15 /\ s \in 0 .. 15 /\ t \in 0 .. 3 /\ u \in 0 .. 63
  BY <1>1
<1>3. Indices(a, b, c, second, third) =
        <<p, q * 16 + r, IF ~second THEN Pad ELSE s * 4 + t, IF ~third THEN Pad ELSE u>>
  BY DEF Indices
<1> HIDE DEF p, q, r, s, t, u
<1>4. q * 16 + r \in 0 .. 63 /\ s * 4 + t \in 0 .. 63
  BY <1>2
<1>5. /\ p \in Pad .. 63 /\ q * 16 + r \in Pad .. 63
      /\ (IF ~second THEN Pad ELSE s * 4 + t) \in Pad .. 63 /\ (IF ~third THEN Pad ELSE u) \in Pad .. 63
  BY <1>2, <1>4 DEF Pad
<1> DEFINE x == IF ~second THEN Pad ELSE s * 4 + t
           y == IF ~third THEN Pad ELSE u
<1>6. p \in Pad .. 63 /\ q * 16 + r \in Pad .. 63 /\ x \in Pad .. 63 /\ y \in Pad .. 63
  BY <1>5
<1>7. Indices(a, b, c, second, third) = <<p, q * 16 + r, x, y>>
  BY <1>3
<1> HIDE DEF x, y
<1> QED
  BY <1>6, <1>7

\* The credentials are such indices.
LEMMA CredentialsTyped ==
    ASSUME NEW bytes \in Seq(0 .. 255)
    PROVE  encodeBase64(bytes) \in Seq(Pad .. 63)
<1> DEFINE n == Len(bytes)
           at(i) == IF i <= n THEN bytes[i] ELSE 0
           N == (n + 2) \div 3
           group(i) == Indices(at(i), at(i + 1), at(i + 2), i + 1 <= n, i + 2 <= n)
           groups == [g \in 1 .. N |-> group(3 * g - 2)]
<1>1. n \in Nat /\ N \in Nat
  OBVIOUS
<1>2. encodeBase64(bytes) = FlattenSeq(groups)
  <2>1. \A i \in Int : (i + 1 > n <=> ~(i + 1 <= n)) /\ (i + 2 > n <=> ~(i + 2 <= n))
    BY <1>1
  <2>2. \A g \in 1 .. N : 3 * g - 2 \in Int
    BY <1>1
  <2> QED
    BY <2>1, <2>2 DEF encodeBase64, Indices
<1>3. ASSUME NEW i \in Nat \ {0} PROVE at(i) \in 0 .. 255
  <2>1. CASE i <= n
    <3>1. bytes[i] \in 0 .. 255
      <4>1. i \in 1 .. Len(bytes)
        BY <1>1, <2>1
      <4> QED
        BY <4>1, ElementOfSeq
    <3> QED
      BY <2>1, <3>1
  <2>2. CASE ~(i <= n)
    BY <2>2
  <2> QED
    BY <2>1, <2>2
<1> HIDE DEF at, n
<1>4. ASSUME NEW i \in Nat \ {0} PROVE group(i) \in Seq(Pad .. 63)
  <2>1. at(i) \in 0 .. 255 /\ at(i + 1) \in 0 .. 255 /\ at(i + 2) \in 0 .. 255
    BY <1>3
  <2>2. (i + 1 <= n) \in BOOLEAN /\ (i + 2 <= n) \in BOOLEAN
    BY <1>1
  <2> QED
    BY <2>1, <2>2, GroupTyped
<1> HIDE DEF group, N
<1>5. groups \in Seq(Seq(Pad .. 63))
  <2>1. \A g \in 1 .. N : 3 * g - 2 \in Nat \ {0}
    BY <1>1
  <2>2. groups \in [1 .. N -> Seq(Pad .. 63)]
    BY <1>4, <2>1
  <2> HIDE DEF groups
  <2> QED
    BY <1>1, <2>2, FunctionIsSequence
<1> QED
  BY <1>2, <1>5, FlattenSeqType

\* Small letters for capitals.
LEMMA LowerTyped ==
    ASSUME NEW text \in Seq(TextChars)
    PROVE  ToLower(text) \in Seq(TextChars)
<1>1. "x" \in TextChars
  BY Zenon DEF TextChars, FieldChars, VisibleChars, TokenChars, Alpha
<1> DEFINE n == Len(text)
           low == ToLower(text)
<1>2. n \in Nat /\ text \in [1 .. n -> TextChars]
  OBVIOUS
<1>3. low = [i \in DOMAIN text |-> IF text[i] = "X" THEN "x" ELSE text[i]]
  BY DEF ToLower
<1> HIDE DEF n, low
<1>4. DOMAIN text = 1 .. n /\ \A i \in 1 .. n : text[i] \in TextChars
  BY <1>2
<1>5. \A i \in 1 .. n : (IF text[i] = "X" THEN "x" ELSE text[i]) \in TextChars
  BY <1>1, <1>4, Zenon
<1>6. low \in [1 .. n -> TextChars]
  BY <1>3, <1>4, <1>5, Zenon
<1>7. low \in Seq(TextChars)
  BY <1>2, <1>6, FunctionIsSequence
<1> QED
  BY <1>7 DEF low

\* TextFields of requests and of responses.
TextFields == [name : Seq(TextChars), value : Seq(TextChars)]

\* The parts of a URI.
UriTyped(uri) ==
    /\ DOMAIN uri = {"scheme", "user", "password", "host", "port", "path", "query", "fragment"}
    /\ \A part \in DOMAIN uri : uri[part] \in Seq(TextChars)

\* What is sent are the fields of the caller and two of the library.
LEMMA AllFieldsTyped ==
    ASSUME NEW uri, UriTyped(uri), NEW fields \in HeaderLists, NEW size \in BodySizes
    PROVE  AllFields(uri, fields, size) \in Seq(TextFields)
<1>1. fields \in Seq(TextFields) /\ size \in Seq(TextChars)
  BY TextAssumption, PartsOfTexts, SeqGrows DEF TextFields
<1>2. uri.host \in Seq(TextChars)
  BY Zenon DEF UriTyped
<1>3. <<"host">> \in Seq(TextChars) /\ <<"length">> \in Seq(TextChars)
  BY WrittenChars, ShortTexts, Zenon
<1>4. Field(<<"host">>, uri.host) \in TextFields /\ Field(<<"length">>, size) \in TextFields
  BY <1>1, <1>2, <1>3, Zenon DEF Field, TextFields
<1>5. <<Field(<<"host">>, uri.host), Field(<<"length">>, size)>> \in Seq(TextFields)
  BY <1>4, ShortTexts, Zenon
<1>6. fields \o <<Field(<<"host">>, uri.host), Field(<<"length">>, size)>> \in Seq(TextFields)
  BY <1>1, <1>5, ConcatProperties, Zenon
<1> QED
  BY <1>6, Zenon DEF AllFields

\* The characters of a request that is sent.
WireChars == TextChars \cup {"method"}

\* What is written is a text, but for the word that stands for the method.
LEMMA WireTyped ==
    ASSUME NEW uri, UriTyped(uri), NEW fields \in Seq(TextFields)
    PROVE  encodeRequestLine(Target(uri)) \o encodeHeaderFields(fields) \o <<"CR", "LF">> \in Seq(WireChars)
<1> DEFINE S == WireChars
           lines == [i \in DOMAIN fields |-> Line(fields[i].name \o <<":", " ">> \o fields[i].value)]
<1>1. TextChars \subseteq S /\ Seq(TextChars) \subseteq Seq(S)
  BY SeqGrows DEF WireChars
<1>2. uri.path \in Seq(S) /\ uri.query \in Seq(S)
  <2>1. uri.path \in Seq(TextChars) /\ uri.query \in Seq(TextChars)
    BY Zenon DEF UriTyped
  <2> QED
    BY <1>1, <2>1
<1>3. /\ "HTTP/" \in S /\ "1" \in S /\ "." \in S /\ " " \in S /\ ":" \in S /\ "?" \in S
      /\ "CR" \in S /\ "LF" \in S /\ "method" \in S
  BY WrittenChars, Zenon DEF WireChars
<1>4. /\ <<"?">> \in Seq(S) /\ <<>> \in Seq(S) /\ <<"method", " ">> \in Seq(S)
      /\ <<":", " ">> \in Seq(S) /\ <<"CR", "LF">> \in Seq(S)
      /\ <<" ", "HTTP/", "1", ".", "1">> \in Seq(S)
  BY <1>3, ShortTexts, Zenon
<1>5. Target(uri) \in Seq(S)
  <2>1. <<"?">> \o uri.query \in Seq(S)
    BY <1>2, <1>4, ConcatProperties, Zenon
  <2>2. (IF uri.query = <<>> THEN <<>> ELSE <<"?">> \o uri.query) \in Seq(S)
    BY <1>4, <2>1, Zenon
  <2> QED
    BY <1>2, <2>2, ConcatProperties, Zenon DEF Target
<1>6. encodeRequestLine(Target(uri)) \in Seq(S)
  <2>1. <<"method", " ">> \o Target(uri) \o <<" ", "HTTP/", "1", ".", "1">> \in Seq(S)
    BY <1>4, <1>5, ConcatProperties, Zenon
  <2> QED
    BY <1>1, <2>1, LineTyped, Zenon DEF encodeRequestLine
<1>7. ASSUME NEW i \in DOMAIN fields PROVE lines[i] \in Seq(S)
  <2>1. fields[i].name \in Seq(S) /\ fields[i].value \in Seq(S)
    <3>1. fields[i] \in TextFields
      OBVIOUS
    <3>2. fields[i].name \in Seq(TextChars) /\ fields[i].value \in Seq(TextChars)
      BY <3>1 DEF TextFields
    <3> QED
      BY <1>1, <3>2
  <2>2. fields[i].name \o <<":", " ">> \o fields[i].value \in Seq(S)
    BY <1>4, <2>1, ConcatProperties, Zenon
  <2>3. Line(fields[i].name \o <<":", " ">> \o fields[i].value) \in Seq(S)
    BY <1>1, <2>2, LineTyped, Zenon
  <2> QED
    BY <2>3, Zenon
<1>8. encodeHeaderFields(fields) \in Seq(S)
  <2>1. lines = [i \in DOMAIN fields |-> lines[i]]
    BY Zenon
  <2>2. encodeHeaderFields(fields) = FlattenSeq(lines)
    BY Zenon DEF encodeHeaderFields
  <2> HIDE DEF lines
  <2> QED
    BY <1>7, <2>1, <2>2, EachTyped
<1>9. encodeRequestLine(Target(uri)) \o encodeHeaderFields(fields) \in Seq(S)
  BY <1>6, <1>8, ConcatProperties, Zenon
<1> QED
  BY <1>4, <1>9, ConcatProperties, Zenon

\* The credentials are those of a user.
LEMMA UserTyped ==
    ASSUME NEW uri, UriTyped(uri)
    PROVE  encodeBase64(UserBytes(uri)) \in Seq(Pad .. 63)
<1> DEFINE info == uri.user \o <<":">> \o uri.password
           n == Len(info)
           bytes == UserBytes(uri)
<1>1. info \in Seq(TextChars)
  <2>1. uri.user \in Seq(TextChars) /\ uri.password \in Seq(TextChars)
    BY Zenon DEF UriTyped
  <2>2. <<":">> \in Seq(TextChars)
    BY WrittenChars, ShortTexts, Zenon
  <2> QED
    BY <2>1, <2>2, ConcatProperties, Zenon
<1>2. bytes = [i \in DOMAIN info |-> ByteOf(info[i])]
  BY Zenon DEF UserBytes
<1> HIDE DEF info, bytes
<1>3. n \in Nat /\ DOMAIN info = 1 .. n
  BY <1>1
<1> HIDE DEF n
<1>4. bytes \in [1 .. n -> 0 .. 255]
  BY <1>2, <1>3, ByteTyped
<1>5. bytes \in Seq(0 .. 255)
  BY <1>3, <1>4, FunctionIsSequence
<1>6. encodeBase64(bytes) \in Seq(Pad .. 63)
  BY <1>5, CredentialsTyped
<1> QED
  BY <1>6 DEF bytes

\* The characters in each phase, and the shapes of the URI and of the fields.
TextInv ==
    /\ rt_pc \in {"typing", "parsed", "encoded", "status", "header", "read", "threw"}
    /\ rt_text \in Seq(WireChars)
    /\ rt_pc \in {"typing", "parsed", "status", "header"} => rt_text \in Seq(TextChars)
    /\ UriTyped(rt_uri)
    /\ rt_fields \in Seq(TextFields)
    /\ rt_credentials \in Seq(Pad .. 63)
    /\ rt_length \in -1 .. 2^SizeBits - 1

\* It is the type invariant, and more.
LEMMA TextTypesFollow == TextInv => TextTypeOK
<1> SUFFICES ASSUME TextInv PROVE TextTypeOK
  OBVIOUS
<1>1. \A i \in DOMAIN rt_fields : rt_fields[i].value \in Seq(TextChars)
  <2> SUFFICES ASSUME NEW i \in DOMAIN rt_fields PROVE rt_fields[i].value \in Seq(TextChars)
    OBVIOUS
  <2>1. rt_fields[i] \in TextFields
    BY DEF TextInv
  <2> QED
    BY <2>1 DEF TextFields
<1>2. \A i \in DOMAIN rt_credentials : rt_credentials[i] \in Pad .. 63
  <2>1. ASSUME NEW S, NEW s \in Seq(S) PROVE \A i \in DOMAIN s : s[i] \in S
    OBVIOUS
  <2>2. rt_credentials \in Seq(Pad .. 63)
    BY DEF TextInv
  <2> QED
    BY <2>1, <2>2, Zenon
<1> QED
  BY <1>1, <1>2, Zenon DEF TextInv, TextTypeOK, UriTyped, WireChars

\* No part, no field and no credentials yet.
LEMMA InitTextInv == TextInit => TextInv
<1> SUFFICES ASSUME TextInit PROVE TextInv
  OBVIOUS
<1>1. rt_text \in Seq(TextChars)
  <2>1. CASE rt_text \in UriStarts
    BY <2>1, TextAssumption
  <2>2. CASE rt_response \in Responses /\ rt_text = HeaderText(rt_response)
    BY <2>2, HeaderTextTyped
  <2> QED
    BY <2>1, <2>2, Zenon DEF TextInit
<1>2. rt_text \in Seq(WireChars)
  BY <1>1, SeqGrows DEF WireChars
<1>3. UriTyped(rt_uri)
  <2>1. <<>> \in Seq(TextChars)
    OBVIOUS
  <2>2. rt_uri = NoUri
    BY DEF TextInit
  <2>3. DOMAIN NoUri = {"scheme", "user", "password", "host", "port", "path", "query", "fragment"}
    BY DEF NoUri
  <2>4. \A part \in DOMAIN NoUri : NoUri[part] = <<>>
    BY DEF NoUri
  <2> QED
    BY <2>1, <2>2, <2>3, <2>4, Zenon DEF UriTyped
<1>4. rt_fields \in Seq(TextFields) /\ rt_credentials \in Seq(Pad .. 63)
  BY DEF TextInit
<1>5. rt_length \in -1 .. 2^SizeBits - 1
  <2>1. rt_length = -1
    BY DEF TextInit
  <2>2. 2^SizeBits \in Int /\ 2^SizeBits > 0
    BY TextAssumption
  <2> QED
    BY <2>1, <2>2
<1>6. rt_pc \in {"typing", "status"}
  BY DEF TextInit
<1> QED
  BY <1>1, <1>2, <1>3, <1>4, <1>5, <1>6, Zenon DEF TextInv

\* A field that is read is one.
LEMMA FieldRead ==
    ASSUME NEW text \in Seq(TextChars), parseHeaderField(text).next # 0
    PROVE  parseHeaderField(text).field \in TextFields
<1> DEFINE nameEnd == parseToken(text)
           start == RunEnd(text, nameEnd + 1, WhiteSpace)
           content == parseFieldContent(text, start)
           r == parseHeaderField(text)
           name == ToLower(SubSeq(text, 1, nameEnd - 1))
<1>1. CharAt(text, nameEnd, {":"}) /\ r.field = Field(name, content.value)
  <2>1. r = IF CharAt(text, nameEnd, {":"})
            THEN IF LineEnds(text, content.next)
                 THEN [field |-> Field(name, content.value), next |-> content.next + 2]
                 ELSE [field |-> Field(<<>>, <<>>), next |-> 0]
            ELSE [field |-> Field(<<>>, <<>>), next |-> 0]
    BY Zenon DEF parseHeaderField
  <2>2. \A f, to : [field |-> f, next |-> to].next = to /\ [field |-> f, next |-> to].field = f
    OBVIOUS
  <2> HIDE DEF nameEnd, start, content, name
  <2> QED
    BY <2>1, <2>2, Zenon
<1>2. nameEnd - 1 \in 0 .. Len(text) /\ 1 \in 1 .. Len(text) + 1
  <2>1. nameEnd \in DOMAIN text
    BY <1>1, Zenon DEF CharAt
  <2> HIDE DEF nameEnd
  <2> QED
    BY <2>1
<1> HIDE DEF nameEnd, start
<1>3. name \in Seq(TextChars)
  <2>1. SubSeq(text, 1, nameEnd - 1) \in Seq(TextChars)
    BY <1>2, Stretch
  <2> QED
    BY <2>1, LowerTyped
<1>4. content.value \in Seq(TextChars)
  <2>1. r.field.value \in Seq(TextChars)
    BY HeaderFieldTyped
  <2>2. r.field.value = content.value
    <3> HIDE DEF content, r, name
    <3>1. r.field = Field(name, content.value)
      BY <1>1, Zenon
    <3> QED
      BY <3>1 DEF Field
  <2> QED
    BY <2>1, <2>2
<1> HIDE DEF content, name, r
<1>5. r.field = Field(name, content.value)
  BY <1>1, Zenon
<1>6. r.field \in TextFields
  BY <1>3, <1>4, <1>5 DEF Field, TextFields
<1> QED
  BY <1>6 DEF r

\* What is left behind a place is a text.
LEMMA RestTyped ==
    ASSUME NEW text \in Seq(TextChars), NEW to \in 1 .. Len(text) + 1
    PROVE  SubSeq(text, to, Len(text)) \in Seq(TextChars)
<1>1. Len(text) \in 0 .. Len(text)
  OBVIOUS
<1> QED
  BY <1>1, Stretch

\* Every step keeps the types of the texts.
LEMMA StepTextInv == TextInv /\ [TextNext]_textVars => TextInv'
<1> SUFFICES ASSUME TextInv, [TextNext]_textVars PROVE TextInv'
  OBVIOUS
<1>0. Seq(TextChars) \subseteq Seq(WireChars)
  BY SeqGrows DEF WireChars
<1>1. CASE TypeUri
  <2>1. PICK c \in UriTail : rt_text' = Append(rt_text, c)
    BY <1>1 DEF TypeUri
  <2>2. rt_text \in Seq(TextChars) /\ c \in TextChars
    BY <1>1 DEF TypeUri, TextInv, UriTail, TextChars, FieldChars, WhiteSpace, VisibleChars, TokenChars, Alpha
  <2>3. rt_text' \in Seq(TextChars)
    BY <2>1, <2>2, AppendProperties
  <2>4. UNCHANGED <<rt_pc, rt_uri, rt_fields, rt_credentials, rt_response, rt_length>>
    BY <1>1 DEF TypeUri
  <2> QED
    BY <1>0, <2>3, <2>4 DEF TextInv, UriTyped
<1>2. CASE ParseUri
  <2>1. /\ rt_text \in Seq(TextChars) /\ rt_pc' \in {"parsed", "threw"}
        /\ UNCHANGED <<rt_text, rt_fields, rt_credentials, rt_response, rt_length>>
    BY <1>2 DEF ParseUri, TextInv
  <2>2. UriTyped(rt_uri')
    <3>1. CASE HasScheme(rt_text)
      <4>1. rt_uri' = parseUri(rt_text)
        BY <1>2, <3>1 DEF ParseUri
      <4> QED
        BY <2>1, <3>1, <4>1, PartsJoin, ParseUriFields, Zenon DEF UriTyped
    <3>2. CASE ~HasScheme(rt_text)
      BY <1>2, <3>2, Zenon DEF ParseUri, TextInv
    <3> QED
      BY <3>1, <3>2
  <2> QED
    BY <2>1, <2>2, Zenon DEF TextInv, UriTyped
<1>3. CASE EncodeRequest
  <2>1. PICK fields \in HeaderLists, size \in BodySizes :
           LET all == AllFields(rt_uri, fields, size) IN
           IF rt_uri.scheme # <<"http">> \/ \E i \in DOMAIN all : ~Encodable(all[i])
           THEN rt_pc' = "threw" /\ UNCHANGED <<rt_text, rt_fields, rt_credentials>>
           ELSE /\ rt_pc' = "encoded" /\ rt_fields' = all
                /\ rt_text' = encodeRequestLine(Target(rt_uri)) \o encodeHeaderFields(all)
                              \o <<"CR", "LF">>
                /\ rt_credentials' = IF HasUser(rt_uri) THEN encodeBase64(UserBytes(rt_uri)) ELSE <<>>
    BY <1>3, Zenon DEF EncodeRequest
  <2> DEFINE all == AllFields(rt_uri, fields, size)
  <2>2. UNCHANGED <<rt_uri, rt_response, rt_length>>
    BY <1>3, Zenon DEF EncodeRequest
  <2>3. UriTyped(rt_uri) /\ all \in Seq(TextFields)
    BY AllFieldsTyped, Zenon DEF TextInv
  <2>4. CASE rt_pc' = "threw" /\ UNCHANGED <<rt_text, rt_fields, rt_credentials>>
    BY <2>2, <2>4 DEF TextInv, UriTyped
  <2>5. CASE /\ rt_pc' = "encoded" /\ rt_fields' = all
             /\ rt_text' = encodeRequestLine(Target(rt_uri)) \o encodeHeaderFields(all)
                           \o <<"CR", "LF">>
             /\ rt_credentials' = IF HasUser(rt_uri) THEN encodeBase64(UserBytes(rt_uri)) ELSE <<>>
    <3>1. rt_text' \in Seq(WireChars) /\ rt_fields' \in Seq(TextFields)
      BY <2>3, <2>5, WireTyped, Zenon
    <3>2. rt_credentials' \in Seq(Pad .. 63)
      <4>1. <<>> \in Seq(Pad .. 63)
        OBVIOUS
      <4> QED
        BY <2>3, <2>5, <4>1, UserTyped, Zenon
    <3>3. rt_pc' = "encoded" /\ "encoded" \notin {"typing", "parsed", "status", "header"}
      BY <2>5, Zenon
    <3> HIDE <2>5
    <3> QED
      BY <2>2, <3>1, <3>2, <3>3, Zenon DEF TextInv, UriTyped
  <2> QED
    BY <2>1, <2>4, <2>5, Zenon
<1>4. CASE ParseStatusLine
  <2> DEFINE to == parseStatusLine(rt_text)
  <2>1. rt_text \in Seq(TextChars)
    BY <1>4 DEF ParseStatusLine, TextInv
  <2>2. UNCHANGED <<rt_uri, rt_fields, rt_credentials, rt_response, rt_length>>
    BY <1>4, Zenon DEF ParseStatusLine
  <2>3. CASE to = 0
    <3>1. rt_pc' = "threw" /\ rt_text' = rt_text
      BY <1>4, <2>3, Zenon DEF ParseStatusLine
    <3> QED
      BY <2>2, <3>1, Zenon DEF TextInv, UriTyped
  <2>4. CASE to # 0
    <3>1. rt_pc' = "header" /\ rt_text' = SubSeq(rt_text, to, Len(rt_text))
      BY <1>4, <2>4, Zenon DEF ParseStatusLine
    <3>2. rt_text' \in Seq(TextChars)
      BY <2>1, <2>4, <3>1, StatusLineTyped, RestTyped, Zenon
    <3> QED
      BY <1>0, <2>2, <3>1, <3>2, Zenon DEF TextInv, UriTyped
  <2> QED
    BY <2>3, <2>4
<1>5. CASE ParseHeaderField
  <2> DEFINE r == parseHeaderField(rt_text)
             bad == \/ r.next = 0
                    \/ r.field.name = <<"coding">> /\ r.field.value # <<"chunked">>
                    \/ r.field.name = <<"length">> /\ ~(ToSet(r.field.value) \subseteq DigitChar)
  <2>1. rt_text \in Seq(TextChars)
    BY <1>5 DEF ParseHeaderField, TextInv
  <2>2. UNCHANGED <<rt_uri, rt_credentials, rt_response>>
    BY <1>5, Zenon DEF ParseHeaderField
  <2>3. IF bad THEN rt_pc' = "threw" /\ UNCHANGED <<rt_text, rt_fields, rt_length>>
        ELSE /\ rt_fields' = Append(rt_fields, r.field)
             /\ rt_length' = IF r.field.name = <<"length">> THEN stringToUint(r.field.value)
                             ELSE rt_length
             /\ rt_text' = SubSeq(rt_text, r.next, Len(rt_text))
             /\ rt_pc' = IF rt_text' = <<>> THEN "read" ELSE "header"
    BY <1>5, Zenon DEF ParseHeaderField
  <2>4. CASE bad
    <3>1. rt_pc' = "threw" /\ UNCHANGED <<rt_text, rt_fields, rt_length>>
      BY <2>3, <2>4, Zenon
    <3> QED
      BY <2>2, <3>1, Zenon DEF TextInv, UriTyped
  <2>5. CASE ~bad
    <3>1. /\ rt_fields' = Append(rt_fields, r.field)
          /\ rt_length' = IF r.field.name = <<"length">> THEN stringToUint(r.field.value)
                          ELSE rt_length
          /\ rt_text' = SubSeq(rt_text, r.next, Len(rt_text))
          /\ rt_pc' \in {"read", "header"} /\ r.next # 0
      BY <2>3, <2>5, Zenon
    <3>2. rt_text' \in Seq(TextChars)
      BY <2>1, <3>1, HeaderFieldTyped, RestTyped, Zenon
    <3>3. r.field \in TextFields /\ r.field.value \in Seq(TextChars)
      BY <2>1, <3>1, FieldRead, HeaderFieldTyped, Zenon
    <3>4. rt_fields' \in Seq(TextFields)
      <4>1. rt_fields \in Seq(TextFields)
        BY DEF TextInv
      <4> QED
        BY <3>1, <3>3, <4>1, AppendProperties, Zenon
    <3>5. rt_length' \in -1 .. 2^SizeBits - 1
      <4>1. stringToUint(r.field.value) \in 0 .. 2^SizeBits - 1
        BY <3>3, LengthTyped, Zenon
      <4>2. 0 .. 2^SizeBits - 1 \subseteq -1 .. 2^SizeBits - 1
        <5> DEFINE M == 2^SizeBits
        <5>1. M \in Int
          BY TextAssumption
        <5> HIDE DEF M
        <5>2. 0 .. M - 1 \subseteq -1 .. M - 1
          BY <5>1
        <5> QED
          BY <5>2 DEF M
      <4>3. rt_length \in -1 .. 2^SizeBits - 1
        BY DEF TextInv
      <4>4. stringToUint(r.field.value) \in -1 .. 2^SizeBits - 1
        BY <4>1, <4>2, Zenon
      <4> QED
        BY <3>1, <4>3, <4>4, Zenon
    <3> QED
      BY <1>0, <2>2, <3>1, <3>2, <3>4, <3>5, Zenon DEF TextInv, UriTyped
  <2> QED
    BY <2>4, <2>5
<1>6. CASE UNCHANGED textVars
  BY <1>6 DEF TextInv, UriTyped, textVars
<1> QED
  BY <1>1, <1>2, <1>3, <1>4, <1>5, <1>6 DEF TextNext

===============================================================================
