---------------------------- MODULE LexerProofs ----------------------------
(***************************************************************************)
(* Lexer, for every text: what becomes of its characters, the lines that   *)
(* its tokens are reported on, what it never looks behind; and of texts    *)
(* that are well written, when it asks for more and which tokens it reads. *)
(***************************************************************************)
EXTENDS Lexer, CommonLemmas, FiniteSetTheorems

Froms    == [place : Nat, line : Int]
AnyToken == [type : {"word", "number", "symbol", "string"}, at : Seq(Nat), from : Froms]

(***************************************************************************)
(* The places of tokens that follow each other.                            *)
(***************************************************************************)
Ats(ts) == [k \in DOMAIN ts |-> ts[k].at]

AtsFollow(s, W) ==
  /\ Ats(s) \in Seq(W) /\ Len(Ats(s)) = Len(s)
  /\ \A i \in 1 .. Len(s) : Ats(s)[i] = s[i].at

LEMMA AtsOf ==
  ASSUME NEW s \in Seq(AnyToken)
  PROVE  AtsFollow(s, Seq(Nat)) /\ Places(s) = FlattenSeq(Ats(s))
<1> DEFINE W == Seq(Nat)
<1>1. \A t \in AnyToken : t.at \in W
  BY DEF AnyToken
<1> HIDE DEF W
<1>2. DOMAIN s = 1 .. Len(s) /\ Len(s) \in Nat /\ \A k \in 1 .. Len(s) : s[k] \in AnyToken
  OBVIOUS
<1>3. Ats(s) \in [1 .. Len(s) -> W]
  BY <1>1, <1>2, Zenon DEF Ats
<1>4. Ats(s) \in Seq(W) /\ Len(Ats(s)) = Len(s)
  BY <1>2, <1>3
<1>5. \A k \in 1 .. Len(s) : Ats(s)[k] = s[k].at
  BY <1>2, Zenon DEF Ats
<1>6. QED
  BY <1>4, <1>5, Zenon DEF W, AtsFollow, Ats, Places

LEMMA PlacesType ==
  ASSUME NEW s \in Seq(AnyToken)
  PROVE  Places(s) \in Seq(Nat)
BY AtsOf, FlattenType, Zenon DEF AtsFollow

LEMMA PlacesEmpty == Places(<<>>) = <<>>
<1>1. [k \in DOMAIN <<>> |-> <<>>[k].at] = <<>>
  OBVIOUS
<1>2. QED
  BY <1>1, FlattenEmpty DEF Places

Concatenated(p, q, W) ==
  /\ p \o q \in Seq(W) /\ Len(p \o q) = Len(p) + Len(q)
  /\ \A i \in 1 .. Len(p) + Len(q) : (p \o q)[i] = IF i <= Len(p) THEN p[i] ELSE q[i - Len(p)]

LEMMA ConcatFacts ==
  ASSUME NEW W, NEW p \in Seq(W), NEW q \in Seq(W)
  PROVE  Concatenated(p, q, W)
BY ConcatProperties DEF Concatenated

LEMMA PlacesConcat ==
  ASSUME NEW s \in Seq(AnyToken), NEW t \in Seq(AnyToken)
  PROVE  Places(s \o t) = Places(s) \o Places(t)
<1> DEFINE W == Seq(Nat)
           u == s \o t
<1>1. /\ u \in Seq(AnyToken) /\ Len(u) = Len(s) + Len(t)
      /\ \A i \in 1 .. Len(s) + Len(t) : u[i] = IF i <= Len(s) THEN s[i] ELSE t[i - Len(s)]
  BY ConcatProperties
<1>2. AtsFollow(s, W) /\ AtsFollow(t, W) /\ AtsFollow(u, W) /\ Len(s) \in Nat /\ Len(t) \in Nat
  <2>1. Len(s) \in Nat /\ Len(t) \in Nat
    OBVIOUS
  <2>2. QED
    BY <1>1, <2>1, AtsOf, Zenon
<1> HIDE DEF u
<1> DEFINE v == Ats(s) \o Ats(t)
<1> HIDE DEF W
<1>3. Concatenated(Ats(s), Ats(t), W)
  <2>1. Ats(s) \in Seq(W) /\ Ats(t) \in Seq(W)
    BY <1>2, Zenon DEF AtsFollow
  <2>2. QED
    BY <2>1, ConcatFacts, Zenon
<1>4. /\ v \in Seq(W) /\ Len(v) = Len(s) + Len(t)
      /\ \A i \in 1 .. Len(s) + Len(t) : v[i] = IF i <= Len(s) THEN Ats(s)[i] ELSE Ats(t)[i - Len(s)]
  <2>1. Len(Ats(s)) = Len(s) /\ Len(Ats(t)) = Len(t)
    BY <1>2, Zenon DEF AtsFollow
  <2>2. QED
    BY <1>3, <2>1, Zenon DEF Concatenated
<1> HIDE DEF v
<1>5. \A i \in 1 .. Len(u) : Ats(u)[i] = v[i]
  <2>1. ASSUME NEW i \in 1 .. Len(u) PROVE Ats(u)[i] = v[i]
    <3>1. CASE i <= Len(s)
      <4>1. i \in 1 .. Len(s)
        BY <1>1, <1>2, <3>1
      <4>2. v[i] = Ats(s)[i] /\ u[i] = s[i]
        BY <1>1, <1>4, <3>1, Zenon
      <4>3. QED
        BY <1>2, <4>1, <4>2, Zenon DEF AtsFollow
    <3>2. CASE ~(i <= Len(s))
      <4>1. i - Len(s) \in 1 .. Len(t)
        BY <1>1, <1>2, <3>2
      <4>2. QED
        <5>1. v[i] = Ats(t)[i - Len(s)] /\ u[i] = t[i - Len(s)]
          BY <1>1, <1>4, <3>2, Zenon
        <5>2. QED
          BY <1>2, <4>1, <5>1, Zenon DEF AtsFollow
    <3>3. QED
      BY <3>1, <3>2
  <2>2. QED
    BY <2>1
<1>6. Ats(u) = v
  <2>1. Ats(u) \in Seq(W) /\ v \in Seq(W) /\ Len(Ats(u)) = Len(v) /\ \A i \in 1 .. Len(v) : Ats(u)[i] = v[i]
    BY <1>1, <1>2, <1>4, <1>5, Zenon DEF AtsFollow
  <2>2. \A p, q \in Seq(W) : Len(p) = Len(q) /\ (\A i \in 1 .. Len(q) : p[i] = q[i]) => p = q
    BY SeqEqual
  <2>3. QED
    BY <2>1, <2>2, Zenon
<1>7. FlattenSeq(v) = FlattenSeq(Ats(s)) \o FlattenSeq(Ats(t))
  BY <1>2, FlattenConcat, Zenon DEF v, W, AtsFollow
<1>8. QED
  BY <1>1, <1>6, <1>7, AtsOf, Zenon DEF u

LEMMA PlacesOne ==
  ASSUME NEW t \in AnyToken
  PROVE  Places(<<t>>) = t.at
<1>1. Ats(<<t>>) = <<t.at>> /\ t.at \in Seq(Nat) /\ <<t>> \in Seq(AnyToken)
  BY DEF Ats, AnyToken
<1>2. QED
  BY <1>1, AtsOf, FlattenOne

LEMMA PlacesAppend ==
  ASSUME NEW s \in Seq(AnyToken), NEW t \in AnyToken
  PROVE  Append(s, t) \in Seq(AnyToken) /\ Places(Append(s, t)) = Places(s) \o t.at
<1>1. Append(s, t) = s \o <<t>> /\ <<t>> \in Seq(AnyToken) /\ Append(s, t) \in Seq(AnyToken)
  OBVIOUS
<1>2. QED
  BY <1>1, PlacesConcat, PlacesOne

LEMMA PlacesTwo ==
  ASSUME NEW s \in AnyToken, NEW t \in AnyToken
  PROVE  Places(<<s, t>>) = s.at \o t.at
<1>1. <<s, t>> = Append(<<s>>, t) /\ <<s>> \in Seq(AnyToken)
  OBVIOUS
<1>2. QED
  BY <1>1, PlacesAppend, PlacesOne

(***************************************************************************)
(* Sequences of places in the order of the text.                           *)
(***************************************************************************)
Rising(s)        == \A i \in 1 .. Len(s) - 1 : s[i] < s[i + 1]
UpTo(s, n)       == \A i \in 1 .. Len(s) : s[i] <= n
Between(s, m, n) == Rising(s) /\ \A i \in 1 .. Len(s) : m < s[i] /\ s[i] <= n

LEMMA RisingConcat ==
  ASSUME NEW s \in Seq(Nat), NEW t \in Seq(Nat), NEW m \in Nat, NEW n \in Nat, m <= n,
         Rising(s), UpTo(s, m), Between(t, m, n)
  PROVE  Rising(s \o t) /\ UpTo(s \o t, n)
<1> DEFINE u == s \o t
<1>1. /\ Len(u) = Len(s) + Len(t) /\ Len(s) \in Nat /\ Len(t) \in Nat
      /\ \A i \in 1 .. Len(s) + Len(t) : u[i] = IF i <= Len(s) THEN s[i] ELSE t[i - Len(s)]
  BY ConcatProperties
<1> HIDE DEF u
<1>2. Rising(u)
  <2> SUFFICES ASSUME NEW i \in 1 .. Len(u) - 1 PROVE u[i] < u[i + 1]
    BY DEF Rising
  <2>1. CASE i + 1 <= Len(s)
    <3>1. i \in 1 .. Len(s) - 1 /\ u[i] = s[i] /\ u[i + 1] = s[i + 1]
      BY <1>1, <2>1, SMTT(40)
    <3>2. QED
      BY <3>1 DEF Rising
  <2>2. CASE i = Len(s)
    <3>1. u[i] = s[i] /\ s[i] <= m
      BY <1>1, <2>2 DEF UpTo
    <3>2. u[i + 1] = t[1] /\ m < t[1]
      BY <1>1, <2>2 DEF Between
    <3>3. s[i] \in Nat /\ t[1] \in Nat
      BY <1>1, <2>2
    <3>4. QED
      BY <3>1, <3>2, <3>3
  <2>3. CASE i > Len(s)
    <3>1. i - Len(s) \in 1 .. Len(t) - 1 /\ (i - Len(s)) + 1 = i + 1 - Len(s)
      BY <1>1, <2>3
    <3>2. u[i] = t[i - Len(s)] /\ u[i + 1] = t[i + 1 - Len(s)]
      BY <1>1, <2>3
    <3>3. t[i - Len(s)] < t[(i - Len(s)) + 1]
      BY <3>1 DEF Between, Rising
    <3>4. QED
      BY <3>1, <3>2, <3>3
  <2>4. QED
    BY <1>1, <2>1, <2>2, <2>3
<1>3. UpTo(u, n)
  <2> SUFFICES ASSUME NEW i \in 1 .. Len(u) PROVE u[i] <= n
    BY DEF UpTo
  <2>1. CASE i <= Len(s)
    <3>1. u[i] = s[i] /\ s[i] <= m /\ s[i] \in Nat
      BY <1>1, <2>1 DEF UpTo
    <3>2. QED
      BY <3>1
  <2>2. CASE i > Len(s)
    <3>1. i - Len(s) \in 1 .. Len(t) /\ u[i] = t[i - Len(s)]
      BY <1>1, <2>2
    <3>2. QED
      BY <3>1 DEF Between
  <2>3. QED
    BY <1>1, <2>1, <2>2
<1>4. QED
  BY <1>2, <1>3 DEF u

LEMMA RisingPrefix ==
  ASSUME NEW s \in Seq(Nat), NEW t \in Seq(Nat), Rising(s \o t)
  PROVE  Rising(s)
<1> SUFFICES ASSUME NEW i \in 1 .. Len(s) - 1 PROVE s[i] < s[i + 1]
  BY DEF Rising
<1> DEFINE u == s \o t
<1>1. /\ Len(u) = Len(s) + Len(t) /\ Len(s) \in Nat /\ Len(t) \in Nat
      /\ \A j \in 1 .. Len(s) + Len(t) : u[j] = IF j <= Len(s) THEN s[j] ELSE t[j - Len(s)]
  BY ConcatProperties
<1>2. \A j \in 1 .. Len(u) - 1 : u[j] < u[j + 1]
  BY DEF Rising
<1> HIDE DEF u
<1>3. QED
  BY <1>1, <1>2

LEMMA BetweenFew ==
  ASSUME NEW m \in Nat, NEW n \in Nat
  PROVE  /\ Between(<<>>, m, n)
         /\ \A i \in m + 1 .. n : Between(<<i>>, m, n)
         /\ n \in {m + 1, m + 2} => Between([k \in 1 .. n - m |-> m + k], m, n)
BY DEF Between, Rising

(***************************************************************************)
(* The invariant.  Nothing is lost is not inductive by itself: it needs    *)
(* that the joiner has not begun while characters are read, that what it   *)
(* has in hand is one token, and that the places of tokens and buffer grow *)
(* up to the one that is read next.                                        *)
(***************************************************************************)
Reading   == {"code", "number", "hex", "string", "line note", "note"}
Untouched == taken = 0 /\ held = <<>> /\ tokens = <<>>
Rest      == SubSeq(pre, taken + 1, Len(pre))

Typed ==
  /\ at \in Nat /\ line \in Nat /\ from \in Froms /\ buffer \in Seq(Nat)
  /\ pre \in Seq(AnyToken) /\ tokens \in Seq(AnyToken) /\ taken \in 0 .. Len(pre)
  /\ held = <<>> \/ \E t \in AnyToken : held = <<t>>

Ordered ==
  /\ Rising(Places(pre))
  /\ mode \in Reading => Rising(Places(pre) \o buffer) /\ UpTo(Places(pre) \o buffer, at)

Kept == Places(tokens \o held \o Rest) = Places(pre)

IInv == Typed /\ Ordered /\ Kept /\ (mode \in {"join", "done"} \/ Untouched)

(* A beginning: of a buffer with a NUL in it no more becomes a token.       *)
StartOf(k, u) == k \in Seq(Nat) /\ \E r \in Seq(Nat) : u = k \o r

(* What was read, or a beginning of it, and what is added.                 *)
LEMMA Grows ==
  ASSUME NEW u \in Seq(Nat), NEW k, StartOf(k, u), NEW q \in Seq(Nat), NEW c \in Seq(Nat),
         NEW s \in Seq(Nat), NEW m \in Nat, NEW n \in Nat, m <= n,
         Rising(u), UpTo(u, m), Between(s, m, n), q \o c = k \o s
  PROVE  Rising(q) /\ Rising(q \o c) /\ UpTo(q \o c, n)
<1>1. PICK d \in Seq(Nat) : u = k \o d
  BY DEF StartOf
<1>2. k \in Seq(Nat)
  BY DEF StartOf
<1>3. Rising(k)
  BY <1>1, <1>2, RisingPrefix
<1>4. UpTo(k, m)
  <2> SUFFICES ASSUME NEW i \in 1 .. Len(k) PROVE k[i] <= m
    BY DEF UpTo
  <2>1. i \in 1 .. Len(u) /\ u[i] = k[i]
    BY <1>1, <1>2
  <2>2. QED
    BY <2>1 DEF UpTo
<1>5. Rising(k \o s) /\ UpTo(k \o s, n)
  BY <1>2, <1>3, <1>4, RisingConcat
<1>6. Rising(q \o c) /\ UpTo(q \o c, n)
  BY <1>5, Zenon
<1>7. QED
  BY <1>6, RisingPrefix

(* The text read so far, or a beginning of what is kept of it, has become   *)
(* tokens and buffer, and the new part of it that is kept is s.             *)
Adds(s) ==
  /\ at' \in Nat /\ at <= at' /\ Between(s, at, at')
  /\ line' \in Nat /\ from' \in Froms /\ buffer' \in Seq(Nat) /\ pre' \in Seq(AnyToken)
  /\ \E k : StartOf(k, Places(pre) \o buffer) /\ Places(pre') \o buffer' = k \o s

(* The run ends, with what was in the buffer a token or not. *)
GivesUp ==
  /\ mode' \notin Reading /\ pre' \in {pre, Saved}
  /\ UNCHANGED <<at, line, from, buffer>>

LEMMA Split ==
  ASSUME NEW W, NEW s \in Seq(W), NEW k \in 1 .. Len(s)
  PROVE  /\ SubSeq(s, 1, k - 1) \in Seq(W) /\ s[k] \in W
         /\ SubSeq(s, 1, k) = Append(SubSeq(s, 1, k - 1), s[k])
         /\ s = SubSeq(s, 1, k) \o SubSeq(s, k + 1, Len(s))
         /\ SubSeq(s, 1, k) \in Seq(W) /\ SubSeq(s, k + 1, Len(s)) \in Seq(W)
OBVIOUS

LEMMA CutInTwo ==
  ASSUME NEW S, NEW b \in Seq(S), NEW n \in 0 .. Len(b)
  PROVE  /\ SubSeq(b, 1, n) \in Seq(S) /\ SubSeq(b, n + 1, Len(b)) \in Seq(S)
         /\ b = SubSeq(b, 1, n) \o SubSeq(b, n + 1, Len(b))
<1>1. CASE n = 0
  <2>1. SubSeq(b, 1, 0) = <<>>
    OBVIOUS
  <2>2. SubSeq(b, 1, Len(b)) = b
    BY SMTT(30)
  <2>3. <<>> \in Seq(S) /\ <<>> \o b = b
    BY ConcatEmptySeq
  <2>4. QED
    BY <1>1, <2>1, <2>2, <2>3
<1>2. CASE n # 0
  <2>1. n \in 1 .. Len(b)
    BY <1>2
  <2>2. QED
    BY <2>1, Split
<1>3. QED
  BY <1>1, <1>2

LEMMA UpToNulIs ==
  ASSUME NEW S, NEW b \in Seq(S)
  PROVE  UpToNul(b) \in Seq(S) /\ \E r \in Seq(S) : b = UpToNul(b) \o r
<1>1. PICK I : I = {n \in DOMAIN b : \A k \in 1 .. n : meant[b[k]] # "NUL"}
  OBVIOUS
<1>2. PICK l : l = Len(b)
  OBVIOUS
<1>3. l \in Nat /\ DOMAIN b = 1 .. l
  BY <1>2
<1>4. Cardinality(I) \in Nat /\ Cardinality(I) <= l
  <2>1. I \subseteq 1 .. l
    BY <1>1, <1>3
  <2>2. IsFiniteSet(1 .. l) /\ Cardinality(1 .. l) = l
    BY <1>3, FS_Interval
  <2>3. IsFiniteSet(I) /\ Cardinality(I) <= Cardinality(1 .. l)
    BY <2>1, <2>2, FS_Subset
  <2>4. Cardinality(I) \in Nat
    BY <2>3, FS_CardinalityType
  <2>5. QED
    BY <2>2, <2>3, <2>4
<1>5. PICK n : n = Cardinality(I)
  OBVIOUS
<1>6. UpToNul(b) = SubSeq(b, 1, n)
  BY <1>1, <1>5 DEF UpToNul
<1>7. n \in 0 .. Len(b)
  BY <1>2, <1>3, <1>4, <1>5
<1>8. SubSeq(b, 1, n) \in Seq(S) /\ SubSeq(b, n + 1, Len(b)) \in Seq(S) /\ b = SubSeq(b, 1, n) \o SubSeq(b, n + 1, Len(b))
  BY <1>7, CutInTwo
<1>9. QED
  BY <1>6, <1>8

LEMMA UpToNulEmpty == UpToNul(<<>>) = <<>>
<1>1. <<>> \in Seq(Nat)
  OBVIOUS
<1>2. PICK x : x = UpToNul(<<>>)
  OBVIOUS
<1>3. x \in Seq(Nat) /\ \E r \in Seq(Nat) : <<>> = x \o r
  BY <1>1, <1>2, UpToNulIs
<1>4. PICK r \in Seq(Nat) : <<>> = x \o r
  BY <1>3
<1>5. Len(x) = 0
  BY <1>3, <1>4
<1>6. QED
  BY <1>2, <1>3, <1>5

(* A beginning of what follows is one of the whole. *)
LEMMA Starting ==
  ASSUME NEW p \in Seq(Nat), NEW b \in Seq(Nat)
  PROVE  StartOf(p, p \o b) /\ StartOf(p \o b, p \o b) /\ \A c : StartOf(c, b) => StartOf(p \o c, p \o b)
<1>1. StartOf(p, p \o b)
  BY DEF StartOf
<1>2. p \o b \in Seq(Nat) /\ (p \o b) \o <<>> = p \o b /\ <<>> \in Seq(Nat)
  BY ConcatProperties, ConcatEmptySeq
<1>3. StartOf(p \o b, p \o b)
  BY <1>2, Zenon DEF StartOf
<1>4. ASSUME NEW c, StartOf(c, b) PROVE StartOf(p \o c, p \o b)
  <2>1. PICK d \in Seq(Nat) : b = c \o d
    BY <1>4 DEF StartOf
  <2>2. c \in Seq(Nat)
    BY <1>4 DEF StartOf
  <2>3. (p \o c) \o d = p \o (c \o d)
    <3>1. Associates(p, c, d)
      BY <2>2, Associate
    <3>2. QED
      BY <3>1, Zenon DEF Associates
  <2>4. p \o c \in Seq(Nat)
    BY <2>2, ConcatProperties
  <2>5. QED
    BY <2>1, <2>3, <2>4, Zenon DEF StartOf
<1>5. QED
  BY <1>1, <1>3, <1>4

LEMMA SavedFacts ==
  ASSUME Typed
  PROVE  Saved \in Seq(AnyToken) /\ StartOf(Places(Saved), Places(pre) \o buffer)
<1>1. Places(pre) \in Seq(Nat) /\ buffer \in Seq(Nat) /\ pre \in Seq(AnyToken)
  BY PlacesType DEF Typed
<1>2. CASE Idle
  <2>1. Saved = pre
    BY <1>2 DEF Saved
  <2>2. QED
    BY <1>1, <2>1, Starting
<1>3. CASE ~Idle
  <2> DEFINE t == Token(IF mode = "code" THEN "word" ELSE "number", UpToNul(buffer), from)
  <2>1. UpToNul(buffer) \in Seq(Nat) /\ StartOf(UpToNul(buffer), buffer)
    BY <1>1, UpToNulIs DEF StartOf
  <2>2. t \in AnyToken /\ t.at = UpToNul(buffer)
    BY <2>1 DEF Token, AnyToken, Typed
  <2>3. Saved = Append(pre, t)
    BY <1>3 DEF Saved
  <2> HIDE DEF t
  <2>4. Saved \in Seq(AnyToken) /\ Places(Saved) = Places(pre) \o UpToNul(buffer)
    BY <1>1, <2>2, <2>3, PlacesAppend
  <2>5. QED
    BY <1>1, <2>1, <2>4, Starting
<1>4. QED
  BY <1>2, <1>3

LEMMA HereFacts ==
  ASSUME Typed
  PROVE  /\ Position \in Froms /\ NoPlace \in Froms /\ Here \in Nat
         /\ \A c : line + Newlines(c) \in Nat
         /\ at \in Nat /\ line \in Nat /\ from \in Froms
BY DEF Typed, Position, NoPlace, Froms, Here, Newlines

LEMMA FewNats == <<>> \in Seq(Nat) /\ \A n \in Nat : <<n>> \in Seq(Nat)
OBVIOUS

(* Nothing is kept of the characters that are read. *)
LEMMA AddsNothing ==
  ASSUME Typed, at' \in Nat, at <= at', line' \in Nat, from' \in Froms,
         buffer' \in Seq(Nat), pre' \in Seq(AnyToken),
         StartOf(Places(pre') \o buffer', Places(pre) \o buffer)
  PROVE  Adds(<<>>)
<1>1. PICK k : k = Places(pre') \o buffer'
  OBVIOUS
<1>2. k \in Seq(Nat)
  BY <1>1 DEF StartOf
<1>3. k \o <<>> = k
  BY <1>2, ConcatEmptySeq
<1>4. Between(<<>>, at, at')
  BY BetweenFew DEF Typed
<1>5. QED
  BY <1>1, <1>3, <1>4, Zenon DEF Adds

(* What is in the buffer is saved, or nothing of it is shown and it stays, *)
(* or is not kept either.                                                  *)
LEMMA SavesAll ==
  ASSUME Typed, at' \in Nat, at <= at', line' \in Nat, from' \in Froms,
         pre' \in {pre, Saved}, buffer' = <<>> \/ (pre' = pre /\ buffer' = buffer)
  PROVE  Adds(<<>>)
<1>1. /\ Saved \in Seq(AnyToken) /\ StartOf(Places(Saved), Places(pre) \o buffer)
      /\ pre \in Seq(AnyToken) /\ Places(pre) \in Seq(Nat) /\ buffer \in Seq(Nat)
  BY SavedFacts, PlacesType DEF Typed
<1>2. pre' \in Seq(AnyToken) /\ buffer' \in Seq(Nat) /\ StartOf(Places(pre'), Places(pre) \o buffer)
  <2>1. buffer' \in Seq(Nat)
    BY <1>1, FewNats
  <2>2. StartOf(Places(pre), Places(pre) \o buffer)
    BY <1>1, Starting
  <2>3. CASE pre' = pre
    BY <1>1, <2>1, <2>2, <2>3
  <2>4. CASE pre' = Saved
    BY <1>1, <2>1, <2>4
  <2>5. QED
    BY <2>3, <2>4
<1>3. StartOf(Places(pre') \o buffer', Places(pre) \o buffer)
  <2>1. CASE buffer' = <<>>
    <3>1. Places(pre') \o <<>> = Places(pre')
      BY <1>2, PlacesType, ConcatEmptySeq
    <3>2. QED
      BY <1>2, <2>1, <3>1
  <2>2. CASE pre' = pre /\ buffer' = buffer
    BY <1>1, <2>2, Starting
  <2>3. QED
    BY <2>1, <2>2
<1>4. QED
  BY <1>2, <1>3, AddsNothing

(* The character at n is kept in the buffer. *)
LEMMA Buffers ==
  ASSUME Typed, at' \in Nat, at <= at', line' \in Nat, from' \in Froms,
         NEW n \in at + 1 .. at', pre' = pre, buffer' = Append(buffer, n)
  PROVE  Adds(<<n>>)
<1>1. Places(pre) \in Seq(Nat) /\ buffer \in Seq(Nat) /\ n \in Nat /\ <<n>> \in Seq(Nat)
  BY PlacesType DEF Typed
<1>2. buffer' = buffer \o <<n>> /\ buffer' \in Seq(Nat)
  BY <1>1
<1>3. (Places(pre) \o buffer) \o <<n>> = Places(pre) \o (buffer \o <<n>>)
  <2>1. Associates(Places(pre), buffer, <<n>>)
    BY <1>1, Associate
  <2>2. QED
    BY <2>1, Zenon DEF Associates
<1>4. Between(<<n>>, at, at')
  BY BetweenFew DEF Typed
<1>5. StartOf(Places(pre) \o buffer, Places(pre) \o buffer)
  BY <1>1, Starting
<1>6. Places(pre') \o buffer' = (Places(pre) \o buffer) \o <<n>>
  BY <1>2, <1>3
<1>7. \E k : StartOf(k, Places(pre) \o buffer) /\ Places(pre') \o buffer' = k \o <<n>>
  BY <1>5, <1>6, Zenon
<1>8. pre' \in Seq(AnyToken)
  BY DEF Typed
<1>9. QED
  BY <1>2, <1>4, <1>7, <1>8, Zenon DEF Adds

(* What is in the buffer becomes a token, and a new one begins. *)
LEMMA Begins ==
  ASSUME Typed, at' \in Nat, at <= at', line' \in Nat, from' \in Froms,
         NEW n \in at + 1 .. at', pre' = Saved, buffer' = <<n>>
  PROVE  Adds(<<n>>)
<1>1. Saved \in Seq(AnyToken) /\ StartOf(Places(Saved), Places(pre) \o buffer)
  BY SavedFacts
<1>2. Between(<<n>>, at, at')
  BY BetweenFew DEF Typed
<1>3. <<n>> \in Seq(Nat)
  BY DEF Typed
<1>4. \E k : StartOf(k, Places(pre) \o buffer) /\ Places(pre') \o buffer' = k \o <<n>>
  BY <1>1, Zenon
<1>5. buffer' \in Seq(Nat) /\ pre' \in Seq(AnyToken)
  BY <1>1, <1>3
<1>6. QED
  BY <1>2, <1>4, <1>5, Zenon DEF Adds

LEMMA Symbols ==
  ASSUME Typed, NEW n \in {1, 2}, Symbol(n)
  PROVE  \E s \in Seq(Nat) : Adds(s)
<1> DEFINE s == IF Hidden THEN <<>> ELSE [k \in 1 .. n |-> at + k]
           t == Token("symbol", s, Position)
<1>1. at' \in Nat /\ at <= at' /\ at' \in {at + 1, at + 2} /\ at' - at = n
  BY DEF Typed, Symbol
<1>2. s \in Seq(Nat) /\ Between(s, at, at')
  <2>1. CASE Hidden
    <3>1. at \in Nat /\ at' \in Nat /\ <<>> \in Seq(Nat)
      BY <1>1 DEF Typed
    <3>2. Between(<<>>, at, at')
      BY <3>1, BetweenFew, Zenon
    <3>3. QED
      BY <2>1, <3>1, <3>2
  <2>2. CASE ~Hidden
    <3>1. [k \in 1 .. n |-> at + k] \in Seq(Nat)
      BY DEF Typed
    <3>2. Between([k \in 1 .. n |-> at + k], at, at')
      BY <1>1, BetweenFew DEF Typed
    <3>3. QED
      BY <2>2, <3>1, <3>2
  <2>3. QED
    BY <2>1, <2>2
<1>3. t = Token("symbol", s, Position) /\ pre' = Append(Saved, t) /\ buffer' = <<>> /\ from' = NoPlace /\ line' = line
  BY DEF Symbol, Empty
<1> HIDE DEF s
<1>4. t \in AnyToken /\ t.at = s
  BY <1>2, HereFacts DEF Token, AnyToken
<1> HIDE DEF t
<1>6. /\ Saved \in Seq(AnyToken) /\ StartOf(Places(Saved), Places(pre) \o buffer)
      /\ pre' \in Seq(AnyToken) /\ Places(pre') = Places(Saved) \o s
  BY <1>3, <1>4, SavedFacts, PlacesAppend
<1>7. Places(pre') \o buffer' = Places(Saved) \o s
  <2>1. Places(pre') \o <<>> = Places(pre')
    BY <1>6, PlacesType, ConcatEmptySeq
  <2>2. QED
    BY <1>3, <1>6, <2>1
<1>8. buffer' \in Seq(Nat) /\ from' \in Froms /\ line' \in Nat
  BY <1>3, HereFacts DEF Typed
<1>9. \E k : StartOf(k, Places(pre) \o buffer) /\ Places(pre') \o buffer' = k \o s
  BY <1>6, <1>7, Zenon
<1>10. Adds(s)
  BY <1>1, <1>2, <1>6, <1>8, <1>9, Zenon DEF Adds
<1>11. QED
  BY <1>2, <1>10

(***************************************************************************)
(* What _sbPreLexer does with a character.                                 *)
(***************************************************************************)
ReadStep ==
  \/ ReadSingle \/ ReadPair \/ ReadSlash \/ SkipLineNote \/ SkipNote \/ ReadDigit \/ ReadLetter \/ ReadBlank
  \/ OpenString \/ CloseString \/ ReadInString \/ Escape \/ EndText

Effect == GivesUp \/ \E s \in Seq(Nat) : Adds(s)

LEMMA ReadsSlash ==
  ASSUME Typed, ReadSlash
  PROVE  Effect
<1>1. CASE Follower(1) \in {"/", "*"}
  <2>1. at' \in Nat /\ at <= at' /\ line' \in Nat /\ from' \in Froms /\ pre' = Saved /\ buffer' = <<>>
    <3>1. at' = at + 2 /\ line' = line /\ from' = NoPlace /\ pre' = Saved /\ buffer' = <<>>
      BY <1>1 DEF ReadSlash, Empty
    <3>2. QED
      BY <3>1, HereFacts
  <2>2. QED
    BY <2>1, SavesAll, FewNats DEF Effect
<1>2. CASE Follower(1) \notin {"/", "*"}
  BY <1>2, Symbols DEF ReadSlash, Effect
<1>3. QED
  BY <1>1, <1>2

LEMMA Skips ==
  ASSUME Typed, SkipLineNote \/ SkipNote
  PROVE  Effect
<1>1. at' \in Nat /\ at <= at' /\ line' \in Nat /\ UNCHANGED <<buffer, from, pre>>
  <2>1. at' \in {at + 1, at + 2} /\ line' \in {line, line + Newlines(Char)} /\ UNCHANGED <<buffer, from, pre>>
    BY DEF SkipLineNote, SkipNote
  <2>2. QED
    BY <2>1, HereFacts
<1>2. from' \in Froms /\ pre' = pre /\ buffer' = buffer
  BY <1>1 DEF Typed
<1>3. Adds(<<>>)
  BY <1>1, <1>2, SavesAll
<1>4. QED
  BY <1>3, FewNats DEF Effect

LEMMA ReadsDigit ==
  ASSUME Typed, ReadDigit
  PROVE  Effect
<1>1. at' \in Nat /\ at <= at' /\ line' \in Nat /\ from' \in Froms /\ pre' = pre
  BY HereFacts DEF Typed, ReadDigit
<1>2. buffer' = Append(buffer, Here) /\ Here \in at + 1 .. at' /\ Here \in Nat
  BY DEF Typed, ReadDigit, Here
<1>3. Adds(<<Here>>)
  BY <1>1, <1>2, Buffers
<1>4. QED
  BY <1>2, <1>3, FewNats DEF Effect

LEMMA ReadsLetter ==
  ASSUME Typed, ReadLetter
  PROVE  Effect
<1> DEFINE digit  == mode = "hex" /\ Char \in HexLetters
           prefix == mode = "number" /\ Char = "x"
<1>1. at' \in Nat /\ at <= at' /\ line' \in Nat /\ Here \in at + 1 .. at' /\ Here \in Nat
  BY DEF Typed, ReadLetter, Here
<1>2. \/ digit \/ prefix
      \/ mode # "code" /\ ~digit /\ ~prefix
      \/ mode = "code"
  OBVIOUS
<1>3. CASE digit \/ prefix
  <2>1. from' \in Froms /\ pre' = pre /\ buffer' = Append(buffer, Here)
    BY <1>3 DEF Typed, ReadLetter
  <2>2. QED
    BY <1>1, <2>1, Buffers, FewNats DEF Effect
<1>4. CASE mode # "code" /\ ~digit /\ ~prefix
  <2>1. from' \in Froms /\ pre' = Saved /\ buffer' = <<Here>>
    BY <1>4, HereFacts DEF ReadLetter
  <2>2. QED
    BY <1>1, <2>1, Begins, FewNats DEF Effect
<1>5. CASE mode = "code"
  <2>1. from' \in Froms /\ pre' = pre /\ buffer' = Append(buffer, Here)
    BY <1>5, HereFacts DEF Typed, ReadLetter
  <2>2. QED
    BY <1>1, <2>1, Buffers, FewNats DEF Effect
<1>6. QED
  BY <1>2, <1>3, <1>4, <1>5

LEMMA ClosesString ==
  ASSUME Typed, CloseString
  PROVE  Effect
<1> DEFINE t == Token("string", UpToNul(buffer), from)
<1>1. at' \in Nat /\ at <= at' /\ line' \in Nat /\ from' \in Froms /\ buffer' = <<>> /\ pre' = Append(pre, t)
  BY HereFacts DEF Typed, CloseString, Empty
<1>2. Places(pre) \in Seq(Nat) /\ UpToNul(buffer) \in Seq(Nat) /\ StartOf(UpToNul(buffer), buffer)
  BY UpToNulIs, PlacesType DEF Typed, StartOf
<1>3. t \in AnyToken /\ t.at = UpToNul(buffer)
  BY <1>2 DEF Typed, Token, AnyToken
<1> HIDE DEF t
<1>4. pre' \in Seq(AnyToken) /\ Places(pre') = Places(pre) \o UpToNul(buffer)
  BY <1>1, <1>3, PlacesAppend DEF Typed
<1>5. StartOf(Places(pre'), Places(pre) \o buffer)
  BY <1>2, <1>4, Starting DEF Typed
<1>6. Places(pre') \o <<>> = Places(pre')
  BY <1>4, PlacesType, ConcatEmptySeq
<1>7. Adds(<<>>)
  BY <1>1, <1>4, <1>5, <1>6, AddsNothing, FewNats
<1>8. QED
  BY <1>7, FewNats DEF Effect

LEMMA ReadsInString ==
  ASSUME Typed, ReadInString
  PROVE  Effect
<1>1. at' \in Nat /\ at <= at' /\ line' \in Nat /\ from' \in Froms /\ pre' = pre
  BY HereFacts DEF Typed, ReadInString
<1>2. buffer' = Append(buffer, Here) /\ Here \in at + 1 .. at' /\ Here \in Nat
  BY DEF Typed, ReadInString, Here
<1>3. QED
  BY <1>1, <1>2, Buffers, FewNats DEF Effect

LEMMA Escapes ==
  ASSUME Typed, Escape
  PROVE  Effect
<1>1. EscapeLength \in {0, 2, 4}
  BY DEF EscapeLength
<1>2. CASE EscapeLength = 0
  <2>1. GivesUp
    BY <1>2 DEF Escape, GivesUp, Reading
  <2>2. QED
    BY <2>1 DEF Effect
<1>3. CASE EscapeLength # 0
  <2> DEFINE n == at + EscapeLength
             goes == mode = "string" \/ Idle
  <2>1. at' = n /\ n \in Nat /\ at <= at' /\ n \in at + 1 .. at'
    BY <1>1, <1>3 DEF Typed, Escape
  <2>2. line' \in Nat
    BY <1>3, HereFacts DEF Escape
  <2>3. from' \in {from, NoPlace}
    BY <1>3 DEF Escape
  <2>4. from' \in Froms
    BY <2>3, HereFacts DEF Typed
  <2>5. /\ pre' = IF mode = "string" THEN pre ELSE Saved
        /\ buffer' = IF Follower(1) = "\n" THEN IF goes THEN buffer ELSE <<>>
                     ELSE Append(IF goes THEN buffer ELSE <<>>, n)
    BY <1>3 DEF Escape
  <2>6. goes => pre' = pre
    BY <2>5 DEF Saved
  <2> HIDE DEF n, goes
  <2>7. CASE Follower(1) = "\n"
    <3>1. pre' \in {pre, Saved} /\ (buffer' = <<>> \/ (pre' = pre /\ buffer' = buffer))
      BY <2>5, <2>6, <2>7
    <3>2. Adds(<<>>)
      BY <2>1, <2>2, <2>4, <3>1, SavesAll
    <3>3. QED
      BY <3>2, FewNats DEF Effect
  <2>8. CASE goes /\ Follower(1) # "\n"
    <3>1. Adds(<<n>>)
      BY <2>1, <2>2, <2>4, <2>5, <2>6, <2>8, Buffers
    <3>2. QED
      BY <2>1, <3>1, FewNats DEF Effect
  <2>9. CASE ~goes /\ Follower(1) # "\n"
    <3>1. buffer' = <<n>> /\ pre' = Saved
      BY <2>5, <2>9 DEF goes
    <3>2. Adds(<<n>>)
      BY <2>1, <2>2, <2>4, <3>1, Begins
    <3>3. QED
      BY <2>1, <3>2, FewNats DEF Effect
  <2>10. QED
    BY <2>7, <2>8, <2>9
<1>4. QED
  BY <1>2, <1>3

LEMMA EndsText ==
  ASSUME Typed, EndText
  PROVE  Effect
<1>1. CASE mode = "string"
  BY <1>1 DEF EndText, GivesUp, Effect, Reading
<1>2. CASE mode # "string"
  <2>1. at' \in Nat /\ at <= at' /\ line' \in Nat /\ from' \in Froms /\ pre' \in {pre, Saved} /\ buffer' = <<>>
    <3>1. at' = at /\ line' = line /\ from' = NoPlace /\ pre' \in {pre, Saved} /\ buffer' = <<>>
      BY <1>2 DEF EndText, Empty
    <3>2. QED
      BY <3>1, HereFacts
  <2>2. QED
    BY <2>1, SavesAll, FewNats DEF Effect
<1>3. QED
  BY <1>1, <1>2

LEMMA ReadsBlank ==
  ASSUME Typed, ReadBlank \/ OpenString
  PROVE  Effect
<1>1. at' \in Nat /\ at <= at' /\ line' \in Nat /\ from' \in Froms /\ pre' = Saved
  BY HereFacts DEF ReadBlank, OpenString, Typed, Empty
<1>2. buffer' = <<>> \/ (Hidden /\ buffer' = buffer)
  BY DEF ReadBlank, OpenString, Empty
<1>3. Hidden => Saved = pre
  BY DEF Hidden, Saved
<1>4. pre' \in {pre, Saved} /\ (buffer' = <<>> \/ (pre' = pre /\ buffer' = buffer))
  BY <1>1, <1>2, <1>3
<1>5. QED
  BY <1>1, <1>4, SavesAll, FewNats DEF Effect

LEMMA ReadStepEffect ==
  ASSUME Typed, ReadStep
  PROVE  Effect /\ mode \in Reading /\ UNCHANGED joining
<1>1. mode \in Reading /\ UNCHANGED joining
  BY DEF ReadStep, Reading, Reads, InCode, InString, Keep, Symbol, ReadSingle, ReadPair, ReadSlash, SkipLineNote,
    SkipNote, ReadDigit, ReadLetter, ReadBlank, OpenString, CloseString, ReadInString, Escape, EndText
<1>2. CASE ReadSingle \/ ReadPair
  <2>1. Symbol(1) \/ Symbol(2)
    BY <1>2 DEF ReadSingle, ReadPair
  <2>2. QED
    BY <1>1, <2>1, Symbols DEF Effect
<1>3. QED
  BY <1>1, <1>2, ReadsSlash, Skips, ReadsDigit, ReadsLetter, ReadsBlank, ClosesString, ReadsInString, Escapes, EndsText
     DEF ReadStep

LEMMA RestOfAll ==
  ASSUME NEW p \in Seq(AnyToken)
  PROVE  Places(<<>> \o <<>> \o SubSeq(p, 1, Len(p))) = Places(p)
<1>1. SubSeq(p, 1, Len(p)) = p
  BY SubSeqFull
<1>2. <<>> \o <<>> = <<>>
  OBVIOUS
<1>3. <<>> \o p = p
  BY ConcatEmptySeq
<1>4. QED
  BY <1>1, <1>2, <1>3

LEMMA ReadStepKeeps ==
  ASSUME IInv, ReadStep
  PROVE  IInv'
<1>1. Typed /\ Ordered /\ Untouched /\ mode \in Reading
  BY ReadStepEffect DEF IInv, Reading
<1>2. Untouched' /\ UNCHANGED joining
  BY <1>1, ReadStepEffect DEF joining, Untouched
<1>3. /\ Places(pre) \in Seq(Nat) /\ buffer \in Seq(Nat) /\ at \in Nat
      /\ Rising(Places(pre)) /\ Rising(Places(pre) \o buffer) /\ UpTo(Places(pre) \o buffer, at)
  BY <1>1, PlacesType DEF Typed, Ordered
<1>4. /\ at' \in Nat /\ line' \in Nat /\ from' \in Froms /\ buffer' \in Seq(Nat) /\ pre' \in Seq(AnyToken)
      /\ Ordered'
  <2>1. CASE GivesUp
    <3>1. pre' \in Seq(AnyToken) /\ Rising(Places(pre'))
      <4>1. Saved \in Seq(AnyToken) /\ Rising(Places(Saved))
        <5>1. Saved \in Seq(AnyToken) /\ StartOf(Places(Saved), Places(pre) \o buffer)
          BY <1>1, SavedFacts
        <5>2. PICK d \in Seq(Nat) : Places(pre) \o buffer = Places(Saved) \o d
          BY <5>1 DEF StartOf
        <5>3. Rising(Places(Saved) \o d) /\ Places(Saved) \in Seq(Nat)
          BY <1>3, <5>1, <5>2, PlacesType
        <5>4. QED
          BY <5>1, <5>3, RisingPrefix
      <4>2. pre \in Seq(AnyToken)
        BY <1>1 DEF Typed
      <4>3. pre' = pre \/ pre' = Saved
        BY <2>1 DEF GivesUp
      <4>4. QED
        BY <1>3, <4>1, <4>2, <4>3
    <3>2. mode' \notin Reading /\ UNCHANGED <<at, line, from, buffer>>
      BY <2>1 DEF GivesUp
    <3>3. QED
      BY <1>1, <3>1, <3>2 DEF Typed, Ordered
  <2>2. ASSUME NEW s \in Seq(Nat), Adds(s)
        PROVE  /\ at' \in Nat /\ line' \in Nat /\ from' \in Froms /\ buffer' \in Seq(Nat) /\ pre' \in Seq(AnyToken)
               /\ Ordered'
    <3>1. /\ at' \in Nat /\ at <= at' /\ Between(s, at, at')
          /\ line' \in Nat /\ from' \in Froms /\ buffer' \in Seq(Nat) /\ pre' \in Seq(AnyToken)
      BY <2>2 DEF Adds
    <3>2. PICK k : StartOf(k, Places(pre) \o buffer) /\ Places(pre') \o buffer' = k \o s
      BY <2>2 DEF Adds
    <3>3. Places(pre') \in Seq(Nat) /\ Places(pre) \o buffer \in Seq(Nat)
      BY <1>3, <3>1, PlacesType, ConcatProperties
    <3>4. Rising(Places(pre')) /\ Rising(Places(pre') \o buffer') /\ UpTo(Places(pre') \o buffer', at')
      BY <1>3, <3>1, <3>2, <3>3, Grows
    <3>5. QED
      BY <3>1, <3>4 DEF Ordered
  <2>3. QED
    BY <1>1, <2>1, <2>2, ReadStepEffect DEF Effect
<1>5. Kept'
  BY <1>2, <1>4, RestOfAll DEF Untouched, Kept, Rest
<1>6. Typed'
  <2>1. taken' = 0 /\ held' = <<>> /\ tokens' = <<>> /\ Len(pre') \in Nat
    BY <1>2, <1>4 DEF Untouched
  <2>2. <<>> \in Seq(AnyToken)
    OBVIOUS
  <2>3. QED
    BY <1>4, <2>1, <2>2 DEF Typed
<1>7. QED
  BY <1>2, <1>4, <1>5, <1>6 DEF IInv

(***************************************************************************)
(* What _sbLexer does with tokens: it hands ts on, has h in hand, and has  *)
(* taken n tokens, which together are the characters that it had before.   *)
(***************************************************************************)
Took(n) == SubSeq(pre, taken + 1, taken + n)

InHand(h) == h = <<>> \/ \E t \in AnyToken : h = <<t>>

Same(S, h, H, K)            == S \o h = H \o K
Regrouped(T, S, h, R, H, K) == ((T \o S) \o h) \o R = (T \o H) \o (K \o R)
InParts(a, b, c)            == Places(a \o b \o c) = (Places(a) \o Places(b)) \o Places(c)

LEMMA Reassociate ==
  ASSUME NEW T \in Seq(Nat), NEW H \in Seq(Nat), NEW K \in Seq(Nat), NEW R \in Seq(Nat),
         NEW S \in Seq(Nat), NEW h \in Seq(Nat), Same(S, h, H, K)
  PROVE  Regrouped(T, S, h, R, H, K)
<1>1. T \o H \in Seq(Nat)
  BY ConcatProperties
<1>2. Associates(T, S, h) /\ Associates(T, H, K) /\ Associates(T \o H, K, R)
  BY <1>1, Associate, Zenon
<1>3. /\ (T \o S) \o h = T \o (S \o h)
      /\ (T \o H) \o K = T \o (H \o K)
      /\ ((T \o H) \o K) \o R = (T \o H) \o (K \o R)
  BY <1>2, Zenon DEF Associates
<1>4. QED
  BY <1>3, Zenon DEF Same, Regrouped

LEMMA PlacesOfThree ==
  ASSUME NEW a \in Seq(AnyToken), NEW b \in Seq(AnyToken), NEW c \in Seq(AnyToken)
  PROVE  InParts(a, b, c)
<1>1. a \o b \in Seq(AnyToken)
  OBVIOUS
<1>2. Places(a \o b \o c) = Places(a \o b) \o Places(c)
  <2> DEFINE u == a \o b
  <2> HIDE DEF u
  <2>1. u \in Seq(AnyToken)
    BY <1>1 DEF u
  <2>2. Places(u \o c) = Places(u) \o Places(c)
    BY <2>1, PlacesConcat
  <2>3. QED
    BY <2>2, Zenon DEF u
<1>3. Places(a \o b) = Places(a) \o Places(b)
  BY PlacesConcat
<1>4. QED
  BY <1>2, <1>3 DEF InParts

LEMMA InHandSeq == \A h : InHand(h) => h \in Seq(AnyToken)
<1>1. <<>> \in Seq(AnyToken) /\ \A t \in AnyToken : <<t>> \in Seq(AnyToken)
  OBVIOUS
<1>2. QED
  BY <1>1, Zenon DEF InHand

LEMMA HandsOver ==
  ASSUME IInv, mode = "join", NEW n \in 0 .. Left, NEW ts \in Seq(AnyToken), NEW h, InHand(h),
         UNCHANGED <<at, mode, buffer, from, line, pre>>,
         tokens' = tokens \o ts, held' = h, taken' = taken + n,
         Places(ts) \o Places(h) = Places(held) \o Places(Took(n))
  PROVE  IInv'
<1> DEFINE rest == SubSeq(pre, taken + n + 1, Len(pre))
<1>1. /\ pre \in Seq(AnyToken) /\ tokens \in Seq(AnyToken) /\ held \in Seq(AnyToken) /\ h \in Seq(AnyToken)
      /\ Len(pre) \in Nat /\ taken \in 0 .. Len(pre) /\ taken + n \in taken .. Len(pre) /\ n \in Nat
  <2>1. pre \in Seq(AnyToken) /\ tokens \in Seq(AnyToken) /\ taken \in 0 .. Len(pre) /\ InHand(held)
    BY DEF IInv, Typed, InHand
  <2>2. \A g : InHand(g) => g \in Seq(AnyToken)
    BY InHandSeq
  <2>3. Len(pre) \in Nat /\ taken + n \in taken .. Len(pre) /\ n \in Nat
    BY <2>1 DEF Left
  <2>4. QED
    BY <2>1, <2>2, <2>3
<1>2. \A i \in 1 .. Len(pre) : pre[i] \in AnyToken
  BY <1>1
<1>3. Took(n) \in Seq(AnyToken) /\ rest \in Seq(AnyToken) /\ Rest = Took(n) \o rest
  <2>1. taken + 1 \in 1 .. Len(pre) + 1 /\ taken + n \in (taken + 1) - 1 .. Len(pre)
        /\ Len(pre) \in taken + n .. Len(pre)
    BY <1>1
  <2>2. SubSeq(pre, taken + 1, taken + n) \o SubSeq(pre, (taken + n) + 1, Len(pre)) = SubSeq(pre, taken + 1, Len(pre))
    BY <1>1, <2>1, ConcatAdjacentSubSeq
  <2>3. Took(n) \in Seq(AnyToken)
    <3>1. taken + 1 \in Int /\ taken + n \in Int /\ \A i \in taken + 1 .. taken + n : pre[i] \in AnyToken
      BY <1>1, <1>2
    <3>2. QED
      BY <3>1, SubSeqProperties DEF Took
  <2>4. rest \in Seq(AnyToken)
    <3>1. taken + n + 1 \in Int /\ Len(pre) \in Int /\ \A i \in taken + n + 1 .. Len(pre) : pre[i] \in AnyToken
      BY <1>1, <1>2
    <3>2. QED
      BY <3>1, SubSeqProperties
  <2>5. QED
    BY <2>2, <2>3, <2>4 DEF Took, Rest
<1>4. Rest' = rest
  BY DEF Rest
<1> HIDE DEF rest
<1> DEFINE T == Places(tokens)
           H == Places(held)
           K == Places(Took(n))
           R == Places(rest)
           S == Places(ts)
           J == Places(h)
<1>5. Places(tokens \o held \o Rest) = (T \o H) \o (K \o R)
  <2>1. Rest \in Seq(AnyToken) /\ Places(Rest) = K \o R
    BY <1>3, PlacesConcat, ConcatProperties
  <2>2. InParts(tokens, held, Rest)
    BY <1>1, <2>1, PlacesOfThree
  <2>3. QED
    BY <2>1, <2>2, Zenon DEF InParts
<1>6. Places(tokens' \o held' \o Rest') = ((T \o S) \o J) \o R
  <2>1. tokens \o ts \in Seq(AnyToken) /\ Places(tokens \o ts) = T \o S
    BY <1>1, PlacesConcat, ConcatProperties
  <2>2. tokens' \in Seq(AnyToken) /\ Places(tokens') = T \o S
    BY <2>1
  <2>3. Places(tokens' \o h \o rest) = (Places(tokens') \o J) \o R
    <3>1. InParts(tokens', h, rest)
      BY <1>1, <1>3, <2>2, PlacesOfThree
    <3>2. QED
      BY <3>1, Zenon DEF InParts
  <2>4. QED
    BY <1>4, <2>2, <2>3, Zenon
<1>7. T \in Seq(Nat) /\ H \in Seq(Nat) /\ K \in Seq(Nat) /\ R \in Seq(Nat) /\ S \in Seq(Nat) /\ J \in Seq(Nat)
  BY <1>1, <1>3, PlacesType
<1>8. Same(S, J, H, K)
  BY Zenon DEF Same
<1> HIDE DEF T, H, K, R, S, J
<1>9. Regrouped(T, S, J, R, H, K)
  BY <1>7, <1>8, Reassociate
<1>10. Kept'
  BY <1>5, <1>6, <1>9, Zenon DEF IInv, Kept, Regrouped
<1>11. Typed'
  <2>1. tokens \o ts \in Seq(AnyToken) /\ taken + n \in 0 .. Len(pre)
    BY <1>1, ConcatProperties
  <2>2. QED
    BY <2>1 DEF Typed, IInv, InHand
<1>12. Ordered'
  BY DEF IInv, Ordered
<1>13. QED
  BY <1>10, <1>11, <1>12 DEF IInv

LEMMA TookFew ==
  ASSUME Typed, NEW n \in 0 .. 3, n <= Left
  PROVE  /\ \A i \in 1 .. n : Coming(i) \in AnyToken
         /\ n = 0 => Took(n) = <<>>
         /\ n = 1 => Took(n) = <<Coming(1)>>
         /\ n = 2 => Took(n) = <<Coming(1), Coming(2)>>
         /\ n = 3 => Took(n) = <<Coming(1), Coming(2), Coming(3)>>
<1>1. /\ pre \in Seq(AnyToken) /\ Len(pre) \in Nat /\ taken \in 0 .. Len(pre) /\ taken + n <= Len(pre)
  BY DEF Typed, Left
<1>2. \A i \in 1 .. n : Coming(i) \in AnyToken
  BY <1>1 DEF Coming
<1>3. /\ taken + 1 \in Int /\ taken + n \in Int
      /\ \A i \in taken + 1 .. taken + n : pre[i] \in AnyToken
  BY <1>1
<1>4. /\ Took(n) \in Seq(AnyToken) /\ Len(Took(n)) = n
      /\ \A i \in 1 .. n : Took(n)[i] = Coming(i)
  <2>1. /\ Took(n) \in Seq(AnyToken)
        /\ Len(Took(n)) = IF taken + 1 <= taken + n THEN (taken + n) - (taken + 1) + 1 ELSE 0
        /\ \A i \in 1 .. (taken + n) - (taken + 1) + 1 : Took(n)[i] = pre[(taken + 1) + i - 1]
    BY <1>3, SubSeqProperties DEF Took
  <2>2. (taken + n) - (taken + 1) + 1 = n /\ \A i \in 1 .. n : (taken + 1) + i - 1 = taken + i
    BY <1>1
  <2>3. Len(Took(n)) = n
    BY <1>1, <2>1, <2>2
  <2>4. ASSUME NEW i \in 1 .. n PROVE Took(n)[i] = Coming(i)
    BY <2>1, <2>2 DEF Coming
  <2>5. QED
    BY <2>1, <2>3, <2>4
<1>5. QED
  BY <1>2, <1>4

ThreeInOrder(a, b, c) == Places(<<a, b, c>>) = (a.at \o b.at) \o c.at

LEMMA FewTokens ==
  /\ \A a \in AnyToken : <<a>> \in Seq(AnyToken) /\ Places(<<a>>) = a.at /\ InHand(<<a>>)
  /\ \A a, b \in AnyToken : <<a, b>> \in Seq(AnyToken) /\ Places(<<a, b>>) = a.at \o b.at
  /\ \A a, b, c \in AnyToken : ThreeInOrder(a, b, c)
<1>1. \A a \in AnyToken : <<a>> \in Seq(AnyToken) /\ InHand(<<a>>)
  BY DEF InHand
<1>2. \A a, b \in AnyToken : <<a, b>> \in Seq(AnyToken)
  OBVIOUS
<1>3. ASSUME NEW a \in AnyToken, NEW b \in AnyToken, NEW c \in AnyToken
      PROVE  ThreeInOrder(a, b, c)
  <2>1. <<a, b, c>> = Append(<<a, b>>, c) /\ <<a, b>> \in Seq(AnyToken)
    OBVIOUS
  <2>2. QED
    BY <2>1, PlacesAppend, PlacesTwo DEF ThreeInOrder
<1>4. QED
  BY <1>1, <1>2, <1>3, PlacesOne, PlacesTwo

LEMMA FusedFacts ==
  ASSUME NEW a \in AnyToken, NEW b \in AnyToken, NEW c \in AnyToken, NEW k \in {"number", "symbol"}
  PROVE  Fused(a, b, k, c.from) \in AnyToken /\ Fused(a, b, k, c.from).at = a.at \o b.at
<1>1. a.at \in Seq(Nat) /\ b.at \in Seq(Nat) /\ c.from \in Froms
  BY DEF AnyToken
<1>2. a.at \o b.at \in Seq(Nat)
  BY <1>1, ConcatProperties
<1>3. QED
  BY <1>1, <1>2 DEF Fused, Token, AnyToken

LEMMA JoinsSome ==
  ASSUME IInv, Joins, NEW n \in 0 .. Left, NEW ts \in Seq(AnyToken), Join(ts, n), Places(ts) = Places(Took(n))
  PROVE  IInv'
<1>1. /\ UNCHANGED <<at, mode, buffer, from, line, pre>> /\ mode = "join" /\ held = <<>>
      /\ tokens' = tokens \o ts /\ held' = <<>> /\ taken' = taken + n
  BY DEF Join, Joins
<1>2. Places(ts) \o Places(<<>>) = Places(held) \o Places(Took(n))
  <2>1. Places(ts) \in Seq(Nat)
    BY PlacesType
  <2>2. Places(ts) \o <<>> = Places(ts) /\ <<>> \o Places(ts) = Places(ts)
    BY <2>1, ConcatEmptySeq
  <2>3. QED
    BY <1>1, <2>2, PlacesEmpty
<1>3. InHand(<<>>)
  BY DEF InHand
<1>4. QED
  BY <1>1, <1>2, <1>3, HandsOver

LEMMA JoinOnes ==
  ASSUME IInv, Joins, Left > 0, Join(<<Coming(1)>>, 1)
  PROVE  IInv'
<1>1. Typed /\ Left \in Nat /\ 1 \in 0 .. 3 /\ 1 <= Left /\ 1 \in 0 .. Left
  BY DEF IInv, Typed, Left
<1>2. Coming(1) \in AnyToken /\ Took(1) = <<Coming(1)>>
  BY <1>1, TookFew
<1>3. <<Coming(1)>> \in Seq(AnyToken)
  BY <1>2, FewTokens
<1>4. QED
  BY <1>1, <1>2, <1>3, JoinsSome

LEMMA JoinTwos ==
  ASSUME IInv, Joins, Left > 1, NEW i \in {1, 2},
         \/ Join(<<Coming(1), Coming(2)>>, 2)
         \/ Join(<<Fused(Coming(1), Coming(2), "number", Coming(i).from)>>, 2)
  PROVE  IInv'
<1> DEFINE f == Fused(Coming(1), Coming(2), "number", Coming(i).from)
<1>1. Typed /\ Left \in Nat /\ 2 \in 0 .. 3 /\ 2 <= Left /\ 2 \in 0 .. Left
  BY DEF IInv, Typed, Left
<1>2. Coming(1) \in AnyToken /\ Coming(2) \in AnyToken /\ Took(2) = <<Coming(1), Coming(2)>>
  BY <1>1, TookFew
<1>3. <<Coming(1), Coming(2)>> \in Seq(AnyToken) /\ Places(<<Coming(1), Coming(2)>>) = Coming(1).at \o Coming(2).at
  BY <1>2, FewTokens
<1>4. f \in AnyToken /\ f.at = Coming(1).at \o Coming(2).at
  BY <1>2, FusedFacts, ZenonT(40)
<1>5. <<f>> \in Seq(AnyToken) /\ Places(<<f>>) = f.at
  BY <1>4, FewTokens
<1> HIDE DEF f
<1>6. CASE Join(<<Coming(1), Coming(2)>>, 2)
  BY <1>1, <1>2, <1>3, <1>6, JoinsSome
<1>7. ASSUME Join(<<f>>, 2) PROVE IInv'
  BY <1>1, <1>2, <1>3, <1>4, <1>5, <1>7, JoinsSome
<1>8. QED
  BY <1>6, <1>7 DEF f

LEMMA JoinThrees ==
  ASSUME IInv, Joins, Left > 2,
         LET whole == Fused(Coming(1), Coming(2), "number", Coming(1).from)
         IN  \/ Join(<<Fused(whole, Coming(3), "number", Coming(3).from)>>, 3)
             \/ Join(<<whole, Coming(3)>>, 3)
  PROVE  IInv'
<1> DEFINE w == Fused(Coming(1), Coming(2), "number", Coming(1).from)
           f == Fused(w, Coming(3), "number", Coming(3).from)
<1>1. Typed /\ Left \in Nat /\ 3 \in 0 .. 3 /\ 3 <= Left /\ 3 \in 0 .. Left
  BY DEF IInv, Typed, Left
<1>2. /\ Coming(1) \in AnyToken /\ Coming(2) \in AnyToken /\ Coming(3) \in AnyToken
      /\ Took(3) = <<Coming(1), Coming(2), Coming(3)>>
  BY <1>1, TookFew
<1>3. Places(Took(3)) = (Coming(1).at \o Coming(2).at) \o Coming(3).at
  <2>1. ThreeInOrder(Coming(1), Coming(2), Coming(3))
    BY <1>2, FewTokens
  <2>2. QED
    BY <1>2, <2>1, Zenon DEF ThreeInOrder
<1>4. w \in AnyToken /\ w.at = Coming(1).at \o Coming(2).at
  BY <1>2, FusedFacts
<1>5. Join(<<f>>, 3) \/ Join(<<w, Coming(3)>>, 3)
  OBVIOUS
<1> HIDE DEF w
<1>6. f \in AnyToken /\ f.at = w.at \o Coming(3).at
  BY <1>2, <1>4, FusedFacts
<1> HIDE DEF f
<1>7. /\ <<f>> \in Seq(AnyToken) /\ Places(<<f>>) = f.at
      /\ <<w, Coming(3)>> \in Seq(AnyToken) /\ Places(<<w, Coming(3)>>) = w.at \o Coming(3).at
  BY <1>2, <1>4, <1>6, FewTokens
<1>8. Places(<<f>>) = Places(Took(3)) /\ Places(<<w, Coming(3)>>) = Places(Took(3))
  BY <1>3, <1>4, <1>6, <1>7
<1>9. QED
  BY <1>1, <1>5, <1>7, <1>8, JoinsSome

JoinForms ==
  \/ Left > 0 /\ Join(<<Coming(1)>>, 1)
  \/ Left > 1 /\ Join(<<Coming(1), Coming(2)>>, 2)
  \/ /\ Left > 1
     /\ \E i \in {1, 2} : Join(<<Fused(Coming(1), Coming(2), "number", Coming(i).from)>>, 2)
  \/ /\ Left > 2
     /\ LET whole == Fused(Coming(1), Coming(2), "number", Coming(1).from)
        IN  \/ Join(<<Fused(whole, Coming(3), "number", Coming(3).from)>>, 3)
            \/ Join(<<whole, Coming(3)>>, 3)

LEMMA JoinsInForms ==
  ASSUME Typed, JoinNumber \/ JoinPoint \/ JoinOther
  PROVE  Joins /\ JoinForms
<1>1. Joins /\ Left > 0 /\ Left \in Nat
  <2>1. Joins /\ Left > 0
    BY DEF JoinNumber, JoinPoint, JoinOther
  <2>2. Left \in Nat
    BY DEF Typed, Left
  <2>3. QED
    BY <2>1, <2>2
<1>2. CASE JoinNumber
  <2>1. \/ Left = 1
        \/ Left > 1 /\ ~IsPoint(Coming(2))
        \/ Left = 2 /\ IsPoint(Coming(2))
        \/ Left > 2 /\ IsPoint(Coming(2))
    BY <1>1
  <2>2. \/ Left = 1 /\ Join(<<Coming(1)>>, 1)
        \/ Left > 1 /\ Join(<<Coming(1), Coming(2)>>, 2)
        \/ Left = 2 /\ Join(<<Fused(Coming(1), Coming(2), "number", Coming(1).from)>>, 2)
        \/ /\ Left > 2
           /\ LET whole == Fused(Coming(1), Coming(2), "number", Coming(1).from)
              IN  \/ Join(<<Fused(whole, Coming(3), "number", Coming(3).from)>>, 3)
                  \/ Join(<<whole, Coming(3)>>, 3)
    BY <1>2, <2>1 DEF JoinNumber
  <2>3. QED
    BY <1>1, <2>2 DEF JoinForms
<1>3. CASE JoinPoint
  <2>1. \/ Left = 1
        \/ Left > 1 /\ Coming(2).type = "number"
        \/ Left > 1 /\ Coming(2).type # "number"
    BY <1>1
  <2>2. \/ Left = 1 /\ Join(<<Coming(1)>>, 1)
        \/ Left > 1 /\ Join(<<Fused(Coming(1), Coming(2), "number", Coming(2).from)>>, 2)
        \/ Left > 1 /\ Join(<<Coming(1), Coming(2)>>, 2)
    BY <1>3, <2>1 DEF JoinPoint
  <2>3. QED
    BY <1>1, <2>2 DEF JoinForms
<1>4. CASE JoinOther
  BY <1>1, <1>4 DEF JoinOther, JoinForms
<1>5. QED
  BY <1>2, <1>3, <1>4

LEMMA JoinStep ==
  ASSUME IInv, JoinNumber \/ JoinPoint \/ JoinOther
  PROVE  IInv'
<1>1. Typed
  BY DEF IInv
<1>2. Joins /\ JoinForms
  BY <1>1, JoinsInForms
<1>3. QED
  BY <1>2, JoinOnes, JoinTwos, JoinThrees DEF JoinForms

(* Holding on to a token, and letting go of it. *)
LEMMA HoldsSome ==
  ASSUME IInv, mode = "join", NEW n \in 0 .. Left, NEW ts \in Seq(AnyToken), NEW h, InHand(h), NEW r,
         Hold(ts, h, r, n), Places(ts) \o Places(h) = Places(held) \o Places(Took(n))
  PROVE  IInv'
BY HandsOver DEF Hold

LEMMA Takes ==
  ASSUME IInv, Take
  PROVE  IInv'
<1>1. /\ mode = "join" /\ held = <<>> /\ Left > 0 /\ UNCHANGED <<at, mode, buffer, from, line, pre>>
      /\ tokens' = tokens /\ held' = <<Coming(1)>> /\ taken' = taken + 1
  BY DEF Take, Joins
<1>2. Typed /\ Left \in Nat /\ 1 \in 0 .. 3 /\ 1 <= Left /\ 1 \in 0 .. Left /\ tokens \in Seq(AnyToken)
  BY <1>1 DEF IInv, Typed, Left
<1>3. Coming(1) \in AnyToken /\ Took(1) = <<Coming(1)>>
  BY <1>2, TookFew
<1>4. InHand(<<Coming(1)>>) /\ <<>> \in Seq(AnyToken)
  BY <1>3, FewTokens
<1>5. tokens \o <<>> = tokens
  BY <1>2, ConcatEmptySeq
<1>6. Places(<<>>) \o Places(<<Coming(1)>>) = Places(held) \o Places(Took(1))
  BY <1>1, <1>3
<1>7. QED
  BY <1>1, <1>2, <1>4, <1>5, <1>6, HandsOver

LEMMA HeldFacts ==
  ASSUME IInv, Holds
  PROVE  /\ Typed /\ mode = "join" /\ Left \in Nat /\ held \in Seq(AnyToken) /\ held[1] \in AnyToken /\ held = <<held[1]>>
         /\ Places(held) = held[1].at
<1>1. Typed /\ mode = "join" /\ Left \in Nat
  BY DEF IInv, Typed, Left, Holds
<1>2. PICK t \in AnyToken : held = <<t>>
  BY DEF IInv, Typed, Holds
<1>3. held[1] = t /\ held = <<held[1]>>
  BY <1>2
<1>4. QED
  BY <1>1, <1>2, <1>3, FewTokens

LEMMA LetsGo ==
  ASSUME IInv, Holds, Hold(held, <<>>, 1, 0)
  PROVE  IInv'
<1>1. /\ Typed /\ mode = "join" /\ Left \in Nat /\ held \in Seq(AnyToken)
      /\ 0 \in 0 .. 3 /\ 0 <= Left /\ 0 \in 0 .. Left
  BY HeldFacts
<1>2. Took(0) = <<>>
  BY <1>1, TookFew
<1>3. InHand(<<>>) /\ Places(held) \o Places(<<>>) = Places(held) \o Places(Took(0))
  BY <1>2 DEF InHand
<1>4. QED
  BY <1>1, <1>3, HoldsSome

LEMMA JoinsOperator ==
  ASSUME IInv, JoinOperator
  PROVE  IInv'
<1>1. PICK k \in Tried(held[1]) :
         IF Left = 0 THEN Hold(held, <<>>, 1, 0)
         ELSE IF Coming(1).type = "symbol" /\ Written(meant, Coming(1)) \in Halves(Operators[k])
         THEN Hold(<<Fused(held[1], Coming(1), "symbol", Coming(1).from)>>, <<>>, 1, 1)
         ELSE Hold(held, <<Coming(1)>>, k + 1, 1)
  BY DEF JoinOperator
<1>2. Holds
  BY DEF JoinOperator
<1>3. /\ Typed /\ mode = "join" /\ Left \in Nat /\ held \in Seq(AnyToken) /\ held[1] \in AnyToken
      /\ Places(held) = held[1].at
  BY <1>2, HeldFacts
<1>4. CASE Left = 0
  BY <1>1, <1>2, <1>4, LetsGo
<1>5. CASE Left # 0
  <2> DEFINE f == Fused(held[1], Coming(1), "symbol", Coming(1).from)
  <2>1. 1 \in 0 .. 3 /\ 1 <= Left /\ 1 \in 0 .. Left
    BY <1>3, <1>5
  <2>2. Coming(1) \in AnyToken /\ Took(1) = <<Coming(1)>>
    BY <1>3, <2>1, TookFew
  <2>3. f \in AnyToken /\ f.at = held[1].at \o Coming(1).at
    BY <1>3, <2>2, FusedFacts
  <2>4. Hold(<<f>>, <<>>, 1, 1) \/ Hold(held, <<Coming(1)>>, k + 1, 1)
    BY <1>1, <1>5
  <2> HIDE DEF f
  <2>5. /\ <<f>> \in Seq(AnyToken) /\ Places(<<f>>) = f.at
        /\ Places(<<Coming(1)>>) = Coming(1).at /\ InHand(<<Coming(1)>>) /\ InHand(<<>>)
    BY <2>2, <2>3, FewTokens DEF InHand
  <2>6. Places(<<f>>) \o Places(<<>>) = Places(held) \o Places(Took(1))
    <3>1. Places(<<f>>) \o <<>> = Places(<<f>>)
      BY <2>5, PlacesType, ConcatEmptySeq
    <3>2. QED
      BY <1>3, <2>2, <2>3, <2>5, <3>1, PlacesEmpty
  <2>7. Places(held) \o Places(<<Coming(1)>>) = Places(held) \o Places(Took(1))
    BY <2>2
  <2>8. QED
    BY <1>3, <2>1, <2>4, <2>5, <2>6, <2>7, HoldsSome
<1>6. QED
  BY <1>4, <1>5

LEMMA Starts == Init => IInv
<1> SUFFICES ASSUME Init PROVE IInv
  OBVIOUS
<1>1. /\ at = 0 /\ mode = "code" /\ buffer = <<>> /\ from = NoPlace /\ line = 0
      /\ pre = <<>> /\ taken = 0 /\ held = <<>> /\ tokens = <<>>
  BY DEF Init
<1>2. pre \in Seq(AnyToken) /\ tokens \in Seq(AnyToken) /\ buffer \in Seq(Nat) /\ Len(pre) = 0
  BY <1>1
<1>3. NoPlace \in Froms
  BY DEF NoPlace, Froms
<1>4. Typed
  BY <1>1, <1>2, <1>3 DEF Typed
<1>5. Places(pre) = <<>> /\ Places(pre) \o buffer = <<>> /\ Places(<<>> \o <<>> \o SubSeq(pre, 1, Len(pre))) = Places(pre)
  <2>1. Places(pre) = <<>> /\ <<>> \o <<>> = <<>>
    BY <1>1, PlacesEmpty
  <2>2. Places(<<>> \o <<>> \o SubSeq(pre, 1, Len(pre))) = Places(pre)
    BY <1>2, RestOfAll
  <2>3. QED
    BY <1>1, <2>1, <2>2
<1>6. Rising(<<>>) /\ UpTo(<<>>, at)
  BY DEF Rising, UpTo
<1>7. QED
  BY <1>1, <1>4, <1>5, <1>6 DEF IInv, Ordered, Kept, Rest, Untouched

LEMMA Stays == IInv /\ [Next]_vars => IInv'
<1> SUFFICES ASSUME IInv, [Next]_vars PROVE IInv'
  OBVIOUS
<1>1. CASE ReadStep
  BY <1>1, ReadStepKeeps
<1>2. CASE JoinNumber \/ JoinPoint \/ JoinOther
  BY <1>2, JoinStep
<1>3. CASE Take
  BY <1>3, Takes
<1>4. CASE LetGo
  BY <1>4, LetsGo DEF LetGo
<1>5. CASE JoinOperator
  BY <1>5, JoinsOperator
<1>6. CASE EndJoin
  BY <1>6 DEF EndJoin, Joins, IInv, Typed, Ordered, Kept, Rest, Reading, joining
<1>7. CASE Stopped \/ UNCHANGED vars
  BY <1>7 DEF Stopped, vars, source, joining, IInv, Typed, Ordered, Kept, Rest, Untouched
<1>8. QED
  BY <1>1, <1>2, <1>3, <1>4, <1>5, <1>6, <1>7 DEF Next, ReadStep

(* Whatever the text, every character that _sbPreLexer made part of a      *)
(* token is part of one token, or of the one in hand, when _sbLexer has    *)
(* joined neighbours, and in the order of the text (lexer.c:676-975).      *)
THEOREM LosesNothing == Spec => []NothingLost
<1>1. IInv => NothingLost
  BY DEF IInv, Kept, Ordered, Rising, Rest, NothingLost
<1>2. QED
  BY Starts, Stays, <1>1, PTL DEF Spec

(***************************************************************************)
(* The lines of tokens.  The code loses count in two places: a newline     *)
(* after a star in a note is not counted, and a word that an escape        *)
(* sequence begins, outside a string, keeps no position.  Careful excludes *)
(* exactly these.                                                          *)
(***************************************************************************)
Careful ==
  /\ Reads({"note"}) /\ Char = "*" => Follower(1) # "\n"
  /\ InCode /\ Char = "\\" => Follower(1) = "\n" \/ EscapeLength = 0

Lines(n)   == Cardinality({p \in 1 .. n : text[p] = "\n"})
Lined(f)   == f.line = Lines(f.place - 1)
RightToken == {t \in AnyToken : Lined(t.from)}

Counted ==
  mode \in Reading =>
    /\ line = Lines(at)
    /\ from # NoPlace \/ buffer # <<>> \/ mode = "string" => Lined(from)
    /\ mode \in {"number", "hex"} => buffer # <<>>

Quoted == mode = "string" => quote \in Quotes

LInv == pre \in Seq(RightToken) /\ tokens \in Seq(RightToken) /\ held \in Seq(RightToken) /\ Counted /\ Quoted

LEMMA LinesNext ==
  ASSUME NEW n \in Nat
  PROVE  Lines(n) \in Nat /\ Lines(n + 1) = Lines(n) + Newlines(text[n + 1])
<1> DEFINE A == {p \in 1 .. n : text[p] = "\n"}
           B == {p \in 1 .. n + 1 : text[p] = "\n"}
<1>1. IsFiniteSet(A) /\ Cardinality(A) \in Nat
  <2>1. IsFiniteSet(1 .. n) /\ A \subseteq 1 .. n
    BY FS_Interval
  <2>2. QED
    BY <2>1, FS_Subset, FS_CardinalityType
<1>2. CASE text[n + 1] = "\n"
  <2>1. B = A \cup {n + 1} /\ n + 1 \notin A
    BY <1>2
  <2>2. Cardinality(B) = Cardinality(A) + 1
    BY <1>1, <2>1, FS_AddElement
  <2>3. QED
    BY <1>1, <1>2, <2>2 DEF Lines, Newlines
<1>3. CASE text[n + 1] # "\n"
  <2>1. B = A
    BY <1>3
  <2>2. QED
    BY <1>1, <1>3, <2>1 DEF Lines, Newlines
<1>4. QED
  BY <1>2, <1>3

LEMMA PositionLined ==
  ASSUME Typed, line = Lines(at)
  PROVE  Lined(Position)
BY DEF Typed, Lined, Position, Here

(* There is something to make a token of, or the buffer is empty. *)
CanSave == mode \in {"code", "number", "hex"} \/ buffer # <<>>

LEMMA SavedRight ==
  ASSUME Typed, LInv, mode \in Reading, CanSave
  PROVE  Saved \in Seq(RightToken)
<1>1. CASE Idle
  BY <1>1 DEF Saved, LInv
<1>2. CASE ~Idle
  <2> DEFINE t == Token(IF mode = "code" THEN "word" ELSE "number", UpToNul(buffer), from)
  <2>1. t \in AnyToken /\ t.from = from
    <3>1. UpToNul(buffer) \in Seq(Nat)
      BY UpToNulIs DEF Typed
    <3>2. QED
      BY <3>1 DEF Token, AnyToken, Typed
  <2>2. Lined(from)
    <3>1. buffer # <<>>
      BY <1>2, UpToNulEmpty DEF Idle, LInv, Counted, CanSave
    <3>2. QED
      BY <3>1 DEF LInv, Counted
  <2>3. t \in RightToken
    BY <2>1, <2>2 DEF RightToken
  <2>4. Saved = Append(pre, t)
    BY <1>2 DEF Saved
  <2> HIDE DEF t
  <2>5. QED
    BY <2>3, <2>4 DEF LInv
<1>3. QED
  BY <1>1, <1>2

NextRight ==
  /\ pre' \in Seq(RightToken)
  /\ mode' \in Reading =>
       /\ line' = Lines(at')
       /\ from' # NoPlace \/ buffer' # <<>> \/ mode' = "string" => Lined(from')
       /\ mode' \in {"number", "hex"} => buffer' # <<>>

(* What is known of the next characters before they are read. *)
LEMMA LinesAhead ==
  ASSUME Typed, LInv, mode \in Reading
  PROVE  /\ line = Lines(at) /\ line \in Nat /\ at \in Nat /\ Lined(Position)
         /\ (CanSave => Saved \in Seq(RightToken)) /\ (InCode => CanSave) /\ pre \in Seq(RightToken)
         /\ from # NoPlace \/ buffer # <<>> \/ mode = "string" => Lined(from)
         /\ mode \in {"number", "hex"} => buffer # <<>>
         /\ Lines(at + 1) = line + Newlines(text[at + 1])
         /\ Lines(at + 2) = Lines(at + 1) + Newlines(text[at + 2])
         /\ Lines(at + 3) = Lines(at + 2) + Newlines(text[at + 3])
         /\ Lines(at + 4) = Lines(at + 3) + Newlines(text[at + 4])
<1>1. at \in Nat /\ line \in Nat /\ line = Lines(at)
  BY DEF Typed, LInv, Counted
<1>2. /\ at + 1 \in Nat /\ at + 2 \in Nat /\ at + 3 \in Nat
      /\ (at + 1) + 1 = at + 2 /\ (at + 2) + 1 = at + 3 /\ (at + 3) + 1 = at + 4
  BY <1>1
<1>3. Lines(at + 1) = line + Newlines(text[at + 1])
  BY <1>1, LinesNext
<1>4. Lines(at + 2) = Lines(at + 1) + Newlines(text[at + 2])
  BY <1>2, LinesNext, Zenon
<1>5. Lines(at + 3) = Lines(at + 2) + Newlines(text[at + 3])
  BY <1>2, LinesNext, Zenon
<1>6. Lines(at + 4) = Lines(at + 3) + Newlines(text[at + 4])
  BY <1>2, LinesNext, Zenon
<1>7. Lined(Position) /\ (CanSave => Saved \in Seq(RightToken)) /\ (InCode => CanSave)
  BY <1>1, PositionLined, SavedRight DEF InCode, Reads, CanSave
<1>8. QED
  BY <1>1, <1>3, <1>4, <1>5, <1>6, <1>7 DEF LInv, Counted

LEMMA SymbolRight ==
  ASSUME Typed, LInv, mode \in Reading, InCode, NEW n \in {1, 2}, Symbol(n), Char # "\n", n = 2 => text[at + 2] # "\n"
  PROVE  NextRight
<1> DEFINE b == IF Hidden THEN <<>> ELSE [k \in 1 .. n |-> at + k]
           t == Token("symbol", b, Position)
<1>1. t \in RightToken
  <2>1. at \in Nat /\ Position \in Froms /\ Lined(Position)
    BY LinesAhead, HereFacts
  <2>2. [k \in 1 .. n |-> at + k] \in Seq(Nat) /\ <<>> \in Seq(Nat)
    BY <2>1
  <2>3. b \in Seq(Nat)
    BY <2>2
  <2> HIDE DEF b
  <2>4. QED
    BY <2>1, <2>3 DEF Token, AnyToken, RightToken
<1>2. /\ pre' = Append(Saved, t) /\ at' = at + n /\ line' = line
      /\ mode' = "code" /\ buffer' = <<>> /\ from' = NoPlace
  BY DEF Symbol, Empty
<1> HIDE DEF t, b
<1>3. pre' \in Seq(RightToken)
  BY <1>1, <1>2, LinesAhead
<1>4. line' = Lines(at')
  <2>1. /\ at \in Nat /\ line \in Nat /\ Lines(at + 1) = line + Newlines(text[at + 1])
        /\ Lines(at + 2) = Lines(at + 1) + Newlines(text[at + 2])
    BY LinesAhead
  <2>2. Newlines(text[at + 1]) = 0
    BY DEF Newlines, Char
  <2>3. n = 2 => Newlines(text[at + 2]) = 0
    BY DEF Newlines
  <2>4. QED
    BY <1>2, <2>1, <2>2, <2>3
<1>5. QED
  BY <1>2, <1>3, <1>4 DEF NextRight

(* A character that is read alone is counted if it is a newline. *)
LEMMA OneRight ==
  ASSUME Typed, LInv, mode \in Reading, at' = at + 1, line' = line + Newlines(Char)
  PROVE  line' = Lines(at')
BY LinesAhead DEF Char

LEMMA NoNewline == \A c : c # "\n" => Newlines(c) = 0
BY DEF Newlines

LEMMA PairRight ==
  ASSUME Typed, LInv, mode \in Reading, ReadSingle \/ ReadPair
  PROVE  NextRight
<1>1. Char # "\n" /\ InCode
  BY DEF ReadSingle, ReadPair, Singles, Firsts
<1>2. CASE ReadSingle
  BY <1>1, <1>2, SymbolRight DEF ReadSingle
<1>3. CASE ReadPair
  <2>1. CASE Follower(1) \in Seconds(Char)
    <3>1. Follower(1) = text[at + 2] /\ text[at + 2] # "\n"
      <4>1. Char \in Firsts
        BY <1>3 DEF ReadPair
      <4>2. Seconds(Char) \subseteq {"=", ">", "*", "&", "|", "<"}
        BY <4>1 DEF Seconds, Firsts
      <4>3. Follower(1) \notin {"\n", "end"}
        BY <2>1, <4>2
      <4>4. at + 1 + 1 = at + 2
        BY LinesAhead
      <4>5. QED
        BY <4>3, <4>4 DEF Follower
    <3>2. Symbol(2)
      BY <1>3, <2>1 DEF ReadPair
    <3>3. QED
      BY <1>1, <3>1, <3>2, SymbolRight
  <2>2. CASE Follower(1) \notin Seconds(Char)
    <3>1. Symbol(1)
      BY <1>3, <2>2 DEF ReadPair
    <3>2. QED
      BY <1>1, <3>1, SymbolRight
  <2>3. QED
    BY <2>1, <2>2
<1>4. QED
  BY <1>2, <1>3

LEMMA FollowerFacts ==
  ASSUME Typed
  PROVE  /\ Follower(1) # "end" => Follower(1) = text[at + 2]
         /\ Follower(2) # "end" => Follower(2) = text[at + 3]
         /\ Follower(3) # "end" => Follower(3) = text[at + 4]
<1>1. at + 1 + 1 = at + 2 /\ at + 1 + 2 = at + 3 /\ at + 1 + 3 = at + 4
  BY DEF Typed
<1>2. QED
  BY <1>1 DEF Follower

LEMMA SlashRight ==
  ASSUME Typed, LInv, mode \in Reading, ReadSlash
  PROVE  NextRight
<1>1. Char # "\n" /\ InCode
  BY DEF ReadSlash
<1>2. CASE Follower(1) \in {"/", "*"}
  <2>1. /\ pre' = Saved /\ at' = at + 2 /\ line' = line /\ buffer' = <<>> /\ from' = NoPlace
        /\ mode' \in {"line note", "note"}
    BY <1>2 DEF ReadSlash, Empty
  <2>2. text[at + 2] # "\n"
    BY <1>2, FollowerFacts
  <2>3. line' = Lines(at')
    <3>1. Newlines(text[at + 1]) = 0 /\ Newlines(text[at + 2]) = 0
      BY <1>1, <2>2, NoNewline DEF Char
    <3>2. Lines(at + 2) = line
      BY <3>1, LinesAhead
    <3>3. QED
      BY <2>1, <3>2
  <2>4. QED
    BY <1>1, <2>1, <2>3, LinesAhead DEF NextRight
<1>3. CASE Follower(1) \notin {"/", "*"}
  <2>1. Symbol(1)
    BY <1>3 DEF ReadSlash
  <2>2. QED
    BY <1>1, <2>1, SymbolRight
<1>4. QED
  BY <1>2, <1>3

LEMMA SkipRight ==
  ASSUME Typed, LInv, mode \in Reading, Careful, SkipLineNote \/ SkipNote
  PROVE  NextRight
<1>1. UNCHANGED <<buffer, from, pre>>
  BY DEF SkipLineNote, SkipNote
<1>2. mode' \notin {"string", "number", "hex"} /\ mode # "string"
  BY DEF SkipLineNote, SkipNote, Reads
<1>3. mode' \in Reading => line' = Lines(at')
  <2>1. CASE at' = at + 1 /\ line' = line + Newlines(Char)
    BY <2>1, OneRight
  <2>2. CASE SkipNote /\ Char = "*"
    <3>1. Follower(1) # "\n" /\ at' = at + 2 /\ line' = line /\ (mode' \in Reading => Follower(1) # "end")
      BY <2>2 DEF SkipNote, Careful, Reading
    <3>2. mode' \in Reading => text[at + 2] # "\n"
      BY <3>1, FollowerFacts
    <3>3. Char # "\n"
      BY <2>2
    <3>4. QED
      BY <3>1, <3>2, <3>3, LinesAhead, NoNewline DEF Char
  <2>3. QED
    BY <2>1, <2>2 DEF SkipLineNote, SkipNote
<1>4. QED
  BY <1>1, <1>2, <1>3, LinesAhead DEF NextRight

LEMMA DigitRight ==
  ASSUME Typed, LInv, mode \in Reading, ReadDigit
  PROVE  NextRight
<1>1. Char # "\n" /\ at' = at + 1 /\ line' = line /\ pre' = pre /\ buffer' = Append(buffer, Here)
  BY DEF ReadDigit, Digits
<1>2. line' = line + Newlines(Char)
  BY <1>1, LinesAhead, NoNewline
<1>3. line' = Lines(at')
  BY <1>1, <1>2, OneRight
<1>4. buffer' # <<>>
  BY <1>1, SMTT(40) DEF Typed
<1>5. Lined(from')
  <2>1. CASE Idle
    <3>1. from' = Position
      BY <2>1 DEF ReadDigit
    <3>2. QED
      BY <3>1, LinesAhead
  <2>2. CASE ~Idle
    <3>1. from' = from /\ mode \in {"code", "number", "hex"}
      BY <2>2 DEF ReadDigit, InCode, Reads
    <3>2. buffer # <<>>
      BY <2>2, <3>1, UpToNulEmpty, LinesAhead DEF Idle
    <3>3. QED
      BY <3>1, <3>2, LinesAhead
  <2>3. QED
    BY <2>1, <2>2
<1>6. QED
  BY <1>1, <1>3, <1>4, <1>5, LinesAhead DEF NextRight

LEMMA LetterRight ==
  ASSUME Typed, LInv, mode \in Reading, ReadLetter
  PROVE  NextRight
<1> DEFINE digit  == mode = "hex" /\ Char \in HexLetters
           prefix == mode = "number" /\ Char = "x"
<1>1. InCode /\ Char # "\n" /\ at' = at + 1 /\ line' = line
  BY DEF ReadLetter, Letter, Blanks
<1>2. line' = line + Newlines(Char)
  BY <1>1, LinesAhead, NoNewline
<1>3. line' = Lines(at')
  BY <1>1, <1>2, OneRight
<1>4. \/ digit \/ prefix
      \/ mode # "code" /\ ~digit /\ ~prefix
      \/ mode = "code"
  OBVIOUS
<1>5. Append(buffer, Here) # <<>> /\ <<Here>> # <<>>
  BY DEF Typed
<1>6. CASE digit \/ prefix
  <2>1. from' = from /\ pre' = pre /\ buffer' = Append(buffer, Here) /\ mode \in {"number", "hex"}
    BY <1>6 DEF ReadLetter
  <2>2. QED
    BY <1>3, <1>5, <2>1, LinesAhead DEF NextRight
<1>7. CASE mode # "code" /\ ~digit /\ ~prefix
  <2>1. from' = Position /\ pre' = Saved /\ buffer' = <<Here>>
    BY <1>7 DEF ReadLetter
  <2>2. QED
    BY <1>1, <1>3, <1>5, <2>1, LinesAhead DEF NextRight
<1>8. CASE mode = "code"
  <2>1. from' \in {from, Position} /\ (from' = from => from # NoPlace \/ from = Position)
        /\ pre' = pre /\ buffer' = Append(buffer, Here)
    BY <1>8 DEF ReadLetter
  <2>2. Lined(from')
    BY <2>1, LinesAhead
  <2>3. QED
    BY <1>3, <1>5, <2>1, <2>2, LinesAhead DEF NextRight
<1>9. QED
  BY <1>4, <1>6, <1>7, <1>8

LEMMA BlankRight ==
  ASSUME Typed, LInv, mode \in Reading, ReadBlank
  PROVE  NextRight
<1>1. InCode /\ pre' = Saved /\ mode' = "code" /\ at' = at + 1 /\ line' = line + Newlines(Char)
  BY DEF ReadBlank
<1>2. from' # NoPlace \/ buffer' # <<>> => Lined(from')
  <2>1. CASE Hidden
    BY <2>1, LinesAhead DEF ReadBlank
  <2>2. CASE ~Hidden
    BY <2>2 DEF ReadBlank, Empty
  <2>3. QED
    BY <2>1, <2>2
<1>3. QED
  BY <1>1, <1>2, OneRight, LinesAhead DEF NextRight

LEMMA OpenRight ==
  ASSUME Typed, LInv, mode \in Reading, OpenString
  PROVE  NextRight
<1>1. /\ InCode /\ pre' = Saved /\ from' = Position /\ mode' = "string"
      /\ at' = at + 1 /\ line' = line /\ Char # "\n"
  BY DEF OpenString, Quotes
<1>2. line' = line + Newlines(Char)
  BY <1>1, LinesAhead, NoNewline
<1>3. QED
  BY <1>1, <1>2, OneRight, LinesAhead DEF NextRight

LEMMA CloseRight ==
  ASSUME Typed, LInv, mode \in Reading, CloseString
  PROVE  NextRight
<1> DEFINE t == Token("string", UpToNul(buffer), from)
<1>1. /\ pre' = Append(pre, t) /\ buffer' = <<>> /\ from' = NoPlace /\ mode' = "code"
      /\ at' = at + 1 /\ line' = line /\ Char = quote /\ mode = "string"
  BY DEF CloseString, InString, Reads, Empty
<1>2. t \in AnyToken /\ t.from = from
  <2>1. UpToNul(buffer) \in Seq(Nat)
    BY UpToNulIs DEF Typed
  <2>2. QED
    BY <2>1 DEF Token, AnyToken, Typed
<1>3. t \in RightToken
  BY <1>1, <1>2, LinesAhead DEF RightToken
<1> HIDE DEF t
<1>4. pre' \in Seq(RightToken)
  BY <1>1, <1>3, LinesAhead
<1>5. Char # "\n" => line' = Lines(at')
  <2> SUFFICES ASSUME Char # "\n" PROVE line' = Lines(at')
    OBVIOUS
  <2>1. line' = line + Newlines(Char)
    BY <1>1, LinesAhead, NoNewline
  <2>2. QED
    BY <1>1, <2>1, OneRight
<1>6. Char # "\n"
  BY <1>1 DEF LInv, Quoted, Quotes
<1>7. QED
  BY <1>1, <1>4, <1>5, <1>6 DEF NextRight

LEMMA InStringRight ==
  ASSUME Typed, LInv, mode \in Reading, ReadInString
  PROVE  NextRight
<1>1. /\ UNCHANGED <<from, pre, mode>> /\ mode = "string"
      /\ at' = at + 1 /\ line' = line + Newlines(Char)
  BY DEF ReadInString, InString, Reads
<1>2. QED
  BY <1>1, OneRight, LinesAhead DEF NextRight

LEMMA EscapeRight ==
  ASSUME Typed, LInv, mode \in Reading, Careful, Escape
  PROVE  NextRight
<1>1. /\ pre' \in {pre, Saved} /\ (pre' = pre \/ InCode) /\ Char = "\\" /\ (mode # "string" => InCode)
  BY DEF Escape, Reads, InCode
<1>2. pre' \in Seq(RightToken)
  BY <1>1, LinesAhead
<1>3. CASE EscapeLength = 0
  <2>1. mode' \notin Reading
    BY <1>3 DEF Escape, Reading
  <2>2. QED
    BY <1>2, <2>1 DEF NextRight
<1>4. CASE EscapeLength # 0
  <2>1. /\ at' = at + EscapeLength /\ line' = line + Newlines(Follower(1))
        /\ mode' = IF mode = "string" THEN mode ELSE "code"
        /\ from' \in {from, NoPlace} /\ (from' # from => mode # "string")
    BY <1>4 DEF Escape
  <2>2. \/ EscapeLength = 2
        \/ EscapeLength = 4 /\ Follower(1) = "x" /\ {Follower(2), Follower(3)} \subseteq Digits \cup HexLetters
    BY <1>4 DEF EscapeLength
  <2>3. EscapeLength = 2 => Follower(1) # "end"
    BY DEF EscapeLength
  <2>4. Newlines(text[at + 1]) = 0
    BY <1>1, NoNewline DEF Char
  <2>5. line' = Lines(at')
    <3>1. CASE EscapeLength = 2
      <4>1. Follower(1) = text[at + 2]
        BY <2>3, <3>1, FollowerFacts
      <4>2. QED
        BY <2>1, <2>4, <3>1, <4>1, LinesAhead
    <3>2. CASE EscapeLength = 4 /\ Follower(1) = "x" /\ {Follower(2), Follower(3)} \subseteq Digits \cup HexLetters
      <4>1. /\ Follower(1) \notin {"end", "\n"} /\ Follower(2) \notin {"end", "\n"}
            /\ Follower(3) \notin {"end", "\n"}
        BY <3>2 DEF Digits, HexLetters
      <4>2. text[at + 2] # "\n" /\ text[at + 3] # "\n" /\ text[at + 4] # "\n"
        BY <4>1, FollowerFacts
      <4>3. /\ Newlines(text[at + 2]) = 0 /\ Newlines(text[at + 3]) = 0 /\ Newlines(text[at + 4]) = 0
            /\ Newlines(Follower(1)) = 0
        BY <4>1, <4>2, NoNewline
      <4>4. QED
        BY <2>1, <2>4, <3>2, <4>3, LinesAhead
    <3>3. QED
      BY <2>2, <3>1, <3>2
  <2>6. CASE mode = "string"
    <3>1. from' = from /\ mode' = "string" /\ Lined(from)
      BY <2>1, <2>6, LinesAhead
    <3>2. QED
      BY <1>2, <2>5, <3>1 DEF NextRight
  <2>7. CASE mode # "string"
    <3>1. Follower(1) = "\n"
      BY <1>1, <1>4, <2>7 DEF Careful
    <3>2. mode' = "code" /\ ((buffer' = <<>> /\ from' = NoPlace) \/ UNCHANGED <<buffer, from>>)
      BY <1>4, <2>7, <3>1 DEF Escape
    <3>3. from' # NoPlace \/ buffer' # <<>> => Lined(from')
      BY <3>2, LinesAhead
    <3>4. QED
      BY <1>2, <2>5, <3>2, <3>3 DEF NextRight
  <2>8. QED
    BY <2>6, <2>7
<1>5. QED
  BY <1>3, <1>4

LEMMA EndRight ==
  ASSUME Typed, LInv, mode \in Reading, EndText
  PROVE  NextRight
<1>1. pre' \in {pre, Saved} /\ mode' \notin Reading
  BY DEF EndText, Reading
<1>2. pre' = pre \/ CanSave
  BY UpToNulEmpty DEF EndText, CanSave
<1>3. QED
  BY <1>1, <1>2, LinesAhead DEF NextRight

LEMMA ReadRight ==
  ASSUME Typed, LInv, Careful, ReadStep
  PROVE  NextRight
<1>1. mode \in Reading
  BY ReadStepEffect
<1>2. QED
  BY <1>1, PairRight, SlashRight, SkipRight, DigitRight, LetterRight, BlankRight, OpenRight, CloseRight,
     InStringRight, EscapeRight, EndRight DEF ReadStep

LEMMA StaysQuoted ==
  ASSUME Typed, Quoted, Next
  PROVE  Quoted'
<1>1. CASE OpenString
  BY <1>1 DEF Quoted, OpenString
<1>2. CASE ReadInString \/ Escape \/ Stopped
  BY <1>2 DEF Quoted, ReadInString, Escape, Stopped, vars
<1>3. CASE mode' # "string"
  BY <1>3 DEF Quoted
<1>4. CASE ReadSingle \/ ReadPair \/ ReadSlash \/ SkipLineNote \/ SkipNote \/ ReadDigit \/ ReadBlank \/ CloseString
  <2>1. mode' # "string"
    BY <1>4 DEF ReadSingle, ReadPair, ReadSlash, Symbol, SkipLineNote, SkipNote, ReadDigit, ReadBlank,
      CloseString, InCode, Reads
  <2>2. QED
    BY <1>3, <2>1
<1>5. CASE ReadLetter
  <2> DEFINE digit  == mode = "hex" /\ Char \in HexLetters
             prefix == mode = "number" /\ Char = "x"
  <2>1. \/ digit \/ prefix
        \/ mode # "code" /\ ~digit /\ ~prefix
        \/ mode = "code"
    OBVIOUS
  <2>2. mode' # "string"
    BY <1>5, <2>1 DEF ReadLetter
  <2>3. QED
    BY <1>3, <2>2
<1>6. CASE EndText \/ EndJoin
  BY <1>6 DEF Quoted, EndText, EndJoin
<1>7. CASE JoinNumber \/ JoinPoint \/ JoinOther \/ Take \/ LetGo \/ JoinOperator
  <2>1. mode = "join" /\ UNCHANGED mode
    <3>1. mode = "join"
      BY <1>7 DEF JoinNumber, JoinPoint, JoinOther, Take, LetGo, JoinOperator, Joins, Holds
    <3>2. CASE JoinNumber \/ JoinPoint \/ JoinOther
      <4>1. JoinForms
        BY <3>2, JoinsInForms
      <4>2. QED
        BY <3>1, <4>1 DEF JoinForms, Join
    <3>3. CASE Take \/ LetGo \/ JoinOperator
      BY <3>1, <3>3 DEF Take, LetGo, JoinOperator, Hold
    <3>4. QED
      BY <1>7, <3>2, <3>3
  <2>2. QED
    BY <2>1 DEF Quoted
<1>8. QED
  BY <1>1, <1>2, <1>4, <1>5, <1>6, <1>7 DEF Next

(* The joiner keeps the line of one of the tokens it joins. *)
LEMMA FusedRight ==
  ASSUME NEW a \in RightToken, NEW b \in RightToken, NEW c \in RightToken, NEW k \in {"number", "symbol"}
  PROVE  Fused(a, b, k, c.from) \in RightToken
<1>1. a \in AnyToken /\ b \in AnyToken /\ c \in AnyToken /\ Lined(c.from)
  BY DEF RightToken
<1>2. Fused(a, b, k, c.from) \in AnyToken
  BY <1>1, FusedFacts
<1>3. Fused(a, b, k, c.from).from = c.from
  BY DEF Fused, Token
<1>4. QED
  BY <1>1, <1>2, <1>3 DEF RightToken

LEMMA ComingRight ==
  ASSUME Typed, LInv
  PROVE  /\ Left \in Nat
         /\ Left > 0 => Coming(1) \in RightToken
         /\ Left > 1 => Coming(2) \in RightToken
         /\ Left > 2 => Coming(3) \in RightToken
<1>1. Len(pre) \in Nat /\ taken \in 0 .. Len(pre) /\ Left = Len(pre) - taken
  BY DEF Typed, Left
<1>2. \A i \in 1 .. Len(pre) : pre[i] \in RightToken
  BY DEF LInv
<1>3. QED
  BY <1>1, <1>2 DEF Coming

LEMMA FewRight ==
  /\ \A a \in RightToken : <<a>> \in Seq(RightToken)
  /\ \A a, b \in RightToken : <<a, b>> \in Seq(RightToken)
OBVIOUS

LEMMA JoinRight ==
  ASSUME Typed, LInv, JoinNumber \/ JoinPoint \/ JoinOther
  PROVE  tokens' \in Seq(RightToken) /\ UNCHANGED <<pre, held, mode, source>>
<1>1. JoinForms
  BY JoinsInForms
<1>2. ASSUME NEW ts \in Seq(RightToken), NEW n, Join(ts, n)
      PROVE  tokens' \in Seq(RightToken) /\ UNCHANGED <<pre, held, mode, source>>
  BY <1>2, ConcatProperties DEF Join, LInv
<1>3. CASE Left > 0 /\ Join(<<Coming(1)>>, 1)
  BY <1>2, <1>3, ComingRight, FewRight
<1>4. CASE Left > 1 /\ Join(<<Coming(1), Coming(2)>>, 2)
  <2>1. Coming(1) \in RightToken /\ Coming(2) \in RightToken
    BY <1>4, ComingRight
  <2>2. QED
    BY <1>2, <1>4, <2>1, FewRight
<1>5. ASSUME Left > 1, NEW i \in {1, 2}, Join(<<Fused(Coming(1), Coming(2), "number", Coming(i).from)>>, 2)
      PROVE  tokens' \in Seq(RightToken) /\ UNCHANGED <<pre, held, mode, source>>
  <2>1. Coming(1) \in RightToken /\ Coming(2) \in RightToken
    BY <1>5, ComingRight
  <2>2. Fused(Coming(1), Coming(2), "number", Coming(i).from) \in RightToken
    BY <2>1, FusedRight
  <2>3. QED
    BY <1>2, <1>5, <2>2, FewRight
<1>6. ASSUME Left > 2,
             LET whole == Fused(Coming(1), Coming(2), "number", Coming(1).from)
             IN  \/ Join(<<Fused(whole, Coming(3), "number", Coming(3).from)>>, 3)
                 \/ Join(<<whole, Coming(3)>>, 3)
      PROVE  tokens' \in Seq(RightToken) /\ UNCHANGED <<pre, held, mode, source>>
  <2> DEFINE w == Fused(Coming(1), Coming(2), "number", Coming(1).from)
  <2>1. Coming(1) \in RightToken /\ Coming(2) \in RightToken /\ Coming(3) \in RightToken
    BY <1>6, ComingRight
  <2>2. w \in RightToken
    BY <2>1, FusedRight
  <2>3. Join(<<Fused(w, Coming(3), "number", Coming(3).from)>>, 3) \/ Join(<<w, Coming(3)>>, 3)
    BY <1>6
  <2> HIDE DEF w
  <2>4. Fused(w, Coming(3), "number", Coming(3).from) \in RightToken
    BY <2>1, <2>2, FusedRight
  <2>5. QED
    BY <1>2, <2>1, <2>2, <2>3, <2>4, FewRight
<1>7. QED
  BY <1>1, <1>3, <1>4, <1>5, <1>6 DEF JoinForms

LEMMA HoldRight ==
  ASSUME IInv, LInv, Take \/ LetGo \/ JoinOperator
  PROVE  tokens' \in Seq(RightToken) /\ held' \in Seq(RightToken) /\ UNCHANGED <<pre, mode, source>>
<1>1. Typed /\ tokens \in Seq(RightToken) /\ held \in Seq(RightToken) /\ <<>> \in Seq(RightToken)
  BY DEF IInv, LInv
<1>2. ASSUME NEW ts \in Seq(RightToken), NEW h \in Seq(RightToken), NEW r, NEW n, Hold(ts, h, r, n)
      PROVE  tokens' \in Seq(RightToken) /\ held' \in Seq(RightToken) /\ UNCHANGED <<pre, mode, source>>
  BY <1>1, <1>2, ConcatProperties DEF Hold
<1>3. CASE Take
  BY <1>1, <1>3, ComingRight, FewRight DEF Take
<1>4. CASE LetGo
  BY <1>1, <1>2, <1>4 DEF LetGo
<1>5. CASE JoinOperator
  <2>1. PICK k \in Tried(held[1]) :
           IF Left = 0 THEN Hold(held, <<>>, 1, 0)
           ELSE IF Coming(1).type = "symbol" /\ Written(meant, Coming(1)) \in Halves(Operators[k])
           THEN Hold(<<Fused(held[1], Coming(1), "symbol", Coming(1).from)>>, <<>>, 1, 1)
           ELSE Hold(held, <<Coming(1)>>, k + 1, 1)
    BY <1>5 DEF JoinOperator
  <2>2. CASE Left = 0
    BY <1>1, <1>2, <2>1, <2>2
  <2>3. CASE Left # 0
    <3>1. Coming(1) \in RightToken
      BY <1>1, <2>3, ComingRight
    <3>2. held[1] \in RightToken
      <4>1. held # <<>>
        BY <1>5 DEF JoinOperator, Holds
      <4>2. QED
        BY <1>1, <4>1
    <3>3. Fused(held[1], Coming(1), "symbol", Coming(1).from) \in RightToken
      BY <3>1, <3>2, FusedRight
    <3>4. \/ Hold(<<Fused(held[1], Coming(1), "symbol", Coming(1).from)>>, <<>>, 1, 1)
          \/ Hold(held, <<Coming(1)>>, k + 1, 1)
      BY <2>1, <2>3
    <3>5. QED
      BY <1>1, <1>2, <3>1, <3>3, <3>4, FewRight
  <2>4. QED
    BY <2>2, <2>3
<1>6. QED
  BY <1>3, <1>4, <1>5

(* The set RightToken is the same as long as the text is. *)
LEMMA LInvNext ==
  ASSUME UNCHANGED text, NextRight, tokens' \in Seq(RightToken), held' \in Seq(RightToken), Quoted'
  PROVE  LInv'
<1>1. RightToken' = RightToken
  BY DEF RightToken, Lined, Lines
<1>2. Counted'
  BY DEF NextRight, Counted, Lined, Lines
<1>3. QED
  BY <1>1, <1>2 DEF LInv, NextRight

LEMMA LinesStay == IInv /\ Careful /\ LInv /\ [Next]_vars => LInv'
<1> SUFFICES ASSUME IInv, Careful, LInv, [Next]_vars PROVE LInv'
  OBVIOUS
<1>1. Typed /\ Quoted /\ tokens \in Seq(RightToken) /\ held \in Seq(RightToken) /\ pre \in Seq(RightToken)
  BY DEF IInv, LInv
<1>2. CASE UNCHANGED vars
  BY <1>2 DEF vars, source, joining, LInv, Counted, Quoted, RightToken, Lined, Lines
<1>3. CASE Next /\ ReadStep
  <2>1. NextRight /\ UNCHANGED joining /\ Quoted'
    BY <1>1, <1>3, ReadRight, ReadStepEffect, StaysQuoted
  <2>2. UNCHANGED text
    BY <1>3 DEF ReadStep, Keep, Symbol, ReadSingle, ReadPair, ReadSlash, SkipLineNote,
      SkipNote, ReadDigit, ReadLetter, ReadBlank, OpenString, CloseString, ReadInString, Escape, EndText, source
  <2>3. QED
    BY <1>1, <2>1, <2>2, LInvNext DEF joining
<1>4. CASE Next /\ (JoinNumber \/ JoinPoint \/ JoinOther \/ Take \/ LetGo \/ JoinOperator)
  <2>1. /\ tokens' \in Seq(RightToken) /\ held' \in Seq(RightToken) /\ UNCHANGED <<pre, mode, source>> /\ Quoted'
    BY <1>1, <1>4, JoinRight, HoldRight, StaysQuoted
  <2>2. mode \notin Reading
    BY <1>4 DEF JoinNumber, JoinPoint, JoinOther, Take, LetGo, JoinOperator, Joins, Holds, Reading
  <2>3. NextRight
    BY <1>1, <2>1, <2>2 DEF NextRight
  <2>4. QED
    BY <2>1, <2>3, LInvNext DEF source
<1>5. CASE Next /\ EndJoin
  <2>1. mode' \notin Reading /\ UNCHANGED <<pre, tokens, held, text>> /\ Quoted'
    BY <1>1, <1>5, StaysQuoted DEF EndJoin, Reading, joining, source
  <2>2. NextRight
    BY <1>1, <2>1 DEF NextRight
  <2>3. QED
    BY <1>1, <2>1, <2>2, LInvNext
<1>6. QED
  BY <1>2, <1>3, <1>4, <1>5 DEF Next, ReadStep, Stopped

LEMMA LinesStart == Init => LInv
<1> SUFFICES ASSUME Init PROVE LInv
  OBVIOUS
<1>1. Lines(0) = 0
  <2>1. {p \in 1 .. 0 : text[p] = "\n"} = {}
    OBVIOUS
  <2>2. QED
    BY <2>1, FS_EmptySet DEF Lines
<1>2. QED
  BY <1>1 DEF Init, LInv, Counted, Quoted

(* Every token is reported on the line it is on, whatever the text and     *)
(* however tokens are joined, as long as no newline follows a star in a    *)
(* note and no backslash but one at the end of a line stands outside a     *)
(* string (lexer.c:46 and the places that count newlines).                 *)
THEOREM LinesAreRight == Spec /\ []Careful => []LinesRight
<1>1. LInv => LinesRight
  <2> SUFFICES ASSUME LInv, NEW ts \in {pre, tokens, held}, NEW k \in DOMAIN ts PROVE Lined(ts[k].from)
    BY DEF LinesRight, Lined, Lines
  <2>1. ts \in Seq(RightToken)
    BY DEF LInv
  <2>2. ts[k] \in RightToken
    BY <2>1
  <2>3. QED
    BY <2>2 DEF RightToken
<1>2. QED
  BY Starts, Stays, LinesStart, LinesStay, <1>1, PTL DEF Spec

(***************************************************************************)
(* The places of characters are places of the text.  They would not be,    *)
(* had the lexer gone on behind a text that ends in a note and with a star *)
(* (lexer.c:168-182): there the mode is "beyond", and nothing is read.     *)
(***************************************************************************)
TextToken == {t \in AnyToken : t.at \in Seq(1 .. Len(text)) /\ t.from.line \in -1 .. Len(text)}

Modes == Reading \cup Ended \cup {"join", "beyond"}

Within ==
  /\ at \in 0 .. Len(text) /\ line \in 0 .. at
  /\ buffer \in Seq(1 .. at)
  /\ from.line \in -1 .. Len(text)
  /\ quote \in Quotes \cup {NoQuote}
  /\ mode \in {"number", "hex"} => buffer # <<>>

TInv ==
  /\ Len(text) \in Nat /\ mode \in Modes /\ rank \in 1 .. Len(Operators) + 1
  /\ pre \in Seq(TextToken) /\ tokens \in Seq(TextToken) /\ held \in Seq(TextToken)
  /\ Quoted
  /\ mode # "beyond" => Within

NextWithin ==
  /\ mode' \in Modes /\ pre' \in Seq(TextToken)
  /\ mode' # "beyond" =>
       /\ at' \in 0 .. Len(text) /\ line' \in 0 .. at'
       /\ buffer' \in Seq(1 .. at')
       /\ from'.line \in -1 .. Len(text)
       /\ quote' \in Quotes \cup {NoQuote}
       /\ mode' \in {"number", "hex"} => buffer' # <<>>

LEMMA AppendOne ==
  ASSUME NEW S, NEW s \in Seq(S), NEW k \in S
  PROVE  Append(s, k) \in Seq(S) /\ Append(s, k) # <<>>
<1>1. Append(s, k) \in Seq(S) /\ Len(Append(s, k)) = Len(s) + 1 /\ Len(s) \in Nat
  OBVIOUS
<1>2. Len(Append(s, k)) # 0
  BY <1>1
<1>3. QED
  BY <1>1, <1>2

LEMMA Longer ==
  ASSUME NEW m \in Nat, NEW n \in Nat, m <= n, NEW s \in Seq(1 .. m)
  PROVE  /\ s \in Seq(1 .. n)
         /\ \A k \in 1 .. n : Append(s, k) \in Seq(1 .. n) /\ Append(s, k) # <<>>
<1>1. s \in Seq(1 .. n)
  <2>1. \A i \in 1 .. Len(s) : s[i] \in 1 .. n
    OBVIOUS
  <2>2. QED
    BY <2>1
<1>2. ASSUME NEW k \in 1 .. n PROVE Append(s, k) \in Seq(1 .. n) /\ Append(s, k) # <<>>
  BY <1>1, AppendOne, Zenon
<1>3. QED
  BY <1>1, <1>2

LEMMA ShortSeqs == \A n \in Nat : <<>> \in Seq(1 .. n) /\ \A k \in 1 .. n : <<k>> \in Seq(1 .. n) /\ <<k>> # <<>>
OBVIOUS

(* What is known while characters are read. *)
LEMMA WithinFacts ==
  ASSUME Typed, TInv, mode \in Reading
  PROVE  /\ Len(text) \in Nat /\ at \in 0 .. Len(text) /\ line \in 0 .. at
         /\ buffer \in Seq(1 .. at) /\ pre \in Seq(TextToken)
         /\ from.line \in -1 .. Len(text) /\ quote \in Quotes \cup {NoQuote}
         /\ mode \in {"number", "hex"} => buffer # <<>>
         /\ Position.line \in -1 .. Len(text) /\ NoPlace.line \in -1 .. Len(text)
         /\ \A c : Newlines(c) \in 0 .. 1
<1>1. mode # "beyond"
  BY DEF Reading
<1>2. Within /\ Len(text) \in Nat
  BY <1>1 DEF TInv
<1>3. Position.line \in -1 .. Len(text) /\ NoPlace.line \in -1 .. Len(text)
  BY <1>2 DEF Within, Position, NoPlace
<1>4. \A c : Newlines(c) \in 0 .. 1
  BY DEF Newlines
<1>5. QED
  BY <1>2, <1>3, <1>4 DEF TInv, Within

LEMMA TokenWithin ==
  ASSUME Typed, TInv, mode \in Reading, NEW type \in {"word", "number", "symbol", "string"},
         NEW f \in Froms, f.line \in -1 .. Len(text), NEW s \in Seq(1 .. Len(text))
  PROVE  Token(type, s, f) \in TextToken
<1>1. s \in Seq(Nat)
  <2> DEFINE n == Len(text)
  <2>1. n \in Nat /\ s \in Seq(1 .. n)
    BY WithinFacts
  <2> HIDE DEF n
  <2>2. \A i \in 1 .. Len(s) : s[i] \in Nat
    BY <2>1
  <2>3. QED
    BY <2>1, <2>2
<1>2. QED
  BY <1>1 DEF Token, AnyToken, TextToken

LEMMA SavedWithin ==
  ASSUME Typed, TInv, mode \in Reading
  PROVE  Saved \in Seq(TextToken)
<1>1. CASE Idle
  BY <1>1 DEF Saved, TInv
<1>2. CASE ~Idle
  <2> DEFINE type == IF mode = "code" THEN "word" ELSE "number"
             b    == UpToNul(buffer)
  <2>1. at \in Nat /\ Len(text) \in Nat /\ at <= Len(text) /\ buffer \in Seq(1 .. at)
    BY WithinFacts
  <2>2. b \in Seq(1 .. at)
    BY <2>1, UpToNulIs
  <2>3. from \in Froms /\ from.line \in -1 .. Len(text) /\ type \in {"word", "number", "symbol", "string"}
    BY WithinFacts DEF Typed
  <2>4. Saved = Append(pre, Token(type, b, from))
    BY <1>2 DEF Saved
  <2> HIDE DEF type, b
  <2>5. b \in Seq(1 .. Len(text))
    BY <2>1, <2>2, Longer
  <2>6. Token(type, b, from) \in TextToken
    BY <2>3, <2>5, TokenWithin
  <2>7. QED
    BY <2>4, <2>6 DEF TInv
<1>3. QED
  BY <1>1, <1>2

(* A character that follows is a character of the text. *)
LEMMA FollowersWithin ==
  ASSUME Typed, TInv, mode \in Reading
  PROVE  /\ Follower(1) # "end" => at + 2 \in 0 .. Len(text)
         /\ Follower(3) # "end" => at + 4 \in 0 .. Len(text)
<1>1. Len(text) \in Nat /\ at \in 0 .. Len(text)
  BY WithinFacts
<1>2. /\ Follower(1) # "end" => at + 1 + 1 <= Len(text)
      /\ Follower(3) # "end" => at + 1 + 3 <= Len(text)
  BY DEF Follower
<1>3. QED
  BY <1>1, <1>2

LEMMA SymbolWithin ==
  ASSUME Typed, TInv, mode \in Reading, NEW n \in {1, 2}, Symbol(n), at + n \in 0 .. Len(text)
  PROVE  NextWithin
<1> DEFINE s == IF Hidden THEN <<>> ELSE [k \in 1 .. n |-> at + k]
<1>1. Len(text) \in Nat /\ at \in 0 .. Len(text) /\ line \in 0 .. at /\ quote \in Quotes \cup {NoQuote}
  BY WithinFacts
<1>2. s \in Seq(1 .. Len(text))
  <2>1. [k \in 1 .. n |-> at + k] \in Seq(1 .. Len(text)) /\ <<>> \in Seq(1 .. Len(text))
    BY <1>1
  <2>2. QED
    BY <2>1, Zenon
<1>3. Position \in Froms /\ Position.line \in -1 .. Len(text) /\ NoPlace.line \in -1 .. Len(text)
  BY HereFacts, WithinFacts
<1>4. /\ pre' = Append(Saved, Token("symbol", s, Position)) /\ at' = at + n /\ line' = line /\ quote' = quote
      /\ mode' = "code" /\ buffer' = <<>> /\ from' = NoPlace
  BY DEF Symbol, Empty
<1> HIDE DEF s
<1>5. Token("symbol", s, Position) \in TextToken
  BY <1>2, <1>3, TokenWithin
<1>6. pre' \in Seq(TextToken)
  BY <1>4, <1>5, SavedWithin
<1>7. at' \in 0 .. Len(text) /\ line' \in 0 .. at' /\ buffer' \in Seq(1 .. at')
  BY <1>1, <1>4
<1>8. mode' \in Modes /\ mode' \notin {"number", "hex", "beyond"}
  BY <1>4 DEF Modes, Reading
<1>9. QED
  BY <1>1, <1>3, <1>4, <1>6, <1>7, <1>8 DEF NextWithin

LEMMA SymbolsWithin ==
  ASSUME Typed, TInv, mode \in Reading, ReadSingle \/ ReadPair
  PROVE  NextWithin
<1>1. Len(text) \in Nat /\ at \in 0 .. Len(text) /\ at < Len(text)
  BY WithinFacts DEF ReadSingle, ReadPair, InCode, Reads
<1>2. at + 1 \in 0 .. Len(text)
  BY <1>1
<1>3. CASE Symbol(1)
  BY <1>2, <1>3, SymbolWithin
<1>4. CASE ReadPair /\ Follower(1) \in Seconds(Char)
  <2>1. Seconds(Char) \subseteq {"=", ">", "*", "&", "|", "<"}
    BY <1>4 DEF ReadPair, Seconds, Firsts
  <2>2. Follower(1) # "end" /\ Symbol(2)
    BY <1>4, <2>1 DEF ReadPair
  <2>3. QED
    BY <2>2, FollowersWithin, SymbolWithin
<1>5. QED
  BY <1>3, <1>4 DEF ReadSingle, ReadPair

LEMMA SlashWithin ==
  ASSUME Typed, TInv, mode \in Reading, ReadSlash
  PROVE  NextWithin
<1>1. Len(text) \in Nat /\ at \in 0 .. Len(text) /\ at < Len(text) /\ line \in 0 .. at
  BY WithinFacts DEF ReadSlash, InCode, Reads
<1>2. CASE Follower(1) \in {"/", "*"}
  <2>1. /\ pre' = Saved /\ at' = at + 2 /\ line' = line /\ quote' = quote /\ buffer' = <<>> /\ from' = NoPlace
        /\ mode' \in {"line note", "note"}
    BY <1>2 DEF ReadSlash, Empty
  <2>2. at' \in 0 .. Len(text)
    BY <1>2, <2>1, FollowersWithin
  <2>3. line' \in 0 .. at' /\ buffer' \in Seq(1 .. at')
    <3>1. line' \in 0 .. at' /\ at' \in Nat
      <4>1. line \in 0 .. at + 2 /\ at + 2 \in Nat
        BY <1>1
      <4>2. line' = line /\ at' = at + 2
        BY <2>1
      <4>3. QED
        BY <4>1, <4>2, Zenon
    <3>2. QED
      BY <2>1, <3>1, ShortSeqs
  <2>4. mode' \in Modes /\ mode' \notin {"number", "hex", "beyond"}
    BY <2>1 DEF Modes, Reading
  <2>5. QED
    BY <2>1, <2>2, <2>3, <2>4, WithinFacts, SavedWithin DEF NextWithin
<1>3. CASE Follower(1) \notin {"/", "*"}
  <2>1. Symbol(1) /\ at + 1 \in 0 .. Len(text)
    BY <1>1, <1>3 DEF ReadSlash
  <2>2. QED
    BY <2>1, SymbolWithin
<1>4. QED
  BY <1>2, <1>3

LEMMA SkipWithin ==
  ASSUME Typed, TInv, mode \in Reading, SkipLineNote \/ SkipNote
  PROVE  NextWithin
<1>1. /\ Len(text) \in Nat /\ at \in 0 .. Len(text) /\ at < Len(text) /\ line \in 0 .. at
      /\ buffer \in Seq(1 .. at) /\ Newlines(Char) \in 0 .. 1
  BY WithinFacts DEF SkipLineNote, SkipNote, Reads
<1>2. UNCHANGED <<quote, buffer, from, pre>> /\ mode \in {"line note", "note"}
  BY DEF SkipLineNote, SkipNote, Reads
<1>3. mode' \in {mode, "code", "beyond", "note"}
  BY DEF SkipLineNote, SkipNote
<1>4. mode' \in Modes /\ mode' \notin {"number", "hex"}
  BY <1>2, <1>3 DEF Modes, Reading
<1>5. mode' # "beyond" => at' \in 0 .. Len(text) /\ at' \in at + 1 .. at + 2 /\ line' \in 0 .. at + 1
  <2>1. CASE at' = at + 1 /\ line' = line + Newlines(Char)
    BY <1>1, <2>1
  <2>2. CASE SkipNote /\ Char = "*"
    <3>1. at' = at + 2 /\ line' = line /\ (mode' # "beyond" => Follower(1) # "end")
      BY <2>2 DEF SkipNote
    <3>2. mode' # "beyond" => at + 2 \in 0 .. Len(text)
      BY <3>1, FollowersWithin
    <3>3. QED
      BY <1>1, <3>1, <3>2
  <2>3. QED
    BY <2>1, <2>2 DEF SkipLineNote, SkipNote
<1>6. mode' # "beyond" => at' \in 0 .. Len(text) /\ line' \in 0 .. at' /\ buffer' \in Seq(1 .. at')
  <2> SUFFICES ASSUME mode' # "beyond" PROVE at' \in 0 .. Len(text) /\ line' \in 0 .. at' /\ buffer' \in Seq(1 .. at')
    OBVIOUS
  <2>1. at \in Nat /\ at' \in Nat /\ at <= at' /\ line' \in 0 .. at'
    BY <1>1, <1>5
  <2>2. buffer \in Seq(1 .. at')
    BY <1>1, <2>1, Longer
  <2>3. QED
    BY <1>2, <1>5, <2>1, <2>2
<1>7. QED
  BY <1>2, <1>4, <1>6, WithinFacts DEF NextWithin

(* One character more, and what is known of it. *)
LEMMA OneWithin ==
  ASSUME Typed, TInv, mode \in Reading, at < Len(text), at' = at + 1,
         line' = line \/ line' = line + Newlines(Char)
  PROVE  /\ at' \in 0 .. Len(text) /\ line' \in 0 .. at'
         /\ Append(buffer, Here) \in Seq(1 .. at') /\ Append(buffer, Here) # <<>>
         /\ <<Here>> \in Seq(1 .. at') /\ <<Here>> # <<>> /\ <<>> \in Seq(1 .. at')
<1>1. Len(text) \in Nat /\ at \in 0 .. Len(text) /\ line \in 0 .. at /\ Newlines(Char) \in 0 .. 1
  BY WithinFacts
<1>2. at' \in 0 .. Len(text) /\ line' \in 0 .. at' /\ at \in Nat /\ at' \in Nat /\ at <= at' /\ Here \in 1 .. at'
  BY <1>1 DEF Here
<1>3. Append(buffer, Here) \in Seq(1 .. at') /\ Append(buffer, Here) # <<>>
  <2>1. buffer \in Seq(1 .. at)
    BY WithinFacts
  <2>2. QED
    BY <1>2, <2>1, Longer
<1>4. QED
  BY <1>2, <1>3, ShortSeqs

LEMMA DigitWithin ==
  ASSUME Typed, TInv, mode \in Reading, ReadDigit
  PROVE  NextWithin
<1>1. /\ at < Len(text) /\ at' = at + 1 /\ line' = line /\ pre' = pre /\ quote' = quote
      /\ buffer' = Append(buffer, Here)
      /\ mode \in {"code", "number", "hex"} /\ mode' \in {mode, "number"} /\ from' \in {from, Position}
  BY DEF ReadDigit, InCode, Reads
<1>2. at' \in 0 .. Len(text) /\ line' \in 0 .. at' /\ buffer' \in Seq(1 .. at') /\ buffer' # <<>>
  BY <1>1, OneWithin
<1>3. mode' \in Modes
  BY <1>1 DEF Modes, Reading
<1>4. from'.line \in -1 .. Len(text)
  BY <1>1, WithinFacts
<1>5. QED
  BY <1>1, <1>2, <1>3, <1>4, WithinFacts DEF NextWithin

LEMMA LetterWithin ==
  ASSUME Typed, TInv, mode \in Reading, ReadLetter
  PROVE  NextWithin
<1> DEFINE digit  == mode = "hex" /\ Char \in HexLetters
           prefix == mode = "number" /\ Char = "x"
<1>1. /\ at < Len(text) /\ at' = at + 1 /\ line' = line /\ quote' = quote /\ mode \in {"code", "number", "hex"}
  BY DEF ReadLetter, InCode, Reads
<1>2. /\ at' \in 0 .. Len(text) /\ line' \in 0 .. at'
      /\ Append(buffer, Here) \in Seq(1 .. at') /\ Append(buffer, Here) # <<>>
      /\ <<Here>> \in Seq(1 .. at') /\ <<Here>> # <<>>
  BY <1>1, OneWithin
<1>3. \/ digit \/ prefix
      \/ mode # "code" /\ ~digit /\ ~prefix
      \/ mode = "code"
  OBVIOUS
<1>4. /\ mode' \in {mode, "hex", "code"} /\ pre' \in {pre, Saved} /\ from' \in {from, Position}
      /\ buffer' \in {Append(buffer, Here), <<Here>>}
  <2>1. CASE digit \/ prefix
    BY <2>1 DEF ReadLetter
  <2>2. CASE mode # "code" /\ ~digit /\ ~prefix
    BY <2>2 DEF ReadLetter
  <2>3. CASE mode = "code"
    BY <2>3 DEF ReadLetter
  <2>4. QED
    BY <1>3, <2>1, <2>2, <2>3
<1>5. mode' \in Modes
  BY <1>1, <1>4 DEF Modes, Reading
<1>6. from'.line \in -1 .. Len(text) /\ pre' \in Seq(TextToken)
  BY <1>4, WithinFacts, SavedWithin
<1>7. QED
  BY <1>1, <1>2, <1>4, <1>5, <1>6, WithinFacts DEF NextWithin

LEMMA BlankWithin ==
  ASSUME Typed, TInv, mode \in Reading, ReadBlank \/ OpenString
  PROVE  NextWithin
<1>1. /\ at < Len(text) /\ at' = at + 1 /\ (line' = line \/ line' = line + Newlines(Char))
      /\ pre' = Saved /\ buffer' \in {buffer, <<>>} /\ from' \in {from, NoPlace, Position} /\ mode' \in {"code", "string"}
      /\ quote' = quote \/ quote' \in Quotes
  BY DEF ReadBlank, OpenString, Empty, InCode, Reads
<1>2. at' \in 0 .. Len(text) /\ line' \in 0 .. at' /\ buffer' \in Seq(1 .. at')
  <2>1. at' \in 0 .. Len(text) /\ line' \in 0 .. at' /\ <<>> \in Seq(1 .. at')
    BY <1>1, OneWithin
  <2>2. buffer \in Seq(1 .. at')
    <3>1. at \in Nat /\ at + 1 \in Nat /\ at <= at + 1 /\ buffer \in Seq(1 .. at)
      BY WithinFacts
    <3>2. QED
      BY <1>1, <3>1, Longer, Zenon
  <2>3. QED
    BY <1>1, <2>1, <2>2
<1>3. mode' \in Modes /\ mode' \notin {"number", "hex"}
  BY <1>1 DEF Modes, Reading
<1>4. from'.line \in -1 .. Len(text) /\ quote' \in Quotes \cup {NoQuote}
  BY <1>1, WithinFacts
<1>5. QED
  BY <1>1, <1>2, <1>3, <1>4, SavedWithin DEF NextWithin

LEMMA CloseWithin ==
  ASSUME Typed, TInv, mode \in Reading, CloseString
  PROVE  NextWithin
<1>1. /\ at < Len(text) /\ at' = at + 1 /\ line' = line /\ quote' = NoQuote
      /\ pre' = Append(pre, Token("string", UpToNul(buffer), from)) /\ buffer' = <<>> /\ from' = NoPlace /\ mode' = "code"
  BY DEF CloseString, Empty, InString, Reads
<1>2. at' \in 0 .. Len(text) /\ line' \in 0 .. at' /\ buffer' \in Seq(1 .. at')
  BY <1>1, OneWithin
<1>3. Token("string", UpToNul(buffer), from) \in TextToken
  <2>1. at \in Nat /\ Len(text) \in Nat /\ at <= Len(text) /\ UpToNul(buffer) \in Seq(1 .. at)
    BY WithinFacts, UpToNulIs
  <2>2. UpToNul(buffer) \in Seq(1 .. Len(text)) /\ from \in Froms /\ from.line \in -1 .. Len(text)
    BY <2>1, Longer, WithinFacts DEF Typed
  <2>3. QED
    BY <2>2, TokenWithin
<1>4. pre' \in Seq(TextToken)
  BY <1>1, <1>3, WithinFacts
<1>5. mode' \in Modes /\ mode' \notin {"number", "hex"}
  BY <1>1 DEF Modes, Reading
<1>6. QED
  BY <1>1, <1>2, <1>4, <1>5, WithinFacts DEF NextWithin

LEMMA InStringWithin ==
  ASSUME Typed, TInv, mode \in Reading, ReadInString
  PROVE  NextWithin
<1>1. /\ at < Len(text) /\ at' = at + 1 /\ line' = line + Newlines(Char)
      /\ buffer' = Append(buffer, Here) /\ UNCHANGED <<mode, quote, from, pre>>
  BY DEF ReadInString, InString, Reads
<1>2. at' \in 0 .. Len(text) /\ line' \in 0 .. at' /\ buffer' \in Seq(1 .. at') /\ buffer' # <<>>
  BY <1>1, OneWithin
<1>3. QED
  BY <1>1, <1>2, WithinFacts DEF NextWithin, TInv

LEMMA EscapeWithin ==
  ASSUME Typed, TInv, mode \in Reading, Escape
  PROVE  NextWithin
<1>1. /\ pre' \in {pre, Saved} /\ quote' = quote /\ mode \in {"code", "number", "hex", "string"}
  BY DEF Escape, Reads
<1>2. pre' \in Seq(TextToken) /\ quote' \in Quotes \cup {NoQuote}
  BY <1>1, WithinFacts, SavedWithin
<1>3. /\ Len(text) \in Nat /\ at \in 0 .. Len(text) /\ line \in 0 .. at /\ buffer \in Seq(1 .. at)
      /\ Newlines(Follower(1)) \in 0 .. 1
  BY WithinFacts
<1>4. CASE EscapeLength = 0
  <2>1. UNCHANGED <<at, buffer, from, line>> /\ mode' \in {"unfinished", "wrong"}
    BY <1>4 DEF Escape
  <2>2. mode' \in Modes /\ mode' \notin {"number", "hex"}
    BY <2>1 DEF Modes, Ended
  <2>3. QED
    BY <1>2, <2>1, <2>2, WithinFacts DEF NextWithin
<1>5. CASE EscapeLength # 0
  <2> DEFINE n     == at + EscapeLength
             keeps == IF mode = "string" \/ Idle THEN buffer ELSE <<>>
  <2>1. /\ at' = n /\ line' = line + Newlines(Follower(1)) /\ from' \in {from, NoPlace}
        /\ mode' \in {"string", "code"}
        /\ buffer' = IF Follower(1) = "\n" THEN keeps ELSE Append(keeps, n)
    BY <1>5 DEF Escape
  <2>2. n \in 0 .. Len(text) /\ at + 2 <= n /\ n \in Nat
    <3>1. \/ EscapeLength = 2 /\ Follower(1) # "end"
          \/ EscapeLength = 4 /\ {Follower(2), Follower(3)} \subseteq Digits \cup HexLetters
      BY <1>5 DEF EscapeLength
    <3>2. CASE EscapeLength = 2 /\ Follower(1) # "end"
      <4>1. at + 2 \in 0 .. Len(text)
        BY <3>2, FollowersWithin
      <4>2. QED
        BY <1>3, <3>2, <4>1
    <3>3. CASE EscapeLength = 4 /\ {Follower(2), Follower(3)} \subseteq Digits \cup HexLetters
      <4>1. Follower(3) # "end"
        BY <3>3 DEF Digits, HexLetters
      <4>2. at + 4 \in 0 .. Len(text)
        BY <4>1, FollowersWithin
      <4>3. QED
        BY <1>3, <3>3, <4>2
    <3>4. QED
      BY <3>1, <3>2, <3>3
  <2> HIDE DEF n
  <2>3. keeps \in Seq(1 .. at) /\ at \in Nat /\ at <= n /\ n \in 1 .. n
    <3>1. at \in Nat /\ at <= n /\ n \in 1 .. n
      BY <1>3, <2>2
    <3>2. keeps = buffer \/ keeps = <<>>
      OBVIOUS
    <3> HIDE DEF keeps
    <3>3. QED
      BY <1>3, <3>1, <3>2, ShortSeqs, Zenon
  <2> HIDE DEF keeps
  <2>4. buffer' \in Seq(1 .. n)
    BY <2>1, <2>2, <2>3, Longer
  <2>5. at' \in 0 .. Len(text) /\ line' \in 0 .. at'
    BY <1>3, <2>1, <2>2
  <2>6. mode' \in Modes /\ mode' \notin {"number", "hex"}
    BY <2>1 DEF Modes, Reading
  <2>7. from'.line \in -1 .. Len(text)
    BY <2>1, WithinFacts
  <2>8. QED
    BY <1>2, <2>1, <2>4, <2>5, <2>6, <2>7 DEF NextWithin
<1>6. QED
  BY <1>4, <1>5

LEMMA EndWithin ==
  ASSUME Typed, TInv, mode \in Reading, EndText
  PROVE  NextWithin
<1>1. /\ UNCHANGED <<at, quote, line>> /\ pre' \in {pre, Saved} /\ mode' \in {"unfinished", "join"}
      /\ buffer' \in {buffer, <<>>} /\ from' \in {from, NoPlace}
  BY DEF EndText, Empty
<1>2. mode' \in Modes /\ mode' \notin {"number", "hex"}
  BY <1>1 DEF Modes, Ended
<1>3. at \in Nat
  BY DEF Typed
<1>4. <<>> \in Seq(1 .. at)
  BY <1>3, ShortSeqs
<1>5. QED
  BY <1>1, <1>2, <1>4, WithinFacts, SavedWithin DEF NextWithin

LEMMA ReadWithin ==
  ASSUME Typed, TInv, ReadStep
  PROVE  NextWithin
<1>1. mode \in Reading
  BY ReadStepEffect
<1>2. QED
  BY <1>1, SymbolsWithin, SlashWithin, SkipWithin, DigitWithin, LetterWithin, BlankWithin, CloseWithin,
     InStringWithin, EscapeWithin, EndWithin DEF ReadStep

(* The joiner makes tokens of tokens. *)
LEMMA FusedWithin ==
  ASSUME NEW a \in TextToken, NEW b \in TextToken, NEW c \in TextToken, NEW k \in {"number", "symbol"}
  PROVE  Fused(a, b, k, c.from) \in TextToken
<1> DEFINE P == 1 .. Len(text)
<1>1. a \in AnyToken /\ b \in AnyToken /\ c \in AnyToken /\ a.at \in Seq(P) /\ b.at \in Seq(P)
  BY DEF TextToken
<1>2. c.from.line \in -1 .. Len(text)
  BY DEF TextToken
<1> HIDE DEF P
<1>3. Fused(a, b, k, c.from) \in AnyToken
  BY <1>1, FusedFacts
<1>4. a.at \o b.at \in Seq(P)
  BY <1>1, ConcatProperties
<1>5. Fused(a, b, k, c.from).at = a.at \o b.at /\ Fused(a, b, k, c.from).from = c.from
  BY DEF Fused, Token
<1>6. QED
  BY <1>2, <1>3, <1>4, <1>5, Zenon DEF TextToken, P

LEMMA ComingWithin ==
  ASSUME Typed, TInv
  PROVE  /\ Left \in Nat
         /\ Left > 0 => Coming(1) \in TextToken
         /\ Left > 1 => Coming(2) \in TextToken
         /\ Left > 2 => Coming(3) \in TextToken
<1>1. Len(pre) \in Nat /\ taken \in 0 .. Len(pre) /\ Left = Len(pre) - taken
  BY DEF Typed, Left
<1>2. \A i \in 1 .. Len(pre) : pre[i] \in TextToken
  BY DEF TInv
<1>3. QED
  BY <1>1, <1>2 DEF Coming

LEMMA FewWithin ==
  /\ \A a \in TextToken : <<a>> \in Seq(TextToken)
  /\ \A a, b \in TextToken : <<a, b>> \in Seq(TextToken)
OBVIOUS

JoinedWithin ==
  /\ tokens' \in Seq(TextToken) /\ held' \in Seq(TextToken) /\ rank' \in 1 .. Len(Operators) + 1
  /\ UNCHANGED <<pre, mode, source, at, quote, buffer, from, line>>

LEMMA JoinWithin ==
  ASSUME Typed, TInv, JoinNumber \/ JoinPoint \/ JoinOther
  PROVE  JoinedWithin
<1>1. JoinForms
  BY JoinsInForms
<1>2. ASSUME NEW ts \in Seq(TextToken), NEW n, Join(ts, n)
      PROVE  JoinedWithin
  BY <1>2, ConcatProperties DEF Join, TInv, JoinedWithin
<1>3. CASE Left > 0 /\ Join(<<Coming(1)>>, 1)
  BY <1>2, <1>3, ComingWithin, FewWithin
<1>4. CASE Left > 1 /\ Join(<<Coming(1), Coming(2)>>, 2)
  <2>1. Coming(1) \in TextToken /\ Coming(2) \in TextToken
    BY <1>4, ComingWithin
  <2>2. QED
    BY <1>2, <1>4, <2>1, FewWithin
<1>5. ASSUME Left > 1, NEW i \in {1, 2}, Join(<<Fused(Coming(1), Coming(2), "number", Coming(i).from)>>, 2)
      PROVE  JoinedWithin
  <2>1. Coming(1) \in TextToken /\ Coming(2) \in TextToken
    BY <1>5, ComingWithin
  <2>2. Fused(Coming(1), Coming(2), "number", Coming(i).from) \in TextToken
    BY <2>1, FusedWithin
  <2>3. QED
    BY <1>2, <1>5, <2>2, FewWithin
<1>6. ASSUME Left > 2,
             LET whole == Fused(Coming(1), Coming(2), "number", Coming(1).from)
             IN  \/ Join(<<Fused(whole, Coming(3), "number", Coming(3).from)>>, 3)
                 \/ Join(<<whole, Coming(3)>>, 3)
      PROVE  JoinedWithin
  <2> DEFINE w == Fused(Coming(1), Coming(2), "number", Coming(1).from)
  <2>1. Coming(1) \in TextToken /\ Coming(2) \in TextToken /\ Coming(3) \in TextToken
    BY <1>6, ComingWithin
  <2>2. w \in TextToken
    BY <2>1, FusedWithin
  <2>3. Join(<<Fused(w, Coming(3), "number", Coming(3).from)>>, 3) \/ Join(<<w, Coming(3)>>, 3)
    BY <1>6
  <2> HIDE DEF w
  <2>4. Fused(w, Coming(3), "number", Coming(3).from) \in TextToken
    BY <2>1, <2>2, FusedWithin
  <2>5. QED
    BY <1>2, <2>1, <2>2, <2>3, <2>4, FewWithin
<1>7. QED
  BY <1>1, <1>3, <1>4, <1>5, <1>6 DEF JoinForms

LEMMA OperatorCount == Len(Operators) = 11
BY DEF Operators

LEMMA HoldWithin ==
  ASSUME Typed, TInv, Take \/ LetGo \/ JoinOperator
  PROVE  JoinedWithin
<1>1. /\ tokens \in Seq(TextToken) /\ held \in Seq(TextToken) /\ <<>> \in Seq(TextToken)
      /\ rank \in 1 .. 12 /\ 1 \in 1 .. Len(Operators) + 1
  BY OperatorCount DEF TInv
<1>2. ASSUME NEW ts \in Seq(TextToken), NEW h \in Seq(TextToken), NEW r \in 1 .. Len(Operators) + 1, NEW n,
             Hold(ts, h, r, n)
      PROVE  JoinedWithin
  BY <1>1, <1>2, ConcatProperties DEF Hold, JoinedWithin
<1>3. CASE Take
  <2>1. Coming(1) \in TextToken
    BY <1>3, ComingWithin DEF Take
  <2>2. QED
    BY <1>1, <1>3, <2>1, FewWithin DEF Take, JoinedWithin
<1>4. CASE LetGo
  BY <1>1, <1>2, <1>4 DEF LetGo
<1>5. CASE JoinOperator
  <2>1. PICK k \in Tried(held[1]) :
           IF Left = 0 THEN Hold(held, <<>>, 1, 0)
           ELSE IF Coming(1).type = "symbol" /\ Written(meant, Coming(1)) \in Halves(Operators[k])
           THEN Hold(<<Fused(held[1], Coming(1), "symbol", Coming(1).from)>>, <<>>, 1, 1)
           ELSE Hold(held, <<Coming(1)>>, k + 1, 1)
    BY <1>5 DEF JoinOperator
  <2>2. CASE Left = 0
    BY <1>1, <1>2, <2>1, <2>2
  <2>3. CASE Left # 0
    <3>1. Coming(1) \in TextToken
      BY <2>3, ComingWithin
    <3>2. held[1] \in TextToken
      <4>1. held # <<>>
        BY <1>5 DEF JoinOperator, Holds
      <4>2. QED
        BY <1>1, <4>1
    <3>3. Fused(held[1], Coming(1), "symbol", Coming(1).from) \in TextToken
      BY <3>1, <3>2, FusedWithin
    <3>4. k + 1 \in 1 .. Len(Operators) + 1
      BY <1>1, <2>1, OperatorCount DEF Tried
    <3>5. \/ Hold(<<Fused(held[1], Coming(1), "symbol", Coming(1).from)>>, <<>>, 1, 1)
          \/ Hold(held, <<Coming(1)>>, k + 1, 1)
      BY <2>1, <2>3
    <3>6. QED
      BY <1>1, <1>2, <3>1, <3>3, <3>4, <3>5, FewWithin
  <2>4. QED
    BY <2>2, <2>3
<1>6. QED
  BY <1>3, <1>4, <1>5

(* The set TextToken is the same as long as the text is. *)
LEMMA TInvNext ==
  ASSUME Len(text) \in Nat, UNCHANGED text, NextWithin, tokens' \in Seq(TextToken), held' \in Seq(TextToken),
         rank' \in 1 .. Len(Operators) + 1, Quoted'
  PROVE  TInv'
<1>1. TextToken' = TextToken
  BY DEF TextToken
<1>2. Modes' = Modes
  BY DEF Modes, Reading, Ended
<1>3. mode' # "beyond" => Within'
  BY DEF NextWithin, Within
<1>4. QED
  BY <1>1, <1>2, <1>3 DEF TInv, NextWithin

LEMMA TypesStay == Typed /\ TInv /\ [Next]_vars => TInv'
<1> SUFFICES ASSUME Typed, TInv, [Next]_vars PROVE TInv'
  OBVIOUS
<1>1. CASE UNCHANGED vars
  BY <1>1 DEF vars, source, joining, TInv, TextToken, Modes, Within, Quoted
<1>2. /\ Len(text) \in Nat /\ tokens \in Seq(TextToken) /\ held \in Seq(TextToken)
      /\ rank \in 1 .. Len(Operators) + 1 /\ Quoted
  BY DEF TInv
<1>3. CASE Next /\ ReadStep
  <2>1. NextWithin /\ UNCHANGED joining /\ Quoted'
    BY <1>2, <1>3, ReadWithin, ReadStepEffect, StaysQuoted
  <2>2. UNCHANGED text
    BY <1>3 DEF ReadStep, Keep, Symbol, ReadSingle, ReadPair, ReadSlash, SkipLineNote,
      SkipNote, ReadDigit, ReadLetter, ReadBlank, OpenString, CloseString, ReadInString, Escape, EndText, source
  <2>3. QED
    BY <1>2, <2>1, <2>2, TInvNext DEF joining
<1>4. CASE Next /\ (JoinNumber \/ JoinPoint \/ JoinOther \/ Take \/ LetGo \/ JoinOperator)
  <2>1. JoinedWithin /\ Quoted'
    BY <1>2, <1>4, JoinWithin, HoldWithin, StaysQuoted
  <2>2. NextWithin
    BY <2>1 DEF JoinedWithin, NextWithin, TInv, Within
  <2>3. QED
    BY <1>2, <2>1, <2>2, TInvNext DEF JoinedWithin, source
<1>5. CASE Next /\ EndJoin
  <2>1. /\ mode' = "done" /\ mode = "join" /\ Quoted'
        /\ UNCHANGED <<pre, tokens, held, rank, text, at, quote, buffer, from, line>>
    BY <1>2, <1>5, StaysQuoted DEF EndJoin, Joins, joining, source
  <2>2. NextWithin
    BY <2>1 DEF NextWithin, TInv, Within, Modes, Ended
  <2>3. QED
    BY <1>2, <2>1, <2>2, TInvNext
<1>6. QED
  BY <1>1, <1>3, <1>4, <1>5 DEF Next, ReadStep, Stopped

LEMMA TypesStart == Init => TInv
<1> SUFFICES ASSUME Init PROVE TInv
  OBVIOUS
<1>1. /\ at = 0 /\ mode = "code" /\ quote = NoQuote /\ buffer = <<>> /\ from = NoPlace /\ line = 0
      /\ pre = <<>> /\ held = <<>> /\ rank = 1 /\ tokens = <<>>
  BY DEF Init
<1>2. Len(text) \in Nat
  <2> DEFINE n == script.length
             w == Whole(script.pieces)
             S == {w[i] : i \in 1 .. n}
  <2>1. n \in Nat /\ text = SubSeq(w, 1, n)
    BY ScriptsAssumption DEF Init, ScriptsAssumption
  <2>2. \A i \in 1 .. n : w[i] \in S
    OBVIOUS
  <2> HIDE DEF n, w, S
  <2>3. SubSeq(w, 1, n) \in Seq(S)
    BY <2>1, <2>2, SubSeqProperties
  <2>4. QED
    BY <2>1, <2>3
<1>3. <<>> \in Seq(TextToken) /\ <<>> \in Seq(1 .. 0)
  OBVIOUS
<1>4. mode \in Modes /\ NoPlace.line \in -1 .. Len(text) /\ rank \in 1 .. Len(Operators) + 1
  BY <1>1, <1>2, OperatorCount DEF Modes, Reading, NoPlace
<1>5. Within
  BY <1>1, <1>2, <1>3, <1>4 DEF Within
<1>6. QED
  BY <1>1, <1>2, <1>3, <1>4, <1>5 DEF TInv, Quoted

(* The places of the text, and what it means elsewhere than where an       *)
(* escape ends, do not change.                                             *)
Decodes ==
  /\ Escape /\ EscapeLength # 0 /\ Follower(1) # "\n"
  /\ meant' = [meant EXCEPT ![at + EscapeLength] = Decoded]

LEMMA MeaningStep ==
  ASSUME Typed, [Next]_vars
  PROVE  UNCHANGED source /\ (UNCHANGED meant \/ Decodes)
<1>1. CASE UNCHANGED vars
  BY <1>1 DEF vars
<1>2. CASE ReadSingle \/ ReadPair \/ ReadSlash \/ SkipLineNote \/ SkipNote \/ ReadDigit \/ ReadLetter \/ ReadBlank
  BY <1>2 DEF ReadSingle, ReadPair, ReadSlash, Symbol, SkipLineNote, SkipNote, ReadDigit, ReadLetter, ReadBlank, Keep
<1>3. CASE OpenString \/ CloseString \/ ReadInString \/ EndText
  BY <1>3 DEF OpenString, CloseString, ReadInString, EndText, Keep
<1>4. CASE Escape
  BY <1>4 DEF Escape, Decodes
<1>5. CASE JoinNumber \/ JoinPoint \/ JoinOther
  BY <1>5, JoinsInForms DEF JoinForms, Join
<1>6. CASE Take \/ LetGo \/ JoinOperator \/ EndJoin \/ Stopped
  BY <1>6 DEF Take, LetGo, JoinOperator, Hold, EndJoin, Stopped, vars
<1>7. QED
  BY <1>1, <1>2, <1>3, <1>4, <1>5, <1>6 DEF Next

MeansAll == DOMAIN meant = DOMAIN text

LEMMA MeansAllStays == Typed /\ MeansAll /\ [Next]_vars => MeansAll'
<1> SUFFICES ASSUME Typed, MeansAll, [Next]_vars PROVE MeansAll'
  OBVIOUS
<1>1. text' = text
  BY MeaningStep DEF source
<1>2. DOMAIN meant' = DOMAIN meant
  BY MeaningStep DEF Decodes
<1>3. QED
  BY <1>1, <1>2 DEF MeansAll

LEMMA MeansAllStarts == Init => MeansAll
BY DEF Init, MeansAll

(* Of every text, what is read and what becomes of it are characters and   *)
(* lines of that text, as long as the lexer has not gone on behind it: it  *)
(* does after a star that is the last character of an unfinished note, and *)
(* at no other place (lexer.c:77-984).                                     *)
THEOREM TypesAreRight == Spec => [](mode # "beyond" => TypeOK)
<1>1. Typed /\ TInv /\ MeansAll => (mode # "beyond" => TypeOK)
  <2> SUFFICES ASSUME Typed, TInv, MeansAll, mode # "beyond" PROVE TypeOK
    OBVIOUS
  <2>1. Within /\ Quoted
    BY DEF TInv
  <2>2. mode \in Ended \cup {"code", "number", "hex", "string", "line note", "note", "join"}
    BY DEF TInv, Modes, Reading
  <2>3. ASSUME NEW ts \in Seq(TextToken) PROVE Tokens(ts)
    <3> SUFFICES ASSUME NEW k \in DOMAIN ts
                 PROVE  /\ ts[k].type \in {"word", "number", "symbol", "string"}
                        /\ ts[k].at \in Seq(1 .. Len(text)) /\ ts[k].from.line \in -1 .. Len(text)
      BY DEF Tokens
    <3>1. ts[k] \in TextToken
      BY <2>3
    <3>2. QED
      BY <3>1 DEF TextToken, AnyToken
  <2>4. Tokens(pre) /\ Tokens(tokens) /\ Tokens(held)
    BY <2>3 DEF TInv
  <2>5. Len(held) \in {0, 1}
    BY DEF Typed
  <2>6. taken \in 0 .. Len(pre) /\ rank \in 1 .. Len(Operators) + 1
    BY DEF Typed, TInv
  <2>7. QED
    BY <2>1, <2>2, <2>4, <2>5, <2>6 DEF TypeOK, Within, Quoted, MeansAll
<1>2. IInv => Typed
  BY DEF IInv
<1>3. QED
  BY Starts, Stays, TypesStart, TypesStay, MeansAllStarts, MeansAllStays, <1>1, <1>2, PTL DEF Spec

----------------------------------------------------------------------------
(***************************************************************************)
(* Where the parts of a flattened sequence lie.                            *)
(***************************************************************************)
Off(s, k) == Len(FlattenSeq(SubSeq(s, 1, k - 1)))

Laid(S, s) ==
  /\ FlattenSeq(s) \in Seq(S) /\ Off(s, 1) = 0 /\ Off(s, Len(s) + 1) = Len(FlattenSeq(s))
  /\ \A k \in 1 .. Len(s) :
       /\ Off(s, k) \in Nat /\ Len(s[k]) \in Nat /\ Off(s, k + 1) = Off(s, k) + Len(s[k])
       /\ Off(s, k + 1) <= Len(FlattenSeq(s))
       /\ \A i \in 1 .. Len(s[k]) : FlattenSeq(s)[Off(s, k) + i] = s[k][i]

LEMMA FlattenLaid ==
  ASSUME NEW S, NEW s \in Seq(Seq(S))
  PROVE  Laid(S, s)
<1> DEFINE W == Seq(S)
           F(t) == FlattenSeq(t)
<1>0. s \in Seq(W) /\ Len(s) \in Nat
  OBVIOUS
<1>1. F(s) \in W
  BY FlattenType
<1>2. Off(s, 1) = 0
  <2>1. SubSeq(s, 1, 1 - 1) = <<>>
    OBVIOUS
  <2>2. Len(<<>>) = 0
    OBVIOUS
  <2>3. QED
    BY <2>1, <2>2, FlattenEmpty, Zenon DEF Off
<1>3. Off(s, Len(s) + 1) = Len(F(s))
  <2>1. SubSeq(s, 1, (Len(s) + 1) - 1) = s
    BY <1>0
  <2>2. QED
    BY <2>1 DEF Off
<1>4. ASSUME NEW k \in 1 .. Len(s)
      PROVE  /\ Off(s, k) \in Nat /\ Len(s[k]) \in Nat /\ Off(s, k + 1) = Off(s, k) + Len(s[k])
             /\ Off(s, k + 1) <= Len(F(s))
             /\ \A i \in 1 .. Len(s[k]) : F(s)[Off(s, k) + i] = s[k][i]
  <2> DEFINE a == SubSeq(s, 1, k - 1)
             b == SubSeq(s, 1, k)
             c == SubSeq(s, k + 1, Len(s))
  <2>1. a \in Seq(W) /\ s[k] \in W /\ b = Append(a, s[k]) /\ s = b \o c /\ b \in Seq(W) /\ c \in Seq(W)
    <3> HIDE DEF W
    <3>1. QED
      BY <1>0, Split, Zenon
  <2>2. F(b) = F(a) \o s[k]
    BY <2>1, FlattenAppend
  <2>3. F(s) = F(b) \o F(c)
    BY <2>1, FlattenConcat
  <2>4. F(a) \in W /\ F(b) \in W /\ F(c) \in W
    BY <2>1, FlattenType
  <2>5. Off(s, k) = Len(F(a)) /\ Off(s, k + 1) = Len(F(b))
    <3>1. (k + 1) - 1 = k
      OBVIOUS
    <3>2. QED
      BY <3>1 DEF Off
  <2>6. PICK x, y, z, w, e : x = F(a) /\ y = F(b) /\ z = F(s) /\ w = s[k] /\ e = F(c)
    OBVIOUS
  <2> HIDE DEF a, b, c, F
  <2>7. x \in Seq(S) /\ y \in Seq(S) /\ w \in Seq(S) /\ e \in Seq(S) /\ y = x \o w /\ z = y \o e
    BY <2>1, <2>2, <2>3, <2>4, <2>6
  <2>8. /\ Len(x) \in Nat /\ Len(w) \in Nat /\ Len(y) = Len(x) + Len(w) /\ Len(y) <= Len(z)
        /\ \A i \in 1 .. Len(w) : y[Len(x) + i] = w[i]
        /\ \A p \in 1 .. Len(y) : z[p] = y[p]
    BY <2>7
  <2>9. ASSUME NEW i \in 1 .. Len(w) PROVE z[Len(x) + i] = w[i]
    <3>1. Len(x) + i \in 1 .. Len(y)
      BY <2>8
    <3>2. QED
      BY <2>8, <3>1
  <2>10. QED
    BY <2>5, <2>6, <2>8, <2>9
<1>5. QED
  BY <1>1, <1>2, <1>3, <1>4 DEF Laid

LEMMA OffNat ==
  ASSUME NEW S, NEW s, s \in Seq(Seq(S)), Laid(S, s), NEW k \in 1 .. Len(s) + 1
  PROVE  Off(s, k) \in Nat
<1>0. Len(s) \in Nat
  OBVIOUS
<1>1. CASE k <= Len(s)
  BY <1>0, <1>1 DEF Laid
<1>2. CASE k = Len(s) + 1
  BY <1>2 DEF Laid
<1>3. QED
  BY <1>0, <1>1, <1>2

LEMMA OffRises ==
  ASSUME NEW S, NEW s, s \in Seq(Seq(S)), Laid(S, s),
         NEW j \in 1 .. Len(s) + 1, NEW k \in j .. Len(s) + 1
  PROVE  Off(s, j) <= Off(s, k)
<1> DEFINE T == {n \in Nat : j + n <= Len(s) + 1 => Off(s, j) <= Off(s, j + n)}
<1>0. Len(s) \in Nat
  OBVIOUS
<1>1. 0 \in T
  <2>1. Off(s, j) \in Nat /\ j + 0 = j
    BY OffNat
  <2>2. QED
    BY <2>1
<1>2. ASSUME NEW n \in Nat, n \in T PROVE n + 1 \in T
  <2> SUFFICES ASSUME j + (n + 1) <= Len(s) + 1 PROVE Off(s, j) <= Off(s, j + (n + 1))
    OBVIOUS
  <2>1. j + n \in 1 .. Len(s) /\ j + (n + 1) = (j + n) + 1
    BY <1>0
  <2>2. Off(s, j) <= Off(s, j + n)
    BY <1>0, <1>2, <2>1
  <2>3. Off(s, j + n) \in Nat /\ Len(s[j + n]) \in Nat /\ Off(s, (j + n) + 1) = Off(s, j + n) + Len(s[j + n])
    BY <2>1 DEF Laid
  <2>4. Off(s, j) \in Nat
    BY OffNat
  <2>5. QED
    BY <2>1, <2>2, <2>3, <2>4
<1> HIDE DEF T
<1>3. Nat \subseteq T
  BY <1>1, <1>2, Counting
<1>4. k - j \in T /\ j + (k - j) = k
  BY <1>0, <1>3
<1>5. QED
  BY <1>0, <1>4 DEF T

LEMMA OnePlace ==
  ASSUME NEW S, NEW s, s \in Seq(Seq(S)), Laid(S, s),
         NEW j \in 1 .. Len(s) + 1, NEW k \in 1 .. Len(s) + 1, NEW h \in Nat, NEW i \in Nat,
         j <= Len(s) => h < Len(s[j]), k <= Len(s) => i < Len(s[k]), Off(s, j) + h = Off(s, k) + i,
         j > Len(s) => h = 0, k > Len(s) => i = 0
  PROVE  j = k /\ h = i
<1>0. Len(s) \in Nat /\ Off(s, j) \in Nat /\ Off(s, k) \in Nat
  BY OffNat
<1>1. ASSUME NEW a \in 1 .. Len(s), NEW b \in a + 1 .. Len(s) + 1
      PROVE  Off(s, a) + Len(s[a]) <= Off(s, b) /\ Off(s, a) \in Nat /\ Off(s, b) \in Nat /\ Len(s[a]) \in Nat
  <2>1. a + 1 \in 1 .. Len(s) + 1 /\ b \in 1 .. Len(s) + 1
    BY <1>0
  <2>2. Off(s, a + 1) <= Off(s, b)
    BY <2>1, OffRises
  <2>3. Off(s, a) \in Nat /\ Off(s, b) \in Nat
    <3>1. a \in 1 .. Len(s) + 1
      BY <1>0
    <3>2. QED
      BY <2>1, <3>1, OffNat
  <2>4. QED
    BY <2>2, <2>3 DEF Laid
<1>2. CASE j < k
  <2>1. j \in 1 .. Len(s) /\ k \in j + 1 .. Len(s) + 1
    BY <1>0, <1>2
  <2>2. Off(s, j) + Len(s[j]) <= Off(s, k) /\ Len(s[j]) \in Nat
    BY <1>1, <2>1
  <2>3. h < Len(s[j])
    BY <2>1
  <2>4. QED
    BY <1>0, <2>2, <2>3
<1>3. CASE k < j
  <2>1. k \in 1 .. Len(s) /\ j \in k + 1 .. Len(s) + 1
    BY <1>0, <1>3
  <2>2. Off(s, k) + Len(s[k]) <= Off(s, j) /\ Len(s[k]) \in Nat
    BY <1>1, <2>1
  <2>3. i < Len(s[k])
    BY <2>1
  <2>4. QED
    BY <1>0, <2>2, <2>3
<1>4. CASE j = k
  BY <1>0, <1>4
<1>5. QED
  BY <1>0, <1>2, <1>3, <1>4

----------------------------------------------------------------------------
(***************************************************************************)
(* What the lexer reads.  The state of _sbPreLexer is described by where   *)
(* it stands: at which character of which piece, and what it has then.     *)
(***************************************************************************)
Layout(P, t) ==
  /\ Len(P) \in Nat /\ DOMAIN P = 1 .. Len(P) /\ Before(P, 1) = 0
  /\ \A k \in 1 .. Len(P) + 1 : Before(P, k) \in Nat
  /\ \A k \in 1 .. Len(P) :
       /\ Len(P[k].chars) \in Nat \ {0} /\ DOMAIN P[k].chars = 1 .. Len(P[k].chars)
       /\ Before(P, k + 1) = Before(P, k) + Len(P[k].chars)
       /\ \A i \in 1 .. Len(P[k].chars) : Before(P, k) + i <= Len(t) => t[Before(P, k) + i] = P[k].chars[i]
  /\ Len(t) \in Nat /\ Len(t) <= Before(P, Len(P) + 1)

Letters(P) == UNION {Range(P[k].chars) : k \in DOMAIN P}

LEMMA CharsOf ==
  ASSUME NEW P, NEW counts, WellWritten(P, counts)
  PROVE  /\ Chars(P) \in Seq(Seq(Letters(P))) /\ Len(Chars(P)) = Len(P) /\ Len(P) \in Nat
         /\ DOMAIN P = 1 .. Len(P)
         /\ \A k \in 1 .. Len(P) : /\ Chars(P)[k] = P[k].chars /\ P[k].chars \in Seq(Letters(P))
                                   /\ P[k].chars # <<>>
<1>1. P \in Seq(Range(P)) /\ \A k \in DOMAIN P : PieceWritten(P[k], counts)
  BY DEF WellWritten
<1>2. Len(P) \in Nat /\ DOMAIN P = 1 .. Len(P)
  BY <1>1
<1>3. ASSUME NEW k \in DOMAIN P PROVE P[k].chars \in Seq(Letters(P)) /\ P[k].chars # <<>>
  <2>1. P[k].chars \in Seq(Range(P[k].chars)) /\ P[k].chars # <<>>
    BY <1>1 DEF PieceWritten
  <2>2. Range(P[k].chars) \subseteq Letters(P)
    BY DEF Letters
  <2>3. PICK c, A, Z : c = P[k].chars /\ A = Range(P[k].chars) /\ Z = Letters(P)
    OBVIOUS
  <2>4. c \in Seq(A) /\ A \subseteq Z
    BY <2>1, <2>2, <2>3
  <2>5. c \in Seq(Z)
    BY <2>4
  <2>6. QED
    BY <2>1, <2>3, <2>5
<1>4. PICK n, Z : n = Len(P) /\ Z = Seq(Letters(P))
  OBVIOUS
<1>5. Chars(P) = [k \in 1 .. n |-> P[k].chars]
  BY <1>2, <1>4 DEF Chars
<1>6. \A k \in 1 .. n : P[k].chars \in Z
  BY <1>2, <1>3, <1>4
<1>7. [k \in 1 .. n |-> P[k].chars] \in Seq(Z) /\ Len([k \in 1 .. n |-> P[k].chars]) = n
  BY <1>2, <1>4, <1>6
<1>8. QED
  BY <1>2, <1>3, <1>4, <1>5, <1>7

LEMMA BeforeIsOff == \A P, k : Before(P, k) = Off(Chars(P), k)
BY DEF Before, Off

LEMMA Cutting ==
  ASSUME NEW S, NEW w \in Seq(S), NEW n \in Nat, n <= Len(w)
  PROVE  Len(SubSeq(w, 1, n)) = n /\ \A i \in 1 .. n : SubSeq(w, 1, n)[i] = w[i]
OBVIOUS

LEMMA LaidOut ==
  ASSUME NEW P, NEW counts, WellWritten(P, counts), NEW n \in Nat, n <= Len(Whole(P))
  PROVE  Layout(P, SubSeq(Whole(P), 1, n))
<1>1. PICK S, C : S = Letters(P) /\ C = Chars(P)
  OBVIOUS
<1>2. /\ C \in Seq(Seq(S)) /\ Len(C) = Len(P) /\ Len(P) \in Nat /\ DOMAIN P = 1 .. Len(P)
      /\ \A k \in 1 .. Len(P) : C[k] = P[k].chars /\ P[k].chars \in Seq(S) /\ P[k].chars # <<>>
  BY <1>1, CharsOf
<1>3. Laid(S, C)
  BY <1>2, FlattenLaid
<1>4. \A k : Before(P, k) = Off(C, k)
  BY <1>1, BeforeIsOff
<1>5. PICK w : w = Whole(P)
  OBVIOUS
<1>6. w = FlattenSeq(C) /\ w \in Seq(S)
  BY <1>1, <1>3, <1>5 DEF Whole, Laid
<1>7. Len(SubSeq(w, 1, n)) = n /\ \A i \in 1 .. n : SubSeq(w, 1, n)[i] = w[i]
  BY <1>5, <1>6, Cutting
<1>8. PICK t : t = SubSeq(w, 1, n)
  OBVIOUS
<1>9. \A k \in 1 .. Len(P) + 1 : Before(P, k) \in Nat
  BY <1>2, <1>3, <1>4, OffNat
<1>10. Before(P, 1) = 0 /\ Before(P, Len(P) + 1) = Len(w)
  BY <1>2, <1>3, <1>4, <1>6 DEF Laid
<1>11. ASSUME NEW k \in 1 .. Len(P)
       PROVE  /\ Len(P[k].chars) \in Nat \ {0} /\ DOMAIN P[k].chars = 1 .. Len(P[k].chars)
              /\ Before(P, k + 1) = Before(P, k) + Len(P[k].chars)
              /\ \A i \in 1 .. Len(P[k].chars) : Before(P, k) + i <= Len(t) => t[Before(P, k) + i] = P[k].chars[i]
  <2>1. PICK c : c = P[k].chars
    OBVIOUS
  <2>2. c \in Seq(S) /\ c # <<>> /\ C[k] = c
    BY <1>2, <2>1
  <2>3. Len(c) \in Nat \ {0} /\ DOMAIN c = 1 .. Len(c)
    BY <2>2
  <2>4. /\ Off(C, k) \in Nat /\ Off(C, k + 1) = Off(C, k) + Len(c)
        /\ \A i \in 1 .. Len(c) : w[Off(C, k) + i] = c[i]
    BY <1>2, <1>3, <1>6, <2>2 DEF Laid
  <2>5. ASSUME NEW i \in 1 .. Len(c), Off(C, k) + i <= Len(t) PROVE t[Off(C, k) + i] = c[i]
    <3>1. Off(C, k) + i \in 1 .. n
      BY <1>7, <1>8, <2>3, <2>4, <2>5
    <3>2. QED
      BY <1>7, <1>8, <2>4, <3>1
  <2>6. QED
    BY <1>4, <2>1, <2>3, <2>4, <2>5
<1>12. Len(t) = n
  BY <1>7, <1>8
<1>13. Layout(P, t)
  BY <1>2, <1>5, <1>9, <1>10, <1>11, <1>12 DEF Layout
<1>14. QED
  BY <1>5, <1>8, <1>13

LEMMA OneStand ==
  ASSUME NEW P, NEW counts, WellWritten(P, counts),
         NEW j \in 1 .. Len(P), NEW k \in 1 .. Len(P) + 1, NEW h \in Nat, NEW i \in Nat,
         h < Len(P[j].chars), k <= Len(P) => i < Len(P[k].chars), k > Len(P) => i = 0,
         Before(P, j) + h = Before(P, k) + i
  PROVE  j = k /\ h = i
<1>1. PICK S, C : S = Letters(P) /\ C = Chars(P)
  OBVIOUS
<1>2. /\ C \in Seq(Seq(S)) /\ Len(C) = Len(P) /\ Len(P) \in Nat
      /\ \A m \in 1 .. Len(P) : C[m] = P[m].chars
  BY <1>1, CharsOf
<1>3. Laid(S, C)
  BY <1>2, FlattenLaid
<1>4. Off(C, j) + h = Off(C, k) + i
  BY <1>1, BeforeIsOff
<1>5. j \in 1 .. Len(C) + 1 /\ k \in 1 .. Len(C) + 1 /\ j <= Len(C)
  BY <1>2
<1>6. h < Len(C[j])
  BY <1>2
<1>7. k <= Len(C) => i < Len(C[k])
  BY <1>2
<1>8. QED
  BY <1>2, <1>3, <1>4, <1>5, <1>6, <1>7, OnePlace

(***************************************************************************)
(* What a step of _sbPreLexer does in code, in a string, in a note and at  *)
(* the end: s is the state before it, u the one after.  Of a token only    *)
(* its type and its places are shown.                                      *)
(***************************************************************************)
Part(type, places) == [type |-> type, at |-> places]
Shown(ts) == [k \in DOMAIN ts |-> Part(ts[k].type, ts[k].at)]

Now == [mode |-> mode, at |-> at, quote |-> quote, buffer |-> buffer, shown |-> Shown(pre)]

CodeModes == {"code", "number", "hex"}
AnyPart   == [type : {"word", "number", "symbol", "string"}, at : Seq(Nat)]
AnyState(s) == s.at \in Nat /\ s.buffer \in Seq(Nat) /\ s.shown \in Seq(AnyPart)

SavedIn(s) == IF s.buffer = <<>> THEN s.shown
              ELSE Append(s.shown, Part(IF s.mode = "code" THEN "word" ELSE "number", s.buffer))

Ahead(t, a, n) == IF a + 1 + n <= Len(t) THEN t[a + 1 + n] ELSE "end"

MakesSymbol(s, u, n) ==
  /\ u.shown = Append(SavedIn(s), Part("symbol", [k \in 1 .. n |-> s.at + k]))
  /\ u.at = s.at + n /\ u.mode = "code" /\ u.buffer = <<>>

BeginsNote(f, s, u) ==
  /\ u.shown = SavedIn(s) /\ u.at = s.at + 2 /\ u.buffer = <<>>
  /\ u.mode = IF f = "/" THEN "line note" ELSE "note"

GoesOn(s, u, m) == u.buffer = Append(s.buffer, s.at + 1) /\ u.shown = s.shown /\ u.at = s.at + 1 /\ u.mode = m

BeginsWord(s, u) == u.buffer = <<s.at + 1>> /\ u.shown = SavedIn(s) /\ u.at = s.at + 1 /\ u.mode = "code"

OfNumber(c, m) == (m = "hex" /\ c \in HexLetters) \/ (m = "number" /\ c = "x")

Leaves(s, u, m) == u.shown = SavedIn(s) /\ u.at = s.at + 1 /\ u.buffer = <<>> /\ u.mode = m

Escaped(t, a) ==
  CASE Ahead(t, a, 1) \in {"\\", "n", "t", "e", "r", "f", "v", "\n"} -> 2
    [] Ahead(t, a, 1) = "x" /\ {Ahead(t, a, 2), Ahead(t, a, 3)} \subseteq Digits \cup HexLetters -> 4
    [] OTHER -> 0

ContinuesLine(s, u) == u.shown = SavedIn(s) /\ u.at = s.at + 2 /\ u.buffer = <<>> /\ u.mode = "code"

CodeStep(t, s, u) ==
  LET c == t[s.at + 1]  f == Ahead(t, s.at, 1) IN
  \/ c \in Singles /\ MakesSymbol(s, u, 1)
  \/ c \in Firsts /\ MakesSymbol(s, u, IF f \in Seconds(c) THEN 2 ELSE 1)
  \/ c = "/" /\ f \notin {"/", "*"} /\ MakesSymbol(s, u, 1)
  \/ c = "/" /\ f \in {"/", "*"} /\ BeginsNote(f, s, u)
  \/ c \in Digits /\ GoesOn(s, u, IF s.buffer = <<>> THEN "number" ELSE s.mode)
  \/ Letter(c) /\ IF OfNumber(c, s.mode) THEN GoesOn(s, u, "hex")
                  ELSE IF s.mode = "code" THEN GoesOn(s, u, "code") ELSE BeginsWord(s, u)
  \/ c \in Blanks /\ Leaves(s, u, "code")
  \/ c \in Quotes /\ Leaves(s, u, "string") /\ u.quote = c
  \/ c = "\\" /\ (f = "\n" => ContinuesLine(s, u))

StringStep(t, s, u) ==
  LET c == t[s.at + 1]  f == Ahead(t, s.at, 1) IN
  /\ u.quote \in {s.quote, NoQuote} /\ (u.mode = "string" => u.quote = s.quote)
  /\ \/ /\ c = s.quote /\ u.shown = Append(s.shown, Part("string", s.buffer))
        /\ u.buffer = <<>> /\ u.at = s.at + 1 /\ u.mode = "code"
     \/ c \notin {s.quote, "\\"} /\ GoesOn(s, u, "string")
     \/ c = "\\" /\ Escaped(t, s.at) = 0 /\ u.mode = IF f = "end" THEN "unfinished" ELSE "wrong"
     \/ /\ c = "\\" /\ Escaped(t, s.at) # 0 /\ u.mode = "string" /\ u.shown = s.shown
        /\ u.at = s.at + Escaped(t, s.at)
        /\ u.buffer = IF f = "\n" THEN s.buffer ELSE Append(s.buffer, s.at + Escaped(t, s.at))

LineNoteStep(t, s, u) ==
  /\ u.at = s.at + 1 /\ u.mode = (IF t[s.at + 1] = "\n" THEN "code" ELSE "line note")
  /\ u.shown = s.shown /\ u.buffer = s.buffer

NoteStep(t, s, u) ==
  LET f == Ahead(t, s.at, 1) IN
  /\ u.shown = s.shown /\ u.buffer = s.buffer
  /\ IF t[s.at + 1] # "*" THEN u.at = s.at + 1 /\ u.mode = "note"
     ELSE /\ u.at = s.at + 2
          /\ u.mode = CASE f = "/" -> "code" [] f = "end" -> "beyond" [] OTHER -> "note"

EndStep(s, u) ==
  /\ s.mode = "string" => u.mode = "unfinished"
  /\ s.mode # "string" => u.mode = "join" /\ u.shown = SavedIn(s) /\ u.buffer = <<>>

LEMMA Shows ==
  ASSUME NEW ts \in Seq(AnyToken)
  PROVE  /\ Shown(ts) \in Seq(AnyPart) /\ Len(Shown(ts)) = Len(ts)
         /\ \A k \in 1 .. Len(ts) : Shown(ts)[k] = Part(ts[k].type, ts[k].at) /\ ts[k] \in AnyToken
<1>1. \A x \in AnyToken : Part(x.type, x.at) \in AnyPart
  BY DEF AnyToken, Part, AnyPart
<1>2. PICK n : n = Len(ts)
  OBVIOUS
<1>3. n \in Nat /\ DOMAIN ts = 1 .. n /\ \A k \in 1 .. n : ts[k] \in AnyToken
  BY <1>2
<1>4. Shown(ts) = [k \in 1 .. n |-> Part(ts[k].type, ts[k].at)]
  BY <1>3 DEF Shown
<1>5. \A k \in 1 .. n : Part(ts[k].type, ts[k].at) \in AnyPart
  BY <1>1, <1>3
<1>6. Shown(ts) \in Seq(AnyPart) /\ Len(Shown(ts)) = n
  BY <1>3, <1>4, <1>5
<1>7. QED
  BY <1>2, <1>3, <1>4, <1>6

LEMMA ShowsMore ==
  ASSUME NEW ts \in Seq(AnyToken), NEW x \in AnyToken
  PROVE  Shown(Append(ts, x)) = Append(Shown(ts), Part(x.type, x.at))
<1>1. PICK n : n = Len(ts)
  OBVIOUS
<1>2. PICK us : us = Append(ts, x)
  OBVIOUS
<1>3. us \in Seq(AnyToken) /\ Len(us) = n + 1 /\ n \in Nat /\ us[n + 1] = x /\ \A k \in 1 .. n : us[k] = ts[k]
  BY <1>1, <1>2
<1>4. PICK a, b, p : a = Shown(us) /\ b = Shown(ts) /\ p = Part(x.type, x.at)
  OBVIOUS
<1>5. /\ a \in Seq(AnyPart) /\ Len(a) = n + 1 /\ b \in Seq(AnyPart) /\ Len(b) = n
      /\ \A k \in 1 .. n + 1 : a[k] = Part(us[k].type, us[k].at)
      /\ \A k \in 1 .. n : b[k] = Part(ts[k].type, ts[k].at)
  BY <1>1, <1>3, <1>4, Shows
<1>6. a[n + 1] = p /\ \A k \in 1 .. n : a[k] = b[k]
  BY <1>3, <1>4, <1>5
<1>7. a = Append(b, p)
  BY <1>3, <1>5, <1>6
<1>8. QED
  BY <1>2, <1>4, <1>7

(* Nothing in the buffer is hidden by a NUL. *)
Clean == UpToNul(buffer) = buffer /\ (mode \in {"number", "hex"} => buffer # <<>>)

LEMMA CleanFacts ==
  ASSUME Clean
  PROVE  ~Hidden /\ (Idle <=> mode = "code" /\ buffer = <<>>)
BY DEF Clean, Hidden, Idle

LEMMA ShowsSaved ==
  ASSUME Typed, Clean
  PROVE  /\ mode \in CodeModes \/ buffer # <<>> => Shown(Saved) = SavedIn(Now)
         /\ Saved \in Seq(AnyToken)
         /\ Now.mode = mode /\ Now.at = at /\ Now.quote = quote /\ Now.buffer = buffer /\ Now.shown = Shown(pre)
<1>1. Now.mode = mode /\ Now.at = at /\ Now.quote = quote /\ Now.buffer = buffer /\ Now.shown = Shown(pre)
  BY DEF Now
<1>2. Saved \in Seq(AnyToken)
  BY SavedFacts
<1>3. CASE Idle
  BY <1>1, <1>2, <1>3, CleanFacts DEF Saved, SavedIn
<1>4. CASE ~Idle
  <2> DEFINE x == Token(IF mode = "code" THEN "word" ELSE "number", buffer, from)
  <2>1. x \in AnyToken /\ x.at = buffer /\ x.type = IF mode = "code" THEN "word" ELSE "number"
    BY DEF Token, AnyToken, Typed
  <2>2. Saved = Append(pre, x)
    BY <1>4 DEF Saved, Clean
  <2> HIDE DEF x
  <2>3. Shown(Saved) = Append(Shown(pre), Part(IF mode = "code" THEN "word" ELSE "number", buffer))
    BY <2>1, <2>2, ShowsMore DEF Typed
  <2>4. mode \in CodeModes \/ buffer # <<>> => buffer # <<>>
    BY <1>4, CleanFacts DEF Clean, CodeModes
  <2>5. QED
    BY <1>1, <1>2, <2>3, <2>4 DEF SavedIn
<1>5. QED
  BY <1>3, <1>4

LEMMA Afterwards ==
  /\ Now'.mode = mode' /\ Now'.at = at' /\ Now'.quote = quote' /\ Now'.buffer = buffer' /\ Now'.shown = Shown(pre')
BY DEF Now

LEMMA ShowsSymbol ==
  ASSUME Typed, Clean, mode \in CodeModes, NEW n \in {1, 2}, Symbol(n)
  PROVE  MakesSymbol(Now, Now', n)
<1> DEFINE x == Token("symbol", [k \in 1 .. n |-> at + k], Position)
<1>1. x.type = "symbol" /\ x.at = [k \in 1 .. n |-> at + k] /\ x \in AnyToken
  <2>1. [k \in 1 .. n |-> at + k] \in Seq(Nat) /\ Position \in Froms
    <3>1. n \in Nat /\ \A k \in 1 .. n : at + k \in Nat
      BY DEF Typed
    <3>2. QED
      BY <3>1, HereFacts
  <2>2. QED
    BY <2>1 DEF Token, AnyToken
<1>2. pre' = Append(Saved, x) /\ at' = at + n /\ mode' = "code" /\ buffer' = <<>>
  BY CleanFacts DEF Symbol, Empty
<1> HIDE DEF x
<1>3. Shown(pre') = Append(SavedIn(Now), Part("symbol", [k \in 1 .. n |-> at + k]))
  BY <1>1, <1>2, ShowsSaved, ShowsMore
<1>4. QED
  BY <1>2, <1>3, ShowsSaved, Afterwards DEF MakesSymbol

LEMMA AheadIs == Here = at + 1 /\ \A n : Follower(n) = Ahead(text, at, n)
BY DEF Here, Follower, Ahead

LEMMA NotEnded ==
  ASSUME Typed, at < Len(text)
  PROVE  ~EndText
<1> SUFFICES ASSUME EndText PROVE FALSE
  OBVIOUS
<1>1. at = Len(text) /\ at \in Nat
  BY DEF EndText, Typed
<1>2. QED
  BY <1>1

LEMMA ShowsCode ==
  ASSUME Typed, Clean, ReadStep, at < Len(text), mode \in CodeModes
  PROVE  CodeStep(text, Now, Now')
<1>1. /\ Shown(Saved) = SavedIn(Now) /\ Now.mode = mode /\ Now.at = at /\ Now.buffer = buffer /\ Now.shown = Shown(pre)
      /\ Now'.mode = mode' /\ Now'.at = at' /\ Now'.quote = quote' /\ Now'.buffer = buffer' /\ Now'.shown = Shown(pre')
      /\ Char = text[Now.at + 1] /\ Follower(1) = Ahead(text, Now.at, 1) /\ Here = Now.at + 1
  BY ShowsSaved, Afterwards, AheadIs DEF Char
<1>2. CASE ReadSingle
  <2>1. Char \in Singles /\ Symbol(1)
    BY <1>2 DEF ReadSingle
  <2>2. QED
    BY <1>1, <2>1, ShowsSymbol DEF CodeStep
<1>3. CASE ReadPair
  <2>1. Char \in Firsts /\ Symbol(IF Follower(1) \in Seconds(Char) THEN 2 ELSE 1)
    BY <1>3 DEF ReadPair
  <2>2. PICK n \in {1, 2} : n = IF Follower(1) \in Seconds(Char) THEN 2 ELSE 1
    OBVIOUS
  <2>3. MakesSymbol(Now, Now', n)
    BY <2>1, <2>2, ShowsSymbol
  <2>4. QED
    BY <1>1, <2>1, <2>2, <2>3 DEF CodeStep
<1>4. CASE ReadSlash
  <2>1. CASE Follower(1) \in {"/", "*"}
    <3>1. Char = "/" /\ BeginsNote(Follower(1), Now, Now')
      BY <1>1, <1>4, <2>1 DEF ReadSlash, Empty, BeginsNote
    <3>2. QED
      BY <1>1, <2>1, <3>1 DEF CodeStep
  <2>2. CASE Follower(1) \notin {"/", "*"}
    <3>1. Char = "/" /\ Symbol(1)
      BY <1>4, <2>2 DEF ReadSlash
    <3>2. QED
      BY <1>1, <2>2, <3>1, ShowsSymbol DEF CodeStep
  <2>3. QED
    BY <2>1, <2>2
<1>5. CASE ReadDigit
  <2>1. Char \in Digits /\ GoesOn(Now, Now', IF Now.buffer = <<>> THEN "number" ELSE Now.mode)
    BY <1>1, <1>5, CleanFacts DEF ReadDigit, GoesOn, Clean, CodeModes
  <2>2. QED
    BY <1>1, <2>1 DEF CodeStep
<1>6. CASE ReadLetter
  <2>1. Letter(Char) /\ at' = at + 1
    BY <1>6 DEF ReadLetter
  <2>2. CASE OfNumber(Char, mode)
    <3>1. buffer' = Append(buffer, Here) /\ pre' = pre /\ mode' = "hex"
      BY <1>6, <2>2 DEF ReadLetter, OfNumber
    <3>2. GoesOn(Now, Now', "hex")
      BY <1>1, <2>1, <3>1 DEF GoesOn
    <3>3. QED
      BY <1>1, <2>1, <2>2, <3>2 DEF CodeStep
  <2>3. CASE ~OfNumber(Char, mode) /\ mode = "code"
    <3>1. buffer' = Append(buffer, Here) /\ pre' = pre /\ mode' = "code"
      BY <1>6, <2>3 DEF ReadLetter, OfNumber
    <3>2. GoesOn(Now, Now', "code")
      BY <1>1, <2>1, <3>1 DEF GoesOn
    <3>3. QED
      BY <1>1, <2>1, <2>3, <3>2 DEF CodeStep
  <2>4. CASE ~OfNumber(Char, mode) /\ mode # "code"
    <3>1. buffer' = <<Here>> /\ pre' = Saved /\ mode' = "code"
      BY <1>6, <2>4 DEF ReadLetter, OfNumber
    <3>2. BeginsWord(Now, Now')
      BY <1>1, <2>1, <3>1 DEF BeginsWord
    <3>3. QED
      BY <1>1, <2>1, <2>4, <3>2 DEF CodeStep
  <2>5. QED
    BY <2>2, <2>3, <2>4
<1>7. CASE ReadBlank
  <2>1. Char \in Blanks /\ Leaves(Now, Now', "code")
    BY <1>1, <1>7, CleanFacts DEF ReadBlank, Empty, Leaves
  <2>2. QED
    BY <1>1, <2>1 DEF CodeStep
<1>8. CASE OpenString
  <2>1. Char \in Quotes /\ Leaves(Now, Now', "string") /\ Now'.quote = Char
    BY <1>1, <1>8, CleanFacts DEF OpenString, Leaves
  <2>2. QED
    BY <1>1, <2>1 DEF CodeStep
<1>9. CASE Escape
  <2>1. Char = "\\"
    BY <1>9 DEF Escape
  <2>2. ASSUME Follower(1) = "\n" PROVE ContinuesLine(Now, Now')
    <3>1. EscapeLength = 2 /\ mode # "string"
      BY <2>2 DEF EscapeLength, CodeModes
    <3>2. pre' = Saved /\ at' = at + 2 /\ mode' = "code" /\ buffer' = <<>>
      BY <1>9, <2>2, <3>1, CleanFacts DEF Escape
    <3>3. QED
      BY <1>1, <3>2 DEF ContinuesLine
  <2>3. QED
    BY <1>1, <2>1, <2>2 DEF CodeStep
<1>10. ~SkipLineNote /\ ~SkipNote /\ ~CloseString /\ ~ReadInString
  BY DEF SkipLineNote, SkipNote, CloseString, ReadInString, InString, Reads, CodeModes
<1>11. ~EndText
  BY NotEnded
<1>12. QED
  BY <1>2, <1>3, <1>4, <1>5, <1>6, <1>7, <1>8, <1>9, <1>10, <1>11 DEF ReadStep

LEMMA ShowsString ==
  ASSUME Typed, Clean, ReadStep, at < Len(text), mode = "string"
  PROVE  StringStep(text, Now, Now')
<1>1. /\ Now.mode = mode /\ Now.at = at /\ Now.buffer = buffer /\ Now.shown = Shown(pre) /\ Now.quote = quote
      /\ Now'.mode = mode' /\ Now'.at = at' /\ Now'.quote = quote' /\ Now'.buffer = buffer' /\ Now'.shown = Shown(pre')
      /\ Char = text[Now.at + 1] /\ Follower(1) = Ahead(text, Now.at, 1) /\ Here = Now.at + 1
      /\ EscapeLength = Escaped(text, Now.at)
  <2>1. EscapeLength = Escaped(text, at)
    BY AheadIs, Zenon DEF EscapeLength, Escaped
  <2>2. QED
    BY <2>1, ShowsSaved, Afterwards, AheadIs DEF Char
<1>2. CASE CloseString
  <2> DEFINE x == Token("string", buffer, from)
  <2>1. x.type = "string" /\ x.at = buffer /\ x \in AnyToken
    BY DEF Token, AnyToken, Typed
  <2>2. /\ Char = quote /\ pre' = Append(pre, x) /\ buffer' = <<>> /\ at' = at + 1 /\ mode' = "code"
        /\ quote' = NoQuote
    BY <1>2 DEF CloseString, Empty, Clean
  <2> HIDE DEF x
  <2>3. Shown(pre') = Append(Shown(pre), Part("string", buffer))
    BY <2>1, <2>2, ShowsMore DEF Typed
  <2>4. QED
    BY <1>1, <2>2, <2>3 DEF StringStep
<1>3. CASE ReadInString
  <2>1. Char \notin {quote, "\\"} /\ GoesOn(Now, Now', "string") /\ quote' = quote
    BY <1>1, <1>3 DEF ReadInString, GoesOn
  <2>2. QED
    BY <1>1, <2>1 DEF StringStep
<1>4. CASE Escape
  <2>1. Char = "\\" /\ quote' = quote
    BY <1>4 DEF Escape
  <2>2. CASE EscapeLength = 0
    <3>1. mode' = IF Follower(1) = "end" THEN "unfinished" ELSE "wrong"
      BY <1>4, <2>2 DEF Escape
    <3>2. QED
      BY <1>1, <2>1, <2>2, <3>1 DEF StringStep
  <2>3. CASE EscapeLength # 0
    <3>1. /\ mode' = "string" /\ pre' = pre /\ at' = at + EscapeLength
          /\ buffer' = IF Follower(1) = "\n" THEN buffer ELSE Append(buffer, at + EscapeLength)
      BY <1>4, <2>3 DEF Escape
    <3>2. QED
      BY <1>1, <2>1, <2>3, <3>1 DEF StringStep
  <2>4. QED
    BY <2>2, <2>3
<1>5. /\ ~ReadSingle /\ ~ReadPair /\ ~ReadSlash /\ ~SkipLineNote /\ ~SkipNote /\ ~ReadDigit /\ ~ReadLetter
      /\ ~ReadBlank /\ ~OpenString
  BY DEF ReadSingle, ReadPair, ReadSlash, SkipLineNote, SkipNote, ReadDigit, ReadLetter, ReadBlank, OpenString,
    InCode, Reads
<1>6. ~EndText
  BY NotEnded
<1>7. QED
  BY <1>2, <1>3, <1>4, <1>5, <1>6 DEF ReadStep

LEMMA ShowsNotes ==
  ASSUME Typed, Clean, ReadStep, at < Len(text), mode \in {"line note", "note"}
  PROVE  IF mode = "note" THEN NoteStep(text, Now, Now') ELSE LineNoteStep(text, Now, Now')
<1>1. /\ Now.at = at /\ Now.buffer = buffer /\ Now.shown = Shown(pre)
      /\ Now'.mode = mode' /\ Now'.at = at' /\ Now'.buffer = buffer' /\ Now'.shown = Shown(pre')
      /\ Char = text[Now.at + 1] /\ Follower(1) = Ahead(text, Now.at, 1)
  BY ShowsSaved, Afterwards, AheadIs DEF Char
<1>2. /\ ~ReadSingle /\ ~ReadPair /\ ~ReadSlash /\ ~ReadDigit /\ ~ReadLetter
      /\ ~ReadBlank /\ ~OpenString /\ ~CloseString /\ ~ReadInString /\ ~Escape
  BY DEF ReadSingle, ReadPair, ReadSlash, ReadDigit, ReadLetter, ReadBlank, OpenString, CloseString, ReadInString,
    Escape, InCode, InString, Reads
<1>3. ~EndText
  BY NotEnded
<1>4. CASE SkipLineNote
  <2>1. mode = "line note"
    BY <1>4 DEF SkipLineNote, Reads
  <2>2. /\ at' = at + 1 /\ pre' = pre /\ buffer' = buffer
        /\ mode' = IF Char = "\n" THEN "code" ELSE mode
    BY <1>4 DEF SkipLineNote
  <2>3. QED
    BY <1>1, <2>1, <2>2 DEF LineNoteStep
<1>5. CASE SkipNote
  <2>1. mode = "note" /\ pre' = pre /\ buffer' = buffer
    BY <1>5 DEF SkipNote, Reads
  <2>2. /\ Char # "*" => at' = at + 1 /\ mode' = "note"
        /\ Char = "*" => /\ at' = at + 2
                         /\ mode' = CASE Follower(1) = "/" -> "code" [] Follower(1) = "end" -> "beyond"
                                      [] OTHER -> "note"
    BY <1>5, <2>1 DEF SkipNote
  <2>3. QED
    BY <1>1, <2>1, <2>2 DEF NoteStep
<1>6. QED
  BY <1>2, <1>3, <1>4, <1>5 DEF ReadStep

LEMMA ShowsEnd ==
  ASSUME Typed, Clean, ReadStep, at = Len(text)
  PROVE  EndStep(Now, Now') /\ UNCHANGED <<at, meant>>
<1>1. /\ mode \in CodeModes \/ buffer # <<>> => Shown(Saved) = SavedIn(Now)
      /\ Now.mode = mode /\ Now.shown = Shown(pre) /\ Now.buffer = buffer
      /\ Now'.buffer = buffer' /\ Now'.mode = mode' /\ Now'.shown = Shown(pre')
  BY ShowsSaved, Afterwards
<1>2. \A m : ~Reads(m)
  <2>1. at \in Nat /\ ~(at < Len(text))
    BY DEF Typed
  <2>2. QED
    BY <2>1 DEF Reads
<1>3. EndText
  BY <1>2 DEF ReadStep, ReadSingle, ReadPair, ReadSlash, SkipLineNote, SkipNote, ReadDigit, ReadLetter, ReadBlank,
    OpenString, CloseString, ReadInString, Escape, InCode, InString
<1>4. mode # "string" => Shown(pre') = SavedIn(Now)
  <2>1. CASE buffer = <<>>
    BY <1>1, <1>3, <2>1 DEF EndText, SavedIn, Clean
  <2>2. CASE buffer # <<>>
    BY <1>1, <1>3, <2>2 DEF EndText, Clean
  <2>3. QED
    BY <2>1, <2>2
<1>5. QED
  BY <1>1, <1>3, <1>4 DEF EndText, Empty, EndStep, Keep

----------------------------------------------------------------------------
(***************************************************************************)
(* The classes of characters, and which step reads which.                  *)
(***************************************************************************)
Coded(c) == c \in Digits \/ c \in Blanks \/ c \in Quotes \/ c \in Singles \/ c \in Firsts \/ c = "/" \/ c = "\\"

LEMMA Classes ==
  ASSUME NEW c
  PROVE  /\ c \in Digits => c \notin Blanks /\ c \notin Quotes /\ c \notin Singles /\ c \notin Firsts /\ c # "/" /\ c # "\\"
         /\ c \in Blanks => c \notin Quotes /\ c \notin Singles /\ c \notin Firsts /\ c # "/" /\ c # "\\"
         /\ c \in Quotes => c \notin Singles /\ c \notin Firsts /\ c # "/" /\ c # "\\"
         /\ c \in Singles => c \notin Firsts /\ c # "/" /\ c # "\\"
         /\ c \in Firsts => c # "/" /\ c # "\\"
         /\ Letter(c) <=> ~Coded(c)
<1>1. c \in Digits => c \notin Blanks /\ c \notin Quotes /\ c \notin Singles /\ c \notin Firsts /\ c # "/" /\ c # "\\"
  BY DEF Digits, Blanks, Quotes, Singles, Firsts
<1>2. c \in Blanks => c \notin Quotes /\ c \notin Singles /\ c \notin Firsts /\ c # "/" /\ c # "\\"
  BY DEF Blanks, Quotes, Singles, Firsts
<1>3. c \in Quotes => c \notin Singles /\ c \notin Firsts /\ c # "/" /\ c # "\\"
  BY DEF Quotes, Singles, Firsts
<1>4. c \in Singles => c \notin Firsts /\ c # "/" /\ c # "\\"
  BY DEF Singles, Firsts
<1>5. c \in Firsts => c # "/" /\ c # "\\"
  BY DEF Firsts
<1>6. Letter(c) <=> ~Coded(c)
  BY DEF Letter, Coded
<1>7. QED
  BY <1>1, <1>2, <1>3, <1>4, <1>5, <1>6

LEMMA HexAreLetters == Letter("x") /\ "x" \notin HexLetters /\ \A c \in HexLetters : Letter(c)
<1>1. "x" \notin HexLetters
  BY DEF HexLetters
<1>2. \A c \in HexLetters \cup {"x"} : c \notin Digits /\ c \notin Blanks /\ c \notin Quotes
  BY DEF HexLetters, Digits, Blanks, Quotes
<1>3. \A c \in HexLetters \cup {"x"} : c \notin Singles /\ c \notin Firsts /\ c # "/" /\ c # "\\"
  BY DEF HexLetters, Singles, Firsts
<1>4. QED
  BY <1>1, <1>2, <1>3 DEF Letter

LEMMA OnDigit ==
  ASSUME NEW t, NEW s, NEW u, CodeStep(t, s, u), t[s.at + 1] \in Digits
  PROVE  GoesOn(s, u, IF s.buffer = <<>> THEN "number" ELSE s.mode)
BY Classes DEF CodeStep, Coded

LEMMA OnLetter ==
  ASSUME NEW t, NEW s, NEW u, CodeStep(t, s, u), Letter(t[s.at + 1])
  PROVE  IF OfNumber(t[s.at + 1], s.mode) THEN GoesOn(s, u, "hex")
         ELSE IF s.mode = "code" THEN GoesOn(s, u, "code") ELSE BeginsWord(s, u)
BY Classes DEF CodeStep, Coded

LEMMA OnSingle ==
  ASSUME NEW t, NEW s, NEW u, CodeStep(t, s, u), t[s.at + 1] \in Singles
  PROVE  MakesSymbol(s, u, 1)
BY Classes DEF CodeStep, Coded

LEMMA OnFirst ==
  ASSUME NEW t, NEW s, NEW u, CodeStep(t, s, u), t[s.at + 1] \in Firsts
  PROVE  MakesSymbol(s, u, IF Ahead(t, s.at, 1) \in Seconds(t[s.at + 1]) THEN 2 ELSE 1)
BY Classes DEF CodeStep, Coded

LEMMA SlashIs == "/" \notin Digits /\ "/" \notin Blanks /\ "/" \notin Quotes /\ "/" \notin Singles /\ "/" \notin Firsts
                 /\ "/" # "\\" /\ ~Letter("/")
BY Classes DEF Coded

LEMMA OnSlash ==
  ASSUME NEW t, NEW s, NEW u, CodeStep(t, s, u), t[s.at + 1] = "/"
  PROVE  IF Ahead(t, s.at, 1) \in {"/", "*"} THEN BeginsNote(Ahead(t, s.at, 1), s, u) ELSE MakesSymbol(s, u, 1)
BY SlashIs DEF CodeStep

LEMMA OnBlank ==
  ASSUME NEW t, NEW s, NEW u, CodeStep(t, s, u), t[s.at + 1] \in Blanks
  PROVE  Leaves(s, u, "code")
BY Classes DEF CodeStep, Coded

LEMMA OnQuote ==
  ASSUME NEW t, NEW s, NEW u, CodeStep(t, s, u), t[s.at + 1] \in Quotes
  PROVE  Leaves(s, u, "string") /\ u.quote = t[s.at + 1]
BY Classes DEF CodeStep, Coded

LEMMA BackslashIs == "\\" \notin Digits /\ "\\" \notin Blanks /\ "\\" \notin Quotes /\ "\\" \notin Singles /\ "\\" \notin Firsts
                 /\ "/" # "\\" /\ ~Letter("\\")
BY Classes DEF Coded

LEMMA OnBackslash ==
  ASSUME NEW t, NEW s, NEW u, CodeStep(t, s, u), t[s.at + 1] = "\\", Ahead(t, s.at, 1) = "\n"
  PROVE  ContinuesLine(s, u)
BY BackslashIs DEF CodeStep

----------------------------------------------------------------------------
(***************************************************************************)
(* The parts of a piece p with b characters before it: the tokens that     *)
(* _sbPreLexer makes of it.  _sbLexer joins the ones of a fraction and of  *)
(* some symbols.                                                           *)
(***************************************************************************)
Run(b, n) == [i \in 1 .. n |-> b + i]

PointAt(p) == CHOOSE q \in DOMAIN p.chars : p.chars[q] = "."

PartsOf(p, b) ==
  LET n == Len(p.chars) IN
  CASE p.type = "none"   -> <<>>
    [] p.type = "word"   -> <<Part("word", Run(b, n))>>
    [] p.type = "string" -> <<Part("string", [i \in DOMAIN p.kept |-> b + p.kept[i]])>>
    [] p.type = "number" ->
         IF Fraction(p)
         THEN LET q == PointAt(p)
              IN  <<Part("number", Run(b, q - 1)), Part("symbol", Run(b + q - 1, 1)), Part("number", Run(b + q, n - q))>>
         ELSE <<Part("number", Run(b, n))>>
    [] p.type = "symbol" ->
         IF Joined(p) THEN <<Part("symbol", Run(b, n - 1)), Part("symbol", Run(b + n - 1, 1))>>
         ELSE <<Part("symbol", Run(b, n))>>

NumberMode(p, o) == IF \E i \in 1 .. o : p.chars[i] = "x" THEN "hex" ELSE "number"

BeforePoint(p, b, base) ==
  LET q == PointAt(p)
  IN  Append(Append(base, Part("number", Run(b, q - 1))), Part("symbol", Run(b + q - 1, 1)))

IsBlank(p) == \A k \in 1 .. Len(p.chars) : \/ p.chars[k] \in Blanks
                                           \/ p.chars[k] = "\\" /\ k < Len(p.chars) /\ p.chars[k + 1] = "\n"

(* In the piece, after o of its characters: base is what was before it,    *)
(* and count tells where the units of a string begin.                      *)
Inside(p, b, base, count, o, s) ==
  LET n == Len(p.chars) IN
  CASE p.type = "word"   -> s.mode = "code" /\ s.shown = base /\ s.buffer = Run(b, o)
    [] p.type = "number" ->
         IF Fraction(p) /\ o >= PointAt(p)
         THEN /\ s.shown = BeforePoint(p, b, base) /\ s.buffer = Run(b + PointAt(p), o - PointAt(p))
              /\ s.mode = IF o = PointAt(p) THEN "code" ELSE "number"
         ELSE s.shown = base /\ s.buffer = Run(b, o) /\ s.mode = NumberMode(p, o)
    [] p.type = "symbol" -> /\ Joined(p) /\ o = n - 1 /\ s.mode = "code" /\ s.buffer = <<>>
                            /\ s.shown = Append(base, Part("symbol", Run(b, o)))
    [] p.type = "string" -> /\ s.mode = "string" /\ s.quote = p.chars[1] /\ s.shown = base
                            /\ o + 1 \in DOMAIN count /\ s.buffer = [i \in 1 .. count[o + 1] |-> b + p.kept[i]]
    [] p.type = "none"   -> /\ s.shown = base /\ s.buffer = <<>>
                            /\ IF IsBlank(p) THEN s.mode = "code"
                               ELSE IF p.chars[2] = "*" THEN s.mode = "note" /\ o \in 2 .. n - 2
                               ELSE s.mode = "line note" /\ o >= 2

(* The text ends in the middle of the piece, of which there was too little *)
(* to be read as what it is.                                               *)
CutIn(p, t, s) == p.type \in {"symbol", "none"} /\ s.mode = "code" /\ s.at = Len(t)

(* Behind the piece, when all is what has been read so far: a word or a    *)
(* number may still be in the buffer.                                      *)
Behind(p, all, s) ==
  /\ s.mode \in CodeModes /\ SavedIn(s) = all /\ (s.buffer = <<>> => s.mode = "code")
  /\ s.buffer # <<>> => \/ p.type = "word" /\ s.mode = "code"
                        \/ p.type = "number" /\ s.mode = (IF "x" \in Range(p.chars) THEN "hex" ELSE "number")

(* Before a piece with the first character c.                              *)
Ready(s, c, base) ==
  /\ s.mode \in CodeModes /\ SavedIn(s) = base /\ (s.buffer = <<>> => s.mode = "code")
  /\ s.buffer # <<>> => /\ s.mode = "code" => ~Letter(c) /\ c \notin Digits
                        /\ s.mode = "number" => c \notin Digits /\ c # "x"
                        /\ s.mode = "hex" => c \notin Digits /\ c \notin HexLetters

(* The text from the piece on, in which it does not run into what follows. *)
Around(p, b, t) ==
  /\ b \in Nat /\ Len(t) \in Nat /\ Len(p.chars) \in Nat \ {0} /\ DOMAIN p.chars = 1 .. Len(p.chars)
  /\ \A i \in 1 .. Len(p.chars) : b + i <= Len(t) => t[b + i] = p.chars[i]
  /\ b + Len(p.chars) < Len(t) => Apart(p, t[b + Len(p.chars) + 1])

Stand(p, b, base, count, t, o, s) ==
  /\ o \in Nat /\ o < Len(p.chars) /\ s.at = b + o
  /\ IF o = 0 THEN Ready(s, p.chars[1], base) ELSE Inside(p, b, base, count, o, s) \/ CutIn(p, t, s)

(* What the next step leads to. *)
Onward(p, b, base, count, t, u) ==
  \/ u.at = b + Len(p.chars) /\ Behind(p, base \o PartsOf(p, b), u)
  \/ \E o \in 1 .. Len(p.chars) - 1 : u.at = b + o /\ (Inside(p, b, base, count, o, u) \/ CutIn(p, t, u))
  \/ u.mode = "beyond"
  \/ u.mode = "unfinished" /\ p.type = "string" /\ Len(t) \in b + 1 .. b + Len(p.chars) - 1

Moves(t, s, u) ==
  CASE s.mode \in CodeModes   -> CodeStep(t, s, u)
    [] s.mode = "string"      -> StringStep(t, s, u)
    [] s.mode = "line note"   -> LineNoteStep(t, s, u)
    [] s.mode = "note"        -> NoteStep(t, s, u)

LEMMA Runs ==
  ASSUME NEW b \in Nat, NEW n \in Nat
  PROVE  /\ Run(b, n) \in Seq(Nat) /\ Len(Run(b, n)) = n /\ Append(Run(b, n), b + n + 1) = Run(b, n + 1)
         /\ Run(b, 0) = <<>> /\ Run(b, 1) = <<b + 1>> /\ (n > 0 => Run(b, n) # <<>>)
<1>1. Run(b, n) \in Seq(Nat) /\ Len(Run(b, n)) = n
  BY DEF Run
<1>2. Run(b, n + 1) \in Seq(Nat) /\ Len(Run(b, n + 1)) = n + 1
  BY DEF Run
<1>3. Run(b, 0) = <<>> /\ Run(b, 1) = <<b + 1>>
  BY DEF Run
<1>4. \A k \in 1 .. n : Run(b, n)[k] = Run(b, n + 1)[k]
  BY DEF Run
<1>5. Run(b, n + 1)[n + 1] = b + n + 1
  BY DEF Run
<1>6. Append(Run(b, n), b + n + 1) = Run(b, n + 1)
  BY <1>1, <1>2, <1>4, <1>5
<1>7. n > 0 => Run(b, n) # <<>>
  BY <1>1
<1>8. QED
  BY <1>1, <1>3, <1>6, <1>7

LEMMA AppendIs ==
  ASSUME NEW base \in Seq(AnyPart), NEW x, NEW y, NEW z
  PROVE  /\ base \o <<>> = base /\ base \o <<x>> = Append(base, x)
         /\ base \o <<x, y>> = Append(Append(base, x), y)
         /\ base \o <<x, y, z>> = Append(Append(Append(base, x), y), z)
OBVIOUS

LEMMA WordStep ==
  ASSUME NEW p, NEW b, NEW base \in Seq(AnyPart), NEW count, NEW t, NEW o, NEW s, NEW u,
         p.type = "word", WordWritten(p), Around(p, b, t), Stand(p, b, base, count, t, o, s),
         s.at < Len(t), Moves(t, s, u)
  PROVE  Onward(p, b, base, count, t, u)
<1>1. PICK n, c : n = Len(p.chars) /\ c = p.chars[o + 1]
  OBVIOUS
<1>2. /\ b \in Nat /\ Len(t) \in Nat /\ n \in Nat \ {0} /\ o \in 0 .. n - 1 /\ o + 1 \in 1 .. n /\ s.at = b + o
      /\ DOMAIN p.chars = 1 .. n
  BY <1>1 DEF Around, Stand
<1>3. t[s.at + 1] = c
  <2>1. b + (o + 1) <= Len(t) /\ s.at + 1 = b + (o + 1)
    BY <1>2
  <2>2. t[b + (o + 1)] = c
    BY <1>1, <1>2, <2>1 DEF Around
  <2>3. QED
    BY <2>1, <2>2
<1>4. u.mode = "code" /\ u.shown = base /\ u.buffer = Run(b, o + 1) /\ u.at = b + (o + 1)
  <2>1. CASE o = 0
    <3>1. Ready(s, c, base) /\ Letter(c)
      BY <1>1, <2>1 DEF Stand, WordWritten
    <3>2. CodeStep(t, s, u)
      BY <3>1 DEF Moves, Ready, CodeModes
    <3>3. ~OfNumber(c, s.mode)
      BY <3>1 DEF Ready, OfNumber
    <3>4. CASE s.mode = "code"
      <4>1. s.buffer = <<>> /\ s.shown = base
        BY <3>1, <3>4 DEF Ready, SavedIn
      <4>2. GoesOn(s, u, "code")
        BY <1>3, <3>1, <3>2, <3>3, <3>4, OnLetter
      <4>3. u.buffer = <<b + 1>> /\ u.shown = base /\ u.at = b + 1 /\ u.mode = "code"
        BY <1>2, <2>1, <4>1, <4>2 DEF GoesOn
      <4>4. QED
        BY <1>2, <2>1, <4>3, Runs
    <3>5. CASE s.mode # "code"
      <4>1. BeginsWord(s, u) /\ SavedIn(s) = base
        BY <1>3, <3>1, <3>2, <3>3, <3>5, OnLetter DEF Ready
      <4>2. u.buffer = <<b + 1>> /\ u.shown = base /\ u.at = b + 1 /\ u.mode = "code"
        BY <1>2, <2>1, <4>1 DEF BeginsWord
      <4>3. QED
        BY <1>2, <2>1, <4>2, Runs
    <3>6. QED
      BY <3>4, <3>5
  <2>2. CASE o # 0
    <3>1. s.mode = "code" /\ s.shown = base /\ s.buffer = Run(b, o)
      BY <2>2 DEF Stand, Inside, CutIn
    <3>2. CodeStep(t, s, u) /\ s.buffer # <<>>
      BY <1>2, <2>2, <3>1, Runs DEF Moves, CodeModes
    <3>3. Letter(c) \/ c \in Digits
      BY <1>1, <1>2 DEF WordWritten
    <3>4. GoesOn(s, u, "code")
      <4>1. CASE Letter(c)
        BY <1>3, <3>1, <3>2, <4>1, OnLetter DEF OfNumber
      <4>2. CASE c \in Digits
        BY <1>3, <3>1, <3>2, <4>2, OnDigit
      <4>3. QED
        BY <3>3, <4>1, <4>2
    <3>5. Append(Run(b, o), b + o + 1) = Run(b, o + 1)
      BY <1>2, Runs
    <3>6. QED
      BY <1>2, <3>1, <3>4, <3>5 DEF GoesOn
  <2>3. QED
    BY <2>1, <2>2
<1>5. CASE o + 1 = n
  <2>1. Run(b, n) # <<>>
    BY <1>2, Runs
  <2>2. SavedIn(u) = Append(base, Part("word", Run(b, n)))
    BY <1>4, <1>5, <2>1 DEF SavedIn
  <2>3. PartsOf(p, b) = <<Part("word", Run(b, n))>>
    BY <1>1 DEF PartsOf
  <2>4. SavedIn(u) = base \o PartsOf(p, b)
    BY <2>2, <2>3, AppendIs
  <2>5. Behind(p, base \o PartsOf(p, b), u)
    BY <1>4, <1>5, <2>1, <2>4 DEF Behind, CodeModes
  <2>6. QED
    BY <1>1, <1>4, <1>5, <2>5 DEF Onward
<1>6. CASE o + 1 # n
  <2>1. o + 1 \in 1 .. n - 1
    BY <1>2, <1>6
  <2>2. Inside(p, b, base, count, o + 1, u)
    BY <1>4 DEF Inside
  <2>3. QED
    BY <1>1, <1>4, <2>1, <2>2 DEF Onward
<1>7. QED
  BY <1>5, <1>6

(* What is read where the piece is read, and what stands behind it.        *)
LEMMA StandFacts ==
  ASSUME NEW p, NEW b, NEW base, NEW count, NEW t, NEW o, NEW s, Around(p, b, t), Stand(p, b, base, count, t, o, s),
         s.at < Len(t)
  PROVE  /\ b \in Nat /\ Len(t) \in Nat /\ Len(p.chars) \in Nat \ {0} /\ o \in 0 .. Len(p.chars) - 1
         /\ o + 1 \in 1 .. Len(p.chars) /\ s.at = b + o /\ DOMAIN p.chars = 1 .. Len(p.chars)
         /\ t[s.at + 1] = p.chars[o + 1]
         /\ b + o + 1 = Len(t) => Ahead(t, s.at, 1) = "end"
         /\ b + o + 1 < Len(t) /\ o + 1 < Len(p.chars) => Ahead(t, s.at, 1) = p.chars[o + 2]
         /\ b + o + 1 < Len(t) /\ o + 1 = Len(p.chars) => Apart(p, Ahead(t, s.at, 1))
         /\ o > 0 => Inside(p, b, base, count, o, s)
         /\ o = 0 => Ready(s, p.chars[1], base)
<1>1. PICK n : n = Len(p.chars)
  OBVIOUS
<1>2. /\ b \in Nat /\ Len(t) \in Nat /\ n \in Nat \ {0} /\ o \in 0 .. n - 1 /\ o + 1 \in 1 .. n /\ s.at = b + o
      /\ DOMAIN p.chars = 1 .. n
  BY <1>1 DEF Around, Stand
<1>3. t[s.at + 1] = p.chars[o + 1]
  <2>1. b + (o + 1) <= Len(t) /\ s.at + 1 = b + (o + 1)
    BY <1>2
  <2>2. t[b + (o + 1)] = p.chars[o + 1]
    BY <1>1, <1>2, <2>1 DEF Around
  <2>3. QED
    BY <2>1, <2>2
<1>4. ~CutIn(p, t, s)
  BY <1>2 DEF CutIn
<1>5. (o > 0 => Inside(p, b, base, count, o, s)) /\ (o = 0 => Ready(s, p.chars[1], base))
  BY <1>2, <1>4 DEF Stand
<1>6. b + o + 1 = Len(t) => Ahead(t, s.at, 1) = "end"
  BY <1>2 DEF Ahead
<1>7. ASSUME b + o + 1 < Len(t) PROVE Ahead(t, s.at, 1) = t[b + (o + 2)] /\ b + (o + 2) <= Len(t)
  <2>1. s.at + 1 + 1 <= Len(t) /\ s.at + 1 + 1 = b + (o + 2)
    BY <1>2, <1>7
  <2>2. QED
    BY <2>1 DEF Ahead
<1>8. ASSUME b + o + 1 < Len(t), o + 1 < n PROVE Ahead(t, s.at, 1) = p.chars[o + 2]
  <2>1. o + 2 \in 1 .. n
    BY <1>2, <1>8
  <2>2. QED
    BY <1>1, <1>7, <1>8, <2>1 DEF Around
<1>9. ASSUME b + o + 1 < Len(t), o + 1 = n PROVE Apart(p, Ahead(t, s.at, 1))
  <2>1. b + n + 1 = b + (o + 2) /\ b + n < Len(t)
    BY <1>2, <1>9
  <2>2. Ahead(t, s.at, 1) = t[b + n + 1]
    BY <1>7, <1>9, <2>1
  <2>3. Apart(p, t[b + n + 1])
    BY <1>1, <2>1 DEF Around
  <2>4. QED
    BY <2>2, <2>3
<1>10. QED
  BY <1>1, <1>2, <1>3, <1>5, <1>6, <1>8, <1>9

(* At a piece, the buffer goes on for the first characters of words and    *)
(* numbers only when it is empty.                                          *)
LEMMA FirstDigit ==
  ASSUME NEW t, NEW s, NEW u, NEW base, CodeStep(t, s, u), t[s.at + 1] \in Digits, Ready(s, t[s.at + 1], base),
         s.at \in Nat
  PROVE  u.mode = "number" /\ u.shown = base /\ u.buffer = Run(s.at, 1) /\ u.at = s.at + 1
<1>1. s.buffer = <<>>
  BY DEF Ready, CodeModes
<1>2. s.shown = base
  BY <1>1 DEF Ready, SavedIn
<1>3. GoesOn(s, u, "number")
  BY <1>1, OnDigit
<1>4. Run(s.at, 1) = <<s.at + 1>>
  BY Runs
<1>5. QED
  BY <1>1, <1>2, <1>3, <1>4 DEF GoesOn

LEMMA DigitsAreNot == "." \notin Digits /\ "x" \notin Digits /\ "." \notin HexLetters /\ "x" # "." /\ "." \in Singles
BY DEF Digits, HexLetters, Singles

LEMMA FractionIs ==
  ASSUME NEW p, p.type = "number", DOMAIN p.chars = 1 .. Len(p.chars), Len(p.chars) \in Nat, Fraction(p), NumberWritten(p)
  PROVE  /\ PointAt(p) \in 2 .. Len(p.chars) - 1 /\ p.chars[PointAt(p)] = "."
         /\ \A k \in 1 .. Len(p.chars) : k # PointAt(p) => p.chars[k] \in Digits
<1>1. PICK j \in 1 .. Len(p.chars) : p.chars[j] = "."
  BY DEF Fraction, Range
<1>2. ~DigitsBut(p, 0, {})
  BY <1>1, DigitsAreNot DEF DigitsBut
<1>3. ASSUME NEW q \in 2 .. Len(p.chars), p.chars[q] = "x", DigitsBut(p, q, HexLetters) PROVE FALSE
  BY <1>1, <1>3, DigitsAreNot DEF DigitsBut
<1>4. PICK q \in 2 .. Len(p.chars) - 1 : p.chars[q] = "." /\ DigitsBut(p, q, {})
  BY <1>2, <1>3 DEF NumberWritten
<1>5. \A k \in 1 .. Len(p.chars) : k # q => p.chars[k] \in Digits
  BY <1>4 DEF DigitsBut
<1>6. PointAt(p) \in 1 .. Len(p.chars) /\ p.chars[PointAt(p)] = "."
  BY <1>1 DEF PointAt
<1>7. PointAt(p) = q
  BY <1>5, <1>6, DigitsAreNot
<1>8. QED
  BY <1>4, <1>5, <1>7

(* A number without a point. *)
LEMMA WholeIs ==
  ASSUME NEW p, p.type = "number", DOMAIN p.chars = 1 .. Len(p.chars), Len(p.chars) \in Nat, ~Fraction(p),
         NumberWritten(p), p.chars[1] \in Digits, NEW o \in 1 .. Len(p.chars) - 1
  PROVE  LET c == p.chars[o + 1] IN
         \/ c \in Digits /\ NumberMode(p, o + 1) = NumberMode(p, o)
         \/ c \in HexLetters /\ NumberMode(p, o) = "hex" /\ NumberMode(p, o + 1) = "hex"
         \/ c = "x" /\ NumberMode(p, o) = "number" /\ NumberMode(p, o + 1) = "hex"
<1>1. PICK c : c = p.chars[o + 1]
  OBVIOUS
<1>2. o + 1 \in 1 .. Len(p.chars)
  OBVIOUS
<1>3. (\E i \in 1 .. o + 1 : p.chars[i] = "x") <=> c = "x" \/ \E i \in 1 .. o : p.chars[i] = "x"
  BY <1>1
<1>4. CASE c \in Digits
  <2>1. c # "x"
    BY <1>4, DigitsAreNot
  <2>2. NumberMode(p, o + 1) = NumberMode(p, o)
    BY <1>3, <2>1 DEF NumberMode
  <2>3. QED
    BY <1>1, <1>4, <2>2
<1>5. CASE c \notin Digits
  <2>1. ~DigitsBut(p, 0, {})
    BY <1>1, <1>2, <1>5 DEF DigitsBut
  <2>2. ASSUME NEW q \in 2 .. Len(p.chars) - 1, p.chars[q] = "." PROVE FALSE
    BY <2>2 DEF Fraction, Range
  <2>3. PICK q \in 2 .. Len(p.chars) : p.chars[q] = "x" /\ DigitsBut(p, q, HexLetters)
    BY <2>1, <2>2 DEF NumberWritten
  <2>4. \A k \in 1 .. Len(p.chars) : p.chars[k] \in Digits \/ k = q \/ (k > q /\ p.chars[k] \in HexLetters)
    BY <2>3 DEF DigitsBut
  <2>5. CASE o + 1 = q
    <3>1. \A i \in 1 .. o : p.chars[i] # "x"
      BY <2>4, <2>5, DigitsAreNot
    <3>2. c = "x"
      BY <1>1, <2>3, <2>5
    <3>3. NumberMode(p, o) = "number" /\ NumberMode(p, o + 1) = "hex"
      BY <1>3, <3>1, <3>2 DEF NumberMode
    <3>4. QED
      BY <1>1, <3>2, <3>3
  <2>6. CASE o + 1 # q
    <3>1. q \in 1 .. o /\ c \in HexLetters
      BY <1>1, <1>2, <1>5, <2>4, <2>6
    <3>2. NumberMode(p, o) = "hex" /\ NumberMode(p, o + 1) = "hex"
      BY <1>3, <2>3, <3>1 DEF NumberMode
    <3>3. QED
      BY <1>1, <3>1, <3>2
  <2>7. QED
    BY <2>5, <2>6
<1>6. QED
  BY <1>4, <1>5

LEMMA FirstOfNumber ==
  ASSUME NEW p, Len(p.chars) \in Nat \ {0}, DOMAIN p.chars = 1 .. Len(p.chars), NumberWritten(p)
  PROVE  p.chars[1] \in Digits
BY DEF NumberWritten, DigitsBut

LEMMA InsideNumber ==
  ASSUME NEW p, NEW b, NEW base, NEW count, NEW o, NEW s, p.type = "number"
  PROVE  IF Fraction(p) /\ o >= PointAt(p)
         THEN Inside(p, b, base, count, o, s) <=>
                /\ s.shown = BeforePoint(p, b, base) /\ s.buffer = Run(b + PointAt(p), o - PointAt(p))
                /\ s.mode = IF o = PointAt(p) THEN "code" ELSE "number"
         ELSE Inside(p, b, base, count, o, s) <=> s.shown = base /\ s.buffer = Run(b, o) /\ s.mode = NumberMode(p, o)
BY Zenon DEF Inside

LEMMA WholeStep ==
  ASSUME NEW p, NEW b, NEW base \in Seq(AnyPart), NEW count, NEW t, NEW o, NEW s, NEW u,
         p.type = "number", NumberWritten(p), ~Fraction(p), Around(p, b, t), Stand(p, b, base, count, t, o, s),
         s.at < Len(t), Moves(t, s, u)
  PROVE  Onward(p, b, base, count, t, u)
<1>1. PICK n, c : n = Len(p.chars) /\ c = p.chars[o + 1]
  OBVIOUS
<1>2. /\ b \in Nat /\ Len(t) \in Nat /\ n \in Nat \ {0} /\ o \in 0 .. n - 1 /\ o + 1 \in 1 .. n /\ s.at = b + o
      /\ DOMAIN p.chars = 1 .. n /\ t[s.at + 1] = c
      /\ o > 0 => Inside(p, b, base, count, o, s)
      /\ o = 0 => Ready(s, p.chars[1], base)
  BY <1>1, StandFacts
<1>3. p.chars[1] \in Digits
  BY <1>1, <1>2, FirstOfNumber
<1>4. /\ u.mode = NumberMode(p, o + 1) /\ u.shown = base /\ u.buffer = Run(b, o + 1) /\ u.at = b + (o + 1)
  <2>1. CASE o = 0
    <3>1. Ready(s, c, base) /\ c \in Digits /\ s.at = b /\ s.at \in Nat
      BY <1>1, <1>2, <1>3, <2>1
    <3>2. CodeStep(t, s, u)
      BY <3>1 DEF Moves, Ready, CodeModes
    <3>3. u.mode = "number" /\ u.shown = base /\ u.buffer = Run(s.at, 1) /\ u.at = s.at + 1
      <4>1. t[s.at + 1] \in Digits /\ Ready(s, t[s.at + 1], base)
        BY <1>2, <3>1
      <4>2. QED
        BY <3>1, <3>2, <4>1, FirstDigit, Zenon
    <3>4. NumberMode(p, 1) = "number"
      BY <1>3, DigitsAreNot DEF NumberMode
    <3>5. QED
      BY <2>1, <3>1, <3>3, <3>4
  <2>2. CASE o # 0
    <3>1. s.mode = NumberMode(p, o) /\ s.shown = base /\ s.buffer = Run(b, o)
      BY <1>2, <2>2 DEF Inside
    <3>2. NumberMode(p, o) \in {"number", "hex"}
      BY DEF NumberMode
    <3>3. CodeStep(t, s, u)
      BY <3>1, <3>2 DEF Moves, CodeModes
    <3>4. Append(Run(b, o), b + o + 1) = Run(b, o + 1) /\ Run(b, o) # <<>>
      BY <1>2, <2>2, Runs
    <3>5. o \in 1 .. n - 1
      BY <1>2, <2>2
    <3>6. \/ c \in Digits /\ NumberMode(p, o + 1) = NumberMode(p, o)
          \/ c \in HexLetters /\ NumberMode(p, o) = "hex" /\ NumberMode(p, o + 1) = "hex"
          \/ c = "x" /\ NumberMode(p, o) = "number" /\ NumberMode(p, o + 1) = "hex"
      BY <1>1, <1>2, <1>3, <3>5, WholeIs
    <3>7. GoesOn(s, u, NumberMode(p, o + 1))
      <4>1. CASE c \in Digits /\ NumberMode(p, o + 1) = NumberMode(p, o)
        BY <1>2, <3>1, <3>3, <3>4, <4>1, OnDigit
      <4>2. CASE c \in HexLetters /\ NumberMode(p, o) = "hex" /\ NumberMode(p, o + 1) = "hex"
        BY <1>2, <3>1, <3>3, <4>2, HexAreLetters, OnLetter DEF OfNumber
      <4>3. CASE c = "x" /\ NumberMode(p, o) = "number" /\ NumberMode(p, o + 1) = "hex"
        BY <1>2, <3>1, <3>3, <4>3, HexAreLetters, OnLetter DEF OfNumber
      <4>4. QED
        BY <3>6, <4>1, <4>2, <4>3
    <3>8. QED
      BY <1>2, <3>1, <3>4, <3>7 DEF GoesOn
  <2>3. QED
    BY <2>1, <2>2
<1>5. CASE o + 1 = n
  <2>1. Run(b, n) # <<>>
    BY <1>2, Runs
  <2>2. u.mode = IF "x" \in Range(p.chars) THEN "hex" ELSE "number"
    <3>1. ("x" \in Range(p.chars)) <=> \E i \in 1 .. n : p.chars[i] = "x"
      BY <1>2 DEF Range
    <3>2. u.mode = NumberMode(p, n)
      BY <1>4, <1>5
    <3>3. QED
      BY <3>1, <3>2 DEF NumberMode
  <2>3. SavedIn(u) = Append(base, Part("number", Run(b, n)))
    BY <1>4, <1>5, <2>1, <2>2 DEF SavedIn
  <2>4. PartsOf(p, b) = <<Part("number", Run(b, n))>>
    BY <1>1 DEF PartsOf
  <2>5. SavedIn(u) = base \o PartsOf(p, b)
    BY <2>3, <2>4, AppendIs
  <2>6. Behind(p, base \o PartsOf(p, b), u)
    BY <1>4, <1>5, <2>1, <2>2, <2>5 DEF Behind, CodeModes
  <2>7. QED
    BY <1>1, <1>4, <1>5, <2>6 DEF Onward
<1>6. CASE o + 1 # n
  <2>1. o + 1 \in 1 .. n - 1
    BY <1>2, <1>6
  <2>2. Inside(p, b, base, count, o + 1, u)
    BY <1>4 DEF Inside
  <2>3. QED
    BY <1>1, <1>4, <2>1, <2>2 DEF Onward
<1>7. QED
  BY <1>5, <1>6

LEMMA FractionStep ==
  ASSUME NEW p, NEW b, NEW base \in Seq(AnyPart), NEW count, NEW t, NEW o, NEW s, NEW u,
         p.type = "number", NumberWritten(p), Fraction(p), Around(p, b, t), Stand(p, b, base, count, t, o, s),
         s.at < Len(t), Moves(t, s, u)
  PROVE  Onward(p, b, base, count, t, u)
<1>1. PICK n, c, q : n = Len(p.chars) /\ c = p.chars[o + 1] /\ q = PointAt(p)
  OBVIOUS
<1>2. /\ b \in Nat /\ Len(t) \in Nat /\ n \in Nat \ {0} /\ o \in 0 .. n - 1 /\ o + 1 \in 1 .. n /\ s.at = b + o
      /\ DOMAIN p.chars = 1 .. n /\ t[s.at + 1] = c
      /\ o > 0 => Inside(p, b, base, count, o, s)
      /\ o = 0 => Ready(s, p.chars[1], base)
  BY <1>1, StandFacts
<1>3. q \in 2 .. n - 1 /\ p.chars[q] = "." /\ \A k \in 1 .. n : k # q => p.chars[k] \in Digits
  BY <1>1, <1>2, FractionIs
<1>4. \A k \in 1 .. n : p.chars[k] # "x"
  BY <1>3, DigitsAreNot
<1>5. \A k \in 1 .. n : NumberMode(p, k) = "number"
  BY <1>2, <1>4 DEF NumberMode
<1>6. PICK all : all = BeforePoint(p, b, base)
  OBVIOUS
<1>7. all = Append(Append(base, Part("number", Run(b, q - 1))), Part("symbol", Run(b + q - 1, 1)))
  BY <1>1, <1>6 DEF BeforePoint
<1>8. CASE o + 1 < q
  <2>1. u.mode = "number" /\ u.shown = base /\ u.buffer = Run(b, o + 1) /\ u.at = b + (o + 1)
    <3>1. c \in Digits
      BY <1>1, <1>2, <1>3, <1>8
    <3>2. CASE o = 0
      <4>1. Ready(s, c, base) /\ s.at = b /\ s.at \in Nat
        BY <1>1, <1>2, <3>2
      <4>2. CodeStep(t, s, u)
        BY <4>1 DEF Moves, Ready, CodeModes
      <4>3. t[s.at + 1] \in Digits /\ Ready(s, t[s.at + 1], base)
        BY <1>2, <3>1, <4>1
      <4>4. u.mode = "number" /\ u.shown = base /\ u.buffer = Run(s.at, 1) /\ u.at = s.at + 1
        BY <4>1, <4>2, <4>3, FirstDigit, Zenon
      <4>5. QED
        BY <3>2, <4>1, <4>4
    <3>3. CASE o # 0
      <4>1. o \in 1 .. n /\ ~(o >= PointAt(p))
        BY <1>1, <1>2, <1>3, <1>8, <3>3
      <4>2. s.mode = "number" /\ s.shown = base /\ s.buffer = Run(b, o)
        BY <1>2, <1>5, <3>3, <4>1, InsideNumber
      <4>3. CodeStep(t, s, u)
        BY <4>2 DEF Moves, CodeModes
      <4>4. Append(Run(b, o), b + o + 1) = Run(b, o + 1) /\ Run(b, o) # <<>>
        BY <1>2, <3>3, Runs
      <4>5. GoesOn(s, u, "number")
        BY <1>2, <3>1, <4>2, <4>3, <4>4, OnDigit
      <4>6. QED
        BY <1>2, <4>2, <4>4, <4>5 DEF GoesOn
    <3>4. QED
      BY <3>2, <3>3
  <2>2. o + 1 \in 1 .. n - 1 /\ ~(o + 1 >= PointAt(p)) /\ o + 1 \in 1 .. n
    BY <1>1, <1>2, <1>3, <1>8
  <2>3. Inside(p, b, base, count, o + 1, u)
    BY <1>5, <2>1, <2>2, InsideNumber
  <2>4. QED
    BY <1>1, <2>1, <2>2, <2>3 DEF Onward
<1>9. CASE o + 1 = q
  <2>1. o \in 1 .. n /\ ~(o >= PointAt(p)) /\ c \in Singles /\ o = q - 1
    BY <1>1, <1>2, <1>3, <1>9, DigitsAreNot
  <2>2. s.mode = "number" /\ s.shown = base /\ s.buffer = Run(b, o) /\ Run(b, o) # <<>>
    <3>1. Inside(p, b, base, count, o, s) /\ NumberMode(p, o) = "number"
      BY <1>2, <1>5, <2>1
    <3>2. Run(b, o) # <<>>
      BY <1>2, <2>1, Runs
    <3>3. QED
      BY <2>1, <3>1, <3>2, InsideNumber
  <2>3. CodeStep(t, s, u)
    BY <2>2 DEF Moves, CodeModes
  <2>4. MakesSymbol(s, u, 1)
    BY <1>2, <2>1, <2>3, OnSingle
  <2>5. SavedIn(s) = Append(base, Part("number", Run(b, q - 1)))
    BY <2>1, <2>2 DEF SavedIn
  <2>6. [k \in 1 .. 1 |-> s.at + k] = Run(b + q - 1, 1)
    <3>1. s.at = b + q - 1
      BY <1>2, <1>3, <2>1
    <3>2. QED
      BY <3>1 DEF Run
  <2>7. u.shown = all /\ u.at = b + q /\ u.mode = "code" /\ u.buffer = <<>>
    BY <1>2, <1>3, <1>7, <1>9, <2>4, <2>5, <2>6 DEF MakesSymbol
  <2>8. Run(b + q, q - q) = <<>> /\ q \in 1 .. n - 1 /\ q >= q
    <3>1. q - q = 0 /\ b + q \in Nat
      BY <1>2, <1>3
    <3>2. QED
      BY <1>2, <1>3, <3>1, Runs
  <2>9. Inside(p, b, base, count, q, u)
    BY <1>1, <1>6, <2>7, <2>8, InsideNumber
  <2>10. QED
    BY <1>1, <2>7, <2>8, <2>9 DEF Onward
<1>10. CASE o >= q
  <2>1. o # 0 /\ o >= PointAt(p) /\ c \in Digits /\ o > 0
    BY <1>1, <1>2, <1>3, <1>10
  <2>2. s.shown = all /\ s.buffer = Run(b + q, o - q) /\ s.mode = IF o = q THEN "code" ELSE "number"
    BY <1>1, <1>2, <1>6, <2>1, InsideNumber
  <2>3. CodeStep(t, s, u)
    BY <2>2 DEF Moves, CodeModes
  <2>4. b + q \in Nat /\ o - q \in Nat /\ (b + q) + (o - q) + 1 = s.at + 1 /\ (o - q) + 1 = (o + 1) - q
    <3>1. b \in Nat /\ o \in Nat /\ q \in Nat /\ o >= q /\ s.at = b + o
      BY <1>2, <1>3, <1>10
    <3>2. b + q \in Nat /\ o - q \in Nat /\ (b + q) + (o - q) + 1 = (b + o) + 1 /\ (o - q) + 1 = (o + 1) - q
      BY <3>1
    <3>3. QED
      BY <3>1, <3>2
  <2>5. /\ Append(Run(b + q, o - q), s.at + 1) = Run(b + q, (o + 1) - q) /\ (o # q => Run(b + q, o - q) # <<>>)
        /\ (o = q => Run(b + q, o - q) = <<>>)
    <3>1. /\ Append(Run(b + q, o - q), (b + q) + (o - q) + 1) = Run(b + q, (o - q) + 1)
          /\ (o - q > 0 => Run(b + q, o - q) # <<>>) /\ Run(b + q, 0) = <<>>
      BY <2>4, Runs
    <3>2. o # q => o - q > 0
      BY <1>2, <1>3, <1>10
    <3>3. o = q => o - q = 0
      BY <1>2, <1>3
    <3>4. QED
      BY <2>4, <3>1, <3>2, <3>3
  <2>6. GoesOn(s, u, "number")
    BY <1>2, <2>1, <2>2, <2>3, <2>5, OnDigit
  <2>7. u.mode = "number" /\ u.shown = all /\ u.buffer = Run(b + q, (o + 1) - q) /\ u.at = b + (o + 1)
    BY <1>2, <2>2, <2>5, <2>6 DEF GoesOn
  <2>8. CASE o + 1 = n
    <3>1. Run(b + q, n - q) # <<>>
      <4>1. n - q \in Nat /\ n - q > 0
        BY <1>2, <1>3
      <4>2. QED
        BY <2>4, <4>1, Runs
    <3>2. SavedIn(u) = Append(all, Part("number", Run(b + q, n - q)))
      <4>1. u.buffer = Run(b + q, n - q)
        BY <2>7, <2>8
      <4>2. QED
        BY <2>7, <3>1, <4>1 DEF SavedIn
    <3>3. PartsOf(p, b) = <<Part("number", Run(b, q - 1)), Part("symbol", Run(b + q - 1, 1)),
                            Part("number", Run(b + q, n - q))>>
      BY <1>1 DEF PartsOf
    <3>4. SavedIn(u) = base \o PartsOf(p, b)
      BY <1>7, <3>2, <3>3, AppendIs
    <3>5. "x" \notin Range(p.chars)
      BY <1>2, <1>4 DEF Range
    <3>6. Behind(p, base \o PartsOf(p, b), u)
      <4>1. u.buffer = Run(b + q, n - q)
        BY <2>7, <2>8
      <4>2. QED
        BY <2>7, <3>1, <3>4, <3>5, <4>1 DEF Behind, CodeModes
    <3>7. QED
      BY <1>1, <2>7, <2>8, <3>6 DEF Onward
  <2>9. CASE o + 1 # n
    <3>1. o + 1 \in 1 .. n - 1 /\ o + 1 >= PointAt(p) /\ o + 1 # PointAt(p)
      BY <1>1, <1>2, <1>3, <1>10, <2>9
    <3>2. Inside(p, b, base, count, o + 1, u)
      BY <1>1, <1>6, <2>7, <3>1, InsideNumber
    <3>3. QED
      BY <1>1, <2>7, <3>1, <3>2 DEF Onward
  <2>10. QED
    BY <2>8, <2>9
<1>11. QED
  BY <1>2, <1>3, <1>8, <1>9, <1>10

(* The symbols that _sbLexer joins. *)
Opening == {"+", "-", "*", "/", "|", "&", "^", "%"}
Doubled == {">", "<", "*"}

LEMMA OperatorsAre ==
  ASSUME NEW k \in DOMAIN Operators
  PROVE  \/ \E c \in Opening : Operators[k] = <<c>> /\ (c \notin {"+", "-"} => Halves(Operators[k]) = {<<"=">>})
                               /\ (c \in {"+", "-"} => Halves(Operators[k]) = {<<c>>, <<"=">>})
         \/ \E c \in Doubled : Operators[k] = <<c, c>> /\ Halves(Operators[k]) = {<<"=">>}
<1>1. \/ \E c \in Opening : Operators[k] = <<c>>
      \/ \E c \in Doubled : Operators[k] = <<c, c>>
  BY DEF Operators, Opening, Doubled
<1>2. ASSUME NEW c, Operators[k] = <<c>>
      PROVE  /\ c \notin {"+", "-"} => Halves(Operators[k]) = {<<"=">>}
             /\ c \in {"+", "-"} => Halves(Operators[k]) = {<<c>>, <<"=">>}
  <2>1. <<c>> \in {<<"+">>, <<"-">>} <=> c \in {"+", "-"}
    OBVIOUS
  <2>2. QED
    BY <1>2, <2>1 DEF Halves
<1>3. ASSUME NEW c, Operators[k] = <<c, c>> PROVE Halves(Operators[k]) = {<<"=">>}
  <2>1. <<c, c>> \notin {<<"+">>, <<"-">>}
    OBVIOUS
  <2>2. QED
    BY <1>3, <2>1 DEF Halves
<1>4. QED
  BY <1>1, <1>2, <1>3

LEMMA FewTogether ==
  ASSUME NEW a, NEW b, NEW c
  PROVE  <<a>> \o <<b>> = <<a, b>> /\ <<a, b>> \o <<c>> = <<a, b, c>>
<1>1. PICK S, x, y, z, v, w : /\ S = {a, b, c} /\ x = <<a>> /\ y = <<b>> /\ z = <<c>>
                              /\ v = <<a, b>> /\ w = <<a, b, c>>
  OBVIOUS
<1>2. /\ x \in Seq(S) /\ y \in Seq(S) /\ z \in Seq(S) /\ v \in Seq(S) /\ w \in Seq(S)
      /\ Len(x) = 1 /\ Len(y) = 1 /\ Len(z) = 1 /\ Len(v) = 2 /\ Len(w) = 3
      /\ x[1] = a /\ y[1] = b /\ z[1] = c /\ v[1] = a /\ v[2] = b /\ w[1] = a /\ w[2] = b /\ w[3] = c
  BY <1>1
<1>3. x \o y = v
  <2>1. /\ x \o y \in Seq(S) /\ Len(x \o y) = 2
        /\ \A i \in 1 .. 2 : (x \o y)[i] = IF i <= 1 THEN x[i] ELSE y[i - 1]
    <3>1. /\ x \o y \in Seq(S) /\ Len(x \o y) = Len(x) + Len(y)
          /\ \A i \in 1 .. Len(x) + Len(y) : (x \o y)[i] = IF i <= Len(x) THEN x[i] ELSE y[i - Len(x)]
      BY <1>2, ConcatProperties, Zenon
    <3>2. Len(x) = 1 /\ Len(x) + Len(y) = 2
      BY <1>2
    <3>3. QED
      BY <3>1, <3>2, Zenon
  <2>2. (x \o y)[1] = a /\ (x \o y)[2] = b
    BY <1>2, <2>1
  <2>3. PICK r : r = x \o y
    OBVIOUS
  <2>4. r \in Seq(S) /\ Len(r) = 2 /\ r[1] = a /\ r[2] = b
    BY <2>1, <2>2, <2>3
  <2>5. r = v
    BY <1>2, <2>4
  <2>6. QED
    BY <2>3, <2>5
<1>4. v \o z = w
  <2>1. /\ v \o z \in Seq(S) /\ Len(v \o z) = 3
        /\ \A i \in 1 .. 3 : (v \o z)[i] = IF i <= 2 THEN v[i] ELSE z[i - 2]
    <3>1. /\ v \o z \in Seq(S) /\ Len(v \o z) = Len(v) + Len(z)
          /\ \A i \in 1 .. Len(v) + Len(z) : (v \o z)[i] = IF i <= Len(v) THEN v[i] ELSE z[i - Len(v)]
      BY <1>2, ConcatProperties, Zenon
    <3>2. Len(v) = 2 /\ Len(v) + Len(z) = 3
      BY <1>2
    <3>3. QED
      BY <3>1, <3>2, Zenon
  <2>2. (v \o z)[1] = a /\ (v \o z)[2] = b /\ (v \o z)[3] = c
    BY <1>2, <2>1
  <2>3. PICK r : r = v \o z
    OBVIOUS
  <2>4. r \in Seq(S) /\ Len(r) = 3 /\ r[1] = a /\ r[2] = b /\ r[3] = c
    BY <2>1, <2>2, <2>3
  <2>5. r = w
    <3>1. \A i \in 1 .. 3 : r[i] = w[i]
      BY <1>2, <2>4
    <3>2. QED
      BY <1>2, <2>4, <3>1, SeqEqual
  <2>6. QED
    BY <2>3, <2>5
<1>5. QED
  BY <1>1, <1>3, <1>4

LEMMA JoinedIs ==
  ASSUME NEW p, Joined(p)
  PROVE  \/ \E c \in Opening, d \in {"=", "+", "-"} : p.chars = <<c, d>> /\ (d = "=" \/ d = c)
         \/ \E c \in Doubled : p.chars = <<c, c, "=">>
<1>1. PICK k \in DOMAIN Operators : \E h \in Halves(Operators[k]) : p.chars = Operators[k] \o h
  BY DEF Joined
<1>0. PICK h \in Halves(Operators[k]) : p.chars = Operators[k] \o h
  BY <1>1
<1>2. ASSUME NEW c \in Opening, Operators[k] = <<c>>, NEW d \in {"=", "+", "-"}, h = <<d>> PROVE p.chars = <<c, d>>
  <2>1. p.chars = <<c>> \o <<d>>
    BY <1>0, <1>2, Zenon
  <2>2. <<c>> \o <<d>> = <<c, d>>
    BY FewTogether
  <2>3. QED
    BY <2>1, <2>2, Zenon
<1>3. ASSUME NEW c \in Doubled, Operators[k] = <<c, c>>, h = <<"=">> PROVE p.chars = <<c, c, "=">>
  <2>1. p.chars = <<c, c>> \o <<"=">>
    BY <1>0, <1>3, Zenon
  <2>2. <<c, c>> \o <<"=">> = <<c, c, "=">>
    BY FewTogether
  <2>3. QED
    BY <2>1, <2>2, Zenon
<1>4. \/ \E c \in Opening : Operators[k] = <<c>> /\ (c \notin {"+", "-"} => Halves(Operators[k]) = {<<"=">>})
                            /\ (c \in {"+", "-"} => Halves(Operators[k]) = {<<c>>, <<"=">>})
      \/ \E c \in Doubled : Operators[k] = <<c, c>> /\ Halves(Operators[k]) = {<<"=">>}
  BY OperatorsAre
<1>5. CASE \E c \in Opening : Operators[k] = <<c>> /\ (c \notin {"+", "-"} => Halves(Operators[k]) = {<<"=">>})
                              /\ (c \in {"+", "-"} => Halves(Operators[k]) = {<<c>>, <<"=">>})
  <2>1. PICK c \in Opening : Operators[k] = <<c>> /\ (c \notin {"+", "-"} => Halves(Operators[k]) = {<<"=">>})
                              /\ (c \in {"+", "-"} => Halves(Operators[k]) = {<<c>>, <<"=">>})
    BY <1>5
  <2>2. h = <<"=">> \/ (c \in {"+", "-"} /\ h = <<c>>)
    BY <2>1
  <2>3. PICK d \in {"=", "+", "-"} : h = <<d>> /\ (d = "=" \/ d = c)
    BY <2>2
  <2>4. QED
    BY <1>2, <2>1, <2>3
<1>6. QED
  BY <1>3, <1>4, <1>5

LEMMA SecondsAre ==
  /\ \A c \in Firsts : "end" \notin Seconds(c)
  /\ \A c \in Firsts : c \in Opening => "=" \notin Seconds(c)
  /\ "-" \notin Seconds("-")
  /\ \A c \in Doubled : c \in Firsts /\ c \in Seconds(c)
  /\ "=" \in Firsts /\ "-" \in Firsts /\ "+" \in Singles /\ "+" \notin Firsts
  /\ \A c \in Opening : c \in Singles \/ c \in Firsts \/ c = "/"
  /\ \A c \in Firsts : \A d \in Seconds(c) : ~(c \in Opening /\ (d = "=" \/ (d = c /\ d \in {"+", "-"})))
BY DEF Firsts, Seconds, Opening, Doubled, Singles

(* The step makes a symbol of the next n characters. *)
LEMMA MadeSymbol ==
  ASSUME NEW s, NEW u, NEW n \in Nat, NEW base, MakesSymbol(s, u, n), SavedIn(s) = base, s.at \in Nat
  PROVE  /\ u.shown = Append(base, Part("symbol", Run(s.at, n))) /\ u.at = s.at + n /\ u.mode = "code" /\ u.buffer = <<>>
         /\ SavedIn(u) = u.shown
BY DEF MakesSymbol, Run, SavedIn

LEMMA SymbolBehind ==
  ASSUME NEW p, NEW b \in Nat, NEW base \in Seq(AnyPart), NEW count, NEW t, NEW u, p.type = "symbol",
         u.mode = "code", u.buffer = <<>>, SavedIn(u) = base \o PartsOf(p, b), u.at = b + Len(p.chars)
  PROVE  Onward(p, b, base, count, t, u)
BY DEF Onward, Behind, CodeModes

(* A symbol that is one token, read from its beginning. *)
LEMMA SymbolWhole ==
  ASSUME NEW p, NEW b \in Nat, NEW base \in Seq(AnyPart), NEW count, NEW t, NEW s, NEW u, p.type = "symbol", ~Joined(p),
         Len(p.chars) \in Nat, s.at = b, SavedIn(s) = base, MakesSymbol(s, u, Len(p.chars))
  PROVE  Onward(p, b, base, count, t, u)
<1>1. PICK n : n = Len(p.chars)
  OBVIOUS
<1>2. /\ u.shown = Append(base, Part("symbol", Run(b, n))) /\ u.at = b + n /\ u.mode = "code" /\ u.buffer = <<>>
      /\ SavedIn(u) = u.shown
  BY <1>1, MadeSymbol
<1>3. PartsOf(p, b) = <<Part("symbol", Run(b, n))>>
  BY <1>1 DEF PartsOf
<1>4. SavedIn(u) = base \o PartsOf(p, b)
  BY <1>2, <1>3, AppendIs
<1>5. QED
  BY <1>1, <1>2, <1>4, SymbolBehind

(* The first half of a joined symbol, and what is too little of a symbol.  *)
LEMMA SymbolHalf ==
  ASSUME NEW p, NEW b \in Nat, NEW base \in Seq(AnyPart), NEW count, NEW t, NEW s, NEW u, NEW m \in 1 .. Len(p.chars) - 1,
         p.type = "symbol", Len(p.chars) \in Nat, s.at = b, SavedIn(s) = base, MakesSymbol(s, u, m),
         (Joined(p) /\ m = Len(p.chars) - 1) \/ b + m = Len(t)
  PROVE  Onward(p, b, base, count, t, u)
<1>1. /\ u.shown = Append(base, Part("symbol", Run(b, m))) /\ u.at = b + m /\ u.mode = "code" /\ u.buffer = <<>>
  BY MadeSymbol
<1>2. Inside(p, b, base, count, m, u) \/ CutIn(p, t, u)
  BY <1>1 DEF Inside, CutIn
<1>3. QED
  BY <1>1, <1>2 DEF Onward

LEMMA SymbolOne ==
  ASSUME NEW p, NEW t, NEW s, NEW u, CodeStep(t, s, u),
         LET c == t[s.at + 1]  f == Ahead(t, s.at, 1) IN
         \/ c \in Singles
         \/ c \in Firsts /\ f \notin Seconds(c)
         \/ c = "/" /\ f \notin {"/", "*"}
  PROVE  MakesSymbol(s, u, 1)
BY OnSingle, OnFirst, OnSlash

LEMMA SymbolStart ==
  ASSUME NEW p, NEW b, NEW base \in Seq(AnyPart), NEW count, NEW t, NEW s, NEW u,
         p.type = "symbol", SymbolWritten(p), Around(p, b, t), Stand(p, b, base, count, t, 0, s),
         s.at < Len(t), Moves(t, s, u)
  PROVE  Onward(p, b, base, count, t, u)
<1>1. PICK n, c, f : n = Len(p.chars) /\ c = p.chars[1] /\ f = Ahead(t, s.at, 1)
  OBVIOUS
<1>2. /\ b \in Nat /\ Len(t) \in Nat /\ n \in Nat \ {0} /\ s.at = b /\ b < Len(t)
      /\ DOMAIN p.chars = 1 .. n /\ t[s.at + 1] = c
      /\ b + 1 = Len(t) => f = "end"
      /\ b + 1 < Len(t) /\ 1 < n => f = p.chars[2]
      /\ b + 1 < Len(t) /\ 1 = n => Apart(p, f)
      /\ Ready(s, c, base)
  BY <1>1, StandFacts
<1>3. CodeStep(t, s, u) /\ SavedIn(s) = base
  BY <1>2 DEF Moves, Ready, CodeModes
<1>4. b + 1 = Len(t) \/ b + 1 < Len(t)
  BY <1>2
<1>5. CASE Joined(p)
  <2>1. CASE \E a \in Opening, d \in {"=", "+", "-"} : p.chars = <<a, d>> /\ (d = "=" \/ d = a)
    <3>1. PICK a \in Opening, d \in {"=", "+", "-"} : p.chars = <<a, d>> /\ (d = "=" \/ d = a)
      BY <2>1
    <3>2. n = 2 /\ c = a /\ p.chars[2] = d
      BY <1>1, <3>1
    <3>3. f = "end" \/ f = d
      BY <1>2, <1>4, <3>2
    <3>4. c \in Singles \/ c \in Firsts \/ c = "/"
      BY <3>2, SecondsAre
    <3>5. c \in Firsts => f \notin Seconds(c)
      BY <3>1, <3>2, <3>3, SecondsAre
    <3>6. c = "/" => f \notin {"/", "*"}
      BY <3>3
    <3>7. MakesSymbol(s, u, 1)
      BY <1>1, <1>2, <1>3, <3>4, <3>5, <3>6, SymbolOne
    <3>8. 1 \in 1 .. Len(p.chars) - 1 /\ 1 = Len(p.chars) - 1 /\ Len(p.chars) \in Nat
      BY <1>1, <3>2
    <3>9. QED
      BY <1>2, <1>3, <1>5, <3>7, <3>8, SymbolHalf
  <2>2. CASE \E a \in Doubled : p.chars = <<a, a, "=">>
    <3>1. PICK a \in Doubled : p.chars = <<a, a, "=">>
      BY <2>2
    <3>2. n = 3 /\ c = a /\ p.chars[2] = a /\ c \in Firsts /\ c \in Seconds(c) /\ "end" \notin Seconds(c)
      BY <1>1, <3>1, SecondsAre
    <3>3. MakesSymbol(s, u, IF f \in Seconds(c) THEN 2 ELSE 1)
      BY <1>1, <1>2, <1>3, <3>2, OnFirst
    <3>4. CASE b + 1 = Len(t)
      <4>1. MakesSymbol(s, u, 1) /\ 1 \in 1 .. Len(p.chars) - 1
        BY <1>1, <1>2, <3>2, <3>3, <3>4
      <4>2. QED
        BY <1>1, <1>2, <1>3, <3>4, <4>1, SymbolHalf
    <3>5. CASE b + 1 < Len(t)
      <4>1. MakesSymbol(s, u, 2) /\ 2 \in 1 .. Len(p.chars) - 1 /\ 2 = Len(p.chars) - 1
        BY <1>1, <1>2, <3>2, <3>3, <3>5
      <4>2. QED
        BY <1>1, <1>2, <1>3, <1>5, <4>1, SymbolHalf
    <3>6. QED
      BY <1>4, <3>4, <3>5
  <2>3. QED
    BY <1>5, <2>1, <2>2, JoinedIs
<1>6. CASE ~Joined(p) /\ n = 1
  <2>1. c \in Singles \cup Firsts \cup {"/"}
    BY <1>1, <1>6 DEF SymbolWritten
  <2>2. ASSUME b + 1 < Len(t) PROVE (c \in Firsts => f \notin Seconds(c)) /\ (c = "/" => f \notin {"/", "*"})
    BY <1>1, <1>2, <1>6, <2>2 DEF Apart
  <2>3. ASSUME b + 1 = Len(t) PROVE (c \in Firsts => f \notin Seconds(c)) /\ (c = "/" => f \notin {"/", "*"})
    BY <1>2, <2>3, SecondsAre
  <2>4. MakesSymbol(s, u, 1)
    BY <1>1, <1>2, <1>3, <1>4, <2>1, <2>2, <2>3, SymbolOne
  <2>5. QED
    BY <1>1, <1>2, <1>3, <1>6, <2>4, SymbolWhole
<1>7. CASE ~Joined(p) /\ n # 1
  <2>1. n = 2 /\ c \in Firsts /\ p.chars[2] \in Seconds(c)
    BY <1>1, <1>7 DEF SymbolWritten
  <2>2. MakesSymbol(s, u, IF f \in Seconds(c) THEN 2 ELSE 1)
    BY <1>1, <1>2, <1>3, <2>1, OnFirst
  <2>3. CASE b + 1 = Len(t)
    <3>1. MakesSymbol(s, u, 1) /\ 1 \in 1 .. Len(p.chars) - 1
      BY <1>1, <1>2, <2>1, <2>2, <2>3, SecondsAre
    <3>2. QED
      BY <1>1, <1>2, <1>3, <2>3, <3>1, SymbolHalf
  <2>4. CASE b + 1 < Len(t)
    <3>1. MakesSymbol(s, u, 2)
      BY <1>2, <2>1, <2>2, <2>4
    <3>2. QED
      BY <1>1, <1>2, <1>3, <1>7, <2>1, <3>1, SymbolWhole
  <2>5. QED
    BY <1>4, <2>3, <2>4
<1>8. QED
  BY <1>5, <1>6, <1>7

LEMMA SymbolEnd ==
  ASSUME NEW p, NEW b, NEW base \in Seq(AnyPart), NEW count, NEW t, NEW o, NEW s, NEW u, o # 0,
         p.type = "symbol", SymbolWritten(p), Around(p, b, t), Stand(p, b, base, count, t, o, s),
         s.at < Len(t), Moves(t, s, u)
  PROVE  Onward(p, b, base, count, t, u)
<1>1. PICK n, c, f : n = Len(p.chars) /\ c = p.chars[o + 1] /\ f = Ahead(t, s.at, 1)
  OBVIOUS
<1>2. /\ b \in Nat /\ Len(t) \in Nat /\ n \in Nat \ {0} /\ o \in 0 .. n - 1 /\ s.at = b + o /\ b + o < Len(t)
      /\ DOMAIN p.chars = 1 .. n /\ t[s.at + 1] = c
      /\ b + o + 1 = Len(t) => f = "end"
      /\ b + o + 1 < Len(t) /\ o + 1 = n => Apart(p, f)
      /\ Inside(p, b, base, count, o, s)
  BY <1>1, StandFacts
<1>3. /\ Joined(p) /\ o = n - 1 /\ s.mode = "code" /\ s.buffer = <<>>
      /\ s.shown = Append(base, Part("symbol", Run(b, o)))
  BY <1>1, <1>2 DEF Inside
<1>4. CodeStep(t, s, u) /\ SavedIn(s) = s.shown /\ p.chars[n] = c /\ o + 1 = n
  BY <1>1, <1>2, <1>3 DEF Moves, CodeModes, SavedIn
<1>5. c \in Singles \/ c \in Firsts
  <2>1. ASSUME NEW a, NEW d \in {"=", "+", "-"}, p.chars = <<a, d>> PROVE c = d
    <3>1. n = 2 /\ p.chars[2] = d
      BY <1>1, <2>1
    <3>2. QED
      BY <1>4, <3>1
  <2>2. ASSUME NEW a, p.chars = <<a, a, "=">> PROVE c = "="
    <3>1. n = 3 /\ p.chars[3] = "="
      BY <1>1, <2>2
    <3>2. QED
      BY <1>4, <3>1
  <2>3. c \in {"=", "+", "-"}
    BY <1>3, <2>1, <2>2, JoinedIs
  <2>4. QED
    BY <2>3, SecondsAre
<1>6. c \in Firsts => f \notin Seconds(c)
  <2>1. CASE b + o + 1 = Len(t)
    BY <1>2, <2>1, SecondsAre
  <2>2. CASE b + o + 1 < Len(t)
    <3>1. Apart(p, f)
      BY <1>2, <1>4, <2>2
    <3>2. QED
      BY <1>1, <1>3, <1>4, <3>1 DEF Apart
  <2>3. QED
    BY <1>2, <2>1, <2>2
<1>7. MakesSymbol(s, u, 1)
  BY <1>1, <1>2, <1>4, <1>5, <1>6, SymbolOne
<1>8. s.at \in Nat /\ s.at = b + (n - 1) /\ b + n - 1 = b + (n - 1)
  BY <1>2, <1>3
<1>9. /\ u.shown = Append(s.shown, Part("symbol", Run(s.at, 1))) /\ u.at = s.at + 1 /\ u.mode = "code" /\ u.buffer = <<>>
      /\ SavedIn(u) = u.shown
  <2>1. 1 \in Nat /\ SavedIn(s) = s.shown
    BY <1>4
  <2>2. QED
    BY <1>7, <1>8, <2>1, MadeSymbol
<1>10. PartsOf(p, b) = <<Part("symbol", Run(b, n - 1)), Part("symbol", Run(b + n - 1, 1))>>
  BY <1>1, <1>3 DEF PartsOf
<1>11. SavedIn(u) = base \o PartsOf(p, b)
  <2>1. SavedIn(u) = Append(Append(base, Part("symbol", Run(b, n - 1))), Part("symbol", Run(b + n - 1, 1)))
    BY <1>3, <1>8, <1>9
  <2>2. PICK x, y : x = Part("symbol", Run(b, n - 1)) /\ y = Part("symbol", Run(b + n - 1, 1))
    OBVIOUS
  <2>3. SavedIn(u) = Append(Append(base, x), y) /\ PartsOf(p, b) = <<x, y>>
    BY <1>10, <2>1, <2>2
  <2>4. QED
    BY <2>3, AppendIs
<1>12. u.at = b + n
  BY <1>2, <1>8, <1>9
<1>13. QED
  BY <1>1, <1>2, <1>9, <1>11, <1>12, SymbolBehind

(* Strings.                                                                *)
CutHere(p, count, b, t) == CutWell(p, count, Len(t) - b)
KeepsOwn(p) == p.kept \in Seq(1 .. Len(p.chars))

Units(p, b, count, i) == [j \in 1 .. count[i] |-> b + p.kept[j]]

LEMMA WiderSeq ==
  ASSUME NEW n \in Nat, NEW h \in Seq(1 .. n)
  PROVE  h \in Seq(Nat) /\ Len(h) \in Nat /\ DOMAIN h = 1 .. Len(h)
<1>1. \A j \in 1 .. Len(h) : h[j] \in 1 .. n
  OBVIOUS
<1>2. \A j \in 1 .. Len(h) : h[j] \in Nat
  BY <1>1
<1>3. Len(h) \in Nat /\ DOMAIN h = 1 .. Len(h) /\ h = [j \in 1 .. Len(h) |-> h[j]]
  OBVIOUS
<1>4. QED
  BY <1>2, <1>3

OneMore(p, count, i, j) ==
  p.kept \in Seq(Nat) /\ count[i] \in Nat /\ count[j] = count[i] + 1 /\ count[i] + 1 \in 1 .. Len(p.kept)

LEMMA OneUnit ==
  ASSUME NEW p, NEW b \in Nat, NEW count, NEW i, NEW j, OneMore(p, count, i, j)
  PROVE  Append(Units(p, b, count, i), b + p.kept[count[i] + 1]) = Units(p, b, count, j)
<1>1. PICK m, h, k : m = count[i] /\ h = p.kept /\ k = h[m + 1]
  OBVIOUS
<1>2. m \in Nat /\ m + 1 \in 1 .. Len(h) /\ count[j] = m + 1 /\ h[m + 1] = k /\ h \in Seq(Nat)
  BY <1>1 DEF OneMore
<1>3. PICK x, y : x = Units(p, b, count, i) /\ y = Units(p, b, count, j)
  OBVIOUS
<1>4. x = [l \in 1 .. m |-> b + h[l]] /\ y = [l \in 1 .. m + 1 |-> b + h[l]]
  BY <1>1, <1>2, <1>3 DEF Units
<1>5. \A l \in 1 .. m + 1 : b + h[l] \in Nat
  BY <1>2
<1>6. x \in Seq(Nat) /\ y \in Seq(Nat) /\ Len(x) = m /\ Len(y) = m + 1
  BY <1>2, <1>4, <1>5
<1>7. \A l \in 1 .. m : x[l] = y[l]
  BY <1>2, <1>4
<1>8. y[m + 1] = b + k
  BY <1>2, <1>4
<1>9. Append(x, b + k) = y
  <2>1. PICK z : z = b + k
    OBVIOUS
  <2>2. y[m + 1] = z /\ z \in Nat
    BY <1>2, <1>6, <1>8, <2>1
  <2>3. Append(x, z) = y
    BY <1>2, <1>6, <1>7, <2>2
  <2>4. QED
    BY <2>1, <2>3
<1>10. QED
  BY <1>1, <1>3, <1>9

LEMMA QuotesAreNot == "\\" \notin Quotes
BY DEF Quotes

(* Behind a unit of a string, or a whole string. *)
LEMMA InString_ ==
  ASSUME NEW p, NEW b \in Nat, NEW base \in Seq(AnyPart), NEW count, NEW t, NEW u, NEW m \in DOMAIN count,
         p.type = "string", m \in 2 .. Len(p.chars), Len(p.chars) \in Nat,
         u.mode = "string", u.quote = p.chars[1], u.shown = base, u.buffer = Units(p, b, count, m), u.at = b + m - 1
  PROVE  Onward(p, b, base, count, t, u)
<1>1. m - 1 \in 1 .. Len(p.chars) - 1 /\ (m - 1) + 1 = m /\ u.at = b + (m - 1)
  OBVIOUS
<1>2. Inside(p, b, base, count, m - 1, u)
  BY <1>1 DEF Inside, Units
<1>3. QED
  BY <1>1, <1>2 DEF Onward

LEMMA StringStart ==
  ASSUME NEW p, NEW b, NEW base \in Seq(AnyPart), NEW count, NEW t, NEW s, NEW u,
         p.type = "string", StringWritten(p, count), Around(p, b, t), Stand(p, b, base, count, t, 0, s),
         s.at < Len(t), Moves(t, s, u)
  PROVE  Onward(p, b, base, count, t, u)
<1>1. /\ b \in Nat /\ Len(p.chars) \in Nat \ {0} /\ s.at = b /\ t[s.at + 1] = p.chars[1]
      /\ Ready(s, p.chars[1], base)
  BY StandFacts
<1>2. CodeStep(t, s, u) /\ SavedIn(s) = base
  BY <1>1 DEF Moves, Ready, CodeModes
<1>3. p.chars[1] \in Quotes /\ 2 \in DOMAIN count /\ count[2] = 0 /\ 2 \in 2 .. Len(p.chars)
  BY <1>1 DEF StringWritten
<1>4. Leaves(s, u, "string") /\ u.quote = p.chars[1]
  BY <1>1, <1>2, <1>3, OnQuote
<1>5. Units(p, b, count, 2) = <<>>
  BY <1>3 DEF Units
<1>6. u.mode = "string" /\ u.shown = base /\ u.buffer = Units(p, b, count, 2) /\ u.at = b + 2 - 1
  BY <1>1, <1>2, <1>4, <1>5 DEF Leaves
<1>7. QED
  BY <1>1, <1>3, <1>4, <1>6, InString_

EscapeSigns == {"\\", "n", "t", "e", "r", "f", "v", "\n"}

LEMMA EscapeFacts ==
  ASSUME NEW t, NEW a
  PROVE  /\ Ahead(t, a, 1) = "end" => Escaped(t, a) = 0
         /\ Ahead(t, a, 1) \in EscapeSigns => Escaped(t, a) = 2
         /\ Ahead(t, a, 1) = "x" /\ {Ahead(t, a, 2), Ahead(t, a, 3)} \subseteq Digits \cup HexLetters => Escaped(t, a) = 4
BY DEF Escaped, EscapeSigns

(* What an escape stands for. *)
Means(t, a) == IF Ahead(t, a, 1) = "x" THEN Code(Ahead(t, a, 2), Ahead(t, a, 3)) ELSE Sign(Ahead(t, a, 1))

LEMMA FourFit ==
  ASSUME NEW b \in Nat, NEW i \in Nat, NEW l \in Nat, NEW n \in Nat, b + i < l, l - b \notin {i + 1, i + 2}, i + 4 \in 2 .. n
  PROVE  b + (i + 3) <= l /\ i + 3 \in 1 .. n /\ i + 2 \in 1 .. n /\ b + (i + 2) <= l
OBVIOUS

IsUnit(p, b, t, i, a) ==
  /\ Ahead(t, a, 1) = p.chars[i + 1] /\ Escaped(t, a) = UnitLength(p, i) /\ UnitLength(p, i) \in {2, 4}
  /\ UnitLength(p, i) = 2 <=> p.chars[i + 1] # "x"
  /\ Ahead(t, a, 1) # "\n" => Means(t, a) = UnitMeans(p, i)
  /\ b + i + UnitLength(p, i) - 1 \in 1 .. Len(t)

(* An escape in a string is the unit that is written there.                *)
LEMMA UnitRead ==
  ASSUME NEW p, NEW b \in Nat, NEW count, NEW t, NEW i \in Nat, NEW a, i \in DOMAIN count,
         StringWritten(p, count), CutHere(p, count, b, t), Around(p, b, t), i # Len(p.chars),
         p.type = "string", p.chars[i] = "\\", a + 1 = b + i, a \in Nat, b + i < Len(t)
  PROVE  IsUnit(p, b, t, i, a)
<1>1. PICK n, l : n = Len(p.chars) /\ l = Len(t)
  OBVIOUS
<1>2. /\ n \in Nat /\ n >= 2 /\ l \in Nat /\ DOMAIN count \subseteq 2 .. n /\ i \in 2 .. n - 1 /\ UnitWritten(p, count, i)
      /\ \A k \in 1 .. n : b + k <= l => t[b + k] = p.chars[k]
      /\ a + 1 = b + i /\ b + i < l /\ b + i + 1 <= l
  <2>1. /\ n \in Nat /\ n >= 2 /\ l \in Nat /\ DOMAIN count \subseteq 2 .. n /\ UnitWritten(p, count, i)
        /\ \A k \in 1 .. n : b + k <= l => t[b + k] = p.chars[k]
    BY <1>1 DEF StringWritten, Around
  <2>2. i \in 2 .. n /\ i # n /\ a + 1 = b + i /\ b + i < l
    BY <1>1, <2>1
  <2>3. QED
    BY <2>1, <2>2
<1>3. Ahead(t, a, 1) = p.chars[i + 1] /\ i + 1 \in 1 .. n
  <2>1. a + 1 + 1 = b + (i + 1) /\ i + 1 \in 1 .. n /\ b + (i + 1) <= l
    BY <1>1, <1>2
  <2>2. QED
    BY <1>1, <1>2, <2>1 DEF Ahead
<1>4. CASE p.chars[i + 1] # "x"
  <2>1. UnitLength(p, i) = 2
    BY <1>4 DEF UnitLength
  <2>2. Ahead(t, a, 1) \in EscapeSigns
    BY <1>2, <1>3, <2>1 DEF UnitWritten, EscapeSigns
  <2>3. Escaped(t, a) = 2
    BY <2>2, EscapeFacts
  <2>4. UnitMeans(p, i) = Sign(p.chars[i + 1]) /\ Means(t, a) = Sign(p.chars[i + 1])
    BY <1>3, <1>4, <2>1 DEF UnitMeans, Means
  <2>5. b + i + 2 - 1 \in 1 .. l
    BY <1>1, <1>2
  <2>6. QED
    BY <1>1, <1>3, <1>4, <2>1, <2>3, <2>4, <2>5 DEF IsUnit
<1>5. CASE p.chars[i + 1] = "x"
  <2>1. UnitLength(p, i) = 4
    BY <1>5 DEF UnitLength
  <2>2. {p.chars[i + 2], p.chars[i + 3]} \subseteq Digits \cup HexLetters /\ i + 4 \in DOMAIN count
    BY <1>2, <2>1 DEF UnitWritten
  <2>3. l - b \notin {i + 1, i + 2}
    BY <1>1, <1>2, <2>1 DEF CutHere, CutWell
  <2>4. b + (i + 3) <= l /\ i + 3 \in 1 .. n /\ i + 2 \in 1 .. n /\ b + (i + 2) <= l
    <3>1. i + 4 \in 2 .. n
      BY <1>2, <2>2
    <3>2. QED
      BY <1>2, <2>3, <3>1, FourFit
  <2>5. t[b + (i + 2)] = p.chars[i + 2] /\ t[b + (i + 3)] = p.chars[i + 3]
    BY <1>2, <2>4
  <2>6. a + 1 + 2 = b + (i + 2) /\ a + 1 + 3 = b + (i + 3)
    BY <1>2
  <2>7. Ahead(t, a, 2) = p.chars[i + 2] /\ Ahead(t, a, 3) = p.chars[i + 3]
    BY <1>1, <2>4, <2>5, <2>6 DEF Ahead
  <2>8. Escaped(t, a) = 4
    BY <1>3, <1>5, <2>2, <2>7, EscapeFacts
  <2>9. UnitMeans(p, i) = Code(p.chars[i + 2], p.chars[i + 3])
    BY <2>1 DEF UnitMeans
  <2>10. Means(t, a) = Code(p.chars[i + 2], p.chars[i + 3])
    BY <1>3, <1>5, <2>7 DEF Means
  <2>11. b + i + 4 - 1 \in 1 .. l
    BY <1>1, <1>2, <2>4
  <2>12. QED
    BY <1>1, <1>3, <1>5, <2>1, <2>8, <2>9, <2>10, <2>11 DEF IsUnit
<1>6. QED
  BY <1>4, <1>5

LEMMA StringStep_ ==
  ASSUME NEW p, NEW b, NEW base \in Seq(AnyPart), NEW count, NEW t, NEW o, NEW s, NEW u, o # 0,
         p.type = "string", StringWritten(p, count), KeepsOwn(p), CutHere(p, count, b, t),
         Around(p, b, t), Stand(p, b, base, count, t, o, s), s.at < Len(t), Moves(t, s, u)
  PROVE  Onward(p, b, base, count, t, u)
<1>0. PICK i \in Nat : i = o + 1
  BY DEF Stand
<1>1. PICK n, c, f : n = Len(p.chars) /\ c = p.chars[i] /\ f = Ahead(t, s.at, 1) /\ i = o + 1 /\ i \in Nat
  BY <1>0
<1>2. /\ b \in Nat /\ Len(t) \in Nat /\ n \in Nat \ {0} /\ o \in 0 .. n - 1 /\ s.at = b + o /\ b + o < Len(t)
      /\ DOMAIN p.chars = 1 .. n /\ t[s.at + 1] = c
      /\ b + o + 1 = Len(t) => f = "end"
      /\ b + o + 1 < Len(t) /\ o + 1 < n => f = p.chars[o + 2]
      /\ Inside(p, b, base, count, o, s)
  BY <1>1, StandFacts
<1>10. b \in Int /\ o \in Int /\ i \in Int /\ n \in Int /\ Len(t) \in Int /\ s.at \in Int /\ s.at = b + o /\ s.at + 1 = b + i
       /\ i = o + 1 /\ i <= n /\ 1 <= i /\ b + i <= Len(t) /\ n = Len(p.chars)
  <2>1. PICK l : l = Len(t)
    OBVIOUS
  <2>2. b \in Nat /\ l \in Nat /\ n \in Nat /\ o \in Nat /\ o <= n - 1 /\ i = o + 1 /\ b + o < l
    BY <1>1, <1>2, <2>1
  <2>3. /\ b \in Int /\ o \in Int /\ i \in Int /\ n \in Int /\ l \in Int /\ b + o \in Int /\ (b + o) + 1 = b + i
        /\ i <= n /\ 1 <= i /\ b + i <= l
    BY <2>2
  <2>4. QED
    BY <1>1, <1>2, <2>1, <2>3
<1>3. /\ s.mode = "string" /\ s.quote = p.chars[1] /\ s.shown = base /\ i \in DOMAIN count
      /\ s.buffer = Units(p, b, count, i)
  BY <1>1, <1>2 DEF Inside, Units
<1>4. StringStep(t, s, u)
  BY <1>3 DEF Moves, CodeModes
<1>5. /\ n >= 2 /\ p.chars[1] \in Quotes /\ p.chars[n] = p.chars[1] /\ DOMAIN count \subseteq 2 .. n
      /\ n \in DOMAIN count /\ count[n] = Len(p.kept)
      /\ \A j \in DOMAIN count : count[j] \in 0 .. Len(p.kept)
      /\ i # n => UnitWritten(p, count, i)
  BY <1>1, <1>3 DEF StringWritten
<1>6. p.kept \in Seq(Nat) /\ Len(p.kept) \in Nat /\ DOMAIN p.kept = 1 .. Len(p.kept)
  <2>1. PICK h : h = p.kept
    OBVIOUS
  <2>2. h \in Seq(1 .. n)
    BY <1>1, <2>1 DEF KeepsOwn
  <2>3. h \in Seq(Nat) /\ Len(h) \in Nat /\ DOMAIN h = 1 .. Len(h)
    BY <1>2, <2>2, WiderSeq
  <2>4. QED
    BY <2>1, <2>3
<1>7. CASE i = n
  <2>1. c = s.quote /\ c # "\\"
    BY <1>1, <1>3, <1>5, <1>7, QuotesAreNot
  <2>2. u.shown = Append(base, Part("string", s.buffer)) /\ u.buffer = <<>> /\ u.at = s.at + 1 /\ u.mode = "code"
    BY <1>2, <1>3, <1>4, <2>1 DEF StringStep
  <2>3. PartsOf(p, b) = <<Part("string", s.buffer)>>
    <3>1. s.buffer = [j \in DOMAIN p.kept |-> b + p.kept[j]]
      BY <1>3, <1>5, <1>6, <1>7 DEF Units
    <3>2. QED
      BY <3>1 DEF PartsOf
  <2>4. u.shown = base \o PartsOf(p, b)
    BY <2>2, <2>3, AppendIs
  <2>5. Behind(p, base \o PartsOf(p, b), u)
    BY <2>2, <2>4 DEF Behind, CodeModes, SavedIn
  <2>6. u.at = b + n
    <3>1. u.at = s.at + 1
      BY <2>2
    <3>2. QED
      BY <1>7, <1>10, <3>1
  <2>7. QED
    BY <1>1, <2>5, <2>6 DEF Onward
<1>8. CASE i # n
  <2>1. i \in 2 .. n - 1 /\ c # s.quote /\ i + 1 \in 1 .. n
    <3>1. i \in 2 .. n
      BY <1>3, <1>5
    <3>2. c # s.quote
      BY <1>1, <1>3, <1>5, <1>8 DEF UnitWritten
    <3>3. QED
      BY <1>8, <1>10, <3>1, <3>2
  <2>2. CASE c # "\\"
    <3>1. GoesOn(s, u, "string") /\ u.quote = s.quote
      BY <1>2, <1>4, <2>1, <2>2 DEF StringStep, GoesOn
    <3>2. UnitLength(p, i) = 1
      BY <1>1, <2>2 DEF UnitLength
    <3>3. i + 1 \in DOMAIN count /\ count[i + 1] = count[i] + 1 /\ p.kept[count[i] + 1] = i
      BY <1>5, <1>8, <2>1, <3>2 DEF UnitWritten
    <3>4. count[i] \in Nat /\ count[i] + 1 \in 1 .. Len(p.kept)
      BY <1>3, <1>5, <1>6, <3>3
    <3>5. Append(Units(p, b, count, i), b + i) = Units(p, b, count, i + 1)
      <4>1. b \in Nat
        BY <1>2
      <4>2. QED
        <5>1. Append(Units(p, b, count, i), b + p.kept[count[i] + 1]) = Units(p, b, count, i + 1)
          <6>1. OneMore(p, count, i, i + 1)
            BY <1>6, <3>3, <3>4 DEF OneMore
          <6>2. QED
            BY <4>1, <6>1, OneUnit, Zenon
        <5>2. QED
          BY <3>3, <5>1, Zenon
    <3>6. u.buffer = Units(p, b, count, i + 1) /\ u.shown = base /\ u.at = b + (i + 1) - 1 /\ u.mode = "string"
      <4>1. u.buffer = Append(s.buffer, s.at + 1) /\ u.shown = s.shown /\ u.at = s.at + 1 /\ u.mode = "string"
        BY <3>1 DEF GoesOn
      <4>2. Append(s.buffer, s.at + 1) = Append(Units(p, b, count, i), b + i)
        BY <1>3, <1>10
      <4>3. s.at + 1 = b + (i + 1) - 1
        BY <1>10
      <4>4. QED
        BY <1>3, <3>5, <4>1, <4>2, <4>3
    <3>7. i + 1 \in 2 .. Len(p.chars)
      BY <1>1, <1>5, <3>3
    <3>8. QED
      BY <1>1, <1>2, <1>3, <3>1, <3>3, <3>6, <3>7, InString_
  <2>3. CASE c = "\\" /\ b + o + 1 = Len(t)
    <3>1. f = "end" /\ Escaped(t, s.at) = 0
      BY <1>1, <1>2, <2>3, EscapeFacts
    <3>2. u.mode = "unfinished"
      BY <1>1, <1>2, <1>4, <2>1, <2>3, <3>1 DEF StringStep
    <3>3. Len(t) \in b + 1 .. b + n - 1
      BY <1>10, <2>1, <2>3
    <3>4. QED
      BY <1>1, <3>2, <3>3 DEF Onward
  <2>4. CASE c = "\\" /\ b + o + 1 < Len(t)
    <3>1. f = p.chars[i + 1]
      BY <1>1, <1>2, <2>1, <2>4
    <3>2. /\ Escaped(t, s.at) = UnitLength(p, i) /\ UnitLength(p, i) \in {2, 4}
          /\ (UnitLength(p, i) = 2 <=> p.chars[i + 1] # "x")
      <4>1. s.at \in Nat /\ b + i < Len(t) /\ i # Len(p.chars) /\ i \in DOMAIN count /\ p.chars[i] = "\\"
        BY <1>1, <1>2, <1>3, <1>8, <1>10, <2>4
      <4>2. b \in Nat /\ s.at + 1 = b + i
        BY <1>2, <1>10
      <4>3. IsUnit(p, b, t, i, s.at)
        BY <4>1, <4>2, UnitRead
      <4>4. QED
        BY <4>3 DEF IsUnit
    <3>3. PICK l : l = UnitLength(p, i)
      OBVIOUS
    <3>4. /\ u.mode = "string" /\ u.shown = base /\ u.at = s.at + l /\ u.quote = s.quote
          /\ u.buffer = IF f = "\n" THEN s.buffer ELSE Append(s.buffer, s.at + l)
      <4>1. Escaped(t, s.at) = l /\ l # 0
        BY <3>2, <3>3
      <4>2. QED
        BY <1>1, <1>2, <1>3, <1>4, <2>1, <2>4, <4>1 DEF StringStep
    <3>5. /\ i + l \in DOMAIN count
          /\ IF l = 2 /\ p.chars[i + 1] = "\n" THEN count[i + l] = count[i]
             ELSE count[i + l] = count[i] + 1 /\ p.kept[count[i] + 1] = i + l - 1
      BY <1>5, <1>8, <3>3 DEF UnitWritten
    <3>6. u.buffer = Units(p, b, count, i + l)
      <4>1. CASE f = "\n"
        <5>1. l = 2 /\ p.chars[i + 1] = "\n"
          BY <3>1, <3>2, <3>3, <4>1
        <5>2. QED
          BY <1>3, <3>4, <3>5, <4>1, <5>1 DEF Units
      <4>2. CASE f # "\n"
        <5>1. count[i + l] = count[i] + 1 /\ p.kept[count[i] + 1] = i + l - 1
          BY <3>1, <3>5, <4>2
        <5>2. count[i] \in Nat /\ count[i] + 1 \in 1 .. Len(p.kept)
          BY <1>3, <1>5, <1>6, <3>5, <5>1
        <5>3. Append(Units(p, b, count, i), b + (i + l - 1)) = Units(p, b, count, i + l)
          <6>1. b \in Nat
            BY <1>2
          <6>2. QED
            <7>1. Append(Units(p, b, count, i), b + p.kept[count[i] + 1]) = Units(p, b, count, i + l)
              <8>1. OneMore(p, count, i, i + l)
                BY <1>6, <5>1, <5>2 DEF OneMore
              <8>2. QED
                BY <6>1, <8>1, OneUnit, Zenon
            <7>2. QED
              BY <5>1, <7>1, Zenon
        <5>4. s.at + l = b + (i + l - 1)
          BY <1>10, <3>2, <3>3
        <5>5. QED
          BY <1>3, <3>4, <4>2, <5>3, <5>4
      <4>3. QED
        BY <4>1, <4>2
    <3>7. i + l \in 2 .. Len(p.chars) /\ u.at = b + (i + l) - 1
      <4>1. i + l \in 2 .. n /\ u.at = s.at + l /\ l \in Int
        BY <1>5, <3>2, <3>3, <3>4, <3>5
      <4>2. QED
        BY <1>10, <4>1
    <3>8. QED
      BY <1>1, <1>2, <1>3, <3>4, <3>5, <3>6, <3>7, InString_
  <2>5. QED
    BY <1>2, <2>2, <2>3, <2>4
<1>9. QED
  BY <1>7, <1>8

(* Blanks and notes.                                                       *)
LEMMA GapBehind ==
  ASSUME NEW p, NEW b \in Nat, NEW base \in Seq(AnyPart), NEW count, NEW t, NEW u, p.type = "none",
         u.mode = "code", u.buffer = <<>>, u.shown = base, u.at = b + Len(p.chars)
  PROVE  Onward(p, b, base, count, t, u)
<1>1. base \o PartsOf(p, b) = base
  BY AppendIs DEF PartsOf
<1>2. QED
  BY <1>1 DEF Onward, Behind, CodeModes, SavedIn

LEMMA InGap ==
  ASSUME NEW p, NEW b \in Nat, NEW base \in Seq(AnyPart), NEW count, NEW t, NEW u, p.type = "none",
         NEW m \in 1 .. Len(p.chars) - 1, u.buffer = <<>>, u.shown = base, u.at = b + m,
         IF IsBlank(p) THEN u.mode = "code"
         ELSE IF p.chars[2] = "*" THEN u.mode = "note" /\ m \in 2 .. Len(p.chars) - 2
         ELSE u.mode = "line note" /\ m >= 2
  PROVE  Onward(p, b, base, count, t, u)
<1>1. Inside(p, b, base, count, m, u)
  BY DEF Inside
<1>2. QED
  BY <1>1 DEF Onward

LEMMA BlankStep ==
  ASSUME NEW p, NEW b, NEW base \in Seq(AnyPart), NEW count, NEW t, NEW o, NEW s, NEW u,
         p.type = "none", IsBlank(p), CutHere(p, count, b, t),
         Around(p, b, t), Stand(p, b, base, count, t, o, s), s.at < Len(t), Moves(t, s, u)
  PROVE  Onward(p, b, base, count, t, u)
<1>1. PICK n, c, f : n = Len(p.chars) /\ c = p.chars[o + 1] /\ f = Ahead(t, s.at, 1)
  OBVIOUS
<1>2. /\ b \in Nat /\ Len(t) \in Nat /\ n \in Nat \ {0} /\ o \in 0 .. n - 1 /\ o + 1 \in 1 .. n /\ s.at = b + o
      /\ b + o < Len(t) /\ DOMAIN p.chars = 1 .. n /\ t[s.at + 1] = c
      /\ b + o + 1 < Len(t) /\ o + 1 < n => f = p.chars[o + 2]
      /\ o > 0 => Inside(p, b, base, count, o, s)
      /\ o = 0 => Ready(s, p.chars[1], base)
  BY <1>1, StandFacts
<1>3. s.mode \in CodeModes /\ SavedIn(s) = base
  <2>1. CASE o = 0
    BY <1>2, <2>1 DEF Ready
  <2>2. CASE o # 0
    <3>1. s.mode = "code" /\ s.shown = base /\ s.buffer = <<>>
      BY <1>2, <2>2 DEF Inside
    <3>2. QED
      BY <3>1 DEF CodeModes, SavedIn
  <2>3. QED
    BY <2>1, <2>2
<1>4. CodeStep(t, s, u)
  BY <1>3 DEF Moves, CodeModes
<1>5. c \in Blanks \/ (c = "\\" /\ o + 1 < n /\ p.chars[o + 2] = "\n")
  <2>1. (o + 1) + 1 = o + 2
    BY <1>2
  <2>2. \/ p.chars[o + 1] \in Blanks
        \/ p.chars[o + 1] = "\\" /\ o + 1 < n /\ p.chars[(o + 1) + 1] = "\n"
    BY <1>1, <1>2 DEF IsBlank
  <2>3. QED
    BY <1>1, <2>1, <2>2
<1>6. /\ u.mode = "code" /\ u.shown = base /\ u.buffer = <<>>
      /\ u.at = b + (o + 1) \/ (u.at = b + (o + 2) /\ o + 1 < n)
  <2>1. CASE c \in Blanks
    <3>1. Leaves(s, u, "code")
      BY <1>2, <1>4, <2>1, OnBlank
    <3>2. QED
      BY <1>2, <1>3, <3>1 DEF Leaves
  <2>2. CASE c = "\\" /\ o + 1 < n /\ p.chars[o + 2] = "\n"
    <3>1. b + o + 1 # Len(t)
      <4>1. SUFFICES ASSUME b + o + 1 = Len(t) PROVE FALSE
        OBVIOUS
      <4>2. Len(t) - b = o + 1
        BY <1>2, <4>1
      <4>3. QED
        BY <1>1, <1>2, <2>2, <4>2 DEF CutHere, CutWell
    <3>2. f = "\n"
      BY <1>2, <2>2, <3>1
    <3>3. ContinuesLine(s, u)
      BY <1>1, <1>2, <1>4, <2>2, <3>2, OnBackslash
    <3>4. QED
      BY <1>2, <1>3, <2>2, <3>3 DEF ContinuesLine
  <2>3. QED
    BY <1>5, <2>1, <2>2
<1>7. PICK m \in o + 1 .. o + 2 : u.at = b + m /\ m <= n
  BY <1>2, <1>6
<1>8. CASE m = n
  BY <1>1, <1>2, <1>6, <1>7, <1>8, GapBehind
<1>9. CASE m # n
  <2>1. m \in 1 .. Len(p.chars) - 1
    BY <1>1, <1>2, <1>7, <1>9
  <2>2. QED
    BY <1>2, <1>6, <1>7, <2>1, InGap
<1>10. QED
  BY <1>8, <1>9

NoteWritten(p) ==
  /\ p.chars[1] = "/"
  /\ LET n == Len(p.chars) IN
     \/ /\ n >= 4 /\ p.chars[2] = "*" /\ p.chars[n - 1] = "*" /\ p.chars[n] = "/"
        /\ \A k \in 3 .. n - 2 : p.chars[k] # "*"
     \/ /\ n >= 3 /\ p.chars[2] = "/" /\ p.chars[n] = "\n" /\ \A k \in 3 .. n - 1 : p.chars[k] # "\n"

LEMMA NotesAreNotBlank ==
  ASSUME NEW p, Len(p.chars) \in Nat, NoteWritten(p)
  PROVE  ~IsBlank(p)
BY SlashIs DEF NoteWritten, IsBlank

LEMMA NoteStart ==
  ASSUME NEW p, NEW b, NEW base \in Seq(AnyPart), NEW count, NEW t, NEW s, NEW u,
         p.type = "none", NoteWritten(p), Around(p, b, t), Stand(p, b, base, count, t, 0, s), s.at < Len(t), Moves(t, s, u)
  PROVE  Onward(p, b, base, count, t, u)
<1>1. PICK n, f : n = Len(p.chars) /\ f = Ahead(t, s.at, 1)
  OBVIOUS
<1>2. /\ b \in Nat /\ Len(t) \in Nat /\ n \in Nat \ {0} /\ s.at = b /\ b < Len(t) /\ t[s.at + 1] = p.chars[1]
      /\ b + 1 = Len(t) => f = "end"
      /\ b + 1 < Len(t) /\ 1 < n => f = p.chars[2]
      /\ Ready(s, p.chars[1], base)
  BY <1>1, StandFacts
<1>3. CodeStep(t, s, u) /\ SavedIn(s) = base
  BY <1>2 DEF Moves, Ready, CodeModes
<1>4. ~IsBlank(p) /\ t[s.at + 1] = "/" /\ n >= 3
  BY <1>1, <1>2, NotesAreNotBlank DEF NoteWritten
<1>5. IF f \in {"/", "*"} THEN BeginsNote(f, s, u) ELSE MakesSymbol(s, u, 1)
  BY <1>1, <1>3, <1>4, OnSlash
<1>6. CASE b + 1 = Len(t)
  <2>1. MakesSymbol(s, u, 1)
    BY <1>2, <1>5, <1>6
  <2>2. u.mode = "code" /\ u.at = b + 1 /\ 1 \in 1 .. Len(p.chars) - 1
    BY <1>1, <1>2, <1>4, <2>1 DEF MakesSymbol
  <2>3. CutIn(p, t, u)
    BY <1>6, <2>2 DEF CutIn
  <2>4. QED
    BY <2>2, <2>3 DEF Onward
<1>7. CASE b + 1 # Len(t)
  <2>1. f = p.chars[2]
    BY <1>2, <1>4, <1>7
  <2>2. f \in {"/", "*"} /\ (f = "*" => n >= 4)
    BY <1>1, <2>1 DEF NoteWritten
  <2>3. BeginsNote(f, s, u)
    BY <1>5, <2>2
  <2>4. /\ u.shown = base /\ u.at = b + 2 /\ u.buffer = <<>>
        /\ u.mode = IF f = "/" THEN "line note" ELSE "note"
    BY <1>2, <1>3, <2>3 DEF BeginsNote
  <2>5. 2 \in 1 .. Len(p.chars) - 1 /\ (f = "*" => 2 \in 2 .. Len(p.chars) - 2) /\ 2 >= 2
    BY <1>1, <1>2, <1>4, <2>2
  <2>6. IF p.chars[2] = "*" THEN u.mode = "note" /\ 2 \in 2 .. Len(p.chars) - 2 ELSE u.mode = "line note" /\ 2 >= 2
    BY <2>1, <2>2, <2>4, <2>5
  <2>7. QED
    BY <1>2, <1>4, <2>4, <2>5, <2>6, InGap
<1>8. QED
  BY <1>6, <1>7

LEMMA InNoteStep ==
  ASSUME NEW p, NEW b, NEW base \in Seq(AnyPart), NEW count, NEW t, NEW o, NEW s, NEW u, o # 0,
         p.type = "none", NoteWritten(p), Around(p, b, t), Stand(p, b, base, count, t, o, s), s.at < Len(t), Moves(t, s, u)
  PROVE  Onward(p, b, base, count, t, u)
<1>1. PICK n, c, f : n = Len(p.chars) /\ c = p.chars[o + 1] /\ f = Ahead(t, s.at, 1)
  OBVIOUS
<1>2. /\ b \in Nat /\ Len(t) \in Nat /\ n \in Nat \ {0} /\ o \in 0 .. n - 1 /\ o + 1 \in 1 .. n /\ s.at = b + o
      /\ b + o < Len(t) /\ t[s.at + 1] = c
      /\ b + o + 1 = Len(t) => f = "end"
      /\ b + o + 1 < Len(t) /\ o + 1 < n => f = p.chars[o + 2]
      /\ Inside(p, b, base, count, o, s)
  BY <1>1, StandFacts
<1>3. ~IsBlank(p)
  BY <1>1, <1>2, NotesAreNotBlank
<1>4. /\ s.shown = base /\ s.buffer = <<>>
      /\ IF p.chars[2] = "*" THEN s.mode = "note" /\ o \in 2 .. n - 2 ELSE s.mode = "line note" /\ o >= 2
  BY <1>1, <1>2, <1>3 DEF Inside
<1>5. CASE p.chars[2] = "*"
  <2>1. /\ n >= 4 /\ p.chars[n - 1] = "*" /\ p.chars[n] = "/" /\ \A k \in 3 .. n - 2 : p.chars[k] # "*"
        /\ o \in 2 .. n - 2 /\ s.mode = "note"
    BY <1>1, <1>4, <1>5 DEF NoteWritten
  <2>2. NoteStep(t, s, u)
    BY <2>1 DEF Moves, CodeModes
  <2>3. u.shown = base /\ u.buffer = <<>>
    BY <1>4, <2>2 DEF NoteStep
  <2>4. CASE o # n - 2
    <3>1. o + 1 \in 3 .. n - 2
      BY <1>2, <2>1, <2>4
    <3>2. c # "*"
      BY <1>1, <2>1, <3>1
    <3>3. u.at = b + (o + 1) /\ u.mode = "note"
      BY <1>2, <2>2, <3>2 DEF NoteStep
    <3>4. o + 1 \in 1 .. Len(p.chars) - 1 /\ o + 1 \in 2 .. Len(p.chars) - 2
      BY <1>1, <1>2, <3>1
    <3>5. QED
      BY <1>2, <1>3, <1>5, <2>3, <3>3, <3>4, InGap
  <2>5. CASE o = n - 2
    <3>1. o + 1 = n - 1 /\ o + 2 = n /\ c = "*"
      BY <1>1, <1>2, <2>1, <2>5
    <3>2. u.at = s.at + 2 /\ u.mode = CASE f = "/" -> "code" [] f = "end" -> "beyond" [] OTHER -> "note"
      BY <1>1, <1>2, <2>2, <3>1 DEF NoteStep
    <3>3. CASE b + o + 1 = Len(t)
      <4>1. u.mode = "beyond"
        BY <1>2, <3>2, <3>3
      <4>2. QED
        BY <4>1 DEF Onward
    <3>4. CASE b + o + 1 # Len(t)
      <4>1. f = "/"
        BY <1>2, <2>1, <3>1, <3>4
      <4>2. u.mode = "code" /\ u.at = b + n
        BY <1>2, <3>1, <3>2, <4>1
      <4>3. QED
        BY <1>1, <1>2, <2>3, <4>2, GapBehind
    <3>5. QED
      BY <3>3, <3>4
  <2>6. QED
    BY <2>4, <2>5
<1>6. CASE p.chars[2] # "*"
  <2>1. n >= 3 /\ p.chars[n] = "\n" /\ (\A k \in 3 .. n - 1 : p.chars[k] # "\n") /\ s.mode = "line note" /\ o >= 2
    BY <1>1, <1>4, <1>6 DEF NoteWritten
  <2>2. LineNoteStep(t, s, u)
    BY <2>1 DEF Moves, CodeModes
  <2>3. /\ u.shown = base /\ u.buffer = <<>> /\ u.at = b + (o + 1)
        /\ u.mode = IF c = "\n" THEN "code" ELSE "line note"
    <3>1. /\ u.shown = s.shown /\ u.buffer = s.buffer /\ u.at = s.at + 1
          /\ u.mode = IF c = "\n" THEN "code" ELSE "line note"
      BY <1>2, <2>2 DEF LineNoteStep
    <3>2. s.at + 1 = b + (o + 1)
      BY <1>2
    <3>3. QED
      BY <1>4, <2>1, <3>1, <3>2
  <2>4. CASE o + 1 = n
    <3>1. c = "\n"
      BY <1>1, <2>1, <2>4
    <3>2. u.mode = "code" /\ u.at = b + n
      BY <2>3, <2>4, <3>1
    <3>3. QED
      BY <1>1, <1>2, <2>3, <3>2, GapBehind
  <2>5. CASE o + 1 # n
    <3>1. o + 1 \in 3 .. n - 1
      <4>1. o >= 2
        BY <2>1, Zenon
      <4>2. n \in Nat /\ o \in 0 .. n - 1
        BY <1>2, Zenon
      <4>3. o \in Int /\ o <= n - 1
        BY <4>2
      <4>4. QED
        BY <2>5, <4>1, <4>2, <4>3
    <3>2. u.mode = "line note"
      BY <1>1, <2>1, <2>3, <3>1
    <3>3. o + 1 \in 1 .. Len(p.chars) - 1 /\ o + 1 >= 2
      BY <1>1, <1>2, <3>1
    <3>4. QED
      BY <1>2, <1>3, <1>6, <2>3, <3>2, <3>3, InGap
  <2>6. QED
    BY <2>4, <2>5
<1>7. QED
  BY <1>5, <1>6

LEMMA PieceStep ==
  ASSUME NEW p, NEW b, NEW base \in Seq(AnyPart), NEW counts, NEW t, NEW o, NEW s, NEW u,
         PieceWritten(p, counts), CutHere(p, counts[p], b, t),
         Around(p, b, t), Stand(p, b, base, counts[p], t, o, s), s.at < Len(t), Moves(t, s, u)
  PROVE  Onward(p, b, base, counts[p], t, u)
<1>1. CASE p.type = "word"
  BY <1>1, WordStep DEF PieceWritten
<1>2. CASE p.type = "number"
  <2>1. NumberWritten(p)
    BY <1>2 DEF PieceWritten
  <2>2. QED
    BY <1>2, <2>1, WholeStep, FractionStep
<1>3. CASE p.type = "symbol"
  <2>1. SymbolWritten(p)
    BY <1>3 DEF PieceWritten
  <2>2. QED
    BY <1>3, <2>1, SymbolStart, SymbolEnd
<1>4. CASE p.type = "string"
  <2>1. StringWritten(p, counts[p]) /\ KeepsOwn(p)
    BY <1>4 DEF PieceWritten, KeepsOwn
  <2>2. QED
    BY <1>4, <2>1, StringStart, StringStep_
<1>5. CASE p.type = "none"
  <2>1. GapWritten(p)
    BY <1>5 DEF PieceWritten
  <2>2. IsBlank(p) \/ NoteWritten(p)
    BY <2>1 DEF GapWritten, IsBlank, NoteWritten
  <2>3. QED
    BY <1>5, <2>2, BlankStep, NoteStart, InNoteStep
<1>6. p.type \in {"word", "number", "symbol", "string", "none"}
  BY DEF PieceWritten
<1>7. QED
  BY <1>1, <1>2, <1>3, <1>4, <1>5, <1>6

----------------------------------------------------------------------------
(***************************************************************************)
(* From piece to piece.  Sofar are the parts of all the pieces before one. *)
(***************************************************************************)
AllParts(P) == [k \in DOMAIN P |-> PartsOf(P[k], Before(P, k))]
Sofar(P, k) == FlattenSeq(SubSeq(AllParts(P), 1, k - 1))

LEMMA OnePart ==
  ASSUME NEW type \in {"word", "number", "symbol", "string"}, NEW places \in Seq(Nat)
  PROVE  Part(type, places) \in AnyPart
BY DEF Part, AnyPart

LEMMA FewParts ==
  ASSUME NEW x \in AnyPart, NEW y \in AnyPart, NEW z \in AnyPart
  PROVE  /\ <<>> \in Seq(AnyPart) /\ <<x>> \in Seq(AnyPart) /\ <<x, y>> \in Seq(AnyPart)
         /\ <<x, y, z>> \in Seq(AnyPart)
<1> PICK S : S = AnyPart
  OBVIOUS
<1>1. x \in S /\ y \in S /\ z \in S
  OBVIOUS
<1>2. <<>> \in Seq(S) /\ <<x>> \in Seq(S) /\ <<x, y>> \in Seq(S) /\ <<x, y, z>> \in Seq(S)
  BY <1>1
<1>3. QED
  BY <1>2

LEMMA PartsOfType ==
  ASSUME NEW p, NEW counts, PieceWritten(p, counts), DOMAIN p.chars = 1 .. Len(p.chars), Len(p.chars) \in Nat \ {0},
         NEW b \in Nat
  PROVE  PartsOf(p, b) \in Seq(AnyPart)
<1>1. PICK n : n = Len(p.chars)
  OBVIOUS
<1>2. n \in Nat \ {0}
  BY <1>1
<1>3. p.type \in {"word", "number", "symbol", "string", "none"}
  BY DEF PieceWritten
<1>4. \A a \in Nat, m \in Nat : Run(a, m) \in Seq(Nat)
  BY Runs
<1>5. ASSUME NEW type \in {"word", "number", "symbol", "string"}, NEW a \in Nat, NEW m \in Nat
      PROVE  Part(type, Run(a, m)) \in AnyPart
  BY <1>4, OnePart
<1>6. CASE p.type = "none"
  BY <1>6 DEF PartsOf
<1>7. CASE p.type = "word"
  <2>1. PartsOf(p, b) = <<Part("word", Run(b, n))>>
    BY <1>1, <1>7 DEF PartsOf
  <2>2. QED
    BY <1>2, <1>5, <2>1, FewParts
<1>8. CASE p.type = "string"
  <2>1. PICK f : f = [i \in DOMAIN p.kept |-> b + p.kept[i]]
    OBVIOUS
  <2>2. p.kept \in Seq(1 .. n)
    BY <1>1 DEF PieceWritten
  <2>3. p.kept \in Seq(Nat)
    BY <1>2, <2>2, WiderSeq
  <2>4. f \in Seq(Nat)
    <3>1. \A i \in DOMAIN p.kept : p.kept[i] \in Nat
      BY <2>3
    <3>2. \A i \in DOMAIN p.kept : b + p.kept[i] \in Nat
      BY <3>1
    <3>3. DOMAIN p.kept = 1 .. Len(p.kept) /\ Len(p.kept) \in Nat
      BY <2>3
    <3>4. QED
      BY <2>1, <3>2, <3>3
  <2>5. Part("string", f) \in AnyPart
    BY <2>4, OnePart
  <2>6. PartsOf(p, b) = <<Part("string", f)>>
    BY <1>8, <2>1 DEF PartsOf
  <2>7. QED
    BY <2>5, <2>6, FewParts
<1>9. CASE p.type = "number" /\ ~Fraction(p)
  <2>1. PartsOf(p, b) = <<Part("number", Run(b, n))>>
    BY <1>1, <1>9 DEF PartsOf
  <2>2. QED
    BY <1>2, <1>5, <2>1, FewParts
<1>10. CASE p.type = "number" /\ Fraction(p)
  <2>1. PICK q : q = PointAt(p)
    OBVIOUS
  <2>2. NumberWritten(p)
    BY <1>10 DEF PieceWritten
  <2>3. q \in 2 .. n - 1
    BY <1>1, <1>10, <2>1, <2>2, FractionIs
  <2>4. PartsOf(p, b) = <<Part("number", Run(b, q - 1)), Part("symbol", Run(b + q - 1, 1)), Part("number", Run(b + q, n - q))>>
    BY <1>1, <1>10, <2>1 DEF PartsOf
  <2>5. q - 1 \in Nat /\ b + q - 1 \in Nat /\ b + q \in Nat /\ n - q \in Nat /\ 1 \in Nat
    BY <1>2, <2>3
  <2>6. Part("number", Run(b, q - 1)) \in AnyPart /\ Part("symbol", Run(b + q - 1, 1)) \in AnyPart
        /\ Part("number", Run(b + q, n - q)) \in AnyPart
    BY <1>5, <2>5
  <2>7. QED
    BY <2>4, <2>6, FewParts, Zenon
<1>11. CASE p.type = "symbol" /\ ~Joined(p)
  <2>1. PartsOf(p, b) = <<Part("symbol", Run(b, n))>>
    BY <1>1, <1>11 DEF PartsOf
  <2>2. QED
    BY <1>2, <1>5, <2>1, FewParts
<1>12. CASE p.type = "symbol" /\ Joined(p)
  <2>1. PartsOf(p, b) = <<Part("symbol", Run(b, n - 1)), Part("symbol", Run(b + n - 1, 1))>>
    BY <1>1, <1>12 DEF PartsOf
  <2>2. n - 1 \in Nat /\ b + n - 1 \in Nat /\ 1 \in Nat
    BY <1>2
  <2>3. Part("symbol", Run(b, n - 1)) \in AnyPart /\ Part("symbol", Run(b + n - 1, 1)) \in AnyPart
    BY <1>5, <2>2
  <2>4. QED
    BY <2>1, <2>3, FewParts, Zenon
<1>13. QED
  BY <1>3, <1>6, <1>7, <1>8, <1>9, <1>10, <1>11, <1>12

LEMMA AllPartsType ==
  ASSUME NEW P, NEW counts, NEW t, WellWritten(P, counts), Layout(P, t)
  PROVE  AllParts(P) \in Seq(Seq(AnyPart)) /\ Len(AllParts(P)) = Len(P)
         /\ \A k \in 1 .. Len(P) : AllParts(P)[k] = PartsOf(P[k], Before(P, k))
<1>1. PICK n, W : n = Len(P) /\ W = Seq(AnyPart)
  OBVIOUS
<1>2. n \in Nat /\ DOMAIN P = 1 .. n
  BY <1>1 DEF Layout
<1>3. AllParts(P) = [k \in 1 .. n |-> PartsOf(P[k], Before(P, k))]
  BY <1>2 DEF AllParts
<1>4. ASSUME NEW k \in 1 .. n PROVE PartsOf(P[k], Before(P, k)) \in W
  <2>1. PieceWritten(P[k], counts)
    BY <1>2 DEF WellWritten
  <2>2. DOMAIN P[k].chars = 1 .. Len(P[k].chars) /\ Len(P[k].chars) \in Nat \ {0} /\ Before(P, k) \in Nat
    BY <1>1, <1>2 DEF Layout
  <2>3. QED
    BY <1>1, <2>1, <2>2, PartsOfType, Zenon
<1>5. AllParts(P) \in Seq(W) /\ Len(AllParts(P)) = n
  BY <1>2, <1>3, <1>4
<1>6. QED
  BY <1>1, <1>3, <1>5, Zenon

LEMMA SofarGrows ==
  ASSUME NEW P, NEW counts, NEW t, WellWritten(P, counts), Layout(P, t)
  PROVE  /\ Sofar(P, 1) = <<>>
         /\ \A k \in 1 .. Len(P) : /\ Sofar(P, k) \in Seq(AnyPart)
                                   /\ Sofar(P, k + 1) = Sofar(P, k) \o PartsOf(P[k], Before(P, k))
<1>1. PICK A, W : A = AllParts(P) /\ W = Seq(AnyPart)
  OBVIOUS
<1>2. A \in Seq(W) /\ Len(A) = Len(P) /\ \A k \in 1 .. Len(P) : A[k] = PartsOf(P[k], Before(P, k))
  BY <1>1, AllPartsType
<1>3. \A k : Sofar(P, k) = FlattenSeq(SubSeq(A, 1, k - 1))
  BY <1>1 DEF Sofar
<1>4. Sofar(P, 1) = <<>>
  <2>1. SubSeq(A, 1, 1 - 1) = <<>>
    BY <1>2
  <2>2. QED
    BY <1>3, <2>1, FlattenEmpty
<1>5. ASSUME NEW k \in 1 .. Len(P)
      PROVE  Sofar(P, k) \in W /\ Sofar(P, k + 1) = Sofar(P, k) \o PartsOf(P[k], Before(P, k))
  <2>1. PICK a, x : a = SubSeq(A, 1, k - 1) /\ x = A[k]
    OBVIOUS
  <2>2. a \in Seq(W) /\ x \in W /\ SubSeq(A, 1, k) = Append(a, x)
    BY <1>2, <2>1, Split
  <2>3. FlattenSeq(Append(a, x)) = FlattenSeq(a) \o x /\ FlattenSeq(a) \in W
    BY <1>1, <2>2, FlattenAppend, FlattenType
  <2>4. Len(P) \in Nat
    BY DEF Layout
  <2>5. (k + 1) - 1 = k
    BY <2>4
  <2>6. Sofar(P, k + 1) = FlattenSeq(SubSeq(A, 1, k))
    BY <1>3, <2>5
  <2>7. QED
    BY <1>2, <1>3, <2>1, <2>2, <2>3, <2>6
<1>6. QED
  BY <1>1, <1>4, <1>5

(***************************************************************************)
(* What the text means: m is what has been read for each place of it, v    *)
(* the same after a step.  Only escapes of strings are read as something   *)
(* else than what is written.                                              *)
(***************************************************************************)
DecodesAt(t, s) ==
  /\ s.mode \in CodeModes \/ s.mode = "string"
  /\ t[s.at + 1] = "\\" /\ Escaped(t, s.at) # 0 /\ Ahead(t, s.at, 1) # "\n"

Rewrites(t, s, m, v) ==
  v = IF DecodesAt(t, s) THEN [m EXCEPT ![s.at + Escaped(t, s.at)] = Means(t, s.at)] ELSE m

(* The first l kept characters of a piece, or all, have their meaning; from *)
(* a place on, the text means what is written.                             *)
Told(p, b, m, l)  == \A j \in 1 .. l : m[b + p.kept[j]] = p.meant[j]
Tells(p, b, m)    == \A j \in DOMAIN p.kept : m[b + p.kept[j]] = p.meant[j]
Unread(t, m, a)   == \A q \in 1 .. Len(t) : q > a => m[q] = t[q]
NoNul(m)          == \A q \in DOMAIN m : m[q] # "NUL"

Telling(p, b, t, m, s) == IF s.mode = "string" THEN Told(p, b, m, Len(s.buffer)) /\ Unread(t, m, s.at) ELSE Unread(t, m, b)

TellAt(P, t, m, s, k) ==
  /\ \A h \in 1 .. k - 1 : Tells(P[h], Before(P, h), m)
  /\ k <= Len(P) => Telling(P[k], Before(P, k), t, m, s)

LEMMA Unchanged_ ==
  ASSUME NEW t, NEW s, NEW m, NEW v, Rewrites(t, s, m, v), ~DecodesAt(t, s)
  PROVE  v = m
BY DEF Rewrites

LEMMA PlainChars ==
  ASSUME NEW p, p.type \in {"word", "number", "symbol"}, NEW counts, PieceWritten(p, counts),
         NEW i \in 1 .. Len(p.chars), DOMAIN p.chars = 1 .. Len(p.chars)
  PROVE  p.chars[i] # "\\"
<1>1. "\\" \notin Digits \cup Singles \cup Firsts \cup {"/", "x", "."} \cup HexLetters /\ ~Letter("\\")
  <2>1. "\\" \notin HexLetters /\ "\\" \notin {"x", "."}
    BY DEF HexLetters
  <2>2. QED
    BY <2>1, BackslashIs
<1>2. CASE p.type = "word"
  <2>1. Letter(p.chars[i]) \/ p.chars[i] \in Digits
    BY <1>2 DEF PieceWritten, WordWritten
  <2>2. QED
    BY <1>1, <2>1
<1>3. CASE p.type = "number"
  <2>1. NumberWritten(p)
    BY <1>3 DEF PieceWritten
  <2>2. p.chars[i] \in Digits \cup {"x", "."} \cup HexLetters
    BY <2>1 DEF NumberWritten, DigitsBut
  <2>3. QED
    BY <1>1, <2>2
<1>4. CASE p.type = "symbol"
  <2>1. SymbolWritten(p)
    BY <1>4 DEF PieceWritten
  <2>2. CASE Len(p.chars) = 1 /\ p.chars[1] \in Singles \cup Firsts \cup {"/"}
    BY <1>1, <2>2
  <2>3. CASE Len(p.chars) = 2 /\ p.chars[1] \in Firsts /\ p.chars[2] \in Seconds(p.chars[1])
    <3>1. \A c \in Firsts : "\\" \notin Seconds(c)
      BY DEF Firsts, Seconds
    <3>2. i = 1 \/ i = 2
      BY <2>3
    <3>3. QED
      BY <1>1, <2>3, <3>1, <3>2
  <2>4. CASE Joined(p)
    <3>1. "\\" \notin Opening \cup Doubled \cup {"=", "+", "-"}
      BY DEF Opening, Doubled
    <3>2. CASE \E c \in Opening, d \in {"=", "+", "-"} : p.chars = <<c, d>>
      <4>1. PICK c \in Opening, d \in {"=", "+", "-"} : p.chars = <<c, d>>
        BY <3>2
      <4>2. p.chars[i] \in {c, d}
        BY <4>1
      <4>3. QED
        BY <3>1, <4>2
    <3>3. CASE \E c \in Doubled : p.chars = <<c, c, "=">>
      <4>1. PICK c \in Doubled : p.chars = <<c, c, "=">>
        BY <3>3
      <4>2. p.chars[i] \in {c, "="}
        BY <4>1
      <4>3. QED
        BY <3>1, <4>2
    <3>4. QED
      BY <2>4, <3>2, <3>3, JoinedIs
  <2>5. QED
    BY <2>1, <2>2, <2>3, <2>4 DEF SymbolWritten
<1>5. QED
  BY <1>2, <1>3, <1>4

LEMMA Unescaped ==
  ASSUME NEW p, NEW counts, PieceWritten(p, counts), NEW b, NEW base, NEW count, NEW t, NEW o, NEW s,
         Around(p, b, t), Stand(p, b, base, count, t, o, s), s.at < Len(t), p.type # "string" \/ o = 0
  PROVE  ~DecodesAt(t, s)
<1>1. PICK n, c : n = Len(p.chars) /\ c = p.chars[o + 1]
  OBVIOUS
<1>2. /\ b \in Nat /\ Len(t) \in Nat /\ n \in Nat \ {0} /\ o \in 0 .. n - 1 /\ o + 1 \in 1 .. n /\ s.at = b + o
      /\ DOMAIN p.chars = 1 .. n /\ t[s.at + 1] = c
      /\ b + o + 1 = Len(t) => Ahead(t, s.at, 1) = "end"
      /\ b + o + 1 < Len(t) /\ o + 1 < n => Ahead(t, s.at, 1) = p.chars[o + 2]
      /\ o > 0 => Inside(p, b, base, count, o, s)
  BY <1>1, StandFacts
<1>3. CASE c # "\\"
  BY <1>2, <1>3 DEF DecodesAt
<1>4. CASE p.type \in {"word", "number", "symbol"}
  <2>1. c # "\\"
    BY <1>1, <1>2, <1>4, PlainChars
  <2>2. QED
    BY <1>3, <2>1
<1>5. CASE p.type = "string" /\ o = 0
  <2>1. c \in Quotes
    BY <1>1, <1>5 DEF PieceWritten, StringWritten
  <2>2. QED
    BY <1>3, <2>1, QuotesAreNot
<1>6. CASE p.type = "none" /\ IsBlank(p)
  <2> SUFFICES ASSUME c = "\\" PROVE Ahead(t, s.at, 1) = "\n" \/ Escaped(t, s.at) = 0
    BY <1>3 DEF DecodesAt
  <2>1. o + 1 < n /\ p.chars[(o + 1) + 1] = "\n"
    BY <1>1, <1>2, <1>6, BackslashIs DEF IsBlank
  <2>2. (o + 1) + 1 = o + 2 /\ (b + o + 1 = Len(t) \/ b + o + 1 < Len(t))
    BY <1>2
  <2>3. CASE b + o + 1 = Len(t)
    BY <1>2, <2>3, EscapeFacts
  <2>4. CASE b + o + 1 < Len(t)
    BY <1>2, <2>1, <2>2, <2>4
  <2>5. QED
    BY <2>2, <2>3, <2>4
<1>7. CASE p.type = "none" /\ ~IsBlank(p)
  <2>1. GapWritten(p)
    BY <1>7 DEF PieceWritten
  <2>2. p.chars[1] = "/"
    BY <1>7, <2>1 DEF GapWritten, IsBlank
  <2>3. CASE o = 0
    BY <1>1, <1>3, <2>2, <2>3, BackslashIs
  <2>4. CASE o # 0
    <3>1. Inside(p, b, base, count, o, s)
      BY <1>2, <2>4
    <3>2. s.mode \in {"note", "line note"}
      BY <1>7, <3>1 DEF Inside
    <3>3. QED
      BY <3>2 DEF DecodesAt, CodeModes
  <2>5. QED
    BY <2>3, <2>4
<1>8. QED
  BY <1>4, <1>5, <1>6, <1>7 DEF PieceWritten

BufferRead(s) == \A j \in DOMAIN s.buffer : s.buffer[j] \in 1 .. s.at

(* After a step in a string, of which l characters have been kept. *)
GoesOnTelling(p, b, t, m, v, l, a) ==
  /\ DOMAIN v = DOMAIN m /\ NoNul(v) /\ (\A q \in DOMAIN m : q <= b => v[q] = m[q])
  /\ Told(p, b, v, l) /\ Unread(t, v, a)

LEMMA TellsOn ==
  ASSUME NEW p, NEW b, NEW t, NEW m, NoNul(m), NEW l, Told(p, b, m, l),
         Len(t) \in Nat, NEW a \in Nat, Unread(t, m, a), NEW c \in Nat, a <= c
  PROVE  GoesOnTelling(p, b, t, m, m, l, c)
<1>1. Unread(t, m, c)
  BY DEF Unread
<1>2. QED
  BY <1>1 DEF GoesOnTelling

OnlyThere(m, v, e, x) == DOMAIN v = DOMAIN m /\ v[e] = x /\ \A q \in DOMAIN m : q # e => v[q] = m[q]

LEMMA TellsOneMore ==
  ASSUME NEW p, NEW b \in Nat, NEW t, NEW m, NEW v, NoNul(m), NEW l \in Nat, Told(p, b, m, l),
         Len(t) \in Nat, NEW a \in Nat, Unread(t, m, a), DOMAIN m = 1 .. Len(t),
         NEW e \in 1 .. Len(t), NEW x, b <= a, a < e, OnlyThere(m, v, e, x), x # "NUL",
         \A j \in 1 .. l : b + p.kept[j] \in 1 .. a, b + p.kept[l + 1] = e, p.meant[l + 1] = x
  PROVE  GoesOnTelling(p, b, t, m, v, l + 1, e)
<1>1. DOMAIN v = 1 .. Len(t) /\ v[e] = x /\ \A q \in 1 .. Len(t) : q # e => v[q] = m[q]
  BY DEF OnlyThere
<1>2. NoNul(v)
  BY <1>1 DEF NoNul
<1>3. \A q \in DOMAIN m : q <= b => v[q] = m[q]
  BY <1>1
<1>4. ASSUME NEW j \in 1 .. l + 1 PROVE v[b + p.kept[j]] = p.meant[j]
  <2>1. CASE j = l + 1
    BY <1>1, <2>1
  <2>2. CASE j # l + 1
    <3>1. j \in 1 .. l
      BY <2>2
    <3>2. PICK q : q = b + p.kept[j]
      OBVIOUS
    <3>3. q \in 1 .. a /\ m[q] = p.meant[j]
      BY <3>1, <3>2 DEF Told
    <3>4. q \in 1 .. Len(t) /\ q # e
      BY <3>3
    <3>5. QED
      BY <1>1, <3>2, <3>3, <3>4
  <2>3. QED
    BY <2>1, <2>2
<1>5. Unread(t, v, e)
  <2> SUFFICES ASSUME NEW q \in 1 .. Len(t), q > e PROVE v[q] = t[q]
    BY DEF Unread
  <2>1. q # e /\ q > a
    OBVIOUS
  <2>2. QED
    BY <1>1, <2>1 DEF Unread
<1>6. Told(p, b, v, l + 1)
  BY <1>4 DEF Told
<1>7. QED
  BY <1>1, <1>2, <1>3, <1>5, <1>6 DEF GoesOnTelling

LEMMA UnitsFacts ==
  ASSUME NEW p, NEW b \in Nat, NEW count, NEW i, count[i] \in Nat, count[i] <= Len(p.kept), KeepsOwn(p), Len(p.chars) \in Nat
  PROVE  /\ Units(p, b, count, i) \in Seq(Nat) /\ Len(Units(p, b, count, i)) = count[i]
         /\ \A j \in 1 .. count[i] : Units(p, b, count, i)[j] = b + p.kept[j]
<1>1. PICK h, n, l : h = p.kept /\ n = Len(p.chars) /\ l = count[i]
  OBVIOUS
<1>2. h \in Seq(1 .. n) /\ n \in Nat /\ l \in Nat /\ l <= Len(h)
  BY <1>1 DEF KeepsOwn
<1>3. \A j \in 1 .. l : b + h[j] \in Nat
  BY <1>2
<1>4. PICK x : x = [j \in 1 .. l |-> b + h[j]]
  OBVIOUS
<1>5. x \in Seq(Nat) /\ Len(x) = l /\ \A j \in 1 .. l : x[j] = b + h[j]
  BY <1>2, <1>3, <1>4
<1>6. Units(p, b, count, i) = x
  BY <1>1, <1>4 DEF Units
<1>7. QED
  BY <1>1, <1>5, <1>6

LEMMA UnitPlace ==
  ASSUME NEW a \in Nat, NEW b \in Nat, NEW i \in Nat, a + 1 = b + i, NEW g \in {2, 4}, NEW e, b + i + g - 1 \in 1 .. e
  PROVE  a + g \in Nat /\ a < a + g /\ a <= a + g /\ a + g = b + (i + g - 1) /\ a + g \in 1 .. e
<1>1. a + g = b + i + g - 1 /\ a + g = b + (i + g - 1) /\ a + g \in Nat /\ a < a + g /\ a <= a + g
  OBVIOUS
<1>2. QED
  BY <1>1

LEMMA StringTells ==
  ASSUME NEW p, NEW b, NEW base, NEW count, NEW t, NEW o, NEW s, NEW u, NEW m, NEW v, o # 0,
         p.type = "string", StringWritten(p, count), KeepsOwn(p), CutHere(p, count, b, t),
         Around(p, b, t), Stand(p, b, base, count, t, o, s), s.at < Len(t), Moves(t, s, u), Rewrites(t, s, m, v),
         DOMAIN m = 1 .. Len(t), NoNul(m), BufferRead(s), Telling(p, b, t, m, s)
  PROVE  \/ u.mode = "code" /\ GoesOnTelling(p, b, t, m, v, Len(p.kept), u.at) /\ u.at = b + Len(p.chars)
         \/ u.mode = "string" /\ GoesOnTelling(p, b, t, m, v, Len(u.buffer), u.at)
         \/ u.mode = "unfinished"
<1>0. PICK i \in Nat : i = o + 1
  BY DEF Stand
<1>1. PICK n, c, l, a, e : n = Len(p.chars) /\ c = p.chars[i] /\ l = count[i] /\ a = s.at /\ e = Len(t)
  OBVIOUS
<1>2. /\ b \in Nat /\ e \in Nat /\ n \in Nat \ {0} /\ o \in 0 .. n - 1 /\ a = b + o /\ a < e
      /\ DOMAIN p.chars = 1 .. n /\ t[a + 1] = c
      /\ b + o + 1 = e => Ahead(t, a, 1) = "end"
      /\ Inside(p, b, base, count, o, s)
  BY <1>0, <1>1, StandFacts
<1>3. a \in Nat /\ a + 1 = b + i /\ b <= a /\ i \in 1 .. n /\ b + i <= e /\ (b + i = e <=> b + o + 1 = e)
  BY <1>0, <1>2
<1>4. /\ s.mode = "string" /\ s.quote = p.chars[1] /\ i \in DOMAIN count /\ s.buffer = Units(p, b, count, i)
  BY <1>0, <1>2 DEF Inside, Units
<1>5. /\ n >= 2 /\ p.chars[1] \in Quotes /\ p.chars[n] = p.chars[1] /\ DOMAIN count \subseteq 2 .. n
      /\ n \in DOMAIN count /\ count[n] = Len(p.kept) /\ l \in 0 .. Len(p.kept)
      /\ i # n => UnitWritten(p, count, i)
  BY <1>1, <1>4 DEF StringWritten
<1>6. Len(p.kept) \in Nat
  BY <1>1, <1>2, WiderSeq DEF KeepsOwn
<1>7. l \in Nat /\ l <= Len(p.kept)
  BY <1>5, <1>6
<1>8. s.buffer \in Seq(Nat) /\ Len(s.buffer) = l /\ \A j \in 1 .. l : s.buffer[j] = b + p.kept[j]
  BY <1>1, <1>2, <1>4, <1>7, UnitsFacts
<1>9. Told(p, b, m, l) /\ Unread(t, m, a) /\ \A j \in 1 .. l : b + p.kept[j] \in 1 .. a
  <2>1. Told(p, b, m, l) /\ Unread(t, m, a)
    BY <1>1, <1>4, <1>8 DEF Telling
  <2>2. \A j \in 1 .. l : s.buffer[j] \in 1 .. a
    BY <1>1, <1>8 DEF BufferRead
  <2>3. QED
    BY <1>8, <2>1, <2>2
<1>10. StringStep(t, s, u)
  BY <1>4 DEF Moves, CodeModes
<1>11. CASE i = n
  <2>1. c = s.quote /\ c # "\\"
    BY <1>1, <1>4, <1>5, <1>11, QuotesAreNot
  <2>2. v = m
    BY <1>1, <1>2, <2>1, Unchanged_ DEF DecodesAt
  <2>3. u.mode = "code" /\ u.at = a + 1
    BY <1>1, <1>2, <1>10, <2>1 DEF StringStep
  <2>4. l = Len(p.kept) /\ a <= a + 1 /\ a + 1 \in Nat /\ u.at = b + n
    BY <1>1, <1>3, <1>5, <1>11, <2>3
  <2>5. GoesOnTelling(p, b, t, m, m, l, a + 1)
    BY <1>1, <1>2, <1>3, <1>9, <2>4, TellsOn
  <2>6. QED
    BY <1>1, <2>2, <2>3, <2>4, <2>5
<1>12. CASE i # n /\ c # "\\"
  <2>1. UnitLength(p, i) = 1
    BY <1>1, <1>12 DEF UnitLength
  <2>2. c # s.quote /\ p.kept[l + 1] = i /\ p.meant[l + 1] = c /\ i + 1 \in DOMAIN count /\ count[i + 1] = l + 1
        /\ c # "NUL"
    BY <1>1, <1>4, <1>5, <1>12, <2>1 DEF UnitWritten, UnitMeans
  <2>3. v = m
    BY <1>1, <1>2, <1>12, Unchanged_ DEF DecodesAt
  <2>4. GoesOn(s, u, "string")
    BY <1>1, <1>2, <1>10, <1>12, <2>2 DEF StringStep
  <2>5. u.mode = "string" /\ u.at = a + 1 /\ u.buffer = Append(s.buffer, a + 1)
    BY <1>1, <2>4 DEF GoesOn
  <2>6. Len(u.buffer) = l + 1
    BY <1>3, <1>8, <2>5
  <2>7. a + 1 \in 1 .. e /\ a < a + 1 /\ b + p.kept[l + 1] = a + 1
    BY <1>2, <1>3, <2>2
  <2>8. m[a + 1] = c
    BY <1>1, <1>2, <1>3, <1>9, <2>7 DEF Unread
  <2>9. OnlyThere(m, m, a + 1, c)
    BY <2>8 DEF OnlyThere
  <2>10. GoesOnTelling(p, b, t, m, m, l + 1, a + 1)
    BY <1>1, <1>2, <1>3, <1>7, <1>9, <2>2, <2>7, <2>9, TellsOneMore
  <2>11. QED
    BY <2>3, <2>5, <2>6, <2>10
<1>13. CASE i # n /\ c = "\\" /\ b + i = e
  <2>1. Ahead(t, a, 1) = "end" /\ Escaped(t, a) = 0 /\ c # s.quote
    BY <1>2, <1>3, <1>4, <1>5, <1>13, EscapeFacts, QuotesAreNot
  <2>2. u.mode = "unfinished"
    BY <1>1, <1>2, <1>10, <1>13, <2>1 DEF StringStep
  <2>3. QED
    BY <2>2
<1>14. CASE i # n /\ c = "\\" /\ b + i # e
  <2>1. b + i < Len(t)
    BY <1>1, <1>2, <1>3, <1>14
  <2>2. IsUnit(p, b, t, i, a)
    BY <1>1, <1>2, <1>3, <1>4, <1>14, <2>1, UnitRead
  <2>3. PICK f, g : f = Ahead(t, a, 1) /\ g = Escaped(t, a)
    OBVIOUS
  <2>4. /\ f = p.chars[i + 1] /\ g = UnitLength(p, i) /\ g \in {2, 4} /\ (g = 2 <=> p.chars[i + 1] # "x")
        /\ f # "\n" => Means(t, a) = UnitMeans(p, i)
        /\ b + i + g - 1 \in 1 .. Len(t)
    BY <2>2, <2>3 DEF IsUnit
  <2>5. c # s.quote
    BY <1>4, <1>5, <1>14, QuotesAreNot
  <2>6. u.mode = "string" /\ u.at = a + g /\ u.buffer = IF f = "\n" THEN s.buffer ELSE Append(s.buffer, a + g)
    BY <1>1, <1>2, <1>10, <1>14, <2>3, <2>4, <2>5 DEF StringStep
  <2>7. a + g \in Nat /\ a < a + g /\ a <= a + g /\ a + g = b + (i + g - 1) /\ a + g \in 1 .. Len(t)
    <3>1. a \in Nat /\ b \in Nat /\ a + 1 = b + i
      BY <1>2, <1>3
    <3>2. g \in {2, 4} /\ b + i + g - 1 \in 1 .. e
      BY <1>1, <2>4
    <3>3. a + g \in Nat /\ a < a + g /\ a <= a + g /\ a + g = b + (i + g - 1) /\ a + g \in 1 .. e
      BY <3>1, <3>2, UnitPlace
    <3>4. QED
      BY <1>1, <3>3
  <2>8. CASE f = "\n"
    <3>1. v = m
      BY <1>1, <2>3, <2>8, Unchanged_ DEF DecodesAt
    <3>2. GoesOnTelling(p, b, t, m, m, l, a + g)
      BY <1>1, <1>2, <1>3, <1>9, <2>7, TellsOn
    <3>3. QED
      BY <1>8, <2>6, <2>8, <3>1, <3>2
  <2>9. CASE f # "\n"
    <3>1. DecodesAt(t, s)
      BY <1>1, <1>2, <1>4, <1>14, <2>3, <2>4, <2>9 DEF DecodesAt
    <3>2. OnlyThere(m, v, a + g, UnitMeans(p, i))
      <4>1. v = [m EXCEPT ![a + g] = UnitMeans(p, i)]
        BY <1>1, <2>3, <2>4, <2>9, <3>1 DEF Rewrites
      <4>2. QED
        BY <2>7, <4>1 DEF OnlyThere
    <3>3. p.kept[l + 1] = i + g - 1 /\ p.meant[l + 1] = UnitMeans(p, i) /\ UnitMeans(p, i) # "NUL"
      BY <1>1, <1>5, <1>14, <2>4, <2>9 DEF UnitWritten
    <3>4. b + p.kept[l + 1] = a + g
      BY <2>7, <3>3
    <3>5. GoesOnTelling(p, b, t, m, v, l + 1, a + g)
      BY <1>1, <1>2, <1>3, <1>7, <1>9, <2>7, <3>2, <3>3, <3>4, TellsOneMore
    <3>6. Len(u.buffer) = l + 1
      BY <1>8, <2>6, <2>7, <2>9
    <3>7. QED
      BY <2>6, <3>5, <3>6
  <2>10. QED
    BY <2>8, <2>9
<1>15. QED
  BY <1>11, <1>12, <1>13, <1>14

LEMMA NumberModes == \A p, o : NumberMode(p, o) \in {"number", "hex"}
BY DEF NumberMode

LEMMA InsideModes ==
  ASSUME NEW p, NEW b, NEW base, NEW count, NEW o, NEW s, Inside(p, b, base, count, o, s),
         p.type \in {"word", "number", "symbol", "string", "none"}
  PROVE  s.mode \in Reading /\ (s.mode = "string" <=> p.type = "string")
<1>1. CASE p.type = "word"
  BY <1>1 DEF Inside, Reading
<1>2. CASE p.type = "number"
  <2>1. s.mode \in {"code", "number", "hex"}
    BY <1>2, NumberModes DEF Inside
  <2>2. QED
    BY <1>2, <2>1 DEF Reading
<1>3. CASE p.type = "symbol"
  BY <1>3 DEF Inside, Reading
<1>4. CASE p.type = "string"
  BY <1>4 DEF Inside, Reading
<1>5. CASE p.type = "none"
  BY <1>5 DEF Inside, Reading
<1>6. QED
  BY <1>1, <1>2, <1>3, <1>4, <1>5

LEMMA StandModes ==
  ASSUME NEW p, NEW b, NEW base, NEW count, NEW t, NEW o, NEW s, Stand(p, b, base, count, t, o, s),
         p.type \in {"word", "number", "symbol", "string", "none"}
  PROVE  s.mode \in Reading /\ (s.mode = "string" <=> p.type = "string" /\ o # 0)
<1>1. CASE o = 0
  <2>1. s.mode \in CodeModes
    BY <1>1 DEF Stand, Ready
  <2>2. QED
    BY <1>1, <2>1 DEF CodeModes, Reading
<1>2. CASE o # 0 /\ Inside(p, b, base, count, o, s)
  BY <1>2, InsideModes
<1>3. CASE o # 0 /\ CutIn(p, t, s)
  BY <1>3 DEF CutIn, Reading
<1>4. QED
  BY <1>1, <1>2, <1>3 DEF Stand

LEMMA LayoutFacts ==
  ASSUME NEW P, NEW t, Layout(P, t), NEW k \in 1 .. Len(P)
  PROVE  /\ Len(P) \in Nat /\ Before(P, k) \in Nat /\ Before(P, k + 1) \in Nat /\ Len(t) \in Nat
         /\ Len(P[k].chars) \in Nat \ {0} /\ DOMAIN P[k].chars = 1 .. Len(P[k].chars)
         /\ Before(P, k + 1) = Before(P, k) + Len(P[k].chars) /\ k \in DOMAIN P
         /\ \A i \in 1 .. Len(P[k].chars) : Before(P, k) + i <= Len(t) => t[Before(P, k) + i] = P[k].chars[i]
         /\ Len(t) <= Before(P, Len(P) + 1)
<1>1. k + 1 \in 1 .. Len(P) + 1 /\ k \in 1 .. Len(P) + 1 /\ Len(P) \in Nat
  BY DEF Layout
<1>2. QED
  BY <1>1 DEF Layout

(* After a step in a piece, or behind it.                                  *)
PieceTold(p, b, base, count, t, m, v, u) ==
  /\ NoNul(v) /\ (\A q \in DOMAIN m : q <= b => v[q] = m[q])
  /\ u.at = b + Len(p.chars) /\ Behind(p, base \o PartsOf(p, b), u) => Tells(p, b, v) /\ Unread(t, v, u.at)
  /\ \A i : Inside(p, b, base, count, i, u) \/ CutIn(p, t, u) => Telling(p, b, t, v, u)

LEMMA OwnTells ==
  ASSUME NEW p, NEW counts, PieceWritten(p, counts), p.type # "string", NEW b, NEW t, Around(p, b, t),
         NEW m, Unread(t, m, b), b + Len(p.chars) <= Len(t)
  PROVE  Tells(p, b, m)
<1>1. CASE p.type = "none"
  <2>1. p.kept = <<>>
    BY <1>1 DEF PieceWritten
  <2>2. QED
    BY <2>1 DEF Tells
<1>2. CASE p.type # "none"
  <2>1. p.kept = [k \in DOMAIN p.chars |-> k] /\ p.meant = p.chars
    BY <1>2 DEF PieceWritten, KeepsAll
  <2>2. PICK n, l : n = Len(p.chars) /\ l = Len(t)
    OBVIOUS
  <2>3. /\ b \in Nat /\ l \in Nat /\ n \in Nat /\ DOMAIN p.chars = 1 .. n /\ b + n <= l
        /\ \A i \in 1 .. n : b + i <= l => t[b + i] = p.chars[i]
    BY <2>2 DEF Around
  <2>4. ASSUME NEW j \in 1 .. n PROVE m[b + j] = p.chars[j]
    <3>1. b + j \in 1 .. l /\ b + j > b /\ b + j <= l
      BY <2>3
    <3>2. QED
      BY <2>2, <2>3, <3>1 DEF Unread
  <2>5. DOMAIN p.kept = 1 .. n /\ \A j \in 1 .. n : p.kept[j] = j
    BY <2>1, <2>3
  <2>6. QED
    BY <2>1, <2>4, <2>5 DEF Tells
<1>3. QED
  BY <1>1, <1>2

LEMMA OpensString ==
  ASSUME NEW p, NEW b, NEW base, NEW count, NEW t, NEW s, NEW u,
         p.type = "string", StringWritten(p, count), Around(p, b, t), Stand(p, b, base, count, t, 0, s),
         s.at < Len(t), Moves(t, s, u)
  PROVE  u.mode = "string" /\ u.buffer = <<>> /\ u.at = b + 1
<1>1. /\ b \in Nat /\ Len(p.chars) \in Nat \ {0} /\ s.at = b /\ t[s.at + 1] = p.chars[1]
      /\ Ready(s, p.chars[1], base)
  BY StandFacts
<1>2. CodeStep(t, s, u)
  BY <1>1 DEF Moves, Ready, CodeModes
<1>3. p.chars[1] \in Quotes
  BY DEF StringWritten
<1>4. QED
  BY <1>1, <1>2, <1>3, OnQuote DEF Leaves

LEMMA PieceTells ==
  ASSUME NEW p, NEW counts, PieceWritten(p, counts), NEW b, NEW base, NEW count, count = counts[p], NEW t, NEW o, NEW s,
         NEW u, NEW m, NEW v, CutHere(p, count, b, t), Around(p, b, t), Stand(p, b, base, count, t, o, s), s.at < Len(t),
         Moves(t, s, u), Rewrites(t, s, m, v), DOMAIN m = 1 .. Len(t), NoNul(m), BufferRead(s), Telling(p, b, t, m, s),
         u.mode # "unfinished", u.at <= Len(t)
  PROVE  PieceTold(p, b, base, count, t, m, v, u)
<1>1. p.type \in {"word", "number", "symbol", "string", "none"} /\ KeepsOwn(p)
  BY DEF PieceWritten, KeepsOwn
<1>2. s.mode = "string" <=> p.type = "string" /\ o # 0
  BY <1>1, StandModes
<1>3. \A i : Inside(p, b, base, count, i, u) \/ CutIn(p, t, u) => (u.mode = "string" <=> p.type = "string")
  <2>1. CutIn(p, t, u) => u.mode = "code" /\ p.type # "string"
    BY DEF CutIn
  <2>2. QED
    BY <1>1, <2>1, InsideModes
<1>4. Behind(p, base \o PartsOf(p, b), u) => u.mode \in CodeModes
  BY DEF Behind
<1>5. CASE p.type # "string"
  <2>1. v = m /\ Unread(t, m, b)
    BY <1>2, <1>5, Unescaped, Unchanged_ DEF Telling
  <2>2. ASSUME u.at = b + Len(p.chars) PROVE Tells(p, b, v) /\ Unread(t, v, u.at)
    <3>1. Tells(p, b, m)
      BY <1>5, <2>1, <2>2, OwnTells
    <3>2. b \in Nat /\ Len(p.chars) \in Nat /\ Len(t) \in Nat
      BY DEF Around
    <3>3. Unread(t, m, u.at)
      BY <2>1, <2>2, <3>2 DEF Unread
    <3>4. QED
      BY <2>1, <3>1, <3>3
  <2>3. \A i : Inside(p, b, base, count, i, u) \/ CutIn(p, t, u) => Telling(p, b, t, v, u)
    BY <1>3, <1>5, <2>1 DEF Telling
  <2>4. QED
    BY <2>1, <2>2, <2>3 DEF PieceTold
<1>6. CASE p.type = "string" /\ o = 0
  <2>1. v = m /\ Unread(t, m, b)
    BY <1>2, <1>6, Unescaped, Unchanged_ DEF Telling
  <2>2. u.mode = "string" /\ u.buffer = <<>> /\ u.at = b + 1
    BY <1>6, OpensString DEF PieceWritten
  <2>3. b \in Nat /\ Len(t) \in Nat
    BY DEF Around
  <2>4. Unread(t, m, u.at)
    BY <2>1, <2>2, <2>3 DEF Unread
  <2>5. Told(p, b, m, Len(u.buffer))
    BY <2>2 DEF Told
  <2>6. ~Behind(p, base \o PartsOf(p, b), u)
    BY <1>4, <2>2 DEF CodeModes
  <2>7. QED
    BY <2>1, <2>2, <2>4, <2>5, <2>6 DEF PieceTold, Telling
<1>7. CASE p.type = "string" /\ o # 0
  <2>1. StringWritten(p, count)
    BY <1>7 DEF PieceWritten
  <2>2. \/ u.mode = "code" /\ GoesOnTelling(p, b, t, m, v, Len(p.kept), u.at)
        \/ u.mode = "string" /\ GoesOnTelling(p, b, t, m, v, Len(u.buffer), u.at)
    BY <1>1, <1>7, <2>1, StringTells
  <2>3. DOMAIN p.kept = 1 .. Len(p.kept)
    BY DEF KeepsOwn, PieceWritten
  <2>4. CASE u.mode = "code" /\ GoesOnTelling(p, b, t, m, v, Len(p.kept), u.at)
    <3>1. Tells(p, b, v) /\ Unread(t, v, u.at) /\ NoNul(v) /\ (\A q \in DOMAIN m : q <= b => v[q] = m[q])
      BY <2>3, <2>4 DEF GoesOnTelling, Told, Tells
    <3>2. QED
      BY <1>3, <1>7, <2>4, <3>1 DEF PieceTold
  <2>5. CASE u.mode = "string" /\ GoesOnTelling(p, b, t, m, v, Len(u.buffer), u.at)
    <3>1. /\ Told(p, b, v, Len(u.buffer)) /\ Unread(t, v, u.at) /\ NoNul(v)
          /\ \A q \in DOMAIN m : q <= b => v[q] = m[q]
      BY <2>5 DEF GoesOnTelling
    <3>2. ~Behind(p, base \o PartsOf(p, b), u)
      BY <1>4, <2>5 DEF CodeModes
    <3>3. QED
      BY <2>5, <3>1, <3>2 DEF PieceTold, Telling
  <2>6. QED
    BY <2>2, <2>4, <2>5
<1>8. QED
  BY <1>5, <1>6, <1>7

(* What is before a place is told already.                                 *)
LEMMA PiecesRise ==
  ASSUME NEW P, NEW counts, WellWritten(P, counts), NEW h \in 1 .. Len(P), NEW k \in h + 1 .. Len(P) + 1
  PROVE  Before(P, h + 1) <= Before(P, k)
<1>1. PICK S, C : S = Letters(P) /\ C = Chars(P)
  OBVIOUS
<1>2. C \in Seq(Seq(S)) /\ Len(C) = Len(P) /\ Len(P) \in Nat
  BY <1>1, CharsOf
<1>3. Laid(S, C)
  BY <1>2, FlattenLaid
<1>4. h + 1 \in 1 .. Len(C) + 1 /\ k \in h + 1 .. Len(C) + 1
  BY <1>2
<1>5. Off(C, h + 1) <= Off(C, k)
  BY <1>2, <1>3, <1>4, OffRises
<1>6. QED
  BY <1>1, <1>5, BeforeIsOff

LEMMA ToldStays ==
  ASSUME NEW P, NEW counts, WellWritten(P, counts), NEW t, Layout(P, t), NEW k \in 1 .. Len(P) + 1, Before(P, k) <= Len(t),
         NEW m, DOMAIN m = 1 .. Len(t), NEW v, \A q \in DOMAIN m : q <= Before(P, k) => v[q] = m[q],
         NEW h \in 1 .. k - 1, Tells(P[h], Before(P, h), m)
  PROVE  Tells(P[h], Before(P, h), v)
<1>1. Len(P) \in Nat /\ Before(P, k) \in Nat /\ Len(t) \in Nat
  BY DEF Layout
<1>2. h \in 1 .. Len(P) /\ k \in h + 1 .. Len(P) + 1
  BY <1>1
<1>3. Before(P, h + 1) <= Before(P, k)
  BY <1>2, PiecesRise
<1>4. /\ h \in DOMAIN P /\ Before(P, h) \in Nat /\ Before(P, h + 1) = Before(P, h) + Len(P[h].chars)
      /\ Len(P[h].chars) \in Nat
  BY <1>2, LayoutFacts
<1>5. P[h].kept \in Seq(1 .. Len(P[h].chars))
  BY <1>4 DEF WellWritten, PieceWritten
<1>6. ASSUME NEW j \in DOMAIN P[h].kept PROVE v[Before(P, h) + P[h].kept[j]] = P[h].meant[j]
  <2>1. P[h].kept[j] \in 1 .. Len(P[h].chars)
    BY <1>5
  <2>2. PICK q : q = Before(P, h) + P[h].kept[j]
    OBVIOUS
  <2>3. q \in 1 .. Len(t) /\ q <= Before(P, k)
    BY <1>1, <1>3, <1>4, <2>1, <2>2
  <2>4. m[q] = P[h].meant[j]
    BY <2>2 DEF Tells
  <2>5. QED
    BY <2>2, <2>3, <2>4
<1>7. QED
  BY <1>6 DEF Tells

(* Standing at a character of a piece, or behind all of them.              *)
StandAt(P, counts, t, s, k, o) ==
  /\ k \in 1 .. Len(P) + 1
  /\ k <= Len(P) => Stand(P[k], Before(P, k), Sofar(P, k), counts[P[k]], t, o, s)
  /\ k = Len(P) + 1 => o = 0 /\ s.at = Before(P, k) /\ s.mode \in CodeModes /\ SavedIn(s) = Sofar(P, k)

Stands(P, counts, t, m, s) ==
  /\ DOMAIN m = 1 .. Len(t) /\ NoNul(m) /\ BufferRead(s)
  /\ \E k, o : StandAt(P, counts, t, s, k, o) /\ TellAt(P, t, m, s, k)

(* The text ends inside a string. *)
EndsInString(P, t) ==
  \E k \in DOMAIN P : P[k].type = "string" /\ Len(t) \in Before(P, k) + 1 .. Before(P, k) + Len(P[k].chars) - 1

Uncoded(P, counts, t) == \A k \in DOMAIN P : CutHere(P[k], counts[P[k]], Before(P, k), t)

LEMMA BehindReady ==
  ASSUME NEW p, NEW all, NEW s, NEW c, Behind(p, all, s), Apart(p, c)
  PROVE  Ready(s, c, all)
BY DEF Behind, Apart, Ready, CodeModes

LEMMA AroundPiece ==
  ASSUME NEW P, NEW counts, NEW t, WellWritten(P, counts), Layout(P, t), NEW k \in 1 .. Len(P)
  PROVE  Around(P[k], Before(P, k), t)
<1>1. PICK p, b, n : p = P[k] /\ b = Before(P, k) /\ n = Len(p.chars)
  OBVIOUS
<1>2. /\ b \in Nat /\ Len(t) \in Nat /\ n \in Nat \ {0} /\ DOMAIN p.chars = 1 .. n /\ Before(P, k + 1) = b + n
      /\ \A i \in 1 .. n : b + i <= Len(t) => t[b + i] = p.chars[i]
      /\ Len(P) \in Nat /\ Len(t) <= Before(P, Len(P) + 1)
  BY <1>1, LayoutFacts
<1>3. ASSUME b + n < Len(t) PROVE Apart(p, t[b + n + 1])
  <2>1. k # Len(P)
    <3>1. SUFFICES ASSUME k = Len(P) PROVE FALSE
      OBVIOUS
    <3>2. Before(P, Len(P) + 1) = b + n
      BY <1>2, <3>1
    <3>3. QED
      BY <1>2, <1>3, <3>2
  <2>2. k + 1 \in 1 .. Len(P) /\ k \in 1 .. Len(P) - 1
    BY <1>2, <2>1
  <2>3. /\ Before(P, k + 1) \in Nat /\ Len(P[k + 1].chars) \in Nat \ {0}
        /\ \A i \in 1 .. Len(P[k + 1].chars) : Before(P, k + 1) + i <= Len(t) => t[Before(P, k + 1) + i] = P[k + 1].chars[i]
    BY <2>2, LayoutFacts
  <2>4. 1 \in 1 .. Len(P[k + 1].chars)
    BY <2>3
  <2>5. t[(b + n) + 1] = P[k + 1].chars[1]
    BY <1>2, <1>3, <2>3, <2>4
  <2>6. Apart(p, P[k + 1].chars[1])
    BY <1>1, <2>2 DEF WellWritten
  <2>7. b + n + 1 = (b + n) + 1
    BY <1>2
  <2>8. QED
    BY <2>5, <2>6, <2>7
<1>4. QED
  BY <1>1, <1>2, <1>3 DEF Around

LEMMA StandsOn ==
  ASSUME NEW P, NEW counts, NEW t, NEW s, NEW u, WellWritten(P, counts), Layout(P, t), Uncoded(P, counts, t),
         NEW m, NEW v, Stands(P, counts, t, m, s), s.at < Len(t), Moves(t, s, u), Rewrites(t, s, m, v),
         DOMAIN v = DOMAIN m, u.mode # "beyond" => BufferRead(u) /\ u.at <= Len(t)
  PROVE  u.mode = "beyond" \/ (u.mode = "unfinished" /\ EndsInString(P, t)) \/ Stands(P, counts, t, v, u)
<1>0. DOMAIN m = 1 .. Len(t) /\ NoNul(m) /\ BufferRead(s)
  BY DEF Stands
<1>1. PICK k : \E o : StandAt(P, counts, t, s, k, o) /\ TellAt(P, t, m, s, k)
  BY DEF Stands
<1>2. PICK o : StandAt(P, counts, t, s, k, o) /\ TellAt(P, t, m, s, k)
  BY <1>1
<1>3. Len(P) \in Nat /\ Len(t) \in Nat /\ Len(t) <= Before(P, Len(P) + 1) /\ Before(P, Len(P) + 1) \in Nat
  <2>1. Len(P) \in Nat
    BY DEF Layout
  <2>2. Len(P) + 1 \in 1 .. Len(P) + 1
    BY <2>1
  <2>3. QED
    BY <2>1, <2>2 DEF Layout
<1>4. k \in 1 .. Len(P)
  <2>1. k \in 1 .. Len(P) + 1 /\ (k = Len(P) + 1 => s.at = Before(P, Len(P) + 1))
    BY <1>2 DEF StandAt
  <2>2. k # Len(P) + 1
    <3>1. SUFFICES ASSUME k = Len(P) + 1 PROVE FALSE
      OBVIOUS
    <3>2. QED
      BY <1>3, <2>1, <3>1
  <2>3. QED
    BY <1>3, <2>1, <2>2
<1>5. PICK p, b, base, count, n : /\ p = P[k] /\ b = Before(P, k) /\ base = Sofar(P, k) /\ count = counts[p]
                                  /\ n = Len(p.chars)
  OBVIOUS
<1>6. Stand(p, b, base, count, t, o, s)
  <2>1. k <= Len(P)
    BY <1>3, <1>4
  <2>2. QED
    BY <1>2, <1>5, <2>1 DEF StandAt
<1>7. k \in DOMAIN P /\ b \in Nat /\ Before(P, k + 1) = b + n /\ n \in Nat \ {0}
  BY <1>4, <1>5, LayoutFacts
<1>8. PieceWritten(p, counts) /\ CutHere(p, count, b, t) /\ Around(p, b, t)
  BY <1>4, <1>5, <1>7, AroundPiece DEF WellWritten, Uncoded
<1>9. base \in Seq(AnyPart) /\ Sofar(P, k + 1) = base \o PartsOf(p, b)
  BY <1>4, <1>5, SofarGrows
<1>10. Onward(p, b, base, count, t, u)
  BY <1>5, <1>6, <1>8, <1>9, PieceStep
<1>15. u.mode \notin {"beyond", "unfinished"} => PieceTold(p, b, base, count, t, m, v, u)
  <2>1. Telling(p, b, t, m, s)
    BY <1>2, <1>3, <1>4, <1>5 DEF TellAt
  <2>2. QED
    BY <1>0, <1>5, <1>6, <1>8, <2>1, PieceTells
<1>16. ASSUME PieceTold(p, b, base, count, t, m, v, u)
       PROVE  NoNul(v) /\ \A h \in 1 .. k - 1 : Tells(P[h], Before(P, h), v)
  <2>1. k \in 1 .. Len(P) + 1 /\ Before(P, k) <= Len(t)
    BY <1>3, <1>4, <1>5, <1>6, <1>7 DEF Stand
  <2>2. NoNul(v) /\ \A q \in DOMAIN m : q <= Before(P, k) => v[q] = m[q]
    BY <1>5, <1>16 DEF PieceTold
  <2>3. \A h \in 1 .. k - 1 : Tells(P[h], Before(P, h), m)
    BY <1>2 DEF TellAt
  <2>4. \A h \in 1 .. k - 1 : Tells(P[h], Before(P, h), v)
    BY <1>0, <2>1, <2>2, <2>3, ToldStays
  <2>5. QED
    BY <2>2, <2>4
<1>17. ASSUME PieceTold(p, b, base, count, t, m, v, u), NEW j, NEW i, StandAt(P, counts, t, u, j, i), TellAt(P, t, v, u, j),
              u.mode # "beyond"
       PROVE  Stands(P, counts, t, v, u)
  BY <1>0, <1>16, <1>17 DEF Stands
<1>11. CASE u.at = b + n /\ Behind(p, base \o PartsOf(p, b), u)
  <2>0. PieceTold(p, b, base, count, t, m, v, u) /\ Tells(p, b, v) /\ Unread(t, v, u.at) /\ u.mode # "string"
    <3>1. u.mode \in CodeModes
      BY <1>11 DEF Behind
    <3>2. u.mode \notin {"beyond", "unfinished", "string"}
      BY <3>1 DEF CodeModes
    <3>3. QED
      BY <1>5, <1>11, <1>15, <3>2 DEF PieceTold
  <2>4. \A h \in 1 .. (k + 1) - 1 : Tells(P[h], Before(P, h), v)
    <3>1. \A h \in 1 .. k - 1 : Tells(P[h], Before(P, h), v)
      BY <1>16, <2>0
    <3>2. \A h \in 1 .. (k + 1) - 1 : h \in 1 .. k - 1 \/ h = k
      BY <1>3, <1>4
    <3>3. Tells(P[k], Before(P, k), v)
      BY <1>5, <2>0
    <3>4. QED
      BY <3>1, <3>2, <3>3
  <2>1. CASE k = Len(P)
    <3>1. Behind(p, Sofar(P, k + 1), u) /\ u.at = Before(P, k + 1)
      BY <1>7, <1>9, <1>11
    <3>2. k + 1 = Len(P) + 1 /\ ~(k + 1 <= Len(P)) /\ k + 1 \in 1 .. Len(P) + 1
      BY <1>3, <1>4, <2>1
    <3>3. u.mode \in CodeModes /\ SavedIn(u) = Sofar(P, k + 1)
      BY <3>1 DEF Behind
    <3>4. StandAt(P, counts, t, u, k + 1, 0)
      BY <3>1, <3>2, <3>3 DEF StandAt
    <3>5. TellAt(P, t, v, u, k + 1)
      BY <2>4, <3>2 DEF TellAt
    <3>6. QED
      BY <1>17, <2>0, <3>4, <3>5
  <2>2. CASE k # Len(P)
    <3>1. k + 1 \in 1 .. Len(P) /\ k \in 1 .. Len(P) - 1 /\ k + 1 # Len(P) + 1 /\ k + 1 \in 1 .. Len(P) + 1
      BY <1>3, <1>4, <2>2
    <3>2. PICK q : q = P[k + 1]
      OBVIOUS
    <3>3. Apart(p, q.chars[1])
      BY <1>5, <3>1, <3>2 DEF WellWritten
    <3>4. Ready(u, q.chars[1], Sofar(P, k + 1))
      BY <1>9, <1>11, <3>3, BehindReady
    <3>5. Before(P, k + 1) \in Nat /\ Len(q.chars) \in Nat \ {0}
      BY <3>1, <3>2, LayoutFacts
    <3>6. u.at = Before(P, k + 1) + 0 /\ 0 \in Nat /\ 0 < Len(q.chars)
      BY <1>7, <1>11, <3>5
    <3>7. Stand(q, Before(P, k + 1), Sofar(P, k + 1), counts[q], t, 0, u)
      BY <3>4, <3>6 DEF Stand
    <3>8. StandAt(P, counts, t, u, k + 1, 0)
      BY <3>1, <3>2, <3>7 DEF StandAt
    <3>9. Telling(P[k + 1], Before(P, k + 1), t, v, u)
      BY <1>7, <1>11, <2>0 DEF Telling
    <3>10. TellAt(P, t, v, u, k + 1)
      BY <2>4, <3>9 DEF TellAt
    <3>11. QED
      BY <1>17, <2>0, <3>8, <3>10
  <2>3. QED
    BY <2>1, <2>2
<1>12. ASSUME NEW i \in 1 .. n - 1, u.at = b + i, Inside(p, b, base, count, i, u) \/ CutIn(p, t, u)
       PROVE  Stands(P, counts, t, v, u)
  <2>1. i \in Nat /\ i < n /\ i # 0
    BY <1>7
  <2>2. Stand(p, b, base, count, t, i, u)
    BY <1>5, <1>12, <2>1 DEF Stand
  <2>3. k \in 1 .. Len(P) + 1 /\ k # Len(P) + 1
    BY <1>3, <1>4
  <2>4. StandAt(P, counts, t, u, k, i)
    BY <1>5, <2>2, <2>3 DEF StandAt
  <2>5. PieceTold(p, b, base, count, t, m, v, u)
    <3>1. u.mode \in Reading
      <4>1. p.type \in {"word", "number", "symbol", "string", "none"}
        BY <1>8 DEF PieceWritten
      <4>2. CASE Inside(p, b, base, count, i, u)
        BY <4>1, <4>2, InsideModes
      <4>3. CASE CutIn(p, t, u)
        BY <4>3 DEF CutIn, Reading
      <4>4. QED
        BY <1>12, <4>2, <4>3
    <3>2. u.mode \notin {"beyond", "unfinished"}
      BY <3>1 DEF Reading
    <3>3. QED
      BY <1>15, <3>2
  <2>6. Telling(p, b, t, v, u)
    BY <1>12, <2>5 DEF PieceTold
  <2>7. TellAt(P, t, v, u, k)
    BY <1>5, <1>16, <2>5, <2>6 DEF TellAt
  <2>8. u.mode # "beyond"
    <3>1. CASE Inside(p, b, base, count, i, u)
      BY <1>8, <3>1, InsideModes DEF PieceWritten, Reading
    <3>2. CASE CutIn(p, t, u)
      BY <3>2 DEF CutIn
    <3>3. QED
      BY <1>12, <3>1, <3>2
  <2>9. QED
    BY <1>17, <2>4, <2>5, <2>7, <2>8
<1>13. ASSUME p.type = "string", Len(t) \in b + 1 .. b + n - 1 PROVE EndsInString(P, t)
  BY <1>5, <1>7, <1>13 DEF EndsInString
<1>14. QED
  BY <1>5, <1>10, <1>11, <1>12, <1>13 DEF Onward

(***************************************************************************)
(* The end of the text.                                                    *)
(***************************************************************************)
LEMMA StandsReading ==
  ASSUME NEW P, NEW counts, NEW t, NEW m, NEW s, WellWritten(P, counts), Layout(P, t), Stands(P, counts, t, m, s)
  PROVE  s.mode \in Reading
<1>1. PICK k : \E o : StandAt(P, counts, t, s, k, o)
  BY DEF Stands
<1>2. PICK o : StandAt(P, counts, t, s, k, o)
  BY <1>1
<1>3. Len(P) \in Nat /\ DOMAIN P = 1 .. Len(P)
  BY DEF Layout
<1>4. CASE k = Len(P) + 1
  <2>1. s.mode \in CodeModes
    BY <1>2, <1>4 DEF StandAt
  <2>2. QED
    BY <2>1 DEF CodeModes, Reading
<1>5. CASE k # Len(P) + 1
  <2>1. k \in DOMAIN P /\ k <= Len(P)
    BY <1>2, <1>3, <1>5 DEF StandAt
  <2>2. P[k].type \in {"word", "number", "symbol", "string", "none"}
    BY <2>1 DEF WellWritten, PieceWritten
  <2>3. QED
    BY <1>2, <2>1, <2>2, StandModes DEF StandAt
<1>6. QED
  BY <1>4, <1>5

AllTold(P, m) == \A h \in 1 .. Len(P) : Tells(P[h], Before(P, h), m)

LEMMA AtTheEnd ==
  ASSUME NEW P, NEW counts, NEW t, NEW m, NEW s, WellWritten(P, counts), Layout(P, t), Stands(P, counts, t, m, s),
         s.at = Len(t)
  PROVE  /\ s.mode = "string" <=> EndsInString(P, t)
         /\ Len(t) = Before(P, Len(P) + 1) => SavedIn(s) = Sofar(P, Len(P) + 1) /\ AllTold(P, m)
<1>1. PICK k : \E o : StandAt(P, counts, t, s, k, o) /\ TellAt(P, t, m, s, k)
  BY DEF Stands
<1>2. PICK o : StandAt(P, counts, t, s, k, o) /\ TellAt(P, t, m, s, k)
  BY <1>1
<1>3. Len(P) \in Nat /\ DOMAIN P = 1 .. Len(P) /\ Len(t) \in Nat
  BY DEF Layout
<1>4. k \in 1 .. Len(P) + 1
  BY <1>2 DEF StandAt
<1>5. CASE k = Len(P) + 1
  <2>1. s.mode \in CodeModes /\ SavedIn(s) = Sofar(P, k) /\ Len(t) = Before(P, k)
    BY <1>2, <1>5 DEF StandAt
  <2>2. s.mode # "string"
    BY <2>1 DEF CodeModes
  <2>3. ASSUME EndsInString(P, t) PROVE FALSE
    <3>1. PICK j \in DOMAIN P : Len(t) \in Before(P, j) + 1 .. Before(P, j) + Len(P[j].chars) - 1
      BY <2>3 DEF EndsInString
    <3>2. j \in 1 .. Len(P) /\ Before(P, j) \in Nat /\ Len(P[j].chars) \in Nat
      BY <1>3, LayoutFacts
    <3>3. PICK h \in Nat : Len(t) = Before(P, j) + h /\ h < Len(P[j].chars)
      <4>1. Len(t) - Before(P, j) \in Nat /\ Len(t) = Before(P, j) + (Len(t) - Before(P, j))
            /\ Len(t) - Before(P, j) < Len(P[j].chars)
        BY <1>3, <3>1, <3>2
      <4>2. QED
        BY <4>1
    <3>4. Before(P, j) + h = Before(P, k) + 0 /\ 0 \in Nat /\ ~(k <= Len(P)) /\ Before(P, k) \in Nat
      <4>1. Before(P, k) \in Nat
        BY <1>4 DEF Layout
      <4>2. QED
        BY <1>3, <1>5, <2>1, <3>3, <4>1
    <3>5. j = k
      BY <1>4, <3>2, <3>3, <3>4, OneStand
    <3>6. QED
      BY <1>3, <1>5, <3>2, <3>5
  <2>4. AllTold(P, m)
    <3>1. \A h \in 1 .. k - 1 : Tells(P[h], Before(P, h), m)
      BY <1>2 DEF TellAt
    <3>2. \A h \in 1 .. Len(P) : h \in 1 .. k - 1
      BY <1>3, <1>5
    <3>3. QED
      BY <3>1, <3>2 DEF AllTold
  <2>5. QED
    BY <1>5, <2>1, <2>2, <2>3, <2>4
<1>6. CASE k # Len(P) + 1
  <2>1. k \in 1 .. Len(P) /\ k <= Len(P) /\ k \in DOMAIN P
    BY <1>3, <1>4, <1>6
  <2>2. PICK p, b, n : p = P[k] /\ b = Before(P, k) /\ n = Len(p.chars)
    OBVIOUS
  <2>3. Stand(p, b, Sofar(P, k), counts[p], t, o, s)
    BY <1>2, <2>1, <2>2 DEF StandAt
  <2>4. p.type \in {"word", "number", "symbol", "string", "none"}
    BY <2>1, <2>2 DEF WellWritten, PieceWritten
  <2>5. s.mode = "string" <=> p.type = "string" /\ o # 0
    BY <2>3, <2>4, StandModes
  <2>6. b \in Nat /\ n \in Nat /\ o \in Nat /\ o < n /\ Len(t) = b + o
    <3>1. o \in Nat /\ o < n /\ s.at = b + o
      BY <2>2, <2>3 DEF Stand
    <3>2. b \in Nat /\ n \in Nat
      BY <2>1, <2>2, LayoutFacts
    <3>3. QED
      BY <3>1, <3>2
  <2>7. ASSUME p.type = "string", o # 0 PROVE EndsInString(P, t)
    <3>1. Len(t) \in b + 1 .. b + n - 1
      BY <2>6, <2>7
    <3>2. QED
      BY <2>1, <2>2, <2>7, <3>1 DEF EndsInString
  <2>8. ASSUME EndsInString(P, t) PROVE p.type = "string" /\ o # 0
    <3>1. PICK j \in DOMAIN P : P[j].type = "string" /\ Len(t) \in Before(P, j) + 1 .. Before(P, j) + Len(P[j].chars) - 1
      BY <2>8 DEF EndsInString
    <3>2. j \in 1 .. Len(P) /\ Before(P, j) \in Nat /\ Len(P[j].chars) \in Nat
      BY <1>3, LayoutFacts
    <3>3. PICK h \in Nat : Len(t) = Before(P, j) + h /\ h < Len(P[j].chars) /\ h # 0
      <4>1. Len(t) - Before(P, j) \in Nat /\ Len(t) = Before(P, j) + (Len(t) - Before(P, j))
            /\ Len(t) - Before(P, j) < Len(P[j].chars) /\ Len(t) - Before(P, j) # 0
        BY <1>3, <3>1, <3>2
      <4>2. QED
        BY <4>1
    <3>4. Before(P, j) + h = Before(P, k) + o /\ o \in Nat /\ o < Len(P[k].chars)
      BY <2>2, <2>6, <3>3
    <3>5. k > Len(P) => o = 0
      BY <1>3, <2>1
    <3>6. j = k /\ h = o
      BY <1>4, <3>2, <3>3, <3>4, <3>5, OneStand
    <3>7. QED
      BY <2>2, <3>1, <3>3, <3>6
  <2>9. ASSUME Len(t) = Before(P, Len(P) + 1) PROVE FALSE
    <3>1. PICK z : z = Len(P) + 1
      OBVIOUS
    <3>2. z \in 1 .. Len(P) + 1 /\ ~(z <= Len(P)) /\ 0 \in Nat
      BY <1>3, <3>1
    <3>3. Before(P, z) \in Nat
      BY <3>2 DEF Layout
    <3>4. Before(P, k) + o = Before(P, z) + 0 /\ o \in Nat /\ o < Len(P[k].chars)
      BY <2>2, <2>6, <2>9, <3>1, <3>3
    <3>5. k = z
      BY <2>1, <3>2, <3>4, OneStand
    <3>6. QED
      BY <1>3, <2>1, <3>1, <3>5
  <2>10. QED
    BY <2>5, <2>7, <2>8, <2>9
<1>7. QED
  BY <1>5, <1>6

(***************************************************************************)
(* The lexer stands somewhere in what is written until the text ends, and  *)
(* then the parts of all the pieces are read.                              *)
(***************************************************************************)
Well(s, counts) == WellWritten(s.pieces, counts) /\ WellCut(s, counts)

Fits(counts) ==
  /\ WellWritten(script.pieces, counts) /\ Layout(script.pieces, text) /\ Uncoded(script.pieces, counts, text)
  /\ script.length = Len(text)

AllRead ==
  Len(text) = Before(script.pieces, Len(script.pieces) + 1) =>
    Shown(pre) = Sofar(script.pieces, Len(script.pieces) + 1) /\ AllTold(script.pieces, meant)

RInv(counts) ==
  /\ Fits(counts)
  /\ mode \in Reading => Stands(script.pieces, counts, text, meant, Now)
  /\ mode # "wrong"
  /\ mode = "unfinished" => EndsInString(script.pieces, text)
  /\ mode \in {"join", "done"} => ~EndsInString(script.pieces, text) /\ AllRead

LEMMA SourceStays ==
  ASSUME Typed, [Next]_vars
  PROVE  script' = script /\ text' = text
<1>1. CASE UNCHANGED vars
  BY <1>1 DEF vars, source
<1>2. CASE ReadStep
  BY <1>2 DEF ReadStep, Keep, Symbol, ReadSingle, ReadPair, ReadSlash, SkipLineNote, SkipNote, ReadDigit, ReadLetter,
    ReadBlank, OpenString, CloseString, ReadInString, Escape, EndText, source
<1>3. CASE JoinNumber \/ JoinPoint \/ JoinOther
  <2>1. JoinForms
    BY <1>3, JoinsInForms
  <2>2. QED
    BY <2>1 DEF JoinForms, Join, source
<1>4. CASE Take \/ LetGo \/ JoinOperator \/ EndJoin
  BY <1>4 DEF Take, LetGo, JoinOperator, EndJoin, Hold, source
<1>5. QED
  BY <1>1, <1>2, <1>3, <1>4 DEF Next, ReadStep, Stopped

LEMMA ReadingStep ==
  ASSUME ReadStep, Len(text) \in Nat, Typed
  PROVE  mode \in Reading /\ (at < Len(text) \/ at = Len(text))
BY DEF ReadStep, ReadSingle, ReadPair, ReadSlash, SkipLineNote, SkipNote, ReadDigit, ReadLetter,
    ReadBlank, OpenString, CloseString, ReadInString, Escape, EndText, InCode, InString, Reads, Reading

LEMMA ReadMoves ==
  ASSUME Typed, Clean, ReadStep, at < Len(text), mode \in Reading
  PROVE  Moves(text, Now, Now')
<1>1. Now.mode = mode
  BY DEF Now
<1>2. CASE mode \in CodeModes
  <2>1. CodeStep(text, Now, Now')
    BY <1>2, ShowsCode
  <2>2. QED
    BY <1>1, <1>2, <2>1 DEF Moves, CodeModes
<1>3. CASE mode = "string"
  BY <1>1, <1>3, ShowsString DEF Moves, CodeModes
<1>4. CASE mode \in {"line note", "note"}
  BY <1>1, <1>4, ShowsNotes DEF Moves, CodeModes
<1>5. QED
  BY <1>2, <1>3, <1>4 DEF Reading, CodeModes

(* Without a NUL, nothing in the buffer is hidden.                          *)
LEMMA UpToNulAll ==
  ASSUME NEW l \in Nat, DOMAIN meant = 1 .. l, NoNul(meant), NEW b \in Seq(1 .. l)
  PROVE  UpToNul(b) = b
<1>1. PICK n, I : n = Len(b) /\ I = {i \in DOMAIN b : \A k \in 1 .. i : meant[b[k]] # "NUL"}
  OBVIOUS
<1>2. n \in Nat /\ DOMAIN b = 1 .. n /\ \A k \in 1 .. n : b[k] \in 1 .. l
  BY <1>1
<1>3. \A k \in 1 .. n : meant[b[k]] # "NUL"
  BY <1>2 DEF NoNul
<1>4. I = 1 .. n
  <2>1. \A i \in 1 .. n : \A k \in 1 .. i : k \in 1 .. n
    BY <1>2
  <2>2. QED
    BY <1>1, <1>2, <1>3, <2>1
<1>5. Cardinality(I) = n
  BY <1>2, <1>4, FS_Interval
<1>6. UpToNul(b) = SubSeq(b, 1, n)
  BY <1>1, <1>5 DEF UpToNul
<1>7. SubSeq(b, 1, n) = b
  BY <1>1, SMTT(30)
<1>8. QED
  BY <1>6, <1>7

LEMMA IsClean ==
  ASSUME Typed, TInv, mode \in Reading, DOMAIN meant = 1 .. Len(text), NoNul(meant)
  PROVE  Clean
<1>1. PICK l, a : l = Len(text) /\ a = at
  OBVIOUS
<1>2. l \in Nat /\ a \in 0 .. l /\ buffer \in Seq(1 .. a) /\ (mode \in {"number", "hex"} => buffer # <<>>)
  BY <1>1, WithinFacts
<1>3. buffer \in Seq(1 .. l)
  BY <1>2, Longer
<1>4. UpToNul(buffer) = buffer
  BY <1>1, <1>2, <1>3, UpToNulAll
<1>5. QED
  BY <1>2, <1>4 DEF Clean

LEMMA Rewritten ==
  ASSUME Typed, Quoted, ReadStep, at < Len(text)
  PROVE  Rewrites(text, Now, meant, meant')
<1>1. /\ Now.mode = mode /\ Now.at = at /\ Char = text[at + 1] /\ EscapeLength = Escaped(text, at)
      /\ Follower(1) = Ahead(text, at, 1) /\ Decoded = Means(text, at)
  <2>1. \A n : Follower(n) = Ahead(text, at, n)
    BY AheadIs
  <2>2. EscapeLength = Escaped(text, at) /\ Decoded = Means(text, at)
    BY <2>1, Zenon DEF EscapeLength, Escaped, Decoded, Means
  <2>3. QED
    BY <2>1, <2>2 DEF Now, Char
<1>2. CASE Decodes
  <2>1. meant' = [meant EXCEPT ![at + EscapeLength] = Decoded] /\ EscapeLength # 0 /\ Follower(1) # "\n" /\ Escape
    BY <1>2 DEF Decodes
  <2>2. Char = "\\" /\ (mode \in CodeModes \/ mode = "string")
    BY <2>1 DEF Escape, Reads, CodeModes
  <2>3. DecodesAt(text, Now)
    BY <1>1, <2>1, <2>2 DEF DecodesAt
  <2>4. QED
    BY <1>1, <2>1, <2>3 DEF Rewrites
<1>3. CASE ~Decodes
  <2>1. meant' = meant
    <3>1. Next
      BY DEF ReadStep, Next
    <3>2. QED
      BY <1>3, <3>1, MeaningStep
  <2>2. ASSUME DecodesAt(text, Now) PROVE FALSE
    <3>1. Char = "\\" /\ EscapeLength # 0 /\ Follower(1) # "\n" /\ (mode \in CodeModes \/ mode = "string")
      BY <1>1, <2>2 DEF DecodesAt
    <3>2. ~EndText
      BY NotEnded
    <3>3. /\ ~ReadSingle /\ ~ReadPair /\ ~ReadSlash /\ ~ReadDigit /\ ~ReadLetter /\ ~ReadBlank /\ ~OpenString
          /\ ~ReadInString
      BY <3>1, BackslashIs DEF ReadSingle, ReadPair, ReadSlash, ReadDigit, ReadLetter, ReadBlank, OpenString, ReadInString
    <3>4. ~SkipLineNote /\ ~SkipNote
      BY <3>1 DEF SkipLineNote, SkipNote, Reads, CodeModes
    <3>5. ~CloseString
      BY <3>1, BackslashIs DEF CloseString, InString, Reads, Quoted
    <3>6. Escape
      BY <3>2, <3>3, <3>4, <3>5 DEF ReadStep
    <3>7. QED
      BY <1>3, <3>1, <3>6 DEF Escape, Decodes
  <2>3. QED
    BY <2>1, <2>2 DEF Rewrites
<1>4. QED
  BY <1>2, <1>3

LEMMA FitsStay == ASSUME NEW counts, Fits(counts), script' = script, text' = text PROVE Fits(counts)'
BY DEF Fits

LEMMA ReadKeeps ==
  ASSUME NEW counts, Typed, TInv, TInv', DOMAIN meant' = DOMAIN meant, RInv(counts), ReadStep,
         script' = script, text' = text
  PROVE  RInv(counts)'
<1>0. Len(text) \in Nat /\ Quoted
  BY DEF TInv
<1>1. mode \in Reading /\ (at < Len(text) \/ at = Len(text))
  BY <1>0, ReadingStep
<1>2. PICK P, t, s, m : P = script.pieces /\ t = text /\ s = Now /\ m = meant
  OBVIOUS
<1>3. /\ WellWritten(P, counts) /\ Layout(P, t) /\ Uncoded(P, counts, t) /\ Stands(P, counts, t, m, s)
      /\ s.mode = mode /\ s.at = at
  BY <1>1, <1>2 DEF RInv, Fits, Now
<1>10. Clean
  <2>1. DOMAIN meant = 1 .. Len(text) /\ NoNul(meant)
    BY <1>2, <1>3 DEF Stands
  <2>2. QED
    BY <1>1, <2>1, IsClean
<1>4. Fits(counts)'
  BY FitsStay DEF RInv
<1>5. script'.pieces = P /\ text' = t
  BY <1>2
<1>6. Now'.mode = mode' /\ Now'.shown = Shown(pre')
  BY Afterwards
<1>7. CASE at < Len(text)
  <2>1. PICK u, v : u = Now' /\ v = meant'
    OBVIOUS
  <2>2. Moves(t, s, u)
    BY <1>1, <1>2, <1>7, <1>10, <2>1, ReadMoves
  <2>8. Rewrites(t, s, m, v) /\ DOMAIN v = DOMAIN m
    BY <1>0, <1>2, <1>7, <2>1, Rewritten
  <2>9. ASSUME u.mode # "beyond" PROVE BufferRead(u) /\ u.at <= Len(t)
    <3>1. mode' # "beyond"
      BY <1>6, <2>1, <2>9
    <3>2. Len(text') \in Nat /\ at' \in 0 .. Len(text') /\ buffer' \in Seq(1 .. at')
      BY <3>1 DEF TInv, Within
    <3>3. \A j \in DOMAIN buffer' : buffer'[j] \in 1 .. at'
      BY <3>2
    <3>4. u.at = at' /\ u.buffer = buffer' /\ t = text'
      BY <1>2, <2>1 DEF Now
    <3>5. QED
      BY <3>2, <3>3, <3>4 DEF BufferRead
  <2>3. u.mode = "beyond" \/ (u.mode = "unfinished" /\ EndsInString(P, t)) \/ Stands(P, counts, t, v, u)
    BY <1>2, <1>3, <1>7, <2>2, <2>8, <2>9, StandsOn
  <2>4. CASE u.mode = "beyond"
    <3>1. mode' = "beyond"
      BY <1>6, <2>1, <2>4
    <3>2. QED
      BY <1>4, <3>1 DEF RInv, Reading
  <2>5. CASE u.mode = "unfinished" /\ EndsInString(P, t)
    <3>1. mode' = "unfinished" /\ EndsInString(script'.pieces, text')
      BY <1>5, <1>6, <2>1, <2>5
    <3>2. QED
      BY <1>4, <3>1 DEF RInv, Reading
  <2>6. CASE Stands(P, counts, t, v, u)
    <3>1. mode' \in Reading
      BY <1>3, <1>6, <2>1, <2>6, StandsReading
    <3>2. Stands(script'.pieces, counts, text', meant', Now')
      BY <1>5, <2>1, <2>6
    <3>3. QED
      BY <1>4, <3>1, <3>2 DEF RInv, Reading
  <2>7. QED
    BY <2>3, <2>4, <2>5, <2>6
<1>8. CASE at = Len(text)
  <2>1. EndStep(Now, Now') /\ meant' = meant
    BY <1>8, <1>10, ShowsEnd
  <2>2. /\ s.mode = "string" <=> EndsInString(P, t)
        /\ Len(t) = Before(P, Len(P) + 1) => SavedIn(s) = Sofar(P, Len(P) + 1) /\ AllTold(P, m)
    BY <1>2, <1>3, <1>8, AtTheEnd
  <2>3. CASE mode = "string"
    <3>1. mode' = "unfinished" /\ EndsInString(script'.pieces, text')
      BY <1>2, <1>3, <1>5, <1>6, <2>1, <2>2, <2>3 DEF EndStep
    <3>2. QED
      BY <1>4, <3>1 DEF RInv, Reading
  <2>4. CASE mode # "string"
    <3>1. mode' = "join" /\ Shown(pre') = SavedIn(s) /\ ~EndsInString(P, t)
      BY <1>2, <1>3, <1>6, <2>1, <2>2, <2>4 DEF EndStep
    <3>2. ~EndsInString(script'.pieces, text')
      BY <1>5, <3>1
    <3>3. AllRead'
      BY <1>2, <1>5, <2>1, <2>2, <3>1 DEF AllRead
    <3>4. QED
      BY <1>4, <3>1, <3>2, <3>3 DEF RInv, Reading
  <2>5. QED
    BY <2>3, <2>4
<1>9. QED
  BY <1>1, <1>7, <1>8

LEMMA ReadStays ==
  ASSUME NEW counts, Typed, TInv, RInv(counts), [Next]_vars
  PROVE  RInv(counts)'
<1>1. script' = script /\ text' = text /\ Len(text) \in Nat /\ TInv'
  BY SourceStays, TypesStay DEF TInv
<1>2. CASE ReadStep
  <2>1. DOMAIN meant' = DOMAIN meant
    BY MeaningStep DEF Decodes
  <2>2. QED
    BY <1>1, <1>2, <2>1, ReadKeeps
<1>3. CASE UNCHANGED vars
  <2>1. mode' = mode /\ pre' = pre /\ at' = at /\ quote' = quote /\ buffer' = buffer /\ meant' = meant
    BY <1>3 DEF vars
  <2>2. QED
    BY <1>1, <2>1 DEF RInv, Fits, AllRead, Now
<1>4. CASE mode = "join" /\ mode' \in {"join", "done"} /\ pre' = pre /\ meant' = meant
  BY <1>1, <1>4 DEF RInv, Fits, AllRead, Reading
<1>5. CASE JoinNumber \/ JoinPoint \/ JoinOther
  <2>1. mode = "join" /\ mode' = mode /\ pre' = pre /\ meant' = meant
    <3>1. Joins /\ JoinForms
      BY <1>5, JoinsInForms
    <3>2. QED
      BY <3>1 DEF JoinForms, Join, Joins
  <2>2. QED
    BY <1>4, <2>1
<1>6. CASE Take \/ LetGo \/ JoinOperator \/ EndJoin
  <2>1. mode = "join" /\ mode' \in {"join", "done"} /\ pre' = pre /\ meant' = meant
    BY <1>6 DEF Take, LetGo, JoinOperator, EndJoin, Hold, Joins, Holds
  <2>2. QED
    BY <1>4, <2>1
<1>7. QED
  BY <1>2, <1>3, <1>5, <1>6 DEF Next, ReadStep, Stopped

LEMMA ReadStarts ==
  ASSUME NEW counts, \A s \in Scripts : Well(s, counts), Init
  PROVE  RInv(counts)
<1>1. PICK P, t : P = script.pieces /\ t = text
  OBVIOUS
<1>2. script \in Scripts /\ text = SubSeq(Whole(script.pieces), 1, script.length)
      /\ at = 0 /\ mode = "code" /\ quote = NoQuote /\ buffer = <<>> /\ pre = <<>> /\ meant = text
  BY DEF Init
<1>3. WellWritten(P, counts) /\ WellCut(script, counts)
  BY <1>1, <1>2 DEF Well
<1>4. script.length \in Nat /\ script.length <= Len(Whole(P)) /\ "NUL" \notin Range(Whole(P))
  BY <1>1, <1>2, ScriptsAssumption DEF ScriptsAssumption
<1>5. Layout(P, t)
  BY <1>1, <1>2, <1>3, <1>4, LaidOut
<1>6. Len(t) = script.length /\ DOMAIN t = 1 .. Len(t) /\ \A q \in DOMAIN t : t[q] # "NUL"
  <2>1. PICK w : w = Whole(P)
    OBVIOUS
  <2>2. \E S : w \in Seq(S)
    <3>1. Chars(P) \in Seq(Seq(Letters(P)))
      BY <1>3, CharsOf
    <3>2. FlattenSeq(Chars(P)) \in Seq(Letters(P))
      BY <3>1, FlattenType
    <3>3. QED
      BY <2>1, <3>2 DEF Whole
  <2>3. PICK S : w \in Seq(S)
    BY <2>2
  <2>4. PICK n : n = script.length
    OBVIOUS
  <2>5. t = SubSeq(w, 1, n) /\ n \in Nat /\ n <= Len(w) /\ "NUL" \notin Range(w)
    BY <1>1, <1>2, <1>4, <2>1, <2>4
  <2>6. Len(t) = n /\ \A i \in 1 .. n : t[i] = w[i]
    BY <2>3, <2>5, Cutting
  <2>7. DOMAIN t = 1 .. n
    BY <2>3, <2>5
  <2>8. \A i \in 1 .. n : i \in DOMAIN w
    BY <2>3, <2>5
  <2>9. \A i \in DOMAIN w : w[i] # "NUL"
    BY <2>5 DEF Range
  <2>10. QED
    BY <2>4, <2>6, <2>7, <2>8, <2>9
<1>7. Uncoded(P, counts, t)
  BY <1>1, <1>3, <1>6 DEF WellCut, CutHere, Uncoded
<1>8. Fits(counts)
  BY <1>1, <1>3, <1>5, <1>6, <1>7 DEF Fits
<1>9. PICK s : s = Now
  OBVIOUS
<1>10. s.mode = "code" /\ s.at = 0 /\ s.buffer = <<>> /\ s.shown = <<>>
  <2>1. Shown(<<>>) = <<>>
    BY DEF Shown
  <2>2. QED
    BY <1>2, <1>9, <2>1 DEF Now
<1>11. Before(P, 1) = 0 /\ Sofar(P, 1) = <<>> /\ Len(P) \in Nat
  BY <1>3, <1>5, SofarGrows DEF Layout
<1>12. SavedIn(s) = Sofar(P, 1) /\ s.mode \in CodeModes
  BY <1>10, <1>11 DEF SavedIn, CodeModes
<1>15. DOMAIN t = 1 .. Len(t) /\ NoNul(t) /\ BufferRead(s) /\ TellAt(P, t, t, s, 1)
  <2>1. Unread(t, t, Before(P, 1))
    BY DEF Unread
  <2>2. Telling(P[1], Before(P, 1), t, t, s)
    BY <1>10, <2>1 DEF Telling
  <2>3. \A h \in 1 .. 1 - 1 : Tells(P[h], Before(P, h), t)
    OBVIOUS
  <2>4. QED
    BY <1>6, <1>10, <2>2, <2>3 DEF NoNul, BufferRead, TellAt
<1>13. Stands(P, counts, t, t, s)
  <2>1. CASE Len(P) = 0
    <3>1. 1 \in 1 .. Len(P) + 1 /\ ~(1 <= Len(P)) /\ 1 = Len(P) + 1
      BY <2>1
    <3>2. StandAt(P, counts, t, s, 1, 0)
      BY <1>10, <1>11, <1>12, <3>1 DEF StandAt
    <3>3. QED
      BY <1>15, <3>2 DEF Stands
  <2>2. CASE Len(P) # 0
    <3>1. 1 \in 1 .. Len(P) /\ 1 \in 1 .. Len(P) + 1 /\ 1 # Len(P) + 1
      BY <1>11, <2>2
    <3>2. Len(P[1].chars) \in Nat \ {0}
      BY <1>5, <3>1, LayoutFacts
    <3>3. 0 < Len(P[1].chars) /\ 0 \in Nat /\ s.at = Before(P, 1) + 0
      BY <1>10, <1>11, <3>2
    <3>4. Ready(s, P[1].chars[1], Sofar(P, 1))
      BY <1>10, <1>12 DEF Ready
    <3>5. Stand(P[1], Before(P, 1), Sofar(P, 1), counts[P[1]], t, 0, s)
      BY <3>3, <3>4 DEF Stand
    <3>6. StandAt(P, counts, t, s, 1, 0)
      BY <3>1, <3>5 DEF StandAt
    <3>7. QED
      BY <1>15, <3>6 DEF Stands
  <2>3. QED
    BY <2>1, <2>2
<1>14. QED
  BY <1>1, <1>2, <1>8, <1>9, <1>13 DEF RInv

LEMMA AsksThere ==
  ASSUME NEW counts, RInv(counts)
  PROVE  AsksInsideStrings
<1>1. EndsInString(script.pieces, text) <=> \E k \in DOMAIN script.pieces : script.pieces[k].type = "string" /\ EndsIn(k)
  BY DEF EndsInString, EndsIn, RInv, Fits
<1>2. QED
  BY <1>1 DEF AsksInsideStrings, RInv, Ended

(* In a text that is well written and not cut inside a continued line or a *)
(* code, the lexer asks for more exactly when the text ends inside a       *)
(* string: the quote that ends one is never missed, and never one inside   *)
(* of another string, a note or an escape (lexer.c:77-658).                *)
THEOREM AsksInStringsOnly ==
  ASSUME NEW counts, \A s \in Scripts : WellWritten(s.pieces, counts) /\ WellCut(s, counts)
  PROVE  Spec => []AsksInsideStrings
<1> DEFINE I == RInv(counts)
<1>1. Init => I
  BY ReadStarts DEF Well
<1>2. Typed /\ TInv /\ I /\ [Next]_vars => I'
  BY ReadStays
<1>3. I => AsksInsideStrings
  BY AsksThere
<1>4. IInv => Typed
  BY DEF IInv
<1> HIDE DEF I
<1>5. QED
  BY Starts, Stays, TypesStart, TypesStay, <1>1, <1>2, <1>3, <1>4, PTL DEF Spec

----------------------------------------------------------------------------
(***************************************************************************)
(* What a step of _sbLexer does: S are the parts it takes, s is what it    *)
(* has before the step, u what it has after.                               *)
(***************************************************************************)
DotAt(t, x)         == x.type = "symbol" /\ Written(t, x) = Point
Both(type, x, y)    == Part(type, x.at \o y.at)
Passes(s, u, xs, n) == u.tokens = s.tokens \o xs /\ u.taken = s.taken + n /\ u.held = <<>>

NumberMove(t, S, s, u) ==
  LET left == Len(S) - s.taken  a == S[s.taken + 1]  b == S[s.taken + 2]  c == S[s.taken + 3] IN
  /\ a.type = "number"
  /\ \/ left = 1 /\ Passes(s, u, <<a>>, 1)
     \/ left > 1 /\ ~DotAt(t, b) /\ Passes(s, u, <<a, b>>, 2)
     \/ left = 2 /\ DotAt(t, b)
     \/ left > 2 /\ DotAt(t, b) /\ (c.type = "number" => Passes(s, u, <<Both("number", Both("number", a, b), c)>>, 3))

PointMove(t, S, s, u) ==
  LET left == Len(S) - s.taken  a == S[s.taken + 1]  b == S[s.taken + 2] IN
  /\ DotAt(t, a)
  /\ \/ left = 1 /\ Passes(s, u, <<a>>, 1)
     \/ left > 1 /\ b.type = "number"
     \/ left > 1 /\ b.type # "number" /\ Passes(s, u, <<a, b>>, 2)

OtherMove(t, S, s, u) ==
  LET a == S[s.taken + 1] IN a.type \in {"word", "string"} /\ Passes(s, u, <<a>>, 1)

TakeMove(t, S, s, u) ==
  LET a == S[s.taken + 1] IN
  /\ a.type = "symbol" /\ ~DotAt(t, a)
  /\ u.held = <<a>> /\ u.rank = 1 /\ u.taken = s.taken + 1 /\ u.tokens = s.tokens

JoinMove(t, S, s, u) ==
  /\ s.held = <<>> /\ Len(S) - s.taken > 0
  /\ NumberMove(t, S, s, u) \/ PointMove(t, S, s, u) \/ OtherMove(t, S, s, u) \/ TakeMove(t, S, s, u)

GoMove(t, S, s, u) ==
  LET x == s.held[1] IN
  /\ \A k \in s.rank .. Len(Operators) : Written(t, x) # Operators[k]
  /\ Passes(s, u, <<x>>, 0)

HalfIs(t, k, a) == a.type = "symbol" /\ Written(t, a) \in Halves(Operators[k])

OperatorMove(t, S, s, u, k) ==
  LET x == s.held[1]  left == Len(S) - s.taken  a == S[s.taken + 1] IN
  /\ Written(t, x) = Operators[k]
  /\ \/ left = 0 /\ Passes(s, u, <<x>>, 0)
     \/ left > 0 /\ HalfIs(t, k, a) /\ Passes(s, u, <<Both("symbol", x, a)>>, 1)
     \/ left > 0 /\ ~HalfIs(t, k, a) /\ u.tokens = s.tokens \o <<x>> /\ u.held = <<a>> /\ u.taken = s.taken + 1

HandMove(t, S, s, u) ==
  /\ s.held # <<>>
  /\ GoMove(t, S, s, u) \/ \E k \in DOMAIN Operators : OperatorMove(t, S, s, u, k)

(***************************************************************************)
(* A lexeme p, its parts Q and what is expected of it, e.                  *)
(***************************************************************************)
Single(p) == ~Fraction(p) /\ ~Joined(p)

Kind(p, Q, e, t) ==
  /\ p.type \in {"word", "number", "symbol", "string"}
  /\ Single(p) => /\ Len(Q) = 1 /\ Q[1] = e /\ e.type = p.type
                  /\ Written(t, e) \in Range(Operators) => MayJoin(p)
                  /\ p.type = "symbol" => Written(t, e) = p.chars
  /\ Fraction(p) => /\ Len(Q) = 3 /\ Q[1].type = "number" /\ DotAt(t, Q[2]) /\ Q[3].type = "number"
                    /\ Both("number", Both("number", Q[1], Q[2]), Q[3]) = e
  /\ Joined(p) => /\ Len(Q) = 2 /\ Q[1].type = "symbol" /\ ~DotAt(t, Q[1]) /\ Q[2].type = "symbol"
                  /\ \E k \in DOMAIN Operators : Written(t, Q[1]) = Operators[k] /\ Written(t, Q[2]) \in Halves(Operators[k])
                  /\ Both("symbol", Q[1], Q[2]) = e

(* Two lexemes side by side in a Plain text. *)
Beside(this, next) ==
  /\ MayJoin(this) => ~(MayJoin(next) \/ Joined(next) \/ next.chars = <<"=">>)
  /\ Fraction(next) => ~(MayJoin(this) \/ this.type = "number")
  /\ this.type = "number" \/ this.chars = Point => ~Joined(next)
  /\ ~({this.type, next.type} = {"number", "symbol"} /\ Point \in {this.chars, next.chars})

(* All of them: D tells how many parts are before each. *)
Row(X, Q, E, S, D, t) ==
  /\ Len(X) \in Nat /\ E \in Seq(AnyPart) /\ Len(E) = Len(X) /\ Len(S) \in Nat
  /\ D[1] = 0 /\ D[Len(X) + 1] = Len(S)
  /\ \A j \in 1 .. Len(X) + 1 : D[j] \in Nat
  /\ \A j \in 1 .. Len(X) : /\ D[j + 1] = D[j] + Len(Q[j]) /\ D[j + 1] <= Len(S)
                            /\ \A i \in 1 .. Len(Q[j]) : S[D[j] + i] = Q[j][i]
                            /\ Kind(X[j], Q[j], E[j], t)
  /\ \A j \in 1 .. Len(X) - 1 : Beside(X[j], X[j + 1])

Passed(E, j) == SubSeq(E, 1, j - 1)

AtLexeme(X, E, D, j, s) == j \in 1 .. Len(X) + 1 /\ s.held = <<>> /\ s.taken = D[j] /\ s.tokens = Passed(E, j)

HasLexeme(X, E, D, j, s) ==
  j \in 1 .. Len(X) /\ Single(X[j]) /\ s.held = <<E[j]>> /\ s.taken = D[j + 1] /\ s.tokens = Passed(E, j)

HasHalf(X, Q, E, D, j, s) ==
  /\ j \in 1 .. Len(X) /\ Joined(X[j]) /\ s.held = <<Q[j][1]>> /\ s.rank = 1 /\ s.taken = D[j] + 1
  /\ s.tokens = Passed(E, j)

InRow(X, Q, E, D, s) == \E j : AtLexeme(X, E, D, j, s) \/ HasLexeme(X, E, D, j, s) \/ HasHalf(X, Q, E, D, j, s)

LEMMA RowAt ==
  ASSUME NEW X, NEW Q, NEW E, NEW S, NEW D, NEW t, Row(X, Q, E, S, D, t), NEW j \in 1 .. Len(X)
  PROVE  /\ Len(X) \in Nat /\ Len(S) \in Nat /\ D[j] \in Nat /\ D[j + 1] \in Nat /\ D[j + 1] = D[j] + Len(Q[j])
         /\ Kind(X[j], Q[j], E[j], t) /\ D[Len(X) + 1] = Len(S) /\ Len(Q[j]) \in {1, 2, 3}
         /\ \A i \in 1 .. Len(Q[j]) : S[D[j] + i] = Q[j][i]
         /\ Single(X[j]) \/ Fraction(X[j]) \/ Joined(X[j])
<1>1. Len(X) \in Nat /\ j \in 1 .. Len(X) + 1 /\ j + 1 \in 1 .. Len(X) + 1
  BY DEF Row
<1>2. D[j] \in Nat /\ D[j + 1] \in Nat /\ Len(S) \in Nat /\ D[Len(X) + 1] = Len(S)
  BY <1>1, Zenon DEF Row
<1>3. /\ D[j + 1] = D[j] + Len(Q[j]) /\ Kind(X[j], Q[j], E[j], t)
      /\ \A i \in 1 .. Len(Q[j]) : S[D[j] + i] = Q[j][i]
  BY Zenon DEF Row
<1>4. Single(X[j]) \/ Fraction(X[j]) \/ Joined(X[j])
  BY DEF Single
<1>5. Len(Q[j]) \in {1, 2, 3}
  BY <1>3, <1>4, Zenon DEF Kind
<1>6. QED
  BY <1>1, <1>2, <1>3, <1>4, <1>5, Zenon

LEMMA RowFits ==
  ASSUME NEW X, NEW Q, NEW E, NEW S, NEW D, NEW t, Row(X, Q, E, S, D, t), NEW j \in 1 .. Len(X)
  PROVE  D[j + 1] <= Len(S) /\ D[j] < Len(S)
<1>1. PICK n : n = Len(Q[j])
  OBVIOUS
<1>2. n \in {1, 2, 3} /\ D[j] \in Nat /\ D[j + 1] = D[j] + n /\ Len(S) \in Nat
  <2>1. Len(Q[j]) \in {1, 2, 3}
    BY RowAt
  <2>2. D[j] \in Nat /\ D[j + 1] = D[j] + Len(Q[j]) /\ Len(S) \in Nat
    BY RowAt
  <2>3. QED
    BY <1>1, <2>1, <2>2
<1>3. D[j + 1] <= Len(S)
  BY Zenon DEF Row
<1>4. QED
  BY <1>2, <1>3

LEMMA PassedMore ==
  ASSUME NEW X, NEW Q, NEW E, NEW S, NEW D, NEW t, Row(X, Q, E, S, D, t), NEW j \in 1 .. Len(X)
  PROVE  /\ Passed(E, j) \o <<E[j]>> = Passed(E, j + 1)
         /\ j + 1 <= Len(X) => Passed(E, j) \o <<E[j], E[j + 1]>> = Passed(E, j + 2)
<1>1. E \in Seq(AnyPart) /\ Len(E) = Len(X) /\ Len(X) \in Nat
  BY DEF Row
<1>2. ASSUME NEW k \in 1 .. Len(E)
      PROVE  /\ Passed(E, k) \in Seq(AnyPart) /\ Passed(E, k) \o <<E[k]>> = Passed(E, k + 1)
             /\ Append(Passed(E, k), E[k]) = Passed(E, k + 1)
  <2>1. /\ SubSeq(E, 1, k - 1) \in Seq(AnyPart) /\ E[k] \in AnyPart
        /\ SubSeq(E, 1, k) = Append(SubSeq(E, 1, k - 1), E[k])
    BY <1>1, Split
  <2>2. SubSeq(E, 1, k - 1) \o <<E[k]>> = Append(SubSeq(E, 1, k - 1), E[k])
    BY <2>1, AppendIs
  <2>3. (k + 1) - 1 = k
    BY <1>1
  <2>4. QED
    BY <2>1, <2>2, <2>3 DEF Passed
<1>3. ASSUME j + 1 <= Len(X) PROVE Passed(E, j) \o <<E[j], E[j + 1]>> = Passed(E, j + 2)
  <2>1. j + 1 \in 1 .. Len(E) /\ j \in 1 .. Len(E) /\ (j + 1) + 1 = j + 2
    BY <1>1, <1>3
  <2>2. Passed(E, j) \o <<E[j], E[j + 1]>> = Append(Append(Passed(E, j), E[j]), E[j + 1])
    BY <1>2, <2>1, AppendIs
  <2>3. QED
    BY <1>2, <2>1, <2>2
<1>4. QED
  BY <1>1, <1>2, <1>3

LEMMA Arrives ==
  ASSUME NEW X, NEW Q, NEW E, NEW S, NEW D, NEW t, Row(X, Q, E, S, D, t), NEW j \in 1 .. Len(X), NEW s, NEW u,
         s.tokens = Passed(E, j), Passes(s, u, <<E[j]>>, D[j + 1] - s.taken), s.taken \in Nat
  PROVE  InRow(X, Q, E, D, u)
<1>1. Len(X) \in Nat /\ D[j + 1] \in Nat
  BY RowAt
<1>2. u.taken = D[j + 1]
  BY <1>1 DEF Passes
<1>3. u.tokens = Passed(E, j + 1) /\ u.held = <<>>
  BY PassedMore DEF Passes
<1>4. j + 1 \in 1 .. Len(X) + 1
  BY <1>1
<1>5. AtLexeme(X, E, D, j + 1, u)
  BY <1>2, <1>3, <1>4 DEF AtLexeme
<1>6. QED
  BY <1>5 DEF InRow

(* What is in front of the joiner, with the lexeme j next and single.      *)
LEMMA SecondIs ==
  ASSUME NEW X, NEW Q, NEW E, NEW S, NEW D, NEW t, Row(X, Q, E, S, D, t), NEW j \in 1 .. Len(X),
         Len(S) - D[j + 1] > 0
  PROVE  /\ j + 1 \in 1 .. Len(X) /\ j \in 1 .. Len(X) - 1 /\ S[D[j + 1] + 1] = Q[j + 1][1]
         /\ Beside(X[j], X[j + 1]) /\ Kind(X[j + 1], Q[j + 1], E[j + 1], t)
<1>1. Len(X) \in Nat /\ D[j + 1] \in Nat /\ D[Len(X) + 1] = Len(S) /\ Len(S) \in Nat
  BY RowAt
<1>2. j # Len(X)
  <2>1. SUFFICES ASSUME j = Len(X) PROVE FALSE
    OBVIOUS
  <2>2. D[j + 1] = Len(S)
    BY <1>1, <2>1
  <2>3. QED
    BY <1>1, <2>2
<1>3. j + 1 \in 1 .. Len(X) /\ j \in 1 .. Len(X) - 1
  BY <1>1, <1>2
<1>4. PICK k : k = j + 1
  OBVIOUS
<1>5. Kind(X[k], Q[k], E[k], t) /\ \A i \in 1 .. Len(Q[k]) : S[D[k] + i] = Q[k][i]
  <2>1. k \in 1 .. Len(X)
    BY <1>3, <1>4
  <2>2. QED
    BY <2>1, Zenon DEF Row
<1>6. 1 \in 1 .. Len(Q[k])
  <2>1. Single(X[k]) \/ Fraction(X[k]) \/ Joined(X[k])
    BY DEF Single
  <2>2. Len(Q[k]) = 1 \/ Len(Q[k]) = 2 \/ Len(Q[k]) = 3
    BY <1>5, <2>1, Zenon DEF Kind
  <2>3. PICK n : n = Len(Q[k])
    OBVIOUS
  <2>4. 1 \in 1 .. n
    <3>1. n = 1 \/ n = 2 \/ n = 3
      BY <2>2, <2>3
    <3>2. QED
      BY <3>1
  <2>5. QED
    BY <2>3, <2>4
<1>7. S[D[k] + 1] = Q[k][1]
  BY <1>5, <1>6, Zenon
<1>8. Beside(X[j], X[j + 1])
  BY <1>3 DEF Row
<1>9. QED
  BY <1>3, <1>4, <1>5, <1>7, <1>8, Zenon

(* A single lexeme is next.                                                *)
LEMMA NextAlone ==
  ASSUME NEW X, NEW Q, NEW E, NEW S, NEW D, NEW t, Row(X, Q, E, S, D, t), NEW j \in 1 .. Len(X), Single(X[j])
  PROVE  /\ D[j] \in Nat /\ Len(S) \in Nat /\ D[j + 1] \in Nat /\ D[j + 1] = D[j] + 1 /\ S[D[j] + 1] = E[j]
         /\ Q[j][1] = E[j] /\ E[j].type = X[j].type
         /\ (Written(t, E[j]) \in Range(Operators) => MayJoin(X[j])) /\ (X[j].type = "symbol" => Written(t, E[j]) = X[j].chars)
         /\ X[j].type \in {"word", "number", "symbol", "string"}
<1>1. /\ D[j] \in Nat /\ Len(S) \in Nat /\ D[j + 1] \in Nat /\ D[j + 1] = D[j] + Len(Q[j]) /\ Kind(X[j], Q[j], E[j], t)
      /\ \A i \in 1 .. Len(Q[j]) : S[D[j] + i] = Q[j][i]
  BY RowAt
<1>2. /\ Len(Q[j]) = 1 /\ Q[j][1] = E[j] /\ E[j].type = X[j].type
      /\ (Written(t, E[j]) \in Range(Operators) => MayJoin(X[j])) /\ (X[j].type = "symbol" => Written(t, E[j]) = X[j].chars)
      /\ X[j].type \in {"word", "number", "symbol", "string"}
  BY <1>1 DEF Kind
<1>3. S[D[j] + 1] = Q[j][1]
  <2>1. 1 \in 1 .. Len(Q[j])
    BY <1>2
  <2>2. QED
    BY <1>1, <2>1
<1>4. QED
  BY <1>1, <1>2, <1>3

(* Two single lexemes are passed on together.                              *)
LEMMA ArrivesBehind ==
  ASSUME NEW X, NEW Q, NEW E, NEW S, NEW D, NEW t, Row(X, Q, E, S, D, t), NEW j \in 1 .. Len(X), NEW s, NEW u,
         Single(X[j]), j + 1 \in 1 .. Len(X), Single(X[j + 1]), s.tokens = Passed(E, j), s.taken = D[j],
         Passes(s, u, <<S[D[j] + 1], S[D[j] + 2]>>, 2)
  PROVE  InRow(X, Q, E, D, u)
<1>1. Len(X) \in Nat /\ (j + 1) + 1 = j + 2 /\ j + 1 <= Len(X) /\ j + 2 \in 1 .. Len(X) + 1
  BY DEF Row
<1>2. D[j] \in Nat /\ D[j + 1] = D[j] + 1 /\ S[D[j] + 1] = E[j]
  BY NextAlone
<1>3. PICK k : k = j + 1
  OBVIOUS
<1>4. D[k + 1] = D[k] + 1 /\ S[D[k] + 1] = E[k]
  <2>1. k \in 1 .. Len(X) /\ Single(X[k])
    BY <1>3
  <2>2. QED
    BY <2>1, NextAlone
<1>5. D[j + 2] = D[j] + 2 /\ S[D[j] + 2] = E[j + 1]
  <2>1. k + 1 = j + 2 /\ D[k] + 1 = D[j] + 2
    BY <1>1, <1>2, <1>3
  <2>2. QED
    BY <1>3, <1>4, <2>1
<1>6. u.tokens = Passed(E, j + 2)
  <2>1. u.tokens = s.tokens \o <<S[D[j] + 1], S[D[j] + 2]>>
    BY DEF Passes
  <2>2. u.tokens = Passed(E, j) \o <<E[j], E[j + 1]>>
    BY <1>2, <1>5, <2>1
  <2>3. QED
    BY <1>1, <2>2, PassedMore
<1>7. u.taken = D[j + 2] /\ u.held = <<>>
  BY <1>5 DEF Passes
<1>8. AtLexeme(X, E, D, j + 2, u)
  BY <1>1, <1>6, <1>7 DEF AtLexeme
<1>9. QED
  BY <1>8 DEF InRow

LEMMA ArrivesNext ==
  ASSUME NEW X, NEW Q, NEW E, NEW S, NEW D, NEW t, Row(X, Q, E, S, D, t), NEW j \in 1 .. Len(X), NEW s, NEW u,
         Single(X[j]), s.tokens = Passed(E, j), s.taken = D[j], Passes(s, u, <<S[D[j] + 1]>>, 1)
  PROVE  InRow(X, Q, E, D, u)
<1>1. D[j] \in Nat /\ D[j + 1] = D[j] + 1 /\ S[D[j] + 1] = E[j]
  BY NextAlone
<1>2. D[j + 1] - s.taken = 1
  BY <1>1
<1>3. Passes(s, u, <<E[j]>>, D[j + 1] - s.taken) /\ s.taken \in Nat
  BY <1>1, <1>2
<1>4. QED
  BY <1>3, Arrives

(* The first part of what comes after a lexeme is, if the two are in a     *)
(* Plain text, no point after a number and no number after a point.        *)
LEMMA NextToNumber ==
  ASSUME NEW X, NEW Q, NEW E, NEW S, NEW D, NEW t, Row(X, Q, E, S, D, t), NEW j \in 1 .. Len(X), Single(X[j]),
         Len(S) - D[j + 1] > 0, X[j].type = "number" \/ (X[j].type = "symbol" /\ X[j].chars = Point)
  PROVE  /\ j + 1 \in 1 .. Len(X) /\ Single(X[j + 1])
         /\ X[j].type = "number" => ~DotAt(t, S[D[j + 1] + 1])
         /\ X[j].type = "symbol" => S[D[j + 1] + 1].type # "number"
<1>1. PICK k : k = j + 1
  OBVIOUS
<1>2. k \in 1 .. Len(X) /\ S[D[k] + 1] = Q[k][1] /\ Beside(X[j], X[k]) /\ Kind(X[k], Q[k], E[k], t)
  BY <1>1, SecondIs
<1>3. ~Joined(X[k])
  BY <1>2 DEF Beside
<1>4. ~Fraction(X[k])
  <2>1. SUFFICES ASSUME Fraction(X[k]) PROVE FALSE
    OBVIOUS
  <2>2. X[j].type # "number"
    BY <1>2, <2>1 DEF Beside
  <2>3. X[k].type = "number"
    BY <2>1 DEF Fraction
  <2>4. {X[j].type, X[k].type} = {"number", "symbol"} /\ Point \in {X[j].chars, X[k].chars}
    BY <2>2, <2>3
  <2>5. QED
    BY <1>2, <2>4 DEF Beside
<1>5. Single(X[k])
  BY <1>3, <1>4 DEF Single
<1>6. /\ S[D[k] + 1] = E[k] /\ E[k].type = X[k].type
      /\ X[k].type = "symbol" => Written(t, E[k]) = X[k].chars
  BY <1>2, <1>5, NextAlone
<1>7. ASSUME X[j].type = "number", DotAt(t, S[D[k] + 1]) PROVE FALSE
  <2>1. X[k].type = "symbol" /\ X[k].chars = Point
    BY <1>6, <1>7 DEF DotAt
  <2>2. {X[j].type, X[k].type} = {"number", "symbol"} /\ Point \in {X[j].chars, X[k].chars}
    BY <1>7, <2>1
  <2>3. QED
    BY <1>2, <2>2 DEF Beside
<1>8. ASSUME X[j].type = "symbol", S[D[k] + 1].type = "number" PROVE FALSE
  <2>1. X[k].type = "number" /\ X[j].chars = Point
    BY <1>6, <1>8
  <2>2. {X[j].type, X[k].type} = {"number", "symbol"} /\ Point \in {X[j].chars, X[k].chars}
    BY <1>8, <2>1
  <2>3. QED
    BY <1>2, <2>2 DEF Beside
<1>9. QED
  BY <1>1, <1>2, <1>5, <1>7, <1>8

(***************************************************************************)
(* Each step of the joiner, in a Plain text, leads to a lexeme, or into    *)
(* one.                                                                    *)
(***************************************************************************)
LEMMA JoinsAlone ==
  ASSUME NEW X, NEW Q, NEW E, NEW S, NEW D, NEW t, Row(X, Q, E, S, D, t), NEW j \in 1 .. Len(X), NEW s, NEW u,
         Single(X[j]), AtLexeme(X, E, D, j, s), JoinMove(t, S, s, u)
  PROVE  InRow(X, Q, E, D, u)
<1>1. /\ D[j] \in Nat /\ Len(S) \in Nat /\ D[j + 1] \in Nat /\ D[j + 1] = D[j] + 1 /\ S[D[j] + 1] = E[j]
      /\ E[j].type = X[j].type /\ (X[j].type = "symbol" => Written(t, E[j]) = X[j].chars)
  BY NextAlone
<1>2. s.tokens = Passed(E, j) /\ s.taken = D[j]
  BY DEF AtLexeme
<1>3. PICK a, left : a = S[s.taken + 1] /\ left = Len(S) - s.taken
  OBVIOUS
<1>4. a = E[j]
  BY <1>1, <1>2, <1>3
<1>5. ASSUME Passes(s, u, <<a>>, 1) PROVE InRow(X, Q, E, D, u)
  BY <1>2, <1>3, <1>5, ArrivesNext
<1>6. s.taken + 2 = D[j + 1] + 1 /\ s.taken + 2 = D[j] + 2 /\ Len(S) - D[j + 1] = left - 1 /\ left \in Int
  <2>1. PICK d, e, n : d = D[j] /\ e = D[j + 1] /\ n = Len(S)
    OBVIOUS
  <2>2. d \in Nat /\ e = d + 1 /\ n \in Nat /\ s.taken = d /\ left = n - d
    BY <1>1, <1>2, <1>3, <2>1
  <2>3. d + 2 = e + 1 /\ n - e = left - 1 /\ left \in Int
    BY <2>2
  <2>4. QED
    BY <2>1, <2>2, <2>3
<1>7. CASE NumberMove(t, S, s, u)
  <2>1. X[j].type = "number"
    BY <1>1, <1>3, <1>4, <1>7 DEF NumberMove
  <2>2. CASE left = 1 /\ Passes(s, u, <<a>>, 1)
    BY <1>5, <2>2
  <2>3. CASE left > 1
    <3>1. j + 1 \in 1 .. Len(X) /\ Single(X[j + 1]) /\ ~DotAt(t, S[s.taken + 2])
      BY <1>6, <2>1, <2>3, NextToNumber
    <3>2. Passes(s, u, <<S[s.taken + 1], S[s.taken + 2]>>, 2)
      BY <1>3, <1>6, <1>7, <2>3, <3>1 DEF NumberMove
    <3>3. QED
      BY <1>2, <3>1, <3>2, ArrivesBehind
  <2>4. QED
    BY <1>3, <1>6, <1>7, <2>2, <2>3 DEF NumberMove
<1>8. CASE PointMove(t, S, s, u)
  <2>1. X[j].type = "symbol" /\ X[j].chars = Point
    BY <1>1, <1>3, <1>4, <1>8 DEF PointMove, DotAt
  <2>2. CASE left = 1 /\ Passes(s, u, <<a>>, 1)
    BY <1>5, <2>2
  <2>3. CASE left > 1
    <3>1. j + 1 \in 1 .. Len(X) /\ Single(X[j + 1]) /\ S[s.taken + 2].type # "number"
      BY <1>6, <2>1, <2>3, NextToNumber
    <3>2. Passes(s, u, <<S[s.taken + 1], S[s.taken + 2]>>, 2)
      BY <1>3, <1>6, <1>8, <2>3, <3>1 DEF PointMove
    <3>3. QED
      BY <1>2, <3>1, <3>2, ArrivesBehind
  <2>4. QED
    BY <1>3, <1>6, <1>8, <2>2, <2>3 DEF PointMove
<1>9. CASE OtherMove(t, S, s, u)
  BY <1>3, <1>5, <1>9 DEF OtherMove
<1>10. CASE TakeMove(t, S, s, u)
  <2>1. u.held = <<E[j]>> /\ u.taken = D[j + 1] /\ u.tokens = Passed(E, j)
    BY <1>1, <1>2, <1>3, <1>4, <1>10 DEF TakeMove
  <2>2. HasLexeme(X, E, D, j, u)
    BY <2>1 DEF HasLexeme
  <2>3. QED
    BY <2>2 DEF InRow
<1>11. QED
  BY <1>7, <1>8, <1>9, <1>10 DEF JoinMove

LEMMA JoinsFraction ==
  ASSUME NEW X, NEW Q, NEW E, NEW S, NEW D, NEW t, Row(X, Q, E, S, D, t), NEW j \in 1 .. Len(X), NEW s, NEW u,
         Fraction(X[j]), AtLexeme(X, E, D, j, s), JoinMove(t, S, s, u)
  PROVE  InRow(X, Q, E, D, u)
<1>1. /\ Len(X) \in Nat /\ D[j] \in Nat /\ Len(S) \in Nat /\ D[j + 1] \in Nat /\ D[j + 1] = D[j] + Len(Q[j])
      /\ Kind(X[j], Q[j], E[j], t)
      /\ \A i \in 1 .. Len(Q[j]) : S[D[j] + i] = Q[j][i]
  BY RowAt
<1>2. /\ Len(Q[j]) = 3 /\ Q[j][1].type = "number" /\ DotAt(t, Q[j][2]) /\ Q[j][3].type = "number"
      /\ Both("number", Both("number", Q[j][1], Q[j][2]), Q[j][3]) = E[j]
  BY <1>1 DEF Kind
<1>3. S[D[j] + 1] = Q[j][1] /\ S[D[j] + 2] = Q[j][2] /\ S[D[j] + 3] = Q[j][3]
  <2>1. 1 \in 1 .. Len(Q[j]) /\ 2 \in 1 .. Len(Q[j]) /\ 3 \in 1 .. Len(Q[j])
    BY <1>2
  <2>2. QED
    BY <1>1, <2>1, Zenon
<1>4. s.tokens = Passed(E, j) /\ s.taken = D[j]
  BY DEF AtLexeme
<1>5. PICK a, b, c, left : /\ a = S[s.taken + 1] /\ b = S[s.taken + 2] /\ c = S[s.taken + 3]
                           /\ left = Len(S) - s.taken
  OBVIOUS
<1>6. a.type = "number" /\ DotAt(t, b) /\ c.type = "number" /\ Both("number", Both("number", a, b), c) = E[j]
  BY <1>2, <1>3, <1>4, <1>5
<1>7. left > 2
  <2>1. D[j + 1] <= Len(S)
    BY RowFits
  <2>2. QED
    BY <1>1, <1>2, <1>4, <1>5, <2>1
<1>8. NumberMove(t, S, s, u)
  BY <1>5, <1>6 DEF JoinMove, PointMove, OtherMove, TakeMove, DotAt
<1>9. Passes(s, u, <<Both("number", Both("number", a, b), c)>>, 3)
  <2>1. left # 1 /\ left # 2
    BY <1>7
  <2>2. QED
    BY <1>5, <1>6, <1>8, <2>1 DEF NumberMove
<1>10. D[j + 1] - s.taken = 3 /\ s.taken \in Nat
  BY <1>1, <1>2, <1>4
<1>11. QED
  BY <1>4, <1>6, <1>9, <1>10, Arrives

LEMMA JoinsHalf ==
  ASSUME NEW X, NEW Q, NEW E, NEW S, NEW D, NEW t, Row(X, Q, E, S, D, t), NEW j \in 1 .. Len(X), NEW s, NEW u,
         Joined(X[j]), AtLexeme(X, E, D, j, s), JoinMove(t, S, s, u)
  PROVE  InRow(X, Q, E, D, u)
<1>1. /\ D[j] \in Nat /\ Kind(X[j], Q[j], E[j], t)
      /\ \A i \in 1 .. Len(Q[j]) : S[D[j] + i] = Q[j][i]
  BY RowAt
<1>2. Len(Q[j]) = 2 /\ Q[j][1].type = "symbol" /\ ~DotAt(t, Q[j][1])
  BY <1>1 DEF Kind
<1>3. S[D[j] + 1] = Q[j][1]
  <2>1. 1 \in 1 .. Len(Q[j])
    BY <1>2
  <2>2. QED
    BY <1>1, <2>1, Zenon
<1>4. s.tokens = Passed(E, j) /\ s.taken = D[j]
  BY DEF AtLexeme
<1>5. TakeMove(t, S, s, u)
  BY <1>2, <1>3, <1>4 DEF JoinMove, NumberMove, PointMove, OtherMove
<1>6. HasHalf(X, Q, E, D, j, u)
  BY <1>3, <1>4, <1>5 DEF TakeMove, HasHalf
<1>7. QED
  BY <1>6 DEF InRow

LEMMA HandAlone ==
  ASSUME NEW X, NEW Q, NEW E, NEW S, NEW D, NEW t, Row(X, Q, E, S, D, t), NEW j \in 1 .. Len(X), NEW s, NEW u,
         HasLexeme(X, E, D, j, s), HandMove(t, S, s, u)
  PROVE  InRow(X, Q, E, D, u)
<1>1. Single(X[j]) /\ s.held = <<E[j]>> /\ s.taken = D[j + 1] /\ s.tokens = Passed(E, j)
  BY DEF HasLexeme
<1>2. /\ D[j] \in Nat /\ Len(S) \in Nat /\ D[j + 1] \in Nat
      /\ (Written(t, E[j]) \in Range(Operators) => MayJoin(X[j]))
  BY <1>1, NextAlone
<1>3. s.held[1] = E[j]
  BY <1>1
<1>4. D[j + 1] - s.taken = 0 /\ s.taken \in Nat
  BY <1>1, <1>2
<1>5. ASSUME Passes(s, u, <<E[j]>>, 0) PROVE InRow(X, Q, E, D, u)
  BY <1>1, <1>4, <1>5, Arrives
<1>6. CASE GoMove(t, S, s, u)
  BY <1>3, <1>5, <1>6 DEF GoMove
<1>7. ASSUME NEW k \in DOMAIN Operators, OperatorMove(t, S, s, u, k) PROVE InRow(X, Q, E, D, u)
  <2>1. PICK a, left, m : a = S[s.taken + 1] /\ left = Len(S) - s.taken /\ m = j + 1
    OBVIOUS
  <2>2. Written(t, E[j]) = Operators[k]
    BY <1>3, <1>7 DEF OperatorMove
  <2>3. MayJoin(X[j])
    BY <1>2, <2>2 DEF Range
  <2>4. CASE left = 0 /\ Passes(s, u, <<E[j]>>, 0)
    BY <1>5, <2>4
  <2>5. CASE left > 0
    <3>1. m \in 1 .. Len(X) /\ S[D[m] + 1] = Q[m][1] /\ Beside(X[j], X[m])
      BY <1>1, <2>1, <2>5, SecondIs
    <3>2. Single(X[m]) /\ ~MayJoin(X[m]) /\ X[m].chars # <<"=">>
      BY <2>3, <3>1 DEF Beside, Single
    <3>3. /\ S[D[m] + 1] = E[m] /\ E[m].type = X[m].type /\ D[m + 1] = D[m] + 1 /\ D[m] \in Nat
          /\ (Written(t, E[m]) \in Range(Operators) => MayJoin(X[m])) /\ (X[m].type = "symbol" => Written(t, E[m]) = X[m].chars)
      BY <3>1, <3>2, NextAlone
    <3>4. a = E[m]
      BY <1>1, <2>1, <3>3
    <3>5. ~HalfIs(t, k, a)
      <4>1. SUFFICES ASSUME HalfIs(t, k, a) PROVE FALSE
        OBVIOUS
      <4>2. X[m].type = "symbol" /\ X[m].chars \in Halves(Operators[k])
        BY <3>3, <3>4, <4>1 DEF HalfIs
      <4>3. Halves(Operators[k]) \subseteq {Operators[k], <<"=">>}
        BY DEF Halves
      <4>4. X[m].chars \in Range(Operators)
        BY <3>2, <4>2, <4>3 DEF Range
      <4>5. QED
        BY <3>2, <3>3, <4>2, <4>4
    <3>6. u.tokens = s.tokens \o <<E[j]>> /\ u.held = <<E[m]>> /\ u.taken = s.taken + 1
      BY <1>3, <1>7, <2>1, <2>5, <3>4, <3>5 DEF OperatorMove
    <3>7. u.tokens = Passed(E, m)
      BY <1>1, <2>1, <3>6, PassedMore
    <3>8. u.taken = D[m + 1]
      BY <1>1, <2>1, <3>3, <3>6
    <3>9. HasLexeme(X, E, D, m, u)
      BY <3>1, <3>2, <3>6, <3>7, <3>8 DEF HasLexeme
    <3>10. QED
      BY <3>9 DEF InRow
  <2>6. QED
    BY <1>3, <1>7, <2>1, <2>4, <2>5 DEF OperatorMove
<1>8. QED
  BY <1>6, <1>7 DEF HandMove

LEMMA HandHalf ==
  ASSUME NEW X, NEW Q, NEW E, NEW S, NEW D, NEW t, Row(X, Q, E, S, D, t), NEW j \in 1 .. Len(X), NEW s, NEW u,
         HasHalf(X, Q, E, D, j, s), HandMove(t, S, s, u)
  PROVE  InRow(X, Q, E, D, u)
<1>1. Joined(X[j]) /\ s.held = <<Q[j][1]>> /\ s.taken = D[j] + 1 /\ s.tokens = Passed(E, j) /\ s.rank = 1
  BY DEF HasHalf
<1>2. /\ D[j] \in Nat /\ Len(S) \in Nat /\ D[j + 1] \in Nat /\ D[j + 1] = D[j] + Len(Q[j]) /\ Kind(X[j], Q[j], E[j], t)
      /\ \A i \in 1 .. Len(Q[j]) : S[D[j] + i] = Q[j][i]
  BY RowAt
<1>3. /\ Len(Q[j]) = 2 /\ Q[j][2].type = "symbol" /\ Both("symbol", Q[j][1], Q[j][2]) = E[j]
      /\ \E k \in DOMAIN Operators : Written(t, Q[j][1]) = Operators[k] /\ Written(t, Q[j][2]) \in Halves(Operators[k])
  BY <1>1, <1>2 DEF Kind
<1>4. PICK n \in DOMAIN Operators : Written(t, Q[j][1]) = Operators[n] /\ Written(t, Q[j][2]) \in Halves(Operators[n])
  BY <1>3
<1>5. PICK a, x, left : a = S[s.taken + 1] /\ x = s.held[1] /\ left = Len(S) - s.taken
  OBVIOUS
<1>6. x = Q[j][1]
  BY <1>1, <1>5
<1>7. a = Q[j][2]
  <2>1. 2 \in 1 .. Len(Q[j])
    BY <1>3
  <2>2. S[D[j] + 2] = Q[j][2]
    BY <1>2, <2>1, Zenon
  <2>3. s.taken + 1 = D[j] + 2
    BY <1>1, <1>2
  <2>4. QED
    BY <1>5, <2>2, <2>3
<1>8. left > 0
  <2>1. D[j + 1] <= Len(S)
    BY RowFits
  <2>2. QED
    BY <1>1, <1>2, <1>3, <1>5, <2>1
<1>9. ~GoMove(t, S, s, u)
  <2>1. Len(Operators) = 11 /\ DOMAIN Operators = 1 .. 11
    BY OperatorCount DEF Operators
  <2>2. n \in s.rank .. Len(Operators)
    BY <1>1, <2>1
  <2>3. QED
    BY <1>4, <1>5, <1>6, <2>2 DEF GoMove
<1>10. PICK k \in DOMAIN Operators : OperatorMove(t, S, s, u, k)
  BY <1>9 DEF HandMove
<1>11. Operators[k] = Operators[n]
  BY <1>4, <1>5, <1>6, <1>10 DEF OperatorMove
<1>12. HalfIs(t, k, a)
  BY <1>3, <1>4, <1>7, <1>11 DEF HalfIs
<1>13. Passes(s, u, <<Both("symbol", x, a)>>, 1)
  <2>1. left # 0
    BY <1>8
  <2>2. QED
    BY <1>5, <1>10, <1>12, <2>1 DEF OperatorMove
<1>14. D[j + 1] - s.taken = 1 /\ s.taken \in Nat
  BY <1>1, <1>2, <1>3
<1>15. QED
  BY <1>1, <1>3, <1>6, <1>7, <1>13, <1>14, Arrives

LEMMA RowMoves ==
  ASSUME NEW X, NEW Q, NEW E, NEW S, NEW D, NEW t, Row(X, Q, E, S, D, t), NEW s, NEW u, InRow(X, Q, E, D, s),
         JoinMove(t, S, s, u) \/ HandMove(t, S, s, u)
  PROVE  InRow(X, Q, E, D, u)
<1>1. PICK j : AtLexeme(X, E, D, j, s) \/ HasLexeme(X, E, D, j, s) \/ HasHalf(X, Q, E, D, j, s)
  BY DEF InRow
<1>2. CASE AtLexeme(X, E, D, j, s)
  <2>1. j \in 1 .. Len(X) + 1 /\ s.held = <<>> /\ s.taken = D[j]
    BY <1>2 DEF AtLexeme
  <2>2. JoinMove(t, S, s, u) /\ Len(S) - s.taken > 0
    BY <2>1 DEF HandMove, JoinMove
  <2>3. j \in 1 .. Len(X)
    <3>1. Len(X) \in Nat /\ Len(S) \in Nat /\ D[Len(X) + 1] = Len(S)
      BY DEF Row
    <3>2. j # Len(X) + 1
      BY <2>1, <2>2, <3>1
    <3>3. QED
      BY <2>1, <3>1, <3>2
  <2>4. Single(X[j]) \/ Fraction(X[j]) \/ Joined(X[j])
    BY DEF Single
  <2>5. QED
    BY <1>2, <2>2, <2>3, <2>4, JoinsAlone, JoinsFraction, JoinsHalf
<1>3. CASE HasLexeme(X, E, D, j, s)
  <2>1. s.held # <<>> /\ j \in 1 .. Len(X)
    BY <1>3 DEF HasLexeme
  <2>2. HandMove(t, S, s, u)
    BY <2>1 DEF JoinMove
  <2>3. QED
    BY <1>3, <2>1, <2>2, HandAlone
<1>4. CASE HasHalf(X, Q, E, D, j, s)
  <2>1. s.held # <<>> /\ j \in 1 .. Len(X)
    BY <1>4 DEF HasHalf
  <2>2. HandMove(t, S, s, u)
    BY <2>1 DEF JoinMove
  <2>3. QED
    BY <1>4, <2>1, <2>2, HandHalf
<1>5. QED
  BY <1>1, <1>2, <1>3, <1>4

(* When nothing is left, all lexemes are passed on. *)
LEMMA RowEnds ==
  ASSUME NEW X, NEW Q, NEW E, NEW S, NEW D, NEW t, Row(X, Q, E, S, D, t), NEW s, InRow(X, Q, E, D, s),
         s.held = <<>>, Len(S) - s.taken = 0
  PROVE  s.tokens = E
<1>1. PICK j : AtLexeme(X, E, D, j, s)
  BY DEF InRow, HasLexeme, HasHalf
<1>2. j \in 1 .. Len(X) + 1 /\ s.taken = D[j] /\ s.tokens = Passed(E, j)
  BY <1>1 DEF AtLexeme
<1>3. Len(X) \in Nat /\ Len(S) \in Nat /\ E \in Seq(AnyPart) /\ Len(E) = Len(X)
  BY DEF Row
<1>4. j = Len(X) + 1
  <2>1. SUFFICES ASSUME j # Len(X) + 1 PROVE FALSE
    OBVIOUS
  <2>2. j \in 1 .. Len(X)
    BY <1>2, <1>3, <2>1
  <2>3. D[j] < Len(S) /\ D[j] \in Nat
    BY <2>2, RowFits, RowAt
  <2>4. QED
    BY <1>2, <1>3, <2>3
<1>5. SubSeq(E, 1, (Len(X) + 1) - 1) = E
  BY <1>3
<1>6. QED
  BY <1>2, <1>4, <1>5 DEF Passed

----------------------------------------------------------------------------
(***************************************************************************)
(* What is expected of a piece, and its parts.                             *)
(***************************************************************************)
Hoped(p, b) == Part(p.type, [i \in DOMAIN p.kept |-> b + p.kept[i]])

LEMMA RunText ==
  ASSUME NEW t, NEW type, NEW a \in Nat, NEW m \in Nat
  PROVE  /\ Written(t, Part(type, Run(a, m))) = [i \in 1 .. m |-> t[a + i]]
         /\ m = 1 => Written(t, Part(type, Run(a, m))) = <<t[a + 1]>>
         /\ m = 2 => Written(t, Part(type, Run(a, m))) = <<t[a + 1], t[a + 2]>>
<1>1. Written(t, Part(type, Run(a, m))) = [i \in 1 .. m |-> t[a + i]]
  <2>1. Part(type, Run(a, m)).at = Run(a, m) /\ DOMAIN Run(a, m) = 1 .. m
    BY DEF Part, Run
  <2>2. \A i \in 1 .. m : Run(a, m)[i] = a + i
    BY DEF Run
  <2>3. QED
    BY <2>1, <2>2 DEF Written
<1>2. ASSUME m = 1 PROVE [i \in 1 .. m |-> t[a + i]] = <<t[a + 1]>>
  BY <1>2
<1>3. ASSUME m = 2 PROVE [i \in 1 .. m |-> t[a + i]] = <<t[a + 1], t[a + 2]>>
  BY <1>3
<1>4. QED
  BY <1>1, <1>2, <1>3

LEMMA RunConcat ==
  ASSUME NEW a \in Nat, NEW m \in Nat, NEW k \in Nat
  PROVE  Run(a, m) \o Run(a + m, k) = Run(a, m + k)
<1>1. PICK x, y, z : x = Run(a, m) /\ y = Run(a + m, k) /\ z = Run(a, m + k)
  OBVIOUS
<1>2. a + m \in Nat /\ m + k \in Nat
  OBVIOUS
<1>3. /\ x \in Seq(Nat) /\ y \in Seq(Nat) /\ z \in Seq(Nat) /\ Len(x) = m /\ Len(y) = k /\ Len(z) = m + k
  BY <1>1, <1>2, Runs
<1>4. /\ \A i \in 1 .. m : x[i] = a + i
      /\ \A i \in 1 .. k : y[i] = (a + m) + i
      /\ \A i \in 1 .. m + k : z[i] = a + i
  BY <1>1 DEF Run
<1>5. PICK w : w = x \o y
  OBVIOUS
<1>6. /\ w \in Seq(Nat) /\ Len(w) = Len(x) + Len(y)
      /\ \A i \in 1 .. Len(x) + Len(y) : w[i] = IF i <= Len(x) THEN x[i] ELSE y[i - Len(x)]
  BY <1>3, <1>5, ConcatProperties, Zenon
<1>7. ASSUME NEW i \in 1 .. m + k PROVE w[i] = z[i]
  <2>1. CASE i <= m
    <3>1. i \in 1 .. m
      BY <2>1
    <3>2. QED
      BY <1>3, <1>4, <1>6, <2>1, <3>1
  <2>2. CASE ~(i <= m)
    <3>1. i - m \in 1 .. k /\ (a + m) + (i - m) = a + i
      BY <2>2
    <3>2. w[i] = y[i - m]
      BY <1>3, <1>6, <2>2
    <3>3. y[i - m] = (a + m) + (i - m)
      BY <1>4, <3>1
    <3>4. QED
      BY <1>4, <3>1, <3>2, <3>3
  <2>3. QED
    BY <2>1, <2>2
<1>8. Len(w) = Len(z)
  BY <1>3, <1>6
<1>9. \A i \in 1 .. Len(w) : w[i] = z[i]
  BY <1>3, <1>7, <1>8
<1>10. w = z
  BY <1>3, <1>6, <1>8, <1>9, SeqEqual
<1>11. QED
  BY <1>1, <1>5, <1>10

LEMMA HopedAll ==
  ASSUME NEW p, NEW b \in Nat, KeepsAll(p), DOMAIN p.chars = 1 .. Len(p.chars), Len(p.chars) \in Nat,
         p.chars \in Seq(Range(p.chars))
  PROVE  Hoped(p, b) = Part(p.type, Run(b, Len(p.chars)))
<1>1. PICK n : n = Len(p.chars)
  OBVIOUS
<1>2. p.kept = [k \in 1 .. n |-> k] /\ n \in Nat
  BY <1>1 DEF KeepsAll
<1>3. DOMAIN p.kept = 1 .. n /\ \A i \in 1 .. n : p.kept[i] = i
  BY <1>2
<1>4. [i \in DOMAIN p.kept |-> b + p.kept[i]] = Run(b, n)
  BY <1>3 DEF Run
<1>5. QED
  BY <1>1, <1>4 DEF Hoped

(* A piece that keeps all of its characters, where each has its meaning.   *)
LEMMA TellsAll ==
  ASSUME NEW p, NEW b \in Nat, NEW t, KeepsAll(p), DOMAIN p.chars = 1 .. Len(p.chars), Tells(p, b, t)
  PROVE  \A i \in 1 .. Len(p.chars) : t[b + i] = p.chars[i]
<1>1. p.kept = [k \in 1 .. Len(p.chars) |-> k] /\ p.meant = p.chars
  BY DEF KeepsAll
<1>2. DOMAIN p.kept = 1 .. Len(p.chars) /\ \A i \in 1 .. Len(p.chars) : p.kept[i] = i
  BY <1>1
<1>3. QED
  BY <1>1, <1>2 DEF Tells

LEMMA HopedText ==
  ASSUME NEW p, NEW b \in Nat, NEW t, Tells(p, b, t), p.meant \in Seq(Range(p.meant)), DOMAIN p.meant = DOMAIN p.kept
  PROVE  Written(t, Hoped(p, b)) = p.meant /\ Hoped(p, b).type = p.type
<1>1. PICK f : f = [i \in DOMAIN p.kept |-> b + p.kept[i]]
  OBVIOUS
<1>2. Hoped(p, b).at = f /\ Hoped(p, b).type = p.type
  BY <1>1 DEF Hoped, Part
<1>3. DOMAIN f = DOMAIN p.kept /\ \A k \in DOMAIN p.kept : f[k] = b + p.kept[k]
  BY <1>1
<1>4. \A k \in DOMAIN p.kept : t[f[k]] = p.meant[k]
  BY <1>3 DEF Tells
<1>5. Written(t, Hoped(p, b)) = [k \in DOMAIN p.meant |-> p.meant[k]]
  BY <1>2, <1>3, <1>4 DEF Written
<1>6. PICK c, M : c = p.meant /\ M = Range(p.meant)
  OBVIOUS
<1>7. c = [k \in DOMAIN c |-> c[k]]
  <2>1. c \in Seq(M)
    BY <1>6
  <2>2. QED
    BY <2>1
<1>8. QED
  BY <1>2, <1>5, <1>6, <1>7

LEMMA PiecesAre ==
  ASSUME NEW p, NEW counts, PieceWritten(p, counts)
  PROVE  /\ p.type \in {"word", "number", "symbol", "string", "none"} /\ KeepsOwn(p) /\ p.chars \in Seq(Range(p.chars))
         /\ p.meant \in Seq(Range(p.meant)) /\ DOMAIN p.meant = DOMAIN p.kept
         /\ p.type \in {"word", "number", "symbol"} => KeepsAll(p)
         /\ p.type = "number" => NumberWritten(p)
         /\ p.type = "none" => p.kept = <<>>
<1>1. /\ p.type \in {"word", "number", "symbol", "string", "none"} /\ KeepsOwn(p) /\ p.chars \in Seq(Range(p.chars))
      /\ p.meant \in Seq(Range(p.meant))
  BY DEF PieceWritten, KeepsOwn
<1>2. p.type = "word" => KeepsAll(p)
  BY DEF PieceWritten
<1>3. p.type = "number" => KeepsAll(p) /\ NumberWritten(p)
  BY DEF PieceWritten
<1>4. p.type = "symbol" => KeepsAll(p)
  BY DEF PieceWritten
<1>5. p.type = "none" => p.kept = <<>> /\ p.meant = <<>>
  BY DEF PieceWritten
<1>6. p.type = "string" => DOMAIN p.meant = DOMAIN p.kept
  BY DEF PieceWritten, StringWritten
<1>7. KeepsAll(p) => DOMAIN p.meant = DOMAIN p.kept
  BY DEF KeepsAll
<1>8. DOMAIN p.meant = DOMAIN p.kept
  BY <1>1, <1>2, <1>3, <1>4, <1>5, <1>6, <1>7
<1>9. QED
  BY <1>1, <1>2, <1>3, <1>4, <1>5, <1>8

LEMMA SingleParts ==
  ASSUME NEW p, NEW b \in Nat, NEW counts, PieceWritten(p, counts), p.type # "none", Single(p),
         DOMAIN p.chars = 1 .. Len(p.chars), Len(p.chars) \in Nat
  PROVE  Len(PartsOf(p, b)) = 1 /\ PartsOf(p, b)[1] = Hoped(p, b)
<1>1. CASE p.type \in {"word", "number", "symbol"}
  <2>1. Hoped(p, b) = Part(p.type, Run(b, Len(p.chars)))
    BY <1>1, PiecesAre, HopedAll
  <2>2. PartsOf(p, b) = <<Part(p.type, Run(b, Len(p.chars)))>>
    BY <1>1 DEF PartsOf, Single
  <2>3. QED
    BY <2>1, <2>2
<1>2. CASE p.type = "string"
  <2>1. PartsOf(p, b) = <<Hoped(p, b)>>
    BY <1>2 DEF PartsOf, Hoped
  <2>2. QED
    BY <2>1
<1>3. QED
  BY <1>1, <1>2, PiecesAre

LEMMA SingleKind ==
  ASSUME NEW p, NEW b \in Nat, NEW counts, NEW t, PieceWritten(p, counts), p.type # "none", Single(p),
         DOMAIN p.chars = 1 .. Len(p.chars), Len(p.chars) \in Nat, Tells(p, b, t)
  PROVE  Kind(p, PartsOf(p, b), Hoped(p, b), t)
<1>1. Len(PartsOf(p, b)) = 1 /\ PartsOf(p, b)[1] = Hoped(p, b)
  BY SingleParts
<1>2. Written(t, Hoped(p, b)) = p.meant /\ Hoped(p, b).type = p.type
  BY PiecesAre, HopedText
<1>3. p.type \in {"word", "number", "symbol", "string"}
  BY PiecesAre
<1>4. p.type = "symbol" => p.meant = p.chars
  BY PiecesAre DEF KeepsAll
<1>5. p.meant \in Range(Operators) => MayJoin(p)
  BY Zenon DEF MayJoin
<1>6. ~Fraction(p) /\ ~Joined(p)
  BY DEF Single
<1>7. QED
  BY <1>1, <1>2, <1>3, <1>4, <1>5, <1>6 DEF Kind

LEMMA FractionKind ==
  ASSUME NEW p, NEW b \in Nat, NEW counts, NEW t, PieceWritten(p, counts), p.type = "number", Fraction(p),
         DOMAIN p.chars = 1 .. Len(p.chars), Len(p.chars) \in Nat, Tells(p, b, t)
  PROVE  Kind(p, PartsOf(p, b), Hoped(p, b), t)
<1>1. PICK n, q : n = Len(p.chars) /\ q = PointAt(p)
  OBVIOUS
<1>2. q \in 2 .. n - 1 /\ p.chars[q] = "." /\ n \in Nat
  BY <1>1, PiecesAre, FractionIs
<1>3. PICK x, y, z : x = Part("number", Run(b, q - 1)) /\ y = Part("symbol", Run(b + q - 1, 1))
                     /\ z = Part("number", Run(b + q, n - q))
  OBVIOUS
<1>4. PartsOf(p, b) = <<x, y, z>>
  BY <1>1, <1>3 DEF PartsOf
<1>5. /\ q - 1 \in Nat /\ n - q \in Nat /\ b + q - 1 \in Nat /\ (b + q - 1) + 1 = b + q /\ b + (q - 1) = b + q - 1
      /\ (q - 1) + 1 = q /\ q + (n - q) = n /\ 1 \in Nat /\ q \in Nat /\ q \in 1 .. n
  BY <1>2
<1>6. DotAt(t, y)
  <2>1. Written(t, y) = <<t[(b + q - 1) + 1]>>
    BY <1>3, <1>5, RunText
  <2>2. t[b + q] = "."
    <3>1. \A i \in 1 .. n : t[b + i] = p.chars[i]
      BY <1>1, PiecesAre, TellsAll
    <3>2. QED
      BY <1>2, <1>5, <3>1
  <2>3. y.type = "symbol"
    BY <1>3 DEF Part
  <2>4. Written(t, y) = <<".">>
    BY <1>5, <2>1, <2>2
  <2>5. QED
    BY <2>3, <2>4 DEF DotAt, Point
<1>7. Both("number", Both("number", x, y), z) = Part("number", Run(b, n))
  <2>1. Run(b, q - 1) \o Run(b + q - 1, 1) = Run(b, q)
    <3>1. Run(b, q - 1) \o Run(b + (q - 1), 1) = Run(b, (q - 1) + 1)
      BY <1>5, RunConcat, Zenon
    <3>2. QED
      BY <1>5, <3>1, Zenon
  <2>2. Run(b, q) \o Run(b + q, n - q) = Run(b, n)
    <3>1. Run(b, q) \o Run(b + q, n - q) = Run(b, q + (n - q))
      BY <1>5, RunConcat, Zenon
    <3>2. QED
      BY <1>5, <3>1, Zenon
  <2>3. Both("number", x, y) = Part("number", Run(b, q))
    BY <1>3, <2>1 DEF Both, Part
  <2>4. QED
    BY <1>3, <2>2, <2>3 DEF Both, Part
<1>8. Hoped(p, b) = Part("number", Run(b, n))
  BY <1>1, PiecesAre, HopedAll
<1>9. x.type = "number" /\ z.type = "number"
  BY <1>3 DEF Part
<1>10. ~Joined(p) /\ ~Single(p)
  BY DEF Joined, Single
<1>11. PICK Q : Q = PartsOf(p, b)
  OBVIOUS
<1>12. Len(Q) = 3 /\ Q[1] = x /\ Q[2] = y /\ Q[3] = z
  BY <1>4, <1>11
<1>13. QED
  BY <1>6, <1>7, <1>8, <1>9, <1>10, <1>11, <1>12 DEF Kind

LEMMA JoinedKind ==
  ASSUME NEW p, NEW b \in Nat, NEW counts, NEW t, PieceWritten(p, counts), p.type = "symbol", Joined(p),
         DOMAIN p.chars = 1 .. Len(p.chars), Len(p.chars) \in Nat, Tells(p, b, t)
  PROVE  Kind(p, PartsOf(p, b), Hoped(p, b), t)
<1>1. PICK n : n = Len(p.chars)
  OBVIOUS
<1>2. PICK x, y : x = Part("symbol", Run(b, n - 1)) /\ y = Part("symbol", Run(b + n - 1, 1))
  OBVIOUS
<1>3. PartsOf(p, b) = <<x, y>>
  BY <1>1, <1>2 DEF PartsOf
<1>4. PICK k \in DOMAIN Operators : \E h \in Halves(Operators[k]) : p.chars = Operators[k] \o h
  BY DEF Joined
<1>5. PICK h \in Halves(Operators[k]) : p.chars = Operators[k] \o h
  BY <1>4
<1>6. n \in {2, 3} /\ Written(t, x) = Operators[k] /\ Written(t, y) = h /\ Operators[k] # Point
  <2>0. \A i \in 1 .. n : t[b + i] = p.chars[i]
    BY <1>1, PiecesAre, TellsAll
  <2>1. \/ \E c \in Opening : Operators[k] = <<c>> /\ (c \notin {"+", "-"} => Halves(Operators[k]) = {<<"=">>})
                              /\ (c \in {"+", "-"} => Halves(Operators[k]) = {<<c>>, <<"=">>})
        \/ \E c \in Doubled : Operators[k] = <<c, c>> /\ Halves(Operators[k]) = {<<"=">>}
    BY OperatorsAre
  <2>2. CASE \E c \in Opening : Operators[k] = <<c>> /\ (c \notin {"+", "-"} => Halves(Operators[k]) = {<<"=">>})
                                /\ (c \in {"+", "-"} => Halves(Operators[k]) = {<<c>>, <<"=">>})
    <3>1. PICK c \in Opening : Operators[k] = <<c>> /\ (c \notin {"+", "-"} => Halves(Operators[k]) = {<<"=">>})
                                /\ (c \in {"+", "-"} => Halves(Operators[k]) = {<<c>>, <<"=">>})
      BY <2>2
    <3>2. h = <<"=">> \/ h = <<c>>
      BY <3>1
    <3>3. PICK d : h = <<d>>
      BY <3>2
    <3>4. p.chars = <<c>> \o <<d>>
      BY <1>5, <3>1, <3>3, Zenon
    <3>5. p.chars = <<c, d>>
      BY <3>4, FewTogether, Zenon
    <3>6. n = 2 /\ p.chars[1] = c /\ p.chars[2] = d
      BY <1>1, <3>5
    <3>7. t[b + 1] = c /\ t[b + 2] = d
      BY <2>0, <3>6
    <3>8. n - 1 = 1 /\ b + n - 1 = b + 1 /\ b + 1 \in Nat /\ (b + 1) + 1 = b + 2
      BY <3>6
    <3>9. Written(t, x) = <<c>>
      BY <1>2, <3>7, <3>8, RunText
    <3>10. Written(t, y) = <<d>>
      BY <1>2, <3>7, <3>8, RunText
    <3>11. <<c>> # Point
      <4>1. c # "."
        BY <3>1 DEF Opening
      <4>2. QED
        BY <4>1 DEF Point
    <3>12. QED
      BY <3>1, <3>3, <3>6, <3>9, <3>10, <3>11
  <2>3. CASE \E c \in Doubled : Operators[k] = <<c, c>> /\ Halves(Operators[k]) = {<<"=">>}
    <3>1. PICK c \in Doubled : Operators[k] = <<c, c>> /\ Halves(Operators[k]) = {<<"=">>}
      BY <2>3
    <3>2. h = <<"=">>
      BY <3>1
    <3>4. p.chars = <<c, c>> \o <<"=">>
      BY <1>5, <3>1, <3>2, Zenon
    <3>5. p.chars = <<c, c, "=">>
      BY <3>4, FewTogether, Zenon
    <3>6. n = 3 /\ p.chars[1] = c /\ p.chars[2] = c /\ p.chars[3] = "="
      BY <1>1, <3>5
    <3>7. t[b + 1] = c /\ t[b + 2] = c /\ t[b + 3] = "="
      BY <2>0, <3>6
    <3>8. n - 1 = 2 /\ b + n - 1 = b + 2 /\ b + 2 \in Nat /\ (b + 2) + 1 = b + 3
      BY <3>6
    <3>9. Written(t, x) = <<c, c>>
      BY <1>2, <3>7, <3>8, RunText
    <3>10. Written(t, y) = <<"=">>
      BY <1>2, <3>7, <3>8, RunText
    <3>11. <<c, c>> # Point
      BY DEF Point
    <3>12. QED
      BY <3>1, <3>2, <3>6, <3>9, <3>10, <3>11
  <2>4. QED
    BY <2>1, <2>2, <2>3
<1>7. Both("symbol", x, y) = Part("symbol", Run(b, n))
  <2>1. n - 1 \in Nat /\ 1 \in Nat /\ b + (n - 1) = b + n - 1 /\ (n - 1) + 1 = n
    BY <1>6
  <2>2. Run(b, n - 1) \o Run(b + n - 1, 1) = Run(b, n)
    <3>1. Run(b, n - 1) \o Run(b + (n - 1), 1) = Run(b, (n - 1) + 1)
      BY <2>1, RunConcat, Zenon
    <3>2. QED
      BY <2>1, <3>1, Zenon
  <2>3. QED
    BY <1>2, <2>2 DEF Both, Part
<1>8. Hoped(p, b) = Part("symbol", Run(b, n))
  BY <1>1, PiecesAre, HopedAll
<1>9. x.type = "symbol" /\ y.type = "symbol" /\ ~DotAt(t, x)
  BY <1>2, <1>6 DEF Part, DotAt
<1>10. ~Fraction(p) /\ ~Single(p)
  BY DEF Fraction, Single
<1>11. PICK Q : Q = PartsOf(p, b)
  OBVIOUS
<1>12. Len(Q) = 2 /\ Q[1] = x /\ Q[2] = y
  BY <1>3, <1>11
<1>13. \E i \in DOMAIN Operators : Written(t, Q[1]) = Operators[i] /\ Written(t, Q[2]) \in Halves(Operators[i])
  BY <1>5, <1>6, <1>12
<1>14. QED
  BY <1>7, <1>8, <1>9, <1>10, <1>11, <1>12, <1>13 DEF Kind

LEMMA KindHolds ==
  ASSUME NEW p, NEW b \in Nat, NEW counts, NEW t, PieceWritten(p, counts), p.type # "none",
         DOMAIN p.chars = 1 .. Len(p.chars), Len(p.chars) \in Nat, Tells(p, b, t)
  PROVE  Kind(p, PartsOf(p, b), Hoped(p, b), t)
<1>1. Single(p) \/ (p.type = "number" /\ Fraction(p)) \/ (p.type = "symbol" /\ Joined(p))
  BY DEF Single, Fraction, Joined
<1>2. QED
  BY <1>1, SingleKind, FractionKind, JoinedKind

(***************************************************************************)
(* The lexemes among the pieces.                                           *)
(***************************************************************************)
Marks(P)    == [k \in DOMAIN P |-> IF P[k].type = "none" THEN <<>> ELSE <<k>>]
Marked(P)   == FlattenSeq(Marks(P))
Chosen(A, I) == [j \in DOMAIN I |-> A[I[j]]]

LEMMA ChosenMore ==
  ASSUME NEW W, NEW A \in Seq(W), NEW I \in Seq(1 .. Len(A)), NEW x \in 1 .. Len(A)
  PROVE  Chosen(A, I) \in Seq(W) /\ Chosen(A, I \o <<x>>) = Append(Chosen(A, I), A[x])
<1>1. PICK N, n : N = 1 .. Len(A) /\ n = Len(I)
  OBVIOUS
<1>2. n \in Nat /\ DOMAIN I = 1 .. n /\ \A j \in 1 .. n : I[j] \in N
  BY <1>1
<1>3. \A i \in N : A[i] \in W
  BY <1>1
<1>4. PICK J : J = Append(I, x)
  OBVIOUS
<1>5. I \o <<x>> = J
  <2>1. I \in Seq(N) /\ x \in N
    BY <1>1
  <2>2. I \o <<x>> = Append(I, x)
    BY <2>1
  <2>3. QED
    BY <1>4, <2>2
<1>6. Len(J) = n + 1 /\ DOMAIN J = 1 .. n + 1 /\ J[n + 1] = x /\ \A j \in 1 .. n : J[j] = I[j]
  BY <1>1, <1>4
<1>7. PICK c, d : c = Chosen(A, I) /\ d = Chosen(A, J)
  OBVIOUS
<1>8. c = [j \in 1 .. n |-> A[I[j]]] /\ d = [j \in 1 .. n + 1 |-> A[J[j]]]
  BY <1>2, <1>6, <1>7 DEF Chosen
<1>9. \A j \in 1 .. n : A[I[j]] \in W
  BY <1>2, <1>3
<1>10. c \in Seq(W) /\ Len(c) = n /\ \A j \in 1 .. n : c[j] = A[I[j]]
  BY <1>2, <1>8, <1>9
<1>11. A[x] \in W
  BY <1>1, <1>3
<1>12. \A j \in 1 .. n + 1 : A[J[j]] \in W /\ (j \in 1 .. n => A[J[j]] = c[j]) /\ (j = n + 1 => A[J[j]] = A[x])
  <2>1. TAKE j \in 1 .. n + 1
  <2>2. CASE j \in 1 .. n
    BY <1>2, <1>6, <1>9, <1>10, <2>2
  <2>3. CASE j = n + 1
    BY <1>2, <1>6, <1>11, <2>3
  <2>4. QED
    BY <1>2, <2>2, <2>3
<1>13. d \in Seq(W) /\ Len(d) = n + 1 /\ \A j \in 1 .. n + 1 : d[j] = A[J[j]]
  <2>1. \A j \in 1 .. n + 1 : A[J[j]] \in W
    BY <1>12
  <2>2. n + 1 \in Nat
    BY <1>2
  <2>3. QED
    BY <1>8, <2>1, <2>2
<1>14. d = Append(c, A[x])
  <2>1. PICK e : e = Append(c, A[x])
    OBVIOUS
  <2>2. e \in Seq(W) /\ Len(e) = n + 1 /\ e[n + 1] = A[x] /\ \A j \in 1 .. n : e[j] = c[j]
    BY <1>2, <1>10, <1>11, <2>1
  <2>3. \A j \in 1 .. n + 1 : d[j] = e[j]
    <3>1. TAKE j \in 1 .. n + 1
    <3>2. j \in 1 .. n \/ j = n + 1
      BY <1>2
    <3>3. QED
      BY <1>12, <1>13, <2>2, <3>2
  <2>4. QED
    BY <1>13, <2>1, <2>2, <2>3, SeqEqual
<1>15. QED
  BY <1>5, <1>7, <1>10, <1>14

(* A marks a place by that place, and every other place is empty.          *)
MarkOf(A, M, k) == (M[k] = <<>> /\ A[k] = <<>>) \/ M[k] = <<k>>

Chooses(A, M, n) ==
  LET I == FlattenSeq(SubSeq(M, 1, n)) IN
  /\ I \in Seq(1 .. Len(A)) /\ \A j \in DOMAIN I : M[I[j]] = <<I[j]>>
  /\ FlattenSeq(Chosen(A, I)) = FlattenSeq(SubSeq(A, 1, n))

LEMMA ChoosesOne ==
  ASSUME NEW S, NEW A \in Seq(Seq(S)), NEW M \in Seq(Seq(1 .. Len(A))), Len(M) = Len(A),
         \A k \in 1 .. Len(A) : MarkOf(A, M, k), NEW n \in Nat, n + 1 <= Len(A), Chooses(A, M, n)
  PROVE  Chooses(A, M, n + 1)
<1>1. PICK N, W, V, k : N = 1 .. Len(A) /\ W = Seq(S) /\ V = Seq(N) /\ k = n + 1
  OBVIOUS
<1>2. k \in N /\ k \in 1 .. Len(A) /\ k \in 1 .. Len(M) /\ k - 1 = n
  BY <1>1
<1>3. A \in Seq(W) /\ M \in Seq(V)
  BY <1>1
<1>4. PICK m, a, I : m = SubSeq(M, 1, n) /\ a = SubSeq(A, 1, n) /\ I = FlattenSeq(m)
  OBVIOUS
<1>5. m \in Seq(V) /\ M[k] \in V /\ SubSeq(M, 1, k) = Append(m, M[k])
  <2>1. SubSeq(M, 1, k - 1) \in Seq(V) /\ M[k] \in V /\ SubSeq(M, 1, k) = Append(SubSeq(M, 1, k - 1), M[k])
    BY <1>2, <1>3, Split
  <2>2. QED
    BY <1>2, <1>4, <2>1
<1>6. a \in Seq(W) /\ A[k] \in W /\ SubSeq(A, 1, k) = Append(a, A[k])
  <2>1. SubSeq(A, 1, k - 1) \in Seq(W) /\ A[k] \in W /\ SubSeq(A, 1, k) = Append(SubSeq(A, 1, k - 1), A[k])
    BY <1>2, <1>3, Split
  <2>2. QED
    BY <1>2, <1>4, <2>1
<1>7. FlattenSeq(SubSeq(M, 1, k)) = I \o M[k] /\ FlattenSeq(SubSeq(A, 1, k)) = FlattenSeq(a) \o A[k]
  <2>1. m \in Seq(Seq(N)) /\ M[k] \in Seq(N) /\ a \in Seq(Seq(S)) /\ A[k] \in Seq(S)
    BY <1>1, <1>5, <1>6
  <2>2. FlattenSeq(Append(m, M[k])) = FlattenSeq(m) \o M[k]
    BY <2>1, FlattenAppend
  <2>3. FlattenSeq(Append(a, A[k])) = FlattenSeq(a) \o A[k]
    BY <2>1, FlattenAppend
  <2>4. QED
    BY <1>4, <1>5, <1>6, <2>2, <2>3
<1>8. I \in Seq(N) /\ (\A j \in DOMAIN I : M[I[j]] = <<I[j]>>) /\ FlattenSeq(Chosen(A, I)) = FlattenSeq(a)
  BY <1>1, <1>4 DEF Chooses
<1>9. FlattenSeq(a) \in Seq(S)
  BY <1>1, <1>6, FlattenType
<1>10. CASE M[k] = <<>> /\ A[k] = <<>>
  <2>1. I \o <<>> = I
    BY <1>8
  <2>2. FlattenSeq(a) \o <<>> = FlattenSeq(a)
    BY <1>9
  <2>3. QED
    BY <1>1, <1>7, <1>8, <1>10, <2>1, <2>2 DEF Chooses
<1>11. CASE M[k] = <<k>>
  <2>1. PICK J : J = I \o <<k>>
    OBVIOUS
  <2>2. J \in Seq(N) /\ Len(J) = Len(I) + 1 /\ J[Len(I) + 1] = k /\ \A j \in 1 .. Len(I) : J[j] = I[j]
    BY <1>2, <1>8, <2>1
  <2>3. \A j \in DOMAIN J : M[J[j]] = <<J[j]>>
    <3>1. DOMAIN J = 1 .. Len(I) + 1 /\ DOMAIN I = 1 .. Len(I) /\ Len(I) \in Nat
      BY <1>8, <2>2
    <3>2. TAKE j \in DOMAIN J
    <3>3. j \in 1 .. Len(I) \/ j = Len(I) + 1
      <4>1. PICK i : i = Len(I)
        OBVIOUS
      <4>2. i \in Nat /\ j \in 1 .. i + 1
        BY <3>1, <4>1
      <4>3. j \in 1 .. i \/ j = i + 1
        BY <4>2
      <4>4. QED
        BY <4>1, <4>3
    <3>4. QED
      BY <1>8, <1>11, <2>2, <3>1, <3>3
  <2>4. Chosen(A, I) \in Seq(W) /\ Chosen(A, J) = Append(Chosen(A, I), A[k])
    BY <1>1, <1>2, <1>3, <1>8, <2>1, ChosenMore
  <2>5. FlattenSeq(Chosen(A, J)) = FlattenSeq(Chosen(A, I)) \o A[k]
    BY <1>1, <1>6, <2>4, FlattenAppend
  <2>6. FlattenSeq(Chosen(A, J)) = FlattenSeq(SubSeq(A, 1, k))
    BY <1>7, <1>8, <2>5
  <2>7. FlattenSeq(SubSeq(M, 1, k)) = J
    BY <1>7, <1>11, <2>1
  <2>8. QED
    BY <1>1, <2>2, <2>3, <2>6, <2>7 DEF Chooses
<1>12. MarkOf(A, M, k)
  BY <1>2
<1>13. QED
  BY <1>10, <1>11, <1>12 DEF MarkOf

LEMMA ChoosesAll ==
  ASSUME NEW S, NEW A \in Seq(Seq(S)), NEW M \in Seq(Seq(1 .. Len(A))), Len(M) = Len(A),
         \A k \in 1 .. Len(A) : MarkOf(A, M, k)
  PROVE  /\ FlattenSeq(M) \in Seq(1 .. Len(A)) /\ FlattenSeq(Chosen(A, FlattenSeq(M))) = FlattenSeq(A)
         /\ \A j \in DOMAIN FlattenSeq(M) : M[FlattenSeq(M)[j]] = <<FlattenSeq(M)[j]>>
<1> DEFINE T == {n \in Nat : n <= Len(A) => Chooses(A, M, n)}
<1>1. Len(A) \in Nat
  OBVIOUS
<1>2. 0 \in T
  <2>1. SubSeq(M, 1, 0) = <<>> /\ SubSeq(A, 1, 0) = <<>>
    BY <1>1
  <2>2. Chosen(A, <<>>) = <<>>
    BY DEF Chosen
  <2>3. <<>> \in Seq(1 .. Len(A)) /\ \A j \in DOMAIN <<>> : M[(<<>>)[j]] = <<(<<>>)[j]>>
    OBVIOUS
  <2>4. Chooses(A, M, 0)
    BY <2>1, <2>2, <2>3, FlattenEmpty DEF Chooses
  <2>5. QED
    BY <2>4
<1>3. ASSUME NEW n \in Nat, n \in T PROVE n + 1 \in T
  <2> SUFFICES ASSUME n + 1 <= Len(A) PROVE Chooses(A, M, n + 1)
    OBVIOUS
  <2>1. Chooses(A, M, n)
    BY <1>1, <1>3
  <2>2. QED
    BY <2>1, ChoosesOne
<1> HIDE DEF T
<1>4. Nat \subseteq T
  BY <1>2, <1>3, Counting
<1>5. Chooses(A, M, Len(A))
  BY <1>1, <1>4 DEF T
<1>6. SubSeq(M, 1, Len(A)) = M /\ SubSeq(A, 1, Len(A)) = A
  OBVIOUS
<1>7. QED
  BY <1>5, <1>6 DEF Chooses

(***************************************************************************)
(* The lexemes of a whole and Plain text, their parts and what is expected *)
(* of them are a row that the joiner passes on.                            *)
(***************************************************************************)
Lexical(P)   == Chosen(P, Marked(P))
RowParts(P)  == Chosen(AllParts(P), Marked(P))
RowHoped(P)  == [j \in DOMAIN Marked(P) |-> Hoped(Lexical(P)[j], Before(P, Marked(P)[j]))]
RowBefore(P) == [j \in 1 .. Len(Marked(P)) + 1 |-> Off(RowParts(P), j)]

LEMMA MarksFacts ==
  ASSUME NEW P, NEW counts, NEW t, WellWritten(P, counts), Layout(P, t)
  PROVE  /\ Marks(P) \in Seq(Seq(1 .. Len(AllParts(P)))) /\ Len(Marks(P)) = Len(AllParts(P))
         /\ \A k \in 1 .. Len(AllParts(P)) : MarkOf(AllParts(P), Marks(P), k)
         /\ \A k \in 1 .. Len(P) : Marks(P)[k] = (IF P[k].type = "none" THEN <<>> ELSE <<k>>)
<1>1. PICK n, A, V : n = Len(P) /\ A = AllParts(P) /\ V = Seq(1 .. n)
  OBVIOUS
<1>2. n \in Nat /\ DOMAIN P = 1 .. n
  BY <1>1 DEF Layout
<1>3. Len(A) = n /\ \A k \in 1 .. n : A[k] = PartsOf(P[k], Before(P, k))
  BY <1>1, AllPartsType
<1>4. \A k \in 1 .. n : (IF P[k].type = "none" THEN <<>> ELSE <<k>>) \in V
  <2>1. TAKE k \in 1 .. n
  <2>2. <<>> \in Seq(1 .. n) /\ <<k>> \in Seq(1 .. n)
    OBVIOUS
  <2>3. QED
    BY <1>1, <2>2
<1>5. PICK M : M = Marks(P)
  OBVIOUS
<1>6. M = [k \in 1 .. n |-> IF P[k].type = "none" THEN <<>> ELSE <<k>>]
  BY <1>2, <1>5 DEF Marks
<1>7. M \in Seq(V) /\ Len(M) = n /\ \A k \in 1 .. n : M[k] = (IF P[k].type = "none" THEN <<>> ELSE <<k>>)
  BY <1>2, <1>4, <1>6
<1>8. \A k \in 1 .. n : MarkOf(A, M, k)
  <2>1. TAKE k \in 1 .. n
  <2>2. P[k].type = "none" => A[k] = <<>>
    BY <1>3 DEF PartsOf
  <2>3. QED
    BY <1>7, <2>2 DEF MarkOf
<1>9. QED
  BY <1>1, <1>3, <1>5, <1>7, <1>8

LEMMA MarkedFacts ==
  ASSUME NEW P, NEW counts, NEW t, WellWritten(P, counts), Layout(P, t)
  PROVE  /\ Marked(P) \in Seq(1 .. Len(P))
         /\ FlattenSeq(RowParts(P)) = Sofar(P, Len(P) + 1)
         /\ \A j \in DOMAIN Marked(P) : Marked(P)[j] \in 1 .. Len(P) /\ P[Marked(P)[j]].type # "none"
<1>1. PICK A, M, I, n : A = AllParts(P) /\ M = Marks(P) /\ I = Marked(P) /\ n = Len(P)
  OBVIOUS
<1>2. /\ A \in Seq(Seq(AnyPart)) /\ Len(A) = n /\ n \in Nat
  BY <1>1, AllPartsType DEF Layout
<1>3. /\ M \in Seq(Seq(1 .. Len(A))) /\ Len(M) = Len(A) /\ (\A k \in 1 .. Len(A) : MarkOf(A, M, k))
      /\ \A k \in 1 .. n : M[k] = (IF P[k].type = "none" THEN <<>> ELSE <<k>>)
  BY <1>1, MarksFacts
<1>4. I = FlattenSeq(M)
  BY <1>1 DEF Marked
<1>5. I \in Seq(1 .. Len(A)) /\ FlattenSeq(Chosen(A, I)) = FlattenSeq(A) /\ \A j \in DOMAIN I : M[I[j]] = <<I[j]>>
  BY <1>2, <1>3, <1>4, ChoosesAll
<1>6. FlattenSeq(A) = Sofar(P, n + 1)
  <2>1. SubSeq(A, 1, (n + 1) - 1) = A
    BY <1>2
  <2>2. QED
    BY <1>1, <2>1 DEF Sofar
<1>7. \A j \in DOMAIN I : I[j] \in 1 .. n /\ P[I[j]].type # "none"
  <2>1. TAKE j \in DOMAIN I
  <2>2. I[j] \in 1 .. n
    BY <1>2, <1>5
  <2>3. M[I[j]] = <<I[j]>> /\ <<I[j]>> # <<>>
    BY <1>5
  <2>4. QED
    BY <1>3, <2>2, <2>3
<1>8. QED
  BY <1>1, <1>2, <1>5, <1>6, <1>7 DEF RowParts

LEMMA HopedType ==
  ASSUME NEW p, NEW b \in Nat, KeepsOwn(p), Len(p.chars) \in Nat, p.type \in {"word", "number", "symbol", "string"}
  PROVE  Hoped(p, b) \in AnyPart
<1>1. PICK f : f = [i \in DOMAIN p.kept |-> b + p.kept[i]]
  OBVIOUS
<1>2. p.kept \in Seq(Nat)
  BY WiderSeq DEF KeepsOwn
<1>3. \A i \in DOMAIN p.kept : b + p.kept[i] \in Nat
  <2>1. \A i \in DOMAIN p.kept : p.kept[i] \in Nat
    BY <1>2
  <2>2. QED
    BY <2>1
<1>4. DOMAIN p.kept = 1 .. Len(p.kept) /\ Len(p.kept) \in Nat
  BY <1>2
<1>5. f \in Seq(Nat)
  BY <1>1, <1>3, <1>4
<1>6. QED
  BY <1>1, <1>5, OnePart DEF Hoped

LEMMA RowHolds ==
  ASSUME NEW P, NEW counts, NEW t, NEW m, WellWritten(P, counts), Layout(P, t), AllTold(P, m),
         \A k \in 1 .. Len(Lexical(P)) - 1 : Beside(Lexical(P)[k], Lexical(P)[k + 1])
  PROVE  Row(Lexical(P), RowParts(P), RowHoped(P), Sofar(P, Len(P) + 1), RowBefore(P), m)
<1>1. PICK A, I, X, Q, E, S, D, n : /\ A = AllParts(P) /\ I = Marked(P) /\ X = Lexical(P) /\ Q = RowParts(P)
                                    /\ E = RowHoped(P) /\ S = Sofar(P, Len(P) + 1) /\ D = RowBefore(P) /\ n = Len(I)
  OBVIOUS
<1>2. /\ I \in Seq(1 .. Len(P)) /\ FlattenSeq(Q) = S /\ Len(P) \in Nat
      /\ \A j \in DOMAIN I : I[j] \in 1 .. Len(P) /\ P[I[j]].type # "none"
  BY <1>1, MarkedFacts DEF Layout
<1>3. /\ A \in Seq(Seq(AnyPart)) /\ Len(A) = Len(P)
      /\ \A k \in 1 .. Len(P) : A[k] = PartsOf(P[k], Before(P, k))
  BY <1>1, AllPartsType
<1>4. n \in Nat /\ DOMAIN I = 1 .. n
  BY <1>1, <1>2
<1>5. X = [j \in 1 .. n |-> P[I[j]]] /\ Q = [j \in 1 .. n |-> A[I[j]]]
  BY <1>1, <1>4 DEF Lexical, RowParts, Chosen
<1>6. E = [j \in 1 .. n |-> Hoped(X[j], Before(P, I[j]))] /\ D = [j \in 1 .. n + 1 |-> Off(Q, j)]
  BY <1>1, <1>4 DEF RowHoped, RowBefore
<1>7. ASSUME NEW j \in 1 .. n
      PROVE  /\ Q[j] \in Seq(AnyPart) /\ E[j] \in AnyPart /\ Kind(X[j], Q[j], E[j], m)
  <2>1. PICK k, p, b : k = I[j] /\ p = P[k] /\ b = Before(P, k)
    OBVIOUS
  <2>2. k \in 1 .. Len(P) /\ p.type # "none"
    BY <1>2, <1>4, <2>1
  <2>3. X[j] = p /\ Q[j] = A[k] /\ E[j] = Hoped(p, b)
    BY <1>5, <1>6, <2>1
  <2>4. Q[j] = PartsOf(p, b)
    BY <1>3, <2>1, <2>2, <2>3
  <2>5. A[k] \in Seq(AnyPart)
    BY <1>3, <2>2
  <2>6. PieceWritten(p, counts) /\ b \in Nat /\ DOMAIN p.chars = 1 .. Len(p.chars) /\ Len(p.chars) \in Nat
    BY <2>1, <2>2, LayoutFacts DEF WellWritten
  <2>7. Tells(p, b, m)
    BY <2>1, <2>2 DEF AllTold
  <2>8. Kind(p, PartsOf(p, b), Hoped(p, b), m)
    BY <2>2, <2>6, <2>7, KindHolds
  <2>9. Hoped(p, b) \in AnyPart
    <3>1. KeepsOwn(p) /\ p.type \in {"word", "number", "symbol", "string"}
      BY <2>2, <2>6, PiecesAre
    <3>2. QED
      BY <2>6, <3>1, HopedType
  <2>10. QED
    BY <2>3, <2>4, <2>5, <2>8, <2>9
<1>8. PICK W : W = Seq(AnyPart)
  OBVIOUS
<1>9. Q \in Seq(W) /\ Len(Q) = n
  <2>1. \A j \in 1 .. n : A[I[j]] \in W
    BY <1>5, <1>7, <1>8
  <2>2. QED
    BY <1>4, <1>5, <2>1
<1>10. E \in Seq(AnyPart) /\ Len(E) = n
  <2>1. \A j \in 1 .. n : Hoped(X[j], Before(P, I[j])) \in AnyPart
    BY <1>6, <1>7
  <2>2. QED
    BY <1>4, <1>6, <2>1
<1>11. Len(X) = n
  BY <1>4, <1>5
<1>12. Laid(AnyPart, Q)
  BY <1>8, <1>9, FlattenLaid
<1>13. S \in Seq(AnyPart) /\ Len(S) \in Nat /\ Off(Q, 1) = 0 /\ Off(Q, n + 1) = Len(S)
  <2>1. FlattenSeq(Q) \in Seq(AnyPart) /\ Off(Q, 1) = 0 /\ Off(Q, Len(Q) + 1) = Len(FlattenSeq(Q))
    BY <1>12 DEF Laid
  <2>2. QED
    BY <1>2, <1>9, <2>1
<1>14. \A j \in 1 .. n + 1 : D[j] \in Nat /\ D[j] = Off(Q, j)
  <2>1. TAKE j \in 1 .. n + 1
  <2>2. D[j] = Off(Q, j)
    BY <1>6
  <2>3. Off(Q, j) \in Nat
    BY <1>8, <1>9, <1>12, OffNat
  <2>4. QED
    BY <2>2, <2>3
<1>15. \A j \in 1 .. n : /\ D[j + 1] = D[j] + Len(Q[j]) /\ D[j + 1] <= Len(S)
                         /\ \A i \in 1 .. Len(Q[j]) : S[D[j] + i] = Q[j][i]
  <2>1. TAKE j \in 1 .. n
  <2>2. j \in 1 .. n + 1 /\ j + 1 \in 1 .. n + 1 /\ j \in 1 .. Len(Q)
    BY <1>4, <1>9
  <2>3. D[j] = Off(Q, j) /\ D[j + 1] = Off(Q, j + 1)
    BY <1>14, <2>2
  <2>4. /\ Off(Q, j + 1) = Off(Q, j) + Len(Q[j]) /\ Off(Q, j + 1) <= Len(FlattenSeq(Q))
        /\ \A i \in 1 .. Len(Q[j]) : FlattenSeq(Q)[Off(Q, j) + i] = Q[j][i]
    BY <1>12, <2>2, Zenon DEF Laid
  <2>5. QED
    BY <1>2, <2>3, <2>4, Zenon
<1>16. 1 \in 1 .. n + 1 /\ n + 1 \in 1 .. n + 1
  BY <1>4
<1>17. D[1] = 0 /\ D[n + 1] = Len(S)
  BY <1>13, <1>14, <1>16
<1>18. \A j \in 1 .. n - 1 : Beside(X[j], X[j + 1])
  BY <1>1, <1>11
<1>19. \A j \in 1 .. n : Kind(X[j], Q[j], E[j], m)
  BY <1>7
<1>20. Row(X, Q, E, S, D, m)
  BY <1>4, <1>10, <1>11, <1>13, <1>14, <1>15, <1>17, <1>18, <1>19, Zenon DEF Row
<1>21. QED
  BY <1>1, <1>20

----------------------------------------------------------------------------
(***************************************************************************)
(* What _sbLexer has, and its steps as moves of it.                        *)
(***************************************************************************)
Hand    == [taken |-> taken, held |-> Shown(held), rank |-> rank, tokens |-> Shown(tokens)]
Bare(x) == Part(x.type, x.at)

LEMMA HandAfter ==
  Hand'.taken = taken' /\ Hand'.held = Shown(held') /\ Hand'.rank = rank' /\ Hand'.tokens = Shown(tokens')
BY DEF Hand

LEMMA ShowsFew ==
  /\ Shown(<<>>) = <<>>
  /\ \A x : Shown(<<x>>) = <<Bare(x)>>
  /\ \A x : (<<x>>)[1] = x
BY DEF Shown, Bare

LEMMA BareFacts ==
  /\ \A x : Written(meant, Bare(x)) = Written(meant, x) /\ Bare(x).type = x.type
  /\ \A x : IsPoint(x) <=> DotAt(meant, Bare(x))
  /\ \A a, b, k, f : Bare(Fused(a, b, k, f)) = Both(k, Bare(a), Bare(b))
<1>1. \A x : Bare(x).type = x.type /\ Bare(x).at = x.at
  BY DEF Bare, Part
<1>2. \A x : Written(meant, Bare(x)) = Written(meant, x)
  BY <1>1 DEF Written
<1>3. \A x : IsPoint(x) <=> DotAt(meant, Bare(x))
  BY <1>1, <1>2 DEF IsPoint, DotAt, Is, Point
<1>4. \A a, b, k, f : Bare(Fused(a, b, k, f)) = Both(k, Bare(a), Bare(b))
  BY <1>1 DEF Fused, Token, Both, Bare, Part
<1>5. QED
  BY <1>1, <1>2, <1>3, <1>4

LEMMA ShowsJoined ==
  ASSUME NEW ts \in Seq(AnyToken), NEW x \in AnyToken
  PROVE  /\ Shown(ts \o <<x>>) = Shown(ts) \o <<Bare(x)>>
         /\ \A y \in AnyToken : Shown(ts \o <<x, y>>) = Shown(ts) \o <<Bare(x), Bare(y)>>
<1>1. ASSUME NEW us \in Seq(AnyToken), NEW z \in AnyToken
      PROVE  Append(us, z) \in Seq(AnyToken) /\ Shown(Append(us, z)) = Append(Shown(us), Bare(z))
  BY ShowsMore DEF Bare
<1>2. Shown(ts) \in Seq(AnyPart)
  BY Shows
<1>3. PICK W : W = AnyToken
  OBVIOUS
<1>4. ts \o <<x>> = Append(ts, x) /\ \A y \in AnyToken : ts \o <<x, y>> = Append(Append(ts, x), y)
  <2>1. ts \in Seq(W) /\ x \in W
    BY <1>3
  <2>2. ts \o <<x>> = Append(ts, x) /\ \A y \in W : ts \o <<x, y>> = Append(Append(ts, x), y)
    BY <2>1
  <2>3. QED
    BY <1>3, <2>2
<1>5. Shown(ts \o <<x>>) = Shown(ts) \o <<Bare(x)>>
  <2>1. PICK us, vs, b : us = ts \o <<x>> /\ vs = Shown(ts) /\ b = Bare(x)
    OBVIOUS
  <2>2. Shown(us) = Append(vs, b)
    <3>1. Shown(Append(ts, x)) = Append(Shown(ts), Bare(x))
      BY <1>1
    <3>2. QED
      BY <1>4, <2>1, <3>1, Zenon
  <2>3. vs \o <<b>> = Append(vs, b)
    BY <1>2, <2>1, AppendIs
  <2>4. QED
    BY <2>1, <2>2, <2>3
<1>6. ASSUME NEW y \in AnyToken PROVE Shown(ts \o <<x, y>>) = Shown(ts) \o <<Bare(x), Bare(y)>>
  <2>1. Shown(ts \o <<x, y>>) = Append(Append(Shown(ts), Bare(x)), Bare(y))
    <3>1. Append(ts, x) \in Seq(AnyToken) /\ Shown(Append(ts, x)) = Append(Shown(ts), Bare(x))
      BY <1>1
    <3>2. Shown(Append(Append(ts, x), y)) = Append(Shown(Append(ts, x)), Bare(y))
      BY <1>1, <3>1
    <3>3. QED
      BY <1>4, <3>1, <3>2, Zenon
  <2>2. PICK vs, b, c : vs = Shown(ts) /\ b = Bare(x) /\ c = Bare(y)
    OBVIOUS
  <2>3. vs \o <<b, c>> = Append(Append(vs, b), c)
    BY <1>2, <2>2, AppendIs
  <2>4. QED
    BY <2>1, <2>2, <2>3
<1>7. QED
  BY <1>5, <1>6

LEMMA ShowsComing ==
  ASSUME Typed
  PROVE  /\ Hand.taken = taken /\ Left \in Nat /\ Len(Shown(pre)) - Hand.taken = Left
         /\ Hand.held = Shown(held) /\ Hand.rank = rank /\ Hand.tokens = Shown(tokens)
         /\ \A n \in 1 .. Left : Coming(n) \in AnyToken /\ Shown(pre)[taken + n] = Bare(Coming(n))
<1>1. pre \in Seq(AnyToken) /\ Len(pre) \in Nat /\ taken \in 0 .. Len(pre)
  BY DEF Typed
<1>2. Left \in Nat /\ Left = Len(pre) - taken
  BY <1>1 DEF Left
<1>3. Len(Shown(pre)) = Len(pre) /\ \A k \in 1 .. Len(pre) : Shown(pre)[k] = Bare(pre[k]) /\ pre[k] \in AnyToken
  BY <1>1, Shows DEF Bare
<1>4. \A n \in 1 .. Left : taken + n \in 1 .. Len(pre)
  BY <1>1, <1>2
<1>5. QED
  BY <1>2, <1>3, <1>4 DEF Hand, Coming

LEMMA PassesSome ==
  ASSUME held = <<>>, NEW n, NEW ts, NEW xs, Join(ts, n), Shown(tokens \o ts) = Shown(tokens) \o xs
  PROVE  Passes(Hand, Hand', xs, n)
<1>1. tokens' = tokens \o ts /\ taken' = taken + n /\ held' = <<>>
  BY DEF Join
<1>2. Hand.tokens = Shown(tokens) /\ Hand.taken = taken
  BY DEF Hand
<1>3. QED
  BY <1>1, <1>2, HandAfter, ShowsFew DEF Passes

LEMMA JoinsMove ==
  ASSUME Typed, JoinNumber \/ JoinPoint \/ JoinOther
  PROVE  JoinMove(meant, Shown(pre), Hand, Hand')
<1>1. /\ Hand.taken = taken /\ Left \in Nat /\ Len(Shown(pre)) - Hand.taken = Left
      /\ \A n \in 1 .. Left : Coming(n) \in AnyToken /\ Shown(pre)[taken + n] = Bare(Coming(n))
  BY ShowsComing
<1>2. held = <<>> /\ Left > 0 /\ tokens \in Seq(AnyToken)
  BY DEF JoinNumber, JoinPoint, JoinOther, Joins, Typed
<1>3. Hand.held = <<>>
  BY <1>2, ShowsFew DEF Hand
<1>4. PICK S, a, b, c : S = Shown(pre) /\ a = S[Hand.taken + 1] /\ b = S[Hand.taken + 2] /\ c = S[Hand.taken + 3]
  OBVIOUS
<1>5. /\ Coming(1) \in AnyToken /\ a = Bare(Coming(1))
      /\ Left > 1 => Coming(2) \in AnyToken /\ b = Bare(Coming(2))
      /\ Left > 2 => Coming(3) \in AnyToken /\ c = Bare(Coming(3))
  BY <1>1, <1>2, <1>4
<1>6. a.type = Coming(1).type /\ (IsPoint(Coming(1)) <=> DotAt(meant, a))
  BY <1>5, BareFacts
<1>7. Left > 1 => b.type = Coming(2).type /\ (IsPoint(Coming(2)) <=> DotAt(meant, b))
  BY <1>5, BareFacts
<1>8. Left > 2 => c.type = Coming(3).type
  BY <1>5, BareFacts
<1>9. ASSUME Join(<<Coming(1)>>, 1) PROVE Passes(Hand, Hand', <<a>>, 1)
  BY <1>2, <1>5, <1>9, ShowsJoined, PassesSome
<1>10. ASSUME Left > 1, Join(<<Coming(1), Coming(2)>>, 2) PROVE Passes(Hand, Hand', <<a, b>>, 2)
  BY <1>2, <1>5, <1>10, ShowsJoined, PassesSome
<1>11. CASE JoinNumber
  <2>1. PICK whole, all : /\ whole = Fused(Coming(1), Coming(2), "number", Coming(1).from)
                          /\ all = Fused(whole, Coming(3), "number", Coming(3).from)
    OBVIOUS
  <2>2. ASSUME Left > 2, Join(<<all>>, 3) PROVE Passes(Hand, Hand', <<Both("number", Both("number", a, b), c)>>, 3)
    <3>0. /\ Left > 1 /\ "number" \in {"number", "symbol"}
          /\ Coming(1) \in AnyToken /\ Coming(2) \in AnyToken /\ Coming(3) \in AnyToken
          /\ a = Bare(Coming(1)) /\ b = Bare(Coming(2)) /\ c = Bare(Coming(3))
      <4>1. Left > 1
        BY <1>1, <2>2
      <4>2. QED
        BY <1>5, <2>2, <4>1
    <3>1. whole \in AnyToken
      BY <2>1, <3>0, FusedFacts, Zenon
    <3>2. all \in AnyToken
      BY <2>1, <3>0, <3>1, FusedFacts, Zenon
    <3>3. Bare(all) = Both("number", Both("number", a, b), c)
      <4>1. Bare(whole) = Both("number", a, b)
        BY <2>1, <3>0, BareFacts, Zenon
      <4>2. Bare(all) = Both("number", Bare(whole), Bare(Coming(3)))
        BY <2>1, BareFacts, Zenon
      <4>3. QED
        BY <3>0, <4>1, <4>2
    <3>4. Shown(tokens \o <<all>>) = Shown(tokens) \o <<Both("number", Both("number", a, b), c)>>
      BY <1>2, <3>2, <3>3, ShowsJoined
    <3>5. QED
      BY <1>2, <2>2, <3>4, PassesSome
  <2>3. \/ Left = 1
        \/ Left > 1 /\ ~IsPoint(Coming(2))
        \/ Left = 2 /\ IsPoint(Coming(2))
        \/ Left > 2 /\ IsPoint(Coming(2))
    BY <1>1, <1>2
  <2>4. \/ Left = 1 /\ Join(<<Coming(1)>>, 1)
        \/ Left > 1 /\ ~IsPoint(Coming(2)) /\ Join(<<Coming(1), Coming(2)>>, 2)
        \/ Left = 2 /\ IsPoint(Coming(2))
        \/ Left > 2 /\ IsPoint(Coming(2)) /\ (Coming(3).type = "number" => Join(<<all>>, 3))
    BY <1>11, <2>1, <2>3 DEF JoinNumber
  <2>5. a.type = "number"
    BY <1>6, <1>11 DEF JoinNumber
  <2>6. \/ Left = 1 /\ Passes(Hand, Hand', <<a>>, 1)
        \/ Left > 1 /\ ~DotAt(meant, b) /\ Passes(Hand, Hand', <<a, b>>, 2)
        \/ Left = 2 /\ DotAt(meant, b)
        \/ Left > 2 /\ DotAt(meant, b) /\ (c.type = "number" => Passes(Hand, Hand', <<Both("number", Both("number", a, b), c)>>, 3))
    <3>1. (Left > 2 => Left > 1) /\ (Left = 2 => Left > 1)
      BY <1>1
    <3>2. QED
      BY <1>7, <1>8, <1>9, <1>10, <2>2, <2>4, <3>1, Zenon
  <2>7. NumberMove(meant, S, Hand, Hand')
    BY <1>1, <1>4, <2>5, <2>6 DEF NumberMove
  <2>8. QED
    BY <1>1, <1>2, <1>3, <1>4, <2>7 DEF JoinMove
<1>12. CASE JoinPoint
  <2>1. \/ Left = 1
        \/ Left > 1 /\ Coming(2).type = "number"
        \/ Left > 1 /\ Coming(2).type # "number"
    BY <1>1, <1>2
  <2>2. \/ Left = 1 /\ Join(<<Coming(1)>>, 1)
        \/ Left > 1 /\ Coming(2).type = "number"
        \/ Left > 1 /\ Coming(2).type # "number" /\ Join(<<Coming(1), Coming(2)>>, 2)
    BY <1>12, <2>1 DEF JoinPoint
  <2>3. DotAt(meant, a)
    BY <1>6, <1>12 DEF JoinPoint
  <2>4. \/ Left = 1 /\ Passes(Hand, Hand', <<a>>, 1)
        \/ Left > 1 /\ b.type = "number"
        \/ Left > 1 /\ b.type # "number" /\ Passes(Hand, Hand', <<a, b>>, 2)
    BY <1>7, <1>9, <1>10, <2>2, Zenon
  <2>5. PointMove(meant, S, Hand, Hand')
    BY <1>1, <1>4, <2>3, <2>4 DEF PointMove
  <2>6. QED
    BY <1>1, <1>2, <1>3, <1>4, <2>5 DEF JoinMove
<1>13. CASE JoinOther
  <2>1. a.type \in {"word", "string"} /\ Passes(Hand, Hand', <<a>>, 1)
    BY <1>6, <1>9, <1>13 DEF JoinOther
  <2>2. OtherMove(meant, S, Hand, Hand')
    BY <1>4, <2>1 DEF OtherMove
  <2>3. QED
    BY <1>1, <1>2, <1>3, <1>4, <2>2 DEF JoinMove
<1>14. QED
  BY <1>11, <1>12, <1>13

LEMMA TakesMove ==
  ASSUME Typed, Take
  PROVE  JoinMove(meant, Shown(pre), Hand, Hand')
<1>1. /\ Hand.taken = taken /\ Left \in Nat /\ Len(Shown(pre)) - Hand.taken = Left
      /\ Hand.tokens = Shown(tokens)
      /\ \A n \in 1 .. Left : Coming(n) \in AnyToken /\ Shown(pre)[taken + n] = Bare(Coming(n))
  BY ShowsComing
<1>2. /\ held = <<>> /\ Left > 0 /\ Coming(1).type = "symbol" /\ ~IsPoint(Coming(1))
      /\ held' = <<Coming(1)>> /\ rank' = 1 /\ taken' = taken + 1 /\ tokens' = tokens
  BY DEF Take, Joins
<1>3. PICK S, a : S = Shown(pre) /\ a = S[Hand.taken + 1]
  OBVIOUS
<1>4. a = Bare(Coming(1))
  BY <1>1, <1>2, <1>3
<1>5. a.type = "symbol" /\ ~DotAt(meant, a)
  BY <1>2, <1>4, BareFacts
<1>6. Hand'.held = <<a>> /\ Hand'.rank = 1 /\ Hand'.taken = Hand.taken + 1 /\ Hand'.tokens = Hand.tokens
  BY <1>1, <1>2, <1>4, HandAfter, ShowsFew
<1>7. TakeMove(meant, S, Hand, Hand')
  BY <1>3, <1>5, <1>6 DEF TakeMove
<1>8. Hand.held = <<>>
  BY <1>2, ShowsFew DEF Hand
<1>9. QED
  BY <1>1, <1>2, <1>3, <1>7, <1>8 DEF JoinMove

LEMMA HoldsMove ==
  ASSUME Typed, rank \in 1 .. Len(Operators) + 1, LetGo \/ JoinOperator
  PROVE  HandMove(meant, Shown(pre), Hand, Hand')
<1>1. /\ Hand.taken = taken /\ Left \in Nat /\ Len(Shown(pre)) - Hand.taken = Left
      /\ Hand.held = Shown(held) /\ Hand.rank = rank /\ Hand.tokens = Shown(tokens)
      /\ \A n \in 1 .. Left : Coming(n) \in AnyToken /\ Shown(pre)[taken + n] = Bare(Coming(n))
  BY ShowsComing
<1>2. held # <<>> /\ tokens \in Seq(AnyToken)
  BY DEF LetGo, JoinOperator, Holds, Typed
<1>3. PICK tok \in AnyToken : held = <<tok>>
  BY <1>2 DEF Typed
<1>4. held[1] = tok
  BY <1>3
<1>5. PICK S, x, a : S = Shown(pre) /\ x = Hand.held[1] /\ a = S[Hand.taken + 1]
  OBVIOUS
<1>6. Hand.held = <<Bare(tok)>> /\ x = Bare(tok) /\ Hand.held # <<>>
  <2>1. Hand.held = <<Bare(tok)>>
    BY <1>1, <1>3, ShowsFew
  <2>2. QED
    BY <1>5, <2>1
<1>7. Written(meant, x) = Written(meant, tok)
  BY <1>6, BareFacts
<1>8. ASSUME Hold(held, <<>>, 1, 0) PROVE Passes(Hand, Hand', <<x>>, 0)
  <2>1. tokens' = tokens \o <<tok>> /\ held' = <<>> /\ taken' = taken + 0
    BY <1>3, <1>8 DEF Hold
  <2>2. Shown(tokens') = Shown(tokens) \o <<x>>
    BY <1>2, <1>6, <2>1, ShowsJoined
  <2>3. QED
    BY <1>1, <2>1, <2>2, HandAfter, ShowsFew DEF Passes
<1>9. CASE LetGo
  <2>1. \A k \in rank .. Len(Operators) : Written(meant, x) # Operators[k]
    BY <1>4, <1>7, <1>9 DEF LetGo, Tried, Is
  <2>2. GoMove(meant, S, Hand, Hand')
    BY <1>1, <1>5, <1>8, <1>9, <2>1 DEF LetGo, GoMove
  <2>3. QED
    BY <1>5, <1>6, <2>2 DEF HandMove
<1>10. CASE JoinOperator
  <2>1. PICK k \in Tried(tok) :
          IF Left = 0 THEN Hold(held, <<>>, 1, 0)
          ELSE IF Coming(1).type = "symbol" /\ Written(meant, Coming(1)) \in Halves(Operators[k])
          THEN Hold(<<Fused(held[1], Coming(1), "symbol", Coming(1).from)>>, <<>>, 1, 1)
          ELSE Hold(held, <<Coming(1)>>, k + 1, 1)
    BY <1>4, <1>10 DEF JoinOperator
  <2>2. k \in DOMAIN Operators /\ Written(meant, x) = Operators[k]
    <3>1. k \in rank .. Len(Operators) /\ Written(meant, tok) = Operators[k]
      BY <2>1 DEF Tried, Is
    <3>2. Len(Operators) = 11 /\ DOMAIN Operators = 1 .. 11
      BY OperatorCount DEF Operators
    <3>3. QED
      BY <1>7, <3>1, <3>2
  <2>3. Left > 0 => Coming(1) \in AnyToken /\ a = Bare(Coming(1))
    BY <1>1, <1>5
  <2>4. Left > 0 => (HalfIs(meant, k, a) <=> Coming(1).type = "symbol" /\ Written(meant, Coming(1)) \in Halves(Operators[k]))
    BY <2>3, BareFacts DEF HalfIs
  <2>5. CASE Left = 0
    <3>1. Passes(Hand, Hand', <<x>>, 0)
      BY <1>8, <2>1, <2>5
    <3>2. OperatorMove(meant, S, Hand, Hand', k)
      BY <1>1, <1>5, <2>2, <2>5, <3>1 DEF OperatorMove
    <3>3. QED
      BY <1>5, <1>6, <2>2, <3>2 DEF HandMove
  <2>6. CASE Left > 0 /\ HalfIs(meant, k, a)
    <3>1. PICK f : f = Fused(tok, Coming(1), "symbol", Coming(1).from)
      OBVIOUS
    <3>2. Hold(<<f>>, <<>>, 1, 1)
      BY <1>4, <2>1, <2>4, <2>6, <3>1
    <3>3. f \in AnyToken /\ Bare(f) = Both("symbol", x, a)
      <4>1. Coming(1) \in AnyToken /\ a = Bare(Coming(1)) /\ x = Bare(tok) /\ "symbol" \in {"number", "symbol"}
        BY <1>6, <2>3, <2>6
      <4>2. f \in AnyToken
        BY <3>1, <4>1, FusedFacts, Zenon
      <4>3. Bare(f) = Both("symbol", x, a)
        BY <3>1, <4>1, BareFacts, Zenon
      <4>4. QED
        BY <4>2, <4>3
    <3>4. tokens' = tokens \o <<f>> /\ held' = <<>> /\ taken' = taken + 1
      BY <3>2 DEF Hold
    <3>5. Shown(tokens') = Shown(tokens) \o <<Both("symbol", x, a)>>
      BY <1>2, <3>3, <3>4, ShowsJoined
    <3>6. Passes(Hand, Hand', <<Both("symbol", x, a)>>, 1)
      BY <1>1, <3>4, <3>5, HandAfter, ShowsFew DEF Passes
    <3>7. OperatorMove(meant, S, Hand, Hand', k)
      BY <1>1, <1>5, <2>2, <2>6, <3>6 DEF OperatorMove
    <3>8. QED
      BY <1>5, <1>6, <2>2, <3>7 DEF HandMove
  <2>7. CASE Left > 0 /\ ~HalfIs(meant, k, a)
    <3>1. Hold(held, <<Coming(1)>>, k + 1, 1)
      BY <2>1, <2>4, <2>7
    <3>2. tokens' = tokens \o <<tok>> /\ held' = <<Coming(1)>> /\ taken' = taken + 1
      BY <1>3, <3>1 DEF Hold
    <3>3. Shown(tokens') = Shown(tokens) \o <<x>> /\ Shown(held') = <<a>>
      BY <1>2, <1>6, <2>3, <2>7, <3>2, ShowsJoined, ShowsFew
    <3>4. Hand'.tokens = Hand.tokens \o <<x>> /\ Hand'.held = <<a>> /\ Hand'.taken = Hand.taken + 1
      BY <1>1, <3>2, <3>3, HandAfter
    <3>5. OperatorMove(meant, S, Hand, Hand', k)
      BY <1>1, <1>5, <2>2, <2>7, <3>4 DEF OperatorMove
    <3>6. QED
      BY <1>5, <1>6, <2>2, <3>5 DEF HandMove
  <2>8. QED
    BY <1>1, <2>5, <2>6, <2>7
<1>11. QED
  BY <1>9, <1>10

----------------------------------------------------------------------------
(***************************************************************************)
(* In a whole and Plain text the joiner is always at a lexeme or in one.   *)
(***************************************************************************)
PlainIn(P)  == \A k \in 1 .. Len(Lexical(P)) - 1 : Beside(Lexical(P)[k], Lexical(P)[k + 1])
WholeIn(P, t) == Len(t) = Before(P, Len(P) + 1)
AtWork(P, s)  == InRow(Lexical(P), RowParts(P), RowHoped(P), RowBefore(P), s)

JInv ==
  mode \in {"join", "done"} /\ PlainIn(script.pieces) /\ WholeIn(script.pieces, text) =>
    AtWork(script.pieces, Hand) /\ (mode = "done" => Shown(tokens) = RowHoped(script.pieces))

LEMMA LexemesAre ==
  Indices = Marked(script.pieces) /\ Lexemes = Lexical(script.pieces) /\ DOMAIN Lexemes = DOMAIN Indices
<1>1. Indices = Marked(script.pieces)
  BY DEF Indices, Marked, Marks
<1>2. QED
  BY <1>1 DEF Lexemes, Lexical, Chosen

LEMMA PlainHere == Plain => PlainIn(script.pieces)
BY LexemesAre DEF Plain, PlainIn, Beside

(* What is expected of a lexeme, read in the text where it is, is what it  *)
(* means.                                                                  *)
LEMMA RowText ==
  ASSUME NEW P, NEW counts, NEW t, NEW m, WellWritten(P, counts), Layout(P, t), AllTold(P, m), NEW j \in DOMAIN Marked(P)
  PROVE  Written(m, RowHoped(P)[j]) = Lexical(P)[j].meant
<1>1. PICK k, p, b : k = Marked(P)[j] /\ p = P[k] /\ b = Before(P, k)
  OBVIOUS
<1>2. k \in 1 .. Len(P)
  BY <1>1, MarkedFacts
<1>3. Lexical(P)[j] = p
  BY <1>1 DEF Lexical, Chosen
<1>4. RowHoped(P)[j] = Hoped(p, b)
  BY <1>1, <1>3 DEF RowHoped
<1>5. PieceWritten(p, counts) /\ b \in Nat
  BY <1>1, <1>2, LayoutFacts DEF WellWritten
<1>6. Tells(p, b, m)
  BY <1>1, <1>2 DEF AllTold
<1>7. p.meant \in Seq(Range(p.meant)) /\ DOMAIN p.meant = DOMAIN p.kept
  BY <1>5, PiecesAre
<1>8. Written(m, Hoped(p, b)) = p.meant
  BY <1>5, <1>6, <1>7, HopedText
<1>9. QED
  BY <1>3, <1>4, <1>8

LEMMA ExpectedHere ==
  ASSUME Shown(tokens) = RowHoped(script.pieces),
         \A j \in DOMAIN Indices : Written(meant, RowHoped(script.pieces)[j]) = Lexemes[j].meant
  PROVE  [k \in DOMAIN tokens |-> Read(tokens[k])] = Expected
<1>1. PICK P, I, X, E : P = script.pieces /\ I = Indices /\ X = Lexemes /\ E = RowHoped(P)
  OBVIOUS
<1>2. I = Marked(P) /\ X = Lexical(P) /\ DOMAIN X = DOMAIN I
  BY <1>1, LexemesAre
<1>3. \A p, b : Hoped(p, b).type = p.type /\ Hoped(p, b).at = [i \in DOMAIN p.kept |-> b + p.kept[i]]
  BY DEF Hoped, Part
<1>4. E = [j \in DOMAIN I |-> Hoped(X[j], Before(P, I[j]))]
  BY <1>1, <1>2 DEF RowHoped
<1>5. Expected = [j \in DOMAIN I |-> [type |-> X[j].type, at |-> [i \in DOMAIN X[j].kept |-> Before(P, I[j]) + X[j].kept[i]],
                                      chars |-> X[j].meant]]
  BY <1>1, <1>2 DEF Expected
<1>6. Shown(tokens) = [k \in DOMAIN tokens |-> Bare(tokens[k])]
  BY DEF Shown, Bare
<1>7. DOMAIN tokens = DOMAIN I /\ \A k \in DOMAIN I : Bare(tokens[k]) = Hoped(X[k], Before(P, I[k]))
  <2>1. [k \in DOMAIN tokens |-> Bare(tokens[k])] = [j \in DOMAIN I |-> Hoped(X[j], Before(P, I[j]))]
    BY <1>1, <1>4, <1>6
  <2>2. DOMAIN tokens = DOMAIN I
    BY <2>1
  <2>3. \A k \in DOMAIN I : [n \in DOMAIN tokens |-> Bare(tokens[n])][k] = [j \in DOMAIN I |-> Hoped(X[j], Before(P, I[j]))][k]
    BY <2>1, Zenon
  <2>4. QED
    BY <2>2, <2>3
<1>8. ASSUME NEW k \in DOMAIN I
      PROVE  Read(tokens[k]) = [type |-> X[k].type, at |-> [i \in DOMAIN X[k].kept |-> Before(P, I[k]) + X[k].kept[i]],
                                chars |-> X[k].meant]
  <2>1. Bare(tokens[k]).type = tokens[k].type /\ Bare(tokens[k]).at = tokens[k].at
    BY DEF Bare, Part
  <2>2. tokens[k].type = X[k].type /\ tokens[k].at = [i \in DOMAIN X[k].kept |-> Before(P, I[k]) + X[k].kept[i]]
    <3>1. PICK x, b, y, z : x = X[k] /\ b = Before(P, I[k]) /\ y = Bare(tokens[k]) /\ z = Hoped(X[k], Before(P, I[k]))
      OBVIOUS
    <3>2. y = z
      BY <1>7, <3>1
    <3>3. z.type = x.type /\ z.at = [i \in DOMAIN x.kept |-> b + x.kept[i]]
      BY <1>3, <3>1
    <3>4. y.type = tokens[k].type /\ y.at = tokens[k].at
      BY <2>1, <3>1
    <3>5. QED
      BY <3>1, <3>2, <3>3, <3>4
  <2>3. Written(meant, Bare(tokens[k])) = X[k].meant
    <3>1. E[k] = Hoped(X[k], Before(P, I[k]))
      BY <1>4
    <3>2. QED
      BY <1>1, <1>7, <3>1
  <2>4. Written(meant, tokens[k]) = X[k].meant
    BY <2>3, BareFacts
  <2>5. QED
    BY <2>2, <2>4 DEF Read
<1>9. QED
  BY <1>5, <1>7, <1>8

LEMMA RowThere ==
  ASSUME NEW counts, RInv(counts), mode \in {"join", "done"}, NEW P, P = script.pieces, PlainIn(P), WholeIn(P, text)
  PROVE  Row(Lexical(P), RowParts(P), RowHoped(P), Shown(pre), RowBefore(P), meant)
<1>1. WellWritten(P, counts) /\ Layout(P, text) /\ Shown(pre) = Sofar(P, Len(P) + 1) /\ AllTold(P, meant)
  BY DEF RInv, Fits, AllRead, WholeIn
<1>2. QED
  BY <1>1, RowHolds DEF PlainIn

LEMMA ReadSets ==
  ASSUME ReadStep
  PROVE  mode \in Reading /\ mode' # "done" /\ taken' = taken /\ held' = held /\ tokens' = tokens
BY DEF ReadStep, Keep, Symbol, ReadSingle, ReadPair, ReadSlash, SkipLineNote, SkipNote, ReadDigit, ReadLetter,
    ReadBlank, OpenString, CloseString, ReadInString, Escape, EndText, joining, InCode, InString, Reads, Reading

LEMMA JoinStarts ==
  ASSUME NEW X, NEW Q, NEW E, NEW S, NEW D, NEW t, Row(X, Q, E, S, D, t), NEW s,
         s.held = <<>>, s.taken = 0, s.tokens = <<>>
  PROVE  InRow(X, Q, E, D, s)
<1>1. Len(X) \in Nat /\ E \in Seq(AnyPart) /\ D[1] = 0
  BY DEF Row
<1>2. 1 \in 1 .. Len(X) + 1
  BY <1>1
<1>3. Passed(E, 1) = <<>>
  <2>1. 1 - 1 = 0
    OBVIOUS
  <2>2. SubSeq(E, 1, 0) = <<>>
    BY <1>1
  <2>3. QED
    BY <2>1, <2>2 DEF Passed
<1>4. AtLexeme(X, E, D, 1, s)
  BY <1>1, <1>2, <1>3 DEF AtLexeme
<1>5. QED
  BY <1>4 DEF InRow

LEMMA JoinsOn ==
  ASSUME NEW counts, IInv, TInv, RInv(counts), RInv(counts)', JInv, [Next]_vars
  PROVE  JInv'
<1>1. Typed /\ Typed'
  <2>1. IInv'
    BY Stays
  <2>2. QED
    BY <2>1 DEF IInv
<1>2. script' = script /\ text' = text
  BY <1>1, SourceStays
<1>3. PICK P : P = script.pieces
  OBVIOUS
<1>4. P = script'.pieces
  BY <1>2, <1>3
<1>5. SUFFICES ASSUME mode' \in {"join", "done"}, PlainIn(P), WholeIn(P, text)
               PROVE  AtWork(P, Hand') /\ (mode' = "done" => Shown(tokens') = RowHoped(P))
  BY <1>2, <1>4 DEF JInv
<1>6. CASE ReadStep
  <2>1. mode \in Reading /\ mode' = "join" /\ taken' = taken /\ held' = held /\ tokens' = tokens
    BY <1>5, <1>6, ReadSets
  <2>2. taken = 0 /\ held = <<>> /\ tokens = <<>>
    BY <2>1 DEF IInv, Untouched, Reading
  <2>3. Hand'.held = <<>> /\ Hand'.taken = 0 /\ Hand'.tokens = <<>>
    BY <2>1, <2>2, HandAfter, ShowsFew
  <2>4. Row(Lexical(P), RowParts(P), RowHoped(P), Sofar(P, Len(P) + 1), RowBefore(P), meant')
    <3>1. WellWritten(P, counts) /\ Layout(P, text)
      BY <1>3 DEF RInv, Fits
    <3>2. AllRead'
      BY <2>1 DEF RInv
    <3>3. AllTold(P, meant')
      BY <1>2, <1>4, <1>5, <3>2 DEF AllRead, WholeIn
    <3>4. QED
      BY <1>5, <3>1, <3>3, RowHolds DEF PlainIn
  <2>5. AtWork(P, Hand')
    BY <2>3, <2>4, JoinStarts DEF AtWork
  <2>6. QED
    BY <2>1, <2>5
<1>7. ASSUME mode = "join", JoinMove(meant, Shown(pre), Hand, Hand') \/ HandMove(meant, Shown(pre), Hand, Hand')
      PROVE  AtWork(P, Hand')
  <2>1. AtWork(P, Hand)
    BY <1>3, <1>5, <1>7 DEF JInv
  <2>2. Row(Lexical(P), RowParts(P), RowHoped(P), Shown(pre), RowBefore(P), meant)
    BY <1>3, <1>5, <1>7, RowThere
  <2>3. QED
    BY <1>7, <2>1, <2>2, RowMoves DEF AtWork
<1>8. CASE JoinNumber \/ JoinPoint \/ JoinOther
  <2>1. mode = "join" /\ mode' = "join"
    <3>1. Joins /\ JoinForms
      BY <1>1, <1>8, JoinsInForms
    <3>2. QED
      BY <3>1 DEF JoinForms, Join, Joins
  <2>2. JoinMove(meant, Shown(pre), Hand, Hand')
    BY <1>1, <1>8, JoinsMove
  <2>3. QED
    BY <1>7, <2>1, <2>2
<1>9. CASE Take
  <2>1. mode = "join" /\ mode' = "join"
    BY <1>9 DEF Take, Joins
  <2>2. JoinMove(meant, Shown(pre), Hand, Hand')
    BY <1>1, <1>9, TakesMove
  <2>3. QED
    BY <1>7, <2>1, <2>2
<1>10. CASE LetGo \/ JoinOperator
  <2>1. mode = "join" /\ mode' = "join"
    BY <1>10 DEF LetGo, JoinOperator, Hold, Holds
  <2>2. rank \in 1 .. Len(Operators) + 1
    BY DEF TInv
  <2>3. HandMove(meant, Shown(pre), Hand, Hand')
    BY <1>1, <1>10, <2>2, HoldsMove
  <2>4. QED
    BY <1>7, <2>1, <2>3
<1>11. CASE EndJoin
  <2>1. mode = "join" /\ held = <<>> /\ Left = 0 /\ taken' = taken /\ held' = held /\ rank' = rank /\ tokens' = tokens
    BY <1>11 DEF EndJoin, Joins, joining
  <2>2. AtWork(P, Hand)
    BY <1>3, <1>5, <2>1 DEF JInv
  <2>3. Row(Lexical(P), RowParts(P), RowHoped(P), Shown(pre), RowBefore(P), meant)
    BY <1>3, <1>5, <2>1, RowThere
  <2>4. Len(Shown(pre)) - Hand.taken = 0 /\ Hand.held = <<>> /\ Hand.tokens = Shown(tokens)
    <3>1. Len(Shown(pre)) - Hand.taken = Left /\ Hand.held = Shown(held) /\ Hand.tokens = Shown(tokens)
      BY <1>1, ShowsComing
    <3>2. QED
      BY <2>1, <3>1, ShowsFew
  <2>5. Shown(tokens) = RowHoped(P)
    BY <2>2, <2>3, <2>4, RowEnds DEF AtWork
  <2>6. Hand' = Hand
    BY <2>1 DEF Hand
  <2>7. QED
    BY <2>1, <2>2, <2>5, <2>6
<1>12. CASE UNCHANGED vars
  <2>1. mode' = mode /\ taken' = taken /\ held' = held /\ rank' = rank /\ tokens' = tokens
    BY <1>12 DEF vars, joining
  <2>2. Hand' = Hand
    BY <2>1 DEF Hand
  <2>3. AtWork(P, Hand) /\ (mode = "done" => Shown(tokens) = RowHoped(P))
    BY <1>3, <1>5, <2>1 DEF JInv
  <2>4. QED
    BY <2>1, <2>2, <2>3
<1>13. QED
  BY <1>6, <1>8, <1>9, <1>10, <1>11, <1>12 DEF Next, ReadStep, Stopped

(* A whole text ends in no string. *)
LEMMA WholeEnds ==
  ASSUME NEW P, NEW counts, NEW t, WellWritten(P, counts), Layout(P, t), WholeIn(P, t)
  PROVE  ~EndsInString(P, t)
<1>1. SUFFICES ASSUME EndsInString(P, t) PROVE FALSE
  OBVIOUS
<1>2. PICK m : m = Len(P) + 1
  OBVIOUS
<1>3. Len(P) \in Nat /\ DOMAIN P = 1 .. Len(P) /\ Len(t) \in Nat /\ Len(t) = Before(P, m) /\ Before(P, m) \in Nat
  <2>1. Len(P) \in Nat /\ DOMAIN P = 1 .. Len(P) /\ Len(t) \in Nat
    BY DEF Layout
  <2>2. m \in 1 .. Len(P) + 1
    BY <1>2, <2>1
  <2>3. QED
    BY <1>2, <2>1, <2>2 DEF Layout, WholeIn
<1>4. PICK j \in DOMAIN P : Len(t) \in Before(P, j) + 1 .. Before(P, j) + Len(P[j].chars) - 1
  BY <1>1 DEF EndsInString
<1>5. j \in 1 .. Len(P) /\ Before(P, j) \in Nat /\ Len(P[j].chars) \in Nat
  BY <1>3, LayoutFacts
<1>6. PICK h \in Nat : Len(t) = Before(P, j) + h /\ h < Len(P[j].chars)
  <2>1. Len(t) - Before(P, j) \in Nat /\ Len(t) = Before(P, j) + (Len(t) - Before(P, j))
        /\ Len(t) - Before(P, j) < Len(P[j].chars)
    BY <1>3, <1>4, <1>5
  <2>2. QED
    BY <2>1
<1>7. m \in 1 .. Len(P) + 1 /\ ~(m <= Len(P)) /\ 0 \in Nat
  BY <1>2, <1>3
<1>8. Before(P, j) + h = Before(P, m) + 0
  BY <1>3, <1>6
<1>9. j = m
  BY <1>5, <1>6, <1>7, <1>8, OneStand
<1>10. QED
  BY <1>5, <1>7, <1>9

LEMMA ReadThere ==
  ASSUME NEW counts, RInv(counts), JInv
  PROVE  ReadsAsWritten
<1>1. SUFFICES ASSUME mode \in Ended, Plain, script.length = Before(script.pieces, Len(script.pieces) + 1)
               PROVE  mode = "done" /\ [k \in DOMAIN tokens |-> Read(tokens[k])] = Expected
  BY DEF ReadsAsWritten
<1>2. PICK P : P = script.pieces
  OBVIOUS
<1>3. WellWritten(P, counts) /\ Layout(P, text) /\ WholeIn(P, text)
  BY <1>1, <1>2 DEF RInv, Fits, WholeIn
<1>4. ~EndsInString(P, text)
  BY <1>3, WholeEnds
<1>5. mode = "done"
  BY <1>1, <1>2, <1>4 DEF RInv, Ended
<1>6. PlainIn(P)
  BY <1>1, <1>2, PlainHere
<1>7. Shown(tokens) = RowHoped(P)
  BY <1>2, <1>3, <1>5, <1>6 DEF JInv
<1>8. AllTold(P, meant)
  BY <1>2, <1>3, <1>5 DEF RInv, AllRead, WholeIn
<1>9. Indices = Marked(P) /\ Lexemes = Lexical(P)
  BY <1>2, LexemesAre
<1>10. \A j \in DOMAIN Indices : Written(meant, RowHoped(P)[j]) = Lexemes[j].meant
  BY <1>3, <1>8, <1>9, RowText
<1>11. QED
  BY <1>2, <1>5, <1>7, <1>10, ExpectedHere

(* The tokens of a whole text that is well written and Plain are the ones  *)
(* written, each with its type and its characters, whatever blanks, notes  *)
(* and continued lines are between them (lexer.c:77-658 and 660-984).  The *)
(* character of a code \xNN in a string is the one of 10 * N + N, and a    *)
(* string with the code of NUL is not well written (lexer.c:502-543).      *)
THEOREM ReadsWhatIsWritten ==
  ASSUME NEW counts, \A s \in Scripts : WellWritten(s.pieces, counts) /\ WellCut(s, counts)
  PROVE  Spec => []ReadsAsWritten
<1> DEFINE I == RInv(counts)
<1>1. Init => I
  BY ReadStarts DEF Well
<1>2. Typed /\ TInv /\ I /\ [Next]_vars => I'
  BY ReadStays
<1>3. Init => JInv
  BY DEF Init, JInv
<1>4. IInv /\ TInv /\ I /\ I' /\ JInv /\ [Next]_vars => JInv'
  BY JoinsOn
<1>5. I /\ JInv => ReadsAsWritten
  BY ReadThere
<1>6. IInv => Typed
  BY DEF IInv
<1> HIDE DEF I
<1>7. QED
  BY Starts, Stays, TypesStart, TypesStay, <1>1, <1>2, <1>3, <1>4, <1>5, <1>6, PTL DEF Spec
=============================================================================
