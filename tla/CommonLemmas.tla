---------------------------- MODULE CommonLemmas ----------------------------
(***************************************************************************)
(* Facts that the proofs about several components use: induction over the  *)
(* natural numbers, said of a set instead of a formula, and what the       *)
(* community modules' FlattenSeq makes of sequences that grow.             *)
(***************************************************************************)
EXTENDS Integers, Sequences, SequencesExt, SequenceTheorems, WellFoundedInduction, TLAPS

(* Every set of natural numbers has a least one. *)
LEMMA LeastNat ==
  ASSUME NEW T, T \subseteq Nat, T # {}
  PROVE  \E x \in T : \A y \in T : x <= y
<1> DEFINE R == OpToRel(<, Nat)
<1>1. IsWellFoundedOn(R, Nat)
  BY NatLessThanWellFounded
<1>2. \A x, y \in Nat : <<y, x>> \in R <=> y < x
  BY Zenon DEF OpToRel
<1> HIDE DEF R
<1>3. PICK x \in T : \A y \in T : ~(<<y, x>> \in R)
  BY <1>1, WFMin
<1>4. x \in Nat
  OBVIOUS
<1>5. ASSUME NEW y \in T PROVE x <= y
  <2>1. y \in Nat
    OBVIOUS
  <2>2. ~(y < x)
    BY <1>2, <1>3, <1>4, <2>1, Zenon
  <2>3. QED
    BY <1>4, <2>1, <2>2
<1>6. QED
  BY <1>5

(* What holds of 0 and passes from every number to the next.               *)
LEMMA Counting ==
  ASSUME NEW T, 0 \in T, \A n \in Nat : n \in T => n + 1 \in T
  PROVE  Nat \subseteq T
<1> SUFFICES ASSUME NEW k \in Nat, k \notin T PROVE FALSE
  OBVIOUS
<1>1. PICK x \in Nat \ T : \A y \in Nat \ T : x <= y
  <2>1. Nat \ T \subseteq Nat /\ Nat \ T # {}
    OBVIOUS
  <2>2. QED
    BY <2>1, LeastNat
<1>2. x # 0 /\ x - 1 \in Nat /\ x - 1 \in T
  BY <1>1
<1>3. QED
  BY <1>1, <1>2

----------------------------------------------------------------------------
(* The function that FlattenSeq defines by recursion, for the first n of   *)
(* the sequences s.                                                        *)
Joining(s, n, f) == f = [i \in 1 .. n |-> IF i = 1 THEN s[i] ELSE f[i - 1] \o s[i]]

LEMMA JoiningAt ==
  ASSUME NEW s, NEW n \in Nat, NEW f, Joining(s, n, f), NEW i \in 1 .. n
  PROVE  f[i] = IF i = 1 THEN s[i] ELSE f[i - 1] \o s[i]
<1> DEFINE E(j) == IF j = 1 THEN s[j] ELSE f[j - 1] \o s[j]
<1>1. f = [j \in 1 .. n |-> E(j)]
  BY Zenon DEF Joining
<1> HIDE DEF E
<1>2. f[i] = E(i)
  BY <1>1, Zenon
<1>3. QED
  BY <1>2 DEF E

LEMMA JoiningExists ==
  ASSUME NEW s, NEW m \in Nat
  PROVE  \E f : Joining(s, m, f)
<1> DEFINE T == {n \in Nat : \E f : Joining(s, n, f)}
<1>1. 0 \in T
  <2>1. Joining(s, 0, [i \in 1 .. 0 |-> s])
    BY DEF Joining
  <2>2. QED
    BY <2>1
<1>2. ASSUME NEW n \in Nat, n \in T PROVE n + 1 \in T
  <2>1. PICK f : Joining(s, n, f)
    BY <1>2
  <2> DEFINE E(i) == IF i = 1 THEN s[i] ELSE f[i - 1] \o s[i]
             g == [i \in 1 .. n + 1 |-> E(i)]
  <2>2. \A i \in 1 .. n : f[i] = E(i)
    BY <2>1 DEF Joining
  <2>3. \A i \in 1 .. n + 1 : i # 1 => i - 1 \in 1 .. n /\ g[i - 1] = f[i - 1]
    BY <2>2
  <2>4. g = [i \in 1 .. n + 1 |-> IF i = 1 THEN s[i] ELSE g[i - 1] \o s[i]]
    BY <2>3
  <2> HIDE DEF g
  <2>5. Joining(s, n + 1, g)
    BY <2>4, Zenon DEF Joining
  <2>6. QED
    BY <2>5
<1> HIDE DEF T
<1>3. Nat \subseteq T
  BY <1>1, <1>2, Counting
<1>4. QED
  BY <1>3 DEF T

Agree(s, t, m) == \A i \in 1 .. m : s[i] = t[i]

(* Two such functions agree where both are defined, if the sequences do.   *)
LEMMA JoiningAgree ==
  ASSUME NEW s, NEW t, NEW m \in Nat, NEW n \in Nat, m <= n,
         Agree(s, t, m),
         NEW f, Joining(s, m, f), NEW g, Joining(t, n, g)
  PROVE  Agree(f, g, m)
<1> DEFINE T == {i \in Nat : i \in 1 .. m => f[i] = g[i]}
<1>1. \A i \in 1 .. m : /\ f[i] = IF i = 1 THEN s[i] ELSE f[i - 1] \o s[i]
                        /\ g[i] = IF i = 1 THEN t[i] ELSE g[i - 1] \o t[i]
  BY JoiningAt
<1>2. 0 \in T
  OBVIOUS
<1>3. ASSUME NEW i \in Nat, i \in T PROVE i + 1 \in T
  <2>1. SUFFICES ASSUME i + 1 \in 1 .. m PROVE f[i + 1] = g[i + 1]
    OBVIOUS
  <2>2. (i + 1) - 1 = i /\ (i + 1 # 1 => f[i] = g[i])
    BY <1>3, <2>1
  <2>3. s[i + 1] = t[i + 1]
    BY <2>1 DEF Agree
  <2>4. QED
    BY <1>1, <2>1, <2>2, <2>3
<1> HIDE DEF T
<1>4. Nat \subseteq T
  BY <1>2, <1>3, Counting
<1>5. QED
  BY <1>4 DEF T, Agree

LEMMA FlattenIsJoining ==
  ASSUME NEW S, NEW s \in Seq(S), s # <<>>
  PROVE  \E f : Joining(s, Len(s), f) /\ FlattenSeq(s) = f[Len(s)]
<1>1. Len(s) \in Nat /\ Len(s) # 0
  OBVIOUS
<1> DEFINE h == CHOOSE f : f = [i \in 1 .. Len(s) |-> IF i = 1 THEN s[i] ELSE f[i - 1] \o s[i]]
<1>2. FlattenSeq(s) = h[Len(s)]
  BY <1>1 DEF FlattenSeq
<1>3. \E f : Joining(s, Len(s), f)
  BY <1>1, JoiningExists
<1>4. Joining(s, Len(s), h)
  BY <1>3 DEF Joining
<1>5. QED
  BY <1>2, <1>4

LEMMA FlattenEmpty == FlattenSeq(<<>>) = <<>>
BY DEF FlattenSeq

(* One sequence more comes last.                                           *)
LEMMA FlattenAppend ==
  ASSUME NEW S, NEW s \in Seq(Seq(S)), NEW x \in Seq(S)
  PROVE  FlattenSeq(Append(s, x)) = FlattenSeq(s) \o x
<1> DEFINE n == Len(s)
           t == Append(s, x)
<1>1. n \in Nat /\ t \in Seq(Seq(S)) /\ Len(t) = n + 1 /\ t # <<>> /\ t[n + 1] = x
  <2> DEFINE W == Seq(S)
  <2>1. s \in Seq(W) /\ x \in W
    OBVIOUS
  <2> HIDE DEF W
  <2>2. n \in Nat /\ t \in Seq(W) /\ Len(t) = n + 1 /\ t[n + 1] = x
    BY <2>1
  <2>3. t # <<>>
    BY <2>2
  <2>4. QED
    BY <2>2, <2>3 DEF W
<1>2. Agree(s, t, n)
  BY DEF Agree
<1> HIDE DEF t
<1>3. PICK g : Joining(t, n + 1, g) /\ FlattenSeq(t) = g[n + 1]
  BY <1>1, FlattenIsJoining
<1>4. g[n + 1] = IF n + 1 = 1 THEN t[n + 1] ELSE g[(n + 1) - 1] \o t[n + 1]
  <2>1. n + 1 \in Nat /\ n + 1 \in 1 .. n + 1
    BY <1>1
  <2>2. QED
    BY <1>3, <2>1, JoiningAt
<1>5. CASE s = <<>>
  BY <1>1, <1>3, <1>4, <1>5, FlattenEmpty, ConcatEmptySeq DEF t
<1>6. CASE s # <<>>
  <2>1. PICK f : Joining(s, n, f) /\ FlattenSeq(s) = f[n]
    BY <1>6, FlattenIsJoining
  <2>2. Agree(f, g, n)
    <3>1. n + 1 \in Nat /\ n <= n + 1
      BY <1>1
    <3> HIDE DEF n
    <3>2. QED
      BY <1>1, <1>2, <1>3, <2>1, <3>1, JoiningAgree, Zenon
  <2>3. n # 0 /\ (n + 1) - 1 = n
    BY <1>6
  <2>4. n \in 1 .. n
    BY <1>1, <2>3
  <2> HIDE DEF n
  <2>5. f[n] = g[n]
    BY <2>2, <2>4, Zenon DEF Agree
  <2>6. g[n + 1] = g[(n + 1) - 1] \o t[n + 1]
    <3>1. n + 1 # 1
      BY <1>1, <2>3
    <3>2. QED
      BY <1>4, <3>1, Zenon
  <2>7. g[n + 1] = FlattenSeq(s) \o x
    BY <1>1, <2>1, <2>3, <2>5, <2>6, Zenon
  <2>8. QED
    BY <1>3, <2>7, Zenon DEF t
<1>7. QED
  BY <1>5, <1>6

Associates(a, b, x) == (a \o b) \o x = a \o (b \o x)

LEMMA Associate ==
  ASSUME NEW S, NEW a \in Seq(S), NEW b \in Seq(S), NEW x \in Seq(S)
  PROVE  Associates(a, b, x)
BY ConcatAssociative DEF Associates

Parts(t, n, W, u, x) == u \in Seq(W) /\ x \in W /\ Len(u) = n /\ t = Append(u, x)

(* A sequence that is not empty is one with an element appended. *)
LEMMA Unappend ==
  ASSUME NEW W, NEW n \in Nat, NEW t \in Seq(W), Len(t) = n + 1
  PROVE  \E u, x : Parts(t, n, W, u, x)
<1> DEFINE u == [i \in 1 .. n |-> t[i]]
           x == t[n + 1]
<1>1. u \in Seq(W) /\ Len(u) = n /\ x \in W
  <2>1. \A i \in 1 .. n : t[i] \in W
    OBVIOUS
  <2>2. u \in [1 .. n -> W]
    BY <2>1
  <2>3. QED
    BY <2>2
<1>2. \A i \in 1 .. n : u[i] = t[i]
  OBVIOUS
<1> HIDE DEF u
<1>3. Append(u, x) \in Seq(W) /\ Len(Append(u, x)) = n + 1
  BY <1>1
<1>4. \A i \in 1 .. n + 1 : Append(u, x)[i] = t[i]
  BY <1>1, <1>2
<1>5. t = Append(u, x)
  BY <1>3, <1>4, SeqEqual
<1>6. QED
  BY <1>1, <1>5 DEF Parts

LEMMA FlattenType ==
  ASSUME NEW S, NEW s \in Seq(Seq(S))
  PROVE  FlattenSeq(s) \in Seq(S)
<1> DEFINE W == Seq(S)
           T == {n \in Nat : \A t \in Seq(W) : Len(t) = n => FlattenSeq(t) \in W}
<1>1. 0 \in T
  <2>1. \A t \in Seq(W) : Len(t) = 0 => t = <<>>
    OBVIOUS
  <2>2. <<>> \in W
    OBVIOUS
  <2> HIDE DEF W
  <2>3. QED
    BY <2>1, <2>2, FlattenEmpty
<1>2. ASSUME NEW n \in Nat, n \in T PROVE n + 1 \in T
  <2> SUFFICES ASSUME NEW t \in Seq(W), Len(t) = n + 1 PROVE FlattenSeq(t) \in W
    OBVIOUS
  <2>1. PICK u \in Seq(W), x \in W : Len(u) = n /\ t = Append(u, x)
    <3>1. \E u, x : Parts(t, n, W, u, x)
      BY Unappend, Zenon
    <3> HIDE DEF W
    <3>2. QED
      BY <3>1 DEF Parts
  <2>2. FlattenSeq(u) \in W
    BY <1>2, <2>1
  <2>3. FlattenSeq(t) = FlattenSeq(u) \o x
    BY <2>1, FlattenAppend
  <2>4. QED
    BY <2>1, <2>2, <2>3
<1> HIDE DEF T, W
<1>3. Nat \subseteq T
  BY <1>1, <1>2, Counting
<1>4. s \in Seq(W) /\ Len(s) \in Nat
  BY DEF W
<1>5. QED
  BY <1>3, <1>4 DEF T, W

(* The sequences of two sequences of sequences follow each other.          *)
LEMMA FlattenConcat ==
  ASSUME NEW S, NEW s \in Seq(Seq(S)), NEW t \in Seq(Seq(S))
  PROVE  FlattenSeq(s \o t) = FlattenSeq(s) \o FlattenSeq(t)
<1> DEFINE W == Seq(S)
           T == {n \in Nat : \A v \in Seq(W) : Len(v) = n => FlattenSeq(s \o v) = FlattenSeq(s) \o FlattenSeq(v)}
<1>1. 0 \in T
  <2> SUFFICES ASSUME NEW v \in Seq(W), Len(v) = 0 PROVE FlattenSeq(s \o v) = FlattenSeq(s) \o FlattenSeq(v)
    OBVIOUS
  <2>1. v = <<>>
    OBVIOUS
  <2>2. s \o <<>> = s
    BY ConcatEmptySeq
  <2>3. FlattenSeq(s) \o <<>> = FlattenSeq(s)
    BY FlattenType, ConcatEmptySeq
  <2>4. QED
    BY <2>1, <2>2, <2>3, FlattenEmpty
<1>2. ASSUME NEW n \in Nat, n \in T PROVE n + 1 \in T
  <2> SUFFICES ASSUME NEW v \in Seq(W), Len(v) = n + 1
               PROVE  FlattenSeq(s \o v) = FlattenSeq(s) \o FlattenSeq(v)
    OBVIOUS
  <2>1. PICK u \in Seq(W), x \in W : Len(u) = n /\ v = Append(u, x)
    <3>1. \E u, x : Parts(v, n, W, u, x)
      BY Unappend, Zenon
    <3> HIDE DEF W
    <3>2. QED
      BY <3>1 DEF Parts
  <2>2. s \o Append(u, x) = Append(s \o u, x) /\ s \o u \in Seq(W)
    <3>1. s \in Seq(W)
      OBVIOUS
    <3> HIDE DEF W
    <3>2. QED
      BY <2>1, <3>1
  <2>3. FlattenSeq(s \o v) = FlattenSeq(s \o u) \o x
    BY <2>1, <2>2, FlattenAppend
  <2>4. FlattenSeq(s \o u) = FlattenSeq(s) \o FlattenSeq(u)
    BY <1>2, <2>1
  <2>5. FlattenSeq(v) = FlattenSeq(u) \o x
    BY <2>1, FlattenAppend
  <2>6. FlattenSeq(s) \in W /\ FlattenSeq(u) \in W /\ x \in W
    BY <2>1, FlattenType
  <2>7. (FlattenSeq(s) \o FlattenSeq(u)) \o x = FlattenSeq(s) \o (FlattenSeq(u) \o x)
    <3>1. Associates(FlattenSeq(s), FlattenSeq(u), x)
      BY <2>6, Associate, Zenon
    <3>2. QED
      BY <3>1, Zenon DEF Associates
  <2>8. QED
    BY <2>3, <2>4, <2>5, <2>7, Zenon
<1> HIDE DEF T, W
<1>3. Nat \subseteq T
  BY <1>1, <1>2, Counting
<1>4. t \in Seq(W) /\ Len(t) \in Nat
  BY DEF W
<1>5. QED
  BY <1>3, <1>4, Zenon DEF T

LEMMA FlattenOne ==
  ASSUME NEW S, NEW x \in Seq(S)
  PROVE  FlattenSeq(<<x>>) = x
<1>1. <<>> \in Seq(Seq(S)) /\ Append(<<>>, x) = <<x>>
  OBVIOUS
<1>2. FlattenSeq(<<x>>) = <<>> \o x
  BY <1>1, FlattenAppend, FlattenEmpty
<1>3. QED
  BY <1>2, ConcatEmptySeq

=============================================================================
