--------------------------- MODULE CodegenProofs ---------------------------
(***************************************************************************)
(* The generator, for every program and any number of lines: the jumps of  *)
(* the code while it grows and is backfilled, and the flag that says       *)
(* whether a break or continue is in a loop.                               *)
(***************************************************************************)
EXTENDS Compiled, TLAPS

----------------------------------------------------------------------------
(* The code, and the set P of the addresses whose jumps are not backfilled *)
(* yet.                                                                    *)
JumpOps == {"jump", "jump_if_false"}
Others  == {"do", "cond", "nop", "halt", "return", "push_null", "push_false",
            "func_def", "func_set_args", "func_end"}
Jumps   == [op : JumpOps, to : Int]

Instructions(T) == Jumps \cup [op : Others] \cup [op : Others, id : {n.id : n \in T}]

(* What the lemmas on code use of the set of instructions. *)
HasJumps(I) == Jumps \subseteq I /\ \A x \in I : x.op \in JumpOps => x \in Jumps

LEMMA InstructionsHaveJumps ==
  ASSUME NEW T
  PROVE  HasJumps(Instructions(T))
BY DEF HasJumps, Instructions, Jumps, JumpOps, Others

Backfilled(c, P) ==
  /\ P \subseteq 0 .. Len(c) - 1
  /\ \A a \in P : c[a + 1] \in Jumps
  /\ \A k \in 1 .. Len(c) : c[k].op \in JumpOps =>
       IF k - 1 \in P THEN c[k].to = -1 ELSE c[k].to \in 0 .. Len(c)

LEMMA Extending ==
  ASSUME NEW I, HasJumps(I), NEW c \in Seq(I), NEW P, Backfilled(c, P), NEW s \in Seq(I),
         \A k \in 1 .. Len(s) : s[k].op \in JumpOps => s[k].to \in 0 .. Len(c) + Len(s)
  PROVE  c \o s \in Seq(I) /\ Len(c \o s) = Len(c) + Len(s) /\ Backfilled(c \o s, P)
<1>1. /\ c \o s \in Seq(I) /\ Len(c \o s) = Len(c) + Len(s) /\ Len(c) \in Nat /\ Len(s) \in Nat
      /\ \A k \in 1 .. Len(c) : (c \o s)[k] = c[k]
      /\ \A k \in Len(c) + 1 .. Len(c) + Len(s) : (c \o s)[k] = s[k - Len(c)]
  OBVIOUS
<1> DEFINE d == c \o s
<1> HIDE DEF d
<1>2. P \subseteq 0 .. Len(d) - 1 /\ \A a \in P : d[a + 1] \in Jumps
  BY <1>1 DEF d, Backfilled
<1>3. ASSUME NEW k \in 1 .. Len(d), d[k].op \in JumpOps
      PROVE  IF k - 1 \in P THEN d[k].to = -1 ELSE d[k].to \in 0 .. Len(d)
  <2>1. CASE k \in 1 .. Len(c)
    BY <1>1, <1>3, <2>1 DEF d, Backfilled
  <2>2. CASE k \notin 1 .. Len(c)
    <3>1. k - Len(c) \in 1 .. Len(s) /\ d[k] = s[k - Len(c)] /\ k - 1 \notin P
      BY <1>1, <2>2 DEF d, Backfilled
    <3>2. QED
      BY <1>1, <1>3, <3>1 DEF d
  <2>3. QED
    BY <2>1, <2>2
<1>4. QED
  BY <1>1, <1>2, <1>3 DEF d, Backfilled

LEMMA ExtendingByOne ==
  ASSUME NEW I, HasJumps(I), NEW c \in Seq(I), NEW P, Backfilled(c, P), NEW x \in I,
         x.op \in JumpOps => x.to \in 0 .. Len(c) + 1
  PROVE  /\ Append(c, x) \in Seq(I) /\ Len(Append(c, x)) = Len(c) + 1
         /\ Backfilled(Append(c, x), P)
<1> DEFINE s == <<x>>
<1>1. s \in Seq(I) /\ Len(s) = 1 /\ s[1] = x
  OBVIOUS
<1>2. Append(c, x) = c \o s
  OBVIOUS
<1> HIDE DEF s
<1>3. \A k \in 1 .. Len(s) : s[k].op \in JumpOps => s[k].to \in 0 .. Len(c) + Len(s)
  BY <1>1
<1>4. c \o s \in Seq(I) /\ Len(c \o s) = Len(c) + Len(s) /\ Backfilled(c \o s, P)
  BY <1>1, <1>3, Extending
<1>5. QED
  BY <1>1, <1>2, <1>4

(* A jump to be backfilled is the last instruction of what is emitted. *)
LEMMA Placing ==
  ASSUME NEW I, HasJumps(I), NEW c \in Seq(I), NEW P, Backfilled(c, P), NEW op \in JumpOps
  PROVE  /\ Append(c, Jump(op, -1)) \in Seq(I) /\ Len(Append(c, Jump(op, -1))) = Len(c) + 1
         /\ Len(c) \notin P
         /\ Backfilled(Append(c, Jump(op, -1)), P \cup {Len(c)})
<1> DEFINE j == Jump(op, -1)
           d == Append(c, j)
<1>1. j \in Jumps /\ j.op = op /\ j.to = -1
  BY DEF Jump, Jumps
<1> HIDE DEF j
<1>2. j \in I
  BY <1>1 DEF HasJumps
<1>3. /\ d \in Seq(I) /\ Len(d) = Len(c) + 1 /\ Len(c) \in Nat /\ d[Len(c) + 1] = j
      /\ \A k \in 1 .. Len(c) : d[k] = c[k]
  BY <1>2
<1> HIDE DEF d
<1>4. Len(c) \notin P
  BY <1>3 DEF Backfilled
<1>5. P \cup {Len(c)} \subseteq 0 .. Len(d) - 1 /\ \A a \in P \cup {Len(c)} : d[a + 1] \in Jumps
  <2>1. \A a \in P : a + 1 \in 1 .. Len(c) /\ c[a + 1] \in Jumps
    BY <1>3 DEF Backfilled
  <2>2. \A a \in P : d[a + 1] \in Jumps
    BY <1>3, <2>1
  <2>3. d[Len(c) + 1] \in Jumps
    BY <1>1, <1>3
  <2>4. \A a \in P \cup {Len(c)} : d[a + 1] \in Jumps
    BY <2>2, <2>3, Zenon
  <2>5. ASSUME NEW a \in P \cup {Len(c)} PROVE a \in 0 .. Len(d) - 1
    <3>1. a \in 0 .. Len(c) - 1 \/ a = Len(c)
      BY DEF Backfilled
    <3>2. QED
      BY <1>3, <3>1
  <2>6. QED
    BY <2>4, <2>5
<1>6. ASSUME NEW k \in 1 .. Len(d), d[k].op \in JumpOps
      PROVE  IF k - 1 \in P \cup {Len(c)} THEN d[k].to = -1 ELSE d[k].to \in 0 .. Len(d)
  <2>1. CASE k = Len(c) + 1
    BY <1>1, <1>3, <2>1
  <2>2. CASE k # Len(c) + 1
    <3>1. k \in 1 .. Len(c) /\ d[k] = c[k] /\ (k - 1 \in P \cup {Len(c)} <=> k - 1 \in P)
      BY <1>3, <2>2
    <3>2. QED
      BY <1>3, <1>6, <3>1 DEF Backfilled
  <2>3. QED
    BY <2>1, <2>2
<1>7. QED
  BY <1>3, <1>4, <1>5, <1>6 DEF Backfilled, d, j

LEMMA Patching ==
  ASSUME NEW I, HasJumps(I), NEW c \in Seq(I), NEW P, Backfilled(c, P), NEW a \in P
  PROVE  /\ patch_jump(c, a) \in Seq(I) /\ Len(patch_jump(c, a)) = Len(c)
         /\ Backfilled(patch_jump(c, a), P \ {a})
<1> DEFINE d == patch_jump(c, a)
           j == [c[a + 1] EXCEPT !.to = Len(c)]
<1>1. a \in 0 .. Len(c) - 1 /\ c[a + 1] \in Jumps /\ Len(c) \in Nat
  BY DEF Backfilled
<1>2. j \in Jumps /\ j.to = Len(c)
  BY <1>1 DEF Jumps
<1>3. j \in I
  BY <1>2 DEF HasJumps
<1>4. d = [c EXCEPT ![a + 1] = j]
  BY DEF patch_jump
<1> HIDE DEF j
<1>5. /\ d \in Seq(I) /\ Len(d) = Len(c) /\ d[a + 1] = j
      /\ \A k \in 1 .. Len(c) : k # a + 1 => d[k] = c[k]
  BY <1>1, <1>3, <1>4
<1> HIDE DEF d
<1>6. P \ {a} \subseteq 0 .. Len(d) - 1 /\ \A b \in P \ {a} : d[b + 1] \in Jumps
  <2>1. P \subseteq 0 .. Len(c) - 1 /\ \A b \in P : c[b + 1] \in Jumps
    BY DEF Backfilled
  <2>2. ASSUME NEW b \in P \ {a} PROVE b \in 0 .. Len(d) - 1 /\ d[b + 1] \in Jumps
    <3>1. b \in 0 .. Len(c) - 1 /\ b + 1 \in 1 .. Len(c) /\ b + 1 # a + 1
      BY <1>1, <2>1
    <3>2. d[b + 1] = c[b + 1]
      BY <1>5, <3>1
    <3>3. QED
      BY <1>5, <2>1, <3>1, <3>2
  <2>3. QED
    BY <2>2
<1>7. ASSUME NEW k \in 1 .. Len(d), d[k].op \in JumpOps
      PROVE  IF k - 1 \in P \ {a} THEN d[k].to = -1 ELSE d[k].to \in 0 .. Len(d)
  <2>1. CASE k = a + 1
    BY <1>1, <1>2, <1>5, <2>1
  <2>2. CASE k # a + 1
    <3>1. d[k] = c[k] /\ (k - 1 \in P \ {a} <=> k - 1 \in P)
      BY <1>1, <1>5, <2>2
    <3>2. QED
      BY <1>5, <1>7, <3>1 DEF Backfilled
  <2>3. QED
    BY <2>1, <2>2
<1>8. QED
  BY <1>5, <1>6, <1>7 DEF Backfilled, d

----------------------------------------------------------------------------
(* What is left to do.                                                     *)
Dos     == {"stmt", "halt", "end", "then", "else", "for", "loop", "func_end"}
Placers == {"then", "else", "loop"}

Tasks(T) == {t \in [do : Dos, node : T, at : Int] : /\ t.do = "then" => t.node.kind = "if"
                                                    /\ t.do = "for"  => t.node.kind = "for"}

Open(w)     == {k \in 1 .. Len(w) : w[k].do \in Placers}
Placed(w)   == {w[k].at : k \in Open(w)}
Left(w)     == {w[k].at : k \in Open(w) \ {1}}
Distinct(w) == \A j, k \in Open(w) : w[j].at = w[k].at => j = k

(* The task w[1] is replaced by the tasks t. *)
Replaced(z, t, w) ==
  /\ Len(t) \in Nat /\ Len(w) \in Nat \ {0} /\ Len(z) = Len(t) + Len(w) - 1
  /\ \A k \in 1 .. Len(t) : z[k] = t[k]
  /\ \A k \in 2 .. Len(w) : z[Len(t) + k - 1] = w[k]

LEMMA Replacing ==
  ASSUME NEW X, NEW w \in Seq(X), w # <<>>, NEW t \in Seq(X)
  PROVE  t \o Tail(w) \in Seq(X) /\ Replaced(t \o Tail(w), t, w)
<1>1. /\ Tail(w) \in Seq(X) /\ Len(Tail(w)) = Len(w) - 1 /\ Len(w) \in Nat \ {0}
      /\ \A k \in 1 .. Len(w) - 1 : Tail(w)[k] = w[k + 1]
  OBVIOUS
<1> DEFINE v == Tail(w)
<1> HIDE DEF v
<1>2. /\ t \o v \in Seq(X) /\ Len(t \o v) = Len(t) + Len(v) /\ Len(t) \in Nat
      /\ \A k \in 1 .. Len(t) : (t \o v)[k] = t[k]
      /\ \A k \in 1 .. Len(v) : (t \o v)[Len(t) + k] = v[k]
  BY <1>1 DEF v
<1>3. \A k \in 2 .. Len(w) : (t \o v)[Len(t) + k - 1] = w[k]
  <2>1. TAKE k \in 2 .. Len(w)
  <2>2. k - 1 \in 1 .. Len(v) /\ Len(t) + k - 1 = Len(t) + (k - 1) /\ v[k - 1] = w[k]
    BY <1>1, <1>2 DEF v
  <2>3. QED
    BY <1>2, <2>2
<1>4. QED
  BY <1>1, <1>2, <1>3 DEF v, Replaced

(* Of the new tasks t only the last may have a placeholder. *)
LEMMA Waiting ==
  ASSUME NEW z, NEW t, NEW w, Replaced(z, t, w), Distinct(w), Open(t) \subseteq {Len(t)},
         Placed(t) \cap Left(w) = {}
  PROVE  Distinct(z) /\ Placed(z) = Left(w) \cup Placed(t)
<1> DEFINE from(k) == Len(t) + k - 1
<1>1. Len(t) \in Nat /\ Len(w) \in Nat \ {0} /\ Len(z) = Len(t) + Len(w) - 1
  BY DEF Replaced
<1>2. \A k \in 2 .. Len(w) : from(k) \in 1 .. Len(z) /\ z[from(k)] = w[k]
  BY <1>1 DEF Replaced
<1>3. \A k \in 1 .. Len(t) : k \in 1 .. Len(z) /\ z[k] = t[k]
  BY <1>1 DEF Replaced
<1>4. \A k \in 1 .. Len(z) : k \in 1 .. Len(t) \/ \E j \in 2 .. Len(w) : k = from(j)
  <2>1. TAKE k \in 1 .. Len(z)
  <2>2. CASE k > Len(t)
    <3>1. k - Len(t) + 1 \in 2 .. Len(w) /\ k = from(k - Len(t) + 1)
      BY <1>1, <2>2
    <3>2. QED
      BY <3>1
  <2>3. QED
    BY <1>1, <2>2
<1>6. \A k \in Open(z) : k \in Open(t) \/ \E j \in Open(w) \ {1} : k = from(j)
  <2>1. TAKE k \in Open(z)
  <2>2. CASE k \in 1 .. Len(t)
    BY <1>3, <2>2 DEF Open
  <2>3. ASSUME NEW j \in 2 .. Len(w), k = from(j) PROVE j \in Open(w) \ {1}
    <3>1. z[k] = w[j] /\ z[k].do \in Placers
      BY <1>2, <2>3 DEF Open
    <3>2. QED
      BY <1>1, <3>1 DEF Open
  <2>4. QED
    BY <1>4, <2>2, <2>3 DEF Open
<1>7. \A k \in Open(t) : k \in Open(z) /\ z[k] = t[k]
  BY <1>3 DEF Open
<1>8. \A k \in Open(w) \ {1} : from(k) \in Open(z) /\ z[from(k)] = w[k]
  BY <1>1, <1>2 DEF Open
<1> HIDE DEF from
<1>9. Placed(z) = Left(w) \cup Placed(t)
  BY <1>6, <1>7, <1>8 DEF Placed, Left
<1>10. ASSUME NEW j \in Open(z), NEW k \in Open(z), z[j].at = z[k].at PROVE j = k
  <2>1. CASE j \in Open(t) /\ k \in Open(t)
    BY <2>1
  <2>2. CASE j \in Open(t) /\ \E m \in Open(w) \ {1} : k = from(m)
    BY <1>7, <1>8, <1>10, <2>2 DEF Placed, Left
  <2>3. CASE k \in Open(t) /\ \E m \in Open(w) \ {1} : j = from(m)
    BY <1>7, <1>8, <1>10, <2>3 DEF Placed, Left
  <2>4. CASE (\E m \in Open(w) \ {1} : j = from(m)) /\ (\E m \in Open(w) \ {1} : k = from(m))
    BY <1>8, <1>10, <2>4 DEF Distinct
  <2>5. QED
    BY <1>6, <2>1, <2>2, <2>3, <2>4
<1>11. QED
  BY <1>9, <1>10 DEF Distinct

(* Every placeholder is one task's, and the code waits for exactly those.  *)
Pending(T, w, c) ==
  /\ w \in Seq(Tasks(T)) /\ c \in Seq(Instructions(T))
  /\ Distinct(w) /\ Backfilled(c, Placed(w))

LEMMA TakingOff ==
  ASSUME NEW w, Distinct(w), Len(w) \in Nat \ {0}
  PROVE  IF w[1].do \in Placers THEN w[1].at \in Placed(w) /\ Left(w) = Placed(w) \ {w[1].at}
                                ELSE Left(w) = Placed(w)
BY DEF Open, Placed, Left, Distinct

LEMMA PendingPlain ==
  ASSUME NEW T, NEW w, NEW c, Pending(T, w, c), w # <<>>, w[1].do \notin Placers,
         NEW t \in Seq(Tasks(T)), \A k \in 1 .. Len(t) : t[k].do \notin Placers,
         NEW s \in Seq(Instructions(T)),
         \A k \in 1 .. Len(s) : s[k].op \in JumpOps => s[k].to \in 0 .. Len(c) + Len(s)
  PROVE  Pending(T, t \o Tail(w), c \o s) /\ Len(c \o s) = Len(c) + Len(s)
<1> DEFINE z == t \o Tail(w)
           I == Instructions(T)
<1>1. w \in Seq(Tasks(T)) /\ c \in Seq(I) /\ Distinct(w) /\ Backfilled(c, Placed(w)) /\ HasJumps(I)
  BY InstructionsHaveJumps DEF Pending
<1>2. z \in Seq(Tasks(T)) /\ Replaced(z, t, w)
  BY <1>1, Replacing
<1> HIDE DEF z, I
<1>3. Open(t) = {} /\ Placed(t) = {} /\ Open(t) \subseteq {Len(t)} /\ Placed(t) \cap Left(w) = {}
  BY DEF Open, Placed
<1>4. Distinct(z) /\ Placed(z) = Left(w) \cup Placed(t)
  BY <1>1, <1>2, <1>3, Waiting
<1>5. Placed(z) = Placed(w)
  BY <1>1, <1>2, <1>3, <1>4, TakingOff DEF Replaced
<1>6. c \o s \in Seq(I) /\ Len(c \o s) = Len(c) + Len(s) /\ Backfilled(c \o s, Placed(w))
  BY <1>1, Extending DEF I
<1>7. QED
  BY <1>2, <1>4, <1>5, <1>6, Zenon DEF Pending, z, I

(* A condition with its jump, and last in t the task that backfills it. *)
LEMMA PendingOpen ==
  ASSUME NEW T, NEW w, NEW c, Pending(T, w, c), w # <<>>, w[1].do \notin Placers,
         NEW t \in Seq(Tasks(T)), t # <<>>, \A k \in 1 .. Len(t) - 1 : t[k].do \notin Placers,
         t[Len(t)].do \in Placers, t[Len(t)].at = Len(c) + 1,
         NEW x \in Instructions(T), x.op \notin JumpOps
  PROVE  /\ Pending(T, t \o Tail(w), c \o <<x, Jump("jump_if_false", -1)>>)
         /\ Len(c \o <<x, Jump("jump_if_false", -1)>>) = Len(c) + 2
<1> DEFINE z == t \o Tail(w)
           I == Instructions(T)
           j == Jump("jump_if_false", -1)
           d == Append(c, x)
<1>1. w \in Seq(Tasks(T)) /\ c \in Seq(I) /\ Distinct(w) /\ Backfilled(c, Placed(w)) /\ HasJumps(I)
  BY InstructionsHaveJumps DEF Pending
<1>2. z \in Seq(Tasks(T)) /\ Replaced(z, t, w)
  BY <1>1, Replacing
<1> HIDE DEF z, I
<1>3. Open(t) = {Len(t)} /\ Placed(t) = {Len(c) + 1}
  BY DEF Open, Placed
<1>4. Left(w) = Placed(w)
  BY <1>1, <1>2, TakingOff DEF Replaced
<1>5. d \in Seq(I) /\ Len(d) = Len(c) + 1 /\ Backfilled(d, Placed(w))
  BY <1>1, ExtendingByOne DEF I
<1>6. c \o <<x, j>> = Append(d, j)
  <2> HIDE DEF j
  <2>1. Len(c) \in Nat /\ c \in [1 .. Len(c) -> I]
    BY <1>1
  <2>2. QED
    BY <1>1, <2>1 DEF I
<1> HIDE DEF d
<1>7. Append(d, j) \in Seq(I) /\ Len(Append(d, j)) = Len(d) + 1 /\ Len(d) \notin Placed(w)
        /\ Backfilled(Append(d, j), Placed(w) \cup {Len(d)})
  BY <1>1, <1>5, Placing DEF JumpOps
<1>8. Distinct(z) /\ Placed(z) = Left(w) \cup Placed(t)
  BY <1>1, <1>2, <1>3, <1>4, <1>5, <1>7, Waiting, SMTT(40)
<1>9. Placed(z) = Placed(w) \cup {Len(d)}
  BY <1>3, <1>4, <1>5, <1>8
<1>10. Len(c) \in Nat
  BY <1>1
<1>11. Pending(T, z, Append(d, j))
  BY <1>2, <1>7, <1>8, <1>9, Zenon DEF Pending, I
<1>12. Len(Append(d, j)) = Len(c) + 2
  BY <1>5, <1>7, <1>10
<1>13. QED
  BY <1>6, <1>11, <1>12, Zenon DEF z

(* The first task's jump is backfilled, after s was emitted. *)
LEMMA PendingClose ==
  ASSUME NEW T, NEW w, NEW c, Pending(T, w, c), w # <<>>, w[1].do \in Placers
  PROVE  /\ Pending(T, Tail(w), patch_jump(c, w[1].at))
         /\ Len(patch_jump(c, w[1].at)) = Len(c)
<1> DEFINE z == <<>> \o Tail(w)
           I == Instructions(T)
<1>1. w \in Seq(Tasks(T)) /\ c \in Seq(I) /\ Distinct(w) /\ Backfilled(c, Placed(w)) /\ HasJumps(I)
  BY InstructionsHaveJumps DEF Pending
<1> HIDE DEF I
<1>2. z \in Seq(Tasks(T)) /\ Replaced(z, <<>>, w)
  <2>1. <<>> \in Seq(Tasks(T))
    OBVIOUS
  <2>2. QED
    BY <1>1, <2>1, Replacing
<1>3. z = Tail(w)
  BY <1>1
<1> HIDE DEF z
<1>4. /\ Open(<<>>) = {} /\ Placed(<<>>) = {}
      /\ Open(<<>>) \subseteq {Len(<<>>)} /\ Placed(<<>>) \cap Left(w) = {}
  BY DEF Open, Placed
<1>5. w[1].at \in Placed(w) /\ Left(w) = Placed(w) \ {w[1].at}
  BY <1>1, <1>2, TakingOff DEF Replaced
<1>6. Distinct(z) /\ Placed(z) = Left(w)
  <2>1. Distinct(z) /\ Placed(z) = Left(w) \cup Placed(<<>>)
    BY <1>1, <1>2, <1>4, Waiting, Zenon
  <2>2. QED
    BY <1>4, <2>1
<1> DEFINE d == patch_jump(c, w[1].at)
<1>7. d \in Seq(I) /\ Len(d) = Len(c) /\ Backfilled(d, Placed(w) \ {w[1].at})
  BY <1>1, <1>5, Patching
<1> HIDE DEF d
<1>8. QED
  BY <1>2, <1>3, <1>5, <1>6, <1>7 DEF Pending, d, I

(* A new jump is emitted, which the last task in t backfills, and then the *)
(* first task's is.                                                        *)
LEMMA PendingElse ==
  ASSUME NEW T, NEW w, NEW c, Pending(T, w, c), w # <<>>, w[1].do \in Placers,
         NEW t \in Seq(Tasks(T)), t # <<>>, \A k \in 1 .. Len(t) - 1 : t[k].do \notin Placers,
         t[Len(t)].do \in Placers, t[Len(t)].at = Len(c)
  PROVE  /\ Pending(T, t \o Tail(w), patch_jump(Append(c, Jump("jump", -1)), w[1].at))
         /\ Len(patch_jump(Append(c, Jump("jump", -1)), w[1].at)) = Len(c) + 1
<1> DEFINE z == t \o Tail(w)
           I == Instructions(T)
           P == Placed(w)
           d == Append(c, Jump("jump", -1))
           e == patch_jump(d, w[1].at)
<1>1. w \in Seq(Tasks(T)) /\ c \in Seq(I) /\ Distinct(w) /\ Backfilled(c, P) /\ HasJumps(I)
  BY InstructionsHaveJumps DEF Pending
<1>2. z \in Seq(Tasks(T)) /\ Replaced(z, t, w)
  BY <1>1, Replacing
<1> HIDE DEF z, I
<1>3. Open(t) = {Len(t)} /\ Placed(t) = {Len(c)}
  BY DEF Open, Placed
<1>4. w[1].at \in P /\ Left(w) = P \ {w[1].at}
  BY <1>1, <1>2, TakingOff DEF Replaced
<1> HIDE DEF P
<1>5. d \in Seq(I) /\ Len(d) = Len(c) + 1 /\ Len(c) \notin P /\ Backfilled(d, P \cup {Len(c)})
  BY <1>1, Placing DEF JumpOps
<1> HIDE DEF d
<1>6. w[1].at \in P \cup {Len(c)}
  BY <1>4
<1>7. e \in Seq(I) /\ Len(e) = Len(d) /\ Backfilled(e, (P \cup {Len(c)}) \ {w[1].at})
  BY <1>1, <1>5, <1>6, Patching
<1> HIDE DEF e
<1>8. Placed(t) \cap Left(w) = {} /\ Open(t) \subseteq {Len(t)}
  BY <1>3, <1>4, <1>5
<1>9. Distinct(z) /\ Placed(z) = Left(w) \cup Placed(t)
  BY <1>1, <1>2, <1>8, Waiting, Zenon
<1>10. Placed(z) = (P \cup {Len(c)}) \ {w[1].at}
  BY <1>3, <1>4, <1>5, <1>9
<1>11. Pending(T, z, e)
  BY <1>2, <1>7, <1>9, <1>10, Zenon DEF Pending, I
<1>12. QED
  BY <1>5, <1>7, <1>11, Zenon DEF z, e, d

(* The jump back to the loop's start is emitted, and then the first task's *)
(* jump is backfilled.                                                     *)
LEMMA PendingLoop ==
  ASSUME NEW T, NEW w, NEW c, Pending(T, w, c), w # <<>>, w[1].do \in Placers, NEW start \in 0 .. Len(c)
  PROVE  /\ Pending(T, Tail(w), patch_jump(Append(c, Jump("jump", start)), w[1].at))
         /\ Len(patch_jump(Append(c, Jump("jump", start)), w[1].at)) = Len(c) + 1
<1> DEFINE I == Instructions(T)
           j == Jump("jump", start)
           d == Append(c, j)
<1>1. c \in Seq(I) /\ Backfilled(c, Placed(w)) /\ HasJumps(I) /\ Len(c) \in Nat
  BY InstructionsHaveJumps DEF Pending
<1>2. j \in Jumps /\ j.to = start
  BY <1>1 DEF Jump, Jumps, JumpOps
<1> HIDE DEF j, I
<1>3. j \in I /\ j.to \in 0 .. Len(c) + 1
  BY <1>1, <1>2 DEF HasJumps
<1>4. d \in Seq(I) /\ Len(d) = Len(c) + 1 /\ Backfilled(d, Placed(w))
  BY <1>1, <1>3, ExtendingByOne
<1> HIDE DEF d
<1>5. Pending(T, w, d)
  BY <1>4 DEF Pending, I
<1>6. Pending(T, Tail(w), patch_jump(d, w[1].at)) /\ Len(patch_jump(d, w[1].at)) = Len(d)
  BY <1>5, PendingClose
<1>7. QED
  BY <1>4, <1>6, Zenon DEF d, j

----------------------------------------------------------------------------
(* The loops.                                                              *)
Has(w, do)   == \E k \in 1 .. Len(w) : w[k].do = do
Later(w, do) == \E k \in 2 .. Len(w) : w[k].do = do

LEMMA Having ==
  ASSUME NEW z, NEW t, NEW w, Replaced(z, t, w), NEW do
  PROVE  /\ Has(z, do) <=> Has(t, do) \/ Later(w, do)
         /\ Has(w, do) <=> w[1].do = do \/ Later(w, do)
<1>1. Len(t) \in Nat /\ Len(w) \in Nat \ {0} /\ Len(z) = Len(t) + Len(w) - 1
  BY DEF Replaced
<1>2. \A k \in 2 .. Len(w) : Len(t) + k - 1 \in 1 .. Len(z) /\ z[Len(t) + k - 1] = w[k]
  BY <1>1 DEF Replaced
<1>3. \A k \in 1 .. Len(t) : k \in 1 .. Len(z) /\ z[k] = t[k]
  BY <1>1 DEF Replaced
<1>4. ASSUME NEW k \in 1 .. Len(z), z[k].do = do PROVE Has(t, do) \/ Later(w, do)
  <2>1. CASE k \in 1 .. Len(t)
    BY <1>3, <1>4, <2>1 DEF Has
  <2>2. CASE k > Len(t)
    <3> DEFINE m == k - Len(t) + 1
    <3>1. m \in 2 .. Len(w) /\ k = Len(t) + m - 1
      BY <1>1, <2>2
    <3> HIDE DEF m
    <3>2. w[m].do = do
      BY <1>2, <1>4, <3>1
    <3>3. QED
      BY <3>1, <3>2 DEF Later
  <2>3. QED
    BY <1>1, <2>1, <2>2
<1>5. Has(t, do) \/ Later(w, do) => Has(z, do)
  BY <1>2, <1>3 DEF Has, Later
<1>6. Has(w, do) <=> w[1].do = do \/ Later(w, do)
  BY <1>1 DEF Has, Later
<1>7. QED
  BY <1>4, <1>5, <1>6 DEF Has

(* Between the start of a for and its condition there is its assignment.   *)
Assigns(x)  == x.do = "stmt" /\ x.node.kind \in {"do", "bad"}
ForFirst(w) == \A k \in 1 .. Len(w) : w[k].do = "for" => k = 1 \/ (k = 2 /\ Assigns(w[1]))

LEMMA ForNext ==
  ASSUME NEW z, NEW t, NEW w, Replaced(z, t, w), ForFirst(w), ~Has(t, "for"),
         Len(t) = 0 \/ ~Later(w, "for")
  PROVE  ForFirst(z)
<1>1. Len(t) \in Nat /\ Len(w) \in Nat \ {0} /\ Len(z) = Len(t) + Len(w) - 1
  BY DEF Replaced
<1> SUFFICES ASSUME NEW k \in 1 .. Len(z), z[k].do = "for" PROVE k = 1
  BY DEF ForFirst
<1>2. Has(z, "for")
  BY DEF Has
<1>3. Len(t) = 0 /\ Later(w, "for")
  BY <1>2, Having
<1>4. k + 1 \in 2 .. Len(w) /\ w[k + 1].do = "for"
  BY <1>1, <1>3 DEF Replaced
<1>5. QED
  BY <1>4 DEF ForFirst

LEMMA ForAfterAssignment ==
  ASSUME NEW w, ForFirst(w), Later(w, "for")
  PROVE  Assigns(w[1])
BY DEF ForFirst, Later

(* The flag is on only in a loop, whose addresses are then in the code.    *)
Looping(w, flag, start, end, n) ==
  /\ ForFirst(w)
  /\ flag => Has(w, "loop") \/ Has(w, "for")
  /\ Has(w, "loop") => start \in 0 .. n /\ end \in 0 .. n

LEMMA LoopingOn ==
  ASSUME NEW z, NEW t, NEW w, Replaced(z, t, w), NEW flag, NEW start, NEW end, NEW n \in Nat,
         Looping(w, flag, start, end, n), w[1].do \notin {"loop", "for"},
         ~Has(t, "for"), ~Has(t, "loop"), Len(t) = 0 \/ ~Assigns(w[1]), NEW m \in Nat, n <= m
  PROVE  Looping(z, flag, start, end, m)
<1>1. ForFirst(w) /\ (flag => Has(w, "loop") \/ Has(w, "for"))
        /\ (Has(w, "loop") => start \in 0 .. n /\ end \in 0 .. n)
  BY DEF Looping
<1>2. ForFirst(z)
  BY <1>1, ForNext, ForAfterAssignment
<1>3. (Has(z, "loop") <=> Has(w, "loop")) /\ (Has(z, "for") <=> Has(w, "for"))
  BY Having
<1>4. Has(z, "loop") => start \in 0 .. m /\ end \in 0 .. m
  BY <1>1, <1>3
<1>5. QED
  BY <1>1, <1>2, <1>3, <1>4 DEF Looping

LEMMA LoopingStarts ==
  ASSUME NEW z, NEW t, NEW w, Replaced(z, t, w), NEW flag, NEW start, NEW end, NEW n \in Nat,
         Looping(w, flag, start, end, n), ~Assigns(w[1]), ~Has(t, "for"), Has(t, "loop"), NEW on
  PROVE  Looping(z, on, n, n + 1, n + 2)
<1>1. ForFirst(z)
  BY ForNext, ForAfterAssignment DEF Looping
<1>2. Has(z, "loop")
  BY Having
<1>3. QED
  BY <1>1, <1>2 DEF Looping

LEMMA LoopingPrepares ==
  ASSUME NEW z, NEW t, NEW w, Replaced(z, t, w), NEW flag, NEW start, NEW end, NEW n \in Nat,
         Looping(w, flag, start, end, n), ~Assigns(w[1]), w[1].do # "loop",
         Len(t) = 2, Assigns(t[1]), t[2].do = "for"
  PROVE  Looping(z, TRUE, start, end, n)
<1>1. /\ Len(w) \in Nat \ {0} /\ Len(z) = Len(w) + 1 /\ z[1] = t[1] /\ z[2] = t[2]
      /\ \A k \in 2 .. Len(w) : z[2 + k - 1] = w[k]
  BY DEF Replaced
<1>2. ForFirst(z)
  <2>1. ~Later(w, "for")
    BY ForAfterAssignment DEF Looping
  <2>2. ASSUME NEW k \in 3 .. Len(z), z[k].do = "for" PROVE FALSE
    <3>1. k - 1 \in 2 .. Len(w) /\ 2 + (k - 1) - 1 = k
      BY <1>1
    <3>2. z[k] = w[k - 1]
      BY <1>1, <3>1
    <3>3. QED
      BY <2>1, <2>2, <3>1, <3>2 DEF Later
  <2>3. QED
    BY <1>1, <2>2 DEF ForFirst
<1>3. Has(t, "for") /\ ~Has(t, "loop")
  BY DEF Has, Assigns
<1>4. Has(z, "for") /\ (Has(z, "loop") => Has(w, "loop"))
  BY <1>3, Having
<1>5. QED
  BY <1>2, <1>4 DEF Looping

LEMMA LoopingEnds ==
  ASSUME NEW z, NEW t, NEW w, Replaced(z, t, w), NEW flag, NEW start, NEW end, NEW n \in Nat,
         Looping(w, flag, start, end, n), w[1].do = "loop", Len(t) = 0
  PROVE  Looping(z, FALSE, start, end, n + 1)
<1>1. ~Has(t, "for")
  BY DEF Has
<1>2. ForFirst(z)
  BY <1>1, ForNext DEF Looping
<1>3. Has(w, "loop")
  BY Having
<1>4. QED
  BY <1>2, <1>3 DEF Looping

----------------------------------------------------------------------------
(* Tasks and trees.                                                        *)
LEMMA TasksType ==
  ASSUME NEW T, NEW n \in T, NEW a \in Int
  PROVE  /\ Stmt(n) \in Tasks(T) /\ Stmt(n).do = "stmt" /\ Stmt(n).node = n
         /\ \A do \in {"halt", "end", "else", "loop", "func_end"} : Task(do, n, a) \in Tasks(T)
         /\ n.kind = "if"  => Task("then", n, a) \in Tasks(T)
         /\ n.kind = "for" => Task("for", n, a) \in Tasks(T)
         /\ \A do \in Dos : Task(do, n, a).do = do /\ Task(do, n, a).node = n /\ Task(do, n, a).at = a
BY DEF Stmt, Task, Tasks, Dos

LEMMA StmtsType ==
  ASSUME NEW T, NEW ss \in Seq(T)
  PROVE  /\ Stmts(ss) \in Seq(Tasks(T)) /\ Len(Stmts(ss)) = Len(ss)
         /\ \A k \in 1 .. Len(ss) : Stmts(ss)[k] = Stmt(ss[k])
<1>1. \A k \in 1 .. Len(ss) : Stmt(ss[k]) \in Tasks(T)
  BY TasksType
<1> DEFINE W == Tasks(T)
           F(k) == Stmt(ss[k])
<1> HIDE DEF W, F
<1>2. Stmts(ss) = [k \in 1 .. Len(ss) |-> F(k)] /\ \A k \in 1 .. Len(ss) : F(k) \in W
  BY <1>1 DEF Stmts, F, W
<1>3. Len(ss) \in Nat
  OBVIOUS
<1>4. Stmts(ss) \in Seq(W) /\ Len(Stmts(ss)) = Len(ss) /\ \A k \in 1 .. Len(ss) : Stmts(ss)[k] = F(k)
  BY <1>2, <1>3
<1>5. QED
  BY <1>4 DEF F, W

(* Statements and one more task x after them. *)
Then(t, ss, x) ==
  /\ Len(t) = Len(ss) + 1 /\ Len(ss) \in Nat /\ t[Len(t)] = x
  /\ \A k \in 1 .. Len(ss) : t[k] = Stmt(ss[k])

LEMMA StmtsThen ==
  ASSUME NEW T, NEW ss \in Seq(T), NEW x \in Tasks(T)
  PROVE  Stmts(ss) \o <<x>> \in Seq(Tasks(T)) /\ Then(Stmts(ss) \o <<x>>, ss, x)
<1> DEFINE W == Tasks(T)
           s == Stmts(ss)
<1>1. s \in Seq(W) /\ Len(s) = Len(ss) /\ \A k \in 1 .. Len(ss) : s[k] = Stmt(ss[k])
  BY StmtsType
<1>2. Len(ss) \in Nat
  OBVIOUS
<1> HIDE DEF W, s
<1>3. /\ s \o <<x>> \in Seq(W) /\ Len(s \o <<x>>) = Len(s) + 1 /\ (s \o <<x>>)[Len(s) + 1] = x
      /\ \A k \in 1 .. Len(s) : (s \o <<x>>)[k] = s[k]
  BY <1>1 DEF W
<1>4. QED
  BY <1>1, <1>2, <1>3 DEF Then, W, s

LEMMA StmtThen ==
  ASSUME NEW T, NEW n \in T, NEW x \in Tasks(T)
  PROVE  <<Stmt(n), x>> \in Seq(Tasks(T)) /\ Then(<<Stmt(n), x>>, <<n>>, x)
BY TasksType DEF Then

LEMMA ThenDoes ==
  ASSUME NEW t, NEW ss, NEW x, Then(t, ss, x)
  PROVE  /\ Len(t) \in Nat \ {0} /\ t[Len(t)] = x
         /\ \A k \in 1 .. Len(t) - 1 : t[k].do = "stmt"
         /\ \A do \in Dos \ {"stmt"} : Has(t, do) <=> x.do = do
<1>1. \A n : Stmt(n).do = "stmt"
  BY DEF Stmt, Task
<1>2. Len(t) \in Nat \ {0} /\ t[Len(t)] = x /\ \A k \in 1 .. Len(t) - 1 : t[k].do = "stmt"
  BY <1>1 DEF Then
<1>3. QED
  BY <1>2 DEF Has

----------------------------------------------------------------------------
(* The invariant of the generator, and its actions.                        *)
Generating(T) ==
  /\ refused => work = <<>>
  /\ ~refused => /\ Pending(T, work, code)
                 /\ Looping(work, loop, loop_start, loop_end, Len(code))

LEMMA Foremost ==
  ASSUME NEW T, Trees(T), Generating(T), work # <<>>
  PROVE  /\ ~refused /\ Pending(T, work, code)
         /\ Looping(work, loop, loop_start, loop_end, Len(code))
         /\ work \in Seq(Tasks(T)) /\ Len(work) \in Nat \ {0} /\ Len(code) \in Nat
         /\ code \in Seq(Instructions(T))
         /\ work[1] \in Tasks(T) /\ this \in T /\ WellFormed(this, T)
<1>1. ~refused /\ Pending(T, work, code) /\ Looping(work, loop, loop_start, loop_end, Len(code))
  BY DEF Generating
<1>2. work \in Seq(Tasks(T)) /\ code \in Seq(Instructions(T))
  BY <1>1 DEF Pending
<1>3. Len(work) \in Nat \ {0} /\ Len(code) \in Nat /\ work[1] \in Tasks(T)
  BY <1>2
<1>4. this \in T
  BY <1>3 DEF this, Tasks
<1>5. QED
  BY <1>1, <1>2, <1>3, <1>4 DEF Trees

LEMMA InstructionsType ==
  ASSUME NEW T
  PROVE  /\ \A op \in Others : Ins(op) \in Instructions(T) /\ Ins(op).op = op
         /\ \A op \in Others, n \in T : Named(op, n.id) \in Instructions(T) /\ Named(op, n.id).op = op
         /\ \A op \in JumpOps, to \in Int : /\ Jump(op, to) \in Instructions(T)
                                            /\ Jump(op, to).op = op /\ Jump(op, to).to = to
<1>1. ASSUME NEW op \in Others, NEW n \in T
      PROVE  Named(op, n.id) \in Instructions(T) /\ Named(op, n.id).op = op
  <2>1. n.id \in {m.id : m \in T}
    OBVIOUS
  <2>2. QED
    BY <2>1 DEF Named, Instructions
<1>2. QED
  BY <1>1 DEF Ins, Jump, Instructions, Jumps

(* The actions that leave the flag and backfill nothing. *)
Emitted(T, s) ==
  /\ s \in Seq(Instructions(T))
  /\ \A k \in 1 .. Len(s) : s[k].op \in JumpOps => s[k].to \in 0 .. Len(code) + Len(s)

Pushed(T, t) ==
  /\ t \in Seq(Tasks(T))
  /\ \A k \in 1 .. Len(t) : t[k].do \in {"stmt", "halt", "end", "func_end"}

LEMMA Emitting ==
  ASSUME NEW T, Trees(T), Generating(T), work # <<>>, work[1].do \notin Placers \cup {"for"},
         NEW t, Pushed(T, t), Len(t) = 0 \/ ~Assigns(work[1]), NEW s, Emitted(T, s),
         Emit(s, t), UNCHANGED statics
  PROVE  Generating(T)'
<1>1. /\ ~refused /\ Pending(T, work, code) /\ work \in Seq(Tasks(T)) /\ Len(code) \in Nat
      /\ Looping(work, loop, loop_start, loop_end, Len(code))
  BY Foremost
<1>2. code' = code \o s /\ work' = t \o Tail(work) /\ refused' = refused
        /\ loop' = loop /\ loop_start' = loop_start /\ loop_end' = loop_end
  BY DEF Emit, statics
<1>0. /\ t \in Seq(Tasks(T)) /\ \A k \in 1 .. Len(t) : t[k].do \in {"stmt", "halt", "end", "func_end"}
      /\ s \in Seq(Instructions(T))
      /\ \A k \in 1 .. Len(s) : s[k].op \in JumpOps => s[k].to \in 0 .. Len(code) + Len(s)
  BY DEF Emitted, Pushed
<1>3. \A k \in 1 .. Len(t) : t[k].do \notin Placers
  BY <1>0 DEF Placers
<1>4. Pending(T, t \o Tail(work), code \o s) /\ Len(code \o s) = Len(code) + Len(s)
  BY <1>0, <1>1, <1>3, PendingPlain
<1>5. Replaced(t \o Tail(work), t, work)
  BY <1>0, <1>1, Replacing
<1>6. ~Has(t, "for") /\ ~Has(t, "loop") /\ work[1].do \notin {"loop", "for"}
  BY <1>0 DEF Has, Placers
<1>7. Len(s) \in Nat
  BY <1>0
<1> DEFINE z == t \o Tail(work)
           m == Len(code) + Len(s)
<1> HIDE DEF z
<1>8. m \in Nat /\ Len(code) <= m
  BY <1>1, <1>7
<1> HIDE DEF m
<1>9. Looping(z, loop, loop_start, loop_end, m)
  BY <1>1, <1>5, <1>6, <1>8, LoopingOn DEF z
<1>10. QED
  BY <1>1, <1>2, <1>4, <1>9, Zenon DEF z, m, Generating

LEMMA PushedNone ==
  ASSUME NEW T
  PROVE  Pushed(T, <<>>) /\ Len(<<>>) = 0
BY DEF Pushed

LEMMA PushedThen ==
  ASSUME NEW T, NEW ss \in Seq(T), NEW x \in Tasks(T), x.do \in {"halt", "end", "func_end"}
  PROVE  Pushed(T, Stmts(ss) \o <<x>>)
<1>1. Stmts(ss) \o <<x>> \in Seq(Tasks(T)) /\ Then(Stmts(ss) \o <<x>>, ss, x)
  BY StmtsThen
<1> DEFINE t == Stmts(ss) \o <<x>>
<1> HIDE DEF t
<1>2. Len(t) \in Nat \ {0} /\ t[Len(t)] = x /\ \A k \in 1 .. Len(t) - 1 : t[k].do = "stmt"
  BY <1>1, ThenDoes DEF t
<1>3. Pushed(T, t)
  BY <1>1, <1>2 DEF Pushed, t
<1>4. QED
  BY <1>3 DEF t

LEMMA EmittedOne ==
  ASSUME NEW T, NEW x \in Instructions(T), x.op \notin JumpOps
  PROVE  Emitted(T, <<x>>)
BY DEF Emitted

LEMMA Doings ==
  ASSUME NEW kind, Doing(kind)
  PROVE  /\ work # <<>> /\ work[1].do = "stmt" /\ this.kind = kind
         /\ work[1].do \notin Placers \cup {"for"}
         /\ Assigns(work[1]) <=> kind \in {"do", "bad"}
BY DEF Doing, this, Placers, Assigns

LEMMA DoStep ==
  ASSUME NEW T, Trees(T), Generating(T), GenDo
  PROVE  Generating(T)'
<1>1. Doing("do") /\ Emit(<<Named("do", this.id)>>, <<>>) /\ UNCHANGED statics
  BY DEF GenDo
<1>2. this \in T
  BY <1>1, Doings, Foremost
<1>3. Emitted(T, <<Named("do", this.id)>>)
  BY <1>2, InstructionsType, EmittedOne DEF Others, JumpOps
<1>4. QED
  BY <1>1, <1>3, Doings, PushedNone, Emitting, Zenon

LEMMA BlockStep ==
  ASSUME NEW T, Trees(T), Generating(T), GenBlock
  PROVE  Generating(T)'
<1> DEFINE x == Task("end", this, -1)
<1>1. Doing("block") /\ Emit(<<Ins("nop")>>, Stmts(this.parts) \o <<x>>) /\ UNCHANGED statics
  BY DEF GenBlock
<1>2. this \in T /\ this.parts \in Seq(T)
  BY <1>1, Doings, Foremost DEF WellFormed
<1>3. x \in Tasks(T) /\ x.do = "end"
  BY <1>2 DEF Task, Tasks, Dos
<1>4. Pushed(T, Stmts(this.parts) \o <<x>>)
  BY <1>2, <1>3, PushedThen
<1>5. Emitted(T, <<Ins("nop")>>)
  BY InstructionsType, EmittedOne DEF Others, JumpOps
<1>6. ~Assigns(work[1])
  BY <1>1, Doings
<1> HIDE DEF x
<1>7. QED
  BY <1>1, <1>4, <1>5, <1>6, Doings, Emitting, Zenon

LEMMA EndStep ==
  ASSUME NEW T, Trees(T), Generating(T), GenEnd
  PROVE  Generating(T)'
<1>1. work # <<>> /\ work[1].do \notin Placers \cup {"for"}
  BY DEF GenEnd, Placers
<1>2. Emit(<<Ins("nop")>>, <<>>) /\ UNCHANGED statics
  BY DEF GenEnd
<1>3. Emitted(T, <<Ins("nop")>>)
  BY InstructionsType, EmittedOne DEF Others, JumpOps
<1>4. QED
  BY <1>1, <1>2, <1>3, PushedNone, Emitting, Zenon

LEMMA ReturnStep ==
  ASSUME NEW T, Trees(T), Generating(T), GenReturn
  PROVE  Generating(T)'
<1> DEFINE s == <<Ins("push_null"), Ins("return")>>
<1>1. Doing("return") /\ Emit(s, <<>>) /\ UNCHANGED statics
  BY DEF GenReturn
<1>2. Emitted(T, s)
  BY InstructionsType DEF Emitted, Others, JumpOps
<1> HIDE DEF s
<1>3. QED
  BY <1>1, <1>2, Doings, PushedNone, Emitting, Zenon

(* A break or continue in a loop: the loop's addresses are in the code. *)
LEMMA InLoopAddresses ==
  ASSUME NEW T, Trees(T), Generating(T), loop, NEW kind \in {"break", "continue"}, Doing(kind)
  PROVE  loop_start \in 0 .. Len(code) /\ loop_end \in 0 .. Len(code)
<1>1. Looping(work, loop, loop_start, loop_end, Len(code)) /\ Len(work) \in Nat \ {0}
  BY Doings, Foremost
<1>2. ~Assigns(work[1]) /\ work[1].do # "for"
  BY Doings
<1>3. ~Has(work, "for")
  BY <1>1, <1>2 DEF Has, Looping, ForFirst
<1>4. QED
  BY <1>1, <1>3 DEF Looping

LEMMA BreakStep ==
  ASSUME NEW T, Trees(T), Generating(T), GenBreak
  PROVE  Generating(T)'
<1> DEFINE s == <<Ins("push_false"), Jump("jump", loop_end)>>
<1>1. Doing("break") /\ loop /\ Emit(s, <<>>) /\ UNCHANGED statics
  BY DEF GenBreak
<1>2. loop_end \in 0 .. Len(code) /\ Len(code) \in Nat
  BY <1>1, InLoopAddresses, Doings, Foremost
<1>3. Emitted(T, s)
  BY <1>2, InstructionsType DEF Emitted, Others, JumpOps
<1> HIDE DEF s
<1>4. QED
  BY <1>1, <1>3, Doings, PushedNone, Emitting, Zenon

LEMMA ContinueStep ==
  ASSUME NEW T, Trees(T), Generating(T), GenContinue
  PROVE  Generating(T)'
<1> DEFINE s == <<Jump("jump", loop_start)>>
<1>1. Doing("continue") /\ loop /\ Emit(s, <<>>) /\ UNCHANGED statics
  BY DEF GenContinue
<1>2. loop_start \in 0 .. Len(code) /\ Len(code) \in Nat
  BY <1>1, InLoopAddresses, Doings, Foremost
<1>3. Emitted(T, s)
  BY <1>2, InstructionsType DEF Emitted, Others, JumpOps
<1> HIDE DEF s
<1>4. QED
  BY <1>1, <1>3, Doings, PushedNone, Emitting, Zenon

LEMMA FunctionStep ==
  ASSUME NEW T, Trees(T), Generating(T), GenFunction
  PROVE  Generating(T)'
<1> DEFINE s == <<Named("func_def", this.id), Ins("func_set_args"), Ins("nop")>>
           x == Task("func_end", this, -1)
           t == <<Stmt(this.parts[1]), x>>
<1>1. Doing("function") /\ Emit(s, t) /\ UNCHANGED statics
  BY DEF GenFunction
<1>2. this \in T /\ this.parts \in Seq(T) /\ Len(this.parts) = 1
  BY <1>1, Doings, Foremost DEF WellFormed
<1>3. x \in Tasks(T) /\ x.do = "func_end"
  BY <1>2 DEF Task, Tasks, Dos
<1>4. this.parts[1] \in T
  BY <1>2
<1>5. Stmt(this.parts[1]) \in Tasks(T) /\ Stmt(this.parts[1]).do = "stmt"
  BY <1>4, TasksType
<1>6. Pushed(T, t)
  BY <1>3, <1>5 DEF Pushed
<1>7. Emitted(T, s)
  BY <1>2, InstructionsType DEF Emitted, Others, JumpOps
<1>8. ~Assigns(work[1])
  BY <1>1, Doings
<1> HIDE DEF s, t
<1>9. QED
  BY <1>1, <1>6, <1>7, <1>8, Doings, Emitting, Zenon

LEMMA FunctionEndStep ==
  ASSUME NEW T, Trees(T), Generating(T), GenFunctionEnd
  PROVE  Generating(T)'
<1> DEFINE s == <<Ins("push_null"), Ins("return"), Ins("func_end")>>
<1>1. work # <<>> /\ work[1].do \notin Placers \cup {"for"}
  BY DEF GenFunctionEnd, Placers
<1>2. Emit(s, <<>>) /\ UNCHANGED statics
  BY DEF GenFunctionEnd
<1>3. Emitted(T, s)
  BY InstructionsType DEF Emitted, Others, JumpOps
<1> HIDE DEF s
<1>4. QED
  BY <1>1, <1>2, <1>3, PushedNone, Emitting, Zenon

LEMMA HaltStep ==
  ASSUME NEW T, Trees(T), Generating(T), GenHalt
  PROVE  Generating(T)'
<1>1. work # <<>> /\ work[1].do \notin Placers \cup {"for"}
  BY DEF GenHalt, Placers
<1>2. Emit(<<Ins("halt")>>, <<>>) /\ UNCHANGED statics
  BY DEF GenHalt
<1>3. Emitted(T, <<Ins("halt")>>)
  BY InstructionsType, EmittedOne DEF Others, JumpOps
<1>4. QED
  BY <1>1, <1>2, <1>3, PushedNone, Emitting, Zenon

LEMMA RefusedStep ==
  ASSUME NEW T, GenBad \/ GenNotInLoop
  PROVE  Generating(T)'
BY DEF GenBad, GenNotInLoop, Refuse, Generating

(* A condition with its jump, and after ss a task x that backfills it. *)
Conditional(T, t, ss, x) ==
  /\ t \in Seq(Tasks(T)) /\ Then(t, ss, x) /\ x.do \in Placers
  /\ x.at = Len(code) + 1

LEMMA Conditioned ==
  ASSUME NEW T, Trees(T), Generating(T), work # <<>>, work[1].do \notin Placers,
         NEW t, NEW ss, NEW x, Conditional(T, t, ss, x),
         Emit(<<Named("cond", this.id), Jump("jump_if_false", -1)>>, t)
  PROVE  /\ Pending(T, work, code)' /\ Len(code') = Len(code) + 2 /\ Replaced(work', t, work)
         /\ ~refused'
<1> DEFINE c == Named("cond", this.id)
           j == Jump("jump_if_false", -1)
<1>1. /\ ~refused /\ Pending(T, work, code) /\ work \in Seq(Tasks(T))
      /\ this \in T
  BY Foremost
<1>2. code' = code \o <<c, j>> /\ work' = t \o Tail(work) /\ refused' = refused
  BY DEF Emit
<1>3. c \in Instructions(T) /\ c.op \notin JumpOps
  BY <1>1, InstructionsType DEF Others, JumpOps
<1>4. t \in Seq(Tasks(T)) /\ Then(t, ss, x) /\ x.do \in Placers /\ x.at = Len(code) + 1
  BY DEF Conditional
<1>5. Len(t) \in Nat \ {0} /\ t[Len(t)] = x /\ \A k \in 1 .. Len(t) - 1 : t[k].do \notin Placers
  BY <1>4, ThenDoes DEF Placers
<1>6. t # <<>>
  BY <1>5
<1> HIDE DEF c
<1>7. Pending(T, t \o Tail(work), code \o <<c, j>>) /\ Len(code \o <<c, j>>) = Len(code) + 2
  BY <1>1, <1>3, <1>4, <1>5, <1>6, PendingOpen
<1>8. Replaced(t \o Tail(work), t, work)
  BY <1>1, <1>4, Replacing
<1>9. QED
  BY <1>1, <1>2, <1>7, <1>8, Zenon

LEMMA IfStep ==
  ASSUME NEW T, Trees(T), Generating(T), GenIf
  PROVE  Generating(T)'
<1> DEFINE n == this.parts[1]
           x == Task("then", this, Len(code) + 1)
           t == <<Stmt(n), x>>
<1>1. Doing("if") /\ Emit(<<Named("cond", this.id), Jump("jump_if_false", -1)>>, t) /\ UNCHANGED statics
  BY DEF GenIf
<1>2. /\ this \in T /\ this.parts \in Seq(T) /\ Len(this.parts) \in 1 .. 2 /\ this.kind = "if"
      /\ Len(code) \in Nat /\ Looping(work, loop, loop_start, loop_end, Len(code))
  BY <1>1, Doings, Foremost DEF WellFormed
<1>3. x \in Tasks(T) /\ x.do = "then" /\ x.at = Len(code) + 1
  BY <1>2 DEF Task, Tasks, Dos
<1>4. n \in T
  BY <1>2
<1> HIDE DEF n, x
<1>5. t \in Seq(Tasks(T)) /\ Then(t, <<n>>, x)
  BY <1>3, <1>4, StmtThen
<1>6. Conditional(T, t, <<n>>, x)
  BY <1>3, <1>5 DEF Conditional, Placers
<1>7. ~Has(t, "for") /\ ~Has(t, "loop")
  BY <1>3, <1>5, ThenDoes DEF Dos
<1> HIDE DEF t
<1>8. /\ Pending(T, work, code)' /\ Len(code') = Len(code) + 2 /\ Replaced(work', t, work)
      /\ ~refused'
  BY <1>1, <1>6, Doings, Conditioned, Zenon DEF Placers
<1>9. Looping(work', loop, loop_start, loop_end, Len(code) + 2)
  BY <1>1, <1>2, <1>7, <1>8, Doings, LoopingOn
<1>10. QED
  BY <1>1, <1>8, <1>9 DEF Generating, statics

LEMMA WhileStep ==
  ASSUME NEW T, Trees(T), Generating(T), GenWhile
  PROVE  Generating(T)'
<1> DEFINE n == this.parts[1]
           x == Task("loop", this, Len(code) + 1)
           t == <<Stmt(n), x>>
<1>1. /\ Doing("while") /\ Emit(<<Named("cond", this.id), Jump("jump_if_false", -1)>>, t)
      /\ loop' = TRUE /\ loop_start' = Len(code) /\ loop_end' = Len(code) + 1
  BY DEF GenWhile
<1>2. /\ this \in T /\ this.parts \in Seq(T) /\ Len(this.parts) = 1
      /\ Len(code) \in Nat /\ Looping(work, loop, loop_start, loop_end, Len(code))
  BY <1>1, Doings, Foremost DEF WellFormed
<1>3. x \in Tasks(T) /\ x.do = "loop" /\ x.at = Len(code) + 1
  BY <1>2 DEF Task, Tasks, Dos
<1>4. n \in T
  BY <1>2
<1> HIDE DEF n, x
<1>5. t \in Seq(Tasks(T)) /\ Then(t, <<n>>, x)
  BY <1>3, <1>4, StmtThen
<1>6. Conditional(T, t, <<n>>, x)
  BY <1>3, <1>5 DEF Conditional, Placers
<1>7. ~Has(t, "for") /\ Has(t, "loop")
  BY <1>3, <1>5, ThenDoes DEF Dos
<1> HIDE DEF t
<1>8. /\ Pending(T, work, code)' /\ Len(code') = Len(code) + 2 /\ Replaced(work', t, work)
      /\ ~refused'
  BY <1>1, <1>6, Doings, Conditioned, Zenon DEF Placers
<1>9. Looping(work', TRUE, Len(code), Len(code) + 1, Len(code) + 2)
  <2>1. ~Assigns(work[1])
    BY <1>1, Doings
  <2>2. QED
    BY <1>2, <1>7, <1>8, <2>1, LoopingStarts, Zenon
<1>10. QED
  BY <1>1, <1>8, <1>9 DEF Generating

LEMMA ForConditionStep ==
  ASSUME NEW T, Trees(T), Generating(T), GenForCondition
  PROVE  Generating(T)'
<1> DEFINE ss == Tail(this.parts)
           x  == Task("loop", this, Len(code) + 1)
           t  == Stmts(ss) \o <<x>>
<1>1. /\ work # <<>> /\ work[1].do = "for"
      /\ Emit(<<Named("cond", this.id), Jump("jump_if_false", -1)>>, t)
      /\ loop_start' = Len(code) /\ loop_end' = Len(code) + 1 /\ loop' = loop
  BY DEF GenForCondition
<1>2. /\ this \in T /\ work[1] \in Tasks(T) /\ this.parts \in Seq(T) /\ Len(code) \in Nat
      /\ Looping(work, loop, loop_start, loop_end, Len(code)) /\ WellFormed(this, T)
  BY <1>1, Foremost DEF WellFormed
<1>3. x \in Tasks(T) /\ x.do = "loop" /\ x.at = Len(code) + 1
  BY <1>2 DEF Task, Tasks, Dos
<1>4. ss \in Seq(T)
  <2>1. this.kind = "for"
    BY <1>1, <1>2 DEF Tasks, this
  <2>2. this.parts # <<>>
    BY <1>2, <2>1 DEF WellFormed
  <2>3. QED
    BY <1>2, <2>2
<1> HIDE DEF ss, x
<1>5. t \in Seq(Tasks(T)) /\ Then(t, ss, x)
  BY <1>3, <1>4, StmtsThen
<1>6. Conditional(T, t, ss, x)
  BY <1>3, <1>5 DEF Conditional, Placers
<1>7. ~Has(t, "for") /\ Has(t, "loop")
  BY <1>3, <1>5, ThenDoes DEF Dos
<1> HIDE DEF t
<1>8. /\ Pending(T, work, code)' /\ Len(code') = Len(code) + 2 /\ Replaced(work', t, work)
      /\ ~refused'
  <2>1. work[1].do \notin Placers
    BY <1>1 DEF Placers
  <2>2. QED
    BY <1>1, <1>6, <2>1, Conditioned, Zenon
<1>9. Looping(work', loop, Len(code), Len(code) + 1, Len(code) + 2)
  <2>1. ~Assigns(work[1])
    BY <1>1 DEF Assigns
  <2>2. QED
    BY <1>1, <1>2, <1>7, <1>8, <2>1, LoopingStarts
<1>10. QED
  BY <1>1, <1>8, <1>9 DEF Generating

LEMMA ForStep ==
  ASSUME NEW T, Trees(T), Generating(T), GenFor
  PROVE  Generating(T)'
<1> DEFINE n == this.parts[1]
           x == Task("for", this, -1)
           t == <<Stmt(n), x>>
<1>1. /\ Doing("for") /\ Emit(<<>>, t)
      /\ loop' = TRUE /\ loop_start' = loop_start /\ loop_end' = loop_end
  BY DEF GenFor
<1>2. /\ this \in T /\ this.parts \in Seq(T) /\ Len(this.parts) \in 2 .. 3
      /\ n.kind \in {"do", "bad"} /\ this.kind = "for"
  BY <1>1, Doings, Foremost DEF WellFormed, Assignments
<1>3. /\ ~refused /\ Pending(T, work, code) /\ work \in Seq(Tasks(T)) /\ Len(code) \in Nat
      /\ Looping(work, loop, loop_start, loop_end, Len(code)) /\ work # <<>>
      /\ work[1].do \notin Placers /\ work[1].do # "loop" /\ ~Assigns(work[1])
  BY <1>1, Doings, Foremost DEF Placers
<1>4. x \in Tasks(T) /\ x.do = "for"
  BY <1>2 DEF Task, Tasks, Dos
<1>5. n \in T
  BY <1>2
<1> HIDE DEF n, x
<1>6. Stmt(n) \in Tasks(T) /\ Stmt(n).do = "stmt" /\ Stmt(n).node = n
  BY <1>5, TasksType
<1>7. /\ t \in Seq(Tasks(T)) /\ Len(t) = 2 /\ Assigns(t[1]) /\ t[2].do = "for"
      /\ \A k \in 1 .. Len(t) : t[k].do \notin Placers
  BY <1>2, <1>4, <1>6 DEF Assigns, Placers
<1> HIDE DEF t
<1>8. work' = t \o Tail(work) /\ code' = code \o <<>> /\ refused' = refused
  BY <1>1 DEF Emit
<1> DEFINE e == <<>>
<1>9. e \in Seq(Instructions(T)) /\ Len(e) = 0
  OBVIOUS
<1> HIDE DEF e
<1>0. \A k \in 1 .. Len(e) : e[k].op \in JumpOps => e[k].to \in 0 .. Len(code) + Len(e)
  BY <1>9
<1>10. Pending(T, t \o Tail(work), code \o e) /\ Len(code \o e) = Len(code) + Len(e)
  BY <1>0, <1>3, <1>7, <1>9, PendingPlain, ZenonT(40)
<1>11. Replaced(t \o Tail(work), t, work)
  BY <1>3, <1>7, Replacing
<1>12. Looping(t \o Tail(work), TRUE, loop_start, loop_end, Len(code))
  BY <1>3, <1>7, <1>11, LoopingPrepares
<1>13. Len(code') = Len(code) /\ code' = code \o e
  BY <1>3, <1>8, <1>9, <1>10 DEF e
<1>14. QED
  BY <1>1, <1>3, <1>8, <1>10, <1>12, <1>13, Zenon DEF Generating

(* The tasks without the first. *)
LEMMA Taking ==
  ASSUME NEW T, Trees(T), Generating(T), work # <<>>
  PROVE  \E e : Replaced(Tail(work), e, work) /\ Len(e) = 0 /\ \A do : ~Has(e, do)
<1> DEFINE e == <<>>
<1>1. e \in Seq(Tasks(T)) /\ Len(e) = 0 /\ \A do : ~Has(e, do)
  BY DEF Has
<1>2. Replaced(e \o Tail(work), e, work)
  BY <1>1, Foremost, Replacing
<1>3. e \o Tail(work) = Tail(work)
  BY Foremost
<1>4. QED
  BY <1>1, <1>2, <1>3, Zenon

LEMMA ThenStep ==
  ASSUME NEW T, Trees(T), Generating(T), GenThen
  PROVE  Generating(T)'
<1> DEFINE a == work[1].at
<1>1. /\ work # <<>> /\ work[1].do = "then" /\ work[1].do \in Placers
      /\ work[1].do \notin {"loop", "for"} /\ ~Assigns(work[1])
      /\ refused' = refused /\ loop' = loop /\ loop_start' = loop_start /\ loop_end' = loop_end
  BY DEF GenThen, statics, Placers, Assigns
<1>2. /\ ~refused /\ Pending(T, work, code) /\ work \in Seq(Tasks(T)) /\ Len(code) \in Nat
      /\ Looping(work, loop, loop_start, loop_end, Len(code))
      /\ work[1] \in Tasks(T) /\ this \in T /\ this.parts \in Seq(T) /\ WellFormed(this, T)
  BY <1>1, Foremost DEF WellFormed
<1>3. Len(this.parts) \in 1 .. 2
  BY <1>1, <1>2 DEF Tasks, this, WellFormed
<1>4. CASE Len(this.parts) = 1
  <2>1. code' = patch_jump(code, a) /\ work' = Tail(work)
    BY <1>4 DEF GenThen
  <2>2. Pending(T, Tail(work), patch_jump(code, a)) /\ Len(patch_jump(code, a)) = Len(code)
    BY <1>1, <1>2, PendingClose
  <2>5. PICK e : Replaced(Tail(work), e, work) /\ Len(e) = 0 /\ \A do : ~Has(e, do)
    BY <1>1, Taking
  <2>6. Looping(Tail(work), loop, loop_start, loop_end, Len(code))
    BY <1>1, <1>2, <2>5, LoopingOn
  <2>7. QED
    BY <1>1, <1>2, <2>1, <2>2, <2>6, Zenon DEF Generating
<1>5. CASE Len(this.parts) = 2
  <2> DEFINE n == this.parts[2]
             x == Task("else", this, Len(code))
             t == <<Stmt(n), x>>
             d == patch_jump(Append(code, Jump("jump", -1)), a)
  <2>1. code' = d /\ work' = t \o Tail(work)
    BY <1>5 DEF GenThen
  <2>2. n \in T
    BY <1>2, <1>5
  <2>3. x \in Tasks(T) /\ x.do = "else" /\ x.at = Len(code)
    BY <1>2 DEF Task, Tasks, Dos
  <2> HIDE DEF n, x
  <2>4. t \in Seq(Tasks(T)) /\ Then(t, <<n>>, x)
    BY <2>2, <2>3, StmtThen
  <2> HIDE DEF t
  <2>5. /\ Len(t) \in Nat \ {0} /\ t[Len(t)] = x /\ \A k \in 1 .. Len(t) - 1 : t[k].do \notin Placers
        /\ ~Has(t, "for") /\ ~Has(t, "loop")
    BY <2>3, <2>4, ThenDoes DEF Placers, Dos
  <2>6. t # <<>> /\ t[Len(t)].do \in Placers /\ t[Len(t)].at = Len(code)
    BY <2>3, <2>5 DEF Placers
  <2>7. Pending(T, t \o Tail(work), d) /\ Len(d) = Len(code) + 1
    BY <1>1, <1>2, <2>4, <2>5, <2>6, PendingElse
  <2>8. Replaced(t \o Tail(work), t, work)
    BY <1>1, <1>2, <2>4, Replacing
  <2> HIDE DEF d
  <2>9. Looping(t \o Tail(work), loop, loop_start, loop_end, Len(code) + 1)
    BY <1>1, <1>2, <2>5, <2>8, LoopingOn
  <2>10. QED
    BY <1>1, <1>2, <2>1, <2>7, <2>9, Zenon DEF Generating
<1>6. QED
  BY <1>3, <1>4, <1>5

LEMMA ElseStep ==
  ASSUME NEW T, Trees(T), Generating(T), GenElse
  PROVE  Generating(T)'
<1> DEFINE d == patch_jump(code, work[1].at)
<1>1. /\ work # <<>> /\ work[1].do \in Placers /\ work[1].do \notin {"loop", "for"}
      /\ refused' = refused /\ loop' = loop /\ loop_start' = loop_start /\ loop_end' = loop_end
      /\ code' = d /\ work' = Tail(work)
  BY DEF GenElse, statics, Placers
<1>2. /\ ~refused /\ Pending(T, work, code) /\ Len(code) \in Nat
      /\ Looping(work, loop, loop_start, loop_end, Len(code))
  BY <1>1, Foremost
<1>3. Pending(T, Tail(work), d) /\ Len(d) = Len(code)
  BY <1>1, <1>2, PendingClose
<1> HIDE DEF d
<1>4. PICK e : Replaced(Tail(work), e, work) /\ Len(e) = 0 /\ \A do : ~Has(e, do)
  BY <1>1, Taking
<1>5. Looping(Tail(work), loop, loop_start, loop_end, Len(code))
  BY <1>1, <1>2, <1>4, LoopingOn
<1>6. QED
  BY <1>1, <1>2, <1>3, <1>5, Zenon DEF Generating

LEMMA LoopStep ==
  ASSUME NEW T, Trees(T), Generating(T), GenLoop
  PROVE  Generating(T)'
<1> DEFINE d == patch_jump(Append(code, Jump("jump", loop_start)), work[1].at)
<1>1. /\ work # <<>> /\ work[1].do \in Placers /\ work[1].do = "loop"
      /\ refused' = refused /\ loop' = FALSE /\ loop_start' = loop_start /\ loop_end' = loop_end
      /\ code' = d /\ work' = Tail(work)
  BY DEF GenLoop, Placers
<1>2. /\ ~refused /\ Pending(T, work, code) /\ Len(code) \in Nat /\ Len(work) \in Nat \ {0}
      /\ Looping(work, loop, loop_start, loop_end, Len(code))
  BY <1>1, Foremost
<1>3. loop_start \in 0 .. Len(code)
  BY <1>1, <1>2 DEF Looping, Has
<1>4. Pending(T, Tail(work), d) /\ Len(d) = Len(code) + 1
  BY <1>1, <1>2, <1>3, PendingLoop
<1> HIDE DEF d
<1>5. PICK e : Replaced(Tail(work), e, work) /\ Len(e) = 0 /\ \A do : ~Has(e, do)
  BY <1>1, Taking
<1>6. Looping(Tail(work), FALSE, loop_start, loop_end, Len(code) + 1)
  BY <1>1, <1>2, <1>5, LoopingEnds
<1>7. QED
  BY <1>1, <1>2, <1>4, <1>6 DEF Generating

LEMMA GenerateStep ==
  ASSUME NEW T, Trees(T), Generating(T), Generate
  PROVE  Generating(T)'
BY DoStep, BlockStep, EndStep, ReturnStep, BreakStep, ContinueStep, FunctionStep, FunctionEndStep,
   HaltStep, RefusedStep, IfStep, WhileStep, ForConditionStep, ForStep, ThenStep, ElseStep, LoopStep,
   Zenon DEF Generate

----------------------------------------------------------------------------
(* The lines: no work is left, and the flag is off, when one starts.       *)

(* The static flag is wrong after a line that was refused in a loop: what  *)
(* is proved is proved of a first line or file, or where none was.         *)
LeavesFlag == MaxLines = 1 \/ (refused => ~loop)

IInv(T) ==
  /\ Generating(T)
  /\ phase \in {"idle", "generate", "load", "ready", "run"}
  /\ phase # "generate" => work = <<>>
  /\ lines \in Nat /\ (lines = 0 => phase = "idle" /\ ~loop)

LEMMA LoadOrRun ==
  ASSUME NEW T, IInv(T),
         \/ Drop \/ Load \/ CopyMain \/ CopyFunctionStart \/ CopyFunction \/ Loaded \/ Run \/ RunText
         \/ RunJump \/ RunJumpIfFalse \/ RunPush \/ RunNothing \/ RunDo \/ RunCondition
  PROVE  UNCHANGED <<genVars, lines>> /\ (phase' \in {"idle", "load", "ready", "run"}) /\ work = <<>>
BY DEF Drop, Load, CopyMain, CopyFunctionStart, CopyFunction, Loaded, Run, RunText,
   RunJump, RunJumpIfFalse, RunPush, RunNothing, RunDo, RunCondition, IInv, Loading, Silent

LEMMA Empty ==
  ASSUME NEW T
  PROVE  /\ Pending(T, <<>>, <<>>) /\ ~Has(<<>>, "loop") /\ ~Has(<<>>, "for")
         /\ \A start, end, n : Looping(<<>>, FALSE, start, end, n)
<1>1. Open(<<>>) = {} /\ Placed(<<>>) = {} /\ Distinct(<<>>)
  BY DEF Open, Placed, Distinct
<1>2. Backfilled(<<>>, {})
  BY DEF Backfilled
<1>3. Pending(T, <<>>, <<>>)
  <2>1. <<>> \in Seq(Tasks(T)) /\ <<>> \in Seq(Instructions(T))
    OBVIOUS
  <2>2. QED
    BY <1>1, <1>2, <2>1, Zenon DEF Pending
<1>4. ~Has(<<>>, "loop") /\ ~Has(<<>>, "for") /\ ForFirst(<<>>)
  BY DEF Has, ForFirst
<1>5. QED
  BY <1>3, <1>4, Zenon DEF Looping

LEMMA FlagOff ==
  ASSUME NEW T, IInv(T), LeavesFlag, phase = "idle", lines < MaxLines
  PROVE  ~loop
<1>1. CASE MaxLines = 1
  BY <1>1 DEF IInv
<1>2. CASE refused
  BY <1>1, <1>2 DEF LeavesFlag
<1>3. CASE ~refused
  <2>1. work = <<>> /\ Looping(<<>>, loop, loop_start, loop_end, Len(code))
    BY <1>3 DEF IInv, Generating
  <2>2. QED
    BY <2>1, Empty DEF Looping
<1>4. QED
  BY <1>2, <1>3

LEMMA CompileStep ==
  ASSUME NEW T, Trees(T), Lines \subseteq Seq(T), IInv(T), LeavesFlag, Compile
  PROVE  IInv(T)'
<1>1. PICK l \in Lines : GenInit(l)
  BY DEF Compile
<1> DEFINE x == Task("halt", Block(<<>>), -1)
           t == Stmts(l) \o <<x>>
           c == <<>>
<1>2. /\ code' = c /\ work' = t /\ refused' = FALSE
      /\ loop' = loop /\ loop_start' = loop_start /\ loop_end' = loop_end
  BY <1>1 DEF GenInit, statics
<1>3. x \in Tasks(T) /\ x.do = "halt"
  BY DEF Trees, Task, Tasks, Dos
<1>4. l \in Seq(T)
  OBVIOUS
<1> HIDE DEF x
<1>5. t \in Seq(Tasks(T)) /\ Then(t, l, x)
  BY <1>3, <1>4, StmtsThen
<1> HIDE DEF t
<1>6. /\ Len(t) \in Nat \ {0} /\ t[Len(t)] = x /\ \A k \in 1 .. Len(t) - 1 : t[k].do = "stmt"
      /\ ~Has(t, "for") /\ ~Has(t, "loop")
  BY <1>3, <1>5, ThenDoes DEF Dos
<1>7. Open(t) = {} /\ Placed(t) = {} /\ Distinct(t)
  BY <1>3, <1>6 DEF Open, Placed, Distinct, Placers
<1>8. c \in Seq(Instructions(T)) /\ Backfilled(c, {})
  BY DEF Backfilled
<1> HIDE DEF c
<1>9. Pending(T, t, c)
  BY <1>5, <1>7, <1>8, Zenon DEF Pending
<1>10. ForFirst(t)
  BY <1>6 DEF ForFirst, Has
<1>11. ~loop
  BY FlagOff DEF Compile
<1>12. Looping(t, loop, loop_start, loop_end, Len(c))
  BY <1>6, <1>10, <1>11 DEF Looping
<1>13. Generating(T)'
  BY <1>2, <1>9, <1>12 DEF Generating
<1>14. QED
  BY <1>13 DEF Compile, IInv

LEMMA RunEndsStep ==
  ASSUME NEW T, IInv(T), RunEnds
  PROVE  IInv(T)'
<1>1. /\ code' = <<>> /\ work' = <<>> /\ refused' = refused /\ loop' = loop
      /\ loop_start' = loop_start /\ loop_end' = loop_end /\ phase' = "idle" /\ lines' = lines
      /\ work = <<>> /\ lines # 0
  BY DEF RunEnds, IInv
<1>2. ~refused => ~loop
  BY <1>1, Empty DEF IInv, Generating, Looping
<1>3. ~refused => Looping(<<>>, loop, loop_start, loop_end, Len(<<>>))
  BY <1>2, Empty DEF Looping
<1>4. Generating(T)'
  BY <1>1, <1>3, Empty DEF Generating
<1>5. QED
  BY <1>1, <1>4 DEF IInv

LEMMA IInvStep ==
  ASSUME NEW T, Trees(T), Lines \subseteq Seq(T), IInv(T), LeavesFlag, [Next]_vars
  PROVE  IInv(T)'
<1>1. CASE Compile
  BY <1>1, CompileStep
<1>2. CASE GenStep
  <2>1. Generating(T)'
    BY <1>2, GenerateStep DEF GenStep, IInv
  <2>2. QED
    BY <1>2, <2>1 DEF GenStep, IInv
<1>3. CASE RunEnds
  BY <1>3, RunEndsStep
<1>4. CASE \/ Drop \/ Load \/ CopyMain \/ CopyFunctionStart \/ CopyFunction \/ Loaded \/ Run
           \/ RunText \/ RunJump \/ RunJumpIfFalse \/ RunPush \/ RunNothing \/ RunDo \/ RunCondition
  <2>1. /\ UNCHANGED <<work, code, refused, loop, loop_start, loop_end, lines>> /\ work = <<>>
        /\ phase' \in {"idle", "load", "ready", "run"} /\ lines # 0
    <3>1. UNCHANGED <<genVars, lines>> /\ (phase' \in {"idle", "load", "ready", "run"}) /\ work = <<>>
      BY <1>4, LoadOrRun
    <3>2. phase # "idle"
      BY <1>4 DEF Drop, Load, CopyMain, CopyFunctionStart, CopyFunction, Loaded, Run, RunText,
        RunJump, RunJumpIfFalse, RunPush, RunNothing, RunDo, RunCondition, Loading, Silent
    <3>3. QED
      BY <3>1, <3>2 DEF genVars, IInv
  <2>2. Generating(T)'
    BY <2>1 DEF IInv, Generating
  <2>3. QED
    BY <2>1, <2>2 DEF IInv
<1>5. CASE UNCHANGED vars
  BY <1>5 DEF vars, genVars, IInv, Generating
<1>6. QED
  BY <1>1, <1>2, <1>3, <1>4, <1>5 DEF Next

LEMMA IInvInit ==
  ASSUME NEW T, Init
  PROVE  IInv(T)
BY Empty DEF Init, IInv, Generating

LEMMA IInvJumps ==
  ASSUME NEW T, IInv(T)
  PROVE  JumpsStayInCode
<1>1. Placeholders = Placed(work)
  BY DEF Placeholders, Placed, Open, Placers
<1>2. ~refused => Backfilled(code, Placed(work))
  BY DEF IInv, Generating, Pending
<1>3. QED
  BY <1>1, <1>2 DEF JumpsStayInCode, Backfilled, JumpOps

(* JumpsStayInCode: in the code of any program, at every moment, a jump    *)
(* that no construct under way will backfill goes to an address of the     *)
(* code or to its end: generate_statement uses no address of a loop that   *)
(* it generated for another line.                                          *)
THEOREM JumpsAreInCode ==
  ASSUME NEW T, Trees(T), Lines \subseteq Seq(T)
  PROVE  Spec /\ []LeavesFlag => []JumpsStayInCode
<1>1. Init => IInv(T)
  BY IInvInit
<1>2. IInv(T) /\ LeavesFlag /\ [Next]_vars => IInv(T)'
  BY IInvStep
<1>3. IInv(T) => JumpsStayInCode
  BY IInvJumps
<1>4. QED
  BY <1>1, <1>2, <1>3, PTL DEF Spec

----------------------------------------------------------------------------
(* The flag.                                                               *)

(* Statements I without loops and functions in them, and no others in the  *)
(* loops of T: the end of an inner loop turns the flag off in the outer    *)
(* one, and a function in a loop starts with the flag on.                  *)
Unnested(I, T) ==
  /\ I \subseteq T
  /\ \A n \in I : n.kind \notin {"while", "for", "function"} /\ n.parts \in Seq(I)
  /\ \A n \in T : n.kind \in {"while", "for"} => n.parts \in Seq(I)

Inner(I, x) == x.do \in {"stmt", "then", "else", "end"} /\ x.node \in I

(* What is left to do before the end of a loop belongs to its body.        *)
InnerFirst(I, w) ==
  \A k \in 1 .. Len(w) : w[k].do = "loop" =>
    /\ \A j \in 1 .. k - 1 : Inner(I, w[j])
    /\ \A j \in k + 1 .. Len(w) : w[j].do \notin {"loop", "for"}

Flagged(I, w, flag) ==
  /\ InnerFirst(I, w)
  /\ Has(w, "for") => ~Has(w, "loop")
  /\ flag <=> Has(w, "loop") \/ Has(w, "for")

LEMMA InnerNow ==
  ASSUME NEW I, NEW w, InnerFirst(I, w), Later(w, "loop")
  PROVE  Inner(I, w[1])
<1>1. PICK k \in 2 .. Len(w) : w[k].do = "loop"
  BY DEF Later
<1>2. k \in 1 .. Len(w) /\ 1 \in 1 .. k - 1
  OBVIOUS
<1>3. QED
  BY <1>1, <1>2 DEF InnerFirst

(* The task w[1] is replaced by tasks t without loops.                     *)
LEMMA InnerOn ==
  ASSUME NEW I, NEW z, NEW t, NEW w, Replaced(z, t, w), InnerFirst(I, w), ~Has(t, "loop"),
         Later(w, "loop") => \A k \in 1 .. Len(t) : Inner(I, t[k])
  PROVE  InnerFirst(I, z)
<1>1. /\ Len(t) \in Nat /\ Len(w) \in Nat \ {0} /\ Len(z) = Len(t) + Len(w) - 1
      /\ \A k \in 1 .. Len(t) : z[k] = t[k]
      /\ \A k \in 2 .. Len(w) : z[Len(t) + k - 1] = w[k]
  BY DEF Replaced
<1>2. \A k \in Len(t) + 1 .. Len(z) : k - Len(t) + 1 \in 2 .. Len(w) /\ z[k] = w[k - Len(t) + 1]
  <2>1. TAKE k \in Len(t) + 1 .. Len(z)
  <2>2. k - Len(t) + 1 \in 2 .. Len(w) /\ Len(t) + (k - Len(t) + 1) - 1 = k
    BY <1>1
  <2>3. QED
    BY <1>1, <2>2
<1> SUFFICES ASSUME NEW k \in 1 .. Len(z), z[k].do = "loop"
             PROVE  /\ \A j \in 1 .. k - 1 : Inner(I, z[j])
                    /\ \A j \in k + 1 .. Len(z) : z[j].do \notin {"loop", "for"}
  BY DEF InnerFirst
<1> DEFINE m == k - Len(t) + 1
<1>3. k \in Len(t) + 1 .. Len(z)
  BY <1>1 DEF Has
<1>4. m \in 2 .. Len(w) /\ w[m].do = "loop" /\ k = Len(t) + m - 1
  BY <1>1, <1>2, <1>3
<1> HIDE DEF m
<1>5. (\A j \in 1 .. m - 1 : Inner(I, w[j])) /\ (\A j \in m + 1 .. Len(w) : w[j].do \notin {"loop", "for"})
  <2>1. m \in 1 .. Len(w)
    BY <1>1, <1>4
  <2>2. QED
    BY <1>4, <2>1, Zenon DEF InnerFirst
<1>6. ASSUME NEW j \in 1 .. k - 1 PROVE Inner(I, z[j])
  <2>1. CASE j \in 1 .. Len(t)
    BY <1>1, <1>4, <2>1 DEF Later
  <2>2. CASE j \in Len(t) + 1 .. Len(z)
    <3>1. z[j] = w[j - Len(t) + 1]
      BY <1>2, <2>2
    <3>2. k \in Nat /\ Len(t) \in Nat /\ m \in Nat /\ k = Len(t) + m - 1
      BY <1>1, <1>4
    <3>3. j - Len(t) + 1 \in 1 .. m - 1
      BY <2>2, <3>2
    <3>4. QED
      BY <1>5, <3>1, <3>3
  <2>3. QED
    BY <1>1, <2>1, <2>2
<1>7. ASSUME NEW j \in k + 1 .. Len(z) PROVE z[j].do \notin {"loop", "for"}
  <2>1. k \in Nat /\ Len(t) \in Nat /\ m \in Nat /\ k = Len(t) + m - 1 /\ Len(w) \in Nat
    BY <1>1, <1>4
  <2>2. j \in Len(t) + 1 .. Len(z)
    BY <1>3
  <2>3. z[j] = w[j - Len(t) + 1]
    BY <1>2, <2>2
  <2>4. j - Len(t) + 1 \in m + 1 .. Len(w)
    BY <1>1, <2>1, <2>2
  <2>5. QED
    BY <1>5, <2>3, <2>4
<1>8. QED
  BY <1>6, <1>7

LEMMA FlagStays ==
  ASSUME NEW I, NEW z, NEW t, NEW w, Replaced(z, t, w), NEW flag, Flagged(I, w, flag),
         w[1].do \notin {"loop", "for"}, ~Has(t, "loop"), ~Has(t, "for"),
         Inner(I, w[1]) => \A k \in 1 .. Len(t) : Inner(I, t[k])
  PROVE  Flagged(I, z, flag)
<1>1. InnerFirst(I, w)
  BY DEF Flagged
<1>2. InnerFirst(I, z)
  BY <1>1, InnerNow, InnerOn
<1>3. (Has(z, "loop") <=> Has(w, "loop")) /\ (Has(z, "for") <=> Has(w, "for"))
  BY Having
<1>4. QED
  BY <1>2, <1>3 DEF Flagged

(* The last task of t ends a loop, and the others belong to its body.      *)
LEMMA FlagOn ==
  ASSUME NEW I, NEW z, NEW t, NEW w, Replaced(z, t, w), ~Later(w, "loop"), ~Later(w, "for"),
         Len(t) \in Nat \ {0}, t[Len(t)].do = "loop", \A k \in 1 .. Len(t) - 1 : Inner(I, t[k])
  PROVE  Flagged(I, z, TRUE)
<1>1. ~Has(t, "for") /\ Has(t, "loop")
  BY DEF Has, Inner
<1>2. ~Has(z, "for") /\ Has(z, "loop")
  BY <1>1, Having
<1>3. /\ Len(w) \in Nat \ {0} /\ Len(z) = Len(t) + Len(w) - 1
      /\ \A k \in 1 .. Len(t) : z[k] = t[k]
      /\ \A k \in 2 .. Len(w) : z[Len(t) + k - 1] = w[k]
  BY DEF Replaced
<1>4. ASSUME NEW k \in Len(t) + 1 .. Len(z) PROVE z[k].do # "loop"
  <2>1. k - Len(t) + 1 \in 2 .. Len(w) /\ Len(t) + (k - Len(t) + 1) - 1 = k
    BY <1>3
  <2>2. z[k] = w[k - Len(t) + 1]
    BY <1>3, <2>1
  <2>3. QED
    BY <2>1, <2>2 DEF Later
<1>5. ASSUME NEW k \in 1 .. Len(z), z[k].do = "loop" PROVE k = Len(t)
  <2>1. k \notin Len(t) + 1 .. Len(z)
    BY <1>4, <1>5
  <2>2. k \in 1 .. Len(t) /\ z[k] = t[k]
    BY <1>3, <2>1
  <2>3. k \notin 1 .. Len(t) - 1
    BY <1>5, <2>2 DEF Inner
  <2>4. QED
    BY <2>2, <2>3
<1>6. ASSUME NEW j \in Len(t) + 1 .. Len(z) PROVE z[j].do \notin {"loop", "for"}
  <2>1. j \in 1 .. Len(z)
    OBVIOUS
  <2>2. QED
    BY <1>2, <1>4, <2>1 DEF Has
<1>7. \A j \in 1 .. Len(t) - 1 : Inner(I, z[j])
  BY <1>3
<1>8. InnerFirst(I, z)
  BY <1>5, <1>6, <1>7 DEF InnerFirst
<1>9. QED
  BY <1>2, <1>8 DEF Flagged

Flagging(I) == ~refused => Flagged(I, work, loop)

(* The task is replaced by t, and the flag stays. *)
Keeping(T, I, t) ==
  /\ t \in Seq(Tasks(T)) /\ \A k \in 1 .. Len(t) : t[k].do \notin {"loop", "for"}
  /\ Inner(I, work[1]) => \A k \in 1 .. Len(t) : Inner(I, t[k])

LEMMA FlagKept ==
  ASSUME NEW T, NEW I, Trees(T), Generating(T), Flagging(I), work # <<>>,
         work[1].do \notin {"loop", "for"}, NEW t, Keeping(T, I, t),
         work' = t \o Tail(work), loop' = loop
  PROVE  Flagging(I)'
<1>1. ~refused /\ work \in Seq(Tasks(T)) /\ Flagged(I, work, loop)
  BY Foremost DEF Flagging
<1>2. Replaced(t \o Tail(work), t, work)
  BY <1>1, Replacing DEF Keeping
<1>3. ~Has(t, "loop") /\ ~Has(t, "for")
  BY DEF Has, Keeping
<1>4. Inner(I, work[1]) => \A k \in 1 .. Len(t) : Inner(I, t[k])
  BY DEF Keeping
<1>5. Flagged(I, t \o Tail(work), loop)
  BY <1>1, <1>2, <1>3, <1>4, FlagStays
<1>6. QED
  BY <1>5, Zenon DEF Flagging

LEMMA KeepingNone ==
  ASSUME NEW T, NEW I
  PROVE  Keeping(T, I, <<>>)
BY DEF Keeping

LEMMA FlagPopped ==
  ASSUME NEW T, NEW I, Trees(T), Generating(T), Flagging(I),
         GenDo \/ GenEnd \/ GenReturn \/ GenBreak \/ GenContinue \/ GenFunctionEnd \/ GenHalt
  PROVE  Flagging(I)'
<1>1. work # <<>> /\ work[1].do \notin {"loop", "for"}
  BY DEF GenDo, GenEnd, GenReturn, GenBreak, GenContinue, GenFunctionEnd, GenHalt, Doing
<1>2. work' = <<>> \o Tail(work) /\ loop' = loop
  BY Zenon DEF GenDo, GenEnd, GenReturn, GenBreak, GenContinue, GenFunctionEnd, GenHalt, Emit, statics
<1>3. QED
  BY <1>1, <1>2, KeepingNone, FlagKept, Zenon

LEMMA InnerParts ==
  ASSUME NEW T, NEW I, Unnested(I, T), Inner(I, work[1])
  PROVE  /\ this \in I /\ this.kind \notin {"while", "for", "function"} /\ this.parts \in Seq(I)
         /\ \A n \in I : Inner(I, Stmt(n))
BY DEF Unnested, Inner, this, Stmt, Task

LEMMA FlagBlock ==
  ASSUME NEW T, NEW I, Trees(T), Unnested(I, T), Generating(T), Flagging(I), GenBlock
  PROVE  Flagging(I)'
<1> DEFINE x == Task("end", this, -1)
           t == Stmts(this.parts) \o <<x>>
<1>1. work # <<>> /\ work[1].do = "stmt" /\ work' = t \o Tail(work) /\ loop' = loop
  BY DEF GenBlock, Doing, Emit, statics
<1>2. this \in T /\ this.parts \in Seq(T)
  BY <1>1, Foremost DEF WellFormed
<1>3. x \in Tasks(T) /\ x.do = "end" /\ x.node = this
  BY <1>2 DEF Task, Tasks, Dos
<1> HIDE DEF x
<1>4. t \in Seq(Tasks(T)) /\ Then(t, this.parts, x)
  BY <1>2, <1>3, StmtsThen
<1> HIDE DEF t
<1>5. ~Has(t, "loop") /\ ~Has(t, "for")
  BY <1>3, <1>4, ThenDoes DEF Dos
<1>6. ASSUME Inner(I, work[1]), NEW k \in 1 .. Len(t) PROVE Inner(I, t[k])
  <2>1. this \in I /\ this.parts \in Seq(I) /\ \A n \in I : Inner(I, Stmt(n))
    BY <1>6, InnerParts
  <2>2. Inner(I, x)
    BY <1>3, <2>1 DEF Inner
  <2>3. CASE k \in 1 .. Len(this.parts)
    BY <1>4, <2>1, <2>3 DEF Then
  <2>4. CASE k \notin 1 .. Len(this.parts)
    BY <1>4, <2>2, <2>4 DEF Then
  <2>5. QED
    BY <2>3, <2>4
<1>7. Keeping(T, I, t)
  BY <1>4, <1>5, <1>6 DEF Keeping, Has
<1>8. QED
  BY <1>1, <1>7, FlagKept

LEMMA FlagFunction ==
  ASSUME NEW T, NEW I, Trees(T), Unnested(I, T), Generating(T), Flagging(I), GenFunction
  PROVE  Flagging(I)'
<1> DEFINE n == this.parts[1]
           x == Task("func_end", this, -1)
           t == <<Stmt(n), x>>
<1>1. /\ work # <<>> /\ work[1].do = "stmt" /\ this.kind = "function"
      /\ work' = t \o Tail(work) /\ loop' = loop
  BY DEF GenFunction, Doing, Emit, statics, this
<1>2. this \in T /\ this.parts \in Seq(T) /\ Len(this.parts) = 1
  BY <1>1, Foremost DEF WellFormed
<1>3. x \in Tasks(T) /\ x.do = "func_end" /\ n \in T
  BY <1>2 DEF Task, Tasks, Dos
<1> HIDE DEF n, x
<1>4. t \in Seq(Tasks(T)) /\ Then(t, <<n>>, x)
  BY <1>3, StmtThen
<1> HIDE DEF t
<1>5. ~Has(t, "loop") /\ ~Has(t, "for")
  BY <1>3, <1>4, ThenDoes DEF Dos
<1>6. ~Inner(I, work[1])
  BY <1>1, InnerParts
<1>7. Keeping(T, I, t)
  BY <1>4, <1>5, <1>6 DEF Keeping, Has
<1>8. QED
  BY <1>1, <1>7, FlagKept

LEMMA FlagIf ==
  ASSUME NEW T, NEW I, Trees(T), Unnested(I, T), Generating(T), Flagging(I), GenIf
  PROVE  Flagging(I)'
<1> DEFINE n == this.parts[1]
           x == Task("then", this, Len(code) + 1)
           t == <<Stmt(n), x>>
<1>1. /\ work # <<>> /\ work[1].do = "stmt" /\ this.kind = "if"
      /\ work' = t \o Tail(work) /\ loop' = loop
  BY DEF GenIf, Doing, Emit, statics, this
<1>2. this \in T /\ this.parts \in Seq(T) /\ Len(this.parts) \in 1 .. 2 /\ Len(code) \in Nat
  BY <1>1, Foremost DEF WellFormed
<1>3. x \in Tasks(T) /\ x.do = "then" /\ x.node = this /\ n \in T
  BY <1>1, <1>2 DEF Task, Tasks, Dos
<1>4. Inner(I, work[1]) => n \in I /\ Inner(I, x) /\ Inner(I, Stmt(n))
  BY <1>2, <1>3, InnerParts DEF Inner
<1> HIDE DEF n, x
<1>5. t \in Seq(Tasks(T)) /\ Then(t, <<n>>, x)
  BY <1>3, StmtThen
<1>6. Inner(I, work[1]) => \A k \in 1 .. Len(t) : Inner(I, t[k])
  BY <1>4
<1> HIDE DEF t
<1>7. ~Has(t, "loop") /\ ~Has(t, "for")
  BY <1>3, <1>5, ThenDoes DEF Dos
<1>8. Keeping(T, I, t)
  BY <1>5, <1>6, <1>7 DEF Keeping, Has
<1>9. QED
  BY <1>1, <1>8, FlagKept

LEMMA FlagThen ==
  ASSUME NEW T, NEW I, Trees(T), Unnested(I, T), Generating(T), Flagging(I), GenThen \/ GenElse
  PROVE  Flagging(I)'
<1>1. work # <<>> /\ work[1].do \in {"then", "else"} /\ loop' = loop
  BY DEF GenThen, GenElse, statics
<1>2. /\ this \in T /\ this.parts \in Seq(T) /\ work[1] \in Tasks(T) /\ Len(code) \in Nat
      /\ WellFormed(this, T) /\ work \in Seq(Tasks(T))
  BY <1>1, Foremost DEF WellFormed
<1>3. <<>> \o Tail(work) = Tail(work)
  BY <1>1, <1>2
<1>4. CASE work' = Tail(work)
  <2>1. work' = <<>> \o Tail(work) /\ work[1].do \notin {"loop", "for"}
    BY <1>1, <1>3, <1>4
  <2>2. QED
    BY <1>1, <2>1, KeepingNone, FlagKept, Zenon
<1>5. CASE work' # Tail(work)
  <2> DEFINE n == this.parts[2]
             x == Task("else", this, Len(code))
             t == <<Stmt(n), x>>
  <2>1. work[1].do = "then" /\ Len(this.parts) # 1 /\ work' = t \o Tail(work)
    BY <1>5 DEF GenThen, GenElse
  <2>2. Len(this.parts) = 2
    BY <1>2, <2>1 DEF Tasks, this, WellFormed
  <2>3. x \in Tasks(T) /\ x.do = "else" /\ x.node = this /\ n \in T
    BY <1>2, <2>2 DEF Task, Tasks, Dos
  <2>4. Inner(I, work[1]) => n \in I /\ Inner(I, x) /\ Inner(I, Stmt(n))
    BY <2>2, <2>3, InnerParts DEF Inner
  <2> HIDE DEF n, x
  <2>5. t \in Seq(Tasks(T)) /\ Then(t, <<n>>, x)
    BY <2>3, StmtThen
  <2>6. Inner(I, work[1]) => \A k \in 1 .. Len(t) : Inner(I, t[k])
    BY <2>4
  <2> HIDE DEF t
  <2>7. ~Has(t, "loop") /\ ~Has(t, "for")
    BY <2>3, <2>5, ThenDoes DEF Dos
  <2>8. Keeping(T, I, t)
    BY <2>5, <2>6, <2>7 DEF Keeping, Has
  <2>9. QED
    BY <1>1, <2>1, <2>8, FlagKept
<1>6. QED
  BY <1>4, <1>5

LEMMA NoLoopLater ==
  ASSUME NEW T, NEW I, Unnested(I, T), Flagged(I, work, loop), ~Inner(I, work[1])
  PROVE  ~Later(work, "loop")
BY InnerNow DEF Flagged

LEMMA FlagWhile ==
  ASSUME NEW T, NEW I, Trees(T), Unnested(I, T), Generating(T), Flagging(I), GenWhile
  PROVE  Flagging(I)'
<1> DEFINE n == this.parts[1]
           x == Task("loop", this, Len(code) + 1)
           t == <<Stmt(n), x>>
<1>1. /\ Doing("while") /\ work # <<>> /\ work[1].do = "stmt" /\ this.kind = "while"
      /\ work' = t \o Tail(work) /\ loop' = TRUE
  BY DEF GenWhile, Doing, Emit, this
<1>2. /\ this \in T /\ this.parts \in Seq(T) /\ Len(this.parts) = 1 /\ Len(code) \in Nat
      /\ ~refused /\ work \in Seq(Tasks(T)) /\ Looping(work, loop, loop_start, loop_end, Len(code))
  BY <1>1, Foremost DEF WellFormed
<1>3. x \in Tasks(T) /\ x.do = "loop" /\ n \in T
  BY <1>1, <1>2 DEF Task, Tasks, Dos
<1>4. this.parts \in Seq(I)
  BY <1>1, <1>2 DEF Unnested
<1>5. n \in I
  BY <1>2, <1>4
<1>6. Inner(I, Stmt(n))
  BY <1>5 DEF Inner, Stmt, Task
<1> HIDE DEF n, x
<1>7. /\ t \in Seq(Tasks(T)) /\ Len(t) \in Nat \ {0} /\ t[Len(t)] = x
      /\ \A k \in 1 .. Len(t) - 1 : Inner(I, t[k])
  <2>1. t \in Seq(Tasks(T))
    BY <1>3, StmtThen
  <2>2. Len(t) = 2 /\ t[1] = Stmt(n) /\ t[2] = x
    OBVIOUS
  <2> HIDE DEF t
  <2>3. QED
    BY <1>6, <2>1, <2>2
<1> HIDE DEF t
<1>8. ~Later(work, "loop")
  BY <1>1, <1>2, InnerParts, NoLoopLater DEF Flagging
<1>9. ~Later(work, "for")
  BY <1>1, <1>2, Doings, ForAfterAssignment DEF Looping
<1>10. Replaced(t \o Tail(work), t, work)
  BY <1>1, <1>2, <1>7, Replacing
<1>11. Flagged(I, t \o Tail(work), TRUE)
  BY <1>3, <1>7, <1>8, <1>9, <1>10, FlagOn
<1>12. QED
  BY <1>1, <1>11, Zenon DEF Flagging

LEMMA FlagForCondition ==
  ASSUME NEW T, NEW I, Trees(T), Unnested(I, T), Generating(T), Flagging(I), GenForCondition
  PROVE  Flagging(I)'
<1> DEFINE ss == Tail(this.parts)
           x  == Task("loop", this, Len(code) + 1)
           t  == Stmts(ss) \o <<x>>
<1>1. work # <<>> /\ work[1].do = "for" /\ work' = t \o Tail(work) /\ loop' = loop
  BY DEF GenForCondition, Emit
<1>2. /\ this \in T /\ work[1] \in Tasks(T) /\ this.parts \in Seq(T) /\ Len(code) \in Nat
      /\ Looping(work, loop, loop_start, loop_end, Len(code)) /\ WellFormed(this, T)
      /\ ~refused /\ work \in Seq(Tasks(T)) /\ Len(work) \in Nat \ {0}
  BY <1>1, Foremost DEF WellFormed
<1>3. x \in Tasks(T) /\ x.do = "loop"
  BY <1>2 DEF Task, Tasks, Dos
<1>4. this.kind = "for"
  BY <1>1, <1>2 DEF Tasks, this
<1>5. this.parts \in Seq(I) /\ this.parts # <<>>
  BY <1>2, <1>4 DEF Unnested, WellFormed
<1>6. ss \in Seq(I) /\ ss \in Seq(T)
  BY <1>2, <1>5
<1> HIDE DEF ss, x
<1>7. t \in Seq(Tasks(T)) /\ Then(t, ss, x)
  BY <1>3, <1>6, StmtsThen
<1> HIDE DEF t
<1>8. \A k \in 1 .. Len(t) - 1 : Inner(I, t[k])
  <2>1. \A n \in I : Inner(I, Stmt(n))
    BY DEF Inner, Stmt, Task
  <2>2. QED
    BY <1>6, <1>7, <2>1 DEF Then
<1>9. Len(t) \in Nat \ {0} /\ t[Len(t)].do = "loop"
  BY <1>3, <1>7 DEF Then
<1>10. Has(work, "for")
  BY <1>1, <1>2 DEF Has
<1>11. loop /\ ~Has(work, "loop")
  BY <1>2, <1>10 DEF Flagging, Flagged
<1>12. ~Later(work, "loop")
  BY <1>11 DEF Has, Later
<1>13. ~Later(work, "for")
  <2>1. ~Assigns(work[1])
    BY <1>1 DEF Assigns
  <2>2. QED
    BY <1>2, <2>1, ForAfterAssignment DEF Looping
<1>14. Replaced(t \o Tail(work), t, work)
  BY <1>1, <1>2, <1>7, Replacing
<1>15. Flagged(I, t \o Tail(work), TRUE)
  BY <1>8, <1>9, <1>12, <1>13, <1>14, FlagOn
<1>16. Flagged(I, t \o Tail(work), loop)
  BY <1>11, <1>15 DEF Flagged
<1>17. QED
  BY <1>1, <1>16, Zenon DEF Flagging

LEMMA FlagFor ==
  ASSUME NEW T, NEW I, Trees(T), Unnested(I, T), Generating(T), Flagging(I), GenFor
  PROVE  Flagging(I)'
<1> DEFINE n == this.parts[1]
           x == Task("for", this, -1)
           t == <<Stmt(n), x>>
<1>1. /\ Doing("for") /\ work # <<>> /\ work[1].do = "stmt" /\ this.kind = "for"
      /\ work' = t \o Tail(work) /\ loop' = TRUE
  BY DEF GenFor, Doing, Emit, this
<1>2. /\ this \in T /\ this.parts \in Seq(T) /\ Len(this.parts) \in 2 .. 3
      /\ ~refused /\ work \in Seq(Tasks(T))
  BY <1>1, Foremost DEF WellFormed
<1>3. x \in Tasks(T) /\ x.do = "for" /\ n \in T
  BY <1>1, <1>2 DEF Task, Tasks, Dos
<1> HIDE DEF n, x
<1>4. t \in Seq(Tasks(T)) /\ Then(t, <<n>>, x)
  BY <1>3, StmtThen
<1> HIDE DEF t
<1>5. ~Has(t, "loop") /\ Has(t, "for")
  BY <1>3, <1>4, ThenDoes DEF Dos
<1>6. ~Later(work, "loop")
  BY <1>1, <1>2, InnerParts, NoLoopLater DEF Flagging
<1>7. Replaced(t \o Tail(work), t, work)
  BY <1>1, <1>2, <1>4, Replacing
<1>8. ~Has(t \o Tail(work), "loop") /\ Has(t \o Tail(work), "for")
  BY <1>5, <1>6, <1>7, Having
<1>9. Flagged(I, t \o Tail(work), TRUE)
  BY <1>8 DEF Flagged, InnerFirst, Has
<1>10. QED
  BY <1>1, <1>9, Zenon DEF Flagging

LEMMA FlagLoop ==
  ASSUME NEW T, NEW I, Trees(T), Unnested(I, T), Generating(T), Flagging(I), GenLoop
  PROVE  Flagging(I)'
<1>1. work # <<>> /\ work[1].do = "loop" /\ work' = Tail(work) /\ loop' = FALSE
  BY DEF GenLoop
<1>2. ~refused /\ Len(work) \in Nat \ {0} /\ InnerFirst(I, work)
  BY <1>1, Foremost DEF Flagging, Flagged
<1>3. \A j \in 2 .. Len(work) : work[j].do \notin {"loop", "for"}
  BY <1>1, <1>2 DEF InnerFirst
<1>4. PICK e : Replaced(Tail(work), e, work) /\ Len(e) = 0 /\ \A do : ~Has(e, do)
  BY <1>1, Taking
<1>5. ~Has(Tail(work), "loop") /\ ~Has(Tail(work), "for")
  BY <1>3, <1>4, Having DEF Later
<1>6. Flagged(I, Tail(work), FALSE)
  BY <1>5 DEF Flagged, InnerFirst, Has
<1>7. QED
  BY <1>1, <1>6, Zenon DEF Flagging

LEMMA FlagGenerate ==
  ASSUME NEW T, NEW I, Trees(T), Unnested(I, T), Generating(T), Flagging(I), Generate
  PROVE  Flagging(I)'
<1>1. CASE GenBad \/ GenNotInLoop
  BY <1>1 DEF GenBad, GenNotInLoop, Refuse, Flagging
<1>2. QED
  BY <1>1, FlagPopped, FlagBlock, FlagFunction, FlagIf, FlagThen, FlagWhile, FlagForCondition,
     FlagFor, FlagLoop, Zenon DEF Generate

LEMMA FlagStep ==
  ASSUME NEW T, NEW I, Trees(T), Unnested(I, T), Lines \subseteq Seq(T),
         IInv(T), Flagging(I), LeavesFlag, [Next]_vars
  PROVE  Flagging(I)'
<1>1. CASE Compile
  <2>1. PICK l \in Lines : GenInit(l)
    BY <1>1 DEF Compile
  <2> DEFINE x == Task("halt", Block(<<>>), -1)
             t == Stmts(l) \o <<x>>
  <2>2. work' = t /\ loop' = loop
    BY <2>1 DEF GenInit, statics
  <2>3. x \in Tasks(T) /\ x.do = "halt"
    BY DEF Trees, Task, Tasks, Dos
  <2>4. l \in Seq(T)
    OBVIOUS
  <2> HIDE DEF x
  <2>5. Then(t, l, x)
    BY <2>3, <2>4, StmtsThen
  <2> HIDE DEF t
  <2>6. ~Has(t, "for") /\ ~Has(t, "loop")
    BY <2>3, <2>5, ThenDoes DEF Dos
  <2>7. ~loop
    BY <1>1, FlagOff DEF Compile
  <2>8. Flagged(I, t, loop)
    BY <2>6, <2>7 DEF Flagged, InnerFirst, Has
  <2>9. QED
    BY <2>2, <2>8, Zenon DEF Flagging
<1>2. CASE GenStep
  BY <1>2, FlagGenerate DEF GenStep, IInv
<1>3. CASE ~(Compile \/ GenStep)
  <2>1. UNCHANGED <<work, refused, loop>>
    BY <1>3, LoadOrRun DEF Next, RunEnds, vars, genVars
  <2>2. QED
    BY <2>1 DEF Flagging
<1>4. QED
  BY <1>1, <1>2, <1>3

LEMMA FlagIsRight ==
  ASSUME NEW T, NEW I, Trees(T), Generating(T), Flagging(I)
  PROVE  LoopFlagRight
<1> SUFFICES ASSUME Doing("break") \/ Doing("continue") PROVE loop <=> InLoop
  BY DEF LoopFlagRight
<1>1. /\ ~refused /\ Flagged(I, work, loop) /\ Len(work) \in Nat \ {0}
      /\ Looping(work, loop, loop_start, loop_end, Len(code)) /\ ~Assigns(work[1])
      /\ work[1].do = "stmt"
  BY Doings, Foremost DEF Flagging
<1>2. ~Has(work, "for")
  BY <1>1 DEF Has, Looping, ForFirst
<1>3. loop <=> Has(work, "loop")
  BY <1>1, <1>2 DEF Flagged
<1>4. Has(work, "loop") => InLoop
  BY <1>1 DEF Has, InLoop, Flagged, InnerFirst, Inner
<1>5. InLoop => Has(work, "loop")
  BY DEF InLoop, Has
<1>6. QED
  BY <1>3, <1>4, <1>5

(* LoopFlagRight: where no loop contains a loop or a function, the static  *)
(* flag refuses a break or continue exactly when it stands in no loop of   *)
(* its function, however many lines were compiled before.                  *)
THEOREM FlagSaysLoop ==
  ASSUME NEW T, NEW I, Trees(T), Unnested(I, T), Lines \subseteq Seq(T)
  PROVE  Spec /\ []LeavesFlag => []LoopFlagRight
<1> DEFINE Inv == IInv(T) /\ Flagging(I)
<1>1. Init => Inv
  <2>1. ASSUME Init PROVE Flagging(I)
    BY <2>1, Empty DEF Init, Flagging, Flagged, InnerFirst, Has
  <2>2. QED
    BY <2>1, IInvInit
<1>2. Inv /\ LeavesFlag /\ [Next]_vars => Inv'
  BY IInvStep, FlagStep
<1>3. Inv => LoopFlagRight
  BY FlagIsRight DEF IInv
<1> HIDE DEF Inv
<1>4. QED
  BY <1>1, <1>2, <1>3, PTL DEF Spec

=============================================================================
