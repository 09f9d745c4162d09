---------------------------- MODULE CompiledProofs ----------------------------
(***************************************************************************)
(* A compiler proof: the code of a program, generated, split into chunks,  *)
(* relocated and run, does what the program's text says.                   *)
(*                                                                         *)
(* Rests of a text that differ by silent steps only form a class, and a    *)
(* label gives an address of the code the class of what is left to do      *)
(* there, for either value that may be on top of the operand stack.  Each  *)
(* instruction leads from its label to the next one's (Does) and each jump *)
(* to its target's (Goes).  While the generator is under way (Faith) the   *)
(* labels are those of the code so far, and say of each task of the        *)
(* recursion what is left after it; while the loader is (Reached) every    *)
(* chunk has labels of its own, made of those of the code; and when a      *)
(* chunk runs (Running) the rest of its text is in the class at its pc.    *)
(***************************************************************************)
EXTENDS CodegenProofs, CommonLemmas

----------------------------------------------------------------------------
(* What the code means: rests that differ by silent steps only are in the  *)
(* same sets C that silent steps neither enter nor leave.                  *)
Nodes(T) ==
  T \cup {Node("loop", x, ss) : x \in {n.id : n \in T}, ss \in Seq(T) \ {<<>>}}
    \cup {Node("latch", NoName, ss) : ss \in Seq(T)}

Rests(T) == Seq(Nodes(T))

IsSilent(r) == Event(r).is = "silent"

Settled(T, C) == \A q \in Rests(T) : IsSilent(q) => (q \in C <=> Unfold(q) \in C)

Class(T, r) == {C \in SUBSET Rests(T) : Settled(T, C) /\ r \in C}

Visibles == {"do", "if", "loop"}

LEMMA EventIs ==
  ASSUME NEW r
  PROVE  /\ r = <<>> => Event(r) = [is |-> "end", id |-> NoName]
         /\ r # <<>> /\ r[1].kind = "do" => Event(r) = [is |-> "do", id |-> r[1].id]
         /\ r # <<>> /\ r[1].kind \in {"if", "loop"} => Event(r) = [is |-> "cond", id |-> r[1].id]
         /\ IsSilent(r) <=> r # <<>> /\ r[1].kind \notin Visibles
<1>1. r = <<>> => Event(r) = [is |-> "end", id |-> NoName]
  BY DEF Event
<1>2. r # <<>> /\ r[1].kind = "do" => Event(r) = [is |-> "do", id |-> r[1].id]
  BY DEF Event
<1>3. r # <<>> /\ r[1].kind \in {"if", "loop"} => Event(r) = [is |-> "cond", id |-> r[1].id]
  BY DEF Event
<1>4. r # <<>> /\ r[1].kind \notin Visibles => Event(r) = [is |-> "silent", id |-> NoName]
  BY DEF Event, Visibles
<1>5. QED
  BY <1>1, <1>2, <1>3, <1>4 DEF IsSilent, Visibles

LEMMA NodeIs ==
  ASSUME NEW T, Trees(T), NEW n \in Nodes(T)
  PROVE  /\ n.parts \in Seq(T) /\ n.parts \in Rests(T)
         /\ n.kind \in Kinds \cup {"loop", "latch"}
         /\ n.kind \in Kinds => n \in T
         /\ n.kind = "loop" => n.parts # <<>> /\ n.id \in {m.id : m \in T}
<1>1. CASE n \in T
  BY <1>1 DEF Trees, WellFormed, Nodes, Rests, Kinds
<1>2. CASE n \in {Node("loop", x, ss) : x \in {m.id : m \in T}, ss \in Seq(T) \ {<<>>}}
  BY <1>2 DEF Node, Nodes, Rests, Kinds
<1>3. CASE n \in {Node("latch", NoName, ss) : ss \in Seq(T)}
  BY <1>3 DEF Node, Nodes, Rests, Kinds
<1>4. QED
  BY <1>1, <1>2, <1>3 DEF Nodes

LEMMA FrontOfRest ==
  ASSUME NEW T, Trees(T), NEW r \in Rests(T), r # <<>>
  PROVE  /\ Head(r) = r[1] /\ Tail(r) \in Rests(T) /\ Len(r) \in Nat \ {0} /\ r[1] \in Nodes(T)
         /\ r = <<r[1]>> \o Tail(r)
<1> DEFINE N == Nodes(T)
<1>1. r \in Seq(N)
  BY DEF Rests
<1> HIDE DEF N
<1>2. Head(r) = r[1] /\ Tail(r) \in Seq(N) /\ Len(r) \in Nat \ {0} /\ r[1] \in N
  BY <1>1
<1>3. r = <<r[1]>> \o Tail(r)
  BY <1>1
<1>4. QED
  BY <1>2, <1>3 DEF Rests, N

LEMMA Joined ==
  ASSUME NEW T, NEW p \in Rests(T), NEW q \in Rests(T)
  PROVE  p \o q \in Rests(T)
BY DEF Rests

LEMMA OneBefore ==
  ASSUME NEW T, NEW n \in Nodes(T), NEW q \in Rests(T)
  PROVE  /\ <<n>> \o q \in Rests(T) /\ (<<n>> \o q) # <<>> /\ (<<n>> \o q)[1] = n
         /\ Head(<<n>> \o q) = n /\ Tail(<<n>> \o q) = q
<1> DEFINE N == Nodes(T)
<1>1. n \in N /\ q \in Seq(N)
  BY DEF Rests
<1> HIDE DEF N
<1>2. /\ <<n>> \o q \in Seq(N) /\ (<<n>> \o q) # <<>> /\ (<<n>> \o q)[1] = n
      /\ Head(<<n>> \o q) = n
  BY <1>1
<1>3. Tail(<<n>> \o q) = q
  BY <1>1
<1>4. QED
  BY <1>2, <1>3 DEF N, Rests

LEMMA LoopNodes ==
  ASSUME NEW T, NEW n \in T, NEW ss \in Seq(T)
  PROVE  /\ ss # <<>> => Node("loop", n.id, ss) \in Nodes(T)
         /\ Node("latch", NoName, ss) \in Nodes(T)
         /\ n \in Nodes(T)
BY DEF Nodes

LEMMA LatchStays ==
  ASSUME NEW T, NEW r \in Rests(T)
  PROVE  FromLatch(r) \in Rests(T)
<1> DEFINE N == Nodes(T)
           First(k) == r[k].kind = "latch" /\ \A j \in 1 .. k - 1 : r[j].kind # "latch"
           h == CHOOSE k \in DOMAIN r : First(k)
<1>1. r \in Seq(N)
  BY DEF Rests
<1>2. CASE \E k \in DOMAIN r : First(k)
  <2>1. h \in DOMAIN r
    BY <1>2
  <2>2. FromLatch(r) = SubSeq(r, h, Len(r))
    BY <1>2, Zenon DEF FromLatch
  <2> HIDE DEF h, N
  <2>3. SubSeq(r, h, Len(r)) \in Seq(N)
    BY <1>1, <2>1
  <2>4. QED
    BY <2>2, <2>3 DEF Rests, N
<1>3. CASE ~\E k \in DOMAIN r : First(k)
  <2>1. FromLatch(r) = <<>>
    BY <1>3, Zenon DEF FromLatch
  <2>2. QED
    BY <2>1 DEF Rests
<1>4. QED
  BY <1>2, <1>3

LEMMA Cases ==
  ASSUME NEW r, Head(r) = r[1]
  PROVE  /\ r[1].kind = "block"    => Unfold(r) = r[1].parts \o Tail(r)
         /\ r[1].kind = "while"    => Unfold(r) = <<Node("loop", r[1].id, r[1].parts)>> \o Tail(r)
         /\ r[1].kind = "for"      =>
              Unfold(r) = <<r[1].parts[1], Node("loop", r[1].id, Tail(r[1].parts))>> \o Tail(r)
         /\ r[1].kind = "latch"    => Unfold(r) = r[1].parts \o Tail(r)
         /\ r[1].kind = "break"    =>
              Unfold(r) = SubSeq(FromLatch(Tail(r)), 3, Len(FromLatch(Tail(r))))
         /\ r[1].kind = "continue" => Unfold(r) = FromLatch(Tail(r))
         /\ r[1].kind = "return"   => Unfold(r) = <<>>
         /\ r[1].kind \notin {"block", "while", "for", "latch", "break", "continue", "return"} =>
              Unfold(r) = Tail(r)
<1> DEFINE s == Head(r)
           t == Tail(r)
<1>1. Unfold(r) =
        CASE s.kind = "block"    -> s.parts \o t
          [] s.kind = "while"    -> <<Node("loop", s.id, s.parts)>> \o t
          [] s.kind = "for"      -> <<s.parts[1], Node("loop", s.id, Tail(s.parts))>> \o t
          [] s.kind = "latch"    -> s.parts \o t
          [] s.kind = "break"    -> SubSeq(FromLatch(t), 3, Len(FromLatch(t)))
          [] s.kind = "continue" -> FromLatch(t)
          [] s.kind = "return"   -> <<>>
          [] OTHER               -> t
  BY Zenon DEF Unfold
<1> QED
  BY <1>1

LEMMA NoneLeft ==
  ASSUME NEW T
  PROVE  <<>> \in Rests(T)
<1> DEFINE N == Nodes(T)
<1> HIDE DEF N
<1>1. <<>> \in Seq(N)
  OBVIOUS
<1>2. QED
  BY <1>1 DEF N, Rests

LEMMA EmptyIs ==
  ASSUME NEW T, NEW q \in Seq(T)
  PROVE  q = <<>> <=> Len(q) = 0
OBVIOUS

LEMMA FirstOf ==
  ASSUME NEW T, NEW ss \in Seq(T), ss # <<>>
  PROVE  ss[1] \in T /\ Tail(ss) \in Seq(T) /\ Len(Tail(ss)) = Len(ss) - 1 /\ Len(ss) \in Nat \ {0}
OBVIOUS

LEMMA PartsOf ==
  ASSUME NEW T, Trees(T), NEW n \in T
  PROVE  /\ n.parts \in Seq(T) /\ n.parts \in Rests(T) /\ n \in Nodes(T)
         /\ n.kind \in {"if", "while", "for", "function"} =>
              /\ n.parts # <<>> /\ n.parts[1] \in T /\ Tail(n.parts) \in Seq(T)
              /\ Len(n.parts) \in Nat \ {0} /\ Len(Tail(n.parts)) = Len(n.parts) - 1
         /\ n.kind = "if"  => Len(n.parts) \in 1 .. 2
         /\ n.kind \in {"while", "function"} => Len(n.parts) = 1 /\ Tail(n.parts) = <<>>
         /\ n.kind = "for" => Len(n.parts) \in 2 .. 3 /\ Tail(n.parts) # <<>>
<1>1. WellFormed(n, T)
  BY DEF Trees
<1>2. n.parts \in Seq(T)
  BY <1>1 DEF WellFormed
<1>3. n.parts \in Rests(T) /\ n \in Nodes(T)
  BY <1>2, NodeIs DEF Nodes
<1>4. /\ n.kind = "if"  => Len(n.parts) \in 1 .. 2
      /\ n.kind \in {"while", "function"} => Len(n.parts) = 1
      /\ n.kind = "for" => Len(n.parts) \in 2 .. 3
  BY <1>1 DEF WellFormed
<1> DEFINE ss == n.parts
<1> HIDE DEF ss
<1>5. n.kind \in {"if", "while", "for", "function"} => ss # <<>>
  BY <1>2, <1>4 DEF ss
<1>6. n.kind \in {"if", "while", "for", "function"} =>
        ss[1] \in T /\ Tail(ss) \in Seq(T) /\ Len(ss) \in Nat \ {0} /\ Len(Tail(ss)) = Len(ss) - 1
  BY <1>2, <1>5, FirstOf DEF ss
<1>7. ASSUME n.kind = "for" PROVE Tail(ss) # <<>>
  <2>1. Len(ss) \in 2 .. 3 /\ Len(Tail(ss)) = Len(ss) - 1 /\ Tail(ss) \in Seq(T)
    BY <1>4, <1>6, <1>7 DEF ss
  <2>2. \A m \in 2 .. 3 : m - 1 # 0
    OBVIOUS
  <2>3. Len(Tail(ss)) # 0
    BY <2>1, <2>2, Zenon
  <2>4. QED
    BY <2>1, <2>3, EmptyIs, Zenon
<1>8. ASSUME n.kind \in {"while", "function"} PROVE Tail(ss) = <<>>
  <2>1. Len(ss) = 1 /\ Len(Tail(ss)) = Len(ss) - 1 /\ Tail(ss) \in Seq(T)
    BY <1>4, <1>6, <1>8 DEF ss
  <2>2. Len(Tail(ss)) = 0
    BY <2>1
  <2>3. QED
    BY <2>1, <2>2, EmptyIs, Zenon
<1>9. QED
  BY <1>2, <1>3, <1>4, <1>5, <1>6, <1>7, <1>8 DEF ss

(* No step leads out of the rests. *)
LEMMA UnfoldStays ==
  ASSUME NEW T, Trees(T), NEW r \in Rests(T), IsSilent(r)
  PROVE  Unfold(r) \in Rests(T)
<1>1. /\ r # <<>> /\ Head(r) = r[1] /\ Tail(r) \in Rests(T) /\ r[1] \in Nodes(T)
  BY EventIs, FrontOfRest
<1> DEFINE n == r[1]
           t == Tail(r)
<1>2. /\ n.parts \in Seq(T) /\ n.parts \in Rests(T)
      /\ n.kind \in Kinds => n \in T
  BY <1>1, NodeIs
<1>3. CASE n.kind \in {"block", "latch"}
  BY <1>1, <1>2, <1>3, Cases, Joined, Zenon
<1>4. CASE n.kind = "while"
  <2>1. n \in T /\ n.parts # <<>> /\ n.parts \in Seq(T)
    BY <1>2, <1>4, PartsOf DEF Kinds
  <2>2. Unfold(r) = <<Node("loop", n.id, n.parts)>> \o t
    BY <1>1, <1>4, Cases
  <2> DEFINE y == Node("loop", n.id, n.parts)
  <2>3. y \in Nodes(T)
    BY <2>1, LoopNodes
  <2> HIDE DEF y, n, t
  <2>4. <<y>> \o t \in Rests(T)
    BY <1>1, <2>3, OneBefore DEF t
  <2>5. QED
    BY <2>2, <2>4 DEF y
<1>5. CASE n.kind = "for"
  <2>1. n \in T
    BY <1>2, <1>5 DEF Kinds
  <2>2. Unfold(r) = <<n.parts[1], Node("loop", n.id, Tail(n.parts))>> \o t
    BY <1>1, <1>5, Cases
  <2>3. n.parts[1] \in T /\ Tail(n.parts) \in Seq(T) /\ Tail(n.parts) # <<>>
    BY <1>5, <2>1, PartsOf
  <2> DEFINE x == n.parts[1]
             y == Node("loop", n.id, Tail(n.parts))
             N == Nodes(T)
  <2>4. x \in N /\ y \in N
    BY <2>1, <2>3, LoopNodes
  <2> HIDE DEF x, y, N, n
  <2>6. <<x, y>> \in Seq(N)
    BY <2>4
  <2>7. QED
    BY <1>1, <2>2, <2>6, Joined DEF x, y, N, Rests
<1>6. CASE n.kind = "break"
  <2>1. FromLatch(t) \in Rests(T) /\ Unfold(r) = SubSeq(FromLatch(t), 3, Len(FromLatch(t)))
    BY <1>1, <1>6, Cases, LatchStays
  <2>2. QED
    BY <2>1 DEF Rests
<1>7. CASE n.kind = "continue"
  BY <1>1, <1>7, Cases, LatchStays
<1>8. CASE n.kind = "return"
  BY <1>1, <1>8, Cases, NoneLeft
<1>9. CASE n.kind \notin {"block", "while", "for", "latch", "break", "continue", "return"}
  BY <1>1, <1>9, Cases
<1>10. QED
  BY <1>3, <1>4, <1>5, <1>6, <1>7, <1>8, <1>9

LEMMA VisibleIs ==
  ASSUME NEW r, Head(r) = r[1], NEW b \in BOOLEAN
  PROVE  /\ r[1].kind = "do" => Visible(r, b) = Tail(r)
         /\ r[1].kind = "if" => Visible(r, b) = IF b THEN <<r[1].parts[1]>> \o Tail(r)
                                                     ELSE Tail(r[1].parts) \o Tail(r)
         /\ r[1].kind = "loop" =>
              Visible(r, b) = IF b THEN <<r[1].parts[1], Node("latch", NoName, Tail(r[1].parts))>> \o r
                                   ELSE Tail(r)
BY DEF Visible

LEMMA VisibleStays ==
  ASSUME NEW T, Trees(T), NEW r \in Rests(T), r # <<>>, ~IsSilent(r), NEW b \in BOOLEAN
  PROVE  Visible(r, b) \in Rests(T)
<1>1. /\ Head(r) = r[1] /\ Tail(r) \in Rests(T) /\ r[1] \in Nodes(T) /\ r[1].kind \in Visibles
  BY EventIs, FrontOfRest
<1> DEFINE n == r[1]
           t == Tail(r)
<1>2. /\ n.parts \in Seq(T)
      /\ n.kind \in Kinds => n \in T
      /\ n.kind = "loop" => n.parts # <<>>
  BY <1>1, NodeIs
<1>3. CASE n.kind = "do"
  BY <1>1, <1>3, VisibleIs
<1>4. n.kind \in {"if", "loop"} => n.parts \in Seq(T) /\ n.parts[1] \in T /\ Tail(n.parts) \in Seq(T)
  <2>1. n.kind \in {"if", "loop"} => n.parts # <<>>
    BY <1>2, PartsOf DEF Kinds
  <2>2. n.parts \in Seq(T)
    BY <1>1, NodeIs
  <2>3. QED
    BY <2>1, <2>2, FirstOf
<1>5. CASE n.kind = "if"
  <2>1. <<n.parts[1]>> \o t \in Rests(T)
    BY <1>1, <1>4, <1>5, LoopNodes, OneBefore
  <2>2. Tail(n.parts) \in Rests(T)
    BY <1>4, <1>5 DEF Rests, Nodes
  <2>3. QED
    BY <1>1, <1>5, <2>1, <2>2, VisibleIs, Joined
<1>6. CASE n.kind = "loop"
  <2> DEFINE x == n.parts[1]
             y == Node("latch", NoName, Tail(n.parts))
             N == Nodes(T)
  <2>1. x \in N /\ y \in N
    BY <1>4, <1>6, LoopNodes
  <2>2. Visible(r, b) = IF b THEN <<x, y>> \o r ELSE t
    BY <1>1, <1>6, VisibleIs
  <2> HIDE DEF x, y, N
  <2>3. <<x, y>> \in Seq(N)
    BY <2>1
  <2>4. <<x, y>> \o r \in Rests(T)
    BY <2>3, Joined DEF N, Rests
  <2>5. QED
    BY <1>1, <2>2, <2>4
<1>7. QED
  BY <1>1, <1>3, <1>5, <1>6 DEF Visibles

LEMMA ClassUnfolds ==
  ASSUME NEW T, NEW r \in Rests(T), IsSilent(r)
  PROVE  Class(T, Unfold(r)) = Class(T, r)
BY DEF Class, Settled

LEMMA ClassHolds ==
  ASSUME NEW T, Trees(T), NEW r \in Rests(T)
  PROVE  Class(T, r) # {}
<1>1. Settled(T, Rests(T))
  BY UnfoldStays DEF Settled
<1>2. Rests(T) \in Class(T, r)
  BY <1>1 DEF Class
<1>3. QED
  BY <1>2

(* The rests that lead to r by silent steps. *)
LeadTo(T, r) ==
  {q \in Rests(T) : \A C \in SUBSET Rests(T) :
     r \in C /\ (\A x \in Rests(T) : IsSilent(x) /\ Unfold(x) \in C => x \in C) => q \in C}

LEMMA LeadToIsSettled ==
  ASSUME NEW T, NEW r \in Rests(T), ~IsSilent(r)
  PROVE  /\ Settled(T, LeadTo(T, r)) /\ r \in LeadTo(T, r) /\ LeadTo(T, r) \subseteq Rests(T)
         /\ \A s \in Rests(T) : ~IsSilent(s) /\ s \in LeadTo(T, r) => s = r
<1> DEFINE L == LeadTo(T, r)
           Closed(C) == \A x \in Rests(T) : IsSilent(x) /\ Unfold(x) \in C => x \in C
<1>1. r \in L /\ L \subseteq Rests(T)
  BY DEF LeadTo
<1>2. ASSUME NEW C \in SUBSET Rests(T), r \in C, Closed(C)
      PROVE  L \subseteq C
  BY <1>2 DEF LeadTo
<1>3. Closed(L)
  <2> SUFFICES ASSUME NEW x \in Rests(T), IsSilent(x), Unfold(x) \in L PROVE x \in L
    OBVIOUS
  <2>1. ASSUME NEW C \in SUBSET Rests(T), r \in C, Closed(C) PROVE x \in C
    <3>1. Unfold(x) \in C
      BY <1>2, <2>1
    <3>2. QED
      BY <2>1, <3>1
  <2>2. QED
    BY <2>1, Zenon DEF LeadTo
<1>4. ASSUME NEW q \in L, q # r, IsSilent(q) => Unfold(q) \notin L PROVE FALSE
  <2> DEFINE C == L \ {q}
  <2>1. C \in SUBSET Rests(T) /\ r \in C /\ q \notin C
    BY <1>1, <1>4
  <2>2. Closed(C)
    BY <1>3, <1>4
  <2> HIDE DEF C, L
  <2>3. L \subseteq C
    BY <1>2, <2>1, <2>2
  <2>4. QED
    BY <2>1, <2>3
<1>5. Settled(T, L)
  <2> SUFFICES ASSUME NEW q \in Rests(T), IsSilent(q) PROVE q \in L <=> Unfold(q) \in L
    BY DEF Settled
  <2> HIDE DEF L
  <2>1. q # r
    OBVIOUS
  <2>2. QED
    BY <1>3, <1>4, <2>1
<1>6. \A s \in Rests(T) : ~IsSilent(s) /\ s \in L => s = r
  <2> HIDE DEF L
  <2> QED
    BY <1>4
<1>7. QED
  BY <1>1, <1>5, <1>6

LEMMA ClassTells ==
  ASSUME NEW T, NEW r \in Rests(T), ~IsSilent(r), NEW s \in Rests(T), ~IsSilent(s),
         Class(T, r) = Class(T, s)
  PROVE  s = r
<1> DEFINE L == LeadTo(T, r)
<1> HIDE DEF L
<1>1. /\ Settled(T, L) /\ r \in L /\ L \subseteq Rests(T)
      /\ \A x \in Rests(T) : ~IsSilent(x) /\ x \in L => x = r
  BY LeadToIsSettled DEF L
<1>2. L \in Class(T, r)
  BY <1>1 DEF Class
<1>3. s \in L
  BY <1>2 DEF Class
<1>4. QED
  BY <1>1, <1>3

----------------------------------------------------------------------------
(* What is left to do at an address of the code, for either value on top   *)
(* of the operand stack: labels.                                           *)
Always(T, r) == [b \in BOOLEAN |-> Class(T, r)]
After(T, r)  == [b \in BOOLEAN |-> Class(T, Visible(r, b))]
Given(l, v)  == [b \in BOOLEAN |-> l[v]]
Never        == [b \in BOOLEAN |-> {}]

(* What an instruction x does, between its label and the next one.         *)
Does(T, x, l, next) ==
  /\ x.op = "do" =>
       \E r \in Rests(T) : /\ l = Always(T, r) /\ Event(r) = [is |-> "do", id |-> x.id]
                           /\ next = Always(T, Visible(r, TRUE))
  /\ x.op = "cond" =>
       \E r \in Rests(T) : /\ l = Always(T, r) /\ Event(r) = [is |-> "cond", id |-> x.id]
                           /\ next = After(T, r)
  /\ x.op = "jump_if_false" => next = Given(l, TRUE)
  /\ x.op \in {"push_false", "push_null"} => \A b \in BOOLEAN : l[b] = next[FALSE]
  /\ x.op = "return" => l = Always(T, <<>>)
  /\ x.op = "func_end" => l = Never
  /\ x.op \in {"nop", "halt", "func_set_args"} => next = l

(* The label that a jump goes to.                                          *)
Target(x, l) == IF x.op = "jump" THEN l ELSE Given(l, FALSE)

(* The loader places an address in a chunk: of is the address of the       *)
(* func_def whose function it is in, or -1, and place its address there;   *)
(* back is where the code around the function goes on.                     *)
TextIn(l, u) ==
  IF u = NoName THEN l
  ELSE LET k == CHOOSE k \in DOMAIN l : l[k].kind = "function" /\ l[k].id = u
       IN  l[k].parts

Lies(T, l, x, a, s, t) ==
  /\ s.of \in -1 .. a - 1 /\ s.place \in Nat
  /\ x.op = "func_def" =>
       /\ s.of = -1 /\ t.of = a /\ t.place = 0
       /\ t.back = [left |-> s.left, place |-> s.place]
       /\ x.id # NoName /\ TextIn(l, x.id) \in Rests(T) /\ t.left = Always(T, TextIn(l, x.id))
  /\ x.op = "func_end" =>
       s.of # -1 /\ t.of = -1 /\ t.left = s.back.left /\ t.place = s.back.place
  /\ x.op \in {"func_set_args", "return"} => s.of # -1
  /\ x.op \notin {"func_def", "func_end"} =>
       /\ t.of = s.of /\ t.back = s.back
       /\ t.place = IF x.op = "func_set_args" THEN s.place ELSE s.place + 1

Fits(T, l, x, a, s, t) == Lies(T, l, x, a, s, t) /\ Does(T, x, s.left, t.left)

(* Where the loader relocates jumps as it should: in the line before any   *)
(* function, and in a function that starts the line.                       *)
Ready(s, a) == (s.of = -1 /\ s.place = a) \/ (s.of = 0 /\ s.place = a - 2)

Goes(x, a, m, n) ==
  x.op \in JumpOps =>
    /\ x.to \in 0 .. n /\ m[x.to].of = m[a].of
    /\ Ready(m[a], a) /\ Ready(m[x.to], x.to)
    /\ m[x.to].left = Target(x, m[a].left)

(* The code c is right under the map m, but for the jumps at P.            *)
Right(T, l, c, m, P) ==
  \A a \in 0 .. Len(c) - 1 :
    Fits(T, l, c[a + 1], a, m[a], m[a + 1]) /\ (a \notin P => Goes(c[a + 1], a, m, Len(c)))

Grown(m, n, s) == [a \in 0 .. n + 1 |-> IF a = n + 1 THEN s ELSE m[a]]

LEMMA GrownIs ==
  ASSUME NEW m, NEW n \in Nat, NEW s
  PROVE  Grown(m, n, s)[n + 1] = s /\ \A a \in 0 .. n : Grown(m, n, s)[a] = m[a]
BY DEF Grown

LEMMA RightGrows ==
  ASSUME NEW T, NEW l, NEW I, NEW c \in Seq(I), NEW m, NEW P, Right(T, l, c, m, P),
         NEW x, NEW s, Fits(T, l, x, Len(c), m[Len(c)], s),
         NEW Q, P \subseteq Q, Len(c) \in Q \/ Goes(x, Len(c), m, Len(c))
  PROVE  /\ Right(T, l, Append(c, x), Grown(m, Len(c), s), Q)
         /\ Len(Append(c, x)) = Len(c) + 1 /\ \A k \in 1 .. Len(c) : Append(c, x)[k] = c[k]
<1> DEFINE d == Append(c, x)
           n == Len(c)
           p == Grown(m, n, s)
<1>1. n \in Nat /\ Len(d) = n + 1 /\ d[n + 1] = x /\ \A k \in 1 .. n : d[k] = c[k]
  OBVIOUS
<1> HIDE DEF d
<1>2. p[n + 1] = s /\ \A a \in 0 .. n : p[a] = m[a]
  BY <1>1, GrownIs
<1> HIDE DEF n, p
<1>3. ASSUME NEW y, NEW a \in 0 .. n, Goes(y, a, m, n)
      PROVE  Goes(y, a, p, n + 1)
  BY <1>1, <1>2, <1>3 DEF Goes
<1>4. ASSUME NEW a \in 0 .. n - 1
      PROVE  Fits(T, l, d[a + 1], a, p[a], p[a + 1]) /\ (a \notin Q => Goes(d[a + 1], a, p, n + 1))
  <2>1. Fits(T, l, c[a + 1], a, m[a], m[a + 1]) /\ (a \notin P => Goes(c[a + 1], a, m, n))
    BY DEF Right, n
  <2>2. a \in 0 .. n /\ a + 1 \in 0 .. n /\ a + 1 \in 1 .. n
    BY <1>1
  <2>3. p[a] = m[a] /\ p[a + 1] = m[a + 1] /\ d[a + 1] = c[a + 1]
    BY <1>1, <1>2, <2>2
  <2>4. QED
    BY <1>3, <2>1, <2>2, <2>3, Zenon
<1>5. Fits(T, l, x, n, p[n], p[n + 1]) /\ (n \notin Q => Goes(x, n, p, n + 1))
  <2>1. n \in 0 .. n
    BY <1>1
  <2>2. Fits(T, l, x, n, m[n], s) /\ (n \in Q \/ Goes(x, n, m, n))
    BY DEF n
  <2>3. QED
    BY <1>2, <1>3, <2>1, <2>2, Zenon
<1>6. Right(T, l, d, p, Q)
  <2> SUFFICES ASSUME NEW a \in 0 .. Len(d) - 1
               PROVE  /\ Fits(T, l, d[a + 1], a, p[a], p[a + 1])
                      /\ a \notin Q => Goes(d[a + 1], a, p, Len(d))
    BY DEF Right
  <2>1. a \in 0 .. n - 1 \/ a = n
    BY <1>1
  <2>2. QED
    BY <1>1, <1>4, <1>5, <2>1, Zenon
<1>7. QED
  BY <1>1, <1>6 DEF d, n, p

(* The jump at a, if it goes to the end of the code.                       *)
Patches(c, m, a) ==
  /\ c[a + 1] \in Jumps /\ m[a].of = m[Len(c)].of
  /\ Ready(m[a], a) /\ Ready(m[Len(c)], Len(c))
  /\ m[Len(c)].left = Target(c[a + 1], m[a].left)

Patched(T, l, c, m, P, a, d) ==
  /\ Right(T, l, d, m, P \ {a}) /\ Len(d) = Len(c)
  /\ \A k \in 1 .. Len(c) : d[k].op = c[k].op

LEMMA RightPatched ==
  ASSUME NEW T, NEW l, NEW I, NEW c \in Seq(I), NEW m, NEW P, Right(T, l, c, m, P),
         NEW a \in 0 .. Len(c) - 1, Patches(c, m, a), NEW d, d = patch_jump(c, a)
  PROVE  Patched(T, l, c, m, P, a, d)
<1> DEFINE n == Len(c)
           Q == P \ {a}
<1>0. /\ c[a + 1] \in Jumps /\ m[a].of = m[Len(c)].of /\ Ready(m[a], a) /\ Ready(m[Len(c)], Len(c))
      /\ m[Len(c)].left = Target(c[a + 1], m[a].left)
  BY DEF Patches
<1>1. n \in Nat /\ a + 1 \in 1 .. n /\ DOMAIN c = 1 .. n
  OBVIOUS
<1>2. /\ DOMAIN d = 1 .. n /\ \A k \in 1 .. n : k # a + 1 => d[k] = c[k]
      /\ d[a + 1] = [c[a + 1] EXCEPT !.to = n]
  BY <1>1 DEF patch_jump
<1>3. Len(d) = n
  <2>1. d = [k \in 1 .. n |-> d[k]]
    BY <1>1 DEF patch_jump
  <2>2. QED
    BY <1>1, <2>1
<1>4. d[a + 1].op = c[a + 1].op /\ d[a + 1].to = n /\ d[a + 1].op \in JumpOps
  BY <1>0, <1>2 DEF Jumps
<1> HIDE DEF n
<1>5. Goes(d[a + 1], a, m, n)
  <2>1. m[n].left = Target(d[a + 1], m[a].left)
    BY <1>0, <1>4 DEF Target, n
  <2>2. QED
    BY <1>0, <1>1, <1>4, <2>1 DEF Goes, n
<1>6. Fits(T, l, d[a + 1], a, m[a], m[a + 1])
  <2>1. Fits(T, l, c[a + 1], a, m[a], m[a + 1])
    BY DEF Right
  <2>2. d[a + 1].op \in {"jump", "jump_if_false"}
    BY <1>4 DEF JumpOps
  <2>3. Lies(T, l, d[a + 1], a, m[a], m[a + 1])
    BY <1>4, <2>1, <2>2 DEF Fits, Lies
  <2>4. Does(T, d[a + 1], m[a].left, m[a + 1].left)
    BY <1>4, <2>1, <2>2 DEF Fits, Does
  <2>5. QED
    BY <2>3, <2>4 DEF Fits
<1>7. Right(T, l, d, m, Q)
  <2> SUFFICES ASSUME NEW b \in 0 .. Len(d) - 1
               PROVE  /\ Fits(T, l, d[b + 1], b, m[b], m[b + 1])
                      /\ b \notin Q => Goes(d[b + 1], b, m, Len(d))
    BY DEF Right
  <2>1. CASE b = a
    BY <1>3, <1>5, <1>6, <2>1
  <2>2. CASE b # a
    <3>1. b \in 0 .. n - 1 /\ b + 1 \in 1 .. n /\ b + 1 # a + 1
      BY <1>1, <1>3, <2>2
    <3>2. d[b + 1] = c[b + 1]
      BY <1>2, <3>1
    <3>3. Fits(T, l, c[b + 1], b, m[b], m[b + 1]) /\ (b \notin P => Goes(c[b + 1], b, m, n))
      BY <3>1 DEF Right, n
    <3>4. b \notin Q => b \notin P
      BY <2>2
    <3>5. QED
      BY <1>3, <3>2, <3>3, <3>4, Zenon
  <2>3. QED
    BY <2>1, <2>2
<1>8. \A k \in 1 .. n : d[k].op = c[k].op
  BY <1>2, <1>4, Zenon
<1>9. QED
  BY <1>3, <1>7, <1>8 DEF Patched, n, Q

----------------------------------------------------------------------------
(* What is left to do when a task starts, and R[k] when task k is done.    *)
LoopOf(n)  == Node("loop", n.id, IF n.kind = "for" THEN Tail(n.parts) ELSE n.parts)
LatchOf(n) == Node("latch", NoName, Tail(LoopOf(n).parts))

Start(x, r) ==
  CASE x.do = "stmt"            -> <<x.node>> \o r
    [] x.do \in {"for", "loop"} -> <<LoopOf(x.node)>> \o r
    [] x.do = "func_end"        -> <<>>
    [] OTHER                    -> r

Coming(w, R, k) == IF k \in 1 .. Len(w) THEN Start(w[k], R[k]) ELSE <<>>

Threads(T, w, R) ==
  /\ R \in Seq(Rests(T)) /\ Len(R) = Len(w)
  /\ \A k \in 1 .. Len(w) : Class(T, R[k]) = Class(T, Coming(w, R, k + 1))

(* Tasks t, and what is left after each of them, in the place of one that  *)
(* leaves r.                                                               *)
Linked(T, t, q, r) ==
  /\ q \in Seq(Rests(T)) /\ Len(q) = Len(t)
  /\ \A k \in 1 .. Len(t) :
       Class(T, q[k]) = Class(T, IF k < Len(t) THEN Start(t[k + 1], q[k + 1]) ELSE r)

LEMMA ThreadsGo ==
  ASSUME NEW T, NEW X, NEW w \in Seq(X), w # <<>>, NEW R, Threads(T, w, R),
         NEW t \in Seq(X), NEW q, Linked(T, t, q, R[1])
  PROVE  /\ Threads(T, t \o Tail(w), q \o Tail(R))
         /\ Replaced(t \o Tail(w), t, w) /\ Replaced(q \o Tail(R), q, R)
         /\ Class(T, Coming(t \o Tail(w), q \o Tail(R), 1))
              = Class(T, IF Len(t) = 0 THEN R[1] ELSE Start(t[1], q[1]))
<1> DEFINE Y == Rests(T)
           z == t \o Tail(w)
           S == q \o Tail(R)
           n == Len(t)
           f == Len(w)
<1>1. /\ R \in Seq(Y) /\ Len(R) = f /\ q \in Seq(Y) /\ Len(q) = n /\ n \in Nat /\ f \in Nat \ {0}
      /\ \A k \in 1 .. f : Class(T, R[k]) = Class(T, Coming(w, R, k + 1))
  BY DEF Threads, Linked
<1> HIDE DEF Y
<1>2. R # <<>>
  BY <1>1
<1>3. z \in Seq(X) /\ Replaced(z, t, w) /\ S \in Seq(Y) /\ Replaced(S, q, R)
  BY <1>1, <1>2, Replacing
<1> HIDE DEF z, S
<1>4. /\ Len(z) = n + f - 1 /\ Len(S) = n + f - 1
      /\ \A k \in 1 .. n : z[k] = t[k] /\ S[k] = q[k]
      /\ \A k \in 2 .. f : z[n + k - 1] = w[k] /\ S[n + k - 1] = R[k]
  BY <1>1, <1>3 DEF Replaced
<1> HIDE DEF n, f
<1>5. \A k \in 2 .. f + 1 : Coming(z, S, n + k - 1) = Coming(w, R, k)
  <2> SUFFICES ASSUME NEW k \in 2 .. f + 1 PROVE Coming(z, S, n + k - 1) = Coming(w, R, k)
    OBVIOUS
  <2>1. CASE k = f + 1
    <3>1. k \notin 1 .. f /\ n + k - 1 \notin 1 .. n + f - 1
      BY <1>1, <2>1
    <3>2. QED
      BY <1>4, <3>1 DEF Coming, f
  <2>2. CASE k \in 2 .. f
    <3>1. k \in 1 .. f /\ n + k - 1 \in 1 .. n + f - 1
      BY <1>1, <2>2
    <3>2. QED
      BY <1>4, <2>2, <3>1 DEF Coming, f
  <2>3. QED
    BY <1>1, <2>1, <2>2
<1>6. \A k \in 1 .. n : Coming(z, S, k) = Start(t[k], q[k])
  <2> SUFFICES ASSUME NEW k \in 1 .. n PROVE Coming(z, S, k) = Start(t[k], q[k])
    OBVIOUS
  <2>1. k \in 1 .. n + f - 1
    BY <1>1
  <2>2. QED
    BY <1>4, <2>1 DEF Coming
<1>7. Class(T, R[1]) = Class(T, Coming(z, S, n + 1))
  <2>1. Class(T, R[1]) = Class(T, Coming(w, R, 1 + 1))
    BY <1>1
  <2>2. Coming(z, S, n + 2 - 1) = Coming(w, R, 2)
    BY <1>1, <1>5
  <2>3. n + 2 - 1 = n + 1 /\ 1 + 1 = 2
    BY <1>1
  <2>4. QED
    BY <2>1, <2>2, <2>3
<1>8. \A k \in 1 .. Len(z) : Class(T, S[k]) = Class(T, Coming(z, S, k + 1))
  <2> SUFFICES ASSUME NEW k \in 1 .. n + f - 1 PROVE Class(T, S[k]) = Class(T, Coming(z, S, k + 1))
    BY <1>4
  <2>1. CASE k \in 1 .. n /\ k < n
    <3>1. Class(T, q[k]) = Class(T, Start(t[k + 1], q[k + 1]))
      BY <2>1 DEF Linked, n
    <3>2. k + 1 \in 1 .. n
      BY <1>1, <2>1
    <3>3. QED
      BY <1>4, <1>6, <2>1, <3>1, <3>2
  <2>2. CASE k = n
    <3>1. n \in 1 .. n /\ ~(n < n)
      BY <1>1, <2>2
    <3>2. Class(T, q[n]) = Class(T, R[1])
      BY <3>1 DEF Linked, n
    <3>3. QED
      BY <1>4, <1>7, <2>2, <3>1, <3>2
  <2>3. CASE k > n
    <3>1. PICK h \in 2 .. f : k = n + h - 1
      <4>1. k - n + 1 \in 2 .. f /\ k = n + (k - n + 1) - 1
        BY <1>1, <2>3
      <4>2. QED
        BY <4>1
    <3>2. Class(T, R[h]) = Class(T, Coming(w, R, h + 1)) /\ h + 1 \in 2 .. f + 1
      BY <1>1
    <3>3. Coming(z, S, n + (h + 1) - 1) = Coming(w, R, h + 1)
      BY <1>5, <3>2
    <3>4. n + (h + 1) - 1 = k + 1
      BY <1>1, <3>1
    <3>5. QED
      BY <1>4, <3>1, <3>2, <3>3, <3>4
  <2>4. QED
    BY <1>1, <2>1, <2>2, <2>3
<1>9. Class(T, Coming(z, S, 1)) = Class(T, IF n = 0 THEN R[1] ELSE Start(t[1], q[1]))
  <2>1. CASE n = 0
    BY <1>7, <2>1
  <2>2. CASE n # 0
    <3>1. 1 \in 1 .. n
      BY <1>1, <2>2
    <3>2. QED
      BY <1>6, <2>2, <3>1
  <2>3. QED
    BY <2>1, <2>2
<1>10. Threads(T, z, S)
  BY <1>3, <1>4, <1>8 DEF Threads, Y
<1>11. QED
  BY <1>3, <1>9, <1>10 DEF z, S, n

----------------------------------------------------------------------------
(* The code that a generator under way has made, and the tasks it has      *)
(* left: what holds of each of them, and of each and a later one.          *)
Sources == {"stmt", "then", "for"}

FunctionTask(x) == x.do = "stmt" /\ x.node.kind = "function"

Without(inside, x, kinds) == x.do \in Sources => Lacks(inside, x.node, kinds)

FunctionIn(inside, l, n) ==
  n.id # NoName /\ TextIn(l, n.id) = n.parts /\ Lacks(inside, n.parts[1], {"function"})

(* Where the jump goes that task x backfills. *)
Goal(x, r) == IF x.do = "then" THEN Tail(x.node.parts) \o r ELSE r

Aim(T, c, m, x, r) ==
  /\ x.at \in 0 .. Len(c) - 1 /\ m[x.at].of = m[Len(c)].of
  /\ Ready(m[x.at], x.at) /\ Ready(m[Len(c)], Len(c))
  /\ Target(c[x.at + 1], m[x.at].left) = Always(T, Goal(x, r))

(* The loop of task x starts at start, and its condition's jump is at end. *)
LoopAt(T, m, n, x, r, start, end) ==
  /\ x.node.kind \in {"while", "for"} /\ start \in 0 .. n /\ end = x.at
  /\ m[start].of = m[n].of /\ Ready(m[start], start)
  /\ m[start].left = Always(T, <<LoopOf(x.node)>> \o r)

Each(T, inside, l, c, m, x, r, start, end) ==
  /\ FunctionTask(x) => FunctionIn(inside, l, x.node) /\ (Len(c) = 0 \/ Without(inside, x, Jumping))
  /\ m[Len(c)].of = -1 => FunctionTask(x) \/ Without(inside, x, {"function", "return"})
  /\ Without(inside, x, Jumping) \/ Ready(m[Len(c)], Len(c))
  /\ x.do \in Placers => Aim(T, c, m, x, r)
  /\ x.do = "loop" => LoopAt(T, m, Len(c), x, r, start, end)
  /\ x.do = "func_end" => m[Len(c)].of # -1 /\ m[Len(c)].back.left = Always(T, r)

(* In a loop every statement but its update is followed by the latch.      *)
Latched(T, r, n, q) == \E P \in Seq(T) : r = P \o (<<LatchOf(n), LoopOf(n)>> \o q)

Pair(T, inside, x, r, y, q) ==
  /\ FunctionTask(y) => Without(inside, y, Jumping)
  /\ FunctionTask(x) \/ x.do = "func_end" => Without(inside, y, Jumping) /\ y.do \notin Placers
  /\ x.do = "func_end" => FunctionTask(y) \/ Without(inside, y, {"function", "return"})
  /\ y.do = "func_end" => x.do # "func_end" /\ Without(inside, x, {"function"})
  /\ y.do = "loop" =>
       /\ Without(inside, x, {"while", "for", "function"})
       /\ y.node.kind = "for" => Without(inside, x, {"continue"})
       /\ Assigns(x) \/ Latched(T, r, y.node, q)

Spot(s, a) ==
  s.of \in -1 .. a - 1 /\ s.place \in Nat /\ (s.of # -1 => s.back.place \in Nat)

AllEach(T, inside, l, c, m, w, R, start, end) ==
  \A k \in 1 .. Len(w) : Each(T, inside, l, c, m, w[k], R[k], start, end)

AllPairs(T, inside, w, R) ==
  \A k \in 1 .. Len(w) : \A j \in 1 .. k - 1 : Pair(T, inside, w[j], R[j], w[k], R[k])

Faith(T, inside, l, c, m, w, R, start, end) ==
  /\ Right(T, l, c, m, Placed(w)) /\ Spot(m[Len(c)], Len(c))
  /\ Threads(T, w, R) /\ m[Len(c)].left = Always(T, Coming(w, R, 1))
  /\ m[Len(c)].of # -1 => Has(w, "func_end")
  /\ m[0] = [left |-> Always(T, l), of |-> -1, place |-> 0, back |-> m[0].back]
  /\ AllEach(T, inside, l, c, m, w, R, start, end)
  /\ AllPairs(T, inside, w, R)

(* What the code d and its map p keep of c and m.                          *)
Carries(c, m, d, p) ==
  /\ Len(c) \in Nat /\ Len(d) \in Nat /\ Len(c) <= Len(d)
  /\ \A a \in 0 .. Len(c) : p[a] = m[a]
  /\ \A k \in 1 .. Len(c) : d[k].op = c[k].op
  /\ p[Len(d)].of = m[Len(c)].of /\ p[Len(d)].back = m[Len(c)].back
  /\ Spot(m[Len(c)], Len(c)) => Spot(p[Len(d)], Len(d))
  /\ Ready(m[Len(c)], Len(c)) => Ready(p[Len(d)], Len(d))

(* Task y with q after it comes from task x with r after it.               *)
Heir(T, inside, x, r, y, q) ==
  /\ y.do \in Sources => x.do \in Sources /\ inside[y.node] \subseteq inside[x.node]
  /\ y.do # "func_end"
  /\ Without(inside, x, {"while", "for", "function"}) => \E P \in Seq(T) : q = P \o r

LEMMA Inherits ==
  ASSUME NEW inside, NEW T, NEW x, NEW r, NEW y, NEW q, Heir(T, inside, x, r, y, q), NEW kinds,
         Without(inside, x, kinds)
  PROVE  Without(inside, y, kinds)
BY DEF Heir, Without, Lacks

LEMMA NoFunctionHere ==
  ASSUME NEW inside, NEW T, Insides(inside), DOMAIN inside = T, NEW x, x.node \in T, x.do = "stmt",
         NEW kinds, x.node.kind \in kinds
  PROVE  ~Without(inside, x, kinds)
BY DEF Without, Insides, Lacks, Sources

LEMMA LatchedOn ==
  ASSUME NEW T, Trees(T), NEW r, NEW q \in Rests(T), NEW n \in T, n.kind \in {"while", "for"},
         Latched(T, r, n, q), NEW P \in Seq(T)
  PROVE  Latched(T, P \o r, n, q)
<1>1. PICK S \in Seq(T) : r = S \o (<<LatchOf(n), LoopOf(n)>> \o q)
  BY DEF Latched
<1>2. P \o S \in Seq(T)
  OBVIOUS
<1>3. <<LatchOf(n), LoopOf(n)>> \o q \in Rests(T)
  <2>1. LatchOf(n) \in Nodes(T) /\ LoopOf(n) \in Nodes(T)
    <3>1. /\ n.parts \in Seq(T) /\ n.parts # <<>> /\ Tail(n.parts) \in Seq(T)
          /\ n.kind = "for" => Tail(n.parts) # <<>>
      BY PartsOf
    <3>2. LET ss == IF n.kind = "for" THEN Tail(n.parts) ELSE n.parts IN ss \in Seq(T) /\ ss # <<>>
      BY <3>1
    <3> DEFINE ss == IF n.kind = "for" THEN Tail(n.parts) ELSE n.parts
    <3>3. ss \in Seq(T) /\ ss # <<>> /\ LoopOf(n) = Node("loop", n.id, ss)
      BY <3>2 DEF LoopOf
    <3> HIDE DEF ss
    <3>4. Tail(ss) \in Seq(T)
      BY <3>3, FirstOf
    <3>5. LatchOf(n) = Node("latch", NoName, Tail(ss))
      BY <3>3 DEF LatchOf, Node
    <3>6. QED
      BY <3>3, <3>4, <3>5, LoopNodes
  <2> DEFINE N == Nodes(T)
             a == LatchOf(n)
             b == LoopOf(n)
  <2>2. a \in N /\ b \in N /\ q \in Seq(N)
    BY <2>1 DEF Rests
  <2> HIDE DEF N, a, b
  <2>3. <<a, b>> \o q \in Seq(N)
    BY <2>2
  <2>4. QED
    BY <2>3 DEF N, a, b, Rests
<1> DEFINE N == Nodes(T)
           z == <<LatchOf(n), LoopOf(n)>> \o q
<1>4. P \in Seq(N) /\ S \in Seq(N) /\ z \in Seq(N)
  <2>1. T \subseteq N
    BY DEF Nodes
  <2> HIDE DEF N, z
  <2>2. P \in Seq(N) /\ S \in Seq(N)
    BY <2>1
  <2>3. QED
    BY <1>3, <2>2 DEF N, z, Rests
<1> HIDE DEF N, z
<1>5. Associates(P, S, z)
  BY <1>4, Associate
<1>6. QED
  BY <1>1, <1>2, <1>5 DEF Latched, Associates, z

LEMMA PairOn ==
  ASSUME NEW T, Trees(T), NEW inside, NEW x, NEW r, NEW y, NEW q, Heir(T, inside, x, r, y, q),
         ~FunctionTask(y), ~Assigns(x),
         NEW v, v.node \in T, NEW s \in Rests(T), v.do = "loop" => v.node.kind \in {"while", "for"},
         Pair(T, inside, x, r, v, s)
  PROVE  Pair(T, inside, y, q, v, s)
<1>1. y.do # "func_end"
  BY DEF Heir
<1>2. FunctionTask(v) => Without(inside, v, Jumping)
  BY DEF Pair
<1>3. v.do = "func_end" => Without(inside, y, {"function"})
  BY Inherits DEF Pair
<1>4. ASSUME v.do = "loop"
      PROVE  /\ Without(inside, y, {"while", "for", "function"})
             /\ v.node.kind = "for" => Without(inside, y, {"continue"})
  BY <1>4, Inherits DEF Pair
<1>5. ASSUME v.do = "loop", Latched(T, r, v.node, s) PROVE Latched(T, q, v.node, s)
  <2>1. PICK P \in Seq(T) : q = P \o r
    BY <1>5 DEF Pair, Heir
  <2>2. QED
    BY <1>5, <2>1, LatchedOn
<1>6. v.do = "loop" => Latched(T, q, v.node, s)
  BY <1>5 DEF Pair
<1>7. QED
  BY <1>1, <1>2, <1>3, <1>4, <1>6, Zenon DEF Pair

LEMMA CarriedPast ==
  ASSUME NEW c, NEW m, NEW d, NEW p, Carries(c, m, d, p)
  PROVE  /\ p[Len(c)] = m[Len(c)]
         /\ p[Len(d)].of = m[Len(c)].of /\ p[Len(d)].back = m[Len(c)].back
         /\ Ready(m[Len(c)], Len(c)) => Ready(p[Len(d)], Len(d))
         /\ Spot(m[Len(c)], Len(c)) => Spot(p[Len(d)], Len(d))
         /\ Len(c) \in Nat /\ Len(d) \in Nat /\ Len(c) <= Len(d)
BY DEF Carries

LEMMA CarriedTwice ==
  ASSUME NEW c, NEW m, NEW d, NEW p, Carries(c, m, d, p), NEW e, NEW v, Carries(d, p, e, v)
  PROVE  Carries(c, m, e, v)
<1>1. /\ Len(c) \in Nat /\ Len(e) \in Nat /\ Len(c) <= Len(e)
      /\ \A a \in 0 .. Len(c) : v[a] = m[a]
      /\ \A k \in 1 .. Len(c) : e[k].op = c[k].op
  BY DEF Carries
<1>2. /\ v[Len(e)].of = m[Len(c)].of /\ v[Len(e)].back = m[Len(c)].back
      /\ Spot(m[Len(c)], Len(c)) => Spot(v[Len(e)], Len(e))
      /\ Ready(m[Len(c)], Len(c)) => Ready(v[Len(e)], Len(e))
  BY DEF Carries
<1>3. QED
  BY <1>1, <1>2 DEF Carries

LEMMA AimCarried ==
  ASSUME NEW T, NEW c, NEW m, NEW d, NEW p, Carries(c, m, d, p), NEW x, NEW r, Aim(T, c, m, x, r)
  PROVE  Aim(T, d, p, x, r)
<1> DEFINE a == x.at
<1>1. /\ a \in 0 .. Len(c) - 1 /\ m[a].of = m[Len(c)].of /\ Ready(m[a], a) /\ Ready(m[Len(c)], Len(c))
      /\ Target(c[a + 1], m[a].left) = Always(T, Goal(x, r))
  BY DEF Aim
<1>2. a \in 0 .. Len(c) /\ a + 1 \in 1 .. Len(c) /\ a \in 0 .. Len(d) - 1
  BY <1>1, CarriedPast
<1>3. p[a] = m[a] /\ d[a + 1].op = c[a + 1].op
  BY <1>2 DEF Carries
<1>4. Target(d[a + 1], p[a].left) = Target(c[a + 1], m[a].left)
  BY <1>3 DEF Target
<1>5. QED
  BY <1>1, <1>2, <1>3, <1>4, CarriedPast DEF Aim

LEMMA LoopCarried ==
  ASSUME NEW T, NEW c, NEW m, NEW d, NEW p, Carries(c, m, d, p), NEW x, NEW r, NEW start, NEW end,
         LoopAt(T, m, Len(c), x, r, start, end)
  PROVE  LoopAt(T, p, Len(d), x, r, start, end)
<1>1. /\ start \in 0 .. Len(c) /\ end = x.at /\ m[start].of = m[Len(c)].of /\ Ready(m[start], start)
      /\ x.node.kind \in {"while", "for"}
      /\ m[start].left = Always(T, <<LoopOf(x.node)>> \o r)
  BY DEF LoopAt
<1>2. start \in 0 .. Len(d)
  BY <1>1, CarriedPast
<1>3. p[start] = m[start]
  BY <1>1 DEF Carries
<1>4. QED
  BY <1>1, <1>2, <1>3, CarriedPast DEF LoopAt

(* The tasks t of w[1], and what is left after each. *)
Fresh(T, inside, d, p, t, q, start, end) ==
  /\ \A k \in 1 .. Len(t) : /\ t[k].do \in Placers => Aim(T, d, p, t[k], q[k])
                            /\ t[k].do = "loop" => LoopAt(T, p, Len(d), t[k], q[k], start, end)
  /\ \A k \in 1 .. Len(t) : \A j \in 1 .. k - 1 : Pair(T, inside, t[j], q[j], t[k], q[k])

LEMMA NoFunctionLeft ==
  ASSUME NEW T, NEW inside, NEW l, NEW c, NEW m, NEW w, NEW R, NEW start, NEW end,
         Len(w) \in Nat \ {0}, Faith(T, inside, l, c, m, w, R, start, end),
         ~FunctionTask(w[1]), w[1].do # "func_end"
  PROVE  Without(inside, w[1], {"function"})
<1>1. 1 \in 1 .. Len(w)
  OBVIOUS
<1>2. CASE m[Len(c)].of = -1
  <2>1. Without(inside, w[1], {"function", "return"})
    BY <1>1, <1>2 DEF Faith, AllEach, Each
  <2>2. QED
    BY <2>1 DEF Without, Lacks
<1>3. CASE m[Len(c)].of # -1
  <2>1. PICK k \in 1 .. Len(w) : w[k].do = "func_end"
    BY <1>3 DEF Faith, Has
  <2>2. 1 \in 1 .. k - 1
    BY <2>1
  <2>3. Pair(T, inside, w[1], R[1], w[k], R[k])
    BY <2>2 DEF Faith, AllPairs
  <2>4. QED
    BY <2>1, <2>3 DEF Pair
<1>4. QED
  BY <1>2, <1>3

LEMMA NotAFunction ==
  ASSUME NEW T, NEW inside, Insides(inside), DOMAIN inside = T, NEW x, x.node \in T,
         Without(inside, x, {"function"})
  PROVE  ~FunctionTask(x)
BY NoFunctionHere DEF FunctionTask

(* Old tasks stay right under what carries them. *)
LEMMA EachCarried ==
  ASSUME NEW T, NEW inside, NEW l, NEW c, NEW m, NEW d, NEW p, Carries(c, m, d, p),
         NEW x, NEW r, NEW start, NEW end, Each(T, inside, l, c, m, x, r, start, end),
         FunctionTask(x) => Without(inside, x, Jumping),
         NEW s, NEW e, x.do = "loop" => s = start /\ e = end
  PROVE  Each(T, inside, l, d, p, x, r, s, e)
<1>1. FunctionTask(x) => FunctionIn(inside, l, x.node)
  BY DEF Each
<1>2. /\ p[Len(d)].of = -1 => FunctionTask(x) \/ Without(inside, x, {"function", "return"})
      /\ Without(inside, x, Jumping) \/ Ready(p[Len(d)], Len(d))
      /\ x.do = "func_end" => p[Len(d)].of # -1 /\ p[Len(d)].back.left = Always(T, r)
  BY CarriedPast DEF Each
<1>3. x.do \in Placers => Aim(T, d, p, x, r)
  BY AimCarried DEF Each
<1>4. x.do = "loop" => LoopAt(T, p, Len(d), x, r, s, e)
  BY LoopCarried DEF Each
<1>5. QED
  BY <1>1, <1>2, <1>3, <1>4 DEF Each

LEMMA EachHeir ==
  ASSUME NEW T, NEW inside, Insides(inside), DOMAIN inside = T,
         NEW l, NEW c, NEW m, NEW d, NEW p, Carries(c, m, d, p),
         NEW x, NEW r, NEW start, NEW end, Each(T, inside, l, c, m, x, r, start, end),
         Without(inside, x, {"function"}), ~FunctionTask(x),
         NEW y, NEW q, y.node \in T, Heir(T, inside, x, r, y, q),
         NEW s, NEW e, y.do \in Placers => Aim(T, d, p, y, q),
         y.do = "loop" => LoopAt(T, p, Len(d), y, q, s, e)
  PROVE  Each(T, inside, l, d, p, y, q, s, e) /\ ~FunctionTask(y)
<1>1. ~FunctionTask(y) /\ y.do # "func_end"
  BY Inherits, NotAFunction DEF Heir
<1>2. p[Len(d)].of = -1 => Without(inside, y, {"function", "return"})
  BY CarriedPast, Inherits DEF Each
<1>3. Without(inside, y, Jumping) \/ Ready(p[Len(d)], Len(d))
  BY CarriedPast, Inherits DEF Each
<1>4. QED
  BY <1>1, <1>2, <1>3 DEF Each

(* Where the tasks of z come from. *)
LEMMA Came ==
  ASSUME NEW z, NEW t, NEW w, Replaced(z, t, w), NEW S, NEW q, NEW R, Replaced(S, q, R),
         Len(q) = Len(t), Len(R) = Len(w), NEW k \in 1 .. Len(z)
  PROVE  \/ k \in 1 .. Len(t) /\ z[k] = t[k] /\ S[k] = q[k]
         \/ \E h \in 2 .. Len(w) : k = Len(t) + h - 1 /\ z[k] = w[h] /\ S[k] = R[h]
<1>1. /\ Len(t) \in Nat /\ Len(w) \in Nat \ {0} /\ Len(z) = Len(t) + Len(w) - 1
      /\ \A j \in 1 .. Len(t) : z[j] = t[j] /\ S[j] = q[j]
      /\ \A j \in 2 .. Len(w) : z[Len(t) + j - 1] = w[j] /\ S[Len(t) + j - 1] = R[j]
  BY DEF Replaced
<1>2. CASE k \in 1 .. Len(t)
  BY <1>1, <1>2
<1>3. CASE k > Len(t)
  <2>1. k - Len(t) + 1 \in 2 .. Len(w) /\ k = Len(t) + (k - Len(t) + 1) - 1
    BY <1>1, <1>3
  <2>2. QED
    BY <1>1, <2>1
<1>4. QED
  BY <1>1, <1>2, <1>3

LEMMA PlacedOn ==
  ASSUME NEW z, NEW t, NEW w, Replaced(z, t, w)
  PROVE  Left(w) \cup Placed(t) \subseteq Placed(z)
<1>1. /\ Len(t) \in Nat /\ Len(w) \in Nat \ {0} /\ Len(z) = Len(t) + Len(w) - 1
      /\ \A j \in 1 .. Len(t) : z[j] = t[j]
      /\ \A j \in 2 .. Len(w) : z[Len(t) + j - 1] = w[j]
  BY DEF Replaced
<1>2. \A k \in Open(t) : k \in Open(z) /\ z[k] = t[k]
  BY <1>1 DEF Open
<1>3. \A k \in Open(w) \ {1} : Len(t) + k - 1 \in Open(z) /\ z[Len(t) + k - 1] = w[k]
  <2> TAKE k \in Open(w) \ {1}
  <2>1. k \in 2 .. Len(w) /\ w[k].do \in Placers
    BY DEF Open
  <2>2. Len(t) + k - 1 \in 1 .. Len(z)
    BY <1>1, <2>1
  <2>3. QED
    BY <1>1, <2>1, <2>2 DEF Open
<1>4. QED
  BY <1>2, <1>3 DEF Placed, Left

LEMMA InOrder ==
  ASSUME NEW a \in Nat, NEW b \in Nat, NEW h \in 2 .. b, NEW g \in 2 .. b, a + g - 1 < a + h - 1
  PROVE  h \in 1 .. b /\ g \in 1 .. h - 1
OBVIOUS

(* A step of the generator but at the start and end of a function.         *)
LEMMA Advancing ==
  ASSUME NEW T, Trees(T), NEW inside, Insides(inside), DOMAIN inside = T,
         NEW l, NEW c, NEW m, NEW w \in Seq(Tasks(T)), w # <<>>, NEW R, NEW start, NEW end,
         Faith(T, inside, l, c, m, w, R, start, end),
         ~FunctionTask(w[1]), w[1].do # "func_end",
         NEW t \in Seq(Tasks(T)), NEW q, Linked(T, t, q, R[1]), Len(t) = 0 \/ ~Assigns(w[1]),
         \A k \in 1 .. Len(t) : Heir(T, inside, w[1], R[1], t[k], q[k]),
         NEW d, NEW p, Carries(c, m, d, p),
         NEW Q, Right(T, l, d, p, Q), Q \subseteq Left(w) \cup Placed(t),
         p[Len(d)].left = Always(T, IF Len(t) = 0 THEN R[1] ELSE Start(t[1], q[1])),
         NEW s, NEW e, Fresh(T, inside, d, p, t, q, s, e),
         (s = start /\ e = end) \/ ~Later(w, "loop")
  PROVE  Faith(T, inside, l, d, p, t \o Tail(w), q \o Tail(R), s, e)
<1> DEFINE z == t \o Tail(w)
           S == q \o Tail(R)
           n == Len(c)
<1>1. /\ Threads(T, z, S) /\ Replaced(z, t, w) /\ Replaced(S, q, R)
      /\ Class(T, Coming(z, S, 1)) = Class(T, IF Len(t) = 0 THEN R[1] ELSE Start(t[1], q[1]))
  BY ThreadsGo DEF Faith
<1>2. z \in Seq(Tasks(T))
  BY Replacing
<1>3. Len(R) = Len(w) /\ R \in Seq(Rests(T)) /\ Len(q) = Len(t) /\ q \in Seq(Rests(T))
  BY DEF Faith, Threads, Linked
<1>4. Len(w) \in Nat \ {0} /\ Len(t) \in Nat
  OBVIOUS
<1>5. /\ \A k \in 1 .. Len(w) : w[k] \in Tasks(T) /\ w[k].node \in T
      /\ \A k \in 1 .. Len(t) : t[k] \in Tasks(T) /\ t[k].node \in T
  BY DEF Tasks
<1> HIDE DEF z, S
<1>6. Without(inside, w[1], {"function"})
  BY <1>4, NoFunctionLeft
<1>7. /\ \A k \in 1 .. Len(w) : Each(T, inside, l, c, m, w[k], R[k], start, end)
      /\ \A k \in 1 .. Len(w) : \A j \in 1 .. k - 1 : Pair(T, inside, w[j], R[j], w[k], R[k])
      /\ Spot(m[n], n) /\ (m[n].of # -1 => Has(w, "func_end"))
      /\ m[0] = [left |-> Always(T, l), of |-> -1, place |-> 0, back |-> m[0].back]
  BY DEF Faith, AllEach, AllPairs
<1>8. \A k \in 2 .. Len(w) : Pair(T, inside, w[1], R[1], w[k], R[k])
  <2> TAKE k \in 2 .. Len(w)
  <2>1. k \in 1 .. Len(w) /\ 1 \in 1 .. k - 1
    BY <1>4
  <2>2. QED
    BY <1>7, <2>1
<1>9. \A k \in 2 .. Len(w) : Each(T, inside, l, d, p, w[k], R[k], s, e)
  <2> TAKE k \in 2 .. Len(w)
  <2>1. Each(T, inside, l, c, m, w[k], R[k], start, end)
    BY <1>4, <1>7
  <2>2. FunctionTask(w[k]) => Without(inside, w[k], Jumping)
    BY <1>8 DEF Pair
  <2>3. w[k].do = "loop" => s = start /\ e = end
    BY DEF Later
  <2>4. QED
    BY <2>1, <2>2, <2>3, EachCarried
<1>10. \A k \in 1 .. Len(t) : Each(T, inside, l, d, p, t[k], q[k], s, e) /\ ~FunctionTask(t[k])
  <2> TAKE k \in 1 .. Len(t)
  <2>1. Each(T, inside, l, c, m, w[1], R[1], start, end)
    BY <1>4, <1>7
  <2>2. /\ t[k].do \in Placers => Aim(T, d, p, t[k], q[k])
        /\ t[k].do = "loop" => LoopAt(T, p, Len(d), t[k], q[k], s, e)
    BY DEF Fresh
  <2>3. Heir(T, inside, w[1], R[1], t[k], q[k]) /\ t[k].node \in T
    BY <1>5
  <2>4. QED
    BY <1>6, <2>1, <2>2, <2>3, EachHeir
<1>11. AllEach(T, inside, l, d, p, z, S, s, e)
  <2> SUFFICES ASSUME NEW k \in 1 .. Len(z) PROVE Each(T, inside, l, d, p, z[k], S[k], s, e)
    BY DEF AllEach
  <2>1. \/ k \in 1 .. Len(t) /\ z[k] = t[k] /\ S[k] = q[k]
        \/ \E h \in 2 .. Len(w) : k = Len(t) + h - 1 /\ z[k] = w[h] /\ S[k] = R[h]
    BY <1>1, <1>3, Came
  <2>2. QED
    BY <1>9, <1>10, <2>1, Zenon
<1>12. ASSUME NEW h \in 2 .. Len(w) PROVE w[h].do = "loop" => w[h].node.kind \in {"while", "for"}
  <2>1. Each(T, inside, l, c, m, w[h], R[h], start, end)
    BY <1>4, <1>7
  <2>2. QED
    BY <2>1 DEF Each, LoopAt
<1>13. ASSUME NEW j \in 1 .. Len(t), NEW h \in 2 .. Len(w) PROVE Pair(T, inside, t[j], q[j], w[h], R[h])
  <2>1. Pair(T, inside, w[1], R[1], w[h], R[h])
    BY <1>8
  <2>2. w[h].node \in T /\ R[h] \in Rests(T) /\ (w[h].do = "loop" => w[h].node.kind \in {"while", "for"})
    <3>1. h \in 1 .. Len(w)
      BY <1>4
    <3>2. R[h] \in Rests(T)
      BY <1>3, <3>1
    <3>3. QED
      BY <1>5, <1>12, <3>1, <3>2
  <2>3. Heir(T, inside, w[1], R[1], t[j], q[j]) /\ ~FunctionTask(t[j]) /\ ~Assigns(w[1])
    BY <1>4, <1>10
  <2>4. QED
    BY <2>1, <2>2, <2>3, PairOn
<1>14. AllPairs(T, inside, z, S)
  <2> SUFFICES ASSUME NEW k \in 1 .. Len(z), NEW j \in 1 .. k - 1
               PROVE  Pair(T, inside, z[j], S[j], z[k], S[k])
    BY DEF AllPairs
  <2>0. j \in 1 .. Len(z) /\ j < k /\ k \in Nat /\ j \in Nat
    <3>1. Len(z) \in Nat
      BY <1>2
    <3>2. QED
      BY <3>1
  <2>1. \/ k \in 1 .. Len(t) /\ z[k] = t[k] /\ S[k] = q[k]
        \/ \E h \in 2 .. Len(w) : k = Len(t) + h - 1 /\ z[k] = w[h] /\ S[k] = R[h]
    BY <1>1, <1>3, Came
  <2>2. \/ j \in 1 .. Len(t) /\ z[j] = t[j] /\ S[j] = q[j]
        \/ \E h \in 2 .. Len(w) : j = Len(t) + h - 1 /\ z[j] = w[h] /\ S[j] = R[h]
    <3>1. j \in 1 .. Len(z)
      BY <2>0
    <3>2. QED
      BY <1>1, <1>3, <3>1, Came
  <2>3. CASE k \in 1 .. Len(t) /\ z[k] = t[k] /\ S[k] = q[k]
    <3>1. j \in 1 .. Len(t) /\ (\A h \in 2 .. Len(w) : j # Len(t) + h - 1)
      BY <1>4, <2>0, <2>3
    <3>2. Pair(T, inside, t[j], q[j], t[k], q[k])
      BY <2>3 DEF Fresh
    <3>3. QED
      BY <2>2, <2>3, <3>1, <3>2, Zenon
  <2>4. ASSUME NEW h \in 2 .. Len(w), k = Len(t) + h - 1, z[k] = w[h], S[k] = R[h]
        PROVE  Pair(T, inside, z[j], S[j], z[k], S[k])
    <3>1. CASE j \in 1 .. Len(t) /\ z[j] = t[j] /\ S[j] = q[j]
      BY <1>13, <2>4, <3>1, Zenon
    <3>2. ASSUME NEW g \in 2 .. Len(w), j = Len(t) + g - 1, z[j] = w[g], S[j] = R[g]
          PROVE  Pair(T, inside, z[j], S[j], z[k], S[k])
      <4>1. h \in 1 .. Len(w) /\ g \in 1 .. h - 1
        <5>1. Len(t) + g - 1 < Len(t) + h - 1
          BY <2>0, <2>4, <3>2
        <5>2. QED
          BY <1>4, <5>1, InOrder
      <4>2. Pair(T, inside, w[g], R[g], w[h], R[h])
        BY <1>7, <4>1
      <4>3. QED
        BY <2>4, <3>2, <4>2, Zenon
    <3>3. QED
      BY <2>2, <3>1, <3>2
  <2>5. QED
    BY <2>1, <2>3, <2>4
<1>15. Right(T, l, d, p, Placed(z))
  <2>1. Q \subseteq Placed(z)
    BY <1>1, PlacedOn
  <2>2. QED
    BY <2>1 DEF Right
<1>16. p[Len(d)].of # -1 => Has(z, "func_end")
  <2>1. Has(z, "func_end") <=> Has(t, "func_end") \/ Later(w, "func_end")
    BY <1>1, Having
  <2>2. Has(w, "func_end") <=> w[1].do = "func_end" \/ Later(w, "func_end")
    BY <1>1, Having
  <2>3. QED
    BY <1>7, <2>1, <2>2, CarriedPast
<1>17. p[Len(d)].left = Always(T, Coming(z, S, 1))
  BY <1>1 DEF Always
<1>18. p[0] = m[0] /\ Spot(p[Len(d)], Len(d))
  <2>1. 0 \in 0 .. Len(c)
    BY CarriedPast
  <2>2. QED
    BY <1>7, <2>1, CarriedPast DEF Carries
<1>19. Faith(T, inside, l, d, p, z, S, s, e)
  BY <1>1, <1>7, <1>11, <1>14, <1>15, <1>16, <1>17, <1>18, Zenon DEF Faith
<1>20. QED
  BY <1>19 DEF z, S

----------------------------------------------------------------------------
(* Instructions one by one.                                                *)
Onto(s, left) == [left |-> left, of |-> s.of, place |-> s.place + 1, back |-> s.back]

Grew(T, l, c, m, d, p, Q, x, left) ==
  /\ Right(T, l, d, p, Q) /\ Carries(c, m, d, p) /\ p[Len(d)].left = left
  /\ Len(d) = Len(c) + 1 /\ d[Len(d)] = x /\ p[Len(d)] = Onto(m[Len(c)], left)

FunctionOps == {"func_def", "func_end", "func_set_args"}

LEMMA Growing ==
  ASSUME NEW T, NEW l, NEW I, NEW c \in Seq(I), NEW m, NEW P, Right(T, l, c, m, P),
         Spot(m[Len(c)], Len(c)), NEW x, x.op \notin FunctionOps,
         x.op = "return" => m[Len(c)].of # -1,
         NEW left, Does(T, x, m[Len(c)].left, left),
         NEW Q, P \subseteq Q, Len(c) \in Q \/ Goes(x, Len(c), m, Len(c))
  PROVE  \E p : Grew(T, l, c, m, Append(c, x), p, Q, x, left)
<1> DEFINE n == Len(c)
           s == Onto(m[n], left)
           d == Append(c, x)
           p == Grown(m, n, s)
<1>1. n \in Nat /\ Len(d) = n + 1 /\ d[n + 1] = x /\ \A k \in 1 .. n : d[k] = c[k]
  OBVIOUS
<1>2. /\ s.left = left /\ s.of = m[n].of /\ s.place = m[n].place + 1 /\ s.back = m[n].back
      /\ m[n].of \in -1 .. n - 1 /\ m[n].place \in Nat
  BY DEF Onto, Spot
<1>3. p[n + 1] = s /\ \A a \in 0 .. n : p[a] = m[a]
  <2>1. n \in Nat
    BY <1>1
  <2> HIDE DEF n, s, d
  <2>2. QED
    BY <2>1, GrownIs
<1>4. Fits(T, l, x, n, m[n], s)
  BY <1>2 DEF Fits, Lies, FunctionOps
<1>5. Right(T, l, d, p, Q)
  BY <1>4, RightGrows
<1> HIDE DEF p, d, s
<1>6. Spot(s, n + 1)
  BY <1>1, <1>2 DEF Spot
<1>7. Ready(m[n], n) => Ready(s, n + 1)
  BY <1>1, <1>2 DEF Ready
<1>8. Carries(c, m, d, p)
  <2>1. p[Len(d)] = s /\ Len(c) <= Len(d) /\ Len(d) \in Nat
    BY <1>1, <1>3
  <2>2. \A k \in 1 .. Len(c) : d[k].op = c[k].op
    BY <1>1 DEF n
  <2> HIDE DEF n
  <2>3. Spot(p[Len(d)], Len(d)) /\ (Ready(m[n], n) => Ready(p[Len(d)], Len(d)))
    BY <1>1, <1>6, <1>7, <2>1
  <2>4. QED
    BY <1>1, <1>2, <1>3, <2>1, <2>2, <2>3 DEF Carries, n
<1>9. Grew(T, l, c, m, d, p, Q, x, left)
  BY <1>1, <1>2, <1>3, <1>5, <1>8 DEF Grew, s
<1>10. QED
  BY <1>9 DEF d

(* The jump of task x, after which r is left, goes to the end of the code. *)
Mends(T, c, m, x, r) ==
  /\ c \in Seq(Instructions(T)) /\ c[x.at + 1].op \in JumpOps
  /\ Aim(T, c, m, x, r) /\ m[Len(c)].left = Always(T, Goal(x, r))

Mended(T, l, c, m, P, at, d) ==
  Right(T, l, d, m, P \ {at}) /\ Carries(c, m, d, m) /\ Len(d) = Len(c)

LEMMA PatchingUp ==
  ASSUME NEW T, NEW l, NEW c, NEW m, NEW P, Right(T, l, c, m, P), NEW x, NEW r, Mends(T, c, m, x, r)
  PROVE  Mended(T, l, c, m, P, x.at, patch_jump(c, x.at))
<1>0. /\ c \in Seq(Instructions(T)) /\ c[x.at + 1].op \in JumpOps
      /\ Aim(T, c, m, x, r) /\ m[Len(c)].left = Always(T, Goal(x, r))
  BY DEF Mends
<1>1. /\ x.at \in 0 .. Len(c) - 1 /\ m[x.at].of = m[Len(c)].of /\ Ready(m[x.at], x.at)
      /\ Ready(m[Len(c)], Len(c)) /\ Target(c[x.at + 1], m[x.at].left) = m[Len(c)].left
  BY <1>0 DEF Aim
<1>2. PICK I, a : I = Instructions(T) /\ a = x.at
  OBVIOUS
<1>3. c \in Seq(I) /\ a \in 0 .. Len(c) - 1
  BY <1>0, <1>1, <1>2
<1>4. Patches(c, m, a)
  <2>1. c[a + 1] \in I
    BY <1>3
  <2>2. c[a + 1] \in Jumps
    BY <1>0, <1>2, <2>1, InstructionsHaveJumps DEF HasJumps
  <2>3. QED
    BY <1>0, <1>1, <1>2, <2>2 DEF Patches
<1>5. PICK d : d = patch_jump(c, a)
  OBVIOUS
<1>6. Patched(T, l, c, m, P, a, d)
  BY <1>3, <1>4, <1>5, RightPatched, Zenon
<1>7. Carries(c, m, d, m)
  BY <1>3, <1>6 DEF Carries, Patched
<1>8. QED
  BY <1>2, <1>5, <1>6, <1>7 DEF Mended, Patched

----------------------------------------------------------------------------
(* The generator's actions, one by one.                                    *)
Known(T, inside, m, R) ==
  /\ Trees(T) /\ Insides(inside) /\ DOMAIN inside = T /\ Generating(T)
  /\ Faith(T, inside, line, code, m, work, R, loop_start, loop_end)

Faithful(T, inside) ==
  \E m, R : Faith(T, inside, line, code, m, work, R, loop_start, loop_end)

LEMMA KnownFront ==
  ASSUME NEW T, NEW inside, NEW m, NEW R, Known(T, inside, m, R), work # <<>>
  PROVE  /\ ~refused /\ work \in Seq(Tasks(T)) /\ Len(work) \in Nat \ {0}
         /\ code \in Seq(Instructions(T)) /\ Len(code) \in Nat
         /\ work[1] \in Tasks(T) /\ this \in T /\ R[1] \in Rests(T) /\ Len(R) = Len(work)
         /\ Each(T, inside, line, code, m, work[1], R[1], loop_start, loop_end)
         /\ m[Len(code)].left = Always(T, Start(work[1], R[1]))
         /\ Right(T, line, code, m, Placed(work)) /\ Spot(m[Len(code)], Len(code))
<1>1. /\ ~refused /\ work \in Seq(Tasks(T)) /\ Len(work) \in Nat \ {0}
      /\ code \in Seq(Instructions(T)) /\ Len(code) \in Nat
      /\ work[1] \in Tasks(T) /\ this \in T
  BY Foremost DEF Known
<1>2. /\ Threads(T, work, R) /\ m[Len(code)].left = Always(T, Coming(work, R, 1))
      /\ AllEach(T, inside, line, code, m, work, R, loop_start, loop_end)
      /\ Right(T, line, code, m, Placed(work)) /\ Spot(m[Len(code)], Len(code))
  BY DEF Known, Faith
<1>3. 1 \in 1 .. Len(work)
  BY <1>1
<1>4. R \in Seq(Rests(T)) /\ Len(R) = Len(work)
  BY <1>2 DEF Threads
<1>5. R[1] \in Rests(T)
  BY <1>3, <1>4
<1>6. Coming(work, R, 1) = Start(work[1], R[1])
  BY <1>3 DEF Coming
<1>7. QED
  BY <1>1, <1>2, <1>3, <1>4, <1>5, <1>6 DEF AllEach

Statement(T, r, n, q) ==
  r \in Rests(T) /\ r # <<>> /\ r[1] = n /\ Head(r) = r[1] /\ Tail(r) = q

LEMMA AtStatement ==
  ASSUME NEW T, NEW inside, NEW m, NEW R, Known(T, inside, m, R), NEW kind, Doing(kind)
  PROVE  /\ work # <<>> /\ this.kind = kind /\ work[1].do = "stmt"
         /\ Statement(T, <<this>> \o R[1], this, R[1])
         /\ m[Len(code)].left = Always(T, <<this>> \o R[1])
<1>1. work # <<>> /\ this.kind = kind /\ work[1].do = "stmt"
  BY Doings
<1>2. this \in T /\ R[1] \in Rests(T) /\ m[Len(code)].left = Always(T, Start(work[1], R[1]))
  BY <1>1, KnownFront
<1>3. this \in Nodes(T)
  BY <1>2, LoopNodes DEF Nodes
<1>4. Statement(T, <<this>> \o R[1], this, R[1])
  <2> DEFINE n == this
             q == R[1]
  <2>1. n \in Nodes(T) /\ q \in Rests(T)
    BY <1>2, <1>3
  <2> HIDE DEF n, q
  <2>2. /\ <<n>> \o q \in Rests(T) /\ (<<n>> \o q) # <<>> /\ (<<n>> \o q)[1] = n
        /\ Head(<<n>> \o q) = n /\ Tail(<<n>> \o q) = q
    BY <2>1, OneBefore
  <2>3. Statement(T, <<n>> \o q, n, q)
    BY <2>2, Zenon DEF Statement
  <2>4. QED
    BY <2>3 DEF n, q
<1>5. Start(work[1], R[1]) = <<this>> \o R[1]
  BY <1>1 DEF Start, this
<1>6. QED
  BY <1>1, <1>2, <1>4, <1>5

LEMMA Advanced ==
  ASSUME NEW T, NEW inside, NEW m, NEW R, Known(T, inside, m, R), work # <<>>,
         ~FunctionTask(work[1]), work[1].do # "func_end",
         NEW t \in Seq(Tasks(T)), NEW q, Linked(T, t, q, R[1]), Len(t) = 0 \/ ~Assigns(work[1]),
         \A k \in 1 .. Len(t) : Heir(T, inside, work[1], R[1], t[k], q[k]),
         NEW d, NEW p, Carries(code, m, d, p),
         NEW Q, Right(T, line, d, p, Q), Q \subseteq Left(work) \cup Placed(t),
         p[Len(d)].left = Always(T, IF Len(t) = 0 THEN R[1] ELSE Start(t[1], q[1])),
         NEW s, NEW e, Fresh(T, inside, d, p, t, q, s, e),
         (s = loop_start /\ e = loop_end) \/ ~Later(work, "loop"),
         line' = line, code' = d, work' = t \o Tail(work), loop_start' = s, loop_end' = e
  PROVE  Faithful(T, inside)'
<1> DEFINE S == q \o Tail(R)
<1>1. work \in Seq(Tasks(T))
  BY KnownFront
<1>2. Faith(T, inside, line, d, p, t \o Tail(work), S, s, e)
  BY <1>1, Advancing DEF Known
<1> HIDE DEF S
<1>3. Faith(T, inside, line', code', p, work', S, loop_start', loop_end')
  BY <1>2
<1>4. QED
  BY <1>3 DEF Faithful

(* No tasks take the place of the first. *)
LEMMA NoneNew ==
  ASSUME NEW T, NEW inside, NEW w, NEW r, NEW d, NEW p, NEW s, NEW e
  PROVE  /\ <<>> \in Seq(Tasks(T)) /\ Len(<<>>) = 0 /\ Linked(T, <<>>, <<>>, r)
         /\ \A k \in 1 .. Len(<<>>) : Heir(T, inside, w, r, <<>>[k], <<>>[k])
         /\ Fresh(T, inside, d, p, <<>>, <<>>, s, e)
<1>1. Len(<<>>) = 0 /\ <<>> \in Seq(Tasks(T)) /\ <<>> \in Seq(Rests(T))
  OBVIOUS
<1>2. 1 .. Len(<<>>) = {}
  BY <1>1
<1> DEFINE z == <<>>
<1>3. z \in Seq(Tasks(T)) /\ z \in Seq(Rests(T)) /\ Len(z) = 0 /\ 1 .. Len(z) = {}
  BY <1>1, <1>2
<1> HIDE DEF z
<1>4. Linked(T, z, z, r) /\ Fresh(T, inside, d, p, z, z, s, e)
  BY <1>3, Zenon DEF Linked, Fresh
<1>5. QED
  BY <1>3, <1>4, Zenon DEF z

LEMMA Done ==
  ASSUME NEW T, NEW inside, NEW m, NEW R, Known(T, inside, m, R), work # <<>>,
         ~FunctionTask(work[1]), work[1].do # "func_end",
         NEW d, NEW p, Carries(code, m, d, p), Right(T, line, d, p, Left(work)),
         p[Len(d)].left = Always(T, R[1]),
         line' = line, code' = d, work' = Tail(work), loop_start' = loop_start, loop_end' = loop_end
  PROVE  Faithful(T, inside)'
<1> DEFINE t == <<>>
<1>1. /\ t \in Seq(Tasks(T)) /\ Len(t) = 0 /\ Linked(T, t, t, R[1])
      /\ \A k \in 1 .. Len(t) : Heir(T, inside, work[1], R[1], t[k], t[k])
      /\ Fresh(T, inside, d, p, t, t, loop_start, loop_end)
  BY NoneNew, Zenon
<1>2. work' = t \o Tail(work)
  BY KnownFront
<1>3. Left(work) \subseteq Left(work) \cup Placed(t)
  OBVIOUS
<1> HIDE DEF t
<1>4. p[Len(d)].left = Always(T, IF Len(t) = 0 THEN R[1] ELSE Start(t[1], t[1]))
  BY <1>1
<1>5. QED
  BY <1>1, <1>2, <1>3, <1>4, Advanced, Zenon

LEMMA LeftIs ==
  ASSUME NEW w, w[1].do \notin Placers
  PROVE  Left(w) = Placed(w)
BY DEF Left, Placed, Open

(* Where a jump emitted at n, with this label, goes. *)
Leads(x, m, n, left) ==
  x.op \in JumpOps =>
    /\ x.to \in 0 .. n /\ m[x.to].of = m[n].of
    /\ Ready(m[n], n) /\ Ready(m[x.to], x.to)
    /\ m[x.to].left = Target(x, left)

GrewTwo(T, l, c, m, d, p, Q, y, mid, left) ==
  /\ Right(T, l, d, p, Q) /\ Carries(c, m, d, p)
  /\ Len(d) = Len(c) + 2 /\ d[Len(c) + 2] = y /\ p[Len(c) + 2].left = left
  /\ p[Len(c)] = m[Len(c)] /\ p[Len(c) + 1] = Onto(m[Len(c)], mid)
  /\ p[Len(c) + 2] = Onto(p[Len(c) + 1], left)

LEMMA GrowingTwo ==
  ASSUME NEW T, NEW l, NEW I, NEW c \in Seq(I), NEW m, NEW P, Right(T, l, c, m, P),
         Spot(m[Len(c)], Len(c)), NEW x \in I, NEW y \in I,
         x.op \notin FunctionOps \cup JumpOps \cup {"return"}, y.op \notin FunctionOps,
         y.op = "return" => m[Len(c)].of # -1,
         NEW mid, Does(T, x, m[Len(c)].left, mid), NEW left, Does(T, y, mid, left),
         NEW Q, P \subseteq Q, Len(c) + 1 \in Q \/ Leads(y, m, Len(c), mid)
  PROVE  \E p : GrewTwo(T, l, c, m, c \o <<x, y>>, p, Q, y, mid, left)
<1> DEFINE n == Len(c)
           d == Append(c, x)
           e == Append(d, y)
<1>1. n \in Nat /\ d \in Seq(I) /\ e = c \o <<x, y>> /\ Len(d) = n + 1
  OBVIOUS
<1>2. Len(c) \in Q \/ Goes(x, Len(c), m, Len(c))
  BY DEF Goes
<1>3. PICK u : Grew(T, l, c, m, d, u, Q, x, mid)
  BY <1>2, Growing
<1>4. /\ Right(T, l, d, u, Q) /\ Carries(c, m, d, u) /\ u[n + 1].left = mid
      /\ u[n + 1] = Onto(m[n], mid)
  BY <1>1, <1>3 DEF Grew
<1>5. u[n] = m[n] /\ Spot(u[n + 1], n + 1) /\ u[n + 1].of = m[n].of /\ (Ready(m[n], n) => Ready(u[n + 1], n + 1))
  <2>1. /\ u[Len(c)] = m[Len(c)] /\ Spot(u[Len(d)], Len(d)) /\ u[Len(d)].of = m[Len(c)].of
        /\ Ready(m[Len(c)], Len(c)) => Ready(u[Len(d)], Len(d))
    <3> HIDE DEF d
    <3>1. QED
      BY <1>4, CarriedPast
  <2>2. QED
    BY <1>1, <2>1
<1>6. n + 1 \in Q \/ Goes(y, n + 1, u, n + 1)
  <2>1. CASE y.op \in JumpOps /\ Leads(y, m, n, mid)
    <3>1. /\ y.to \in 0 .. n /\ m[y.to].of = m[n].of /\ Ready(m[n], n) /\ Ready(m[y.to], y.to)
          /\ m[y.to].left = Target(y, mid)
      BY <2>1 DEF Leads
    <3>2. u[y.to] = m[y.to] /\ y.to \in 0 .. n + 1
      BY <1>1, <1>4, <3>1 DEF Carries
    <3>3. QED
      BY <1>4, <1>5, <3>1, <3>2 DEF Goes
  <2>2. CASE y.op \notin JumpOps
    BY <2>2 DEF Goes
  <2>3. QED
    BY <2>1, <2>2
<1> HIDE DEF d, e, n
<1>7. PICK p : Grew(T, l, d, u, e, p, Q, y, left)
  <2>1. Does(T, y, u[Len(d)].left, left) /\ Spot(u[Len(d)], Len(d)) /\ (Len(d) \in Q \/ Goes(y, Len(d), u, Len(d)))
    BY <1>1, <1>4, <1>5, <1>6
  <2>2. y.op = "return" => u[Len(d)].of # -1
    BY <1>1, <1>5 DEF n
  <2>3. \E p : Grew(T, l, d, u, Append(d, y), p, Q, y, left)
    BY <1>1, <1>4, <2>1, <2>2, Growing
  <2>4. QED
    BY <2>3 DEF e
<1>8. /\ Right(T, l, e, p, Q) /\ Carries(d, u, e, p) /\ p[Len(e)].left = left /\ Len(e) = n + 2
      /\ e[Len(e)] = y /\ p[Len(e)] = Onto(u[n + 1], left)
  BY <1>1, <1>7 DEF Grew
<1>9. Carries(c, m, e, p)
  BY <1>4, <1>8, CarriedTwice
<1>10. p[n] = u[n] /\ p[n + 1] = u[n + 1]
  BY <1>1, <1>8 DEF Carries
<1>11. GrewTwo(T, l, c, m, e, p, Q, y, mid, left)
  BY <1>1, <1>4, <1>5, <1>8, <1>9, <1>10 DEF n, GrewTwo
<1>12. QED
  BY <1>1, <1>11

LEMMA DoneByOne ==
  ASSUME NEW T, NEW inside, NEW m, NEW R, Known(T, inside, m, R), work # <<>>,
         ~FunctionTask(work[1]), work[1].do \notin Placers \cup {"func_end"},
         NEW x \in Instructions(T), x.op \notin FunctionOps \cup {"return"},
         Does(T, x, m[Len(code)].left, Always(T, R[1])),
         Leads(x, m, Len(code), m[Len(code)].left),
         Emit(<<x>>, <<>>), UNCHANGED statics
  PROVE  Faithful(T, inside)'
<1>1. /\ code' = code \o <<x>> /\ work' = <<>> \o Tail(work) /\ line' = line
      /\ loop_start' = loop_start /\ loop_end' = loop_end
  BY DEF Emit, statics
<1>2. /\ work \in Seq(Tasks(T)) /\ code \in Seq(Instructions(T)) /\ Right(T, line, code, m, Placed(work))
      /\ Spot(m[Len(code)], Len(code)) /\ Len(code) \in Nat
  BY KnownFront
<1>3. code' = Append(code, x) /\ work' = Tail(work)
  <2>1. <<>> \o Tail(work) = Tail(work)
    BY <1>2
  <2>2. code \o <<x>> = Append(code, x)
    BY <1>2
  <2>3. QED
    BY <1>1, <2>1, <2>2
<1>4. Goes(x, Len(code), m, Len(code))
  BY DEF Leads, Goes
<1> DEFINE d == Append(code, x)
           Q == Placed(work)
<1>5. \E p : Grew(T, line, code, m, d, p, Q, x, Always(T, R[1]))
  BY <1>2, <1>4, Growing
<1>6. PICK p : Grew(T, line, code, m, d, p, Q, x, Always(T, R[1]))
  BY <1>5
<1>7. Right(T, line, d, p, Left(work)) /\ Carries(code, m, d, p) /\ p[Len(d)].left = Always(T, R[1])
  BY <1>6, LeftIs DEF Grew
<1> HIDE DEF d
<1>8. code' = d /\ work[1].do # "func_end"
  BY <1>3 DEF d
<1>9. QED
  BY <1>1, <1>3, <1>7, <1>8, Done, Zenon

LEMMA DoneByTwo ==
  ASSUME NEW T, NEW inside, NEW m, NEW R, Known(T, inside, m, R), work # <<>>,
         ~FunctionTask(work[1]), work[1].do \notin Placers \cup {"func_end"},
         NEW x \in Instructions(T), x.op \notin FunctionOps \cup JumpOps \cup {"return"},
         NEW y \in Instructions(T), y.op \notin FunctionOps,
         y.op = "return" => m[Len(code)].of # -1,
         NEW mid, Does(T, x, m[Len(code)].left, mid), Does(T, y, mid, Always(T, R[1])),
         Leads(y, m, Len(code), mid),
         Emit(<<x, y>>, <<>>), UNCHANGED statics
  PROVE  Faithful(T, inside)'
<1> DEFINE d == code \o <<x, y>>
           Q == Placed(work)
           n == Len(code)
<1>1. /\ code' = d /\ work' = <<>> \o Tail(work) /\ line' = line
      /\ loop_start' = loop_start /\ loop_end' = loop_end
  BY DEF Emit, statics
<1>2. /\ work \in Seq(Tasks(T)) /\ code \in Seq(Instructions(T)) /\ Right(T, line, code, m, Q)
      /\ Spot(m[n], n) /\ Len(code) \in Nat
  BY KnownFront
<1>3. work' = Tail(work)
  BY <1>1, <1>2
<1> DEFINE I == Instructions(T)
           left == Always(T, R[1])
<1>4. /\ code \in Seq(I) /\ x \in I /\ y \in I /\ Right(T, line, code, m, Q)
      /\ Spot(m[Len(code)], Len(code)) /\ Does(T, y, mid, left) /\ Q \subseteq Q
  BY <1>2
<1> HIDE DEF I, left, Q
<1>5. PICK p : GrewTwo(T, line, code, m, d, p, Q, y, mid, left)
  BY <1>4, GrowingTwo
<1>6. Right(T, line, d, p, Left(work)) /\ Carries(code, m, d, p) /\ p[Len(d)].left = Always(T, R[1])
  BY <1>5, LeftIs DEF GrewTwo, Q, left
<1> HIDE DEF d
<1>7. work[1].do # "func_end"
  OBVIOUS
<1>8. QED
  BY <1>1, <1>3, <1>6, <1>7, Done, Zenon

----------------------------------------------------------------------------
(* What instructions do.                                                   *)
LEMMA DoesStatement ==
  ASSUME NEW T, NEW r, NEW n, NEW q, Statement(T, r, n, q), n.kind = "do", NEW x,
         x.op = "do", x.id = n.id
  PROVE  Does(T, x, Always(T, r), Always(T, q))
<1>1. r \in Rests(T) /\ r # <<>> /\ r[1] = n /\ Head(r) = r[1] /\ Tail(r) = q
  BY DEF Statement
<1>2. Event(r) = [is |-> "do", id |-> x.id]
  BY <1>1, EventIs
<1>3. Visible(r, TRUE) = q
  BY <1>1, VisibleIs
<1>4. QED
  BY <1>1, <1>2, <1>3 DEF Does

LEMMA DoesCondition ==
  ASSUME NEW T, NEW r, NEW n, NEW q, Statement(T, r, n, q), n.kind \in {"if", "loop"}, NEW x,
         x.op = "cond", x.id = n.id
  PROVE  Does(T, x, Always(T, r), After(T, r))
<1>1. r \in Rests(T) /\ r # <<>> /\ r[1] = n
  BY DEF Statement
<1>2. Event(r) = [is |-> "cond", id |-> x.id]
  BY <1>1, EventIs
<1>3. QED
  BY <1>1, <1>2 DEF Does

LEMMA DoesNothing ==
  ASSUME NEW T, NEW x, x.op \in {"nop", "halt", "func_set_args"}, NEW left
  PROVE  Does(T, x, left, left)
BY DEF Does

LEMMA DoesJump ==
  ASSUME NEW T, NEW x, NEW left, NEW next, x.op = "jump" \/ (x.op = "jump_if_false" /\ next = Given(left, TRUE))
  PROVE  Does(T, x, left, next)
BY DEF Does

IsPush(x) == x.op \in {"push_false", "push_null"}

Pushes(left, next) == \A b \in BOOLEAN : left[b] = next[FALSE]

LEMMA DoesPush ==
  ASSUME NEW T, NEW x, IsPush(x), NEW left, NEW next, Pushes(left, next)
  PROVE  Does(T, x, left, next)
BY DEF Does, Pushes, IsPush

LEMMA DoesReturn ==
  ASSUME NEW T, NEW x, NEW left, NEW next,
         \/ x.op = "return" /\ left = Always(T, <<>>)
         \/ x.op = "func_end" /\ left = Never
  PROVE  Does(T, x, left, next)
BY DEF Does

(* u is what a silent step makes of r, which is n followed by q. *)
Lasts(T, r, u) == Class(T, u) = Class(T, r) /\ Always(T, u) = Always(T, r)

Unfolds(n, q, u) ==
  /\ n.kind = "block"    => u = n.parts \o q
  /\ n.kind = "while"    => u = <<Node("loop", n.id, n.parts)>> \o q
  /\ n.kind = "for"      => u = <<n.parts[1], Node("loop", n.id, Tail(n.parts))>> \o q
  /\ n.kind = "latch"    => u = n.parts \o q
  /\ n.kind = "break"    => u = SubSeq(FromLatch(q), 3, Len(FromLatch(q)))
  /\ n.kind = "continue" => u = FromLatch(q)
  /\ n.kind = "return"   => u = <<>>
  /\ n.kind = "function" => u = q

LEMMA SilentIs ==
  ASSUME NEW T, NEW r, NEW n, NEW q, Statement(T, r, n, q), n.kind \notin Visibles
  PROVE  Lasts(T, r, Unfold(r)) /\ Unfolds(n, q, Unfold(r))
<1>1. r \in Rests(T) /\ r # <<>> /\ r[1] = n /\ Head(r) = r[1] /\ Tail(r) = q
  BY DEF Statement
<1>2. IsSilent(r)
  BY <1>1, EventIs
<1>3. Class(T, Unfold(r)) = Class(T, r)
  BY <1>1, <1>2, ClassUnfolds
<1>4. Always(T, Unfold(r)) = Always(T, r)
  BY <1>3 DEF Always
<1>5. /\ n.kind = "block"    => Unfold(r) = n.parts \o q
      /\ n.kind = "while"    => Unfold(r) = <<Node("loop", n.id, n.parts)>> \o q
      /\ n.kind = "for"      => Unfold(r) = <<n.parts[1], Node("loop", n.id, Tail(n.parts))>> \o q
      /\ n.kind = "latch"    => Unfold(r) = n.parts \o q
  BY <1>1, Cases
<1>6. /\ n.kind = "break"    => Unfold(r) = SubSeq(FromLatch(q), 3, Len(FromLatch(q)))
      /\ n.kind = "continue" => Unfold(r) = FromLatch(q)
      /\ n.kind = "return"   => Unfold(r) = <<>>
      /\ n.kind = "function" => Unfold(r) = q
  BY <1>1, Cases
<1>7. QED
  BY <1>3, <1>4, <1>5, <1>6 DEF Lasts, Unfolds

LEMMA LoopParts ==
  ASSUME NEW T, Trees(T), NEW n \in T, n.kind \in {"while", "for"}
  PROVE  /\ LoopOf(n) \in Nodes(T) /\ LoopOf(n).kind = "loop" /\ LoopOf(n).id = n.id
         /\ LoopOf(n).parts \in Seq(T) /\ LoopOf(n).parts # <<>> /\ LoopOf(n).parts[1] \in T
         /\ LatchOf(n) \in Nodes(T) /\ LatchOf(n).kind = "latch"
         /\ LatchOf(n).parts = Tail(LoopOf(n).parts) /\ Tail(LoopOf(n).parts) \in Seq(T)
         /\ n.kind = "while" => LoopOf(n) = Node("loop", n.id, n.parts)
         /\ n.kind = "for" => LoopOf(n) = Node("loop", n.id, Tail(n.parts))
<1> DEFINE ss == IF n.kind = "for" THEN Tail(n.parts) ELSE n.parts
<1>1. /\ n.parts \in Seq(T) /\ n.parts # <<>> /\ Tail(n.parts) \in Seq(T)
      /\ n.kind = "for" => Tail(n.parts) # <<>>
  BY PartsOf
<1>2. ss \in Seq(T) /\ ss # <<>> /\ LoopOf(n) = Node("loop", n.id, ss)
  BY <1>1 DEF LoopOf
<1>3. /\ n.kind = "while" => LoopOf(n) = Node("loop", n.id, n.parts)
      /\ n.kind = "for" => LoopOf(n) = Node("loop", n.id, Tail(n.parts))
  BY DEF LoopOf
<1> HIDE DEF ss
<1>4. LoopOf(n).kind = "loop" /\ LoopOf(n).id = n.id /\ LoopOf(n).parts = ss
  BY <1>2 DEF Node
<1>5. ss[1] \in T /\ Tail(ss) \in Seq(T)
  BY <1>2, FirstOf
<1>6. LatchOf(n) = Node("latch", NoName, Tail(ss)) /\ LatchOf(n).kind = "latch" /\ LatchOf(n).parts = Tail(ss)
  BY <1>4 DEF LatchOf, Node
<1>7. LoopOf(n) \in Nodes(T) /\ LatchOf(n) \in Nodes(T)
  BY <1>2, <1>5, <1>6, LoopNodes
<1>8. QED
  BY <1>2, <1>3, <1>4, <1>5, <1>6, <1>7

LEMMA Behind ==
  ASSUME NEW N, NEW P \in Seq(N), NEW z \in Seq(N)
  PROVE  /\ Len(P) + 1 + Len(z) - 1 = Len(P \o z) /\ SubSeq(P \o z, Len(P) + 1, Len(P \o z)) = z
         /\ \A j \in 1 .. Len(P) : (P \o z)[j] = P[j]
         /\ z # <<>> => (P \o z)[Len(P) + 1] = z[1] /\ Len(P) + 1 \in DOMAIN (P \o z)
<1>1. /\ Len(P \o z) = Len(P) + Len(z) /\ Len(P) \in Nat /\ Len(z) \in Nat
      /\ \A j \in 1 .. Len(P) : (P \o z)[j] = P[j]
      /\ \A j \in 1 .. Len(z) : (P \o z)[Len(P) + j] = z[j]
      /\ P \o z \in Seq(N)
  OBVIOUS
<1>2. SubSeq(P \o z, Len(P) + 1, Len(P \o z)) = z
  <2> DEFINE v == P \o z
             u == SubSeq(v, Len(P) + 1, Len(v))
  <2>1. Len(u) = Len(z) /\ u \in Seq(N)
    BY <1>1
  <2>2. \A j \in 1 .. Len(z) : u[j] = z[j]
    BY <1>1
  <2> HIDE DEF u
  <2>3. u = z
    BY <2>1, <2>2
  <2>4. QED
    BY <2>3 DEF u
<1>3. QED
  BY <1>1, <1>2

LEMMA LatchFound ==
  ASSUME NEW T, Trees(T), NEW n \in T, n.kind \in {"while", "for"}, NEW q \in Rests(T), NEW r,
         Latched(T, r, n, q)
  PROVE  /\ FromLatch(r) = <<LatchOf(n), LoopOf(n)>> \o q
         /\ SubSeq(FromLatch(r), 3, Len(FromLatch(r))) = q
<1> DEFINE N == Nodes(T)
           a == LatchOf(n)
           b == LoopOf(n)
           z == <<a, b>> \o q
<1>1. a \in N /\ b \in N /\ a.kind = "latch" /\ q \in Seq(N)
  BY LoopParts DEF Rests
<1>2. PICK P \in Seq(T) : r = P \o z
  BY DEF Latched
<1>3. T \subseteq N /\ \A x \in T : x.kind # "latch"
  BY DEF Nodes, Trees, WellFormed, Kinds
<1> HIDE DEF N, a, b
<1>4. /\ z \in Seq(N) /\ z # <<>> /\ z[1] = a /\ <<a, b>> \in Seq(N) /\ Len(<<a, b>>) = 2
      /\ SubSeq(z, 3, Len(z)) = q
  <2>1. <<a, b>> \in Seq(N) /\ Len(<<a, b>>) = 2
    BY <1>1
  <2>2. z \in Seq(N) /\ z # <<>> /\ z[1] = a
    BY <1>1
  <2>3. SubSeq(z, Len(<<a, b>>) + 1, Len(z)) = q
    BY <1>1, <2>1, Behind
  <2>4. QED
    BY <2>1, <2>2, <2>3
<1> HIDE DEF z
<1>5. /\ P \in Seq(N) /\ Len(P) \in Nat
      /\ SubSeq(r, Len(P) + 1, Len(r)) = z
      /\ \A j \in 1 .. Len(P) : r[j] = P[j]
      /\ r[Len(P) + 1] = a /\ Len(P) + 1 \in DOMAIN r
  <2>1. P \in Seq(N) /\ Len(P) \in Nat
    BY <1>3
  <2>2. /\ SubSeq(P \o z, Len(P) + 1, Len(P \o z)) = z /\ \A j \in 1 .. Len(P) : (P \o z)[j] = P[j]
        /\ (P \o z)[Len(P) + 1] = z[1] /\ Len(P) + 1 \in DOMAIN (P \o z)
    BY <1>4, <2>1, Behind
  <2>3. QED
    BY <1>2, <1>4, <2>1, <2>2
<1>6. \A j \in 1 .. Len(P) : r[j].kind # "latch"
  BY <1>3, <1>5
<1> DEFINE First(k) == r[k].kind = "latch" /\ \A j \in 1 .. k - 1 : r[j].kind # "latch"
           h == CHOOSE k \in DOMAIN r : First(k)
<1>7. First(Len(P) + 1)
  BY <1>1, <1>5, <1>6
<1>8. DOMAIN r \subseteq Nat \ {0}
  <2>1. r \in Seq(N)
    BY <1>2, <1>4, <1>5
  <2>2. QED
    BY <2>1
<1>9. ASSUME NEW k \in DOMAIN r, First(k) PROVE k = Len(P) + 1
  BY <1>1, <1>5, <1>6, <1>8, <1>9
<1>10. h \in DOMAIN r /\ First(h)
  BY <1>5, <1>7, Zenon
<1>11. h = Len(P) + 1
  BY <1>9, <1>10, Zenon
<1>12. FromLatch(r) = SubSeq(r, h, Len(r))
  BY <1>5, <1>7, Zenon DEF FromLatch
<1>13. FromLatch(r) = z
  BY <1>5, <1>11, <1>12
<1>14. QED
  BY <1>4, <1>13 DEF z, a, b

LEMMA FaithDo ==
  ASSUME NEW T, NEW inside, NEW m, NEW R, Known(T, inside, m, R), GenDo
  PROVE  Faithful(T, inside)'
<1> DEFINE x == Named("do", this.id)
<1>1. Doing("do") /\ Emit(<<x>>, <<>>) /\ UNCHANGED statics
  BY DEF GenDo
<1>2. /\ work # <<>> /\ this.kind = "do" /\ work[1].do = "stmt"
      /\ Statement(T, <<this>> \o R[1], this, R[1])
      /\ m[Len(code)].left = Always(T, <<this>> \o R[1])
  BY <1>1, AtStatement
<1>3. x \in Instructions(T) /\ x.op = "do" /\ x.id = this.id
  <2>1. this \in T
    BY <1>2, KnownFront
  <2>2. QED
    BY <2>1, InstructionsType DEF Others, Named
<1> HIDE DEF x
<1>4. Does(T, x, m[Len(code)].left, Always(T, R[1]))
  BY <1>2, <1>3, DoesStatement
<1>5. x.op \notin FunctionOps \cup {"return"} /\ Leads(x, m, Len(code), m[Len(code)].left)
  BY <1>3 DEF FunctionOps, Leads, JumpOps
<1>6. ~FunctionTask(work[1]) /\ work[1].do \notin Placers \cup {"func_end"}
  BY <1>2 DEF FunctionTask, Placers, this
<1>7. QED
  BY <1>1, <1>2, <1>3, <1>4, <1>5, <1>6, DoneByOne, Zenon

LEMMA FaithNothing ==
  ASSUME NEW T, NEW inside, NEW m, NEW R, Known(T, inside, m, R), GenEnd \/ GenHalt
  PROVE  Faithful(T, inside)'
<1>1. PICK op \in {"nop", "halt"} : Emit(<<Ins(op)>>, <<>>)
  BY DEF GenEnd, GenHalt
<1>2. work # <<>> /\ work[1].do \in {"end", "halt"} /\ UNCHANGED statics
  BY DEF GenEnd, GenHalt
<1> DEFINE x == Ins(op)
<1>3. x \in Instructions(T) /\ x.op = op
  BY InstructionsType DEF Others
<1> HIDE DEF x
<1>4. m[Len(code)].left = Always(T, R[1])
  <2>1. Start(work[1], R[1]) = R[1]
    BY <1>2 DEF Start
  <2>2. QED
    BY <1>2, <2>1, KnownFront
<1>5. Does(T, x, m[Len(code)].left, Always(T, R[1]))
  BY <1>3, <1>4, DoesNothing
<1>6. x.op \notin FunctionOps \cup {"return"} /\ Leads(x, m, Len(code), m[Len(code)].left)
  BY <1>3 DEF FunctionOps, Leads, JumpOps
<1>7. ~FunctionTask(work[1]) /\ work[1].do \notin Placers \cup {"func_end"}
  BY <1>2 DEF FunctionTask, Placers
<1>8. QED
  BY <1>1, <1>2, <1>3, <1>5, <1>6, <1>7, DoneByOne, Zenon DEF x

(* A return leads to the end at once. *)
LEMMA ReturnsNow ==
  ASSUME NEW T, NEW r, NEW n, NEW q, Statement(T, r, n, q), n.kind = "return"
  PROVE  Always(T, r) = Always(T, <<>>)
<1>1. n.kind \notin Visibles
  BY DEF Visibles
<1>2. PICK u : u = Unfold(r)
  OBVIOUS
<1>3. Lasts(T, r, u) /\ Unfolds(n, q, u)
  BY <1>1, <1>2, SilentIs, Zenon
<1>4. Always(T, u) = Always(T, r) /\ u = <<>>
  BY <1>3 DEF Lasts, Unfolds
<1>5. QED
  BY <1>4

LEMMA FaithReturn ==
  ASSUME NEW T, NEW inside, NEW m, NEW R, Known(T, inside, m, R), GenReturn
  PROVE  Faithful(T, inside)'
<1> DEFINE x == Ins("push_null")
           y == Ins("return")
           mid == Always(T, <<>>)
<1>1. Doing("return") /\ Emit(<<x, y>>, <<>>) /\ UNCHANGED statics
  BY DEF GenReturn
<1>2. /\ work # <<>> /\ this.kind = "return" /\ work[1].do = "stmt"
      /\ Statement(T, <<this>> \o R[1], this, R[1])
      /\ m[Len(code)].left = Always(T, <<this>> \o R[1])
  BY <1>1, AtStatement
<1>3. x \in Instructions(T) /\ x.op = "push_null" /\ y \in Instructions(T) /\ y.op = "return"
  BY InstructionsType DEF Others
<1> HIDE DEF x, y
<1>4. m[Len(code)].left = mid
  BY <1>2, ReturnsNow
<1>5. Does(T, x, m[Len(code)].left, mid)
  <2>1. \A b \in BOOLEAN : mid[b] = mid[FALSE]
    BY DEF Always
  <2> HIDE DEF mid
  <2>2. Pushes(m[Len(code)].left, mid)
    BY <1>4, <2>1 DEF Pushes
  <2>3. IsPush(x)
    BY <1>3 DEF IsPush
  <2>4. QED
    BY <2>2, <2>3, DoesPush, Zenon
<1>6. Does(T, y, mid, Always(T, R[1]))
  BY <1>3, DoesReturn
<1>7. /\ x.op \notin FunctionOps \cup JumpOps \cup {"return"} /\ y.op \notin FunctionOps
      /\ Leads(y, m, Len(code), mid)
  BY <1>3 DEF FunctionOps, Leads, JumpOps
<1>8. ~FunctionTask(work[1]) /\ work[1].do \notin Placers \cup {"func_end"}
  BY <1>2 DEF FunctionTask, Placers, this
<1>9. m[Len(code)].of # -1
  <2>1. /\ Each(T, inside, line, code, m, work[1], R[1], loop_start, loop_end)
        /\ this \in T /\ Insides(inside) /\ DOMAIN inside = T
    BY <1>2, KnownFront DEF Known
  <2>2. ~Without(inside, work[1], {"function", "return"})
    BY <1>2, <2>1, NoFunctionHere DEF this
  <2>3. QED
    BY <1>8, <2>1, <2>2 DEF Each
<1> HIDE DEF mid
<1>10. QED
  BY <1>1, <1>2, <1>3, <1>5, <1>6, <1>7, <1>8, <1>9, DoneByTwo, Zenon

(* The loop that a break or continue is in. *)
InTheLoop(T, inside, m, R, k) ==
  /\ work[k].node \in T /\ work[k].node.kind \in {"while", "for"} /\ R[k] \in Rests(T)
  /\ Latched(T, R[1], work[k].node, R[k])
  /\ LoopAt(T, m, Len(code), work[k], R[k], loop_start, loop_end)
  /\ Aim(T, code, m, work[k], R[k]) /\ code[work[k].at + 1].op \in JumpOps
  /\ work[k].node.kind = "for" => Without(inside, work[1], {"continue"})

LEMMA LoopAround ==
  ASSUME NEW T, NEW inside, NEW m, NEW R, Known(T, inside, m, R), loop,
         NEW kind \in {"break", "continue"}, Doing(kind)
  PROVE  \E k \in 2 .. Len(work) : work[k].do = "loop" /\ InTheLoop(T, inside, m, R, k)
<1>1. work # <<>> /\ ~Assigns(work[1]) /\ work[1].do = "stmt"
  BY Doings
<1>2. Looping(work, loop, loop_start, loop_end, Len(code)) /\ Pending(T, work, code)
  BY <1>1, Foremost DEF Known
<1>3. Len(work) \in Nat \ {0} /\ Len(R) = Len(work)
  BY <1>1, KnownFront
<1>4. ~Has(work, "for")
  BY <1>1, <1>2 DEF Looping, ForFirst, Has
<1>5. PICK k \in 1 .. Len(work) : work[k].do = "loop"
  BY <1>2, <1>4 DEF Looping, Has
<1>6. k \in 2 .. Len(work) /\ 1 \in 1 .. k - 1
  BY <1>1, <1>3, <1>5
<1>7. Pair(T, inside, work[1], R[1], work[k], R[k])
  BY <1>6 DEF Known, Faith, AllPairs
<1>8. Each(T, inside, line, code, m, work[k], R[k], loop_start, loop_end)
  BY DEF Known, Faith, AllEach
<1>9. work[k].node \in T /\ R[k] \in Rests(T)
  <2>1. work[k] \in Tasks(T)
    BY <1>2 DEF Pending
  <2>2. R \in Seq(Rests(T))
    BY DEF Known, Faith, Threads
  <2>3. R[k] \in Rests(T)
    BY <1>3, <2>2
  <2>4. QED
    BY <2>1, <2>3 DEF Tasks
<1>10. Aim(T, code, m, work[k], R[k]) /\ LoopAt(T, m, Len(code), work[k], R[k], loop_start, loop_end)
  BY <1>5, <1>8 DEF Each, Placers
<1>11. code[work[k].at + 1].op \in JumpOps
  <2>1. work[k].at \in Placed(work) /\ Backfilled(code, Placed(work))
    BY <1>2, <1>5 DEF Placed, Open, Placers, Pending
  <2>2. QED
    BY <2>1 DEF Backfilled, Jumps
<1>12. InTheLoop(T, inside, m, R, k)
  BY <1>1, <1>5, <1>7, <1>9, <1>10, <1>11 DEF InTheLoop, Pair, LoopAt
<1>13. QED
  BY <1>5, <1>6, <1>12

TwoFirst(a, b, q) == <<a>> \o (<<b>> \o q) = <<a, b>> \o q

LEMMA TwoBefore ==
  ASSUME NEW N, NEW a \in N, NEW b \in N, NEW q \in Seq(N)
  PROVE  TwoFirst(a, b, q)
<1> DEFINE u == <<b>> \o q
           v == <<a>> \o u
           z == <<a, b>> \o q
<1>1. u \in Seq(N) /\ Len(u) = Len(q) + 1 /\ u[1] = b /\ Len(q) \in Nat
      /\ \A j \in 1 .. Len(q) : u[j + 1] = q[j]
  OBVIOUS
<1> HIDE DEF u
<1>2. v \in Seq(N) /\ Len(v) = Len(u) + 1 /\ v[1] = a /\ \A j \in 1 .. Len(u) : v[j + 1] = u[j]
  BY <1>1
<1>3. z \in Seq(N) /\ Len(z) = Len(q) + 2 /\ z[1] = a /\ z[2] = b /\ \A j \in 1 .. Len(q) : z[j + 2] = q[j]
  OBVIOUS
<1> HIDE DEF v, z
<1>4. \A j \in 3 .. Len(z) : j - 2 \in 1 .. Len(q) /\ z[j] = q[j - 2]
  <2> TAKE j \in 3 .. Len(z)
  <2>1. j - 2 \in 1 .. Len(q) /\ (j - 2) + 2 = j
    BY <1>1, <1>3
  <2>2. QED
    BY <1>3, <2>1
<1>5. \A j \in 3 .. Len(z) : v[j] = q[j - 2]
  <2> TAKE j \in 3 .. Len(z)
  <2>1. j - 1 \in 1 .. Len(u) /\ (j - 1) + 1 = j /\ j - 2 \in 1 .. Len(q) /\ (j - 2) + 1 = j - 1
    BY <1>1, <1>3
  <2>2. v[j] = u[j - 1] /\ u[j - 1] = q[j - 2]
    BY <1>1, <1>2, <2>1
  <2>3. QED
    BY <2>2
<1>6. v[2] = b
  <2>1. 1 \in 1 .. Len(u)
    BY <1>1
  <2>2. v[1 + 1] = u[1]
    BY <1>2, <2>1
  <2>3. QED
    BY <1>1, <2>2
<1>7. \A j \in 1 .. Len(z) : v[j] = z[j]
  <2> TAKE j \in 1 .. Len(z)
  <2>1. j = 1 \/ j = 2 \/ j \in 3 .. Len(z)
    BY <1>1, <1>3
  <2>2. QED
    BY <1>2, <1>3, <1>4, <1>5, <1>6, <2>1
<1>8. Len(v) = Len(z)
  BY <1>1, <1>2, <1>3
<1>9. v = z
  BY <1>2, <1>3, <1>7, <1>8
<1>10. QED
  BY <1>9 DEF u, v, z, TwoFirst

LEMMA LatchLeads ==
  ASSUME NEW T, Trees(T), NEW n \in T, n.kind \in {"while", "for"}, NEW q \in Rests(T)
  PROVE  /\ <<LoopOf(n)>> \o q \in Rests(T) /\ <<LatchOf(n), LoopOf(n)>> \o q \in Rests(T)
         /\ Class(T, <<LatchOf(n), LoopOf(n)>> \o q) = Class(T, Tail(LoopOf(n).parts) \o (<<LoopOf(n)>> \o q))
<1> DEFINE a == LatchOf(n)
           b == LoopOf(n)
           N == Nodes(T)
<1>1. a \in N /\ b \in N /\ a.kind = "latch" /\ a.parts = Tail(b.parts)
  BY LoopParts
<1> HIDE DEF a, b
<1>2. <<a>> \o (<<b>> \o q) = <<a, b>> \o q
  <2>1. q \in Seq(N) /\ a \in N /\ b \in N
    BY <1>1 DEF Rests
  <2> HIDE DEF N
  <2>2. TwoFirst(a, b, q)
    BY <2>1, TwoBefore, Zenon
  <2>3. QED
    BY <2>2 DEF TwoFirst
<1>3. <<b>> \o q \in Rests(T)
  BY <1>1, OneBefore
<1> DEFINE v == <<b>> \o q
<1> HIDE DEF v
<1>4. v \in Rests(T)
  BY <1>3 DEF v
<1>5. /\ <<a>> \o v \in Rests(T) /\ (<<a>> \o v) # <<>> /\ (<<a>> \o v)[1] = a
      /\ Head(<<a>> \o v) = a /\ Tail(<<a>> \o v) = v
  BY <1>1, <1>4, OneBefore
<1>6. Statement(T, <<a>> \o v, a, v)
  BY <1>5, Zenon DEF Statement
<1>7. Class(T, Unfold(<<a>> \o v)) = Class(T, <<a>> \o v) /\ Unfold(<<a>> \o v) = a.parts \o v
  <2>1. a.kind = "latch" /\ a.kind \notin Visibles
    BY <1>1 DEF Visibles
  <2>2. Lasts(T, <<a>> \o v, Unfold(<<a>> \o v)) /\ Unfolds(a, v, Unfold(<<a>> \o v))
    BY <1>6, <2>1, SilentIs, Zenon
  <2>3. QED
    BY <2>1, <2>2, Zenon DEF Lasts, Unfolds
<1>8. QED
  BY <1>1, <1>2, <1>3, <1>5, <1>7 DEF v, a, b

LEMMA FaithBreak ==
  ASSUME NEW T, NEW inside, NEW m, NEW R, Known(T, inside, m, R), GenBreak
  PROVE  Faithful(T, inside)'
<1> DEFINE x == Ins("push_false")
           y == Jump("jump", loop_end)
           n == Len(code)
           mid == m[loop_end].left
<1>1. Doing("break") /\ loop /\ Emit(<<x, y>>, <<>>) /\ UNCHANGED statics
  BY DEF GenBreak
<1>2. /\ work # <<>> /\ this.kind = "break" /\ work[1].do = "stmt"
      /\ Statement(T, <<this>> \o R[1], this, R[1])
      /\ m[n].left = Always(T, <<this>> \o R[1])
  BY <1>1, AtStatement
<1>3. PICK k \in 2 .. Len(work) : work[k].do = "loop" /\ InTheLoop(T, inside, m, R, k)
  BY <1>1, LoopAround
<1>4. /\ work[k].node \in T /\ work[k].node.kind \in {"while", "for"} /\ R[k] \in Rests(T)
      /\ Latched(T, R[1], work[k].node, R[k])
      /\ loop_end = work[k].at /\ Aim(T, code, m, work[k], R[k]) /\ code[work[k].at + 1].op \in JumpOps
  BY <1>3 DEF InTheLoop, LoopAt
<1>5. n \in Nat /\ Trees(T)
  BY <1>2, KnownFront DEF Known
<1>6. /\ loop_end \in 0 .. n - 1 /\ m[loop_end].of = m[n].of /\ Ready(m[loop_end], loop_end)
      /\ Ready(m[n], n) /\ Target(code[loop_end + 1], mid) = Always(T, R[k])
  BY <1>3, <1>4 DEF Aim, Goal
<1>7. mid[FALSE] = Class(T, R[k])
  <2>1. Target(code[loop_end + 1], mid)[FALSE] = Class(T, R[k])
    BY <1>6 DEF Always
  <2>2. QED
    BY <2>1 DEF Target, Given
<1>8. m[n].left = Always(T, R[k])
  <2>1. SubSeq(FromLatch(R[1]), 3, Len(FromLatch(R[1]))) = R[k]
    <3> DEFINE h == work[k].node
               q == R[k]
               r == R[1]
    <3>1. h \in T /\ h.kind \in {"while", "for"} /\ q \in Rests(T) /\ Latched(T, r, h, q) /\ Trees(T)
      BY <1>4, <1>5
    <3> HIDE DEF h, q, r
    <3>2. SubSeq(FromLatch(r), 3, Len(FromLatch(r))) = q
      BY <3>1, LatchFound
    <3>3. QED
      BY <3>2 DEF q, r
  <2>2. Always(T, Unfold(<<this>> \o R[1])) = Always(T, <<this>> \o R[1])
        /\ Unfold(<<this>> \o R[1]) = R[k]
    <3>1. this.kind = "break" /\ this.kind \notin Visibles /\ Statement(T, <<this>> \o R[1], this, R[1])
      BY <1>2 DEF Visibles
    <3>2. Lasts(T, <<this>> \o R[1], Unfold(<<this>> \o R[1])) /\ Unfolds(this, R[1], Unfold(<<this>> \o R[1]))
      BY <3>1, SilentIs, Zenon
    <3>4. /\ Always(T, Unfold(<<this>> \o R[1])) = Always(T, <<this>> \o R[1])
          /\ Unfold(<<this>> \o R[1]) = SubSeq(FromLatch(R[1]), 3, Len(FromLatch(R[1])))
      BY <3>1, <3>2, Zenon DEF Lasts, Unfolds
    <3>3. QED
      BY <2>1, <3>4, Zenon
  <2>3. QED
    BY <1>2, <2>2
<1>9. loop_end \in Int
  BY <1>5, <1>6
<1>10. /\ x \in Instructions(T) /\ x.op = "push_false"
       /\ y \in Instructions(T) /\ y.op = "jump" /\ y.to = loop_end
  BY <1>9, InstructionsType DEF Others, JumpOps
<1> HIDE DEF x, y
<1>11. Does(T, x, m[n].left, mid)
  <2>1. Pushes(m[n].left, mid)
    BY <1>7, <1>8 DEF Always, Pushes
  <2>2. IsPush(x)
    BY <1>10 DEF IsPush
  <2> HIDE DEF mid
  <2>3. QED
    BY <2>1, <2>2, DoesPush, Zenon
<1>12. Does(T, y, mid, Always(T, R[1]))
  BY <1>10, DoesJump
<1>13. Leads(y, m, n, mid)
  <2>1. loop_end \in 0 .. n
    BY <1>5, <1>6
  <2>2. Target(y, mid) = mid
    BY <1>10 DEF Target
  <2>3. QED
    BY <1>6, <1>10, <2>1, <2>2 DEF Leads
<1>14. x.op \notin FunctionOps \cup JumpOps \cup {"return"} /\ y.op \notin FunctionOps /\ y.op # "return"
  BY <1>10 DEF FunctionOps, JumpOps
<1>15. ~FunctionTask(work[1]) /\ work[1].do \notin Placers \cup {"func_end"}
  BY <1>2 DEF FunctionTask, Placers, this
<1> HIDE DEF mid
<1>16. QED
  BY <1>1, <1>2, <1>10, <1>11, <1>12, <1>13, <1>14, <1>15, DoneByTwo, Zenon

LEMMA FaithContinue ==
  ASSUME NEW T, NEW inside, NEW m, NEW R, Known(T, inside, m, R), GenContinue
  PROVE  Faithful(T, inside)'
<1> DEFINE y == Jump("jump", loop_start)
           n == Len(code)
<1>1. Doing("continue") /\ loop /\ Emit(<<y>>, <<>>) /\ UNCHANGED statics
  BY DEF GenContinue
<1>2. /\ work # <<>> /\ this.kind = "continue" /\ work[1].do = "stmt"
      /\ Statement(T, <<this>> \o R[1], this, R[1])
      /\ m[n].left = Always(T, <<this>> \o R[1])
  BY <1>1, AtStatement
<1>3. PICK k \in 2 .. Len(work) : work[k].do = "loop" /\ InTheLoop(T, inside, m, R, k)
  BY <1>1, LoopAround
<1> DEFINE h == work[k].node
<1>4. /\ h \in T /\ h.kind \in {"while", "for"} /\ R[k] \in Rests(T) /\ Latched(T, R[1], h, R[k])
      /\ loop_start \in 0 .. n /\ m[loop_start].of = m[n].of /\ Ready(m[loop_start], loop_start)
      /\ m[loop_start].left = Always(T, <<LoopOf(h)>> \o R[k]) /\ Ready(m[n], n)
      /\ h.kind = "for" => Without(inside, work[1], {"continue"})
  BY <1>3 DEF InTheLoop, LoopAt, Aim
<1>5. n \in Nat /\ Trees(T) /\ this \in T /\ Insides(inside) /\ DOMAIN inside = T
  BY <1>2, KnownFront DEF Known
<1>6. h.kind = "while"
  <2>1. ~Without(inside, work[1], {"continue"})
    BY <1>2, <1>5, NoFunctionHere DEF this
  <2>2. QED
    BY <1>4, <2>1
<1>7. m[n].left = m[loop_start].left
  <2> HIDE DEF h
  <2>1. FromLatch(R[1]) = <<LatchOf(h), LoopOf(h)>> \o R[k]
    BY <1>4, <1>5, LatchFound
  <2>2. Class(T, <<LatchOf(h), LoopOf(h)>> \o R[k]) = Class(T, Tail(LoopOf(h).parts) \o (<<LoopOf(h)>> \o R[k]))
        /\ <<LoopOf(h)>> \o R[k] \in Rests(T)
    BY <1>4, <1>5, LatchLeads
  <2>3. Tail(LoopOf(h).parts) = <<>>
    <3>1. LoopOf(h).parts = h.parts
      BY <1>4, <1>5, <1>6, LoopParts DEF Node
    <3>2. Tail(h.parts) = <<>>
      BY <1>4, <1>5, <1>6, PartsOf
    <3>3. QED
      BY <3>1, <3>2
  <2>4. <<>> \o (<<LoopOf(h)>> \o R[k]) = <<LoopOf(h)>> \o R[k]
    <3> DEFINE N == Nodes(T)
               v == <<LoopOf(h)>> \o R[k]
    <3>1. v \in Seq(N)
      BY <2>2 DEF Rests
    <3> HIDE DEF N, v
    <3>2. <<>> \o v = v
      BY <3>1
    <3>3. QED
      BY <3>2 DEF v
  <2>5. Class(T, Unfold(<<this>> \o R[1])) = Class(T, <<this>> \o R[1])
        /\ Unfold(<<this>> \o R[1]) = FromLatch(R[1])
    <3>1. this.kind = "continue" /\ this.kind \notin Visibles /\ Statement(T, <<this>> \o R[1], this, R[1])
      BY <1>2 DEF Visibles
    <3>2. Lasts(T, <<this>> \o R[1], Unfold(<<this>> \o R[1])) /\ Unfolds(this, R[1], Unfold(<<this>> \o R[1]))
      BY <3>1, SilentIs, Zenon
    <3>3. QED
      BY <3>1, <3>2, Zenon DEF Lasts, Unfolds
  <2>6. Class(T, <<this>> \o R[1]) = Class(T, <<LoopOf(h)>> \o R[k])
    BY <2>1, <2>2, <2>3, <2>4, <2>5
  <2>7. QED
    BY <1>2, <1>4, <2>6 DEF Always
<1>8. loop_start \in Int
  BY <1>5, <1>4
<1>9. y \in Instructions(T) /\ y.op = "jump" /\ y.to = loop_start
  BY <1>8, InstructionsType DEF Others, JumpOps
<1> HIDE DEF y
<1>10. Does(T, y, m[n].left, Always(T, R[1]))
  BY <1>9, DoesJump
<1>11. Leads(y, m, n, m[n].left)
  <2>1. Target(y, m[n].left) = m[n].left
    BY <1>9 DEF Target
  <2>2. QED
    BY <1>4, <1>7, <1>9, <2>1 DEF Leads
<1>12. y.op \notin FunctionOps \cup {"return"}
  BY <1>9 DEF FunctionOps
<1>13. ~FunctionTask(work[1]) /\ work[1].do \notin Placers \cup {"func_end"}
  BY <1>2 DEF FunctionTask, Placers, this
<1>14. QED
  BY <1>1, <1>2, <1>9, <1>10, <1>11, <1>12, <1>13, DoneByOne, Zenon

LEMMA Rightly ==
  ASSUME NEW T, NEW l, NEW c, NEW m, NEW P, Right(T, l, c, m, P), NEW Q, P \subseteq Q
  PROVE  Right(T, l, c, m, Q)
BY DEF Right

LEMMA OthersLeft ==
  ASSUME NEW w
  PROVE  Placed(w) \ {w[1].at} \subseteq Left(w)
BY DEF Placed, Left

LEMMA AimNow ==
  ASSUME NEW T, NEW inside, NEW m, NEW R, Known(T, inside, m, R), work # <<>>, work[1].do \in Placers
  PROVE  /\ Aim(T, code, m, work[1], R[1]) /\ code[work[1].at + 1].op \in JumpOps
         /\ ~FunctionTask(work[1]) /\ work[1].do # "func_end"
         /\ work[1].at \in 0 .. Len(code) - 1
<1>1. Each(T, inside, line, code, m, work[1], R[1], loop_start, loop_end)
  BY KnownFront
<1>2. Pending(T, work, code) /\ Len(work) \in Nat \ {0}
  BY Foremost DEF Known
<1>3. work[1].at \in Placed(work) /\ Backfilled(code, Placed(work))
  BY <1>2 DEF Placed, Open, Pending
<1>4. code[work[1].at + 1].op \in JumpOps /\ work[1].at \in 0 .. Len(code) - 1
  BY <1>3 DEF Backfilled, Jumps
<1>5. QED
  BY <1>1, <1>4 DEF Each, FunctionTask, Placers

LEMMA EmptyFirst ==
  ASSUME NEW T, NEW r \in Rests(T)
  PROVE  <<>> \o r = r
<1> DEFINE N == Nodes(T)
<1>1. r \in Seq(N)
  BY DEF Rests
<1> HIDE DEF N
<1>2. QED
  BY <1>1

(* The jump of the construct is backfilled, and nothing more is made. *)
LEMMA PatchedOnly ==
  ASSUME NEW T, NEW inside, NEW m, NEW R, Known(T, inside, m, R), work # <<>>,
         work[1].do \in {"then", "else"}, Goal(work[1], R[1]) = R[1],
         line' = line, code' = patch_jump(code, work[1].at), work' = Tail(work), UNCHANGED statics
  PROVE  Faithful(T, inside)'
<1> DEFINE d == patch_jump(code, work[1].at)
           P == Placed(work) \ {work[1].at}
<1>1. /\ Aim(T, code, m, work[1], R[1]) /\ code[work[1].at + 1].op \in JumpOps
      /\ ~FunctionTask(work[1]) /\ work[1].do # "func_end"
  BY AimNow DEF Placers
<1>2. /\ code \in Seq(Instructions(T)) /\ Right(T, line, code, m, Placed(work))
      /\ m[Len(code)].left = Always(T, Start(work[1], R[1]))
  BY KnownFront
<1>3. Start(work[1], R[1]) = R[1]
  BY DEF Start
<1>4. Right(T, line, d, m, P) /\ Carries(code, m, d, m) /\ Len(d) = Len(code)
  <2>1. Mends(T, code, m, work[1], R[1])
    BY <1>1, <1>2, <1>3 DEF Mends
  <2>2. Mended(T, line, code, m, Placed(work), work[1].at, d)
    BY <1>2, <2>1, PatchingUp
  <2>3. QED
    BY <2>2 DEF Mended
<1>5. P \subseteq Left(work)
  BY OthersLeft
<1> HIDE DEF d, P
<1>6. Right(T, line, d, m, Left(work)) /\ m[Len(d)].left = Always(T, R[1])
  BY <1>2, <1>3, <1>4, <1>5, Rightly
<1>7. loop_start' = loop_start /\ loop_end' = loop_end /\ code' = d
  BY DEF statics, d
<1>8. QED
  BY <1>1, <1>4, <1>6, <1>7, Done, Zenon

LEMMA FaithElse ==
  ASSUME NEW T, NEW inside, NEW m, NEW R, Known(T, inside, m, R), GenElse
  PROVE  Faithful(T, inside)'
<1>1. /\ work # <<>> /\ work[1].do = "else" /\ line' = line /\ code' = patch_jump(code, work[1].at)
      /\ work' = Tail(work) /\ UNCHANGED statics
  BY DEF GenElse
<1>2. Goal(work[1], R[1]) = R[1] /\ work[1].do \in {"then", "else"}
  BY <1>1 DEF Goal
<1>3. QED
  BY <1>1, <1>2, PatchedOnly, Zenon

LEMMA FaithLoop ==
  ASSUME NEW T, NEW inside, NEW m, NEW R, Known(T, inside, m, R), GenLoop
  PROVE  Faithful(T, inside)'
<1> DEFINE x == Jump("jump", loop_start)
           c == Append(code, x)
           at == work[1].at
           d == patch_jump(c, at)
           n == Len(code)
<1>1. /\ work # <<>> /\ work[1].do = "loop" /\ line' = line /\ code' = d /\ work' = Tail(work)
      /\ loop_start' = loop_start /\ loop_end' = loop_end
  BY DEF GenLoop
<1>2. /\ Aim(T, code, m, work[1], R[1]) /\ code[at + 1].op \in JumpOps
      /\ ~FunctionTask(work[1]) /\ work[1].do # "func_end" /\ at \in 0 .. n - 1
  BY <1>1, AimNow DEF Placers
<1>3. /\ code \in Seq(Instructions(T)) /\ Right(T, line, code, m, Placed(work)) /\ n \in Nat
      /\ m[n].left = Always(T, Start(work[1], R[1])) /\ Spot(m[n], n)
      /\ LoopAt(T, m, n, work[1], R[1], loop_start, loop_end)
  BY <1>1, KnownFront DEF Each
<1>4. /\ loop_start \in 0 .. n /\ m[loop_start].of = m[n].of /\ Ready(m[loop_start], loop_start)
      /\ m[loop_start].left = m[n].left /\ Ready(m[n], n)
  <2>1. Start(work[1], R[1]) = <<LoopOf(work[1].node)>> \o R[1]
    BY <1>1 DEF Start
  <2>2. QED
    BY <1>2, <1>3, <2>1 DEF LoopAt, Aim
<1>5. x \in Instructions(T) /\ x.op = "jump" /\ x.to = loop_start
  <2>1. loop_start \in Int
    BY <1>3, <1>4
  <2>2. QED
    BY <2>1, InstructionsType DEF JumpOps
<1> HIDE DEF x
<1>6. Goes(x, n, m, n)
  <2>1. Target(x, m[n].left) = m[n].left
    BY <1>5 DEF Target
  <2>2. QED
    BY <1>4, <1>5, <2>1 DEF Goes
<1>7. PICK p : Grew(T, line, code, m, c, p, Placed(work), x, Always(T, R[1]))
  <2>1. Does(T, x, m[n].left, Always(T, R[1])) /\ x.op \notin FunctionOps /\ x.op # "return"
    BY <1>5, DoesJump DEF FunctionOps
  <2>2. QED
    BY <1>3, <1>6, <2>1, Growing
<1>8. Right(T, line, c, p, Placed(work)) /\ Carries(code, m, c, p) /\ p[Len(c)].left = Always(T, R[1])
  BY <1>7 DEF Grew
<1>9. c \in Seq(Instructions(T))
  BY <1>3, <1>5
<1>10. Aim(T, c, p, work[1], R[1]) /\ Goal(work[1], R[1]) = R[1]
  BY <1>1, <1>2, <1>8, AimCarried DEF Goal
<1>11. c[at + 1].op \in JumpOps
  <2>1. at + 1 \in 1 .. Len(code)
    BY <1>2, <1>3
  <2>2. QED
    BY <1>2, <1>8, <2>1 DEF Carries
<1> HIDE DEF c
<1>12. Right(T, line, d, p, Placed(work) \ {at}) /\ Carries(c, p, d, p) /\ Len(d) = Len(c)
  <2>1. Mends(T, c, p, work[1], R[1])
    BY <1>8, <1>9, <1>10, <1>11 DEF Mends
  <2>2. Mended(T, line, c, p, Placed(work), at, d)
    BY <1>8, <2>1, PatchingUp
  <2>3. QED
    BY <2>2 DEF Mended
<1> HIDE DEF d
<1>13. Right(T, line, d, p, Left(work)) /\ p[Len(d)].left = Always(T, R[1])
  BY <1>8, <1>12, OthersLeft, Rightly
<1>14. Carries(code, m, d, p)
  BY <1>8, <1>12, CarriedTwice
<1>15. QED
  BY <1>1, <1>2, <1>13, <1>14, Done, Zenon

LEMMA StmtIs ==
  ASSUME NEW n
  PROVE  Stmt(n).do = "stmt" /\ Stmt(n).node = n
BY DEF Stmt, Task

LEMMA LoneIs ==
  ASSUME NEW T, NEW v \in Seq(T), Len(v) = 1
  PROVE  v = <<v[1]>>
OBVIOUS

LEMMA TwoParts ==
  ASSUME NEW T, NEW ss \in Seq(T), Len(ss) = 2
  PROVE  ss[1] \in T /\ ss[2] \in T /\ Tail(ss) = <<ss[2]>>
<1>1. Tail(ss) \in Seq(T) /\ Len(Tail(ss)) = 1 /\ Tail(ss)[1] = ss[2] /\ ss[1] \in T /\ ss[2] \in T
  OBVIOUS
<1>2. QED
  BY <1>1, LoneIs

LEMMA OnePart ==
  ASSUME NEW T, NEW ss \in Seq(T), Len(ss) = 1
  PROVE  ss[1] \in T /\ ss = <<ss[1]>> /\ Tail(ss) = <<>>
<1>1. Tail(ss) \in Seq(T) /\ Len(Tail(ss)) = 0 /\ ss[1] \in T
  OBVIOUS
<1>2. QED
  <2>1. ss = <<ss[1]>>
    BY LoneIs
  <2>2. Tail(ss) = <<>>
    BY <1>1, EmptyIs
  <2>3. QED
    BY <1>1, <2>1, <2>2

(* Statements ss and then task x take the place of the first task.         *)
Children(n, ss) == \A k \in 1 .. Len(ss) : \E j \in DOMAIN n.parts : ss[k] = n.parts[j]

LEMMA Heirs ==
  ASSUME NEW T, NEW inside, Insides(inside), DOMAIN inside = T, NEW w, w.node \in T,
         w.do \in Sources, NEW r,
         NEW ss \in Seq(T), Children(w.node, ss), NEW x,
         x.do # "func_end", x.do \in Sources => x.node = w.node,
         NEW t, Then(t, ss, x), NEW q, Len(q) = Len(t),
         Without(inside, w, {"while", "for", "function"}) =>
           \A k \in 1 .. Len(t) : \E P \in Seq(T) : q[k] = P \o r
  PROVE  \A k \in 1 .. Len(t) : Heir(T, inside, w, r, t[k], q[k])
<1> TAKE k \in 1 .. Len(t)
<1>1. /\ Len(t) = Len(ss) + 1 /\ Len(ss) \in Nat /\ t[Len(t)] = x
      /\ \A j \in 1 .. Len(ss) : t[j] = Stmt(ss[j])
  BY DEF Then
<1>2. CASE k \in 1 .. Len(ss)
  <2>1. t[k].do = "stmt" /\ t[k].node = ss[k]
    BY <1>1, <1>2, StmtIs
  <2>2. PICK j \in DOMAIN w.node.parts : ss[k] = w.node.parts[j]
    BY <1>2 DEF Children
  <2>3. inside[ss[k]] \subseteq inside[w.node]
    BY <2>2 DEF Insides
  <2>4. QED
    BY <2>1, <2>3 DEF Heir
<1>3. CASE k = Len(t)
  BY <1>1, <1>3 DEF Heir
<1>4. QED
  BY <1>1, <1>2, <1>3

LEMMA FreshThen ==
  ASSUME NEW T, NEW inside, Insides(inside), DOMAIN inside = T, NEW d, NEW p,
         NEW ss \in Seq(T), NEW x, x.do \notin {"stmt", "func_end"},
         NEW t, Then(t, ss, x), NEW q,
         \A k \in 1 .. Len(t) : Without(inside, t[k], {"function"}),
         NEW s, NEW e,
         x.do \in Placers => Aim(T, d, p, x, q[Len(t)]),
         x.do = "loop" =>
           /\ LoopAt(T, p, Len(d), x, q[Len(t)], s, e)
           /\ \A k \in 1 .. Len(ss) :
                /\ Without(inside, t[k], {"while", "for", "function"})
                /\ x.node.kind = "for" => Without(inside, t[k], {"continue"})
                /\ Assigns(t[k]) \/ Latched(T, q[k], x.node, q[Len(t)])
  PROVE  Fresh(T, inside, d, p, t, q, s, e)
<1>1. /\ Len(t) = Len(ss) + 1 /\ Len(ss) \in Nat /\ t[Len(t)] = x
      /\ \A j \in 1 .. Len(ss) : t[j] = Stmt(ss[j])
  BY DEF Then
<1>2. \A k \in 1 .. Len(ss) : t[k].do = "stmt" /\ t[k].node \in T
  <2> TAKE k \in 1 .. Len(ss)
  <2>1. t[k] = Stmt(ss[k]) /\ ss[k] \in T
    BY <1>1
  <2>2. QED
    BY <2>1, StmtIs
<1>3. \A k \in 1 .. Len(ss) : ~FunctionTask(t[k]) /\ t[k].do \notin Placers \cup {"func_end", "loop"}
  <2> TAKE k \in 1 .. Len(ss)
  <2>1. k \in 1 .. Len(t)
    BY <1>1
  <2>2. ~FunctionTask(t[k])
    BY <1>2, <2>1, NotAFunction
  <2>3. QED
    BY <1>2, <2>2 DEF Placers
<1>4. \A k \in 1 .. Len(t) : k \in 1 .. Len(ss) \/ k = Len(t)
  BY <1>1
<1>5. \A k \in 1 .. Len(t) : /\ t[k].do \in Placers => Aim(T, d, p, t[k], q[k])
                             /\ t[k].do = "loop" => LoopAt(T, p, Len(d), t[k], q[k], s, e)
  BY <1>1, <1>3, <1>4
<1>6. ~FunctionTask(x) /\ x.do # "func_end"
  BY DEF FunctionTask
<1>7. ASSUME NEW k \in 1 .. Len(t), NEW j \in 1 .. k - 1 PROVE Pair(T, inside, t[j], q[j], t[k], q[k])
  <2>1. j \in 1 .. Len(ss)
    BY <1>1
  <2>2. ~FunctionTask(t[j]) /\ t[j].do # "func_end"
    BY <1>3, <2>1
  <2>3. CASE k \in 1 .. Len(ss)
    <3>1. ~FunctionTask(t[k]) /\ t[k].do # "func_end" /\ t[k].do # "loop"
      BY <1>3, <2>3
    <3>2. QED
      BY <2>2, <3>1 DEF Pair
  <2>4. CASE k = Len(t)
    <3>1. ~FunctionTask(t[k]) /\ t[k].do # "func_end" /\ t[k] = x
      BY <1>1, <1>6, <2>4
    <3>2. t[k].do = "loop" =>
            /\ Without(inside, t[j], {"while", "for", "function"})
            /\ t[k].node.kind = "for" => Without(inside, t[j], {"continue"})
            /\ Assigns(t[j]) \/ Latched(T, q[j], t[k].node, q[k])
      BY <2>1, <2>4, <3>1
    <3>3. QED
      BY <2>2, <3>1, <3>2 DEF Pair
  <2>5. QED
    BY <1>4, <2>3, <2>4
<1>8. QED
  BY <1>5, <1>7 DEF Fresh

LEMMA NowWithout ==
  ASSUME NEW T, NEW inside, NEW m, NEW R, Known(T, inside, m, R), work # <<>>,
         ~FunctionTask(work[1]), work[1].do # "func_end"
  PROVE  Without(inside, work[1], {"function"})
<1>1. Len(work) \in Nat \ {0}
  BY KnownFront
<1>2. QED
  BY <1>1, NoFunctionLeft DEF Known

(* The jump that is emitted at a, and last in t the task that backfills it. *)
LEMMA PlacedThen ==
  ASSUME NEW ss, NEW x, NEW t, Then(t, ss, x), x.do \in Placers
  PROVE  x.at \in Placed(t)
<1>1. Len(t) \in 1 .. Len(t) /\ t[Len(t)] = x
  BY DEF Then
<1>2. QED
  BY <1>1 DEF Placed, Open

LEMMA LinkedTwo ==
  ASSUME NEW T, NEW y, NEW x, NEW a \in Rests(T), NEW b \in Rests(T), NEW r,
         Class(T, a) = Class(T, Start(x, b)), Class(T, b) = Class(T, r)
  PROVE  Linked(T, <<y, x>>, <<a, b>>, r)
<1> DEFINE t == <<y, x>>
           q == <<a, b>>
<1>1. q \in Seq(Rests(T)) /\ Len(q) = 2 /\ Len(t) = 2 /\ q[1] = a /\ q[2] = b /\ t[2] = x
  OBVIOUS
<1>2. 1 .. Len(t) = {1, 2}
  BY <1>1
<1> HIDE DEF t, q
<1>3. \A k \in {1, 2} : Class(T, q[k]) = Class(T, IF k < Len(t) THEN Start(t[k + 1], q[k + 1]) ELSE r)
  BY <1>1
<1>4. QED
  BY <1>1, <1>2, <1>3 DEF Linked, t, q

LEMMA FaithThen ==
  ASSUME NEW T, NEW inside, NEW m, NEW R, Known(T, inside, m, R), GenThen
  PROVE  Faithful(T, inside)'
<1> DEFINE n == Len(code)
           at == work[1].at
           r == R[1]
<1>1. work # <<>> /\ work[1].do = "then" /\ line' = line /\ UNCHANGED statics
  BY DEF GenThen
<1>2. /\ work \in Seq(Tasks(T)) /\ work[1] \in Tasks(T) /\ this \in T /\ r \in Rests(T) /\ n \in Nat
      /\ code \in Seq(Instructions(T)) /\ Right(T, line, code, m, Placed(work)) /\ Spot(m[n], n)
      /\ m[n].left = Always(T, Start(work[1], r))
      /\ Trees(T) /\ Insides(inside) /\ DOMAIN inside = T
  BY <1>1, KnownFront DEF Known
<1>3. this.kind = "if" /\ this.parts \in Seq(T) /\ Len(this.parts) \in 1 .. 2 /\ work[1].node = this
  BY <1>1, <1>2 DEF Tasks, this, Trees, WellFormed
<1>4. CASE Len(this.parts) = 1
  <2>1. code' = patch_jump(code, at) /\ work' = Tail(work)
    BY <1>4 DEF GenThen
  <2>2. Goal(work[1], r) = r
    <3>1. Tail(this.parts) = <<>>
      BY <1>3, <1>4, OnePart
    <3>2. QED
      BY <1>1, <1>2, <1>3, <3>1, EmptyFirst DEF Goal
  <2>3. QED
    BY <1>1, <2>1, <2>2, PatchedOnly
<1>5. CASE Len(this.parts) = 2
  <2> DEFINE x == Jump("jump", -1)
             c == Append(code, x)
             d == patch_jump(c, at)
             y == this.parts[2]
             e == Task("else", this, n)
             t == <<Stmt(y), e>>
             q == <<r, r>>
             Q == Placed(work) \cup {n}
  <2>1. code' = d /\ work' = t \o Tail(work)
    BY <1>5 DEF GenThen
  <2>2. /\ Aim(T, code, m, work[1], r) /\ code[at + 1].op \in JumpOps
        /\ ~FunctionTask(work[1]) /\ work[1].do # "func_end" /\ at \in 0 .. n - 1
    BY <1>1, AimNow DEF Placers
  <2>3. y \in T /\ e \in Tasks(T) /\ e.do = "else" /\ e.at = n /\ e.node = this
    BY <1>2, <1>3, <1>5 DEF Task, Tasks, Dos
  <2>4. x \in Instructions(T) /\ x.op = "jump"
    BY InstructionsType DEF JumpOps
  <2> HIDE DEF x
  <2>5. Goal(work[1], r) = <<y>> \o r
    <3>1. Tail(this.parts) = <<y>>
      BY <1>3, <1>5, TwoParts
    <3>2. QED
      BY <1>1, <1>3, <3>1 DEF Goal
  <2> DEFINE left == Always(T, <<y>> \o r)
  <2> HIDE DEF left
  <2>6. PICK p : Grew(T, line, code, m, c, p, Q, x, left)
    <3>1. Does(T, x, m[n].left, left) /\ x.op \notin FunctionOps /\ x.op # "return"
      BY <2>4, DoesJump DEF FunctionOps
    <3>2. QED
      BY <1>2, <3>1, Growing
  <2>7. /\ Right(T, line, c, p, Q) /\ Carries(code, m, c, p) /\ p[Len(c)].left = left
        /\ Len(c) = n + 1 /\ c[n + 1] = x
    BY <2>6 DEF Grew
  <2>8. c \in Seq(Instructions(T))
    BY <1>2, <2>4
  <2>9. Aim(T, c, p, work[1], r)
    BY <2>2, <2>7, AimCarried
  <2>10. c[at + 1].op \in JumpOps
    <3>1. at + 1 \in 1 .. Len(code)
      BY <1>2, <2>2
    <3>2. QED
      BY <2>2, <2>7, <3>1 DEF Carries
  <2> HIDE DEF c
  <2>11. Right(T, line, d, p, Q \ {at}) /\ Carries(c, p, d, p) /\ Len(d) = Len(c)
    <3>1. p[Len(c)].left = Always(T, Goal(work[1], r))
      BY <2>5, <2>7 DEF left
    <3> HIDE DEF at, r, Q
    <3>2. c[work[1].at + 1].op \in JumpOps
      BY <2>10 DEF at
    <3>3. Mends(T, c, p, work[1], R[1])
      BY <2>7, <2>8, <2>9, <3>1, <3>2 DEF Mends, r
    <3>4. Mended(T, line, c, p, Q, work[1].at, patch_jump(c, work[1].at))
      BY <2>7, <3>3, PatchingUp
    <3>5. QED
      BY <3>4 DEF at, Mended
  <2> HIDE DEF d
  <2>12. Carries(code, m, d, p) /\ p[Len(d)].left = left
    BY <2>7, <2>11, CarriedTwice
  <2>13. d[n + 1].op = "jump"
    <3>1. n + 1 \in 1 .. Len(c)
      BY <1>2, <2>7
    <3>2. QED
      BY <2>4, <2>7, <2>11, <3>1 DEF Carries
  <2>14. Aim(T, d, p, e, r)
    <3>1. Start(work[1], r) = r /\ Goal(e, r) = r
      BY <1>1, <2>3 DEF Start, Goal
    <3>2. Target(d[n + 1], m[n].left) = Always(T, Goal(e, r))
      BY <1>2, <2>13, <3>1 DEF Target
    <3>3. p[n] = m[n] /\ p[Len(d)].of = m[n].of /\ (Ready(m[n], n) => Ready(p[Len(d)], Len(d)))
      BY <2>12, CarriedPast
    <3>4. Ready(m[n], n)
      BY <2>2 DEF Aim
    <3>5. n \in 0 .. Len(d) - 1
      BY <1>2, <2>7, <2>11
    <3>6. QED
      BY <2>3, <3>2, <3>3, <3>4, <3>5 DEF Aim
  <2>15. t \in Seq(Tasks(T)) /\ Then(t, <<y>>, e) /\ Len(t) = 2 /\ <<y>> \in Seq(T) /\ t[1] = Stmt(y)
    BY <2>3, StmtThen
  <2>16. Linked(T, t, q, r) /\ Len(q) = 2 /\ q[1] = r /\ q[2] = r
    <3>1. Start(e, r) = r
      BY <2>3 DEF Start
    <3>2. QED
      BY <1>2, <3>1, LinkedTwo
  <2>17. p[Len(d)].left = Always(T, IF Len(t) = 0 THEN r ELSE Start(t[1], q[1]))
    <3>1. Start(Stmt(y), r) = <<y>> \o r
      BY DEF Start, Stmt, Task
    <3>2. left = Always(T, Start(t[1], q[1]))
      BY <2>15, <2>16, <3>1 DEF left
    <3>3. Len(t) # 0
      BY <2>15
    <3> HIDE DEF t, q, left, r
    <3>4. QED
      BY <2>12, <3>2, <3>3
  <2> HIDE DEF t, q, y
  <2>18. \A k \in 1 .. Len(t) : Heir(T, inside, work[1], r, t[k], q[k])
    <3>1. Children(work[1].node, <<y>>)
      BY <1>3, <1>5 DEF Children, y
    <3>2. e.do \notin Sources \cup {"func_end"} /\ work[1].do \in Sources
      BY <1>1, <2>3 DEF Sources
    <3>3. \A k \in 1 .. Len(t) : \E P \in Seq(T) : q[k] = P \o r
      <4>1. <<>> \o r = r
        BY <1>2, EmptyFirst
      <4>2. <<>> \in Seq(T)
        OBVIOUS
      <4>3. \A k \in 1 .. 2 : q[k] = r
        BY <2>16
      <4>4. QED
        BY <2>15, <4>1, <4>2, <4>3
    <3>4. Len(q) = Len(t)
      BY <2>15, <2>16
    <3>5. QED
      BY <1>2, <1>3, <2>15, <3>1, <3>2, <3>3, <3>4, Heirs
  <2>19. \A k \in 1 .. Len(t) : Without(inside, t[k], {"function"})
    BY <1>1, <2>2, <2>18, NowWithout, Inherits
  <2>20. Fresh(T, inside, d, p, t, q, loop_start, loop_end)
    <3>1. e.do \notin {"stmt", "func_end"} /\ e.do # "loop" /\ q[Len(t)] = r
      BY <2>3, <2>15, <2>16
    <3>2. QED
      BY <1>2, <2>14, <2>15, <2>19, <3>1, FreshThen
  <2>21. Q \ {at} \subseteq Left(work) \cup Placed(t)
    <3>1. n \in Placed(t)
      BY <2>3, <2>15, PlacedThen DEF Placers
    <3>2. QED
      BY <3>1, OthersLeft
  <2>22. loop_start' = loop_start /\ loop_end' = loop_end /\ ~Assigns(work[1])
    BY <1>1 DEF statics, Assigns
  <2> HIDE DEF Q
  <2>23. QED
    BY <1>1, <2>1, <2>2, <2>11, <2>12, <2>15, <2>16, <2>17, <2>18, <2>20, <2>21, <2>22, Advanced, Zenon
<1>6. QED
  BY <1>3, <1>4, <1>5

----------------------------------------------------------------------------
(* A condition and the tasks that come after it.                           *)
LEMMA HereIs ==
  ASSUME NEW inside, NEW T, Insides(inside), DOMAIN inside = T, NEW x, x.node \in T, x.do \in Sources,
         NEW kinds, x.node.kind \in kinds
  PROVE  ~Without(inside, x, kinds)
BY DEF Without, Insides, Lacks

(* Code d and map p after a condition, which is the first of r. *)
Tested(T, m, d, p, r) ==
  /\ Right(T, line, d, p, Placed(work) \cup {Len(code) + 1}) /\ Carries(code, m, d, p)
  /\ Len(d) = Len(code) + 2 /\ p[Len(d)].left = Always(T, Visible(r, TRUE))

Falls(T, r, x, q) == x.at = Len(code) + 1 /\ Always(T, Goal(x, q)) = Always(T, Visible(r, FALSE))

Testing(T, m, x, y, v, r, o) ==
  /\ x \in Instructions(T) /\ x.op = "cond" /\ x.id = v.id
  /\ y \in Instructions(T) /\ y.op = "jump_if_false"
  /\ v.kind \in {"if", "loop"} /\ Statement(T, r, v, o)
  /\ m[Len(code)].left = Always(T, r) /\ Ready(m[Len(code)], Len(code))

LEMMA Tests ==
  ASSUME NEW T, NEW inside, NEW m, NEW R, Known(T, inside, m, R), work # <<>>,
         NEW x, NEW y, NEW v, NEW r, NEW o, Testing(T, m, x, y, v, r, o)
  PROVE  \E p : /\ Tested(T, m, code \o <<x, y>>, p, r)
                /\ \A z, q : Falls(T, r, z, q) => Aim(T, code \o <<x, y>>, p, z, q)
<1> DEFINE n == Len(code)
           I == Instructions(T)
           mid == After(T, r)
           left == Always(T, Visible(r, TRUE))
           Q == Placed(work) \cup {n + 1}
           P == Placed(work)
           d == code \o <<x, y>>
<1>1. /\ x \in I /\ x.op = "cond" /\ x.id = v.id /\ y \in I /\ y.op = "jump_if_false"
      /\ v.kind \in {"if", "loop"} /\ Statement(T, r, v, o)
      /\ m[n].left = Always(T, r) /\ Ready(m[n], n)
  BY DEF Testing
<1>2. code \in Seq(I) /\ n \in Nat /\ Right(T, line, code, m, P) /\ Spot(m[n], n)
  BY KnownFront
<1>3. Does(T, x, m[n].left, mid)
  BY <1>1, DoesCondition
<1>4. left = Given(mid, TRUE)
  BY DEF After, Given, Always
<1>5. Does(T, y, mid, left)
  <2> HIDE DEF mid, left
  <2>1. QED
    BY <1>1, <1>4, DoesJump
<1>6. /\ x.op \notin FunctionOps \cup JumpOps \cup {"return"} /\ y.op \notin FunctionOps
      /\ y.op # "return"
  BY <1>1 DEF FunctionOps, JumpOps
<1>7. P \subseteq Q /\ n + 1 \in Q
  OBVIOUS
<1> HIDE DEF I, mid, left, Q, P
<1>8. PICK p : GrewTwo(T, line, code, m, d, p, Q, y, mid, left)
  BY <1>1, <1>2, <1>3, <1>5, <1>6, <1>7, GrowingTwo
<1>9. /\ Right(T, line, d, p, Q) /\ Carries(code, m, d, p) /\ Len(d) = n + 2 /\ d[n + 2] = y
      /\ p[n + 2].left = left /\ p[n + 1] = Onto(m[n], mid) /\ p[n + 2] = Onto(p[n + 1], left)
  BY <1>8 DEF GrewTwo
<1> HIDE DEF d
<1>10. Tested(T, m, d, p, r)
  BY <1>9 DEF Tested, left, Q, P
<1>11. /\ p[n + 1].left = mid /\ p[n + 1].of = m[n].of /\ p[n + 2].of = m[n].of
       /\ Ready(p[n + 1], n + 1) /\ Ready(p[n + 2], n + 2)
  <2>1. /\ p[n + 1].left = mid /\ p[n + 1].of = m[n].of /\ p[n + 1].place = m[n].place + 1
        /\ p[n + 2].of = m[n].of /\ p[n + 2].place = (m[n].place + 1) + 1
    BY <1>9 DEF Onto
  <2>2. m[n].place \in Nat /\ m[n].of \in Int
    BY <1>2 DEF Spot
  <2>3. QED
    BY <1>1, <1>2, <2>1, <2>2 DEF Ready
<1>12. ASSUME NEW z, NEW q, Falls(T, r, z, q) PROVE Aim(T, d, p, z, q)
  <2>1. z.at = n + 1 /\ Always(T, Goal(z, q)) = Always(T, Visible(r, FALSE))
    BY <1>12 DEF Falls
  <2>2. n + 1 \in 0 .. Len(d) - 1 /\ (n + 1) + 1 = n + 2
    BY <1>2, <1>9
  <2>3. Target(d[n + 2], p[n + 1].left) = Always(T, Visible(r, FALSE))
    <3>1. Given(mid, FALSE) = Always(T, Visible(r, FALSE))
      BY DEF mid, After, Given, Always
    <3>2. QED
      BY <1>1, <1>9, <1>11, <3>1 DEF Target
  <2>4. QED
    BY <1>9, <1>11, <2>1, <2>2, <2>3 DEF Aim
<1>13. Tested(T, m, d, p, r) /\ \A z, q : Falls(T, r, z, q) => Aim(T, d, p, z, q)
  BY <1>10, <1>12, Zenon
<1>14. QED
  BY <1>13, Zenon DEF d

(* The tasks t after it: statements ss and then x, which backfills. *)
Follows(T, inside, ss, x, t, q, r, end) ==
  /\ ss \in Seq(T) /\ Len(ss) # 0 /\ Children(this, ss) /\ x \in Tasks(T)
  /\ x.do \in {"then", "loop"} /\ x.node = this
  /\ t \in Seq(Tasks(T)) /\ Then(t, ss, x) /\ Linked(T, t, q, end)
  /\ Without(inside, work[1], {"while", "for", "function"}) =>
       \A k \in 1 .. Len(t) : \E P \in Seq(T) : q[k] = P \o end
  /\ Always(T, Start(t[1], q[1])) = Always(T, Visible(r, TRUE))
  /\ Falls(T, r, x, q[Len(t)])

(* And if they are a loop. *)
Loops(T, inside, m, ss, x, t, q) ==
  /\ x.node.kind \in {"while", "for"} /\ ~Later(work, "loop")
  /\ m[Len(code)].left = Always(T, <<LoopOf(x.node)>> \o q[Len(t)])
  /\ \A k \in 1 .. Len(ss) :
       /\ Without(inside, t[k], {"while", "for", "function"})
       /\ x.node.kind = "for" => Without(inside, t[k], {"continue"})
       /\ Assigns(t[k]) \/ Latched(T, q[k], x.node, q[Len(t)])

LEMMA FaithTest ==
  ASSUME NEW T, NEW inside, NEW m, NEW R, Known(T, inside, m, R), work # <<>>,
         ~FunctionTask(work[1]), work[1].do \in Sources \ {"then"}, ~Assigns(work[1]),
         NEW x, NEW y, NEW v, NEW r, NEW o, Testing(T, m, x, y, v, r, o),
         NEW ss, NEW z, NEW t, NEW q, Follows(T, inside, ss, z, t, q, r, R[1]),
         Emit(<<x, y>>, t),
         IF z.do = "loop"
         THEN /\ Loops(T, inside, m, ss, z, t, q)
              /\ loop_start' = Len(code) /\ loop_end' = Len(code) + 1
         ELSE loop_start' = loop_start /\ loop_end' = loop_end
  PROVE  Faithful(T, inside)'
<1> DEFINE n == Len(code)
           d == code \o <<x, y>>
           Q == Placed(work) \cup {n + 1}
           s == IF z.do = "loop" THEN n ELSE loop_start
           e == IF z.do = "loop" THEN n + 1 ELSE loop_end
<1>1. /\ line' = line /\ code' = d /\ work' = t \o Tail(work) /\ loop_start' = s /\ loop_end' = e
  BY DEF Emit
<1>2. /\ work \in Seq(Tasks(T)) /\ work[1].node \in T /\ n \in Nat /\ R[1] \in Rests(T)
      /\ Trees(T) /\ Insides(inside) /\ DOMAIN inside = T /\ m[n].left = Always(T, Start(work[1], R[1]))
  BY KnownFront DEF Known, this
<1>3. /\ ss \in Seq(T) /\ Len(ss) # 0 /\ Children(work[1].node, ss) /\ z \in Tasks(T)
      /\ z.do \in {"then", "loop"} /\ z.node = work[1].node
      /\ t \in Seq(Tasks(T)) /\ Then(t, ss, z) /\ Linked(T, t, q, R[1])
      /\ Always(T, Start(t[1], q[1])) = Always(T, Visible(r, TRUE))
      /\ Falls(T, r, z, q[Len(t)])
      /\ Without(inside, work[1], {"while", "for", "function"}) =>
           \A k \in 1 .. Len(t) : \E P \in Seq(T) : q[k] = P \o R[1]
  BY DEF Follows, this
<1>4. PICK p : Tested(T, m, d, p, r) /\ \A u, w : Falls(T, r, u, w) => Aim(T, d, p, u, w)
  BY Tests
<1> HIDE DEF d
<1>5. /\ Right(T, line, d, p, Q) /\ Carries(code, m, d, p) /\ Len(d) = n + 2
      /\ p[Len(d)].left = Always(T, Visible(r, TRUE))
  BY <1>4 DEF Tested
<1>6. Aim(T, d, p, z, q[Len(t)])
  BY <1>3, <1>4
<1>7. Len(t) = Len(ss) + 1 /\ Len(ss) \in Nat /\ t[Len(t)] = z /\ Len(q) = Len(t)
  BY <1>3 DEF Then, Linked
<1>8. \A k \in 1 .. Len(t) : Heir(T, inside, work[1], R[1], t[k], q[k])
  <2>1. work[1].do \in Sources /\ z.do # "func_end" /\ (z.do \in Sources => z.node = work[1].node)
    BY <1>3
  <2>2. QED
    BY <1>2, <1>3, <1>7, <2>1, Heirs
<1>9. Without(inside, work[1], {"function"}) /\ work[1].do # "func_end"
  <2>1. work[1].do # "func_end"
    BY DEF Sources
  <2>2. QED
    BY <2>1, NowWithout
<1>10. \A k \in 1 .. Len(t) : Without(inside, t[k], {"function"})
  BY <1>8, <1>9, Inherits
<1>11. ASSUME z.do = "loop"
       PROVE  /\ LoopAt(T, p, Len(d), z, q[Len(t)], s, e)
              /\ \A k \in 1 .. Len(ss) :
                   /\ Without(inside, t[k], {"while", "for", "function"})
                   /\ z.node.kind = "for" => Without(inside, t[k], {"continue"})
                   /\ Assigns(t[k]) \/ Latched(T, q[k], z.node, q[Len(t)])
              /\ ~Later(work, "loop")
  <2>1. /\ Loops(T, inside, m, ss, z, t, q) /\ s = n /\ e = n + 1
    BY <1>11
  <2>2. z.node.kind \in {"while", "for"} /\ m[n].left = Always(T, <<LoopOf(z.node)>> \o q[Len(t)])
    BY <2>1 DEF Loops
  <2>3. z.at = n + 1
    BY <1>3 DEF Falls
  <2>4. n \in 0 .. Len(d) /\ p[n] = m[n] /\ p[Len(d)].of = m[n].of
    BY <1>2, <1>5, CarriedPast
  <2>5. Ready(m[n], n)
    BY DEF Testing
  <2>6. LoopAt(T, p, Len(d), z, q[Len(t)], s, e)
    BY <2>1, <2>2, <2>3, <2>4, <2>5 DEF LoopAt
  <2>7. QED
    BY <2>1, <2>6 DEF Loops
<1> HIDE DEF s, e
<1>12. Fresh(T, inside, d, p, t, q, s, e)
  <2>1. z.do \notin {"stmt", "func_end"}
    BY <1>3
  <2>2. QED
    BY <1>2, <1>3, <1>6, <1>10, <1>11, <2>1, FreshThen
<1>13. (s = loop_start /\ e = loop_end) \/ ~Later(work, "loop")
  BY <1>11 DEF s, e
<1>14. p[Len(d)].left = Always(T, IF Len(t) = 0 THEN R[1] ELSE Start(t[1], q[1]))
  <2>1. Len(t) # 0
    BY <1>7
  <2>2. (IF Len(t) = 0 THEN R[1] ELSE Start(t[1], q[1])) = Start(t[1], q[1])
    BY <2>1, Zenon
  <2>3. p[Len(d)].left = Always(T, Start(t[1], q[1]))
    BY <1>3, <1>5, Zenon
  <2>4. QED
    BY <2>2, <2>3, Zenon
<1>15. Q \subseteq Left(work) \cup Placed(t)
  <2>1. n + 1 \in Placed(t)
    BY <1>3, PlacedThen DEF Falls, Placers
  <2>2. work[1].do \notin Placers
    BY DEF Sources, Placers
  <2>3. QED
    BY <2>1, <2>2, LeftIs
<1> HIDE DEF Q
<1>16. QED
  BY <1>1, <1>3, <1>5, <1>8, <1>9, <1>12, <1>13, <1>14, <1>15, Advanced, Zenon

LEMMA ReadyHere ==
  ASSUME NEW T, NEW inside, NEW m, NEW R, Known(T, inside, m, R), work # <<>>,
         work[1].do \in Sources, this.kind \in Jumping
  PROVE  Ready(m[Len(code)], Len(code))
<1>1. this \in T /\ Each(T, inside, line, code, m, work[1], R[1], loop_start, loop_end)
  BY KnownFront
<1>2. ~Without(inside, work[1], Jumping)
  BY <1>1, HereIs DEF Known, this
<1>3. QED
  BY <1>1, <1>2 DEF Each

LEMMA LinkedBoth ==
  ASSUME NEW T, NEW t, NEW x, Len(t) = 2, t[2] = x, NEW a \in Rests(T), NEW b \in Rests(T), NEW r,
         Class(T, a) = Class(T, Start(x, b)), Class(T, b) = Class(T, r)
  PROVE  Linked(T, t, <<a, b>>, r) /\ <<a, b>>[1] = a /\ <<a, b>>[2] = b
<1> DEFINE q == <<a, b>>
<1>1. q \in Seq(Rests(T)) /\ Len(q) = 2 /\ q[1] = a /\ q[2] = b
  OBVIOUS
<1>2. 1 .. Len(t) = {1, 2}
  BY <1>1
<1> HIDE DEF q
<1>3. \A k \in {1, 2} : Class(T, q[k]) = Class(T, IF k < Len(t) THEN Start(t[k + 1], q[k + 1]) ELSE r)
  BY <1>1
<1>4. QED
  BY <1>1, <1>2, <1>3 DEF Linked, q

LEMMA FaithIf ==
  ASSUME NEW T, NEW inside, NEW m, NEW R, Known(T, inside, m, R), GenIf
  PROVE  Faithful(T, inside)'
<1> DEFINE x == Named("cond", this.id)
           y == Jump("jump_if_false", -1)
           z == Task("then", this, Len(code) + 1)
           b == this.parts[1]
           t == <<Stmt(b), z>>
           o == R[1]
           r == <<this>> \o o
           q == <<o, o>>
<1>1. Doing("if") /\ Emit(<<x, y>>, t) /\ UNCHANGED statics
  BY DEF GenIf
<1>2. /\ work # <<>> /\ this.kind = "if" /\ work[1].do = "stmt"
      /\ Statement(T, r, this, o) /\ m[Len(code)].left = Always(T, r)
  BY <1>1, AtStatement
<1>3. this \in T /\ o \in Rests(T) /\ Trees(T) /\ Insides(inside) /\ DOMAIN inside = T /\ Len(code) \in Nat
  BY <1>2, KnownFront DEF Known
<1>4. /\ this.parts \in Seq(T) /\ b \in T /\ Len(this.parts) \in Nat \ {0}
  BY <1>2, <1>3, PartsOf
<1>5. /\ x \in Instructions(T) /\ x.op = "cond" /\ x.id = this.id
      /\ y \in Instructions(T) /\ y.op = "jump_if_false"
  BY <1>3, InstructionsType DEF Others, JumpOps, Named
<1> HIDE DEF x, y
<1>6. Testing(T, m, x, y, this, r, o)
  <2>1. Ready(m[Len(code)], Len(code))
    BY <1>2, ReadyHere DEF Sources, Jumping
  <2>2. QED
    BY <1>2, <1>5, <2>1 DEF Testing
<1>7. /\ z \in Tasks(T) /\ z.do = "then" /\ z.at = Len(code) + 1 /\ z.node = this
  BY <1>2, <1>3 DEF Task, Tasks, Dos
<1>8. /\ t \in Seq(Tasks(T)) /\ Then(t, <<b>>, z) /\ Len(t) = 2 /\ t[1] = Stmt(b) /\ t[2] = z
      /\ <<b>> \in Seq(T) /\ Len(<<b>>) = 1
  BY <1>4, <1>7, StmtThen
<1>9. Linked(T, t, q, o) /\ q[1] = o /\ q[2] = o
  <2>1. Start(z, o) = o
    BY <1>7 DEF Start
  <2>2. QED
    BY <1>3, <1>8, <2>1, LinkedBoth
<1>10. Visible(r, TRUE) = <<b>> \o o /\ Visible(r, FALSE) = Tail(this.parts) \o o
  <2>1. r \in Rests(T) /\ r # <<>> /\ r[1] = this /\ Head(r) = r[1] /\ Tail(r) = o
    BY <1>2 DEF Statement
  <2>2. QED
    BY <1>2, <2>1, VisibleIs
<1>11. Start(Stmt(b), o) = <<b>> \o o /\ Goal(z, o) = Tail(this.parts) \o o
  BY <1>7 DEF Start, Stmt, Task, Goal
<1> HIDE DEF t, q, z, r
<1>12. Follows(T, inside, <<b>>, z, t, q, r, o)
  <2>1. Children(this, <<b>>)
    BY <1>4 DEF Children
  <2>2. \A k \in 1 .. Len(t) : \E P \in Seq(T) : q[k] = P \o o
    <3>1. <<>> \o o = o
      BY <1>3, EmptyFirst
    <3>2. <<>> \in Seq(T)
      OBVIOUS
    <3>3. \A k \in 1 .. 2 : q[k] = o
      BY <1>9
    <3>4. QED
      BY <1>8, <3>1, <3>2, <3>3
  <2>3. Falls(T, r, z, q[Len(t)])
    BY <1>7, <1>8, <1>9, <1>10, <1>11 DEF Falls
  <2>4. Always(T, Start(t[1], q[1])) = Always(T, Visible(r, TRUE))
    BY <1>8, <1>9, <1>10, <1>11
  <2> DEFINE ss == <<b>>
  <2>5. ss \in Seq(T) /\ Len(ss) = 1 /\ Children(this, ss) /\ Then(t, ss, z)
    BY <1>8, <2>1
  <2> HIDE DEF ss
  <2>6. Follows(T, inside, ss, z, t, q, r, o)
    <3>1. Len(ss) # 0
      BY <2>5
    <3>2. z.do \in {"then", "loop"}
      BY <1>7
    <3>3. QED
      BY <1>7, <1>8, <1>9, <2>2, <2>3, <2>4, <2>5, <3>1, <3>2, Zenon DEF Follows
  <2>7. QED
    BY <2>6 DEF ss
<1>13. ~FunctionTask(work[1]) /\ work[1].do \in Sources \ {"then"} /\ ~Assigns(work[1])
  BY <1>2 DEF FunctionTask, Sources, Assigns, this
<1>14. z.do # "loop" /\ loop_start' = loop_start /\ loop_end' = loop_end
  BY <1>1, <1>7 DEF statics
<1>15. QED
  BY <1>1, <1>2, <1>6, <1>12, <1>13, <1>14, FaithTest DEF o

(* The loop of n with o after it: what its condition decides, and what a   *)
(* continue leads to.                                                      *)
LoopSays(T, n, o, r, w) ==
  /\ Statement(T, r, LoopOf(n), o) /\ w \in Rests(T) /\ Latched(T, w, n, o)
  /\ Visible(r, TRUE) = <<LoopOf(n).parts[1]>> \o w /\ Visible(r, FALSE) = o
  /\ Class(T, w) = Class(T, Tail(LoopOf(n).parts) \o r)

LEMMA LoopRests ==
  ASSUME NEW T, Trees(T), NEW n \in T, n.kind \in {"while", "for"}, NEW o \in Rests(T)
  PROVE  LoopSays(T, n, o, <<LoopOf(n)>> \o o, <<LatchOf(n), LoopOf(n)>> \o o)
<1> DEFINE a == LatchOf(n)
           v == LoopOf(n)
           r == <<v>> \o o
           w == <<a, v>> \o o
           b == v.parts[1]
           N == Nodes(T)
<1>1. /\ v \in N /\ v.kind = "loop" /\ a \in N /\ a = Node("latch", NoName, Tail(v.parts)) /\ b \in T
  BY LoopParts DEF LatchOf
<1>2. w \in Rests(T) /\ Class(T, w) = Class(T, Tail(v.parts) \o r)
  BY LatchLeads
<1>3. Latched(T, w, n, o)
  <2>1. <<>> \o w = w
    BY <1>2, EmptyFirst
  <2>2. <<>> \in Seq(T)
    OBVIOUS
  <2>3. QED
    BY <2>1, <2>2 DEF Latched
<1>4. b \in N
  BY <1>1 DEF Nodes
<1> HIDE DEF a, v, b
<1>5. /\ r \in Rests(T) /\ r # <<>> /\ r[1] = v /\ Head(r) = v /\ Tail(r) = o
  BY <1>1, OneBefore
<1>6. Statement(T, r, v, o)
  BY <1>5, Zenon DEF Statement
<1>7. TwoFirst(a, v, o)
  <2>1. o \in Seq(N)
    BY DEF Rests
  <2> HIDE DEF N
  <2>2. QED
    BY <1>1, <2>1, TwoBefore, Zenon
<1> DEFINE y == <<b, a>>
<1>8. <<a>> \o r = w
  BY <1>7 DEF TwoFirst
<1> HIDE DEF r, w
<1>9. TwoFirst(b, a, r)
  <2>1. r \in Seq(N)
    BY <1>5 DEF Rests
  <2> HIDE DEF N
  <2>2. QED
    BY <1>1, <1>4, <2>1, TwoBefore, Zenon
<1>10. <<b, a>> \o r = <<b>> \o w
  BY <1>8, <1>9 DEF TwoFirst
<1>11. Visible(r, TRUE) = <<v.parts[1], Node("latch", NoName, Tail(v.parts))>> \o r /\ Visible(r, FALSE) = o
  <2>1. Head(r) = r[1] /\ r[1].kind = "loop" /\ Tail(r) = o /\ r[1] = v
    BY <1>1, <1>5
  <2>2. QED
    BY <2>1, VisibleIs
<1>12. Visible(r, TRUE) = <<b>> \o w
  BY <1>1, <1>10, <1>11 DEF b
<1>13. LoopSays(T, n, o, r, w)
  BY <1>2, <1>3, <1>6, <1>11, <1>12 DEF LoopSays, v, b
<1>14. QED
  BY <1>13 DEF r, w, a, v

LEMMA NoLoopAfter ==
  ASSUME NEW T, NEW inside, NEW m, NEW R, Known(T, inside, m, R), work # <<>>,
         work[1].do \in Sources, this.kind \in {"while", "for"}
  PROVE  ~Later(work, "loop") /\ ~Without(inside, work[1], {"while", "for", "function"})
<1>1. this \in T /\ Insides(inside) /\ DOMAIN inside = T /\ Len(work) \in Nat \ {0}
  BY KnownFront DEF Known
<1>2. ~Without(inside, work[1], {"while", "for", "function"})
  BY <1>1, HereIs DEF this
<1>3. \A k \in 2 .. Len(work) : Pair(T, inside, work[1], R[1], work[k], R[k])
  <2> TAKE k \in 2 .. Len(work)
  <2>1. k \in 1 .. Len(work) /\ 1 \in 1 .. k - 1
    BY <1>1
  <2>2. QED
    BY <2>1 DEF Known, Faith, AllPairs
<1>4. QED
  BY <1>2, <1>3 DEF Later, Pair

Loopy(inside) == \A n \in DOMAIN inside : n.kind \in {"while", "for"} => ReliableLoop(inside, n)

TaskOfLoop(n, o, r, z) ==
  z.do = "loop" /\ z.node = n /\ z.at = Len(code) + 1 /\ r = <<LoopOf(n)>> \o o

LEMMA LoopTask ==
  ASSUME NEW T, NEW n, NEW o, NEW r, NEW w, LoopSays(T, n, o, r, w), NEW z, TaskOfLoop(n, o, r, z)
  PROVE  Falls(T, r, z, o) /\ Start(z, o) = r
<1>1. Goal(z, o) = o /\ Start(z, o) = r
  BY DEF Goal, Start, TaskOfLoop
<1>2. Visible(r, FALSE) = o
  BY DEF LoopSays
<1>3. QED
  BY <1>1, <1>2 DEF Falls, TaskOfLoop

(* A while is its loop. *)
LEMMA WhileIs ==
  ASSUME NEW T, Trees(T), NEW n \in T, n.kind = "while", NEW o, Statement(T, <<n>> \o o, n, o)
  PROVE  Always(T, <<n>> \o o) = Always(T, <<LoopOf(n)>> \o o)
<1>1. n.kind \notin Visibles
  BY DEF Visibles
<1>2. Lasts(T, <<n>> \o o, Unfold(<<n>> \o o)) /\ Unfolds(n, o, Unfold(<<n>> \o o))
  BY <1>1, SilentIs, Zenon
<1>3. LoopOf(n) = Node("loop", n.id, n.parts)
  BY DEF LoopOf
<1>4. QED
  BY <1>2, <1>3, Zenon DEF Lasts, Unfolds

LEMMA FaithWhile ==
  ASSUME NEW T, NEW inside, NEW m, NEW R, Known(T, inside, m, R), Loopy(inside), GenWhile
  PROVE  Faithful(T, inside)'
<1> DEFINE x == Named("cond", this.id)
           y == Jump("jump_if_false", -1)
           z == Task("loop", this, Len(code) + 1)
           b == this.parts[1]
           t == <<Stmt(b), z>>
           o == R[1]
           v == LoopOf(this)
           r == <<v>> \o o
           w == <<LatchOf(this), v>> \o o
           q == <<w, o>>
           ss == <<b>>
<1>1. /\ Doing("while") /\ Emit(<<x, y>>, t)
      /\ loop_start' = Len(code) /\ loop_end' = Len(code) + 1
  BY DEF GenWhile
<1>2. /\ work # <<>> /\ this.kind = "while" /\ work[1].do = "stmt"
      /\ Statement(T, <<this>> \o o, this, o) /\ m[Len(code)].left = Always(T, <<this>> \o o)
  BY <1>1, AtStatement
<1>3. this \in T /\ o \in Rests(T) /\ Trees(T) /\ Insides(inside) /\ DOMAIN inside = T /\ Len(code) \in Nat
  BY <1>2, KnownFront DEF Known
<1>4. this.parts \in Seq(T) /\ b \in T /\ Len(this.parts) = 1
  BY <1>2, <1>3, PartsOf
<1>5. /\ x \in Instructions(T) /\ x.op = "cond" /\ x.id = this.id
      /\ y \in Instructions(T) /\ y.op = "jump_if_false"
  BY <1>3, InstructionsType DEF Others, JumpOps, Named
<1>6. /\ v.kind = "loop" /\ v.id = this.id /\ v.parts = this.parts
  BY <1>2, <1>3, LoopParts DEF Node
<1> HIDE DEF x, y
<1>7. LoopSays(T, this, o, r, w)
  BY <1>2, <1>3, LoopRests
<1>8. m[Len(code)].left = Always(T, r)
  BY <1>2, <1>3, WhileIs
<1>9. /\ z \in Tasks(T) /\ z.do = "loop" /\ z.at = Len(code) + 1 /\ z.node = this
  BY <1>2, <1>3 DEF Task, Tasks, Dos
<1>10. /\ t \in Seq(Tasks(T)) /\ Then(t, ss, z) /\ Len(t) = 2 /\ t[1] = Stmt(b) /\ t[2] = z
       /\ ss \in Seq(T) /\ Len(ss) = 1 /\ ss[1] = b
  BY <1>4, <1>9, StmtThen
<1>11. Start(Stmt(b), w) = <<b>> \o w
  BY DEF Start, Stmt, Task
<1>0. r = <<LoopOf(this)>> \o o
  OBVIOUS
<1> HIDE DEF z, t, ss, b, v, r, w, q
<1>12. Falls(T, r, z, o) /\ Start(z, o) = r
  <2>1. LoopSays(T, this, o, r, w) /\ TaskOfLoop(this, o, r, z)
    BY <1>0, <1>7, <1>9 DEF TaskOfLoop
  <2>2. QED
    BY <2>1, LoopTask
<1>13. Testing(T, m, x, y, v, r, o)
  <2>1. Ready(m[Len(code)], Len(code))
    BY <1>2, ReadyHere DEF Sources, Jumping
  <2>2. QED
    BY <1>5, <1>6, <1>7, <1>8, <2>1 DEF Testing, LoopSays, v
<1>14. /\ w \in Rests(T) /\ Latched(T, w, this, o) /\ Visible(r, TRUE) = <<b>> \o w
       /\ Class(T, w) = Class(T, r)
  <2>1. /\ w \in Rests(T) /\ Latched(T, w, this, o) /\ Visible(r, TRUE) = <<v.parts[1]>> \o w
        /\ Class(T, w) = Class(T, Tail(v.parts) \o r) /\ Statement(T, r, v, o)
    BY <1>7 DEF LoopSays, v
  <2>2. Tail(v.parts) = <<>>
    BY <1>4, <1>6, OnePart
  <2>3. r \in Rests(T)
    BY <2>1 DEF Statement
  <2>4. <<>> \o r = r
    BY <2>3, EmptyFirst
  <2>5. QED
    BY <1>6, <2>1, <2>2, <2>4 DEF b
<1>15. Linked(T, t, q, o) /\ q[1] = w /\ q[2] = o
  BY <1>3, <1>10, <1>12, <1>14, LinkedBoth DEF q
<1>16. ~Later(work, "loop") /\ ~Without(inside, work[1], {"while", "for", "function"})
  BY <1>2, NoLoopAfter DEF Sources
<1>17. Follows(T, inside, ss, z, t, q, r, o)
  <2>1. Children(this, ss)
    BY <1>4, <1>10 DEF Children, b
  <2>2. Always(T, Start(t[1], q[1])) = Always(T, Visible(r, TRUE))
    BY <1>10, <1>11, <1>14, <1>15
  <2>3. Len(ss) # 0 /\ Falls(T, r, z, q[Len(t)])
    BY <1>10, <1>12, <1>15
  <2>4. z.do \in {"then", "loop"}
    BY <1>9
  <2>5. QED
    BY <1>9, <1>10, <1>15, <1>16, <2>1, <2>2, <2>3, <2>4, Zenon DEF Follows
<1>18. Loops(T, inside, m, ss, z, t, q)
  <2>1. t[1].node = b /\ Lacks(inside, b, {"while", "for", "function"})
    <3>1. t[1].node = b
      BY <1>10, StmtIs
    <3>2. ReliableLoop(inside, this)
      BY <1>2, <1>3 DEF Loopy
    <3>3. 1 \in DOMAIN this.parts
      BY <1>4
    <3>4. QED
      BY <3>1, <3>2, <3>3 DEF ReliableLoop, b
  <2>2. Without(inside, t[1], {"while", "for", "function"})
    BY <2>1 DEF Without
  <2>3. \A k \in 1 .. Len(ss) : k = 1
    BY <1>10
  <2>4. m[Len(code)].left = Always(T, <<LoopOf(z.node)>> \o q[Len(t)])
    BY <1>8, <1>9, <1>10, <1>15 DEF r, v
  <2>5. z.node.kind = "while"
    BY <1>2, <1>9
  <2>6. Latched(T, q[1], z.node, q[Len(t)])
    BY <1>9, <1>10, <1>14, <1>15
  <2>7. QED
    BY <1>16, <2>2, <2>3, <2>4, <2>5, <2>6 DEF Loops
<1>19. ~FunctionTask(work[1]) /\ work[1].do \in Sources \ {"then"} /\ ~Assigns(work[1])
  BY <1>2 DEF FunctionTask, Sources, Assigns, this
<1>20. QED
  BY <1>1, <1>2, <1>9, <1>13, <1>17, <1>18, <1>19, FaithTest DEF o

LEMMA CarriesItself ==
  ASSUME NEW c, NEW m, Len(c) \in Nat
  PROVE  Carries(c, m, c, m)
BY DEF Carries

(* A for is its assignment and its loop. *)
LEMMA ForIs ==
  ASSUME NEW T, Trees(T), NEW n \in T, n.kind = "for", NEW o \in Rests(T), Statement(T, <<n>> \o o, n, o)
  PROVE  Always(T, <<n>> \o o) = Always(T, <<n.parts[1]>> \o (<<LoopOf(n)>> \o o))
<1>1. n.kind \notin Visibles
  BY DEF Visibles
<1>2. Lasts(T, <<n>> \o o, Unfold(<<n>> \o o)) /\ Unfolds(n, o, Unfold(<<n>> \o o))
  BY <1>1, SilentIs, Zenon
<1> DEFINE b == n.parts[1]
           v == LoopOf(n)
           N == Nodes(T)
<1>3. v = Node("loop", n.id, Tail(n.parts)) /\ v \in N
  BY LoopParts
<1>4. b \in N
  <2>1. b \in T
    BY PartsOf
  <2>2. QED
    BY <2>1 DEF Nodes
<1>5. o \in Seq(N)
  BY DEF Rests
<1>6. Always(T, <<n>> \o o) = Always(T, <<b, v>> \o o)
  BY <1>2, <1>3, Zenon DEF Lasts, Unfolds
<1> HIDE DEF b, v, N
<1>7. TwoFirst(b, v, o)
  BY <1>3, <1>4, <1>5, TwoBefore, Zenon
<1>8. QED
  BY <1>6, <1>7, Zenon DEF TwoFirst, b, v

LEMMA FaithFor ==
  ASSUME NEW T, NEW inside, NEW m, NEW R, Known(T, inside, m, R), GenFor
  PROVE  Faithful(T, inside)'
<1> DEFINE z == Task("for", this, -1)
           b == this.parts[1]
           t == <<Stmt(b), z>>
           o == R[1]
           r == <<LoopOf(this)>> \o o
           q == <<r, o>>
           ss == <<b>>
           n == Len(code)
<1>1. /\ Doing("for") /\ Emit(<<>>, t) /\ loop_start' = loop_start /\ loop_end' = loop_end
  BY DEF GenFor
<1>2. /\ work # <<>> /\ this.kind = "for" /\ work[1].do = "stmt"
      /\ Statement(T, <<this>> \o o, this, o) /\ m[n].left = Always(T, <<this>> \o o)
  BY <1>1, AtStatement
<1>3. /\ this \in T /\ o \in Rests(T) /\ Trees(T) /\ Insides(inside) /\ DOMAIN inside = T /\ n \in Nat
      /\ code \in Seq(Instructions(T)) /\ Right(T, line, code, m, Placed(work)) /\ work \in Seq(Tasks(T))
  BY <1>2, KnownFront DEF Known
<1>4. b \in T /\ DOMAIN this.parts = 1 .. Len(this.parts) /\ Len(this.parts) \in Nat \ {0}
  BY <1>2, <1>3, PartsOf
<1>5. line' = line /\ code' = code /\ work' = t \o Tail(work)
  <2>1. code \o <<>> = code
    BY <1>3
  <2>2. QED
    BY <1>1, <2>1 DEF Emit
<1>6. /\ z \in Tasks(T) /\ z.do = "for" /\ z.node = this
  BY <1>2, <1>3 DEF Task, Tasks, Dos
<1>7. /\ t \in Seq(Tasks(T)) /\ Then(t, ss, z) /\ Len(t) = 2 /\ t[1] = Stmt(b) /\ t[2] = z
      /\ ss \in Seq(T) /\ Len(ss) = 1 /\ ss[1] = b
  BY <1>4, <1>6, StmtThen
<1>8. r \in Rests(T)
  <2>1. LoopOf(this) \in Nodes(T)
    BY <1>2, <1>3, LoopParts
  <2>2. QED
    BY <1>3, <2>1, OneBefore
<1>9. Linked(T, t, q, o) /\ q[1] = r /\ q[2] = o
  <2>1. Start(z, o) = r
    BY <1>6 DEF Start
  <2> HIDE DEF r, z, t
  <2>2. QED
    BY <1>3, <1>7, <1>8, <2>1, LinkedBoth
<1>10. m[n].left = Always(T, Start(t[1], q[1]))
  <2>1. Start(Stmt(b), r) = <<b>> \o r
    BY DEF Start, Stmt, Task
  <2>2. m[n].left = Always(T, <<b>> \o r)
    BY <1>2, <1>3, ForIs
  <2> HIDE DEF r, t, q, b
  <2>3. QED
    BY <1>7, <1>9, <2>1, <2>2
<1> HIDE DEF z, t, q, r
<1>11. m[n].left = Always(T, IF Len(t) = 0 THEN o ELSE Start(t[1], q[1]))
  <2>1. Len(t) # 0
    BY <1>7
  <2>2. (IF Len(t) = 0 THEN o ELSE Start(t[1], q[1])) = Start(t[1], q[1])
    BY <2>1, Zenon
  <2>3. QED
    BY <1>10, <2>2, Zenon
<1>12. Children(this, ss)
  BY <1>4, <1>7 DEF Children
<1> HIDE DEF ss, b
<1>13. ~FunctionTask(work[1]) /\ ~Assigns(work[1]) /\ work[1].do # "func_end" /\ work[1].do \in Sources
       /\ work[1].do \notin Placers /\ work[1].node = this
  BY <1>2 DEF FunctionTask, Sources, Assigns, this, Placers
<1>14. \A k \in 1 .. Len(t) : Heir(T, inside, work[1], o, t[k], q[k])
  <2>1. ~Without(inside, work[1], {"while", "for", "function"})
    BY <1>2, <1>13, NoLoopAfter
  <2>2. z.do # "func_end" /\ (z.do \in Sources => z.node = work[1].node)
    BY <1>6, <1>13
  <2>3. Len(q) = Len(t) /\ work[1].node \in T /\ Children(work[1].node, ss)
    BY <1>3, <1>9, <1>12, <1>13 DEF Linked
  <2>4. QED
    BY <1>3, <1>7, <1>13, <2>1, <2>2, <2>3, Heirs
<1>15. \A k \in 1 .. Len(t) : Without(inside, t[k], {"function"})
  BY <1>2, <1>13, <1>14, NowWithout, Inherits
<1>16. Fresh(T, inside, code, m, t, q, loop_start, loop_end)
  <2>1. z.do \notin {"stmt", "func_end"} /\ z.do # "loop" /\ z.do \notin Placers
    BY <1>6 DEF Placers
  <2>2. QED
    BY <1>3, <1>7, <1>15, <2>1, FreshThen
<1>17. Placed(work) \subseteq Left(work) \cup Placed(t)
  BY <1>13, LeftIs
<1>18. Carries(code, m, code, m)
  BY <1>3, CarriesItself
<1> HIDE DEF n
<1>19. QED
  BY <1>1, <1>2, <1>3, <1>5, <1>7, <1>9, <1>11, <1>13, <1>14, <1>16, <1>17, <1>18, Advanced, Zenon DEF o, n

LEMMA LinkedThree ==
  ASSUME NEW T, NEW t, NEW y, NEW x, Len(t) = 3, t[2] = y, t[3] = x,
         NEW a \in Rests(T), NEW b \in Rests(T), NEW c \in Rests(T), NEW r,
         Class(T, a) = Class(T, Start(y, b)), Class(T, b) = Class(T, Start(x, c)),
         Class(T, c) = Class(T, r)
  PROVE  Linked(T, t, <<a, b, c>>, r) /\ <<a, b, c>>[1] = a /\ <<a, b, c>>[3] = c
<1> DEFINE q == <<a, b, c>>
<1>1. q \in Seq(Rests(T)) /\ Len(q) = 3 /\ q[1] = a /\ q[2] = b /\ q[3] = c
  OBVIOUS
<1>2. 1 .. Len(t) = {1, 2, 3}
  BY <1>1
<1> HIDE DEF q
<1>3. \A k \in {1, 2, 3} : Class(T, q[k]) = Class(T, IF k < Len(t) THEN Start(t[k + 1], q[k + 1]) ELSE r)
  BY <1>1
<1>4. QED
  BY <1>1, <1>2, <1>3 DEF Linked, q

(* The body of a for, and its update if it has one. *)
LEMMA ForLinked ==
  ASSUME NEW T, Trees(T), NEW n \in T, n.kind = "for", NEW o \in Rests(T),
         NEW r, NEW w, LoopSays(T, n, o, r, w), NEW z, Start(z, o) = r,
         NEW t, Then(t, Tail(n.parts), z)
  PROVE  \E q : Linked(T, t, q, o) /\ q[1] = w /\ q[Len(t)] = o
<1> DEFINE ss == Tail(n.parts)
<1>1. ss \in Seq(T) /\ Len(ss) \in 1 .. 2 /\ LoopOf(n).parts = ss
  <2>1. /\ Len(n.parts) \in 2 .. 3 /\ Tail(n.parts) \in Seq(T) /\ Len(Tail(n.parts)) = Len(n.parts) - 1
    BY PartsOf
  <2>2. LoopOf(n).parts = ss
    BY DEF LoopOf, Node
  <2>3. QED
    BY <2>1, <2>2
<1>2. /\ Len(t) = Len(ss) + 1 /\ t[Len(t)] = z /\ \A k \in 1 .. Len(ss) : t[k] = Stmt(ss[k])
  BY DEF Then
<1> HIDE DEF ss
<1>3. /\ w \in Rests(T) /\ Class(T, w) = Class(T, Tail(ss) \o r) /\ r \in Rests(T)
  BY <1>1 DEF LoopSays, Statement
<1>4. CASE Len(ss) = 1
  <2>1. Tail(ss) = <<>> /\ <<>> \o r = r
    BY <1>1, <1>3, <1>4, OnePart, EmptyFirst
  <2>2. Len(t) = 2 /\ t[2] = z
    BY <1>2, <1>4
  <2> DEFINE q == <<w, o>>
  <2>0. Class(T, w) = Class(T, Start(z, o)) /\ Class(T, o) = Class(T, o)
    BY <1>3, <2>1
  <2>3. Linked(T, t, q, o) /\ q[1] = w /\ q[2] = o
    BY <1>3, <2>0, <2>2, LinkedBoth
  <2> HIDE DEF q
  <2>4. QED
    BY <2>2, <2>3
<1>5. CASE Len(ss) = 2
  <2>1. Tail(ss) = <<ss[2]>>
    BY <1>1, <1>5, TwoParts
  <2>2. Len(t) = 3 /\ t[3] = z /\ t[2] = Stmt(ss[2])
    BY <1>2, <1>5
  <2>3. Start(Stmt(ss[2]), r) = Tail(ss) \o r
    BY <2>1 DEF Start, Stmt, Task
  <2> DEFINE q == <<w, r, o>>
  <2>0. Class(T, w) = Class(T, Start(Stmt(ss[2]), r)) /\ Class(T, r) = Class(T, Start(z, o))
    BY <1>3, <2>3
  <2>4. Linked(T, t, q, o) /\ q[1] = w /\ q[3] = o
    BY <1>3, <2>0, <2>2, LinkedThree
  <2> HIDE DEF q
  <2>5. QED
    BY <2>2, <2>4
<1>6. QED
  BY <1>1, <1>4, <1>5

LEMMA FaithForCondition ==
  ASSUME NEW T, NEW inside, NEW m, NEW R, Known(T, inside, m, R), Loopy(inside), GenForCondition
  PROVE  Faithful(T, inside)'
<1> DEFINE x == Named("cond", this.id)
           y == Jump("jump_if_false", -1)
           z == Task("loop", this, Len(code) + 1)
           ss == Tail(this.parts)
           t == Stmts(ss) \o <<z>>
           o == R[1]
           v == LoopOf(this)
           r == <<v>> \o o
           w == <<LatchOf(this), v>> \o o
<1>1. /\ work # <<>> /\ work[1].do = "for" /\ Emit(<<x, y>>, t)
      /\ loop_start' = Len(code) /\ loop_end' = Len(code) + 1
  BY DEF GenForCondition
<1>2. /\ this \in T /\ o \in Rests(T) /\ Trees(T) /\ Insides(inside) /\ DOMAIN inside = T /\ Len(code) \in Nat
      /\ work[1] \in Tasks(T) /\ m[Len(code)].left = Always(T, Start(work[1], o))
  BY <1>1, KnownFront DEF Known
<1>3. this.kind = "for" /\ work[1].node = this
  BY <1>1, <1>2 DEF Tasks, this
<1>4. /\ this.parts \in Seq(T) /\ Len(this.parts) \in 2 .. 3 /\ ss \in Seq(T) /\ ss # <<>>
      /\ Len(ss) = Len(this.parts) - 1
  BY <1>2, <1>3, PartsOf
<1>5. /\ x \in Instructions(T) /\ x.op = "cond" /\ x.id = this.id
      /\ y \in Instructions(T) /\ y.op = "jump_if_false"
  BY <1>2, InstructionsType DEF Others, JumpOps, Named
<1>6. /\ v.kind = "loop" /\ v.id = this.id /\ v.parts = ss
  BY <1>3 DEF LoopOf, Node
<1> HIDE DEF x, y
<1>7. LoopSays(T, this, o, r, w)
  BY <1>2, <1>3, LoopRests
<1>8. m[Len(code)].left = Always(T, r)
  BY <1>1, <1>2, <1>3 DEF Start
<1>9. /\ z \in Tasks(T) /\ z.do = "loop" /\ z.at = Len(code) + 1 /\ z.node = this
  BY <1>2, <1>3 DEF Task, Tasks, Dos
<1>10. t \in Seq(Tasks(T)) /\ Then(t, ss, z)
  BY <1>4, <1>9, StmtsThen
<1>0. r = <<LoopOf(this)>> \o o
  OBVIOUS
<1>11. Len(ss) \in 1 .. 2 /\ (\A k \in 1 .. Len(ss) : ss[k] = this.parts[k + 1])
  BY <1>4
<1> HIDE DEF z, t, ss, v, r, w
<1>12. Falls(T, r, z, o) /\ Start(z, o) = r
  <2>1. LoopSays(T, this, o, r, w) /\ TaskOfLoop(this, o, r, z)
    BY <1>0, <1>7, <1>9 DEF TaskOfLoop
  <2>2. QED
    BY <2>1, LoopTask
<1>13. Testing(T, m, x, y, v, r, o)
  <2>1. Ready(m[Len(code)], Len(code))
    BY <1>1, <1>3, ReadyHere DEF Sources, Jumping
  <2>2. QED
    BY <1>5, <1>6, <1>7, <1>8, <2>1 DEF Testing, LoopSays, v
<1>14. /\ Latched(T, w, this, o) /\ Visible(r, TRUE) = <<ss[1]>> \o w
  BY <1>6, <1>7 DEF LoopSays, v
<1>15. PICK q : Linked(T, t, q, o) /\ q[1] = w /\ q[Len(t)] = o
  <2>1. Then(t, Tail(this.parts), z)
    BY <1>10 DEF ss
  <2>2. QED
    BY <1>2, <1>3, <1>7, <1>12, <2>1, ForLinked
<1>16. ~Later(work, "loop") /\ ~Without(inside, work[1], {"while", "for", "function"})
  BY <1>1, <1>3, NoLoopAfter DEF Sources
<1>17. /\ Len(t) = Len(ss) + 1 /\ \A k \in 1 .. Len(ss) : t[k] = Stmt(ss[k]) /\ t[k].do = "stmt" /\ t[k].node = ss[k]
  <2>1. Len(t) = Len(ss) + 1 /\ \A k \in 1 .. Len(ss) : t[k] = Stmt(ss[k])
    BY <1>10 DEF Then
  <2>2. QED
    BY <2>1, StmtIs
<1>18. Follows(T, inside, ss, z, t, q, r, o)
  <2>1. Children(this, ss)
    <3>1. \A k \in 1 .. Len(ss) : k + 1 \in DOMAIN this.parts
      BY <1>4, <1>11
    <3>2. QED
      BY <1>11, <3>1 DEF Children
  <2>2. Always(T, Start(t[1], q[1])) = Always(T, Visible(r, TRUE))
    <3>1. Start(Stmt(ss[1]), w) = <<ss[1]>> \o w
      BY DEF Start, Stmt, Task
    <3>2. t[1] = Stmt(ss[1])
      BY <1>11, <1>17
    <3>3. QED
      BY <1>14, <1>15, <3>1, <3>2
  <2>3. Len(ss) # 0 /\ Falls(T, r, z, q[Len(t)])
    BY <1>11, <1>12, <1>15
  <2>4. z.do \in {"then", "loop"}
    BY <1>9
  <2>5. ss \in Seq(T)
    BY <1>4 DEF ss
  <2>6. QED
    BY <1>9, <1>10, <1>15, <1>16, <2>1, <2>2, <2>3, <2>4, <2>5, Zenon DEF Follows
<1>19. Loops(T, inside, m, ss, z, t, q)
  <2>1. ReliableLoop(inside, this)
    BY <1>2, <1>3 DEF Loopy
  <2>2. ASSUME NEW k \in 1 .. Len(ss)
        PROVE  /\ Without(inside, t[k], {"while", "for", "function"})
               /\ Without(inside, t[k], {"continue"})
    <3>1. k + 1 \in DOMAIN this.parts /\ t[k].node = this.parts[k + 1]
      BY <1>4, <1>11, <1>17
    <3>2. QED
      BY <1>3, <2>1, <3>1 DEF ReliableLoop, Without
  <2>3. ASSUME NEW k \in 1 .. Len(ss), k # 1 PROVE Assigns(t[k])
    <3>1. k = 2 /\ Len(this.parts) = 3 /\ t[k].node = this.parts[3] /\ t[k].do = "stmt"
      BY <1>4, <1>11, <1>17, <2>3
    <3>2. this.parts[3].kind \in Assignments
      BY <1>2, <1>3, <3>1 DEF Trees, WellFormed
    <3>3. QED
      BY <3>1, <3>2 DEF Assigns, Assignments
  <2>4. m[Len(code)].left = Always(T, <<LoopOf(z.node)>> \o q[Len(t)])
    BY <1>0, <1>8, <1>9, <1>15
  <2>5. z.node.kind = "for"
    BY <1>3, <1>9
  <2>6. Latched(T, q[1], z.node, q[Len(t)])
    BY <1>9, <1>14, <1>15
  <2>7. QED
    BY <1>16, <2>2, <2>3, <2>4, <2>5, <2>6 DEF Loops
<1>20. ~FunctionTask(work[1]) /\ work[1].do \in Sources \ {"then"} /\ ~Assigns(work[1])
  BY <1>1 DEF FunctionTask, Sources, Assigns
<1>21. QED
  BY <1>1, <1>9, <1>13, <1>18, <1>19, <1>20, FaithTest DEF o

(* What is left of the statements of a block. *)
Remains(ss, k) == SubSeq(ss, k + 1, Len(ss))

LEMMA RemainsIs ==
  ASSUME NEW T, NEW ss \in Seq(T), NEW k \in 0 .. Len(ss)
  PROVE  /\ Remains(ss, k) \in Seq(T) /\ Len(Remains(ss, k)) = Len(ss) - k
         /\ \A j \in 1 .. Len(ss) - k : Remains(ss, k)[j] = ss[k + j]
<1>1. Len(ss) \in Nat /\ k + 1 \in 1 .. Len(ss) + 1 /\ \A j \in 1 .. Len(ss) : ss[j] \in T
  OBVIOUS
<1> DEFINE n == Len(ss)
           u == SubSeq(ss, k + 1, n)
<1>2. u = [j \in 1 .. n - k |-> ss[k + j]]
  <2>1. SubSeq(ss, k + 1, n) = [j \in 1 .. (1 + n) - (k + 1) |-> ss[(k + 1) + j - 1]]
    OBVIOUS
  <2>2. (1 + n) - (k + 1) = n - k /\ \A j \in 1 .. n - k : (k + 1) + j - 1 = k + j
    BY <1>1
  <2>3. QED
    BY <2>1, <2>2
<1> HIDE DEF n, u
<1>3. n - k \in Nat /\ \A j \in 1 .. n - k : ss[k + j] \in T
  BY <1>1 DEF n
<1>4. u \in Seq(T) /\ Len(u) = n - k /\ \A j \in 1 .. n - k : u[j] = ss[k + j]
  BY <1>2, <1>3
<1>5. QED
  BY <1>4 DEF Remains, n, u

LEMMA RemainsAre ==
  ASSUME NEW T, NEW ss \in Seq(T)
  PROVE  /\ Remains(ss, 0) = ss /\ Remains(ss, Len(ss)) = <<>>
         /\ \A k \in 0 .. Len(ss) : Remains(ss, k) \in Seq(T)
         /\ \A k \in 0 .. Len(ss) - 1 :
              ss[k + 1] \in T /\ <<ss[k + 1]>> \o Remains(ss, k + 1) = Remains(ss, k)
<1>1. Len(ss) \in Nat /\ DOMAIN ss = 1 .. Len(ss) /\ \A k \in 1 .. Len(ss) : ss[k] \in T
  OBVIOUS
<1>2. ASSUME NEW k \in 0 .. Len(ss)
      PROVE  /\ Remains(ss, k) \in Seq(T) /\ Len(Remains(ss, k)) = Len(ss) - k
             /\ \A j \in 1 .. Len(ss) - k : Remains(ss, k)[j] = ss[k + j]
  BY RemainsIs
<1>3. Remains(ss, 0) = ss
  <2> DEFINE u == Remains(ss, 0)
  <2>0. 0 \in 0 .. Len(ss) /\ Len(ss) - 0 = Len(ss) /\ \A j \in 1 .. Len(ss) : 0 + j = j
    BY <1>1
  <2>1. u \in Seq(T) /\ Len(u) = Len(ss) /\ \A j \in 1 .. Len(ss) : u[j] = ss[j]
    <3>1. /\ u \in Seq(T) /\ Len(u) = Len(ss) - 0
          /\ \A j \in 1 .. Len(ss) - 0 : u[j] = ss[0 + j]
      BY <1>2, <2>0, Zenon
    <3> HIDE DEF u
    <3>2. QED
      BY <2>0, <3>1
  <2> HIDE DEF u
  <2>2. u = ss
    BY <2>1
  <2>3. QED
    BY <2>2 DEF u
<1>4. Remains(ss, Len(ss)) = <<>>
  <2>1. Remains(ss, Len(ss)) \in Seq(T) /\ Len(Remains(ss, Len(ss))) = 0
    <3> DEFINE n == Len(ss)
    <3>1. n \in 0 .. Len(ss) /\ n - n = 0
      BY <1>1
    <3>2. Remains(ss, n) \in Seq(T) /\ Len(Remains(ss, n)) = Len(ss) - n
      BY <1>2, <3>1, Zenon
    <3>3. QED
      BY <3>1, <3>2
  <2>2. QED
    BY <2>1, EmptyIs, Zenon
<1>5. ASSUME NEW k \in 0 .. Len(ss) - 1
      PROVE  ss[k + 1] \in T /\ <<ss[k + 1]>> \o Remains(ss, k + 1) = Remains(ss, k)
  <2> DEFINE a == ss[k + 1]
             u == Remains(ss, k + 1)
             v == Remains(ss, k)
             z == <<a>> \o u
  <2>1. a \in T /\ k \in Nat
    BY <1>1
  <2>2. u \in Seq(T) /\ Len(u) = Len(ss) - (k + 1) /\ \A j \in 1 .. Len(ss) - (k + 1) : u[j] = ss[(k + 1) + j]
    <3>1. k + 1 \in 0 .. Len(ss)
      BY <1>1
    <3>2. QED
      BY <1>2, <3>1, Zenon
  <2>3. v \in Seq(T) /\ Len(v) = Len(ss) - k /\ \A j \in 1 .. Len(ss) - k : v[j] = ss[k + j]
    <3>1. k \in 0 .. Len(ss)
      BY <1>1
    <3>2. QED
      BY <1>2, <3>1, Zenon
  <2> HIDE DEF u, v
  <2>4. z \in Seq(T) /\ Len(z) = Len(u) + 1 /\ z[1] = a /\ \A j \in 2 .. Len(z) : z[j] = u[j - 1]
    BY <2>1, <2>2
  <2> HIDE DEF z
  <2>5. \A j \in 1 .. Len(z) : z[j] = v[j]
    <3> TAKE j \in 1 .. Len(z)
    <3>1. CASE j = 1
      BY <1>1, <2>1, <2>2, <2>3, <2>4, <3>1
    <3>2. CASE j # 1
      <4>1. j - 1 \in 1 .. Len(ss) - (k + 1) /\ j \in 1 .. Len(ss) - k /\ (k + 1) + (j - 1) = k + j
             /\ j \in 2 .. Len(z)
        BY <1>1, <2>1, <2>2, <2>4, <3>2
      <4>2. QED
        BY <2>2, <2>3, <2>4, <4>1
    <3>3. QED
      BY <3>1, <3>2
  <2>6. Len(z) = Len(v)
    BY <1>1, <2>1, <2>2, <2>3, <2>4
  <2>7. z = v
    BY <2>3, <2>4, <2>5, <2>6
  <2>8. QED
    BY <2>1, <2>7 DEF z, u, v
<1>6. QED
  BY <1>2, <1>3, <1>4, <1>5

LEMMA InRests ==
  ASSUME NEW T, NEW P \in Seq(T)
  PROVE  P \in Rests(T)
<1> DEFINE N == Nodes(T)
<1>1. T \subseteq N
  BY DEF Nodes
<1> HIDE DEF N
<1>2. P \in Seq(N)
  BY <1>1
<1>3. QED
  BY <1>2 DEF Rests, N

Peels(ss, k, o) == <<ss[k + 1]>> \o (Remains(ss, k + 1) \o o) = Remains(ss, k) \o o

LEMMA RemainsBefore ==
  ASSUME NEW T, NEW ss \in Seq(T), NEW o \in Rests(T)
  PROVE  /\ \A k \in 0 .. Len(ss) : Remains(ss, k) \o o \in Rests(T)
         /\ \A k \in 0 .. Len(ss) - 1 : Peels(ss, k, o)
         /\ Remains(ss, Len(ss)) \o o = o
<1>1. \A k \in 0 .. Len(ss) : Remains(ss, k) \o o \in Rests(T)
  <2> TAKE k \in 0 .. Len(ss)
  <2>1. Remains(ss, k) \in Rests(T)
    BY RemainsAre, InRests
  <2>2. QED
    BY <2>1, Joined
<1>2. ASSUME NEW k \in 0 .. Len(ss) - 1
      PROVE  <<ss[k + 1]>> \o (Remains(ss, k + 1) \o o) = Remains(ss, k) \o o
  <2> DEFINE a == ss[k + 1]
             u == Remains(ss, k + 1)
             v == Remains(ss, k)
             N == Nodes(T)
             P == <<a>>
  <2>1. a \in T /\ P \o u = v
    BY RemainsAre
  <2>2. k + 1 \in 0 .. Len(ss)
    OBVIOUS
  <2>3. u \in Seq(T)
    BY <2>2, RemainsAre
  <2>4. u \in Seq(N) /\ P \in Seq(N) /\ o \in Seq(N)
    <3>1. u \in Rests(T)
      BY <2>3, InRests
    <3>2. P \in Seq(T)
      BY <2>1
    <3>3. P \in Rests(T)
      BY <3>2, InRests
    <3>4. QED
      BY <3>1, <3>3 DEF Rests
  <2> HIDE DEF a, u, v, N, P
  <2>5. Associates(P, u, o)
    BY <2>4, Associate
  <2>6. QED
    BY <2>1, <2>5 DEF Associates, P, a, u, v
<1>3. Remains(ss, Len(ss)) \o o = o
  <2>1. Remains(ss, Len(ss)) = <<>>
    BY RemainsAre, Zenon
  <2>2. <<>> \o o = o
    BY EmptyFirst
  <2>3. QED
    BY <2>1, <2>2
<1>4. QED
  BY <1>1, <1>2, <1>3 DEF Peels

(* What is left after each statement of a block, and after all of them. *)
Leavings(ss, o) == [k \in 1 .. Len(ss) + 1 |-> IF k <= Len(ss) THEN Remains(ss, k) \o o ELSE o]

Leaves(T, t, q, ss, o) ==
  /\ Linked(T, t, q, o) /\ Start(t[1], q[1]) = ss \o o
  /\ \A k \in 1 .. Len(t) : \E P \in Seq(T) : q[k] = P \o o

LEMMA LeavingsAre ==
  ASSUME NEW T, NEW ss \in Seq(T), NEW o \in Rests(T), NEW x, Start(x, o) = o,
         NEW t, Then(t, ss, x)
  PROVE  Leaves(T, t, Leavings(ss, o), ss, o)
<1> DEFINE n == Len(ss)
           q == Leavings(ss, o)
<1>1. n \in Nat /\ Len(t) = n + 1 /\ t[n + 1] = x /\ \A k \in 1 .. n : t[k] = Stmt(ss[k])
  BY DEF Then
<1>2. /\ DOMAIN q = 1 .. n + 1 /\ q[n + 1] = o /\ \A k \in 1 .. n : q[k] = Remains(ss, k) \o o
  BY <1>1 DEF Leavings
<1>3. q \in Seq(Rests(T)) /\ Len(q) = n + 1
  <2>1. \A k \in 1 .. n + 1 : q[k] \in Rests(T)
    <3> TAKE k \in 1 .. n + 1
    <3>1. CASE k = n + 1
      BY <1>2, <3>1
    <3>2. CASE k \in 1 .. n
      <4>1. k \in 0 .. Len(ss)
        BY <3>2
      <4>2. Remains(ss, k) \o o \in Rests(T)
        BY <4>1, RemainsBefore, Zenon
      <4>3. QED
        BY <1>2, <3>2, <4>2
    <3>3. QED
      BY <1>1, <3>1, <3>2
  <2>2. q = [k \in 1 .. n + 1 |-> q[k]] /\ n \in Nat
    BY <1>1 DEF Leavings
  <2> DEFINE S == Rests(T)
  <2>3. \A k \in 1 .. n + 1 : q[k] \in S
    BY <2>1
  <2> HIDE DEF q, n, S
  <2>4. q \in Seq(S) /\ Len(q) = n + 1
    BY <2>2, <2>3
  <2>5. QED
    BY <2>4 DEF S
<1> HIDE DEF n, q
<1>4. \A k \in 0 .. n - 1 : Start(t[k + 1], q[k + 1]) = Remains(ss, k) \o o
  <2> TAKE k \in 0 .. n - 1
  <2>1. t[k + 1] = Stmt(ss[k + 1]) /\ q[k + 1] = Remains(ss, k + 1) \o o
    BY <1>1, <1>2
  <2>2. Start(Stmt(ss[k + 1]), q[k + 1]) = <<ss[k + 1]>> \o q[k + 1]
    BY DEF Start, Stmt, Task
  <2>3. k \in 0 .. Len(ss) - 1
    BY DEF n
  <2>4. Peels(ss, k, o)
    BY <2>3, RemainsBefore, Zenon
  <2>5. QED
    BY <2>1, <2>2, <2>4, Zenon DEF Peels
<1>5. Remains(ss, n) \o o = o
  BY RemainsBefore DEF n
<1>6. Start(t[n + 1], q[n + 1]) = Remains(ss, n) \o o
  BY <1>1, <1>2, <1>5
<1>7. \A k \in 0 .. n : Start(t[k + 1], q[k + 1]) = Remains(ss, k) \o o
  <2> TAKE k \in 0 .. n
  <2>1. k \in 0 .. n - 1 \/ k = n
    BY <1>1
  <2>2. QED
    BY <1>4, <1>6, <2>1
<1>8. Linked(T, t, q, o)
  <2>1. ASSUME NEW k \in 1 .. n + 1
        PROVE  Class(T, q[k]) = Class(T, IF k < n + 1 THEN Start(t[k + 1], q[k + 1]) ELSE o)
    <3>1. CASE k = n + 1
      BY <1>1, <1>2, <3>1
    <3>2. CASE k \in 1 .. n
      <4>1. k < n + 1 /\ k \in 0 .. n
        BY <1>1, <3>2
      <4>2. q[k] = Start(t[k + 1], q[k + 1])
        BY <1>2, <1>7, <3>2, <4>1
      <4>3. QED
        BY <4>1, <4>2
    <3>3. QED
      BY <1>1, <3>1, <3>2
  <2>2. QED
    BY <1>1, <1>3, <2>1 DEF Linked
<1>9. Start(t[1], q[1]) = ss \o o
  <2>1. 0 \in 0 .. n /\ 0 + 1 = 1
    BY <1>1
  <2>2. Start(t[0 + 1], q[0 + 1]) = Remains(ss, 0) \o o
    BY <1>7, <2>1
  <2>3. QED
    BY <2>1, <2>2, RemainsAre
<1>10. \A k \in 1 .. Len(t) : \E P \in Seq(T) : q[k] = P \o o
  <2> TAKE k \in 1 .. Len(t)
  <2>1. CASE k = n + 1
    <3>1. q[k] = Remains(ss, n) \o o /\ Remains(ss, n) \in Seq(T)
      BY <1>1, <1>2, <1>5, <2>1, RemainsAre DEF n
    <3>2. QED
      BY <3>1
  <2>2. CASE k \in 1 .. n
    <3>1. q[k] = Remains(ss, k) \o o /\ Remains(ss, k) \in Seq(T)
      BY <1>1, <1>2, <2>2, RemainsAre DEF n
    <3>2. QED
      BY <3>1
  <2>3. k = n + 1 \/ k \in 1 .. n
    BY <1>1
  <2>4. QED
    BY <2>1, <2>2, <2>3, Zenon
<1>11. QED
  BY <1>8, <1>9, <1>10 DEF q, Leaves

LEMMA BlockIs ==
  ASSUME NEW T, NEW n, n.kind = "block", NEW o, Statement(T, <<n>> \o o, n, o)
  PROVE  Always(T, <<n>> \o o) = Always(T, n.parts \o o)
<1>1. n.kind \notin Visibles
  BY DEF Visibles
<1>2. Lasts(T, <<n>> \o o, Unfold(<<n>> \o o)) /\ Unfolds(n, o, Unfold(<<n>> \o o))
  BY <1>1, SilentIs, Zenon
<1>3. QED
  BY <1>2, Zenon DEF Lasts, Unfolds

LEMMA FaithBlock ==
  ASSUME NEW T, NEW inside, NEW m, NEW R, Known(T, inside, m, R), GenBlock
  PROVE  Faithful(T, inside)'
<1> DEFINE x == Ins("nop")
           z == Task("end", this, -1)
           ss == this.parts
           t == Stmts(ss) \o <<z>>
           o == R[1]
           q == Leavings(ss, o)
           n == Len(code)
           d == Append(code, x)
           Q == Placed(work)
<1>1. /\ Doing("block") /\ Emit(<<x>>, t) /\ loop_start' = loop_start /\ loop_end' = loop_end
  BY DEF GenBlock, statics
<1>2. /\ work # <<>> /\ this.kind = "block" /\ work[1].do = "stmt"
      /\ Statement(T, <<this>> \o o, this, o) /\ m[n].left = Always(T, <<this>> \o o)
  BY <1>1, AtStatement
<1>3. /\ this \in T /\ o \in Rests(T) /\ Trees(T) /\ Insides(inside) /\ DOMAIN inside = T /\ n \in Nat
      /\ code \in Seq(Instructions(T)) /\ Right(T, line, code, m, Q) /\ work \in Seq(Tasks(T))
      /\ Spot(m[n], n)
  BY <1>2, KnownFront DEF Known
<1>4. ss \in Seq(T)
  BY <1>3, PartsOf
<1>5. line' = line /\ code' = d /\ work' = t \o Tail(work)
  <2>1. code \o <<x>> = Append(code, x)
    BY <1>3
  <2>2. QED
    BY <1>1, <2>1 DEF Emit
<1>6. /\ z \in Tasks(T) /\ z.do = "end"
  BY <1>3 DEF Task, Tasks, Dos
<1>7. x \in Instructions(T) /\ x.op = "nop"
  BY InstructionsType DEF Others
<1>8. t \in Seq(Tasks(T)) /\ Then(t, ss, z)
  BY <1>4, <1>6, StmtsThen
<1> HIDE DEF x, z, t
<1>9. /\ Linked(T, t, q, o) /\ Start(t[1], q[1]) = ss \o o
      /\ \A k \in 1 .. Len(t) : \E P \in Seq(T) : q[k] = P \o o
  <2>1. Start(z, o) = o
    BY <1>6 DEF Start
  <2>2. Leaves(T, t, q, ss, o)
    BY <1>3, <1>4, <1>8, <2>1, LeavingsAre
  <2>3. QED
    BY <2>2 DEF Leaves
<1>10. m[n].left = Always(T, ss \o o)
  BY <1>2, BlockIs
<1> DEFINE left == m[n].left
<1>11. PICK p : Grew(T, line, code, m, d, p, Q, x, left)
  <2>1. Does(T, x, m[n].left, left)
    BY <1>7, DoesNothing
  <2>2. x.op \notin FunctionOps /\ x.op # "return" /\ Goes(x, n, m, n)
    BY <1>7 DEF FunctionOps, Goes, JumpOps
  <2> HIDE DEF left
  <2>3. QED
    BY <1>3, <1>7, <2>1, <2>2, Growing
<1>12. /\ Right(T, line, d, p, Q) /\ Carries(code, m, d, p) /\ p[Len(d)].left = Always(T, Start(t[1], q[1]))
  BY <1>9, <1>10, <1>11 DEF Grew
<1> HIDE DEF d, q
<1>13. ~FunctionTask(work[1]) /\ ~Assigns(work[1]) /\ work[1].do # "func_end" /\ work[1].do \in Sources
       /\ work[1].do \notin Placers /\ work[1].node = this
  BY <1>2 DEF FunctionTask, Sources, Assigns, this, Placers
<1>14. Len(t) = Len(ss) + 1 /\ Len(ss) \in Nat /\ Len(q) = Len(t)
  BY <1>8, <1>9 DEF Then, Linked
<1>15. Children(work[1].node, ss)
  BY <1>4, <1>13 DEF Children
<1> HIDE DEF ss
<1>16. \A k \in 1 .. Len(t) : Heir(T, inside, work[1], o, t[k], q[k])
  <2>1. z.do # "func_end" /\ z.do \notin Sources
    BY <1>6 DEF Sources
  <2>2. work[1].node \in T
    BY <1>3, <1>13
  <2>3. QED
    BY <1>3, <1>4, <1>8, <1>9, <1>13, <1>14, <1>15, <2>1, <2>2, Heirs
<1>17. \A k \in 1 .. Len(t) : Without(inside, t[k], {"function"})
  BY <1>2, <1>13, <1>16, NowWithout, Inherits
<1>18. Fresh(T, inside, d, p, t, q, loop_start, loop_end)
  <2>1. z.do \notin {"stmt", "func_end"} /\ z.do # "loop" /\ z.do \notin Placers
    BY <1>6 DEF Placers
  <2>2. QED
    BY <1>3, <1>4, <1>8, <1>17, <2>1, FreshThen
<1>19. p[Len(d)].left = Always(T, IF Len(t) = 0 THEN o ELSE Start(t[1], q[1]))
  <2>1. Len(t) # 0
    BY <1>14
  <2>2. (IF Len(t) = 0 THEN o ELSE Start(t[1], q[1])) = Start(t[1], q[1])
    BY <2>1, Zenon
  <2>3. QED
    BY <1>12, <2>2, Zenon
<1>20. Q \subseteq Left(work) \cup Placed(t)
  BY <1>13, LeftIs
<1> HIDE DEF Q
<1>21. QED
  BY <1>1, <1>2, <1>5, <1>8, <1>9, <1>12, <1>13, <1>16, <1>18, <1>19, <1>20, Advanced, Zenon DEF o

(* The tasks t of w[1] and the later ones of w together. *)
EachLater(T, inside, l, d, p, w, R, s, e) ==
  \A k \in 2 .. Len(w) : Each(T, inside, l, d, p, w[k], R[k], s, e)

LEMMA GatheredEach ==
  ASSUME NEW z, NEW t, NEW w, Replaced(z, t, w), NEW S, NEW q, NEW R, Replaced(S, q, R),
         Len(q) = Len(t), Len(R) = Len(w),
         NEW T, NEW inside, NEW l, NEW d, NEW p, NEW s, NEW e,
         EachLater(T, inside, l, d, p, w, R, s, e), AllEach(T, inside, l, d, p, t, q, s, e)
  PROVE  AllEach(T, inside, l, d, p, z, S, s, e)
<1>1. \A k \in 1 .. Len(z) :
        \/ k \in 1 .. Len(t) /\ z[k] = t[k] /\ S[k] = q[k]
        \/ \E h \in 2 .. Len(w) : k = Len(t) + h - 1 /\ z[k] = w[h] /\ S[k] = R[h]
  BY Came
<1>2. /\ \A k \in 1 .. Len(t) : Each(T, inside, l, d, p, t[k], q[k], s, e)
      /\ \A k \in 2 .. Len(w) : Each(T, inside, l, d, p, w[k], R[k], s, e)
  BY DEF AllEach, EachLater
<1> SUFFICES ASSUME NEW k \in 1 .. Len(z) PROVE Each(T, inside, l, d, p, z[k], S[k], s, e)
  BY DEF AllEach
<1>3. QED
  BY <1>1, <1>2, Zenon

LEMMA GatheredPairs ==
  ASSUME NEW z, NEW t, NEW w, Replaced(z, t, w), NEW S, NEW q, NEW R, Replaced(S, q, R),
         Len(q) = Len(t), Len(R) = Len(w),
         NEW T, NEW inside, AllPairs(T, inside, w, R),
         AllPairs(T, inside, t, q),
         \A j \in 1 .. Len(t) : \A h \in 2 .. Len(w) : Pair(T, inside, t[j], q[j], w[h], R[h])
  PROVE  AllPairs(T, inside, z, S)
<1> SUFFICES ASSUME NEW k \in 1 .. Len(z), NEW j \in 1 .. k - 1
             PROVE  Pair(T, inside, z[j], S[j], z[k], S[k])
  BY DEF AllPairs
<1>1. Len(w) \in Nat \ {0} /\ Len(t) \in Nat /\ Len(z) \in Nat
  BY DEF Replaced
<1>2. j \in 1 .. Len(z) /\ j < k /\ k \in Nat /\ j \in Nat
  BY <1>1
<1>3. \/ k \in 1 .. Len(t) /\ z[k] = t[k] /\ S[k] = q[k]
      \/ \E h \in 2 .. Len(w) : k = Len(t) + h - 1 /\ z[k] = w[h] /\ S[k] = R[h]
  BY Came
<1>4. \/ j \in 1 .. Len(t) /\ z[j] = t[j] /\ S[j] = q[j]
      \/ \E h \in 2 .. Len(w) : j = Len(t) + h - 1 /\ z[j] = w[h] /\ S[j] = R[h]
  BY <1>2, Came
<1>5. CASE k \in 1 .. Len(t) /\ z[k] = t[k] /\ S[k] = q[k]
  <2>1. j \in 1 .. Len(t) /\ (\A h \in 2 .. Len(w) : j # Len(t) + h - 1)
    BY <1>1, <1>2, <1>5
  <2>2. Pair(T, inside, t[j], q[j], t[k], q[k])
    BY <1>5 DEF AllPairs
  <2>3. QED
    BY <1>4, <1>5, <2>1, <2>2, Zenon
<1>6. ASSUME NEW h \in 2 .. Len(w), k = Len(t) + h - 1, z[k] = w[h], S[k] = R[h]
      PROVE  Pair(T, inside, z[j], S[j], z[k], S[k])
  <2>1. CASE j \in 1 .. Len(t) /\ z[j] = t[j] /\ S[j] = q[j]
    BY <1>6, <2>1, Zenon
  <2>2. ASSUME NEW g \in 2 .. Len(w), j = Len(t) + g - 1, z[j] = w[g], S[j] = R[g]
        PROVE  Pair(T, inside, z[j], S[j], z[k], S[k])
    <3>1. Len(t) + g - 1 < Len(t) + h - 1
      BY <1>2, <1>6, <2>2
    <3>2. h \in 1 .. Len(w) /\ g \in 1 .. h - 1
      BY <1>1, <3>1, InOrder
    <3>3. Pair(T, inside, w[g], R[g], w[h], R[h])
      BY <3>2 DEF AllPairs
    <3>4. QED
      BY <1>6, <2>2, <3>3, Zenon
  <2>3. QED
    BY <1>4, <2>1, <2>2
<1>7. QED
  BY <1>3, <1>5, <1>6

(* The start or the end of a function: the later tasks have no jumps.      *)
LEMMA SwitchedEach ==
  ASSUME NEW T, NEW inside, NEW l, NEW c, NEW m, NEW x, NEW r, NEW y, NEW o, NEW start, NEW end,
         Each(T, inside, l, c, m, y, o, start, end), Pair(T, inside, x, r, y, o),
         FunctionTask(x) \/ x.do = "func_end",
         FunctionTask(x) => ~Without(inside, x, {"function"}),
         NEW d, NEW p, p[Len(d)].of = -1 => x.do = "func_end", NEW s, NEW e
  PROVE  Each(T, inside, l, d, p, y, o, s, e)
<1>1. Without(inside, y, Jumping) /\ y.do \notin Placers /\ y.do # "func_end"
  BY DEF Pair
<1>2. FunctionTask(y) => FunctionIn(inside, l, y.node)
  BY DEF Each
<1>3. p[Len(d)].of = -1 => FunctionTask(y) \/ Without(inside, y, {"function", "return"})
  BY DEF Pair
<1>4. QED
  BY <1>1, <1>2, <1>3 DEF Each, Placers

LEMMA SwitchedPair ==
  ASSUME NEW T, NEW inside, NEW l, NEW c, NEW m, NEW x, NEW r, NEW y, NEW o, NEW start, NEW end,
         Each(T, inside, l, c, m, y, o, start, end), Pair(T, inside, x, r, y, o),
         FunctionTask(x) \/ x.do = "func_end",
         FunctionTask(x) => ~Without(inside, x, {"function"}),
         NEW v, NEW q, v.do = "func_end" => m[Len(c)].of = -1
  PROVE  Pair(T, inside, v, q, y, o)
<1>1. Without(inside, y, Jumping) /\ y.do \notin Placers /\ y.do # "func_end"
  BY DEF Pair
<1>2. v.do = "func_end" => FunctionTask(y) \/ Without(inside, y, {"function", "return"})
  BY DEF Each
<1>3. QED
  BY <1>1, <1>2 DEF Pair, Placers

Switches(T, inside, l, m, n, x, p, a) ==
  /\ FunctionTask(x) \/ x.do = "func_end"
  /\ FunctionTask(x) => ~Without(inside, x, {"function"}) /\ m[n].of = -1
  /\ p[a].of = -1 => x.do = "func_end"
  /\ Spot(p[a], a) /\ p[0] = m[0]

LEMMA Switching ==
  ASSUME NEW T, NEW inside, NEW l, NEW c, NEW m, NEW w \in Seq(Tasks(T)), w # <<>>, NEW R,
         NEW start, NEW end, Faith(T, inside, l, c, m, w, R, start, end),
         NEW t \in Seq(Tasks(T)), NEW q, Linked(T, t, q, R[1]),
         NEW d, NEW p, Switches(T, inside, l, m, Len(c), w[1], p, Len(d)),
         Right(T, l, d, p, Placed(w)), w[1].do \notin Placers,
         p[Len(d)].left = Always(T, IF Len(t) = 0 THEN R[1] ELSE Start(t[1], q[1])),
         p[Len(d)].of # -1 => Has(t, "func_end"),
         NEW s, NEW e,
         \A k \in 1 .. Len(t) : /\ Each(T, inside, l, d, p, t[k], q[k], s, e)
                                /\ t[k].do = "func_end" => m[Len(c)].of = -1
                                /\ \A j \in 1 .. k - 1 : Pair(T, inside, t[j], q[j], t[k], q[k])
  PROVE  Faith(T, inside, l, d, p, t \o Tail(w), q \o Tail(R), s, e)
<1> DEFINE z == t \o Tail(w)
           S == q \o Tail(R)
<1>1. /\ Threads(T, z, S) /\ Replaced(z, t, w) /\ Replaced(S, q, R)
      /\ Class(T, Coming(z, S, 1)) = Class(T, IF Len(t) = 0 THEN R[1] ELSE Start(t[1], q[1]))
  BY ThreadsGo DEF Faith
<1>2. Len(R) = Len(w) /\ Len(q) = Len(t) /\ Len(w) \in Nat \ {0}
  BY DEF Faith, Threads, Linked
<1> HIDE DEF z, S
<1>3. /\ \A k \in 1 .. Len(w) : Each(T, inside, l, c, m, w[k], R[k], start, end)
      /\ AllPairs(T, inside, w, R)
      /\ m[0] = [left |-> Always(T, l), of |-> -1, place |-> 0, back |-> m[0].back]
  BY DEF Faith, AllEach
<1>4. \A k \in 2 .. Len(w) : /\ Pair(T, inside, w[1], R[1], w[k], R[k])
                             /\ Each(T, inside, l, c, m, w[k], R[k], start, end)
  <2> TAKE k \in 2 .. Len(w)
  <2>1. k \in 1 .. Len(w) /\ 1 \in 1 .. k - 1
    BY <1>2
  <2>2. QED
    BY <1>3, <2>1 DEF AllPairs
<1>5. /\ FunctionTask(w[1]) \/ w[1].do = "func_end"
      /\ FunctionTask(w[1]) => ~Without(inside, w[1], {"function"})
      /\ p[Len(d)].of = -1 => w[1].do = "func_end"
  BY DEF Switches
<1>6. \A k \in 2 .. Len(w) : Each(T, inside, l, d, p, w[k], R[k], s, e)
  BY <1>4, <1>5, SwitchedEach
<1>7. \A j \in 1 .. Len(t) : \A k \in 2 .. Len(w) : Pair(T, inside, t[j], q[j], w[k], R[k])
  <2> TAKE j \in 1 .. Len(t)
  <2> TAKE k \in 2 .. Len(w)
  <2>1. t[j].do = "func_end" => m[Len(c)].of = -1
    OBVIOUS
  <2>2. QED
    BY <1>4, <1>5, <2>1, SwitchedPair
<1>8. AllEach(T, inside, l, d, p, z, S, s, e)
  <2>1. AllEach(T, inside, l, d, p, t, q, s, e) /\ EachLater(T, inside, l, d, p, w, R, s, e)
    BY <1>6 DEF AllEach, EachLater
  <2>2. QED
    BY <1>1, <1>2, <2>1, GatheredEach
<1>9. AllPairs(T, inside, z, S)
  <2>1. AllPairs(T, inside, t, q)
    BY DEF AllPairs
  <2>2. QED
    BY <1>1, <1>2, <1>3, <1>7, <2>1, GatheredPairs
<1>10. Right(T, l, d, p, Placed(z))
  <2>1. Placed(w) = Left(w)
    BY LeftIs
  <2>2. Placed(w) \subseteq Placed(z)
    BY <1>1, <2>1, PlacedOn
  <2>3. QED
    BY <2>2 DEF Right
<1>11. p[Len(d)].of # -1 => Has(z, "func_end")
  BY <1>1, Having
<1>12. p[Len(d)].left = Always(T, Coming(z, S, 1))
  BY <1>1 DEF Always
<1>13. Spot(p[Len(d)], Len(d)) /\ p[0] = m[0]
  BY DEF Switches
<1>14. Faith(T, inside, l, d, p, z, S, s, e)
  BY <1>1, <1>3, <1>8, <1>9, <1>10, <1>11, <1>12, <1>13, Zenon DEF Faith
<1>15. QED
  BY <1>14 DEF z, S

SwitchesTo(T, inside, m, R, t, q, d, p) ==
  /\ t \in Seq(Tasks(T)) /\ Linked(T, t, q, R[1])
  /\ Switches(T, inside, line, m, Len(code), work[1], p, Len(d))
  /\ Right(T, line, d, p, Placed(work)) /\ work[1].do \notin Placers
  /\ p[Len(d)].left = Always(T, IF Len(t) = 0 THEN R[1] ELSE Start(t[1], q[1]))
  /\ p[Len(d)].of # -1 => Has(t, "func_end")
  /\ \A k \in 1 .. Len(t) : /\ Each(T, inside, line, d, p, t[k], q[k], loop_start, loop_end)
                            /\ t[k].do = "func_end" => m[Len(code)].of = -1
                            /\ \A j \in 1 .. k - 1 : Pair(T, inside, t[j], q[j], t[k], q[k])

LEMMA Switched ==
  ASSUME NEW T, NEW inside, NEW m, NEW R, Known(T, inside, m, R), work # <<>>,
         NEW t, NEW q, NEW d, NEW p, SwitchesTo(T, inside, m, R, t, q, d, p),
         line' = line, code' = d, work' = t \o Tail(work),
         loop_start' = loop_start, loop_end' = loop_end
  PROVE  Faithful(T, inside)'
<1>1. work \in Seq(Tasks(T))
  BY KnownFront
<1>2. Faith(T, inside, line, d, p, t \o Tail(work), q \o Tail(R), loop_start, loop_end)
  BY <1>1, Switching DEF Known, SwitchesTo
<1>3. PICK v, S : v = p /\ S = q \o Tail(R)
  OBVIOUS
<1>4. Faith(T, inside, line', code', v, work', S, loop_start', loop_end')
  BY <1>2, <1>3
<1>5. QED
  BY <1>4 DEF Faithful

LEMMA NotInAFunction ==
  ASSUME NEW T, NEW inside, NEW m, NEW R, Known(T, inside, m, R), Doing("function")
  PROVE  /\ m[Len(code)].of = -1 /\ FunctionTask(work[1]) /\ work # <<>>
         /\ ~Without(inside, work[1], {"function"})
<1>1. work # <<>> /\ work[1].do = "stmt" /\ work[1].node.kind = "function" /\ this = work[1].node
  BY Doings DEF this
<1>2. this \in T /\ Len(work) \in Nat \ {0}
  BY <1>1, KnownFront
<1>3. ~Without(inside, work[1], {"function"})
  BY <1>1, <1>2, HereIs DEF Known, Sources
<1>4. ASSUME NEW k \in 1 .. Len(work), work[k].do = "func_end" PROVE FALSE
  <2>1. k # 1
    BY <1>1, <1>4
  <2>2. 1 \in 1 .. k - 1
    BY <1>2, <2>1
  <2>3. Pair(T, inside, work[1], R[1], work[k], R[k])
    BY <2>2 DEF Known, Faith, AllPairs
  <2>4. QED
    BY <1>3, <1>4, <2>3 DEF Pair
<1>5. m[Len(code)].of = -1
  BY <1>4 DEF Known, Faith, Has
<1>6. QED
  BY <1>1, <1>3, <1>5 DEF FunctionTask

(* Three instructions without jumps, and the spots after each. *)
Chained(T, l, I, a, s, x, u, y, v, z, t) ==
  /\ x \in I /\ y \in I /\ z \in I
  /\ x.op \notin JumpOps /\ y.op \notin JumpOps /\ z.op \notin JumpOps
  /\ Fits(T, l, x, a, s, u) /\ Fits(T, l, y, a + 1, u, v) /\ Fits(T, l, z, a + 2, v, t)

GrewThree(T, l, m, n, d, p, P, t) ==
  Right(T, l, d, p, P) /\ Len(d) = n + 3 /\ p[n + 3] = t /\ p[0] = m[0]

LEMMA GrowingThree ==
  ASSUME NEW T, NEW l, NEW I, NEW c \in Seq(I), NEW m, NEW P, Right(T, l, c, m, P),
         NEW x, NEW y, NEW z, NEW u, NEW v, NEW t,
         Chained(T, l, I, Len(c), m[Len(c)], x, u, y, v, z, t), NEW w, w = c \o <<x, y, z>>
  PROVE  \E p : GrewThree(T, l, m, Len(c), w, p, P, t)
<1> DEFINE n == Len(c)
           d == Append(c, x)
           e == Append(d, y)
           f == Append(e, z)
           h == Grown(m, n, u)
           g == Grown(h, n + 1, v)
           j == Grown(g, n + 2, t)
<1>1. x \in I /\ y \in I /\ z \in I
  BY DEF Chained
<1>2. n \in Nat /\ c \o <<x, y, z>> = f
  BY <1>1
<1>3. d \in Seq(I) /\ e \in Seq(I) /\ Len(d) = n + 1 /\ Len(e) = n + 2 /\ Len(f) = n + 3
  BY <1>1
<1>4. /\ h[n + 1] = u /\ h[0] = m[0]
      /\ g[n + 2] = v /\ g[0] = h[0]
      /\ j[n + 3] = t /\ j[0] = g[0]
  <2>1. h[n + 1] = u /\ \A a \in 0 .. n : h[a] = m[a]
    BY <1>2, GrownIs
  <2>2. g[(n + 1) + 1] = v /\ \A a \in 0 .. n + 1 : g[a] = h[a]
    BY <1>2, GrownIs
  <2>3. j[(n + 2) + 1] = t /\ \A a \in 0 .. n + 2 : j[a] = g[a]
    BY <1>2, GrownIs
  <2> HIDE DEF h, g, j
  <2>4. QED
    BY <1>2, <2>1, <2>2, <2>3
<1> HIDE DEF d, e, f, h, g, j
<1>5. Right(T, l, d, h, P)
  <2>1. Fits(T, l, x, Len(c), m[Len(c)], u) /\ Goes(x, Len(c), m, Len(c))
    BY DEF Chained, Goes
  <2>2. QED
    BY <2>1, RightGrows DEF d, h, n
<1>6. Right(T, l, e, g, P)
  <2>1. Fits(T, l, y, Len(d), h[Len(d)], v) /\ Goes(y, Len(d), h, Len(d))
    BY <1>3, <1>4 DEF Chained, Goes, n
  <2>2. Right(T, l, Append(d, y), Grown(h, Len(d), v), P)
    BY <1>3, <1>5, <2>1, RightGrows
  <2>3. QED
    BY <1>3, <2>2 DEF e, g
<1>7. Right(T, l, f, j, P)
  <2>1. Fits(T, l, z, Len(e), g[Len(e)], t) /\ Goes(z, Len(e), g, Len(e))
    BY <1>3, <1>4 DEF Chained, Goes, n
  <2>2. Right(T, l, Append(e, z), Grown(g, Len(e), t), P)
    BY <1>3, <1>6, <2>1, RightGrows
  <2>3. QED
    BY <1>3, <2>2 DEF f, j
<1>8. QED
  BY <1>2, <1>3, <1>4, <1>7 DEF n, GrewThree

(* The instructions before and after a function. *)
LEMMA OpensFunction ==
  ASSUME NEW T, NEW l, NEW a \in Nat, NEW s, Spot(s, a), s.of = -1, NEW n \in T,
         n.id # NoName, TextIn(l, n.id) = n.parts, n.parts \in Rests(T),
         NEW u, u = [left |-> Always(T, n.parts), of |-> a, place |-> 0,
                     back |-> [left |-> s.left, place |-> s.place]],
         NEW v, v = [u EXCEPT !.place = 1]
  PROVE  Chained(T, l, Instructions(T), a, s,
                 Named("func_def", n.id), u, Ins("func_set_args"), u, Ins("nop"), v)
<1> DEFINE x == Named("func_def", n.id)
           y == Ins("func_set_args")
           z == Ins("nop")
<1>1. /\ x \in Instructions(T) /\ y \in Instructions(T) /\ z \in Instructions(T)
      /\ x.op = "func_def" /\ x.id = n.id /\ y.op = "func_set_args" /\ z.op = "nop"
  <2>1. {"func_def", "func_set_args", "nop"} \subseteq Others
    BY DEF Others
  <2>2. x \in Instructions(T) /\ x.op = "func_def" /\ x.id = n.id
    BY <2>1, InstructionsType DEF Named
  <2>3. y \in Instructions(T) /\ z \in Instructions(T) /\ y.op = "func_set_args" /\ z.op = "nop"
    BY <2>1, InstructionsType
  <2>4. QED
    BY <2>2, <2>3
<1> HIDE DEF x, y, z
<1>2. u.of = a /\ u.place = 0 /\ u.left = Always(T, n.parts) /\ u.back = [left |-> s.left, place |-> s.place]
  OBVIOUS
<1>3. v.of = u.of /\ v.place = 1 /\ v.left = u.left /\ v.back = u.back
  OBVIOUS
<1>4. Fits(T, l, x, a, s, u)
  <2>1. Does(T, x, s.left, u.left)
    BY <1>1 DEF Does
  <2>2. QED
    BY <1>1, <1>2, <2>1 DEF Fits, Lies, Spot
<1>5. Fits(T, l, y, a + 1, u, u)
  <2>1. Does(T, y, u.left, u.left)
    BY <1>1, DoesNothing
  <2>2. QED
    BY <1>1, <1>2, <2>1 DEF Fits, Lies
<1>6. Fits(T, l, z, a + 2, u, v)
  <2>1. Does(T, z, u.left, v.left)
    BY <1>1, <1>3, DoesNothing
  <2>2. QED
    BY <1>1, <1>2, <1>3, <2>1 DEF Fits, Lies
<1>7. x.op \notin JumpOps /\ y.op \notin JumpOps /\ z.op \notin JumpOps
  BY <1>1 DEF JumpOps
<1>8. QED
  BY <1>1, <1>4, <1>5, <1>6, <1>7 DEF Chained, x, y, z

LEMMA ClosesFunction ==
  ASSUME NEW T, NEW l, NEW a \in Nat, NEW s, Spot(s, a), s.of # -1, s.left = Always(T, <<>>),
         NEW u, u = Onto(s, Always(T, <<>>)), NEW v, v = Onto(u, Never),
         NEW t, t = [left |-> s.back.left, of |-> -1, place |-> s.back.place, back |-> s.back]
  PROVE  Chained(T, l, Instructions(T), a, s,
                 Ins("push_null"), u, Ins("return"), v, Ins("func_end"), t)
<1> DEFINE x == Ins("push_null")
           y == Ins("return")
           z == Ins("func_end")
<1>1. /\ x \in Instructions(T) /\ y \in Instructions(T) /\ z \in Instructions(T)
      /\ x.op = "push_null" /\ y.op = "return" /\ z.op = "func_end"
  BY InstructionsType DEF Others
<1> HIDE DEF x, y, z
<1>2. u.of = s.of /\ u.place = s.place + 1 /\ u.left = Always(T, <<>>) /\ u.back = s.back
  BY DEF Onto
<1>3. v.of = s.of /\ v.place = u.place + 1 /\ v.left = Never /\ v.back = s.back
  BY <1>2 DEF Onto
<1>4. t.of = -1 /\ t.place = s.back.place /\ t.left = s.back.left
  OBVIOUS
<1>5. s.of \in -1 .. a - 1 /\ s.place \in Nat
  BY DEF Spot
<1>6. Fits(T, l, x, a, s, u)
  <2>1. PICK r : r = <<>>
    OBVIOUS
  <2>2. s.left = Always(T, r) /\ u.left = Always(T, r)
    BY <1>2, <2>1
  <2>3. Pushes(s.left, u.left)
    BY <2>2 DEF Pushes, Always
  <2>4. IsPush(x)
    BY <1>1 DEF IsPush
  <2>5. Does(T, x, s.left, u.left)
    BY <2>3, <2>4, DoesPush
  <2>6. QED
    BY <1>1, <1>2, <1>5, <2>5 DEF Fits, Lies
<1>7. Fits(T, l, y, a + 1, u, v)
  <2>1. Does(T, y, u.left, v.left)
    BY <1>1, <1>2, DoesReturn
  <2>2. QED
    BY <1>1, <1>2, <1>3, <1>5, <2>1 DEF Fits, Lies
<1>8. Fits(T, l, z, a + 2, v, t)
  <2>1. Does(T, z, v.left, t.left)
    BY <1>1, <1>3, DoesReturn
  <2>2. v.of \in -1 .. (a + 2) - 1 /\ v.place \in Nat /\ v.of # -1
    BY <1>2, <1>3, <1>5
  <2>3. t.left = v.back.left /\ t.place = v.back.place /\ t.of = -1
    BY <1>3, <1>4
  <2>4. Lies(T, l, z, a + 2, v, t)
    BY <1>1, <2>2, <2>3 DEF Lies
  <2>5. QED
    BY <2>1, <2>4 DEF Fits
<1>9. x.op \notin JumpOps /\ y.op \notin JumpOps /\ z.op \notin JumpOps
  BY <1>1 DEF JumpOps
<1>10. QED
  BY <1>1, <1>6, <1>7, <1>8, <1>9 DEF Chained, x, y, z

FunctionBody(t, q, n, r) ==
  /\ Len(t) = 2 /\ t[1] = Stmt(n.parts[1]) /\ t[2] = Task("func_end", n, -1)
  /\ Len(q) = 2 /\ q[1] = <<>> /\ q[2] = r

LEMMA FunctionBodyIs ==
  ASSUME NEW T, NEW n \in T, n.parts[1] \in T, NEW r \in Rests(T)
  PROVE  /\ FunctionBody(<<Stmt(n.parts[1]), Task("func_end", n, -1)>>, <<<<>>, r>>, n, r)
         /\ <<Stmt(n.parts[1]), Task("func_end", n, -1)>> \in Seq(Tasks(T))
         /\ <<<<>>, r>> \in Seq(Rests(T))
<1>1. Stmt(n.parts[1]) \in Tasks(T) /\ Task("func_end", n, -1) \in Tasks(T)
  BY DEF Stmt, Task, Tasks, Dos
<1> DEFINE a == Stmt(n.parts[1])
           b == Task("func_end", n, -1)
           e == <<>>
<1>2. e \in Rests(T)
  BY NoneLeft
<1> HIDE DEF a, b, e
<1>3. <<a, b>> \in Seq(Tasks(T)) /\ <<e, r>> \in Seq(Rests(T))
  BY <1>1, <1>2 DEF a, b
<1>4. /\ Len(<<a, b>>) = 2 /\ <<a, b>>[1] = a /\ <<a, b>>[2] = b
      /\ Len(<<e, r>>) = 2 /\ <<e, r>>[1] = e /\ <<e, r>>[2] = r
  OBVIOUS
<1>5. FunctionBody(<<a, b>>, <<e, r>>, n, r)
  BY <1>4 DEF FunctionBody, a, b, e
<1>6. QED
  BY <1>3, <1>5 DEF a, b, e

InFunction(T, inside, n, r, t, q, d, p) ==
  /\ Trees(T) /\ Insides(inside) /\ DOMAIN inside = T /\ n \in T /\ n.kind = "function"
  /\ Lacks(inside, n.parts[1], {"function"}) /\ r \in Rests(T)
  /\ FunctionBody(t, q, n, r) /\ q \in Seq(Rests(T))
  /\ p[Len(d)].of # -1 /\ p[Len(d)].back.left = Always(T, r)
  /\ Ready(p[Len(d)], Len(d)) \/ Lacks(inside, n, Jumping)

GoesOn(T, inside, n, r, t, q, l, d, p, s, e) ==
  /\ Linked(T, t, q, r) /\ Has(t, "func_end")
  /\ Always(T, Start(t[1], q[1])) = Always(T, n.parts)
  /\ \A k \in 1 .. Len(t) : /\ Each(T, inside, l, d, p, t[k], q[k], s, e)
                            /\ \A j \in 1 .. k - 1 : Pair(T, inside, t[j], q[j], t[k], q[k])

LEMMA FunctionGoesOn ==
  ASSUME NEW T, NEW inside, NEW n, NEW r, NEW t, NEW q, NEW l, NEW d, NEW p, NEW s, NEW e,
         InFunction(T, inside, n, r, t, q, d, p)
  PROVE  GoesOn(T, inside, n, r, t, q, l, d, p, s, e)
<1>0. /\ Trees(T) /\ Insides(inside) /\ DOMAIN inside = T /\ n \in T /\ n.kind = "function"
      /\ Lacks(inside, n.parts[1], {"function"}) /\ r \in Rests(T)
      /\ FunctionBody(t, q, n, r) /\ q \in Seq(Rests(T))
      /\ p[Len(d)].of # -1 /\ p[Len(d)].back.left = Always(T, r)
      /\ Ready(p[Len(d)], Len(d)) \/ Lacks(inside, n, Jumping)
  BY DEF InFunction
<1>1. /\ t[1].do = "stmt" /\ t[1].node = n.parts[1] /\ t[2].do = "func_end"
      /\ Len(t) = 2 /\ Len(q) = 2 /\ q[1] = <<>> /\ q[2] = r
  BY <1>0, StmtIs DEF FunctionBody, Task
<1>2. n.parts \in Seq(T) /\ Len(n.parts) = 1 /\ n.parts[1] \in T
  BY <1>0, PartsOf
<1>3. n.parts = <<n.parts[1]>>
  BY <1>2, OnePart
<1>4. 1 \in DOMAIN n.parts
  BY <1>2
<1>5. Without(inside, t[1], {"function"}) /\ ~FunctionTask(t[1])
  <2>1. Without(inside, t[1], {"function"})
    BY <1>0, <1>1 DEF Without
  <2>2. QED
    BY <1>0, <1>1, <1>2, <2>1, NotAFunction
<1>6. Without(inside, t[1], Jumping) \/ Ready(p[Len(d)], Len(d))
  <2>1. inside[n.parts[1]] \subseteq inside[n]
    BY <1>0, <1>4 DEF Insides
  <2>2. QED
    BY <1>0, <1>1, <2>1 DEF Lacks, Without
<1>7. ~FunctionTask(t[2]) /\ \A kinds : Without(inside, t[2], kinds)
  BY <1>1 DEF FunctionTask, Without, Sources
<1>8. Each(T, inside, l, d, p, t[1], q[1], s, e)
  BY <1>0, <1>1, <1>5, <1>6 DEF Each, Placers
<1>9. Each(T, inside, l, d, p, t[2], q[2], s, e)
  BY <1>0, <1>1, <1>7 DEF Each, Placers
<1>10. Pair(T, inside, t[1], q[1], t[2], q[2])
  BY <1>1, <1>5, <1>7 DEF Pair
<1>11. \A k \in 1 .. Len(t) : /\ Each(T, inside, l, d, p, t[k], q[k], s, e)
                              /\ \A j \in 1 .. k - 1 : Pair(T, inside, t[j], q[j], t[k], q[k])
  <2>1. ASSUME NEW k \in 1 .. 2, NEW j \in 1 .. k - 1 PROVE k = 2 /\ j = 1
    OBVIOUS
  <2>2. \A k \in 1 .. Len(t) : k = 1 \/ k = 2
    BY <1>1
  <2>3. \A k \in 1 .. Len(t) : Each(T, inside, l, d, p, t[k], q[k], s, e)
    BY <1>8, <1>9, <2>2, Zenon
  <2>4. \A k \in 1 .. Len(t) : \A j \in 1 .. k - 1 : Pair(T, inside, t[j], q[j], t[k], q[k])
    BY <1>1, <1>10, <2>1, Zenon
  <2>5. QED
    BY <2>3, <2>4, Zenon
<1>12. Linked(T, t, q, r)
  <2>1. Start(t[2], q[2]) = <<>>
    BY <1>1 DEF Start
  <2>2. \A k \in 1 .. Len(t) : Class(T, q[k]) = Class(T, IF k < Len(t) THEN Start(t[k + 1], q[k + 1]) ELSE r)
    <3>1. \A k \in 1 .. Len(t) : (k = 1 /\ k < Len(t) /\ k + 1 = 2) \/ (k = 2 /\ ~(k < Len(t)))
      BY <1>1
    <3>2. QED
      BY <1>1, <2>1, <3>1, Zenon
  <2>3. QED
    BY <1>0, <1>1, <2>2 DEF Linked
<1>13. Has(t, "func_end")
  <2>1. 2 \in 1 .. Len(t)
    BY <1>1
  <2>2. QED
    BY <1>1, <2>1 DEF Has
<1>14. Start(t[1], q[1]) = n.parts
  <2>1. Start(t[1], q[1]) = <<n.parts[1]>> \o <<>>
    BY <1>1 DEF Start
  <2>2. <<n.parts[1]>> \o <<>> = <<n.parts[1]>>
    OBVIOUS
  <2>3. QED
    BY <1>3, <2>1, <2>2
<1>15. QED
  BY <1>11, <1>12, <1>13, <1>14 DEF GoesOn

LEMMA FunctionIsSilent ==
  ASSUME NEW T, NEW n, n.kind = "function", NEW o, Statement(T, <<n>> \o o, n, o)
  PROVE  Always(T, <<n>> \o o) = Always(T, o)
<1>1. n.kind \notin Visibles
  BY DEF Visibles
<1>2. PICK r : r = <<n>> \o o
  OBVIOUS
<1>3. Lasts(T, r, Unfold(r)) /\ Unfolds(n, o, Unfold(r))
  BY <1>1, <1>2, SilentIs, Zenon
<1>4. Unfold(r) = o
  BY <1>3 DEF Unfolds
<1>5. QED
  BY <1>2, <1>3, <1>4 DEF Lasts

LEMMA FaithFunction ==
  ASSUME NEW T, NEW inside, NEW m, NEW R, Known(T, inside, m, R), GenFunction
  PROVE  Faithful(T, inside)'
<1> DEFINE x == Named("func_def", this.id)
           y == Ins("func_set_args")
           z == Ins("nop")
           n == Len(code)
           d == code \o <<x, y, z>>
           o == R[1]
           t == <<Stmt(this.parts[1]), Task("func_end", this, -1)>>
           q == <<<<>>, o>>
<1>1. /\ Doing("function") /\ line' = line /\ code' = d /\ work' = t \o Tail(work)
      /\ loop_start' = loop_start /\ loop_end' = loop_end
  BY DEF GenFunction, Emit, statics
<1>2. /\ work # <<>> /\ this.kind = "function" /\ work[1].do = "stmt" /\ this = work[1].node
      /\ Statement(T, <<this>> \o o, this, o) /\ m[n].left = Always(T, <<this>> \o o)
  BY <1>1, AtStatement DEF this
<1>3. /\ Trees(T) /\ Insides(inside) /\ DOMAIN inside = T /\ this \in T /\ o \in Rests(T)
      /\ code \in Seq(Instructions(T)) /\ n \in Nat /\ work[1].do \notin Placers
      /\ Each(T, inside, line, code, m, work[1], o, loop_start, loop_end)
      /\ Right(T, line, code, m, Placed(work)) /\ Spot(m[n], n)
  BY <1>2, KnownFront DEF Known, Placers
<1>4. m[n].of = -1 /\ FunctionTask(work[1]) /\ ~Without(inside, work[1], {"function"})
  BY <1>1, NotInAFunction
<1>5. /\ this.id # NoName /\ TextIn(line, this.id) = this.parts
      /\ Lacks(inside, this.parts[1], {"function"})
      /\ n = 0 \/ Lacks(inside, this, Jumping)
  BY <1>2, <1>3, <1>4 DEF Each, FunctionIn, Without, Sources
<1>6. this.parts[1] \in T /\ this.parts \in Rests(T)
  BY <1>2, <1>3, PartsOf
<1>7. m[n].left = Always(T, o)
  BY <1>2, FunctionIsSilent
<1>8. FunctionBody(t, q, this, o) /\ t \in Seq(Tasks(T)) /\ q \in Seq(Rests(T))
  BY <1>3, <1>6, FunctionBodyIs
<1>9. PICK u : u = [left |-> Always(T, this.parts), of |-> n, place |-> 0,
                    back |-> [left |-> m[n].left, place |-> m[n].place]]
  OBVIOUS
<1>10. PICK v : v = [u EXCEPT !.place = 1]
  OBVIOUS
<1>11. Chained(T, line, Instructions(T), n, m[n], x, u, y, u, z, v)
  BY <1>3, <1>4, <1>5, <1>6, <1>9, <1>10, OpensFunction
<1>12. v.of = n /\ v.place = 1 /\ v.back = [left |-> Always(T, o), place |-> m[n].place] /\ v.left = Always(T, this.parts)
  BY <1>7, <1>9, <1>10
<1> HIDE DEF x, y, z, q, t
<1> HIDE DEF o
<1>12a. d = code \o <<x, y, z>>
  OBVIOUS
<1> HIDE DEF d
<1>12b. PICK p : GrewThree(T, line, m, n, d, p, Placed(work), v)
  BY <1>3, <1>11, <1>12a, GrowingThree
<1> HIDE DEF n
<1>13. Right(T, line, d, p, Placed(work)) /\ Len(d) = n + 3 /\ p[n + 3] = v /\ p[0] = m[0]
  BY <1>12b DEF GrewThree
<1>14. /\ p[Len(d)].of = n /\ p[Len(d)].place = 1 /\ p[Len(d)].back.left = Always(T, o)
       /\ p[Len(d)].back.place = m[n].place /\ p[Len(d)].left = Always(T, this.parts)
  BY <1>12, <1>13
<1>15. p[Len(d)].of # -1 /\ Len(d) \in Nat /\ Spot(p[Len(d)], Len(d))
  BY <1>3, <1>13, <1>14 DEF Spot
<1>16. Ready(p[Len(d)], Len(d)) \/ Lacks(inside, this, Jumping)
  BY <1>5, <1>13, <1>14 DEF Ready
<1>17a. GoesOn(T, inside, this, o, t, q, line, d, p, loop_start, loop_end)
  <2>1. InFunction(T, inside, this, o, t, q, d, p)
    BY <1>2, <1>3, <1>5, <1>8, <1>14, <1>15, <1>16 DEF InFunction
  <2>2. QED
    BY <2>1, FunctionGoesOn
<1>17. /\ Linked(T, t, q, o) /\ Has(t, "func_end")
       /\ Always(T, Start(t[1], q[1])) = Always(T, this.parts)
       /\ \A k \in 1 .. Len(t) : /\ Each(T, inside, line, d, p, t[k], q[k], loop_start, loop_end)
                                 /\ \A j \in 1 .. k - 1 : Pair(T, inside, t[j], q[j], t[k], q[k])
  BY <1>17a DEF GoesOn
<1>18. Switches(T, inside, line, m, Len(code), work[1], p, Len(d))
  BY <1>4, <1>13, <1>15 DEF Switches, n
<1>19. p[Len(d)].left = Always(T, IF Len(t) = 0 THEN o ELSE Start(t[1], q[1]))
  <2>1. Len(t) # 0
    BY <1>8 DEF FunctionBody
  <2>2. (IF Len(t) = 0 THEN o ELSE Start(t[1], q[1])) = Start(t[1], q[1])
    BY <2>1, Zenon
  <2>3. QED
    BY <1>14, <1>17, <2>2
<1>20. \A k \in 1 .. Len(t) : /\ Each(T, inside, line, d, p, t[k], q[k], loop_start, loop_end)
                              /\ t[k].do = "func_end" => m[Len(code)].of = -1
                              /\ \A j \in 1 .. k - 1 : Pair(T, inside, t[j], q[j], t[k], q[k])
  BY <1>4, <1>17 DEF n
<1>21. SwitchesTo(T, inside, m, R, t, q, d, p)
  BY <1>3, <1>8, <1>13, <1>17, <1>18, <1>19, <1>20 DEF o, SwitchesTo
<1>22. QED
  BY <1>1, <1>2, <1>21, Switched

LEMMA FaithFunctionEnd ==
  ASSUME NEW T, NEW inside, NEW m, NEW R, Known(T, inside, m, R), GenFunctionEnd
  PROVE  Faithful(T, inside)'
<1> DEFINE x == Ins("push_null")
           y == Ins("return")
           z == Ins("func_end")
           n == Len(code)
           d == code \o <<x, y, z>>
           o == R[1]
<1>1. /\ work # <<>> /\ work[1].do = "func_end" /\ line' = line /\ code' = d /\ work' = <<>> \o Tail(work)
      /\ loop_start' = loop_start /\ loop_end' = loop_end
  BY DEF GenFunctionEnd, Emit, statics
<1>2. /\ Trees(T) /\ Insides(inside) /\ DOMAIN inside = T /\ o \in Rests(T)
      /\ code \in Seq(Instructions(T)) /\ n \in Nat /\ work[1].do \notin Placers
      /\ Each(T, inside, line, code, m, work[1], o, loop_start, loop_end)
      /\ Right(T, line, code, m, Placed(work)) /\ Spot(m[n], n)
      /\ m[n].left = Always(T, Start(work[1], o))
  BY <1>1, KnownFront DEF Known, Placers
<1>3. m[n].of # -1 /\ m[n].back.left = Always(T, o)
  BY <1>1, <1>2 DEF Each
<1>4. m[n].left = Always(T, <<>>)
  <2>1. Start(work[1], o) = <<>>
    BY <1>1 DEF Start
  <2>2. QED
    BY <1>2, <2>1
<1>5. ~FunctionTask(work[1])
  BY <1>1 DEF FunctionTask
<1>6. PICK u : u = Onto(m[n], Always(T, <<>>))
  OBVIOUS
<1>7. PICK v : v = Onto(u, Never)
  OBVIOUS
<1>8. PICK s : s = [left |-> m[n].back.left, of |-> -1, place |-> m[n].back.place, back |-> m[n].back]
  OBVIOUS
<1>9. Chained(T, line, Instructions(T), n, m[n], x, u, y, v, z, s)
  BY <1>2, <1>3, <1>4, <1>6, <1>7, <1>8, ClosesFunction
<1>10. s.of = -1 /\ s.place \in Nat /\ s.left = Always(T, o)
  BY <1>2, <1>3, <1>8 DEF Spot
<1> HIDE DEF x, y, z
<1> HIDE DEF o
<1>10a. d = code \o <<x, y, z>>
  OBVIOUS
<1> HIDE DEF d
<1>10b. PICK p : GrewThree(T, line, m, n, d, p, Placed(work), s)
  BY <1>2, <1>9, <1>10a, GrowingThree
<1> HIDE DEF n
<1>11. Right(T, line, d, p, Placed(work)) /\ Len(d) = n + 3 /\ p[n + 3] = s /\ p[0] = m[0]
  BY <1>10b DEF GrewThree
<1>12. p[Len(d)].of = -1 /\ p[Len(d)].left = Always(T, o) /\ Spot(p[Len(d)], Len(d))
  BY <1>2, <1>10, <1>11 DEF Spot
<1>13. Switches(T, inside, line, m, Len(code), work[1], p, Len(d))
  BY <1>1, <1>5, <1>11, <1>12 DEF Switches
<1>14. PICK t : t = <<>>
  OBVIOUS
<1>15. t \in Seq(Tasks(T)) /\ Len(t) = 0 /\ Linked(T, t, t, o)
  BY <1>14, NoneNew, Zenon
<1>16. \A k \in 1 .. Len(t) : /\ Each(T, inside, line, d, p, t[k], t[k], loop_start, loop_end)
                              /\ t[k].do = "func_end" => m[Len(code)].of = -1
                              /\ \A j \in 1 .. k - 1 : Pair(T, inside, t[j], t[j], t[k], t[k])
  BY <1>15
<1>17. p[Len(d)].left = Always(T, IF Len(t) = 0 THEN o ELSE Start(t[1], t[1]))
  BY <1>12, <1>15
<1>18. p[Len(d)].of # -1 => Has(t, "func_end")
  BY <1>12
<1>19. work' = t \o Tail(work)
  BY <1>1, <1>14
<1>20. SwitchesTo(T, inside, m, R, t, t, d, p)
  BY <1>2, <1>11, <1>13, <1>15, <1>16, <1>17, <1>18 DEF o, SwitchesTo
<1>21. QED
  BY <1>1, <1>19, <1>20, Switched

----------------------------------------------------------------------------
(* Before the first step of the generator, and after the last.             *)
LEMMA EndsWithNothing ==
  ASSUME NEW T, NEW l \in Seq(T)
  PROVE  l \o <<>> = l
<1>1. PICK e : e = <<>>
  OBVIOUS
<1>2. e \in Seq(T) /\ Len(e) = 0
  BY <1>1
<1>3. l \o e = l
  BY <1>2
<1>4. QED
  BY <1>1, <1>3

LEMMA TextOfFunction ==
  ASSUME NEW l, NEW k \in DOMAIN l, l[k].kind = "function", l[k].id # NoName,
         \A j \in DOMAIN l : l[j].kind = "function" /\ l[j].id = l[k].id => j = k
  PROVE  TextIn(l, l[k].id) = l[k].parts
BY DEF TextIn

FirstTask(T, inside, l, w, k) ==
  /\ w[k].do = "stmt" /\ w[k].node = l[k] /\ l[k] \in T /\ k \in DOMAIN l
  /\ l[k].kind = "function" => FunctionIn(inside, l, l[k])
  /\ l[k].kind = "function" \/ Lacks(inside, l[k], {"function", "return"})
  /\ \/ Lacks(inside, l[k], Jumping)
     \/ \A j \in 1 .. k : l[j].kind = "function" => j = 1 /\ k = 1

LEMMA FirstTasks ==
  ASSUME NEW T, NEW inside, NEW l \in Seq(T), ReliableLine(inside, l), NEW x, NEW w, Then(w, l, x)
  PROVE  \A k \in 1 .. Len(w) : FirstTask(T, inside, l, w, k) \/ (k = Len(w) /\ w[k] = x)
<1> TAKE k \in 1 .. Len(w)
<1>1. Len(l) \in Nat /\ Len(w) = Len(l) + 1 /\ w[Len(w)] = x /\ DOMAIN l = 1 .. Len(l)
  BY DEF Then
<1>2. CASE k = Len(w)
  BY <1>1, <1>2
<1>3. CASE k # Len(w)
  <2>1. k \in 1 .. Len(l) /\ k \in DOMAIN l /\ l[k] \in T
    BY <1>1, <1>3
  <2>2. w[k] = Stmt(l[k])
    BY <2>1 DEF Then
  <2>3. w[k].do = "stmt" /\ w[k].node = l[k]
    BY <2>2, StmtIs
  <2>4. /\ l[k].kind = "function" => ReliableFunction(inside, l, k)
        /\ l[k].kind # "function" => Lacks(inside, l[k], {"function", "return"})
        /\ \/ Lacks(inside, l[k], Jumping)
           \/ \A j \in 1 .. k : l[j].kind = "function" => j = 1 /\ k = 1
    BY <2>1 DEF ReliableLine
  <2>5. ASSUME l[k].kind = "function" PROVE FunctionIn(inside, l, l[k])
    <3>1. /\ l[k].id # NoName /\ Lacks(inside, l[k].parts[1], {"function"})
          /\ \A j \in DOMAIN l : l[j].kind = "function" /\ l[j].id = l[k].id => j = k
      BY <2>4, <2>5 DEF ReliableFunction
    <3>2. TextIn(l, l[k].id) = l[k].parts
      BY <2>1, <2>5, <3>1, TextOfFunction
    <3>3. QED
      BY <3>1, <3>2 DEF FunctionIn
  <2>6. FirstTask(T, inside, l, w, k)
    BY <2>1, <2>3, <2>4, <2>5 DEF FirstTask
  <2>7. QED
    BY <2>6
<1>4. QED
  BY <1>2, <1>3

LEMMA FirstEach ==
  ASSUME NEW T, NEW inside, NEW l, NEW c, Len(c) = 0, NEW m, m[0].of = -1, m[0].place = 0,
         NEW w, NEW k, FirstTask(T, inside, l, w, k) \/ w[k].do = "halt",
         NEW r, NEW start, NEW end
  PROVE  Each(T, inside, l, c, m, w[k], r, start, end)
<1>1. Ready(m[Len(c)], Len(c))
  BY DEF Ready
<1>2. CASE w[k].do = "halt"
  BY <1>1, <1>2 DEF Each, FunctionTask, Placers, Without, Sources
<1>3. CASE FirstTask(T, inside, l, w, k)
  BY <1>1, <1>3 DEF Each, FirstTask, FunctionTask, Placers, Without
<1>4. QED
  BY <1>2, <1>3

LEMMA FirstPair ==
  ASSUME NEW T, NEW inside, NEW l, NEW w, NEW k \in Nat, NEW j \in 1 .. k - 1,
         FirstTask(T, inside, l, w, k) \/ w[k].do = "halt", FirstTask(T, inside, l, w, j),
         NEW q, NEW r
  PROVE  Pair(T, inside, w[j], q, w[k], r)
<1>1. w[j].do = "stmt" /\ w[j].node = l[j] /\ j \in 1 .. k /\ k # 1
  BY DEF FirstTask
<1>2. CASE w[k].do = "halt"
  BY <1>1, <1>2 DEF Pair, FunctionTask, Placers, Without, Sources
<1>3. CASE FirstTask(T, inside, l, w, k)
  <2>1. w[k].do = "stmt" /\ w[k].node = l[k]
    BY <1>3 DEF FirstTask
  <2>2. FunctionTask(w[k]) \/ FunctionTask(w[j]) => Without(inside, w[k], Jumping)
    <3>1. Lacks(inside, l[k], Jumping) \/ \A g \in 1 .. k : l[g].kind = "function" => g = 1 /\ k = 1
      BY <1>3 DEF FirstTask
    <3>2. k \in 1 .. k
      BY <1>1
    <3>3. QED
      BY <1>1, <2>1, <3>1, <3>2 DEF FunctionTask, Without
  <2>3. QED
    BY <1>1, <2>1, <2>2 DEF Pair, Placers
<1>4. QED
  BY <1>2, <1>3

LEMMA FaithCompile ==
  ASSUME NEW T, Trees(T), NEW inside, NEW l \in Seq(T), ReliableLine(inside, l), GenInit(l)
  PROVE  Faithful(T, inside)'
<1> DEFINE x == Task("halt", Block(<<>>), -1)
           w == Stmts(l) \o <<x>>
           R == Leavings(l, <<>>)
           m == [a \in {0} |-> [left |-> Always(T, l), of |-> -1, place |-> 0, back |-> Never]]
           c == <<>>
<1>1. line' = l /\ code' = c /\ work' = w /\ loop_start' = loop_start /\ loop_end' = loop_end
  BY DEF GenInit, statics
<1>2. x \in Tasks(T) /\ x.do = "halt"
  BY DEF Trees, Task, Tasks, Dos
<1>3. Start(x, <<>>) = <<>>
  BY <1>2 DEF Start
<1> HIDE DEF x
<1>4. w \in Seq(Tasks(T)) /\ Then(w, l, x)
  BY <1>2, StmtsThen
<1> HIDE DEF w
<1>5. Len(w) \in Nat \ {0} /\ w[Len(w)] = x
  BY <1>4 DEF Then
<1>6. Len(c) = 0
  BY DEF c
<1>7. PICK o : o = <<>>
  OBVIOUS
<1>8. o \in Rests(T) /\ Start(x, o) = o /\ R = Leavings(l, o) /\ l \o o = l
  BY <1>3, <1>7, NoneLeft, EndsWithNothing
<1> HIDE DEF R, c
<1>9. Leaves(T, w, R, l, o)
  BY <1>4, <1>8, LeavingsAre
<1>10. Linked(T, w, R, o) /\ Start(w[1], R[1]) = l
  BY <1>8, <1>9 DEF Leaves
<1>11. Threads(T, w, R)
  <2>1. R \in Seq(Rests(T)) /\ Len(R) = Len(w)
    BY <1>10 DEF Linked
  <2>2. ASSUME NEW k \in 1 .. Len(w) PROVE Class(T, R[k]) = Class(T, Coming(w, R, k + 1))
    <3>1. Class(T, R[k]) = Class(T, IF k < Len(w) THEN Start(w[k + 1], R[k + 1]) ELSE o)
      BY <1>10 DEF Linked
    <3>2. k < Len(w) <=> k + 1 \in 1 .. Len(w)
      BY <1>5
    <3>3. Coming(w, R, k + 1) = IF k < Len(w) THEN Start(w[k + 1], R[k + 1]) ELSE o
      BY <1>7, <3>2 DEF Coming
    <3>4. QED
      BY <3>1, <3>3
  <2>3. QED
    BY <2>1, <2>2 DEF Threads
<1>12. Coming(w, R, 1) = l
  <2>1. 1 \in 1 .. Len(w)
    BY <1>5
  <2>2. QED
    BY <1>10, <2>1 DEF Coming
<1>13. /\ m[0].left = Always(T, l) /\ m[0].of = -1 /\ m[0].place = 0 /\ Spot(m[0], 0)
       /\ m[0] = [left |-> Always(T, l), of |-> -1, place |-> 0, back |-> m[0].back]
  BY DEF Spot
<1> HIDE DEF m
<1>14. Right(T, l, c, m, Placed(w))
  BY <1>6 DEF Right
<1>15. \A k \in 1 .. Len(w) : FirstTask(T, inside, l, w, k) \/ (k = Len(w) /\ w[k] = x)
  BY <1>4, FirstTasks
<1>16. AllEach(T, inside, l, c, m, w, R, loop_start, loop_end)
  <2> SUFFICES ASSUME NEW k \in 1 .. Len(w)
               PROVE  Each(T, inside, l, c, m, w[k], R[k], loop_start, loop_end)
    BY DEF AllEach
  <2>1. FirstTask(T, inside, l, w, k) \/ w[k].do = "halt"
    BY <1>2, <1>15
  <2>2. QED
    BY <1>6, <1>13, <2>1, FirstEach
<1>17. AllPairs(T, inside, w, R)
  <2> SUFFICES ASSUME NEW k \in 1 .. Len(w), NEW j \in 1 .. k - 1
               PROVE  Pair(T, inside, w[j], R[j], w[k], R[k])
    BY DEF AllPairs
  <2>1. j \in 1 .. Len(w) /\ j # Len(w) /\ k \in Nat
    BY <1>5
  <2>2. FirstTask(T, inside, l, w, j)
    BY <1>15, <2>1
  <2>3. FirstTask(T, inside, l, w, k) \/ w[k].do = "halt"
    BY <1>2, <1>15
  <2>4. QED
    BY <2>1, <2>2, <2>3, FirstPair
<1>18. Faith(T, inside, l, c, m, w, R, loop_start, loop_end)
  <2>1. m[Len(c)] = m[0] /\ Len(c) = 0
    BY <1>6
  <2>2. m[Len(c)].left = Always(T, Coming(w, R, 1))
    BY <1>12, <1>13, <2>1
  <2>3. QED
    BY <1>11, <1>13, <1>14, <1>16, <1>17, <2>1, <2>2 DEF Faith
<1>19. PICK v, S : v = m /\ S = R
  OBVIOUS
<1>20. Faith(T, inside, line', code', v, work', S, loop_start', loop_end')
  BY <1>1, <1>18, <1>19
<1>21. QED
  BY <1>20 DEF Faithful

LEMMA FaithGenerate ==
  ASSUME NEW T, NEW inside, Trees(T), Insides(inside), DOMAIN inside = T, Loopy(inside),
         Generating(T), ~refused, Faithful(T, inside), Generate
  PROVE  refused' \/ Faithful(T, inside)'
<1>1. PICK m, R : Known(T, inside, m, R)
  BY DEF Faithful, Known
<1>2. CASE GenBad \/ GenNotInLoop
  BY <1>2 DEF GenBad, GenNotInLoop, Refuse
<1>3. CASE GenDo \/ GenBlock \/ GenEnd \/ GenReturn \/ GenBreak \/ GenContinue
  BY <1>1, <1>3, FaithDo, FaithBlock, FaithNothing, FaithReturn, FaithBreak, FaithContinue, Zenon
<1>4. CASE GenIf \/ GenThen \/ GenElse \/ GenWhile \/ GenFor
  BY <1>1, <1>4, FaithIf, FaithThen, FaithElse, FaithWhile, FaithFor, Zenon
<1>5. CASE GenForCondition \/ GenLoop \/ GenFunction \/ GenFunctionEnd \/ GenHalt
  BY <1>1, <1>5, FaithForCondition, FaithLoop, FaithFunction, FaithFunctionEnd, FaithNothing, Zenon
<1>6. QED
  BY <1>2, <1>3, <1>4, <1>5, Zenon DEF Generate

(* The finished code. *)
Coded(T, m) ==
  /\ Right(T, line, code, m, {}) /\ code \in Seq(Instructions(T))
  /\ m[0].left = Always(T, line) /\ m[0].of = -1 /\ m[0].place = 0
  /\ m[Len(code)].left = Always(T, <<>>) /\ m[Len(code)].of = -1

LEMMA FaithCoded ==
  ASSUME NEW T, NEW inside, Faithful(T, inside), Generating(T), ~refused, work = <<>>
  PROVE  \E m : Coded(T, m)
<1>1. PICK m, R : Faith(T, inside, line, code, m, work, R, loop_start, loop_end)
  BY DEF Faithful
<1>2. PICK w : w = work
  OBVIOUS
<1>3. Len(w) = 0
  BY <1>2
<1>4. Placed(w) = {} /\ ~Has(w, "func_end") /\ Coming(w, R, 1) = <<>>
  BY <1>3 DEF Placed, Open, Has, Coming
<1>5. /\ Right(T, line, code, m, Placed(w)) /\ m[Len(code)].left = Always(T, Coming(w, R, 1))
      /\ m[Len(code)].of # -1 => Has(w, "func_end")
      /\ m[0] = [left |-> Always(T, line), of |-> -1, place |-> 0, back |-> m[0].back]
  BY <1>1, <1>2 DEF Faith
<1>6. m[0].left = Always(T, line) /\ m[0].of = -1 /\ m[0].place = 0
  BY <1>5
<1>7. code \in Seq(Instructions(T))
  BY DEF Generating, Pending
<1>8. Coded(T, m)
  BY <1>4, <1>5, <1>6, <1>7 DEF Coded
<1>9. QED
  BY <1>8

----------------------------------------------------------------------------
(* The loader: the chunks y of the code c with its map m.  The addresses   *)
(* of one function, or of the line, are the places of one chunk, and the   *)
(* chunk has labels q like theirs.                                         *)
LEMMA RelocatedIs ==
  ASSUME NEW T, NEW x \in Instructions(T), NEW r \in Int
  PROVE  /\ Relocated(x, r) \in Instructions(T) /\ Relocated(x, r).op = x.op
         /\ x.op \notin JumpOps => Relocated(x, r) = x
         /\ x.op \in JumpOps => Relocated(x, r).to = x.to - r
<1>1. CASE x.op \in JumpOps
  <2>1. x \in Jumps
    BY <1>1, InstructionsHaveJumps DEF HasJumps
  <2>2. Relocated(x, r) = [x EXCEPT !.to = @ - r]
    BY <1>1 DEF Relocated, JumpOps
  <2>3. Relocated(x, r) \in Jumps /\ Relocated(x, r).op = x.op /\ Relocated(x, r).to = x.to - r
    BY <2>1, <2>2 DEF Jumps
  <2>4. QED
    BY <1>1, <2>3, InstructionsHaveJumps DEF HasJumps
<1>2. CASE x.op \notin JumpOps
  BY <1>2 DEF Relocated, JumpOps
<1>3. QED
  BY <1>1, <1>2

(* An instruction in the chunk u of the function at f. *)
Works(T, c, m, f, u, x, left, next) ==
  /\ Does(T, x, left, next)
  /\ x.op \in JumpOps => \E b \in 0 .. Len(c) : m[b].of = f /\ m[b].place = x.to /\ m[b].left = Target(x, left)
  /\ x.op = "return" => u # NoName

ChunkIs(T, l, c, m, n, y, q, f, u) ==
  /\ y \in Seq(Instructions(T)) /\ f \in -1 .. n - 1
  /\ IF u = NoName THEN f = -1 ELSE f # -1 /\ c[f + 1].id = u
  /\ TextIn(l, u) \in Rests(T) /\ q[0] = Always(T, TextIn(l, u))
  /\ \A a \in 0 .. n : m[a].of = f => m[a].place \in 0 .. Len(y) /\ q[m[a].place] = m[a].left
  /\ \A k \in 0 .. Len(y) - 1 : Works(T, c, m, f, u, y[k + 1], q[k], q[k + 1])

LEMMA ChunkStays ==
  ASSUME NEW T, NEW l, NEW c, NEW m, NEW n \in Nat, NEW y, NEW q, NEW f, NEW u,
         ChunkIs(T, l, c, m, n, y, q, f, u),
         m[n + 1].of = f => m[n + 1].place \in 0 .. Len(y) /\ q[m[n + 1].place] = m[n + 1].left
  PROVE  ChunkIs(T, l, c, m, n + 1, y, q, f, u)
<1>1. \A a \in 0 .. n + 1 : a \in 0 .. n \/ a = n + 1
  OBVIOUS
<1>2. \A a \in 0 .. n + 1 : m[a].of = f => m[a].place \in 0 .. Len(y) /\ q[m[a].place] = m[a].left
  BY <1>1 DEF ChunkIs
<1>3. f \in -1 .. (n + 1) - 1
  BY DEF ChunkIs
<1>4. QED
  BY <1>2, <1>3 DEF ChunkIs

LEMMA ChunkGrows ==
  ASSUME NEW T, NEW l, NEW c, NEW m, NEW n \in Nat, NEW y, NEW q, NEW f, NEW u,
         ChunkIs(T, l, c, m, n, y, q, f, u),
         NEW x \in Instructions(T), NEW left, Works(T, c, m, f, u, x, q[Len(y)], left),
         m[n + 1].of = f => m[n + 1].place = Len(y) + 1 /\ m[n + 1].left = left
  PROVE  /\ ChunkIs(T, l, c, m, n + 1, Append(y, x), Grown(q, Len(y), left), f, u)
         /\ Len(Append(y, x)) = Len(y) + 1
<1> DEFINE z == Append(y, x)
           d == Grown(q, Len(y), left)
           h == Len(y)
<1>1. y \in Seq(Instructions(T)) /\ f \in -1 .. n - 1
  BY DEF ChunkIs
<1>2. /\ h \in Nat /\ z \in Seq(Instructions(T)) /\ Len(z) = h + 1 /\ z[h + 1] = x
      /\ \A k \in 1 .. h : z[k] = y[k]
  BY <1>1
<1>3. d[h + 1] = left /\ \A a \in 0 .. h : d[a] = q[a]
  BY <1>2, GrownIs
<1> HIDE DEF z, d
<1>4. \A a \in 0 .. n + 1 : m[a].of = f => m[a].place \in 0 .. Len(z) /\ d[m[a].place] = m[a].left
  <2> TAKE a \in 0 .. n + 1
  <2>1. CASE a = n + 1
    BY <1>2, <1>3, <2>1
  <2>2. CASE a # n + 1
    <3>1. a \in 0 .. n
      BY <2>2
    <3>2. m[a].of = f => m[a].place \in 0 .. h /\ q[m[a].place] = m[a].left
      BY <3>1 DEF ChunkIs
    <3>3. QED
      BY <1>2, <1>3, <3>2
  <2>3. QED
    BY <2>1, <2>2
<1>5. \A k \in 0 .. Len(z) - 1 : Works(T, c, m, f, u, z[k + 1], d[k], d[k + 1])
  <2> TAKE k \in 0 .. Len(z) - 1
  <2>1. CASE k = h
    BY <1>2, <1>3, <2>1
  <2>2. CASE k # h
    <3>1. k \in 0 .. h - 1 /\ k + 1 \in 1 .. h /\ k \in 0 .. h /\ k + 1 \in 0 .. h
      BY <1>2, <2>2
    <3>2. Works(T, c, m, f, u, y[k + 1], q[k], q[k + 1])
      BY <3>1 DEF ChunkIs
    <3>3. z[k + 1] = y[k + 1] /\ d[k] = q[k] /\ d[k + 1] = q[k + 1]
      BY <1>2, <1>3, <3>1
    <3>4. QED
      BY <3>2, <3>3
  <2>3. QED
    BY <2>1, <2>2
<1>6. d[0] = q[0] /\ f \in -1 .. (n + 1) - 1
  <2>1. 0 \in 0 .. h
    BY <1>2
  <2>2. QED
    BY <1>1, <1>3, <2>1
<1>7. ChunkIs(T, l, c, m, n + 1, z, d, f, u)
  BY <1>2, <1>4, <1>5, <1>6 DEF ChunkIs
<1>8. QED
  BY <1>2, <1>7 DEF z, d

(* The instruction at n, relocated by r. *)
Relocates(T, l, c, m, n, r, u, next) ==
  /\ c \in Seq(Instructions(T)) /\ Right(T, l, c, m, {}) /\ n \in 0 .. Len(c) - 1 /\ r \in Int
  /\ m[n].of = -1 /\ m[n].place = n => r = 0
  /\ m[n].of = 0 => r = 2
  /\ m[n].of = -1 <=> u = NoName
  /\ c[n + 1].op # "func_end" => next = m[n + 1].left

LEMMA WorksRelocated ==
  ASSUME NEW T, NEW l, NEW c, NEW m, NEW n, NEW r, NEW u, NEW next,
         Relocates(T, l, c, m, n, r, u, next)
  PROVE  /\ Works(T, c, m, m[n].of, u, Relocated(c[n + 1], r), m[n].left, next)
         /\ Relocated(c[n + 1], r) \in Instructions(T)
<1> DEFINE x == c[n + 1]
           z == Relocated(x, r)
<1>0. /\ c \in Seq(Instructions(T)) /\ Right(T, l, c, m, {}) /\ n \in 0 .. Len(c) - 1 /\ r \in Int
      /\ m[n].of = -1 /\ m[n].place = n => r = 0
      /\ m[n].of = 0 => r = 2
      /\ m[n].of = -1 <=> u = NoName
      /\ c[n + 1].op # "func_end" => next = m[n + 1].left
  BY DEF Relocates
<1>1. x \in Instructions(T)
  BY <1>0
<1>2. /\ z \in Instructions(T) /\ z.op = x.op /\ (x.op \notin JumpOps => z = x)
      /\ (x.op \in JumpOps => z.to = x.to - r)
  BY <1>0, <1>1, RelocatedIs
<1>3. Lies(T, l, x, n, m[n], m[n + 1]) /\ Does(T, x, m[n].left, m[n + 1].left) /\ Goes(x, n, m, Len(c))
  BY <1>0 DEF Right, Fits
<1> HIDE DEF x, z
<1>4. Does(T, z, m[n].left, next)
  <2>1. CASE x.op = "func_end"
    BY <1>2, <1>3, <2>1 DEF Does, JumpOps
  <2>2. CASE x.op \in JumpOps
    <3>1. next = m[n + 1].left
      BY <1>0, <2>2 DEF JumpOps, x
    <3>2. QED
      BY <1>2, <1>3, <2>2, <3>1 DEF Does, JumpOps
  <2>3. CASE x.op \notin JumpOps /\ x.op # "func_end"
    BY <1>0, <1>2, <1>3, <2>3 DEF x
  <2>4. QED
    BY <2>1, <2>2, <2>3
<1>5. ASSUME z.op \in JumpOps
      PROVE  \E b \in 0 .. Len(c) : m[b].of = m[n].of /\ m[b].place = z.to /\ m[b].left = Target(z, m[n].left)
  <2>1. /\ x.to \in 0 .. Len(c) /\ m[x.to].of = m[n].of /\ Ready(m[n], n) /\ Ready(m[x.to], x.to)
        /\ m[x.to].left = Target(x, m[n].left)
    BY <1>2, <1>3, <1>5 DEF Goes
  <2>2. z.to = x.to - r
    BY <1>2, <1>5
  <2>3. m[x.to].place = x.to - r
    BY <1>0, <2>1 DEF Ready
  <2>4. Target(z, m[n].left) = Target(x, m[n].left)
    BY <1>2 DEF Target
  <2>5. QED
    BY <2>1, <2>2, <2>3, <2>4
<1>6. z.op = "return" => u # NoName
  BY <1>0, <1>2, <1>3 DEF Lies
<1>7. QED
  BY <1>2, <1>4, <1>5, <1>6 DEF Works, x, z

(* The loader at address n, in chunk b of the chunks h. *)
AllChunks(T, l, c, m, n, h, q, g) == \A u \in DOMAIN h : ChunkIs(T, l, c, m, n, h[u], q[u], g[u], u)

InLine(n, o, b, h) ==
  b = NoName => Len(h[NoName]) <= n /\ (Len(h[NoName]) = n => o = 0)

InAFunction(m, n, p, b, h, q) ==
  b # NoName => /\ Len(h[NoName]) < n /\ m[n].back.place = Len(h[NoName])
                /\ m[n].back.left = q[NoName][Len(h[NoName])] /\ (m[n].of = 0 => p = 2)

Ended(h, q, b) == \A u \in DOMAIN h \ {b, NoName} : q[u][Len(h[u])] = Never

Reached(T, l, c, m, n, o, p, b, h, q, g) ==
  /\ n \in 0 .. Len(c) /\ o \in Int /\ p \in Int
  /\ NoName \in DOMAIN h /\ b \in DOMAIN h
  /\ AllChunks(T, l, c, m, n, h, q, g)
  /\ g[b] = m[n].of /\ Len(h[b]) = m[n].place
  /\ Ended(h, q, b) /\ InLine(n, o, b, h) /\ InAFunction(m, n, p, b, h, q)

RightCode(T, l, c, m) == c \in Seq(Instructions(T)) /\ Right(T, l, c, m, {})

LEMMA OneChunk ==
  ASSUME NEW T, NEW l, NEW c, NEW m, NEW n, NEW o, NEW p, NEW b, NEW h, NEW q, NEW g,
         Reached(T, l, c, m, n, o, p, b, h, q, g)
  PROVE  /\ b = NoName <=> m[n].of = -1
         /\ \A u \in DOMAIN h : g[u] = -1 <=> u = NoName
         /\ \A u \in DOMAIN h : u # b => g[u] # g[b]
         /\ \A u \in DOMAIN h : g[u] \in -1 .. n - 1 /\ Len(h[u]) \in Nat
         /\ q[b][Len(h[b])] = m[n].left
<1>1. \A u \in DOMAIN h : ChunkIs(T, l, c, m, n, h[u], q[u], g[u], u)
  BY DEF Reached, AllChunks
<1>2. \A u \in DOMAIN h : /\ g[u] \in -1 .. n - 1 /\ h[u] \in Seq(Instructions(T))
                          /\ IF u = NoName THEN g[u] = -1 ELSE g[u] # -1 /\ c[g[u] + 1].id = u
  BY <1>1 DEF ChunkIs
<1>3. \A u \in DOMAIN h : Len(h[u]) \in Nat
  BY <1>2
<1>4. \A u \in DOMAIN h : g[u] = -1 <=> u = NoName
  BY <1>2
<1>5. \A u \in DOMAIN h : u # b => g[u] # g[b]
  <2> SUFFICES ASSUME NEW u \in DOMAIN h, u # b, g[u] = g[b] PROVE FALSE
    OBVIOUS
  <2>1. b \in DOMAIN h
    BY DEF Reached
  <2>2. u # NoName /\ b # NoName
    BY <1>4, <2>1
  <2>3. QED
    BY <1>2, <2>1, <2>2
<1>6. b \in DOMAIN h /\ g[b] = m[n].of /\ Len(h[b]) = m[n].place /\ n \in 0 .. n
  BY DEF Reached
<1>7. q[b][m[n].place] = m[n].left
  BY <1>1, <1>6 DEF ChunkIs
<1>8. QED
  BY <1>2, <1>3, <1>4, <1>5, <1>6, <1>7

(* The chunk b takes an instruction, and the others stay. *)
ChunksTake(T, c, m, n, h, q, g, b, x, left, d, s) ==
  /\ b \in DOMAIN h /\ x \in Instructions(T)
  /\ Works(T, c, m, g[b], b, x, q[b][Len(h[b])], left)
  /\ m[n + 1].of = g[b] => m[n + 1].place = Len(h[b]) + 1 /\ m[n + 1].left = left
  /\ \A u \in DOMAIN h \ {b} :
       m[n + 1].of = g[u] => m[n + 1].place \in 0 .. Len(h[u]) /\ q[u][m[n + 1].place] = m[n + 1].left
  /\ DOMAIN d = DOMAIN h /\ \A u \in DOMAIN h : d[u] = IF u = b THEN Append(h[b], x) ELSE h[u]
  /\ \A u \in DOMAIN h : s[u] = IF u = b THEN Grown(q[b], Len(h[b]), left) ELSE q[u]

LEMMA ChunksGrow ==
  ASSUME NEW T, NEW l, NEW c, NEW m, NEW n \in Nat, NEW h, NEW q, NEW g,
         AllChunks(T, l, c, m, n, h, q, g), NEW b, NEW x, NEW left, NEW d, NEW s,
         ChunksTake(T, c, m, n, h, q, g, b, x, left, d, s)
  PROVE  AllChunks(T, l, c, m, n + 1, d, s, g) /\ Len(d[b]) = Len(h[b]) + 1
<1>0. /\ b \in DOMAIN h /\ x \in Instructions(T)
      /\ Works(T, c, m, g[b], b, x, q[b][Len(h[b])], left)
      /\ m[n + 1].of = g[b] => m[n + 1].place = Len(h[b]) + 1 /\ m[n + 1].left = left
      /\ \A u \in DOMAIN h \ {b} :
           m[n + 1].of = g[u] => m[n + 1].place \in 0 .. Len(h[u]) /\ q[u][m[n + 1].place] = m[n + 1].left
      /\ DOMAIN d = DOMAIN h /\ \A u \in DOMAIN h : d[u] = IF u = b THEN Append(h[b], x) ELSE h[u]
      /\ \A u \in DOMAIN h : s[u] = IF u = b THEN Grown(q[b], Len(h[b]), left) ELSE q[u]
  BY DEF ChunksTake
<1>1. \A u \in DOMAIN h : ChunkIs(T, l, c, m, n, h[u], q[u], g[u], u)
  BY DEF AllChunks
<1>2. d[b] = Append(h[b], x) /\ s[b] = Grown(q[b], Len(h[b]), left)
  BY <1>0
<1>3. ChunkIs(T, l, c, m, n + 1, d[b], s[b], g[b], b) /\ Len(d[b]) = Len(h[b]) + 1
  <2>1. ChunkIs(T, l, c, m, n, h[b], q[b], g[b], b)
    BY <1>0, <1>1
  <2>2. /\ ChunkIs(T, l, c, m, n + 1, Append(h[b], x), Grown(q[b], Len(h[b]), left), g[b], b)
        /\ Len(Append(h[b], x)) = Len(h[b]) + 1
    BY <1>0, <2>1, ChunkGrows
  <2>3. QED
    BY <1>2, <2>2
<1>4. ASSUME NEW u \in DOMAIN h \ {b} PROVE ChunkIs(T, l, c, m, n + 1, d[u], s[u], g[u], u)
  <2>1. d[u] = h[u] /\ s[u] = q[u]
    BY <1>0, <1>4
  <2>2. ChunkIs(T, l, c, m, n, h[u], q[u], g[u], u)
    BY <1>1
  <2>3. ChunkIs(T, l, c, m, n + 1, h[u], q[u], g[u], u)
    BY <1>0, <2>2, ChunkStays
  <2>4. QED
    BY <2>1, <2>3
<1>5. AllChunks(T, l, c, m, n + 1, d, s, g)
  BY <1>0, <1>3, <1>4 DEF AllChunks
<1>6. QED
  BY <1>3, <1>5

LEMMA ChunksStay ==
  ASSUME NEW T, NEW l, NEW c, NEW m, NEW n \in Nat, NEW h, NEW q, NEW g,
         AllChunks(T, l, c, m, n, h, q, g),
         \A u \in DOMAIN h :
           m[n + 1].of = g[u] => m[n + 1].place \in 0 .. Len(h[u]) /\ q[u][m[n + 1].place] = m[n + 1].left
  PROVE  AllChunks(T, l, c, m, n + 1, h, q, g)
<1> SUFFICES ASSUME NEW u \in DOMAIN h PROVE ChunkIs(T, l, c, m, n + 1, h[u], q[u], g[u], u)
  BY DEF AllChunks
<1>1. ChunkIs(T, l, c, m, n, h[u], q[u], g[u], u)
  BY DEF AllChunks
<1>2. QED
  BY <1>1, ChunkStays

(* An instruction is copied that does not end the chunk. *)
LEMMA Copies ==
  ASSUME NEW T, NEW l, NEW c, NEW m, RightCode(T, l, c, m),
         NEW n, NEW o, NEW p, NEW b, NEW h, NEW q, NEW g,
         Reached(T, l, c, m, n, o, p, b, h, q, g), n < Len(c),
         c[n + 1].op \notin FunctionOps, NEW r, r = IF b = NoName THEN o ELSE p,
         NEW e \in Int, b = NoName => e = o,
         NEW d, d = [h EXCEPT ![b] = Append(@, Relocated(c[n + 1], r))]
  PROVE  \E s : Reached(T, l, c, m, n + 1, e, p, b, d, s, g)
<1> DEFINE x == c[n + 1]
           z == Relocated(x, r)
           left == m[n + 1].left
           s == [u \in DOMAIN h |-> IF u = b THEN Grown(q[b], Len(h[b]), left) ELSE q[u]]
<1>1. /\ n \in 0 .. Len(c) /\ o \in Int /\ p \in Int /\ NoName \in DOMAIN h /\ b \in DOMAIN h
      /\ AllChunks(T, l, c, m, n, h, q, g) /\ g[b] = m[n].of /\ Len(h[b]) = m[n].place
      /\ Ended(h, q, b) /\ InLine(n, o, b, h) /\ InAFunction(m, n, p, b, h, q)
  BY DEF Reached
<1>2. c \in Seq(Instructions(T)) /\ Right(T, l, c, m, {}) /\ Len(c) \in Nat
  BY DEF RightCode
<1>3. n \in 0 .. Len(c) - 1 /\ n \in Nat /\ n + 1 \in 0 .. Len(c)
  BY <1>1, <1>2
<1>4. Lies(T, l, x, n, m[n], m[n + 1])
  BY <1>2, <1>3 DEF Right, Fits
<1>5. m[n + 1].of = m[n].of /\ m[n + 1].back = m[n].back /\ m[n + 1].place = m[n].place + 1 /\ m[n].place \in Nat
  BY <1>4 DEF Lies, FunctionOps, x
<1>6. /\ b = NoName <=> m[n].of = -1
      /\ \A u \in DOMAIN h : u # b => g[u] # g[b]
      /\ \A u \in DOMAIN h : Len(h[u]) \in Nat
      /\ q[b][Len(h[b])] = m[n].left
  BY OneChunk
<1>7. (m[n].of = -1 /\ m[n].place = n => r = 0) /\ (m[n].of = 0 => r = 2) /\ r \in Int
  BY <1>1, <1>6 DEF InLine, InAFunction
<1>8. Works(T, c, m, m[n].of, b, z, m[n].left, left) /\ z \in Instructions(T)
  <2>1. /\ Works(T, c, m, m[n].of, b, Relocated(c[n + 1], r), m[n].left, m[n + 1].left)
        /\ Relocated(c[n + 1], r) \in Instructions(T)
    <3>1. Relocates(T, l, c, m, n, r, b, m[n + 1].left)
      BY <1>2, <1>3, <1>6, <1>7 DEF Relocates
    <3>2. QED
      BY <3>1, WorksRelocated
  <2>2. QED
    BY <2>1
<1> HIDE DEF x, z
<1>9. DOMAIN d = DOMAIN h /\ \A u \in DOMAIN h : d[u] = IF u = b THEN Append(h[b], z) ELSE h[u]
  <2>1. d = [u \in DOMAIN h |-> IF u = b THEN Append(h[b], z) ELSE h[u]]
    BY DEF z, x
  <2>2. QED
    BY <2>1
<1>10. \A u \in DOMAIN h : s[u] = IF u = b THEN Grown(q[b], Len(h[b]), left) ELSE q[u]
  OBVIOUS
<1> HIDE DEF s
<1>11. AllChunks(T, l, c, m, n + 1, d, s, g) /\ Len(d[b]) = Len(h[b]) + 1
  <2>1. Works(T, c, m, g[b], b, z, q[b][Len(h[b])], left)
    BY <1>1, <1>6, <1>8
  <2>2. m[n + 1].of = g[b] => m[n + 1].place = Len(h[b]) + 1 /\ m[n + 1].left = left
    BY <1>1, <1>5
  <2>3. \A u \in DOMAIN h \ {b} :
          m[n + 1].of = g[u] => m[n + 1].place \in 0 .. Len(h[u]) /\ q[u][m[n + 1].place] = m[n + 1].left
    BY <1>1, <1>5, <1>6
  <2> HIDE DEF left
  <2>4. ChunksTake(T, c, m, n, h, q, g, b, z, left, d, s)
    BY <1>1, <1>8, <1>9, <1>10, <2>1, <2>2, <2>3 DEF ChunksTake
  <2>5. QED
    BY <1>1, <1>3, <2>4, ChunksGrow
<1>12. \A u \in DOMAIN h : u # b => d[u] = h[u] /\ s[u] = q[u]
  BY <1>9, <1>10
<1>13. Ended(d, s, b)
  BY <1>1, <1>9, <1>12 DEF Ended
<1>14. InLine(n + 1, e, b, d)
  BY <1>1, <1>3, <1>6, <1>11 DEF InLine
<1>15. InAFunction(m, n + 1, p, b, d, s)
  <2> SUFFICES ASSUME b # NoName
               PROVE  /\ Len(d[NoName]) < n + 1 /\ m[n + 1].back.place = Len(d[NoName])
                      /\ m[n + 1].back.left = s[NoName][Len(d[NoName])] /\ (m[n + 1].of = 0 => p = 2)
    BY DEF InAFunction
  <2>1. d[NoName] = h[NoName] /\ s[NoName] = q[NoName]
    BY <1>1, <1>12
  <2>2. /\ Len(h[NoName]) < n /\ m[n].back.place = Len(h[NoName]) /\ Len(h[NoName]) \in Nat
        /\ m[n].back.left = q[NoName][Len(h[NoName])] /\ (m[n].of = 0 => p = 2)
    BY <1>1, <1>6 DEF InAFunction
  <2>3. QED
    BY <1>3, <1>5, <2>1, <2>2
<1>16. g[b] = m[n + 1].of /\ Len(d[b]) = m[n + 1].place
  BY <1>1, <1>5, <1>11
<1>17. Reached(T, l, c, m, n + 1, e, p, b, d, s, g)
  BY <1>1, <1>3, <1>9, <1>11, <1>13, <1>14, <1>15, <1>16 DEF Reached
<1>18. QED
  BY <1>17

(* The arguments of a function are not copied. *)
LEMMA Skips ==
  ASSUME NEW T, NEW l, NEW c, NEW m, RightCode(T, l, c, m),
         NEW n, NEW o, NEW p, NEW b, NEW h, NEW q, NEW g,
         Reached(T, l, c, m, n, o, p, b, h, q, g), n < Len(c),
         c[n + 1].op = "func_set_args", NEW e \in Int
  PROVE  b # NoName /\ Reached(T, l, c, m, n + 1, e, p, b, h, q, g)
<1> DEFINE x == c[n + 1]
<1>1. /\ n \in 0 .. Len(c) /\ o \in Int /\ p \in Int /\ NoName \in DOMAIN h /\ b \in DOMAIN h
      /\ AllChunks(T, l, c, m, n, h, q, g) /\ g[b] = m[n].of /\ Len(h[b]) = m[n].place
      /\ Ended(h, q, b) /\ InLine(n, o, b, h) /\ InAFunction(m, n, p, b, h, q)
  BY DEF Reached
<1>2. c \in Seq(Instructions(T)) /\ Right(T, l, c, m, {}) /\ Len(c) \in Nat
  BY DEF RightCode
<1>3. n \in 0 .. Len(c) - 1 /\ n \in Nat /\ n + 1 \in 0 .. Len(c)
  BY <1>1, <1>2
<1>4. Lies(T, l, x, n, m[n], m[n + 1]) /\ Does(T, x, m[n].left, m[n + 1].left)
  BY <1>2, <1>3 DEF Right, Fits
<1>5. /\ m[n + 1].of = m[n].of /\ m[n + 1].back = m[n].back /\ m[n + 1].place = m[n].place
      /\ m[n].of # -1 /\ m[n + 1].left = m[n].left
  BY <1>4 DEF Lies, Does
<1>6. /\ b = NoName <=> m[n].of = -1
      /\ \A u \in DOMAIN h : u # b => g[u] # g[b]
      /\ \A u \in DOMAIN h : Len(h[u]) \in Nat
      /\ q[b][Len(h[b])] = m[n].left
  BY OneChunk
<1>7. AllChunks(T, l, c, m, n + 1, h, q, g)
  <2>1. \A u \in DOMAIN h :
          m[n + 1].of = g[u] => m[n + 1].place \in 0 .. Len(h[u]) /\ q[u][m[n + 1].place] = m[n + 1].left
    <3> TAKE u \in DOMAIN h
    <3>1. CASE u = b
      <4>1. Len(h[b]) \in 0 .. Len(h[b])
        BY <1>1, <1>6
      <4>2. QED
        BY <1>1, <1>5, <1>6, <3>1, <4>1
    <3>2. CASE u # b
      BY <1>1, <1>5, <1>6, <3>2
    <3>3. QED
      BY <3>1, <3>2
  <2>2. QED
    BY <1>1, <1>3, <2>1, ChunksStay
<1>8. InLine(n + 1, e, b, h) /\ b # NoName
  BY <1>5, <1>6 DEF InLine
<1>9. InAFunction(m, n + 1, p, b, h, q)
  BY <1>1, <1>3, <1>5, <1>6 DEF InAFunction
<1>10. QED
  BY <1>1, <1>3, <1>5, <1>7, <1>8, <1>9 DEF Reached

(* A function ends, and its chunk. *)
Ending(T, l, c, m, n, o, p, b, h, q, g) ==
  /\ RightCode(T, l, c, m) /\ Reached(T, l, c, m, n, o, p, b, h, q, g)
  /\ n < Len(c) /\ c[n + 1].op = "func_end"

LEMMA EndsHere ==
  ASSUME NEW T, NEW l, NEW c, NEW m, NEW n, NEW o, NEW p, NEW b, NEW h, NEW q, NEW g,
         Ending(T, l, c, m, n, o, p, b, h, q, g)
  PROVE  /\ n \in Nat /\ n + 1 \in 0 .. Len(c) /\ b # NoName /\ b \in DOMAIN h /\ NoName \in DOMAIN h
         /\ m[n + 1].of = -1 /\ m[n + 1].place = Len(h[NoName]) /\ Len(h[NoName]) \in Nat
         /\ m[n + 1].left = q[NoName][Len(h[NoName])] /\ Len(h[NoName]) < n
         /\ g[b] # -1 /\ g[NoName] = -1
         /\ Works(T, c, m, g[b], b, Relocated(c[n + 1], p), q[b][Len(h[b])], Never)
         /\ Relocated(c[n + 1], p) \in Instructions(T)
<1> DEFINE x == c[n + 1]
<1>1. /\ n \in 0 .. Len(c) /\ o \in Int /\ p \in Int /\ NoName \in DOMAIN h /\ b \in DOMAIN h
      /\ g[b] = m[n].of /\ Len(h[b]) = m[n].place /\ InAFunction(m, n, p, b, h, q)
  BY DEF Ending, Reached
<1>2. c \in Seq(Instructions(T)) /\ Right(T, l, c, m, {}) /\ Len(c) \in Nat
  BY DEF Ending, RightCode
<1>3. n \in 0 .. Len(c) - 1 /\ n \in Nat /\ n + 1 \in 0 .. Len(c)
  BY <1>1, <1>2 DEF Ending
<1>4. Lies(T, l, x, n, m[n], m[n + 1]) /\ x.op = "func_end"
  BY <1>2, <1>3 DEF Right, Fits, Ending
<1>5. m[n].of # -1 /\ m[n + 1].of = -1 /\ m[n + 1].left = m[n].back.left /\ m[n + 1].place = m[n].back.place
  BY <1>4 DEF Lies
<1>6. /\ b = NoName <=> m[n].of = -1
      /\ g[b] = -1 <=> b = NoName
      /\ g[NoName] = -1
      /\ Len(h[NoName]) \in Nat /\ q[b][Len(h[b])] = m[n].left
  <2>1. Reached(T, l, c, m, n, o, p, b, h, q, g)
    BY DEF Ending
  <2>2. QED
    BY <1>1, <2>1, OneChunk
<1>7. /\ Len(h[NoName]) < n /\ m[n].back.place = Len(h[NoName])
      /\ m[n].back.left = q[NoName][Len(h[NoName])] /\ (m[n].of = 0 => p = 2)
  BY <1>1, <1>5, <1>6 DEF InAFunction
<1>8. Relocates(T, l, c, m, n, p, b, Never)
  BY <1>1, <1>2, <1>3, <1>4, <1>5, <1>6, <1>7 DEF Relocates, x
<1>9. /\ Works(T, c, m, m[n].of, b, Relocated(c[n + 1], p), m[n].left, Never)
      /\ Relocated(c[n + 1], p) \in Instructions(T)
  BY <1>8, WorksRelocated
<1>10. Works(T, c, m, g[b], b, Relocated(c[n + 1], p), q[b][Len(h[b])], Never)
  BY <1>1, <1>6, <1>9
<1>11. QED
  BY <1>1, <1>3, <1>5, <1>6, <1>7, <1>9, <1>10

LEMMA GrownEnds ==
  ASSUME NEW v, NEW k \in Nat, NEW w, NEW s, s = Grown(v, k, w)
  PROVE  s[k + 1] = w
BY GrownIs

LEMMA Ends ==
  ASSUME NEW T, NEW l, NEW c, NEW m, NEW n, NEW o, NEW p, NEW b, NEW h, NEW q, NEW g,
         Ending(T, l, c, m, n, o, p, b, h, q, g), NEW e \in Int,
         NEW d, d = [h EXCEPT ![b] = Append(@, Relocated(c[n + 1], p))]
  PROVE  \E s : Reached(T, l, c, m, n + 1, e, p, NoName, d, s, g)
<1> DEFINE z == Relocated(c[n + 1], p)
           s == [u \in DOMAIN h |-> IF u = b THEN Grown(q[b], Len(h[b]), Never) ELSE q[u]]
<1>1. /\ n \in 0 .. Len(c) /\ o \in Int /\ p \in Int /\ AllChunks(T, l, c, m, n, h, q, g)
      /\ Ended(h, q, b) /\ Reached(T, l, c, m, n, o, p, b, h, q, g)
  BY DEF Ending, Reached
<1>2. /\ n \in Nat /\ n + 1 \in 0 .. Len(c) /\ b # NoName /\ b \in DOMAIN h /\ NoName \in DOMAIN h
      /\ m[n + 1].of = -1 /\ m[n + 1].place = Len(h[NoName]) /\ Len(h[NoName]) \in Nat
      /\ m[n + 1].left = q[NoName][Len(h[NoName])] /\ Len(h[NoName]) < n
      /\ g[b] # -1 /\ g[NoName] = -1
      /\ Works(T, c, m, g[b], b, z, q[b][Len(h[b])], Never)
      /\ z \in Instructions(T)
  BY EndsHere
<1>3. \A u \in DOMAIN h : (g[u] = -1 <=> u = NoName) /\ Len(h[u]) \in Nat
  BY <1>1, OneChunk
<1>4. DOMAIN d = DOMAIN h /\ \A u \in DOMAIN h : d[u] = IF u = b THEN Append(h[b], z) ELSE h[u]
  <2>1. d = [u \in DOMAIN h |-> IF u = b THEN Append(h[b], z) ELSE h[u]]
    OBVIOUS
  <2>2. QED
    BY <2>1
<1> HIDE DEF z
<1>5. \A u \in DOMAIN h : s[u] = IF u = b THEN Grown(q[b], Len(h[b]), Never) ELSE q[u]
  OBVIOUS
<1> HIDE DEF s
<1>6. AllChunks(T, l, c, m, n + 1, d, s, g) /\ Len(d[b]) = Len(h[b]) + 1
  <2>1. \A u \in DOMAIN h \ {b} :
          m[n + 1].of = g[u] => m[n + 1].place \in 0 .. Len(h[u]) /\ q[u][m[n + 1].place] = m[n + 1].left
    <3> TAKE u \in DOMAIN h \ {b}
    <3>1. CASE u = NoName
      BY <1>2, <3>1
    <3>2. CASE u # NoName
      BY <1>2, <1>3, <3>2
    <3>3. QED
      BY <3>1, <3>2
  <2>2. m[n + 1].of # g[b]
    BY <1>2
  <2>3. ChunksTake(T, c, m, n, h, q, g, b, z, Never, d, s)
    BY <1>2, <1>4, <1>5, <2>1, <2>2 DEF ChunksTake
  <2>4. QED
    BY <1>1, <1>2, <2>3, ChunksGrow
<1>7. \A u \in DOMAIN h : u # b => d[u] = h[u] /\ s[u] = q[u]
  BY <1>4, <1>5
<1>8. s[b][Len(d[b])] = Never
  <2>1. s[b] = Grown(q[b], Len(h[b]), Never) /\ Len(h[b]) \in Nat
    BY <1>2, <1>3, <1>5
  <2>2. PICK k, v : k = Len(h[b]) /\ v = q[b]
    OBVIOUS
  <2>3. k \in Nat /\ s[b] = Grown(v, k, Never) /\ Len(d[b]) = k + 1
    BY <1>6, <2>1, <2>2
  <2>4. PICK w : w = Never
    OBVIOUS
  <2>5. k \in Nat /\ s[b] = Grown(v, k, w)
    BY <2>3, <2>4
  <2>6. s[b][k + 1] = w
    BY <2>5, GrownEnds
  <2>7. QED
    BY <2>3, <2>4, <2>6
<1>9. Ended(d, s, NoName)
  <2> SUFFICES ASSUME NEW u \in DOMAIN d \ {NoName} PROVE s[u][Len(d[u])] = Never
    BY DEF Ended
  <2>1. CASE u = b
    BY <1>8, <2>1
  <2>2. CASE u # b
    BY <1>1, <1>4, <1>7, <2>2 DEF Ended
  <2>3. QED
    BY <2>1, <2>2
<1>10. d[NoName] = h[NoName] /\ NoName \in DOMAIN d
  BY <1>2, <1>4, <1>7
<1>11. InLine(n + 1, e, NoName, d)
  BY <1>2, <1>10 DEF InLine
<1>12. InAFunction(m, n + 1, p, NoName, d, s)
  BY DEF InAFunction
<1>13. Reached(T, l, c, m, n + 1, e, p, NoName, d, s, g)
  BY <1>1, <1>2, <1>6, <1>9, <1>10, <1>11, <1>12 DEF Reached
<1>14. QED
  BY <1>13

(* A function opens: its chunk is new, and empty. *)
Opening(T, l, c, m, n, o, p, h, q, g) ==
  /\ RightCode(T, l, c, m) /\ Reached(T, l, c, m, n, o, p, NoName, h, q, g)
  /\ n < Len(c) /\ c[n + 1].op = "func_def"

LEMMA OpensHere ==
  ASSUME NEW T, NEW l, NEW c, NEW m, NEW n, NEW o, NEW p, NEW h, NEW q, NEW g,
         Opening(T, l, c, m, n, o, p, h, q, g), NEW u, u = c[n + 1].id
  PROVE  /\ n \in Nat /\ n + 1 \in 0 .. Len(c) /\ u # NoName /\ TextIn(l, u) \in Rests(T)
         /\ m[n + 1].of = n /\ m[n + 1].place = 0 /\ m[n + 1].left = Always(T, TextIn(l, u))
         /\ m[n + 1].back.place = Len(h[NoName]) /\ m[n + 1].back.left = q[NoName][Len(h[NoName])]
         /\ Len(h[NoName]) \in Nat /\ Len(h[NoName]) <= n /\ (n = 0 => o = 0)
         /\ \A a \in 0 .. n : m[a].of # n
<1>1. /\ n \in 0 .. Len(c) /\ NoName \in DOMAIN h
      /\ Len(h[NoName]) = m[n].place /\ InLine(n, o, NoName, h)
  BY DEF Opening, Reached
<1>2. c \in Seq(Instructions(T)) /\ Right(T, l, c, m, {}) /\ Len(c) \in Nat
  BY DEF Opening, RightCode
<1>3. n \in 0 .. Len(c) - 1 /\ n \in Nat /\ n + 1 \in 0 .. Len(c)
  BY <1>1, <1>2 DEF Opening
<1>4. Lies(T, l, c[n + 1], n, m[n], m[n + 1])
  BY <1>2, <1>3 DEF Right, Fits
<1>5. /\ m[n].of = -1 /\ m[n + 1].of = n /\ m[n + 1].place = 0
      /\ m[n + 1].back = [left |-> m[n].left, place |-> m[n].place]
      /\ u # NoName /\ TextIn(l, u) \in Rests(T) /\ m[n + 1].left = Always(T, TextIn(l, u))
  BY <1>4 DEF Lies, Opening
<1>6. Len(h[NoName]) \in Nat /\ q[NoName][Len(h[NoName])] = m[n].left
  <2>1. Reached(T, l, c, m, n, o, p, NoName, h, q, g)
    BY DEF Opening
  <2>2. QED
    BY <1>1, <2>1, OneChunk
<1>7. Len(h[NoName]) <= n /\ (Len(h[NoName]) = n => o = 0)
  BY <1>1 DEF InLine
<1>8. n = 0 => o = 0
  BY <1>3, <1>6, <1>7
<1>9. \A a \in 0 .. n : m[a].of # n
  <2> SUFFICES ASSUME NEW a \in 0 .. n PROVE m[a].of # n
    OBVIOUS
  <2>1. a \in 0 .. Len(c) - 1 /\ a \in Nat
    BY <1>2, <1>3
  <2>2. Lies(T, l, c[a + 1], a, m[a], m[a + 1])
    BY <1>2, <2>1 DEF Right, Fits
  <2>3. m[a].of \in -1 .. a - 1
    BY <2>2 DEF Lies
  <2>4. QED
    BY <1>3, <2>3
<1>10. m[n + 1].back.place = m[n].place /\ m[n + 1].back.left = m[n].left
  BY <1>5
<1>11. QED
  BY <1>1, <1>3, <1>5, <1>6, <1>7, <1>8, <1>9, <1>10

LEMMA NewChunk ==
  ASSUME NEW T, NEW l, NEW c, NEW m, NEW n \in Nat, NEW u, u # NoName, c[n + 1].id = u,
         TextIn(l, u) \in Rests(T), \A a \in 0 .. n : m[a].of # n,
         m[n + 1].of = n, m[n + 1].place = 0, m[n + 1].left = Always(T, TextIn(l, u)),
         NEW y, y = <<>>, NEW s, s = [k \in {0} |-> Always(T, TextIn(l, u))]
  PROVE  ChunkIs(T, l, c, m, n + 1, y, s, n, u)
<1>1. y \in Seq(Instructions(T)) /\ Len(y) = 0
  OBVIOUS
<1>2. s[0] = Always(T, TextIn(l, u))
  OBVIOUS
<1>3. \A a \in 0 .. n + 1 : m[a].of = n => m[a].place \in 0 .. Len(y) /\ s[m[a].place] = m[a].left
  <2> SUFFICES ASSUME NEW a \in 0 .. n + 1, m[a].of = n
               PROVE  m[a].place \in 0 .. Len(y) /\ s[m[a].place] = m[a].left
    OBVIOUS
  <2>1. a = n + 1
    OBVIOUS
  <2>2. QED
    BY <1>1, <1>2, <2>1
<1>4. \A k \in 0 .. Len(y) - 1 : Works(T, c, m, n, u, y[k + 1], s[k], s[k + 1])
  BY <1>1
<1>5. n \in -1 .. (n + 1) - 1 /\ n # -1
  OBVIOUS
<1> HIDE DEF Works
<1>6. QED
  BY <1>1, <1>2, <1>3, <1>4, <1>5 DEF ChunkIs

LEMMA Opens ==
  ASSUME NEW T, NEW l, NEW c, NEW m, NEW n, NEW o, NEW p, NEW h, NEW q, NEW g,
         Opening(T, l, c, m, n, o, p, h, q, g), NEW u, u = c[n + 1].id,
         NEW d, d = [v \in DOMAIN h \cup {u} |-> IF v = u THEN <<>> ELSE h[v]]
  PROVE  \E s, f : Reached(T, l, c, m, n + 1, o + 3, o + 2, u, d, s, f)
<1> DEFINE w == [k \in {0} |-> Always(T, TextIn(l, u))]
           y == <<>>
           s == [v \in DOMAIN h \cup {u} |-> IF v = u THEN w ELSE q[v]]
           f == [v \in DOMAIN h \cup {u} |-> IF v = u THEN n ELSE g[v]]
<1>1. /\ n \in 0 .. Len(c) /\ o \in Int /\ p \in Int /\ AllChunks(T, l, c, m, n, h, q, g)
      /\ NoName \in DOMAIN h /\ Ended(h, q, NoName) /\ Reached(T, l, c, m, n, o, p, NoName, h, q, g)
      /\ c[n + 1].id = u
  BY DEF Opening, Reached
<1>2. /\ n \in Nat /\ n + 1 \in 0 .. Len(c) /\ u # NoName /\ TextIn(l, u) \in Rests(T)
      /\ m[n + 1].of = n /\ m[n + 1].place = 0 /\ m[n + 1].left = Always(T, TextIn(l, u))
      /\ m[n + 1].back.place = Len(h[NoName]) /\ m[n + 1].back.left = q[NoName][Len(h[NoName])]
      /\ Len(h[NoName]) \in Nat /\ Len(h[NoName]) <= n /\ (n = 0 => o = 0)
      /\ \A a \in 0 .. n : m[a].of # n
  BY OpensHere
<1>3. \A v \in DOMAIN h : g[v] \in -1 .. n - 1
  BY <1>1, OneChunk
<1>4. y = <<>> /\ Len(y) = 0
  OBVIOUS
<1>5. /\ d[u] = y /\ s[u] = w /\ f[u] = n /\ DOMAIN d = DOMAIN h \cup {u}
      /\ \A v \in DOMAIN d : v # u => v \in DOMAIN h /\ d[v] = h[v] /\ s[v] = q[v] /\ f[v] = g[v]
  OBVIOUS
<1>6. w = [k \in {0} |-> Always(T, TextIn(l, u))]
  OBVIOUS
<1> HIDE DEF w, y, s, f
<1>7. ChunkIs(T, l, c, m, n + 1, y, w, n, u)
  BY <1>1, <1>2, <1>4, <1>6, NewChunk
<1>8. AllChunks(T, l, c, m, n + 1, d, s, f)
  <2> SUFFICES ASSUME NEW v \in DOMAIN d PROVE ChunkIs(T, l, c, m, n + 1, d[v], s[v], f[v], v)
    BY DEF AllChunks
  <2>1. CASE v = u
    BY <1>5, <1>7, <2>1
  <2>2. CASE v # u
    <3>1. v \in DOMAIN h /\ d[v] = h[v] /\ s[v] = q[v] /\ f[v] = g[v]
      BY <1>5, <2>2
    <3>2. ChunkIs(T, l, c, m, n, h[v], q[v], g[v], v)
      BY <1>1, <3>1 DEF AllChunks
    <3>3. m[n + 1].of # g[v]
      BY <1>2, <1>3, <3>1
    <3>4. ChunkIs(T, l, c, m, n + 1, h[v], q[v], g[v], v)
      BY <1>2, <3>2, <3>3, ChunkStays
    <3>5. QED
      BY <3>1, <3>4
  <2>3. QED
    BY <2>1, <2>2
<1>9. d[NoName] = h[NoName] /\ s[NoName] = q[NoName] /\ NoName \in DOMAIN d /\ u \in DOMAIN d
  BY <1>1, <1>2, <1>5
<1>10. Ended(d, s, u)
  <2> SUFFICES ASSUME NEW v \in DOMAIN d \ {u, NoName} PROVE s[v][Len(d[v])] = Never
    BY DEF Ended
  <2>1. v \in DOMAIN h \ {NoName} /\ d[v] = h[v] /\ s[v] = q[v]
    BY <1>5
  <2>2. QED
    BY <1>1, <2>1 DEF Ended
<1>11. InLine(n + 1, o + 3, u, d)
  BY <1>2 DEF InLine
<1>12. InAFunction(m, n + 1, o + 2, u, d, s)
  <2>1. Len(d[NoName]) < n + 1
    BY <1>2, <1>9
  <2>2. m[n + 1].of = 0 => o + 2 = 2
    BY <1>2
  <2>3. m[n + 1].back.place = Len(d[NoName]) /\ m[n + 1].back.left = s[NoName][Len(d[NoName])]
    BY <1>2, <1>9
  <2>4. QED
    BY <2>1, <2>2, <2>3 DEF InAFunction
<1>13. f[u] = m[n + 1].of /\ Len(d[u]) = m[n + 1].place
  BY <1>2, <1>4, <1>5
<1>14. Reached(T, l, c, m, n + 1, o + 3, o + 2, u, d, s, f)
  BY <1>1, <1>2, <1>8, <1>9, <1>10, <1>11, <1>12, <1>13 DEF Reached
<1>15. QED
  BY <1>14

(* The loader starts. *)
LEMMA Starts ==
  ASSUME NEW T, NEW l \in Rests(T), NEW c, NEW m, RightCode(T, l, c, m),
         m[0].left = Always(T, l), m[0].of = -1, m[0].place = 0,
         NEW h, h = [u \in {NoName} |-> <<>>], NEW p \in Int
  PROVE  \E s, f : Reached(T, l, c, m, 0, 0, p, NoName, h, s, f)
<1> DEFINE w == [k \in {0} |-> Always(T, l)]
           y == <<>>
           s == [u \in {NoName} |-> w]
           f == [u \in {NoName} |-> -1]
<1>1. y \in Seq(Instructions(T)) /\ Len(y) = 0
  OBVIOUS
<1>2. w[0] = Always(T, l) /\ TextIn(l, NoName) = l
  BY DEF TextIn
<1>3. DOMAIN h = {NoName} /\ h[NoName] = y /\ s[NoName] = w /\ f[NoName] = -1
  OBVIOUS
<1>4. Len(c) \in Nat
  BY DEF RightCode
<1> HIDE DEF w, y, s, f
<1>5. ChunkIs(T, l, c, m, 0, y, w, -1, NoName)
  <2>1. \A a \in 0 .. 0 : m[a].of = -1 => m[a].place \in 0 .. Len(y) /\ w[m[a].place] = m[a].left
    BY <1>1, <1>2
  <2>2. \A k \in 0 .. Len(y) - 1 : Works(T, c, m, -1, NoName, y[k + 1], w[k], w[k + 1])
    BY <1>1
  <2>3. -1 \in -1 .. 0 - 1
    OBVIOUS
  <2>4. QED
    BY <1>1, <1>2, <2>1, <2>2, <2>3 DEF ChunkIs
<1>6. AllChunks(T, l, c, m, 0, h, s, f)
  BY <1>3, <1>5 DEF AllChunks
<1>7. Ended(h, s, NoName) /\ InLine(0, 0, NoName, h) /\ InAFunction(m, 0, p, NoName, h, s)
  BY <1>1, <1>3 DEF Ended, InLine, InAFunction
<1>8. Reached(T, l, c, m, 0, 0, p, NoName, h, s, f)
  <2>1. 0 \in 0 .. Len(c)
    BY <1>4
  <2>2. QED
    BY <1>1, <1>3, <1>6, <1>7, <2>1 DEF Reached
<1>9. QED
  BY <1>8

(* vm_load_bytecode, between two instructions of the generated code. *)
Loads(T, m, q, g) ==
  /\ Coded(T, m)
  /\ Reached(T, line, code, m, i, jmp_offset, jmp_offset_f, chunk, chunks, q, g)

LoadsRight(T) == \E m, q, g : Loads(T, m, q, g)

LEMMA LoadsOn ==
  ASSUME NEW T, NEW m, Coded(T, m), NEW q, NEW g, UNCHANGED <<line, code>>,
         Reached(T, line, code, m, i', jmp_offset', jmp_offset_f', chunk', chunks', q, g)
  PROVE  LoadsRight(T)'
<1>1. line' = line /\ code' = code
  OBVIOUS
<1>2. Coded(T, m)'
  BY <1>1 DEF Coded
<1>3. Reached(T, line', code', m, i', jmp_offset', jmp_offset_f', chunk', chunks', q, g)
  BY <1>1
<1>4. QED
  BY <1>2, <1>3 DEF LoadsRight, Loads

LEMMA LoadsHere ==
  ASSUME NEW T, NEW m, NEW q, NEW g, Loads(T, m, q, g), Loading
  PROVE  /\ Coded(T, m) /\ RightCode(T, line, code, m)
         /\ Reached(T, line, code, m, i, jmp_offset, jmp_offset_f, chunk, chunks, q, g)
         /\ i < Len(code) /\ jmp_offset \in Int /\ jmp_offset_f \in Int
         /\ src.op = "func_def" => chunk = NoName
         /\ src.op \in {"func_end", "func_set_args"} => chunk # NoName
<1>1. /\ Coded(T, m) /\ RightCode(T, line, code, m) /\ i < Len(code)
      /\ Reached(T, line, code, m, i, jmp_offset, jmp_offset_f, chunk, chunks, q, g)
  BY DEF Loads, Coded, RightCode, Loading
<1>2. i \in 0 .. Len(code) /\ jmp_offset \in Int /\ jmp_offset_f \in Int
  BY <1>1 DEF Reached
<1>3. i \in 0 .. Len(code) - 1
  BY <1>1, <1>2 DEF RightCode
<1>4. Lies(T, line, code[i + 1], i, m[i], m[i + 1])
  BY <1>1, <1>3 DEF RightCode, Right, Fits
<1>5. chunk = NoName <=> m[i].of = -1
  BY <1>1, OneChunk
<1>6. src.op = "func_def" => m[i].of = -1
  BY <1>4 DEF Lies, src
<1>7. src.op \in {"func_end", "func_set_args"} => m[i].of # -1
  BY <1>4 DEF Lies, src
<1>8. QED
  BY <1>1, <1>2, <1>5, <1>6, <1>7

LEMMA LoadStarts ==
  ASSUME NEW T, NEW inside, Faithful(T, inside), Generating(T), line \in Seq(T), Load
  PROVE  LoadsRight(T)'
<1>1. /\ work = <<>> /\ ~refused /\ i' = 0 /\ jmp_offset' = 0 /\ jmp_offset_f' = 0
      /\ chunk' = NoName /\ chunks' = [u \in {NoName} |-> <<>>] /\ UNCHANGED <<line, code>>
  BY DEF Load, genVars
<1>2. PICK m : Coded(T, m)
  BY <1>1, FaithCoded
<1>3. line \in Rests(T)
  BY DEF Rests, Nodes
<1>4. /\ RightCode(T, line, code, m) /\ m[0].left = Always(T, line) /\ m[0].of = -1 /\ m[0].place = 0
  BY <1>2 DEF Coded, RightCode
<1>5. PICK h : h = [u \in {NoName} |-> <<>>]
  OBVIOUS
<1>6. PICK p : p = 0
  OBVIOUS
<1>7. \E s, f : Reached(T, line, code, m, 0, 0, p, NoName, h, s, f)
  <2>1. p \in Int
    BY <1>6
  <2>2. QED
    BY <1>3, <1>4, <1>5, <2>1, Starts
<1>8. PICK s, f : Reached(T, line, code, m, i', jmp_offset', jmp_offset_f', chunk', chunks', s, f)
  BY <1>1, <1>5, <1>6, <1>7
<1>9. QED
  BY <1>1, <1>2, <1>8, LoadsOn

LEMMA LoadsMain ==
  ASSUME NEW T, LoadsRight(T), CopyMain
  PROVE  LoadsRight(T)'
<1>1. PICK m, q, g : Loads(T, m, q, g)
  BY DEF LoadsRight
<1>2. /\ Loading /\ chunk = NoName /\ src.op # "func_def" /\ UNCHANGED <<line, code>>
      /\ i' = i + 1 /\ jmp_offset' = jmp_offset /\ jmp_offset_f' = jmp_offset_f /\ chunk' = chunk
      /\ chunks' = [chunks EXCEPT ![chunk] = Append(@, Relocated(src, jmp_offset))]
  BY DEF CopyMain, Copy, genVars
<1>3. /\ Coded(T, m) /\ RightCode(T, line, code, m)
      /\ Reached(T, line, code, m, i, jmp_offset, jmp_offset_f, chunk, chunks, q, g)
      /\ i < Len(code) /\ jmp_offset \in Int
      /\ src.op \in {"func_end", "func_set_args"} => chunk # NoName
  BY <1>1, <1>2, LoadsHere
<1>4. code[i + 1].op \notin FunctionOps
  BY <1>2, <1>3 DEF FunctionOps, src
<1>5. PICK r : r = jmp_offset
  OBVIOUS
<1>6. r = IF chunk = NoName THEN jmp_offset ELSE jmp_offset_f
  BY <1>2, <1>5
<1>7. PICK d : d = [chunks EXCEPT ![chunk] = Append(@, Relocated(code[i + 1], r))]
  OBVIOUS
<1>8. chunks' = d
  BY <1>2, <1>5, <1>7 DEF src
<1>9. PICK s : Reached(T, line, code, m, i + 1, jmp_offset, jmp_offset_f, chunk, d, s, g)
  BY <1>3, <1>4, <1>6, <1>7, Copies
<1>10. Reached(T, line, code, m, i', jmp_offset', jmp_offset_f', chunk', chunks', s, g)
  BY <1>2, <1>8, <1>9
<1>11. QED
  BY <1>2, <1>3, <1>10, LoadsOn

LEMMA LoadsFunctionStart ==
  ASSUME NEW T, LoadsRight(T), CopyFunctionStart
  PROVE  LoadsRight(T)'
<1>1. PICK m, q, g : Loads(T, m, q, g)
  BY DEF LoadsRight
<1>2. /\ Loading /\ chunk = NoName /\ src.op = "func_def" /\ UNCHANGED <<line, code>>
      /\ i' = i + 1 /\ jmp_offset' = jmp_offset + 3 /\ jmp_offset_f' = jmp_offset + 2 /\ chunk' = src.id
      /\ chunks' = [u \in DOMAIN chunks \cup {src.id} |-> IF u = src.id THEN <<>> ELSE chunks[u]]
  BY DEF CopyFunctionStart, genVars
<1>3. /\ Coded(T, m) /\ RightCode(T, line, code, m) /\ i < Len(code)
      /\ Reached(T, line, code, m, i, jmp_offset, jmp_offset_f, chunk, chunks, q, g)
  BY <1>1, <1>2, LoadsHere
<1>4. Opening(T, line, code, m, i, jmp_offset, jmp_offset_f, chunks, q, g)
  BY <1>2, <1>3 DEF Opening, src
<1>5. PICK u : u = code[i + 1].id
  OBVIOUS
<1>6. PICK d : d = [v \in DOMAIN chunks \cup {u} |-> IF v = u THEN <<>> ELSE chunks[v]]
  OBVIOUS
<1>7. \E s, f : Reached(T, line, code, m, i + 1, jmp_offset + 3, jmp_offset + 2, u, d, s, f)
  BY <1>4, <1>5, <1>6, Opens
<1>8. chunk' = u /\ chunks' = d
  BY <1>2, <1>5, <1>6 DEF src
<1>9. PICK s, f : Reached(T, line, code, m, i', jmp_offset', jmp_offset_f', chunk', chunks', s, f)
  BY <1>2, <1>7, <1>8
<1>10. QED
  BY <1>2, <1>3, <1>9, LoadsOn

LEMMA LoadsFunction ==
  ASSUME NEW T, LoadsRight(T), CopyFunction
  PROVE  LoadsRight(T)'
<1>1. PICK m, q, g : Loads(T, m, q, g)
  BY DEF LoadsRight
<1>2. /\ Loading /\ chunk # NoName /\ UNCHANGED <<line, code>>
      /\ i' = i + 1 /\ jmp_offset' = jmp_offset + 1 /\ jmp_offset_f' = jmp_offset_f
      /\ chunk' = IF src.op = "func_end" THEN NoName ELSE chunk
      /\ src.op \in {"func_def", "func_set_args"} => chunks' = chunks
      /\ src.op \notin {"func_def", "func_set_args"} =>
           chunks' = [chunks EXCEPT ![chunk] = Append(@, Relocated(src, jmp_offset_f))]
  BY DEF CopyFunction, Copy, genVars
<1>3. /\ Coded(T, m) /\ RightCode(T, line, code, m)
      /\ Reached(T, line, code, m, i, jmp_offset, jmp_offset_f, chunk, chunks, q, g)
      /\ i < Len(code) /\ jmp_offset \in Int /\ jmp_offset_f \in Int /\ src.op # "func_def"
  BY <1>1, <1>2, LoadsHere
<1>4. PICK e : e = jmp_offset + 1
  OBVIOUS
<1>5. e \in Int /\ jmp_offset' = e
  BY <1>2, <1>3, <1>4
<1>6. PICK d : d = [chunks EXCEPT ![chunk] = Append(@, Relocated(code[i + 1], jmp_offset_f))]
  OBVIOUS
<1>7. src.op \notin {"func_def", "func_set_args"} => chunks' = d
  BY <1>2, <1>6 DEF src
<1>8. CASE src.op = "func_set_args"
  <2>1. Reached(T, line, code, m, i + 1, e, jmp_offset_f, chunk, chunks, q, g)
    BY <1>3, <1>5, <1>8, Skips DEF src
  <2>2. Reached(T, line, code, m, i', jmp_offset', jmp_offset_f', chunk', chunks', q, g)
    BY <1>2, <1>5, <1>8, <2>1
  <2>3. QED
    BY <1>2, <1>3, <2>2, LoadsOn
<1>9. CASE src.op = "func_end"
  <2>1. Ending(T, line, code, m, i, jmp_offset, jmp_offset_f, chunk, chunks, q, g)
    BY <1>3, <1>9 DEF Ending, src
  <2>2. PICK s : Reached(T, line, code, m, i + 1, e, jmp_offset_f, NoName, d, s, g)
    BY <1>5, <1>6, <2>1, Ends
  <2>3. Reached(T, line, code, m, i', jmp_offset', jmp_offset_f', chunk', chunks', s, g)
    BY <1>2, <1>5, <1>7, <1>9, <2>2
  <2>4. QED
    BY <1>2, <1>3, <2>3, LoadsOn
<1>10. CASE src.op \notin {"func_set_args", "func_end"}
  <2>1. code[i + 1].op \notin FunctionOps
    BY <1>3, <1>10 DEF FunctionOps, src
  <2>2. PICK r : r = jmp_offset_f
    OBVIOUS
  <2>3. r = (IF chunk = NoName THEN jmp_offset ELSE jmp_offset_f) /\ (chunk = NoName => e = jmp_offset)
    BY <1>2, <2>2
  <2>4. d = [chunks EXCEPT ![chunk] = Append(@, Relocated(code[i + 1], r))]
    BY <1>6, <2>2
  <2>5. PICK s : Reached(T, line, code, m, i + 1, e, jmp_offset_f, chunk, d, s, g)
    BY <1>3, <1>5, <2>1, <2>3, <2>4, Copies
  <2>6. Reached(T, line, code, m, i', jmp_offset', jmp_offset_f', chunk', chunks', s, g)
    BY <1>2, <1>3, <1>5, <1>7, <1>10, <2>5
  <2>7. QED
    BY <1>2, <1>3, <2>6, LoadsOn
<1>11. QED
  BY <1>8, <1>9, <1>10

(* The loaded chunks. *)
ChunkRight(T, l, y, q, u) ==
  /\ y \in Seq(Instructions(T)) /\ TextIn(l, u) \in Rests(T) /\ q[0] = Always(T, TextIn(l, u))
  /\ q[Len(y)] = IF u = NoName THEN Always(T, <<>>) ELSE Never
  /\ \A k \in 0 .. Len(y) - 1 :
       /\ Does(T, y[k + 1], q[k], q[k + 1])
       /\ y[k + 1].op \in JumpOps => y[k + 1].to \in 0 .. Len(y) /\ q[y[k + 1].to] = Target(y[k + 1], q[k])
       /\ y[k + 1].op = "return" => u # NoName

LoadedRight(T, l, h, q) == \A u \in DOMAIN h : ChunkRight(T, l, h[u], q[u], u)

LEMMA ChunkLoaded ==
  ASSUME NEW T, NEW l, NEW c, NEW m, NEW y, NEW q, NEW f, NEW u, ChunkIs(T, l, c, m, Len(c), y, q, f, u),
         q[Len(y)] = IF u = NoName THEN Always(T, <<>>) ELSE Never
  PROVE  ChunkRight(T, l, y, q, u)
<1>1. /\ y \in Seq(Instructions(T)) /\ TextIn(l, u) \in Rests(T) /\ q[0] = Always(T, TextIn(l, u))
      /\ \A a \in 0 .. Len(c) : m[a].of = f => m[a].place \in 0 .. Len(y) /\ q[m[a].place] = m[a].left
      /\ \A k \in 0 .. Len(y) - 1 : Works(T, c, m, f, u, y[k + 1], q[k], q[k + 1])
  BY DEF ChunkIs
<1>2. ASSUME NEW k \in 0 .. Len(y) - 1
      PROVE  /\ Does(T, y[k + 1], q[k], q[k + 1])
             /\ y[k + 1].op \in JumpOps =>
                  y[k + 1].to \in 0 .. Len(y) /\ q[y[k + 1].to] = Target(y[k + 1], q[k])
             /\ y[k + 1].op = "return" => u # NoName
  <2>1. Works(T, c, m, f, u, y[k + 1], q[k], q[k + 1])
    BY <1>1
  <2>2. ASSUME y[k + 1].op \in JumpOps
        PROVE  y[k + 1].to \in 0 .. Len(y) /\ q[y[k + 1].to] = Target(y[k + 1], q[k])
    <3>1. PICK b \in 0 .. Len(c) : /\ m[b].of = f /\ m[b].place = y[k + 1].to
                                   /\ m[b].left = Target(y[k + 1], q[k])
      BY <2>1, <2>2 DEF Works
    <3>2. m[b].place \in 0 .. Len(y) /\ q[m[b].place] = m[b].left
      BY <1>1, <3>1
    <3>3. QED
      BY <3>1, <3>2
  <2>3. QED
    BY <2>1, <2>2 DEF Works
<1>3. QED
  BY <1>1, <1>2 DEF ChunkRight

LEMMA LoadsAll ==
  ASSUME NEW T, LoadsRight(T), i = Len(code)
  PROVE  \E q : LoadedRight(T, line, chunks, q)
<1>1. PICK m, q, g : Loads(T, m, q, g)
  BY DEF LoadsRight
<1>2. /\ Reached(T, line, code, m, Len(code), jmp_offset, jmp_offset_f, chunk, chunks, q, g)
      /\ m[Len(code)].left = Always(T, <<>>) /\ m[Len(code)].of = -1
  BY <1>1 DEF Loads, Coded
<1>3. chunk = NoName /\ q[chunk][Len(chunks[chunk])] = Always(T, <<>>)
  BY <1>2, OneChunk
<1>4. AllChunks(T, line, code, m, Len(code), chunks, q, g) /\ Ended(chunks, q, chunk)
  BY <1>2 DEF Reached
<1>5. ASSUME NEW u \in DOMAIN chunks PROVE ChunkRight(T, line, chunks[u], q[u], u)
  <2>1. ChunkIs(T, line, code, m, Len(code), chunks[u], q[u], g[u], u)
    BY <1>4 DEF AllChunks
  <2>2. q[u][Len(chunks[u])] = IF u = NoName THEN Always(T, <<>>) ELSE Never
    BY <1>3, <1>4 DEF Ended
  <2>3. QED
    BY <2>1, <2>2, ChunkLoaded
<1>6. QED
  BY <1>5 DEF LoadedRight

----------------------------------------------------------------------------
(* The run of a chunk: the rest is one of those of the label at pc.        *)
Running(T, q) ==
  /\ LoadedRight(T, line, chunks, q)
  /\ unit \in DOMAIN chunks /\ pc \in 0 .. Len(chunks[unit]) /\ rest \in Rests(T)
  /\ top \subseteq BOOLEAN /\ top # {}
  /\ \A b \in top : Class(T, rest) = q[unit][pc][b]

LEMMA CodeEventIs ==
  /\ ~InChunk => CodeEvent = [is |-> IF unit = NoName THEN "end" ELSE "stop", id |-> NoName]
  /\ InChunk /\ inst.op \in {"do", "cond"} => CodeEvent = [is |-> inst.op, id |-> inst.id]
  /\ InChunk /\ inst.op = "return" /\ unit # NoName => CodeEvent = [is |-> "end", id |-> NoName]
  /\ InChunk /\ inst.op \notin {"do", "cond"} /\ (inst.op = "return" => unit = NoName) =>
       CodeEvent = [is |-> "silent", id |-> NoName]
<1>1. ~InChunk => CodeEvent = [is |-> IF unit = NoName THEN "end" ELSE "stop", id |-> NoName]
  BY DEF CodeEvent
<1>2. InChunk /\ inst.op \in {"do", "cond"} => CodeEvent = [is |-> inst.op, id |-> inst.id]
  BY DEF CodeEvent
<1>3. InChunk /\ inst.op = "return" /\ unit # NoName => CodeEvent = [is |-> "end", id |-> NoName]
  BY DEF CodeEvent
<1>4. InChunk /\ inst.op \notin {"do", "cond"} /\ (inst.op = "return" => unit = NoName) =>
        CodeEvent = [is |-> "silent", id |-> NoName]
  BY DEF CodeEvent
<1>5. QED
  BY <1>1, <1>2, <1>3, <1>4

(* What is known of the instruction that is next. *)
LEMMA InstIs ==
  ASSUME NEW T, NEW q, Running(T, q), InChunk, NEW l, l = q[unit][pc]
  PROVE  /\ pc \in Nat /\ pc + 1 \in 0 .. Len(chunks[unit])
         /\ Does(T, inst, l, q[unit][pc + 1])
         /\ inst.op \in JumpOps => inst.to \in 0 .. Len(chunks[unit]) /\ q[unit][inst.to] = Target(inst, l)
         /\ inst.op = "return" => unit # NoName
<1>1. unit \in DOMAIN chunks /\ ChunkRight(T, line, chunks[unit], q[unit], unit)
  BY DEF Running, LoadedRight
<1>2. pc \in 0 .. Len(chunks[unit]) - 1 /\ Len(chunks[unit]) \in Nat
  BY <1>1 DEF InChunk, ChunkRight
<1>3. pc \in Nat /\ pc + 1 \in 0 .. Len(chunks[unit])
  BY <1>2
<1>4. QED
  BY <1>1, <1>2, <1>3 DEF ChunkRight, inst

LEMMA EndIsEnd ==
  ASSUME NEW T, NEW r \in Rests(T), ~IsSilent(r), NEW b \in BOOLEAN, Class(T, r) = Always(T, <<>>)[b]
  PROVE  r = <<>> /\ Event(r) = [is |-> "end", id |-> NoName]
<1>1. PICK e : e = <<>>
  OBVIOUS
<1>2. e \in Rests(T) /\ ~IsSilent(e) /\ Event(e) = [is |-> "end", id |-> NoName]
  <2>1. e \in Rests(T)
    BY <1>1, NoneLeft
  <2>2. ~IsSilent(e) /\ Event(e) = [is |-> "end", id |-> NoName]
    BY <1>1, EventIs
  <2>3. QED
    BY <2>1, <2>2
<1>3. Class(T, r) = Class(T, e)
  BY <1>1 DEF Always
<1>4. r = e
  BY <1>2, <1>3, ClassTells
<1>5. QED
  BY <1>1, <1>2, <1>4

LEMMA EventTells ==
  ASSUME NEW T, NEW r \in Rests(T), ~IsSilent(r), NEW b \in BOOLEAN, NEW e, NEW id, e # "silent",
         NEW s \in Rests(T), Event(s) = [is |-> e, id |-> id], Class(T, r) = Always(T, s)[b]
  PROVE  r = s
<1>1. Class(T, r) = Class(T, s)
  BY DEF Always
<1>2. ~IsSilent(s)
  BY DEF IsSilent
<1>3. QED
  BY <1>1, <1>2, ClassTells

(* Where both have something to do. *)
LEMMA EventsAgree ==
  ASSUME NEW T, NEW q, Trees(T), Running(T, q), TextAtEvent
  PROVE  /\ AtEvent => CodeEvent = Event(rest)
         /\ InChunk \/ AtEvent
         /\ InChunk /\ inst.op = "do" => \A b \in BOOLEAN : Class(T, Visible(rest, TRUE)) = q[unit][pc + 1][b]
         /\ InChunk /\ inst.op = "cond" => \A b \in BOOLEAN : Class(T, Visible(rest, b)) = q[unit][pc + 1][b]
<1>1. PICK b \in BOOLEAN : b \in top /\ Class(T, rest) = q[unit][pc][b]
  BY DEF Running
<1>2. rest \in Rests(T) /\ ~IsSilent(rest)
  BY DEF Running, TextAtEvent, IsSilent
<1>3. ASSUME ~InChunk PROVE AtEvent /\ CodeEvent = Event(rest)
  <2>1. unit \in DOMAIN chunks /\ ChunkRight(T, line, chunks[unit], q[unit], unit) /\ pc \in 0 .. Len(chunks[unit])
    BY DEF Running, LoadedRight
  <2>2. pc = Len(chunks[unit])
    BY <1>3, <2>1 DEF InChunk, ChunkRight
  <2>3. Class(T, rest) = (IF unit = NoName THEN Always(T, <<>>) ELSE Never)[b]
    BY <1>1, <2>1, <2>2 DEF ChunkRight
  <2>4. unit = NoName
    <3>1. Class(T, rest) # {}
      BY <1>2, ClassHolds
    <3>2. QED
      BY <2>3, <3>1 DEF Never
  <2>5. Event(rest) = [is |-> "end", id |-> NoName]
    <3>1. Class(T, rest) = Always(T, <<>>)[b]
      BY <2>3, <2>4
    <3>2. QED
      BY <1>2, <3>1, EndIsEnd
  <2>6. CodeEvent = [is |-> "end", id |-> NoName]
    BY <1>3, <2>4, CodeEventIs
  <2>7. QED
    BY <2>5, <2>6 DEF AtEvent
<1>4. ASSUME InChunk, inst.op = "do"
      PROVE  CodeEvent = Event(rest) /\ \A v \in BOOLEAN : Class(T, Visible(rest, TRUE)) = q[unit][pc + 1][v]
  <2>1. PICK r \in Rests(T) : /\ q[unit][pc] = Always(T, r) /\ Event(r) = [is |-> "do", id |-> inst.id]
                              /\ q[unit][pc + 1] = Always(T, Visible(r, TRUE))
    <3>1. Does(T, inst, q[unit][pc], q[unit][pc + 1])
      BY <1>4, InstIs
    <3>2. QED
      BY <1>4, <3>1 DEF Does
  <2>2. rest = r
    BY <1>1, <1>2, <2>1, EventTells
  <2>3. CodeEvent = [is |-> "do", id |-> inst.id]
    BY <1>4, CodeEventIs
  <2>4. QED
    BY <2>1, <2>2, <2>3 DEF Always
<1>5. ASSUME InChunk, inst.op = "cond"
      PROVE  CodeEvent = Event(rest) /\ \A v \in BOOLEAN : Class(T, Visible(rest, v)) = q[unit][pc + 1][v]
  <2>1. PICK r \in Rests(T) : /\ q[unit][pc] = Always(T, r) /\ Event(r) = [is |-> "cond", id |-> inst.id]
                              /\ q[unit][pc + 1] = After(T, r)
    <3>1. Does(T, inst, q[unit][pc], q[unit][pc + 1])
      BY <1>5, InstIs
    <3>2. QED
      BY <1>5, <3>1 DEF Does
  <2>2. rest = r
    BY <1>1, <1>2, <2>1, EventTells
  <2>3. CodeEvent = [is |-> "cond", id |-> inst.id]
    BY <1>5, CodeEventIs
  <2>4. QED
    BY <2>1, <2>2, <2>3 DEF After
<1>6. ASSUME InChunk, inst.op = "return" PROVE CodeEvent = Event(rest)
  <2>1. q[unit][pc] = Always(T, <<>>) /\ unit # NoName
    BY <1>6, InstIs DEF Does
  <2>2. Event(rest) = [is |-> "end", id |-> NoName]
    <3>1. Class(T, rest) = Always(T, <<>>)[b]
      BY <1>1, <2>1
    <3>2. QED
      BY <1>2, <3>1, EndIsEnd
  <2>3. QED
    BY <1>6, <2>1, <2>2, CodeEventIs
<1>7. ASSUME InChunk, inst.op \notin {"do", "cond", "return"} PROVE ~AtEvent
  <2>1. CodeEvent = [is |-> "silent", id |-> NoName]
    BY <1>7, CodeEventIs
  <2>2. QED
    BY <2>1 DEF AtEvent
<1>8. QED
  BY <1>3, <1>4, <1>5, <1>6, <1>7

(* A silent instruction of the chunk. *)
LEMMA SilentInst ==
  ASSUME NEW T, NEW q, Trees(T), Running(T, q), Silent
  PROVE  /\ InChunk /\ inst.op \notin {"do", "cond", "return", "func_end"}
<1>1. TextAtEvent /\ CodeEvent.is = "silent" /\ ~AtEvent
  BY DEF Silent, AtEvent
<1>2. InChunk
  BY <1>1, EventsAgree
<1>3. inst.op \notin {"do", "cond"}
  <2>1. ASSUME inst.op \in {"do", "cond"} PROVE CodeEvent.is = inst.op
    BY <1>2, <2>1, CodeEventIs
  <2>2. QED
    BY <1>1, <2>1
<1>4. inst.op # "return"
  <2>1. ASSUME inst.op = "return" PROVE CodeEvent.is = "end"
    <3>1. unit # NoName
      BY <1>2, <2>1, InstIs
    <3>2. QED
      BY <1>2, <2>1, <3>1, CodeEventIs
  <2>2. QED
    BY <1>1, <2>1
<1>5. inst.op # "func_end"
  <2>1. ASSUME inst.op = "func_end" PROVE q[unit][pc] = Never
    BY <1>2, <2>1, InstIs DEF Does
  <2>2. PICK b \in BOOLEAN : Class(T, rest) = q[unit][pc][b]
    BY DEF Running
  <2>3. Class(T, rest) # {}
    BY ClassHolds DEF Running
  <2>4. QED
    BY <2>1, <2>2, <2>3 DEF Never
<1>6. QED
  BY <1>2, <1>3, <1>4, <1>5

LEMMA RunsOn ==
  ASSUME NEW T, NEW q, Running(T, q), UNCHANGED <<line, chunks, unit>>,
         pc' \in 0 .. Len(chunks[unit]), rest' \in Rests(T), top' \subseteq BOOLEAN, top' # {},
         NEW l, l = q[unit][pc'], \A b \in top' : Class(T, rest') = l[b]
  PROVE  Running(T, q)'
<1>1. line' = line /\ chunks' = chunks /\ unit' = unit
  OBVIOUS
<1>2. LoadedRight(T, line', chunks', q)
  BY <1>1 DEF Running
<1>3. unit' \in DOMAIN chunks' /\ pc' \in 0 .. Len(chunks'[unit'])
  BY <1>1 DEF Running
<1>4. \A b \in top' : Class(T, rest') = q[unit'][pc'][b]
  BY <1>1
<1>5. QED
  BY <1>2, <1>3, <1>4 DEF Running

LEMMA RunsText ==
  ASSUME NEW T, NEW q, Trees(T), Running(T, q), RunText
  PROVE  Running(T, q)'
<1>1. /\ UNCHANGED <<line, chunks, unit, pc, top>> /\ rest' = Unfold(rest) /\ IsSilent(rest)
  BY DEF RunText, genVars, loadVars, TextAtEvent, IsSilent
<1>2. /\ rest \in Rests(T) /\ pc \in 0 .. Len(chunks[unit]) /\ top \subseteq BOOLEAN /\ top # {}
      /\ \A b \in top : Class(T, rest) = q[unit][pc][b]
  BY DEF Running
<1>3. Unfold(rest) \in Rests(T) /\ Class(T, Unfold(rest)) = Class(T, rest)
  BY <1>1, <1>2, UnfoldStays, ClassUnfolds
<1>4. PICK l : l = q[unit][pc']
  OBVIOUS
<1>5. \A b \in top' : Class(T, rest') = l[b]
  BY <1>1, <1>2, <1>3, <1>4
<1>6. QED
  BY <1>1, <1>2, <1>3, <1>4, <1>5, RunsOn

(* A silent instruction is behind, and the next is at to. *)
LEMMA RunsSilent ==
  ASSUME NEW T, NEW q, Trees(T), Running(T, q), Silent, UNCHANGED <<line, chunks, unit, rest>>,
         pc' \in 0 .. Len(chunks[unit]), top' \subseteq BOOLEAN, top' # {},
         NEW b \in top, \A v \in top' : q[unit][pc'][v] = q[unit][pc][b]
  PROVE  Running(T, q)'
<1>1. rest \in Rests(T) /\ Class(T, rest) = q[unit][pc][b] /\ rest' = rest
  BY DEF Running
<1>2. PICK l : l = q[unit][pc']
  OBVIOUS
<1>3. \A v \in top' : Class(T, rest') = l[v]
  BY <1>1, <1>2
<1>4. QED
  BY <1>1, <1>2, <1>3, RunsOn

LEMMA SilentIsInst ==
  ASSUME NEW T, NEW q, Trees(T), Running(T, q), Silent
  PROVE  /\ pc + 1 \in 0 .. Len(chunks[unit])
         /\ Does(T, inst, q[unit][pc], q[unit][pc + 1])
         /\ inst.op \in JumpOps =>
              inst.to \in 0 .. Len(chunks[unit]) /\ q[unit][inst.to] = Target(inst, q[unit][pc])
         /\ inst.op \notin {"do", "cond", "return", "func_end"}
         /\ top \subseteq BOOLEAN /\ top # {}
<1>1. InChunk /\ inst.op \notin {"do", "cond", "return", "func_end"}
  BY SilentInst
<1>2. /\ pc + 1 \in 0 .. Len(chunks[unit])
      /\ Does(T, inst, q[unit][pc], q[unit][pc + 1])
      /\ inst.op \in JumpOps =>
           inst.to \in 0 .. Len(chunks[unit]) /\ q[unit][inst.to] = Target(inst, q[unit][pc])
  BY <1>1, InstIs
<1>3. top \subseteq BOOLEAN /\ top # {}
  BY DEF Running
<1>4. QED
  BY <1>1, <1>2, <1>3

LEMMA RunsJump ==
  ASSUME NEW T, NEW q, Trees(T), Running(T, q), RunJump
  PROVE  Running(T, q)'
<1>1. Silent /\ inst.op = "jump" /\ pc' = inst.to /\ top' = top /\ UNCHANGED <<line, chunks, unit, rest>>
  BY DEF RunJump, genVars, loadVars
<1>2. /\ pc' \in 0 .. Len(chunks[unit]) /\ q[unit][pc'] = Target(inst, q[unit][pc])
      /\ top \subseteq BOOLEAN /\ top # {}
  BY <1>1, SilentIsInst DEF JumpOps
<1>3. q[unit][pc'] = q[unit][pc]
  BY <1>1, <1>2 DEF Target
<1>4. rest \in Rests(T) /\ \A b \in top : Class(T, rest) = q[unit][pc][b]
  BY DEF Running
<1>5. PICK l : l = q[unit][pc']
  OBVIOUS
<1>6. rest' \in Rests(T) /\ \A v \in top' : Class(T, rest') = l[v]
  BY <1>1, <1>3, <1>4, <1>5
<1>7. QED
  BY <1>1, <1>2, <1>5, <1>6, RunsOn

LEMMA RunsJumpIfFalse ==
  ASSUME NEW T, NEW q, Trees(T), Running(T, q), RunJumpIfFalse
  PROVE  Running(T, q)'
<1>1. /\ Silent /\ inst.op = "jump_if_false" /\ top' = BOOLEAN /\ UNCHANGED <<line, chunks, unit, rest>>
      /\ \E b \in top : pc' = IF b THEN pc + 1 ELSE inst.to
  BY DEF RunJumpIfFalse, genVars, loadVars
<1>2. PICK b \in top : pc' = IF b THEN pc + 1 ELSE inst.to
  BY <1>1
<1>3. /\ pc + 1 \in 0 .. Len(chunks[unit]) /\ inst.to \in 0 .. Len(chunks[unit])
      /\ Does(T, inst, q[unit][pc], q[unit][pc + 1]) /\ b \in BOOLEAN
      /\ q[unit][inst.to] = Target(inst, q[unit][pc])
  BY <1>1, <1>2, SilentIsInst DEF JumpOps
<1>4. q[unit][pc + 1] = Given(q[unit][pc], TRUE) /\ q[unit][inst.to] = Given(q[unit][pc], FALSE)
  BY <1>1, <1>3 DEF Does, Target
<1>5. q[unit][pc'] = Given(q[unit][pc], b) /\ pc' \in 0 .. Len(chunks[unit])
  <2>1. CASE b
    BY <1>2, <1>3, <1>4, <2>1
  <2>2. CASE ~b
    <3>1. b = FALSE
      BY <1>3, <2>2
    <3>2. QED
      BY <1>2, <1>3, <1>4, <3>1
  <2>3. QED
    BY <2>1, <2>2
<1>6. \A v \in BOOLEAN : q[unit][pc'][v] = q[unit][pc][b]
  BY <1>5 DEF Given
<1>7. QED
  BY <1>1, <1>5, <1>6, RunsSilent

LEMMA RunsPush ==
  ASSUME NEW T, NEW q, Trees(T), Running(T, q), RunPush
  PROVE  Running(T, q)'
<1>1. /\ Silent /\ inst.op \in {"push_false", "push_null"} /\ top' = {FALSE} /\ pc' = pc + 1
      /\ UNCHANGED <<line, chunks, unit, rest>>
  BY DEF RunPush, genVars, loadVars
<1>2. /\ pc' \in 0 .. Len(chunks[unit]) /\ Does(T, inst, q[unit][pc], q[unit][pc'])
      /\ top \subseteq BOOLEAN /\ top # {}
  BY <1>1, SilentIsInst
<1>3. PICK b \in top : b \in BOOLEAN
  BY <1>2
<1>4. q[unit][pc][b] = q[unit][pc'][FALSE]
  BY <1>1, <1>2, <1>3 DEF Does
<1>5. \A v \in top' : q[unit][pc'][v] = q[unit][pc][b]
  BY <1>1, <1>4
<1>6. top' \subseteq BOOLEAN /\ top' # {}
  BY <1>1
<1>7. QED
  BY <1>1, <1>2, <1>5, <1>6, RunsSilent

LEMMA RunsNothing ==
  ASSUME NEW T, NEW q, Trees(T), Running(T, q), RunNothing
  PROVE  Running(T, q)'
<1>1. /\ Silent /\ inst.op \in {"nop", "halt", "func_end", "func_set_args", "return"}
      /\ top' = top /\ pc' = pc + 1 /\ UNCHANGED <<line, chunks, unit, rest>>
  BY DEF RunNothing, genVars, loadVars
<1>2. /\ pc' \in 0 .. Len(chunks[unit]) /\ Does(T, inst, q[unit][pc], q[unit][pc'])
      /\ inst.op \notin {"return", "func_end"} /\ top \subseteq BOOLEAN /\ top # {}
  BY <1>1, SilentIsInst
<1>3. q[unit][pc'] = q[unit][pc]
  BY <1>1, <1>2 DEF Does
<1>4. rest \in Rests(T) /\ \A b \in top : Class(T, rest) = q[unit][pc][b]
  BY DEF Running
<1>5. PICK l : l = q[unit][pc']
  OBVIOUS
<1>6. rest' \in Rests(T) /\ \A v \in top' : Class(T, rest') = l[v]
  BY <1>1, <1>3, <1>4, <1>5
<1>7. QED
  BY <1>1, <1>2, <1>5, <1>6, RunsOn

(* The code and the text do the same. *)
LEMMA RunsVisible ==
  ASSUME NEW T, NEW q, Trees(T), Running(T, q), Same, InChunk, NEW v \in BOOLEAN, rest' = Visible(rest, v),
         UNCHANGED <<line, chunks, unit>>, pc' = pc + 1, top' \subseteq BOOLEAN, top' # {},
         rest # <<>>, \A b \in top' : Class(T, Visible(rest, v)) = q[unit][pc + 1][b]
  PROVE  Running(T, q)'
<1>1. rest \in Rests(T) /\ ~IsSilent(rest)
  BY DEF Running, Same, AtEvent, TextAtEvent, IsSilent
<1>2. rest' \in Rests(T)
  BY <1>1, VisibleStays
<1>3. pc' \in 0 .. Len(chunks[unit])
  BY InstIs
<1>4. PICK l : l = q[unit][pc']
  OBVIOUS
<1>5. \A b \in top' : Class(T, rest') = l[b]
  BY <1>4
<1>6. QED
  BY <1>2, <1>3, <1>4, <1>5, RunsOn

LEMMA NotAtEnd ==
  ASSUME Same, CodeEvent.is \in {"do", "cond"}
  PROVE  /\ InChunk /\ inst.op = CodeEvent.is /\ rest # <<>> /\ TextAtEvent
<1>1. CodeEvent = Event(rest) /\ TextAtEvent
  BY DEF Same, AtEvent
<1>2. rest # <<>>
  <2>1. ASSUME rest = <<>> PROVE Event(rest).is = "end"
    BY <2>1, EventIs
  <2>2. QED
    BY <1>1, <2>1
<1>3. InChunk
  <2>1. ASSUME ~InChunk PROVE CodeEvent.is \in {"end", "stop"}
    BY <2>1, CodeEventIs
  <2>2. QED
    BY <2>1
<1>4. inst.op = CodeEvent.is
  <2>1. CASE inst.op \in {"do", "cond"}
    BY <1>3, <2>1, CodeEventIs
  <2>2. ASSUME inst.op \notin {"do", "cond"} PROVE CodeEvent.is \in {"end", "silent"}
    BY <1>3, <2>2, CodeEventIs
  <2>3. QED
    BY <2>1, <2>2
<1>5. QED
  BY <1>1, <1>2, <1>3, <1>4

LEMMA RunsDo ==
  ASSUME NEW T, NEW q, Trees(T), Running(T, q), RunDo
  PROVE  Running(T, q)'
<1>1. /\ Same /\ CodeEvent.is = "do" /\ pc' = pc + 1 /\ top' = BOOLEAN /\ rest' = Visible(rest, TRUE)
      /\ UNCHANGED <<line, chunks, unit>>
  BY DEF RunDo, genVars, loadVars
<1>2. InChunk /\ inst.op = "do" /\ rest # <<>> /\ TextAtEvent
  BY <1>1, NotAtEnd
<1>3. \A b \in BOOLEAN : Class(T, Visible(rest, TRUE)) = q[unit][pc + 1][b]
  BY <1>2, EventsAgree
<1>4. QED
  BY <1>1, <1>2, <1>3, RunsVisible

LEMMA RunsCondition ==
  ASSUME NEW T, NEW q, Trees(T), Running(T, q), RunCondition
  PROVE  Running(T, q)'
<1>1. /\ Same /\ CodeEvent.is = "cond" /\ pc' = pc + 1 /\ UNCHANGED <<line, chunks, unit>>
      /\ \E b \in BOOLEAN : top' = {b} /\ rest' = Visible(rest, b)
  BY DEF RunCondition, genVars, loadVars
<1>2. PICK v \in BOOLEAN : top' = {v} /\ rest' = Visible(rest, v)
  BY <1>1
<1>3. InChunk /\ inst.op = "cond" /\ rest # <<>> /\ TextAtEvent
  BY <1>1, NotAtEnd
<1>4. \A b \in BOOLEAN : Class(T, Visible(rest, b)) = q[unit][pc + 1][b]
  BY <1>3, EventsAgree
<1>5. \A b \in top' : Class(T, Visible(rest, v)) = q[unit][pc + 1][b]
  BY <1>2, <1>4
<1>6. QED
  BY <1>1, <1>2, <1>3, <1>5, RunsVisible

LEMMA RunStarts ==
  ASSUME NEW T, NEW q, LoadedRight(T, line, chunks, q), Run
  PROVE  Running(T, q)'
<1>1. /\ UNCHANGED <<line, chunks>> /\ pc' = 0 /\ top' = BOOLEAN /\ unit' \in DOMAIN chunks
      /\ rest' = Text(unit')
  BY DEF Run, genVars, loadVars
<1>2. PICK u : u = unit'
  OBVIOUS
<1>3. ChunkRight(T, line, chunks[u], q[u], u)
  BY <1>1, <1>2 DEF LoadedRight
<1>4. Text(u) = TextIn(line, u)
  BY DEF Text, TextIn
<1>5. /\ rest' \in Rests(T) /\ q[u][0] = Always(T, rest')
  BY <1>1, <1>2, <1>3, <1>4 DEF ChunkRight
<1>6. \A b \in BOOLEAN : Class(T, rest') = q[u][0][b]
  BY <1>5 DEF Always
<1>7. 0 \in 0 .. Len(chunks[u])
  BY <1>3 DEF ChunkRight
<1>8. LoadedRight(T, line', chunks', q)
  BY <1>1
<1>9. QED
  BY <1>1, <1>2, <1>5, <1>6, <1>7, <1>8 DEF Running

----------------------------------------------------------------------------
(* From the text to the run.                                               *)
Following(T, inside) ==
  /\ line \in Seq(T)
  /\ phase = "generate" /\ ~refused => Faithful(T, inside)
  /\ phase = "load" => LoadsRight(T)
  /\ phase = "ready" => \E q : LoadedRight(T, line, chunks, q)
  /\ phase = "run" => \E q : Running(T, q)

LEMMA ReliableIs ==
  ASSUME NEW inside, Reliable(inside, Lines), NEW T, T = DOMAIN inside
  PROVE  /\ Trees(T) /\ Insides(inside) /\ Loopy(inside) /\ Lines \subseteq Seq(T)
         /\ \A l \in Lines : ReliableLine(inside, l)
BY DEF Reliable, Insides, Loopy

LEMMA GenerateWorks ==
  ASSUME Generate
  PROVE  work # <<>> /\ line' = line
<1>1. CASE GenDo \/ GenBad \/ GenBlock \/ GenEnd \/ GenReturn \/ GenBreak \/ GenContinue \/ GenNotInLoop
  BY <1>1 DEF GenDo, GenBad, GenBlock, GenEnd, GenReturn, GenBreak, GenContinue, GenNotInLoop,
     Doing, Emit, Refuse
<1>2. CASE GenIf \/ GenThen \/ GenElse \/ GenWhile \/ GenFor
  BY <1>2 DEF GenIf, GenThen, GenElse, GenWhile, GenFor, Doing, Emit
<1>3. CASE GenForCondition \/ GenLoop \/ GenFunction \/ GenFunctionEnd \/ GenHalt
  BY <1>3 DEF GenForCondition, GenLoop, GenFunction, GenFunctionEnd, GenHalt, Doing, Emit
<1>4. QED
  BY <1>1, <1>2, <1>3 DEF Generate

LEMMA FollowingGenerates ==
  ASSUME NEW inside, Reliable(inside, Lines), NEW T, T = DOMAIN inside, IInv(T), Following(T, inside),
         Compile \/ GenStep
  PROVE  Following(T, inside)'
<1>1. /\ Trees(T) /\ Insides(inside) /\ Loopy(inside) /\ Lines \subseteq Seq(T)
      /\ \A l \in Lines : ReliableLine(inside, l)
  BY ReliableIs
<1>2. CASE Compile
  <2>1. PICK l \in Lines : GenInit(l)
    BY <1>2 DEF Compile
  <2>2. l \in Seq(T) /\ ReliableLine(inside, l) /\ line' = l /\ phase' = "generate"
    BY <1>1, <1>2, <2>1 DEF Compile, GenInit
  <2>3. Faithful(T, inside)'
    BY <1>1, <2>1, <2>2, FaithCompile
  <2>4. QED
    BY <2>2, <2>3 DEF Following
<1>3. CASE GenStep
  <2>1. phase = "generate" /\ phase' = "generate" /\ Generate /\ Generating(T)
    BY <1>3 DEF GenStep, IInv
  <2>2. work # <<>> /\ line' = line
    BY <2>1, GenerateWorks
  <2>3. ~refused /\ Faithful(T, inside)
    BY <2>1, <2>2 DEF Generating, Following
  <2>4. refused' \/ Faithful(T, inside)'
    BY <1>1, <2>1, <2>3, FaithGenerate
  <2>5. line' \in Seq(T)
    BY <2>2 DEF Following
  <2>6. QED
    BY <2>1, <2>4, <2>5 DEF Following
<1>4. QED
  BY <1>2, <1>3

LEMMA FollowingLoads ==
  ASSUME NEW T, NEW inside, IInv(T), Following(T, inside),
         Load \/ CopyMain \/ CopyFunctionStart \/ CopyFunction \/ Loaded
  PROVE  Following(T, inside)'
<1>1. CASE Load
  <2>1. phase = "generate" /\ ~refused /\ phase' = "load" /\ line' = line
    BY <1>1 DEF Load, genVars
  <2>2. Faithful(T, inside) /\ Generating(T) /\ line \in Seq(T)
    BY <2>1 DEF Following, IInv
  <2>3. LoadsRight(T)'
    BY <1>1, <2>2, LoadStarts
  <2>4. line' \in Seq(T)
    BY <2>1, <2>2
  <2>5. QED
    BY <2>1, <2>3, <2>4 DEF Following
<1>2. CASE CopyMain \/ CopyFunctionStart \/ CopyFunction
  <2>1. phase = "load" /\ phase' = "load" /\ line' = line
    BY <1>2 DEF CopyMain, CopyFunctionStart, CopyFunction, Loading, genVars
  <2>2. LoadsRight(T) /\ line \in Seq(T)
    BY <2>1 DEF Following
  <2>3. LoadsRight(T)'
    BY <1>2, <2>2, LoadsMain, LoadsFunctionStart, LoadsFunction
  <2>4. line' \in Seq(T)
    BY <2>1, <2>2
  <2>5. QED
    BY <2>1, <2>3, <2>4 DEF Following
<1>3. CASE Loaded
  <2>1. phase = "load" /\ i = Len(code) /\ phase' = "ready" /\ line' = line /\ chunks' = chunks
    BY <1>3 DEF Loaded, genVars, loadVars
  <2>2. LoadsRight(T) /\ line \in Seq(T)
    BY <2>1 DEF Following
  <2>3. PICK q : LoadedRight(T, line, chunks, q)
    BY <2>1, <2>2, LoadsAll
  <2>4. LoadedRight(T, line', chunks', q) /\ line' \in Seq(T)
    BY <2>1, <2>2, <2>3
  <2>5. QED
    BY <2>1, <2>4 DEF Following
<1>4. QED
  BY <1>1, <1>2, <1>3

LEMMA FollowingRuns ==
  ASSUME NEW T, NEW inside, Trees(T), Following(T, inside),
         \/ Run \/ RunText \/ RunJump \/ RunJumpIfFalse \/ RunPush \/ RunNothing \/ RunDo \/ RunCondition
  PROVE  Following(T, inside)'
<1>1. CASE Run
  <2>1. phase = "ready" /\ phase' = "run" /\ line' = line
    BY <1>1 DEF Run, genVars
  <2>2. PICK q : LoadedRight(T, line, chunks, q)
    BY <2>1 DEF Following
  <2>3. Running(T, q)'
    BY <1>1, <2>2, RunStarts
  <2>4. line' \in Seq(T)
    BY <2>1 DEF Following
  <2>5. QED
    BY <2>1, <2>3, <2>4 DEF Following
<1>2. CASE RunText \/ RunJump \/ RunJumpIfFalse \/ RunPush \/ RunNothing \/ RunDo \/ RunCondition
  <2>1. phase = "run" /\ phase' = "run" /\ line' = line
    BY <1>2 DEF RunText, RunJump, RunJumpIfFalse, RunPush, RunNothing, RunDo, RunCondition, Silent, genVars
  <2>2. PICK q : Running(T, q)
    BY <2>1 DEF Following
  <2>3. Running(T, q)'
    BY <1>2, <2>2, RunsText, RunsJump, RunsJumpIfFalse, RunsPush, RunsNothing, RunsDo, RunsCondition
  <2>4. line' \in Seq(T)
    BY <2>1 DEF Following
  <2>5. QED
    BY <2>1, <2>3, <2>4 DEF Following
<1>3. QED
  BY <1>1, <1>2

LEMMA FollowingStep ==
  ASSUME NEW inside, Reliable(inside, Lines), NEW T, T = DOMAIN inside, IInv(T), Following(T, inside),
         [Next]_vars
  PROVE  Following(T, inside)'
<1>1. Trees(T)
  BY ReliableIs
<1>2. CASE Compile \/ GenStep
  BY <1>2, FollowingGenerates
<1>3. CASE Load \/ CopyMain \/ CopyFunctionStart \/ CopyFunction \/ Loaded
  BY <1>3, FollowingLoads
<1>4. CASE \/ Run \/ RunText \/ RunJump \/ RunJumpIfFalse \/ RunPush \/ RunNothing \/ RunDo \/ RunCondition
  BY <1>1, <1>4, FollowingRuns
<1>5. CASE Drop \/ RunEnds
  <2>1. phase' = "idle" /\ (line' = line \/ line' = <<>>)
    BY <1>5 DEF Drop, RunEnds, genVars
  <2>2. line' \in Seq(T)
    <3>1. line \in Seq(T) /\ <<>> \in Seq(T)
      BY DEF Following
    <3>2. QED
      BY <2>1, <3>1
  <2>3. QED
    BY <2>1, <2>2 DEF Following
<1>6. CASE UNCHANGED vars
  <2>1. /\ UNCHANGED <<line, code, work, refused, loop_start, loop_end, phase, i, jmp_offset, jmp_offset_f>>
        /\ UNCHANGED <<chunk, chunks, unit, pc, top, rest>>
    BY <1>6 DEF vars, genVars, loadVars, runVars
  <2>2. Faithful(T, inside) => Faithful(T, inside)'
    BY <2>1 DEF Faithful
  <2>3. LoadsRight(T) => LoadsRight(T)'
    BY <2>1 DEF LoadsRight, Loads, Coded
  <2>4. (\E q : LoadedRight(T, line, chunks, q)) => (\E q : LoadedRight(T, line, chunks, q))'
    BY <2>1
  <2>5. (\E q : Running(T, q)) => (\E q : Running(T, q))'
    BY <2>1 DEF Running
  <2>6. QED
    BY <2>1, <2>2, <2>3, <2>4, <2>5 DEF Following
<1>7. QED
  BY <1>2, <1>3, <1>4, <1>5, <1>6 DEF Next

(* FollowsText: the code that generate_statement makes of a program, split *)
(* into chunks and relocated by vm_load_bytecode, does what the text says: *)
(* whatever way the conditions turn out, the line and every function of it *)
(* reach the same statements, conditions and end, in the same order.  It   *)
(* is proved for every program of which the code can be relied on, as      *)
(* Reliable says; of the others MCCompiled_after shows one.                *)
THEOREM CodeFollowsText ==
  ASSUME NEW inside, Reliable(inside, Lines)
  PROVE  Spec /\ []LeavesFlag => []FollowsText
<1> DEFINE T == DOMAIN inside
           Inv == IInv(T) /\ Following(T, inside)
<1>1. Trees(T) /\ Lines \subseteq Seq(T)
  BY ReliableIs
<1>2. Init => Inv
  <2>1. ASSUME Init PROVE Following(T, inside)
    <3>1. line = <<>> /\ phase = "idle"
      BY <2>1 DEF Init
    <3>2. line \in Seq(T)
      BY <3>1
    <3>3. QED
      BY <3>1, <3>2 DEF Following
  <2>2. QED
    BY <2>1, IInvInit
<1>3. Inv /\ LeavesFlag /\ [Next]_vars => Inv'
  <2>1. ASSUME Inv, LeavesFlag, [Next]_vars PROVE IInv(T)'
    BY <1>1, <2>1, IInvStep
  <2>2. ASSUME Inv, [Next]_vars PROVE Following(T, inside)'
    BY <2>2, FollowingStep
  <2>3. QED
    BY <2>1, <2>2
<1>4. Inv => FollowsText
  <2> SUFFICES ASSUME Inv, phase = "run", AtEvent PROVE CodeEvent = Event(rest)
    BY DEF FollowsText
  <2>1. PICK q : Running(T, q)
    BY DEF Following
  <2>2. TextAtEvent
    BY DEF AtEvent
  <2>3. QED
    BY <1>1, <2>1, <2>2, EventsAgree
<1> HIDE DEF Inv
<1>5. QED
  BY <1>2, <1>3, <1>4, PTL DEF Spec
=============================================================================
