------------------------- MODULE ModuleSearchProofs -------------------------
(***************************************************************************)
(* ModuleSearch, for every disk, every source and every number of edits,   *)
(* compilations, runs and nested loads: what load_module looks at, what it *)
(* chooses, that a failure is neither run past nor forgotten, and that a   *)
(* bytecode file runs as the text it was compiled from.                    *)
(***************************************************************************)
EXTENDS ModuleSearch, CommonLemmas, FiniteSetTheorems, TLAPS

IsSeq(q) == q \in Seq(Range(q))
Odd(n)   == n % 2 = 1

(* The two kinds of calls, vm_execute at the odd places of the stack. *)
Executes(c) == c.fn = "vm_execute" /\ DOMAIN c = {"fn", "file", "code", "pc"}
Searches(c) == /\ c.fn = "load_module" /\ DOMAIN c = {"fn", "module", "next"}
               /\ c.next \in Nat \ {0}

StackOf(q) ==
  /\ IsSeq(q)
  /\ \A k \in 1 .. Len(q) : IF Odd(k) THEN Executes(q[k]) ELSE Searches(q[k])

(* In a run, running is cleared exactly when error is set; once something  *)
(* failed, or a file was left early, no search goes on.                    *)
Controlled ==
  /\ mode \in {"idle", "run", "broken"}
  /\ mode = "idle" => calls = <<>>
  /\ mode = "run" => calls # <<>> /\ running = ~error
  /\ running \in BOOLEAN /\ error \in BOOLEAN /\ failed \in BOOLEAN /\ early \in BOOLEAN
  /\ failed \/ early => error /\ ~running /\ (calls = <<>> \/ Odd(Len(calls)))

OnDisk ==
  /\ Main \in DOMAIN files /\ Placed(files)
  /\ cut \subseteq DOMAIN given /\ DOMAIN given \subseteq DOMAIN files
  /\ source.name \in DOMAIN files
  /\ IsSeq(source.traceback) /\ Range(source.traceback) \subseteq DOMAIN files

(* What the search in progress has passed over cannot be used. *)
Tried ==
  mode = "run" /\ ~Odd(Len(calls)) =>
    \A k \in 1 .. TopCall.next - 1 : ~Usable(Candidates(TopCall.module)[k])

IInv == StackOf(calls) /\ Controlled /\ OnDisk /\ SearchesFromItsFile /\ Tried /\ FirstUsable

(***************************************************************************)
(* Sequences of whatever they hold.                                        *)
(***************************************************************************)

LEMMA OfSeq ==
  ASSUME NEW q, IsSeq(q)
  PROVE  /\ Len(q) \in Nat /\ DOMAIN q = 1 .. Len(q)
         /\ q = <<>> <=> Len(q) = 0
         /\ \A i \in 1 .. Len(q) : q[i] \in Range(q)
<1> DEFINE S == Range(q)
<1>1. q \in Seq(S)
  BY DEF IsSeq
<1>2. \A i \in DOMAIN q : q[i] \in S
  BY DEF Range
<1> HIDE DEF S
<1>3. Len(q) \in Nat /\ DOMAIN q = 1 .. Len(q) /\ (q = <<>> <=> Len(q) = 0)
  BY <1>1
<1>4. QED
  BY <1>2, <1>3 DEF S

LEMMA SeqIs ==
  ASSUME NEW S, NEW q \in Seq(S)
  PROVE  IsSeq(q)
<1>1. Len(q) \in Nat /\ q \in [1 .. Len(q) -> S] /\ DOMAIN q = 1 .. Len(q)
  OBVIOUS
<1>2. q \in [1 .. Len(q) -> Range(q)]
  BY <1>1 DEF Range
<1>3. QED
  BY <1>1, <1>2 DEF IsSeq

LEMMA NoSeq ==
  IsSeq(<<>>) /\ Range(<<>>) = {}
<1>1. <<>> \in Seq({}) /\ Len(<<>>) = 0
  OBVIOUS
<1>2. IsSeq(<<>>)
  BY <1>1, SeqIs
<1>3. DOMAIN <<>> = {}
  BY <1>1, <1>2, OfSeq
<1>4. QED
  BY <1>2, <1>3 DEF Range

Grown(q, e, r) ==
  /\ IsSeq(r) /\ Len(q) \in Nat /\ Len(r) = Len(q) + 1 /\ r[Len(q) + 1] = e
  /\ \A i \in 1 .. Len(q) : r[i] = q[i]
  /\ Range(r) = Range(q) \cup {e}

LEMMA OneMore ==
  ASSUME NEW q, IsSeq(q), NEW e
  PROVE  Grown(q, e, Append(q, e))
<1> DEFINE S == Range(q) \cup {e}
           r == Append(q, e)
<1>1. q \in Seq(S) /\ e \in S
  BY DEF IsSeq
<1> HIDE DEF S
<1>2. /\ r \in Seq(S) /\ Len(q) \in Nat /\ Len(r) = Len(q) + 1 /\ r[Len(q) + 1] = e
      /\ \A i \in 1 .. Len(q) : r[i] = q[i]
  BY <1>1
<1> HIDE DEF r
<1>3. IsSeq(r)
  BY <1>2, SeqIs
<1>4. /\ DOMAIN r = 1 .. Len(q) + 1 /\ DOMAIN q = 1 .. Len(q)
  BY <1>2, <1>3, OfSeq
<1>5. Range(r) = Range(q) \cup {e}
  <2>1. \A i \in 1 .. Len(q) + 1 : i \in 1 .. Len(q) \/ i = Len(q) + 1
    BY <1>2
  <2>2. \A i \in 1 .. Len(q) : i \in 1 .. Len(q) + 1
    BY <1>2
  <2>3. Len(q) + 1 \in 1 .. Len(q) + 1
    BY <1>2
  <2>4. QED
    BY <1>2, <1>4, <2>1, <2>2, <2>3 DEF Range
<1>6. Grown(q, e, r)
  BY <1>2, <1>3, <1>5 DEF Grown
<1>7. QED
  BY <1>6 DEF r

Begun(q, n, r) ==
  /\ IsSeq(r) /\ n \in Nat /\ Len(r) = n /\ Range(r) \subseteq Range(q)
  /\ \A i \in 1 .. n : r[i] = q[i]

LEMMA Fewer ==
  ASSUME NEW q, IsSeq(q), NEW n \in 0 .. Len(q)
  PROVE  Begun(q, n, SubSeq(q, 1, n))
<1> DEFINE S == Range(q)
           r == SubSeq(q, 1, n)
<1>1. q \in Seq(S) /\ Len(q) \in Nat /\ n \in Nat
  BY DEF IsSeq
<1> HIDE DEF S
<1>2. r \in Seq(S) /\ Len(r) = n /\ \A i \in 1 .. n : r[i] = q[i]
  BY <1>1
<1> HIDE DEF r
<1>3. IsSeq(r)
  BY <1>2, SeqIs
<1>4. \A i \in 1 .. n : i \in 1 .. Len(q)
  BY <1>1
<1>5. Range(r) \subseteq Range(q)
  BY <1>2, <1>3, <1>4, OfSeq DEF Range
<1>6. Begun(q, n, r)
  BY <1>1, <1>2, <1>3, <1>5 DEF Begun
<1>7. QED
  BY <1>6 DEF r

(* A stack of which more is asked than it has is emptied. *)
LEMMA Emptied ==
  ASSUME NEW q, Len(q) = 1
  PROVE  SubSeq(q, 1, Len(q) - 2) = <<>>
OBVIOUS

(* Odd and even. *)
LEMMA Parity ==
  ASSUME NEW n \in Nat
  PROVE  /\ Odd(n + 1) <=> ~Odd(n)
         /\ Odd(n) => n >= 1
         /\ Odd(n) /\ n # 1 => n >= 3 /\ n - 2 \in Nat /\ Odd(n - 2)
         /\ Odd(1)
BY DEF Odd
(***************************************************************************)
(* The C stack.                                                            *)
(***************************************************************************)

(* Another top of the same kind. *)
Changed(q, c, r) ==
  /\ StackOf(r) /\ r # <<>> /\ Len(r) = Len(q) /\ r[Len(r)] = c
  /\ \A k \in 1 .. Len(q) - 1 : r[k] = q[k]

LEMMA TopChanged ==
  ASSUME NEW q, StackOf(q), q # <<>>, NEW c,
         Odd(Len(q)) => Executes(c), ~Odd(Len(q)) => Searches(c)
  PROVE  Changed(q, c, Append(Front(q), c))
<1> DEFINE r == Append(Front(q), c)
<1>1. IsSeq(q) /\ Len(q) \in Nat \ {0} /\ Len(q) - 1 \in 0 .. Len(q)
  BY OfSeq DEF StackOf
<1>2. Begun(q, Len(q) - 1, Front(q))
  BY <1>1, Fewer DEF Front
<1> DEFINE f == Front(q)
<1> HIDE DEF f, r
<1>3. /\ IsSeq(r) /\ Len(r) = Len(q) /\ r[Len(r)] = c
      /\ \A i \in 1 .. Len(q) - 1 : r[i] = q[i]
  <2>1. /\ IsSeq(f) /\ Len(f) = Len(q) - 1 /\ \A i \in 1 .. Len(q) - 1 : f[i] = q[i]
    BY <1>2 DEF f, Begun
  <2>2. Grown(f, c, r)
    BY <2>1, OneMore DEF f, r
  <2>3. QED
    BY <1>1, <2>1, <2>2 DEF Grown
<1>4. \A k \in 1 .. Len(r) : k \in 1 .. Len(q) - 1 \/ k = Len(q)
  BY <1>1, <1>3
<1>5. StackOf(r)
  BY <1>1, <1>3, <1>4 DEF StackOf
<1>6. r # <<>>
  BY <1>1, <1>3
<1>7. Changed(q, c, r)
  BY <1>3, <1>5, <1>6 DEF Changed
<1>8. QED
  BY <1>7 DEF r

(* One call more. *)
Added(q, c, r) ==
  /\ StackOf(r) /\ r # <<>> /\ Len(r) = Len(q) + 1 /\ r[Len(r)] = c
  /\ \A k \in 1 .. Len(q) : r[k] = q[k]

LEMMA Pushed ==
  ASSUME NEW q, StackOf(q), NEW c,
         Odd(Len(q)) => Searches(c), ~Odd(Len(q)) => Executes(c)
  PROVE  Added(q, c, Append(q, c))
<1> DEFINE r == Append(q, c)
<1> HIDE DEF r
<1>1. /\ IsSeq(r) /\ Len(q) \in Nat /\ Len(r) = Len(q) + 1 /\ r[Len(r)] = c
      /\ \A i \in 1 .. Len(q) : r[i] = q[i]
  <2>1. Grown(q, c, r)
    BY OneMore DEF StackOf, r
  <2>2. QED
    BY <2>1 DEF Grown
<1>2. \A k \in 1 .. Len(r) : k \in 1 .. Len(q) \/ k = Len(q) + 1
  BY <1>1
<1>3. Odd(Len(q) + 1) <=> ~Odd(Len(q))
  BY <1>1, Parity
<1>4. StackOf(r)
  <2> SUFFICES ASSUME NEW k \in 1 .. Len(r)
               PROVE  IF Odd(k) THEN Executes(r[k]) ELSE Searches(r[k])
    BY <1>1 DEF StackOf
  <2>1. CASE k \in 1 .. Len(q)
    BY <1>1, <2>1 DEF StackOf
  <2>2. CASE k = Len(q) + 1
    BY <1>1, <1>3, <2>2
  <2>3. QED
    BY <1>2, <2>1, <2>2
<1>5. r # <<>>
  BY <1>1
<1>6. Added(q, c, r)
  BY <1>1, <1>4, <1>5 DEF Added
<1>7. QED
  BY <1>6 DEF r

(* Fewer calls. *)
Shortened(q, n, r) ==
  /\ StackOf(r) /\ Len(r) = n /\ (r = <<>> <=> n = 0)
  /\ \A k \in 1 .. n : r[k] = q[k]

LEMMA Popped ==
  ASSUME NEW q, StackOf(q), NEW n \in 0 .. Len(q)
  PROVE  Shortened(q, n, SubSeq(q, 1, n))
<1> DEFINE r == SubSeq(q, 1, n)
<1>1. Begun(q, n, r)
  BY Fewer DEF StackOf
<1> HIDE DEF r
<1>2. IsSeq(r) /\ Len(r) = n /\ \A i \in 1 .. n : r[i] = q[i]
  BY <1>1 DEF Begun
<1>3. \A i \in 1 .. n : i \in 1 .. Len(q)
  BY OfSeq DEF StackOf
<1>4. r = <<>> <=> n = 0
  BY <1>2, OfSeq
<1>5. Shortened(q, n, r)
  BY <1>2, <1>3, <1>4 DEF StackOf, Shortened
<1>6. QED
  BY <1>5 DEF r

(* The end of an execution, or its failure, takes off the search that led  *)
(* to it as well; what is left executes.                                   *)
LessTwo(q, r) ==
  /\ StackOf(r) /\ Len(q) \in Nat
  /\ \/ r = <<>> /\ Len(r) = 0 /\ Len(q) = 1
     \/ r # <<>> /\ Len(q) >= 3 /\ Len(r) = Len(q) - 2 /\ Odd(Len(r))
  /\ \A k \in 1 .. Len(r) : r[k] = q[k]

LEMMA TwoPopped ==
  ASSUME NEW q, StackOf(q), Odd(Len(q))
  PROVE  LessTwo(q, SubSeq(q, 1, Len(q) - 2))
<1>1. Len(q) \in Nat /\ Len(q) >= 1
  BY OfSeq, Parity DEF StackOf
<1>2. CASE Len(q) = 1
  <2>1. SubSeq(q, 1, Len(q) - 2) = <<>>
    BY <1>2, Emptied
  <2>2. StackOf(<<>>) /\ Len(<<>>) = 0
    BY NoSeq DEF StackOf
  <2>3. LessTwo(q, <<>>)
    BY <1>2, <2>2 DEF LessTwo
  <2>4. QED
    BY <2>1, <2>3
<1>3. CASE Len(q) # 1
  <2> DEFINE m == Len(q)
             n == m - 2
             r == SubSeq(q, 1, n)
  <2>1. m \in Nat /\ Odd(m) /\ m # 1
    BY <1>1, <1>3
  <2> HIDE DEF m
  <2>2. m >= 3 /\ n \in Nat /\ Odd(n) /\ n \in 0 .. m /\ n # 0
    BY <2>1, Parity
  <2>3. n \in 0 .. Len(q)
    BY <2>2 DEF m
  <2> HIDE DEF n
  <2>9. Shortened(q, n, r)
    BY <2>3, Popped
  <2> HIDE DEF r
  <2>4. StackOf(r) /\ Len(r) = n /\ (r = <<>> <=> n = 0) /\ \A k \in 1 .. n : r[k] = q[k]
    BY <2>9 DEF Shortened
  <2>5. Len(r) = Len(q) - 2
    BY <2>4 DEF n, m
  <2>6. Len(q) >= 3
    BY <2>2 DEF m
  <2>7. LessTwo(q, r)
    BY <1>1, <2>2, <2>4, <2>5, <2>6 DEF LessTwo
  <2>8. QED
    BY <2>7 DEF r, n, m
<1>4. QED
  BY <1>2, <1>3

(* A call goes on as what it is. *)
LEMMA GoesOn ==
  ASSUME NEW c
  PROVE  /\ Executes(c) => LET d == [c EXCEPT !.pc = @ + 1]
                           IN  Executes(d) /\ d.file = c.file
         /\ Searches(c) => LET d == [c EXCEPT !.next = @ + 1]
                           IN  Searches(d) /\ d.module = c.module /\ d.next = c.next + 1
BY DEF Executes, Searches

LEMMA Begins ==
  ASSUME NEW p, NEW code, NEW m
  PROVE  /\ Executes(Execution(p, code)) /\ Execution(p, code).file = p
         /\ Searches(Search(m)) /\ Search(m).next = 1 /\ Search(m).module = m
BY DEF Executes, Searches, Execution, Search

(***************************************************************************)
(* The files being executed and the names that are recorded.               *)
(***************************************************************************)

Follows(q, names) ==
  /\ Len(q) \in {2 * Len(names) - 1, 2 * Len(names)}
  /\ \A k \in 1 .. Len(names) : names[k] = q[2 * k - 1].file

LEMMA Places ==
  ASSUME NEW k \in Nat \ {0}
  PROVE  2 * k - 1 \in Nat \ {0} /\ Odd(2 * k - 1) /\ ~Odd(2 * k)
BY DEF Odd

LEMMA FollowsStill ==
  ASSUME NEW q, NEW names, Follows(q, names), Len(names) \in Nat,
         NEW r, Len(r) = Len(q),
         \A j \in 1 .. Len(q) : Odd(j) => r[j].file = q[j].file
  PROVE  Follows(r, names)
<1>1. ASSUME NEW k \in 1 .. Len(names)
      PROVE  r[2 * k - 1].file = q[2 * k - 1].file
  <2>1. Odd(2 * k - 1) /\ 2 * k - 1 \in 1 .. Len(q)
    BY Places DEF Follows
  <2>2. QED
    BY <2>1
<1>2. QED
  BY <1>1 DEF Follows

(* With a search on top, the last name is that of the call below it. *)
LEMMA FollowsSearch ==
  ASSUME NEW q, NEW names, Len(names) \in Nat \ {0}, NEW n \in Nat, n = Len(q),
         NEW r, NEW m \in Nat, m = Len(r),
         IF Odd(n) THEN m = n + 1 ELSE m = n - 1,
         Follows(q, names),
         \A j \in 1 .. n : j \in 1 .. m => r[j] = q[j]
  PROVE  Follows(r, names)
<1> DEFINE l == Len(names)
<1>1. l \in Nat \ {0} /\ n \in {2 * l - 1, 2 * l} /\ \A k \in 1 .. l : names[k] = q[2 * k - 1].file
  BY DEF Follows
<1>2. Odd(2 * l - 1) /\ ~Odd(2 * l)
  BY <1>1, Places
<1> HIDE DEF l
<1>3. (n = 2 * l - 1 /\ m = 2 * l) \/ (n = 2 * l /\ m = 2 * l - 1)
  BY <1>1, <1>2
<1>4. ASSUME NEW k \in 1 .. l
      PROVE  names[k] = r[2 * k - 1].file
  <2>1. 2 * k - 1 \in 1 .. n /\ 2 * k - 1 \in 1 .. m
    BY <1>1, <1>3
  <2>2. QED
    BY <1>1, <2>1
<1>5. QED
  BY <1>3, <1>4 DEF Follows, l

(* An execution more, of the file that is named last. *)
LEMMA FollowsOneMore ==
  ASSUME NEW q, NEW names, IsSeq(names), Len(q) \in Nat, ~Odd(Len(q)), Follows(q, names),
         NEW p, NEW r, Len(r) = Len(q) + 1, r[Len(r)].file = p,
         \A j \in 1 .. Len(q) : r[j] = q[j]
  PROVE  Follows(r, Append(names, p))
<1> DEFINE ns == Append(names, p)
           l  == Len(names)
           n  == Len(q)
<1>1. Grown(names, p, ns)
  BY OneMore
<1> HIDE DEF ns
<1>2. l \in Nat /\ Len(ns) = l + 1 /\ ns[l + 1] = p /\ \A k \in 1 .. l : ns[k] = names[k]
  BY <1>1 DEF Grown
<1>3. n \in Nat /\ n \in {2 * l - 1, 2 * l} /\ Len(r) = n + 1
      /\ \A k \in 1 .. l : names[k] = q[2 * k - 1].file
  BY DEF Follows
<1> HIDE DEF l, n
<1>4. n = 2 * l
  BY <1>2, <1>3, Places DEF n
<1>5. ASSUME NEW k \in 1 .. l + 1
      PROVE  ns[k] = r[2 * k - 1].file
  <2>1. CASE k \in 1 .. l
    <3>1. 2 * k - 1 \in 1 .. n
      BY <1>2, <1>4, <2>1
    <3>2. r[2 * k - 1] = q[2 * k - 1]
      BY <3>1 DEF n
    <3>3. QED
      BY <1>2, <1>3, <2>1, <3>2
  <2>2. CASE k = l + 1
    <3>1. 2 * k - 1 = Len(r)
      BY <1>2, <1>3, <1>4, <2>2
    <3>2. QED
      BY <1>2, <2>2, <3>1
  <2>3. QED
    BY <1>2, <2>1, <2>2
<1>6. Len(r) = 2 * Len(ns) - 1
  BY <1>2, <1>3, <1>4
<1>7. Follows(r, ns)
  BY <1>2, <1>5, <1>6 DEF Follows
<1>8. QED
  BY <1>7 DEF ns

(* An execution and its search fewer: the last name is taken back. *)
LEMMA FollowsTwoLess ==
  ASSUME NEW q, NEW names, IsSeq(names), Odd(Len(q)), Follows(q, names),
         NEW r, r # <<>>, LessTwo(q, r)
  PROVE  /\ Len(names) >= 2
         /\ \A ns : Begun(names, Len(names) - 1, ns) => Follows(r, ns)
<1> DEFINE l == Len(names)
           n == Len(q)
<1>1. l \in Nat /\ n \in {2 * l - 1, 2 * l} /\ \A k \in 1 .. l : names[k] = q[2 * k - 1].file
  BY OfSeq DEF Follows
<1>2. n \in Nat /\ n >= 3 /\ Len(r) = n - 2 /\ \A j \in 1 .. n - 2 : r[j] = q[j]
  BY DEF LessTwo
<1> HIDE DEF l, n
<1>3. n = 2 * l - 1 /\ l >= 2
  BY <1>1, <1>2, Places DEF n
<1>4. ASSUME NEW ns, Begun(names, l - 1, ns)
      PROVE  Follows(r, ns)
  <2>1. Len(ns) = l - 1 /\ \A k \in 1 .. l - 1 : ns[k] = names[k]
    BY <1>4 DEF Begun
  <2>2. ASSUME NEW k \in 1 .. l - 1
        PROVE  ns[k] = r[2 * k - 1].file
    <3>1. 2 * k - 1 \in 1 .. n - 2 /\ k \in 1 .. l
      BY <1>1, <1>3
    <3>2. QED
      BY <1>1, <1>2, <2>1, <3>1
  <2>3. Len(r) = 2 * Len(ns) - 1
    BY <1>1, <1>2, <1>3, <2>1
  <2>4. QED
    BY <2>1, <2>2, <2>3 DEF Follows
<1>5. QED
  BY <1>3, <1>4 DEF l

(***************************************************************************)
(* Steps of a run, by what they do to the stack.                           *)
(***************************************************************************)

(* The source information is that of the same files. *)
SourceStays == source'.name = source.name /\ source'.traceback = source.traceback

(* During a run the disk stays as it is, and so does what can be used. *)
LEMMA UsableStays ==
  ASSUME UNCHANGED disk
  PROVE  /\ \A p : Usable(p)' = Usable(p)
         /\ \A c : Prescribed(c)' = Prescribed(c)
         /\ OnDisk /\ SourceStays => OnDisk'
<1>1. files' = files /\ dirs' = dirs /\ given' = given /\ cut' = cut
  BY DEF disk
<1>2. \A p : Usable(p)' = Usable(p)
  BY <1>1 DEF Usable, Exists
<1>3. \A c : Prescribed(c)' = Prescribed(c)
  BY <1>1, <1>2 DEF Prescribed
<1>4. OnDisk /\ SourceStays => OnDisk'
  BY <1>1 DEF OnDisk, Placed, SourceStays
<1>5. QED
  BY <1>2, <1>3, <1>4

LEMMA NamesOf ==
  ASSUME OnDisk
  PROVE  /\ Grown(source.traceback, source.name, Names) /\ IsSeq(Names)
         /\ Len(Names) \in Nat \ {0}
         /\ Begun(Names, Len(Names) - 1, source.traceback)
<1>1. IsSeq(source.traceback)
  BY DEF OnDisk
<1>2. Grown(source.traceback, source.name, Names)
  BY <1>1, OneMore DEF Names
<1>3. IsSeq(Names) /\ Len(Names) \in Nat \ {0} /\ Len(source.traceback) = Len(Names) - 1
  BY <1>2 DEF Grown
<1>4. Begun(Names, Len(Names) - 1, source.traceback)
  BY <1>1, <1>2, <1>3 DEF Grown, Begun
<1>5. QED
  BY <1>2, <1>3, <1>4

LEMMA Sourced ==
  SearchesFromItsFile <=> (mode = "run" /\ ~failed => Follows(calls, Names))
BY DEF SearchesFromItsFile, Follows

(* The top of the stack goes on: an execution to its next instruction, a   *)
(* search to its next file when this one cannot be used.                   *)
LEMMA TopMoves ==
  ASSUME IInv, mode = "run", UNCHANGED <<disk, mode, chosen, failed, early>>, SourceStays,
         NEW d, calls' = Append(Below, d),
         running' \in BOOLEAN, error' \in BOOLEAN, running' = ~error',
         IF Odd(Len(calls))
         THEN Executes(d) /\ d.file = TopCall.file /\ UNCHANGED <<running, error>>
         ELSE /\ Searches(d) /\ d.module = TopCall.module /\ d.next = TopCall.next + 1
              /\ ~Usable(Candidate)
  PROVE  IInv'
<1>1. StackOf(calls) /\ Controlled /\ OnDisk /\ calls # <<>>
  BY DEF IInv, Controlled
<1>2. Len(calls) \in Nat \ {0}
  BY <1>1, OfSeq DEF StackOf
<1>3. /\ StackOf(calls') /\ calls' # <<>> /\ Len(calls') = Len(calls) /\ TopCall' = d
      /\ \A k \in 1 .. Len(calls) - 1 : calls'[k] = calls[k]
  <2>1. Changed(calls, d, calls')
    BY <1>1, TopChanged DEF Below
  <2>2. QED
    BY <2>1 DEF Changed, TopCall, Last
<1>4. Controlled'
  BY <1>1, <1>3 DEF Controlled
<1>5. OnDisk'
  BY <1>1, UsableStays
<1>6. SearchesFromItsFile'
  <2>1. SUFFICES ASSUME ~failed PROVE Follows(calls', Names')
    BY Sourced, <1>3 DEF SearchesFromItsFile, Follows
  <2>2. Follows(calls, Names) /\ Len(Names) \in Nat /\ Names' = Names
    BY <1>1, <2>1, Sourced, NamesOf DEF IInv, Names, SourceStays
  <2>3. \A j \in 1 .. Len(calls) : Odd(j) => calls'[j].file = calls[j].file
    <3>1. calls'[Len(calls)] = d /\ TopCall = calls[Len(calls)]
      BY <1>3 DEF TopCall, Last
    <3>2. \A j \in 1 .. Len(calls) : j = Len(calls) \/ j \in 1 .. Len(calls) - 1
      BY <1>2
    <3>3. QED
      BY <1>3, <3>1, <3>2
  <2>4. QED
    BY <1>3, <2>2, <2>3, FollowsStill
<1>7. Tried'
  <2>1. SUFFICES ASSUME ~Odd(Len(calls)), NEW k \in 1 .. d.next - 1
                 PROVE  ~Usable(Candidates(d.module)[k])'
    BY <1>3 DEF Tried
  <2>2. /\ Searches(d) /\ d.module = TopCall.module /\ d.next = TopCall.next + 1
        /\ ~Usable(Candidate)
    BY <2>1
  <2>3. Candidates(d.module)' = Candidates(d.module)
    BY DEF Candidates, InDirectory, InLibrary, InScript, disk, SourceStays
  <2>4. TopCall.next \in Nat
    BY <1>1, <1>2, <2>1 DEF StackOf, Searches, TopCall, Last
  <2>5. CASE k = TopCall.next
    BY <2>2, <2>3, <2>5, UsableStays DEF Candidate, Module
  <2>6. CASE k # TopCall.next
    <3>1. k \in 1 .. TopCall.next - 1
      BY <2>2, <2>4, <2>6
    <3>2. ~Usable(Candidates(TopCall.module)[k])
      BY <2>1, <3>1 DEF IInv, Tried
    <3>3. QED
      BY <2>2, <2>3, <3>2, UsableStays
  <2>7. QED
    BY <2>5, <2>6
<1>8. FirstUsable'
  BY UsableStays DEF IInv, FirstUsable
<1>9. QED
  BY <1>3, <1>4, <1>5, <1>6, <1>7, <1>8 DEF IInv

(* A load begins with a search of its own, at the first file. *)
LEMMA SearchBegins ==
  ASSUME IInv, LoadModule
  PROVE  IInv'
<1> DEFINE s == Stepped
           m == Current.arg
<1>1. /\ StackOf(calls) /\ Controlled /\ OnDisk /\ calls # <<>> /\ mode = "run" /\ running
      /\ Executes(TopCall) \/ TopCall.fn = "vm_execute"
      /\ calls' = Append(s, Search(m))
      /\ UNCHANGED <<disk, source, running, error, mode, chosen, failed, early>>
  BY DEF IInv, Controlled, LoadModule, InLoop, Executing
<1>2. Len(calls) \in Nat \ {0} /\ Odd(Len(calls)) /\ Executes(TopCall)
  <2>1. Len(calls) \in Nat \ {0} /\ Len(calls) \in 1 .. Len(calls)
    BY <1>1, OfSeq DEF StackOf
  <2>2. IF Odd(Len(calls)) THEN Executes(TopCall) ELSE Searches(TopCall)
    BY <1>1, <2>1 DEF StackOf, TopCall, Last
  <2>3. TopCall.fn = "vm_execute"
    BY DEF LoadModule, InLoop, Executing
  <2>4. QED
    BY <2>1, <2>2, <2>3 DEF Searches
<1>3. Changed(calls, [TopCall EXCEPT !.pc = @ + 1], s)
  BY <1>1, <1>2, TopChanged, GoesOn DEF Stepped, Below
<1>4. [TopCall EXCEPT !.pc = @ + 1].file = TopCall.file
  BY <1>2, GoesOn
<1> HIDE DEF s, m
<1>5. StackOf(s) /\ Len(s) = Len(calls)
  BY <1>3 DEF Changed
<1>6. Added(s, Search(m), calls')
  BY <1>1, <1>2, <1>5, Pushed, Begins
<1>7. /\ StackOf(calls') /\ calls' # <<>> /\ Len(calls') = Len(calls) + 1 /\ ~Odd(Len(calls'))
      /\ TopCall' = Search(m)
  <2>1. /\ StackOf(calls') /\ calls' # <<>> /\ Len(calls') = Len(calls) + 1
        /\ TopCall' = Search(m)
    BY <1>5, <1>6 DEF Added, TopCall, Last
  <2>2. QED
    BY <1>2, <2>1, Parity
<1>8. ~failed /\ ~early
  BY <1>1 DEF Controlled
<1>9. Controlled'
  BY <1>1, <1>7, <1>8 DEF Controlled
<1>10. OnDisk'
  BY <1>1, UsableStays DEF SourceStays
<1>11. SearchesFromItsFile'
  <2>1. Follows(calls, Names) /\ Len(Names) \in Nat \ {0} /\ Names' = Names
    BY <1>1, <1>8, Sourced, NamesOf DEF IInv, Names
  <2>2. \A j \in 1 .. Len(calls) : Odd(j) => s[j].file = calls[j].file
    <3>1. \A j \in 1 .. Len(calls) : j = Len(calls) \/ j \in 1 .. Len(calls) - 1
      BY <1>2
    <3>2. TopCall = calls[Len(calls)]
      BY DEF TopCall, Last
    <3>3. QED
      BY <1>3, <1>4, <3>1, <3>2 DEF Changed
  <2>3. Follows(s, Names)
    BY <1>5, <2>1, <2>2, FollowsStill
  <2>4. /\ Len(s) \in Nat /\ Len(calls') \in Nat /\ Odd(Len(s)) /\ Len(calls') = Len(s) + 1
        /\ \A j \in 1 .. Len(s) : calls'[j] = s[j]
    BY <1>2, <1>5, <1>6 DEF Added
  <2>5. Follows(calls', Names)
    BY <2>1, <2>3, <2>4, FollowsSearch
  <2>6. QED
    BY <2>1, <2>5, Sourced DEF SearchesFromItsFile, Follows
<1>12. Tried'
  BY <1>7, Begins DEF Tried
<1>13. FirstUsable'
  BY <1>1, UsableStays DEF IInv, FirstUsable
<1>14. QED
  BY <1>7, <1>9, <1>10, <1>11, <1>12, <1>13 DEF IInv

(* What is known while load_module looks at a file. *)
LEMMA Looking ==
  ASSUME IInv, Searching
  PROVE  /\ StackOf(calls) /\ Controlled /\ OnDisk /\ calls # <<>> /\ mode = "run"
         /\ Len(calls) \in Nat \ {0} /\ ~Odd(Len(calls)) /\ Searches(TopCall)
         /\ ~failed /\ ~early /\ running = ~error
         /\ Follows(calls, Names) /\ Len(Names) \in Nat \ {0}
         /\ \A k \in 1 .. TopCall.next - 1 : ~Usable(Candidates(Module)[k])
<1>1. /\ StackOf(calls) /\ Controlled /\ OnDisk /\ calls # <<>> /\ mode = "run"
      /\ running = ~error /\ TopCall.fn = "load_module"
  BY DEF IInv, Controlled, Searching
<1>2. Len(calls) \in Nat \ {0} /\ Len(calls) \in 1 .. Len(calls)
  BY <1>1, OfSeq DEF StackOf
<1>3. ~Odd(Len(calls)) /\ Searches(TopCall)
  <2>1. IF Odd(Len(calls)) THEN Executes(TopCall) ELSE Searches(TopCall)
    BY <1>1, <1>2 DEF StackOf, TopCall, Last
  <2>2. QED
    BY <1>1, <2>1 DEF Executes
<1>4. ~failed /\ ~early
  BY <1>1, <1>3 DEF Controlled
<1>5. Follows(calls, Names) /\ Len(Names) \in Nat \ {0}
  BY <1>1, <1>4, Sourced, NamesOf DEF IInv
<1>6. \A k \in 1 .. TopCall.next - 1 : ~Usable(Candidates(Module)[k])
  BY <1>1, <1>3 DEF IInv, Tried, Module
<1>7. QED
  BY <1>1, <1>2, <1>3, <1>4, <1>5, <1>6

(***************************************************************************)
(* What is chosen.                                                         *)
(***************************************************************************)

(* The files tried, in their order. *)
LEMMA InOrder ==
  ASSUME NEW m
  PROVE  LET cs == Candidates(m)
             d  == DirOf(source.name)
         IN  /\ m \in dirs => /\ Len(cs) = 3
                              /\ cs[1] = Path(m, "init", "sb")
                              /\ cs[2] = Path(m, m, "sb") /\ cs[3] = Path(m, m, "sbc")
             /\ m \notin dirs =>
                  /\ Len(cs) = 6
                  /\ cs[1] = Path("lib", m, "so") /\ cs[2] = Path("lib", m, "sbc")
                  /\ cs[3] = Path("lib", m, "sb")
                  /\ cs[4] = Path(d, m, "so") /\ cs[5] = Path(d, m, "sbc")
                  /\ cs[6] = Path(d, m, "sb")
<1> DEFINE d == DirOf(source.name)
           l1 == Path("lib", m, "so")
           l2 == Path("lib", m, "sbc")
           l3 == Path("lib", m, "sb")
           s1 == Path(d, m, "so")
           s2 == Path(d, m, "sbc")
           s3 == Path(d, m, "sb")
           i1 == Path(m, "init", "sb")
           i2 == Path(m, m, "sb")
           i3 == Path(m, m, "sbc")
           cs == Candidates(m)
<1>1. /\ InLibrary(m) = <<l1, l2, l3>> /\ InScript(m) = <<s1, s2, s3>>
      /\ InDirectory(m) = <<i1, i2, i3>>
  BY DEF InLibrary, InScript, InDirectory
<1>2. cs = IF m \in dirs THEN InDirectory(m) ELSE InLibrary(m) \o InScript(m)
  BY DEF Candidates
<1> HIDE DEF cs, l1, l2, l3, s1, s2, s3, i1, i2, i3
<1>3. m \in dirs => Len(cs) = 3 /\ cs[1] = i1 /\ cs[2] = i2 /\ cs[3] = i3
  BY <1>1, <1>2
<1>4. m \notin dirs => /\ Len(cs) = 6 /\ cs[1] = l1 /\ cs[2] = l2 /\ cs[3] = l3
                       /\ cs[4] = s1 /\ cs[5] = s2 /\ cs[6] = s3
  BY <1>1, <1>2
<1>5. QED
  BY <1>3, <1>4 DEF cs, l1, l2, l3, s1, s2, s3, i1, i2, i3

(* A file is where its parts say. *)
LEMMA PathParts ==
  ASSUME NEW d, NEW n, NEW e
  PROVE  DirOf(Path(d, n, e)) = d /\ Path(d, n, e)[2] = n /\ Path(d, n, e)[3] = e
BY DEF DirOf, Path

(* The files of a module in a directory, and the one that comes first. *)
InPlace(m, e)  == {q \in DOMAIN files : q[2] = m /\ DirOf(q) = e}
Can(m, e, x)   == \E q \in InPlace(m, e) : q[3] = x /\ Usable(q)
Fits(m, e, p)  == /\ p \in InPlace(m, e) /\ Usable(p)
                  /\ p[3] \in {"sbc", "sb"} => ~Can(m, e, "so")
                  /\ p[3] = "sb" => ~Can(m, e, "sbc")
InPackage(m, p) == /\ DirOf(p) = m /\ Usable(p)
                   /\ p[2] # "init" => ~Usable(Path(m, "init", "sb"))
                   /\ p[3] = "sbc" => ~Usable(Path(m, m, "sb"))

LEMMA PrescribedIs ==
  ASSUME NEW c, NEW m, NEW d, NEW p, c.module = m, c.from = d, c.file = p
  PROVE  Prescribed(c) <=>
           IF m \in dirs THEN InPackage(m, p)
           ELSE \/ Fits(m, "lib", p)
                \/ Fits(m, d, p) /\ ~\E q \in InPlace(m, "lib") : Usable(q)
BY DEF Prescribed, InPackage, Fits, Can, InPlace

(* The file that can be used and before which none could is the one that   *)
(* the order of the extensions and directories prescribes.                 *)
LEMMA ChoiceIsPrescribed ==
  ASSUME IInv, HasNext, Usable(Candidate)
  PROVE  Prescribed(Choice(Candidate))
<1> DEFINE m == Module
           d == DirOf(source.name)
           n == TopCall.next
           p == Candidate
           cs == Candidates(m)
<1>1. /\ Searches(TopCall) /\ OnDisk /\ n \in Nat \ {0} /\ n <= Len(cs) /\ p = cs[n]
      /\ \A k \in 1 .. n - 1 : ~Usable(cs[k])
  BY Looking DEF HasNext, Searches, Candidate
<1>2. Choice(p).module = m /\ Choice(p).from = d /\ Choice(p).file = p
  BY DEF Choice
<1>3. ASSUME NEW q \in DOMAIN files
      PROVE  q = Path(DirOf(q), q[2], q[3]) /\ q[3] \in {"so", "sbc", "sb"}
  BY <1>1, <1>3 DEF OnDisk, Placed, Kinds, DirOf
<1>4. \A q : Usable(q) => q \in DOMAIN files
  BY DEF Usable, Exists
<1>5. /\ m \in dirs => /\ Len(cs) = 3
                       /\ cs[1] = Path(m, "init", "sb")
                       /\ cs[2] = Path(m, m, "sb") /\ cs[3] = Path(m, m, "sbc")
      /\ m \notin dirs =>
           /\ Len(cs) = 6
           /\ cs[1] = Path("lib", m, "so") /\ cs[2] = Path("lib", m, "sbc")
           /\ cs[3] = Path("lib", m, "sb")
           /\ cs[4] = Path(d, m, "so") /\ cs[5] = Path(d, m, "sbc")
           /\ cs[6] = Path(d, m, "sb")
  BY InOrder
<1>6. p \in DOMAIN files /\ Usable(p)
  BY <1>4
<1>7. \A e, x : Can(m, e, x) => Usable(Path(e, m, x))
  BY <1>3 DEF Can, InPlace
<1>8. \A e : p = Path(e, m, p[3]) => p \in InPlace(m, e)
  BY <1>6, PathParts DEF InPlace
<1> DEFINE c == Choice(p)
<1>parts. c.module = m /\ c.from = d /\ c.file = p
  BY <1>2
<1> HIDE DEF m, d, n, p, cs, c
<1>three. n <= 3 => n = 1 \/ n = 2 \/ n = 3
  BY <1>1
<1>six. n <= 6 => n = 1 \/ n = 2 \/ n = 3 \/ n = 4 \/ n = 5 \/ n = 6
  BY <1>1
<1>9. ASSUME m \in dirs PROVE Prescribed(c)
  <2>1. n = 1 \/ n = 2 \/ n = 3
    BY <1>1, <1>three, <1>5, <1>9
  <2>2. /\ DirOf(p) = m
        /\ p[2] # "init" => ~Usable(Path(m, "init", "sb"))
        /\ p[3] = "sbc" => ~Usable(Path(m, m, "sb"))
    <3>1. CASE n = 1
      BY <1>1, <1>5, <1>9, <3>1, PathParts
    <3>2. CASE n = 2
      BY <1>1, <1>5, <1>9, <3>2, PathParts
    <3>3. CASE n = 3
      <4>1. 1 \in 1 .. n - 1 /\ 2 \in 1 .. n - 1
        BY <3>3
      <4>2. ~Usable(cs[1]) /\ ~Usable(cs[2])
        BY <1>1, <4>1
      <4>3. QED
        BY <1>1, <1>5, <1>9, <3>3, <4>2, PathParts
    <3>4. QED
      BY <2>1, <3>1, <3>2, <3>3
  <2>3. InPackage(m, p)
    BY <1>6, <2>2 DEF InPackage
  <2>4. QED
    BY <1>parts, <1>9, <2>3, PrescribedIs
<1>10. ASSUME m \notin dirs PROVE Prescribed(c)
  <2>1. n = 1 \/ n = 2 \/ n = 3 \/ n = 4 \/ n = 5 \/ n = 6
    BY <1>1, <1>six, <1>5, <1>10
  <2>2. CASE n \in 1 .. 3
    <3>1. /\ p = Path("lib", m, p[3])
          /\ p[3] \in {"sbc", "sb"} => ~Usable(Path("lib", m, "so"))
          /\ p[3] = "sb" => ~Usable(Path("lib", m, "sbc"))
      <4>1. CASE n = 1
        BY <1>1, <1>5, <1>10, <4>1, PathParts
      <4>2. CASE n = 2
        <5>1. ~Usable(cs[1])
          BY <1>1, <4>2
        <5>2. QED
          BY <1>1, <1>5, <1>10, <4>2, <5>1, PathParts
      <4>3. CASE n = 3
        <5>1. ~Usable(cs[1]) /\ ~Usable(cs[2])
          BY <1>1, <4>3
        <5>2. QED
          BY <1>1, <1>5, <1>10, <4>3, <5>1, PathParts
      <4>4. QED
        BY <2>2, <4>1, <4>2, <4>3
    <3>2. Fits(m, "lib", p)
      BY <1>6, <1>7, <1>8, <3>1 DEF Fits
    <3>3. QED
      BY <1>parts, <1>10, <3>2, PrescribedIs
  <2>3. CASE n \in 4 .. 6
    <3>1. /\ p = Path(d, m, p[3])
          /\ p[3] \in {"sbc", "sb"} => ~Usable(Path(d, m, "so"))
          /\ p[3] = "sb" => ~Usable(Path(d, m, "sbc"))
      <4>1. CASE n = 4
        BY <1>1, <1>5, <1>10, <4>1, PathParts
      <4>2. CASE n = 5
        <5>1. ~Usable(cs[4])
          BY <1>1, <4>2
        <5>2. QED
          BY <1>1, <1>5, <1>10, <4>2, <5>1, PathParts
      <4>3. CASE n = 6
        <5>1. ~Usable(cs[4]) /\ ~Usable(cs[5])
          BY <1>1, <4>3
        <5>2. QED
          BY <1>1, <1>5, <1>10, <4>3, <5>1, PathParts
      <4>4. QED
        BY <2>3, <4>1, <4>2, <4>3
    <3>2. Fits(m, d, p)
      BY <1>6, <1>7, <1>8, <3>1 DEF Fits
    <3>3. ~\E q \in InPlace(m, "lib") : Usable(q)
      <4>1. ~Usable(cs[1]) /\ ~Usable(cs[2]) /\ ~Usable(cs[3])
        BY <1>1, <2>3
      <4>2. ASSUME NEW q \in InPlace(m, "lib")
            PROVE  q = Path("lib", m, q[3]) /\ q[3] \in {"so", "sbc", "sb"}
        BY <1>3 DEF InPlace
      <4>3. QED
        BY <1>5, <1>10, <4>1, <4>2
    <3>4. QED
      BY <1>parts, <1>10, <3>2, <3>3, PrescribedIs
  <2>4. QED
    BY <2>1, <2>2, <2>3
<1>11. Prescribed(c)
  BY <1>9, <1>10
<1>12. QED
  BY <1>11 DEF c, p

(***************************************************************************)
(* The search goes on past what cannot be used.                            *)
(***************************************************************************)

LEMMA BackAgain ==
  ASSUME NEW q, IsSeq(q), NEW e
  PROVE  Append(q, e) # <<>> /\ Last(Append(q, e)) = e /\ Front(Append(q, e)) = q
<1> DEFINE S == Range(q) \cup {e}
<1>1. q \in Seq(S) /\ e \in S
  BY DEF IsSeq
<1> HIDE DEF S
<1>2. QED
  BY <1>1 DEF Last, Front

(* A file that is refused leaves the source information as it was. *)
LEMMA Unsaid ==
  ASSUME IsSeq(source.traceback), NEW p, source' = BackSource(SetSource(source, p))
  PROVE  SourceStays
<1> DEFINE t == Append(source.traceback, source.name)
<1>1. t # <<>> /\ Last(t) = source.name /\ Front(t) = source.traceback
  BY BackAgain
<1> HIDE DEF t
<1>2. SetSource(source, p) = [name |-> p, traceback |-> t]
  BY DEF SetSource, t
<1>3. source' = [name |-> Last(t), traceback |-> Front(t)]
  BY <1>1, <1>2 DEF BackSource
<1>4. QED
  BY <1>1, <1>3 DEF SourceStays

(* A file of a kind is usable only as its kind says. *)
LEMMA UsableIs ==
  ASSUME NEW p
  PROVE  /\ ~Exists(p) => ~Usable(p)
         /\ files[p].kind = "so" /\ files[p].init # "good" => ~Usable(p)
         /\ files[p].kind = "sbc" /\ ~IsLoadable(files[p].fields) => ~Usable(p)
         /\ files[p].kind = "sb" /\ ~files[p].ok => ~Usable(p)
         /\ files[p].kind = "so" /\ Exists(p) /\ files[p].init = "good" => Usable(p)
         /\ files[p].kind = "sbc" /\ Exists(p) /\ IsLoadable(files[p].fields) => Usable(p)
         /\ files[p].kind = "sb" /\ Exists(p) /\ files[p].ok => Usable(p)
BY DEF Usable

LEMMA Passed ==
  ASSUME IInv, Searching, UNCHANGED <<disk, mode, chosen, failed, early>>, SourceStays,
         calls' = NextOne, ~Usable(Candidate),
         running' \in BOOLEAN, error' \in BOOLEAN, running' = ~error'
  PROVE  IInv'
<1> DEFINE d == [TopCall EXCEPT !.next = @ + 1]
<1>1. Searches(TopCall) /\ ~Odd(Len(calls)) /\ mode = "run"
  BY Looking
<1>2. Searches(d) /\ d.module = TopCall.module /\ d.next = TopCall.next + 1
  BY <1>1, GoesOn
<1>3. calls' = Append(Below, d)
  BY DEF NextOne
<1> HIDE DEF d
<1>4. QED
  BY <1>1, <1>2, <1>3, TopMoves

LEMMA AbsentKeeps ==
  ASSUME IInv, Absent
  PROVE  IInv'
<1>1. /\ Searching /\ calls' = NextOne
      /\ UNCHANGED <<disk, source, running, error, mode, chosen, failed, early>>
  BY DEF Absent, HasNext, history
<1>2. running \in BOOLEAN /\ error \in BOOLEAN /\ running = ~error
  BY <1>1, Looking DEF Controlled
<1>3. ~Usable(Candidate)
  BY UsableIs DEF Absent
<1>4. QED
  BY <1>1, <1>2, <1>3, Passed DEF SourceStays

LEMMA RefusedKeeps ==
  ASSUME IInv, Searching, ~Usable(Candidate), Refused(Candidate)
  PROVE  IInv'
<1>1. IsSeq(source.traceback)
  BY Looking DEF OnDisk
<1>2. SourceStays
  BY <1>1, Unsaid DEF Refused
<1>3. /\ calls' = NextOne /\ error' = TRUE /\ running' = FALSE
      /\ UNCHANGED <<disk, mode, chosen, failed, early>>
  BY DEF Refused, history
<1>4. QED
  BY <1>2, <1>3, Passed

(* A library ends the search. *)
LEMMA LoadLibraryKeeps ==
  ASSUME IInv, LoadLibrary
  PROVE  IInv'
<1>1. /\ Searching /\ HasNext /\ Exists(Candidate) /\ files[Candidate].kind = "so"
      /\ UNCHANGED <<disk, source, mode, failed, early>>
  BY DEF LoadLibrary, HasNext
<1>2. /\ StackOf(calls) /\ Controlled /\ OnDisk /\ calls # <<>> /\ mode = "run"
      /\ Len(calls) \in Nat \ {0} /\ ~Odd(Len(calls)) /\ ~failed /\ ~early /\ running = ~error
      /\ Follows(calls, Names) /\ Len(Names) \in Nat \ {0}
      /\ running \in BOOLEAN /\ error \in BOOLEAN
  BY <1>1, Looking DEF Controlled
<1>3. CASE files[Candidate].init # "good"
  <2> DEFINE reported == files[Candidate].init = "fails" \/ Reported(Module, TopCall.next)
  <2>1. /\ calls' = NextOne /\ UNCHANGED chosen
        /\ error' = (error \/ reported) /\ running' = (running /\ ~reported)
    BY <1>3 DEF LoadLibrary
  <2>2. reported \in BOOLEAN
    BY DEF Reported
  <2> HIDE DEF reported
  <2>3. running' \in BOOLEAN /\ error' \in BOOLEAN /\ running' = ~error'
    BY <1>2, <2>1, <2>2
  <2>4. ~Usable(Candidate)
    BY <1>1, <1>3, UsableIs
  <2>5. QED
    BY <1>1, <2>1, <2>3, <2>4, Passed DEF SourceStays
<1>4. CASE files[Candidate].init = "good"
  <2>1. /\ calls' = SubSeq(calls, 1, Len(calls) - 1) /\ chosen' = chosen \cup {Choice(Candidate)}
        /\ UNCHANGED <<running, error>>
    BY <1>4 DEF LoadLibrary, Below, Front
  <2>2. Len(calls) - 1 \in 0 .. Len(calls) /\ Odd(Len(calls) - 1) /\ Len(calls) - 1 # 0
    <3> DEFINE n == Len(calls) - 1
    <3>1. n \in Nat /\ n + 1 = Len(calls)
      BY <1>2
    <3>. HIDE DEF n
    <3>2. Odd(n)
      BY <1>2, <3>1, Parity
    <3>3. n # 0
      BY <3>1, <3>2, Parity
    <3>4. QED
      BY <1>2, <3>1, <3>2, <3>3 DEF n
  <2>3. /\ StackOf(calls') /\ calls' # <<>> /\ Len(calls') = Len(calls) - 1
        /\ \A k \in 1 .. Len(calls) - 1 : calls'[k] = calls[k]
    <3> DEFINE n == Len(calls) - 1
               r == calls'
    <3>1. r = SubSeq(calls, 1, n) /\ n \in 0 .. Len(calls) /\ n # 0
      BY <2>1, <2>2
    <3> HIDE DEF n, r
    <3>2. Shortened(calls, n, r)
      BY <1>2, <3>1, Popped
    <3>3. StackOf(r) /\ r # <<>> /\ Len(r) = n /\ \A k \in 1 .. n : r[k] = calls[k]
      BY <3>1, <3>2 DEF Shortened
    <3>4. QED
      BY <3>3 DEF n, r
  <2>4. Controlled'
    BY <1>1, <1>2, <2>1, <2>3 DEF Controlled
  <2>5. OnDisk'
    BY <1>1, <1>2, UsableStays DEF SourceStays
  <2>6. SearchesFromItsFile'
    <3>1. Names' = Names /\ mode' = "run"
      BY <1>1, <1>2 DEF Names
    <3>2. Follows(calls', Names)
      <4>1. /\ Len(calls) \in Nat /\ Len(calls') \in Nat /\ ~Odd(Len(calls))
            /\ Len(calls') = Len(calls) - 1
            /\ \A j \in 1 .. Len(calls) : j \in 1 .. Len(calls') => calls'[j] = calls[j]
        BY <1>2, <2>3
      <4>2. QED
        BY <1>2, <4>1, FollowsSearch
    <3>3. QED
      BY <3>1, <3>2 DEF SearchesFromItsFile, Follows
  <2>7. Tried'
    BY <2>2, <2>3 DEF Tried
  <2>8. FirstUsable'
    <3>1. Prescribed(Choice(Candidate))
      BY <1>1, <1>4, UsableIs, ChoiceIsPrescribed
    <3>2. \A c \in chosen' : Prescribed(c)
      BY <1>2, <2>1, <3>1 DEF IInv, FirstUsable
    <3>3. QED
      BY <1>1, <3>2, UsableStays DEF FirstUsable
  <2>9. QED
    BY <2>3, <2>4, <2>5, <2>6, <2>7, <2>8 DEF IInv
<1>5. QED
  BY <1>3, <1>4

(* A file that is loaded is executed, and named as the one that is. *)
LEMMA ExecuteKeeps ==
  ASSUME IInv, HasNext, Usable(Candidate), NEW code, Execute(Candidate, code)
  PROVE  IInv'
<1> DEFINE p == Candidate
           x == Execution(p, TopLevel(code))
<1>1. Prescribed(Choice(p))
  BY ChoiceIsPrescribed
<1>2. Searching /\ p \in DOMAIN files
  BY DEF HasNext, Usable, Exists
<1>3. /\ mode' \in {"run", "broken"} /\ error' = FALSE /\ running' = TRUE
      /\ source' = SetSource(source, p)
      /\ calls' = Append(calls, x) /\ chosen' = chosen \cup {Choice(p)}
      /\ UNCHANGED <<disk, failed, early>>
  BY <1>2, Looking DEF Execute
<1>4. /\ StackOf(calls) /\ Controlled /\ OnDisk /\ mode = "run"
      /\ Len(calls) \in Nat \ {0} /\ ~Odd(Len(calls)) /\ ~failed /\ ~early
      /\ Follows(calls, Names) /\ Len(Names) \in Nat \ {0} /\ IsSeq(Names)
      /\ Grown(source.traceback, source.name, Names)
  BY <1>2, Looking, NamesOf
<1>5. Executes(x) /\ x.file = p
  BY Begins
<1> HIDE DEF p, x
<1>6. Added(calls, x, calls')
  BY <1>3, <1>4, <1>5, Pushed
<1>7. /\ StackOf(calls') /\ calls' # <<>> /\ Len(calls') = Len(calls) + 1 /\ Odd(Len(calls'))
      /\ calls'[Len(calls')] = x /\ \A j \in 1 .. Len(calls) : calls'[j] = calls[j]
  <2>1. /\ StackOf(calls') /\ calls' # <<>> /\ Len(calls') = Len(calls) + 1
        /\ calls'[Len(calls')] = x /\ \A j \in 1 .. Len(calls) : calls'[j] = calls[j]
    BY <1>6 DEF Added
  <2>2. Odd(Len(calls) + 1)
    BY <1>4, Parity
  <2>3. QED
    BY <2>1, <2>2
<1>8. Controlled'
  BY <1>3, <1>4, <1>7 DEF Controlled
<1>9. source'.name = p /\ source'.traceback = Names
  BY <1>3 DEF SetSource, Names
<1>10. OnDisk'
  <2>1. UNCHANGED <<files, given, cut>>
    BY <1>3 DEF disk
  <2>2. Range(Names) \subseteq DOMAIN files
    BY <1>4 DEF Grown, OnDisk
  <2>3. QED
    BY <1>2, <1>4, <1>9, <2>1, <2>2 DEF OnDisk, Placed
<1>11. SearchesFromItsFile'
  <2>1. Names' = Append(Names, p)
    BY <1>9 DEF Names
  <2>2. Follows(calls', Append(Names, p))
    <3>1. /\ Len(calls) \in Nat /\ Len(calls') = Len(calls) + 1
          /\ calls'[Len(calls')].file = p
      BY <1>4, <1>5, <1>7
    <3>2. QED
      BY <1>4, <1>7, <3>1, FollowsOneMore
  <2>3. QED
    BY <2>1, <2>2 DEF SearchesFromItsFile, Follows
<1>12. Tried'
  BY <1>7 DEF Tried
<1>13. FirstUsable'
  <2>1. \A c \in chosen' : Prescribed(c)
    BY <1>1, <1>3, <1>4 DEF IInv, FirstUsable
  <2>2. QED
    BY <1>3, <2>1, UsableStays DEF FirstUsable
<1>14. QED
  BY <1>7, <1>8, <1>10, <1>11, <1>12, <1>13 DEF IInv

LEMMA LoadBytecodeFileKeeps ==
  ASSUME IInv, LoadBytecodeFile
  PROVE  IInv'
<1>1. HasNext /\ Searching /\ Exists(Candidate) /\ files[Candidate].kind = "sbc"
  BY DEF LoadBytecodeFile, HasNext
<1>2. CASE IsLoadable(files[Candidate].fields)
  <2>1. Execute(Candidate, load_bytecode(files[Candidate].fields))
    BY <1>2 DEF LoadBytecodeFile
  <2>2. Usable(Candidate)
    BY <1>1, <1>2, UsableIs
  <2>3. QED
    BY <1>1, <2>1, <2>2, ExecuteKeeps
<1>3. CASE ~IsLoadable(files[Candidate].fields)
  <2>1. Refused(Candidate)
    BY <1>3 DEF LoadBytecodeFile
  <2>2. ~Usable(Candidate)
    BY <1>1, <1>3, UsableIs
  <2>3. QED
    BY <1>1, <2>1, <2>2, RefusedKeeps
<1>4. QED
  BY <1>2, <1>3

LEMMA LoadSourceFileKeeps ==
  ASSUME IInv, LoadSourceFile
  PROVE  IInv'
<1>1. HasNext /\ Searching /\ Exists(Candidate) /\ files[Candidate].kind = "sb"
  BY DEF LoadSourceFile, HasNext
<1>2. CASE files[Candidate].ok
  <2>1. Execute(Candidate, files[Candidate].code)
    BY <1>2 DEF LoadSourceFile
  <2>2. Usable(Candidate)
    BY <1>1, <1>2, UsableIs
  <2>3. QED
    BY <1>1, <2>1, <2>2, ExecuteKeeps
<1>3. CASE ~files[Candidate].ok
  <2>1. Refused(Candidate)
    BY <1>3 DEF LoadSourceFile
  <2>2. ~Usable(Candidate)
    BY <1>1, <1>3, UsableIs
  <2>3. QED
    BY <1>1, <2>1, <2>2, RefusedKeeps
<1>4. QED
  BY <1>2, <1>3

(***************************************************************************)
(* Executions: an instruction, a failure, an end.                          *)
(***************************************************************************)

LEMMA Running ==
  ASSUME IInv, Executing
  PROVE  /\ StackOf(calls) /\ Controlled /\ OnDisk /\ calls # <<>> /\ mode = "run"
         /\ Len(calls) \in Nat \ {0} /\ Odd(Len(calls)) /\ Executes(TopCall)
         /\ running = ~error /\ running \in BOOLEAN /\ error \in BOOLEAN
         /\ early \in BOOLEAN /\ failed \in BOOLEAN
         /\ failed \/ early => error
         /\ LessTwo(calls, SubSeq(calls, 1, Len(calls) - 2))
<1>1. /\ StackOf(calls) /\ Controlled /\ OnDisk /\ calls # <<>> /\ mode = "run"
      /\ TopCall.fn = "vm_execute"
  BY DEF IInv, Controlled, Executing
<1>2. Len(calls) \in Nat \ {0} /\ Len(calls) \in 1 .. Len(calls)
  BY <1>1, OfSeq DEF StackOf
<1>3. Odd(Len(calls)) /\ Executes(TopCall)
  <2>1. IF Odd(Len(calls)) THEN Executes(TopCall) ELSE Searches(TopCall)
    BY <1>1, <1>2 DEF StackOf, TopCall, Last
  <2>2. QED
    BY <1>1, <2>1 DEF Searches
<1>4. LessTwo(calls, SubSeq(calls, 1, Len(calls) - 2))
  BY <1>1, <1>3, TwoPopped
<1>5. /\ running = ~error /\ running \in BOOLEAN /\ error \in BOOLEAN
      /\ early \in BOOLEAN /\ failed \in BOOLEAN /\ (failed \/ early => error)
  BY <1>1 DEF Controlled
<1>6. QED
  BY <1>1, <1>2, <1>3, <1>4, <1>5

LEMMA StepKeeps ==
  ASSUME IInv, Step
  PROVE  IInv'
<1> DEFINE d == [TopCall EXCEPT !.pc = @ + 1]
<1>1. /\ Executing /\ calls' = Append(Below, d)
      /\ UNCHANGED <<disk, source, running, error, mode, chosen, failed, early>>
  BY DEF Step, Stepped, InLoop
<1>2. Executes(TopCall) /\ Odd(Len(calls)) /\ mode = "run"
      /\ running \in BOOLEAN /\ error \in BOOLEAN /\ running = ~error
  BY <1>1, Running
<1>3. Executes(d) /\ d.file = TopCall.file
  BY <1>2, GoesOn
<1> HIDE DEF d
<1>4. QED
  BY <1>1, <1>2, <1>3, TopMoves DEF SourceStays

(* What failed is given up, with the search that led to it. *)
LEMMA Unwinds ==
  ASSUME IInv, mode = "run", NEW q, LessTwo(q, calls'), Odd(Len(q)),
         mode' = IF calls' = <<>> THEN "idle" ELSE "run",
         error' = TRUE, running' = FALSE, failed' = TRUE,
         UNCHANGED <<disk, source, chosen, early>>
  PROVE  IInv'
<1>1. Controlled /\ OnDisk
  BY DEF IInv
<1>2. StackOf(calls') /\ (calls' = <<>> \/ Odd(Len(calls')))
  BY DEF LessTwo
<1>3. Controlled'
  BY <1>1, <1>2 DEF Controlled
<1>4. OnDisk'
  BY <1>1, UsableStays DEF SourceStays
<1>5. SearchesFromItsFile'
  BY DEF SearchesFromItsFile
<1>6. Tried'
  BY <1>2 DEF Tried
<1>7. FirstUsable'
  BY UsableStays DEF IInv, FirstUsable
<1>8. QED
  BY <1>2, <1>3, <1>4, <1>5, <1>6, <1>7 DEF IInv

LEMMA FailKeeps ==
  ASSUME IInv, Fail
  PROVE  IInv'
<1>1. /\ Executing /\ calls' = SubSeq(calls, 1, Len(calls) - 2)
      /\ mode' = IF calls' = <<>> THEN "idle" ELSE "run"
      /\ error' = TRUE /\ running' = FALSE /\ failed' = TRUE
      /\ UNCHANGED <<disk, source, chosen, early>>
  BY DEF Fail, AfterFailure, InLoop
<1>2. LessTwo(calls, calls') /\ Odd(Len(calls)) /\ mode = "run"
  BY <1>1, Running
<1>3. QED
  BY <1>1, <1>2, Unwinds

LEMMA GiveUpKeeps ==
  ASSUME IInv, GiveUp
  PROVE  IInv'
<1> DEFINE b == Below
<1>1. /\ Searching /\ calls' = SubSeq(b, 1, Len(b) - 2)
      /\ mode' = IF calls' = <<>> THEN "idle" ELSE "run"
      /\ error' = TRUE /\ running' = FALSE /\ failed' = TRUE
      /\ UNCHANGED <<disk, source, chosen, early>>
  BY DEF GiveUp, AfterFailure
<1>2. StackOf(b) /\ Odd(Len(b)) /\ mode = "run"
  <2> DEFINE n == Len(calls) - 1
  <2>1. /\ StackOf(calls) /\ mode = "run" /\ n \in Nat /\ ~Odd(n + 1)
        /\ n \in 0 .. Len(calls) /\ b = SubSeq(calls, 1, n)
    BY <1>1, Looking DEF Below, Front
  <2> HIDE DEF n
  <2>2. Shortened(calls, n, SubSeq(calls, 1, n))
    BY <2>1, Popped
  <2>3. StackOf(b) /\ Len(b) = n
    BY <2>1, <2>2 DEF Shortened
  <2>4. Odd(n)
    BY <2>1, Parity
  <2>5. QED
    BY <2>1, <2>3, <2>4
<1> HIDE DEF b
<1>3. LessTwo(b, calls')
  BY <1>1, <1>2, TwoPopped
<1>4. QED
  BY <1>1, <1>2, <1>3, Unwinds

LEMMA LastAmong ==
  ASSUME NEW q, IsSeq(q), q # <<>>
  PROVE  /\ Last(q) \in Range(q) /\ Append(Front(q), Last(q)) = q
         /\ Begun(q, Len(q) - 1, Front(q))
<1> DEFINE S == Range(q)
<1>1. q \in Seq(S) /\ Len(q) \in Nat \ {0} /\ Len(q) - 1 \in 0 .. Len(q)
  BY OfSeq DEF IsSeq
<1>2. Last(q) \in S
  BY <1>1, OfSeq DEF Last
<1>3. Begun(q, Len(q) - 1, Front(q))
  BY <1>1, Fewer DEF Front
<1> HIDE DEF S
<1>4. Append(Front(q), Last(q)) = q
  BY <1>1 DEF Last, Front
<1>5. QED
  BY <1>2, <1>3, <1>4 DEF S

(* At the end of a file the one that loads it is named again. *)
LEMMA EndLoopKeeps ==
  ASSUME IInv, EndLoop
  PROVE  IInv'
<1>1. /\ Executing /\ calls' = SubSeq(calls, 1, Len(calls) - 2)
      /\ mode' = IF calls' = <<>> THEN "idle" ELSE "run"
      /\ source' = IF calls' = <<>> THEN source ELSE BackSource(source)
      /\ early' = (early \/ ~AtEnd)
      /\ ~running \/ AtEnd
      /\ UNCHANGED <<disk, running, error, chosen, failed>>
  BY DEF EndLoop
<1>2. /\ StackOf(calls) /\ Controlled /\ OnDisk /\ mode = "run" /\ Odd(Len(calls))
      /\ running = ~error /\ running \in BOOLEAN /\ error \in BOOLEAN
      /\ early \in BOOLEAN /\ failed \in BOOLEAN
      /\ failed \/ early => error
      /\ LessTwo(calls, calls')
  BY <1>1, Running
<1>3. StackOf(calls') /\ (calls' = <<>> \/ Odd(Len(calls')))
  BY <1>2 DEF LessTwo
<1>4. Controlled'
  <2>1. mode' \in {"idle", "run", "broken"} /\ (mode' = "idle" => calls' = <<>>)
        /\ (mode' = "run" => calls' # <<>> /\ running' = ~error')
    BY <1>1, <1>2
  <2>2. early' \in BOOLEAN /\ (failed' \/ early' => error' /\ ~running')
    BY <1>1, <1>2
  <2>3. QED
    BY <1>1, <1>2, <1>3, <2>1, <2>2 DEF Controlled
<1>5. CASE calls' = <<>>
  <2>1. mode' = "idle" /\ source' = source
    BY <1>1, <1>5
  <2>2. OnDisk'
    BY <1>1, <1>2, <2>1, UsableStays DEF SourceStays
  <2>3. SearchesFromItsFile' /\ Tried' /\ FirstUsable'
    BY <2>1 DEF SearchesFromItsFile, Tried, FirstUsable
  <2>4. QED
    BY <1>3, <1>4, <2>2, <2>3 DEF IInv
<1>6. CASE calls' # <<>>
  <2>1. mode' = "run" /\ source' = BackSource(source) /\ Odd(Len(calls'))
    BY <1>1, <1>3, <1>6
  <2>2. OnDisk'
    <3>1. CASE source.traceback = <<>>
      BY <1>1, <1>2, <2>1, <3>1, UsableStays DEF BackSource, SourceStays
    <3>2. CASE source.traceback # <<>>
      <4>1. UNCHANGED <<files, given, cut>>
        BY <1>1 DEF disk
      <4>2. source'.name = Last(source.traceback) /\ source'.traceback = Front(source.traceback)
        BY <2>1, <3>2 DEF BackSource
      <4>3. Last(source.traceback) \in Range(source.traceback)
        BY <1>2, <3>2, LastAmong DEF OnDisk
      <4>4. Begun(source.traceback, Len(source.traceback) - 1, Front(source.traceback))
        BY <1>2, <3>2, LastAmong DEF OnDisk
      <4> DEFINE t == Front(source.traceback)
      <4> HIDE DEF t
      <4>5. IsSeq(t) /\ Range(t) \subseteq Range(source.traceback)
        BY <4>4 DEF Begun, t
      <4>6. /\ source'.name \in DOMAIN files /\ IsSeq(source'.traceback)
            /\ Range(source'.traceback) \subseteq DOMAIN files
        BY <1>2, <4>2, <4>3, <4>5 DEF OnDisk, t
      <4>7. QED
        BY <1>2, <4>1, <4>6 DEF OnDisk, Placed
    <3>3. QED
      BY <3>1, <3>2
  <2>3. SearchesFromItsFile'
    <3>1. SUFFICES ASSUME ~failed PROVE Follows(calls', Names')
      BY <1>1 DEF SearchesFromItsFile, Follows
    <3>2. Follows(calls, Names)
      BY <1>2, <3>1, Sourced DEF IInv
    <3>3. /\ IsSeq(Names) /\ Len(Names) \in Nat \ {0}
          /\ Begun(Names, Len(Names) - 1, source.traceback)
      BY <1>2, NamesOf
    <3>4. Len(Names) >= 2 /\ Follows(calls', source.traceback)
      BY <1>2, <1>6, <3>2, <3>3, FollowsTwoLess
    <3>5. IsSeq(source.traceback) /\ Len(source.traceback) = Len(Names) - 1
      BY <3>3 DEF Begun
    <3>6. source.traceback # <<>>
      BY <3>4, <3>5
    <3>7. Names' = Append(Front(source.traceback), Last(source.traceback))
      BY <2>1, <3>6 DEF Names, BackSource
    <3>8. Names' = source.traceback
      BY <3>5, <3>6, <3>7, LastAmong
    <3>9. QED
      BY <3>4, <3>8
  <2>4. Tried'
    BY <2>1 DEF Tried
  <2>5. FirstUsable'
    BY <1>1, <1>2, UsableStays DEF IInv, FirstUsable
  <2>6. QED
    BY <1>3, <1>4, <2>2, <2>3, <2>4, <2>5 DEF IInv
<1>7. QED
  BY <1>5, <1>6

(***************************************************************************)
(* Between runs.                                                           *)
(***************************************************************************)

(* One file is written, or written over. *)
LEMMA PlacedStill ==
  ASSUME NEW f, Placed(f), NEW p, p = Path(p[1], p[2], p[3]), p[3] \in Kinds,
         NEW t, t.kind = p[3]
  PROVE  Placed(Written(f, p, t))
<1> DEFINE g == Written(f, p, t)
<1>1. /\ DOMAIN g = DOMAIN f \cup {p} /\ g[p] = t
      /\ \A q \in DOMAIN f : q # p => g[q] = f[q]
  BY DEF Written
<1> HIDE DEF g
<1>2. Placed(g)
  BY <1>1 DEF Placed
<1>3. QED
  BY <1>2 DEF g

(* No run, no stack: only the disk matters. *)
LEMMA BetweenRuns ==
  ASSUME IInv, mode = "idle", OnDisk',
         UNCHANGED <<calls, source, running, error, mode, chosen, failed, early>>
  PROVE  IInv'
<1>1. StackOf(calls) /\ Controlled
  BY DEF IInv
<1>2. StackOf(calls') /\ Controlled'
  BY <1>1 DEF Controlled
<1>3. SearchesFromItsFile' /\ Tried' /\ FirstUsable'
  BY DEF SearchesFromItsFile, Tried, FirstUsable
<1>4. QED
  BY <1>2, <1>3 DEF IInv

LEMMA EditKeeps ==
  ASSUME IInv, Edit
  PROVE  IInv'
<1>1. /\ mode = "idle"
      /\ UNCHANGED <<dirs, given, cut, calls, source, running, error, mode, chosen, failed, early>>
  BY DEF Edit, Idle, history
<1>2. PICK p \in Edited, t \in Sources : files' = Written(files, p, t)
  BY DEF Edit
<1>3. OnDisk
  BY DEF IInv
<1>4. p = Path(p[1], p[2], "sb") /\ t.kind = "sb"
  BY DiskAssumption
<1>5. p[3] = "sb" /\ p = Path(p[1], p[2], p[3]) /\ p[3] \in Kinds
  BY <1>4, PathParts DEF Kinds
<1>6. Placed(files')
  BY <1>2, <1>3, <1>4, <1>5, PlacedStill DEF OnDisk
<1>7. DOMAIN files \subseteq DOMAIN files'
  BY <1>2 DEF Written
<1>8. OnDisk'
  BY <1>1, <1>3, <1>6, <1>7 DEF OnDisk
<1>9. QED
  BY <1>1, <1>8, BetweenRuns

LEMMA CompileKeeps ==
  ASSUME IInv, Compile
  PROVE  IInv'
<1>1. /\ mode = "idle"
      /\ UNCHANGED <<dirs, calls, source, running, error, mode, chosen, failed, early>>
  BY DEF Compile, Idle, history
<1>2. PICK p \in Edited :
        LET whole == save_bytecode(files[p].code)
        IN  /\ \E n \in 0 .. Len(whole) :
                 /\ files' = Written(files, Compiled(p), Bytecode(SubSeq(whole, 1, n)))
                 /\ cut' = IF n < Len(whole) THEN cut \cup {Compiled(p)} ELSE cut \ {Compiled(p)}
            /\ given' = Written(given, Compiled(p), files[p].code)
  BY DEF Compile
<1> DEFINE whole == save_bytecode(files[p].code)
           c == Compiled(p)
<1>3. PICK n \in 0 .. Len(whole) :
        /\ files' = Written(files, c, Bytecode(SubSeq(whole, 1, n)))
        /\ cut' = IF n < Len(whole) THEN cut \cup {c} ELSE cut \ {c}
  BY <1>2
<1> DEFINE t == Bytecode(SubSeq(whole, 1, n))
           x == files[p].code
<1>4. OnDisk
  BY DEF IInv
<1>5. c = Path(c[1], c[2], c[3]) /\ c[3] \in Kinds /\ t.kind = c[3]
  BY PathParts DEF Compiled, Kinds, Bytecode, Path
<1>6. files' = Written(files, c, t) /\ given' = Written(given, c, x) /\ cut' \subseteq cut \cup {c}
  BY <1>2, <1>3
<1> HIDE DEF c, t, x, whole
<1>7. Placed(files')
  BY <1>4, <1>5, <1>6, PlacedStill DEF OnDisk
<1>8. DOMAIN files' = DOMAIN files \cup {c} /\ DOMAIN given' = DOMAIN given \cup {c}
  BY <1>6 DEF Written
<1>9. OnDisk'
  BY <1>1, <1>4, <1>6, <1>7, <1>8 DEF OnDisk
<1>10. QED
  BY <1>1, <1>9, BetweenRuns

LEMMA StartKeeps ==
  ASSUME IInv, Start
  PROVE  IInv'
<1> DEFINE x == Execution(Main, files[Main].code)
<1>1. /\ calls' = <<x>> /\ source' = [name |-> Main, traceback |-> <<>>]
      /\ running' = TRUE /\ error' = FALSE /\ mode' = "run"
      /\ chosen' = {} /\ failed' = FALSE /\ early' = FALSE
      /\ UNCHANGED disk
  BY DEF Start
<1>2. Executes(x) /\ x.file = Main
  BY Begins
<1> HIDE DEF x
<1>3. StackOf(<<>>) /\ IsSeq(<<>>) /\ Range(<<>>) = {} /\ Len(<<>>) = 0 /\ ~Odd(0)
  <2>1. StackOf(<<>>) /\ Len(<<>>) = 0
    BY NoSeq DEF StackOf
  <2>2. ~Odd(0)
    BY DEF Odd
  <2>3. QED
    BY <2>1, <2>2, NoSeq
<1>4. StackOf(calls') /\ calls' # <<>> /\ Len(calls') = 1 /\ calls'[1] = x /\ Odd(Len(calls'))
  <2>1. Added(<<>>, x, Append(<<>>, x))
    BY <1>2, <1>3, Pushed
  <2>2. calls' = Append(<<>>, x)
    BY <1>1
  <2>3. StackOf(calls') /\ calls' # <<>> /\ Len(calls') = Len(<<>>) + 1 /\ calls'[Len(calls')] = x
    BY <2>1, <2>2 DEF Added
  <2>4. Odd(1)
    BY Parity
  <2>5. QED
    BY <1>3, <2>3, <2>4
<1>5. Controlled'
  BY <1>1, <1>4 DEF Controlled
<1>6. OnDisk'
  BY <1>1, <1>3 DEF IInv, OnDisk, Placed, disk
<1>7. SearchesFromItsFile'
  <2>1. source'.name = Main /\ source'.traceback = <<>>
    BY <1>1
  <2>2. Grown(<<>>, Main, Append(<<>>, Main))
    BY <1>3, OneMore
  <2>3. Grown(<<>>, Main, Names')
    BY <2>1, <2>2 DEF Names
  <2>4. Len(Names') = 1 /\ Names'[1] = Main
    BY <1>3, <2>3 DEF Grown
  <2>5. QED
    BY <1>2, <1>4, <2>4 DEF SearchesFromItsFile
<1>8. Tried' /\ FirstUsable'
  BY <1>1, <1>4 DEF Tried, FirstUsable
<1>9. QED
  BY <1>4, <1>5, <1>6, <1>7, <1>8 DEF IInv

(***************************************************************************)
(* The invariant.                                                          *)
(***************************************************************************)

LEMMA Initially ==
  Init => IInv
<1> SUFFICES ASSUME Init PROVE IInv
  OBVIOUS
<1>1. /\ calls = <<>> /\ source = [name |-> Main, traceback |-> <<>>]
      /\ running = FALSE /\ error = FALSE /\ mode = "idle"
      /\ given = <<>> /\ cut = {} /\ chosen = {} /\ failed = FALSE /\ early = FALSE
  BY DEF Init
<1>2. Main \in DOMAIN files /\ Placed(files)
  BY DiskAssumption DEF Init
<1>3. IsSeq(<<>>) /\ Range(<<>>) = {} /\ Len(<<>>) = 0
  BY NoSeq
<1>4. StackOf(calls)
  BY <1>1, <1>3 DEF StackOf
<1>5. Controlled
  BY <1>1 DEF Controlled
<1>6. DOMAIN given = {}
  BY <1>1, <1>3, OfSeq
<1>7. OnDisk
  BY <1>1, <1>2, <1>3, <1>6 DEF OnDisk
<1>8. SearchesFromItsFile /\ Tried /\ FirstUsable
  BY <1>1 DEF SearchesFromItsFile, Tried, FirstUsable
<1>9. QED
  BY <1>4, <1>5, <1>7, <1>8 DEF IInv

LEMMA StutterKeeps ==
  ASSUME IInv, UNCHANGED vars
  PROVE  IInv'
<1>1. UNCHANGED <<disk, calls, source, running, error, mode, chosen, failed, early>>
  BY DEF vars, history
<1>2. StackOf(calls') /\ Controlled'
  BY <1>1 DEF IInv, Controlled
<1>3. OnDisk'
  BY <1>1, UsableStays DEF IInv, SourceStays
<1>4. SearchesFromItsFile'
  BY <1>1 DEF IInv, SearchesFromItsFile, Names
<1>5. Tried'
  <2>1. \A m : Candidates(m)' = Candidates(m)
    BY <1>1 DEF Candidates, InDirectory, InLibrary, InScript, disk
  <2>2. TopCall' = TopCall
    BY <1>1 DEF TopCall
  <2>3. QED
    BY <1>1, <2>1, <2>2, UsableStays DEF IInv, Tried
<1>6. FirstUsable'
  BY <1>1, UsableStays DEF IInv, FirstUsable
<1>7. QED
  BY <1>2, <1>3, <1>4, <1>5, <1>6 DEF IInv

LEMMA Inductive ==
  IInv /\ [Next]_vars => IInv'
<1> SUFFICES ASSUME IInv, [Next]_vars PROVE IInv'
  OBVIOUS
<1>1. CASE Edit
  BY <1>1, EditKeeps
<1>2. CASE Compile
  BY <1>2, CompileKeeps
<1>3. CASE Start
  BY <1>3, StartKeeps
<1>4. CASE Step
  BY <1>4, StepKeeps
<1>5. CASE Fail
  BY <1>5, FailKeeps
<1>6. CASE EndLoop
  BY <1>6, EndLoopKeeps
<1>7. CASE LoadModule
  BY <1>7, SearchBegins
<1>8. CASE Absent
  BY <1>8, AbsentKeeps
<1>9. CASE LoadLibrary
  BY <1>9, LoadLibraryKeeps
<1>10. CASE LoadBytecodeFile
  BY <1>10, LoadBytecodeFileKeeps
<1>11. CASE LoadSourceFile
  BY <1>11, LoadSourceFileKeeps
<1>12. CASE GiveUp
  BY <1>12, GiveUpKeeps
<1>13. CASE UNCHANGED vars
  BY <1>13, StutterKeeps
<1>14. QED
  BY <1>1, <1>2, <1>3, <1>4, <1>5, <1>6, <1>7, <1>8, <1>9, <1>10, <1>11, <1>12, <1>13 DEF Next, Run

LEMMA Invariant ==
  Spec => []IInv
<1>1. QED
  BY Initially, Inductive, PTL DEF Spec

(* The C stack alternates between vm_execute and load_module, at whatever  *)
(* depth, source_filename and its traceback name files there are, and only *)
(* what was compiled can be cut short.                                     *)
THEOREM TypesAreRight ==
  Spec => []TypeOK
<1>1. IInv => TypeOK
  <2> SUFFICES ASSUME IInv PROVE TypeOK
    OBVIOUS
  <2>1. StackOf(calls) /\ Controlled /\ OnDisk
    BY DEF IInv
  <2>2. ASSUME NEW k \in DOMAIN calls
        PROVE  calls[k].fn = IF k % 2 = 1 THEN "vm_execute" ELSE "load_module"
    <3>1. k \in 1 .. Len(calls)
      BY <2>1, OfSeq DEF StackOf
    <3>2. CASE Odd(k)
      BY <2>1, <3>1, <3>2 DEF StackOf, Executes, Odd
    <3>3. CASE ~Odd(k)
      BY <2>1, <3>1, <3>3 DEF StackOf, Searches, Odd
    <3>4. QED
      BY <3>2, <3>3
  <2>3. mode \in {"idle", "run", "broken"} /\ (mode = "run" => calls # <<>>)
        /\ {running, error, failed, early} \subseteq BOOLEAN
    BY <2>1 DEF Controlled
  <2>4. QED
    BY <2>1, <2>2, <2>3 DEF TypeOK, OnDisk
<1>2. QED
  BY <1>1, Invariant, PTL

(* Whatever files are missing, refused or fail on the way, load_module     *)
(* looks beside the file that is being executed.                           *)
THEOREM SearchesFromTheFile ==
  Spec => []SearchesFromItsFile
<1>1. IInv => SearchesFromItsFile
  BY DEF IInv
<1>2. QED
  BY <1>1, Invariant, PTL

(* The file a load ends with is the one the order above load_module        *)
(* prescribes, on every disk.                                              *)
THEOREM ChoosesTheFirst ==
  Spec => []FirstUsable
<1>1. IInv => FirstUsable
  BY DEF IInv
<1>2. QED
  BY <1>1, Invariant, PTL

(* Of a run that ends without error nothing failed and no file was left    *)
(* before its end, although vm_execute clears error for each.              *)
THEOREM QuietIsComplete ==
  Spec => []QuietMeansComplete
<1>1. IInv => QuietMeansComplete
  BY DEF IInv, Controlled, QuietMeansComplete
<1>2. QED
  BY <1>1, Invariant, PTL

(* After a failure no instruction is executed any more, at any depth.      *)
THEOREM FailureIsFinal ==
  Spec => NothingAfterFailure
<1>1. IInv /\ [Next]_vars => [failed /\ failed' => executed' = executed]_vars
  <2> SUFFICES ASSUME IInv, Next, failed, failed'
               PROVE  executed' = executed
    OBVIOUS
  <2>1. mode = "run" => ~running /\ Odd(Len(calls))
    BY DEF IInv, Controlled
  <2>2. ~InLoop
    BY <2>1 DEF InLoop, Executing
  <2>3. ~Searching
    BY Looking
  <2>4. CASE Edit \/ Compile
    BY <2>4 DEF Edit, Compile, history
  <2>5. CASE Start
    BY <2>5 DEF Start
  <2>6. CASE EndLoop
    BY <2>6 DEF EndLoop
  <2>7. QED
    BY <2>2, <2>3, <2>4, <2>5, <2>6
    DEF Next, Run, Step, Fail, LoadModule, Absent, LoadLibrary, LoadBytecodeFile,
        LoadSourceFile, GiveUp, HasNext
<1>2. QED
  BY <1>1, Invariant, PTL DEF Spec, NothingAfterFailure

(***************************************************************************)
(* Bytecode files: how one is laid out, and what is read back from it.     *)
(***************************************************************************)

Operands == NumOps \cup IntOps \cup LoadedAsString

LEMMA OperandKinds ==
  ASSUME NEW op
  PROVE  /\ op \in NumOps \cup IntOps => OperandFields(op) = 1
         /\ op \in LoadedAsString => OperandFields(op) = 2
         /\ op \notin Operands => OperandFields(op) = 0
<1>1. op \in LoadedAsString => op \notin NumOps \cup IntOps
  BY DEF LoadedAsString, StringOps, NumOps, IntOps
<1> HIDE DEF NumOps, IntOps, LoadedAsString
<1>2. QED
  BY <1>1, Zenon DEF OperandFields, Operands

(* What is written of one instruction that is read back as it was. *)
FieldSet(i) == {Field(f, v) : f \in {"op", "num", "len", "chars", "int"}, v \in {"", i.op, i.arg}}

FieldsOf(i, fs) ==
  /\ fs \in Seq(FieldSet(i)) /\ Len(fs) = 1 + OperandFields(i.op)
  /\ fs[1] = Field("op", i.op)
  /\ OperandFields(i.op) # 0 => fs[1 + OperandFields(i.op)].v = i.arg
  /\ OperandFields(i.op) \in {0, 1, 2}

LEMMA FieldsCases ==
  ASSUME NEW i
  PROVE  LET a == Field("op", i.op) IN
         /\ i.op \in NumOps => Fields(i) = <<a>> \o <<Field("num", i.arg)>>
         /\ i.op \in IntOps => Fields(i) = <<a>> \o <<Field("int", i.arg)>>
         /\ i.op \in SavedAsString => Fields(i) = <<a>> \o <<Field("len", ""), Field("chars", i.arg)>>
         /\ i.op \notin NumOps \cup IntOps \cup SavedAsString => Fields(i) = <<a>> \o <<>>
<1>1. i.op \in IntOps => i.op \notin NumOps \cup SavedAsString
  BY DEF IntOps, NumOps, SavedAsString, StringOps
<1>2. i.op \in NumOps => i.op \notin SavedAsString
  BY DEF IntOps, NumOps, SavedAsString, StringOps
<1> HIDE DEF NumOps, IntOps, SavedAsString
<1>3. QED
  BY <1>1, <1>2, Zenon DEF Fields

LEMMA OneThen ==
  ASSUME NEW S, NEW a \in S, NEW t \in Seq(S)
  PROVE  /\ <<a>> \o t \in Seq(S) /\ Len(<<a>> \o t) = 1 + Len(t) /\ (<<a>> \o t)[1] = a
         /\ \A i \in 1 .. Len(t) : (<<a>> \o t)[1 + i] = t[i]
OBVIOUS

LEMMA FieldsAre ==
  ASSUME NEW i, Restorable(i)
  PROVE  FieldsOf(i, Fields(i))
<1> DEFINE a == Field("op", i.op)
           S == FieldSet(i)
           m == OperandFields(i.op)
<1>1. PICK t : Fields(i) = <<a>> \o t /\ t \in Seq(S) /\ Len(t) = m /\ (m # 0 => t[m].v = i.arg) /\ m \in {0, 1, 2}
  <2> DEFINE n == Field("num", i.arg)
             k == Field("int", i.arg)
             l == Field("len", "")
             c == Field("chars", i.arg)
  <2>1. n \in S /\ k \in S /\ l \in S /\ c \in S
    BY DEF FieldSet
  <2>2. n.v = i.arg /\ k.v = i.arg /\ c.v = i.arg
    BY DEF Field
  <2>3. /\ i.op \in NumOps => Fields(i) = <<a>> \o <<n>> /\ m = 1
        /\ i.op \in IntOps => Fields(i) = <<a>> \o <<k>> /\ m = 1
        /\ i.op \in LoadedAsString => Fields(i) = <<a>> \o <<l, c>> /\ m = 2
        /\ i.op \notin Operands => Fields(i) = <<a>> \o <<>> /\ m = 0
    <3>1. i.op \notin {"GOTO_DEF", "GOTO_BLOCK"}
      BY DEF Restorable
    <3>2. i.op \in SavedAsString <=> i.op \in LoadedAsString
      BY <3>1 DEF SavedAsString, LoadedAsString
    <3> HIDE DEF m
    <3>3. QED
      BY <3>2, FieldsCases, OperandKinds DEF Operands, m
  <2> HIDE DEF a, S, m, n, k, l, c
  <2>4. <<n>> \in Seq(S) /\ <<k>> \in Seq(S) /\ <<l, c>> \in Seq(S) /\ <<>> \in Seq(S)
    BY <2>1
  <2>5. CASE i.op \in NumOps
    <3>1. Fields(i) = <<a>> \o <<n>> /\ m = 1
      BY <2>3, <2>5, Zenon
    <3> WITNESS <<n>>
    <3>2. QED
      BY <2>2, <2>4, <3>1
  <2>6. CASE i.op \in IntOps
    <3>1. Fields(i) = <<a>> \o <<k>> /\ m = 1
      BY <2>3, <2>6, Zenon
    <3> WITNESS <<k>>
    <3>2. QED
      BY <2>2, <2>4, <3>1
  <2>7. CASE i.op \in LoadedAsString
    <3>1. Fields(i) = <<a>> \o <<l, c>> /\ m = 2
      BY <2>3, <2>7, Zenon
    <3> WITNESS <<l, c>>
    <3>2. QED
      BY <2>2, <2>4, <3>1
  <2>8. CASE i.op \notin Operands
    <3> WITNESS <<>>
    <3>1. QED
      BY <2>3, <2>4, <2>8
  <2>9. QED
    BY <2>5, <2>6, <2>7, <2>8 DEF Operands
<1>2. a \in S
  BY DEF FieldSet
<1> HIDE DEF a, S, m
<1>3. /\ Fields(i) \in Seq(S) /\ Len(Fields(i)) = 1 + m /\ Fields(i)[1] = a
      /\ m # 0 => Fields(i)[1 + m] = t[m]
  BY <1>1, <1>2, OneThen
<1>4. QED
  BY <1>1, <1>3 DEF FieldsOf, a, S, m

(* The beginnings of a file that end with a whole instruction. *)
Layout(code, l, S) ==
  LET n == Len(code) IN
  /\ l \in [0 .. n -> Seq(S)]
  /\ l[0] = <<Magic, Count(n)>> /\ l[n] = save_bytecode(code)
  /\ \A k \in 0 .. n - 1 : l[k + 1] = l[k] \o Fields(code[k + 1]) /\ FieldsOf(code[k + 1], Fields(code[k + 1]))
                           /\ Fields(code[k + 1]) \in Seq(S)

Restored(code) ==
  Len(code) \in Nat /\ DOMAIN code = 1 .. Len(code) /\ \A k \in 1 .. Len(code) : Restorable(code[k])

LEMMA AllWritten ==
  ASSUME NEW code, Restored(code)
  PROVE  Writable(code) = code
<1>1. {i \in 1 .. Len(code) : code[i].op = "GOTO_BLOCK"} = {}
  BY DEF Restored, Restorable
<1>2. QED
  BY <1>1 DEF Writable, SelectInSeq

LEMMA LaidOut ==
  ASSUME NEW code, Restored(code)
  PROVE  \E l, S : Layout(code, l, S)
<1> DEFINE n    == Len(code)
           S    == {Magic, Count(n)} \cup UNION {FieldSet(code[k]) : k \in 1 .. n}
           head == <<Magic, Count(n)>>
           F(k) == Fields(code[k])
           s(k) == [i \in 1 .. k |-> F(i)]
           l    == [k \in 0 .. n |-> head \o FlattenSeq(s(k))]
<1>1. n \in Nat /\ \A k \in 1 .. n : FieldsOf(code[k], F(k)) /\ F(k) \in Seq(S)
  <2>1. ASSUME NEW k \in 1 .. n PROVE FieldsOf(code[k], F(k)) /\ F(k) \in Seq(S)
    <3>1. FieldsOf(code[k], F(k))
      BY FieldsAre DEF Restored
    <3>2. F(k) \in Seq(FieldSet(code[k]))
      BY <3>1 DEF FieldsOf
    <3>3. FieldSet(code[k]) \subseteq S
      OBVIOUS
    <3> HIDE DEF S, F
    <3>4. QED
      BY <3>1, <3>2, <3>3
  <2>2. QED
    BY <2>1 DEF Restored
<1>2. head \in Seq(S)
  OBVIOUS
<1>3. l[n] = save_bytecode(code)
  <2>1. save_bytecode(code) = head \o FlattenSeq(s(n))
    BY AllWritten DEF save_bytecode, Restored
  <2>2. QED
    BY <1>1, <2>1
<1> HIDE DEF S, F, head
<1>4. \A k \in 0 .. n : s(k) \in Seq(Seq(S))
  <2> DEFINE W == Seq(S)
  <2>1. \A k \in 1 .. n : F(k) \in W
    BY <1>1
  <2> HIDE DEF W
  <2>2. ASSUME NEW k \in 0 .. n PROVE s(k) \in Seq(W)
    <3>1. k \in Nat /\ s(k) \in [1 .. k -> W]
      BY <1>1, <2>1
    <3>2. QED
      BY <3>1
  <2>3. QED
    BY <2>2 DEF W
<1>5. l \in [0 .. n -> Seq(S)]
  <2>1. ASSUME NEW k \in 0 .. n PROVE head \o FlattenSeq(s(k)) \in Seq(S)
    <3>1. FlattenSeq(s(k)) \in Seq(S)
      BY <1>4, FlattenType
    <3>2. QED
      BY <1>2, <3>1, ConcatProperties
  <2>2. QED
    BY <2>1
<1>6. l[0] = head
  <2>1. s(0) = <<>>
    OBVIOUS
  <2>2. head \o <<>> = head
    BY <1>2, ConcatEmptySeq
  <2>3. l[0] = head \o FlattenSeq(s(0))
    BY <1>1
  <2> HIDE DEF s, l
  <2>4. QED
    BY <2>1, <2>2, <2>3, FlattenEmpty
<1>7. ASSUME NEW k \in 0 .. n - 1 PROVE l[k + 1] = l[k] \o F(k + 1)
  <2>1. k \in 0 .. n /\ k + 1 \in 1 .. n /\ k + 1 \in 0 .. n /\ k \in Nat
    BY <1>1
  <2>2. s(k) \in Seq(Seq(S)) /\ F(k + 1) \in Seq(S)
    BY <1>1, <1>4, <2>1
  <2>3. s(k + 1) = Append(s(k), F(k + 1))
    <3>1. Len(s(k)) = k
      BY <2>1
    <3>2. s(k + 1) = [i \in 1 .. k + 1 |-> IF i = k + 1 THEN F(k + 1) ELSE s(k)[i]]
      BY <2>1
    <3>3. QED
      BY <2>1, <3>1, <3>2
  <2>4. FlattenSeq(s(k + 1)) = FlattenSeq(s(k)) \o F(k + 1)
    <3> HIDE DEF s
    <3>1. QED
      BY <2>2, <2>3, FlattenAppend
  <2>5. FlattenSeq(s(k)) \in Seq(S)
    BY <2>2, FlattenType
  <2>6. head \o (FlattenSeq(s(k)) \o F(k + 1)) = (head \o FlattenSeq(s(k))) \o F(k + 1)
    <3>1. Associates(head, FlattenSeq(s(k)), F(k + 1))
      BY <1>2, <2>2, <2>5, Associate
    <3>2. QED
      BY <3>1, Zenon DEF Associates
  <2>7. l[k] = head \o FlattenSeq(s(k)) /\ l[k + 1] = head \o FlattenSeq(s(k + 1))
    BY <2>1
  <2>8. QED
    BY <2>4, <2>6, <2>7, Zenon
<1> HIDE DEF l
<1>8. \A k \in 0 .. n - 1 : k + 1 \in 1 .. n
  BY <1>1
<1>9. Layout(code, l, S)
  BY <1>1, <1>3, <1>5, <1>6, <1>7, <1>8 DEF Layout, F, head
<1>10. QED
  BY <1>9, Zenon

(* The whole file goes on from each of these beginnings. *)
LEMMA LaidAgree ==
  ASSUME NEW code, NEW l, NEW S, Layout(code, l, S), Len(code) \in Nat
  PROVE  \A k \in 0 .. Len(code) :
           /\ l[k] \in Seq(S) /\ Len(l[k]) <= Len(l[Len(code)])
           /\ \A i \in 1 .. Len(l[k]) : l[Len(code)][i] = l[k][i]
<1> DEFINE n == Len(code)
           w == l[n]
           Goes(k) == /\ l[k] \in Seq(S) /\ Len(l[k]) <= Len(w)
                      /\ \A i \in 1 .. Len(l[k]) : w[i] = l[k][i]
           T == {j \in Nat : j <= n => Goes(n - j)}
<1>1. n \in Nat /\ l \in [0 .. n -> Seq(S)]
      /\ \A k \in 0 .. n - 1 : l[k + 1] = l[k] \o Fields(code[k + 1]) /\ Fields(code[k + 1]) \in Seq(S)
  BY DEF Layout
<1>2. Goes(n)
  <2>1. w \in Seq(S)
    BY <1>1
  <2>2. QED
    BY <2>1
<1> HIDE DEF w
<1>3. 0 \in T
  BY <1>1, <1>2
<1>4. ASSUME NEW j \in Nat, j \in T PROVE j + 1 \in T
  <2> SUFFICES ASSUME j + 1 <= n PROVE Goes(n - (j + 1))
    OBVIOUS
  <2> DEFINE k == n - (j + 1)
  <2>1. k \in 0 .. n - 1 /\ k \in 0 .. n /\ k + 1 = n - j
    BY <1>1
  <2>2. Goes(k + 1)
    BY <1>1, <1>4, <2>1
  <2> HIDE DEF k
  <2> DEFINE a == l[k]
             b == Fields(code[k + 1])
  <2>3. a \in Seq(S) /\ b \in Seq(S) /\ l[k + 1] = a \o b
    BY <1>1, <2>1
  <2> HIDE DEF a, b
  <2>4. /\ Len(a \o b) = Len(a) + Len(b) /\ Len(a) \in Nat /\ Len(b) \in Nat
        /\ \A i \in 1 .. Len(a) : (a \o b)[i] = a[i]
    BY <2>3
  <2>5. Len(a \o b) <= Len(w) /\ \A i \in 1 .. Len(a \o b) : w[i] = (a \o b)[i]
    BY <2>2, <2>3
  <2>6. Len(w) \in Nat
    BY <1>2
  <2>7. Len(a) <= Len(w) /\ \A i \in 1 .. Len(a) : w[i] = a[i]
    BY <2>4, <2>5, <2>6
  <2>8. QED
    BY <2>3, <2>7 DEF a, k
<1> HIDE DEF Goes
<1>5. Nat \subseteq T
  <2> HIDE DEF T
  <2>1. QED
    BY <1>3, <1>4, Counting
<1>6. ASSUME NEW k \in 0 .. n PROVE Goes(k)
  <2>1. n - k \in Nat /\ n - k <= n /\ n - (n - k) = k
    BY <1>1
  <2>2. QED
    BY <1>5, <2>1
<1>7. QED
  BY <1>6 DEF Goes, w

(* The next instruction follows, its opcode first and its operand last. *)
FollowsAt(w, i, m, p, e) ==
  /\ m = OperandFields(i.op) /\ m \in {0, 1, 2} /\ p \in Nat /\ Len(w) \in Nat
  /\ p + 1 + m = e /\ e <= Len(w)
  /\ w[p + 1] = Field("op", i.op)
  /\ m # 0 => w[p + 1 + m].v = i.arg

LEMMA InstAt ==
  ASSUME NEW code, NEW l, NEW S, Layout(code, l, S), Len(code) \in Nat, NEW k \in 0 .. Len(code) - 1
  PROVE  FollowsAt(l[Len(code)], code[k + 1], OperandFields(code[k + 1].op), Len(l[k]), Len(l[k + 1]))
<1> DEFINE w == l[Len(code)]
           m == OperandFields(code[k + 1].op)
           a == l[k]
           b == Fields(code[k + 1])
           c == l[k + 1]
<1>1. k \in 0 .. Len(code) /\ k + 1 \in 0 .. Len(code)
  OBVIOUS
<1>2. /\ a \in Seq(S) /\ c \in Seq(S) /\ Len(c) <= Len(w) /\ \A i \in 1 .. Len(c) : w[i] = c[i]
  BY <1>1, LaidAgree
<1>3. w \in Seq(S)
  BY LaidAgree
<1>4. /\ c = a \o b /\ b \in Seq(S) /\ Len(b) = 1 + m /\ b[1] = Field("op", code[k + 1].op)
      /\ m # 0 => b[1 + m].v = code[k + 1].arg
      /\ m \in {0, 1, 2}
  BY DEF Layout, FieldsOf
<1> HIDE DEF w, m, a, b, c
<1>5. /\ Len(c) = Len(a) + Len(b) /\ Len(a) \in Nat
      /\ \A i \in 1 .. Len(b) : c[Len(a) + i] = b[i]
  BY <1>2, <1>4
<1>6. Len(w) \in Nat
  BY <1>3
<1>7. w[Len(a) + 1] = b[1] /\ w[Len(a) + 1 + m] = b[1 + m]
  <2>1. Len(a) + 1 \in 1 .. Len(c) /\ Len(a) + 1 + m \in 1 .. Len(c) /\ 1 \in 1 .. Len(b) /\ 1 + m \in 1 .. Len(b)
        /\ Len(a) + 1 + m = Len(a) + (1 + m)
    BY <1>4, <1>5
  <2>2. QED
    BY <1>2, <1>5, <2>1
<1>8. Len(a) + 1 + m = Len(c)
  BY <1>4, <1>5
<1> DEFINE i == code[k + 1]
<1>9. m = OperandFields(i.op) /\ w[Len(a) + 1] = Field("op", i.op) /\ (m # 0 => w[Len(a) + 1 + m].v = i.arg)
  BY <1>4, <1>7 DEF m
<1> HIDE DEF i
<1>10. FollowsAt(w, i, m, Len(a), Len(c))
  BY <1>2, <1>4, <1>5, <1>6, <1>8, <1>9 DEF FollowsAt
<1>11. QED
  BY <1>10 DEF w, m, a, c, i

(***************************************************************************)
(* The reader: the function load_bytecode defines by recursion.            *)
(***************************************************************************)
FromThere(file, f, at) ==
  IF at > Len(file) THEN <<>>
  ELSE IF file[at].f # "op" THEN <<Misread>>
  ELSE <<Inst(file[at].v, Operand(file, at, file[at].v))>> \o f[at + 1 + OperandFields(file[at].v)]

Reads(file, f) == f = [at \in 3 .. Len(file) + 3 |-> FromThere(file, f, at)]

LEMMA FewFields ==
  ASSUME NEW op
  PROVE  OperandFields(op) \in {0, 1, 2}
BY OperandKinds DEF Operands

LEMMA ReaderExists ==
  ASSUME NEW file, Len(file) \in Nat
  PROVE  \E f : Reads(file, f)
<1> DEFINE n == Len(file)
           Reader(f, m) == DOMAIN f = 3 .. n + 3 /\ \A at \in 3 .. n + 3 : at >= m => f[at] = FromThere(file, f, at)
           T == {j \in Nat : \E f : Reader(f, (n + 4) - j)}
<1>1. 0 \in T
  <2>1. Reader([at \in 3 .. n + 3 |-> at], (n + 4) - 0)
    OBVIOUS
  <2>2. QED
    BY <2>1
<1>2. ASSUME NEW j \in Nat, j \in T PROVE j + 1 \in T
  <2>1. PICK f : Reader(f, (n + 4) - j)
    BY <1>2
  <2> DEFINE a == (n + 4) - (j + 1)
             E == FromThere(file, f, a)
             g == [at \in 3 .. n + 3 |-> IF at = a THEN E ELSE f[at]]
  <2>2. a \in Int /\ (n + 4) - j = a + 1
    OBVIOUS
  <2> HIDE DEF a, E
  <2>3. DOMAIN g = 3 .. n + 3 /\ \A at \in 3 .. n + 3 : g[at] = IF at = a THEN E ELSE f[at]
    OBVIOUS
  <2> HIDE DEF g
  <2>4. ASSUME NEW at \in 3 .. n + 3, at >= a
        PROVE  FromThere(file, g, at) = FromThere(file, f, at)
    <3>1. CASE at > n
      BY <3>1 DEF FromThere
    <3>2. CASE at <= n
      <4> DEFINE next == at + 1 + OperandFields(file[at].v)
      <4>1. next \in 3 .. n + 3 /\ next # a
        BY <2>2, <2>4, <3>2, FewFields
      <4>2. g[next] = f[next]
        BY <2>3, <4>1
      <4>3. QED
        BY <4>2 DEF FromThere
    <3>3. QED
      BY <3>1, <3>2
  <2>5. ASSUME NEW at \in 3 .. n + 3, at >= a
        PROVE  g[at] = FromThere(file, g, at)
    <3>1. CASE at = a
      BY <2>3, <2>4, <3>1 DEF E
    <3>2. CASE at # a
      <4>1. at >= a + 1
        BY <2>2, <2>5, <3>2
      <4>2. f[at] = FromThere(file, f, at)
        BY <2>1, <2>2, <4>1
      <4>3. QED
        BY <2>3, <2>4, <2>5, <3>2, <4>2
    <3>3. QED
      BY <3>1, <3>2
  <2>6. Reader(g, a)
    BY <2>3, <2>5
  <2>7. \E h : Reader(h, (n + 4) - (j + 1))
    <3> HIDE DEF Reader
    <3>1. QED
      BY <2>6 DEF a
  <2>8. QED
    BY <2>7
<1>3. n + 4 \in T
  <2> HIDE DEF T
  <2>1. Nat \subseteq T
    BY <1>1, <1>2, Counting
  <2>2. QED
    BY <2>1
<1>4. PICK f : Reader(f, (n + 4) - (n + 4))
  BY <1>3
<1>5. \A at \in 3 .. n + 3 : f[at] = FromThere(file, f, at)
  <2>1. \A at \in 3 .. n + 3 : at >= (n + 4) - (n + 4)
    OBVIOUS
  <2>2. QED
    BY <1>4, <2>1
<1> DEFINE E(at) == FromThere(file, f, at)
           g     == [at \in 3 .. n + 3 |-> E(at)]
<1>6. \A at \in 3 .. n + 3 : g[at] = f[at]
  BY <1>5
<1> HIDE DEF E
<1>7. \A at \in 3 .. n + 3 : FromThere(file, g, at) = E(at)
  <2> HIDE DEF g
  <2> SUFFICES ASSUME NEW at \in 3 .. n + 3 PROVE FromThere(file, g, at) = FromThere(file, f, at)
    BY DEF E
  <2>1. CASE at > n
    BY <2>1 DEF FromThere
  <2>2. CASE at <= n
    <3> DEFINE next == at + 1 + OperandFields(file[at].v)
    <3>1. next \in 3 .. n + 3
      BY <2>2, FewFields
    <3>2. g[next] = f[next]
      BY <1>6, <3>1
    <3>3. QED
      BY <3>2 DEF FromThere
  <2>3. QED
    BY <2>1, <2>2
<1>8. g = [at \in 3 .. n + 3 |-> FromThere(file, g, at)]
  BY <1>7
<1>9. Reads(file, g)
  <2> HIDE DEF g
  <2>1. QED
    BY <1>8 DEF Reads
<1>10. QED
  BY <1>9

LEMMA ReadAt ==
  ASSUME NEW file, NEW f, Reads(file, f), NEW at \in 3 .. Len(file) + 3
  PROVE  f[at] = FromThere(file, f, at)
<1> DEFINE E(a) == FromThere(file, f, a)
<1>1. f = [a \in 3 .. Len(file) + 3 |-> E(a)]
  BY Zenon DEF Reads
<1> HIDE DEF E
<1>2. f[at] = E(at)
  BY <1>1, Zenon
<1>3. QED
  BY <1>2 DEF E

Begin(all, n) == SubSeq(all, 1, IF n < Len(all) THEN n ELSE Len(all))

LEMMA LoadedIs ==
  ASSUME NEW file, Len(file) \in Nat
  PROVE  \E f : Reads(file, f) /\ load_bytecode(file) = Begin(f[3], file[2].n)
<1> DEFINE h == CHOOSE f : f = [at \in 3 .. Len(file) + 3 |->
        IF at > Len(file) THEN <<>>
        ELSE IF file[at].f # "op" THEN <<Misread>>
        ELSE <<Inst(file[at].v, Operand(file, at, file[at].v))>> \o f[at + 1 + OperandFields(file[at].v)]]
<1>1. load_bytecode(file) = Begin(h[3], file[2].n)
  BY DEF load_bytecode, Begin
<1>2. Reads(file, h)
  <2>1. \E f : Reads(file, f)
    BY ReaderExists
  <2>2. QED
    BY <2>1 DEF Reads, FromThere
<1>3. QED
  BY <1>1, <1>2

(* What is read back of the instructions of code after the first k: their  *)
(* beginning, and all of it as it was except an operand that was cut off,  *)
(* which can only be the last one.                                         *)
ReadBack(code, k, q, exact) ==
  /\ \E S : q \in Seq(S)
  /\ Len(q) <= Len(code) - k
  /\ exact => Len(q) = Len(code) - k
  /\ \A i \in 1 .. Len(q) : q[i].op = code[k + i].op
  /\ \A i \in 1 .. Len(q) : exact \/ i < Len(q) => q[i] = code[k + i]

LEMMA NothingRead ==
  ASSUME NEW code, NEW k \in Int, NEW exact \in BOOLEAN, Len(code) \in Int, k <= Len(code), exact => Len(code) = k
  PROVE  ReadBack(code, k, <<>>, exact)
<1>1. <<>> \in Seq({}) /\ Len(<<>>) = 0
  OBVIOUS
<1> DEFINE e == <<>>
<1> HIDE DEF e
<1>2. Len(e) = 0 /\ \E S : e \in Seq(S)
  BY <1>1 DEF e
<1>3. ReadBack(code, k, e, exact)
  BY <1>2 DEF ReadBack
<1>4. QED
  BY <1>3 DEF e

LEMMA OneMoreRead ==
  ASSUME NEW code, NEW k \in Nat, NEW q, NEW exact \in BOOLEAN, Len(code) \in Nat, k + 1 <= Len(code),
         ReadBack(code, k + 1, q, exact),
         NEW a, a.op = code[k + 1].op, exact \/ Len(q) # 0 => a = code[k + 1]
  PROVE  ReadBack(code, k, <<a>> \o q, exact)
<1>1. PICK S : q \in Seq(S)
  BY DEF ReadBack
<1> DEFINE T == S \cup {a}
           r == <<a>> \o q
<1>2. a \in T /\ q \in Seq(T)
  BY <1>1
<1> HIDE DEF T
<1>3. /\ r \in Seq(T) /\ Len(r) = 1 + Len(q) /\ r[1] = a
      /\ \A i \in 1 .. Len(q) : r[1 + i] = q[i]
      /\ Len(q) \in Nat
  BY <1>2, OneThen
<1> HIDE DEF r
<1>4. \A i \in 1 .. Len(r) : i = 1 \/ (i - 1 \in 1 .. Len(q) /\ 1 + (i - 1) = i /\ (k + 1) + (i - 1) = k + i)
  BY <1>3
<1>5. ASSUME NEW i \in 1 .. Len(r)
      PROVE  r[i].op = code[k + i].op /\ (exact \/ i < Len(r) => r[i] = code[k + i])
  <2>1. CASE i = 1
    BY <1>3, <2>1
  <2>2. CASE i # 1
    <3> DEFINE j == i - 1
    <3>1. j \in 1 .. Len(q) /\ 1 + j = i /\ (k + 1) + j = k + i
      BY <1>4, <2>2
    <3>2. r[i] = q[j]
      BY <1>3, <3>1
    <3>3. i < Len(r) => j < Len(q)
      BY <1>3
    <3> HIDE DEF j
    <3>4. /\ q[j].op = code[(k + 1) + j].op
          /\ exact \/ j < Len(q) => q[j] = code[(k + 1) + j]
      BY <3>1, Zenon DEF ReadBack
    <3>5. QED
      BY <3>1, <3>2, <3>3, <3>4
  <2>3. QED
    BY <2>1, <2>2
<1>6. Len(r) <= Len(code) - k /\ (exact => Len(r) = Len(code) - k)
  BY <1>3 DEF ReadBack
<1>7. ReadBack(code, k, r, exact)
  BY <1>3, <1>5, <1>6 DEF ReadBack
<1>8. QED
  BY <1>7 DEF r

(* Reading from the place of an instruction. *)
LEMMA ReadsOn ==
  ASSUME NEW code, NEW l, NEW S, Layout(code, l, S), Restored(code),
         NEW n \in Nat, n >= 2, n <= Len(l[Len(code)]),
         NEW file, Len(file) = n, \A i \in 1 .. n : file[i] = l[Len(code)][i],
         NEW f, Reads(file, f),
         NEW exact \in BOOLEAN, exact <=> n = Len(l[Len(code)]),
         NEW k \in 0 .. Len(code) - 1,
         Len(l[k]) >= 2, Len(l[k]) <= n,
         Len(l[k + 1]) <= n => ReadBack(code, k + 1, f[Len(l[k + 1]) + 1], exact)
  PROVE  ReadBack(code, k, f[Len(l[k]) + 1], exact)
<1> DEFINE c  == code[k + 1]
           m  == OperandFields(c.op)
           p  == Len(l[k])
           p1 == Len(l[k + 1])
           W  == Len(l[Len(code)])
           w  == l[Len(code)]
           N  == Len(code)
           at == p + 1
<1>1. /\ m \in {0, 1, 2} /\ p \in Nat /\ W \in Nat /\ p + 1 + m = p1 /\ p + 1 + m <= W
      /\ w[p + 1] = Field("op", c.op)
      /\ m # 0 => w[p + 1 + m].v = c.arg
      /\ N \in Nat
  <2>1. N \in Nat
    BY DEF Restored
  <2>2. FollowsAt(w, c, m, p, p1)
    BY <2>1, InstAt
  <2> HIDE DEF w, c, m, p, p1, N
  <2>3. QED
    BY <2>1, <2>2 DEF FollowsAt, w, W
<1>2. Restorable(c)
  <2>1. k + 1 \in 1 .. Len(code)
    BY <1>1
  <2>2. QED
    BY <2>1 DEF Restored
<1>3. m = 0 => c.arg = "0"
  BY <1>2, OperandKinds DEF Restorable, Operands
<1>4. k \in Nat /\ k + 1 <= N /\ k <= N
  BY <1>1
<1>5. at \in 3 .. Len(file) + 3
  BY <1>1
<1>6. f[at] = FromThere(file, f, at)
  BY <1>5, ReadAt
<1>7. CASE p = n
  <2>1. f[at] = <<>>
    BY <1>6, <1>7 DEF FromThere
  <2>2. ~exact
    BY <1>1, <1>7
  <2>3. QED
    BY <1>1, <1>4, <2>1, <2>2, NothingRead
<1>8. CASE p # n
  <2> HIDE DEF m, W, w, c
  <2>1. at \in 1 .. n /\ ~(at > Len(file))
    BY <1>1, <1>8
  <2>2. file[at] = Field("op", c.op)
    BY <1>1, <2>1 DEF w
  <2> DEFINE a == Inst(c.op, Operand(file, at, c.op))
             q == f[at + 1 + m]
  <2>3. f[at] = <<a>> \o q
    <3>1. file[at].f = "op" /\ file[at].v = c.op
      BY <2>2 DEF Field
    <3>2. FromThere(file, f, at)
            = <<Inst(file[at].v, Operand(file, at, file[at].v))>> \o f[at + 1 + OperandFields(file[at].v)]
      BY <2>1, <3>1 DEF FromThere
    <3>3. QED
      BY <1>6, <3>1, <3>2, Zenon DEF m
  <2>4. a.op = c.op
    BY DEF Inst
  <2>5. at + 1 + m = p1 + 1
    <3> HIDE DEF p, p1
    <3>1. QED
      BY <1>1
  <2>6. CASE p1 <= n
    <3>1. Operand(file, at, c.op) = c.arg
      <4>1. at + m \in Nat /\ ~(at + m > Len(file)) /\ (m = 0 <=> at + m = at) /\ at + m = p + 1 + m
        <5> HIDE DEF p, p1
        <5>1. m \in Nat /\ at \in Nat /\ at = p + 1 /\ p1 = at + m
          BY <1>1
        <5>2. QED
          BY <2>6, <5>1
      <4>2. CASE m = 0
        BY <1>3, <4>1, <4>2 DEF Operand, m
      <4>3. CASE m # 0
        <5>1. Operand(file, at, c.op) = file[at + m].v
          BY <4>1, <4>3 DEF Operand, m
        <5>2. at + m \in 1 .. n
          BY <1>1, <2>1, <4>1
        <5>3. file[at + m] = w[p + 1 + m]
          BY <4>1, <5>2 DEF w
        <5>4. QED
          BY <1>1, <4>3, <5>1, <5>3
      <4>4. QED
        BY <4>2, <4>3
    <3>2. a = c
      BY <1>2, <3>1 DEF Restorable
    <3>3. ReadBack(code, k + 1, q, exact)
      BY <2>5, <2>6
    <3> HIDE DEF a, q, at, N
    <3>4. ReadBack(code, k, <<a>> \o q, exact)
      BY <1>1, <1>4, <2>4, <3>2, <3>3, OneMoreRead DEF c, N
    <3>5. QED
      BY <2>3, <3>4 DEF at
  <2>7. CASE ~(p1 <= n)
    <3>1. p1 + 1 \in 3 .. Len(file) + 3 /\ p1 + 1 > Len(file)
      <4>1. p1 = p + 1 + m /\ m \in {0, 1, 2} /\ p \in Nat /\ p + 1 <= n /\ Len(file) = n /\ p >= 2
        BY <1>1, <2>1
      <4> HIDE DEF p, p1
      <4>2. p1 \in Nat /\ p1 > n /\ p1 <= n + 2
        BY <2>7, <4>1
      <4>3. QED
        BY <4>1, <4>2
    <3>2. q = <<>>
      BY <2>5, <3>1, ReadAt DEF FromThere
    <3>3. ~exact
      BY <1>1, <2>7 DEF W
    <3> HIDE DEF a, q, at
    <3>4. ReadBack(code, k + 1, q, exact)
      BY <1>1, <1>4, <3>2, <3>3, NothingRead
    <3>5. Len(q) = 0
      BY <3>2
    <3> HIDE DEF N
    <3>6. ReadBack(code, k, <<a>> \o q, exact)
      BY <1>1, <1>4, <2>4, <3>3, <3>4, <3>5, OneMoreRead DEF c, N
    <3>7. QED
      BY <2>3, <3>6 DEF at
  <2>8. QED
    BY <2>6, <2>7
<1>9. QED
  BY <1>7, <1>8

LEMMA AfterTheHead ==
  ASSUME NEW code, NEW l, NEW S, Layout(code, l, S), Restored(code)
  PROVE  \A k \in 0 .. Len(code) : Len(l[k]) \in Nat /\ Len(l[k]) >= 2
<1> DEFINE N == Len(code)
           T == {k \in Nat : k <= N => Len(l[k]) \in Nat /\ Len(l[k]) >= 2}
<1>1. N \in Nat
  BY DEF Restored
<1>2. 0 \in T
  BY DEF Layout
<1>3. ASSUME NEW k \in Nat, k \in T PROVE k + 1 \in T
  <2> SUFFICES ASSUME k + 1 <= N PROVE Len(l[k + 1]) \in Nat /\ Len(l[k + 1]) >= 2
    OBVIOUS
  <2>1. k \in 0 .. Len(code) - 1 /\ k <= N
    BY <1>1
  <2> DEFINE m == OperandFields(code[k + 1].op)
  <2>2. m \in {0, 1, 2} /\ Len(l[k]) + 1 + m = Len(l[k + 1])
    BY <1>1, <2>1, InstAt DEF FollowsAt
  <2> HIDE DEF m
  <2>3. QED
    BY <1>3, <2>1, <2>2
<1>4. Nat \subseteq T
  <2> HIDE DEF T
  <2>1. QED
    BY <1>2, <1>3, Counting
<1>5. QED
  BY <1>1, <1>4

LEMMA ReadsAll ==
  ASSUME NEW code, NEW l, NEW S, Layout(code, l, S), Restored(code),
         NEW n \in Nat, n >= 2, n <= Len(l[Len(code)]),
         NEW file, Len(file) = n, \A i \in 1 .. n : file[i] = l[Len(code)][i],
         NEW f, Reads(file, f),
         NEW exact \in BOOLEAN, exact <=> n = Len(l[Len(code)])
  PROVE  ReadBack(code, 0, f[3], exact)
<1> DEFINE N == Len(code)
           Goes(k) == Len(l[k]) <= n => ReadBack(code, k, f[Len(l[k]) + 1], exact)
           T == {j \in Nat : j <= N => Goes(N - j)}
<1>1. N \in Nat /\ \A k \in 0 .. N : Len(l[k]) \in Nat /\ Len(l[k]) >= 2
  BY AfterTheHead DEF Restored
<1>2. 0 \in T
  <2> SUFFICES ASSUME Len(l[N]) <= n PROVE ReadBack(code, N, f[Len(l[N]) + 1], exact)
    BY <1>1
  <2>1. Len(l[N]) \in Nat /\ Len(l[N]) = n /\ exact
    BY <1>1
  <2>2. n + 1 \in 3 .. Len(file) + 3 /\ n + 1 > Len(file)
    OBVIOUS
  <2>3. f[n + 1] = <<>>
    BY <2>2, ReadAt DEF FromThere
  <2>4. ReadBack(code, N, <<>>, exact)
    BY <1>1, NothingRead
  <2>5. QED
    BY <2>1, <2>3, <2>4
<1>3. ASSUME NEW j \in Nat, j \in T PROVE j + 1 \in T
  <2> SUFFICES ASSUME j + 1 <= N PROVE Goes(N - (j + 1))
    OBVIOUS
  <2> DEFINE k == N - (j + 1)
  <2>1. k \in 0 .. Len(code) - 1 /\ k \in 0 .. N /\ k + 1 = N - j /\ j <= N
    BY <1>1
  <2>2. Goes(k + 1)
    BY <1>3, <2>1
  <2> HIDE DEF k
  <2>3. ASSUME Len(l[k]) <= n PROVE ReadBack(code, k, f[Len(l[k]) + 1], exact)
    BY <1>1, <2>1, <2>2, <2>3, ReadsOn
  <2>4. QED
    BY <2>3 DEF k
<1> HIDE DEF Goes
<1>4. Nat \subseteq T
  <2> HIDE DEF T
  <2>1. QED
    BY <1>2, <1>3, Counting
<1>5. Goes(0)
  <2>1. N \in T
    BY <1>1, <1>4
  <2>2. N <= N /\ N - N = 0
    BY <1>1
  <2>3. QED
    BY <2>1, <2>2
<1>6. Len(l[0]) = 2
  BY DEF Layout
<1>7. QED
  BY <1>5, <1>6 DEF Goes

(* What is read back from a bytecode file of any length. *)
LEMMA ReadsBack ==
  ASSUME NEW code, Restored(code), NEW n \in 0 .. Len(save_bytecode(code)),
         NEW file, file = SubSeq(save_bytecode(code), 1, n), IsLoadable(file),
         NEW exact \in BOOLEAN, exact <=> n = Len(save_bytecode(code))
  PROVE  ReadBack(code, 0, load_bytecode(file), exact)
<1> DEFINE w == save_bytecode(code)
           N == Len(code)
<1>1. PICK l, S : Layout(code, l, S)
  BY LaidOut
<1>2. w = l[N] /\ w \in Seq(S) /\ N \in Nat
  <2>1. N \in 0 .. Len(code)
    BY DEF Restored
  <2>2. QED
    BY <1>1, <2>1, LaidAgree DEF Layout, Restored
<1>3. l[0] \in Seq(S) /\ \A i \in 1 .. Len(l[0]) : w[i] = l[0][i]
  BY <1>1, <1>2, LaidAgree
<1>4. l[0] = <<Magic, Count(N)>>
  BY <1>1 DEF Layout
<1> HIDE DEF w
<1>5. n \in Nat /\ Len(file) = n /\ \A i \in 1 .. n : file[i] = w[i]
  <2>1. Len(w) \in Nat /\ n \in 0 .. Len(w) /\ file = SubSeq(w, 1, n)
    BY <1>2 DEF w
  <2> HIDE DEF N
  <2>2. QED
    BY <1>2, <2>1
<1>6. n >= 2
  BY <1>5 DEF IsLoadable
<1>7. file[2].n = N
  <2>1. file[2] = w[2]
    BY <1>5, <1>6
  <2>2. Len(l[0]) = 2 /\ l[0][2] = Count(N)
    BY <1>4
  <2>3. w[2] = Count(N)
    BY <1>3, <2>2
  <2> HIDE DEF N
  <2>4. Count(N).n = N
    BY DEF Count
  <2>5. QED
    BY <2>1, <2>3, <2>4, Zenon
<1>8. PICK f : Reads(file, f) /\ load_bytecode(file) = Begin(f[3], file[2].n)
  BY <1>5, LoadedIs
<1>9. ReadBack(code, 0, f[3], exact)
  <2>1. n <= Len(l[Len(code)]) /\ \A i \in 1 .. n : file[i] = l[Len(code)][i]
    BY <1>2, <1>5 DEF w
  <2>2. exact <=> n = Len(l[Len(code)])
    BY <1>2 DEF w
  <2>3. Len(file) = n /\ n \in Nat /\ n >= 2 /\ Reads(file, f) /\ Layout(code, l, S)
    BY <1>1, <1>5, <1>6, <1>8
  <2>4. QED
    BY <2>1, <2>2, <2>3, ReadsAll
<1> DEFINE q == f[3]
<1> HIDE DEF q, N
<1>10. Begin(q, N) = q
  <2>1. PICK R : q \in Seq(R)
    BY <1>9 DEF ReadBack, q
  <2>2. Len(q) <= N - 0
    BY <1>9 DEF ReadBack, q, N
  <2>3. QED
    BY <1>2, <2>1, <2>2 DEF Begin
<1>11. QED
  BY <1>7, <1>8, <1>9, <1>10 DEF q

(***************************************************************************)
(* What vm_load_bytecode leaves of code: the places that are kept, and the *)
(* rank of each among them.                                                *)
(***************************************************************************)
Upto(K, k) == {j \in K : j <= k}

Ranked(K) == \A i \in 1 .. Cardinality(K) : \E k \in K : Cardinality(Upto(K, k)) = i

LEMMA UptoAll ==
  ASSUME NEW n \in Nat, NEW K, \A k \in K : k \in 1 .. n
  PROVE  /\ IsFiniteSet(K) /\ Cardinality(K) \in Nat
         /\ \A k \in K : IsFiniteSet(Upto(K, k)) /\ Cardinality(Upto(K, k)) \in 1 .. Cardinality(K)
<1>1. IsFiniteSet(1 .. n) /\ K \subseteq 1 .. n
  BY FS_Interval
<1>2. IsFiniteSet(K) /\ Cardinality(K) \in Nat
  BY <1>1, FS_Subset, FS_CardinalityType
<1>3. ASSUME NEW k \in K
      PROVE  IsFiniteSet(Upto(K, k)) /\ Cardinality(Upto(K, k)) \in 1 .. Cardinality(K)
  <2> DEFINE U == Upto(K, k)
  <2>1. U \subseteq K /\ k \in U
    BY <1>1 DEF Upto
  <2> HIDE DEF U
  <2>2. IsFiniteSet(U) /\ Cardinality(U) <= Cardinality(K)
    BY <1>2, <2>1, FS_Subset
  <2>3. Cardinality(U) \in Nat /\ Cardinality(U) # 0
    BY <2>1, <2>2, FS_CardinalityType, FS_EmptySet
  <2>4. Cardinality(U) \in 1 .. Cardinality(K)
    BY <1>2, <2>2, <2>3
  <2>5. QED
    BY <2>2, <2>4 DEF U
<1>4. QED
  BY <1>2, <1>3

LEMMA EveryRank ==
  ASSUME NEW n \in Nat, NEW K, \A k \in K : k \in 1 .. n
  PROVE  Ranked(K)
<1> DEFINE T == {m \in Nat : \A L \in SUBSET (1 .. m) : Ranked(L)}
<1>1. 0 \in T
  <2> SUFFICES ASSUME NEW L \in SUBSET (1 .. 0) PROVE Ranked(L)
    OBVIOUS
  <2>1. L = {}
    OBVIOUS
  <2>2. Cardinality(L) = 0
    BY <2>1, FS_EmptySet
  <2>3. QED
    BY <2>2 DEF Ranked
<1>2. ASSUME NEW m \in Nat, m \in T PROVE m + 1 \in T
  <2> SUFFICES ASSUME NEW L \in SUBSET (1 .. m + 1) PROVE Ranked(L)
    OBVIOUS
  <2> DEFINE a == m + 1
             M == L \ {a}
  <2>1. M \in SUBSET (1 .. m)
    OBVIOUS
  <2>2. Ranked(M)
    BY <1>2, <2>1
  <2>3. CASE a \notin L
    <3>1. M = L
      BY <2>3
    <3>2. QED
      BY <2>2, <3>1
  <2>4. CASE a \in L
    <3>1. /\ IsFiniteSet(L) /\ Cardinality(L) \in Nat /\ IsFiniteSet(M) /\ Cardinality(M) \in Nat
      <4>1. (\A k \in L : k \in 1 .. a) /\ (\A k \in M : k \in 1 .. m) /\ a \in Nat
        BY <2>1
      <4> HIDE DEF M, a
      <4>2. QED
        BY <4>1, UptoAll
    <3>2. Cardinality(L) = Cardinality(M) + 1
      <4>1. Cardinality(M) = Cardinality(L) - 1
        BY <2>4, <3>1, FS_RemoveElement
      <4> HIDE DEF M
      <4>2. QED
        BY <3>1, <4>1
    <3>3. ASSUME NEW i \in 1 .. Cardinality(L)
          PROVE  \E k \in L : Cardinality(Upto(L, k)) = i
      <4>1. CASE i = Cardinality(L)
        <5>1. Upto(L, a) = L
          <6>1. \A j \in L : j <= a
            OBVIOUS
          <6>2. QED
            BY <6>1 DEF Upto
        <5>2. QED
          BY <2>4, <4>1, <5>1
      <4>2. CASE i # Cardinality(L)
        <5>1. i \in 1 .. Cardinality(M)
          BY <3>1, <3>2, <4>2
        <5>2. PICK k \in M : Cardinality(Upto(M, k)) = i
          BY <2>2, <5>1 DEF Ranked
        <5>3. Upto(L, k) = Upto(M, k)
          BY <2>1 DEF Upto
        <5>4. QED
          BY <5>2, <5>3
      <4>3. QED
        BY <4>1, <4>2
    <3>4. QED
      BY <3>3 DEF Ranked
  <2>5. QED
    BY <2>3, <2>4
<1>3. Nat \subseteq T
  <2> HIDE DEF T
  <2>1. QED
    BY <1>1, <1>2, Counting
<1>4. n \in T /\ K \in SUBSET (1 .. n)
  BY <1>3
<1>5. QED
  BY <1>4

LEMMA OneOfARank ==
  ASSUME NEW n \in Nat, NEW K, \A k \in K : k \in 1 .. n,
         NEW a \in K, NEW b \in K, Cardinality(Upto(K, a)) = Cardinality(Upto(K, b))
  PROVE  a = b
<1>1. ASSUME NEW x \in K, NEW y \in K, x < y PROVE Cardinality(Upto(K, x)) # Cardinality(Upto(K, y))
  <2> DEFINE A == Upto(K, x)
             B == Upto(K, y)
  <2>1. A \subseteq B /\ y \in B /\ y \notin A
    BY <1>1 DEF Upto
  <2>2. IsFiniteSet(B)
    BY UptoAll
  <2> HIDE DEF A, B
  <2>3. Cardinality(A) # Cardinality(B)
    BY <2>1, <2>2, FS_Subset
  <2>4. QED
    BY <2>3 DEF A, B
<1>2. a \in 1 .. n /\ b \in 1 .. n
  OBVIOUS
<1>3. a < b \/ b < a \/ a = b
  BY <1>2
<1>4. QED
  BY <1>1, <1>3

(* TopLevel, by the places it keeps. *)
Outside(code, k) == \A j \in 1 .. k : code[j].op = "FUNC_DEF" => \E e \in j .. k - 1 : code[e].op = "FUNC_END"
Kept(code)       == {k \in DOMAIN code : Outside(code, k)}
Keeping(code, K) == [i \in 1 .. Cardinality(K) |-> code[CHOOSE k \in K : Cardinality({j \in K : j <= k}) = i]]

LEMMA TopLevelKeeps ==
  ASSUME NEW code
  PROVE  TopLevel(code) = Keeping(code, Kept(code))
BY DEF TopLevel, Keeping, Kept, Outside

LEMMA KeepingAt ==
  ASSUME NEW n \in Nat, NEW code, NEW K, \A k \in K : k \in 1 .. n
  PROVE  LET q == Keeping(code, K) IN
         /\ DOMAIN q = 1 .. Cardinality(K)
         /\ \A k \in K : /\ Cardinality(Upto(K, k)) \in 1 .. Cardinality(K)
                         /\ q[Cardinality(Upto(K, k))] = code[k]
<1> DEFINE q == Keeping(code, K)
           C(i) == CHOOSE k \in K : Cardinality({j \in K : j <= k}) = i
<1>1. q = [i \in 1 .. Cardinality(K) |-> code[C(i)]]
  BY DEF Keeping
<1>2. ASSUME NEW k \in K
      PROVE  Cardinality(Upto(K, k)) \in 1 .. Cardinality(K) /\ q[Cardinality(Upto(K, k))] = code[k]
  <2> DEFINE i == Cardinality(Upto(K, k))
  <2>1. i \in 1 .. Cardinality(K)
    BY UptoAll
  <2>2. C(i) = k
    <3>1. C(i) \in K /\ Cardinality({j \in K : j <= C(i)}) = i
      BY DEF Upto
    <3>2. Cardinality(Upto(K, C(i))) = Cardinality(Upto(K, k))
      BY <3>1 DEF Upto
    <3> HIDE DEF C, i
    <3>3. QED
      BY <3>1, <3>2, OneOfARank
  <2> HIDE DEF C, i
  <2>3. q[i] = code[C(i)]
    BY <1>1, <2>1
  <2>4. QED
    BY <2>1, <2>2, <2>3 DEF i
<1> HIDE DEF C
<1>3. DOMAIN q = 1 .. Cardinality(K)
  BY <1>1
<1>4. QED
  BY <1>2, <1>3

(* What is kept of a beginning is a beginning of what is kept, but for the *)
(* operand of its last instruction. *)
LEMMA KeepsABeginning ==
  ASSUME NEW code, Len(code) \in Nat, DOMAIN code = 1 .. Len(code), NEW q, ReadBack(code, 0, q, FALSE)
  PROVE  TopLevel(q) = <<>> \/ IsPrefix(Front(TopLevel(q)), TopLevel(code))
<1> DEFINE N == Len(code)
           r == Len(q)
           K == Kept(code)
           L == Kept(q)
           t == TopLevel(code)
           u == TopLevel(q)
           c == Cardinality(L)
<1>1. PICK S : q \in Seq(S)
  BY DEF ReadBack
<1>2. r \in Nat /\ DOMAIN q = 1 .. r /\ r <= N
  BY <1>1 DEF ReadBack
<1>3. /\ \A i \in 1 .. r : q[i].op = code[i].op
      /\ \A i \in 1 .. r : i < r => q[i] = code[i]
  <2>1. \A i \in 1 .. r : 0 + i = i
    BY <1>2
  <2>2. QED
    BY <2>1 DEF ReadBack
<1> HIDE DEF N, r
<1>4. \A k \in 1 .. r : Outside(q, k) <=> Outside(code, k)
  <2> SUFFICES ASSUME NEW k \in 1 .. r PROVE Outside(q, k) <=> Outside(code, k)
    OBVIOUS
  <2>1. \A j \in 1 .. k : q[j].op = code[j].op
    BY <1>2, <1>3
  <2>2. \A j \in 1 .. k : \A e \in j .. k - 1 : q[e].op = code[e].op
    BY <1>2, <1>3
  <2>3. QED
    BY <2>1, <2>2 DEF Outside
<1>5. L = {k \in K : k <= r} /\ \A k \in L : k \in 1 .. r
  BY <1>2, <1>4 DEF Kept, N
<1>6. \A k \in K : k \in 1 .. N
  BY DEF Kept, N
<1> HIDE DEF K, L
<1>7. /\ N \in Nat /\ IsFiniteSet(K) /\ Cardinality(K) \in Nat /\ c \in Nat
  BY <1>2, <1>5, <1>6, UptoAll DEF N
<1>8. /\ t = Keeping(code, K) /\ DOMAIN t = 1 .. Cardinality(K)
      /\ \A k \in K : t[Cardinality(Upto(K, k))] = code[k]
  BY <1>6, <1>7, TopLevelKeeps, KeepingAt DEF K
<1>9. /\ u = Keeping(q, L) /\ DOMAIN u = 1 .. c
      /\ \A k \in L : u[Cardinality(Upto(L, k))] = q[k]
  <2>1. u = Keeping(q, L)
    BY TopLevelKeeps DEF L
  <2> DEFINE x == Keeping(q, L)
  <2>2. /\ DOMAIN x = 1 .. Cardinality(L)
        /\ \A k \in L : x[Cardinality(Upto(L, k))] = q[k]
    BY <1>2, <1>5, KeepingAt
  <2> HIDE DEF x, u, c
  <2>3. u = x
    BY <2>1 DEF x
  <2>4. QED
    BY <2>1, <2>2, <2>3 DEF c
<1>10. \A k \in L : k \in K /\ Upto(L, k) = Upto(K, k)
  BY <1>5, <1>6, <1>2 DEF Upto
<1>11. c <= Cardinality(K)
  <2>1. L \subseteq K
    BY <1>5
  <2>2. QED
    BY <1>7, <2>1, FS_Subset
<1> HIDE DEF c, t, u
<1>12. ASSUME NEW i \in 1 .. c - 1 PROVE u[i] = t[i]
  <2>1. Ranked(L)
    BY <1>2, <1>5, EveryRank
  <2>2. i \in 1 .. Cardinality(L)
    BY <1>7 DEF c
  <2>3. PICK k \in L : Cardinality(Upto(L, k)) = i
    BY <2>1, <2>2 DEF Ranked
  <2>4. k # r
    <3>1. ASSUME k = r PROVE FALSE
      <4>1. \A j \in L : j <= k
        BY <1>5, <3>1, <1>2
      <4>2. Upto(L, k) = L
        BY <4>1 DEF Upto
      <4>3. i = c
        BY <2>3, <4>2 DEF c
      <4>4. QED
        BY <1>7, <4>3
    <3>2. QED
      BY <3>1
  <2>5. k \in 1 .. r /\ k < r
    BY <1>2, <1>5, <2>4
  <2>6. u[i] = q[k] /\ t[i] = code[k] /\ q[k] = code[k]
    BY <1>3, <1>8, <1>9, <1>10, <2>3, <2>5
  <2>7. QED
    BY <2>6
<1>13. CASE c = 0
  <2>1. u = [i \in 1 .. 0 |-> q[CHOOSE k \in L : Cardinality({j \in L : j <= k}) = i]]
    BY <1>9, <1>13 DEF c, Keeping
  <2>2. u = <<>>
    BY <2>1
  <2>3. QED
    BY <2>2 DEF u
<1>14. CASE c # 0
  <2> DEFINE v == Front(u)
             W == {u[i] : i \in 1 .. c} \cup {t[i] : i \in 1 .. Cardinality(K)}
  <2>1. u \in Seq(W) /\ Len(u) = c
    <3>1. u = [i \in 1 .. c |-> u[i]]
      BY <1>9 DEF Keeping, c
    <3>2. \A i \in 1 .. c : u[i] \in W
      OBVIOUS
    <3> HIDE DEF W
    <3>3. QED
      BY <1>7, <3>1, <3>2
  <2>2. t \in Seq(W) /\ Len(t) = Cardinality(K)
    <3>1. t = [i \in 1 .. Cardinality(K) |-> t[i]]
      BY <1>8 DEF Keeping
    <3>2. \A i \in 1 .. Cardinality(K) : t[i] \in W
      OBVIOUS
    <3> HIDE DEF W
    <3>3. QED
      BY <1>7, <3>1, <3>2
  <2> HIDE DEF W
  <2>3. v \in Seq(W) /\ Len(v) = c - 1 /\ \A i \in 1 .. c - 1 : v[i] = u[i]
    BY <1>7, <1>14, <2>1 DEF Front
  <2> HIDE DEF v
  <2>4. c - 1 \in 0 .. Len(t)
    BY <1>7, <1>11, <1>14, <2>2
  <2>5. SubSeq(v, 1, Len(v)) = SubSeq(t, 1, Len(v))
    <3> DEFINE x == SubSeq(v, 1, c - 1)
               y == SubSeq(t, 1, c - 1)
    <3>1. x \in Seq(W) /\ Len(x) = c - 1 /\ \A i \in 1 .. c - 1 : x[i] = v[i]
      BY <2>3, <2>4
    <3>2. y \in Seq(W) /\ Len(y) = c - 1 /\ \A i \in 1 .. c - 1 : y[i] = t[i]
      BY <2>2, <2>4
    <3> HIDE DEF x, y
    <3>3. \A i \in 1 .. c - 1 : x[i] = y[i]
      BY <1>12, <2>3, <3>1, <3>2
    <3>4. x = y
      BY <3>1, <3>2, <3>3
    <3>5. QED
      BY <2>3, <3>4 DEF x, y
  <2>6. IsPrefix(v, t)
    BY <2>3, <2>4, <2>5 DEF IsPrefix
  <2>7. QED
    BY <2>6 DEF v, u, t
<1>15. QED
  BY <1>13, <1>14

(* A bytecode file that was compiled holds a beginning of what is written  *)
(* of its text, and all of it if it was not cut short.                     *)
HoldsItsText(c) ==
  \E n \in 0 .. Len(save_bytecode(given[c])) :
    /\ files[c] = Bytecode(SubSeq(save_bytecode(given[c]), 1, n))
    /\ c \notin cut => n = Len(save_bytecode(given[c]))

Stored == \A c \in DOMAIN given : Sound(given[c]) /\ HoldsItsText(c)

(* Everything else that can be loaded is sound. *)
Others ==
  \A p \in DOMAIN files :
    /\ files[p].kind = "sb" => (files[p].ok => Sound(files[p].code))
    /\ p \notin DOMAIN given /\ files[p].kind = "sbc" =>
         (IsLoadable(files[p].fields) => Loads(load_bytecode(files[p].fields)))

(* A call executes what was compiled to its file. *)
Runs(c) ==
  c.fn = "vm_execute" /\ c.file \in DOMAIN given =>
    IF c.file \in cut
    THEN c.code = <<>> \/ IsPrefix(Front(c.code), TopLevel(given[c.file]))
    ELSE c.code = TopLevel(given[c.file])

RInv == Stored /\ Others /\ RunsWhatWasCompiled

(* Code that is sound comes back as it was, and is loaded. *)
LEMMA ComesBack ==
  ASSUME NEW code, Sound(code), NEW n \in 0 .. Len(save_bytecode(code)),
         NEW file, file = SubSeq(save_bytecode(code), 1, n), IsLoadable(file)
  PROVE  /\ n = Len(save_bytecode(code)) => load_bytecode(file) = code
         /\ LET u == TopLevel(load_bytecode(file))
            IN  u = <<>> \/ IsPrefix(Front(u), TopLevel(code))
<1>1. code \in Seq(Range(code)) /\ \A k \in DOMAIN code : Restorable(code[k])
  BY DEF Sound
<1>2. Len(code) \in Nat /\ DOMAIN code = 1 .. Len(code) /\ Restored(code)
  BY <1>1 DEF Restored
<1> DEFINE q == load_bytecode(file)
<1>3. ASSUME NEW exact \in BOOLEAN, exact <=> n = Len(save_bytecode(code)) PROVE ReadBack(code, 0, q, exact)
  BY <1>2, <1>3, ReadsBack
<1> HIDE DEF q
<1>4. ASSUME n = Len(save_bytecode(code)) PROVE q = code
  <2>1. ReadBack(code, 0, q, TRUE)
    BY <1>3, <1>4
  <2>2. PICK S : q \in Seq(S)
    BY <2>1 DEF ReadBack
  <2>3. Len(q) = Len(code)
    BY <1>2, <2>1 DEF ReadBack
  <2>4. \A i \in 1 .. Len(q) : q[i] = code[0 + i]
    BY <2>1 DEF ReadBack
  <2>5. \A i \in 1 .. Len(q) : q[i] = code[i]
    BY <2>4
  <2>6. QED
    BY <1>1, <2>2, <2>3, <2>5
<1>5. ReadBack(code, 0, q, FALSE)
  <2>1. ReadBack(code, 0, q, n = Len(save_bytecode(code)))
    BY <1>3
  <2>2. QED
    BY <2>1 DEF ReadBack
<1>6. TopLevel(q) = <<>> \/ IsPrefix(Front(TopLevel(q)), TopLevel(code))
  BY <1>2, <1>5, KeepsABeginning
<1>7. QED
  BY <1>4, <1>6 DEF q

(***************************************************************************)
(* What is executed is what was compiled.                                  *)
(***************************************************************************)

LEMMA RunsIs ==
  RunsWhatWasCompiled <=>
    /\ mode = "broken" => cut # {}
    /\ mode = "run" => \A k \in DOMAIN calls : Runs(calls[k])
BY DEF RunsWhatWasCompiled, Runs

(* During a run the disk stays as it is. *)
LEMMA DiskStays ==
  ASSUME UNCHANGED disk
  PROVE  /\ Stored => Stored'
         /\ Others => Others'
         /\ \A c : Runs(c) => Runs(c)'
         /\ cut' = cut
<1>1. files' = files /\ given' = given /\ cut' = cut
  BY DEF disk
<1>2. Stored => Stored'
  BY <1>1 DEF Stored, HoldsItsText
<1>3. Others => Others'
  BY <1>1 DEF Others
<1>4. \A c : Runs(c) => Runs(c)'
  BY <1>1 DEF Runs
<1>5. QED
  BY <1>1, <1>2, <1>3, <1>4

(* Calls that were there and calls that run what was compiled. *)
LEMMA StillRuns ==
  ASSUME IInv, RInv, mode = "run", UNCHANGED disk, mode' # "broken", StackOf(calls'),
         \A k \in 1 .. Len(calls') : (k \in 1 .. Len(calls) /\ calls'[k] = calls[k]) \/ Runs(calls'[k])
  PROVE  RInv'
<1>1. IsSeq(calls) /\ IsSeq(calls')
  BY DEF IInv, StackOf
<1>2. DOMAIN calls = 1 .. Len(calls) /\ DOMAIN calls' = 1 .. Len(calls')
  BY <1>1, OfSeq
<1>3. \A k \in DOMAIN calls : Runs(calls[k])
  BY RunsIs DEF RInv
<1>4. \A k \in DOMAIN calls' : Runs(calls'[k])
  BY <1>2, <1>3
<1>5. (\A k \in DOMAIN calls : Runs(calls[k]))'
  <2>1. \A c : Runs(c) => Runs(c)'
    BY DiskStays
  <2>2. QED
    BY <1>4, <2>1
<1>6. (mode = "broken" => cut # {})'
  OBVIOUS
<1>7. RunsWhatWasCompiled'
  BY <1>5, <1>6, Zenon DEF RunsWhatWasCompiled, Runs
<1>8. QED
  BY <1>7, DiskStays DEF RInv

LEMMA TopIs ==
  ASSUME IInv, mode = "run"
  PROVE  /\ StackOf(calls) /\ calls # <<>> /\ Len(calls) \in Nat \ {0}
         /\ TopCall = calls[Len(calls)] /\ Len(calls) \in 1 .. Len(calls)
         /\ IF Odd(Len(calls)) THEN Executes(TopCall) ELSE Searches(TopCall)
<1>1. StackOf(calls) /\ calls # <<>>
  BY DEF IInv, Controlled
<1>2. Len(calls) \in Nat \ {0} /\ Len(calls) \in 1 .. Len(calls)
  BY <1>1, OfSeq DEF StackOf
<1>3. QED
  BY <1>1, <1>2 DEF StackOf, TopCall, Last

LEMMA TopRuns ==
  ASSUME IInv, RInv, mode = "run"
  PROVE  Runs(TopCall)
<1>1. \A k \in DOMAIN calls : Runs(calls[k])
  BY RunsIs DEF RInv
<1>2. DOMAIN calls = 1 .. Len(calls)
  BY TopIs, OfSeq DEF StackOf
<1>3. QED
  BY <1>1, <1>2, TopIs

LEMMA SearchRuns ==
  ASSUME NEW c, Searches(c)
  PROVE  Runs(c)
BY DEF Searches, Runs

(* The top goes on. *)
LEMMA TopMovesRuns ==
  ASSUME IInv, RInv, mode = "run", UNCHANGED <<disk, mode>>,
         NEW d, calls' = Append(Below, d),
         IF Odd(Len(calls)) THEN Executes(d) /\ d.file = TopCall.file /\ d.code = TopCall.code ELSE Searches(d)
  PROVE  RInv'
<1>1. Changed(calls, d, calls')
  BY TopIs, TopChanged DEF Below
<1>2. Runs(d)
  <2>1. CASE Odd(Len(calls))
    BY <2>1, TopIs, TopRuns DEF Runs, Executes
  <2>2. CASE ~Odd(Len(calls))
    BY <2>2, SearchRuns
  <2>3. QED
    BY <2>1, <2>2
<1>3. /\ StackOf(calls') /\ Len(calls') = Len(calls) /\ calls'[Len(calls')] = d
      /\ \A k \in 1 .. Len(calls) - 1 : calls'[k] = calls[k]
  BY <1>1 DEF Changed
<1>4. \A k \in 1 .. Len(calls') : k \in 1 .. Len(calls) /\ (k \in 1 .. Len(calls) - 1 \/ k = Len(calls'))
  BY <1>3, TopIs
<1>5. QED
  BY <1>2, <1>3, <1>4, StillRuns

LEMMA StepRuns ==
  ASSUME IInv, RInv, Step
  PROVE  RInv'
<1> DEFINE d == [TopCall EXCEPT !.pc = @ + 1]
<1>1. Executing /\ mode = "run" /\ calls' = Append(Below, d) /\ UNCHANGED <<disk, mode>>
  BY DEF Step, Stepped, InLoop, Executing
<1>2. Executes(TopCall) /\ Odd(Len(calls))
  BY <1>1, Running
<1>3. Executes(d) /\ d.file = TopCall.file /\ d.code = TopCall.code
  BY <1>2, GoesOn DEF Executes
<1> HIDE DEF d
<1>4. QED
  BY <1>1, <1>2, <1>3, TopMovesRuns

LEMMA LoadModuleRuns ==
  ASSUME IInv, RInv, LoadModule
  PROVE  RInv'
<1> DEFINE s == Stepped
           m == Current.arg
           d == [TopCall EXCEPT !.pc = @ + 1]
<1>1. Executing /\ mode = "run" /\ s = Append(Below, d) /\ calls' = Append(s, Search(m)) /\ UNCHANGED <<disk, mode>>
  BY DEF LoadModule, Stepped, InLoop, Executing
<1>2. Executes(TopCall) /\ Odd(Len(calls))
  BY <1>1, Running
<1>3. Executes(d) /\ d.file = TopCall.file /\ d.code = TopCall.code
  BY <1>2, GoesOn DEF Executes
<1> HIDE DEF d
<1>4. Changed(calls, d, s)
  BY <1>1, <1>2, <1>3, TopIs, TopChanged DEF Below
<1>5. Runs(d)
  BY <1>1, <1>2, <1>3, TopRuns DEF Runs, Executes
<1> HIDE DEF s, m
<1>6. /\ StackOf(s) /\ Len(s) = Len(calls) /\ s[Len(s)] = d
      /\ \A k \in 1 .. Len(calls) - 1 : s[k] = calls[k]
  BY <1>4 DEF Changed
<1>7. Added(s, Search(m), calls')
  BY <1>1, <1>2, <1>6, Pushed, Begins
<1>8. /\ StackOf(calls') /\ Len(calls') = Len(s) + 1 /\ calls'[Len(calls')] = Search(m)
      /\ \A k \in 1 .. Len(s) : calls'[k] = s[k]
  BY <1>7 DEF Added
<1>9. Runs(Search(m))
  BY Begins, SearchRuns
<1>10. \A k \in 1 .. Len(calls') :
         \/ k \in 1 .. Len(calls) - 1 /\ k \in 1 .. Len(s) /\ k \in 1 .. Len(calls)
         \/ k = Len(s) /\ k \in 1 .. Len(s)
         \/ k = Len(calls')
  BY <1>1, <1>6, <1>8, TopIs
<1>11. \A k \in 1 .. Len(calls') : (k \in 1 .. Len(calls) /\ calls'[k] = calls[k]) \/ Runs(calls'[k])
  BY <1>5, <1>6, <1>8, <1>9, <1>10
<1>12. QED
  BY <1>1, <1>8, <1>11, StillRuns

(* An execution fewer, or a search. *)
LEMMA FewerRun ==
  ASSUME IInv, RInv, mode = "run", UNCHANGED disk, mode' # "broken", StackOf(calls'),
         NEW n \in Nat, n <= Len(calls), Len(calls') <= n, \A k \in 1 .. Len(calls') : calls'[k] = calls[k]
  PROVE  RInv'
<1>1. Len(calls') \in Nat /\ Len(calls) \in Nat
  BY TopIs, OfSeq DEF StackOf
<1>2. \A k \in 1 .. Len(calls') : k \in 1 .. Len(calls)
  BY <1>1
<1>3. QED
  BY <1>2, StillRuns

LEMMA UnwoundRun ==
  ASSUME IInv, RInv, mode = "run", UNCHANGED disk, mode' # "broken",
         NEW q, NEW n \in Nat, q = SubSeq(calls, 1, n), n <= Len(calls), Odd(n),
         calls' = SubSeq(q, 1, Len(q) - 2)
  PROVE  RInv'
<1>1. StackOf(calls) /\ Len(calls) \in Nat /\ n \in 0 .. Len(calls)
  BY TopIs
<1>2. Shortened(calls, n, q)
  BY <1>1, Popped
<1>3. StackOf(q) /\ Len(q) = n /\ \A k \in 1 .. n : q[k] = calls[k]
  BY <1>2 DEF Shortened
<1>4. LessTwo(q, calls')
  BY <1>3, TwoPopped
<1>5. StackOf(calls') /\ Len(calls') <= n /\ Len(calls') \in Nat /\ \A k \in 1 .. Len(calls') : calls'[k] = q[k]
  <2>1. StackOf(calls') /\ \A k \in 1 .. Len(calls') : calls'[k] = q[k]
    BY <1>4 DEF LessTwo
  <2>2. (Len(calls') = 0 /\ n = 1) \/ (n >= 3 /\ Len(calls') = n - 2)
    BY <1>3, <1>4 DEF LessTwo
  <2>3. QED
    BY <2>1, <2>2
<1>6. \A k \in 1 .. Len(calls') : calls'[k] = calls[k]
  BY <1>3, <1>5
<1>7. QED
  BY <1>5, <1>6, FewerRun

LEMMA WholeStack ==
  ASSUME IInv, mode = "run"
  PROVE  SubSeq(calls, 1, Len(calls)) = calls
<1> DEFINE S == Range(calls)
<1>1. calls \in Seq(S)
  BY TopIs DEF StackOf, IsSeq
<1> HIDE DEF S
<1>2. QED
  BY <1>1

LEMMA FailRuns ==
  ASSUME IInv, RInv, Fail \/ EndLoop
  PROVE  RInv'
<1>1. /\ Executing /\ mode = "run" /\ UNCHANGED disk /\ mode' # "broken"
      /\ calls' = SubSeq(calls, 1, Len(calls) - 2)
  BY DEF Fail, EndLoop, AfterFailure, InLoop, Executing
<1>2. Odd(Len(calls)) /\ Len(calls) \in Nat /\ Len(calls) <= Len(calls)
  BY <1>1, Running
<1>3. QED
  BY <1>1, <1>2, WholeStack, UnwoundRun

LEMMA GiveUpRuns ==
  ASSUME IInv, RInv, GiveUp
  PROVE  RInv'
<1> DEFINE b == Below
           n == Len(calls) - 1
<1>1. Searching /\ mode = "run" /\ UNCHANGED disk /\ mode' # "broken" /\ calls' = SubSeq(b, 1, Len(b) - 2)
  BY DEF GiveUp, AfterFailure, Searching
<1>2. n \in Nat /\ ~Odd(n + 1) /\ n <= Len(calls) /\ b = SubSeq(calls, 1, n)
  BY <1>1, Looking DEF Below, Front
<1> HIDE DEF b, n
<1>3. Odd(n)
  BY <1>2, Parity
<1>4. QED
  BY <1>1, <1>2, <1>3, UnwoundRun

LEMMA PassedRuns ==
  ASSUME IInv, RInv, Searching, UNCHANGED <<disk, mode>>, calls' = NextOne
  PROVE  RInv'
<1> DEFINE d == [TopCall EXCEPT !.next = @ + 1]
<1>1. mode = "run" /\ Searches(TopCall) /\ ~Odd(Len(calls))
  BY Looking
<1>2. Searches(d)
  BY <1>1, GoesOn
<1>3. calls' = Append(Below, d)
  BY DEF NextOne
<1> HIDE DEF d
<1>4. QED
  BY <1>1, <1>2, <1>3, TopMovesRuns

LEMMA LoadLibraryRuns ==
  ASSUME IInv, RInv, LoadLibrary
  PROVE  RInv'
<1>1. Searching /\ mode = "run" /\ UNCHANGED <<disk, mode>>
  BY DEF LoadLibrary, HasNext, Searching
<1>2. CASE calls' = NextOne
  BY <1>1, <1>2, PassedRuns
<1>3. CASE calls' = Below
  <2> DEFINE n == Len(calls) - 1
  <2>1. n \in Nat /\ n <= Len(calls) /\ n \in 0 .. Len(calls) /\ calls' = SubSeq(calls, 1, n) /\ StackOf(calls)
    BY <1>1, <1>3, Looking DEF Below, Front
  <2> HIDE DEF n
  <2>2. Shortened(calls, n, calls')
    BY <2>1, Popped
  <2>3. StackOf(calls') /\ Len(calls') <= n /\ \A k \in 1 .. Len(calls') : calls'[k] = calls[k]
    BY <2>1, <2>2 DEF Shortened
  <2>4. mode' # "broken"
    BY <1>1
  <2>5. QED
    BY <1>1, <2>1, <2>3, <2>4, FewerRun
<1>4. calls' = NextOne \/ calls' = Below
  BY DEF LoadLibrary
<1>5. QED
  BY <1>2, <1>3, <1>4

(* Code that can be loaded, and is what was compiled if it was, or that    *)
(* was cut short.                                                          *)
LEMMA ExecuteRuns ==
  ASSUME IInv, RInv, HasNext, NEW code, Execute(Candidate, code),
         Loads(code) \/ cut # {}, Runs(Execution(Candidate, TopLevel(code)))
  PROVE  RInv'
<1> DEFINE x == Execution(Candidate, TopLevel(code))
<1>1. /\ Searching /\ mode = "run" /\ mode' = (IF Loads(code) THEN mode ELSE "broken")
      /\ calls' = Append(calls, x) /\ UNCHANGED disk
  BY DEF Execute, HasNext, Searching
<1>2. Executes(x) /\ StackOf(calls) /\ ~Odd(Len(calls)) /\ Len(calls) \in Nat
  BY <1>1, Looking, Begins
<1> HIDE DEF x
<1>3. Added(calls, x, calls')
  BY <1>1, <1>2, Pushed
<1>4. /\ StackOf(calls') /\ Len(calls') = Len(calls) + 1 /\ calls'[Len(calls')] = x
      /\ \A k \in 1 .. Len(calls) : calls'[k] = calls[k]
  BY <1>3 DEF Added
<1>5. CASE mode' = "broken"
  <2>1. cut' # {}
    BY <1>1, <1>5, DiskStays
  <2>2. RunsWhatWasCompiled'
    BY <1>5, <2>1 DEF RunsWhatWasCompiled
  <2>3. QED
    BY <1>1, <2>2, DiskStays DEF RInv
<1>6. CASE mode' # "broken"
  <2>1. \A k \in 1 .. Len(calls') : k \in 1 .. Len(calls) \/ k = Len(calls')
    BY <1>2, <1>4
  <2>2. Runs(x)
    BY DEF x
  <2>3. QED
    BY <1>1, <1>4, <1>6, <2>1, <2>2, StillRuns
<1>7. QED
  BY <1>5, <1>6

LEMMA LoadBytecodeFileRuns ==
  ASSUME IInv, RInv, LoadBytecodeFile
  PROVE  RInv'
<1> DEFINE p  == Candidate
           fs == files[p].fields
           q  == load_bytecode(fs)
<1>1. HasNext /\ Searching /\ p \in DOMAIN files /\ files[p].kind = "sbc"
  BY DEF LoadBytecodeFile, HasNext, Exists
<1>2. CASE IsLoadable(fs)
  <2>1. Execute(p, q)
    BY <1>2 DEF LoadBytecodeFile
  <2> DEFINE x == Execution(p, TopLevel(q))
  <2>2. x.fn = "vm_execute" /\ x.file = p /\ x.code = TopLevel(q)
    BY DEF Execution
  <2>3. CASE p \in DOMAIN given
    <3> DEFINE t == given[p]
    <3>1. Sound(t) /\ HoldsItsText(p)
      BY <2>3 DEF RInv, Stored
    <3>2. PICK n \in 0 .. Len(save_bytecode(t)) :
            /\ files[p] = Bytecode(SubSeq(save_bytecode(t), 1, n))
            /\ p \notin cut => n = Len(save_bytecode(t))
      BY <3>1 DEF HoldsItsText
    <3>3. fs = SubSeq(save_bytecode(t), 1, n)
      BY <3>2 DEF Bytecode
    <3> HIDE DEF fs, t
    <3>4. /\ n = Len(save_bytecode(t)) => q = t
          /\ TopLevel(q) = <<>> \/ IsPrefix(Front(TopLevel(q)), TopLevel(t))
      BY <1>2, <3>1, <3>2, <3>3, ComesBack
    <3>5. Loads(t)
      BY <3>1 DEF Sound
    <3> HIDE DEF q, x, p
    <3>6. Loads(q) \/ cut # {}
      BY <3>2, <3>4, <3>5
    <3>7. Runs(x)
      BY <2>2, <3>2, <3>4 DEF Runs, t
    <3>8. QED
      BY <1>1, <2>1, <3>6, <3>7, ExecuteRuns DEF x, p
  <2>4. CASE p \notin DOMAIN given
    <3>1. Loads(q)
      BY <1>1, <1>2, <2>4 DEF RInv, Others
    <3>2. Runs(x)
      BY <2>2, <2>4 DEF Runs
    <3>3. QED
      BY <1>1, <2>1, <3>1, <3>2, ExecuteRuns
  <2>5. QED
    BY <2>3, <2>4
<1>3. CASE ~IsLoadable(fs)
  <2>1. Refused(p)
    BY <1>3 DEF LoadBytecodeFile
  <2>2. QED
    BY <1>1, <2>1, PassedRuns DEF Refused
<1>4. QED
  BY <1>2, <1>3

(* What was compiled is bytecode. *)
LEMMA CompiledIsBytecode ==
  ASSUME RInv, NEW p \in DOMAIN given
  PROVE  files[p].kind = "sbc"
<1>1. HoldsItsText(p)
  BY DEF RInv, Stored
<1>2. QED
  BY <1>1 DEF HoldsItsText, Bytecode

LEMMA LoadSourceFileRuns ==
  ASSUME IInv, RInv, LoadSourceFile
  PROVE  RInv'
<1> DEFINE p == Candidate
           q == files[p].code
<1>1. HasNext /\ Searching /\ p \in DOMAIN files /\ files[p].kind = "sb"
  BY DEF LoadSourceFile, HasNext, Exists
<1>2. CASE files[p].ok
  <2>1. Execute(p, q)
    BY <1>2 DEF LoadSourceFile
  <2>2. Loads(q)
    BY <1>1, <1>2 DEF RInv, Others, Sound
  <2>3. p \notin DOMAIN given
    BY <1>1, CompiledIsBytecode
  <2>4. Execution(p, TopLevel(q)).file = p
    BY DEF Execution
  <2>5. Runs(Execution(p, TopLevel(q)))
    BY <2>3, <2>4 DEF Runs
  <2>6. QED
    BY <1>1, <2>1, <2>2, <2>5, ExecuteRuns
<1>3. CASE ~files[p].ok
  <2>1. Refused(p)
    BY <1>3 DEF LoadSourceFile
  <2>2. QED
    BY <1>1, <2>1, PassedRuns DEF Refused
<1>4. QED
  BY <1>2, <1>3

(* Between runs only the disk matters. *)
LEMMA DiskChanges ==
  ASSUME mode' = "idle", Stored', Others'
  PROVE  RInv'
BY DEF RInv, RunsWhatWasCompiled

LEMMA NotCompiled ==
  ASSUME IInv, RInv, NEW p, p[3] = "sb"
  PROVE  p \notin DOMAIN given /\ (p \in DOMAIN files => files[p].kind = "sb")
<1>1. /\ DOMAIN given \subseteq DOMAIN files
      /\ \A q \in DOMAIN files : files[q].kind = q[3]
  BY DEF IInv, OnDisk, Placed
<1>2. QED
  BY <1>1, CompiledIsBytecode

LEMMA EditRuns ==
  ASSUME OnlySoundCode, IInv, RInv, Edit
  PROVE  RInv'
<1>1. mode' = "idle" /\ UNCHANGED <<given, cut>>
  BY DEF Edit, Idle
<1>2. PICK p \in Edited, t \in Sources : files' = Written(files, p, t)
  BY DEF Edit
<1>3. p[3] = "sb" /\ t.kind = "sb" /\ (t.ok => Sound(t.code))
  BY DiskAssumption, PathParts DEF OnlySoundCode
<1>4. p \notin DOMAIN given
  BY <1>3, NotCompiled
<1>5. /\ DOMAIN files' = DOMAIN files \cup {p} /\ files'[p] = t
      /\ \A q \in DOMAIN files : q # p => files'[q] = files[q]
  BY <1>2 DEF Written
<1>6. ASSUME NEW c \in DOMAIN given PROVE Sound(given[c]) /\ HoldsItsText(c)'
  <2>1. c \in DOMAIN files /\ c # p
    BY <1>4 DEF IInv, OnDisk
  <2>2. files'[c] = files[c]
    BY <1>5, <2>1
  <2>3. Sound(given[c]) /\ HoldsItsText(c)
    BY DEF RInv, Stored
  <2>4. QED
    BY <1>1, <2>2, <2>3 DEF HoldsItsText
<1>7. Stored'
  BY <1>1, <1>6 DEF Stored
<1>8. Others'
  <2> SUFFICES ASSUME NEW q \in DOMAIN files'
               PROVE  /\ files'[q].kind = "sb" => (files'[q].ok => Sound(files'[q].code))
                      /\ q \notin DOMAIN given /\ files'[q].kind = "sbc" =>
                           (IsLoadable(files'[q].fields) => Loads(load_bytecode(files'[q].fields)))
    BY <1>1 DEF Others
  <2>1. CASE q = p
    BY <1>3, <1>5, <2>1
  <2>2. CASE q # p
    <3>1. q \in DOMAIN files /\ files'[q] = files[q]
      BY <1>5, <2>2
    <3>2. QED
      BY <3>1 DEF RInv, Others
  <2>3. QED
    BY <2>1, <2>2
<1>9. QED
  BY <1>1, <1>7, <1>8, DiskChanges

LEMMA WholeLength ==
  ASSUME NEW code, Sound(code)
  PROVE  Len(save_bytecode(code)) \in Nat
<1>1. code \in Seq(Range(code)) /\ \A k \in DOMAIN code : Restorable(code[k])
  BY DEF Sound
<1>2. Restored(code)
  BY <1>1 DEF Restored
<1>3. PICK l, S : Layout(code, l, S)
  BY <1>2, LaidOut
<1>4. Len(code) \in 0 .. Len(code) /\ Len(code) \in Nat
  BY <1>2 DEF Restored
<1>5. save_bytecode(code) \in Seq(S)
  BY <1>3, <1>4, LaidAgree DEF Layout
<1>6. QED
  BY <1>5

LEMMA CompileRuns ==
  ASSUME IInv, RInv, Compile
  PROVE  RInv'
<1>1. mode' = "idle"
  BY DEF Compile, Idle
<1>2. PICK p \in Edited :
        /\ Exists(p) /\ files[p].ok
        /\ LET whole == save_bytecode(files[p].code)
           IN  /\ \E n \in 0 .. Len(whole) :
                    /\ files' = Written(files, Compiled(p), Bytecode(SubSeq(whole, 1, n)))
                    /\ cut' = IF n < Len(whole) THEN cut \cup {Compiled(p)} ELSE cut \ {Compiled(p)}
               /\ given' = Written(given, Compiled(p), files[p].code)
  BY DEF Compile
<1> DEFINE x == files[p].code
           whole == save_bytecode(x)
           c == Compiled(p)
<1>3. PICK n \in 0 .. Len(whole) :
        /\ files' = Written(files, c, Bytecode(SubSeq(whole, 1, n)))
        /\ cut' = IF n < Len(whole) THEN cut \cup {c} ELSE cut \ {c}
  BY <1>2
<1>4. given' = Written(given, c, x)
  BY <1>2
<1>5. Sound(x)
  <2>1. p[3] = "sb"
    BY DiskAssumption, PathParts
  <2>2. p \in DOMAIN files /\ files[p].kind = "sb" /\ files[p].ok
    BY <1>2, <2>1, NotCompiled DEF Exists
  <2>3. QED
    BY <2>2 DEF RInv, Others
<1>6. Len(whole) \in Nat
  BY <1>5, WholeLength
<1> DEFINE t == Bytecode(SubSeq(whole, 1, n))
<1> HIDE DEF c, x
<1>7. /\ DOMAIN files' = DOMAIN files \cup {c} /\ files'[c] = t
      /\ \A q \in DOMAIN files : q # c => files'[q] = files[q]
  BY <1>3 DEF Written
<1>8. /\ DOMAIN given' = DOMAIN given \cup {c} /\ given'[c] = x
      /\ \A q \in DOMAIN given : q # c => given'[q] = given[q]
  BY <1>4 DEF Written
<1>9. /\ c \notin cut' => n = Len(whole)
      /\ \A d : d # c => (d \in cut' <=> d \in cut)
  BY <1>3, <1>6
<1>10. ASSUME NEW d \in DOMAIN given' PROVE Sound(given'[d]) /\ HoldsItsText(d)'
  <2>1. CASE d = c
    <3>1. given'[d] = x /\ files'[d] = t
      BY <1>7, <1>8, <2>1
    <3>2. d \notin cut' => n = Len(whole)
      BY <1>9, <2>1
    <3>3. \E m \in 0 .. Len(save_bytecode(given'[d])) :
            /\ files'[d] = Bytecode(SubSeq(save_bytecode(given'[d]), 1, m))
            /\ d \notin cut' => m = Len(save_bytecode(given'[d]))
      BY <3>1, <3>2
    <3>4. QED
      BY <1>5, <3>1, <3>3 DEF HoldsItsText
  <2>2. CASE d # c
    <3>1. d \in DOMAIN given /\ given'[d] = given[d]
      BY <1>8, <2>2
    <3>2. files'[d] = files[d]
      BY <1>7, <2>2, <3>1 DEF IInv, OnDisk
    <3>3. Sound(given[d]) /\ HoldsItsText(d)
      BY <3>1 DEF RInv, Stored
    <3>4. d \in cut' <=> d \in cut
      BY <1>9, <2>2
    <3>5. QED
      BY <3>1, <3>2, <3>3, <3>4 DEF HoldsItsText
  <2>3. QED
    BY <2>1, <2>2
<1>11. Stored'
  BY <1>10 DEF Stored
<1>12. Others'
  <2> SUFFICES ASSUME NEW q \in DOMAIN files'
               PROVE  /\ files'[q].kind = "sb" => (files'[q].ok => Sound(files'[q].code))
                      /\ q \notin DOMAIN given' /\ files'[q].kind = "sbc" =>
                           (IsLoadable(files'[q].fields) => Loads(load_bytecode(files'[q].fields)))
    BY DEF Others
  <2>1. CASE q = c
    <3>1. q \in DOMAIN given' /\ files'[q].kind = "sbc"
      BY <1>7, <1>8, <2>1 DEF Bytecode
    <3>2. QED
      BY <3>1
  <2>2. CASE q # c
    <3>1. q \in DOMAIN files /\ files'[q] = files[q] /\ (q \notin DOMAIN given' => q \notin DOMAIN given)
      BY <1>7, <1>8, <2>2
    <3>2. QED
      BY <3>1 DEF RInv, Others
  <2>3. QED
    BY <2>1, <2>2
<1>13. QED
  BY <1>1, <1>11, <1>12, DiskChanges

LEMMA StartRuns ==
  ASSUME IInv, RInv, Start
  PROVE  RInv'
<1> DEFINE x == Execution(Main, files[Main].code)
<1>1. calls' = <<x>> /\ mode' = "run" /\ UNCHANGED disk
  BY DEF Start
<1>2. Main[3] = "sb"
  BY PathParts DEF Main
<1>3. Main \notin DOMAIN given
  BY <1>2, NotCompiled
<1>4. x.file = Main
  BY DEF Execution
<1> HIDE DEF x
<1>5. Runs(x)
  BY <1>3, <1>4 DEF Runs
<1>6. \A k \in DOMAIN calls' : calls'[k] = x
  BY <1>1
<1>7. \A k \in DOMAIN calls' : Runs(calls'[k])
  BY <1>5, <1>6
<1>8. (\A k \in DOMAIN calls : Runs(calls[k]))'
  <2>1. \A c : Runs(c) => Runs(c)'
    BY <1>1, DiskStays
  <2>2. QED
    BY <1>7, <2>1
<1>9. (mode = "broken" => cut # {})'
  BY <1>1
<1>10. RunsWhatWasCompiled'
  BY <1>8, <1>9, Zenon DEF RunsWhatWasCompiled, Runs
<1>11. QED
  BY <1>1, <1>10, DiskStays DEF RInv

LEMMA SoundAtFirst ==
  ASSUME OnlySoundCode, Init
  PROVE  RInv
<1>1. PICK s \in Setups : files = s.files
  BY DEF Init
<1>2. mode = "idle" /\ given = <<>>
  BY DEF Init
<1>3. DOMAIN given = {}
  BY <1>2, NoSeq, OfSeq
<1>4. \A p \in DOMAIN files :
        /\ files[p].kind = "sb" => (files[p].ok => Sound(files[p].code))
        /\ files[p].kind = "sbc" => (IsLoadable(files[p].fields) => Loads(load_bytecode(files[p].fields)))
  BY <1>1 DEF OnlySoundCode
<1>5. Stored
  BY <1>3 DEF Stored
<1>6. Others
  BY <1>4 DEF Others
<1>7. QED
  BY <1>2, <1>5, <1>6 DEF RInv, RunsWhatWasCompiled

LEMMA StutterRuns ==
  ASSUME RInv, UNCHANGED vars
  PROVE  RInv'
<1>1. UNCHANGED disk /\ calls' = calls /\ mode' = mode
  BY DEF vars
<1>2. /\ mode = "broken" => cut # {}
      /\ mode = "run" => \A k \in DOMAIN calls : Runs(calls[k])
  BY RunsIs DEF RInv
<1>3. (mode = "run" => \A k \in DOMAIN calls : Runs(calls[k]))'
  BY <1>1, <1>2, DiskStays
<1>4. (mode = "broken" => cut # {})'
  BY <1>1, <1>2, DiskStays
<1>5. RunsWhatWasCompiled'
  BY <1>3, <1>4, Zenon DEF RunsWhatWasCompiled, Runs
<1>6. QED
  BY <1>1, <1>5, DiskStays DEF RInv

LEMMA RunsInductive ==
  ASSUME OnlySoundCode, IInv, RInv, [Next]_vars
  PROVE  RInv'
<1>1. CASE Edit
  BY <1>1, EditRuns
<1>2. CASE Compile
  BY <1>2, CompileRuns
<1>3. CASE Start
  BY <1>3, StartRuns
<1>4. CASE Step
  BY <1>4, StepRuns
<1>5. CASE Fail \/ EndLoop
  BY <1>5, FailRuns
<1>6. CASE LoadModule
  BY <1>6, LoadModuleRuns
<1>7. CASE Absent
  BY <1>7, PassedRuns DEF Absent, HasNext
<1>8. CASE LoadLibrary
  BY <1>8, LoadLibraryRuns
<1>9. CASE LoadBytecodeFile
  BY <1>9, LoadBytecodeFileRuns
<1>10. CASE LoadSourceFile
  BY <1>10, LoadSourceFileRuns
<1>11. CASE GiveUp
  BY <1>11, GiveUpRuns
<1>12. CASE UNCHANGED vars
  BY <1>12, StutterRuns
<1>13. QED
  BY <1>1, <1>2, <1>3, <1>4, <1>5, <1>6, <1>7, <1>8, <1>9, <1>10, <1>11, <1>12 DEF Next, Run

(* If all that parses is code that a bytecode file gives back, what is     *)
(* executed of a compiled file is its text, instruction by instruction; of *)
(* one that was cut short, a beginning of it, and only then can loading    *)
(* read what is not there.                                                 *)
THEOREM CompiledRunsAsText ==
  OnlySoundCode => (Spec => []RunsWhatWasCompiled)
<1> SUFFICES ASSUME OnlySoundCode PROVE Spec => []RunsWhatWasCompiled
  OBVIOUS
<1>1. Init => RInv
  BY SoundAtFirst
<1>2. IInv /\ RInv /\ [Next]_vars => RInv'
  BY RunsInductive
<1>3. RInv => RunsWhatWasCompiled
  BY DEF RInv
<1>4. QED
  BY <1>1, <1>2, <1>3, Invariant, PTL DEF Spec

(* What save_bytecode writes of such code, load_bytecode gives back.       *)
THEOREM RoundTrip ==
  \A code : Sound(code) => load_bytecode(save_bytecode(code)) = code
<1> SUFFICES ASSUME NEW code, Sound(code) PROVE load_bytecode(save_bytecode(code)) = code
  OBVIOUS
<1> DEFINE w == save_bytecode(code)
           n == Len(w)
           file == SubSeq(w, 1, n)
<1>1. n \in Nat
  BY WholeLength
<1>2. /\ w \in Seq(Range(w)) /\ n >= 2 /\ w[1] = Magic /\ w[2].f = "count"
  <2>1. code \in Seq(Range(code)) /\ \A k \in DOMAIN code : Restorable(code[k])
    BY DEF Sound
  <2>2. Restored(code)
    BY <2>1 DEF Restored
  <2>3. PICK l, S : Layout(code, l, S)
    BY <2>2, LaidOut
  <2>4. Len(code) \in Nat /\ 0 \in 0 .. Len(code) /\ Len(code) \in 0 .. Len(code)
    BY <2>2 DEF Restored
  <2>5. w = l[Len(code)] /\ l[0] = <<Magic, Count(Len(code))>>
    BY <2>3 DEF Layout
  <2>6. w \in Seq(S) /\ Len(l[0]) <= n /\ \A i \in 1 .. Len(l[0]) : w[i] = l[0][i]
    <3> DEFINE N == Len(code)
    <3>1. N \in 0 .. N /\ 0 \in 0 .. N /\ N \in Nat
      BY <2>4
    <3>2. \A k \in 0 .. N : l[k] \in Seq(S) /\ Len(l[k]) <= Len(l[N]) /\ \A i \in 1 .. Len(l[k]) : l[N][i] = l[k][i]
      BY <2>3, <2>4, LaidAgree
    <3>3. w = l[N]
      BY <2>5
    <3> HIDE DEF w, N
    <3>4. QED
      BY <3>1, <3>2, <3>3
  <2> HIDE DEF w
  <2>7. IsSeq(w)
    BY <2>6, SeqIs
  <2>8. Len(l[0]) = 2 /\ l[0][1] = Magic /\ l[0][2] = Count(Len(code))
    BY <2>5
  <2>9. w[1] = Magic /\ w[2] = Count(Len(code))
    BY <2>6, <2>8
  <2>10. Count(Len(code)).f = "count"
    BY DEF Count
  <2>11. QED
    BY <2>6, <2>7, <2>8, <2>9, <2>10 DEF IsSeq
<1> HIDE DEF w
<1>3. file = w
  BY <1>2
<1>4. IsLoadable(file)
  BY <1>2, <1>3 DEF IsLoadable
<1>5. n \in 0 .. Len(save_bytecode(code))
  BY <1>1 DEF w
<1>6. QED
  BY <1>3, <1>4, <1>5, ComesBack DEF w

=============================================================================
