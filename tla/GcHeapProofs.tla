---------------------------- MODULE GcHeapProofs ----------------------------
(***************************************************************************)
(* GcHeap, for every set of addresses, program and threshold: the counts   *)
(* of the collector, the list of its objects, and what is never freed      *)
(* while it is in use.                                                     *)
(***************************************************************************)
EXTENDS GcHeap, CommonLemmas, FiniteSetTheorems

(* The actions that change gc_objects or the memory of objects.            *)
Allocates == \E v : Allocated(v)
Frees     == \E vs : Freed(vs)
Fills     == DoPushItem \/ DoSetItem

LEMMA Steps ==
  Next => UNCHANGED gcVars \/ Allocates \/ Frees \/ DoFreeRaw \/ Fills
<1> SUFFICES ASSUME Next
             PROVE  UNCHANGED gcVars \/ Allocates \/ Frees \/ DoFreeRaw \/ Fills
  OBVIOUS
<1>1. CASE Instruction
  <2>1. ASSUME NEW op, NEW calls, NEW rs, Execute(op, calls, rs)
        PROVE  UNCHANGED gcVars
    BY <2>1 DEF Execute
  <2>2. QED
    BY <1>1, <2>1 DEF Instruction, PUSH_NUM, PUSH_STR, ADD, LOGIC_NOT, LIST_NEW, LIST_PUSH,
      CALL_NATIVE, CALL, RETURN, LOAD_VAR, STORE_VAR, STORE_LIST, LIST_ACCESS, LIST_STORE,
      MEMBER_ACCESS, MEMBER_STORE
<1>2. Faulty => UNCHANGED gcVars
  BY DEF Faulty
<1>3. CASE DoPop \/ DoPush \/ DoRead \/ DoSet \/ DoAdd \/ DoGetItem \/ DoEnter \/ DoPeek
  BY <1>2, <1>3 DEF DoPop, DoPush, DoRead, DoSet, DoAdd, DoGetItem, DoEnter, DoPeek
<1>4. CASE DoCopy
  BY <1>2, <1>4 DEF DoCopy
<1>5. CASE DoNew
  BY <1>5 DEF DoNew, Allocates
<1>6. CASE DoFillVar
  BY <1>2, <1>6 DEF DoFillVar, Allocates
<1>7. CASE DoFree \/ DoFreeVar \/ DoLeave
  BY <1>7 DEF DoFree, DoFreeVar, DoLeave, Frees
<1>8. CASE DoPushItem \/ DoSetItem
  BY <1>8 DEF Fills
<1>9. QED
  BY <1>1, <1>3, <1>4, <1>5, <1>6, <1>7, <1>8 DEF Next

LEMMA FillsInPlace ==
  Fills => UNCHANGED <<objs, bytes, threshold>> /\ DOMAIN heap' = DOMAIN heap
BY DEF Fills, DoPushItem, DoSetItem, Faulty, gcVars

(***************************************************************************)
(* The count of bytes.                                                     *)
(***************************************************************************)

Counted == IsFiniteSet(objs) /\ bytes \in Nat /\ bytes >= Cardinality(objs)

(* A collection counts what it sweeps.                                     *)
LEMMA CollectedIsCounted ==
  ASSUME Counted
  PROVE  /\ IsFiniteSet(Collected.objs) /\ Collected.bytes \in Nat
         /\ Collected.bytes >= Cardinality(Collected.objs)
<1> DEFINE swept == objs \ Marked
           kept  == objs \cap Marked
           left  == IF bytes > Cardinality(swept) THEN bytes - Cardinality(swept) ELSE 0
<1>1. kept = objs \ swept /\ swept \subseteq objs
  OBVIOUS
<1>2. /\ IsFiniteSet(objs) /\ bytes \in Nat /\ bytes >= Cardinality(objs)
  BY DEF Counted
<1> HIDE DEF swept, kept
<1>3. /\ IsFiniteSet(swept) /\ IsFiniteSet(kept) /\ Cardinality(objs) \in Nat
      /\ Cardinality(swept) \in Nat /\ Cardinality(kept) \in Nat
  BY <1>1, <1>2, FS_Subset, FS_CardinalityType, FS_Difference
<1>4. Cardinality(kept) = Cardinality(objs) - Cardinality(swept)
  <2>1. objs \cap swept = swept
    BY <1>1
  <2>2. Cardinality(objs \ swept) = Cardinality(objs) - Cardinality(objs \cap swept)
    BY <1>2, FS_Difference
  <2>3. QED
    BY <1>1, <2>1, <2>2
<1>5. left \in Nat /\ left >= Cardinality(kept)
  BY <1>2, <1>3, <1>4
<1>6. \/ Collected.objs = objs /\ Collected.bytes = bytes
      \/ Collected.objs = kept /\ Collected.bytes = left
  BY DEF Collected, swept, kept
<1>7. QED
  BY <1>2, <1>3, <1>5, <1>6

LEMMA CountedStays ==
  Counted /\ [Next]_vars => Counted'
<1> SUFFICES ASSUME Counted, [Next]_vars PROVE Counted'
  OBVIOUS
<1>1. CASE UNCHANGED <<objs, bytes>>
  BY <1>1 DEF Counted
<1>2. CASE Allocates
  <2>1. PICK v : objs' = Collected.objs \cup {v} /\ bytes' = Collected.bytes + 1
    BY <1>2 DEF Allocates, Allocated
  <2> DEFINE k == Collected.objs
             b == Collected.bytes
  <2>2. IsFiniteSet(k) /\ b \in Nat /\ b >= Cardinality(k)
    BY CollectedIsCounted
  <2>3. objs' = k \cup {v} /\ bytes' = b + 1
    BY <2>1
  <2> HIDE DEF k, b
  <2>4. /\ IsFiniteSet(k \cup {v}) /\ Cardinality(k) \in Nat
        /\ Cardinality(k \cup {v}) = IF v \in k THEN Cardinality(k) ELSE Cardinality(k) + 1
    BY <2>2, FS_AddElement, FS_CardinalityType
  <2>5. QED
    BY <2>2, <2>3, <2>4 DEF Counted
<1>3. CASE Frees
  <2>1. PICK gone : objs' = objs \ gone /\ bytes' = bytes
    BY <1>3 DEF Frees, Freed
  <2>2. IsFiniteSet(objs') /\ Cardinality(objs') <= Cardinality(objs)
    BY <2>1, FS_Subset DEF Counted
  <2>3. Cardinality(objs) \in Nat /\ Cardinality(objs') \in Nat
    BY <2>2, FS_CardinalityType DEF Counted
  <2>4. QED
    BY <2>1, <2>2, <2>3 DEF Counted
<1>4. DoFreeRaw => UNCHANGED <<objs, bytes>>
  BY DEF DoFreeRaw, Faulty, gcVars
<1>5. QED
  BY <1>1, <1>2, <1>3, <1>4, Steps, FillsInPlace DEF gcVars, vars

(* gc_bytes_allocated never falls below what is allocated, at any          *)
(* threshold and whatever is freed by hand: the next collection is never   *)
(* put off because of it.                                                  *)
THEOREM BytesAreEnough ==
  Spec => []BytesCoverObjects
<1>1. Init => Counted
  BY FS_EmptySet DEF Init, Counted
<1>2. Counted => BytesCoverObjects
  BY DEF Counted, BytesCoverObjects
<1>3. QED
  BY <1>1, <1>2, CountedStays, PTL DEF Spec
(***************************************************************************)
(* The objects and their memory.                                           *)
(***************************************************************************)

(* Objects leave gc_objects with their memory: one address, one object.    *)
Tracked == /\ TrackedIsAllocated
           /\ \A v, w \in objs : v.at = w.at => v = w

LEMMA KeptTracked ==
  ASSUME Tracked, NEW gone \in SUBSET objs,
         NEW h, NEW o, h = Without({v.at : v \in gone}), o = objs \ gone
  PROVE  /\ {v.at : v \in o} = DOMAIN h
         /\ \A v, w \in o : v.at = w.at => v = w
<1>1. DOMAIN h = DOMAIN heap \ {v.at : v \in gone}
  BY DEF Without
<1>2. {v.at : v \in objs} = DOMAIN heap /\ \A v, w \in objs : v.at = w.at => v = w
  BY DEF Tracked, TrackedIsAllocated
<1>3. ASSUME NEW a \in DOMAIN h
      PROVE  a \in {v.at : v \in o}
  <2>1. PICK v \in objs : v.at = a
    BY <1>1, <1>2
  <2>2. v \notin gone
    BY <1>1, <2>1
  <2>3. QED
    BY <2>1, <2>2
<1>4. ASSUME NEW v \in o
      PROVE  v.at \in DOMAIN h
  <2>1. v \in objs /\ v \notin gone /\ v.at \in DOMAIN heap
    BY <1>2
  <2>2. \A w \in gone : w.at # v.at
    BY <1>2, <2>1
  <2>3. QED
    BY <1>1, <2>1, <2>2
<1>5. \A v, w \in o : v.at = w.at => v = w
  BY <1>2
<1>6. {v.at : v \in o} = DOMAIN h
  BY <1>3, <1>4
<1>7. QED
  BY <1>5, <1>6

LEMMA CollectedTracked ==
  ASSUME Tracked
  PROVE  /\ {v.at : v \in Collected.objs} = DOMAIN Collected.heap
         /\ \A v, w \in Collected.objs : v.at = w.at => v = w
<1> DEFINE swept == objs \ Marked
           h == Without({v.at : v \in swept})
           o == objs \cap Marked
<1>1. o = objs \ swept /\ swept \in SUBSET objs
  OBVIOUS
<1>2. \/ Collected.objs = objs /\ Collected.heap = heap
      \/ Collected.objs = o /\ Collected.heap = h
  BY DEF Collected
<1> HIDE DEF o, swept
<1>3. /\ {v.at : v \in o} = DOMAIN h
      /\ \A v, w \in o : v.at = w.at => v = w
  BY <1>1, KeptTracked
<1> HIDE DEF h
<1>4. QED
  BY <1>2, <1>3 DEF Tracked, TrackedIsAllocated

LEMMA TrackedStays ==
  ASSUME Tracked, [Next]_vars, DoFreeRaw => UNCHANGED objs /\ DOMAIN heap' = DOMAIN heap
  PROVE  Tracked'
<1>1. CASE UNCHANGED objs /\ DOMAIN heap' = DOMAIN heap
  BY <1>1 DEF Tracked, TrackedIsAllocated
<1>2. CASE Allocates
  <2>1. PICK v : /\ v.at \notin DOMAIN Collected.heap
                 /\ heap' = With(Collected.heap, v.at, <<>>)
                 /\ objs' = Collected.objs \cup {v}
    BY <1>2 DEF Allocates, Allocated
  <2> DEFINE k == Collected.objs
             h == Collected.heap
  <2>2. /\ v.at \notin DOMAIN h /\ heap' = With(h, v.at, <<>>) /\ objs' = k \cup {v}
        /\ {w.at : w \in k} = DOMAIN h
        /\ \A w, x \in k : w.at = x.at => w = x
    BY <2>1, CollectedTracked
  <2> HIDE DEF k, h
  <2>3. DOMAIN heap' = DOMAIN h \cup {v.at}
    BY <2>2 DEF With
  <2>4. {w.at : w \in objs'} = DOMAIN heap'
    <3>1. {w.at : w \in k \cup {v}} = {w.at : w \in k} \cup {v.at}
      OBVIOUS
    <3>2. QED
      BY <2>2, <2>3, <3>1
  <2>5. \A w, x \in objs' : w.at = x.at => w = x
    <3>1. \A w \in k : w.at # v.at
      BY <2>2
    <3>2. QED
      BY <2>2, <3>1
  <2>6. QED
    BY <2>4, <2>5 DEF Tracked, TrackedIsAllocated
<1>3. CASE Frees
  <2>1. PICK vs : Freed(vs)
    BY <1>3 DEF Frees
  <2> DEFINE gone == TrackedWhere(vs)
  <2>2. gone \in SUBSET objs /\ heap' = Without({v.at : v \in gone}) /\ objs' = objs \ gone
    BY <2>1 DEF Freed, TrackedWhere
  <2> HIDE DEF gone
  <2>3. /\ {v.at : v \in objs'} = DOMAIN heap'
        /\ \A v, w \in objs' : v.at = w.at => v = w
    BY <2>2, KeptTracked
  <2>4. QED
    BY <2>3 DEF Tracked, TrackedIsAllocated
<1>4. QED
  BY <1>1, <1>2, <1>3, Steps, FillsInPlace DEF gcVars, vars

(***************************************************************************)
(* free_value, which leaves gc_objects as it is, finds nothing to free     *)
(* when only values without memory are negated.                            *)
(***************************************************************************)

LEMMA ReachesItself ==
  ASSUME NEW v, NEW W, v.is # "list"
  PROVE  ReachedFrom({v}, W) = {v}
<1> DEFINE Items(u) == IF u \in W /\ u.is = "list" THEN Range(ItemsOf(u)) ELSE {}
           N == Cardinality(Addr)
           E(f) == [n \in 0 .. N |->
                      IF n = 0 THEN {v} ELSE f[n - 1] \cup UNION {Items(u) : u \in f[n - 1]}]
           step == CHOOSE f : f = E(f)
           T == {n \in Nat : n \in 0 .. N => step[n] = {v}}
<1>1. N \in Nat
  BY NamesAssumption, FS_CardinalityType
<1>2. ReachedFrom({v}, W) = step[N]
  BY DEF ReachedFrom
<1>3. {v} \cup UNION {Items(u) : u \in {v}} = {v}
  OBVIOUS
<1> HIDE DEF Items, N
<1>4. step = E(step)
  <2> DEFINE g == [n \in 0 .. N |-> {v}]
  <2>1. g = E(g)
    <3>1. \A n \in 0 .. N : n # 0 => g[n - 1] = {v}
      BY <1>1
    <3>2. QED
      BY <1>3, <3>1
  <2>2. \E f : f = E(f)
    BY <2>1
  <2> HIDE DEF E
  <2>3. QED
    BY <2>2
<1> HIDE DEF step
<1>5. 0 \in T
  BY <1>1, <1>4
<1>6. \A n \in Nat : n \in T => n + 1 \in T
  <2> SUFFICES ASSUME NEW n \in Nat, n \in T, n + 1 \in 0 .. N
               PROVE  step[n + 1] = {v}
    OBVIOUS
  <2>1. step[n] = {v}
    BY <1>1
  <2>2. n + 1 # 0 /\ (n + 1) - 1 = n
    OBVIOUS
  <2>3. step[n + 1] = step[n] \cup UNION {Items(u) : u \in step[n]}
    BY <1>4, <2>2
  <2>4. QED
    BY <1>3, <2>1, <2>3
<1>7. N \in T
  BY <1>1, <1>5, <1>6, Counting
<1>8. QED
  BY <1>1, <1>2, <1>7

(* Calls of a handler that never use free_value.                           *)
Calm(q) == \E S : q \in Seq(S) /\ \A c \in S : c.do # "free_raw"

LEMMA CalmParts ==
  ASSUME NEW p, NEW q, Calm(p), Calm(q)
  PROVE  Calm(p \o q) /\ (q # <<>> => Calm(Tail(q)) /\ q[1].do # "free_raw")
<1>1. PICK S : p \in Seq(S) /\ \A c \in S : c.do # "free_raw"
  BY DEF Calm
<1>2. PICK T : q \in Seq(T) /\ \A c \in T : c.do # "free_raw"
  BY DEF Calm
<1> DEFINE U == S \cup T
<1>3. p \o q \in Seq(U)
  <2>1. p \in Seq(U) /\ q \in Seq(U)
    BY <1>1, <1>2
  <2> HIDE DEF U
  <2>2. QED
    BY <2>1
<1>4. q # <<>> => Tail(q) \in Seq(T) /\ q[1] \in T
  BY <1>2
<1>5. QED
  BY <1>1, <1>2, <1>3, <1>4 DEF Calm

LEMMA CalmOf ==
  ASSUME NEW S, \A c \in S : c.do # "free_raw", NEW q \in Seq(S)
  PROVE  Calm(q)
BY DEF Calm

LEMMA CalmFew ==
  /\ Calm(<<>>)
  /\ \A a :
       a.do # "free_raw" => Calm(<<a>>)
  /\ \A a, b :
       a.do # "free_raw" /\ b.do # "free_raw" => Calm(<<a, b>>)
  /\ \A a, b, c :
       a.do # "free_raw" /\ b.do # "free_raw" /\ c.do # "free_raw" => Calm(<<a, b, c>>)
  /\ \A a, b, c, d :
       a.do # "free_raw" /\ b.do # "free_raw" /\ c.do # "free_raw" /\ d.do # "free_raw" => Calm(<<a, b, c, d>>)
  /\ \A a, b, c, d, e :
       a.do # "free_raw" /\ b.do # "free_raw" /\ c.do # "free_raw" /\ d.do # "free_raw" /\ e.do # "free_raw" => Calm(<<a, b, c, d, e>>)
  /\ \A a, b, c, d, e, f :
       a.do # "free_raw" /\ b.do # "free_raw" /\ c.do # "free_raw" /\ d.do # "free_raw" /\ e.do # "free_raw" /\ f.do # "free_raw" => Calm(<<a, b, c, d, e, f>>)
  /\ \A a, b, c, d, e, f, g :
       a.do # "free_raw" /\ b.do # "free_raw" /\ c.do # "free_raw" /\ d.do # "free_raw" /\ e.do # "free_raw" /\ f.do # "free_raw" /\ g.do # "free_raw" => Calm(<<a, b, c, d, e, f, g>>)
  /\ \A a, b, c, d, e, f, g, h :
       a.do # "free_raw" /\ b.do # "free_raw" /\ c.do # "free_raw" /\ d.do # "free_raw" /\ e.do # "free_raw" /\ f.do # "free_raw" /\ g.do # "free_raw" /\ h.do # "free_raw" => Calm(<<a, b, c, d, e, f, g, h>>)
<1>0. Calm(<<>>)
  <2>1. <<>> \in Seq({})
    OBVIOUS
  <2>2. QED
    BY <2>1, CalmOf
<1>1. ASSUME NEW a, a.do # "free_raw"
      PROVE  Calm(<<a>>)
  <2> DEFINE S == {a}
  <2>1. <<a>> \in Seq(S)
    OBVIOUS
  <2>2. \A x \in S : x.do # "free_raw"
    BY <1>1
  <2> HIDE DEF S
  <2>3. QED
    BY <2>1, <2>2, CalmOf
<1>2. ASSUME NEW a, NEW b, a.do # "free_raw", b.do # "free_raw"
      PROVE  Calm(<<a, b>>)
  <2> DEFINE S == {a, b}
  <2>1. <<a, b>> \in Seq(S)
    OBVIOUS
  <2>2. \A x \in S : x.do # "free_raw"
    BY <1>2
  <2> HIDE DEF S
  <2>3. QED
    BY <2>1, <2>2, CalmOf
<1>3. ASSUME NEW a, NEW b, NEW c, a.do # "free_raw", b.do # "free_raw", c.do # "free_raw"
      PROVE  Calm(<<a, b, c>>)
  <2> DEFINE S == {a, b, c}
  <2>1. <<a, b, c>> \in Seq(S)
    OBVIOUS
  <2>2. \A x \in S : x.do # "free_raw"
    BY <1>3
  <2> HIDE DEF S
  <2>3. QED
    BY <2>1, <2>2, CalmOf
<1>4. ASSUME NEW a, NEW b, NEW c, NEW d, a.do # "free_raw", b.do # "free_raw", c.do # "free_raw", d.do # "free_raw"
      PROVE  Calm(<<a, b, c, d>>)
  <2> DEFINE S == {a, b, c, d}
  <2>1. <<a, b, c, d>> \in Seq(S)
    OBVIOUS
  <2>2. \A x \in S : x.do # "free_raw"
    BY <1>4
  <2> HIDE DEF S
  <2>3. QED
    BY <2>1, <2>2, CalmOf
<1>5. ASSUME NEW a, NEW b, NEW c, NEW d, NEW e, a.do # "free_raw", b.do # "free_raw", c.do # "free_raw", d.do # "free_raw", e.do # "free_raw"
      PROVE  Calm(<<a, b, c, d, e>>)
  <2> DEFINE S == {a, b, c, d, e}
  <2>1. <<a, b, c, d, e>> \in Seq(S)
    OBVIOUS
  <2>2. \A x \in S : x.do # "free_raw"
    BY <1>5
  <2> HIDE DEF S
  <2>3. QED
    BY <2>1, <2>2, CalmOf
<1>6. ASSUME NEW a, NEW b, NEW c, NEW d, NEW e, NEW f, a.do # "free_raw", b.do # "free_raw", c.do # "free_raw", d.do # "free_raw", e.do # "free_raw", f.do # "free_raw"
      PROVE  Calm(<<a, b, c, d, e, f>>)
  <2> DEFINE S == {a, b, c, d, e, f}
  <2>1. <<a, b, c, d, e, f>> \in Seq(S)
    OBVIOUS
  <2>2. \A x \in S : x.do # "free_raw"
    BY <1>6
  <2> HIDE DEF S
  <2>3. QED
    BY <2>1, <2>2, CalmOf
<1>7. ASSUME NEW a, NEW b, NEW c, NEW d, NEW e, NEW f, NEW g, a.do # "free_raw", b.do # "free_raw", c.do # "free_raw", d.do # "free_raw", e.do # "free_raw", f.do # "free_raw", g.do # "free_raw"
      PROVE  Calm(<<a, b, c, d, e, f, g>>)
  <2> DEFINE S == {a, b, c, d, e, f, g}
  <2>1. <<a, b, c, d, e, f, g>> \in Seq(S)
    OBVIOUS
  <2>2. \A x \in S : x.do # "free_raw"
    BY <1>7
  <2> HIDE DEF S
  <2>3. QED
    BY <2>1, <2>2, CalmOf
<1>8. ASSUME NEW a, NEW b, NEW c, NEW d, NEW e, NEW f, NEW g, NEW h, a.do # "free_raw", b.do # "free_raw", c.do # "free_raw", d.do # "free_raw", e.do # "free_raw", f.do # "free_raw", g.do # "free_raw", h.do # "free_raw"
      PROVE  Calm(<<a, b, c, d, e, f, g, h>>)
  <2> DEFINE S == {a, b, c, d, e, f, g, h}
  <2>1. <<a, b, c, d, e, f, g, h>> \in Seq(S)
    OBVIOUS
  <2>2. \A x \in S : x.do # "free_raw"
    BY <1>8
  <2> HIDE DEF S
  <2>3. QED
    BY <2>1, <2>2, CalmOf
<1>9. QED
  BY <1>0, <1>1, <1>2, <1>3, <1>4, <1>5, <1>6, <1>7, <1>8

LEMMA CalmCalls ==
  /\ Peek.do # "free_raw" /\ Enter.do # "free_raw" /\ Leave.do # "free_raw"
  /\ \A r : /\ Pop(r).do # "free_raw" /\ Push(r).do # "free_raw"
            /\ Read(r).do # "free_raw" /\ Free(r).do # "free_raw"
  /\ \A r, s : /\ New(r, s).do # "free_raw" /\ Copy(r, s).do # "free_raw"
               /\ SetVar(r, s).do # "free_raw" /\ AddVar(r, s).do # "free_raw"
               /\ FreeVar(r, s).do # "free_raw" /\ PushItem(r, s).do # "free_raw"
  /\ \A r, s, k : /\ FillVar(r, s, k).do # "free_raw" /\ GetItem(r, s, k).do # "free_raw"
                  /\ SetItem(r, s, k).do # "free_raw"
BY DEF Peek, Enter, Leave, Pop, Push, Read, Free, New, Copy, SetVar, AddVar, FreeVar,
       PushItem, FillVar, GetItem, SetItem

(***************************************************************************)
(* The instructions and what is left of them.                              *)
(***************************************************************************)

(* A value that is negated is freed untracked; it has no memory.           *)
RawHarmless ==
  \/ Calm(todo)
  \/ todo = <<Pop("a"), Push("r"), FreeRaw("a"), Peek>> /\ ~InHeap(Top(1))
  \/ /\ todo \in {<<Push("r"), FreeRaw("a"), Peek>>, <<FreeRaw("a"), Peek>>}
     /\ ~InHeap(regs["a"])

Listed == \A a \in DOMAIN heap : \E S : heap[a] \in Seq(S)

HInv == Tracked /\ Listed /\ RawHarmless /\ DOMAIN regs = Registers

LEMMA ListedStays ==
  ASSUME Listed, [Next]_vars
  PROVE  Listed'
<1>1. ASSUME NEW h, DOMAIN h \subseteq DOMAIN heap, \A a \in DOMAIN h : h[a] = heap[a]
      PROVE  \A a \in DOMAIN h : \E S : h[a] \in Seq(S)
  BY <1>1 DEF Listed
<1>2. CASE Allocates
  <2>1. PICK v : heap' = With(Collected.heap, v.at, <<>>)
    BY <1>2 DEF Allocates, Allocated
  <2> DEFINE h == Collected.heap
  <2>2. DOMAIN h \subseteq DOMAIN heap /\ \A a \in DOMAIN h : h[a] = heap[a]
    BY DEF Collected, Without
  <2>3. \A a \in DOMAIN h : \E S : h[a] \in Seq(S)
    BY <1>1, <2>2
  <2>4. heap' = With(h, v.at, <<>>)
    BY <2>1
  <2> HIDE DEF h
  <2>5. <<>> \in Seq({})
    OBVIOUS
  <2>6. QED
    BY <2>3, <2>4, <2>5 DEF Listed, With
<1>3. CASE Frees \/ DoFreeRaw
  <2>1. (\E gone : heap' = Without(gone)) \/ heap' = heap
    BY <1>3 DEF Frees, Freed, DoFreeRaw, Faulty, gcVars
  <2>2. DOMAIN heap' \subseteq DOMAIN heap /\ \A a \in DOMAIN heap' : heap'[a] = heap[a]
    BY <2>1 DEF Without
  <2>3. QED
    BY <2>2 DEF Listed
<1>4. CASE Fills
  <2>1. \E at, x, k : \/ heap' = heap
                      \/ heap' = [heap EXCEPT ![at] = Append(@, x)]
                      \/ heap' = [heap EXCEPT ![at][k] = x]
    <3>1. Faulty => heap' = heap
      BY DEF Faulty, gcVars
    <3>2. CASE DoPushItem
      BY <3>1, <3>2 DEF DoPushItem
    <3>3. CASE DoSetItem
      BY <3>1, <3>3 DEF DoSetItem
    <3>4. QED
      BY <1>4, <3>2, <3>3 DEF Fills
  <2>2. PICK at, x, k : \/ heap' = heap
                        \/ heap' = [heap EXCEPT ![at] = Append(@, x)]
                        \/ heap' = [heap EXCEPT ![at][k] = x]
    BY <2>1
  <2>3. ASSUME NEW q, \E S : q \in Seq(S)
        PROVE  \E S : Append(q, x) \in Seq(S) /\ [q EXCEPT ![k] = x] \in Seq(S)
    <3>1. PICK S : q \in Seq(S)
      BY <2>3
    <3> DEFINE T == S \cup {x}
    <3>2. q \in Seq(T) /\ x \in T
      BY <3>1
    <3> HIDE DEF T
    <3>3. Append(q, x) \in Seq(T)
      BY <3>2
    <3>4. q \in [1 .. Len(q) -> T] /\ Len(q) \in Nat
      BY <3>2
    <3>5. [q EXCEPT ![k] = x] \in [1 .. Len(q) -> T]
      BY <3>2, <3>4
    <3>6. [q EXCEPT ![k] = x] \in Seq(T)
      BY <3>4, <3>5
    <3>7. QED
      BY <3>3, <3>6
  <2>4. ASSUME NEW a \in DOMAIN heap
        PROVE  \E S : heap'[a] \in Seq(S)
    <3>1. \E S : heap[a] \in Seq(S)
      BY DEF Listed
    <3>2. \/ heap'[a] = heap[a] \/ heap'[a] = Append(heap[a], x)
          \/ heap'[a] = [heap[a] EXCEPT ![k] = x]
      BY <2>2
    <3>3. PICK S : Append(heap[a], x) \in Seq(S) /\ [heap[a] EXCEPT ![k] = x] \in Seq(S)
      BY <2>3, <3>1
    <3>4. CASE heap'[a] = heap[a]
      BY <3>1, <3>4
    <3>5. CASE heap'[a] = Append(heap[a], x)
      BY <3>3, <3>5
    <3>6. CASE heap'[a] = [heap[a] EXCEPT ![k] = x]
      BY <3>3, <3>6
    <3>7. QED
      BY <3>2, <3>4, <3>5, <3>6
  <2>5. DOMAIN heap' = DOMAIN heap
    BY <1>4, FillsInPlace
  <2>6. QED
    BY <2>4, <2>5 DEF Listed
<1>5. CASE UNCHANGED gcVars
  BY <1>5 DEF Listed, gcVars
<1>6. QED
  BY <1>2, <1>3, <1>4, <1>5, Steps DEF vars

LEMMA RegistersStay ==
  ASSUME DOMAIN regs = Registers, [Next]_vars
  PROVE  DOMAIN regs' = Registers
<1>1. DOMAIN NoRegs = Registers /\ \A r, v : DOMAIN [NoRegs EXCEPT ![r] = v] = Registers
  BY DEF NoRegs
<1>2. \A r, v : DOMAIN [regs EXCEPT ![r] = v] = Registers
  OBVIOUS
<1>3. Faulty => DOMAIN regs' = Registers
  BY <1>1 DEF Faulty
<1>4. CASE Instruction
  <2>1. ASSUME NEW op, NEW calls, NEW rs, Execute(op, calls, rs), DOMAIN rs = Registers
        PROVE  DOMAIN regs' = Registers
    BY <2>1 DEF Execute
  <2>2. QED
    BY <1>1, <1>4, <2>1 DEF Instruction, PUSH_NUM, PUSH_STR, ADD, LOGIC_NOT, LIST_NEW, LIST_PUSH,
      CALL_NATIVE, CALL, RETURN, LOAD_VAR, STORE_VAR, STORE_LIST, LIST_ACCESS, LIST_STORE,
      MEMBER_ACCESS, MEMBER_STORE
<1>5. CASE DoPop \/ DoNew \/ DoGetItem \/ DoPeek
  BY <1>1, <1>2, <1>3, <1>5 DEF DoPop, DoNew, DoGetItem, DoPeek
<1>6. CASE DoCopy
  BY <1>2, <1>3, <1>6 DEF DoCopy
<1>7. CASE \/ DoPush \/ DoRead \/ DoFree \/ DoFreeRaw \/ DoSet \/ DoAdd \/ DoFreeVar
           \/ DoPushItem \/ DoSetItem \/ DoEnter \/ DoLeave
  BY <1>3, <1>7 DEF DoPush, DoRead, DoFree, DoFreeRaw, DoSet, DoAdd, DoFreeVar,
     DoPushItem, DoSetItem, DoEnter, DoLeave
<1>8. CASE DoFillVar
  BY <1>3, <1>8 DEF DoFillVar
<1>9. CASE UNCHANGED vars
  BY <1>9 DEF vars
<1>10. QED
  BY <1>4, <1>5, <1>6, <1>7, <1>8, <1>9 DEF Next

Rest == \/ DoNew \/ DoCopy \/ DoRead \/ DoFree \/ DoSet \/ DoAdd \/ DoFreeVar \/ DoFillVar
        \/ DoPushItem \/ DoGetItem \/ DoSetItem \/ DoEnter \/ DoLeave \/ DoPeek

(* The step of a handler is that of its next call.                         *)
LEMMA NextCall ==
  ASSUME Next
  PROVE  \/ Instruction /\ todo = <<>>
         \/ todo # <<>> /\ \/ call.do = "pop" /\ DoPop
                           \/ call.do = "push" /\ DoPush
                           \/ call.do = "free_raw" /\ DoFreeRaw
                           \/ call.do \notin {"pop", "push", "free_raw"} /\ Rest
<1>1. CASE Instruction
  <2>1. ASSUME NEW op, NEW calls, NEW rs, Execute(op, calls, rs)
        PROVE  todo = <<>>
    BY <2>1 DEF Execute, AtRest
  <2>2. QED
    BY <1>1, <2>1 DEF Instruction, PUSH_NUM, PUSH_STR, ADD, LOGIC_NOT, LIST_NEW, LIST_PUSH,
      CALL_NATIVE, CALL, RETURN, LOAD_VAR, STORE_VAR, STORE_LIST, LIST_ACCESS, LIST_STORE,
      MEMBER_ACCESS, MEMBER_STORE
<1>2. CASE DoPop \/ DoPush \/ DoFreeRaw
  BY <1>2 DEF DoPop, DoPush, DoFreeRaw, Doing
<1>3. CASE Rest
  <2>1. \A do : Doing(do) => todo # <<>> /\ call.do = do
    BY DEF Doing
  <2>2. \E do \in {"new", "copy", "read", "free", "set", "add", "free_var", "fill_var",
                   "push_item", "get_item", "set_item", "enter", "leave", "peek"} : Doing(do)
    BY <1>3 DEF Rest, DoNew, DoCopy, DoRead, DoFree, DoSet, DoAdd, DoFreeVar, DoFillVar,
       DoPushItem, DoGetItem, DoSetItem, DoEnter, DoLeave, DoPeek
  <2>3. QED
    BY <1>3, <2>1, <2>2
<1>4. QED
  BY <1>1, <1>2, <1>3 DEF Next, Rest

LEMMA CalmThen ==
  ASSUME Calm(todo), todo # <<>>
  PROVE  /\ \A calls : Calm(calls) /\ Then(calls) => Calm(todo')
         /\ Done => Calm(todo')
         /\ Faulty => Calm(todo')
<1>1. Calm(Tail(todo)) /\ Calm(<<>>)
  BY CalmParts, CalmFew
<1>2. ASSUME NEW calls, Calm(calls), Then(calls)
      PROVE  Calm(todo')
  BY <1>1, <1>2, CalmParts DEF Then
<1>3. Done => Calm(todo')
  BY <1>1, <1>2 DEF Done
<1>4. Faulty => Calm(todo')
  BY <1>1 DEF Faulty
<1>5. QED
  BY <1>2, <1>3, <1>4

(* A copy is made by calm calls, as many as the list has items.            *)
LEMMA CalmCopies ==
  ASSUME NEW n \in Nat, NEW x, NEW r
  PROVE  Calm(CopyItems(x, r, n))
<1> DEFINE q == CopyItems(x, r, n)
           S == {q[i] : i \in 1 .. 3 * n}
<1>1. \A i \in 1 .. 3 * n : \/ q[i] = GetItem(x, "b", (i + 2) \div 3)
                            \/ q[i] = Copy("name", "b") \/ q[i] = PushItem(r, "name")
  BY DEF CopyItems
<1>2. \A c \in S : c.do # "free_raw"
  BY <1>1, CalmCalls
<1>3. q \in [1 .. 3 * n -> S] /\ 3 * n \in Nat
  BY DEF CopyItems
<1> HIDE DEF S, q
<1>4. q \in Seq(S)
  BY <1>3
<1>5. Calm(q)
  BY <1>2, <1>4, CalmOf
<1>6. QED
  BY <1>5 DEF q

LEMMA RestIsCalm ==
  ASSUME Listed, Calm(todo), todo # <<>>, Rest
  PROVE  Calm(todo')
<1>1. /\ \A calls : Calm(calls) /\ Then(calls) => Calm(todo')
      /\ Done => Calm(todo')
      /\ Faulty => Calm(todo')
  BY CalmThen
<1>2. CASE \/ DoNew \/ DoRead \/ DoFree \/ DoFreeVar \/ DoFillVar
           \/ DoPushItem \/ DoGetItem \/ DoSetItem \/ DoEnter \/ DoLeave
  BY <1>1, <1>2 DEF DoNew, DoRead, DoFree, DoFreeVar, DoFillVar,
     DoPushItem, DoGetItem, DoSetItem, DoEnter, DoLeave
<1>3. \A x, r, k : Calm(Replace(x, r, k)) /\ Calm(<<FillVar(x, r, k)>>) /\ Calm(<<AddVar(x, r)>>)
  BY CalmCalls, CalmFew DEF Replace
<1>4. CASE DoSet
  <2>1. \E calls : Then(calls) /\ Calm(calls)
    <3> DEFINE x == call.x
               r == call.r
    <3>1. \/ Then(Replace(x, r, Local) \o Replace(x, r, Global))
          \/ Then(Replace(x, r, Local) \o <<>>)
          \/ Then(<<FillVar(x, r, Local)>>) \/ Then(<<AddVar(x, r)>>)
      BY <1>4 DEF DoSet
    <3> HIDE DEF x, r
    <3>2. /\ Calm(Replace(x, r, Local) \o Replace(x, r, Global))
          /\ Calm(Replace(x, r, Local) \o <<>>)
      BY <1>3, CalmParts, CalmFew
    <3>3. QED
      BY <1>3, <3>1, <3>2
  <2>2. QED
    BY <1>1, <2>1
<1>5. CASE DoAdd
  BY <1>1, <1>3, <1>5 DEF DoAdd
<1>6. CASE DoPeek
  BY <1>1, <1>3, <1>6 DEF DoPeek
<1>7. CASE DoCopy
  <2> DEFINE v == regs[call.x]
             r == call.r
             x == call.x
             n == Len(heap[v.at])
             q == CopyItems(x, r, n)
  <2>1. \/ Faulty \/ Done \/ Then(<<New(r, "string")>>)
        \/ v.is = "list" /\ Live(v) /\ Then(<<New(r, "list"), Read(x)>> \o q)
    BY <1>7 DEF DoCopy
  <2>2. v.is = "list" /\ Live(v) => Calm(q)
    <3>1. SUFFICES ASSUME v.is = "list", Live(v) PROVE Calm(q)
      OBVIOUS
    <3>2. PICK S : heap[v.at] \in Seq(S)
      BY <3>1 DEF Listed, Live, InHeap
    <3>3. n \in Nat
      BY <3>2
    <3> HIDE DEF n
    <3>4. QED
      BY <3>3, CalmCopies
  <2> HIDE DEF q, v
  <2>3. Calm(<<New(r, "string")>>) /\ Calm(<<New(r, "list"), Read(x)>>)
    BY CalmCalls, CalmFew
  <2>4. v.is = "list" /\ Live(v) => Calm(<<New(r, "list"), Read(x)>> \o q)
    BY <2>2, <2>3, CalmParts
  <2>5. QED
    BY <1>1, <2>1, <2>3, <2>4
<1>8. QED
  BY <1>2, <1>4, <1>5, <1>6, <1>7 DEF Rest

(* Every instruction but LOGIC_NOT is a handler of calm calls.             *)
LEMMA Handlers ==
  ASSUME Instruction
  PROVE  LOGIC_NOT \/ \E op, calls, rs : Calm(calls) /\ Execute(op, calls, rs)
<1>1. /\ \A r : Calm(<<Push(r)>>)
      /\ \A r, s : Calm(<<New(r, s), Push(r)>>) /\ Calm(<<Copy(r, s), Push(r)>>)
  BY CalmCalls, CalmFew
<1>2. CASE PUSH_NUM \/ PUSH_STR \/ LIST_NEW
  BY <1>1, <1>2 DEF PUSH_NUM, PUSH_STR, LIST_NEW
<1>3. CASE \E x \in Vars \ {LastVar} : LOAD_VAR(x)
  <2>1. PICK x : LOAD_VAR(x)
    BY <1>3
  <2>2. \E rs : \/ Execute("LOAD_VAR", <<Push("a")>>, rs)
                \/ Execute("LOAD_VAR", <<Copy("r", "a"), Push("r")>>, rs)
    BY <2>1 DEF LOAD_VAR
  <2>3. QED
    BY <1>1, <2>2
<1>4. CASE ADD
  <2>1. Calm(<<Pop("b"), Pop("a"), Read("a"), Read("b"), New("r", "string"),
               Push("r"), Free("a"), Free("b")>>)
    BY CalmCalls, CalmFew
  <2>2. QED
    BY <1>4, <2>1 DEF ADD
<1>5. CASE \E x \in Vars \ {LastVar} : STORE_VAR(x) \/ STORE_LIST(x)
  <2>1. PICK x : STORE_VAR(x) \/ STORE_LIST(x)
    BY <1>5
  <2>2. Calm(<<Pop("a"), SetVar(x, "a"), Free("a")>>)
    BY CalmCalls, CalmFew
  <2>3. QED
    BY <2>1, <2>2 DEF STORE_VAR, STORE_LIST
<1>6. CASE LIST_PUSH
  <2>1. Calm(<<Pop("b"), Pop("a"), PushItem("a", "b"), Push("a")>>)
    BY CalmCalls, CalmFew
  <2>2. QED
    BY <1>6, <2>1 DEF LIST_PUSH
<1>7. CASE \E k \in 1 .. MaxItems : \/ LIST_ACCESS(k) \/ LIST_STORE(k)
                                    \/ MEMBER_ACCESS(k) \/ MEMBER_STORE(k)
  <2>1. PICK k : LIST_ACCESS(k) \/ LIST_STORE(k) \/ MEMBER_ACCESS(k) \/ MEMBER_STORE(k)
    BY <1>7
  <2>2. /\ Calm(<<Pop("a"), GetItem("a", "a", k)>>)
        /\ Calm(<<Pop("a"), Pop("b"), GetItem("a", "r", k), Free("r"), SetItem("a", "b", k)>>)
        /\ Calm(<<Pop("a"), GetItem("a", "a", k), Copy("r", "a"), Push("r")>>)
        /\ Calm(<<Pop("a"), Pop("b"), GetItem("a", "r", k), Free("r"),
                  Copy("r", "b"), SetItem("a", "r", k), Free("b")>>)
    BY CalmCalls, CalmFew
  <2>3. CASE LIST_ACCESS(k)
    <3>1. \E mid \in {<<Push("a")>>, <<>>} :
            Execute("LIST_ACCESS", <<Pop("a"), GetItem("a", "a", k)>> \o mid
                                     \o <<Copy("r", "a"), Push("r")>>, NoRegs)
      BY <2>3 DEF LIST_ACCESS
    <3>2. PICK mid \in {<<Push("a")>>, <<>>} :
            Execute("LIST_ACCESS", <<Pop("a"), GetItem("a", "a", k)>> \o mid
                                     \o <<Copy("r", "a"), Push("r")>>, NoRegs)
      BY <3>1
    <3>3. Calm(mid)
      BY <1>1, CalmFew
    <3>4. Calm(<<Pop("a"), GetItem("a", "a", k)>> \o mid)
      BY <2>2, <3>3, CalmParts
    <3>5. Calm(<<Pop("a"), GetItem("a", "a", k)>> \o mid \o <<Copy("r", "a"), Push("r")>>)
      BY <1>1, <3>4, CalmParts
    <3>6. QED
      BY <3>2, <3>5
  <2>4. CASE LIST_STORE(k)
    BY <2>2, <2>4 DEF LIST_STORE
  <2>5. CASE MEMBER_ACCESS(k)
    BY <2>2, <2>5 DEF MEMBER_ACCESS
  <2>6. CASE MEMBER_STORE(k)
    BY <2>2, <2>6 DEF MEMBER_STORE
  <2>7. QED
    BY <2>1, <2>3, <2>4, <2>5, <2>6
<1>8. Calm(PopArgument)
  <2>1. PopArgument = <<Pop("r")>> \/ PopArgument = <<Pop("a"), Copy("r", "a"), Free("a")>>
    BY DEF PopArgument
  <2>2. Calm(<<Pop("r")>>) /\ Calm(<<Pop("a"), Copy("r", "a"), Free("a")>>)
    BY CalmCalls, CalmFew
  <2>3. QED
    BY <2>1, <2>2
<1>9. CASE CALL
  <2>1. Calm(<<Pop("name"), Read("name"), Enter, Push("r"), Free("name")>>)
    BY CalmCalls, CalmFew
  <2>2. Calm(PopArgument \o <<Pop("name"), Read("name"), Enter, Push("r"), Free("name")>>)
    BY <1>8, <2>1, CalmParts
  <2>3. QED
    BY <1>9, <2>2 DEF CALL
<1>10. CASE CALL_NATIVE("null") \/ CALL_NATIVE("string")
  <2> DEFINE get == <<Pop("name"), Read("name"), Read("r")>>
             end == <<Push("b"), Free("r"), Free("name")>>
             made == <<New("b", "string")>>
  <2>1. Calm(get) /\ Calm(end) /\ Calm(made) /\ Calm(<<>>)
    BY CalmCalls, CalmFew
  <2>2. \/ Execute("CALL_NATIVE", PopArgument \o get \o made \o end, NoRegs)
        \/ Execute("CALL_NATIVE", PopArgument \o get \o <<>> \o end, NoRegs)
    BY <1>10 DEF CALL_NATIVE
  <2> HIDE DEF get, end, made
  <2>3. Calm(PopArgument \o get)
    BY <1>8, <2>1, CalmParts
  <2>4. Calm(PopArgument \o get \o made) /\ Calm(PopArgument \o get \o <<>>)
    BY <2>1, <2>3, CalmParts
  <2>5. Calm(PopArgument \o get \o made \o end) /\ Calm(PopArgument \o get \o <<>> \o end)
    BY <2>1, <2>4, CalmParts
  <2>6. QED
    BY <2>2, <2>5
<1>11. CASE RETURN
  <2>1. Calm(<<Pop("a"), Leave, Push("a")>>)
    BY CalmCalls, CalmFew
  <2>2. QED
    BY <1>11, <2>1 DEF RETURN
<1>12. QED
  BY <1>2, <1>3, <1>4, <1>5, <1>6, <1>7, <1>9, <1>10, <1>11 DEF Instruction

LEMMA Glued ==
  /\ \A a, b, c, d : <<a, b, c>> \o <<d>> = <<a, b, c, d>>
  /\ \A d : <<>> \o <<d>> = <<d>>
<1>1. ASSUME NEW a, NEW b, NEW c, NEW d
      PROVE  <<a, b, c>> \o <<d>> = <<a, b, c, d>>
  <2> DEFINE S == {a, b, c, d}
             p == <<a, b, c>>
             q == <<d>>
             r == <<a, b, c, d>>
  <2>1. /\ p \in Seq(S) /\ Len(p) = 3 /\ p[1] = a /\ p[2] = b /\ p[3] = c
        /\ q \in Seq(S) /\ Len(q) = 1 /\ q[1] = d
        /\ r \in Seq(S) /\ Len(r) = 4 /\ r[1] = a /\ r[2] = b /\ r[3] = c /\ r[4] = d
    OBVIOUS
  <2> HIDE DEF S, p, q, r
  <2>8. p \in Seq(S) /\ q \in Seq(S)
    BY <2>1
  <2>9. /\ p \o q \in Seq(S) /\ Len(p \o q) = Len(p) + Len(q)
        /\ \A i \in 1 .. Len(p) + Len(q) :
             (p \o q)[i] = IF i <= Len(p) THEN p[i] ELSE q[i - Len(p)]
    BY <2>8, ConcatProperties
  <2>2. p \o q \in Seq(S) /\ Len(p \o q) = 4
    BY <2>1, <2>9
  <2>3. (p \o q)[1] = a /\ (p \o q)[2] = b /\ (p \o q)[3] = c /\ (p \o q)[4] = d
    BY <2>1, <2>9
  <2>4. \A i \in 1 .. 4 : i = 1 \/ i = 2 \/ i = 3 \/ i = 4
    OBVIOUS
  <2>5. \A i \in 1 .. 4 : (p \o q)[i] = r[i]
    BY <2>1, <2>3, <2>4
  <2>6. p \o q = r
    BY <2>1, <2>2, <2>5
  <2>7. QED
    BY <2>6 DEF p, q, r
<1>2. ASSUME NEW d
      PROVE  <<>> \o <<d>> = <<d>>
  OBVIOUS
<1>3. QED
  BY <1>1, <1>2

LEMMA RawStaysHarmless ==
  ASSUME Negated \subseteq {"null", "num"}, Listed, RawHarmless, DOMAIN regs = Registers,
         [Next]_vars
  PROVE  RawHarmless'
<1>1. CASE UNCHANGED vars
  BY <1>1 DEF RawHarmless, Top, vars
<1>2. ASSUME Next, Calm(todo)
      PROVE  RawHarmless'
  <2>1. CASE Instruction
    <3>1. CASE LOGIC_NOT
      <4>1. /\ todo' = <<Pop("a"), Push("r"), FreeRaw("a")>> \o <<Peek>>
            /\ stack' = stack /\ Top(1).is \in Negated
        BY <3>1 DEF LOGIC_NOT, Execute
      <4>2. ~InHeap(Top(1))
        BY <4>1 DEF InHeap
      <4>3. todo' = <<Pop("a"), Push("r"), FreeRaw("a"), Peek>> /\ Top(1)' = Top(1)
        BY <4>1, Glued DEF Top
      <4>4. QED
        BY <4>2, <4>3 DEF RawHarmless, InHeap
    <3>2. CASE \E op, calls, rs : Calm(calls) /\ Execute(op, calls, rs)
      <4>1. PICK calls : Calm(calls) /\ todo' = calls \o <<Peek>>
        BY <3>2 DEF Execute
      <4>2. Calm(<<Peek>>)
        BY CalmCalls, CalmFew
      <4>3. QED
        BY <4>1, <4>2, CalmParts DEF RawHarmless
    <3>3. QED
      BY <2>1, <3>1, <3>2, Handlers
  <2>2. CASE todo # <<>>
    <3>1. call.do # "free_raw"
      BY <1>2, <2>2, CalmParts DEF call
    <3>2. (DoPop \/ DoPush) => Done
      BY DEF DoPop, DoPush
    <3>3. Calm(todo')
      BY <1>2, <2>2, <3>1, <3>2, NextCall, CalmThen, RestIsCalm DEF Instruction
    <3>4. QED
      BY <3>3 DEF RawHarmless
  <2>3. QED
    BY <1>2, <2>1, <2>2, NextCall
<1>3. ASSUME Next, todo = <<Pop("a"), Push("r"), FreeRaw("a"), Peek>>, ~InHeap(Top(1))
      PROVE  RawHarmless'
  <2>1. todo # <<>> /\ call = Pop("a") /\ Tail(todo) = <<Push("r"), FreeRaw("a"), Peek>>
    BY <1>3 DEF call
  <2>2. call.do = "pop" /\ call.r = "a"
    BY <2>1 DEF Pop
  <2>3. DoPop
    BY <1>3, <2>1, <2>2, NextCall
  <2>4. todo' = <<>> \o Tail(todo) /\ regs' = [regs EXCEPT !["a"] = Top(1)]
    BY <2>2, <2>3 DEF DoPop, Done, Then
  <2>5. todo' = <<Push("r"), FreeRaw("a"), Peek>>
    BY <2>1, <2>4
  <2>6. regs'["a"] = Top(1)
    BY <2>4 DEF Registers
  <2>7. QED
    BY <1>3, <2>5, <2>6 DEF RawHarmless, InHeap
<1>4. ASSUME Next, todo = <<Push("r"), FreeRaw("a"), Peek>>, ~InHeap(regs["a"])
      PROVE  RawHarmless'
  <2>1. todo # <<>> /\ call = Push("r") /\ Tail(todo) = <<FreeRaw("a"), Peek>>
    BY <1>4 DEF call
  <2>2. call.do = "push"
    BY <2>1 DEF Push
  <2>3. DoPush
    BY <1>4, <2>1, <2>2, NextCall
  <2>4. todo' = <<>> \o Tail(todo) /\ regs' = regs
    BY <2>3 DEF DoPush, Done, Then
  <2>5. todo' = <<FreeRaw("a"), Peek>>
    BY <2>1, <2>4
  <2>6. QED
    BY <1>4, <2>4, <2>5 DEF RawHarmless, InHeap
<1>5. ASSUME Next, todo = <<FreeRaw("a"), Peek>>, ~InHeap(regs["a"])
      PROVE  RawHarmless'
  <2>1. todo # <<>> /\ call = FreeRaw("a") /\ Tail(todo) = <<Peek>>
    BY <1>5 DEF call
  <2>2. call.do = "free_raw"
    BY <2>1 DEF FreeRaw
  <2>3. DoFreeRaw
    BY <1>5, <2>1, <2>2, NextCall
  <2>4. todo' = <<>> \/ todo' = <<>> \o Tail(todo)
    BY <2>3 DEF DoFreeRaw, Faulty, Done, Then
  <2>5. todo' = <<>> \/ todo' = <<Peek>>
    BY <2>1, <2>4, Glued
  <2>6. Calm(<<>>) /\ Calm(<<Peek>>)
    BY CalmCalls, CalmFew
  <2>7. QED
    BY <2>5, <2>6 DEF RawHarmless
<1>6. QED
  BY <1>1, <1>2, <1>3, <1>4, <1>5 DEF RawHarmless

(* So free_value has nothing to free.                                      *)
LEMMA NothingRaw ==
  ASSUME RawHarmless, DoFreeRaw
  PROVE  UNCHANGED objs /\ DOMAIN heap' = DOMAIN heap
<1>1. todo # <<>> /\ call.do = "free_raw"
  BY DEF DoFreeRaw, Doing
<1>2. todo = <<FreeRaw("a"), Peek>> /\ ~InHeap(regs["a"])
  <2>1. ~Calm(todo)
    BY <1>1, CalmParts DEF call
  <2>2. call # Pop("a") /\ call # Push("r")
    BY <1>1 DEF Pop, Push
  <2>3. todo # <<Pop("a"), Push("r"), FreeRaw("a"), Peek>> /\ todo # <<Push("r"), FreeRaw("a"), Peek>>
    BY <2>2 DEF call
  <2>4. QED
    BY <2>1, <2>3 DEF RawHarmless
<1>3. Reg = regs["a"]
  BY <1>2 DEF Reg, call, FreeRaw
<1>4. \A W : ReachedFrom({Reg}, W) = {Reg}
  BY <1>2, <1>3, ReachesItself DEF InHeap
<1>5. {v \in ReachedFrom({Reg}, [is : {"list"}, at : Addr]) : InHeap(v)} = {}
  BY <1>2, <1>3, <1>4
<1>6. CASE Faulty
  BY <1>6 DEF Faulty, gcVars
<1>7. CASE heap' = Without({}) /\ objs' = objs
  BY <1>7 DEF Without
<1>8. QED
  BY <1>5, <1>6, <1>7 DEF DoFreeRaw

(* Where only numbers and null are negated, gc_objects and the memory in   *)
(* use stay the same set, through every collection and everything that     *)
(* the handlers free by hand: no object is freed and kept on the list, and *)
(* none is lost from it.                                                   *)
THEOREM ObjectsAreTracked ==
  ASSUME Negated \subseteq {"null", "num"}
  PROVE  Spec => []TrackedIsAllocated
<1>1. Init => HInv
  <2> SUFFICES ASSUME Init PROVE HInv
    OBVIOUS
  <2>1. DOMAIN heap = {} /\ objs = {} /\ todo = <<>> /\ DOMAIN regs = Registers
    BY DEF Init, NoRegs
  <2>2. QED
    BY <2>1, CalmFew DEF HInv, Tracked, TrackedIsAllocated, Listed, RawHarmless
<1>2. HInv /\ [Next]_vars => HInv'
  <2> SUFFICES ASSUME HInv, [Next]_vars PROVE HInv'
    OBVIOUS
  <2>1. Listed' /\ DOMAIN regs' = Registers
    BY ListedStays, RegistersStay DEF HInv
  <2>2. RawHarmless'
    BY RawStaysHarmless DEF HInv
  <2>3. Tracked'
    BY NothingRaw, TrackedStays DEF HInv
  <2>4. QED
    BY <2>1, <2>2, <2>3 DEF HInv
<1>3. HInv => TrackedIsAllocated
  BY DEF HInv, Tracked
<1>4. QED
  BY <1>1, <1>2, <1>3, PTL DEF Spec

(***************************************************************************)
(* What marking reaches.                                                   *)
(***************************************************************************)

(* The items of v, if v is a list of W, and the first n steps from vs.     *)
ItemsIn(v, W) == IF v \in W /\ v.is = "list" THEN Range(ItemsOf(v)) ELSE {}
Further(ws, W) == ws \cup UNION {ItemsIn(v, W) : v \in ws}
Walk(vs, W, step) ==
  step = [n \in 0 .. Cardinality(Addr) |-> IF n = 0 THEN vs ELSE Further(step[n - 1], W)]

LEMMA WalkExists ==
  ASSUME NEW vs, NEW W
  PROVE  \E step : Walk(vs, W, step)
<1> DEFINE N == Cardinality(Addr)
           Upto(m, f) == f = [n \in 0 .. m |-> IF n = 0 THEN vs ELSE Further(f[n - 1], W)]
           T == {m \in Nat : \E f : Upto(m, f)}
<1>0. N \in Nat
  BY NamesAssumption, FS_CardinalityType
<1>1. 0 \in T
  <2> DEFINE f == [n \in 0 .. 0 |-> vs]
  <2>1. Upto(0, f)
    OBVIOUS
  <2>2. QED
    BY <2>1
<1>2. ASSUME NEW m \in Nat, m \in T PROVE m + 1 \in T
  <2>1. PICK f : Upto(m, f)
    BY <1>2
  <2> DEFINE E(n) == IF n = 0 THEN vs ELSE Further(f[n - 1], W)
             g == [n \in 0 .. m + 1 |-> E(n)]
  <2>2. \A n \in 0 .. m : f[n] = E(n)
    BY <2>1
  <2>3. \A n \in 0 .. m + 1 : n # 0 => n - 1 \in 0 .. m /\ g[n - 1] = f[n - 1]
    BY <2>2
  <2>4. g = [n \in 0 .. m + 1 |-> IF n = 0 THEN vs ELSE Further(g[n - 1], W)]
    BY <2>3
  <2> HIDE DEF g
  <2>5. Upto(m + 1, g)
    BY <2>4
  <2>6. m + 1 \in Nat
    OBVIOUS
  <2> HIDE DEF Upto
  <2>7. QED
    BY <2>5, <2>6
<1> HIDE DEF T
<1>3. Nat \subseteq T
  BY <1>1, <1>2, Counting
<1>4. \E f : Upto(N, f)
  BY <1>0, <1>3 DEF T
<1>5. QED
  BY <1>4 DEF Walk

LEMMA ReachedByWalk ==
  ASSUME NEW vs, NEW W
  PROVE  \E step : Walk(vs, W, step) /\ ReachedFrom(vs, W) = step[Cardinality(Addr)]
<1> DEFINE h == CHOOSE step : Walk(vs, W, step)
<1>1. Walk(vs, W, h)
  BY WalkExists
<1>2. ReachedFrom(vs, W) = h[Cardinality(Addr)]
  BY DEF ReachedFrom, Walk, Further, ItemsIn
<1>3. QED
  BY <1>1, <1>2

LEMMA WalkAt ==
  ASSUME NEW vs, NEW W, NEW step, Walk(vs, W, step), NEW n \in 0 .. Cardinality(Addr)
  PROVE  step[n] = IF n = 0 THEN vs ELSE Further(step[n - 1], W)
<1> DEFINE E(m) == IF m = 0 THEN vs ELSE Further(step[m - 1], W)
<1>1. step = [m \in 0 .. Cardinality(Addr) |-> E(m)]
  BY Zenon DEF Walk
<1> HIDE DEF E
<1>2. step[n] = E(n)
  BY <1>1, Zenon
<1>3. QED
  BY <1>2 DEF E

(* A set that holds the start and the items of its lists holds all that is *)
(* reached.                                                                *)
LEMMA ReachesNoMore ==
  ASSUME NEW vs, NEW W, NEW S, vs \subseteq S, \A v \in S : ItemsIn(v, W) \subseteq S
  PROVE  ReachedFrom(vs, W) \subseteq S
<1> DEFINE N == Cardinality(Addr)
<1>0. N \in Nat
  BY NamesAssumption, FS_CardinalityType
<1>1. PICK step : Walk(vs, W, step) /\ ReachedFrom(vs, W) = step[N]
  BY ReachedByWalk
<1>2. \A n \in 0 .. N : step[n] = IF n = 0 THEN vs ELSE Further(step[n - 1], W)
  BY <1>1, WalkAt
<1> DEFINE T == {n \in Nat : n \in 0 .. N => step[n] \subseteq S}
<1> HIDE DEF N
<1>3. 0 \in T
  BY <1>0, <1>2
<1>4. ASSUME NEW n \in Nat, n \in T PROVE n + 1 \in T
  <2> SUFFICES ASSUME n + 1 \in 0 .. N PROVE step[n + 1] \subseteq S
    OBVIOUS
  <2>1. n \in 0 .. N /\ n + 1 # 0 /\ (n + 1) - 1 = n
    BY <1>0
  <2>2. step[n + 1] = Further(step[n], W) /\ step[n] \subseteq S
    BY <1>2, <1>4, <2>1
  <2>3. QED
    BY <2>2 DEF Further
<1> HIDE DEF T
<1>5. Nat \subseteq T
  BY <1>3, <1>4, Counting
<1>6. QED
  BY <1>0, <1>1, <1>5 DEF T

(* One address belongs to one object, so there are not more lists than     *)
(* addresses.                                                              *)
LEMMA FewLists ==
  ASSUME Tracked, objs \subseteq Value, \A v \in objs : InHeap(v) /\ v.at \in Addr
  PROVE  /\ IsFiniteSet({v \in objs : v.is = "list"})
         /\ Cardinality({v \in objs : v.is = "list"}) <= Cardinality(Addr)
<1> DEFINE L == {v \in objs : v.is = "list"}
           f == [v \in L |-> v.at]
<1>1. \A v, w \in L : v.at = w.at => v = w
  BY DEF Tracked
<1>2. f \in [L -> Addr]
  OBVIOUS
<1>3. \A v, w \in L : f[v] = f[w] => v = w
  BY <1>1
<1> HIDE DEF L, f
<1>4. f \in Injection(L, Addr)
  BY <1>2, <1>3 DEF Injection, IsInjective
<1>5. IsFiniteSet(L) /\ Cardinality(L) <= Cardinality(Addr)
  BY <1>4, FS_Injection, NamesAssumption
<1>6. QED
  BY <1>5 DEF L

(* What is reached from vs holds vs and the items of its tracked lists:    *)
(* there are as many steps as there can be lists.                          *)
LEMMA ReachesAll ==
  ASSUME Tracked, objs \subseteq Value, \A v \in objs : InHeap(v) /\ v.at \in Addr, NEW vs
  PROVE  /\ vs \subseteq ReachedFrom(vs, objs)
         /\ \A v \in ReachedFrom(vs, objs) : ItemsIn(v, objs) \subseteq ReachedFrom(vs, objs)
<1> DEFINE N == Cardinality(Addr)
           L == {v \in objs : v.is = "list"}
           Closed(S) == \A v \in S : ItemsIn(v, objs) \subseteq S
<1>0. N \in Nat /\ IsFiniteSet(L) /\ Cardinality(L) <= N /\ Cardinality(L) \in Nat
  BY NamesAssumption, FS_CardinalityType, FewLists
<1>1. PICK step : Walk(vs, objs, step) /\ ReachedFrom(vs, objs) = step[N]
  BY ReachedByWalk
<1>2. \A n \in 0 .. N : step[n] = IF n = 0 THEN vs ELSE Further(step[n - 1], objs)
  BY <1>1, WalkAt
<1>3. \A v : v \notin L => ItemsIn(v, objs) = {}
  BY DEF ItemsIn
<1>4. \A S : IsFiniteSet(S \cap L) /\ Cardinality(S \cap L) \in Nat /\ Cardinality(S \cap L) <= Cardinality(L)
  <2> TAKE S
  <2>1. S \cap L \in SUBSET L
    OBVIOUS
  <2> HIDE DEF L
  <2>2. QED
    BY <1>0, <2>1, FS_Subset, FS_CardinalityType
<1> HIDE DEF N, L
<1> DEFINE T == {n \in Nat : n \in 0 .. N => /\ vs \subseteq step[n]
                                             /\ Closed(step[n]) \/ Cardinality(step[n] \cap L) >= n + 1}
<1>5. 0 \in T
  <2>1. step[0] = vs
    BY <1>0, <1>2
  <2>2. Closed(vs) \/ Cardinality(vs \cap L) >= 1
    <3>1. CASE vs \cap L = {}
      BY <1>3, <3>1
    <3>2. CASE vs \cap L # {}
      <4>1. Cardinality(vs \cap L) # 0
        BY <1>4, <3>2, FS_EmptySet
      <4>2. Cardinality(vs \cap L) \in Nat
        BY <1>4
      <4>3. Cardinality(vs \cap L) >= 1
        BY <4>1, <4>2
      <4>4. QED
        BY <4>3
    <3>3. QED
      BY <3>1, <3>2
  <2>3. QED
    BY <2>1, <2>2
<1>6. ASSUME NEW n \in Nat, n \in T PROVE n + 1 \in T
  <2> SUFFICES ASSUME n + 1 \in 0 .. N
               PROVE  /\ vs \subseteq step[n + 1]
                      /\ Closed(step[n + 1]) \/ Cardinality(step[n + 1] \cap L) >= (n + 1) + 1
    OBVIOUS
  <2>1. n \in 0 .. N /\ n + 1 # 0 /\ (n + 1) - 1 = n
    BY <1>0
  <2> DEFINE S == step[n]
             U == step[n + 1]
  <2>2. U = Further(S, objs) /\ vs \subseteq S /\ (Closed(S) \/ Cardinality(S \cap L) >= n + 1)
    BY <1>2, <1>6, <2>1
  <2> HIDE DEF S, U
  <2>3. S \subseteq U
    BY <2>2 DEF Further
  <2>4. Closed(S) => U = S
    BY <2>2 DEF Further
  <2>5. S \cap L = U \cap L => Closed(U)
    <3> SUFFICES ASSUME S \cap L = U \cap L, NEW v \in U PROVE ItemsIn(v, objs) \subseteq U
      OBVIOUS
    <3>1. v \in L => v \in S
      OBVIOUS
    <3>2. v \in S => ItemsIn(v, objs) \subseteq U
      BY <2>2 DEF Further
    <3>3. QED
      BY <1>3, <3>1, <3>2
  <2>6. S \cap L # U \cap L => Cardinality(U \cap L) >= Cardinality(S \cap L) + 1
    <3> DEFINE SL == S \cap L
               UL == U \cap L
    <3>1. SL \in SUBSET UL /\ IsFiniteSet(UL) /\ Cardinality(SL) \in Nat /\ Cardinality(UL) \in Nat
      BY <1>4, <2>3
    <3> HIDE DEF SL, UL
    <3>2. Cardinality(SL) <= Cardinality(UL) /\ (Cardinality(UL) = Cardinality(SL) => UL = SL)
      BY <3>1, FS_Subset
    <3>3. SL # UL => Cardinality(UL) >= Cardinality(SL) + 1
      BY <3>1, <3>2
    <3>4. QED
      BY <3>3 DEF SL, UL
  <2>7. vs \subseteq U
    BY <2>2, <2>3
  <2>8. Closed(U) \/ Cardinality(U \cap L) >= (n + 1) + 1
    <3>1. Cardinality(U \cap L) \in Nat /\ Cardinality(S \cap L) \in Nat
      BY <1>4
    <3>2. CASE Closed(S)
      BY <2>4, <3>2
    <3>3. CASE ~Closed(S) /\ S \cap L = U \cap L
      BY <2>5, <3>3
    <3>4. CASE Cardinality(S \cap L) >= n + 1 /\ S \cap L # U \cap L
      BY <2>6, <3>1, <3>4
    <3>5. QED
      BY <2>2, <3>2, <3>3, <3>4
  <2>9. QED
    BY <2>7, <2>8 DEF U
<1> HIDE DEF T, Closed
<1>7. Nat \subseteq T
  BY <1>5, <1>6, Counting
<1>8. vs \subseteq step[N] /\ (Closed(step[N]) \/ Cardinality(step[N] \cap L) >= N + 1)
  BY <1>0, <1>7 DEF T
<1>9. Closed(step[N])
  BY <1>0, <1>4, <1>8
<1>10. QED
  BY <1>1, <1>8, <1>9 DEF Closed

(***************************************************************************)
(* Handlers that keep in a root what they will use after an allocation.    *)
(***************************************************************************)

Rooted == {"PUSH_NUM", "PUSH_STR", "LIST_NEW", "LIST_PUSH", "LOAD_VAR", "STORE_LIST",
           "LIST_STORE"}

(* The places that can hold a value.  A string is at home in only one.     *)
InStack(i)   == <<"stack", i, 0>>
InGlobal(x)  == <<"global", x, 0>>
InItem(a, k) == <<"item", a, k>>
InReg(r)     == <<"reg", r, 0>>

Safe(o, v) == v \in Value /\ (InHeap(v) => v \in o)
AtHome(o, home, v, p) == Safe(o, v) /\ (v.is = "string" => home[v] = p)

(* The places in use hold values that are tracked and at home: the stack,  *)
(* the globals but those in X, the items of all lists but those in P, and  *)
(* the registers in R.                                                     *)
Settled(home, X, P, R) ==
  /\ \A i \in DOMAIN stack : AtHome(objs, home, stack[i], InStack(i))
  /\ \A x \in DOMAIN globals \ X : AtHome(objs, home, globals[x], InGlobal(x))
  /\ \A a \in DOMAIN heap : \A k \in DOMAIN heap[a] :
       <<a, k>> \notin P => AtHome(objs, home, heap[a][k], InItem(a, k))
  /\ \A r \in R : AtHome(objs, home, regs[r], InReg(r))

AtEase(home) == Settled(home, {}, {}, {})

List(v) == v.is = "list" /\ v \in objs

(* From which calls on a handler goes.                                     *)
Freeing == <<Free("a"), Peek>>
Rests(home) ==
  /\ AtEase(home)
  /\ \/ todo \in {<<>>, <<Peek>>}
     \/ todo = Freeing /\ regs["a"].is = "list"
Pushes(home) == \E r \in Registers : todo = <<Push(r), Peek>> /\ Settled(home, {}, {}, {r})
Makes(home) ==
  /\ AtEase(home)
  /\ \E is \in {"string", "list"} : todo = <<New("r", is), Push("r"), Peek>>
Loads(home) ==
  /\ AtEase(home)
  /\ todo = <<Copy("r", "a"), Push("r"), Peek>> /\ Safe(objs, regs["a"]) /\ regs["a"].is # "list"

(* OP_LIST_PUSH: b is popped, then the list a.                             *)
Appends1(home) ==
  /\ todo = <<Pop("b"), Pop("a"), PushItem("a", "b"), Push("a"), Peek>>
  /\ Len(stack) >= 2 /\ Top(2).is = "list" /\ AtEase(home)
Appends2(home) ==
  /\ todo = <<Pop("a"), PushItem("a", "b"), Push("a"), Peek>>
  /\ Len(stack) >= 1 /\ Top(1).is = "list" /\ Settled(home, {}, {}, {"b"})
Appends3(home) ==
  /\ todo = <<PushItem("a", "b"), Push("a"), Peek>>
  /\ regs["a"].is = "list" /\ Settled(home, {}, {}, {"a", "b"})
Appends(home) == Appends1(home) \/ Appends2(home) \/ Appends3(home)

(* OP_LIST_STORE: the item k of the list a gives way to b.                 *)
HasItemAt(v, k) == List(v) /\ k \in DOMAIN heap[v.at]
Replaces1(home, k) ==
  /\ todo = <<Pop("a"), Pop("b"), GetItem("a", "r", k), Free("r"), SetItem("a", "b", k), Peek>>
  /\ Len(stack) >= 2 /\ HasItemAt(Top(1), k) /\ AtEase(home)
Replaces2(home, k) ==
  /\ todo = <<Pop("b"), GetItem("a", "r", k), Free("r"), SetItem("a", "b", k), Peek>>
  /\ Len(stack) >= 1 /\ HasItemAt(regs["a"], k) /\ AtEase(home)
Replaces3(home, k) ==
  /\ todo = <<GetItem("a", "r", k), Free("r"), SetItem("a", "b", k), Peek>>
  /\ HasItemAt(regs["a"], k) /\ Settled(home, {}, {}, {"b"})
Replaces4(home, k) ==
  /\ todo = <<Free("r"), SetItem("a", "b", k), Peek>>
  /\ HasItemAt(regs["a"], k) /\ regs["r"] = heap[regs["a"].at][k]
  /\ Settled(home, {}, {}, {"b"})
Replaces5(home, k) ==
  /\ todo = <<SetItem("a", "b", k), Peek>>
  /\ HasItemAt(regs["a"], k) /\ Settled(home, {}, {<<regs["a"].at, k>>}, {"b"})
Replaces(home) ==
  \E k : Replaces1(home, k) \/ Replaces2(home, k) \/ Replaces3(home, k) \/ Replaces4(home, k)
           \/ Replaces5(home, k)

(* A variable gets a: a list, or a copy of what is on top of the stack.    *)
Source(rest) == \/ rest = <<>> /\ stack # <<>> /\ regs["a"] = Top(1)
                \/ rest = Freeing /\ List(regs["a"])
Sets0(home, x) ==
  /\ todo = <<Pop("a"), SetVar(x, "a"), Free("a"), Peek>>
  /\ stack # <<>> /\ Top(1).is = "list" /\ AtEase(home)
Sets1(home, x, rest) ==
  /\ Source(rest) /\ AtEase(home)
  /\ todo \in {<<SetVar(x, "a")>> \o rest, <<AddVar(x, "a")>> \o rest}
Sets2(home, x, rest) ==
  /\ Source(rest) /\ AtEase(home) /\ x \in DOMAIN globals
  /\ todo = <<FreeVar(x, Global), FillVar(x, "a", Global)>> \o rest
Sets3(home, x, rest) ==
  /\ Source(rest) /\ Settled(home, {x}, {}, {})
  /\ todo = <<FillVar(x, "a", Global)>> \o rest
Sets(home) == \E x \in Vars : \/ Sets0(home, x)
                              \/ \E rest : Sets1(home, x, rest) \/ Sets2(home, x, rest)
                                            \/ Sets3(home, x, rest)

Underway == \E home : /\ DOMAIN home = Value
                      /\ \/ Rests(home) \/ Pushes(home) \/ Makes(home) \/ Loads(home)
                         \/ Appends(home) \/ Replaces(home) \/ Sets(home)

(* What types there are, and strings have no items.                        *)
Shaped ==
  /\ objs \subseteq {v \in Value : InHeap(v) /\ v.at \in Addr}
  /\ \A a \in DOMAIN heap : heap[a] \in Seq(Value)
  /\ \A v \in objs : v.is = "string" => heap[v.at] = <<>>
  /\ stack \in Seq(Value) /\ \A x \in DOMAIN globals : globals[x] \in Value
  /\ regs \in [Registers -> Value]
  /\ locals = <<>> /\ call_stack = <<>> /\ ~fault

GInv == Tracked /\ Shaped /\ Underway

(* No two places are the same.                                             *)
LEMMA Places ==
  /\ \A i, j : InStack(i) = InStack(j) => i = j
  /\ \A x, y : InGlobal(x) = InGlobal(y) => x = y
  /\ \A a, b, k, l : InItem(a, k) = InItem(b, l) => a = b /\ k = l
  /\ \A r, s : InReg(r) = InReg(s) => r = s
  /\ \A i, x, a, k, r : /\ InStack(i) # InGlobal(x) /\ InStack(i) # InItem(a, k)
                        /\ InStack(i) # InReg(r) /\ InGlobal(x) # InItem(a, k)
                        /\ InGlobal(x) # InReg(r) /\ InItem(a, k) # InReg(r)
BY DEF InStack, InGlobal, InItem, InReg

(* The value v goes to the place q.                                        *)
Moved(home, v, q) == [w \in Value |-> IF w = v THEN q ELSE home[w]]

(* v is at home at its new place, and nothing else has moved.              *)
LEMMA Moving ==
  ASSUME NEW o, NEW home, NEW v, NEW p, NEW q, AtHome(o, home, v, p)
  PROVE  /\ AtHome(o, Moved(home, v, q), v, q)
         /\ \A w, s : AtHome(o, home, w, s) /\ s # p => AtHome(o, Moved(home, v, q), w, s)
BY DEF AtHome, Safe, Moved

(* What is on top of the stack goes to the register r.                     *)
LEMMA PopMoves ==
  ASSUME Shaped, NEW home, NEW X, NEW P, NEW R, Settled(home, X, P, R), stack # <<>>,
         NEW r \in Registers, r \notin R, NEW S, \A s \in S : s = r \/ s \in R,
         stack' = SubSeq(stack, 1, Len(stack) - 1), regs' = [regs EXCEPT ![r] = Top(1)],
         UNCHANGED <<objs, heap, globals>>
  PROVE  \E h : DOMAIN h = Value /\ Settled(h, X, P, S)'
<1> DEFINE n == Len(stack)
           v == stack[n]
<1>0. PICK h : h = Moved(home, v, InReg(r))
  OBVIOUS
<1>1. /\ stack \in Seq(Value) /\ n \in Nat \ {0} /\ n \in DOMAIN stack /\ v = Top(1)
      /\ DOMAIN stack' = 1 .. n - 1 /\ \A i \in 1 .. n - 1 : stack'[i] = stack[i] /\ i \in DOMAIN stack
  BY DEF Shaped, Top
<1>2. AtHome(objs, home, v, InStack(n))
  BY <1>1 DEF Settled
<1>3. /\ AtHome(objs, h, v, InReg(r))
      /\ \A w, s : AtHome(objs, home, w, s) /\ s # InStack(n) => AtHome(objs, h, w, s)
  BY <1>0, <1>2, Moving
<1>4. DOMAIN h = Value
  BY <1>0 DEF Moved
<1> HIDE DEF v, n
<1>5. \A i \in DOMAIN stack' : AtHome(objs, h, stack'[i], InStack(i))
  <2> TAKE i \in DOMAIN stack'
  <2>1. stack'[i] = stack[i] /\ i \in DOMAIN stack /\ i # n
    BY <1>1
  <2>2. AtHome(objs, home, stack[i], InStack(i)) /\ InStack(i) # InStack(n)
    BY <2>1, Places, Zenon DEF Settled
  <2>3. QED
    BY <1>3, <2>1, <2>2
<1>6. \A x \in DOMAIN globals \ X : AtHome(objs, h, globals[x], InGlobal(x))
  BY <1>3, Places, Zenon DEF Settled
<1>7. \A a \in DOMAIN heap : \A k \in DOMAIN heap[a] :
        <<a, k>> \notin P => AtHome(objs, h, heap[a][k], InItem(a, k))
  BY <1>3, Places, Zenon DEF Settled
<1>8. \A s \in R \cup {r} : AtHome(objs, h, regs'[s], InReg(s))
  <2>1. regs'[r] = v /\ \A s \in R : s # r
    BY <1>1 DEF Shaped
  <2>2. \A s \in R : regs'[s] = regs[s]
    BY <2>1 DEF Shaped
  <2>3. \A s \in R : AtHome(objs, h, regs[s], InReg(s))
    BY <1>3, Places, Zenon DEF Settled
  <2>4. QED
    BY <1>3, <2>1, <2>2, <2>3
<1>9. Settled(h, X, P, S)'
  BY <1>5, <1>6, <1>7, <1>8 DEF Settled
<1>10. QED
  BY <1>4, <1>9

(* And what r holds goes to the top of the stack.                          *)
LEMMA PushMoves ==
  ASSUME Shaped, NEW home, NEW X, NEW P, NEW R, Settled(home, X, P, R),
         NEW r \in R, NEW S, \A s \in S : s \in R, r \notin S,
         stack' = Append(stack, regs[r]), UNCHANGED <<regs, objs, heap, globals>>
  PROVE  \E h : DOMAIN h = Value /\ Settled(h, X, P, S)'
<1> DEFINE n == Len(stack) + 1
           v == regs[r]
<1>0. PICK h : h = Moved(home, v, InStack(n))
  OBVIOUS
<1>1. /\ stack \in Seq(Value) /\ n \in Nat /\ DOMAIN stack' = 1 .. n /\ stack'[n] = v
      /\ \A i \in 1 .. n : i # n => i \in DOMAIN stack /\ stack'[i] = stack[i]
  BY DEF Shaped
<1>2. AtHome(objs, home, v, InReg(r))
  BY DEF Settled
<1>3. /\ AtHome(objs, h, v, InStack(n))
      /\ \A w, s : AtHome(objs, home, w, s) /\ s # InReg(r) => AtHome(objs, h, w, s)
  BY <1>0, <1>2, Moving
<1>4. DOMAIN h = Value
  BY <1>0 DEF Moved
<1> HIDE DEF v, n
<1>5. \A i \in DOMAIN stack' : AtHome(objs, h, stack'[i], InStack(i))
  <2> TAKE i \in DOMAIN stack'
  <2>1. CASE i = n
    BY <1>1, <1>3, <2>1
  <2>2. CASE i # n
    <3>1. stack'[i] = stack[i] /\ i \in DOMAIN stack
      BY <1>1, <2>2
    <3>2. AtHome(objs, home, stack[i], InStack(i)) /\ InStack(i) # InReg(r)
      BY <3>1, Places, Zenon DEF Settled
    <3>3. QED
      BY <1>3, <3>1, <3>2
  <2>3. QED
    BY <2>1, <2>2
<1>6. \A x \in DOMAIN globals \ X : AtHome(objs, h, globals[x], InGlobal(x))
  BY <1>3, Places, Zenon DEF Settled
<1>7. \A a \in DOMAIN heap : \A k \in DOMAIN heap[a] :
        <<a, k>> \notin P => AtHome(objs, h, heap[a][k], InItem(a, k))
  BY <1>3, Places, Zenon DEF Settled
<1>8. \A s \in S : AtHome(objs, h, regs[s], InReg(s))
  <2> TAKE s \in S
  <2>1. AtHome(objs, home, regs[s], InReg(s)) /\ InReg(s) # InReg(r)
    BY Places, Zenon DEF Settled
  <2>2. QED
    BY <1>3, <2>1
<1>9. Settled(h, X, P, S)'
  BY <1>5, <1>6, <1>7, <1>8 DEF Settled
<1>10. QED
  BY <1>4, <1>9

(* Nothing that a handler relies on changes; it may forget a register.     *)
LEMMA Steady ==
  ASSUME NEW home, NEW X, NEW P, NEW R, NEW S, \A s \in S : s \in R, Settled(home, X, P, R),
         UNCHANGED <<stack, globals, objs>>, DOMAIN heap' = DOMAIN heap,
         \A a \in DOMAIN heap : heap'[a] = heap[a], \A r \in S : regs'[r] = regs[r]
  PROVE  Settled(home, X, P, S)'
BY DEF Settled

(* A collection keeps what the stack and the globals hold, and the items   *)
(* of the lists it keeps.                                                  *)
LEMMA CollectedKeeps ==
  ASSUME Tracked, Shaped
  PROVE  /\ Collected.objs \subseteq objs /\ DOMAIN Collected.heap \subseteq DOMAIN heap
         /\ \A a \in DOMAIN Collected.heap : Collected.heap[a] = heap[a]
         /\ \A w \in Range(stack) \cup Range(globals) : w \in objs => w \in Collected.objs
         /\ \A a \in DOMAIN Collected.heap : \A k \in DOMAIN heap[a] :
              heap[a][k] \in objs => heap[a][k] \in Collected.objs
<1> DEFINE gone == {v.at : v \in objs \ Marked}
           h == Without(gone)
           o == objs \cap Marked
<1>1. \/ Collected.objs = objs /\ Collected.heap = heap
      \/ Collected.objs = o /\ Collected.heap = h
  BY DEF Collected
<1>2. DOMAIN h \subseteq DOMAIN heap /\ \A a \in DOMAIN h : h[a] = heap[a] /\ a \notin gone
  BY DEF Without
<1> DEFINE M == ReachedFrom(Roots, objs)
<1>3. o = objs \cap M
  BY DEF Marked
<1>4. objs \subseteq Value /\ \A v \in objs : InHeap(v) /\ v.at \in Addr
  BY DEF Shaped
<1>5. Roots \subseteq M /\ \A v \in M : ItemsIn(v, objs) \subseteq M
  BY <1>4, ReachesAll
<1>6. Range(stack) \cup Range(globals) \subseteq Roots
  BY DEF Roots
<1> HIDE DEF M
<1>7. \A w \in Range(stack) \cup Range(globals) : w \in objs => w \in o
  BY <1>3, <1>5, <1>6
<1>8. ASSUME NEW a \in DOMAIN h, NEW k \in DOMAIN heap[a], heap[a][k] \in objs
      PROVE  heap[a][k] \in o
  <2>1. PICK u \in objs : u.at = a
    BY <1>2 DEF Tracked, TrackedIsAllocated
  <2>2. u \in Marked
    BY <1>2, <2>1
  <2>3. u.is = "list"
    <3>1. u.is # "string"
      BY <2>1 DEF Shaped
    <3>2. QED
      BY <1>4, <2>1, <3>1 DEF InHeap
  <2>4. ItemsIn(u, objs) = Range(heap[a])
    BY <1>2, <2>1, <2>3 DEF ItemsIn, ItemsOf, Live
  <2>5. u \in M
    BY <1>3, <2>1, <2>2
  <2>6. heap[a][k] \in Range(heap[a])
    BY DEF Range
  <2>7. QED
    BY <1>3, <1>5, <1>8, <2>4, <2>5, <2>6
<1> HIDE DEF h, o, gone
<1>9. QED
  BY <1>1, <1>2, <1>7, <1>8, <1>3

(* So does an allocation, and the new value is nowhere yet.                *)
LEMMA AllocatedKeeps ==
  ASSUME Tracked, Shaped, NEW home, NEW X, Settled(home, X, {}, {}),
         NEW v \in Value, InHeap(v), v.at \in Addr, Allocated(v)
  PROVE  /\ v \in objs' /\ objs' \subseteq objs \cup {v}
         /\ \A w \in Range(stack) \cup Range(globals) : Safe(objs, w) => Safe(objs', w) /\ w # v
         /\ v.at \in DOMAIN heap' /\ heap'[v.at] = <<>>
         /\ \A a \in DOMAIN heap' : a # v.at =>
              /\ a \in DOMAIN heap /\ heap'[a] = heap[a]
              /\ \A k \in DOMAIN heap[a] : Safe(objs', heap[a][k]) /\ heap[a][k] # v
         /\ \A w \in objs' : w # v => w \in objs /\ w.at # v.at /\ w.at \in DOMAIN heap'
<1> DEFINE C == Collected.objs
           H == Collected.heap
<1>1. v.at \notin DOMAIN H /\ heap' = With(H, v.at, <<>>) /\ objs' = C \cup {v}
  BY DEF Allocated
<1>2. /\ C \subseteq objs /\ DOMAIN H \subseteq DOMAIN heap
      /\ \A a \in DOMAIN H : H[a] = heap[a]
      /\ \A w \in Range(stack) \cup Range(globals) : w \in objs => w \in C
      /\ \A a \in DOMAIN H : \A k \in DOMAIN heap[a] : heap[a][k] \in objs => heap[a][k] \in C
  BY CollectedKeeps
<1>3. {w.at : w \in C} = DOMAIN H
  BY CollectedTracked
<1> HIDE DEF C, H
<1>4. \A w \in C : w.at \in DOMAIN H /\ w.at # v.at
  BY <1>1, <1>3
<1>5. v \notin C
  BY <1>4
<1>6. DOMAIN heap' = DOMAIN H \cup {v.at} /\ heap'[v.at] = <<>> /\ \A a \in DOMAIN H : heap'[a] = H[a]
  BY <1>1 DEF With
<1>7. \A w : Safe(objs, w) /\ (w \in objs => w \in C) => Safe(objs', w) /\ w # v
  BY <1>1, <1>5 DEF Safe
<1>8. ASSUME NEW a \in DOMAIN heap', a # v.at
      PROVE  /\ a \in DOMAIN heap /\ heap'[a] = heap[a]
             /\ \A k \in DOMAIN heap[a] : Safe(objs', heap[a][k]) /\ heap[a][k] # v
  <2>1. a \in DOMAIN H /\ a \in DOMAIN heap /\ heap'[a] = heap[a]
    BY <1>2, <1>6, <1>8
  <2>2. \A k \in DOMAIN heap[a] : Safe(objs, heap[a][k])
    BY <2>1 DEF Settled, AtHome
  <2>3. QED
    BY <1>2, <1>7, <2>1, <2>2
<1>9. \A w \in Range(stack) \cup Range(globals) : Safe(objs, w) => Safe(objs', w) /\ w # v
  BY <1>2, <1>7
<1>10. \A w \in objs' : w # v => w \in objs /\ w.at # v.at /\ w.at \in DOMAIN heap'
  BY <1>1, <1>2, <1>4, <1>6
<1>11. QED
  BY <1>1, <1>2, <1>6, <1>8, <1>9, <1>10

(* A freed string was only where it was at home.                           *)
LEMMA FreedKeeps ==
  ASSUME Tracked, Shaped, NEW home, NEW p, NEW v, AtHome(objs, home, v, p), Freed({v})
  PROVE  /\ \A w, s : AtHome(objs, home, w, s) /\ s # p => AtHome(objs', home, w, s)
         /\ objs' \subseteq objs /\ DOMAIN heap' \subseteq DOMAIN heap
         /\ \A a \in DOMAIN heap' : heap'[a] = heap[a]
         /\ \A w \in objs' : w.at \in DOMAIN heap'
         /\ \A w : List(w) => w \in objs'
<1> DEFINE gone == TrackedWhere({v})
<1>1. objs' = objs \ gone /\ heap' = Without({w.at : w \in gone})
  BY DEF Freed
<1>2. \A w \in gone : w = v /\ w.is = "string" /\ w \in objs
  <2>1. v.is = "string" => v \in objs
    BY DEF AtHome, Safe, InHeap
  <2>2. ASSUME NEW w \in gone PROVE w \in objs /\ v.is = "string" /\ w.at = v.at
    BY <2>2 DEF TrackedWhere
  <2>3. \A w \in objs : v \in objs /\ w.at = v.at => w = v
    BY DEF Tracked
  <2> HIDE DEF gone
  <2>4. QED
    BY <2>1, <2>2, <2>3
<1> HIDE DEF gone
<1>3. \A w, s : AtHome(objs, home, w, s) /\ s # p => w \notin gone
  BY <1>2 DEF AtHome
<1>4. \A w, s : AtHome(objs, home, w, s) /\ s # p => AtHome(objs', home, w, s)
  BY <1>1, <1>3 DEF AtHome, Safe
<1>5. /\ DOMAIN heap' = DOMAIN heap \ {w.at : w \in gone}
      /\ \A a \in DOMAIN heap' : heap'[a] = heap[a]
  BY <1>1 DEF Without
<1>6. ASSUME NEW w \in objs' PROVE w.at \in DOMAIN heap'
  <2>1. w \in objs /\ w \notin gone /\ w.at \in DOMAIN heap
    BY <1>1 DEF Tracked, TrackedIsAllocated
  <2>2. \A u \in gone : u.at # w.at
    BY <1>2, <2>1 DEF Tracked
  <2>3. QED
    BY <1>5, <2>1, <2>2
<1>7. \A w : List(w) => w \in objs'
  BY <1>1, <1>2 DEF List
<1>8. QED
  BY <1>1, <1>4, <1>5, <1>6, <1>7

(* The step of a handler is that of its next call.                         *)
LEMMA Calls ==
  ASSUME Next, todo # <<>>
  PROVE  /\ call.do = "pop" => DoPop
         /\ call.do = "push" => DoPush
         /\ call.do = "new" => DoNew
         /\ call.do = "copy" => DoCopy
         /\ call.do = "free" => DoFree
         /\ call.do = "set" => DoSet
         /\ call.do = "add" => DoAdd
         /\ call.do = "free_var" => DoFreeVar
         /\ call.do = "fill_var" => DoFillVar
         /\ call.do = "push_item" => DoPushItem
         /\ call.do = "get_item" => DoGetItem
         /\ call.do = "set_item" => DoSetItem
         /\ call.do = "peek" => DoPeek
<1>1. \A do : Doing(do) => call.do = do
  BY DEF Doing
<1>2. /\ DoNew => Doing("new")
      /\ DoCopy => Doing("copy")
      /\ DoRead => Doing("read")
      /\ DoFree => Doing("free")
      /\ DoSet => Doing("set")
      /\ DoAdd => Doing("add")
      /\ DoFreeVar => Doing("free_var")
      /\ DoFillVar => Doing("fill_var")
      /\ DoPushItem => Doing("push_item")
      /\ DoGetItem => Doing("get_item")
      /\ DoSetItem => Doing("set_item")
      /\ DoEnter => Doing("enter")
      /\ DoLeave => Doing("leave")
      /\ DoPeek => Doing("peek")
  BY DEF DoNew, DoCopy, DoRead, DoFree, DoSet, DoAdd, DoFreeVar, DoFillVar, DoPushItem,
         DoGetItem, DoSetItem, DoEnter, DoLeave, DoPeek
<1>3. \/ call.do = "pop" /\ DoPop
      \/ call.do = "push" /\ DoPush
      \/ call.do = "free_raw"
      \/ call.do \notin {"pop", "push", "free_raw"} /\ Rest
  BY NextCall
<1>4. CASE call.do \in {"pop", "push", "free_raw"}
  BY <1>3, <1>4
<1>5. CASE call.do \notin {"pop", "push", "free_raw"} /\ Rest
  <2>1. /\ DoNew => call.do = "new"
        /\ DoCopy => call.do = "copy"
        /\ DoRead => call.do = "read"
        /\ DoFree => call.do = "free"
        /\ DoSet => call.do = "set"
        /\ DoAdd => call.do = "add"
        /\ DoFreeVar => call.do = "free_var"
        /\ DoFillVar => call.do = "fill_var"
        /\ DoPushItem => call.do = "push_item"
        /\ DoGetItem => call.do = "get_item"
        /\ DoSetItem => call.do = "set_item"
        /\ DoEnter => call.do = "enter"
        /\ DoLeave => call.do = "leave"
        /\ DoPeek => call.do = "peek"
    BY <1>1, <1>2
  <2>2. QED
    BY <1>5, <2>1 DEF Rest
<1>6. QED
  BY <1>3, <1>4, <1>5

(* What the calls name.                                                    *)
LEMMA Names ==
  /\ \A r : Pop(r).do = "pop" /\ Pop(r).r = r /\ Push(r).do = "push" /\ Push(r).r = r
            /\ Free(r).do = "free" /\ Free(r).r = r
  /\ \A r, s : New(r, s).do = "new" /\ New(r, s).r = r /\ New(r, s).x = s
               /\ Copy(r, s).do = "copy" /\ Copy(r, s).r = r /\ Copy(r, s).x = s
  /\ \A x, r : SetVar(x, r).do = "set" /\ SetVar(x, r).r = r /\ SetVar(x, r).x = x
               /\ AddVar(x, r).do = "add" /\ AddVar(x, r).r = r /\ AddVar(x, r).x = x
  /\ \A x, k : FreeVar(x, k).do = "free_var" /\ FreeVar(x, k).x = x /\ FreeVar(x, k).k = k
  /\ \A x, r, k : FillVar(x, r, k).do = "fill_var" /\ FillVar(x, r, k).x = x
                  /\ FillVar(x, r, k).r = r /\ FillVar(x, r, k).k = k
  /\ \A l, r : PushItem(l, r).do = "push_item" /\ PushItem(l, r).x = l /\ PushItem(l, r).r = r
  /\ \A l, r, k : /\ GetItem(l, r, k).do = "get_item" /\ GetItem(l, r, k).x = l
                  /\ GetItem(l, r, k).r = r /\ GetItem(l, r, k).k = k
                  /\ SetItem(l, r, k).do = "set_item" /\ SetItem(l, r, k).x = l
                  /\ SetItem(l, r, k).r = r /\ SetItem(l, r, k).k = k
  /\ Peek.do = "peek"
BY DEF Pop, Push, Free, New, Copy, SetVar, AddVar, FreeVar, FillVar, PushItem, GetItem,
       SetItem, Peek

(* What a pop does.                                                        *)
LEMMA Popped ==
  ASSUME NEW r, call = Pop(r), DoPop
  PROVE  /\ regs' = [regs EXCEPT ![r] = Top(1)]
         /\ stack' = SubSeq(stack, 1, Len(stack) - 1)
         /\ UNCHANGED <<objs, heap, globals, locals, call_stack, fault>>
<1>1. call.r = r
  BY Names
<1>2. QED
  BY <1>1 DEF DoPop, gcVars, scopes

(* A call is added to the end of a handler.                                *)
LEMMA Glue ==
  ASSUME NEW S, NEW p \in Seq(S), NEW r \in Seq(S), NEW d \in S, Len(r) = Len(p) + 1,
         \A i \in 1 .. Len(p) : r[i] = p[i], r[Len(p) + 1] = d
  PROVE  p \o <<d>> = r
<1> DEFINE q == <<d>>
<1>1. q \in Seq(S) /\ Len(q) = 1 /\ q[1] = d
  OBVIOUS
<1> HIDE DEF q
<1>2. /\ p \o q \in Seq(S) /\ Len(p \o q) = Len(p) + Len(q)
      /\ \A i \in 1 .. Len(p) + Len(q) : (p \o q)[i] = IF i <= Len(p) THEN p[i] ELSE q[i - Len(p)]
  BY <1>1, ConcatProperties
<1>3. \A i \in 1 .. Len(p) + 1 : (p \o q)[i] = r[i]
  <2> TAKE i \in 1 .. Len(p) + 1
  <2>1. CASE i = Len(p) + 1
    BY <1>1, <1>2, <2>1
  <2>2. CASE i # Len(p) + 1
    BY <1>1, <1>2, <2>2
  <2>3. QED
    BY <2>1, <2>2
<1>4. p \o q = r
  BY <1>1, <1>2, <1>3, SeqEqual
<1>5. QED
  BY <1>4 DEF q

LEMMA TwoGlued ==
  \A a, z : <<a>> \o <<z>> = <<a, z>>
<1> SUFFICES ASSUME NEW a, NEW z PROVE <<a>> \o <<z>> = <<a, z>>
  OBVIOUS
<1> DEFINE S == {a, z}
           p == <<a>>
           r == <<a, z>>
<1>1. /\ p \in Seq(S) /\ Len(p) = 1 /\ p[1] = a
      /\ r \in Seq(S) /\ Len(r) = 2 /\ r[1] = a /\ r[2] = z /\ z \in S
  OBVIOUS
<1> HIDE DEF S, p, r
<1>2. \A i \in 1 .. 1 : i = 1
  OBVIOUS
<1>3. \A i \in 1 .. Len(p) : r[i] = p[i]
  BY <1>1, <1>2
<1>4. Len(r) = Len(p) + 1 /\ r[Len(p) + 1] = z
  BY <1>1
<1>5. p \o <<z>> = r
  BY <1>1, <1>3, <1>4, Glue, ZenonT(60)
<1>6. QED
  BY <1>5 DEF p, r

(* The first two calls of a handler.                                       *)
LEMMA Apart ==
  ASSUME NEW S, NEW rest \in Seq(S), NEW c, NEW d
  PROVE  <<c, d>> \o rest = <<c>> \o (<<d>> \o rest)
<1> DEFINE T == S \cup {c, d}
           p == <<c>>
           q == <<d>>
<1>1. rest \in Seq(T) /\ p \in Seq(T) /\ q \in Seq(T)
  OBVIOUS
<1>2. <<c, d>> = p \o q
  BY TwoGlued
<1> HIDE DEF T, p, q
<1>3. (p \o q) \o rest = p \o (q \o rest)
  BY <1>1, ConcatAssociative
<1>4. QED
  BY <1>2, <1>3 DEF p, q

(* A handler that goes on as rest.                                         *)
LEMMA Ahead ==
  ASSUME NEW S, NEW rest \in Seq(S), NEW c, NEW d
  PROVE  /\ <<c>> \o rest # <<>>
         /\ (<<c>> \o rest)[1] = c
         /\ Tail(<<c>> \o rest) = rest
         /\ <<>> \o rest = rest
         /\ <<d>> \o rest \in Seq(S \cup {d})
<1> DEFINE T == S \cup {c, d}
           p == <<c>>
           q == <<d>>
<1>1. /\ rest \in Seq(T) /\ p \in Seq(T) /\ q \in Seq(T)
      /\ Len(p) = 1 /\ Len(q) = 1 /\ p[1] = c /\ q[1] = d
  OBVIOUS
<1> HIDE DEF T, p, q
<1>8. /\ p \o rest \in Seq(T) /\ Len(p \o rest) = 1 + Len(rest) /\ Len(rest) \in Nat
      /\ \A i \in 1 .. 1 + Len(rest) : (p \o rest)[i] = IF i <= 1 THEN p[i] ELSE rest[i - 1]
  <2>1. rest \in Seq(T) /\ p \in Seq(T)
    BY <1>1
  <2>2. /\ p \o rest \in Seq(T) /\ Len(p \o rest) = Len(p) + Len(rest)
        /\ \A i \in 1 .. Len(p) + Len(rest) : (p \o rest)[i] = IF i <= Len(p) THEN p[i] ELSE rest[i - Len(p)]
    BY <2>1, ConcatProperties
  <2>3. QED
    BY <1>1, <2>2
<1>2. p \o rest # <<>> /\ (p \o rest)[1] = c
  BY <1>1, <1>8
<1>3. Tail(p \o rest) = rest
  <2> DEFINE z == p \o rest
  <2>1. z \in Seq(T) /\ Len(z) = 1 + Len(rest) /\ Len(rest) \in Nat /\ z # <<>>
    BY <1>2, <1>8
  <2>2. \A i \in 1 .. Len(rest) : z[i + 1] = rest[i]
    BY <1>8
  <2> HIDE DEF z
  <2>3. Tail(z) \in Seq(T) /\ Len(Tail(z)) = Len(rest)
    BY <2>1
  <2>4. \A i \in 1 .. Len(rest) : Tail(z)[i] = rest[i]
    BY <2>1, <2>2
  <2>5. QED
    BY <1>1, <2>3, <2>4, SeqEqual DEF z
<1>5. <<>> \o rest = rest
  BY <1>1, ConcatEmptySeq
<1>6. <<d>> \o rest \in Seq(S \cup {d})
  <2>1. rest \in Seq(S \cup {d}) /\ <<d>> \in Seq(S \cup {d})
    OBVIOUS
  <2>2. QED
    BY <2>1, ConcatProperties
<1>7. QED
  BY <1>1, <1>2, <1>3, <1>5, <1>6 DEF p, q

(* How a handler goes on after a variable is set.                          *)
LEMMA Sources ==
  ASSUME NEW rest, Source(rest)
  PROVE  rest \in Seq({Free("a"), Peek}) /\ rest \in {<<>>, Freeing}
<1> DEFINE f == Free("a")
<1> HIDE DEF f
<1>1. <<>> \in Seq({f, Peek}) /\ <<f, Peek>> \in Seq({f, Peek})
  OBVIOUS
<1>2. QED
  BY <1>1 DEF Source, Freeing, f

(* The end of an instruction's handler.                                    *)
LEMMA Peeking ==
  /\ \A a : <<a>> \o <<Peek>> = <<a, Peek>>
  /\ \A a, b : <<a, b>> \o <<Peek>> = <<a, b, Peek>>
  /\ \A a, b, c : <<a, b, c>> \o <<Peek>> = <<a, b, c, Peek>>
  /\ \A a, b, c, d : <<a, b, c, d>> \o <<Peek>> = <<a, b, c, d, Peek>>
  /\ \A a, b, c, d, e : <<a, b, c, d, e>> \o <<Peek>> = <<a, b, c, d, e, Peek>>
<1> DEFINE z == Peek
<1> HIDE DEF z
<1>1. ASSUME NEW a PROVE <<a>> \o <<z>> = <<a, z>>
  <2> DEFINE S == {a, z}
             p == <<a>>
             r == <<a, z>>
  <2>1. /\ p \in Seq(S) /\ Len(p) = 1 /\ p[1] = a
        /\ r \in Seq(S) /\ Len(r) = 2 /\ r[1] = a /\ r[2] = z /\ z \in S
    OBVIOUS
  <2> HIDE DEF S, p, r
  <2>2. \A i \in 1 .. 1 : i = 1
    OBVIOUS
  <2>3. \A i \in 1 .. Len(p) : r[i] = p[i]
    BY <2>1, <2>2
  <2>4. Len(r) = Len(p) + 1 /\ r[Len(p) + 1] = z
    BY <2>1
  <2>5. p \o <<z>> = r
    BY <2>1, <2>3, <2>4, Glue, ZenonT(60)
  <2>6. QED
    BY <2>5 DEF p, r
<1>2. ASSUME NEW a, NEW b PROVE <<a, b>> \o <<z>> = <<a, b, z>>
  <2> DEFINE S == {a, b, z}
             p == <<a, b>>
             r == <<a, b, z>>
  <2>1. /\ p \in Seq(S) /\ Len(p) = 2 /\ p[1] = a /\ p[2] = b
        /\ r \in Seq(S) /\ Len(r) = 3 /\ r[1] = a /\ r[2] = b /\ r[3] = z /\ z \in S
    OBVIOUS
  <2> HIDE DEF S, p, r
  <2>2. \A i \in 1 .. 2 : i = 1 \/ i = 2
    OBVIOUS
  <2>3. \A i \in 1 .. Len(p) : r[i] = p[i]
    BY <2>1, <2>2
  <2>4. Len(r) = Len(p) + 1 /\ r[Len(p) + 1] = z
    BY <2>1
  <2>5. p \o <<z>> = r
    BY <2>1, <2>3, <2>4, Glue, ZenonT(60)
  <2>6. QED
    BY <2>5 DEF p, r
<1>3. ASSUME NEW a, NEW b, NEW c PROVE <<a, b, c>> \o <<z>> = <<a, b, c, z>>
  <2> DEFINE S == {a, b, c, z}
             p == <<a, b, c>>
             r == <<a, b, c, z>>
  <2>1. /\ p \in Seq(S) /\ Len(p) = 3 /\ p[1] = a /\ p[2] = b /\ p[3] = c
        /\ r \in Seq(S) /\ Len(r) = 4 /\ r[1] = a /\ r[2] = b /\ r[3] = c /\ r[4] = z /\ z \in S
    OBVIOUS
  <2> HIDE DEF S, p, r
  <2>2. \A i \in 1 .. 3 : i = 1 \/ i = 2 \/ i = 3
    OBVIOUS
  <2>3. \A i \in 1 .. Len(p) : r[i] = p[i]
    BY <2>1, <2>2
  <2>4. Len(r) = Len(p) + 1 /\ r[Len(p) + 1] = z
    BY <2>1
  <2>5. p \o <<z>> = r
    BY <2>1, <2>3, <2>4, Glue, ZenonT(60)
  <2>6. QED
    BY <2>5 DEF p, r
<1>4. ASSUME NEW a, NEW b, NEW c, NEW d PROVE <<a, b, c, d>> \o <<z>> = <<a, b, c, d, z>>
  <2> DEFINE S == {a, b, c, d, z}
             p == <<a, b, c, d>>
             r == <<a, b, c, d, z>>
  <2>1. /\ p \in Seq(S) /\ Len(p) = 4 /\ p[1] = a /\ p[2] = b /\ p[3] = c /\ p[4] = d
        /\ r \in Seq(S) /\ Len(r) = 5 /\ r[1] = a /\ r[2] = b /\ r[3] = c /\ r[4] = d /\ r[5] = z /\ z \in S
    OBVIOUS
  <2> HIDE DEF S, p, r
  <2>2. \A i \in 1 .. 4 : i = 1 \/ i = 2 \/ i = 3 \/ i = 4
    OBVIOUS
  <2>3. \A i \in 1 .. Len(p) : r[i] = p[i]
    BY <2>1, <2>2
  <2>4. Len(r) = Len(p) + 1 /\ r[Len(p) + 1] = z
    BY <2>1
  <2>5. p \o <<z>> = r
    BY <2>1, <2>3, <2>4, Glue, ZenonT(60)
  <2>6. QED
    BY <2>5 DEF p, r
<1>5. ASSUME NEW a, NEW b, NEW c, NEW d, NEW e PROVE <<a, b, c, d, e>> \o <<z>> = <<a, b, c, d, e, z>>
  <2> DEFINE S == {a, b, c, d, e, z}
             p == <<a, b, c, d, e>>
             r == <<a, b, c, d, e, z>>
  <2>1. /\ p \in Seq(S) /\ Len(p) = 5 /\ p[1] = a /\ p[2] = b /\ p[3] = c /\ p[4] = d /\ p[5] = e
        /\ r \in Seq(S) /\ Len(r) = 6 /\ r[1] = a /\ r[2] = b /\ r[3] = c /\ r[4] = d /\ r[5] = e /\ r[6] = z /\ z \in S
    OBVIOUS
  <2> HIDE DEF S, p, r
  <2>2. \A i \in 1 .. 5 : i = 1 \/ i = 2 \/ i = 3 \/ i = 4 \/ i = 5
    OBVIOUS
  <2>3. \A i \in 1 .. Len(p) : r[i] = p[i]
    BY <2>1, <2>2
  <2>4. Len(r) = Len(p) + 1 /\ r[Len(p) + 1] = z
    BY <2>1
  <2>5. p \o <<z>> = r
    BY <2>1, <2>3, <2>4, Glue, ZenonT(60)
  <2>6. QED
    BY <2>5 DEF p, r
<1>6. QED
  BY <1>1, <1>2, <1>3, <1>4, <1>5 DEF z

(* Null and numbers are not in the heap.                                   *)
LEMMA FreeValues ==
  Null \in Value /\ Num \in Value /\ NoRegs \in [Registers -> Value] /\ ~InHeap(Null) /\ ~InHeap(Num)
BY DEF Null, Num, Value, NoRegs, InHeap

(* Nothing is freed but strings.                                           *)
LEMMA FreedNothing ==
  ASSUME NEW v, v.is # "string", Freed({v})
  PROVE  UNCHANGED objs /\ DOMAIN heap' = DOMAIN heap /\ \A a \in DOMAIN heap : heap'[a] = heap[a]
<1>1. TrackedWhere({v}) = {}
  BY DEF TrackedWhere
<1>2. objs' = objs \ {} /\ heap' = Without({})
  <2>1. {w.at : w \in {}} = {}
    OBVIOUS
  <2>2. QED
    BY <1>1, <2>1 DEF Freed
<1>3. QED
  BY <1>2 DEF Without

(* Two calls and the end of a handler.                                     *)
LEMMA TwoBeforePeek ==
  \A a, b : <<a>> \o <<b, Peek>> = <<a, b, Peek>>
<1> DEFINE z == Peek
<1> HIDE DEF z
<1>1. SUFFICES ASSUME NEW a, NEW b PROVE <<a>> \o <<b, z>> = <<a, b, z>>
  BY DEF z
<1> DEFINE rest == <<z>>
           S == {z}
<1>2. rest \in Seq(S)
  OBVIOUS
<1> HIDE DEF rest, S
<1>3. <<a, b>> \o rest = <<a>> \o (<<b>> \o rest)
  BY <1>2, Apart, Zenon
<1>4. <<b>> \o <<z>> = <<b, z>>
  BY TwoGlued
<1>5. <<a, b>> \o <<z>> = <<a, b, z>>
  BY Peeking DEF z
<1>6. QED
  BY <1>3, <1>4, <1>5 DEF rest

(* A step of the handlers that push a register.                            *)
LEMMA PushStep ==
  ASSUME Shaped, Next, NEW home, DOMAIN home = Value, Pushes(home)
  PROVE  Shaped' /\ Underway'
<1>1. PICK r \in Registers : todo = <<Push(r), Peek>> /\ Settled(home, {}, {}, {r})
  BY DEF Pushes
<1>2. todo # <<>> /\ call = Push(r) /\ Tail(todo) = <<Peek>>
  BY <1>1 DEF call
<1>3. DoPush
  BY <1>2, Calls, Names
<1>4. todo' = <<Peek>>
  BY <1>2, <1>3 DEF DoPush, Done, Then
<1>5. stack' = Append(stack, regs[r]) /\ UNCHANGED <<gcVars, scopes, regs, fault>>
  BY <1>2, <1>3, Names DEF DoPush, Reg
<1>6. \E h : DOMAIN h = Value /\ Settled(h, {}, {}, {})'
  <2>1. r \notin {} /\ r \in {r} /\ \A s \in {} : s \in {r}
    OBVIOUS
  <2>2. UNCHANGED <<regs, objs, heap, globals>>
    BY <1>5 DEF gcVars, scopes
  <2>3. QED
    BY <1>1, <1>5, <2>1, <2>2, PushMoves
<1>7. Underway'
  <2>1. PICK h : DOMAIN h = Value /\ Settled(h, {}, {}, {})'
    BY <1>6
  <2>2. Rests(h)'
    BY <1>4, <2>1 DEF Rests, AtEase
  <2>3. QED
    BY <2>1, <2>2 DEF Underway
<1>8. Shaped'
  BY <1>1, <1>5 DEF Shaped, gcVars, scopes
<1>9. QED
  BY <1>7, <1>8

(* A step of the handlers that make a string or a list.                    *)
LEMMA MakeStep ==
  ASSUME Tracked, Shaped, Next, NEW home, DOMAIN home = Value, Makes(home)
  PROVE  Shaped' /\ Underway'
<1>1. PICK is \in {"string", "list"} : todo = <<New("r", is), Push("r"), Peek>> /\ AtEase(home)
  BY DEF Makes
<1>2. todo # <<>> /\ call = New("r", is) /\ Tail(todo) = <<Push("r"), Peek>>
  BY <1>1 DEF call
<1>3. DoNew
  BY <1>2, Calls, Names
<1>4. todo' = <<Push("r"), Peek>>
  BY <1>2, <1>3 DEF DoNew, Done, Then
<1>15. PICK a \in Addr : /\ Allocated([is |-> call.x, at |-> a])
                        /\ regs' = [regs EXCEPT ![call.r] = [is |-> call.x, at |-> a]]
  BY <1>3 DEF DoNew
<1> DEFINE v == [is |-> is, at |-> a]
<1>5. /\ Allocated(v) /\ regs' = [regs EXCEPT !["r"] = v]
      /\ UNCHANGED <<stack, scopes, fault>>
  <2>1. call.x = is /\ call.r = "r"
    BY <1>2, Names
  <2>2. UNCHANGED <<stack, scopes, fault>>
    BY <1>3 DEF DoNew
  <2>3. QED
    BY <1>15, <2>1, <2>2
<1>6. v \in Value /\ InHeap(v) /\ v.at \in Addr
  BY DEF Value, InHeap
<1> HIDE DEF v
<1>7. /\ v \in objs' /\ objs' \subseteq objs \cup {v}
      /\ \A w \in Range(stack) \cup Range(globals) : Safe(objs, w) => Safe(objs', w) /\ w # v
      /\ v.at \in DOMAIN heap' /\ heap'[v.at] = <<>>
      /\ \A b \in DOMAIN heap' : b # v.at =>
           /\ b \in DOMAIN heap /\ heap'[b] = heap[b]
           /\ \A k \in DOMAIN heap[b] : Safe(objs', heap[b][k]) /\ heap[b][k] # v
      /\ \A w \in objs' : w # v => w \in objs /\ w.at # v.at /\ w.at \in DOMAIN heap'
  BY <1>1, <1>5, <1>6, AllocatedKeeps DEF AtEase
<1>8. PICK h : h = Moved(home, v, InReg("r"))
  OBVIOUS
<1>9. \A w, s : AtHome(objs, home, w, s) /\ Safe(objs', w) /\ w # v => AtHome(objs', h, w, s)
  BY <1>8 DEF AtHome, Safe, Moved
<1>10. AtHome(objs', h, v, InReg("r"))
  BY <1>6, <1>7, <1>8 DEF AtHome, Safe, Moved
<1>11. Settled(h, {}, {}, {"r"})'
  <2>1. \A i \in DOMAIN stack : AtHome(objs', h, stack[i], InStack(i))
    BY <1>1, <1>7, <1>9 DEF AtEase, Settled, Range, AtHome
  <2>2. \A x \in DOMAIN globals : AtHome(objs', h, globals[x], InGlobal(x))
    BY <1>1, <1>7, <1>9 DEF AtEase, Settled, Range, AtHome
  <2>3. \A b \in DOMAIN heap' : \A k \in DOMAIN heap'[b] : AtHome(objs', h, heap'[b][k], InItem(b, k))
    <3> TAKE b \in DOMAIN heap'
    <3>1. CASE b = v.at
      BY <1>7, <3>1
    <3>2. CASE b # v.at
      BY <1>1, <1>7, <1>9, <3>2 DEF AtEase, Settled
    <3>3. QED
      BY <3>1, <3>2
  <2>4. regs'["r"] = v
    BY <1>5 DEF Shaped, Registers
  <2>5. stack' = stack /\ globals' = globals
    BY <1>5 DEF scopes
  <2>6. QED
    BY <1>10, <2>1, <2>2, <2>3, <2>4, <2>5 DEF Settled
<1>12. Underway'
  <2>1. Pushes(h)'
    BY <1>4, <1>11 DEF Pushes, Registers
  <2>2. DOMAIN h = Value
    BY <1>8 DEF Moved
  <2>3. QED
    BY <2>1, <2>2 DEF Underway
<1>13. Shaped'
  <2>1. objs' \subseteq {w \in Value : InHeap(w) /\ w.at \in Addr}
    BY <1>5, <1>6, <1>7 DEF Shaped
  <2>2. ASSUME NEW b \in DOMAIN heap' PROVE heap'[b] \in Seq(Value)
    <3>1. <<>> \in Seq(Value)
      OBVIOUS
    <3>2. b # v.at => heap'[b] \in Seq(Value)
      BY <1>7 DEF Shaped
    <3>3. QED
      BY <1>7, <3>1, <3>2
  <2>3. \A w \in objs' : w.is = "string" => heap'[w.at] = <<>>
    BY <1>7 DEF Shaped
  <2>4. regs' \in [Registers -> Value]
    BY <1>5, <1>6 DEF Shaped
  <2>5. QED
    BY <1>5, <2>1, <2>2, <2>3, <2>4 DEF Shaped, scopes
<1>14. QED
  BY <1>12, <1>13

(* A step of the handlers that copy a value.                               *)
LEMMA LoadStep ==
  ASSUME Tracked, Shaped, Next, NEW home, DOMAIN home = Value, Loads(home)
  PROVE  Shaped' /\ Underway'
<1> DEFINE v == regs["a"]
<1>1. /\ todo = <<Copy("r", "a"), Push("r"), Peek>> /\ AtEase(home)
      /\ Safe(objs, v) /\ v.is # "list"
  BY DEF Loads
<1>2. todo # <<>> /\ call = Copy("r", "a") /\ Tail(todo) = <<Push("r"), Peek>>
  BY <1>1 DEF call
<1>3. DoCopy
  BY <1>2, Calls, Names
<1>4. Live(v)
  BY <1>1 DEF Live, Safe, Tracked, TrackedIsAllocated
<1>5. /\ regs' = IF InHeap(v) THEN regs ELSE [regs EXCEPT !["r"] = v]
      /\ UNCHANGED <<gcVars, stack, scopes, fault>>
      /\ v.is = "string" => Then(<<New("r", "string")>>)
      /\ v.is # "string" => Done
  <2>1. call.r = "r" /\ call.x = "a"
    BY <1>2, Names
  <2>2. /\ CASE v.is = "string" -> Then(<<New(call.r, "string")>>)
             [] v.is = "list"   ->
                  Then(<<New(call.r, "list"), Read(call.x)>>
                       \o CopyItems(call.x, call.r, Len(heap[v.at])))
             [] OTHER -> Done
        /\ regs' = IF InHeap(v) THEN regs ELSE [regs EXCEPT ![call.r] = v]
        /\ UNCHANGED <<gcVars, stack, scopes, fault>>
    BY <1>3, <1>4, <2>1 DEF DoCopy
  <2>3. QED
    BY <1>1, <2>1, <2>2
<1>6. Shaped'
  BY <1>1, <1>5 DEF Shaped, gcVars, scopes, Safe
<1>7. CASE v.is = "string"
  <2>1. todo' = <<New("r", "string")>> \o <<Push("r"), Peek>>
    BY <1>2, <1>5, <1>7 DEF Then
  <2>2. todo' = <<New("r", "string"), Push("r"), Peek>>
    BY <2>1, TwoBeforePeek
  <2>3. Settled(home, {}, {}, {})'
    BY <1>1, <1>5, Steady DEF AtEase, gcVars, scopes
  <2>4. Makes(home)'
    BY <2>2, <2>3 DEF Makes, AtEase
  <2>5. QED
    BY <1>6, <2>4 DEF Underway
<1>8. CASE v.is # "string"
  <2>1. todo' = <<Push("r"), Peek>>
    <3>1. todo' = <<>> \o Tail(todo)
      BY <1>5, <1>8 DEF Done, Then
    <3>2. QED
      BY <1>2, <3>1
  <2>2. ~InHeap(v)
    BY <1>1, <1>8 DEF InHeap
  <2>3. regs'["r"] = v
    BY <1>5, <2>2 DEF Shaped, Registers
  <2>4. AtHome(objs, home, v, InReg("r"))
    BY <1>1, <1>8 DEF AtHome
  <2>5. Settled(home, {}, {}, {"r"})'
    BY <1>1, <1>5, <2>3, <2>4 DEF AtEase, Settled, gcVars, scopes
  <2>6. Pushes(home)'
    BY <2>1, <2>5 DEF Pushes, Registers
  <2>7. QED
    BY <1>6, <2>6 DEF Underway
<1>9. QED
  BY <1>7, <1>8

(* The steps of OP_LIST_PUSH: the value is popped,                         *)
LEMMA AppendStep1 ==
  ASSUME Shaped, Next, NEW home, Appends1(home)
  PROVE  Shaped' /\ Underway'
<1>1. /\ todo = <<Pop("b"), Pop("a"), PushItem("a", "b"), Push("a"), Peek>>
      /\ Len(stack) >= 2 /\ Top(2).is = "list" /\ Settled(home, {}, {}, {})
  BY DEF Appends1, AtEase
<1>2. /\ todo # <<>>
      /\ call = Pop("b")
      /\ Tail(todo) = <<Pop("a"), PushItem("a", "b"), Push("a"), Peek>>
  BY <1>1 DEF call
<1>3. DoPop
  BY <1>2, Calls, Names
<1>4. todo' = <<Pop("a"), PushItem("a", "b"), Push("a"), Peek>>
  BY <1>2, <1>3 DEF DoPop, Done, Then
<1>5. /\ regs' = [regs EXCEPT !["b"] = Top(1)] /\ stack' = SubSeq(stack, 1, Len(stack) - 1)
      /\ UNCHANGED <<objs, heap, globals, locals, call_stack, fault>>
  BY <1>2, <1>3, Popped
<1>6. stack \in Seq(Value) /\ "b" \in Registers /\ stack # <<>>
  BY <1>1 DEF Shaped, Registers
<1>7. PICK h : DOMAIN h = Value /\ Settled(h, {}, {}, {"b"})'
  <2> DEFINE E == {}
             S == {"b"}
  <2>1. Settled(home, E, E, E) /\ "b" \notin E /\ \A s \in S : s = "b" \/ s \in E
    BY <1>1
  <2> HIDE DEF E, S
  <2>2. \E h : DOMAIN h = Value /\ Settled(h, E, E, S)'
    BY <1>5, <1>6, <2>1, PopMoves
  <2>3. QED
    BY <2>2 DEF E, S
<1>8. Len(stack') >= 1 /\ Top(1)' = Top(2)
  BY <1>1, <1>5, <1>6 DEF Top
<1>9. Appends2(h)'
  BY <1>1, <1>4, <1>7, <1>8 DEF Appends2
<1>10. Shaped'
  BY <1>1, <1>5, <1>6 DEF Shaped, Top
<1>11. QED
  BY <1>7, <1>9, <1>10 DEF Underway, Appends

(* then the list,                                                          *)
LEMMA AppendStep2 ==
  ASSUME Shaped, Next, NEW home, Appends2(home)
  PROVE  Shaped' /\ Underway'
<1>1. /\ todo = <<Pop("a"), PushItem("a", "b"), Push("a"), Peek>>
      /\ Len(stack) >= 1 /\ Top(1).is = "list" /\ Settled(home, {}, {}, {"b"})
  BY DEF Appends2
<1>2. /\ todo # <<>>
      /\ call = Pop("a")
      /\ Tail(todo) = <<PushItem("a", "b"), Push("a"), Peek>>
  BY <1>1 DEF call
<1>3. DoPop
  BY <1>2, Calls, Names
<1>4. todo' = <<PushItem("a", "b"), Push("a"), Peek>>
  BY <1>2, <1>3 DEF DoPop, Done, Then
<1>5. /\ regs' = [regs EXCEPT !["a"] = Top(1)] /\ stack' = SubSeq(stack, 1, Len(stack) - 1)
      /\ UNCHANGED <<objs, heap, globals, locals, call_stack, fault>>
  BY <1>2, <1>3, Popped
<1>6. stack \in Seq(Value) /\ "a" \in Registers /\ stack # <<>> /\ Top(1) \in Value
  BY <1>1 DEF Shaped, Registers, Top
<1>7. PICK h : DOMAIN h = Value /\ Settled(h, {}, {}, {"a", "b"})'
  <2> DEFINE E == {}
             R == {"b"}
             S == {"a", "b"}
  <2>1. Settled(home, E, E, R) /\ "a" \notin R /\ \A s \in S : s = "a" \/ s \in R
    BY <1>1
  <2> HIDE DEF E, R, S
  <2>2. \E h : DOMAIN h = Value /\ Settled(h, E, E, S)'
    BY <1>5, <1>6, <2>1, PopMoves
  <2>3. QED
    BY <2>2 DEF E, R, S
<1>8. regs'["a"] = Top(1)
  BY <1>5, <1>6 DEF Shaped
<1>9. Appends3(h)'
  BY <1>1, <1>4, <1>7, <1>8 DEF Appends3
<1>10. Shaped'
  BY <1>1, <1>5, <1>6 DEF Shaped
<1>11. QED
  BY <1>7, <1>9, <1>10 DEF Underway, Appends

(* What r holds becomes the item k of the list l.                          *)
LEMMA ItemMoves ==
  ASSUME NEW home, NEW R, NEW r \in R, NEW S, \A s \in S : s \in R, r \notin S,
         NEW a \in DOMAIN heap, NEW k, NEW P, \A p \in P : p = <<a, k>>, Settled(home, {}, P, R),
         DOMAIN heap' = DOMAIN heap, \A b \in DOMAIN heap : b # a => heap'[b] = heap[b],
         heap'[a][k] = regs[r],
         \A i \in DOMAIN heap'[a] : i # k => i \in DOMAIN heap[a] /\ heap'[a][i] = heap[a][i],
         UNCHANGED <<regs, stack, globals, objs>>
  PROVE  \E h : DOMAIN h = Value /\ Settled(h, {}, {}, S)'
<1> DEFINE v == regs[r]
           q == InItem(a, k)
<1>0. PICK h : h = Moved(home, v, q)
  OBVIOUS
<1>1. AtHome(objs, home, v, InReg(r))
  BY DEF Settled
<1>2. /\ AtHome(objs, h, v, q)
      /\ \A w, s : AtHome(objs, home, w, s) /\ s # InReg(r) => AtHome(objs, h, w, s)
  BY <1>0, <1>1, Moving
<1>3. DOMAIN h = Value
  BY <1>0 DEF Moved
<1>4. \A i \in DOMAIN stack : AtHome(objs, h, stack[i], InStack(i))
  BY <1>2, Places, Zenon DEF Settled
<1>5. \A x \in DOMAIN globals : AtHome(objs, h, globals[x], InGlobal(x))
  BY <1>2, Places DEF Settled
<1>6. \A b \in DOMAIN heap : \A i \in DOMAIN heap[b] :
        <<b, i>> # <<a, k>> => AtHome(objs, h, heap[b][i], InItem(b, i))
  <2> SUFFICES ASSUME NEW b \in DOMAIN heap, NEW i \in DOMAIN heap[b], <<b, i>> # <<a, k>>
               PROVE  AtHome(objs, h, heap[b][i], InItem(b, i))
    OBVIOUS
  <2>1. <<b, i>> \notin P
    OBVIOUS
  <2>2. AtHome(objs, home, heap[b][i], InItem(b, i)) /\ InItem(b, i) # InReg(r)
    BY <2>1, Places, Zenon DEF Settled
  <2>3. QED
    BY <1>2, <2>2
<1>7. \A b \in DOMAIN heap' : \A i \in DOMAIN heap'[b] : AtHome(objs, h, heap'[b][i], InItem(b, i))
  <2> SUFFICES ASSUME NEW b \in DOMAIN heap, NEW i \in DOMAIN heap'[b]
               PROVE  AtHome(objs, h, heap'[b][i], InItem(b, i))
    OBVIOUS
  <2>1. CASE b # a
    <3>1. heap'[b] = heap[b] /\ i \in DOMAIN heap[b] /\ <<b, i>> # <<a, k>>
      BY <2>1
    <3>2. QED
      BY <1>6, <3>1
  <2>2. CASE b = a /\ i # k
    <3>1. i \in DOMAIN heap[a] /\ heap'[a][i] = heap[a][i] /\ <<a, i>> # <<a, k>>
      BY <2>2
    <3>2. QED
      BY <1>6, <2>2, <3>1
  <2>3. CASE b = a /\ i = k
    BY <1>2, <2>3
  <2>4. QED
    BY <2>1, <2>2, <2>3
<1>8. \A s \in S : AtHome(objs, h, regs[s], InReg(s))
  <2> TAKE s \in S
  <2>1. AtHome(objs, home, regs[s], InReg(s)) /\ InReg(s) # InReg(r)
    BY Places, Zenon DEF Settled
  <2>2. QED
    BY <1>2, <2>1
<1>9. Settled(h, {}, {}, S)'
  BY <1>4, <1>5, <1>7, <1>8 DEF Settled
<1>10. QED
  BY <1>3, <1>9

(* A list that is filled is none of the strings.                           *)
LEMMA FilledIsShaped ==
  ASSUME Tracked, Shaped, NEW l, List(l), DOMAIN heap' = DOMAIN heap,
         \A b \in DOMAIN heap : b # l.at => heap'[b] = heap[b], heap'[l.at] \in Seq(Value),
         UNCHANGED <<regs, stack, globals, objs, locals, call_stack, fault>>
  PROVE  Shaped'
<1>1. \A a \in DOMAIN heap' : heap'[a] \in Seq(Value)
  BY DEF Shaped
<1>2. ASSUME NEW v \in objs, v.is = "string" PROVE heap'[v.at] = <<>>
  <2>1. v.at # l.at
    BY <1>2 DEF Tracked, List
  <2>2. v.at \in DOMAIN heap
    BY DEF Tracked, TrackedIsAllocated
  <2>3. QED
    BY <1>2, <2>1, <2>2 DEF Shaped
<1>3. QED
  BY <1>1, <1>2 DEF Shaped

(* and the list gets the value.                                            *)
LEMMA AppendStep3 ==
  ASSUME Tracked, Shaped, Next, NEW home, Appends3(home)
  PROVE  Shaped' /\ Underway'
<1> DEFINE l == regs["a"]
           n == Len(heap[l.at]) + 1
<1>1. /\ todo = <<PushItem("a", "b"), Push("a"), Peek>>
      /\ l.is = "list"
      /\ Settled(home, {}, {}, {"a", "b"})
  BY DEF Appends3
<1>2. todo # <<>> /\ call = PushItem("a", "b") /\ Tail(todo) = <<Push("a"), Peek>>
  BY <1>1 DEF call
<1>3. DoPushItem /\ call.x = "a" /\ call.r = "b"
  BY <1>2, Calls, Names
<1>4. List(l) /\ l.at \in DOMAIN heap /\ Live(l)
  BY <1>1 DEF Settled, AtHome, Safe, List, InHeap, Live, Tracked, TrackedIsAllocated
<1>5. /\ Done
      /\ heap' = [heap EXCEPT ![l.at] = Append(@, regs["b"])]
      /\ UNCHANGED <<objs, bytes, threshold, stack, scopes, regs, fault>>
  BY <1>3, <1>4 DEF DoPushItem, Reg
<1>6. todo' = <<Push("a"), Peek>>
  BY <1>2, <1>5 DEF Done, Then
<1>7. heap[l.at] \in Seq(Value) /\ regs["b"] \in Value
  BY <1>4 DEF Shaped, Registers
<1>8. /\ DOMAIN heap' = DOMAIN heap /\ heap'[l.at] = Append(heap[l.at], regs["b"])
      /\ \A b \in DOMAIN heap : b # l.at => heap'[b] = heap[b]
      /\ UNCHANGED <<objs, stack, globals, locals, call_stack, regs, fault>>
  BY <1>4, <1>5 DEF scopes
<1>9. /\ heap'[l.at] \in Seq(Value) /\ heap'[l.at][n] = regs["b"]
      /\ \A i \in DOMAIN heap'[l.at] : i # n =>
           i \in DOMAIN heap[l.at] /\ heap'[l.at][i] = heap[l.at][i]
  BY <1>7, <1>8
<1> HIDE DEF l, n
<1>10. PICK h : DOMAIN h = Value /\ Settled(h, {}, {}, {"a"})'
  <2> DEFINE E == {}
             R == {"a", "b"}
             S == {"a"}
  <2>1. /\ Settled(home, {}, E, R) /\ "b" \in R /\ "b" \notin S
        /\ \A s \in S : s \in R
        /\ \A p \in E : p = <<l.at, n>>
    BY <1>1
  <2>2. UNCHANGED <<regs, stack, globals, objs>>
    BY <1>8
  <2> HIDE DEF E, R, S
  <2>3. \E h : DOMAIN h = Value /\ Settled(h, {}, {}, S)'
    BY <1>4, <1>8, <1>9, <2>1, <2>2, ItemMoves, SMTT(60)
  <2>4. QED
    BY <2>3 DEF E, R, S
<1>11. Pushes(h)'
  BY <1>6, <1>10 DEF Pushes, Registers
<1>12. Shaped'
  BY <1>4, <1>8, <1>9, FilledIsShaped
<1>13. QED
  BY <1>10, <1>11, <1>12 DEF Underway

(* The steps of OP_LIST_STORE: the list is popped,                         *)
LEMMA ReplaceStep1 ==
  ASSUME Shaped, Next, NEW home, NEW k, Replaces1(home, k)
  PROVE  Shaped' /\ Underway'
<1>1. /\ todo = <<Pop("a"), Pop("b"), GetItem("a", "r", k), Free("r"), SetItem("a", "b", k), Peek>>
      /\ Len(stack) >= 2 /\ HasItemAt(Top(1), k) /\ Settled(home, {}, {}, {})
  BY DEF Replaces1, AtEase
<1>2. /\ todo # <<>>
      /\ call = Pop("a")
      /\ Tail(todo) = <<Pop("b"), GetItem("a", "r", k), Free("r"), SetItem("a", "b", k), Peek>>
  BY <1>1 DEF call
<1>3. DoPop
  BY <1>2, Calls, Names
<1>4. todo' = <<Pop("b"), GetItem("a", "r", k), Free("r"), SetItem("a", "b", k), Peek>>
  BY <1>2, <1>3 DEF DoPop, Done, Then
<1>5. /\ regs' = [regs EXCEPT !["a"] = Top(1)] /\ stack' = SubSeq(stack, 1, Len(stack) - 1)
      /\ UNCHANGED <<objs, heap, globals, locals, call_stack, fault>>
  BY <1>2, <1>3, Popped
<1>6. stack \in Seq(Value) /\ "a" \in Registers /\ stack # <<>> /\ Top(1) \in Value
  BY <1>1 DEF Shaped, Registers, Top
<1>7. PICK h : DOMAIN h = Value /\ Settled(h, {}, {}, {})'
  <2> DEFINE E == {}
  <2>1. Settled(home, E, E, E) /\ "a" \notin E /\ \A s \in E : s = "a" \/ s \in E
    BY <1>1
  <2> HIDE DEF E
  <2>2. \E h : DOMAIN h = Value /\ Settled(h, E, E, E)'
    BY <1>5, <1>6, <2>1, PopMoves
  <2>3. QED
    BY <2>2 DEF E
<1>8. Len(stack') >= 1 /\ regs'["a"] = Top(1)
  BY <1>1, <1>5, <1>6 DEF Shaped
<1>9. HasItemAt(regs["a"], k)'
  BY <1>1, <1>5, <1>8 DEF HasItemAt, List
<1>10. Replaces2(h, k)'
  BY <1>4, <1>7, <1>8, <1>9 DEF Replaces2, AtEase
<1>11. Shaped'
  BY <1>1, <1>5, <1>6 DEF Shaped
<1>12. QED
  BY <1>7, <1>10, <1>11 DEF Underway, Replaces

(* then the value,                                                         *)
LEMMA ReplaceStep2 ==
  ASSUME Shaped, Next, NEW home, NEW k, Replaces2(home, k)
  PROVE  Shaped' /\ Underway'
<1>1. /\ todo = <<Pop("b"), GetItem("a", "r", k), Free("r"), SetItem("a", "b", k), Peek>>
      /\ Len(stack) >= 1 /\ HasItemAt(regs["a"], k) /\ Settled(home, {}, {}, {})
  BY DEF Replaces2, AtEase
<1>2. /\ todo # <<>>
      /\ call = Pop("b")
      /\ Tail(todo) = <<GetItem("a", "r", k), Free("r"), SetItem("a", "b", k), Peek>>
  BY <1>1 DEF call
<1>3. DoPop
  BY <1>2, Calls, Names
<1>4. todo' = <<GetItem("a", "r", k), Free("r"), SetItem("a", "b", k), Peek>>
  BY <1>2, <1>3 DEF DoPop, Done, Then
<1>5. /\ regs' = [regs EXCEPT !["b"] = Top(1)] /\ stack' = SubSeq(stack, 1, Len(stack) - 1)
      /\ UNCHANGED <<objs, heap, globals, locals, call_stack, fault>>
  BY <1>2, <1>3, Popped
<1>6. stack \in Seq(Value) /\ "b" \in Registers /\ stack # <<>> /\ Top(1) \in Value
  BY <1>1 DEF Shaped, Registers, Top
<1>7. PICK h : DOMAIN h = Value /\ Settled(h, {}, {}, {"b"})'
  <2> DEFINE E == {}
             S == {"b"}
  <2>1. Settled(home, E, E, E) /\ "b" \notin E /\ \A s \in S : s = "b" \/ s \in E
    BY <1>1
  <2> HIDE DEF E, S
  <2>2. \E h : DOMAIN h = Value /\ Settled(h, E, E, S)'
    BY <1>5, <1>6, <2>1, PopMoves
  <2>3. QED
    BY <2>2 DEF E, S
<1>8. regs'["a"] = regs["a"]
  BY <1>5 DEF Shaped, Registers
<1>9. HasItemAt(regs["a"], k)'
  BY <1>1, <1>5, <1>8 DEF HasItemAt, List
<1>10. Replaces3(h, k)'
  BY <1>4, <1>7, <1>9 DEF Replaces3
<1>11. Shaped'
  BY <1>1, <1>5, <1>6 DEF Shaped
<1>12. QED
  BY <1>7, <1>10, <1>11 DEF Underway, Replaces

(* The items of a tracked list are there to be read.                       *)
LEMMA ItemsAreThere ==
  ASSUME Tracked, Shaped, NEW v, NEW k, HasItemAt(v, k)
  PROVE  Live(v) /\ v.at \in DOMAIN heap /\ k \in DOMAIN heap[v.at] /\ heap[v.at] \in Seq(Value)
         /\ heap[v.at][k] \in Value
BY DEF Tracked, TrackedIsAllocated, HasItemAt, List, Live, Shaped

(* the old item is read,                                                   *)
LEMMA ReplaceStep3 ==
  ASSUME Tracked, Shaped, Next, NEW home, DOMAIN home = Value, NEW k, Replaces3(home, k)
  PROVE  Shaped' /\ Underway'
<1> DEFINE l == regs["a"]
<1>1. /\ todo = <<GetItem("a", "r", k), Free("r"), SetItem("a", "b", k), Peek>>
      /\ HasItemAt(l, k)
      /\ Settled(home, {}, {}, {"b"})
  BY DEF Replaces3
<1>2. /\ todo # <<>>
      /\ call = GetItem("a", "r", k)
      /\ Tail(todo) = <<Free("r"), SetItem("a", "b", k), Peek>>
  BY <1>1 DEF call
<1>3. DoGetItem /\ call.x = "a" /\ call.r = "r" /\ call.k = k
  BY <1>2, Calls, Names
<1>4. Live(l) /\ heap[l.at][k] \in Value
  BY <1>1, ItemsAreThere
<1>5. /\ Done
      /\ regs' = [regs EXCEPT !["r"] = heap[l.at][k]]
      /\ UNCHANGED <<gcVars, stack, scopes, fault>>
  BY <1>3, <1>4 DEF DoGetItem
<1>6. todo' = <<Free("r"), SetItem("a", "b", k), Peek>>
  BY <1>2, <1>5 DEF Done, Then
<1>7. regs'["r"] = heap[l.at][k] /\ regs'["a"] = l /\ regs'["b"] = regs["b"]
  BY <1>5 DEF Shaped, Registers
<1>8. UNCHANGED <<heap, objs, stack, globals, locals, call_stack, fault>>
  BY <1>5 DEF gcVars, scopes
<1>9. Settled(home, {}, {}, {"b"})'
  BY <1>1, <1>7, <1>8 DEF Settled
<1>10. HasItemAt(regs["a"], k)'
  BY <1>1, <1>7, <1>8 DEF HasItemAt, List
<1>11. Replaces4(home, k)'
  BY <1>6, <1>7, <1>8, <1>9, <1>10 DEF Replaces4
<1>12. Shaped'
  <2>1. regs' \in [Registers -> Value]
    BY <1>4, <1>5 DEF Shaped
  <2>2. QED
    BY <1>8, <2>1 DEF Shaped
<1>13. QED
  BY <1>11, <1>12 DEF Underway, Replaces

(* What is left of the heap when a string is freed.                        *)
LEMMA FreedIsShaped ==
  ASSUME Shaped, objs' \subseteq objs, DOMAIN heap' \subseteq DOMAIN heap,
         \A a \in DOMAIN heap' : heap'[a] = heap[a], \A w \in objs' : w.at \in DOMAIN heap',
         UNCHANGED <<regs, stack, globals, locals, call_stack, fault>>
  PROVE  Shaped'
BY DEF Shaped

(* and freed, while it still is in the list,                               *)
LEMMA ReplaceStep4 ==
  ASSUME Tracked, Shaped, Next, NEW home, DOMAIN home = Value, NEW k, Replaces4(home, k)
  PROVE  Shaped' /\ Underway'
<1>0. PICK l : l = regs["a"]
  OBVIOUS
<1> DEFINE p == InItem(l.at, k)
<1>1. /\ todo = <<Free("r"), SetItem("a", "b", k), Peek>>
      /\ HasItemAt(l, k) /\ regs["r"] = heap[l.at][k]
      /\ Settled(home, {}, {}, {"b"})
  BY <1>0 DEF Replaces4
<1>2. todo # <<>> /\ call = Free("r") /\ Tail(todo) = <<SetItem("a", "b", k), Peek>>
  BY <1>1 DEF call
<1>3. DoFree /\ call.r = "r"
  BY <1>2, Calls, Names
<1>4. todo' = <<SetItem("a", "b", k), Peek>>
  BY <1>2, <1>3 DEF DoFree, Done, Then
<1>5. Freed({regs["r"]}) /\ UNCHANGED <<stack, globals, locals, call_stack, regs, fault>>
  BY <1>3 DEF DoFree, Reg, scopes
<1>6. l.at \in DOMAIN heap /\ k \in DOMAIN heap[l.at]
  BY <1>1, ItemsAreThere
<1>7. AtHome(objs, home, regs["r"], p)
  BY <1>1, <1>6 DEF Settled
<1>8. /\ \A w, s : AtHome(objs, home, w, s) /\ s # p => AtHome(objs', home, w, s)
      /\ objs' \subseteq objs /\ DOMAIN heap' \subseteq DOMAIN heap
      /\ \A a \in DOMAIN heap' : heap'[a] = heap[a]
      /\ \A w \in objs' : w.at \in DOMAIN heap'
      /\ \A w : List(w) => w \in objs'
  BY <1>5, <1>7, FreedKeeps
<1> HIDE DEF p
<1>9. Settled(home, {}, {<<l.at, k>>}, {"b"})'
  <2>1. \A i \in DOMAIN stack : AtHome(objs', home, stack[i], InStack(i))
    BY <1>1, <1>8, Places DEF Settled, p
  <2>2. \A x \in DOMAIN globals : AtHome(objs', home, globals[x], InGlobal(x))
    BY <1>1, <1>8, Places DEF Settled, p
  <2>3. ASSUME NEW a \in DOMAIN heap', NEW i \in DOMAIN heap'[a], <<a, i>> # <<l.at, k>>
        PROVE  AtHome(objs', home, heap'[a][i], InItem(a, i))
    <3>1. a \in DOMAIN heap /\ i \in DOMAIN heap[a] /\ heap'[a][i] = heap[a][i]
      BY <1>8
    <3>2. AtHome(objs, home, heap[a][i], InItem(a, i))
      BY <1>1, <3>1 DEF Settled
    <3>3. InItem(a, i) # p
      BY <2>3, Places DEF p
    <3>4. QED
      BY <1>8, <3>1, <3>2, <3>3
  <2>4. AtHome(objs', home, regs["b"], InReg("b"))
    <3>1. AtHome(objs, home, regs["b"], InReg("b")) /\ InReg("b") # p
      BY <1>1, Places DEF Settled, p
    <3>2. QED
      BY <1>8, <3>1
  <2>5. QED
    BY <1>5, <2>1, <2>2, <2>3, <2>4 DEF Settled
<1>10. HasItemAt(l, k)'
  <2>1. l \in objs' /\ l.at \in DOMAIN heap' /\ heap'[l.at] = heap[l.at]
    BY <1>1, <1>8 DEF HasItemAt
  <2>2. QED
    BY <1>1, <1>5, <2>1 DEF HasItemAt, List
<1>11. Replaces5(home, k)'
  <2>1. regs'["a"] = l
    BY <1>0, <1>5
  <2>2. QED
    BY <1>4, <1>9, <1>10, <2>1 DEF Replaces5
<1>12. Shaped'
  BY <1>5, <1>8, FreedIsShaped
<1>13. QED
  BY <1>11, <1>12 DEF Underway, Replaces

(* and the value takes its place.                                          *)
LEMMA ReplaceStep5 ==
  ASSUME Tracked, Shaped, Next, NEW home, NEW k, Replaces5(home, k)
  PROVE  Shaped' /\ Underway'
<1> DEFINE l == regs["a"]
<1>1. /\ todo = <<SetItem("a", "b", k), Peek>>
      /\ HasItemAt(l, k)
      /\ Settled(home, {}, {<<l.at, k>>}, {"b"})
  BY DEF Replaces5
<1>2. todo # <<>> /\ call = SetItem("a", "b", k) /\ Tail(todo) = <<Peek>>
  BY <1>1 DEF call
<1>3. DoSetItem /\ call.x = "a" /\ call.r = "b" /\ call.k = k
  BY <1>2, Calls, Names
<1>4. Live(l) /\ l.at \in DOMAIN heap /\ k \in DOMAIN heap[l.at] /\ heap[l.at] \in Seq(Value)
  BY <1>1, ItemsAreThere
<1>5. /\ Done
      /\ heap' = [heap EXCEPT ![l.at][k] = regs["b"]]
      /\ UNCHANGED <<objs, bytes, threshold, stack, scopes, regs, fault>>
  BY <1>3, <1>4 DEF DoSetItem, Reg
<1>6. todo' = <<Peek>>
  BY <1>2, <1>5 DEF Done, Then
<1>7. regs["b"] \in Value
  BY DEF Shaped, Registers
<1>8. /\ DOMAIN heap' = DOMAIN heap /\ heap'[l.at] = [heap[l.at] EXCEPT ![k] = regs["b"]]
      /\ \A b \in DOMAIN heap : b # l.at => heap'[b] = heap[b]
      /\ UNCHANGED <<objs, stack, globals, locals, call_stack, regs, fault>>
  BY <1>4, <1>5 DEF scopes
<1>9. /\ heap'[l.at] \in Seq(Value) /\ heap'[l.at][k] = regs["b"]
      /\ \A i \in DOMAIN heap'[l.at] : i # k =>
           i \in DOMAIN heap[l.at] /\ heap'[l.at][i] = heap[l.at][i]
  BY <1>4, <1>7, <1>8
<1>10. List(l)
  BY <1>1 DEF HasItemAt
<1> HIDE DEF l
<1>11. PICK h : DOMAIN h = Value /\ Settled(h, {}, {}, {})'
  <2> DEFINE S == {}
             P == {<<l.at, k>>}
             R == {"b"}
  <2>1. /\ Settled(home, {}, P, R) /\ "b" \in R /\ "b" \notin S
        /\ \A s \in S : s \in R
        /\ \A p \in P : p = <<l.at, k>>
    BY <1>1
  <2>2. UNCHANGED <<regs, stack, globals, objs>>
    BY <1>8
  <2> HIDE DEF S, P, R
  <2>3. \E h : DOMAIN h = Value /\ Settled(h, {}, {}, S)'
    BY <1>4, <1>8, <1>9, <2>1, <2>2, ItemMoves, SMTT(60)
  <2>4. QED
    BY <2>3 DEF S
<1>12. Rests(h)'
  BY <1>6, <1>11 DEF Rests, AtEase
<1>13. Shaped'
  BY <1>8, <1>9, <1>10, FilledIsShaped
<1>14. QED
  BY <1>11, <1>12, <1>13 DEF Underway

(* A variable is set, and then a freed.                                    *)
LEMMA SetThenFree ==
  \A x : <<SetVar(x, "a"), Free("a"), Peek>> = <<SetVar(x, "a")>> \o Freeing
<1> SUFFICES ASSUME NEW x
             PROVE  <<SetVar(x, "a"), Free("a"), Peek>> = <<SetVar(x, "a")>> \o Freeing
  OBVIOUS
<1> DEFINE c == SetVar(x, "a")
           d == Free("a")
<1> HIDE DEF c, d
<1>1. <<c>> \o <<d, Peek>> = <<c, d, Peek>>
  BY TwoBeforePeek
<1>2. QED
  BY <1>1 DEF c, d, Freeing

(* The list that a variable was set to is not freed.                       *)
LEMMA FreeStep ==
  ASSUME Tracked, Shaped, Next, NEW home, DOMAIN home = Value, todo = Freeing,
         regs["a"].is = "list", AtEase(home)
  PROVE  Shaped' /\ Underway'
<1>1. todo # <<>> /\ call = Free("a") /\ Tail(todo) = <<Peek>>
  BY DEF call, Freeing
<1>2. DoFree /\ call.r = "a"
  BY <1>1, Calls, Names
<1>3. todo' = <<Peek>>
  BY <1>1, <1>2 DEF DoFree, Done, Then
<1>4. Freed({regs["a"]}) /\ UNCHANGED <<stack, globals, locals, call_stack, regs, fault>>
  BY <1>2 DEF DoFree, Reg, scopes
<1>5. UNCHANGED objs /\ DOMAIN heap' = DOMAIN heap /\ \A a \in DOMAIN heap : heap'[a] = heap[a]
  BY <1>4, FreedNothing
<1>6. Settled(home, {}, {}, {})'
  BY <1>4, <1>5 DEF AtEase, Settled
<1>7. Rests(home)'
  BY <1>3, <1>6 DEF Rests, AtEase
<1>8. Shaped'
  <2>1. \A a \in DOMAIN heap' : heap'[a] \in Seq(Value)
    BY <1>5 DEF Shaped
  <2>2. \A w \in objs' : w.is = "string" => heap'[w.at] = <<>>
    BY <1>5 DEF Shaped, Tracked, TrackedIsAllocated
  <2>3. QED
    BY <1>4, <1>5, <2>1, <2>2 DEF Shaped
<1>9. QED
  BY <1>7, <1>8 DEF Underway

(* The end of a handler, which may set the variable "_".                   *)
LEMMA PeekStep ==
  ASSUME Shaped, Next, NEW home, DOMAIN home = Value, todo = <<Peek>>, AtEase(home)
  PROVE  Shaped' /\ Underway'
<1>1. todo # <<>> /\ call = Peek /\ Tail(todo) = <<>>
  BY DEF call
<1>2. DoPeek
  BY <1>1, Calls, Names
<1>3. UNCHANGED <<heap, objs, stack, globals, locals, call_stack, fault>>
  BY <1>2 DEF DoPeek, gcVars, scopes
<1>4. Settled(home, {}, {}, {})'
  BY <1>3 DEF AtEase, Settled
<1>5. CASE stack = <<>> \/ Top(1) = Null
  <2>1. Done /\ regs' = NoRegs
    BY <1>2, <1>5 DEF DoPeek
  <2>2. todo' = <<>>
    BY <1>1, <2>1 DEF Done, Then
  <2>3. Rests(home)'
    BY <1>4, <2>2 DEF Rests, AtEase
  <2>4. Shaped'
    BY <1>3, <2>1, FreeValues DEF Shaped
  <2>5. QED
    BY <2>3, <2>4 DEF Underway
<1>6. CASE ~(stack = <<>> \/ Top(1) = Null)
  <2>1. Then(<<AddVar(LastVar, "a")>>) /\ regs' = [NoRegs EXCEPT !["a"] = Top(1)]
    BY <1>2, <1>6 DEF DoPeek
  <2>2. todo' = <<AddVar(LastVar, "a")>> \o <<>>
    BY <1>1, <2>1 DEF Then
  <2>3. Top(1) \in Value /\ Top(1)' = Top(1) /\ stack' # <<>>
    BY <1>3, <1>6 DEF Shaped, Top
  <2>4. regs' \in [Registers -> Value] /\ regs'["a"] = Top(1)
    BY <2>1, <2>3, FreeValues DEF Registers
  <2>5. Source(<<>>)'
    BY <2>3, <2>4 DEF Source
  <2>6. Sets1(home, LastVar, <<>>)'
    BY <1>4, <2>2, <2>5 DEF Sets1, AtEase
  <2>7. Sets(home)'
    BY <2>6, NamesAssumption DEF Sets
  <2>8. Shaped'
    BY <1>3, <2>4 DEF Shaped
  <2>9. QED
    BY <2>7, <2>8 DEF Underway
<1>7. QED
  BY <1>5, <1>6

(* The list that a variable is set to is popped.                           *)
LEMMA SetStep0 ==
  ASSUME Shaped, Next, NEW home, NEW x \in Vars, Sets0(home, x)
  PROVE  Shaped' /\ Underway'
<1>1. /\ todo = <<Pop("a"), SetVar(x, "a"), Free("a"), Peek>>
      /\ stack # <<>> /\ Top(1).is = "list" /\ Settled(home, {}, {}, {})
  BY DEF Sets0, AtEase
<1>2. /\ todo # <<>>
      /\ call = Pop("a")
      /\ Tail(todo) = <<SetVar(x, "a"), Free("a"), Peek>>
  BY <1>1 DEF call
<1>3. DoPop
  BY <1>2, Calls, Names
<1>4. todo' = <<SetVar(x, "a"), Free("a"), Peek>>
  BY <1>2, <1>3 DEF DoPop, Done, Then
<1>5. /\ regs' = [regs EXCEPT !["a"] = Top(1)] /\ stack' = SubSeq(stack, 1, Len(stack) - 1)
      /\ UNCHANGED <<objs, heap, globals, locals, call_stack, fault>>
  BY <1>2, <1>3, Popped
<1>6. stack \in Seq(Value) /\ "a" \in Registers /\ Top(1) \in Value
  BY <1>1 DEF Shaped, Registers, Top
<1>7. List(Top(1))
  BY <1>1, <1>6 DEF Settled, AtHome, Safe, List, Top, InHeap
<1>8. PICK h : DOMAIN h = Value /\ Settled(h, {}, {}, {})'
  <2> DEFINE E == {}
  <2>1. Settled(home, E, E, E) /\ "a" \notin E /\ \A s \in E : s = "a" \/ s \in E
    BY <1>1
  <2> HIDE DEF E
  <2>2. \E h : DOMAIN h = Value /\ Settled(h, E, E, E)'
    BY <1>1, <1>5, <1>6, <2>1, PopMoves
  <2>3. QED
    BY <2>2 DEF E
<1>9. todo' = <<SetVar(x, "a")>> \o Freeing
  BY <1>4, SetThenFree
<1>10. regs'["a"] = Top(1)
  BY <1>5, <1>6 DEF Shaped
<1>11. List(regs["a"])'
  BY <1>5, <1>7, <1>10 DEF List
<1>12. Sets1(h, x, Freeing)'
  BY <1>8, <1>9, <1>11 DEF Sets1, AtEase, Source
<1>13. Shaped'
  BY <1>1, <1>5, <1>6 DEF Shaped
<1>14. QED
  BY <1>8, <1>12, <1>13 DEF Underway, Sets

(* The table of globals is looked up.                                      *)
LEMMA SetStep1 ==
  ASSUME Shaped, Next, NEW home, DOMAIN home = Value, NEW x \in Vars, NEW rest,
         Sets1(home, x, rest)
  PROVE  Shaped' /\ Underway'
<1> DEFINE c == SetVar(x, "a")
           d == AddVar(x, "a")
           f == FreeVar(x, Global)
           g == FillVar(x, "a", Global)
           S == {Free("a"), Peek}
<1>1. /\ Source(rest) /\ Settled(home, {}, {}, {})
      /\ todo = <<c>> \o rest \/ todo = <<d>> \o rest
  BY DEF Sets1, AtEase
<1>2. rest \in Seq(S)
  BY <1>1, Sources
<1>3. /\ c.do = "set" /\ c.x = x /\ c.r = "a"
      /\ d.do = "add" /\ d.x = x /\ d.r = "a"
  BY Names
<1>4. locals = <<>>
  BY DEF Shaped
<1> HIDE DEF c, d, S, f, g
<1>5. ASSUME UNCHANGED <<gcVars, stack, scopes, regs, fault>>
      PROVE  Shaped' /\ Source(rest)' /\ Settled(home, {}, {}, {})'
  <2>1. UNCHANGED <<heap, objs, stack, globals, locals, call_stack, regs, fault>>
    BY <1>5 DEF gcVars, scopes
  <2>2. Shaped'
    BY <2>1 DEF Shaped
  <2>3. Source(rest)'
    BY <1>1, <2>1 DEF Source, Top, List
  <2>4. Settled(home, {}, {}, {})'
    BY <1>1, <2>1 DEF Settled
  <2>5. QED
    BY <2>2, <2>3, <2>4
<1>6. CASE todo = <<c>> \o rest
  <2>1. todo # <<>> /\ call = c /\ Tail(todo) = rest
    <3>1. <<c>> \o rest # <<>> /\ (<<c>> \o rest)[1] = c /\ Tail(<<c>> \o rest) = rest
      BY <1>2, Ahead, Zenon
    <3>2. QED
      BY <1>6, <3>1 DEF call
  <2>2. DoSet
    BY <1>3, <2>1, Calls
  <2>3. Then(<<AddVar(x, "a")>>) /\ UNCHANGED <<gcVars, stack, scopes, regs, fault>>
    BY <1>3, <1>4, <2>1, <2>2 DEF DoSet
  <2>4. todo' = <<d>> \o rest
    BY <2>1, <2>3 DEF Then, d
  <2>5. Shaped' /\ Source(rest)' /\ Settled(home, {}, {}, {})'
    BY <1>5, <2>3
  <2>6. Sets1(home, x, rest)'
    BY <2>4, <2>5 DEF Sets1, AtEase, d
  <2>7. QED
    BY <2>5, <2>6 DEF Underway, Sets
<1>7. CASE todo = <<d>> \o rest
  <2>1. todo # <<>> /\ call = d /\ Tail(todo) = rest
    <3>1. <<d>> \o rest # <<>> /\ (<<d>> \o rest)[1] = d /\ Tail(<<d>> \o rest) = rest
      BY <1>2, Ahead, Zenon
    <3>2. QED
      BY <1>7, <3>1 DEF call
  <2>2. DoAdd
    BY <1>3, <2>1, Calls
  <2>3. /\ x \in DOMAIN globals => Then(<<f, g>>)
        /\ x \notin DOMAIN globals => Then(<<g>>)
        /\ UNCHANGED <<gcVars, stack, scopes, regs, fault>>
    BY <1>3, <2>1, <2>2 DEF DoAdd, Replace, f, g
  <2>4. Shaped' /\ Source(rest)' /\ Settled(home, {}, {}, {})'
    BY <1>5, <2>3
  <2>5. CASE x \in DOMAIN globals
    <3>1. todo' = <<f, g>> \o rest /\ x \in DOMAIN globals'
      BY <2>1, <2>3, <2>5 DEF Then, scopes
    <3>2. Sets2(home, x, rest)'
      BY <2>4, <3>1 DEF Sets2, AtEase, f, g
    <3>3. QED
      BY <2>4, <3>2 DEF Underway, Sets
  <2>6. CASE x \notin DOMAIN globals
    <3>1. todo' = <<g>> \o rest
      BY <2>1, <2>3, <2>6 DEF Then
    <3>2. Settled(home, {x}, {}, {})'
      BY <2>4 DEF Settled
    <3>3. Sets3(home, x, rest)'
      BY <2>4, <3>1, <3>2 DEF Sets3, g
    <3>4. QED
      BY <2>4, <3>3 DEF Underway, Sets
  <2>7. QED
    BY <2>5, <2>6
<1>8. QED
  BY <1>1, <1>6, <1>7

(* What the variable held is freed, while it still holds it,               *)
LEMMA SetStep2 ==
  ASSUME Tracked, Shaped, Next, NEW home, DOMAIN home = Value, NEW x \in Vars, NEW rest,
         Sets2(home, x, rest)
  PROVE  Shaped' /\ Underway'
<1> DEFINE f == FreeVar(x, Global)
           g == FillVar(x, "a", Global)
           p == InGlobal(x)
           S == {Free("a"), Peek}
<1>1. /\ Source(rest) /\ Settled(home, {}, {}, {}) /\ x \in DOMAIN globals
      /\ todo = <<f, g>> \o rest
  BY DEF Sets2, AtEase
<1>2. rest \in Seq(S)
  BY <1>1, Sources
<1>3. f.do = "free_var" /\ f.x = x /\ f.k = Global
  BY Names
<1> HIDE DEF f, g, p, S
<1>4. todo # <<>> /\ call = f /\ Tail(todo) = <<g>> \o rest
  <2>1. todo = <<f>> \o (<<g>> \o rest)
    BY <1>1, <1>2, Apart, Zenon
  <2> DEFINE r == <<g>> \o rest
             T == S \cup {g}
  <2>2. r \in Seq(T)
    BY <1>2, Ahead, Zenon
  <2> HIDE DEF r, T
  <2>3. <<f>> \o r # <<>> /\ (<<f>> \o r)[1] = f /\ Tail(<<f>> \o r) = r
    BY <2>2, Ahead, Zenon
  <2>4. QED
    BY <2>1, <2>3 DEF call, r
<1>5. DoFreeVar
  BY <1>3, <1>4, Calls
<1>6. todo' = <<g>> \o rest
  <2>1. todo' = <<>> \o (<<g>> \o rest)
    BY <1>4, <1>5 DEF DoFreeVar, Done, Then
  <2> DEFINE r == <<g>> \o rest
             T == S \cup {g}
  <2>2. r \in Seq(T)
    BY <1>2, Ahead, Zenon
  <2> HIDE DEF r, T
  <2>3. <<>> \o r = r
    BY <2>2, Ahead, Zenon
  <2>4. QED
    BY <2>1, <2>3 DEF r
<1>7. Freed({globals[x]}) /\ UNCHANGED <<stack, globals, locals, call_stack, regs, fault>>
  BY <1>3, <1>4, <1>5 DEF DoFreeVar, Table, scopes
<1>8. AtHome(objs, home, globals[x], p)
  BY <1>1 DEF Settled, p
<1>9. /\ \A w, s : AtHome(objs, home, w, s) /\ s # p => AtHome(objs', home, w, s)
      /\ objs' \subseteq objs /\ DOMAIN heap' \subseteq DOMAIN heap
      /\ \A a \in DOMAIN heap' : heap'[a] = heap[a]
      /\ \A w \in objs' : w.at \in DOMAIN heap'
      /\ \A w : List(w) => w \in objs'
  BY <1>7, <1>8, FreedKeeps
<1>10. Settled(home, {x}, {}, {})'
  <2>1. \A i \in DOMAIN stack : AtHome(objs', home, stack[i], InStack(i))
    BY <1>1, <1>9, Places DEF Settled, p
  <2>2. ASSUME NEW y \in DOMAIN globals \ {x} PROVE AtHome(objs', home, globals[y], InGlobal(y))
    <3>1. InGlobal(y) # p
      BY Places DEF p
    <3>2. AtHome(objs, home, globals[y], InGlobal(y))
      BY <1>1 DEF Settled
    <3>3. QED
      BY <1>9, <3>1, <3>2
  <2>3. ASSUME NEW a \in DOMAIN heap', NEW i \in DOMAIN heap'[a]
        PROVE  AtHome(objs', home, heap'[a][i], InItem(a, i))
    <3>1. a \in DOMAIN heap /\ i \in DOMAIN heap[a] /\ heap'[a][i] = heap[a][i]
      BY <1>9
    <3>2. AtHome(objs, home, heap[a][i], InItem(a, i))
      BY <1>1, <3>1 DEF Settled
    <3>3. InItem(a, i) # p
      BY Places DEF p
    <3>4. QED
      BY <1>9, <3>1, <3>2, <3>3
  <2>4. QED
    BY <1>7, <2>1, <2>2, <2>3 DEF Settled
<1>11. Source(rest)'
  BY <1>1, <1>7, <1>9 DEF Source, Top, List
<1>12. Sets3(home, x, rest)'
  BY <1>6, <1>10, <1>11 DEF Sets3, g
<1>13. Shaped'
  BY <1>7, <1>9, FreedIsShaped
<1>14. QED
  BY <1>12, <1>13 DEF Underway, Sets

(* What fills the variable x is safe.                                      *)
LEMMA SourceIsSafe ==
  ASSUME Tracked, Shaped, NEW home, NEW x, NEW rest, Sets3(home, x, rest)
  PROVE  /\ Safe(objs, regs["a"]) /\ Live(regs["a"])
         /\ regs["a"].is = "string" => rest = <<>>
         /\ rest \in {<<>>, Freeing} /\ <<>> \o rest = rest
<1> DEFINE v == regs["a"]
           S == {Free("a"), Peek}
<1>1. Source(rest) /\ Settled(home, {x}, {}, {})
  BY DEF Sets3
<1>2. rest \in Seq(S) /\ rest \in {<<>>, Freeing}
  BY <1>1, Sources
<1>3. v \in Value
  BY DEF Shaped, Registers
<1>4. Safe(objs, v)
  <2>1. CASE stack # <<>> /\ v = Top(1)
    <3>1. Len(stack) \in DOMAIN stack /\ Top(1) = stack[Len(stack)]
      BY <2>1 DEF Shaped, Top
    <3>2. AtHome(objs, home, stack[Len(stack)], InStack(Len(stack)))
      BY <1>1, <3>1 DEF Settled
    <3>3. QED
      BY <2>1, <3>1, <3>2 DEF AtHome
  <2>2. CASE List(v)
    BY <1>3, <2>2 DEF List, Safe
  <2>3. QED
    BY <1>1, <2>1, <2>2 DEF Source
<1>5. Live(v)
  BY <1>4 DEF Live, Safe, Tracked, TrackedIsAllocated
<1>6. v.is = "string" => rest = <<>>
  BY <1>1 DEF Source, List
<1> HIDE DEF S
<1>7. <<>> \o rest = rest
  BY <1>2, Ahead, Zenon
<1>8. QED
  BY <1>2, <1>4, <1>5, <1>6, <1>7

(* and the variable is filled.                                             *)
LEMMA SetStep3 ==
  ASSUME Tracked, Shaped, Next, NEW home, DOMAIN home = Value, NEW x \in Vars, NEW rest,
         Sets3(home, x, rest)
  PROVE  Shaped' /\ Underway'
<1> DEFINE g == FillVar(x, "a", Global)
           S == {Free("a"), Peek}
           u == regs["a"]
<1>1. Source(rest) /\ Settled(home, {x}, {}, {}) /\ todo = <<g>> \o rest
  BY DEF Sets3
<1>2. rest \in Seq(S)
  BY <1>1, Sources
<1>3. g.do = "fill_var" /\ g.x = x /\ g.r = "a" /\ g.k = Global
  BY Names
<1>4. /\ Safe(objs, u) /\ Live(u)
      /\ u.is = "string" => rest = <<>>
      /\ rest \in {<<>>, Freeing} /\ <<>> \o rest = rest
  BY SourceIsSafe
<1> HIDE DEF g, S
<1>5. todo # <<>> /\ call = g /\ Tail(todo) = rest
  <2>1. <<g>> \o rest # <<>> /\ (<<g>> \o rest)[1] = g /\ Tail(<<g>> \o rest) = rest
    BY <1>2, Ahead, Zenon
  <2>2. QED
    BY <1>1, <2>1 DEF call
<1>6. DoFillVar
  BY <1>3, <1>5, Calls
<1>7. Done /\ UNCHANGED <<stack, regs, fault>>
  BY <1>3, <1>4, <1>5, <1>6 DEF DoFillVar, Reg
<1>8. PICK a \in Addr :
        LET v == IF u.is = "string" THEN [u EXCEPT !.at = a] ELSE u IN
          /\ IF u.is = "string" THEN Allocated(v) ELSE UNCHANGED gcVars
          /\ globals' = With(globals, x, v) /\ UNCHANGED <<locals, call_stack>>
  BY <1>3, <1>4, <1>5, <1>6 DEF DoFillVar, Reg, Table, SetTable
<1>9. todo' = rest
  BY <1>4, <1>5, <1>7 DEF Done, Then
<1>10. locals' = <<>> /\ call_stack' = <<>> /\ ~fault'
  BY <1>7, <1>8 DEF Shaped
<1>11. CASE u.is # "string"
  <2>1. globals' = With(globals, x, u) /\ UNCHANGED <<heap, objs>>
    BY <1>8, <1>11 DEF gcVars
  <2>2. /\ DOMAIN globals' = DOMAIN globals \cup {x} /\ globals'[x] = u
        /\ \A y \in DOMAIN globals' \ {x} : y \in DOMAIN globals /\ globals'[y] = globals[y]
    BY <2>1 DEF With
  <2>3. AtHome(objs, home, u, InGlobal(x))
    BY <1>4, <1>11 DEF AtHome
  <2>4. Settled(home, {}, {}, {})'
    BY <1>1, <1>7, <2>1, <2>2, <2>3 DEF Settled
  <2>5. rest = Freeing => u.is = "list"
    BY <1>1 DEF Source, List, Freeing
  <2>6. Rests(home)'
    BY <1>4, <1>7, <1>9, <2>4, <2>5 DEF Rests, AtEase
  <2>7. Shaped'
    BY <1>4, <1>7, <1>10, <2>1, <2>2 DEF Shaped, Safe
  <2>8. QED
    BY <2>6, <2>7 DEF Underway
<1>12. CASE u.is = "string"
  <2> DEFINE v == [u EXCEPT !.at = a]
  <2>1. Allocated(v) /\ globals' = With(globals, x, v)
    BY <1>8, <1>12
  <2>2. v \in Value /\ InHeap(v) /\ v.at \in Addr /\ v.is = "string"
    BY <1>4, <1>12 DEF Safe, Value, InHeap
  <2> HIDE DEF v
  <2>3. /\ v \in objs' /\ objs' \subseteq objs \cup {v}
        /\ \A w \in Range(stack) \cup Range(globals) : Safe(objs, w) => Safe(objs', w) /\ w # v
        /\ v.at \in DOMAIN heap' /\ heap'[v.at] = <<>>
        /\ \A b \in DOMAIN heap' : b # v.at =>
             /\ b \in DOMAIN heap /\ heap'[b] = heap[b]
             /\ \A k \in DOMAIN heap[b] : Safe(objs', heap[b][k]) /\ heap[b][k] # v
        /\ \A w \in objs' : w # v => w \in objs /\ w.at # v.at /\ w.at \in DOMAIN heap'
    BY <1>1, <2>1, <2>2, AllocatedKeeps
  <2>4. PICK h : h = Moved(home, v, InGlobal(x))
    OBVIOUS
  <2>5. \A w, s : AtHome(objs, home, w, s) /\ Safe(objs', w) /\ w # v => AtHome(objs', h, w, s)
    BY <2>4 DEF AtHome, Safe, Moved
  <2>6. AtHome(objs', h, v, InGlobal(x))
    BY <2>2, <2>3, <2>4 DEF AtHome, Safe, Moved
  <2>7. /\ DOMAIN globals' = DOMAIN globals \cup {x} /\ globals'[x] = v
        /\ \A y \in DOMAIN globals' \ {x} : y \in DOMAIN globals /\ globals'[y] = globals[y]
    BY <2>1 DEF With
  <2>8. Settled(h, {}, {}, {})'
    <3>5. \A w \in Range(stack) \cup Range(globals) : \A s :
            AtHome(objs, home, w, s) => AtHome(objs', h, w, s)
      BY <2>3, <2>5 DEF AtHome
    <3>1. \A i \in DOMAIN stack : AtHome(objs', h, stack[i], InStack(i))
      <4>1. \A i \in DOMAIN stack : stack[i] \in Range(stack)
        BY DEF Range
      <4>2. \A i \in DOMAIN stack : AtHome(objs, home, stack[i], InStack(i))
        BY <1>1 DEF Settled
      <4>3. QED
        BY <3>5, <4>1, <4>2
    <3>2. \A y \in DOMAIN globals \ {x} : AtHome(objs', h, globals[y], InGlobal(y))
      <4>1. \A y \in DOMAIN globals : globals[y] \in Range(globals)
        BY DEF Range
      <4>2. \A y \in DOMAIN globals \ {x} : AtHome(objs, home, globals[y], InGlobal(y))
        BY <1>1 DEF Settled
      <4>3. QED
        BY <3>5, <4>1, <4>2
    <3>3. \A b \in DOMAIN heap' : \A k \in DOMAIN heap'[b] : AtHome(objs', h, heap'[b][k], InItem(b, k))
      <4> TAKE b \in DOMAIN heap'
      <4>1. CASE b = v.at
        BY <2>3, <4>1
      <4>2. CASE b # v.at
        BY <1>1, <2>3, <2>5, <4>2 DEF Settled
      <4>3. QED
        BY <4>1, <4>2
    <3>4. QED
      BY <1>7, <2>6, <2>7, <3>1, <3>2, <3>3 DEF Settled
  <2>9. Rests(h)'
    BY <1>4, <1>9, <1>12, <2>8 DEF Rests, AtEase
  <2>10. DOMAIN h = Value
    BY <2>4 DEF Moved
  <2>11. Shaped'
    <3>1. objs' \subseteq {w \in Value : InHeap(w) /\ w.at \in Addr}
      BY <2>2, <2>3 DEF Shaped
    <3>2. ASSUME NEW b \in DOMAIN heap' PROVE heap'[b] \in Seq(Value)
      <4>1. <<>> \in Seq(Value)
        OBVIOUS
      <4>2. b # v.at => heap'[b] \in Seq(Value)
        BY <2>3 DEF Shaped
      <4>3. QED
        BY <2>3, <4>1, <4>2
    <3>3. \A w \in objs' : w.is = "string" => heap'[w.at] = <<>>
      BY <2>3 DEF Shaped
    <3>4. \A y \in DOMAIN globals' : globals'[y] \in Value
      BY <2>2, <2>7 DEF Shaped
    <3>5. QED
      BY <1>7, <1>10, <3>1, <3>2, <3>3, <3>4 DEF Shaped
  <2>12. QED
    BY <2>9, <2>10, <2>11 DEF Underway
<1>13. QED
  BY <1>11, <1>12

(* The instructions that are left when Ops are Rooted.                     *)
LEMMA RootedOnly ==
  ASSUME Ops \subseteq Rooted, Instruction
  PROVE  \/ PUSH_NUM \/ PUSH_STR \/ LIST_NEW \/ LIST_PUSH
         \/ \E x \in Vars : LOAD_VAR(x) \/ STORE_LIST(x)
         \/ \E k \in 1 .. MaxItems : LIST_STORE(k)
<1>1. \A op, calls, rs : Execute(op, calls, rs) => op \in Rooted
  BY DEF Execute
<1>2. /\ ~ADD /\ ~LOGIC_NOT /\ ~CALL_NATIVE("null") /\ ~CALL_NATIVE("string") /\ ~CALL /\ ~RETURN
      /\ \A x : ~STORE_VAR(x)
      /\ \A k : ~LIST_ACCESS(k) /\ ~MEMBER_ACCESS(k) /\ ~MEMBER_STORE(k)
  <2>1. /\ ADD => "ADD" \in Rooted
        /\ LOGIC_NOT => "LOGIC_NOT" \in Rooted
        /\ \A is : CALL_NATIVE(is) => "CALL_NATIVE" \in Rooted
        /\ CALL => "CALL" \in Rooted
        /\ RETURN => "RETURN" \in Rooted
        /\ \A x : STORE_VAR(x) => "STORE_VAR" \in Rooted
        /\ \A k : LIST_ACCESS(k) => "LIST_ACCESS" \in Rooted
        /\ \A k : MEMBER_ACCESS(k) => "MEMBER_ACCESS" \in Rooted
        /\ \A k : MEMBER_STORE(k) => "MEMBER_STORE" \in Rooted
    BY <1>1 DEF ADD, LOGIC_NOT, CALL_NATIVE, CALL, RETURN, STORE_VAR, LIST_ACCESS,
                MEMBER_ACCESS, MEMBER_STORE
  <2>2. QED
    BY <2>1 DEF Rooted
<1>3. QED
  BY <1>2 DEF Instruction

(* A handler begins.                                                       *)
LEMMA Begins ==
  ASSUME Shaped, NEW home, AtEase(home), NEW op, NEW calls, NEW rs \in [Registers -> Value],
         Execute(op, calls, rs)
  PROVE  /\ Shaped' /\ Settled(home, {}, {}, {})'
         /\ todo' = calls \o <<Peek>> /\ regs' = rs
         /\ UNCHANGED <<heap, objs, stack, globals, locals, call_stack>>
<1>1. /\ todo' = calls \o <<Peek>> /\ regs' = rs
      /\ UNCHANGED <<heap, objs, stack, globals, locals, call_stack, fault>>
  BY DEF Execute, gcVars, scopes
<1>2. Shaped'
  BY <1>1 DEF Shaped
<1>3. Settled(home, {}, {}, {})'
  BY <1>1 DEF AtEase, Settled
<1>4. QED
  BY <1>1, <1>2, <1>3

(* An instruction of Rooted leads to the first shape of its handler.       *)
LEMMA BeginStep ==
  ASSUME Ops \subseteq Rooted, Tracked, Shaped, NEW home, DOMAIN home = Value, AtEase(home),
         Instruction
  PROVE  Shaped' /\ Underway'
<1>0. NoRegs \in [Registers -> Value]
  BY FreeValues
<1>1. CASE PUSH_NUM
  <2> DEFINE rs == [NoRegs EXCEPT !["r"] = Num]
  <2>1. rs \in [Registers -> Value] /\ rs["r"] = Num
    BY FreeValues DEF Registers
  <2>2. Execute("PUSH_NUM", <<Push("r")>>, rs)
    BY <1>1 DEF PUSH_NUM
  <2> HIDE DEF rs
  <2>3. /\ Shaped' /\ Settled(home, {}, {}, {})'
        /\ todo' = <<Push("r")>> \o <<Peek>> /\ regs' = rs
    BY <2>1, <2>2, Begins
  <2>4. todo' = <<Push("r"), Peek>>
    BY <2>3, Peeking
  <2>5. AtHome(objs', home, Num, InReg("r"))
    BY FreeValues DEF AtHome, Safe, Num
  <2>6. Settled(home, {}, {}, {"r"})'
    BY <2>1, <2>3, <2>5 DEF Settled
  <2>7. Pushes(home)'
    BY <2>4, <2>6 DEF Pushes, Registers
  <2>8. QED
    BY <2>3, <2>7 DEF Underway
<1>2. CASE PUSH_STR \/ LIST_NEW
  <2>1. PICK op \in {"PUSH_STR", "LIST_NEW"}, is \in {"string", "list"} :
           Execute(op, <<New("r", is), Push("r")>>, NoRegs)
    BY <1>2 DEF PUSH_STR, LIST_NEW
  <2>2. /\ Shaped' /\ Settled(home, {}, {}, {})'
        /\ todo' = <<New("r", is), Push("r")>> \o <<Peek>>
    BY <1>0, <2>1, Begins
  <2>3. todo' = <<New("r", is), Push("r"), Peek>>
    BY <2>2, Peeking
  <2>4. Makes(home)'
    BY <2>2, <2>3 DEF Makes, AtEase
  <2>5. QED
    BY <2>2, <2>4 DEF Underway
<1>3. ASSUME NEW x \in Vars, LOAD_VAR(x) PROVE Shaped' /\ Underway'
  <2> DEFINE v == globals[x]
             rs == [NoRegs EXCEPT !["a"] = v]
             calls == IF v.is = "list" THEN <<Push("a")>> ELSE <<Copy("r", "a"), Push("r")>>
  <2>1. x \in DOMAIN globals /\ Execute("LOAD_VAR", calls, rs)
    BY <1>3 DEF LOAD_VAR, Shaped
  <2>2. AtHome(objs, home, v, InGlobal(x)) /\ v \in Value
    BY <2>1 DEF AtEase, Settled, AtHome, Safe
  <2>3. rs \in [Registers -> Value] /\ rs["a"] = v
    BY <2>2, FreeValues DEF Registers
  <2> HIDE DEF rs, calls
  <2>4. /\ Shaped' /\ Settled(home, {}, {}, {})'
        /\ todo' = calls \o <<Peek>> /\ regs' = rs
        /\ objs' = objs
    BY <2>1, <2>3, Begins
  <2>5. CASE v.is = "list"
    <3>1. todo' = <<Push("a"), Peek>>
      BY <2>4, <2>5, Peeking DEF calls
    <3>2. AtHome(objs', home, v, InReg("a"))
      BY <2>2, <2>4, <2>5 DEF AtHome
    <3>3. Settled(home, {}, {}, {"a"})'
      BY <2>3, <2>4, <3>2 DEF Settled
    <3>4. Pushes(home)'
      BY <3>1, <3>3 DEF Pushes, Registers
    <3>5. QED
      BY <2>4, <3>4 DEF Underway
  <2>6. CASE v.is # "list"
    <3>1. todo' = <<Copy("r", "a"), Push("r"), Peek>>
      BY <2>4, <2>6, Peeking DEF calls
    <3>2. Safe(objs', regs'["a"]) /\ regs'["a"].is # "list"
      BY <2>2, <2>3, <2>4, <2>6 DEF AtHome
    <3>3. Loads(home)'
      BY <2>4, <3>1, <3>2 DEF Loads, AtEase
    <3>4. QED
      BY <2>4, <3>3 DEF Underway
  <2>7. QED
    BY <2>5, <2>6
<1>4. Base = 0 /\ stack \in Seq(Value) /\ Len(stack) \in Nat
  BY DEF Base, Shaped
<1>5. ASSUME NEW x \in Vars, STORE_LIST(x) PROVE Shaped' /\ Underway'
  <2>1. /\ Len(stack) >= 1 /\ Top(1).is = "list"
        /\ Execute("STORE_LIST", <<Pop("a"), SetVar(x, "a"), Free("a")>>, NoRegs)
    BY <1>4, <1>5 DEF STORE_LIST, OnStack
  <2>2. /\ Shaped' /\ Settled(home, {}, {}, {})'
        /\ todo' = <<Pop("a"), SetVar(x, "a"), Free("a")>> \o <<Peek>> /\ stack' = stack
    BY <1>0, <2>1, Begins
  <2>3. todo' = <<Pop("a"), SetVar(x, "a"), Free("a"), Peek>>
    BY <2>2, Peeking
  <2>4. stack' # <<>> /\ Top(1)' = Top(1)
    BY <1>4, <2>1, <2>2 DEF Top
  <2>5. Sets0(home, x)'
    BY <2>1, <2>2, <2>3, <2>4 DEF Sets0, AtEase
  <2>6. QED
    BY <2>2, <2>5 DEF Underway, Sets
<1>6. CASE LIST_PUSH
  <2>1. /\ Len(stack) >= 2 /\ Top(2).is = "list"
        /\ Execute("LIST_PUSH", <<Pop("b"), Pop("a"), PushItem("a", "b"), Push("a")>>, NoRegs)
    BY <1>4, <1>6 DEF LIST_PUSH, OnStack
  <2>2. /\ Shaped' /\ Settled(home, {}, {}, {})'
        /\ todo' = <<Pop("b"), Pop("a"), PushItem("a", "b"), Push("a")>> \o <<Peek>>
        /\ stack' = stack
    BY <1>0, <2>1, Begins
  <2>3. todo' = <<Pop("b"), Pop("a"), PushItem("a", "b"), Push("a"), Peek>>
    BY <2>2, Peeking
  <2>4. Len(stack') >= 2 /\ Top(2)' = Top(2)
    BY <2>1, <2>2 DEF Top
  <2>5. Appends1(home)'
    BY <2>1, <2>2, <2>3, <2>4 DEF Appends1, AtEase
  <2>6. QED
    BY <2>2, <2>5 DEF Underway, Appends
<1>7. ASSUME NEW k \in 1 .. MaxItems, LIST_STORE(k) PROVE Shaped' /\ Underway'
  <2> DEFINE v == Top(1)
             calls == <<Pop("a"), Pop("b"), GetItem("a", "r", k), Free("r"), SetItem("a", "b", k)>>
  <2>1. /\ Len(stack) >= 2 /\ v.is = "list" /\ k \in DOMAIN ItemsOf(v)
        /\ Execute("LIST_STORE", calls, NoRegs)
    BY <1>4, <1>7 DEF LIST_STORE, OnStack, HasItem
  <2>2. v = stack[Len(stack)] /\ Len(stack) \in DOMAIN stack
    BY <1>4, <2>1 DEF Top
  <2>3. Safe(objs, v)
    BY <2>2 DEF AtEase, Settled, AtHome
  <2>4. List(v) /\ k \in DOMAIN heap[v.at]
    BY <2>1, <2>3 DEF List, Safe, InHeap, ItemsOf, Live, Tracked, TrackedIsAllocated
  <2> HIDE DEF calls
  <2>5. /\ Shaped' /\ Settled(home, {}, {}, {})'
        /\ todo' = calls \o <<Peek>>
        /\ UNCHANGED <<heap, objs, stack, globals, locals, call_stack>>
    BY <1>0, <2>1, Begins
  <2>6. todo' = <<Pop("a"), Pop("b"), GetItem("a", "r", k), Free("r"), SetItem("a", "b", k), Peek>>
    BY <2>5, Peeking DEF calls
  <2>7. Len(stack') >= 2 /\ HasItemAt(Top(1), k)'
    BY <2>1, <2>4, <2>5 DEF Top, HasItemAt, List
  <2>8. Replaces1(home, k)'
    BY <2>5, <2>6, <2>7 DEF Replaces1, AtEase
  <2>9. QED
    BY <2>5, <2>8 DEF Underway, Replaces
<1>8. QED
  BY <1>1, <1>2, <1>3, <1>5, <1>6, <1>7, RootedOnly

(* Between two instructions everything is in its place.                    *)
LEMMA RestingIsEase ==
  ASSUME Underway, todo = <<>>
  PROVE  \E home : DOMAIN home = Value /\ AtEase(home)
<1>1. PICK home : /\ DOMAIN home = Value
                  /\ \/ Rests(home) \/ Pushes(home) \/ Makes(home) \/ Loads(home)
                     \/ Appends(home) \/ Replaces(home) \/ Sets(home)
  BY DEF Underway
<1>2. ~Pushes(home) /\ ~Makes(home) /\ ~Loads(home) /\ ~Appends(home) /\ ~Replaces(home)
  BY DEF Pushes, Makes, Loads, Appends, Appends1, Appends2, Appends3, Replaces, Replaces1,
         Replaces2, Replaces3, Replaces4, Replaces5
<1>3. ASSUME NEW x, NEW rest, Source(rest)
      PROVE  \A c, d : <<c>> \o rest # <<>> /\ <<c, d>> \o rest # <<>>
  <2>1. CASE rest = <<>>
    BY <2>1
  <2>2. CASE rest = Freeing
    BY <2>2 DEF Freeing
  <2>3. QED
    BY <1>3, <2>1, <2>2, Sources
<1>4. ~Sets(home)
  BY <1>3 DEF Sets, Sets0, Sets1, Sets2, Sets3
<1>5. QED
  BY <1>1, <1>2, <1>4 DEF Rests

(* Each step of a handler of Rooted leads to the next shape.               *)
LEMMA GoesOn ==
  ASSUME Ops \subseteq Rooted, GInv, Next
  PROVE  Shaped' /\ Underway'
<1>1. Tracked /\ Shaped
  BY DEF GInv
<1>2. CASE todo = <<>>
  <2>1. PICK home : DOMAIN home = Value /\ AtEase(home)
    BY <1>2, RestingIsEase DEF GInv
  <2>2. Instruction
    BY <1>2, NextCall
  <2>3. QED
    BY <1>1, <2>1, <2>2, BeginStep
<1>3. CASE todo # <<>>
  <2>1. PICK home : /\ DOMAIN home = Value
                    /\ \/ Rests(home) \/ Pushes(home) \/ Makes(home) \/ Loads(home)
                       \/ Appends(home) \/ Replaces(home) \/ Sets(home)
    BY DEF GInv, Underway
  <2>2. CASE Rests(home)
    BY <1>1, <1>3, <2>1, <2>2, PeekStep, FreeStep DEF Rests
  <2>3. CASE Pushes(home)
    BY <1>1, <2>1, <2>3, PushStep
  <2>4. CASE Makes(home)
    BY <1>1, <2>1, <2>4, MakeStep
  <2>5. CASE Loads(home)
    BY <1>1, <2>1, <2>5, LoadStep
  <2>6. CASE Appends(home)
    BY <1>1, <2>6, AppendStep1, AppendStep2, AppendStep3 DEF Appends
  <2>7. CASE Replaces(home)
    BY <1>1, <2>1, <2>7, ReplaceStep1, ReplaceStep2, ReplaceStep3, ReplaceStep4, ReplaceStep5
       DEF Replaces
  <2>8. CASE Sets(home)
    <3>1. PICK x \in Vars : \/ Sets0(home, x)
                            \/ \E rest : Sets1(home, x, rest) \/ Sets2(home, x, rest)
                                           \/ Sets3(home, x, rest)
      BY <2>8 DEF Sets
    <3>2. QED
      BY <1>1, <2>1, <3>1, SetStep0, SetStep1, SetStep2, SetStep3
  <2>9. QED
    BY <2>1, <2>2, <2>3, <2>4, <2>5, <2>6, <2>7, <2>8
<1>4. QED
  BY <1>2, <1>3

(* A step that changes nothing.                                            *)
LEMMA SameSettled ==
  ASSUME UNCHANGED vars
  PROVE  \A home, X, P, R : Settled(home, X, P, R) => Settled(home, X, P, R)'
BY DEF vars, gcVars, scopes, Settled

LEMMA SameUnderway ==
  ASSUME Underway, UNCHANGED vars
  PROVE  Underway'
<1>1. PICK home : /\ DOMAIN home = Value
                  /\ \/ Rests(home) \/ Pushes(home) \/ Makes(home) \/ Loads(home)
                     \/ Appends(home) \/ Replaces(home) \/ Sets(home)
  BY DEF Underway
<1>2. UNCHANGED <<todo, regs, stack, objs, heap, globals>>
  BY DEF vars, gcVars, scopes
<1>3. \A n : Top(n)' = Top(n)
  BY <1>2 DEF Top
<1>4. \A v : (List(v) => List(v)') /\ (List(v) => \A k : HasItemAt(v, k) => HasItemAt(v, k)')
  BY <1>2 DEF List, HasItemAt
<1>5. \A k : HasItemAt(Top(1), k) => HasItemAt(Top(1), k)'
  BY <1>2, <1>3 DEF List, HasItemAt
<1>6. \A k : HasItemAt(regs["a"], k) => HasItemAt(regs["a"], k)'
  BY <1>2 DEF List, HasItemAt
<1>7. \A rest : Source(rest) => Source(rest)'
  BY <1>2, <1>3 DEF Source, List
<1>8. Rests(home) => Rests(home)'
  BY <1>2, SameSettled DEF Rests, AtEase
<1>9. Pushes(home) => Pushes(home)'
  BY <1>2, SameSettled DEF Pushes
<1>10. (Makes(home) => Makes(home)') /\ (Loads(home) => Loads(home)')
  BY <1>2, SameSettled DEF Makes, Loads, AtEase
<1>11. Appends(home) => Appends(home)'
  BY <1>2, <1>3, SameSettled DEF Appends, Appends1, Appends2, Appends3, AtEase
<1>12. ASSUME NEW k
       PROVE  /\ Replaces1(home, k) => Replaces1(home, k)'
              /\ Replaces2(home, k) => Replaces2(home, k)'
              /\ Replaces3(home, k) => Replaces3(home, k)'
              /\ Replaces4(home, k) => Replaces4(home, k)'
              /\ Replaces5(home, k) => Replaces5(home, k)'
  <2>1. Replaces1(home, k) => Replaces1(home, k)'
    BY <1>2, <1>5, SameSettled DEF Replaces1, AtEase
  <2>2. Replaces2(home, k) => Replaces2(home, k)'
    BY <1>2, <1>6, SameSettled DEF Replaces2, AtEase
  <2>3. Replaces3(home, k) => Replaces3(home, k)'
    BY <1>2, <1>6, SameSettled DEF Replaces3
  <2>4. Replaces4(home, k) => Replaces4(home, k)'
    BY <1>2, <1>6, SameSettled DEF Replaces4
  <2>5. Replaces5(home, k) => Replaces5(home, k)'
    BY <1>2, <1>6, SameSettled DEF Replaces5
  <2>6. QED
    BY <2>1, <2>2, <2>3, <2>4, <2>5
<1>13. Replaces(home) => Replaces(home)'
  BY <1>12 DEF Replaces
<1>14. ASSUME NEW x, NEW rest
       PROVE  /\ Sets0(home, x) => Sets0(home, x)'
              /\ Sets1(home, x, rest) => Sets1(home, x, rest)'
              /\ Sets2(home, x, rest) => Sets2(home, x, rest)'
              /\ Sets3(home, x, rest) => Sets3(home, x, rest)'
  <2>1. Sets0(home, x) => Sets0(home, x)'
    BY <1>2, <1>3, SameSettled DEF Sets0, AtEase
  <2>2. Sets1(home, x, rest) => Sets1(home, x, rest)'
    BY <1>2, <1>7, SameSettled DEF Sets1, AtEase
  <2>3. Sets2(home, x, rest) => Sets2(home, x, rest)'
    BY <1>2, <1>7, SameSettled DEF Sets2, AtEase
  <2>4. Sets3(home, x, rest) => Sets3(home, x, rest)'
    BY <1>2, <1>7, SameSettled DEF Sets3
  <2>5. QED
    BY <2>1, <2>2, <2>3, <2>4
<1>15. Sets(home) => Sets(home)'
  BY <1>14 DEF Sets
<1>16. QED
  BY <1>1, <1>8, <1>9, <1>10, <1>11, <1>13, <1>15 DEF Underway

(* free_value is called by none of these handlers.                         *)
LEMMA NeverRaw ==
  ASSUME Underway
  PROVE  ~DoFreeRaw
<1> SUFFICES ASSUME todo # <<>>, call.do = "free_raw" PROVE FALSE
  BY DEF DoFreeRaw, Doing
<1>1. PICK home : /\ DOMAIN home = Value
                  /\ \/ Rests(home) \/ Pushes(home) \/ Makes(home) \/ Loads(home)
                     \/ Appends(home) \/ Replaces(home) \/ Sets(home)
  BY DEF Underway
<1>2. CASE Rests(home)
  BY <1>2, Names DEF Rests, Freeing, call
<1>3. CASE Pushes(home) \/ Makes(home) \/ Loads(home)
  <2>1. CASE Pushes(home)
    BY <2>1, Names DEF Pushes, call
  <2>2. CASE Makes(home)
    BY <2>2, Names DEF Makes, call
  <2>3. CASE Loads(home)
    BY <2>3, Names DEF Loads, call
  <2>4. QED
    BY <1>3, <2>1, <2>2, <2>3
<1>4. CASE Appends(home)
  BY <1>4, Names DEF Appends, Appends1, Appends2, Appends3, call
<1>5. CASE Replaces(home)
  BY <1>5, Names DEF Replaces, Replaces1, Replaces2, Replaces3, Replaces4, Replaces5, call
<1>6. CASE Sets(home)
  <2>1. PICK x \in Vars : \/ Sets0(home, x)
                          \/ \E rest : Sets1(home, x, rest) \/ Sets2(home, x, rest)
                                         \/ Sets3(home, x, rest)
    BY <1>6 DEF Sets
  <2>2. CASE Sets0(home, x)
    BY <2>2, Names DEF Sets0, call
  <2>3. ASSUME NEW rest, Sets1(home, x, rest) \/ Sets2(home, x, rest) \/ Sets3(home, x, rest)
        PROVE  FALSE
    <3> DEFINE c == FreeVar(x, Global)
               d == FillVar(x, "a", Global)
               S == {Free("a"), Peek}
    <3>1. /\ rest \in Seq(S)
          /\ \/ todo = <<SetVar(x, "a")>> \o rest \/ todo = <<AddVar(x, "a")>> \o rest
             \/ todo = <<d>> \o rest \/ todo = <<c, d>> \o rest
      BY <2>3, Sources DEF Sets1, Sets2, Sets3
    <3> HIDE DEF c, d, S
    <3>2. \A e : (<<e>> \o rest)[1] = e
      BY <3>1, Ahead, Zenon
    <3>3. (<<c, d>> \o rest)[1] = c
      <4> DEFINE r == <<d>> \o rest
                 T == S \cup {d}
      <4>1. <<c, d>> \o rest = <<c>> \o r
        BY <3>1, Apart, Zenon
      <4>2. r \in Seq(T)
        BY <3>1, Ahead, Zenon
      <4> HIDE DEF r, T
      <4>3. (<<c>> \o r)[1] = c
        BY <4>2, Ahead, Zenon
      <4>4. QED
        BY <4>1, <4>3
    <3>4. call \in {SetVar(x, "a"), AddVar(x, "a"), c, d}
      BY <3>1, <3>2, <3>3 DEF call
    <3>5. QED
      BY <3>4, Names DEF c, d
  <2>4. QED
    BY <2>1, <2>2, <2>3
<1>7. QED
  BY <1>1, <1>2, <1>3, <1>4, <1>5, <1>6

(* GInv holds in every state.                                              *)
LEMMA Throughout ==
  ASSUME Ops \subseteq Rooted
  PROVE  Spec => []GInv
<1>1. Init => GInv
  <2> SUFFICES ASSUME Init PROVE GInv
    OBVIOUS
  <2>1. /\ heap = [a \in {} |-> <<>>] /\ objs = {} /\ stack = <<>> /\ globals = [x \in {} |-> Null]
        /\ locals = <<>> /\ call_stack = <<>> /\ todo = <<>> /\ regs = NoRegs /\ fault = FALSE
    BY DEF Init
  <2>2. DOMAIN heap = {} /\ DOMAIN globals = {}
    BY <2>1
  <2>3. Tracked
    BY <2>1, <2>2 DEF Tracked, TrackedIsAllocated
  <2>4. Shaped
    BY <2>1, <2>2, FreeValues DEF Shaped
  <2>5. PICK home : home = [v \in Value |-> 0]
    OBVIOUS
  <2>6. DOMAIN home = Value /\ Settled(home, {}, {}, {})
    BY <2>1, <2>2, <2>5 DEF Settled
  <2>7. Rests(home)
    BY <2>1, <2>6 DEF Rests, AtEase
  <2>8. Underway
    BY <2>6, <2>7 DEF Underway
  <2>9. QED
    BY <2>3, <2>4, <2>8 DEF GInv
<1>2. GInv /\ [Next]_vars => GInv'
  <2> SUFFICES ASSUME GInv, [Next]_vars PROVE GInv'
    OBVIOUS
  <2>1. Tracked'
    BY TrackedStays, NeverRaw DEF GInv
  <2>2. CASE Next
    BY <2>1, <2>2, GoesOn DEF GInv
  <2>3. CASE UNCHANGED vars
    <3>1. Shaped'
      BY <2>3 DEF GInv, Shaped, vars, gcVars, scopes
    <3>2. QED
      BY <2>1, <2>3, <3>1, SameUnderway DEF GInv
  <2>4. QED
    BY <2>2, <2>3
<1>3. QED
  BY <1>1, <1>2, PTL DEF Spec

(* A program that only makes strings and lists, loads variables, sets them *)
(* to lists, and appends to lists and replaces their items never uses    *)
(* freed memory, whatever is collected in between: its handlers keep in a  *)
(* root what they use after an allocation, and free strings only where     *)
(* they own them.                                                          *)
THEOREM RootedNeverFaults ==
  ASSUME Ops \subseteq Rooted
  PROVE  Spec => []NoFault
<1>1. GInv => NoFault
  BY DEF GInv, Shaped, NoFault
<1>2. QED
  BY <1>1, Throughout, PTL

(* In such a program everything that variables, the stack and the items of *)
(* lists lead to is allocated and tracked by gc_objects between any two    *)
(* instructions.                                                           *)
THEOREM RootedNeverDangles ==
  ASSUME Ops \subseteq Rooted
  PROVE  Spec => []NoDangling
<1>1. GInv => NoDangling
  <2> SUFFICES ASSUME GInv, AtRest PROVE \A v \in InUse : InHeap(v) => v \in objs /\ Live(v)
    BY DEF NoDangling
  <2> DEFINE S == {v \in Value : InHeap(v) => v \in objs}
             vs == Roots \cup UNION {Tables(call_stack[k].locals) : k \in DOMAIN call_stack}
  <2>1. Tracked /\ Shaped
    BY DEF GInv
  <2>2. PICK home : AtEase(home)
    BY RestingIsEase DEF GInv, AtRest
  <2>3. vs = Range(stack) \cup Range(globals)
    <3>1. locals = <<>> /\ call_stack = <<>>
      BY <2>1 DEF Shaped
    <3>2. QED
      BY <3>1 DEF Roots, Tables
  <2>4. vs \subseteq S
    BY <2>2, <2>3 DEF AtEase, Settled, AtHome, Safe, Range
  <2>5. ASSUME NEW v \in S PROVE ItemsIn(v, Value) \subseteq S
    <3>1. CASE v.is = "list"
      <4>1. v.at \in DOMAIN heap /\ v \in objs
        BY <2>1, <3>1 DEF InHeap, Tracked, TrackedIsAllocated
      <4>2. ItemsIn(v, Value) \subseteq Range(heap[v.at])
        BY <4>1 DEF ItemsIn, ItemsOf, Live
      <4>3. \A k \in DOMAIN heap[v.at] : heap[v.at][k] \in S
        BY <2>2, <4>1 DEF AtEase, Settled, AtHome, Safe
      <4>4. QED
        BY <4>2, <4>3 DEF Range
    <3>2. CASE v.is # "list"
      BY <3>2 DEF ItemsIn
    <3>3. QED
      BY <3>1, <3>2
  <2>6. InUse = ReachedFrom(vs, Value)
    BY DEF InUse
  <2> HIDE DEF S, vs
  <2>7. ReachedFrom(vs, Value) \subseteq S
    BY <2>4, <2>5, ReachesNoMore
  <2>8. \A v \in S : InHeap(v) => v \in objs /\ v.at \in DOMAIN heap
    BY <2>1 DEF S, Tracked, TrackedIsAllocated
  <2>9. QED
    BY <2>6, <2>7, <2>8 DEF Live
<1>2. QED
  BY <1>1, Throughout, PTL

(* At most one of three sets has an element, and no more than one.         *)
LEMMA AtMostOne ==
  ASSUME NEW A, NEW B, NEW C,
         \A x, y \in A : x = y, \A x, y \in B : x = y, \A x, y \in C : x = y,
         A = {} \/ B = {}, A = {} \/ C = {}, B = {} \/ C = {}
  PROVE  /\ Cardinality(A) \in Nat /\ Cardinality(B) \in Nat /\ Cardinality(C) \in Nat
         /\ Cardinality(A) + Cardinality(B) + Cardinality(C) <= 1
<1>1. ASSUME NEW D, \A x, y \in D : x = y
      PROVE  Cardinality(D) = IF D = {} THEN 0 ELSE 1
  <2>1. CASE D = {}
    BY <2>1, FS_EmptySet
  <2>2. CASE D # {}
    <3>1. PICK d : D = {d}
      BY <1>1, <2>2
    <3>2. QED
      BY <3>1, FS_Singleton
  <2>3. QED
    BY <2>1, <2>2
<1>2. /\ Cardinality(A) = IF A = {} THEN 0 ELSE 1
      /\ Cardinality(B) = IF B = {} THEN 0 ELSE 1
      /\ Cardinality(C) = IF C = {} THEN 0 ELSE 1
  BY <1>1
<1>3. QED
  BY <1>2

(* In such a program a string that two of its places refer to, and that    *)
(* would be freed under one of them, is never there: every handler moves a *)
(* string or copies it.                                                    *)
THEOREM RootedNeverShares ==
  ASSUME Ops \subseteq Rooted
  PROVE  Spec => []StringsOwnedOnce
<1>1. GInv => StringsOwnedOnce
  <2> SUFFICES ASSUME GInv, AtRest, NEW a \in DOMAIN heap
               PROVE  LET s == [is |-> "string", at |-> a]
                          In(f) == Cardinality({k \in DOMAIN f : f[k] = s})
                          InTable(ts) == IF ts = <<>> THEN 0 ELSE In(ts[1])
                      IN  In(stack) + In(globals) + InTable(locals)
                            + Cardinality({k \in DOMAIN call_stack : InTable(call_stack[k].locals) > 0})
                            + Cardinality({p \in (DOMAIN heap) \X (1 .. MaxItems) :
                                             p[2] \in DOMAIN heap[p[1]] /\ heap[p[1]][p[2]] = s}) <= 1
    BY DEF StringsOwnedOnce
  <2> DEFINE s == [is |-> "string", at |-> a]
             InTable(ts) == IF ts = <<>> THEN 0 ELSE Cardinality({k \in DOMAIN ts[1] : ts[1][k] = s})
             A == {k \in DOMAIN stack : stack[k] = s}
             B == {k \in DOMAIN globals : globals[k] = s}
             C == {p \in (DOMAIN heap) \X (1 .. MaxItems) :
                     p[2] \in DOMAIN heap[p[1]] /\ heap[p[1]][p[2]] = s}
             D == {k \in DOMAIN call_stack : InTable(call_stack[k].locals) > 0}
  <2>1. PICK home : AtEase(home)
    BY RestingIsEase DEF GInv, AtRest
  <2>2. s.is = "string"
    OBVIOUS
  <2> HIDE DEF s
  <2>3. \A k \in A : home[s] = InStack(k)
    BY <2>1, <2>2 DEF AtEase, Settled, AtHome
  <2>4. \A k \in B : home[s] = InGlobal(k)
    BY <2>1, <2>2 DEF AtEase, Settled, AtHome
  <2>5. \A p \in C : home[s] = InItem(p[1], p[2])
    BY <2>1, <2>2 DEF AtEase, Settled, AtHome
  <2>6. /\ \A x, y \in A : x = y
        /\ \A x, y \in B : x = y
        /\ A = {} \/ B = {}
    BY <2>3, <2>4, Places
  <2>7. \A p, q \in C : p = q
    <3> SUFFICES ASSUME NEW p \in C, NEW q \in C PROVE p = q
      OBVIOUS
    <3>1. p[1] = q[1] /\ p[2] = q[2]
      BY <2>5, Places
    <3>2. p \in (DOMAIN heap) \X (1 .. MaxItems) /\ q \in (DOMAIN heap) \X (1 .. MaxItems)
      OBVIOUS
    <3>3. QED
      BY <3>1, <3>2
  <2>8. (A = {} \/ C = {}) /\ (B = {} \/ C = {})
    BY <2>3, <2>4, <2>5, Places
  <2> HIDE DEF A, B, C
  <2>9. /\ Cardinality(A) \in Nat /\ Cardinality(B) \in Nat /\ Cardinality(C) \in Nat
        /\ Cardinality(A) + Cardinality(B) + Cardinality(C) <= 1
    BY <2>6, <2>7, <2>8, AtMostOne
  <2>10. Cardinality(D) = 0 /\ InTable(locals) = 0
    <3>1. locals = <<>> /\ call_stack = <<>>
      BY DEF GInv, Shaped
    <3>2. D = {}
      BY <3>1
    <3>3. QED
      BY <3>1, <3>2, FS_EmptySet
  <2> HIDE DEF D, InTable
  <2>11. Cardinality(A) + Cardinality(B) + InTable(locals) + Cardinality(D) + Cardinality(C) <= 1
    BY <2>9, <2>10
  <2>12. QED
    BY <2>11 DEF A, B, C, D, InTable, s
<1>2. QED
  BY <1>1, Throughout, PTL

=============================================================================
