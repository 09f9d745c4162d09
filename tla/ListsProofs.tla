---------------------------- MODULE ListsProofs ----------------------------
(***************************************************************************)
(* What the operations of Lists do to the items of a list, for lists of    *)
(* any length, items of any kind and any width of size_t: each is the      *)
(* operation on sequences a program means by it and keeps the list inside  *)
(* its memory; and the two that do not, with what they do instead.         *)
(***************************************************************************)
EXTENDS Lists, SequenceTheorems, TLAPS

(* A list of items of S, in memory it really has.  Memory that was never   *)
(* written may hold anything, so Garbage counts as an item.                *)
IsBuffer(l, S) ==
  /\ l = Buffer(l.items, l.count, l.capacity)
  /\ l.items \in Seq(S) /\ Garbage \in S
  /\ l.count \in Nat /\ l.capacity \in Nat
  /\ WithinMemory(l)

(* The list has room to grow before size_t ends. *)
MayGrow(l) == l.capacity + 16 < SizeLimit

----------------------------------------------------------------------------
(* Lemmas.                                                                 *)

(* realloc keeps what is in the memory it is given. *)
LEMMA ReallocKeeps ==
  ASSUME NEW S, NEW items \in Seq(S), NEW n \in Nat, Garbage \in S
  PROVE  /\ realloc(items, n) \in Seq(S)
         /\ Len(realloc(items, n)) = n
         /\ \A k \in 1 .. n : realloc(items, n)[k] = IF k <= Len(items) THEN items[k] ELSE Garbage
<1>1. \A k \in 1 .. n : (IF k <= Len(items) THEN items[k] ELSE Garbage) \in S
  BY ElementOfSeq
<1> QED
  BY <1>1 DEF realloc

(* The contents of a list are as many items of its kind as it counts.      *)
LEMMA ContentsType ==
  ASSUME NEW S, NEW l, IsBuffer(l, S)
  PROVE  /\ Contents(l) \in Seq(S)
         /\ Len(Contents(l)) = l.count
         /\ \A k \in 1 .. l.count : Contents(l)[k] = l.items[k]
<1>1. \A k \in 1 .. l.count : l.items[k] \in S
  BY ElementOfSeq DEF IsBuffer, WithinMemory
<1> QED
  BY <1>1 DEF Contents, IsBuffer

(* More memory for a list changes none of its items. *)
LEMMA GrownKeeps ==
  ASSUME NEW S, NEW l, IsBuffer(l, S), NEW n \in Nat, l.capacity <= n
  PROVE  /\ IsBuffer(Grown(l, n), S)
         /\ Grown(l, n).count = l.count /\ Grown(l, n).capacity = n
         /\ \A k \in 1 .. l.count : Grown(l, n).items[k] = l.items[k]
<1>1. /\ Grown(l, n).items = realloc(l.items, n)
      /\ Grown(l, n).count = l.count /\ Grown(l, n).capacity = n
      /\ Grown(l, n) = Buffer(Grown(l, n).items, Grown(l, n).count, Grown(l, n).capacity)
  BY DEF Grown, Buffer
<1>2. /\ realloc(l.items, n) \in Seq(S) /\ Len(realloc(l.items, n)) = n
      /\ \A k \in 1 .. n : realloc(l.items, n)[k] = IF k <= Len(l.items) THEN l.items[k] ELSE Garbage
  BY ReallocKeeps DEF IsBuffer
<1>3. l.count <= l.capacity /\ l.capacity = Len(l.items) /\ l.count \in Nat /\ l.capacity \in Nat /\ Garbage \in S
  BY DEF IsBuffer, WithinMemory
<1>4. IsBuffer(Grown(l, n), S)
  BY <1>1, <1>2, <1>3 DEF IsBuffer, WithinMemory
<1>5. \A k \in 1 .. l.count : Grown(l, n).items[k] = l.items[k]
  BY <1>1, <1>2, <1>3
<1> QED
  BY <1>1, <1>4, <1>5

(* Where there is room, Put appends. *)
LEMMA PutAppends ==
  ASSUME NEW S, NEW l, IsBuffer(l, S), NEW v \in S, l.count < l.capacity, l.count + 1 < SizeLimit
  PROVE  /\ IsBuffer(Put(l, v), S)
         /\ Contents(Put(l, v)) = Append(Contents(l), v)
<1> DEFINE items == [l.items EXCEPT ![l.count + 1] = v]
<1>1. /\ l = Buffer(l.items, l.count, l.capacity) /\ l.items \in Seq(S) /\ Garbage \in S
      /\ l.count \in Nat /\ l.capacity \in Nat /\ l.count <= l.capacity /\ l.capacity = Len(l.items)
  BY DEF IsBuffer, WithinMemory
<1>2. l.count + 1 \in 1 .. Len(l.items)
  BY <1>1
<1>3. (l.count + 1) % SizeLimit = l.count + 1
  BY <1>1, SizeLimitAssumption
<1>4. /\ Put(l, v).items = items /\ Put(l, v).count = l.count + 1 /\ Put(l, v).capacity = l.capacity
      /\ Put(l, v) = Buffer(Put(l, v).items, Put(l, v).count, Put(l, v).capacity)
  BY <1>1, <1>3 DEF Put, Buffer
<1>5. /\ items \in Seq(S) /\ Len(items) = Len(l.items)
      /\ \A j \in 1 .. Len(l.items) : items[j] = IF j = l.count + 1 THEN v ELSE l.items[j]
  BY <1>1, <1>2, ExceptSeq
<1> HIDE DEF items
<1>6. IsBuffer(Put(l, v), S)
  BY <1>1, <1>4, <1>5 DEF IsBuffer, WithinMemory
<1>7. /\ Contents(l) \in Seq(S) /\ Len(Contents(l)) = l.count
      /\ \A k \in 1 .. l.count : Contents(l)[k] = l.items[k]
  BY ContentsType
<1>8. /\ Contents(Put(l, v)) \in Seq(S) /\ Len(Contents(Put(l, v))) = l.count + 1
      /\ \A k \in 1 .. l.count + 1 : Contents(Put(l, v))[k] = items[k]
  BY <1>4, <1>6, ContentsType
<1>9. /\ Append(Contents(l), v) \in Seq(S) /\ Len(Append(Contents(l), v)) = l.count + 1
      /\ \A k \in 1 .. l.count + 1 : Append(Contents(l), v)[k] = IF k = l.count + 1 THEN v ELSE l.items[k]
  BY <1>1, <1>7
<1>10. \A k \in 1 .. l.count + 1 : Contents(Put(l, v))[k] = Append(Contents(l), v)[k]
  BY <1>1, <1>5, <1>8, <1>9
<1>11. Contents(Put(l, v)) = Append(Contents(l), v)
  BY <1>8, <1>9, <1>10, SeqEqual
<1> QED
  BY <1>6, <1>11

----------------------------------------------------------------------------
(* An item of a literal, or of the list it grows into, goes behind the     *)
(* last one: OP_LIST_PUSH (vm.c:3092-3116) is Append, at every size.       *)
THEOREM PushAppends ==
  ASSUME NEW S, NEW l, IsBuffer(l, S), NEW v \in S, MayGrow(l)
  PROVE  /\ IsBuffer(list_push(l, v), S)
         /\ Contents(list_push(l, v)) = Append(Contents(l), v)
<1>1. l.count \in Nat /\ l.capacity \in Nat /\ l.count <= l.capacity /\ SizeLimit \in Nat
  BY SizeLimitAssumption DEF IsBuffer, WithinMemory
<1>2. CASE l.count < l.capacity
  BY <1>1, <1>2, PutAppends DEF list_push, PushRoom, MayGrow
<1>3. CASE ~(l.count < l.capacity)
  <2> DEFINE n == IF l.capacity = 0 THEN 4 ELSE l.capacity + 16
             g == Grown(l, n)
  <2>1. n \in Nat /\ l.capacity < n /\ l.count + 1 < SizeLimit
    BY <1>1 DEF MayGrow
  <2>2. list_push(l, v) = Put(g, v)
    BY <1>3 DEF list_push, PushRoom
  <2> HIDE DEF n
  <2>3. IsBuffer(g, S) /\ g.count = l.count /\ g.capacity = n /\ \A k \in 1 .. l.count : g.items[k] = l.items[k]
    BY <1>1, <2>1, GrownKeeps
  <2> HIDE DEF g
  <2>4. IsBuffer(Put(g, v), S) /\ Contents(Put(g, v)) = Append(Contents(g), v)
    BY <1>1, <2>1, <2>3, PutAppends
  <2>5. Contents(g) = Contents(l)
    BY <2>3 DEF Contents
  <2> QED
    BY <2>2, <2>4, <2>5
<1> QED
  BY <1>2, <1>3

(* So is append_list (vm.c:804-823), the built-in of that name, although   *)
(* it makes room by another rule.                                          *)
THEOREM AppendListAppends ==
  ASSUME NEW S, NEW l, IsBuffer(l, S), NEW v \in S, MayGrow(l)
  PROVE  /\ IsBuffer(append_list(l, v), S)
         /\ Contents(append_list(l, v)) = Append(Contents(l), v)
<1>1. l.count \in Nat /\ l.capacity \in Nat /\ l.count <= l.capacity /\ SizeLimit \in Nat
  BY SizeLimitAssumption DEF IsBuffer, WithinMemory
<1>2. l.count + 1 < SizeLimit /\ (l.count + 1) % SizeLimit = l.count + 1
  BY <1>1 DEF MayGrow
<1>3. CASE l.count + 1 <= l.capacity
  BY <1>1, <1>2, <1>3, PutAppends DEF append_list, AppendRoom
<1>4. CASE l.count + 1 > l.capacity
  <2> DEFINE g == Grown(l, l.capacity + 8)
  <2>1. append_list(l, v) = Put(g, v)
    BY <1>2, <1>4 DEF append_list, AppendRoom
  <2>2. /\ IsBuffer(g, S) /\ g.count = l.count /\ g.capacity = l.capacity + 8
        /\ \A k \in 1 .. l.count : g.items[k] = l.items[k]
    BY <1>1, GrownKeeps
  <2> HIDE DEF g
  <2>3. IsBuffer(Put(g, v), S) /\ Contents(Put(g, v)) = Append(Contents(g), v)
    BY <1>1, <1>2, <2>2, PutAppends
  <2>4. Contents(g) = Contents(l)
    BY <2>2 DEF Contents
  <2> QED
    BY <2>1, <2>3, <2>4
<1> QED
  BY <1>1, <1>3, <1>4

(* insert_list (vm.c:828-863) puts the item before the one at index and    *)
(* moves that and the ones behind it by one place, in new memory.          *)
THEOREM InsertListInserts ==
  ASSUME NEW S, NEW l, IsBuffer(l, S), NEW v \in S, NEW index \in 0 .. l.count - 1
  PROVE  /\ IsBuffer(insert_list(l, index, v), S)
         /\ Contents(insert_list(l, index, v)) =
              [k \in 1 .. l.count + 1 |-> CASE k <= index -> Contents(l)[k]
                                            [] k = index + 1 -> v
                                            [] OTHER -> Contents(l)[k - 1]]
<1> DEFINE n == IF l.count + 1 > l.capacity THEN l.capacity + 8 ELSE l.capacity
           item(k) == CASE k <= index -> l.items[k]
                        [] k = index + 1 -> v
                        [] k > index + 1 /\ k <= l.count + 1 -> l.items[k - 1]
                        [] OTHER -> Garbage
           items == [k \in 1 .. n |-> item(k)]
           r == insert_list(l, index, v)
<1>1. /\ l.items \in Seq(S) /\ Garbage \in S /\ l.count \in Nat /\ l.capacity \in Nat
      /\ l.count <= l.capacity /\ l.capacity = Len(l.items)
  BY DEF IsBuffer, WithinMemory
<1>2. r = Buffer(items, l.count + 1, n)
  BY DEF insert_list
<1>3. n \in Nat /\ l.count + 1 <= n
  BY <1>1
<1>4. \A k \in 1 .. n : item(k) \in S
  <2> SUFFICES ASSUME NEW k \in 1 .. n PROVE item(k) \in S
    OBVIOUS
  <2>1. CASE k <= index
    <3>1. l.items[k] \in S
      BY <1>1, <1>3, <2>1, ElementOfSeq
    <3> QED
      BY <2>1, <3>1
  <2>2. CASE k > index + 1 /\ k <= l.count + 1
    <3>1. l.items[k - 1] \in S
      BY <1>1, <1>3, <2>2, ElementOfSeq
    <3> QED
      BY <1>3, <2>2, <3>1
  <2>3. CASE k > l.count + 1
    BY <1>1, <1>3, <2>3
  <2>4. CASE k = index + 1
    BY <2>4
  <2> QED
    BY <1>1, <1>3, <2>1, <2>2, <2>3, <2>4
<1> HIDE DEF n, item
<1>5. items \in Seq(S) /\ Len(items) = n /\ \A k \in 1 .. n : items[k] = item(k)
  BY <1>3, <1>4
<1> HIDE DEF items, r
<1>6. r.items = items /\ r.count = l.count + 1 /\ r.capacity = n
  BY <1>2 DEF Buffer
<1>7. IsBuffer(r, S)
  BY <1>1, <1>2, <1>3, <1>5, <1>6 DEF IsBuffer, WithinMemory
<1>8. \A k \in 1 .. l.count : Contents(l)[k] = l.items[k]
  BY ContentsType
<1>9. \A k \in 1 .. l.count + 1 : item(k) = CASE k <= index -> Contents(l)[k]
                                            [] k = index + 1 -> v
                                            [] OTHER -> Contents(l)[k - 1]
  <2> SUFFICES ASSUME NEW k \in 1 .. l.count + 1
               PROVE  item(k) = CASE k <= index -> Contents(l)[k]
                                  [] k = index + 1 -> v
                                  [] OTHER -> Contents(l)[k - 1]
    OBVIOUS
  <2>1. CASE k <= index
    BY <1>1, <1>8, <2>1 DEF item
  <2>2. CASE k = index + 1
    BY <2>2 DEF item
  <2>3. CASE k > index + 1
    BY <1>1, <1>8, <2>3 DEF item
  <2> QED
    BY <1>1, <2>1, <2>2, <2>3
<1>10. Contents(r) = [k \in 1 .. l.count + 1 |-> item(k)]
  BY <1>1, <1>3, <1>5, <1>6 DEF Contents
<1>11. Contents(r) = [k \in 1 .. l.count + 1 |-> CASE k <= index -> Contents(l)[k]
                                                  [] k = index + 1 -> v
                                                  [] OTHER -> Contents(l)[k - 1]]
  BY <1>9, <1>10
<1> QED
  BY <1>7, <1>11 DEF r

(* A store in a list (vm.c:2594-2605) changes the item at its index and no *)
(* other.                                                                  *)
THEOREM StoreReplaces ==
  ASSUME NEW S, NEW l, IsBuffer(l, S), NEW v \in S, NEW index \in 0 .. l.count - 1
  PROVE  /\ IsBuffer(store_list(l, index, v), S)
         /\ Contents(store_list(l, index, v)) = [Contents(l) EXCEPT ![index + 1] = v]
<1> DEFINE items == [l.items EXCEPT ![index + 1] = v]
           r == store_list(l, index, v)
<1>1. /\ l.items \in Seq(S) /\ Garbage \in S /\ l.count \in Nat /\ l.capacity \in Nat
      /\ l.count <= l.capacity /\ l.capacity = Len(l.items)
  BY DEF IsBuffer, WithinMemory
<1>2. index + 1 \in 1 .. Len(l.items)
  BY <1>1
<1>3. /\ items \in Seq(S) /\ Len(items) = Len(l.items)
      /\ \A j \in 1 .. Len(l.items) : items[j] = IF j = index + 1 THEN v ELSE l.items[j]
  BY <1>1, <1>2, ExceptSeq
<1>4. r = Buffer(items, l.count, l.capacity)
  BY DEF store_list
<1> HIDE DEF items, r
<1>5. r.items = items /\ r.count = l.count /\ r.capacity = l.capacity
  BY <1>4 DEF Buffer
<1>6. IsBuffer(r, S)
  BY <1>1, <1>3, <1>4, <1>5 DEF IsBuffer, WithinMemory
<1> DEFINE stored == [k \in 1 .. l.count |-> IF k = index + 1 THEN v ELSE l.items[k]]
<1>7. Contents(r) = [k \in 1 .. l.count |-> items[k]]
  BY <1>5 DEF Contents
<1>8. \A k \in 1 .. l.count : items[k] = IF k = index + 1 THEN v ELSE l.items[k]
  BY <1>1, <1>3
<1>9. Contents(r) = stored
  BY <1>7, <1>8
<1>10. [Contents(l) EXCEPT ![index + 1] = v] = stored
  BY <1>1 DEF Contents
<1> QED
  BY <1>6, <1>9, <1>10 DEF r

(* pop_list (vm.c:868-873) takes the last item off, if there is one ...    *)
THEOREM PopTakesTheLast ==
  ASSUME NEW S, NEW l, IsBuffer(l, S), l.count > 0, l.count < SizeLimit
  PROVE  /\ IsBuffer(pop_list(l), S)
         /\ Contents(pop_list(l)) = SubSeq(Contents(l), 1, l.count - 1)
<1> DEFINE r == pop_list(l)
<1>1. /\ l.items \in Seq(S) /\ Garbage \in S /\ l.count \in Nat /\ l.capacity \in Nat
      /\ l.count <= l.capacity /\ l.capacity = Len(l.items)
  BY DEF IsBuffer, WithinMemory
<1>2. (l.count - 1) % SizeLimit = l.count - 1
  BY <1>1, SizeLimitAssumption
<1>3. r = Buffer(l.items, l.count - 1, l.capacity)
  BY <1>2 DEF pop_list
<1> HIDE DEF r
<1>4. r.items = l.items /\ r.count = l.count - 1 /\ r.capacity = l.capacity
  BY <1>3 DEF Buffer
<1>5. IsBuffer(r, S)
  BY <1>1, <1>3, <1>4 DEF IsBuffer, WithinMemory
<1>6. /\ Contents(l) \in Seq(S) /\ Len(Contents(l)) = l.count
      /\ \A k \in 1 .. l.count : Contents(l)[k] = l.items[k]
  BY ContentsType
<1>7. SubSeq(Contents(l), 1, l.count - 1) = [k \in 1 .. l.count - 1 |-> l.items[k]]
  BY <1>1, <1>6
<1>8. Contents(r) = [k \in 1 .. l.count - 1 |-> l.items[k]]
  BY <1>4 DEF Contents
<1> QED
  BY <1>5, <1>7, <1>8 DEF r

(* ... and of an empty list, which it does not look for, it makes one of   *)
(* the largest size there is, beyond any memory.                           *)
THEOREM PopOfEmptyWraps ==
  ASSUME NEW S, NEW l, IsBuffer(l, S), l.count = 0, l.capacity < SizeLimit - 1
  PROVE  pop_list(l).count = SizeLimit - 1 /\ ~WithinMemory(pop_list(l))
<1>1. l.capacity \in Nat /\ SizeLimit \in Nat /\ SizeLimit > 0
  BY SizeLimitAssumption DEF IsBuffer
<1>2. (0 - 1) % SizeLimit = SizeLimit - 1
  BY <1>1
<1>3. pop_list(l).count = SizeLimit - 1 /\ pop_list(l).capacity = l.capacity
  BY <1>2 DEF pop_list, Buffer
<1> QED
  BY <1>1, <1>3 DEF WithinMemory

(* The copy of a list that has items (vm.c:958-974) holds the copies ...   *)
THEOREM CopyHoldsCopies ==
  ASSUME NEW S, NEW l, IsBuffer(l, S), l.count > 0,
         NEW copies \in Seq(S), Len(copies) = l.count
  PROVE  IsBuffer(copied_list(l, copies), S) /\ Contents(copied_list(l, copies)) = copies
<1> DEFINE items == realloc(copies, l.capacity)
           r == copied_list(l, copies)
<1>1. Garbage \in S /\ l.count \in Nat /\ l.capacity \in Nat /\ l.count <= l.capacity
  BY DEF IsBuffer, WithinMemory
<1>2. /\ items \in Seq(S) /\ Len(items) = l.capacity
      /\ \A k \in 1 .. l.capacity : items[k] = IF k <= Len(copies) THEN copies[k] ELSE Garbage
  BY <1>1, ReallocKeeps
<1>3. r = Buffer(items, l.count, l.capacity)
  BY DEF copied_list
<1> HIDE DEF items, r
<1>4. r.items = items /\ r.count = l.count /\ r.capacity = l.capacity
  BY <1>3 DEF Buffer
<1>5. IsBuffer(r, S)
  BY <1>1, <1>2, <1>3, <1>4 DEF IsBuffer, WithinMemory
<1>6. /\ Contents(r) \in Seq(S) /\ Len(Contents(r)) = l.count
      /\ \A k \in 1 .. l.count : Contents(r)[k] = items[k]
  BY <1>4, <1>5, ContentsType
<1>7. \A k \in 1 .. l.count : Contents(r)[k] = copies[k]
  BY <1>1, <1>2, <1>6
<1>8. Contents(r) = copies
  BY <1>6, <1>7, SeqEqual
<1> QED
  BY <1>5, <1>8 DEF r

(* ... and the copy of an emptied list has the capacity of its original    *)
(* and no memory: the next append finds room and writes outside it.        *)
THEOREM CopyOfEmptiedHasNoMemory ==
  ASSUME NEW S, NEW l, IsBuffer(l, S), l.count = 0, l.capacity > 0, SizeLimit > 1
  PROVE  /\ ~WithinMemory(copied_list(l, <<>>))
         /\ ~Holds(AppendRoom(copied_list(l, <<>>)), 1)
<1> DEFINE r == copied_list(l, <<>>)
<1>1. l.capacity \in Nat /\ SizeLimit \in Nat
  BY SizeLimitAssumption DEF IsBuffer
<1>2. r.items = <<>> /\ r.count = 0 /\ r.capacity = l.capacity
  BY DEF copied_list, Buffer
<1> HIDE DEF r
<1>3. (0 + 1) % SizeLimit = 1
  BY <1>1
<1>4. AppendRoom(r) = r
  BY <1>1, <1>2, <1>3 DEF AppendRoom
<1>5. ~WithinMemory(r) /\ ~Holds(r, 1)
  BY <1>1, <1>2 DEF WithinMemory, Holds
<1> QED
  BY <1>4, <1>5 DEF r
=============================================================================
