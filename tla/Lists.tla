------------------------------- MODULE Lists -------------------------------
(***************************************************************************)
(* The lists of vm/vm.c (783-875, 966-990, 3072-3118): a block of memory,  *)
(* the number of its slots and the number of items in it.  What a list is  *)
(* to a program, the sequence of its items, is Contents; ListsProofs       *)
(* relates each operation to the operation on sequences it stands for.     *)
(*                                                                         *)
(* "items" is the memory that was really allocated: its length may differ  *)
(* from the capacity the code believes in.                                 *)
(***************************************************************************)
EXTENDS Integers, Sequences

CONSTANTS
  Garbage,    \* what memory holds before it is written
  SizeLimit   \* one more than the largest size_t

ASSUME SizeLimitAssumption == SizeLimit \in Nat \ {0}

Slots(n) == [k \in 1 .. n |-> Garbage]

realloc(items, n) == [k \in 1 .. n |-> IF k <= Len(items) THEN items[k] ELSE Garbage]

Buffer(items, count, capacity) == [items |-> items, count |-> count, capacity |-> capacity]

Contents(l) == [k \in 1 .. l.count |-> l.items[k]]

(* The k-th slot is memory of the list. *)
Holds(l, k) == k \in 1 .. Len(l.items)

(* An empty list, with memory for the n items of a literal. *)
create_list(n) == Buffer(Slots(n), 0, n)

(* The list with memory for n items. *)
Grown(l, n) == Buffer(realloc(l.items, n), l.count, n)

(* The list with v behind its last item; a write outside its memory is     *)
(* lost here, and the caller tells it by Holds.                            *)
Put(l, v) == Buffer([l.items EXCEPT ![l.count + 1] = v], (l.count + 1) % SizeLimit, l.capacity)

(* Room for one more item, as OP_LIST_PUSH and as append_list make it. *)
PushRoom(l) == IF l.count < l.capacity THEN l
               ELSE Grown(l, IF l.capacity = 0 THEN 4 ELSE l.capacity + 16)

(* A list that is full is taken to have room for one more. *)
AppendRoom_late(l) == IF l.count + 1 > l.capacity + 1 THEN Grown(l, l.capacity + 8) ELSE l

AppendRoom(l) == IF (l.count + 1) % SizeLimit > l.capacity THEN Grown(l, l.capacity + 8) ELSE l

list_push(l, v)   == Put(PushRoom(l), v)
append_list(l, v) == Put(AppendRoom(l), v)

(* Before the item at index, counted from 0; the caller has checked that   *)
(* there is one.                                                           *)
insert_list(l, index, v) ==
  LET n == IF l.count + 1 > l.capacity THEN l.capacity + 8 ELSE l.capacity
  IN  Buffer([k \in 1 .. n |-> CASE k <= index -> l.items[k]
                                 [] k = index + 1 -> v
                                 [] k > index + 1 /\ k <= l.count + 1 -> l.items[k - 1]
                                 [] OTHER -> Garbage],
             l.count + 1, n)

pop_list(l) == Buffer(l.items, (l.count - 1) % SizeLimit, l.capacity)

store_list(l, index, v) == Buffer([l.items EXCEPT ![index + 1] = v], l.count, l.capacity)

(* The list of copy_value, whose items are the copies in "items": one      *)
(* without items gets no memory, but the capacity of its original.         *)
copied_list(l, items) ==
  Buffer(IF l.count > 0 THEN realloc(items, l.capacity) ELSE <<>>, l.count, l.capacity)

(* An index from behind is counted from the end. *)
Index(l, k) == IF k < 0 THEN l.count + k ELSE k

(* The memory is what the code believes it is, and holds the items. *)
WithinMemory(l) == l.count <= l.capacity /\ l.capacity = Len(l.items)
=============================================================================
