------------------------------- MODULE GcHeap -------------------------------
(***************************************************************************)
(* The memory of the virtual machine of vm/vm.c: strings and lists made by *)
(* gc_alloc, the collector that gc_alloc runs, the values on the operand   *)
(* stack, in the tables of variables and in the frames of callers, and the *)
(* C variables of the instruction being executed, which are not roots.     *)
(*                                                                         *)
(* The handler of an instruction is written as the calls it makes, in      *)
(* order; every call is a step.  An instance of a structure differs from a *)
(* list only in the instructions that reach its members, so both are a     *)
(* "list" here.  Sizes are counted in objects.  Undefined behaviour sets   *)
(* fault and stops the machine.                                            *)
(***************************************************************************)
EXTENDS Naturals, Sequences, FiniteSets, Functions

CONSTANTS
  Addr,           \* addresses; malloc may return any that is free
  Vars,           \* names of variables, LastVar among them
  LastVar,        \* the variable "_"
  Ops,            \* the instructions that programs use
  Negated,        \* the types of values that programs negate
  MinThreshold,   \* the least gc_threshold
  MaxBytes,       \* bound on gc_bytes_allocated
  MaxStack, MaxFrames, MaxItems,   \* bounds on the stack, calls and lists
  None            \* no address

ASSUME BoundsAssumption ==
  /\ MinThreshold \in Nat \ {0} /\ MaxBytes \in Nat
  /\ MaxStack \in Nat /\ MaxFrames \in Nat /\ MaxItems \in Nat
ASSUME NamesAssumption == LastVar \in Vars /\ None \notin Addr /\ IsFiniteSet(Addr)

VARIABLES
  heap,        \* what is allocated: the items at every address in use
  objs,        \* gc_objects, as the values that refer to them
  bytes, threshold,   \* gc_bytes_allocated, gc_threshold
  stack,
  globals,     \* a function on the names that are defined
  locals,      \* <<>> at the top level, else << the table of the function >>
  call_stack,  \* stack_base and locals of every frame
  todo,        \* the calls the current handler has still to make
  regs,        \* the C variables of the handler
  fault        \* memory was used after it was freed, or freed twice

scopes == <<globals, locals, call_stack>>
gcVars == <<heap, objs, bytes, threshold>>
vars   == <<gcVars, stack, scopes, todo, regs, fault>>

Value   == [is : {"null", "num", "string", "list"}, at : Addr \cup {None}]
Null    == [is |-> "null", at |-> None]
Num     == [is |-> "num", at |-> None]
InHeap(v) == v.is \in {"string", "list"}
Live(v)   == InHeap(v) => v.at \in DOMAIN heap
ItemsOf(v) == IF Live(v) THEN heap[v.at] ELSE <<>>

Top(n) == stack[Len(stack) + 1 - n]

Registers == {"a", "b", "name", "r"}
NoRegs    == [r \in Registers |-> Null]

----------------------------------------------------------------------------
(* The collector.                                                          *)

With(f, x, v)  == [y \in DOMAIN f \cup {x} |-> IF y = x THEN v ELSE f[y]]
Without(addrs) == [a \in DOMAIN heap \ addrs |-> heap[a]]

Tables(ts) == UNION {Range(ts[k]) : k \in DOMAIN ts}

(* vm_gc_mark_roots: the locals of callers are not among them, because     *)
(* local_count is 0 in every frame.                                        *)
Roots == Range(stack) \cup Range(globals) \cup Tables(locals)

(* The values one reaches from vs through the items of lists in within.    *)
ReachedFrom(vs, within) ==
  LET Items(v) == IF v \in within /\ v.is = "list" THEN Range(ItemsOf(v)) ELSE {}
      step[n \in 0 .. Cardinality(Addr)] ==
        IF n = 0 THEN vs ELSE step[n - 1] \cup UNION {Items(v) : v \in step[n - 1]}
  IN  step[Cardinality(Addr)]

(* Mutant: the items of lists are not marked. *)
Marked_roots_only == objs \cap Roots

Marked == objs \cap ReachedFrom(Roots, objs)

Larger(m, n) == IF m > n THEN m ELSE n

(* Mutant: a collection starts counting from 0, whatever it left. *)
Collected_from_zero ==
  IF bytes < threshold \/ objs = {}
  THEN [heap |-> heap, objs |-> objs, bytes |-> bytes, threshold |-> threshold]
  ELSE [heap |-> Without({v.at : v \in objs \ Marked}),
        objs |-> objs \cap Marked,
        bytes |-> 0,
        threshold |-> MinThreshold]

(* vm_gc_collect, when gc_alloc calls it.  With nothing to sweep it leaves  *)
(* the threshold as it is.                                                 *)
Collected ==
  LET swept == objs \ Marked
      left  == IF bytes > Cardinality(swept) THEN bytes - Cardinality(swept) ELSE 0
  IN  IF bytes < threshold \/ objs = {}
      THEN [heap |-> heap, objs |-> objs, bytes |-> bytes, threshold |-> threshold]
      ELSE [heap |-> Without({v.at : v \in swept}),
            objs |-> objs \cap Marked,
            bytes |-> left,
            threshold |-> Larger(2 * left, MinThreshold)]

(* gc_alloc: v is the value that refers to the new object. *)
Allocated(v) ==
  /\ v.at \in Addr \ DOMAIN Collected.heap
  /\ Collected.bytes < MaxBytes
  /\ heap' = With(Collected.heap, v.at, <<>>)
  /\ objs' = Collected.objs \cup {v}
  /\ bytes' = Collected.bytes + 1
  /\ threshold' = Collected.threshold

(* gc_remove_and_free finds its object by the address: what is tracked     *)
(* where the strings among vs are, whatever is there by now.               *)
TrackedWhere(vs) == {o \in objs : \E v \in vs : v.is = "string" /\ o.at = v.at}

(* Mutant: what is freed stays in gc_objects. *)
Freed_still_linked(vs) ==
  /\ heap' = Without({o.at : o \in TrackedWhere(vs)})
  /\ UNCHANGED <<objs, bytes, threshold>>

(* free_value_gc does nothing for a list, and the count of bytes stays as  *)
(* it is.                                                                  *)
Freed(vs) ==
  /\ heap' = Without({o.at : o \in TrackedWhere(vs)})
  /\ objs' = objs \ TrackedWhere(vs)
  /\ UNCHANGED <<bytes, threshold>>

----------------------------------------------------------------------------
(* The calls that handlers make.                                           *)

Pop(r)        == [do |-> "pop", r |-> r, x |-> r, k |-> 0]
Push(r)       == [do |-> "push", r |-> r, x |-> r, k |-> 0]
New(r, is)    == [do |-> "new", r |-> r, x |-> is, k |-> 0]
Copy(r, s)    == [do |-> "copy", r |-> r, x |-> s, k |-> 0]
Read(r)       == [do |-> "read", r |-> r, x |-> r, k |-> 0]
Free(r)       == [do |-> "free", r |-> r, x |-> r, k |-> 0]
FreeRaw(r)    == [do |-> "free_raw", r |-> r, x |-> r, k |-> 0]
SetVar(x, r)  == [do |-> "set", r |-> r, x |-> x, k |-> 0]
AddVar(x, r)  == [do |-> "add", r |-> r, x |-> x, k |-> 0]
FreeVar(x, k) == [do |-> "free_var", r |-> "a", x |-> x, k |-> k]
FillVar(x, r, k) == [do |-> "fill_var", r |-> r, x |-> x, k |-> k]
PushItem(l, r)   == [do |-> "push_item", r |-> r, x |-> l, k |-> 0]
GetItem(l, r, k) == [do |-> "get_item", r |-> r, x |-> l, k |-> k]
SetItem(l, r, k) == [do |-> "set_item", r |-> r, x |-> l, k |-> k]
Enter == [do |-> "enter", r |-> "a", x |-> "a", k |-> 0]
Leave == [do |-> "leave", r |-> "a", x |-> "a", k |-> 0]
Peek  == [do |-> "peek", r |-> "a", x |-> "a", k |-> 0]

Global == 0      \* the k of a variable in globals
Local  == 1      \* and of one in locals

call == todo[1]
Doing(do) == ~fault /\ todo # <<>> /\ call.do = do
Reg  == regs[call.r]
Then(calls) == todo' = calls \o Tail(todo)
Done == Then(<<>>)

(* What a handler does when it touches freed memory. *)
Faulty == /\ fault' = TRUE /\ todo' = <<>> /\ regs' = NoRegs
          /\ UNCHANGED <<gcVars, stack, scopes>>

DoPop ==
  /\ Doing("pop") /\ Done
  /\ regs' = [regs EXCEPT ![call.r] = Top(1)]
  /\ stack' = SubSeq(stack, 1, Len(stack) - 1)
  /\ UNCHANGED <<gcVars, scopes, fault>>

DoPush ==
  /\ Doing("push") /\ Done
  /\ stack' = Append(stack, Reg)
  /\ UNCHANGED <<gcVars, scopes, regs, fault>>

(* create_string, create_list *)
DoNew ==
  /\ Doing("new") /\ Done
  /\ \E a \in Addr : LET v == [is |-> call.x, at |-> a] IN
       Allocated(v) /\ regs' = [regs EXCEPT ![call.r] = v]
  /\ UNCHANGED <<stack, scopes, fault>>

(* The n items of the list in l, each copied and appended to the one in r. *)
CopyItems(l, r, n) ==
  [i \in 1 .. 3 * n |-> CASE i % 3 = 1 -> GetItem(l, "b", (i + 2) \div 3)
                           [] i % 3 = 2 -> Copy("name", "b")
                           [] OTHER     -> PushItem(r, "name")]

(* copy_value, of a string or of a list without lists in it.  The string   *)
(* is read before the allocation, an item of a list after it.              *)
DoCopy ==
  /\ Doing("copy")
  /\ LET v == regs[call.x] IN
       IF ~Live(v) THEN Faulty
       ELSE /\ CASE v.is = "string" -> Then(<<New(call.r, "string")>>)
                 [] v.is = "list"   ->
                      Then(<<New(call.r, "list"), Read(call.x)>>
                           \o CopyItems(call.x, call.r, Len(heap[v.at])))
                 [] OTHER -> Done
            /\ regs' = IF InHeap(v) THEN regs ELSE [regs EXCEPT ![call.r] = v]
            /\ UNCHANGED <<gcVars, stack, scopes, fault>>

DoRead ==
  /\ Doing("read")
  /\ IF Live(Reg) THEN Done /\ UNCHANGED <<gcVars, stack, scopes, regs, fault>>
                  ELSE Faulty

DoFree ==
  /\ Doing("free") /\ Done
  /\ Freed({Reg})
  /\ UNCHANGED <<stack, scopes, regs, fault>>

(* free_value, which knows nothing of the collector. *)
DoFreeRaw ==
  /\ Doing("free_raw")
  /\ LET vs == {v \in ReachedFrom({Reg}, [is : {"list"}, at : Addr]) : InHeap(v)} IN
       IF \E v \in vs : ~Live(v) THEN Faulty
       ELSE /\ Done
            /\ heap' = Without({v.at : v \in vs})
            /\ UNCHANGED <<objs, bytes, threshold, stack, scopes, regs, fault>>

Table(k)   == IF k = Global THEN globals ELSE locals[1]
SetTable(k, t) == IF k = Global THEN globals' = t /\ UNCHANGED <<locals, call_stack>>
                  ELSE locals' = <<t>> /\ UNCHANGED <<globals, call_stack>>

Replace(x, r, k) == <<FreeVar(x, k), FillVar(x, r, k)>>

(* vm_set_variable: a local that is also the name of a global sets both.   *)
DoSet ==
  /\ Doing("set")
  /\ LET x == call.x
         r == call.r
         g == x \in DOMAIN globals
     IN  Then(CASE locals # <<>> /\ x \in DOMAIN Table(Local) ->
                     Replace(x, r, Local) \o (IF g THEN Replace(x, r, Global) ELSE <<>>)
                [] locals # <<>> /\ x \notin DOMAIN Table(Local) -> <<FillVar(x, r, Local)>>
                [] locals = <<>> -> <<AddVar(x, r)>>)
  /\ UNCHANGED <<gcVars, stack, scopes, regs, fault>>

(* add_variable on globals. *)
DoAdd ==
  /\ Doing("add")
  /\ Then(IF call.x \in DOMAIN globals THEN Replace(call.x, call.r, Global)
                                       ELSE <<FillVar(call.x, call.r, Global)>>)
  /\ UNCHANGED <<gcVars, stack, scopes, regs, fault>>

(* The variable still holds the freed value, until it is filled again.     *)
DoFreeVar ==
  /\ Doing("free_var") /\ Done
  /\ Freed({Table(call.k)[call.x]})
  /\ UNCHANGED <<stack, scopes, regs, fault>>

(* Mutant: the variable takes the string itself. *)
DoFillVar_shares ==
  /\ Doing("fill_var") /\ Done
  /\ SetTable(call.k, With(Table(call.k), call.x, Reg))
  /\ UNCHANGED <<gcVars, stack, regs, fault>>

(* A variable gets a copy of a string, and a reference to a list.          *)
DoFillVar ==
  /\ Doing("fill_var")
  /\ IF Reg.is = "string" /\ ~Live(Reg) THEN Faulty
     ELSE /\ Done
          /\ \E a \in Addr : LET v == IF Reg.is = "string" THEN [Reg EXCEPT !.at = a] ELSE Reg IN
               /\ IF Reg.is = "string" THEN Allocated(v) ELSE UNCHANGED gcVars
               /\ SetTable(call.k, With(Table(call.k), call.x, v))
          /\ UNCHANGED <<stack, regs, fault>>

DoPushItem ==
  /\ Doing("push_item")
  /\ LET l == regs[call.x] IN
       IF ~Live(l) THEN Faulty
       ELSE /\ Done
            /\ heap' = [heap EXCEPT ![l.at] = Append(@, Reg)]
            /\ UNCHANGED <<objs, bytes, threshold, stack, scopes, regs, fault>>

DoGetItem ==
  /\ Doing("get_item")
  /\ LET l == regs[call.x] IN
       IF ~Live(l) THEN Faulty
       ELSE /\ Done
            /\ regs' = [regs EXCEPT ![call.r] = heap[l.at][call.k]]
            /\ UNCHANGED <<gcVars, stack, scopes, fault>>

DoSetItem ==
  /\ Doing("set_item")
  /\ LET l == regs[call.x] IN
       IF ~Live(l) THEN Faulty
       ELSE /\ Done
            /\ heap' = [heap EXCEPT ![l.at][call.k] = Reg]
            /\ UNCHANGED <<objs, bytes, threshold, stack, scopes, regs, fault>>

(* A new frame and a new table of locals; the stack ends below the         *)
(* arguments, which are pushed again.                                      *)
DoEnter ==
  /\ Doing("enter") /\ Done
  /\ call_stack' = Append(call_stack, [stack_base |-> Len(stack), locals |-> locals])
  /\ locals' = <<[x \in {} |-> Null]>>
  /\ UNCHANGED <<gcVars, stack, globals, regs, fault>>

(* Mutant: the locals of the caller stay in the frame. *)
DoLeave_unrestored ==
  /\ Doing("leave") /\ Done
  /\ LET frame == call_stack[Len(call_stack)] IN
       /\ stack' = SubSeq(stack, 1, frame.stack_base)
       /\ Freed(Tables(locals))
       /\ call_stack' = SubSeq(call_stack, 1, Len(call_stack) - 1)
  /\ UNCHANGED <<globals, locals, regs, fault>>

(* OP_RETURN drops what the function left on the stack and its locals.     *)
DoLeave ==
  /\ Doing("leave") /\ Done
  /\ LET frame == call_stack[Len(call_stack)] IN
       /\ stack' = SubSeq(stack, 1, frame.stack_base)
       /\ Freed(Tables(locals))
       /\ locals' = frame.locals
       /\ call_stack' = SubSeq(call_stack, 1, Len(call_stack) - 1)
  /\ UNCHANGED <<globals, regs, fault>>

(* After every instruction vm_execute keeps the top of the stack in "_".   *)
DoPeek ==
  /\ Doing("peek")
  /\ IF stack = <<>> \/ Top(1) = Null
     THEN Done /\ regs' = NoRegs
     ELSE Then(<<AddVar(LastVar, "a")>>) /\ regs' = [NoRegs EXCEPT !["a"] = Top(1)]
  /\ UNCHANGED <<gcVars, stack, scopes, fault>>

----------------------------------------------------------------------------
(* Instructions.                                                           *)

AtRest == todo = <<>> /\ ~fault

(* Compiled code uses only what its own function has pushed. *)
Base == IF call_stack = <<>> THEN 0 ELSE call_stack[Len(call_stack)].stack_base
OnStack(n) == Len(stack) >= Base + n

Execute(op, calls, rs) ==
  /\ AtRest /\ op \in Ops
  /\ todo' = calls \o <<Peek>> /\ regs' = rs
  /\ UNCHANGED <<gcVars, stack, scopes, fault>>

Init ==
  /\ heap = [a \in {} |-> <<>>] /\ objs = {}
  /\ bytes = 0 /\ threshold = MinThreshold
  /\ stack = <<>> /\ globals = [x \in {} |-> Null] /\ locals = <<>> /\ call_stack = <<>>
  /\ todo = <<>> /\ regs = NoRegs /\ fault = FALSE

Room == Len(stack) < MaxStack

(* A constant that has no memory of its own. *)
PUSH_NUM == Room /\ Execute("PUSH_NUM", <<Push("r")>>, [NoRegs EXCEPT !["r"] = Num])

(* OP_PUSH_STR, and OP_PUSH_IDENT for the name of a function. *)
PUSH_STR == Room /\ Execute("PUSH_STR", <<New("r", "string"), Push("r")>>, NoRegs)

(* Mutant: a string is loaded without a copy. *)
LOAD_VAR_shares(x) ==
  /\ Room /\ x \in DOMAIN globals /\ locals = <<>>
  /\ Execute("LOAD_VAR", <<Push("a")>>, [NoRegs EXCEPT !["a"] = globals[x]])

(* vm_get_variable looks into locals first. *)
LOAD_VAR(x) ==
  LET here == IF locals # <<>> /\ x \in DOMAIN locals[1] THEN locals[1] ELSE globals IN
    /\ Room /\ x \in DOMAIN here
    /\ Execute("LOAD_VAR",
               IF here[x].is = "list" THEN <<Push("a")>> ELSE <<Copy("r", "a"), Push("r")>>,
               [NoRegs EXCEPT !["a"] = here[x]])

STORE_VAR(x) ==
  OnStack(1) /\ Execute("STORE_VAR", <<Pop("a"), SetVar(x, "a"), Free("a")>>, NoRegs)

(* A variable that is set to a list only keeps a reference to it. *)
STORE_LIST(x) ==
  /\ OnStack(1) /\ Top(1).is = "list"
  /\ Execute("STORE_LIST", <<Pop("a"), SetVar(x, "a"), Free("a")>>, NoRegs)

(* Mutant: the operands are freed before the new string is made. *)
ADD_frees_first ==
  /\ OnStack(2) /\ Top(1).is = "string" /\ Top(2).is = "string"
  /\ Execute("ADD", <<Pop("b"), Pop("a"), Read("a"), Free("a"), Read("b"), Free("b"),
                      New("r", "string"), Read("a"), Push("r")>>, NoRegs)

ADD ==
  /\ OnStack(2) /\ Top(1).is = "string" /\ Top(2).is = "string"
  /\ Execute("ADD", <<Pop("b"), Pop("a"), Read("a"), Read("b"), New("r", "string"),
                      Push("r"), Free("a"), Free("b")>>, NoRegs)

LOGIC_NOT ==
  /\ OnStack(1) /\ Top(1).is \in Negated
  /\ Execute("LOGIC_NOT", <<Pop("a"), Push("r"), FreeRaw("a")>>, [NoRegs EXCEPT !["r"] = Num])

LIST_NEW == Room /\ Execute("LIST_NEW", <<New("r", "list"), Push("r")>>, NoRegs)

LIST_PUSH ==
  /\ OnStack(2) /\ Top(2).is = "list" /\ Len(ItemsOf(Top(2))) < MaxItems
  /\ Execute("LIST_PUSH", <<Pop("b"), Pop("a"), PushItem("a", "b"), Push("a")>>, NoRegs)

(* The item of the list on top of the stack that an instruction names; its *)
(* index, a number, stays off the stack here.                              *)
HasItem(k) == OnStack(1) /\ Top(1).is = "list" /\ k \in DOMAIN ItemsOf(Top(1))
Item(k)    == ItemsOf(Top(1))[k]

(* Bound on copies: a list that is copied holds no lists. *)
Shallow(v) == v.is = "list" => \A w \in Range(ItemsOf(v)) : w.is # "list"

(* Both cases of the switch run for a list in a list. *)
LIST_ACCESS(k) ==
  /\ HasItem(k) /\ Shallow(Item(k))
  /\ Execute("LIST_ACCESS",
             <<Pop("a"), GetItem("a", "a", k)>>
               \o (IF Item(k).is = "list" THEN <<Push("a")>> ELSE <<>>)
               \o <<Copy("r", "a"), Push("r")>>, NoRegs)

LIST_STORE(k) ==
  /\ OnStack(2) /\ HasItem(k)
  /\ Execute("LIST_STORE", <<Pop("a"), Pop("b"), GetItem("a", "r", k), Free("r"),
                             SetItem("a", "b", k)>>, NoRegs)

(* Members are read as a copy, and stored as a copy of the value. *)
MEMBER_ACCESS(k) ==
  /\ HasItem(k) /\ Shallow(Item(k))
  /\ Execute("MEMBER_ACCESS",
             <<Pop("a"), GetItem("a", "a", k), Copy("r", "a"), Push("r")>>, NoRegs)

MEMBER_STORE(k) ==
  /\ OnStack(2) /\ HasItem(k) /\ Top(2).is # "list"
  /\ Execute("MEMBER_STORE",
             <<Pop("a"), Pop("b"), GetItem("a", "r", k), Free("r"),
               Copy("r", "b"), SetItem("a", "r", k), Free("b")>>, NoRegs)

Callable == OnStack(2) /\ Top(2).is = "string"

(* An argument of OP_CALL: a list itself, anything else as a copy. *)
PopArgument ==
  IF Top(1).is = "list" THEN <<Pop("r")>> ELSE <<Pop("a"), Copy("r", "a"), Free("a")>>

(* OP_CALL with one argument; the result of a native is null or a string.  *)
CALL_NATIVE(is) ==
  /\ Callable
  /\ Execute("CALL_NATIVE",
             PopArgument \o <<Pop("name"), Read("name"), Read("r")>>
               \o (IF is = "string" THEN <<New("b", "string")>> ELSE <<>>)
               \o <<Push("b"), Free("r"), Free("name")>>, NoRegs)

CALL ==
  /\ Callable /\ Len(call_stack) < MaxFrames
  /\ Execute("CALL",
             PopArgument \o <<Pop("name"), Read("name"), Enter, Push("r"), Free("name")>>,
             NoRegs)

RETURN ==
  /\ OnStack(1) /\ call_stack # <<>>
  /\ Execute("RETURN", <<Pop("a"), Leave, Push("a")>>, NoRegs)

Instruction ==
  \/ PUSH_NUM \/ PUSH_STR \/ ADD \/ LOGIC_NOT \/ LIST_NEW \/ LIST_PUSH
  \/ CALL_NATIVE("null") \/ CALL_NATIVE("string") \/ CALL \/ RETURN
  \/ \E x \in Vars \ {LastVar} : (LOAD_VAR(x) \/ STORE_VAR(x) \/ STORE_LIST(x))
  \/ \E k \in 1 .. MaxItems : \/ LIST_ACCESS(k) \/ LIST_STORE(k)
                              \/ MEMBER_ACCESS(k) \/ MEMBER_STORE(k)

Next ==
  \/ Instruction
  \/ DoPop \/ DoPush \/ DoNew \/ DoCopy \/ DoRead \/ DoFree \/ DoFreeRaw
  \/ DoSet \/ DoAdd \/ DoFreeVar \/ DoFillVar \/ DoPushItem \/ DoGetItem \/ DoSetItem
  \/ DoEnter \/ DoLeave \/ DoPeek

Spec == Init /\ [][Next]_vars

----------------------------------------------------------------------------
(* Properties, of the states between two instructions.                     *)

(* Every variable has its type; vm->locals is null exactly at top level. *)
TypeOK ==
  /\ DOMAIN heap \subseteq Addr /\ \A a \in DOMAIN heap : heap[a] \in Seq(Value)
  /\ objs \subseteq {v \in Value : InHeap(v) /\ v.at \in Addr}
  /\ bytes \in 0 .. MaxBytes /\ threshold \in Nat
  /\ stack \in Seq(Value)
  /\ globals \in [DOMAIN globals -> Value] /\ DOMAIN globals \subseteq Vars
  /\ Len(locals) <= 1 /\ Len(call_stack) <= MaxFrames
  /\ locals = <<>> <=> call_stack = <<>>
  /\ regs \in [Registers -> Value] /\ fault \in BOOLEAN

(* What the program can still reach, through the frames of callers too. *)
InUse == ReachedFrom(Roots \cup UNION {Tables(call_stack[k].locals) : k \in DOMAIN call_stack},
                     Value)

(* Nothing that the program can still reach has been freed: every value in *)
(* use refers to memory that is allocated and that gc_objects tracks.      *)
NoDangling ==
  AtRest => \A v \in InUse : InHeap(v) => v \in objs /\ Live(v)

(* No handler uses memory after it was freed, and none frees it twice.     *)
NoFault == ~fault

(* Strings are never shared: because copies are made and originals freed   *)
(* by hand all over the handlers, a string that two variables, items or    *)
(* stack entries refer to would be freed under one of them.                *)
StringsOwnedOnce ==
  AtRest => \A a \in DOMAIN heap :
    LET s == [is |-> "string", at |-> a]
        In(f) == Cardinality({k \in DOMAIN f : f[k] = s})
        InTable(ts) == IF ts = <<>> THEN 0 ELSE In(ts[1])
    IN  In(stack) + In(globals) + InTable(locals)
          + Cardinality({k \in DOMAIN call_stack : InTable(call_stack[k].locals) > 0})
          + Cardinality({p \in (DOMAIN heap) \X (1 .. MaxItems) :
                           p[2] \in DOMAIN heap[p[1]] /\ heap[p[1]][p[2]] = s}) <= 1

(* gc_bytes_allocated, from which the next collection is timed, is never   *)
(* less than what is allocated, although handlers free strings without     *)
(* counting them and the sweep counts by its own sizes.                    *)
BytesCoverObjects ==
  bytes >= Cardinality(objs)

(* Objects leave gc_objects exactly when their memory is freed.            *)
TrackedIsAllocated ==
  {v.at : v \in objs} = DOMAIN heap
=============================================================================
