----------------------------- MODULE Evaluation -----------------------------
(***************************************************************************)
(* What the instructions of an expression do (vm/vm.c 2161-3161): the      *)
(* operand stack, the two tables of variables, lists, instances and the    *)
(* built-ins on them, one action per instruction, on the code that         *)
(* Expressions generates, beside what module Meaning says the text means.  *)
(*                                                                         *)
(* Memory is never freed here (GcHeap has the collector), chunks and       *)
(* source positions are VMControl's.                                       *)
(***************************************************************************)
EXTENDS Expressions, Lists, Values, Meaning

CONSTANT Programs      \* sequences of statements

VARIABLES
  program, gen,        \* the text and what was generated for it
  unit, pc,            \* the chunk that runs, and the next instruction of it
  stack, globals,
  locals,              \* of the function that runs; empty at top level
  frames,              \* of the calls: chunk, return address, stack base, locals
  objects,             \* the lists and instances, by address
  structs,             \* the members of each structure
  output,
  error,               \* the kind of the last error, or NoError
  fault                \* memory was touched that is not there

vars == <<program, gen, unit, pc, stack, globals, locals, frames, objects, structs,
          output, error, fault>>

Names(f) == DOMAIN f
Bind(f, x, v) == (x :> v) @@ f

----------------------------------------------------------------------------
(* Values in memory. *)

IsList(v)     == Type(v) = "LIST"
IsInstance(v) == Type(v) = "INSTANCE"
ObjectOf(os, v) == os[As(v)]
ListOfValue(os, v) == ObjectOf(os, v).list

ListObject(l)     == [is |-> "list", list |-> l]
InstanceObject(s, ms) == [is |-> "instance", struct |-> s, members |-> ms]

Allocated(os, o) == Append(os, o)
Reference(type, os) == <<type, Len(os)>>       \* to the object made last

RECURSIVE copy_value(_, _)
RECURSIVE CopyEach(_, _, _)

(* The memory after copying the values vs one by one, and the copies. *)
CopyEach(os, vs, copies) ==
  IF vs = <<>> THEN [objects |-> os, values |-> copies]
  ELSE LET c == copy_value(os, Head(vs)) IN CopyEach(c.objects, Tail(vs), Append(copies, c.value))

copy_value(os, v) ==
  CASE IsList(v) ->
         LET l    == ListOfValue(os, v)
             made == CopyEach(os, Contents(l), <<>>)
             new  == Allocated(made.objects, ListObject(copied_list(l, made.values)))
         IN  [objects |-> new, value |-> Reference("LIST", new)]
    [] IsInstance(v) ->
         LET o    == ObjectOf(os, v)
             made == CopyEach(os, o.members, <<>>)
             new  == Allocated(made.objects, InstanceObject(o.struct, made.values))
         IN  [objects |-> new, value |-> Reference("INSTANCE", new)]
    [] OTHER -> [objects |-> os, value |-> v]

ListContents == [a \in DOMAIN objects |-> IF objects[a].is = "list" THEN Contents(objects[a].list) ELSE <<>>]

----------------------------------------------------------------------------
(* Instructions.                                                           *)

Running == error = NoError /\ ~fault /\ pc < Len(gen.code[unit])

Instr == gen.code[unit][pc + 1]

At(ops) == Running /\ Instr.op \in ops

Inside == frames # <<>>         \* vm->locals is not null

(* vm_peek, and the stack without its n values on top. *)
Top(k)  == stack[Len(stack) - k]
Less(n) == SubSeq(stack, 1, Len(stack) - n)

(* vm_execute, after an instruction: "_" is the value on top, unless that  *)
(* is null.                                                                *)
Remembered_once(gs, st) == IF st = <<>> \/ "_" \in Names(gs) THEN gs ELSE Bind(gs, "_", Last(st))

Remembered(gs, st) == IF st = <<>> \/ Last(st) = Null THEN gs ELSE Bind(gs, "_", Last(st))

Pushed(st) == stack' = st /\ globals' = Remembered(globals, st)

Advance == pc' = pc + 1 /\ UNCHANGED <<program, gen, unit, frames>>

Fail(kind, n) ==
  /\ error' = kind /\ stack' = Less(n) /\ Advance
  /\ UNCHANGED <<globals, locals, objects, structs, output, fault>>

(* An instruction that only replaces its n operands by v. *)
Replace(n, v) ==
  /\ Pushed(Append(Less(n), v)) /\ Advance
  /\ UNCHANGED <<locals, objects, structs, output, error, fault>>

Constant ==
  CASE Instr.op = "PUSH_NUM" -> NumberValue(Instr.arg)
    [] Instr.op = "PUSH_NULL" -> Null
    [] OTHER -> StringValue(Instr.arg)

Push == At({"PUSH_NUM", "PUSH_STR", "PUSH_IDENT", "PUSH_NULL"}) /\ Replace(0, Constant)

Skip ==
  /\ At({"NOP", "BLOCK_START", "BLOCK_END", "HALT"})
  /\ Pushed(stack) /\ Advance
  /\ UNCHANGED <<locals, objects, structs, output, error, fault>>

Numeric(op, a, b) ==
  CASE op = "ADD" -> NumberValue(a + b)  [] op = "SUB" -> NumberValue(a - b)
    [] op = "MUL" -> NumberValue(a * b)  [] op = "DIV" -> NumberValue(a \div b)
    [] op = "MOD" -> NumberValue(fmod(a, b))  [] op = "POW" -> NumberValue(a ^ b)
    [] op = "BIT_AND" -> NumberValue(a & b)  [] op = "BIT_OR" -> NumberValue(a | b)
    [] op = "BIT_XOR" -> NumberValue(a ^^ b)
    [] op = "BIT_LSHIFT" -> NumberValue(a * 2 ^ b)  [] op = "BIT_RSHIFT" -> NumberValue(a \div 2 ^ b)
    [] op = "LT" -> BoolValue(a < b)  [] op = "GT" -> BoolValue(a > b)
    [] op = "LEQ" -> BoolValue(a <= b)  [] op = "GEQ" -> BoolValue(a >= b)

NumericOps == {"SUB", "MUL", "DIV", "MOD", "POW", "BIT_AND", "BIT_OR", "BIT_XOR", "BIT_LSHIFT",
               "BIT_RSHIFT", "LT", "GT", "LEQ", "GEQ"}

Operate(a, b) ==
  IF ~IsNumber(a) \/ ~IsNumber(b) THEN Fail("type", 2)
  ELSE IF Instr.op \in {"DIV", "MOD"} /\ As(b) = 0 THEN Fail("zero", 2)
  ELSE Replace(2, Numeric(Instr.op, As(a), As(b)))

Arithmetic == At(NumericOps) /\ Operate(Top(1), Top(0))

Concatenates == Type(Top(0)) = "STRING" /\ Type(Top(1)) = "STRING"

Add ==
  /\ At({"ADD"})
  /\ IF Concatenates THEN Replace(2, StringValue(As(Top(1)) \o As(Top(0)))) ELSE Operate(Top(1), Top(0))

Complement ==
  /\ At({"BIT_NOT"})
  /\ IF IsNumber(Top(0)) THEN Replace(1, NumberValue(-As(Top(0)) - 1)) ELSE Fail("type", 1)

Decision(a, b) ==
  CASE Instr.op = "LOGIC_AND" -> is_truthy(a) /\ is_truthy(b)
    [] Instr.op = "LOGIC_OR"  -> is_truthy(a) \/ is_truthy(b)
    [] Instr.op = "EQ"        -> values_equal(a, b)
    [] Instr.op = "NEQ"       -> ~values_equal(a, b)

Decide == At({"LOGIC_AND", "LOGIC_OR", "EQ", "NEQ"}) /\ Replace(2, BoolValue(Decision(Top(1), Top(0))))
Negate == At({"LOGIC_NOT"}) /\ Replace(1, BoolValue(~is_truthy(Top(0))))

----------------------------------------------------------------------------
(* Variables.  A string that is stored or loaded is copied; so is no list  *)
(* and no instance.                                                        *)

find_variable(x) == x \in Names(locals) \cup Names(globals)

vm_get_variable(x) == IF x \in Names(locals) THEN locals[x] ELSE globals[x]

LoadVar ==
  /\ At({"LOAD_VAR"})
  /\ IF find_variable(Instr.arg) THEN Replace(0, vm_get_variable(Instr.arg)) ELSE Fail("no variable", 0)

(* A function without a local of the name changes the global one. *)
vm_set_variable_outer(x, v) ==
  IF Inside /\ (x \in Names(locals) \/ x \notin Names(globals))
  THEN [locals |-> Bind(locals, x, v), globals |-> globals]
  ELSE [locals |-> locals, globals |-> Bind(globals, x, v)]

(* A local that is there already takes the global of its name with it. *)
vm_set_variable(x, v) ==
  [locals  |-> IF Inside THEN Bind(locals, x, v) ELSE locals,
   globals |-> IF ~Inside \/ (x \in Names(locals) /\ x \in Names(globals)) THEN Bind(globals, x, v) ELSE globals]

StoreVar ==
  /\ At({"STORE_VAR"})
  /\ LET set == vm_set_variable(Instr.arg, Top(0))
     IN  locals' = set.locals /\ globals' = Remembered(set.globals, Less(1))
  /\ stack' = Less(1) /\ Advance
  /\ UNCHANGED <<objects, structs, output, error, fault>>

StoreGlobal ==
  /\ At({"STORE_GLOBAL"})
  /\ globals' = Remembered(Bind(globals, Instr.arg, Top(0)), Less(1))
  /\ stack' = Less(1) /\ Advance
  /\ UNCHANGED <<locals, objects, structs, output, error, fault>>

----------------------------------------------------------------------------
(* Lists.                                                                  *)

(* The instruction goes on with the objects os and the stack st. *)
Touch(os, st) ==
  /\ objects' = os /\ Pushed(st) /\ Advance
  /\ UNCHANGED <<locals, structs, output, error, fault>>

Break == fault' = TRUE /\ Advance /\ UNCHANGED <<stack, globals, locals, objects, structs, output, error>>

ListNew ==
  /\ At({"LIST_NEW"})
  /\ LET os == Allocated(objects, ListObject(create_list(Instr.arg)))
     IN  Touch(os, Append(stack, Reference("LIST", os)))

Relisted(v, l) == [objects EXCEPT ![As(v)].list = l]

ListPush ==
  /\ At({"LIST_PUSH"})
  /\ LET l == ListOfValue(objects, Top(1))
     IN  IF Holds(PushRoom(l), l.count + 1) THEN Touch(Relisted(Top(1), list_push(l, Top(0))), Less(1)) ELSE Break

(* An item that is a list or an instance is pushed, and then its copy. *)
ListAccess ==
  /\ At({"LIST_ACCESS"})
  /\ IF ~IsList(Top(1)) \/ ~IsNumber(Top(0)) THEN Fail("type", 2)
     ELSE LET l    == ListOfValue(objects, Top(1))
              k    == Index(l, As(Top(0)))
              item == l.items[k + 1]
              copy == copy_value(objects, item)
          IN  IF k < 0 \/ k >= l.count THEN Fail("index", 2)
              ELSE IF IsList(item) \/ IsInstance(item) THEN Touch(copy.objects, Less(2) \o <<item, copy.value>>)
              ELSE Touch(copy.objects, Append(Less(2), copy.value))

(* The index is converted to an unsigned number: a negative one is refused *)
(* as not whole.  Nothing checks that there is a list.                     *)
ListStore ==
  /\ At({"LIST_STORE"})
  /\ IF ~IsNumber(Top(0)) \/ As(Top(0)) < 0 THEN Fail("type", 3)
     ELSE IF ~IsList(Top(1)) THEN Break
     ELSE LET l == ListOfValue(objects, Top(1))
              k == As(Top(0))
          IN  IF k >= l.count THEN Fail("index", 3)
              ELSE IF ~Holds(l, k + 1) THEN Break
              ELSE Touch(Relisted(Top(1), store_list(l, k, Top(2))), Less(3))

----------------------------------------------------------------------------
(* Structures.                                                             *)

(* The names of the members are on the stack, the first one on top. *)
StructDef ==
  /\ At({"STRUCT_DEF"})
  /\ LET n  == As(Top(0))
         st == Less(1 + n)
     IN  /\ structs' = Bind(structs, Instr.arg, [k \in 1 .. n |-> As(Top(k))])
         /\ stack' = st
         /\ globals' = Remembered(IF Instr.arg \in Names(structs) THEN globals
                                  ELSE Bind(globals, Instr.arg, StructValue(Instr.arg)), st)
  /\ Advance
  /\ UNCHANGED <<locals, objects, output, error, fault>>

StructNew ==
  /\ At({"STRUCT_NEW"})
  /\ IF Instr.arg \notin Names(structs) THEN Fail("no function", 0)
     ELSE LET os == Allocated(objects, InstanceObject(Instr.arg, [k \in DOMAIN structs[Instr.arg] |-> Null]))
          IN  Touch(os, Append(stack, Reference("INSTANCE", os)))

MemberPlace(v) == SelectInSeq(structs[ObjectOf(objects, v).struct], LAMBDA m : m = Instr.arg)

MemberAccess ==
  /\ At({"MEMBER_ACCESS"})
  /\ IF ~IsInstance(Top(0)) THEN Fail("no struct", 1)
     ELSE IF MemberPlace(Top(0)) = 0 THEN Fail("member", 1)
     ELSE LET copy == copy_value(objects, ObjectOf(objects, Top(0)).members[MemberPlace(Top(0))])
          IN  Touch(copy.objects, Append(Less(1), copy.value))

MemberStore ==
  /\ At({"MEMBER_STORE"})
  /\ IF ~IsInstance(Top(0)) THEN Fail("no struct", 2)
     ELSE IF MemberPlace(Top(0)) = 0 THEN Fail("member", 2)
     ELSE LET copy == copy_value(objects, Top(1))
          IN  Touch([copy.objects EXCEPT ![As(Top(0))].members[MemberPlace(Top(0))] = copy.value], Less(2))

----------------------------------------------------------------------------
(* Calls.  The arguments are on top, below them the name of the function.  *)

Count == Instr.arg
Args  == SubSeq(stack, Len(stack) - Count + 1, Len(stack))
Callee == Top(Count)
Rest   == Less(Count + 1)

IsCall(type) ==
  /\ At({"CALL"}) /\ Type(Callee) = "STRING" /\ find_variable(As(Callee))
  /\ Type(vm_get_variable(As(Callee))) = type

(* PUSH_IDENT has put a name there; what is none, because an operand left  *)
(* more than one value, is called without effect and without result.       *)
CallUndefined ==
  /\ At({"CALL"})
  /\ IF Type(Callee) # "STRING" THEN Touch(objects, Rest)
     ELSE IF ~find_variable(As(Callee)) THEN Fail("no function", Count + 1)
     ELSE /\ Type(vm_get_variable(As(Callee))) \notin {"NATIVE", "FUNCTION"}
          /\ Fail("type", Count + 1)

Native == As(vm_get_variable(As(Callee)))

Display ==
  /\ IsCall("NATIVE") /\ Native = "print"
  /\ output' = output \o [k \in DOMAIN Args |-> ToShow(ListContents, Args[k])]
  /\ Pushed(Append(Rest, Null)) /\ Advance
  /\ UNCHANGED <<locals, objects, structs, error, fault>>

builtin_len(v) == IF IsList(v) THEN ListOfValue(objects, v).count ELSE Len(As(v))

Query ==
  /\ IsCall("NATIVE") /\ Native \in {"len", "type"}
  /\ IF Count # 1 THEN Fail("arguments", Count + 1)
     ELSE IF Native = "type" THEN Replace(Count + 1, StringValue(Type(Args[1])))
     ELSE IF IsList(Args[1]) \/ Type(Args[1]) = "STRING" THEN Replace(Count + 1, NumberValue(builtin_len(Args[1])))
     ELSE Fail("type", Count + 1)

Dupe ==
  /\ IsCall("NATIVE") /\ Native = "dupe"
  /\ IF Count # 1 THEN Fail("arguments", Count + 1)
     ELSE LET copy == copy_value(objects, Args[1]) IN Touch(copy.objects, Append(Rest, copy.value))

(* A built-in that changes the list of its first argument to l. *)
Changes(l) == Touch(Relisted(Args[1], l), Append(Rest, Null))

builtin_append_list(l) == IF Holds(AppendRoom(l), l.count + 1) THEN Changes(append_list(l, Args[2])) ELSE Break

builtin_insert_list(l) ==
  IF ~IsNumber(Args[2]) THEN Fail("type", Count + 1)
  ELSE LET k == Index(l, As(Args[2]))
       IN  IF k < 0 \/ k >= l.count THEN Fail("index", Count + 1) ELSE Changes(insert_list(l, k, Args[3]))

Alter ==
  /\ IsCall("NATIVE") /\ Native \in {"append_list", "insert_list", "pop_list"}
  /\ IF Count # Arity(Native) THEN Fail("arguments", Count + 1)
     ELSE IF ~IsList(Args[1]) THEN Fail("type", Count + 1)
     ELSE LET l == ListOfValue(objects, Args[1])
          IN  CASE Native = "append_list" -> builtin_append_list(l)
                [] Native = "insert_list" -> builtin_insert_list(l)
                [] Native = "pop_list"    -> Changes(pop_list(l))

Frame == [unit |-> unit, return_addr |-> pc + 1, stack_base |-> Len(Rest), locals |-> locals]

CallFunction ==
  /\ IsCall("FUNCTION")
  /\ LET f == As(vm_get_variable(As(Callee)))
     IN  IF gen.params[f] # Count THEN Fail("arguments", Count + 1)
         ELSE /\ frames' = Append(frames, Frame)
              /\ unit' = f /\ pc' = 0
              /\ locals' = [x \in {} |-> Null]
              /\ Pushed(Rest \o Args)
              /\ UNCHANGED <<program, gen, objects, structs, output, error, fault>>

(* The value returned is pushed on what the function left. *)
Returned_on_top(f) == stack

Returned(f) == Append(SubSeq(stack, 1, f.stack_base), Top(0))

ReturnFrom ==
  /\ At({"RETURN"}) /\ Inside
  /\ LET f == Last(frames)
     IN  /\ unit' = f.unit /\ pc' = f.return_addr /\ locals' = f.locals
         /\ Pushed(Returned(f))
  /\ frames' = Front(frames)
  /\ UNCHANGED <<program, gen, objects, structs, output, error, fault>>

----------------------------------------------------------------------------
Init ==
  /\ program \in Programs /\ gen = generate_bytecode(program)
  /\ unit = Main /\ pc = 0
  /\ stack = <<>> /\ globals = Initially(FunctionNames(program)) /\ locals = [x \in {} |-> Null]
  /\ frames = <<>> /\ objects = <<>> /\ structs = [s \in {} |-> <<>>]
  /\ output = <<>> /\ error = NoError /\ fault = FALSE

Next ==
  \/ Push \/ Skip \/ Arithmetic \/ Add \/ Complement \/ Decide \/ Negate
  \/ LoadVar \/ StoreVar \/ StoreGlobal
  \/ ListNew \/ ListPush \/ ListAccess \/ ListStore
  \/ StructDef \/ StructNew \/ MemberAccess \/ MemberStore
  \/ CallUndefined \/ Display \/ Query \/ Dupe \/ Alter \/ CallFunction \/ ReturnFrom

Spec == Init /\ [][Next]_vars

----------------------------------------------------------------------------
(* What is checked.                                                        *)

(* Between two statements of the file. *)
AtBoundary == unit = Main /\ error = NoError /\ pc \in RangeOf(<<0>> \o gen.ends)

(* The statements that are behind, the ones without code after them too. *)
Passed == Cardinality({k \in DOMAIN program : gen.ends[k] <= pc})

(* Variables of the program by what they show. *)
Shows(contents, gs) == [x \in DOMAIN gs \ {"_"} |-> ToShow(contents, gs[x])]

(* The code does what the text says: after every statement the variables   *)
(* and the output are those that Meaning finds, and the run ends in an     *)
(* error exactly when, and in the one, that Meaning ends in.               *)
MeansWhatItSays ==
  /\ AtBoundary => LET m == Prefix(program, Passed)
                   IN  /\ m.error = NoError /\ output = m.output
                       /\ Shows(ListContents, globals) =
                            Shows(Contained(m), m.globals @@ [s \in DOMAIN m.structs |-> StructValue(s)])
  /\ error # NoError => LET m == Prefix(program, Len(program)) IN m.error = error /\ m.output = output

(* A statement leaves nothing on the stack that every function and every   *)
(* line of a session shares, but for an expression, which leaves its value.*)
LeavesOnlyResults ==
  AtBoundary => Len(stack) = Cardinality({k \in 1 .. Passed : IsExpression(program[k])})

(* How many operands an instruction takes. *)
Needs ==
  CASE Instr.op \in NumericOps \cup {"ADD", "LOGIC_AND", "LOGIC_OR", "EQ", "NEQ", "LIST_PUSH", "LIST_ACCESS",
                                   "MEMBER_STORE"} -> 2
    [] Instr.op \in {"BIT_NOT", "LOGIC_NOT", "STORE_VAR", "STORE_GLOBAL", "MEMBER_ACCESS", "RETURN"} -> 1
    [] Instr.op = "LIST_STORE" -> 3
    [] Instr.op = "CALL" -> Count + 1
    [] Instr.op = "STRUCT_DEF" -> 1 + As(Top(0))
    [] OTHER -> 0

(* What is on the stack for the statement or the call that runs. *)
Base == IF Inside THEN Last(frames).stack_base
        ELSE Cardinality({k \in 1 .. Passed : IsExpression(program[k])})

(* An instruction finds its operands above what belongs to the callers and *)
(* to the statements before: "expected expression after '='" says          *)
(* parse_assignment of a text that does not provide one.                   *)
OperandsBelong == Running => Len(stack) - Base >= Needs

(* "_" is the value of the last expression statement, if it has one. *)
LastResult ==
  LET m == Prefix(program, Passed)
  IN  AtBoundary /\ Passed > 0 /\ IsExpression(program[Passed]) /\ m.value # Null
        => ToShow(ListContents, globals["_"]) = ToShow(Contained(m), m.value)

(* No operation reads or writes outside the memory of a list, and every    *)
(* list has the memory its capacity promises.                              *)
ListsWithinMemory ==
  /\ ~fault
  /\ \A a \in DOMAIN objects : objects[a].is = "list" => WithinMemory(objects[a].list)
=============================================================================
