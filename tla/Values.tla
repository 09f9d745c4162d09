------------------------------- MODULE Values -------------------------------
(***************************************************************************)
(* The values of vm/vm.h (56-104) and the operations on them that do not   *)
(* touch memory.  A value is a pair of its type and what it holds: a whole *)
(* number, a string, a truth value, a name, or the address of a list or an *)
(* instance.  The operands the programs have divide without a rest.        *)
(***************************************************************************)
EXTENDS Integers, Sequences, TLC, Bitwise

Type(v) == v[1]
As(v)   == v[2]

Null           == <<"NULL", 0>>
NumberValue(n) == <<"NUMBER", n>>
StringValue(s) == <<"STRING", s>>
BoolValue(b)   == <<"BOOL", b>>
FunctionValue(f) == <<"FUNCTION", f>>
NativeValue(f) == <<"NATIVE", f>>
StructValue(s) == <<"STRUCT", s>>

IsNumber(v) == Type(v) = "NUMBER"

is_truthy(v) ==
  CASE Type(v) = "NULL"   -> FALSE
    [] Type(v) = "BOOL"   -> As(v)
    [] Type(v) = "NUMBER" -> As(v) # 0
    [] OTHER              -> TRUE

(* Lists, instances and functions are equal to nothing, not to themselves. *)
values_equal(a, b) ==
  /\ Type(a) = Type(b)
  /\ \/ Type(a) = "NULL"
     \/ Type(a) \in {"BOOL", "NUMBER", "STRING"} /\ As(a) = As(b)

(* fmod takes the sign of the number that is divided. *)
fmod(a, b) == LET abs(n) == IF n < 0 THEN -n ELSE n
                  m      == abs(a) % abs(b)
              IN  IF a < 0 THEN -m ELSE m

(* What toString shows of a value, when contents(a) are the items of the   *)
(* list at a: a list inside itself is cut short, as toString_internal does *)
(* with the addresses on its way.                                          *)
RECURSIVE Shown(_, _, _)
Shown(contents, v, path) ==
  CASE Type(v) = "LIST" /\ As(v) \in path -> <<"AGAIN", 0>>
    [] Type(v) = "LIST" /\ As(v) \notin path ->
         <<"LIST", [k \in DOMAIN contents[As(v)] |-> Shown(contents, contents[As(v)][k], path \cup {As(v)})]>>
    [] Type(v) = "INSTANCE" -> <<"INSTANCE", 0>>
    [] OTHER -> v

ToShow(contents, v) == Shown(contents, v, {})

(* The names every program starts with. *)
Natives == {"print", "len", "dupe", "append_list", "insert_list", "pop_list", "type"}

Initially(functions) ==
  [f \in Natives |-> NativeValue(f)] @@ [f \in functions |-> FunctionValue(f)]
    @@ ("true" :> BoolValue(TRUE)) @@ ("false" :> BoolValue(FALSE)) @@ ("null" :> Null)

NoError == "none"
=============================================================================
