------------------------------ MODULE Meaning ------------------------------
(***************************************************************************)
(* What a program without control flow means, read from its text alone: no *)
(* stack, no code, no memory layout.  A list is a sequence that several    *)
(* names may share, an instance gives a value to each of its members, and  *)
(* the rules of scope are those README.md shows and the variable functions *)
(* of vm/vm.c (1621-1713) are written for: inside a function a name that   *)
(* was not declared global is local.                                       *)
(*                                                                         *)
(* A meaning is the state reached: variables, objects, output, the first   *)
(* error, and the value of the last expression.                            *)
(***************************************************************************)
EXTENDS Scripts, Values, SequencesExt

(* Names declared global in the statements ss, or in a function of them. *)
DeclaredIn(ss) ==
  UNION {IF s.kind = "global" THEN RangeOf(s.names)
         ELSE UNION {RangeOf(t.names) : t \in {t \in RangeOf(s.parts) : s.kind = "function" /\ t.kind = "global"}}
         : s \in RangeOf(ss)}

FunctionAt(program, f) == CHOOSE k \in Functions(program) : program[k].name = f

FunctionNames(program) == {program[k].name : k \in Functions(program)}

Before(program) ==
  [globals |-> Initially(FunctionNames(program)), locals |-> [x \in {} |-> Null], inside |-> FALSE,
   objects |-> <<>>, structs |-> [s \in {} |-> <<>>], declared |-> {}, output |-> <<>>, error |-> NoError,
   value |-> Null, values |-> <<>>]

Object(m, v) == m.objects[As(v)]

Valued(m, v)  == [m EXCEPT !.value = v]
Failed(m, e)  == [m EXCEPT !.error = e]

New(m, type, o) == [m EXCEPT !.objects = Append(@, o), !.value = <<type, Len(m.objects) + 1>>]
NewList(m, vs)  == New(m, "LIST", [items |-> vs, fields |-> [x \in {} |-> Null]])

Contained(m) == [a \in DOMAIN m.objects |-> m.objects[a].items]

(* A value of its own: lists and instances are copied with what they hold. *)
RECURSIVE Own(_, _)
RECURSIVE OwnAll(_, _)
OwnAll(m, vs) ==
  IF vs = <<>> THEN [m EXCEPT !.values = <<>>]
  ELSE LET first == Own(m, Head(vs))
           rest  == OwnAll(first, Tail(vs))
       IN  [rest EXCEPT !.values = <<first.value>> \o @]

Own(m, v) ==
  CASE Type(v) = "LIST" -> LET all == OwnAll(m, Object(m, v).items) IN NewList(all, all.values)
    [] Type(v) = "INSTANCE" ->
         LET ms  == SetToSeq(DOMAIN Object(m, v).fields)
             all == OwnAll(m, [k \in DOMAIN ms |-> Object(m, v).fields[ms[k]]])
         IN  New(all, "INSTANCE", [items |-> <<>>, fields |-> [x \in RangeOf(ms) |->
                                     all.values[CHOOSE k \in DOMAIN ms : ms[k] = x]]])
    [] OTHER -> Valued(m, v)

Infix(o, a, b) ==
  CASE o = "+" -> a + b  [] o = "-" -> a - b  [] o = "*" -> a * b
    [] o = "/" -> a \div b  [] o = "%" -> fmod(a, b)  [] o = "**" -> a ^ b
    [] o = "&" -> a & b  [] o = "|" -> a | b  [] o = "^" -> a ^^ b
    [] o = "<<" -> a * 2 ^ b  [] o = ">>" -> a \div 2 ^ b

Relation(o, a, b) == CASE o = "<" -> a < b [] o = ">" -> a > b [] o = "<=" -> a <= b [] o = ">=" -> a >= b

(* The operator in x += e and x ++. *)
UpdateBy(o) == IF o = "++" THEN "+" ELSE IF o = "--" THEN "-" ELSE SubSeq(o, 1, Len(o) - 1)

(* Both operands of && and || are always computed. *)
Combined(m, o, a, b) ==
  CASE o = "&&" -> Valued(m, BoolValue(is_truthy(a) /\ is_truthy(b)))
    [] o = "||" -> Valued(m, BoolValue(is_truthy(a) \/ is_truthy(b)))
    [] o = "==" -> Valued(m, BoolValue(values_equal(a, b)))
    [] o = "!=" -> Valued(m, BoolValue(~values_equal(a, b)))
    [] o = "+" /\ Type(a) = "STRING" /\ Type(b) = "STRING" -> Valued(m, StringValue(As(a) \o As(b)))
    [] OTHER ->
         IF ~IsNumber(a) \/ ~IsNumber(b) THEN Failed(m, "type")
         ELSE IF o \in {"/", "%"} /\ As(b) = 0 THEN Failed(m, "zero")
         ELSE IF o \in {"<", ">", "<=", ">="} THEN Valued(m, BoolValue(Relation(o, As(a), As(b))))
         ELSE Valued(m, NumberValue(Infix(o, As(a), As(b))))

Negated(m, o, a) ==
  CASE o = "!" -> Valued(m, BoolValue(~is_truthy(a)))
    [] o = "+" -> Valued(m, a)
    [] OTHER   -> IF ~IsNumber(a) THEN Failed(m, "type")
                  ELSE Valued(m, NumberValue(IF o = "-" THEN -As(a) ELSE -As(a) - 1))

Place(m, l, k) == IF k < 0 THEN Len(Object(m, l).items) + k ELSE k
IsPlace(m, l, k) == Place(m, l, k) \in 0 .. Len(Object(m, l).items) - 1

ItemOf(m, l, k) ==
  CASE Type(l) # "LIST" \/ ~IsNumber(k) -> Failed(m, "type")
    [] OTHER -> IF ~IsPlace(m, l, As(k)) THEN Failed(m, "index")
                ELSE Valued(m, Object(m, l).items[Place(m, l, As(k)) + 1])

MemberOf(m, v, x) ==
  CASE Type(v) # "INSTANCE" -> Failed(m, "no struct")
    [] OTHER -> IF x \notin DOMAIN Object(m, v).fields THEN Failed(m, "member")
                ELSE Own(m, Object(m, v).fields[x])

Changed(m, l, items) == [m EXCEPT !.objects[As(l)].items = items, !.value = Null]

(* The built-ins, for the number of arguments they expect. *)
Arity(f) == CASE f = "append_list" -> 2 [] f = "insert_list" -> 3 [] OTHER -> 1

Built(m, f, as) ==
  CASE f = "print" -> Valued([m EXCEPT !.output = @ \o [k \in DOMAIN as |-> ToShow(Contained(m), as[k])]], Null)
    [] f # "print" /\ Len(as) # Arity(f) -> Failed(m, "arguments")
    [] f = "type" /\ Len(as) = 1 -> Valued(m, StringValue(Type(as[1])))
    [] f = "dupe" /\ Len(as) = 1 -> Own(m, as[1])
    [] f = "len"  /\ Len(as) = 1 ->
         CASE Type(as[1]) = "LIST"   -> Valued(m, NumberValue(Len(Object(m, as[1]).items)))
           [] Type(as[1]) = "STRING" -> Valued(m, NumberValue(Len(As(as[1]))))
           [] OTHER -> Failed(m, "type")
    [] f \in {"append_list", "insert_list", "pop_list"} /\ Len(as) = Arity(f) ->
         IF Type(as[1]) # "LIST" THEN Failed(m, "type")
         ELSE LET l == Object(m, as[1]).items
              IN  CASE f = "append_list" -> Changed(m, as[1], Append(l, as[2]))
                    [] f = "pop_list"    -> Changed(m, as[1], Front(l))
                    [] f = "insert_list" ->
                         IF ~IsNumber(as[2]) THEN Failed(m, "type")
                         ELSE IF ~IsPlace(m, as[1], As(as[2])) THEN Failed(m, "index")
                         ELSE Changed(m, as[1], InsertAt(l, Place(m, as[1], As(as[2])) + 1, as[3]))

----------------------------------------------------------------------------
(* Expressions and statements of a program.                                *)

Found(m, x) == x \in DOMAIN m.locals \cup DOMAIN m.globals
Lookup(m, x) == IF x \in DOMAIN m.locals THEN m.locals[x] ELSE m.globals[x]

Bound(m, x, v) ==
  IF m.inside /\ x \notin m.declared THEN [m EXCEPT !.locals = (x :> v) @@ @]
                                     ELSE [m EXCEPT !.globals = (x :> v) @@ @]

RECURSIVE Meant(_, _, _)
RECURSIVE AllMeant(_, _, _)

(* The nodes in turn, and their values. *)
AllMeant(program, ns, m) ==
  IF ns = <<>> \/ m.error # NoError THEN [m EXCEPT !.values = <<>>]
  ELSE LET first == Meant(program, Head(ns), m)
           rest  == AllMeant(program, Tail(ns), first)
       IN  [rest EXCEPT !.values = <<first.value>> \o @]

Returns(s) == s.kind = "return"

(* The statements up to the first return. *)
Reached(ss) == LET k == SelectInSeq(ss, Returns) IN IF k = 0 THEN ss ELSE SubSeq(ss, 1, k)

(* A function runs on variables of its own; a name is global in it when    *)
(* the text up to its end declares it so.                                  *)
Called(program, f, m) ==
  LET k    == FunctionAt(program, f)
      xs   == program[k].names
      body == Reached(program[k].parts)
      ran  == AllMeant(program, body,
                [m EXCEPT !.inside = TRUE, !.declared = DeclaredIn(SubSeq(program, 1, k)),
                          !.locals = [x \in RangeOf(xs) |-> m.values[CHOOSE i \in DOMAIN xs : xs[i] = x]]])
      value == IF body # <<>> /\ Returns(Last(body)) THEN ran.value ELSE Null
  IN  IF Len(xs) # Len(m.values) THEN Failed(m, "arguments")
      ELSE [ran EXCEPT !.locals = m.locals, !.inside = m.inside, !.declared = m.declared, !.value = value]

Applied(program, f, m) ==
  IF ~Found(m, f) THEN Failed(m, "no function")
  ELSE CASE Type(Lookup(m, f)) = "NATIVE"   -> Built(m, As(Lookup(m, f)), m.values)
         [] Type(Lookup(m, f)) = "FUNCTION" -> Called(program, As(Lookup(m, f)), m)
         [] OTHER -> Failed(m, "type")

(* The value of m put where the target says, whose parts have the values   *)
(* ps.  A member gets a value of its own.                                  *)
Placed(m, target, v, ps) ==
  CASE target.kind = "variable" -> Bound(m, target.name, v)
    [] target.kind = "item" ->
         IF ~IsNumber(ps[2]) THEN Failed(m, "type")
         ELSE IF ~IsPlace(m, ps[1], As(ps[2])) THEN Failed(m, "index")
         ELSE [m EXCEPT !.objects[As(ps[1])].items[Place(m, ps[1], As(ps[2])) + 1] = v]
    [] target.kind = "member" ->
         IF Type(ps[1]) # "INSTANCE" THEN Failed(m, "no struct")
         ELSE IF target.name \notin DOMAIN Object(m, ps[1]).fields THEN Failed(m, "member")
         ELSE LET own == Own(m, v)
              IN  [own EXCEPT !.objects[As(ps[1])].fields[target.name] = own.value]

Assigned(program, target, m) ==
  LET at == AllMeant(program, target.parts, m)
  IN  IF at.error # NoError THEN at ELSE Placed(at, target, m.value, at.values)

Meant(program, s, m) ==
  LET all == AllMeant(program, s.parts, m)
      ok  == all.error = NoError
      vs  == all.values
  IN  CASE s.kind = "number"   -> Valued(m, NumberValue(s.number))
        [] s.kind = "string"   -> Valued(m, StringValue(s.name))
        [] s.kind = "variable" -> IF Found(m, s.name) THEN Valued(m, Lookup(m, s.name)) ELSE Failed(m, "no variable")
        [] s.kind = "assign"   ->
             LET right == Meant(program, s.parts[2], m)
             IN  IF right.error # NoError THEN right ELSE Assigned(program, s.parts[1], right)
        [] s.kind = "global"   -> m
        [] s.kind = "function" -> m
        [] s.kind = "struct"   -> [m EXCEPT !.structs = (s.name :> s.names) @@ @]
        [] s.kind = "instance" ->
             IF s.names[1] \notin DOMAIN m.structs THEN Failed(m, "no function")
             ELSE LET made == New(m, "INSTANCE",
                                  [items |-> <<>>, fields |-> [x \in RangeOf(m.structs[s.names[1]]) |-> Null]])
                  IN  Bound(made, s.name, made.value)
        [] s.kind = "return" /\ s.parts = <<>> -> Valued(m, Null)
        [] OTHER ->
             IF ~ok THEN all
             ELSE CASE s.kind = "list"   -> NewList(all, vs)
                    [] s.kind = "binary" -> Combined(all, s.name, vs[1], vs[2])
                    [] s.kind = "unary"  -> Negated(all, s.name, vs[1])
                    [] s.kind = "item"   -> ItemOf(all, vs[1], vs[2])
                    [] s.kind = "member" -> MemberOf(all, vs[1], s.name)
                    [] s.kind = "call"   -> Applied(program, s.name, all)
                    [] s.kind = "return" -> Valued(all, vs[1])
                    [] s.kind = "update" ->
                         LET new == Combined(all, UpdateBy(s.name), vs[1],
                                             IF Len(vs) = 1 THEN NumberValue(1) ELSE vs[2])
                         IN  IF new.error # NoError THEN new ELSE Assigned(program, s.parts[1], new)

(* The meaning of the first n statements. *)
RECURSIVE Prefix(_, _)
Prefix(program, n) ==
  IF n = 0 THEN Before(program)
  ELSE LET m == Prefix(program, n - 1)
       IN  IF m.error # NoError THEN m
           ELSE Meant(program, program[n], [m EXCEPT !.declared = DeclaredIn(SubSeq(program, 1, n - 1))])
=============================================================================
