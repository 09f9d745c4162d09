------------------------------ MODULE Scripts ------------------------------
(***************************************************************************)
(* The text of programs without control flow: the syntax trees of          *)
(* parser/parser.h for expressions, assignments, calls, functions and      *)
(* structures.  Control flow is in module Structured.                      *)
(***************************************************************************)
EXTENDS Integers, Sequences, FiniteSets

NoName == "none"

Node(kind, name, names, parts) == [kind |-> kind, name |-> name, names |-> names, parts |-> parts]

Nothing        == Node("nothing", NoName, <<>>, <<>>)       \* where an operand is missing
Number(n)      == [kind |-> "number", number |-> n, parts |-> <<>>]
String(s)      == Node("string", s, <<>>, <<>>)
Variable(x)    == Node("variable", x, <<>>, <<>>)
ListOf(es)     == Node("list", NoName, <<>>, es)
Binary(o, a, b) == Node("binary", o, <<>>, <<a, b>>)
Unary(o, a)    == Node("unary", o, <<>>, <<a>>)
Call(f, es)    == Node("call", f, <<>>, es)
Member(e, m)   == Node("member", m, <<>>, <<e>>)
Item(e, i)     == Node("item", NoName, <<>>, <<e, i>>)

Assign(target, e) == Node("assign", NoName, <<>>, <<target, e>>)
Update(x, o, e)   == Node("update", o, <<>>, <<Variable(x), e>>)   \* x += e
Bump(x, o)       == Node("update", o, <<>>, <<Variable(x)>>)      \* x ++
Global(xs)        == Node("global", NoName, xs, <<>>)
Return(e)         == Node("return", NoName, <<>>, <<e>>)
ReturnNothing     == Node("return", NoName, <<>>, <<>>)
Function(f, xs, ss) == Node("function", f, xs, ss)
Struct(s, ms)     == Node("struct", s, ms, <<>>)
Instance(x, s)    == Node("instance", x, <<s>>, <<>>)

IsExpression(node) ==
  node.kind \notin {"assign", "update", "global", "return", "function", "struct", "instance"}

Main == "main"

RangeOf(s) == {s[k] : k \in DOMAIN s}

Functions(program) == {k \in DOMAIN program : program[k].kind = "function"}
=============================================================================
