---------------------------- MODULE MCEvaluation ----------------------------
(***************************************************************************)
(* Programs for module Evaluation: for each part of the language every     *)
(* short sequence of statements over a few names and values.               *)
(***************************************************************************)
EXTENDS Evaluation

A == Variable("a")
B == Variable("b")
P == Variable("p")
V == Variable("v")
N(n) == Number(n)
Do(f, es) == Call(f, es)
Say(e) == Do("print", <<e>>)

Literals == {N(4), N(2), String("s"), Variable("true")}
Operators == {"+", "-", "*", "/", "%", "**", "&", "|", "^", "<<", ">>", "&&", "||", "==", "!=",
              "<", ">", "<=", ">="}

Updates ==
  {Update("a", o, N(2)) : o \in {"+=", "-=", "*=", "/=", "%=", "^=", "<<=", ">>=", "|=", "&=", "**="}}
    \cup {Bump("a", "++"), Bump("b", "--")}

(* One operator on every pair of operands, and two nested. *)
Operations ==
  {<<Assign(A, Binary(o, x, y)), Say(A)>> : o \in Operators, x \in Literals \ {N(2)}, y \in Literals}
    \cup {<<Assign(A, Unary(o, x)), Say(A)>> : o \in {"!", "~", "-", "+"}, x \in Literals}
    \cup {<<Say(N(1)), Binary(o, N(7), N(0)), Say(N(2))>> : o \in {"/", "%", "||"}}
    \cup {<<Say(Binary(o, N(9), Binary(u, N(4), N(2)))), Say(Binary(o, Binary(u, N(4), N(2)), N(3)))>> :
            o \in {"-", "<", "+"}, u \in {"-", "/", "<<"}}
    \cup {<<Assign(A, N(4)), s, Say(A)>> : s \in Updates}
    \cup {<<x, y, Say(String("end"))>> :
            x, y \in {N(3), String("s"), Do("len", <<String("s")>>), Say(N(1)), Variable("null")}}

(* Functions: what they do to names of their caller, with what is left on  *)
(* the stack, and how they are called.                                     *)
Bodies ==
  {<<Return(Binary("-", P, B))>>, <<Return(ListOf(<<P, B>>))>>,
   <<N(1), N(2), Return(P)>>, <<Assign(Variable("t"), P), N(3)>>,
   <<Assign(A, P), Return(A)>>,                                     \* a local hides the global
   <<Global(<<"g">>), Assign(Variable("g"), P), Return(Variable("g"))>>,
   <<Assign(P, Binary("+", P, N(1))), Return(P), Say(P)>>,
   <<ReturnNothing>>, <<Do("append_list", <<P, N(9)>>), Return(P)>>,
   <<Return(Binary("*", Do("h", <<P>>), Do("h", <<B>>)))>>, <<Return(A)>>}

Helper == Function("h", <<"p">>, <<Assign(P, Binary("+", P, N(1))), Assign(Variable("q"), P), Return(Variable("q"))>>)

Uses ==
  {Assign(B, Do("f", <<N(5), N(3)>>)), Say(Binary("-", Do("f", <<N(5), N(3)>>), N(1))),
   Do("f", <<N(5), N(3)>>), Do("f", <<ListOf(<<>>), N(1)>>), Do("f", <<N(5)>>), Do("nowhere", <<>>),
   Do("a", <<>>), Assign(Variable("g"), N(6)),
   Assign(A, ListOf(<<Do("f", <<N(7), N(2)>>), Do("f", <<N(1), N(1)>>)>>)),
   Do("f", <<A, Do("f", <<A, N(1)>>)>>)}

Calls ==
  {<<Assign(A, N(1)), Helper, Function("f", <<"p", "b">>, body), x, y, Say(A)>> : body \in Bodies, x, y \in Uses}

(* Lists: two names for one list or for two.  A list is popped once, when  *)
(* it has items.  An item that is read is no list itself (see the README), *)
(* and only lists have their items changed.                                *)
Shared   == {Assign(B, A), Do("append_list", <<A, N(5)>>), Do("append_list", <<B, N(6)>>),
             Do("insert_list", <<A, N(0), N(7)>>), Do("insert_list", <<B, Unary("-", N(1)), N(8)>>),
             Do("insert_list", <<A, N(2), N(8)>>), Do("pop_list", <<A>>), Say(Do("len", <<B>>))}
Nesting  == {Assign(B, ListOf(<<A, A>>)), Do("append_list", <<A, A>>), Do("append_list", <<B, A>>)}
Storing  == {Assign(Item(A, N(1)), N(9)), Assign(Item(B, N(0)), String("s")), Assign(Item(A, N(2)), N(9))}
Reading  == {Assign(B, Do("dupe", <<A>>)), Say(Item(A, Unary("-", N(1)))), Say(Item(B, N(2)))}
Refused  == {Assign(A, N(3)), Do("append_list", <<A>>), Do("len", <<N(1)>>), Say(Item(A, A))}

Pops(t) == Cardinality({k \in DOMAIN t : t[k] = Do("pop_list", <<A>>)})

Thrice(steps) == {t \in steps \X steps \X steps : Pops(t) <= 1}

ListPrograms ==
  {<<Assign(A, ListOf(<<N(1), N(2)>>))>> \o t \o <<Say(A), Say(B)>> :
     t \in Thrice(Shared \cup Nesting \cup Storing) \cup Thrice(Shared \cup Storing \cup Reading)
             \cup Thrice(Shared \cup Reading \cup Refused)}

(* Structures. *)
StructSteps ==
  {Instance("w", "s"), Assign(Variable("w"), V), Assign(Variable("w"), Do("dupe", <<V>>)),
   Assign(Member(V, "m"), N(4)), Assign(Member(V, "k"), A), Assign(Member(V, "m"), V),
   Assign(Member(Variable("w"), "k"), String("s")), Assign(Member(A, "k"), N(1)), Assign(Member(V, "z"), N(1)),
   Do("append_list", <<A, N(2)>>), Do("append_list", <<Member(V, "k"), N(2)>>),
   Say(Member(V, "k")), Say(Member(V, "z")), Say(Member(A, "m")), Instance("w", "t"),
   Assign(Member(Member(V, "m"), "k"), N(5))}

StructPrograms ==
  {<<Assign(A, ListOf(<<N(1)>>)), Struct("s", <<"m", "k">>), Instance("v", "s"), x, y, z,
     Say(Member(V, "m")), Say(Member(V, "k"))>> : x, y, z \in StructSteps}

MCPrograms == Operations \cup Calls \cup ListPrograms \cup StructPrograms
=============================================================================
