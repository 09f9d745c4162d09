---------------------------- MODULE MCVMControl ----------------------------
(***************************************************************************)
(* Sets of small programs for VMControl.  Main m0 defines the function f,  *)
(* module m defines g; a second main m1 is the second line of a REPL.      *)
(***************************************************************************)
EXTENDS VMControl

op(o)      == [op |-> o]
call(u)    == [op |-> "call", arg |-> u]
load(u)    == [op |-> "load", arg |-> u]
goto(u, k) == [op |-> "goto", arg |-> u, at |-> k]
jump(k)    == [op |-> "jump", arg |-> k]
branch(k)  == [op |-> "branch", arg |-> k]

(* Bodies of at most n instructions of S; functions end with a return.     *)
Bodies(S, n)    == UNION {[1 .. k -> S] : k \in 0 .. n}
Functions(S, n) == {Append(b, op("return")) : b \in Bodies(S, n)}

Definitions == [u \in Loaded |->
                  CASE u = "m0" -> <<"f">> [] u = "m" -> <<"g">> [] OTHER -> <<>>]

(* Programs from the code each unit may have. *)
Build(m0, m1, f, g, m) ==
  {p \in { [code |-> [u \in Units |->
                       CASE u = "m0" -> a [] u = "m1" -> b [] u = "f" -> c
                         [] u = "g" -> d [] OTHER -> e],
            defs |-> Definitions] : a \in m0, b \in m1, c \in f, d \in g, e \in m } :
     IsProgram(p)}

(* f calling itself on one branch, before and after other work.            *)
Recursive == { << branch(2), call("f"), op("return") >>,
               << branch(3), call("f"), call("g"), op("return") >>,
               << load("m"), branch(3), call("f"), op("step"), op("return") >> }

(* Calls and loads only go down the order m0, f, m, g or stay in f, and    *)
(* there is no goto: no chunk is entered while another suspended it.       *)
OrderedPrograms ==
  Build(Bodies({call("f"), call("g"), load("m")}, 2), {<<>>},
        Functions({call("g"), load("m"), op("native")}, 2) \cup Recursive,
        Functions({op("native"), op("raise"), op("exit")}, 1),
        Bodies({call("g"), op("step")}, 2))

(* What the proofs assume of programs is true of all of these. *)
Order == [u \in Units |-> CASE u = "f" -> 2 [] u = "m" -> 1 [] u = "g" -> 0 [] OTHER -> 3]

ASSUME OrderedAssumption == \A p \in OrderedPrograms : Descends(p, Order)

(* Anything goes: gotos between units, recursion through g, returns at the *)
(* top level, errors left on the call stack of a REPL.                     *)
WildPrograms ==
  Build({ <<call("f"), load("m")>>, <<load("m"), goto("f", 0), op("return")>> },
        { <<call("f")>>, <<op("return"), call("g")>> },
        Functions({call("g"), load("m"), goto("f", 1), goto("m0", 1), goto("m", 0), branch(0)}, 2),
        Functions({call("f"), call("g"), op("raise"), goto("m", 0)}, 1),
        { <<call("g")>>, <<op("return")>>, <<op("raise")>>, <<jump(0)>>, <<op("exit")>> })

(* No jump goes back and no unit reaches itself: every run must end.       *)
FinitePrograms ==
  Build(Bodies({call("f"), load("m")}, 2), {<<>>, <<call("g")>>},
        Functions({call("g"), load("m"), branch(2)}, 2),
        Functions({op("raise"), op("exit")}, 1),
        Bodies({call("g"), op("return")}, 1))

AnyPrograms == WildPrograms \cup FinitePrograms

(* f calls g, which calls f once more, which then returns. *)
MutualPrograms ==
  Build({<<load("m"), call("f")>>}, {<<>>}, {<<branch(3), op("step"), call("g"), op("return")>>},
        {<<call("f"), op("return")>>}, {<<>>})
=============================================================================
