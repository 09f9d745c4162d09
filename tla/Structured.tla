---------------------------- MODULE Structured ----------------------------
(***************************************************************************)
(* The control flow of a program as its text says it, without addresses:   *)
(* the syntax trees of parser/parser.h reduced to control, and what is     *)
(* left to do of one as a sequence of statements.                          *)
(*                                                                         *)
(* A "do" is a statement without control flow, an assignment or a call.    *)
(* Conditions are named and may turn out either way.                       *)
(***************************************************************************)
EXTENDS Naturals, Sequences

CONSTANTS Names     \* of statements without control flow, conditions, functions

NoName == "none"

Node(kind, id, parts) == [kind |-> kind, id |-> id, parts |-> parts]

Do(x)        == Node("do", x, <<>>)
Bad          == Node("bad", NoName, <<>>)       \* an assignment to no variable
Break        == Node("break", NoName, <<>>)
Continue     == Node("continue", NoName, <<>>)
Return       == Node("return", NoName, <<>>)
Block(ss)    == Node("block", NoName, ss)
If(c, ss)    == Node("if", c, <<Block(ss)>>)
IfElse(c, ss, tt) == Node("if", c, <<Block(ss), Block(tt)>>)
While(c, ss) == Node("while", c, <<Block(ss)>>)
For(i, c, u, ss) == Node("for", c, <<i, Block(ss), u>>)
Function(f, ss)  == Node("function", f, <<Block(ss)>>)

Kinds == {"do", "bad", "break", "continue", "return", "block", "if", "while", "for", "function"}

(* The trees that the parser makes, as a set T closed under parts: an if   *)
(* has one branch or two; a for has an initialisation and a body, and may  *)
(* lack an update (parse_for_statement), and the first and the last are    *)
(* assignments or expressions, without control in them (parse_assignment). *)
Assignments == {"do", "bad"}

WellFormed(n, T) ==
  /\ n.kind \in Kinds /\ n.parts \in Seq(T)
  /\ n.kind = "if" => Len(n.parts) \in 1 .. 2
  /\ n.kind \in {"while", "function"} => Len(n.parts) = 1
  /\ n.kind = "for" => /\ Len(n.parts) \in 2 .. 3 /\ n.parts[1].kind \in Assignments
                       /\ Len(n.parts) = 3 => n.parts[3].kind \in Assignments

Trees(T) == Block(<<>>) \in T /\ \A n \in T : WellFormed(n, T)

(* inside gives of every tree the trees that are in it, and itself.        *)
Insides(inside) ==
  /\ Trees(DOMAIN inside)
  /\ \A n \in DOMAIN inside :
       n \in inside[n] /\ \A k \in DOMAIN n.parts : inside[n.parts[k]] \subseteq inside[n]

Lacks(inside, n, kinds) == \A m \in inside[n] : m.kind \notin kinds

----------------------------------------------------------------------------
(* What is left to do, a sequence of nodes.  Two more kinds of node stand  *)
(* for the loops one is in: "loop" is about to test its condition, "latch" *)
(* to do its update; the latch of a loop is followed by the loop.          *)

Event(rest) ==
  IF rest = <<>> THEN [is |-> "end", id |-> NoName]
  ELSE CASE rest[1].kind = "do"             -> [is |-> "do", id |-> rest[1].id]
         [] rest[1].kind \in {"if", "loop"} -> [is |-> "cond", id |-> rest[1].id]
         [] OTHER                           -> [is |-> "silent", id |-> NoName]

(* The rest from the first latch on: where a continue goes.  Without one,  *)
(* which is a text that the generator refuses, nothing is left.            *)
FromLatch(rest) ==
  LET First(k) == rest[k].kind = "latch" /\ \A j \in 1 .. k - 1 : rest[j].kind # "latch"
  IN  IF \E k \in DOMAIN rest : First(k)
      THEN SubSeq(rest, CHOOSE k \in DOMAIN rest : First(k), Len(rest)) ELSE <<>>

(* One silent step: a function is only defined. *)
Unfold(rest) ==
  LET s == Head(rest)
      t == Tail(rest)
  IN  CASE s.kind = "block"    -> s.parts \o t
        [] s.kind = "while"    -> <<Node("loop", s.id, s.parts)>> \o t
        [] s.kind = "for"      -> <<s.parts[1], Node("loop", s.id, Tail(s.parts))>> \o t
        [] s.kind = "latch"    -> s.parts \o t
        [] s.kind = "break"    -> SubSeq(FromLatch(t), 3, Len(FromLatch(t)))
        [] s.kind = "continue" -> FromLatch(t)
        [] s.kind = "return"   -> <<>>
        [] OTHER               -> t

(* The visible step, with the outcome b of the condition if it is one. *)
Visible(rest, b) ==
  LET s == Head(rest)
      t == Tail(rest)
  IN  CASE s.kind = "do"   -> t
        [] s.kind = "if"   -> IF b THEN <<s.parts[1]>> \o t ELSE Tail(s.parts) \o t
        [] s.kind = "loop" -> IF b THEN <<s.parts[1], Node("latch", NoName, Tail(s.parts))>> \o rest
                                   ELSE t
=============================================================================
