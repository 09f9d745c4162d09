---------------------------- MODULE Expressions ----------------------------
(***************************************************************************)
(* The generator of bytecode/bytecode.c for expressions and for statements *)
(* without control flow (193-470, 517-605, 687-862): the instructions of a *)
(* node, and what the generator remembers between statements.              *)
(*                                                                         *)
(* vm_load_bytecode moves the code between OP_FUNC_START and OP_FUNC_END   *)
(* into a chunk of its own, as module Compiled shows; here the code of a   *)
(* function goes there at once.                                            *)
(***************************************************************************)
EXTENDS Scripts, SequencesExt, TLC

I(op)       == [op |-> op]
With(op, x) == [op |-> op, arg |-> x]

BinaryOp(o) ==
  CASE o = "+" -> "ADD"  [] o = "-" -> "SUB"  [] o = "*" -> "MUL"  [] o = "/" -> "DIV"
    [] o = "%" -> "MOD"  [] o = "**" -> "POW"
    [] o = "&" -> "BIT_AND"  [] o = "|" -> "BIT_OR"  [] o = "^" -> "BIT_XOR"
    [] o = "<<" -> "BIT_LSHIFT"  [] o = ">>" -> "BIT_RSHIFT"
    [] o = "&&" -> "LOGIC_AND"  [] o = "||" -> "LOGIC_OR"
    [] o = "==" -> "EQ"  [] o = "!=" -> "NEQ"
    [] o = "<" -> "LT"  [] o = ">" -> "GT"  [] o = "<=" -> "LEQ"  [] o = ">=" -> "GEQ"

(* The factor of a minus is forgotten. *)
UnaryCode_no_factor(o) ==
  CASE o = "!" -> <<I("LOGIC_NOT")>>
    [] o = "~" -> <<I("BIT_NOT")>>
    [] o = "-" -> <<I("MUL")>>
    [] o = "+" -> <<I("NOP")>>

UnaryCode(o) ==
  CASE o = "!" -> <<I("LOGIC_NOT")>>
    [] o = "~" -> <<I("BIT_NOT")>>
    [] o = "-" -> <<With("PUSH_NUM", -1), I("MUL")>>
    [] o = "+" -> <<I("NOP")>>

RECURSIVE generate_expression(_)

(* The operands of a node, one after the other, each with an instruction   *)
(* behind it.                                                              *)
EachThen(es, is) == FlattenSeq([k \in DOMAIN es |-> generate_expression(es[k]) \o is])

Operands(es) == EachThen(es, <<>>)

generate_expression(e) ==
  CASE e.kind = "nothing"  -> <<I("NOP")>>
    [] e.kind = "number"   -> <<With("PUSH_NUM", e.number)>>
    [] e.kind = "string"   -> <<With("PUSH_STR", e.name)>>
    [] e.kind = "variable" -> <<With("LOAD_VAR", e.name)>>
    [] e.kind = "list"     -> <<With("LIST_NEW", Len(e.parts))>> \o EachThen(e.parts, <<I("LIST_PUSH")>>)
    [] e.kind = "binary"   -> Operands(e.parts) \o <<I(BinaryOp(e.name))>>
    [] e.kind = "unary"    -> Operands(e.parts) \o UnaryCode(e.name)
    [] e.kind = "call"     -> <<With("PUSH_IDENT", e.name)>> \o Operands(e.parts)
                                \o <<With("CALL", Len(e.parts))>>
    [] e.kind = "member"   -> Operands(e.parts) \o <<With("MEMBER_ACCESS", e.name)>>
    [] e.kind = "item"     -> Operands(e.parts) \o <<I("LIST_ACCESS")>>

(* A name that was declared global anywhere before is stored as one. *)
Store(declared, x) == With(IF x \in declared THEN "STORE_GLOBAL" ELSE "STORE_VAR", x)

(* The value of an assignment is on the stack. *)
StoreTo(declared, target) ==
  CASE target.kind = "variable" -> <<Store(declared, target.name)>>
    [] target.kind = "member"   -> Operands(target.parts) \o <<With("MEMBER_STORE", target.name)>>
    [] target.kind = "item"     -> Operands(target.parts) \o <<I("LIST_STORE")>>

UpdateOp(o) ==
  CASE o = "++" -> "ADD" [] o = "--" -> "SUB" [] o = "+=" -> "ADD" [] o = "-=" -> "SUB"
    [] o = "*=" -> "MUL" [] o = "/=" -> "DIV" [] o = "%=" -> "MOD" [] o = "^=" -> "BIT_XOR"
    [] o = "<<=" -> "BIT_LSHIFT" [] o = ">>=" -> "BIT_RSHIFT" [] o = "|=" -> "BIT_OR"
    [] o = "&=" -> "BIT_AND" [] o = "**=" -> "POW"

Declares(s) == IF s.kind = "global" THEN RangeOf(s.names) ELSE {}

generate_statement(declared, s) ==
  CASE s.kind = "assign" -> generate_expression(s.parts[2]) \o StoreTo(declared, s.parts[1])
    [] s.kind = "update" ->
         generate_expression(s.parts[1])
           \o (IF Len(s.parts) = 1 THEN <<With("PUSH_NUM", 1)>> ELSE generate_expression(s.parts[2]))
           \o <<I(UpdateOp(s.name))>> \o StoreTo(declared, s.parts[1])
    [] s.kind = "global"   -> <<>>
    [] s.kind = "return"   -> (IF s.parts = <<>> THEN <<I("PUSH_NULL")>> ELSE Operands(s.parts)) \o <<I("RETURN")>>
    [] s.kind = "struct"   -> [k \in DOMAIN s.names |-> With("PUSH_IDENT", Reverse(s.names)[k])]
                                \o <<With("PUSH_NUM", Len(s.names)), With("STRUCT_DEF", s.name)>>
    [] s.kind = "instance" -> <<With("STRUCT_NEW", s.names[1]), With("STORE_VAR", s.name)>>
    [] OTHER -> generate_expression(s)

(* Statements in the order of the text; the names declared global by one   *)
(* are so for all that come after it, also in other functions.             *)
generate_block(declared, ss) ==
  [k \in DOMAIN ss |->
     generate_statement(declared \cup UNION {Declares(ss[j]) : j \in 1 .. k - 1}, ss[k])]

(* The parameters are stored from the last to the first, as they are taken *)
(* from the stack.                                                         *)
Parameters(xs) == [k \in DOMAIN xs |-> With("STORE_VAR", Reverse(xs)[k])]

generate_function(declared, f) ==
  Parameters(f.names) \o <<I("BLOCK_START")>> \o FlattenSeq(generate_block(declared, f.parts))
    \o <<I("BLOCK_END"), I("PUSH_NULL"), I("RETURN"), I("FUNC_END")>>

(* The statements of the file outside of functions, and what is declared   *)
(* before the k-th one.                                                    *)
Statements(s) == IF s.kind = "function" THEN s.parts ELSE <<s>>

DeclaredBefore(program, k) == UNION {Declares(s) : s \in UNION {RangeOf(Statements(program[j])) : j \in 1 .. k - 1}}

MainCode(program) ==
  [k \in DOMAIN program |-> IF program[k].kind = "function" THEN <<>>
                            ELSE generate_statement(DeclaredBefore(program, k), program[k])]

(* The code of each chunk, the number of parameters of each function, and  *)
(* the addresses of the main chunk at which a statement ends.              *)
generate_bytecode(program) ==
  LET at(f)  == CHOOSE k \in Functions(program) : program[k].name = f
      names  == {program[k].name : k \in Functions(program)}
      main   == MainCode(program)
  IN  [code   |-> [u \in names \cup {Main} |->
                     IF u = Main THEN Append(FlattenSeq(main), I("HALT"))
                     ELSE generate_function(DeclaredBefore(program, at(u)), program[at(u)])],
       params |-> [f \in names |-> Len(program[at(f)].names)],
       ends   |-> [k \in DOMAIN program |-> Len(FlattenSeq(SubSeq(main, 1, k)))]]
=============================================================================
