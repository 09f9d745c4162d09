---------------------------- MODULE BytecodeFile ----------------------------
(***************************************************************************)
(* save_bytecode and load_bytecode of bytecode/bytecode.c: what is written *)
(* of a program, field by field, and what is read back, also from a file   *)
(* that was cut short.                                                     *)
(*                                                                         *)
(* A field is what one fwrite writes.  The names in it are opcodes and     *)
(* operands as they are; a count or a length is the number it is.          *)
(***************************************************************************)
EXTENDS Naturals, Sequences, SequencesExt

Inst(op, arg) == [op |-> op, arg |-> arg]

(* The cases of the two switches: what an opcode's operand is.             *)
NumOps == {"PUSH_NUM"}
IntOps == {"JUMP", "JUMP_IF_FALSE", "JUMP_IF_TRUE", "CALL", "LIST_NEW", "FUNC_SET_ARGS"}
StringOps == {"PUSH_STR", "PUSH_IDENT", "LOAD_VAR", "STORE_VAR", "LOAD_GLOBAL", "STORE_GLOBAL",
              "LOAD_MODULE", "FUNC_START", "STRUCT_DEF", "STRUCT_NEW", "MEMBER_ACCESS",
              "FUNC_DEF", "MEMBER_STORE"}
SavedAsString == StringOps \cup {"GOTO_DEF", "GOTO_BLOCK"}
LoadedAsString == StringOps

Field(f, v) == [f |-> f, v |-> v, n |-> 0]
Magic       == Field("magic", "SBL")
Count(n)    == [f |-> "count", v |-> "", n |-> n]

(* Mutant: the operand of a call is forgotten, as is that of GOTO_DEF when *)
(* the file is read.                                                       *)
Fields_no_call(i) ==
  <<Field("op", i.op)>>
    \o CASE i.op \in NumOps        -> <<Field("num", i.arg)>>
         [] i.op \in SavedAsString -> <<Field("len", ""), Field("chars", i.arg)>>
         [] i.op \in IntOps \ {"CALL"} -> <<Field("int", i.arg)>>
         [] OTHER                  -> <<>>

(* What is written of one instruction. *)
Fields(i) ==
  <<Field("op", i.op)>>
    \o CASE i.op \in NumOps        -> <<Field("num", i.arg)>>
         [] i.op \in SavedAsString -> <<Field("len", ""), Field("chars", i.arg)>>
         [] i.op \in IntOps        -> <<Field("int", i.arg)>>
         [] OTHER                  -> <<>>

(* GOTO_BLOCK has no operand: strlen of a null pointer kills the process   *)
(* there, so what comes before it is all that can get into the file.       *)
Writable(code) ==
  LET crash == SelectInSeq(code, LAMBDA i : i.op = "GOTO_BLOCK")
  IN  IF crash = 0 THEN code ELSE SubSeq(code, 1, crash - 1)

(* The whole file.  Nothing looks at what fwrite returns after the magic   *)
(* number, so a file may hold any beginning of it.                         *)
save_bytecode(code) ==
  <<Magic, Count(Len(code))>> \o FlattenSeq([k \in DOMAIN Writable(code) |-> Fields(code[k])])

(* A misread is an opcode taken from something that is none.               *)
Misread == Inst("misread", "0")

(* How many fields the reader takes for an operand, and the operand: the   *)
(* last of them.  Nothing looks whether fread got it.  A number stays the  *)
(* zero it was set to; a string has an undefined length and contents.      *)
OperandFields(op) ==
  CASE op \in NumOps \cup IntOps -> 1 [] op \in LoadedAsString -> 2 [] OTHER -> 0

Operand(file, at, op) ==
  LET last == at + OperandFields(op)
  IN  CASE last = at        -> "0"
        [] last > Len(file) -> IF op \in LoadedAsString THEN "junk" ELSE "0"
        [] OTHER            -> file[last].v

(* Whether a generator comes back at all, and the instructions in it: as   *)
(* many as the count says, or as there are.                                *)
IsLoadable(file) == Len(file) >= 2 /\ file[1] = Magic /\ file[2].f = "count"

load_bytecode(file) ==
  LET read[at \in 3 .. Len(file) + 3] ==
        IF at > Len(file) THEN <<>>
        ELSE IF file[at].f # "op" THEN <<Misread>>
        ELSE <<Inst(file[at].v, Operand(file, at, file[at].v))>>
               \o read[at + 1 + OperandFields(file[at].v)]
      all   == read[3]
      count == file[2].n
  IN  SubSeq(all, 1, IF count < Len(all) THEN count ELSE Len(all))
=============================================================================
