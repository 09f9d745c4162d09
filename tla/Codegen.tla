------------------------------ MODULE Codegen ------------------------------
(***************************************************************************)
(* The bytecode generator of bytecode/bytecode.c as far as control goes:   *)
(* one action per case of generate_statement, the recursion kept on a      *)
(* stack of tasks, and the static variables loop, loop_start and loop_end  *)
(* of generate_statement, which outlive the generators.                    *)
(*                                                                         *)
(* The straight code of a statement or of a condition is one instruction.  *)
(***************************************************************************)
EXTENDS Structured, Integers

VARIABLES
  line,        \* the tree being compiled, a sequence of statements
  code,        \* gen->instructions; gen->current_addr is its length
  work,        \* what generate_statement's recursion has left to do
  loop, loop_start, loop_end,
  refused      \* generate_bytecode returned false

genVars == <<line, code, work, loop, loop_start, loop_end, refused>>

Task(do, node, at) == [do |-> do, node |-> node, at |-> at]
Stmt(node)         == Task("stmt", node, -1)
Stmts(ss)          == [k \in 1 .. Len(ss) |-> Stmt(ss[k])]

Ins(op)      == [op |-> op]
Named(op, x) == [op |-> op, id |-> x]
Jump(op, to) == [op |-> op, to |-> to]

(* The address of the next instruction is backfilled into the jump at at.  *)
patch_jump(c, at) == [c EXCEPT ![at + 1].to = Len(c)]

Doing(kind) == work # <<>> /\ work[1].do = "stmt" /\ work[1].node.kind = kind
this        == work[1].node
statics     == <<loop, loop_start, loop_end>>

Emit(ins, tasks) ==
  /\ code' = code \o ins
  /\ work' = tasks \o Tail(work)
  /\ UNCHANGED <<line, refused>>

Refuse ==
  /\ work' = <<>> /\ refused' = TRUE
  /\ UNCHANGED <<line, code, statics>>

(* generate_bytecode of a line or file, by a new generator. *)
GenInit(l) ==
  /\ line' = l
  /\ code' = <<>> /\ work' = Stmts(l) \o <<Task("halt", Block(<<>>), -1)>>
  /\ refused' = FALSE
  /\ UNCHANGED statics

GenDo    == Doing("do") /\ Emit(<<Named("do", this.id)>>, <<>>) /\ UNCHANGED statics
GenBad   == Doing("bad") /\ Refuse
GenBlock == /\ Doing("block")
            /\ Emit(<<Ins("nop")>>, Stmts(this.parts) \o <<Task("end", this, -1)>>)
            /\ UNCHANGED statics
GenEnd   == /\ work # <<>> /\ work[1].do = "end"
            /\ Emit(<<Ins("nop")>>, <<>>)
            /\ UNCHANGED statics

GenReturn == /\ Doing("return")
             /\ Emit(<<Ins("push_null"), Ins("return")>>, <<>>)
             /\ UNCHANGED statics

GenBreak ==
  /\ Doing("break") /\ loop
  /\ Emit(<<Ins("push_false"), Jump("jump", loop_end)>>, <<>>)
  /\ UNCHANGED statics

GenContinue ==
  /\ Doing("continue") /\ loop
  /\ Emit(<<Jump("jump", loop_start)>>, <<>>)
  /\ UNCHANGED statics

(* "'break' is not in a loop!" *)
GenNotInLoop ==
  /\ (Doing("break") \/ Doing("continue")) /\ ~loop
  /\ Refuse

GenIf ==
  /\ Doing("if")
  /\ Emit(<<Named("cond", this.id), Jump("jump_if_false", -1)>>,
          <<Stmt(this.parts[1]), Task("then", this, Len(code) + 1)>>)
  /\ UNCHANGED statics

(* Mutant: the jump over the else branch is not backfilled. *)
GenThen_unpatched ==
  /\ work # <<>> /\ work[1].do = "then"
  /\ IF Len(this.parts) = 1
     THEN code' = patch_jump(code, work[1].at) /\ work' = Tail(work)
     ELSE /\ code' = patch_jump(Append(code, Jump("jump", -1)), work[1].at)
          /\ work' = <<Stmt(this.parts[2])>> \o Tail(work)
  /\ UNCHANGED <<line, refused, statics>>

(* After the then branch. *)
GenThen ==
  /\ work # <<>> /\ work[1].do = "then"
  /\ IF Len(this.parts) = 1
     THEN code' = patch_jump(code, work[1].at) /\ work' = Tail(work)
     ELSE /\ code' = patch_jump(Append(code, Jump("jump", -1)), work[1].at)
          /\ work' = <<Stmt(this.parts[2]), Task("else", this, Len(code))>> \o Tail(work)
  /\ UNCHANGED <<line, refused, statics>>

GenElse ==
  /\ work # <<>> /\ work[1].do = "else"
  /\ code' = patch_jump(code, work[1].at) /\ work' = Tail(work)
  /\ UNCHANGED <<line, refused, statics>>

GenWhile ==
  /\ Doing("while")
  /\ loop' = TRUE /\ loop_start' = Len(code) /\ loop_end' = Len(code) + 1
  /\ Emit(<<Named("cond", this.id), Jump("jump_if_false", -1)>>,
          <<Stmt(this.parts[1]), Task("loop", this, Len(code) + 1)>>)

GenFor ==
  /\ Doing("for")
  /\ loop' = TRUE
  /\ Emit(<<>>, <<Stmt(this.parts[1]), Task("for", this, -1)>>)
  /\ UNCHANGED <<loop_start, loop_end>>

(* After the initialisation of a for, which always has a condition.        *)
GenForCondition ==
  /\ work # <<>> /\ work[1].do = "for"
  /\ loop_start' = Len(code) /\ loop_end' = Len(code) + 1
  /\ Emit(<<Named("cond", this.id), Jump("jump_if_false", -1)>>,
          Stmts(Tail(this.parts)) \o <<Task("loop", this, Len(code) + 1)>>)
  /\ UNCHANGED loop

(* Mutant: the flag is left on. *)
GenLoop_flag_stays ==
  /\ work # <<>> /\ work[1].do = "loop"
  /\ code' = patch_jump(Append(code, Jump("jump", loop_start)), work[1].at)
  /\ work' = Tail(work)
  /\ UNCHANGED <<line, refused, statics>>

(* Mutant: the condition's jump is backfilled before the jump back. *)
GenLoop_patched_early ==
  /\ work # <<>> /\ work[1].do = "loop"
  /\ code' = Append(patch_jump(code, work[1].at), Jump("jump", loop_start))
  /\ work' = Tail(work)
  /\ loop' = FALSE
  /\ UNCHANGED <<line, refused, loop_start, loop_end>>

(* Mutant: the jump back goes to the current address. *)
GenLoop_here ==
  /\ work # <<>> /\ work[1].do = "loop"
  /\ code' = patch_jump(Append(code, Jump("jump", Len(code))), work[1].at)
  /\ work' = Tail(work)
  /\ loop' = FALSE
  /\ UNCHANGED <<line, refused, loop_start, loop_end>>

(* After the body of a loop, and the update of a for. *)
GenLoop ==
  /\ work # <<>> /\ work[1].do = "loop"
  /\ code' = patch_jump(Append(code, Jump("jump", loop_start)), work[1].at)
  /\ work' = Tail(work)
  /\ loop' = FALSE
  /\ UNCHANGED <<line, refused, loop_start, loop_end>>

GenFunction ==
  /\ Doing("function")
  /\ Emit(<<Named("func_def", this.id), Ins("func_set_args"), Ins("nop")>>,
          <<Stmt(this.parts[1]), Task("func_end", this, -1)>>)
  /\ UNCHANGED statics

GenFunctionEnd ==
  /\ work # <<>> /\ work[1].do = "func_end"
  /\ Emit(<<Ins("push_null"), Ins("return"), Ins("func_end")>>, <<>>)
  /\ UNCHANGED statics

GenHalt ==
  /\ work # <<>> /\ work[1].do = "halt"
  /\ Emit(<<Ins("halt")>>, <<>>)
  /\ UNCHANGED statics

Generate ==
  \/ GenDo \/ GenBad \/ GenBlock \/ GenEnd \/ GenReturn \/ GenBreak \/ GenContinue
  \/ GenNotInLoop \/ GenIf \/ GenThen \/ GenElse \/ GenWhile \/ GenFor
  \/ GenForCondition \/ GenLoop \/ GenFunction \/ GenFunctionEnd \/ GenHalt

----------------------------------------------------------------------------
(* Properties.                                                             *)

Placeholders == {work[k].at : k \in {j \in 1 .. Len(work) : work[j].do \in {"then", "else", "loop"}}}

(* Every jump is backfilled exactly when its construct is finished, and no *)
(* jump that was emitted leaves the code: a break or continue never uses   *)
(* the addresses of a loop of another line or file.                        *)
JumpsStayInCode ==
  ~refused =>
    \A k \in 1 .. Len(code) : code[k].op \in {"jump", "jump_if_false"} =>
      IF k - 1 \in Placeholders THEN code[k].to = -1 ELSE code[k].to \in 0 .. Len(code)

(* Whether the recursion is in a loop of the function being compiled.      *)
InLoop == \E k \in 1 .. Len(work) : /\ work[k].do = "loop"
                                    /\ \A j \in 1 .. k - 1 : work[j].do # "func_end"

(* The static flag loop, which decides whether a break or continue is      *)
(* refused, says whether generate_statement is inside a loop.              *)
LoopFlagRight ==
  Doing("break") \/ Doing("continue") => (loop <=> InLoop)
=============================================================================
