----------------------------- MODULE Compiled -----------------------------
(***************************************************************************)
(* From a program's text to its run: the generator of Codegen, the loader  *)
(* vm_load_bytecode of vm/vm.c, which splits the generated code into the   *)
(* chunk of the line or file and a chunk for each function and relocates   *)
(* the jumps, and the run of one chunk side by side with the text of the   *)
(* program, as module Structured reads it, on the same outcomes of the     *)
(* conditions.                                                             *)
(*                                                                         *)
(* Calls and returns between chunks are those of module VMControl; here a  *)
(* chunk runs alone, from its first instruction to its end.                *)
(***************************************************************************)
EXTENDS Codegen

CONSTANTS
  Lines,      \* the programs: one file, or the lines of a REPL
  MaxLines    \* bound on the lines of a session

VARIABLES
  phase,         \* "idle", "generate", "load", "ready" or "run"
  lines,         \* lines compiled so far
  i, jmp_offset, jmp_offset_f,   \* the variables of vm_load_bytecode
  chunk,         \* the chunk being filled: a function, or NoName for the line's
  chunks,        \* instructions of the line's chunk and of its functions
  unit,          \* the chunk that runs
  pc,
  top,           \* what the value on top of the operand stack may be as a condition
  rest           \* what the text says is left to do

loadVars == <<i, jmp_offset, jmp_offset_f, chunk, chunks>>
runVars  == <<unit, pc, top, rest>>
vars     == <<genVars, phase, lines, loadVars, runVars>>

Init ==
  /\ line = <<>> /\ code = <<>> /\ work = <<>> /\ refused = FALSE
  /\ loop = FALSE /\ loop_start = -1 /\ loop_end = -1
  /\ phase = "idle" /\ lines = 0
  /\ i = 0 /\ jmp_offset = 0 /\ jmp_offset_f = 0
  /\ chunk = NoName /\ chunks = <<>>
  /\ unit = NoName /\ pc = 0 /\ top = BOOLEAN /\ rest = <<>>

Compile ==
  /\ phase = "idle" /\ lines < MaxLines
  /\ \E l \in Lines : GenInit(l)
  /\ phase' = "generate" /\ lines' = lines + 1
  /\ UNCHANGED <<loadVars, runVars>>

GenStep ==
  /\ phase = "generate" /\ Generate
  /\ UNCHANGED <<phase, lines, loadVars, runVars>>

(* The driver drops a line that was refused. *)
Drop ==
  /\ phase = "generate" /\ work = <<>> /\ refused
  /\ phase' = "idle"
  /\ UNCHANGED <<genVars, lines, loadVars, runVars>>

----------------------------------------------------------------------------
(* vm_load_bytecode. *)

Load ==
  /\ phase = "generate" /\ work = <<>> /\ ~refused
  /\ phase' = "load"
  /\ i' = 0 /\ jmp_offset' = 0 /\ jmp_offset_f' = 0
  /\ chunk' = NoName /\ chunks' = [u \in {NoName} |-> <<>>]
  /\ UNCHANGED <<genVars, lines, runVars>>

Loading == phase = "load" /\ i < Len(code)
src     == code[i + 1]

Relocated(ins, offset) ==
  IF ins.op \in {"jump", "jump_if_false"} THEN [ins EXCEPT !.to = @ - offset] ELSE ins

Copy(ins) == chunks' = [chunks EXCEPT ![chunk] = Append(@, ins)]

(* An instruction of the line itself. *)
CopyMain ==
  /\ Loading /\ chunk = NoName /\ src.op # "func_def"
  /\ Copy(Relocated(src, jmp_offset))
  /\ i' = i + 1
  /\ UNCHANGED <<genVars, phase, lines, jmp_offset, jmp_offset_f, chunk, runVars>>

(* OP_FUNC_DEF: open a chunk for the function. *)
CopyFunctionStart ==
  /\ Loading /\ chunk = NoName /\ src.op = "func_def"
  /\ chunk' = src.id
  /\ chunks' = [u \in DOMAIN chunks \cup {src.id} |-> IF u = src.id THEN <<>> ELSE chunks[u]]
  /\ jmp_offset_f' = jmp_offset + 2
  /\ jmp_offset' = jmp_offset + 3 /\ i' = i + 1
  /\ UNCHANGED <<genVars, phase, lines, runVars>>

(* The loop that saves a function in its chunk, up to the first OP_FUNC_END. *)
CopyFunction ==
  /\ Loading /\ chunk # NoName
  /\ jmp_offset' = jmp_offset + 1 /\ i' = i + 1
  /\ IF src.op \in {"func_def", "func_set_args"} THEN UNCHANGED chunks
     ELSE Copy(Relocated(src, jmp_offset_f))
  /\ chunk' = IF src.op = "func_end" THEN NoName ELSE chunk
  /\ UNCHANGED <<genVars, phase, lines, jmp_offset_f, runVars>>

Loaded ==
  /\ phase = "load" /\ i = Len(code)
  /\ phase' = "ready"
  /\ UNCHANGED <<genVars, lines, loadVars, runVars>>

----------------------------------------------------------------------------
(* The run of a chunk, and of its text. *)

Text(u) ==
  IF u = NoName THEN line
  ELSE LET k == CHOOSE k \in DOMAIN line : line[k].kind = "function" /\ line[k].id = u
       IN  line[k].parts

Run ==
  /\ phase = "ready"
  /\ \E u \in DOMAIN chunks : unit' = u /\ rest' = Text(u)
  /\ phase' = "run" /\ pc' = 0 /\ top' = BOOLEAN
  /\ UNCHANGED <<genVars, lines, loadVars>>

InChunk == pc \in 0 .. Len(chunks[unit]) - 1
inst    == chunks[unit][pc + 1]

(* What the chunk does next.  A line ends when it runs out of instructions *)
(* and a function by returning; a function that runs out of instructions   *)
(* stops the whole program.                                                *)
CodeEvent ==
  CASE ~InChunk -> [is |-> IF unit = NoName THEN "end" ELSE "stop", id |-> NoName]
    [] InChunk /\ inst.op \in {"do", "cond"} -> [is |-> inst.op, id |-> inst.id]
    [] InChunk /\ inst.op = "return" /\ unit # NoName -> [is |-> "end", id |-> NoName]
    [] OTHER -> [is |-> "silent", id |-> NoName]

TextAtEvent == Event(rest).is # "silent"
AtEvent     == TextAtEvent /\ CodeEvent.is # "silent"

RunText ==
  /\ phase = "run" /\ ~TextAtEvent
  /\ rest' = Unfold(rest)
  /\ UNCHANGED <<genVars, phase, lines, loadVars, unit, pc, top>>

Silent == phase = "run" /\ TextAtEvent /\ CodeEvent.is = "silent"

RunJump ==
  /\ Silent /\ inst.op = "jump"
  /\ pc' = inst.to
  /\ UNCHANGED <<genVars, phase, lines, loadVars, unit, top, rest>>

RunJumpIfFalse ==
  /\ Silent /\ inst.op = "jump_if_false"
  /\ \E b \in top : pc' = IF b THEN pc + 1 ELSE inst.to
  /\ top' = BOOLEAN
  /\ UNCHANGED <<genVars, phase, lines, loadVars, unit, rest>>

(* Null is false. *)
RunPush ==
  /\ Silent /\ inst.op \in {"push_false", "push_null"}
  /\ pc' = pc + 1 /\ top' = {FALSE}
  /\ UNCHANGED <<genVars, phase, lines, loadVars, unit, rest>>

RunNothing ==
  /\ Silent /\ inst.op \in {"nop", "halt", "func_end", "func_set_args", "return"}
  /\ pc' = pc + 1
  /\ UNCHANGED <<genVars, phase, lines, loadVars, unit, top, rest>>

Same == AtEvent /\ CodeEvent = Event(rest)

RunDo ==
  /\ phase = "run" /\ Same /\ CodeEvent.is = "do"
  /\ pc' = pc + 1 /\ top' = BOOLEAN /\ rest' = Visible(rest, TRUE)
  /\ UNCHANGED <<genVars, phase, lines, loadVars, unit>>

RunCondition ==
  /\ phase = "run" /\ Same /\ CodeEvent.is = "cond"
  /\ \E b \in BOOLEAN : top' = {b} /\ rest' = Visible(rest, b)
  /\ pc' = pc + 1
  /\ UNCHANGED <<genVars, phase, lines, loadVars, unit>>

(* The next line starts from a state like the first but for the static     *)
(* variables.                                                              *)
RunEnds ==
  /\ phase = "run" /\ Same /\ CodeEvent.is = "end"
  /\ phase' = "idle"
  /\ unit' = NoName /\ pc' = 0 /\ top' = BOOLEAN /\ rest' = <<>>
  /\ line' = <<>> /\ code' = <<>> /\ chunks' = <<>> /\ i' = 0
  /\ jmp_offset' = 0 /\ jmp_offset_f' = 0
  /\ UNCHANGED <<work, loop, loop_start, loop_end, refused, lines, chunk>>

Next ==
  \/ Compile \/ GenStep \/ Drop
  \/ Load \/ CopyMain \/ CopyFunctionStart \/ CopyFunction \/ Loaded
  \/ Run \/ RunText \/ RunJump \/ RunJumpIfFalse \/ RunPush \/ RunNothing
  \/ RunDo \/ RunCondition \/ RunEnds

Spec == Init /\ [][Next]_vars

(* The generator, the loader and vm_execute are loops on one thread.       *)
FairSpec == Spec /\ WF_vars(Next)

----------------------------------------------------------------------------
(* Properties.                                                             *)

(* The loaded code does what the text says: whatever way the conditions    *)
(* turn out, a chunk reaches the same statements, conditions and end, in   *)
(* the same order, as the program.                                         *)
FollowsText ==
  phase = "run" /\ AtEvent => CodeEvent = Event(rest)

(* Programs whose code can be relied on, by what is inside of their trees: *)
(* no loop has a loop or a function in it, and no for a continue; only     *)
(* functions return, they have names of their own and are in nothing else; *)
(* and of the statements with jumps only the first one may be a function,  *)
(* or stand behind one.                                                    *)
Jumping == {"if", "while", "for", "break", "continue"}

ReliableLoop(inside, n) ==
  \A k \in DOMAIN n.parts :
    /\ Lacks(inside, n.parts[k], {"while", "for", "function"})
    /\ n.kind = "for" => Lacks(inside, n.parts[k], {"continue"})

ReliableFunction(inside, l, k) ==
  /\ l[k].id # NoName
  /\ \A j \in DOMAIN l : l[j].kind = "function" /\ l[j].id = l[k].id => j = k
  /\ Lacks(inside, l[k].parts[1], {"function"})

ReliableLine(inside, l) ==
  \A k \in DOMAIN l :
    /\ IF l[k].kind = "function" THEN ReliableFunction(inside, l, k)
                                 ELSE Lacks(inside, l[k], {"function", "return"})
    /\ \/ Lacks(inside, l[k], Jumping)
       \/ \A j \in 1 .. k : l[j].kind = "function" => j = 1 /\ k = 1

Reliable(inside, L) ==
  /\ Insides(inside)
  /\ \A n \in DOMAIN inside : n.kind \in {"while", "for"} => ReliableLoop(inside, n)
  /\ \A l \in L : l \in Seq(DOMAIN inside) /\ ReliableLine(inside, l)

(* Every compilation and load comes to an end, and the run of a chunk      *)
(* never goes on for ever without doing anything.                          *)
Advances ==
  []<>(phase = "idle" \/ (phase = "run" /\ AtEvent))
=============================================================================
