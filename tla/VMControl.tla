----------------------------- MODULE VMControl -----------------------------
(***************************************************************************)
(* The control state of the virtual machine of vm/vm.c: chunks, the chunk  *)
(* traceback, call frames, the traceback of source files, the flags of     *)
(* vm_execute and the invocations of vm_execute nested on the C stack by   *)
(* module loads.                                                           *)
(*                                                                         *)
(* Every unit (a REPL line or main file, a function, the top level of a    *)
(* module) is loaded into a chunk of its own, which keeps ONE saved        *)
(* program counter however many activations of the unit there are.         *)
(* Instructions keep only what concerns control; "step" stands for every   *)
(* opcode that just advances the program counter.                          *)
(***************************************************************************)
EXTENDS Naturals, Sequences, FiniteSets

CONSTANTS
  Mains,          \* units run by the driver: one file, or the REPL's lines
  Funcs, Mods,    \* functions, and modules that a program may load
  MainFile,       \* the file name of the driver's units
  NoFile,         \* index -1 of sf_traceback: no file recorded yet
  Programs,       \* the programs that may be run
  MaxDepth,       \* bound on call_stack, which grows without limit
  MaxChunks,      \* bound on chunks: every load of a module adds some
  MaxTraceback,   \* bound on chunk_traceback: every goto adds one entry
  MaxRuns         \* bound on the driver's calls of vm_execute

Units  == Mains \cup Funcs \cup Mods
Loaded == Mains \cup Mods         \* the units that define functions
Files  == Mods \cup {MainFile}

Instructions ==
       [op : {"step", "return", "raise", "native", "exit"}]
  \cup [op : {"jump", "branch"}, arg : Nat]
  \cup [op : {"call"}, arg : Funcs]
  \cup [op : {"load"}, arg : Mods]
  \cup [op : {"goto"}, arg : Units, at : Nat]

(* What the bytecode generator guarantees of a program: addresses stay     *)
(* inside their unit, and a function cannot run past its last OP_RETURN.   *)
Addresses(p, u) == IF u \in Funcs THEN 0 .. Len(p.code[u]) - 1 ELSE 0 .. Len(p.code[u])

IsProgram(p) ==
  /\ p \in [code : [Units -> Seq(Instructions)], defs : [Loaded -> Seq(Funcs)]]
  /\ \A u \in Units : \A k \in 1 .. Len(p.code[u]) :
       LET i == p.code[u][k] IN
         /\ i.op \in {"jump", "branch"} => i.arg \in Addresses(p, u)
         /\ i.op = "goto" => i.at \in Addresses(p, i.arg)
  /\ \A f \in Funcs : /\ p.code[f] # <<>>
                      /\ p.code[f][Len(p.code[f])].op = "return"

ASSUME ProgramsAssumption == \A p \in Programs : IsProgram(p)
ASSUME UnitsAssumption ==
  /\ Mains \cap Funcs = {} /\ Mains \cap Mods = {} /\ Funcs \cap Mods = {}
  /\ MainFile \notin Mods /\ NoFile \notin Files
ASSUME BoundsAssumption ==
  MaxDepth \in Nat /\ MaxChunks \in Nat /\ MaxTraceback \in Nat /\ MaxRuns \in Nat

VARIABLES
  prog,              \* the program being run
  chunks,            \* vm->chunks: unit, saved pc and source file of each
  chunk_id,          \* the current chunk, 0 for the code's -1
  pc,                \* vm->pc, from 0 as in the code
  chunk_traceback,   \* suspended chunks
  call_stack,        \* return_addr of every frame
  func_chunk,        \* the chunk of the function value in globals, 0 for none
  sf_traceback,      \* suspended source files
  source_filename,   \* the file that error messages name
  nest,              \* module loads whose vm_execute is on the C stack
  status,            \* "idle", or "running" inside the driver's vm_execute
  running, error, error_from_native,   \* the flags of the same name
  result,            \* the VMError the last instruction returned: OK or not
  runs,              \* calls of vm_execute by the driver so far
  callers,           \* history: the activations suspended in this run
  stopped_by         \* history: what cleared running in this run

chunkVars  == <<chunks, chunk_id, pc, chunk_traceback>>
sourceVars == <<sf_traceback, source_filename>>
flagVars   == <<running, error, error_from_native, result, stopped_by>>
driverVars == <<nest, status, runs>>
vars == <<prog, chunkVars, call_stack, func_chunk, sourceVars, flagVars,
          driverVars, callers>>

----------------------------------------------------------------------------
(* Chunks.  The four registers are passed as one record.                   *)

Regs == [chunks |-> chunks, id |-> chunk_id, pc |-> pc, tb |-> chunk_traceback]

SetRegs(r) ==
  /\ chunks' = r.chunks
  /\ chunk_id' = r.id
  /\ pc' = r.pc
  /\ chunk_traceback' = r.tb

save_chunk(r) ==
  IF r.id = 0 THEN r ELSE [r EXCEPT !.chunks[r.id].chunk_pc = r.pc]

(* Mutant: entering the chunk one is in already leaves no trace. *)
step_chunk_unless_same(r, id) ==
  LET s == save_chunk(r) IN
    [s EXCEPT !.tb = IF r.id \in {0, id} THEN @ ELSE Append(@, r.id),
              !.id = id,
              !.pc = s.chunks[id].chunk_pc]

(* Suspend the current chunk and go on where chunk id was left. *)
step_chunk(r, id) ==
  LET s == save_chunk(r) IN
    [s EXCEPT !.tb = IF r.id = 0 THEN @ ELSE Append(@, r.id),
              !.id = id,
              !.pc = s.chunks[id].chunk_pc]

(* Mutant: the pc is left as it is. *)
back_chunk_keeping_pc(r) ==
  IF r.id = 0 \/ r.tb = <<>> THEN r
  ELSE [save_chunk(r) EXCEPT !.tb = SubSeq(@, 1, Len(@) - 1), !.id = r.tb[Len(r.tb)]]

(* Mutant: the chunk starts from its first instruction again. *)
back_chunk_again(r) ==
  IF r.id = 0 \/ r.tb = <<>> THEN r
  ELSE [save_chunk(r) EXCEPT !.tb = SubSeq(@, 1, Len(@) - 1), !.id = r.tb[Len(r.tb)], !.pc = 0]

(* Resume the chunk suspended last, at the pc saved in the chunk. *)
back_chunk(r) ==
  IF r.id = 0 \/ r.tb = <<>> THEN r
  ELSE LET s  == save_chunk(r)
           id == r.tb[Len(r.tb)]
       IN  [s EXCEPT !.tb = SubSeq(@, 1, Len(@) - 1),
                     !.id = id,
                     !.pc = s.chunks[id].chunk_pc]

new_chunk(u, file) == [unit |-> u, chunk_pc |-> 0, file |-> file]

(* The chunks vm_load_bytecode adds for unit u: its own, then one for each *)
(* function it defines, all of them with the current source file.          *)
LoadedChunks(u, file) ==
  << new_chunk(u, file) >>
    \o [k \in 1 .. Len(prog.defs[u]) |-> new_chunk(prog.defs[u][k], file)]

(* Mutant: the chunk number is read after the next chunk was made. *)
LoadedFuncs_late(u) ==
  [f \in Funcs |->
     LET ks == {k \in 1 .. Len(prog.defs[u]) : prog.defs[u][k] = f} IN
       IF ks = {} THEN func_chunk[f]
       ELSE Len(chunks) + 2 + (CHOOSE k \in ks : \A j \in ks : j <= k)]

(* Function values of globals after the load; a later definition wins.     *)
LoadedFuncs(u) ==
  [f \in Funcs |->
     LET ks == {k \in 1 .. Len(prog.defs[u]) : prog.defs[u][k] = f} IN
       IF ks = {} THEN func_chunk[f]
       ELSE Len(chunks) + 1 + (CHOOSE k \in ks : \A j \in ks : j <= k)]

(* vm_load_bytecode from registers r, then the start of vm_execute. *)
Execute(r, u, file) ==
  /\ Len(chunks) + 1 + Len(prog.defs[u]) <= MaxChunks
  /\ Len(chunk_traceback) < MaxTraceback
  /\ SetRegs(step_chunk([r EXCEPT !.chunks = @ \o LoadedChunks(u, file)],
                        Len(chunks) + 1))
  /\ func_chunk' = LoadedFuncs(u)
  /\ running' = TRUE
  /\ error' = FALSE
  /\ result' = "OK"

----------------------------------------------------------------------------
(* Source files.                                                           *)

(* Mutant: nothing to record when the file does not change. *)
vm_set_source_info_if_new(file) ==
  IF file = source_filename THEN UNCHANGED sourceVars
  ELSE /\ sf_traceback' = Append(sf_traceback, source_filename)
       /\ source_filename' = file

vm_set_source_info(file) ==
  /\ sf_traceback' = Append(sf_traceback, source_filename)
  /\ source_filename' = file

(* Mutant: the entry is read but not removed. *)
vm_back_source_info_keeping ==
  IF sf_traceback = <<>> THEN UNCHANGED sourceVars
  ELSE source_filename' = sf_traceback[Len(sf_traceback)] /\ UNCHANGED sf_traceback

vm_back_source_info ==
  IF sf_traceback = <<>> THEN UNCHANGED sourceVars
  ELSE /\ source_filename' = sf_traceback[Len(sf_traceback)]
       /\ sf_traceback' = SubSeq(sf_traceback, 1, Len(sf_traceback) - 1)

(* The flags vm_error sets; who stopped_by the error is kept as history. *)
vm_error(who) ==
  /\ error' = TRUE
  /\ running' = FALSE
  /\ result' = "error"
  /\ stopped_by' = who

----------------------------------------------------------------------------
(* One instruction of vm_execute.                                          *)

Here == chunks[chunk_id].unit
Code == prog.code[Here]

(* The loop of vm_execute goes on; fetching increments pc and saves it.    *)
Fetch   == status = "running" /\ running /\ pc < Len(Code)
Instr   == Code[pc + 1]
Fetched == save_chunk([Regs EXCEPT !.pc = @ + 1])

Suspend == callers' = Append(callers, [unit |-> Here, at |-> pc + 1])
Resume  == callers' = IF callers = <<>> THEN <<>>
                      ELSE SubSeq(callers, 1, Len(callers) - 1)

Init ==
  /\ prog \in Programs
  /\ chunks = <<>> /\ chunk_id = 0 /\ pc = 0
  /\ chunk_traceback = <<>> /\ call_stack = <<>>
  /\ func_chunk = [f \in Funcs |-> 0]
  /\ sf_traceback = <<NoFile>> /\ source_filename = MainFile
  /\ nest = 0 /\ status = "idle" /\ runs = 0
  /\ running = FALSE /\ error = FALSE /\ error_from_native = FALSE
  /\ result = "OK" /\ stopped_by = "none"
  /\ callers = <<>>

(* execute_file, or one line of run_repl: load the unit, call vm_execute.  *)
Start ==
  /\ status = "idle" /\ runs < MaxRuns
  /\ \E u \in Mains : Execute(Regs, u, source_filename)
  /\ status' = "running" /\ runs' = runs + 1
  /\ callers' = <<>> /\ stopped_by' = "none"
  /\ UNCHANGED <<prog, call_stack, sourceVars, error_from_native, nest>>

Step ==
  /\ Fetch /\ Instr.op = "step"
  /\ SetRegs(Fetched)
  /\ UNCHANGED <<prog, call_stack, func_chunk, sourceVars, flagVars, driverVars, callers>>

(* OP_JUMP, and the conditional jumps when they jump. *)
Jump ==
  /\ Fetch /\ Instr.op \in {"jump", "branch"}
  /\ SetRegs([Fetched EXCEPT !.pc = Instr.arg])
  /\ UNCHANGED <<prog, call_stack, func_chunk, sourceVars, flagVars, driverVars, callers>>

FallThrough ==
  /\ Fetch /\ Instr.op = "branch"
  /\ SetRegs(Fetched)
  /\ UNCHANGED <<prog, call_stack, func_chunk, sourceVars, flagVars, driverVars, callers>>

(* An instruction that ends in vm_error: a type error, a division by zero, *)
(* an undefined variable, a module that cannot be read or parsed.          *)
Raise ==
  /\ Fetch /\ Instr.op = "raise"
  /\ SetRegs(Fetched)
  /\ vm_error("code")
  /\ UNCHANGED <<prog, call_stack, func_chunk, sourceVars, error_from_native, driverVars, callers>>

(* Mutant: the flag is set before the call and not reset after it. *)
Native_flag_stays ==
  /\ Fetch /\ Instr.op = "native"
  /\ SetRegs(Fetched)
  /\ error_from_native' = TRUE
  /\ UNCHANGED <<prog, call_stack, func_chunk, sourceVars, running, error, result, stopped_by, driverVars, callers>>

(* OP_CALL of a native function that succeeds. *)
Native ==
  /\ Fetch /\ Instr.op = "native"
  /\ SetRegs(Fetched)
  /\ error_from_native' = FALSE
  /\ UNCHANGED <<prog, call_stack, func_chunk, sourceVars, running, error, result, stopped_by, driverVars, callers>>

(* OP_CALL of a native function that calls vm_error: an early return.      *)
NativeFails ==
  /\ Fetch /\ Instr.op = "native"
  /\ SetRegs(Fetched)
  /\ vm_error("native")
  /\ error_from_native' = TRUE
  /\ UNCHANGED <<prog, call_stack, func_chunk, sourceVars, driverVars, callers>>

(* OP_CALL of the builtin exit. *)
Exit ==
  /\ Fetch /\ Instr.op = "exit"
  /\ SetRegs(Fetched)
  /\ running' = FALSE
  /\ stopped_by' = "exit"
  /\ error_from_native' = FALSE
  /\ UNCHANGED <<prog, call_stack, func_chunk, sourceVars, error, result, driverVars, callers>>

(* OP_CALL of a function value. *)
Call ==
  /\ Fetch /\ Instr.op = "call" /\ func_chunk[Instr.arg] # 0
  /\ Len(call_stack) < MaxDepth /\ Len(chunk_traceback) < MaxTraceback
  /\ call_stack' = Append(call_stack, pc + 1)
  /\ vm_set_source_info(chunks[func_chunk[Instr.arg]].file)
  /\ SetRegs([step_chunk(Fetched, func_chunk[Instr.arg]) EXCEPT !.pc = 0])
  /\ Suspend
  /\ UNCHANGED <<prog, func_chunk, flagVars, driverVars>>

(* OP_CALL of a name that is not defined. *)
CallUndefined ==
  /\ Fetch /\ Instr.op = "call" /\ func_chunk[Instr.arg] = 0
  /\ SetRegs(Fetched)
  /\ vm_error("code")
  /\ UNCHANGED <<prog, call_stack, func_chunk, sourceVars, error_from_native, driverVars, callers>>

(* OP_RETURN with a frame: pc gets return_addr, which back_chunk then      *)
(* saves in the callee's chunk and replaces by the caller chunk's saved pc.*)
Return ==
  /\ Fetch /\ Instr.op = "return" /\ call_stack # <<>>
  /\ SetRegs(back_chunk([Fetched EXCEPT !.pc = call_stack[Len(call_stack)]]))
  /\ call_stack' = SubSeq(call_stack, 1, Len(call_stack) - 1)
  /\ IF sf_traceback = <<>> THEN source_filename' = NoFile /\ UNCHANGED sf_traceback
                            ELSE vm_back_source_info
  /\ Resume
  /\ UNCHANGED <<prog, func_chunk, flagVars, driverVars>>

(* OP_RETURN without a frame returns VM_OK and changes nothing. *)
ReturnAtTop ==
  /\ Fetch /\ Instr.op = "return" /\ call_stack = <<>>
  /\ SetRegs(Fetched)
  /\ UNCHANGED <<prog, call_stack, func_chunk, sourceVars, flagVars, driverVars, callers>>

(* The chunks a unit has been loaded into. *)
ChunksOf(u) == {c \in 1 .. Len(chunks) : chunks[c].unit = u}

(* OP_GOTO_BLOCK: create_block kept the chunk of the first definition.     *)
Goto ==
  /\ Fetch /\ Instr.op = "goto" /\ ChunksOf(Instr.arg) # {}
  /\ Len(chunk_traceback) < MaxTraceback
  /\ LET c == CHOOSE c \in ChunksOf(Instr.arg) : \A d \in ChunksOf(Instr.arg) : c <= d
     IN  SetRegs([step_chunk(Fetched, c) EXCEPT !.pc = Instr.at])
  /\ UNCHANGED <<prog, call_stack, func_chunk, sourceVars, flagVars, driverVars, callers>>

GotoUndefined ==
  /\ Fetch /\ Instr.op = "goto" /\ ChunksOf(Instr.arg) = {}
  /\ SetRegs(Fetched)
  /\ vm_error("code")
  /\ UNCHANGED <<prog, call_stack, func_chunk, sourceVars, error_from_native, driverVars, callers>>

(* OP_LOAD_MODULE up to the start of the nested vm_execute.                *)
LoadModule ==
  /\ Fetch /\ Instr.op = "load"
  /\ vm_set_source_info(Instr.arg)
  /\ Execute(Fetched, Instr.arg, Instr.arg)
  /\ nest' = nest + 1
  /\ Suspend
  /\ UNCHANGED <<prog, call_stack, error_from_native, stopped_by, status, runs>>

----------------------------------------------------------------------------
(* The loop of a vm_execute ends: no instruction is left, or running was   *)
(* cleared.                                                                *)

LoopOver == status = "running" /\ ~(running /\ pc < Len(Code))

(* Mutant: the chunk of the unit that loads is not brought back. *)
ModuleEnds_in_place ==
  /\ LoopOver /\ nest > 0 /\ result = "OK"
  /\ vm_back_source_info
  /\ nest' = nest - 1
  /\ Resume
  /\ UNCHANGED <<prog, chunkVars, call_stack, func_chunk, flagVars, status, runs>>

(* The nested vm_execute returned VM_OK: load_source_file goes back to the *)
(* chunk and the file of the unit that loads.                              *)
ModuleEnds ==
  /\ LoopOver /\ nest > 0 /\ result = "OK"
  /\ SetRegs(back_chunk(Regs))
  /\ vm_back_source_info
  /\ nest' = nest - 1
  /\ Resume
  /\ UNCHANGED <<prog, call_stack, func_chunk, flagVars, status, runs>>

(* The nested vm_execute returned an error: load_source_file returns it as *)
(* a bool, TRUE, so OP_LOAD_MODULE returns VM_OK.                          *)
ModuleFails ==
  /\ LoopOver /\ nest > 0 /\ result = "error"
  /\ nest' = nest - 1
  /\ result' = "OK"
  /\ UNCHANGED <<prog, chunkVars, call_stack, func_chunk, sourceVars, running, error,
                 error_from_native, stopped_by, status, runs, callers>>

(* The driver's vm_execute returns result. *)
End ==
  /\ LoopOver /\ nest = 0
  /\ status' = "idle"
  /\ UNCHANGED <<prog, chunkVars, call_stack, func_chunk, sourceVars, flagVars,
                 nest, runs, callers>>

Next ==
  \/ Start \/ Step \/ Jump \/ FallThrough \/ Raise \/ Native \/ NativeFails \/ Exit
  \/ Call \/ CallUndefined \/ Return \/ ReturnAtTop \/ Goto \/ GotoUndefined
  \/ LoadModule \/ ModuleEnds \/ ModuleFails \/ End

Spec == Init /\ [][Next]_vars

(* vm_execute is a loop on one thread: it takes a step whenever it can.    *)
FairSpec == Spec /\ WF_vars(Next)

----------------------------------------------------------------------------
(* Properties.                                                             *)

Chunk == [unit : Units, chunk_pc : Nat, file : Files]

RegsOK(r) ==
  /\ r.chunks \in Seq(Chunk)
  /\ r.id \in 0 .. Len(r.chunks)
  /\ r.pc \in Nat
  /\ r.tb \in Seq(1 .. Len(r.chunks))

(* Every variable has its type; chunk numbers are those of loaded chunks,  *)
(* whatever unit is loaded again and whatever function is defined again.   *)
TypeOK ==
  /\ IsProgram(prog)
  /\ RegsOK(Regs)
  /\ call_stack \in Seq(Nat)
  /\ func_chunk \in [Funcs -> 0 .. Len(chunks)]
  /\ sf_traceback \in Seq(Files \cup {NoFile})
  /\ source_filename \in Files \cup {NoFile}
  /\ nest \in Nat /\ runs \in 0 .. MaxRuns
  /\ status \in {"idle", "running"}
  /\ status = "running" => chunk_id # 0
  /\ running \in BOOLEAN /\ error \in BOOLEAN /\ error_from_native \in BOOLEAN
  /\ result \in {"OK", "error"}
  /\ stopped_by \in {"none", "code", "native", "exit"}
  /\ callers \in Seq([unit : Units, at : Nat])

(* Whatever the program does (gotos, recursion through other functions,    *)
(* returns at the top level of a module, errors left behind in a REPL),    *)
(* every frame and every module load in progress still has a suspended     *)
(* chunk to go back to: back_chunk never takes its early return, which     *)
(* would leave a caller's address in the callee's code.                    *)
TracebackCoversFrames ==
  Len(chunk_traceback) >= Len(call_stack) + nest

(* The source file that error messages and load_module's search path use   *)
(* is always known: vm_back_source_info never reads sfp[-1] and OP_RETURN  *)
(* never leaves source_filename null.                                      *)
SourceKnown ==
  source_filename \in Files

(* The traceback of source files has an entry under every frame and every  *)
(* load in progress, and one more, the first, which is never restored;     *)
(* all above it are files.  With TypeOK and the two properties above this  *)
(* is inductive.                                                           *)
SourcesCoverFrames ==
  /\ Len(sf_traceback) > Len(call_stack) + nest
  /\ \A k \in 2 .. Len(sf_traceback) : sf_traceback[k] \in Files

IInv == TypeOK /\ TracebackCoversFrames /\ SourcesCoverFrames /\ SourceKnown

(* Error messages name the right file: the two tracebacks, of chunks and   *)
(* of source files, are kept by different functions and stay in step, so   *)
(* the current source file is the one the running chunk was loaded from.   *)
SourceFollowsChunk ==
  status = "running" /\ running => source_filename = chunks[chunk_id].file

(* A message says "from native function" exactly when a native raised it.  *)
ErrorAttributed ==
  error => (error_from_native <=> stopped_by = "native")

(* The run of a file that neither an error nor exit stopped has undone all *)
(* that it did: no frame, no suspended chunk and no source file is left,   *)
(* however calls, returns and loads followed one another.  What a stopped  *)
(* run leaves, nothing removes, and the next line of a REPL finds it.      *)
LeavesNothing ==
  status = "idle" /\ stopped_by = "none" =>
    /\ call_stack = <<>> /\ chunk_traceback = <<>> /\ nest = 0
    /\ sf_traceback = <<NoFile>> /\ source_filename = MainFile

(* The activations of the run in progress, the innermost last. *)
Acts == IF status = "running" /\ running
        THEN Append(callers, [unit |-> Here, at |-> pc])
        ELSE <<>>

(* Calls, loads and returns are those of a stack of activations: every     *)
(* activation goes on where it was suspended.                              *)
Promised == INSTANCE Activations WITH acts <- Acts

ActivationsSpec == Promised!Spec

(* The units that u calls and loads, and those that they do in turn. *)
Enters(u) == {prog.code[u][k].arg : k \in {k \in DOMAIN prog.code[u] : prog.code[u][k].op \in {"call", "load"}}}

Reaches(u) ==
  LET within[n \in Nat] == IF n = 0 THEN Enters(u)
                           ELSE UNION {{v} \cup Enters(v) : v \in within[n - 1]}
  IN  within[Cardinality(Units)]

(* Neither a goto nor a jump back, and no unit reaches itself. *)
Downward ==
  \A u \in Units :
    /\ \A k \in DOMAIN prog.code[u] :
         /\ prog.code[u][k].op # "goto"
         /\ prog.code[u][k].op \in {"jump", "branch"} => prog.code[u][k].arg >= k
    /\ u \notin Reaches(u)

(* A program whose units call and load down an order, or call themselves:  *)
(* no gotos, returns in functions only, and nothing suspended is entered   *)
(* again except by its own recursive call.                                 *)
Descends(p, rank) ==
  \A u \in Units : \A k \in DOMAIN p.code[u] :
    LET i == p.code[u][k] IN
      /\ i.op # "goto"
      /\ i.op = "return" => u \in Funcs
      /\ i.op \in {"call", "load"} =>
           rank[i.arg] < rank[u] \/ (i.op = "call" /\ i.arg = u)

Orderly(programs) ==
  \A p \in programs : \E rank \in [Units -> Nat] : Descends(p, rank)

(* Every run of a program without loops and recursion comes to an end,     *)
(* whatever the line before it left behind: no call, return or load in     *)
(* vm_execute goes back to an instruction that was executed.               *)
RunsTerminate == status = "running" /\ Downward ~> status = "idle"

=============================================================================
