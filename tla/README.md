# A TLA+ model of the sblang interpreter

sblang is a small scripting language: a lexer and a parser turn text into a
syntax tree, `bytecode/bytecode.c` turns the tree into bytecode, and
`vm/vm.c` loads the bytecode into chunks and interprets it, with a
mark-and-sweep collector, native functions, modules and a REPL. This directory
holds TLA+ modules that model the parts of it where state is hard to keep
right, TLC configurations that check them, and proofs checked by TLAPS.

## 1. The system

| component | state | operations | talks to |
|---|---|---|---|
| execution control (`vm/vm.c` 326-392, 1498-1586, 1908-1992, 2157-2864, 3180-3206) | chunks with one saved `pc` each, `chunk_id`, `chunk_traceback`, `call_stack`, `locals`, `source_info` and its index, `running`, `error` | `vm_execute`, jumps, `OP_CALL`, `OP_RETURN`, `OP_GOTO_BLOCK`, `OP_LOAD_MODULE`, `vm_error` | loader (chunks), natives, driver |
| memory (`vm/vm.c` 909-1209, 3452-3694) | `gc_objects`, `gc_bytes_allocated`, `gc_threshold`, the C heap | `gc_alloc`, `vm_gc_collect`, `copy_value`, `free_value_gc`, `free_value` | every instruction that makes, copies or drops a value |
| variables (`vm/vm.c` 99-217, 1621-1713) | `globals`, `locals`, the table saved in every frame | `add_variable`, `vm_set_variable`, `vm_get_variable`, the update of `_` after every instruction | memory, calls |
| lists and structures (`vm/vm.c` 783-875, 2574-2609, 2877-3161) | items, count, capacity; members | `OP_LIST_*`, `OP_STRUCT_*`, `OP_MEMBER_*`, list built-ins | memory |
| arithmetic, comparisons (`vm/vm.c` 2212-2457) | the operand stack | one instruction per operator | values, errors |
| generator (`bytecode/bytecode.c` 193-884) | instructions, `current_addr`, the static `loop`, `loop_start`, `loop_end` | one case of `generate_statement` and `generate_expression` per kind of node, backfilling of jumps | parser's tree, loader |
| loader (`vm/vm.c` 3211-3427) | `jmp_offset`, the chunk being filled, `functions`, `blocks` | split into chunks, relocation of jumps, definition of functions | generator, execution control |
| bytecode files (`bytecode/bytecode.c` 998-1305) | a file | `save_bytecode`, `load_bytecode` | generator, loader |
| module search (`vm/vm.c` 1720-2115) | paths, source information | tries several formats in an order | loader, execution control, errors |
| driver and REPL (`sbl.c`) | the VM that survives from line to line, the text typed so far | run a file, read and join lines, compile | everything |
| errors (`error/error.c`) | `error`, `last_error`, `error_from_native`; `syntaxErrorDetector`, `incomplete_syntax`, `repl_check_syntax` | `vm_error`, `syntaxError`, `require_semicolon`, `reset_error` | everything |
| parser (`parser/parser.c`) | the tokens, a position, the tree, the flags of `error.c` | one function per construct, by recursive descent | REPL, generator |
| lexer (`lexer/lexer.c`) | a buffer, modes for numbers, strings and notes, the line | `_sbPreLexer`: characters to tokens; `_sbLexer`: joins numbers and operators | parser, REPL |
| built-ins, math | none of their own | native functions | values, lists, errors |

One thread runs all of it, so nothing is interleaved by a scheduler. What is
hard comes from elsewhere: state that must be saved and restored in pairs
across calls, modules, errors and REPL lines (`chunk_traceback`, frames, source
information, flags); static variables that outlive the call that set them;
addresses computed in the generator and corrected in the loader; a flag
(`incomplete_syntax`) that forty recursive functions set and put back; and a
collector that runs inside any allocation and does not see what a handler holds
in C variables.

What makes the parts correct:

* *execution control*: calls and returns nest like activations, every pop has
  its push, errors name the right file and origin, a failed load is seen by the
  loader, a run that nothing stopped leaves nothing behind, programs without
  loops end;
* *generator and loader*: a loaded chunk does what the text says, jumps stay
  in the code, `break` and `continue` are accepted exactly in loops;
* *memory*: nothing in use is freed, nothing is used or freed after it was
  freed, no string has two owners, the accounting covers what is allocated;
* *parser and REPL*: more lines are asked for exactly while a statement is
  unfinished, a text is refused exactly when a statement of it is wrong, the
  parser comes to an end;
* *expressions*: the code of a text computes what the text means, takes no operand
  that is not its own, leaves one value per expression statement, and stays in
  the memory of its lists;
* *files, module search*: a file runs as the text it was compiled from, a
  load ends with the file its order prescribes, files tried before leave no trace,
  no failure is forgotten;
* *lexer*: joining loses and moves no character, a text gives the tokens that were
  written, with the characters its escapes stand for, every token knows its line.

## 2. Modules

| module | models |
|---|---|
| `Activations` | abstract: a stack of activations, each with its own return address |
| `VMControl` | the chunk machine of `vm/vm.c`, with errors, modules, gotos, source information, natives and the lines of a session |
| `MCVMControl` | sets of programs and bounds for it |
| `VMControlProofs` | theorems about it, also as an implementation of `Activations` |
| `Structured` | the meaning of the syntax tree as far as control goes |
| `Codegen` | `generate_statement`, one action per case |
| `Compiled` | generator, loader and run of a chunk beside the text it came from |
| `MCCompiled` | sets of texts for it |
| `CodegenProofs` | theorems about the generator, over any number of lines |
| `CompiledProofs` | a theorem about generator, loader and run together |
| `GcHeap` | objects, the collector, and the handlers that allocate and free |
| `MCGcHeap` | sets of instructions and bounds for it |
| `GcHeapProofs` | theorems about it |
| `Parser` | the parse functions of `parser/parser.c`: what they accept, refuse or leave unfinished |
| `Repl` | the lines of a session of `run_repl` |
| `MCRepl` | sessions for it |
| `BytecodeFile` | `save_bytecode` and `load_bytecode`: what is written of a program and read back |
| `ModuleSearch` | `load_module` over a disk of libraries, bytecode and sources, with the compiler that leaves bytecode there |
| `MCModuleSearch` | disks for it |
| `ModuleSearchProofs` | theorems about it |
| `Scripts` | abstract: the syntax trees of programs without control flow |
| `Meaning` | abstract: what such a program means, with lists as sequences and scopes as environments |
| `Lists` | the memory of a list and the operations on it |
| `ListsProofs` | theorems about them |
| `Expressions` | the generator for expressions and statements without control flow |
| `Values` | values, and the operations on them that touch no memory |
| `Evaluation` | one action per instruction of an expression, beside the meaning of the text |
| `MCEvaluation` | sets of programs for it |
| `Lexer` | `_sbPreLexer` and `_sbLexer` |
| `MCLexer` | texts for it |
| `LexerProofs` | theorems about it |
| `CommonLemmas` | induction over numbers, and `FlattenSeq`, for the proofs |

`VMControl` is instantiated over `Activations` by a refinement mapping that
keeps, of the registers, the frames and the chunks, a stack of unit and address pairs.
`Compiled` extends `Codegen`, which extends `Structured`; `Repl` extends `Parser`;
`ModuleSearch` extends `BytecodeFile`; `Evaluation` extends `Expressions`, `Lists`,
`Values` and `Meaning`.

### VMControl

A program is a function from units (the main file, functions, modules, blocks)
to instructions, chosen in `Init` from the constant `Programs`, so the theorems
hold for every program. The variables `pc`, `chunk_id`, `chunks`,
`chunk_traceback`, `call_stack`, `source_info` and so on are the fields
of `_sbVM`. `step_chunk`, `back_chunk`, `save_chunk`, `new_chunk`,
`vm_set_source_info`, `vm_back_source_info` and `vm_error` are operators from
registers to registers, named as in the code, and an action is the handler of
one instruction, made of the calls the handler makes, in their order. A C
recursion (`load_source_file` calls `vm_execute`) is a stack of the loops that
are open. Values are left out: a condition may turn out either way, a native may
succeed or fail, and a name may be undefined.

### Structured, Codegen, Compiled

The generator's C recursion is a stack of tasks in `work`; the three static
variables are not reset when a new generator starts. The code of a statement
without control, and of a condition, is a single instruction here, so an address
that is wrong by two instructions is wrong by two statements; that a wrong jump
in the program may also land in the middle of an expression is left out. The
loader is a loop over the code with the code's own counters. A chunk then runs
beside its text: both are driven by the same outcomes of conditions, and
`FollowsText` compares what they do at every statement, condition and end.

### GcHeap

The handler of an instruction is the sequence of calls it makes, with the C
variables it keeps; each call is one step, so a collection falls between
exactly the calls it falls between in the program. Addresses are reused as
`malloc` may reuse them. Touching freed memory sets `fault`, and stops the
machine, for what happens then is undefined. A size is counted as one
object, so `BytesCoverObjects` says nothing of the sizes themselves. A free by hand takes whatever object
`gc_objects` has at that address (`TrackedWhere`). An instance of a structure is a list with other instructions. The index of a
list access is not on the stack; a function has one parameter.

### Parser, Repl

A parse function is an operator from parser states to parser states: the
position, the flags and the kind of the node it returned. The recursion is that
of the code, so these operators are RECURSIVE (the functions that call each
other in a circle go through `parse`) and the two modules are for TLC only. The binary operators of one level are represented by one or two of them, as
the functions for them differ in nothing else, and a name and a number stand for
all. Three things that the code does on wrong texts are recorded in `broken` and not
continued: it goes on with a list it freed, parses the same token for ever, or
reads a token that is not there. A session is a sequence of statements, each
of which is typed whole, together with others in one line, or broken into
lines; `ReadLine`, `ReadMore`, `Check` and `Compile` are the parts of the loop of
`run_repl` between two labels. A line break is no token, so a text is the same
in one line or in several; what is checked is the decision after every line. What runs, and what it leaves to the next
line, is in `VMControl` and `Compiled`. Tokens are given; which lines end
inside a string is in `Lexer`.

### BytecodeFile, ModuleSearch

A file of bytecode is a sequence of the fields that single calls of `fwrite` write.
`compile_file` may leave any beginning of it, for nothing looks at what
`fwrite` returns; `load_bytecode` is modelled for every such beginning,
to the wrong operands it then invents. In `ModuleSearch` the C stack is a
variable: calls of `vm_execute` and `load_module` alternate in it, and the
steps of one are actions (`Step`, `LoadModule`, `LoadBytecodeFile`, `Refused`,
`Fail`, `EndLoop`, ...). A library answers as `dlopen`, `dlsym` and its
initialisation may. Between runs a source may be edited and compiled. Where a file
is read that is no bytecode, `mode` becomes "broken" and the behaviour stops.

### Scripts, Meaning, Lists, Expressions, Values, Evaluation

`Expressions` is the generator as functions from trees to code, `Evaluation` the
handlers of the instructions as actions on the operand stack, the tables of
variables and the objects. `Meaning` evaluates the same text without any of
these: it is the specification, and no definition of it translates code. At
every statement boundary `MeansWhatItSays` compares what variables show and
what was printed, and at the end the kind of error. Numbers are integers, and
operands are chosen so that no result has a fraction; strings are short. `Lists` keeps the
memory a list really has beside the capacity it believes in, and `size_t` has the width
`SizeLimit`. The C code of an operand that is missing or doubled is modelled as it
is, so a program that has one takes whatever lies on the stack.

### Lexer

A text is what there is of a script so far; a script is written in pieces (lexemes,
blanks, notes), so that it is known what the tokens should be. A token keeps
the places of its characters in the text, which tells what becomes of every
one. An escape is kept as the place where it ends, and `meant` has there the character it stands for: `\n` and the
like as `backslash` has them (`Sign`), and a code `\xNN` as the character that its digits count by tens, with letters from 5 to 10 (`Code`), as
`lexer.c` 502-543 reckons: `\x4a` is `-` and `\x1b` is 16. `\x00` puts a NUL into the buffer, and tokens are copied with `strcpy`
(17-21), so a token ends before it (`UpToNul`) and a buffer that begins with it passes for empty (`Idle`). `WellWritten` says how each kind of lexeme, gap and string is written and what must not stand behind it
(a word is not followed by a letter); `MCLexer` evaluates it of all its texts without a code of NUL. The modes of `_sbPreLexer` (`nummode`, `hexmode`, `strmode`, the two loops over
notes) are one variable, since they exclude each other; an action is one case of the
switch. `_sbLexer` tries its operators one after the other on the token in hand,
which `rank` counts. The end of a note that is not found is `mode` "beyond".
What the model makes of all texts of `lexer` was compared with what
`lexer/lexer.c`, compiled, makes of them: types, characters, lines and refusals agree.

## 3. What the runs check

Liveness is checked in `control_any`, `compiled_sound` and `module_files`, safety
in all runs. Deadlock is checked in `lexer`, which goes on until the text is read; elsewhere
programs, sessions and bounded counters end.

| run | question | result |
|---|---|---|
| `control_ordered` | On programs whose calls and loads go down an order: does the chunk machine implement activations, name the right file, and attribute errors rightly? | yes |
| `control_any` | With gotos between units, mutual recursion, returns at top level and errors left behind: is the traceback ever popped when empty, or the source information read out of range? Do programs without backward jumps and recursion end? | never; yes |
| `control_mutual` | Do calls and returns nest in all programs? | no: one saved `pc` per chunk |
| `compiled_sound` | On text without nested loops, without `continue` in `for`, and with jumps only where relocation is right: does the loaded code follow the text? | yes, in sessions of two lines |
| `compiled_after` | And with a loop after a function? | no: the loader's offset is wrong |
| `heap_values` | Below the threshold: do variables, calls, lists and instances free each string exactly when it is no longer used, and own it alone? | yes |
| `heap_collect` | With instructions that keep what they use on the stack while they allocate: does a collection free only garbage? | yes |
| `heap_locals` | And with calls? | no: locals of callers are not roots |
| `repl_lines` | With statements of every kind broken into lines: does the REPL ask for more exactly when it must, and refuse exactly what is wrong? | yes |
| `module_files` | With every mixture of files for a module, an edit and a compilation that may be cut short: which file runs, as what, and what becomes of failures? | the first usable one of the order, as it was compiled; none is forgotten |
| `expressions` | Over operators, calls, lists and structures: does the generated code do what the text means? | yes |
| `lexer` | Over lexemes with anything between them, cut strings, escapes and codes of NUL: are the tokens those that were written, with the characters the escapes stand for? | yes, without codes of NUL |

Each passing property has a mutant in `PROJECT.json`: an operator beside the
one it replaces, with a comment, under which the property fails.
Each violated one is a finding there, with the line of the repository it contradicts.
The failures were also seen by running the interpreter on small programs.

The programs, texts and sessions of the passing runs are those for which the
code can be relied on as it is. What the limits leave out was tried on the same
modules and fails there; each item is a hazard in `PROJECT.json` with its line:

* *control*: a goto to a label of the same function leaves an entry in the
  traceback; a module that fails is taken for loaded, as an error code is returned as
  a bool; the frames, the scope and `error_from_native` of a line that failed
  are found by the next line, and `exit` does not end the REPL;
* *generator and loader*: nested loops, `continue` in a `for`, and jumps in a
  function that does not start its file go to the wrong place; a `break` is
  accepted or refused by a flag that inner loops and refused lines leave wrong;
* *memory*: above the first threshold (1 MB), `STORE_VAR` of a string and natives
  allocate while what they use is in no root, and the address may come back and
  be freed again (seen in the model only: it depends on `malloc`); `!x` of a list
  frees the list;
* *parser and REPL*: `f(1 2);` leaves the flag set and the REPL asks for ever; a line
  that ends before the `{` of a body is compiled as it is; `[1 2]` frees a list
  and uses it; `{ ) }` and `function f(1)` are parsed for ever; `goto` at the
  end of a text reads a null token; a string whose text is a symbol is
  taken for it, so `print(")");` is refused;
* *files*: a program with a goto is not written or read back as it was; a module that
  loads itself never ends;
* *expressions*: a list or an instance read out of a list is pushed twice; a second assignment to a
  local also changes the global of its name; `x = ;` stores what belongs to something else;
  `l[0] += 5` is generated with the name of no variable; `pop_list` of an empty list
  counts down from zero; a store at a negative index is refused, and one in something that is no list reads
  it as one; the copy of an emptied list has no memory;
* *lexer*: `x - -2` and `x + +y` become `x -- 2` and `x ++ y`; after an operator a fraction
  falls apart (`x + 1.5` is a syntax error, `1 + 1.5` is not, as a number takes the operator after it along);
  a point before a number of two digits overflows a buffer; `**/` does not close a note, and a newline after
  a star in one is not counted; a note that is not closed goes unreported, and one that ends in a star
  is read on behind the text; `\x00` ends the string it is in, and the rest of it is lost;
  a code is not hexadecimal, though `repr` writes characters that are not printable as hexadecimal codes: `'\x1b'` is read as 16.

### Bounds

* `control_*`: two or three units of a few instructions, four frames deep and two lines where lines
  matter. A wrong resume needs a unit entered twice with another in between (three
  entries); a stale flag needs two lines. The programs `RunsTerminate` is about never reach
  the bounds.
* `compiled_*` (beyond what is proved of any text): two statements with jumps in sequence, one inside another, two functions,
  two lines. Relocation errors need one function and one jump; a stale static
  variable needs two lines.
* `heap_*`: four addresses (five where frames need them), five to seven allocations in a
  run, three or four stack entries, one or two calls deep, lists of one item.
  Address reuse needs two allocations around one free; a lost local
  needs one call. Handlers free strings without lowering `gc_bytes_allocated`, so
  `MaxBytes` bounds the allocations of a whole behaviour. A list
  that is copied holds no list. Addresses are symmetric: no action
  and no property tells one from another.
* `repl_*`: eighteen statements, in all sessions of two and many of three, with every way
  to put them into lines. A flag left wrong by one statement shows in the same text, or at the
  next prompt, so two statements are enough; a flag cleared by an inner construct shows when
  a line ends in the outer one after it, so constructs are nested two deep, three with blocks.
* `module_files`: two modules, one edit, one compilation cut at any field, one run. The
  state of a search is the place in it and what the tries before left, so one run with every
  subset of the files shows each order; a module that loads another one from its own directory
  shows the source names. `MaxDepth` is not reached, as no module loads itself.
* `expressions`: eleven thousand programs: each operator on each pair of types, nested twice; one
  function body of a kind and two uses of it; three steps on two names of a list or of structures. An operand
  that is taken from the wrong place shows with one operator in another, a shared list with two names
  and one change. Lists grow from two items, so capacities change at once. `SizeLimit` is far
  above every count.
* `lexer`: two lexemes with every separator, three with a blank or nothing, two strings cut at every place, a code of NUL in a string, and between and before
  other lexemes. The lexer
  keeps nothing of a token but the mode, and the joiner at most two tokens, so what a token does to another one
  shows within three.

### Fairness

`FairSpec` of `VMControl` and of `Compiled` is weak fairness of `Next`, that of `ModuleSearch` weak
fairness of `Run`, the steps of a run without edits and compilations: generator,
loader, `load_module` and `vm_execute` are plain loops on one thread, so as long as a step is
possible one is taken. No fairness between alternatives is assumed: a native, a condition or
an error may always turn out the same way. Nobody has to start a run.

## 4. What is proved

Each theorem below is proved for every value of the constants that satisfies the module's
assumptions and the hypotheses named with it. Where a hypothesis leaves something
out, the code fails there: the hypothesis is the condition under which it can be relied on, a run
checks that its programs satisfy it, and what happens outside of it is listed in section 3.

### Control (`VMControlProofs`)

* `TypeCorrect`: `Spec => []TypeOK`;
* `FramesAreCovered`: `Spec => []TracebackCoversFrames`, so that `back_chunk`,
  which does not look, never pops an empty traceback in a return or at
  the end of a module;
* `SourceIsKnown`: `Spec => []SourceKnown`, so that `vm_back_source_info` never
  reads index -1 and a file name is always there after it;
* `Invariance`: the inductive invariant the three follow from;
* `ActivationsAreLinked`, `Refinement`: for programs that are `Orderly`, the chunk machine
  implements `Activations` (`Spec => ActivationsSpec`): the initial states map to initial states, and
  every action to a step of a stack of activations or to none;
* `SourceFollows`: for the same programs, `SourceFollowsChunk`: the file that messages name is
  the one that runs;
* `NothingIsLeft` and `ErrorsAreAttributed`: `LeavesNothing` and `ErrorAttributed`, for a
  program that is run once (`MaxRuns = 1`). A line after one that failed finds its frames.

`Orderly` says that there is an order on the units in which calls and loads go down, except that a function may call itself, that
only functions return and that there are no gotos. There is one saved `pc` per chunk. In a function that calls itself it is the
return that stores the address of its frame there before it takes it back; but a unit that is entered again by another,
as in mutual recursion, resumes at the wrong place (`control_mutual`). `control_ordered` assumes the same of its programs, as an
assumption TLC evaluates.

None of the safety properties is inductive. That the traceback covers the
frames needs the open loops of modules counted with the frames, in the order
in which they were opened, since a return inside a module must not eat the
entry of the module; that the source is known needs that every frame and loop
has left an entry in the stack of source indices. `Invariance` adds both, and
that every chunk number kept anywhere (traceback, function values, labels) is
that of an existing chunk. The refinement needs, on top of that, that the saved `pc` of every chunk on the traceback is
where its unit goes on, that the units on it descend (`Linked`). The proofs go
action by action; lemmas state what `step_chunk`, `back_chunk`, `new_chunk` and the two source operators do to the
parts the invariant speaks of.

### Generator (`CodegenProofs`)

* `JumpsAreInCode`: `JumpsStayInCode`, for every set of well-formed trees and any number of
  lines, as long as no line is refused inside a loop, or there is only one line (`LeavesFlag`);
* `FlagSaysLoop`: `LoopFlagRight`, where in addition no loop contains a loop or a function (`Unnested`).

The set of trees is any set closed under parts (`Trees`), which is how the parser makes them; there is no bound
on their depth or on the lines. After a line that is refused inside a loop, the static `loop` stays on, and a `break`
of the next line jumps to an address of the line before; the end of an inner loop turns it off in the outer one.

The invariant `Generating` says of the code that is half generated: the jumps without a target are exactly those that some task on the stack will
backfill, one each (`Pending`); the flag is on only inside a loop or before
the condition of a `for`, and then the two static addresses lie in the code (`Looping`). The latter holds before the
condition of a `for` only because its initialisation, which the parser makes an assignment, cannot be a `break`.
`Flagged` adds that what is left to do before the end of a loop is part of its body. The lemmas are about `emit`, placeholder and
`patch_jump` on any code, about one task being replaced by others, and one for each case of `generate_statement`.

### Generator, loader and run (`CompiledProofs`)

* `CodeFollowsText`: `FollowsText`, for every set of texts that is `Reliable` and sessions of any number of lines in which no line is refused inside a loop
  (`LeavesFlag`): the code that `generate_statement` makes, split into chunks and relocated by `vm_load_bytecode`, reaches the statements,
  conditions and ends that the text has, in its order, whatever way the conditions turn out, and in every function of the line.

There is no bound on the size of texts or on how deep they nest. `Reliable` (in `Compiled`) says of the trees that

* no loop has a loop or a function in it, and no `for` a `continue`: `loop_start`, `loop_end` and `loop` are static, and an inner loop overwrites them;
  `continue` in a `for` jumps to the condition, past the update;
* functions stand at the top of a line, have names of their own there, and only they return;
* only the first statement may be a function with jumps in it, and no jump stands behind a function: that is where the loader's offset is right.
  `compiled_after` shows one that stands elsewhere.

`compiled_sound` assumes that its own texts are `Reliable` (`SoundIsReliable`, evaluated by TLC), so the hypothesis can be met, and by texts with all kinds of statements.

The proof gives each address of the code a label: what is left to do there of the text, for either value on top of the operand stack. Code and text do not
keep the same pace, for the text has steps that the code has not (entering a block, going round a loop), so labels are not rests of the text but
classes of rests that such silent steps connect (`Class`). That each instruction leads from its label to the next one's
is said of one instruction (`Does`), and that a jump leads to its target's label of another place (`Goes`), since it does not hold before
the jump is backfilled. Three invariants follow the three stages:

* `Faith`, while code is generated: the code so far is right for its labels, except for the jumps that tasks still have to backfill; and every task of the
  recursion knows what is left when it is done (`Threads`), a jump that waits for it what is left where it will go (`Aim`). Behind a `return` or a jump
  nothing is asked of the next label, so code that no run reaches keeps the label of the text it was made of;
* `Reached`, while it is loaded: a chunk has labels of its own, which are those of the code at the places its instructions came from. Relocation is
  right where the offset is the number of instructions that went to other chunks; the hypothesis on functions says where the code's counters are that number;
* `Running`: the rest of the text is in the class of the label at `pc` of the chunk that runs.

Each is proved step by step of its stage. A label also says where the loader will place its address: in the chunk of which function
(`of`), at which address of it (`place`), and where the code around the function goes on (`back`).

### Memory (`GcHeapProofs`)

* `BytesAreEnough`: `BytesCoverObjects`, for all instructions and thresholds;
* `ObjectsAreTracked`: `TrackedIsAllocated`, where only null and numbers are negated (`Negated`): `!x` of a
  string or list calls `free_value`, which frees memory and leaves it in `gc_objects`;
* `RootedNeverDangles`, `RootedNeverFaults`, `RootedNeverShares`: `NoDangling`, `NoFault` and `StringsOwnedOnce`, for
  every program whose instructions are in `Rooted`, those of the run `heap_collect`: make a string or a list, load a variable, set one to a list,
  append to a list, replace an item. Their handlers keep in a root whatever they use after an allocation.
  Nothing is assumed about addresses, thresholds or the depth of lists in lists.

The first needs only that `objs` is finite; that the sweep's count is what it removes is a lemma about the collector.
The second needs that one address belongs to one object, and that wherever a handler has a `free_value` still to do, what it
will free has no memory: `RawHarmless` follows the three calls of `OP_LOGIC_NOT`, and
lemmas show that no other handler makes that call (`Calm`). `ReachedFrom` is a recursive function; its value on a
value without items is proved by induction over its steps.

The last three rest on one invariant, `GInv`. Its part `Underway` says, for each of the seven shapes that the
calls still to be made can have, which places hold values: stack entries, globals, items, and the C variables that are in use. Each of these
values is tracked (`Safe`), and each string among them has one home: a function `home` from values to places, which is
not part of the model and moves a string when a handler moves it. That is why freeing a string by hand leaves no other place with it
(`FreedKeeps`), and why `NoDangling` is not inductive alone: between `free_value_gc` and the assignment after it a variable or an item does hold
a freed string, and `Settled` excepts just that place. That a collection keeps what these places hold
(`CollectedKeeps`) needs that marking is complete: `ReachesAll` shows that as many steps as there are
addresses reach everything, since each step but the last marks one more list (a counting argument over finite sets), and
`ReachesNoMore` that it reaches nothing else. Then there is one lemma per step of a handler.

### Files (`ModuleSearchProofs`)

* `TypesAreRight`, `SearchesFromTheFile`, `ChoosesTheFirst`, `QuietIsComplete`, `FailureIsFinal`: `TypeOK`, `SearchesFromItsFile`, `FirstUsable`,
  `QuietMeansComplete` and `NothingAfterFailure`, for every disk that satisfies `DiskAssumption` (sources name modules, libraries answer in
  one of four ways), any number of edits and any depth.

The invariant relates each entry of the C stack to the one below it: an open search belongs to the loop that asked for it, whose file
is known; the tries that are passed found nothing usable; and what is in `failed` is what made the run stop.

* `RoundTrip`: what `save_bytecode` writes of any code without GOTO, in which what takes no operand has none, `load_bytecode` gives
  back, instruction by instruction;
* `CompiledRunsAsText`: `RunsWhatWasCompiled`, if everything that parses is such code whose functions all have an end (`OnlySoundCode`, which
  `module_files` evaluates of its disks as `SoundAssumption`): a compiled file runs as the text it was made of, one that was cut at any field as a
  beginning of it, and only then is something read that is not there.

Both follow from where the fields of each instruction lie in the file. `load_bytecode` is a recursive function of the places in it, and what
it reads is proved downwards from the end of the file. What is read of a file that was cut is a beginning of the code, but for the operand of its last
instruction; the code of the top level is the subsequence outside of functions, in which each place that is kept has a
rank, and a beginning of the code keeps a beginning of it. The invariant adds to the property that each compiled file is such a beginning of what is
written of its text (`Stored`), and that everything else on the disk is code that can be loaded (`Others`).

### Lists (`ListsProofs`)

For lists of any length and capacity, items of any kind and every width of
`size_t` (`SizeLimitAssumption`): `PushAppends`, `AppendListAppends`,
`InsertListInserts`, `StoreReplaces`, `PopTakesTheLast` and `CopyHoldsCopies` say
that each operation on the memory of a list is the operation on the sequence of its items that `Meaning` uses,
and keeps `IsBuffer`: the list has the memory its capacity promises, and the items are in it.
`PopOfEmptyWraps` and `CopyOfEmptiedHasNoMemory` say what happens where a precondition of these
does not hold and the code does not look. The lemmas are about `realloc`, about growing a list, and about
one store behind its end; each theorem splits on whether there is room. That
`expressions` never breaks `ListsWithinMemory` shows the same on its programs, in the
instructions that use these operations.

### Lexer (`LexerProofs`)

* `LosesNothing`: `NothingLost`, for every text: the characters that `_sbPreLexer` put into tokens are in the order of the text, and each is in
  one token still after every joining of `_sbLexer`. What `_sbPreLexer` itself leaves out (blanks, notes, quotes, backslashes, and what is behind a `\x00`) is not spoken of;
* `LinesAreRight`: `LinesRight`, for texts that are `Careful`: no newline right after a star in a note, and outside strings no backslash but
  before a newline. Those newlines are not counted by the code. All texts of `lexer` are careful.

* `TypesAreRight`: `TypeOK`, for every text, except in mode "beyond": a star that is the last character of a note that is not closed makes the
  lexer test, and then skip, what is behind the text (`lexer.c` 168-182).

The invariant of the first is that the places of the tokens, of the one in hand and of those not yet taken, one after the other, are the places
that `_sbPreLexer` put into tokens (`Kept`), and that these, with the token being read, rise and are behind one another
(`Ordered`). The second counts the newlines before the place of every token.
The third needs that the token being read and the next character are within the text in every other mode, though several cases look
one or two characters ahead (`Within`); that what there is of a script is within its text is `ScriptsAssumption`.

* `AsksInStringsOnly`: `AsksInsideStrings`, for every set of scripts, of any length, that are `WellWritten` and `WellCut` (not cut right after the
  backslash of a continued line, where the lexer asks for more outside any string, nor before the second digit of a code like `\x4a`, where it refuses an
  unfinished string): a text is unfinished exactly when it ends inside a string, and none is refused;
* `ReadsWhatIsWritten`: `ReadsAsWritten`, for the same: the tokens of a whole and `Plain` text are the ones that were written, with their types and the
  characters that their escapes stand for, whatever blanks, notes and continued lines stand between them. The character of a code is the one the lexer
  counts to, which is not that of its hexadecimal value; `Plain` excludes codes of NUL.

`counts` in these theorems tells, for each string, how many characters it keeps before each of its units (a character or an escape); the
texts of `lexer` satisfy the hypotheses (`ScriptsAreWell`). The invariant of the first (`RInv`) says where
`_sbPreLexer` stands: at which character of which piece, in which mode, with the parts of all pieces before in `pre` and of
this one what is read so far in the buffer (`Stand`); `PieceStep` shows for each kind of piece that one step goes on to its next character or behind it,
and `StandsOn` that behind a piece the next one can begin, since the two stand apart. `_sbPreLexer` makes three
parts of a fraction and two of an operator with another half, so what it leaves is not yet what was written. The second
invariant (`JInv`) is about `_sbLexer` on these parts: it is before a lexeme, or has a single one in hand, or the first half of an operator (`InRow`),
and has passed on exactly the lexemes before. `JoinMove` and `HandMove` say its steps of constants, and `RowMoves` that
they keep this; `Plain` is what makes each case of `_sbLexer` that joins or passes on two tokens meet the lexemes it is meant for.

### Common

`CommonLemmas` holds induction over the natural numbers, said of a set instead of a formula (`LeastNat`, `Counting`), from the library's
`WFMin`; and what `FlattenSeq` of the community modules makes of sequences that grow, proved from its
recursive definition.

### Only model-checked

Liveness (`RunsTerminate`, `Advances`, `SearchEnds`) and whatever speaks of `ENABLED` or fairness: out of the prover's reach. Of `GcHeap` `TypeOK`, and the properties of the run `heap_values`, whose programs use every instruction and never
collect: with collections they do not hold for these (section 3). `Parser`, `Repl`, `Values`, `Meaning`, `Expressions`
and `Evaluation` declare RECURSIVE operators
(the recursion over syntax trees and nested values is the code's own) or use the bit operations of `Bitwise`, and stay with TLC.

## 5. What is not modelled

* Doubles: results with a fraction, rounding, overflow; `math.c`, whose functions check their arguments and call
  the C library; conversions between numbers and texts.
* What libraries written in C do, once they are loaded.
* Input, the clock, the parsing of options, the display of results, and the wording, columns and positions
  of messages.
* `free_ast`, `print_ast` and the contents of trees beyond what `Scripts` and `Structured` keep.
* The addresses of functions and structures, which move when their tables grow; `destroy_vm`; copies of
  lists in lists under the collector, and of cyclic lists, which do not end.
* The path from tokens to trees by value: `Parser` decides acceptance, and `Lexer`, `Parser` and `Expressions` are checked
  side by side, not in one behaviour.

## 6. What could come next

* `NoFault` and `StringsOwnedOnce` of `GcHeap` for every instruction, where nothing is ever collected: the same
  invariant with the shapes of the other handlers and the tables of callers.
