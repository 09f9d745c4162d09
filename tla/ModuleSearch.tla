---------------------------- MODULE ModuleSearch ----------------------------
(***************************************************************************)
(* load_module of vm/vm.c: how a program finds the files of the modules it *)
(* loads, with the compiler of sbl.c that leaves bytecode files beside the *)
(* sources.                                                                *)
(*                                                                         *)
(* Between runs, sources are edited and compiled.  In a run the C stack is *)
(* in calls: vm_execute over a file, and above it, while a LOAD_MODULE is  *)
(* carried out, load_module with the place in the list of files it tries.  *)
(***************************************************************************)
EXTENDS BytecodeFile, FiniteSets

CONSTANTS
  Setups,     \* what is on the disk at first: [files, dirs]
  Sources,    \* what a source may be changed to
  Edited,     \* the sources that are changed or compiled
  MaxEdits, MaxCompiles, MaxRuns, MaxDepth

(* A path is a directory, a name and an extension.  The directories are    *)
(* "script", "lib" (../lib/sblang) and, below it, one named as its module. *)
Path(dir, name, ext) == <<dir, name, ext>>
DirOf(p)  == p[1]
Main      == Path("script", "main", "sb")
Compiled(p) == Path(p[1], p[2], "sbc")

(* Files: text that parses or does not, bytecode, and libraries. *)
Text(code)    == [kind |-> "sb", ok |-> TRUE, code |-> code]
BadText       == [kind |-> "sb", ok |-> FALSE, code |-> <<>>]
Bytecode(fs)  == [kind |-> "sbc", fields |-> fs]
Library(init) == [kind |-> "so", init |-> init]    \* "good", "missing" or "fails"

(* A file is of the kind that its extension says, and what is edited is a  *)
(* source.  The main file is there from the start.                         *)
Kinds == {"so", "sbc", "sb"}
Placed(fs) == \A p \in DOMAIN fs : /\ p = Path(p[1], p[2], p[3])
                                    /\ p[3] \in Kinds /\ fs[p].kind = p[3]

ASSUME DiskAssumption ==
  /\ \A s \in Setups : Main \in DOMAIN s.files /\ Placed(s.files)
  /\ \A t \in Sources : t.kind = "sb"
  /\ \A p \in Edited : p = Path(p[1], p[2], "sb")

VARIABLES
  files, dirs,         \* the disk
  calls,               \* the C stack
  source,              \* vm->source_filename and sf_traceback
  running, error,      \* of the vm
  mode,                \* "idle", "run", or "broken": undefined behaviour
  used,                \* how many edits, compilations and runs there were
  given, cut,          \* history: the text every bytecode file was made of; those cut short
  chosen,              \* history of a run: the loads that were carried out
  failed, early,       \* ... whether an instruction failed, whether a file was left early
  executed             \* ... and how many instructions there were

disk == <<files, dirs, given, cut>>
history == <<chosen, failed, early, executed>>
vars == <<disk, calls, source, running, error, mode, used, history>>

Exists(p) == p \in DOMAIN files

(* The disk fs with t in the file p. *)
Written(fs, p, t) == [q \in DOMAIN fs \cup {p} |-> IF q = p THEN t ELSE fs[q]]

(* Mutant: bytecode is taken for the source beside it. *)
SetSource_of_text(s, p) ==
  [name |-> Path(DirOf(p), p[2], "sb"), traceback |-> Append(s.traceback, s.name)]

(* vm_set_source_info and vm_back_source_info. *)
SetSource(s, p) == [name |-> p, traceback |-> Append(s.traceback, s.name)]

BackSource(s) ==
  IF s.traceback = <<>> THEN s ELSE [name |-> Last(s.traceback), traceback |-> Front(s.traceback)]

Execution(p, code) == [fn |-> "vm_execute", file |-> p, code |-> code, pc |-> 1]
Search(m)          == [fn |-> "load_module", module |-> m, next |-> 1]

TopCall == Last(calls)
Below   == Front(calls)

(* The files that load_module looks for, in its order.  The directory of   *)
(* the script is that of the file being executed.                          *)
InDirectory(m) == <<Path(m, "init", "sb"), Path(m, m, "sb"), Path(m, m, "sbc")>>
InLibrary(m)   == <<Path("lib", m, "so"), Path("lib", m, "sbc"), Path("lib", m, "sb")>>
InScript(m)    == LET d == DirOf(source.name)
                  IN  <<Path(d, m, "so"), Path(d, m, "sbc"), Path(d, m, "sb")>>

(* Mutant: a source is tried before bytecode, as in a directory. *)
Candidates_source_first(m) ==
  IF m \in dirs THEN InDirectory(m)
  ELSE InLibrary(m) \o [k \in 1 .. 3 |-> InScript(m)[IF k = 1 THEN 1 ELSE 5 - k]]

Candidates(m) == IF m \in dirs THEN InDirectory(m) ELSE InLibrary(m) \o InScript(m)

(* A failure in the directory of the script is reported once more. *)
Reported(m, k) == m \notin dirs /\ k > 3

----------------------------------------------------------------------------
(* Between runs.                                                           *)

Init ==
  /\ \E s \in Setups : files = s.files /\ dirs = s.dirs
  /\ calls = <<>> /\ source = [name |-> Main, traceback |-> <<>>]
  /\ running = FALSE /\ error = FALSE /\ mode = "idle"
  /\ used = [edit |-> 0, compile |-> 0, run |-> 0]
  /\ given = <<>> /\ cut = {}
  /\ chosen = {} /\ failed = FALSE /\ early = FALSE /\ executed = 0

Idle == mode = "idle" /\ used.run < MaxRuns    \* after the last run nothing changes

Edit ==
  /\ Idle /\ used.edit < MaxEdits
  /\ \E p \in Edited, t \in Sources : files' = Written(files, p, t)
  /\ used' = [used EXCEPT !.edit = @ + 1]
  /\ UNCHANGED <<dirs, given, cut, calls, source, running, error, mode, history>>

(* compile_file: of text that does not parse nothing is written, and the   *)
(* old file stays.  A full disk or the death of the process cuts it short. *)
Compile ==
  /\ Idle /\ used.compile < MaxCompiles
  /\ \E p \in Edited :
       /\ Exists(p) /\ files[p].ok
       /\ LET whole == save_bytecode(files[p].code)
          IN  \E n \in 0 .. Len(whole) :
                /\ files' = Written(files, Compiled(p), Bytecode(SubSeq(whole, 1, n)))
                /\ cut' = IF n < Len(whole) THEN cut \cup {Compiled(p)} ELSE cut \ {Compiled(p)}
       /\ given' = Written(given, Compiled(p), files[p].code)
  /\ used' = [used EXCEPT !.compile = @ + 1]
  /\ UNCHANGED <<dirs, calls, source, running, error, mode, history>>

(* execute_file: a new vm for every run. *)
Start ==
  /\ Idle
  /\ Exists(Main) /\ files[Main].ok
  /\ calls' = <<Execution(Main, files[Main].code)>>
  /\ source' = [name |-> Main, traceback |-> <<>>]
  /\ running' = TRUE /\ error' = FALSE /\ mode' = "run"
  /\ used' = [used EXCEPT !.run = @ + 1]
  /\ chosen' = {} /\ failed' = FALSE /\ early' = FALSE /\ executed' = 0
  /\ UNCHANGED disk

----------------------------------------------------------------------------
(* vm_execute.                                                             *)

Executing == mode = "run" /\ TopCall.fn = "vm_execute"
AtEnd     == TopCall.pc > Len(TopCall.code)
InLoop    == Executing /\ running /\ ~AtEnd
Current   == TopCall.code[TopCall.pc]
Stepped   == Append(Below, [TopCall EXCEPT !.pc = @ + 1])

(* Loading code, vm_load_bytecode takes every function out of it, to its   *)
(* end and beyond if that is missing.                                      *)
Loads(code) ==
  /\ \A k \in DOMAIN code : code[k].op # "misread" /\ code[k].arg # "junk"
  /\ \A k \in DOMAIN code : code[k].op = "FUNC_DEF" =>
       \E j \in k + 1 .. Len(code) : code[j].op = "FUNC_END"

TopLevel(code) ==
  LET outside(k) == \A j \in 1 .. k : code[j].op = "FUNC_DEF" =>
                      \E e \in j .. k - 1 : code[e].op = "FUNC_END"
      keep == {k \in DOMAIN code : outside(k)}
  IN  [i \in 1 .. Cardinality(keep) |->
         code[CHOOSE k \in keep : Cardinality({j \in keep : j <= k}) = i]]

(* An instruction that does nothing to the search. *)
Step ==
  /\ InLoop /\ Current.op \notin {"LOAD_MODULE", "RAISE"}
  /\ calls' = Stepped /\ executed' = executed + 1
  /\ UNCHANGED <<disk, source, running, error, mode, used, chosen, failed, early>>

(* load_..._file returns from vm_execute(vm) # VM_OK: the code as a bool,  *)
(* which is true, so load_module returns true, and the loader goes on to   *)
(* its test of running.                                                    *)
(* Mutant: it returns false, and load_module tries the next file.          *)
AfterFailure_next_file(cs) ==
  IF Len(cs) = 1 THEN <<>>
  ELSE Append(SubSeq(cs, 1, Len(cs) - 2), [cs[Len(cs) - 1] EXCEPT !.next = @ + 1])

AfterFailure(cs) == SubSeq(cs, 1, Len(cs) - 2)

(* Mutant: vm_error leaves running as it is. *)
Fail_runs_on ==
  /\ InLoop /\ Current.op = "RAISE"
  /\ calls' = AfterFailure(calls)
  /\ mode' = IF calls' = <<>> THEN "idle" ELSE "run"
  /\ error' = TRUE /\ running' = running
  /\ failed' = TRUE /\ executed' = executed + 1
  /\ UNCHANGED <<disk, source, used, chosen, early>>

(* An instruction fails: vm_error. *)
Fail ==
  /\ InLoop /\ Current.op = "RAISE"
  /\ calls' = AfterFailure(calls)
  /\ mode' = IF calls' = <<>> THEN "idle" ELSE "run"
  /\ error' = TRUE /\ running' = FALSE
  /\ failed' = TRUE /\ executed' = executed + 1
  /\ UNCHANGED <<disk, source, used, chosen, early>>

(* The loop ends, at its end or because running was cleared: VM_OK.        *)
EndLoop ==
  /\ Executing /\ (~running \/ AtEnd)
  /\ calls' = SubSeq(calls, 1, Len(calls) - 2)
  /\ mode' = IF calls' = <<>> THEN "idle" ELSE "run"
  /\ source' = IF calls' = <<>> THEN source ELSE BackSource(source)
  /\ early' = (early \/ ~AtEnd)
  /\ UNCHANGED <<disk, running, error, used, chosen, failed, executed>>

LoadModule ==
  /\ InLoop /\ Current.op = "LOAD_MODULE" /\ Len(calls) < 2 * MaxDepth
  /\ calls' = Append(Stepped, Search(Current.arg)) /\ executed' = executed + 1
  /\ UNCHANGED <<disk, source, running, error, mode, used, chosen, failed, early>>

----------------------------------------------------------------------------
(* load_module.                                                            *)

Searching   == mode = "run" /\ TopCall.fn = "load_module"
Module      == TopCall.module
HasNext     == Searching /\ TopCall.next <= Len(Candidates(Module))
Candidate   == Candidates(Module)[TopCall.next]
NextOne     == Append(Below, [TopCall EXCEPT !.next = @ + 1])
Choice(p)   == [module |-> Module, from |-> DirOf(source.name), file |-> p]

Absent ==
  /\ HasNext /\ ~Exists(Candidate)
  /\ calls' = NextOne
  /\ UNCHANGED <<disk, source, running, error, mode, used, history>>

(* load_shared_library: only a failing initialisation is an error of its   *)
(* own; one that works returns with running as it was.                     *)
LoadLibrary ==
  /\ HasNext /\ Exists(Candidate) /\ files[Candidate].kind = "so"
  /\ IF files[Candidate].init = "good"
     THEN /\ calls' = Below /\ chosen' = chosen \cup {Choice(Candidate)}
          /\ UNCHANGED <<running, error>>
     ELSE /\ calls' = NextOne /\ UNCHANGED chosen
          /\ LET reported == files[Candidate].init = "fails" \/ Reported(Module, TopCall.next)
             IN  error' = (error \/ reported) /\ running' = (running /\ ~reported)
  /\ UNCHANGED <<disk, source, mode, used, failed, early, executed>>

(* What a file that cannot be loaded leaves: its source information is     *)
(* taken back, and vm_error reports it.                                    *)
(* Mutant: it is not taken back. *)
Refused_in_place(p) ==
  /\ source' = SetSource(source, p)
  /\ error' = TRUE /\ running' = FALSE
  /\ calls' = NextOne
  /\ UNCHANGED <<disk, mode, used, history>>

(* Mutant: the search stays at it. *)
Refused_again(p) ==
  /\ source' = BackSource(SetSource(source, p))
  /\ error' = TRUE /\ running' = FALSE
  /\ UNCHANGED <<disk, mode, used, history, calls>>

Refused(p) ==
  /\ source' = BackSource(SetSource(source, p))
  /\ error' = TRUE /\ running' = FALSE
  /\ calls' = NextOne
  /\ UNCHANGED <<disk, mode, used, history>>

(* vm_load_bytecode and vm_execute of what was loaded. *)
Execute(p, code) ==
  /\ IF Loads(code) THEN mode' = mode ELSE mode' = "broken"
  /\ source' = SetSource(source, p)
  /\ error' = FALSE /\ running' = TRUE
  /\ calls' = Append(calls, Execution(p, TopLevel(code)))
  /\ chosen' = chosen \cup {Choice(p)}
  /\ UNCHANGED <<disk, used, failed, early, executed>>

(* load_bytecode_file *)
LoadBytecodeFile ==
  /\ HasNext /\ Exists(Candidate) /\ files[Candidate].kind = "sbc"
  /\ IF IsLoadable(files[Candidate].fields)
     THEN Execute(Candidate, load_bytecode(files[Candidate].fields))
     ELSE Refused(Candidate)

(* load_source_file *)
LoadSourceFile ==
  /\ HasNext /\ Exists(Candidate) /\ files[Candidate].kind = "sb"
  /\ IF files[Candidate].ok THEN Execute(Candidate, files[Candidate].code) ELSE Refused(Candidate)

(* No file is left: load_module returns false, the instruction that called *)
(* it fails, and with it the execution of the file it is in.               *)
GiveUp ==
  /\ Searching /\ ~HasNext
  /\ calls' = AfterFailure(Below)
  /\ mode' = IF calls' = <<>> THEN "idle" ELSE "run"
  /\ error' = TRUE /\ running' = FALSE /\ failed' = TRUE
  /\ UNCHANGED <<disk, source, used, chosen, early, executed>>

Run == Step \/ Fail \/ EndLoop \/ LoadModule
         \/ Absent \/ LoadLibrary \/ LoadBytecodeFile \/ LoadSourceFile \/ GiveUp

Next == Edit \/ Compile \/ Start \/ Run

Spec == Init /\ [][Next]_vars

FairSpec == Spec /\ WF_vars(Run)

----------------------------------------------------------------------------
(* Properties.                                                             *)

(* Every variable has its type; the C stack alternates.                    *)
TypeOK ==
  /\ \A k \in DOMAIN calls : calls[k].fn = IF k % 2 = 1 THEN "vm_execute" ELSE "load_module"
  /\ mode \in {"idle", "run", "broken"} /\ (mode = "run" => calls # <<>>)
  /\ {running, error, failed, early} \subseteq BOOLEAN
  /\ source.name \in DOMAIN files /\ Range(source.traceback) \subseteq DOMAIN files
  /\ cut \subseteq DOMAIN given /\ DOMAIN given \subseteq DOMAIN files

(* load_module searches beside the file that source_filename names, so     *)
(* that must be the file being executed, and the traceback those that load *)
(* it, whatever files were tried and refused on the way.  Every other call *)
(* on the stack is an execution.                                           *)
Names == Append(source.traceback, source.name)

SearchesFromItsFile ==
  mode = "run" /\ ~failed =>
    /\ Len(calls) \in {2 * Len(Names) - 1, 2 * Len(Names)}
    /\ \A k \in 1 .. Len(Names) : Names[k] = calls[2 * k - 1].file

(* After an instruction has failed no other is executed, in the module, in *)
(* the files that load it or in a file that is tried instead, although     *)
(* vm_execute clears error and sets running again.                         *)
NothingAfterFailure == [][failed /\ failed' => executed' = executed]_vars

(* The file a load ends with is the one its order prescribes: that of the  *)
(* comment above load_module, for the file that asks for the module.       *)
Usable(p) ==
  /\ Exists(p)
  /\ CASE files[p].kind = "so"  -> files[p].init = "good"
       [] files[p].kind = "sbc" -> IsLoadable(files[p].fields)
       [] OTHER                 -> files[p].ok

Prescribed(c) ==
  LET m == c.module
      library == {p \in DOMAIN files : p[2] = m /\ DirOf(p) = "lib"}
      beside  == {p \in DOMAIN files : p[2] = m /\ DirOf(p) = c.from}
      usable(S, ext) == \E p \in S : p[3] = ext /\ Usable(p)
      fits(S) == /\ c.file \in S /\ Usable(c.file)
                 /\ c.file[3] \in {"sbc", "sb"} => ~usable(S, "so")
                 /\ c.file[3] = "sb" => ~usable(S, "sbc")
  IN  IF m \in dirs
      THEN /\ DirOf(c.file) = m /\ Usable(c.file)
           /\ c.file[2] # "init" => ~Usable(Path(m, "init", "sb"))
           /\ c.file[3] = "sbc" => ~Usable(Path(m, m, "sb"))
      ELSE \/ fits(library)
           \/ fits(beside) /\ ~\E p \in library : Usable(p)

FirstUsable == mode = "run" => \A c \in chosen : Prescribed(c)

(* Code that a bytecode file gives back and that can be loaded: no GOTO is *)
(* in it, every function has its end, and what takes no operand has none.  *)
Restorable(i) ==
  /\ i = Inst(i.op, i.arg)
  /\ i.op \notin {"GOTO_DEF", "GOTO_BLOCK"}
  /\ i.op \notin NumOps \cup IntOps \cup LoadedAsString => i.arg = "0"

Sound(code) ==
  /\ code \in Seq(Range(code)) /\ \A k \in DOMAIN code : Restorable(code[k])
  /\ Loads(code)

(* All that parses is such code, and so is what is loaded of the bytecode  *)
(* files that are there at first.                                          *)
OnlySoundCode ==
  /\ \A s \in Setups : \A p \in DOMAIN s.files :
       LET f == s.files[p]
       IN  /\ f.kind = "sb" => (f.ok => Sound(f.code))
           /\ f.kind = "sbc" => (IsLoadable(f.fields) => Loads(load_bytecode(f.fields)))
  /\ \A t \in Sources : t.ok => Sound(t.code)

(* A bytecode file runs as the text it was compiled from, or, when the     *)
(* compilation was cut short, as a beginning of it; only then can reading  *)
(* it go wrong.                                                            *)
RunsWhatWasCompiled ==
  /\ mode = "broken" => cut # {}
  /\ mode = "run" =>
       \A k \in DOMAIN calls : calls[k].fn = "vm_execute" /\ calls[k].file \in DOMAIN given =>
         LET text == TopLevel(given[calls[k].file])
         IN  IF calls[k].file \in cut
             THEN calls[k].code = <<>> \/ IsPrefix(Front(calls[k].code), text)
             ELSE calls[k].code = text

(* If error is not set when a run is over, nothing failed and every file   *)
(* that was begun was executed to its end: no failure is forgotten when    *)
(* vm_execute clears error for the next file.                              *)
QuietMeansComplete == mode = "idle" /\ ~error => ~failed /\ ~early

(* A run comes to an end, whatever files are missing, refused or fail, if  *)
(* no module loads itself through others.                                  *)
SearchEnds == mode = "run" ~> mode # "run"
=============================================================================
