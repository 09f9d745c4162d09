---------------------------- MODULE Activations ----------------------------
(***************************************************************************)
(* What the virtual machine promises about control: running an SBLang      *)
(* program is running a stack of activations.  The main unit, a function   *)
(* body and the top level of a module are units; an activation is a unit   *)
(* and the address in it that is executed next.  A call or a load pushes   *)
(* an activation, and when that activation is over the one below goes on   *)
(* exactly where it stopped.  VMControl implements this with chunks that   *)
(* share one saved program counter each.                                   *)
(***************************************************************************)
EXTENDS Naturals, Sequences

CONSTANTS
  Mains      \* units the driver runs: the file, or the lines of a REPL

VARIABLES
  prog,      \* the program, whose field code has the code of each unit
  acts       \* the activations, innermost last; empty between runs

vars == <<prog, acts>>

Top  == acts[Len(acts)]
Rest == SubSeq(acts, 1, Len(acts) - 1)
Code == prog.code[Top.unit]

(* The innermost activation has an instruction left, and it is Instr. *)
Ready == acts # <<>> /\ Top.at < Len(Code)
Instr == Code[Top.at + 1]

At(a)    == acts' = Append(Rest, [Top EXCEPT !.at = a])
Enter(u) == acts' = Rest \o << [Top EXCEPT !.at = @ + 1], [unit |-> u, at |-> 0] >>

Init ==
  acts = <<>>

Start ==
  /\ acts = <<>>
  /\ \E u \in Mains : acts' = << [unit |-> u, at |-> 0] >>

Plain ==
  /\ Ready
  /\ Instr.op \in {"step", "branch", "native"}
  /\ At(Top.at + 1)

Jump ==
  /\ Ready
  /\ Instr.op \in {"jump", "branch"}
  /\ At(Instr.arg)

EnterUnit ==
  /\ Ready
  /\ Instr.op \in {"call", "load"}
  /\ Enter(Instr.arg)

(* A function gives control back to the activation that called it. *)
Return ==
  /\ Ready
  /\ Instr.op = "return"
  /\ Len(acts) > 1
  /\ acts' = Rest

(* A main unit or a module is over after its last instruction. *)
Finish ==
  /\ acts # <<>>
  /\ Top.at = Len(Code)
  /\ acts' = Rest

(* An error, or the builtin exit, ends every activation at once. *)
Stop ==
  /\ Ready
  /\ Instr.op \in {"raise", "native", "exit", "call"}
  /\ acts' = <<>>

Next ==
  /\ UNCHANGED prog
  /\ Start \/ Plain \/ Jump \/ EnterUnit \/ Return \/ Finish \/ Stop

Spec == Init /\ [][Next]_vars
=============================================================================
