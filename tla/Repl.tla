-------------------------------- MODULE Repl --------------------------------
(***************************************************************************)
(* The lines of a session of run_repl in sbl.c: which lines it joins, and  *)
(* which texts it runs or refuses.                                         *)
(*                                                                         *)
(* A user types statements, each of them whole or broken into lines        *)
(* between its pieces.  The REPL parses what it has once to see whether it *)
(* is finished, with syntaxError silenced, and once more to compile it.    *)
(***************************************************************************)
EXTENDS Parser, FiniteSets

CONSTANT Sessions     \* sequences of statements

(* A statement: its tokens, in pieces, and whether the language has it.    *)
Statement(pieces, good) == [pieces |-> pieces, good |-> good]

VARIABLES
  session,     \* what the user types
  typed_to,    \* <<k, j>>: all before statement k, and j pieces of it
  from,        \* the statement at which the text in buf starts
  buf,         \* the text typed since the last prompt
  mode,        \* "prompt" and "more" wait for a line, "check" and "compile" parse
  ran,         \* history: sets of statements that ran as one text ...
  refused      \* ... and that were refused

vars == <<session, typed_to, from, buf, mode, ran, refused>>

RECURSIVE Concat(_)
Concat(ss) == IF ss = <<>> THEN <<>> ELSE Head(ss) \o Concat(Tail(ss))

Pieces(k)    == session[k].pieces
AtEnd        == typed_to[2] = 0
Text(k, a, b) == Concat(SubSeq(Pieces(k), a, b))
Wholes(a, b) == Concat([k \in 1 .. b - a |-> Text(a + k - 1, 1, Len(Pieces(a + k - 1)))])

(* What is typed from one place to a later one. *)
Line(p, q) ==
  IF p[1] = q[1] THEN Text(p[1], p[2] + 1, q[2])
  ELSE Text(p[1], p[2] + 1, Len(Pieces(p[1]))) \o Wholes(p[1] + 1, q[1])
         \o IF q[2] = 0 THEN <<>> ELSE Text(q[1], 1, q[2])

Places == {<<Len(session) + 1, 0>>}
            \cup UNION {{<<k, j>> : j \in 0 .. Len(Pieces(k)) - 1} : k \in 1 .. Len(session)}
Before(p, q) == p[1] < q[1] \/ (p[1] = q[1] /\ p[2] < q[2])

Init ==
  /\ session \in Sessions
  /\ typed_to = <<1, 0>> /\ from = 1 /\ buf = <<>>
  /\ mode = "prompt" /\ ran = {} /\ refused = {}

(* Where a line may end: what comes after a refused statement in the same  *)
(* line is refused with it, so no line goes on after one.                  *)
NextPlaces == {q \in Places : /\ Before(typed_to, q)
                              /\ \A k \in typed_to[1] .. q[1] - 1 :
                                   ~session[k].good => q = <<k + 1, 0>>}

ReadLine ==
  /\ mode = "prompt"
  /\ \E q \in NextPlaces :
       buf' = Line(typed_to, q) /\ typed_to' = q /\ from' = typed_to[1]
  /\ mode' = "check"
  /\ UNCHANGED <<session, ran, refused>>

(* addition_input *)
ReadMore ==
  /\ mode = "more"
  /\ \E q \in NextPlaces : buf' = buf \o Line(typed_to, q) /\ typed_to' = q
  /\ mode' = "check"
  /\ UNCHANGED <<session, from, ran, refused>>

(* The first parse, for incomplete_syntax only. *)
Check ==
  /\ mode = "check"
  /\ LET p == parse_program(NewParser(buf, TRUE))
     IN  mode' = CASE p.broken # "no" -> "dead"
                   [] p.broken = "no" /\ p.incomplete -> "more"
                   [] OTHER -> "compile"
  /\ UNCHANGED <<session, typed_to, from, buf, ran, refused>>

(* The statements that the text in buf is made of, wholly or in part. *)
InBuf == from .. (IF AtEnd THEN typed_to[1] - 1 ELSE typed_to[1])

(* Mutant: replcs(false) is left out. *)
Compile_quiet ==
  /\ mode = "compile"
  /\ LET p == parse_program(NewParser(buf, TRUE))
     IN  /\ mode' = IF p.broken # "no" \/ (p.node = "null" /\ ~p.error) THEN "dead" ELSE "prompt"
         /\ IF p.error THEN refused' = refused \cup {InBuf} /\ UNCHANGED ran
                       ELSE ran' = ran \cup {InBuf} /\ UNCHANGED refused
  /\ UNCHANGED <<session, typed_to, from, buf>>

(* The second parse, which reports what is wrong; a text that it accepts   *)
(* is generated, loaded and run.                                           *)
Compile ==
  /\ mode = "compile"
  /\ LET p == parse_program(NewParser(buf, FALSE))
     IN  /\ mode' = IF p.broken # "no" \/ (p.node = "null" /\ ~p.error) THEN "dead" ELSE "prompt"
         /\ IF p.error THEN refused' = refused \cup {InBuf} /\ UNCHANGED ran
                       ELSE ran' = ran \cup {InBuf} /\ UNCHANGED refused
  /\ UNCHANGED <<session, typed_to, from, buf>>

Next == ReadLine \/ ReadMore \/ Check \/ Compile

Spec == Init /\ [][Next]_vars

----------------------------------------------------------------------------
(* Properties.                                                             *)

(* The REPL asks for more only in the middle of a statement: no function   *)
(* of the parser leaves incomplete_syntax set when what it reads is done,  *)
(* however delimiters, statements and expressions are nested.              *)
AsksOnlyInside == mode = "more" => ~AtEnd

(* It compiles only whole statements: none of the functions clears the     *)
(* flag that one around it has set.                                        *)
CompilesOnlyWhole == mode = "compile" => AtEnd

(* A text is refused exactly when one of its statements is wrong, whatever *)
(* was refused before and whether or not it was joined from lines.         *)
RefusesExactlyWrong ==
  /\ \A ks \in refused : \E k \in ks : ~session[k].good
  /\ \A ks \in ran : \A k \in ks : session[k].good

(* The parser comes to an end, frees nothing that it uses, and gives the   *)
(* generator a tree or an error, on unfinished texts too.                  *)
StaysAlive == mode # "dead"
=============================================================================
