------------------------------- MODULE Parser -------------------------------
(***************************************************************************)
(* The recursive-descent parser of parser/parser.c, as far as it decides   *)
(* whether a text is accepted, refused or unfinished.                      *)
(*                                                                         *)
(* A parse function is an operator from parser states to parser states.    *)
(* The tree is left out but for the kind of the node a function returns,   *)
(* which the calls above it look at.  What happens where the code does not *)
(* come to an end, or uses what it freed, is recorded and not continued.   *)
(***************************************************************************)
EXTENDS Integers, Sequences

(* A token as match_token sees it, by its text, and as the type tests do.  *)
Token(text, type) == [text |-> text, type |-> type]
Sym(text)  == Token(text, text)
Name       == Token("a", "name")
Number     == Token("1", "num")
Str(text)  == Token(text, "str")

(* A parser over toks: position, the two flags, repl_check_syntax, the     *)
(* node that was returned last, and what went wrong for good, if anything. *)
NewParser(toks, quiet) ==
  [toks |-> toks, position |-> 1, incomplete |-> FALSE, error |-> FALSE,
   quiet |-> quiet, node |-> "null", broken |-> "no"]

peek(s)       == s.position <= Len(s.toks)
match(s, t)   == peek(s) /\ s.toks[s.position].text = t
typed(s, ts)  == peek(s) /\ s.toks[s.position].type \in ts
after(s)      == IF peek(s) THEN [s EXCEPT !.position = @ + 1] ELSE s
skip(s, t)    == IF match(s, t) THEN after(s) ELSE s
returns(s, n) == [s EXCEPT !.node = n]
breaks(s, w)  == [s EXCEPT !.broken = IF @ = "no" THEN w ELSE @, !.node = "null"]
failed(s)     == s.node = "null" \/ s.broken # "no"

(* syntaxError, then return nullptr. *)
syntaxError(s) == [s EXCEPT !.error = @ \/ ~s.quiet, !.node = "null"]

(* Inside a delimiter the text is unfinished; a function that returns a    *)
(* node puts the flag back, one that fails leaves it.                      *)
enter(s) == [s EXCEPT !.incomplete = TRUE]

(* Mutant: the flag is cleared whatever it was. *)
leave_cleared(s, was) == [s EXCEPT !.incomplete = FALSE]

leave(s, was) == IF was THEN s ELSE [s EXCEPT !.incomplete = FALSE]

(* The end of a statement that ends in ';'. *)
require_semicolon(s) ==
  CASE match(s, ";") -> after(s)
    [] ~match(s, ";") /\ peek(s) -> syntaxError(s)
    [] OTHER -> syntaxError([s EXCEPT !.incomplete = TRUE])

----------------------------------------------------------------------------
(* Expressions.  The functions for binary operators differ in the operators*)
(* they take and in the function that reads the right operand.             *)

Levels == << {"&&", "||"}, {"|"}, {"&"}, {"^"}, {"==", "<"}, {"<<"}, {"+", "-"},
             {"*"}, {"**"} >>
Right  == << 2, 3, 5, 3, 6, 7, 8, 9, 9 >>

operator(s, k) ==
  /\ peek(s) /\ s.toks[s.position].text \in Levels[k]
  /\ k \in {2, 3} => ~match(after(s), s.toks[s.position].text)

RECURSIVE parse(_, _), parse_binary(_, _), operators(_, _), suffixes(_),
          arguments(_, _), items(_, _)

parse_expression(s) == parse_binary(s, 1)

parse_binary(s, k) ==
  IF k > Len(Levels) THEN parse("postfix", s) ELSE operators(parse_binary(s, k + 1), k)

operators(s, k) ==
  IF s.broken # "no" \/ ~operator(s, k) THEN s
  ELSE LET r == parse_binary(after(s), Right[k])
       IN  IF failed(r) THEN syntaxError(r) ELSE operators(returns(r, "node"), k)

(* The part between two delimiters was read by s: the second one. *)
closed(s, t, was, n) ==
  CASE failed(s) -> syntaxError(s)
    [] ~failed(s) /\ match(s, t) -> returns(leave(after(s), was), n)
    [] OTHER -> syntaxError(s)

parse_postfix(s) == suffixes(parse("primary", s))

(* Mutant: the flag is not put back after an index. *)
index_open(s) ==
  LET e == parse("expression", after(enter(s)))
  IN  IF failed(e) \/ ~match(e, "]") THEN syntaxError(e) ELSE returns(after(e), "node")

index(s) == closed(parse("expression", after(enter(s))), "]", s.incomplete, "node")

call(s) ==
  IF s.node # "identifier" THEN syntaxError(after(enter(s)))
  ELSE closed(arguments(after(enter(s)), TRUE), ")", s.incomplete, "node")

member(s) ==
  LET m == after(s)
  IN  IF typed(m, {"name"}) THEN returns(after(m), "node") ELSE syntaxError(m)

suffixes(s) ==
  CASE ~failed(s) /\ match(s, ".") -> suffixes(member(s))
    [] ~failed(s) /\ match(s, "(") -> suffixes(call(s))
    [] ~failed(s) /\ match(s, "[") -> suffixes(index(s))
    [] OTHER -> s

arguments(s, first) ==
  CASE match(s, ")") \/ ~peek(s) -> returns(s, "node")
    [] ~match(s, ")") /\ peek(s) /\ ~first /\ ~match(s, ",") -> syntaxError(s)
    [] OTHER -> LET a == parse("expression", IF first THEN s ELSE skip(s, ","))
                IN  IF failed(a) THEN syntaxError(a) ELSE arguments(a, FALSE)

(* Items of a list.  Where a comma is missing the list is freed, and used  *)
(* all the same.                                                           *)
items(s, first) ==
  CASE s.broken # "no" \/ match(s, "]") \/ ~peek(s) -> returns(s, "node")
    [] s.broken = "no" /\ peek(s) /\ ~first /\ ~match(s, ",") /\ ~match(s, "]") ->
         breaks(syntaxError(s), "freed")
    [] OTHER -> LET e == parse("expression", IF first THEN s ELSE skip(s, ","))
                IN  items(e, first /\ e.node = "null")

(* Mutant: a comma is wanted before the first item too. *)
parse_list_comma(s) ==
  closed(items(after(enter(s)), FALSE), "]", s.incomplete, "node")

parse_list(s) == closed(items(after(enter(s)), TRUE), "]", s.incomplete, "node")

(* Unary signs take what follows, whatever it is; what starts no           *)
(* expression is an expression of its own, and is not consumed.            *)
parse_primary(s) ==
  CASE ~peek(s) -> returns(s, "null")
    [] match(s, "[") -> parse_list(s)
    [] match(s, "(") -> skip(parse("expression", after(s)), ")")
    [] match(s, "!") \/ match(s, "~") -> returns(parse("postfix", after(s)), "node")
    [] match(s, "-") \/ match(s, "+") -> returns(parse("primary", after(s)), "node")
    [] OTHER ->
         CASE typed(s, {"num", "str"}) -> returns(after(s), "node")
           [] typed(s, {"name"}) /\ match(after(s), ":") ->
                returns(after(after(s)), "goto_def")
           [] typed(s, {"name"}) /\ ~match(after(s), ":") -> returns(after(s), "identifier")
           [] OTHER -> returns(s, "node")

----------------------------------------------------------------------------
(* Statements.                                                             *)

RECURSIVE statements(_), parameters(_), members(_), names(_, _)

(* A statement was read by s: its ';'. *)
ended(s) ==
  IF failed(s) THEN s
  ELSE LET e == require_semicolon(s) IN IF failed(e) THEN e ELSE returns(e, s.node)

(* An assignment, or an expression read from the start again. *)
parse_assignment(s) ==
  LET l == parse("postfix", s)
  IN  CASE failed(l) -> l
        [] ~failed(l) /\ (match(l, "=") \/ match(l, "+=")) ->
             LET r == parse("expression", after(l))
             IN  IF failed(r) THEN syntaxError(r) ELSE returns(r, "node")
        [] ~failed(l) /\ match(l, "++") -> returns(after(l), "node")
        [] OTHER -> parse("expression", [l EXCEPT !.position = s.position])

expression_statement(s) ==
  LET e == parse_assignment(s) IN IF e.node = "goto_def" THEN e ELSE ended(e)

(* "x -> s": an instance of a structure. *)
instance(s) ==
  LET t == after(after(s))
  IN  IF typed(t, {"name"}) THEN returns(after(t), "node") ELSE syntaxError(t)

parse_return(s) ==
  LET v == IF match(after(s), ";") \/ match(after(s), "}") THEN after(s)
           ELSE parse("expression", after(s))
  IN  ended(returns(v, "node"))

(* The names after load and global. *)
names(s, none) ==
  CASE ~peek(s) -> IF none THEN syntaxError(s) ELSE ended(returns(s, "node"))
    [] typed(s, {"name", "str"}) /\ match(after(s), ",") -> names(after(after(s)), FALSE)
    [] OTHER ->
         LET t     == IF typed(s, {"name", "str"}) THEN after(s) ELSE s
             empty == none /\ t = s
         IN  CASE ~peek(t) -> ended(returns(t, "node"))
               [] match(t, ";") -> IF empty THEN syntaxError(t) ELSE ended(returns(t, "node"))
               [] OTHER -> syntaxError(t)

(* At the end of the text goto reads through a null pointer. *)
parse_goto(s) ==
  LET t == after(s)
  IN  CASE ~peek(t) -> breaks(t, "crash")
        [] typed(t, {"name", "str"}) -> ended(returns(after(t), "node"))
        [] OTHER -> syntaxError(t)

(* A block, or one statement; a statement that fails without having moved  *)
(* fails again and again.                                                  *)
statements(s) ==
  IF s.broken # "no" \/ match(s, "}") \/ ~peek(s) THEN returns(s, "node")
  ELSE LET t == parse("statement", s)
       IN  IF t.node = "null" /\ t.position = s.position THEN breaks(t, "stuck")
                                                         ELSE statements(t)

parse_block(s) ==
  IF match(s, "{")
  THEN closed(statements(after(enter(s))), "}", s.incomplete, "node")
  ELSE LET t == parse("statement", enter(s))
       IN  IF t.broken # "no" THEN t ELSE returns(leave(t, s.incomplete), "node")

body(s) == LET b == parse("block", s) IN IF failed(b) THEN syntaxError(b) ELSE b

condition(s) == closed(parse("expression", after(enter(s))), ")", s.incomplete, "node")

parse_if(s) ==
  LET c == IF match(after(s), "(") THEN condition(after(s)) ELSE syntaxError(after(s))
      t == body(c)
  IN  CASE failed(c) -> c
        [] ~failed(c) /\ ~failed(t) /\ typed(t, {"else"}) -> body(after(t))
        [] OTHER -> t

parse_while(s) ==
  LET c == IF match(after(s), "(") THEN condition(after(s)) ELSE returns(after(s), "node")
  IN  IF failed(c) THEN c ELSE body(c)

(* The three parts of a for; only the last may be empty. *)
parse_for(s) ==
  LET t      == after(s)
      init   == parse_assignment(after(enter(t)))
      second == skip(init, ";")
      cond   == skip(parse("expression", second), ";")
      update == IF match(cond, ")") THEN cond ELSE parse_assignment(cond)
      last   == IF update.broken # "no" THEN update
                ELSE closed(returns(update, "node"), ")", t.incomplete, "node")
  IN  CASE ~match(t, "(") -> syntaxError(t)
        [] match(t, "(") /\ match(after(t), ";") -> syntaxError(after(enter(t)))
        [] match(t, "(") /\ ~match(after(t), ";") /\ match(second, ";") -> syntaxError(second)
        [] OTHER -> IF failed(last) THEN last ELSE body(last)

(* What is no name is not skipped. *)
parameters(s) ==
  CASE match(s, ")") \/ ~peek(s) -> returns(s, "node")
    [] typed(s, {"name"}) ->
         CASE match(after(s), ")") -> returns(after(after(s)), "node")
           [] match(after(s), ",") -> parameters(after(after(s)))
           [] OTHER -> syntaxError(after(s))
    [] OTHER -> breaks(s, "stuck")

(* That the body fails does not make the definition fail. *)
parse_function(s) ==
  LET t == after(after(s))
      p == parameters(after(enter(t)))
      b == parse("block", leave(skip(p, ")"), t.incomplete))
  IN  CASE ~typed(after(s), {"name"}) -> syntaxError(after(s))
        [] typed(after(s), {"name"}) /\ ~match(t, "(") -> syntaxError(t)
        [] typed(after(s), {"name"}) /\ match(t, "(") /\ failed(p) -> p
        [] OTHER -> IF b.broken # "no" THEN b ELSE returns(skip(b, ";"), "node")

members(s) ==
  CASE match(s, "}") \/ ~peek(s) -> returns(s, "node")
    [] typed(s, {"name"}) /\ (match(after(s), ",") \/ match(after(s), ";")) ->
         members(after(after(s)))
    [] typed(s, {"name"}) /\ match(after(s), "}") -> returns(after(s), "node")
    [] OTHER -> syntaxError(IF typed(s, {"name"}) THEN after(s) ELSE s)

parse_struct(s) ==
  LET t == after(after(s))
      d == closed(members(after(enter(t))), "}", t.incomplete, "node")
  IN  CASE ~typed(after(s), {"name"}) -> syntaxError(after(s))
        [] typed(after(s), {"name"}) /\ ~match(t, "{") -> syntaxError(t)
        [] OTHER -> IF failed(d) THEN d ELSE skip(d, ";")

(* Where an instance of a structure fails, what follows is read as a       *)
(* statement that starts with the same token.                              *)
parse_statement(s) ==
  LET i == instance(s)
  IN  CASE ~peek(s) -> returns(s, "null")
        [] typed(s, {"name"}) /\ match(after(s), "->") ->
             IF failed(i) THEN expression_statement(i) ELSE ended(i)
        [] typed(s, {"struct"})   -> parse_struct(s)
        [] typed(s, {"function"}) -> parse_function(s)
        [] typed(s, {"load", "global"}) -> names(after(s), TRUE)
        [] typed(s, {"goto"})     -> parse_goto(s)
        [] typed(s, {"if"})       -> parse_if(s)
        [] typed(s, {"for"})      -> parse_for(s)
        [] typed(s, {"while"})    -> parse_while(s)
        [] typed(s, {"return"})   -> parse_return(s)
        [] typed(s, {"continue", "break"}) -> ended(returns(after(s), "node"))
        [] OTHER -> expression_statement(s)

(* A call of one parse function by another.                                *)
parse(construct, s) ==
  CASE construct = "expression" -> parse_expression(s)
    [] construct = "postfix"    -> parse_postfix(s)
    [] construct = "primary"    -> parse_primary(s)
    [] construct = "block"      -> parse_block(s)
    [] construct = "statement"  -> parse_statement(s)

RECURSIVE parse_program(_)

(* A text is read to its end, or to a statement that fails before it. *)
parse_program(s) ==
  IF s.broken # "no" \/ ~peek(s) THEN returns(s, IF s.error THEN "null" ELSE "node")
  ELSE LET t == parse("statement", s)
       IN  IF t.node = "null" /\ peek(t) THEN t ELSE parse_program(t)
=============================================================================
