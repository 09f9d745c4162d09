------------------------------ MODULE MCLexer ------------------------------
(***************************************************************************)
(* Scripts for Lexer: one to three lexemes with blanks, notes, a continued *)
(* line or nothing between them, strings that are cut, and codes of NUL    *)
(* inside and outside of strings.                                          *)
(***************************************************************************)
EXTENDS Lexer

Piece(type, chars, kept, sense) == [type |-> type, chars |-> chars, kept |-> kept, meant |-> sense]
Lexeme(type, chars)             == Piece(type, chars, [k \in DOMAIN chars |-> k], chars)
Silent(chars)                   == Piece("none", chars, <<>>, <<>>)

Words   == {Lexeme("word", <<"x">>), Lexeme("word", <<"a", "1">>)}
Whole_  == Lexeme("number", <<"7", "0">>)
Hex     == Lexeme("number", <<"0", "x", "a">>)
Half    == Lexeme("number", <<"1", ".", "5">>)

Symbols(all) == {Lexeme("symbol", chars) : chars \in all}

Simple == Symbols({<<"+">>, <<"-">>, <<"*">>, <<"/">>, <<"=">>, <<"(">>, <<".">>})
Paired == Symbols({<<"+", "+">>, <<"+", "=">>, <<"*", "*">>, <<"=", "=">>, <<"!", "=">>, <<"-", ">">>})
Long   == Symbols({<<"*", "*", "=">>, <<">", ">", "=">>, <<"/", "=">>, <<"&", "&">>, <<"|", "=">>, <<"!">>})

Short  == Piece("string", <<"\"", "a", "'", "\"">>, <<2, 3>>, <<"a", "'">>)
Broken == Piece("string", <<"'", "\\", "n", "\n", "1", "'">>, <<3, 4, 5>>, <<"\n", "\n", "1">>)
Coded  == Piece("string", <<"\"", "\\", "x", "4", "a", "+", "\"">>, <<5, 6>>, <<"-", "+">>)
Plus   == Piece("string", <<"'", "\\", "x", "4", "3", "'">>, <<5>>, <<"+">>)
Sign_  == Piece("string", <<"'", "*", "'">>, <<2>>, <<"*">>)

(* Codes of NUL: in a string, and among code. *)
Ends == Piece("string", <<"'", "a", "\\", "x", "0", "0", "b", "'">>, <<2, 6, 7>>, <<"a", "NUL", "b">>)
Hole == Piece("word", <<"\\", "x", "0", "0">>, <<4>>, <<"NUL">>)

Space    == Silent(<<" ">>)
Newline  == Silent(<<"\n">>)
Note     == Silent(<<"/", "*", "x", "\n", "+", "*", "/">>)
LineNote == Silent(<<"/", "/", "x", "'", "\n">>)
Goes     == Silent(<<" ", "\\", "\n">>)

(* Two lexemes that can stand side by side. *)
Closed == {<<"(">>, <<".">>}
Side(a, b) == /\ \/ a.type \in {"symbol", "string"} \/ b.type \in {"symbol", "string"}
                 \/ a = Whole_ /\ b.chars = <<"a", "1">>
              /\ a.type = "symbol" /\ b.type = "symbol" => a.chars \in Closed \/ b.chars \in Closed
              /\ "number" \in {a.type, b.type} => <<".">> \notin {a.chars, b.chars}

Pairs(lexemes, seps) ==
  {p \in lexemes \X seps \X lexemes : p[1].chars = <<"/">> => p[2] \notin {Note, LineNote}} \cup {<<a, b>> \in lexemes \X lexemes : Side(a, b)}

Threes(lexemes) ==
  {<<a, Space, b, Space, c>> : a \in lexemes, b \in lexemes, c \in lexemes}
    \cup {p \in lexemes \X lexemes \X lexemes : Side(p[1], p[2]) /\ Side(p[2], p[3])}

Uncut(pieces) == [pieces |-> pieces, length |-> Len(Whole(pieces))]

(* What is cut: strings and what is around them, at every place. *)
Cuts == {[pieces |-> <<a, s, b>>, length |-> n] :
           a \in {Short, Broken, Lexeme("word", <<"x">>)}, s \in {Space, Goes}, b \in {Short, Broken}, n \in 0 .. 14}

OfCuts == {c \in Cuts : /\ c.length <= Len(Whole(c.pieces))
                        /\ Before(c.pieces, 2) + 2 # c.length \/ c.pieces[2] # Goes}

(* A code of NUL after a lexeme or at the beginning, and two more after it. *)
Holed ==
  LET few == {Lexeme("word", <<"a", "1">>), Whole_, Short, Space, Newline, Note}
               \cup Symbols({<<"+">>, <<"/">>, <<"=", "=">>, <<"(">>})
  IN  {<<Hole, a, b>> : a \in few, b \in few}
        \cup {<<a, Hole, b, Whole_>> : a \in {Lexeme("word", <<"x">>), Whole_, Short}, b \in few}

ScriptValues ==
  {Uncut(pieces) : pieces \in
     Pairs(Words \cup {Whole_, Hex, Half} \cup Simple \cup Paired \cup Long \cup {Short, Broken, Coded, Plus, Sign_, Ends},
           {Space, Newline, Note, LineNote, Goes})
     \cup Threes({Lexeme("word", <<"x">>), Whole_, Half, Sign_} \cup Simple
                   \cup Symbols({<<"+", "=">>, <<"*", "*">>, <<"*", "*", "=">>}))
     \cup Holed}
  \cup OfCuts

(* Of a string, from the unit at i on, with k units kept before it. *)
RECURSIVE CountFrom(_, _, _)
CountFrom(p, i, k) ==
  IF i >= Len(p.chars) THEN i :> k
  ELSE LET n == UnitLength(p, i)
       IN  (i :> k) @@ CountFrom(p, i + n, IF n = 2 /\ p.chars[i + 1] = "\n" THEN k ELSE k + 1)

Counts == [p \in {Short, Broken, Coded, Plus, Sign_} |-> CountFrom(p, 2, 0)]

(* The theorems speak of scripts without codes of NUL. *)
WithoutNul == {s \in ScriptValues : \A k \in DOMAIN s.pieces : s.pieces[k] \notin {Ends, Hole}}

ASSUME ScriptsAreWell == \A s \in WithoutNul : WellWritten(s.pieces, Counts) /\ WellCut(s, Counts)
=============================================================================
