------------------------------- MODULE MCRepl -------------------------------
(***************************************************************************)
(* Sessions for Repl.  A statement is written as the lines it may be       *)
(* broken into; "x", "1" and "s" are a name, a number and a string, other  *)
(* texts symbols.                                                          *)
(***************************************************************************)
EXTENDS Repl

Tok(t) == CASE t = "x" -> Name [] t = "1" -> Number [] t = "s" -> Str("s") [] OTHER -> Sym(t)
Lines(ls) == [k \in 1 .. Len(ls) |-> [j \in 1 .. Len(ls[k]) |-> Tok(ls[k][j])]]
Good(ls) == Statement(Lines(ls), TRUE)
Wrong(l) == Statement(Lines(<<l>>), FALSE)

Simple ==
  { Good(<< <<"x", "=", "1", "+", "-", "1">>, <<";">> >>),
    Good(<< <<"x", "+=", "(", "1", "*", "x", ")">>, <<";">> >>),
    Good(<< <<"x", "->", "x">>, <<";">> >>),
    Good(<< <<"load", "x", ",", "x">>, <<";">> >>),
    Good(<< <<"goto", "x">>, <<";">> >>),
    Good(<< <<"x", ":">> >>) }

Nested ==
  { Good(<< <<"x", "(">>, <<"x", "[">>, <<"1">>, <<"]", ",">>, <<"!", "1", ")">>, <<";">> >>),
    Good(<< <<"x", "=", "[">>, <<"[", "s">>, <<"]", ",">>, <<"x", ".", "x", "]">>, <<";">> >>),
    Good(<< <<"x", "[">>, <<"x", "(">>, <<"1", ")", "]", "=", "1">>, <<";">> >>),
    Good(<< <<"struct", "x", "{">>, <<"x", ",">>, <<"x">>, <<"}">> >>) }

Blocks ==
  { Good(<< <<"if", "(">>, <<"x", ")", "{">>, <<"x", "++", ";">>, <<"}", "else", "{">>, <<"break", ";">>, <<"}">> >>),
    Good(<< <<"while", "(", "x">>, <<")", "{">>, <<"if", "(", "x", ")">>, <<"x", "=">>, <<"1", ";">>, <<"}">> >>),
    Good(<< <<"for", "(">>, <<"x", "=", "1", ";">>, <<"x", "<", "1", ";">>, <<"x", "++", ")", "{">>,
            <<"continue", ";">>, <<"}">> >>),
    Good(<< <<"function", "x", "(", "x">>, <<",", "x", ")", "{">>, <<"global", "x">>, <<";">>,
            <<"while", "(", "1", ")", "{">>, <<"}">>, <<"return">>, <<"1", ";">>, <<"}">> >>) }

Refused ==
  { Wrong(<<"x", "x", ";">>), Wrong(<<"load", ";">>), Wrong(<<"x", "=", "1", ")", ";">>),
    Wrong(<<"else", "{", "}">>) }

One == Simple \cup Nested \cup Blocks \cup Refused

MCSessions == {<<a, b>> : a \in One, b \in One}
                \cup {<<a, b, c>> : a \in Refused, b \in Nested \cup Blocks, c \in One}
=============================================================================
