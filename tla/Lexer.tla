------------------------------- MODULE Lexer -------------------------------
(***************************************************************************)
(* Texts to tokens: lexer/lexer.c.  _sbPreLexer reads characters one after *)
(* the other, in a mode, into a buffer that some of them turn into tokens; *)
(* _sbLexer then joins neighbours: a number, a point and a number, and the *)
(* two halves of an operator.                                              *)
(*                                                                         *)
(* A token keeps the places in the text of its characters, so that what    *)
(* becomes of every character can be told; "meant" has at each place what  *)
(* is appended to the buffer from there, which is not what is written      *)
(* where an escape ends.  "from" is the place and the line of SETPOS.      *)
(* Which words are keywords is not kept.                                   *)
(***************************************************************************)
EXTENDS Integers, Sequences, FiniteSets, SequencesExt

CONSTANT Scripts    \* what is written, and how much of it the text has

VARIABLES
  script, text,
  meant,             \* the text, with what an escape stands for where it ends
  at,                \* characters read
  mode,              \* what the next character is part of, or how the run ended
  quote,             \* strfront
  buffer, from,      \* of the token being read
  line,
  pre,               \* tokens of _sbPreLexer
  taken,             \* how many of them _sbLexer has taken
  held, rank,        \* the symbol in its hand, and the next operator to try
  tokens

(* A script is written in pieces: lexemes, with the type of their token,    *)
(* which of their characters it keeps and what these mean, blanks and       *)
(* notes.  The text is what there is of it so far.                          *)
Chars(pieces)     == [k \in DOMAIN pieces |-> pieces[k].chars]
Whole(pieces)     == FlattenSeq(Chars(pieces))
Before(pieces, n) == Len(FlattenSeq(SubSeq(Chars(pieces), 1, n - 1)))

(* The text is a beginning of what is written, and a C string. *)
ScriptsAssumption ==
  \A s \in Scripts : /\ s.length \in Nat /\ s.length <= Len(Whole(s.pieces))
                     /\ "NUL" \notin Range(Whole(s.pieces))
ASSUME ScriptsAssumption

source  == <<script, text>>
joining == <<taken, held, rank, tokens>>
vars    == <<source, meant, at, mode, quote, buffer, from, line, pre, joining>>

NoQuote == "none"
NoPlace == [place |-> 0, line |-> -1]

Digits    == {"0", "1", "2", "3", "4", "5", "6", "7", "8", "9"}
HexLetters == {"a", "b", "c", "d", "e", "f"}
Blanks    == {" ", "\t", "\n"}
Quotes    == {"'", "\""}
Singles   == {",", ";", ".", "[", "]", "%", "(", ")", "{", "}", "+", "^", "~", ":", "$", "@"}

(* The characters that make one symbol with the one before. *)
Seconds(c) ==
  CASE c = "!" -> {"="} [] c = "-" -> {">"} [] c = "*" -> {"*"} [] c = "&" -> {"&"} [] c = "|" -> {"|"}
    [] c \in {">", "<", "="} -> {">", "<", "="}

Firsts == {"!", "-", "*", "&", "|", ">", "<", "="}

Letter(c) == c \notin Digits \cup Blanks \cup Quotes \cup Singles \cup Firsts \cup {"/", "\\"}

Token(type, places, f) == [type |-> type, at |-> places, from |-> f]

Written(t, token) == [k \in DOMAIN token.at |-> t[token.at[k]]]

(* The characters that a code can stand for, from 0 to 110.                *)
Ascii ==
  <<"NUL", "SOH", "STX", "ETX", "EOT", "ENQ", "ACK", "BEL", "BS", "\t", "\n", "VT", "\f", "\r", "SO", "SI",
    "DLE", "DC1", "DC2", "DC3", "DC4", "NAK", "SYN", "ETB", "CAN", "EM", "SUB", "ESC", "FS", "GS", "RS", "US",
    " ", "!", "\"", "#", "$", "%", "&", "'", "(", ")", "*", "+", ",", "-", ".", "/",
    "0", "1", "2", "3", "4", "5", "6", "7", "8", "9", ":", ";", "<", "=", ">", "?",
    "@", "A", "B", "C", "D", "E", "F", "G", "H", "I", "J", "K", "L", "M", "N", "O",
    "P", "Q", "R", "S", "T", "U", "V", "W", "X", "Y", "Z", "[", "\\", "]", "^", "_",
    "grave", "a", "b", "c", "d", "e", "f", "g", "h", "i", "j", "k", "l", "m", "n">>

(* The digits of a code count tens and ones, and its letters 5 to 10.      *)
Worth(c)   == (CHOOSE k \in DOMAIN Ascii : Ascii[k] = c) - 1 - (IF c \in Digits THEN 48 ELSE 92)
Code(x, y) == Ascii[Worth(x) * 10 + Worth(y) + 1]

(* What the other escapes stand for. *)
Sign(c) ==
  CASE c = "n" -> "\n" [] c = "t" -> "\t" [] c = "e" -> "ESC" [] c = "r" -> "\r" [] c = "f" -> "\f" [] c = "v" -> "VT"
    [] c = "\\" -> "\\"

----------------------------------------------------------------------------
(* _sbPreLexer.                                                            *)

Reads(modes) == mode \in modes /\ at < Len(text)

InCode   == Reads({"code", "number", "hex"})
InString == Reads({"string"})

Char        == text[at + 1]
Follower(n) == IF at + 1 + n <= Len(text) THEN text[at + 1 + n] ELSE "end"

Here     == at + 1
Position == [place |-> Here, line |-> line]
Newlines(c) == IF c = "\n" THEN 1 ELSE 0

(* Tokens are copied as C strings: what is behind a NUL in the buffer is   *)
(* not copied, and a buffer that begins with one passes for empty.         *)
UpToNul(b) == SubSeq(b, 1, Cardinality({n \in DOMAIN b : \A k \in 1 .. n : meant[b[k]] # "NUL"}))

Idle   == mode = "code" /\ UpToNul(buffer) = <<>>
Hidden == Idle /\ buffer # <<>>

(* With the number or the word that ends here. *)
Saved == IF Idle THEN pre
         ELSE Append(pre, Token(IF mode = "code" THEN "word" ELSE "number", UpToNul(buffer), from))

Empty == buffer' = <<>> /\ from' = NoPlace
Keep  == UNCHANGED <<source, meant, joining>>

Symbol(n) ==
  /\ pre' = Append(Saved, Token("symbol", IF Hidden THEN <<>> ELSE [k \in 1 .. n |-> at + k], Position))
  /\ at' = at + n /\ mode' = "code" /\ Empty
  /\ UNCHANGED <<quote, line>> /\ Keep

ReadSingle == InCode /\ Char \in Singles /\ Symbol(1)

(* Mutant: a second character is read whatever it is.                     *)
ReadPair_both == InCode /\ Char \in Firsts /\ Symbol(2)

ReadPair == InCode /\ Char \in Firsts /\ Symbol(IF Follower(1) \in Seconds(Char) THEN 2 ELSE 1)

ReadSlash ==
  /\ InCode /\ Char = "/"
  /\ IF Follower(1) \in {"/", "*"}
     THEN /\ pre' = Saved /\ Empty
          /\ at' = at + 2 /\ mode' = IF Follower(1) = "/" THEN "line note" ELSE "note"
          /\ UNCHANGED <<quote, line>> /\ Keep
     ELSE Symbol(1)

SkipLineNote ==
  /\ Reads({"line note"})
  /\ at' = at + 1 /\ line' = line + Newlines(Char)
  /\ mode' = IF Char = "\n" THEN "code" ELSE mode
  /\ UNCHANGED <<quote, buffer, from, pre>> /\ Keep

(* Mutant: the newlines of a note are not counted.                        *)
SkipNote_uncounted ==
  /\ Reads({"note"})
  /\ IF Char # "*" THEN at' = at + 1 /\ UNCHANGED <<mode, line>>
     ELSE /\ at' = at + 2 /\ UNCHANGED line
          /\ mode' = CASE Follower(1) = "/" -> "code" [] Follower(1) = "end" -> "beyond" [] OTHER -> "note"
  /\ UNCHANGED <<quote, buffer, from, pre>> /\ Keep

(* A star is always read with the character after it: if that is the end   *)
(* of the text, the loop goes on behind it.                                *)
SkipNote ==
  /\ Reads({"note"})
  /\ IF Char # "*" THEN at' = at + 1 /\ line' = line + Newlines(Char) /\ UNCHANGED mode
     ELSE /\ at' = at + 2 /\ UNCHANGED line
          /\ mode' = CASE Follower(1) = "/" -> "code" [] Follower(1) = "end" -> "beyond" [] OTHER -> "note"
  /\ UNCHANGED <<quote, buffer, from, pre>> /\ Keep

ReadDigit ==
  /\ InCode /\ Char \in Digits
  /\ buffer' = Append(buffer, Here) /\ at' = at + 1
  /\ IF Idle THEN mode' = "number" /\ from' = Position ELSE UNCHANGED <<mode, from>>
  /\ UNCHANGED <<quote, line, pre>> /\ Keep

(* A letter goes on with a word, ends a number, or belongs to it.          *)
ReadLetter ==
  /\ InCode /\ Letter(Char)
  /\ LET digit  == mode = "hex" /\ Char \in HexLetters
         prefix == mode = "number" /\ Char = "x"
     IN  CASE digit \/ prefix -> /\ buffer' = Append(buffer, Here) /\ UNCHANGED <<from, pre>>
                                 /\ mode' = "hex"
           [] mode # "code" /\ ~digit /\ ~prefix -> /\ pre' = Saved /\ buffer' = <<Here>> /\ from' = Position
                                                    /\ mode' = "code"
           [] mode = "code" -> /\ buffer' = Append(buffer, Here) /\ UNCHANGED <<mode, pre>>
                               /\ from' = IF from = NoPlace THEN Position ELSE from
  /\ at' = at + 1 /\ UNCHANGED <<quote, line>> /\ Keep

(* Mutant: a blank does not end number mode.                              *)
ReadBlank_on ==
  /\ InCode /\ Char \in Blanks
  /\ pre' = Saved /\ IF Hidden THEN UNCHANGED <<buffer, from>> ELSE Empty
  /\ at' = at + 1 /\ line' = line + Newlines(Char)
  /\ UNCHANGED <<mode, quote>> /\ Keep

ReadBlank ==
  /\ InCode /\ Char \in Blanks
  /\ pre' = Saved /\ IF Hidden THEN UNCHANGED <<buffer, from>> ELSE Empty
  /\ at' = at + 1 /\ mode' = "code" /\ line' = line + Newlines(Char)
  /\ UNCHANGED quote /\ Keep

OpenString ==
  /\ InCode /\ Char \in Quotes
  /\ pre' = Saved /\ buffer' = (IF Hidden THEN buffer ELSE <<>>) /\ from' = Position
  /\ at' = at + 1 /\ mode' = "string" /\ quote' = Char
  /\ UNCHANGED line /\ Keep

(* Mutant: either quote closes a string.                                  *)
CloseString_any ==
  /\ InString /\ Char \in Quotes
  /\ pre' = Append(pre, Token("string", UpToNul(buffer), from)) /\ Empty
  /\ at' = at + 1 /\ mode' = "code" /\ quote' = NoQuote
  /\ UNCHANGED line /\ Keep

CloseString ==
  /\ InString /\ Char = quote
  /\ pre' = Append(pre, Token("string", UpToNul(buffer), from)) /\ Empty
  /\ at' = at + 1 /\ mode' = "code" /\ quote' = NoQuote
  /\ UNCHANGED line /\ Keep

ReadInString ==
  /\ InString /\ Char \notin {quote, "\\"}
  /\ buffer' = Append(buffer, Here)
  /\ at' = at + 1 /\ line' = line + Newlines(Char)
  /\ UNCHANGED <<mode, quote, from, pre>> /\ Keep

(* A backslash ends a number or a word, and is with what follows it one    *)
(* character, or none at the end of a line.                                *)
EscapeLength ==
  CASE Follower(1) \in {"\\", "n", "t", "e", "r", "f", "v", "\n"} -> 2
    [] Follower(1) = "x" /\ {Follower(2), Follower(3)} \subseteq Digits \cup HexLetters -> 4
    [] OTHER -> 0

Decoded == IF Follower(1) = "x" THEN Code(Follower(2), Follower(3)) ELSE Sign(Follower(1))

Escape ==
  /\ Reads({"code", "number", "hex", "string"}) /\ Char = "\\"
  /\ LET goes  == mode = "string" \/ Idle
         keeps == IF goes THEN buffer ELSE <<>>
     IN  /\ pre' = IF mode = "string" THEN pre ELSE Saved
         /\ IF EscapeLength = 0
            THEN /\ mode' = IF Follower(1) = "end" THEN "unfinished" ELSE "wrong"
                 /\ UNCHANGED <<meant, at, buffer, from, line>>
            ELSE /\ mode' = IF mode = "string" THEN mode ELSE "code"
                 /\ at' = at + EscapeLength /\ from' = IF goes THEN from ELSE NoPlace
                 /\ line' = line + Newlines(Follower(1))
                 /\ IF Follower(1) = "\n" THEN buffer' = keeps /\ UNCHANGED meant
                    ELSE /\ buffer' = Append(keeps, at + EscapeLength)
                         /\ meant' = [meant EXCEPT ![at + EscapeLength] = Decoded]
  /\ UNCHANGED <<quote, source, joining>>

EndText ==
  /\ at = Len(text) /\ mode \in {"code", "number", "hex", "string", "line note", "note"}
  /\ IF mode = "string" THEN mode' = "unfinished" /\ UNCHANGED <<pre, buffer, from>>
     ELSE mode' = "join" /\ pre' = (IF UpToNul(buffer) = <<>> THEN pre ELSE Saved) /\ Empty
  /\ UNCHANGED <<at, quote, line>> /\ Keep

----------------------------------------------------------------------------
(* _sbLexer.                                                               *)

Joins == mode = "join" /\ held = <<>>

Left    == Len(pre) - taken
Coming(n) == pre[taken + n]
Is(token, s) == Written(meant, token) = s
IsPoint(token) == token.type = "symbol" /\ Is(token, <<".">>)

Join(ts, n) ==
  /\ tokens' = tokens \o ts /\ taken' = taken + n
  /\ UNCHANGED <<source, meant, at, mode, quote, buffer, from, line, pre, held, rank>>

Fused(a, b, type, f) == Token(type, a.at \o b.at, f)

JoinNumber ==
  /\ Joins /\ Left > 0 /\ Coming(1).type = "number"
  /\ CASE Left = 1 -> Join(<<Coming(1)>>, 1)
       [] Left > 1 /\ ~IsPoint(Coming(2)) -> Join(<<Coming(1), Coming(2)>>, 2)
       [] Left = 2 /\ IsPoint(Coming(2)) -> Join(<<Fused(Coming(1), Coming(2), "number", Coming(1).from)>>, 2)
       [] Left > 2 /\ IsPoint(Coming(2)) ->
            LET whole == Fused(Coming(1), Coming(2), "number", Coming(1).from)
            IN  IF Coming(3).type = "number" THEN Join(<<Fused(whole, Coming(3), "number", Coming(3).from)>>, 3)
                ELSE Join(<<whole, Coming(3)>>, 3)

JoinPoint ==
  /\ Joins /\ Left > 0 /\ IsPoint(Coming(1))
  /\ CASE Left = 1 -> Join(<<Coming(1)>>, 1)
       [] Left > 1 /\ Coming(2).type = "number" ->
            Join(<<Fused(Coming(1), Coming(2), "number", Coming(2).from)>>, 2)
       [] Left > 1 /\ Coming(2).type # "number" -> Join(<<Coming(1), Coming(2)>>, 2)

JoinOther == Joins /\ Left > 0 /\ Coming(1).type \in {"word", "string"} /\ Join(<<Coming(1)>>, 1)

(* The operators that may have another half, in the order they are tried.  *)
Operators == <<<<"+">>, <<"-">>, <<"*">>, <<"/">>, <<"|">>, <<"&">>, <<">", ">">>, <<"<", "<">>,
               <<"*", "*">>, <<"^">>, <<"%">>>>

Halves(op) == IF op \in {<<"+">>, <<"-">>} THEN {op, <<"=">>} ELSE {<<"=">>}

Take ==
  /\ Joins /\ Left > 0 /\ Coming(1).type = "symbol" /\ ~IsPoint(Coming(1))
  /\ held' = <<Coming(1)>> /\ rank' = 1 /\ taken' = taken + 1
  /\ UNCHANGED <<source, meant, at, mode, quote, buffer, from, line, pre, tokens>>

Holds == mode = "join" /\ held # <<>>

(* The operators that are still tried on a token, compared by its text     *)
(* whatever its type.                                                      *)
Tried(token) == {k \in rank .. Len(Operators) : Is(token, Operators[k])}

Hold(ts, h, r, n) ==
  /\ tokens' = tokens \o ts /\ held' = h /\ rank' = r /\ taken' = taken + n
  /\ UNCHANGED <<source, meant, at, mode, quote, buffer, from, line, pre>>

(* The token in hand is none of the operators left. *)
LetGo == Holds /\ Tried(held[1]) = {} /\ Hold(held, <<>>, 1, 0)

(* Mutant: what was in hand is forgotten when something else comes.       *)
JoinOperator_dropped ==
  /\ Holds
  /\ \E k \in Tried(held[1]) :
       IF Left = 0 THEN Hold(held, <<>>, 1, 0)
       ELSE IF Coming(1).type = "symbol" /\ Written(meant, Coming(1)) \in Halves(Operators[k])
       THEN Hold(<<Fused(held[1], Coming(1), "symbol", Coming(1).from)>>, <<>>, 1, 1)
       ELSE Hold(<<>>, <<Coming(1)>>, k + 1, 1)

(* With its other half it is one symbol; if something else comes, that is  *)
(* what is in hand now, and the operators before are not tried on it.      *)
JoinOperator ==
  /\ Holds
  /\ \E k \in Tried(held[1]) :
       IF Left = 0 THEN Hold(held, <<>>, 1, 0)
       ELSE IF Coming(1).type = "symbol" /\ Written(meant, Coming(1)) \in Halves(Operators[k])
       THEN Hold(<<Fused(held[1], Coming(1), "symbol", Coming(1).from)>>, <<>>, 1, 1)
       ELSE Hold(held, <<Coming(1)>>, k + 1, 1)

EndJoin ==
  /\ Joins /\ Left = 0 /\ mode' = "done"
  /\ UNCHANGED <<source, meant, at, quote, buffer, from, line, pre, joining>>

----------------------------------------------------------------------------
Ended == {"done", "unfinished", "wrong"}
Stopped == mode \in Ended /\ UNCHANGED vars

Init ==
  /\ script \in Scripts /\ text = SubSeq(Whole(script.pieces), 1, script.length) /\ meant = text
  /\ at = 0 /\ mode = "code" /\ quote = NoQuote /\ buffer = <<>> /\ from = NoPlace /\ line = 0
  /\ pre = <<>> /\ taken = 0 /\ held = <<>> /\ rank = 1 /\ tokens = <<>>

Next ==
  \/ ReadSingle \/ ReadPair \/ ReadSlash \/ SkipLineNote \/ SkipNote \/ ReadDigit \/ ReadLetter \/ ReadBlank
  \/ OpenString \/ CloseString \/ ReadInString \/ Escape \/ EndText
  \/ JoinNumber \/ JoinPoint \/ JoinOther \/ Take \/ LetGo \/ JoinOperator \/ EndJoin
  \/ Stopped

Spec == Init /\ [][Next]_vars

----------------------------------------------------------------------------
(* Types of the state.                                                     *)
Tokens(ts) == \A k \in DOMAIN ts : /\ ts[k].type \in {"word", "number", "symbol", "string"}
                                   /\ ts[k].at \in Seq(1 .. Len(text)) /\ ts[k].from.line \in -1 .. Len(text)

TypeOK ==
  /\ DOMAIN meant = DOMAIN text /\ at \in 0 .. Len(text) /\ line \in 0 .. at
  /\ mode \in Ended \cup {"code", "number", "hex", "string", "line note", "note", "join"}
  /\ quote \in Quotes \cup {NoQuote} /\ (mode = "string" => quote \in Quotes)
  /\ buffer \in Seq(1 .. at) /\ (mode \in {"number", "hex"} => buffer # <<>>)
  /\ Tokens(pre) /\ Tokens(tokens) /\ Tokens(held) /\ Len(held) \in {0, 1}
  /\ taken \in 0 .. Len(pre) /\ rank \in 1 .. Len(Operators) + 1

(* The joiner passes every character of every token on, once and in the    *)
(* order of the text, whatever it joins and however many operators it      *)
(* tries (lexer.c:676-975).  What _sbPreLexer did not put into a token is  *)
(* not spoken of: a string with a \x00 in it is cut there.                 *)
Places(ts) == FlattenSeq([k \in DOMAIN ts |-> ts[k].at])

NothingLost ==
  LET all == Places(pre) IN
  /\ Places(tokens \o held \o SubSeq(pre, taken + 1, Len(pre))) = all
  /\ \A i \in 1 .. Len(all) - 1 : all[i] < all[i + 1]

(* The line a token is reported on is the line it is on: errors of the     *)
(* parser and of a running program name it (lexer.c:46, counted at each    *)
(* newline of code, strings and notes).                                    *)
LinesRight ==
  \A ts \in {pre, tokens, held} : \A k \in DOMAIN ts :
    ts[k].from.line = Cardinality({p \in 1 .. ts[k].from.place - 1 : text[p] = "\n"})

(* A text that ends inside a string is unfinished, and no other is: the    *)
(* REPL asks for another line exactly then (lexer.c:467-476, 629-639).     *)
EndsIn(k) == script.length \in Before(script.pieces, k) + 1
                              .. Before(script.pieces, k) + Len(script.pieces[k].chars) - 1

AsksInsideStrings ==
  mode \in Ended =>
    (mode = "unfinished" <=> \E k \in DOMAIN script.pieces : script.pieces[k].type = "string" /\ EndsIn(k))

(* The tokens of a whole text are the ones that were written, each with    *)
(* its type and its characters, wherever blanks and notes stand between    *)
(* them (lexer.c:77-658 and 660-984 together); the character of a code is  *)
(* the one that its digits count by tens.  The lexer does not keep this    *)
(* for every text: in a Plain one no code is that of NUL, an operator that *)
(* may have another half is not followed by a fraction or another          *)
(* operator, a number or a point not by an operator that has its other     *)
(* half, and number and point do not meet.                                 *)
Indices == FlattenSeq([k \in DOMAIN script.pieces |-> IF script.pieces[k].type = "none" THEN <<>> ELSE <<k>>])
Lexemes == [j \in DOMAIN Indices |-> script.pieces[Indices[j]]]

MayJoin(piece) == piece.meant \in Range(Operators)
Joined(piece)  == piece.type = "symbol" /\ \E k \in DOMAIN Operators : \E h \in Halves(Operators[k]) :
                                             piece.chars = Operators[k] \o h
Fraction(piece) == piece.type = "number" /\ "." \in Range(piece.chars)

Point == <<".">>

Plain ==
  /\ \A k \in DOMAIN script.pieces : "NUL" \notin Range(script.pieces[k].meant)
  /\ \A k \in 1 .. Len(Lexemes) - 1 :
       LET this == Lexemes[k]  next == Lexemes[k + 1] IN
       /\ MayJoin(this) => ~(MayJoin(next) \/ Joined(next) \/ next.chars = <<"=">>)
       /\ Fraction(next) => ~(MayJoin(this) \/ this.type = "number")
       /\ this.type = "number" \/ this.chars = Point => ~Joined(next)
       /\ ~({this.type, next.type} = {"number", "symbol"} /\ Point \in {this.chars, next.chars})

Expected ==
  [j \in DOMAIN Lexemes |->
     [type  |-> Lexemes[j].type,
      at    |-> [i \in DOMAIN Lexemes[j].kept |-> Before(script.pieces, Indices[j]) + Lexemes[j].kept[i]],
      chars |-> Lexemes[j].meant]]

Read(token) == [type |-> token.type, at |-> token.at, chars |-> Written(meant, token)]

ReadsAsWritten ==
  mode \in Ended /\ Plain /\ script.length = Before(script.pieces, Len(script.pieces) + 1) =>
    mode = "done" /\ [k \in DOMAIN tokens |-> Read(tokens[k])] = Expected

----------------------------------------------------------------------------
(* How pieces are written, and side by side: the scripts of which all this *)
(* is true.                                                                *)
KeepsAll(p) == p.kept = [k \in DOMAIN p.chars |-> k] /\ p.meant = p.chars

WordWritten(p) ==
  Letter(p.chars[1]) /\ \A k \in DOMAIN p.chars : Letter(p.chars[k]) \/ p.chars[k] \in Digits

DigitsBut(p, q, others) ==
  \A k \in DOMAIN p.chars : p.chars[k] \in Digits \/ k = q \/ (k > q /\ p.chars[k] \in others)

NumberWritten(p) ==
  \/ DigitsBut(p, 0, {})
  \/ \E q \in 2 .. Len(p.chars) : p.chars[q] = "x" /\ DigitsBut(p, q, HexLetters)
  \/ \E q \in 2 .. Len(p.chars) - 1 : p.chars[q] = "." /\ DigitsBut(p, q, {})

SymbolWritten(p) ==
  LET c == p.chars[1]  n == Len(p.chars) IN
  \/ n = 1 /\ c \in Singles \cup Firsts \cup {"/"}
  \/ n = 2 /\ c \in Firsts /\ p.chars[2] \in Seconds(c)
  \/ Joined(p)

(* A string is a sequence of units, a character or an escape; count gives, *)
(* where a unit begins and where the string ends, the units kept before.   *)
UnitLength(p, i) ==
  CASE p.chars[i] # "\\" -> 1
    [] p.chars[i] = "\\" /\ p.chars[i + 1] = "x" -> 4
    [] p.chars[i] = "\\" /\ p.chars[i + 1] # "x" -> 2

UnitMeans(p, i) ==
  CASE UnitLength(p, i) = 1 -> p.chars[i]
    [] UnitLength(p, i) = 2 -> Sign(p.chars[i + 1])
    [] UnitLength(p, i) = 4 -> Code(p.chars[i + 2], p.chars[i + 3])

UnitWritten(p, count, i) ==
  LET n == UnitLength(p, i) IN
  /\ p.chars[i] # p.chars[1] /\ i + n \in DOMAIN count
  /\ n = 2 => p.chars[i + 1] \in {"\\", "n", "t", "e", "r", "f", "v", "\n"}
  /\ n = 4 => {p.chars[i + 2], p.chars[i + 3]} \subseteq Digits \cup HexLetters
  /\ IF n = 2 /\ p.chars[i + 1] = "\n" THEN count[i + n] = count[i]
     ELSE /\ count[i + n] = count[i] + 1 /\ p.kept[count[i] + 1] = i + n - 1
          /\ p.meant[count[i] + 1] = UnitMeans(p, i) /\ UnitMeans(p, i) # "NUL"

StringWritten(p, count) ==
  LET n == Len(p.chars) IN
  /\ n >= 2 /\ p.chars[1] \in Quotes /\ p.chars[n] = p.chars[1] /\ DOMAIN p.meant = DOMAIN p.kept
  /\ {2, n} \subseteq DOMAIN count /\ DOMAIN count \subseteq 2 .. n
  /\ \A i \in DOMAIN count : count[i] \in 0 .. Len(p.kept)
  /\ count[2] = 0 /\ count[n] = Len(p.kept)
  /\ \A i \in DOMAIN count \ {n} : UnitWritten(p, count, i)

(* Blanks and continued lines, a note, or a note that ends with its line.  *)
GapWritten(p) ==
  LET n == Len(p.chars) IN
  \/ \A k \in 1 .. n : \/ p.chars[k] \in Blanks
                       \/ p.chars[k] = "\\" /\ k < n /\ p.chars[k + 1] = "\n"
  \/ /\ n >= 4 /\ p.chars[1] = "/" /\ p.chars[2] = "*" /\ p.chars[n - 1] = "*" /\ p.chars[n] = "/"
     /\ \A k \in 3 .. n - 2 : p.chars[k] # "*"
  \/ /\ n >= 3 /\ p.chars[1] = "/" /\ p.chars[2] = "/" /\ p.chars[n] = "\n"
     /\ \A k \in 3 .. n - 1 : p.chars[k] # "\n"

PieceWritten(p, counts) ==
  /\ p.chars \in Seq(Range(p.chars)) /\ p.chars # <<>> /\ p.kept \in Seq(1 .. Len(p.chars))
  /\ p.meant \in Seq(Range(p.meant))
  /\ p.type \in {"word", "number", "symbol", "string", "none"}
  /\ CASE p.type = "word"   -> KeepsAll(p) /\ WordWritten(p)
       [] p.type = "number" -> KeepsAll(p) /\ NumberWritten(p)
       [] p.type = "symbol" -> KeepsAll(p) /\ SymbolWritten(p)
       [] p.type = "string" -> StringWritten(p, counts[p])
       [] p.type = "none"   -> GapWritten(p) /\ p.kept = <<>> /\ p.meant = <<>>

(* A piece that does not run into the character c behind it. *)
Apart(p, c) ==
  LET n == Len(p.chars) IN
  CASE p.type = "word"   -> ~Letter(c) /\ c \notin Digits
    [] p.type = "number" -> c \notin Digits /\ c \notin (IF "x" \in Range(p.chars) THEN HexLetters ELSE {"x"})
    [] p.type = "symbol" -> n = 1 \/ Joined(p) =>
                              /\ p.chars[n] \in Firsts => c \notin Seconds(p.chars[n])
                              /\ p.chars[n] = "/" => c \notin {"/", "*"}
    [] OTHER             -> TRUE

WellWritten(pieces, counts) ==
  /\ pieces \in Seq(Range(pieces))
  /\ \A k \in DOMAIN pieces : PieceWritten(pieces[k], counts)
  /\ \A k \in 1 .. Len(pieces) - 1 : Apart(pieces[k], pieces[k + 1].chars[1])

(* Not cut, after so many of its characters, inside a continued line or a  *)
(* code.                                                                   *)
CutWell(p, count, cut) ==
  /\ p.type = "none" /\ cut \in DOMAIN p.chars => p.chars[cut] # "\\"
  /\ p.type = "string" => \A i \in DOMAIN count \ {Len(p.chars)} : UnitLength(p, i) = 4 => cut \notin {i + 1, i + 2}

WellCut(s, counts) ==
  \A k \in DOMAIN s.pieces : CutWell(s.pieces[k], counts[s.pieces[k]], s.length - Before(s.pieces, k))
=============================================================================
