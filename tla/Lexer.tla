-------------------------------- MODULE Lexer --------------------------------
(***************************************************************************)
(* The lexer: lexer_load goes through a text from the left to the right,    *)
(* and each turn of its loop (reduce6) takes one token off it, blanks or a   *)
(* comment.  A text in double quotes becomes several tokens, one a step.     *)
(*                                                                         *)
(* A text is a sequence of characters; behind its last one is "end", the     *)
(* '\0', which in() counts among the delimiters of every list.               *)
(***************************************************************************)
EXTENDS Integers, Sequences, SequencesExt

CONSTANTS
    Char,       \* the characters texts are made of
    Keyword,    \* the reserved words
    Texts       \* the texts a run may be about

ASSUME LexerConstants ==
    /\ "end" \notin Char
    /\ Keyword \subseteq Seq(Char) /\ << >> \notin Keyword
    /\ Texts \subseteq Seq(Char)

VARIABLES
    text,       \* the input
    i,          \* the position of lexer_load, or of the text in double quotes
    toks,       \* the tokens of the lexer
    pc          \* "load", or the loop of handle_double_quote in "text" or in "var",
                \* or how it ended: "done", "failed", "stopped"
vars == <<text, i, toks, pc>>

Blanks == {" ", "tab"}
Digits == {"0", "1", "2"}
Angles == {"<", ">"}
WordEnds == Blanks \cup Angles \cup {";", "|", "nl", "'", "\"", "(", ")", "{", "}", "end"}
KeywordEnds == WordEnds \cup {"$"}
RedirectionEnds == KeywordEnds \ Angles
VariableEnds == KeywordEnds \ {"(", "{", "}"}

(* The tokens that need no delimiter, and the redirections of two characters. *)
Operators == {<<";">>, <<"|", "|">>, <<"&", "&">>, <<"|">>, <<"!">>, <<"nl">>,
              <<"{">>, <<"}">>, <<"(">>, <<")">>}
LongRedirections == {<<">", "|">>, <<"<", ">">>, <<">", ">">>, <<">", "&">>, <<"<", "&">>}

-----------------------------------------------------------------------------
(* What is at these positions of s, in order: a loop that appends a character to a
   string or passes it over (strappendchar), said with a recursive function, which
   the proofs can follow and SelectSeq is not. *)
Picked(s, positions) ==
    LET upto[n \in 0 .. Len(s)] ==
            IF n = 0 THEN << >>
            ELSE IF n \in positions THEN Append(upto[n - 1], s[n])
            ELSE upto[n - 1]
    IN  upto[Len(s)]

(* What run_program does to its input before: a backslash and a newline behind it
   are removed, wherever they are. *)
remove_escaped_newline(input) ==
    LET Joins(k) == k \in 1 .. Len(input) - 1 /\ input[k] = "\\" /\ input[k + 1] = "nl"
    IN  Picked(input, {k \in DOMAIN input : ~Joins(k) /\ ~Joins(k - 1)})

Size == Len(text)
Ch(k) == IF k \in 1 .. Size THEN text[k] ELSE "end"
StartsAt(s, k) == \A n \in DOMAIN s : Ch(k + n - 1) = s[n]

(* The positions from k on, with the one behind the text. *)
From(k) == k .. Size + 1

(* The flag of the loops over words: a backslash quotes the next character unless
   it is quoted itself, so an odd number of them does.  The one a word begins with
   counts for nothing: the flag starts as if it had been seen, and is reset with the
   first character. *)
Quoted(from, k) ==
    \E m \in from + 1 .. k - 1 :
        /\ (k - m) % 2 = 1
        /\ \A n \in m .. k - 1 : Ch(n) = "\\"
        /\ m = from + 1 \/ Ch(m - 1) # "\\"

Token(type, value) == [type |-> type, value |-> value]
Word(value) == Token("word", value)

(* A word without its backslashes, those that are quoted excepted. *)
remove_backslash(from, to) ==
    Picked(text, {k \in from .. to - 1 : Ch(k) # "\\" \/ Quoted(from - 1, k)})

is_redirection(k) ==
    \E m \in k .. Size :
        /\ Ch(m) \in Angles /\ ~Quoted(k, m)
        /\ \A n \in k .. m - 1 : \/ Ch(n) \in Digits \cup {"\\"}
                                 \/ Ch(n) \in Angles /\ Quoted(k, n)

(* The operator or the reserved word at k, if there is one. *)
OperatorsAt(k) ==
    {s \in Operators : StartsAt(s, k) /\ (s = <<"|">> => Ch(k + 1) # "|")}
      \cup {s \in Keyword : StartsAt(s, k) /\ Ch(k + Len(s)) \in KeywordEnds}

-----------------------------------------------------------------------------
Init == text \in Texts /\ i = 1 /\ toks = << >> /\ pc = "load"

Loading == pc = "load" /\ i <= Size

(* One turn took the text up to k, and this token from it. *)
Take(k, t) == i' = k /\ toks' = Append(toks, t) /\ UNCHANGED <<text, pc>>
Skip(k) == i' = k /\ UNCHANGED <<text, toks, pc>>
(* lexer_load returns NULL.  All but reduce3 free the tokens before. *)
GiveUp(kept) == pc' = "failed" /\ toks' = kept /\ UNCHANGED <<text, i>>

Special == Ch(i) \in {"\\", "#", "'", "\""} \/ (Ch(i) = "$" /\ Ch(i + 1) \in {"(", "{"})
Ordinary == Loading /\ ~Special /\ Ch(i) \notin Blanks

(* Mutant of handle_word: a word ends at a quoted delimiter too. *)
handle_word_unquoted == Min({k \in From(i) : Ch(k) \in WordEnds})

handle_word == Min({k \in From(i) : Ch(k) = "end" \/ (Ch(k) \in WordEnds /\ ~Quoted(i, k))})

(* Mutant of TakeWord: its length is taken when the backslashes are removed. *)
TakeWordShort ==
    /\ \/ Loading /\ Ch(i) = "\\"
       \/ Ordinary /\ ~is_redirection(i) /\ OperatorsAt(i) = {}
    /\ LET value == remove_backslash(i, handle_word)
       IN  Take(i + Len(value), Word(value))

(* reduce1, and reduce5 for a word. *)
TakeWord ==
    /\ \/ Loading /\ Ch(i) = "\\"
       \/ Ordinary /\ ~is_redirection(i) /\ OperatorsAt(i) = {}
    /\ Take(handle_word, Word(remove_backslash(i, handle_word)))

TakeOperator ==
    /\ Ordinary /\ ~is_redirection(i)
    /\ \E s \in OperatorsAt(i) : Take(i + Len(s), Token("op", s))

(* reduce5_1: up to a delimiter, or up to an operator of two characters. *)
TakeRedirection ==
    /\ Ordinary /\ is_redirection(i)
    /\ LET k == Min({m \in From(i) : Ch(m) \in RedirectionEnds})
           long == {m \in i .. k - 1 : \E s \in LongRedirections : StartsAt(s, m)}
           to == IF long = {} THEN k ELSE 2 + Min(long)
       IN  Take(to, Token("redir", SubSeq(text, i, to - 1)))

SkipBlank == Loading /\ Ch(i) \in Blanks /\ Skip(i + 1)

(* Mutant of SkipComment: one character more is skipped at the end of the text too. *)
SkipCommentPast ==
    /\ Loading /\ Ch(i) = "#"
    /\ Skip(1 + Min({m \in From(i) : Ch(m) \in {"nl", "end"}}))

(* A comment ends behind its newline. *)
SkipComment ==
    /\ Loading /\ Ch(i) = "#"
    /\ LET k == Min({m \in From(i) : Ch(m) \in {"nl", "end"}})
       IN  Skip(IF Ch(k) = "nl" THEN k + 1 ELSE k)

(* What is in single quotes, with the characters of a word that follow.  From here
   on the length of the value says where the next turn begins. *)
Closing == Min({k \in From(i + 1) : Ch(k) \in {"'", "end"}})

(* Mutant of TakeQuote: what follows the closing quote is passed over. *)
TakeQuoteOnly ==
    /\ Loading /\ Ch(i) = "'" /\ Ch(Closing) = "'"
    /\ LET to == Min({k \in From(Closing + 1) : Ch(k) \in WordEnds})
           value == SubSeq(text, i + 1, Closing - 1)
       IN  IF value = << >> THEN Skip(to) ELSE Take(to, Word(value))

TakeQuote ==
    /\ Loading /\ Ch(i) = "'" /\ Ch(Closing) = "'"
    /\ LET to == Min({k \in From(Closing + 1) : Ch(k) \in WordEnds})
           value == SubSeq(text, i + 1, Closing - 1) \o SubSeq(text, Closing + 1, to - 1)
       IN  IF value = << >> THEN Skip(i + 2) ELSE Take(i + Len(value) + 2, Word(value))

UnclosedQuote == Loading /\ Ch(i) = "'" /\ Ch(Closing) = "end" /\ GiveUp(<< >>)

(* $( and ${, up to what closes them, wherever that is. *)
handle_var ==
    LET closer == IF Ch(i + 1) = "(" THEN ")" ELSE "}"
    IN  Min({k \in From(i + 1) : Ch(k) = "end" \/ (Ch(k) = closer /\ ~Quoted(i + 1, k))})

AtVar == Loading /\ Ch(i) = "$" /\ Ch(i + 1) \in {"(", "{"}

TakeVar ==
    /\ AtVar /\ Ch(handle_var) # "end"
    /\ Take(handle_var + 1, Word(remove_backslash(i, handle_var + 1)))

UnclosedVar == AtVar /\ Ch(handle_var) = "end" /\ GiveUp(toks)

-----------------------------------------------------------------------------
(* handle_double_quote.  A $ at once behind the quote starts in "var" with the $
   itself, any other is dropped and what follows goes on in "var". *)
Inside == pc \in {"text", "var"}

OpenDouble ==
    /\ Loading /\ Ch(i) = "\""
    /\ i' = i + 1 /\ pc' = IF Ch(i + 1) = "$" THEN "var" ELSE "text"
    /\ UNCHANGED <<text, toks>>

(* reduce_db2 and reduce_db1.  Behind a backslash that is the last character it goes
   on behind the end of the text, and the build with -fsanitize=address stops. *)
Escaped(k) == Quoted(i - 1, k)
EndOfPiece == Min({k \in From(i) : Ch(k) = "end" \/ (Ch(k) \in {"\"", "$"} /\ ~Escaped(k))})
Unescaped ==
    Picked(text, {k \in i .. EndOfPiece - 1 :
               Ch(k) # "\\" \/ Escaped(k) \/ Ch(k + 1) \notin {"\\", "$", "nl", "\""}})

TakeText ==
    /\ pc = "text" /\ Ch(i) \notin {"\"", "end"}
    /\ ~(Ch(EndOfPiece) = "end" /\ Escaped(EndOfPiece))
    /\ toks' = Append(toks, Word(Unescaped))
    /\ IF Ch(EndOfPiece) = "$" THEN pc' = "var" /\ i' = EndOfPiece + 1
       ELSE pc' = pc /\ i' = EndOfPiece
    /\ UNCHANGED text

ReadBehindText ==
    /\ pc = "text" /\ Ch(i) \notin {"\"", "end"}
    /\ Ch(EndOfPiece) = "end" /\ Escaped(EndOfPiece)
    /\ pc' = "stopped" /\ UNCHANGED <<text, i, toks>>

(* A delimiter ends the name of a variable, and is lost. *)
TakeName ==
    /\ pc = "var" /\ Ch(i) \notin {"\"", "end"}
    /\ LET k == Min({m \in From(i) : Ch(m) \in VariableEnds})
       IN  /\ toks' = Append(toks, Word(SubSeq(text, i, k - 1)))
           /\ IF Ch(k) \in {"\"", "end"} THEN i' = k /\ pc' = pc
              ELSE i' = k + 1 /\ pc' = "text"
    /\ UNCHANGED text

CloseDouble ==
    /\ Inside /\ Ch(i) = "\""
    /\ i' = i + 1 /\ pc' = "load" /\ UNCHANGED <<text, toks>>

UnclosedDouble == Inside /\ Ch(i) = "end" /\ GiveUp(<< >>)

EndOfText ==
    /\ pc = "load" /\ i = Size + 1
    /\ toks' = Append(toks, Token("eof", << >>)) /\ pc' = "done"
    /\ UNCHANGED <<text, i>>

Ended == pc \in {"done", "failed", "stopped"}
Finished == Ended /\ UNCHANGED vars

Next ==
    \/ TakeWord \/ TakeOperator \/ TakeRedirection \/ SkipBlank \/ SkipComment
    \/ TakeQuote \/ UnclosedQuote \/ TakeVar \/ UnclosedVar
    \/ OpenDouble \/ TakeText \/ ReadBehindText \/ TakeName \/ CloseDouble \/ UnclosedDouble
    \/ EndOfText \/ Finished

Spec == Init /\ [][Next]_vars

-----------------------------------------------------------------------------
Positions == text \in Texts /\ i \in 1 .. Size + 1

(* The position stays in the text: only ReadBehindText reads behind its end. *)
TypeOK ==
    /\ Positions /\ pc \in {"load", "text", "var", "done", "failed", "stopped"}
    /\ toks \in Seq([type : {"word", "redir", "op", "eof"}, value : Seq(Char)])

(* Every turn of the loops moves forward, so that they end, whatever the text
   (lexer_load, handle_double_quote). *)
Advances == [][i' > i \/ Ended']_vars

(* At every step the tokens hold the characters of the text up to the position, in
   order, except for blanks and what quotes; said of texts without comments and
   without $ in double quotes, which loses some. *)
Matter == Char \ (Blanks \cup {"'", "\"", "\\"})
Only(s, set) == Picked(s, {k \in DOMAIN s : s[k] \in set})
Values(tokens) == FlattenSeq([k \in DOMAIN tokens |-> tokens[k].value])
Has(c) == \E k \in 1 .. Size : text[k] = c
Told == ~Has("#") /\ ~(Has("$") /\ Has("\""))
NothingLost ==
    pc # "failed" /\ Told
      => Only(Values(toks), Matter) = Only(SubSeq(text, 1, i - 1), Matter)
=============================================================================
