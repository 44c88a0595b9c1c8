------------------------------- MODULE MCLexer -------------------------------
(* Texts for TLC: all short ones over small alphabets, and longer ones that are
   put together from pieces whose tokens are known. *)
EXTENDS Lexer, RedirectionToken

Upto(n, set) == UNION {[1 .. k -> set] : k \in 0 .. n}
ShortTexts ==
    {remove_escaped_newline(t) : t \in Upto(5, {"a", "\\", "nl", "'", "\""})} \cup
    Upto(6, {"a", "\\", "\"", "$"})
      \cup Upto(5, {"a", "'", " ", "\\", "\""})
      \cup Upto(5, {"1", ">", "<", "\\", ";"})
      \cup Upto(5, {"a", "$", "(", "}", "{"})
      \cup Upto(4, {"f", "i", "|", "&", "!", "nl", "#", ")"})

MCChar == {"a", "f", "i", "1", "2", "\\", "\"", "'", "$", "(", ")", "{", "}", "<", ">", ";",
           "|", "&", "!", "#", "nl", " ", "tab"}
MCKeyword == {<<"i", "f">>, <<"f", "i">>}

-----------------------------------------------------------------------------
(* What a piece of text is in the shell language (POSIX XCU 2.2, 2.3, 2.4, 2.7), for what
   the shell has of it: a backslash inside a word, quotes around a whole word or around
   its beginning, lines that are joined, reserved words where a command begins, a comment
   at the end of the text, and one redirection with its word.  The lexer does not have
   the whole language: what it reads differently is no piece, and is listed in section 6
   of README.md. *)
Piece(spelling, tokens) == [text |-> remove_escaped_newline(spelling), toks |-> tokens]
Spells(spelling, value) == Piece(spelling, <<Word(value)>>)
Operator(s) == Piece(s, <<Token("op", s)>>)
Redirects(number, type, word) ==
    Token("redir", [io_number |-> number, type |-> type, word |-> word])

WordPieces ==
    {Spells(s, s) : s \in {<<"a", "f">>, <<"f", "i", "1">>, <<"a", "$", "a">>,
                           <<"$", "{", "a", "}">>, <<"$", "(", "a", ";", "f", "i", ")">>}}
      \cup {Spells(<<"'">> \o s \o <<"'">>, s) :
              s \in {<<"i", "f">>, <<"a", ";", "nl">>, <<"\"", "#">>, <<"\\", "\\", "tab">>}}
      \cup {Spells(<<"\"", "a", "\\", "\"", "'", "|", "\"">>, <<"a", "\"", "'", "|">>),
            Spells(<<"\"", "\\", "a", "\\", "\\", "\\", "nl", "\"">>, <<"\\", "a", "\\">>),
            Spells(<<"'", " ", "'", "a">>, <<" ", "a">>),
            Spells(<<"f", "\\", "nl", "\\", ";", "\\", "\\">>, <<"f", ";", "\\">>)}

ReservedWords ==
    {Operator(s) : s \in {<<"!">>, <<"{">>, <<"}">>, <<"f", "i">>}}
      \cup {Piece(<<"i", "\\", "nl", "f">>, <<Token("op", <<"i", "f">>)>>)}

RedirectionPieces ==
    {Piece(<<">", "a">>, <<Redirects(NoNumber, "FD_OUT", <<"a">>)>>),
     Piece(<<"2", "1", "<", "1">>, <<Redirects(21, "FD_IN", <<"1">>)>>),
     Piece(<<"2", ">", " ", "a">>, <<Redirects(2, "FD_OUT", NoWord), Word(<<"a">>)>>)}
      \cup {Piece(<<"1">> \o op[1] \o <<"2">>, <<Redirects(1, op[2], NoWord), Word(<<"2">>)>>) :
              op \in {<<<<">", ">">>, "FD_OUT_APPEND">>, <<<<">", "|">>, "FD_OUT_NO_CLOBBER">>,
                      <<<<">", "&">>, "FD_DUP_OUT">>, <<<<"<", "&">>, "FD_DUP_IN">>,
                      <<<<"<", ">">>, "FD_IO">>}}

Words == WordPieces \cup RedirectionPieces

Nothing == Piece(<< >>, << >>)
Blank == Piece(<<" ", "tab">>, << >>)
Comment == Piece(<<" ", "#", "a", "'", ";">>, << >>)

(* The operators a command may follow, and those it may not. *)
Openers ==
    {Operator(s) : s \in {<<";">>, <<"|", "|">>, <<"nl">>, <<"(">>}}
      \cup {Piece(<<" ", "&", "&", " ">>, <<Token("op", <<"&", "&">>)>>)}
Separators == Openers \cup {Operator(<<"|">>), Operator(<<")">>), Blank}

Join(p, q) == [text |-> p.text \o q.text, toks |-> p.toks \o q.toks]
Sentences(W, S, V) == {Join(Join(w, s), v) : w \in W, s \in S, v \in V}
Quotes == {w \in Words : w.text[1] \in {"'", "\""}}
Spelled ==
    Sentences(Words, Separators, Words)
      \cup Sentences(ReservedWords, {Blank}, Words)
      \cup Sentences(Words, Openers, ReservedWords)
      \cup Sentences(Words, {Comment}, {Nothing})
      \cup Sentences(WordPieces, {Nothing}, {r \in RedirectionPieces : r.text[1] = ">"})
      \cup Sentences(Sentences({w \in Quotes : w.text[1] = "'"}, Separators,
                              {w \in Quotes : w.text[1] = "\""}),
                    {Operator(<<"|">>), Blank}, Quotes)
SpelledTexts == {p.text : p \in Spelled}
Meaning == [t \in SpelledTexts |-> (CHOOSE p \in Spelled : p.text = t).toks]

MCTexts == ShortTexts \cup SpelledTexts

(* A token as the parser has it: of a redirection it reads the parts. *)
Parsed(t) == IF t.type = "redir" THEN [t EXCEPT !.value = parse_redirection(@)] ELSE t

(* The words, operators and redirections of these texts come out as they are spelled,
   whatever is in front of them and behind them: what is quoted is no operator, no
   reserved word and no comment, quoting is gone from the value, and a redirection has
   its number, its operator and its word (lexer_load, parse_redirection). *)
WordsAsSpelled ==
    text \in SpelledTexts =>
        /\ pc \notin {"failed", "stopped"}
        /\ pc = "done" => [k \in DOMAIN toks |-> Parsed(toks[k])] =
                           Append(Meaning[text], Token("eof", << >>))
=============================================================================
