------------------------------ MODULE MCParser ------------------------------
(* Texts for TLC, and the grammar the parser is written for. *)
EXTENDS Parser, SequencesExt

Text(text, more, with) == [text |-> text, more |-> more, with |-> with]
Line == {"word", ">w", ";", "nl", "&&", "|", "!"}
Nested ==
    <<"word", "(", ")", "nl", "{", "if", "word", "|", "nl", "word", "&&", "!", "word", ";",
      "then", "word", "nl", "elif", "{", "word", ">", "word", ";", "}", "then", "(", "word", ")",
      "else", "until", "word", "do", "nl", "word", ">w", ">w", "done", "fi", "nl", "}", ";",
      "word", "||", "word">>
MCStarts ==
    {Text(<< >>, 3, TokenType),
     Text(<< >>, 5, Line),
     Text(<<"word", "word", "|">>, 4, Line \cup {"||", "("}),
     Text(<<"if", "word">>, 6, {"word", ";", "then", "else", "fi"}),
     Text(<<"if", "word", ";", "then", "word", ";">>, 6,
          {"word", ";", "elif", "then", "else", "fi"}),
     Text(<<"while", "word", ";">>, 6, {"do", "done", "word", ";", "nl", "until"}),
     Text(<<"word", "(", ")">>, 6, {"nl", "{", "word", ";", "}", ">w", ">"}),
     Text(<<"{">>, 6, {"{", "word", ";", "}", "(", ")", "nl"}),
     Text(Nested, 2, TokenType)}

(* The grammar (POSIX XCU 2.10, as far as the shell has it) as sets of trees: those
   of the tokens from i on, up to j and without it, for each of its symbols.  What
   the shell does not have: newlines behind && and ||, redirections in front of and
   between words and behind compound commands, for and case. *)
None == << >>
Leaf(type, words) == <<type, words, << >>>>
Nodes(type, Left, Right) == {<<type, << >>, <<l, r>>>> : l \in Left, r \in Right}
Places(i, j, types) == {k \in i .. j - 1 : tokens[k] \in types}
RECURSIVE Linebreak(_)
Linebreak(i) == IF At(i) = "nl" THEN Linebreak(i + 1) ELSE i

RECURSIVE Redirects(_, _)
Redirects(i, j) ==
    IF i = j THEN {<< >>}
    ELSE {<<Leaf("redir", <<i>>)>> \o rest :
             rest \in IF At(i) = ">w" THEN Redirects(i + 1, j) ELSE {}}
         \cup {<<Leaf("redir", <<i, i + 1>>)>> \o rest :
             rest \in IF At(i) = ">" /\ i + 1 < j /\ At(i + 1) = "word"
                      THEN Redirects(i + 2, j) ELSE {}}

SimpleCommand(i, j) ==
    LET Words(m) == [k \in 1 .. m - i |-> i + k - 1]
    IN  {Leaf("redir", r[1][2]) : r \in {r \in Redirects(i, j) : Len(r) = 1}}
        \cup UNION {{<<"simple", Words(m), r>> : r \in Redirects(m, j)} :
                m \in {m \in i + 1 .. j : \A k \in i .. m - 1 : tokens[k] = "word"}}

RECURSIVE Command(_, _), PipeSequence(_, _), AndOr(_, _), Term(_, _), CompoundList(_, _),
          Branch(_, _), List(_, _)

CompoundCommand(i, j) ==
    LET last == j - 1
    IN  IF j - i < 3 THEN {}
        ELSE IF tokens[i] = "if" /\ tokens[last] = "fi" THEN Branch(i, last)
        ELSE IF tokens[i] \in {"while", "until"} /\ tokens[last] = "done"
             THEN UNION {Nodes(tokens[i], CompoundList(i + 1, k), CompoundList(k + 1, last)) :
                           k \in Places(i + 1, last, {"do"})}
        ELSE IF <<tokens[i], tokens[last]>> \in {<<"{", "}">>, <<"(", ")">>}
             THEN {<<"block", << >>, <<t>>>> : t \in CompoundList(i + 1, last)}
        ELSE {}

(* From if or elif up to fi. *)
Branch(i, j) ==
    UNION {LET condition == CompoundList(i + 1, k)
               commands == CompoundList(k + 1, m)
               other == IF m = j THEN {None}
                        ELSE {<<o>> : o \in IF tokens[m] = "else" THEN CompoundList(m + 1, j)
                                            ELSE Branch(m, j)}
           IN  {<<"if", << >>, <<c, t>> \o o>> : c \in condition, t \in commands, o \in other} :
             k \in Places(i + 1, j, {"then"}), m \in Places(i + 1, j, {"else", "elif"}) \cup {j}}

FunctionDefinition(i, j) ==
    IF At(i) = "word" /\ At(i + 1) = "(" /\ At(i + 2) = ")" /\ i + 2 < j
    THEN {<<"function", << >>, <<t>>>> : t \in CompoundCommand(Linebreak(i + 3), j)}
    ELSE {}

Command(i, j) ==
    IF i >= j THEN {}
    ELSE SimpleCommand(i, j) \cup CompoundCommand(i, j) \cup FunctionDefinition(i, j)

PipeSequence(i, j) ==
    Command(i, j) \cup UNION {Nodes("|", PipeSequence(i, k), Command(Linebreak(k + 1), j)) :
                                k \in Places(i, j, {"|"})}

Pipeline(i, j) ==
    IF i >= j THEN {}
    ELSE IF tokens[i] = "!" THEN Nodes("!", PipeSequence(i + 1, j), {None})
    ELSE PipeSequence(i, j)

AndOr(i, j) ==
    Pipeline(i, j) \cup UNION {Nodes(tokens[k], AndOr(i, k), Pipeline(k + 1, j)) :
                                 k \in Places(i, j, {"&&", "||"})}

Term(i, j) ==
    AndOr(i, j) \cup UNION {Nodes(";", Term(i, k), AndOr(Linebreak(k + 1), j)) :
                              k \in Places(i, j, {";", "nl"})}

CompoundList(i, j) ==
    LET first == Linebreak(i)
        ends == {k \in Places(first, j, {";", "nl"}) : Linebreak(k + 1) = j}
    IN  Term(first, j) \cup UNION {Nodes(";", Term(first, k), {None}) : k \in ends}

List(i, j) ==
    AndOr(i, j) \cup UNION {Nodes(";", List(i, k), AndOr(k + 1, j)) : k \in Places(i, j, {";"})}

CompleteCommand(i, j) ==
    List(i, j) \cup IF At(j - 1) = ";" THEN Nodes(";", List(i, j - 1), {None}) ELSE {}

-----------------------------------------------------------------------------
(* The nodes below n, itself included, from the left to the right. *)
RECURSIVE NodesBelow(_, _)
NodesBelow(heap, n) ==
    IF n = Null THEN << >>
    ELSE LET kids == heap[n].kids
             RECURSIVE From(_)
             From(k) == IF k > Len(kids) THEN << >>
                        ELSE NodesBelow(heap, kids[k]) \o From(k + 1)
         IN  <<n>> \o From(1)

(* Without redirections nothing is lost: every word in front of the place where
   the parser stopped is in the tree of an accepted text, once, in order; a word
   that is the name of a function is in the table instead. *)
WordsKept ==
    \E p \in {parse_input} :
      LET Words(n) == p.heap[n].words
          names == {p.funcs[k].name : k \in DOMAIN p.funcs}
          IsWord(k) == tokens[k] = "word" /\ k \notin names
          below == NodesBelow(p.heap, p.res)
      IN  p.accepted /\ (\A k \in 1 .. p.at - 1 : tokens[k] \notin Redirections) =>
            FlattenSeq([k \in DOMAIN below |-> Words(below[k])])
              = SelectSeq([k \in 1 .. p.at - 1 |-> k], IsWord)

(* The tree below a node of the parser, and the trees of the functions in a tree. *)
RECURSIVE TreeOf(_, _), Functions(_)
TreeOf(heap, n) ==
    IF n = Null THEN None
    ELSE <<heap[n].type, heap[n].words,
           [k \in DOMAIN heap[n].kids |-> TreeOf(heap, heap[n].kids[k])]>>
Functions(t) ==
    IF t = None THEN {}
    ELSE (IF t[1] = "function" THEN {t[3][1]} ELSE {})
           \cup UNION {Functions(t[3][k]) : k \in DOMAIN t[3]}

(* A text whose first line is of the grammar, lines inside its commands included, is
   accepted, with the tree the grammar gives it, and the bodies in the table are those
   of the functions in this tree (all rules, from parse_input on). *)
FollowsGrammar ==
    LET first == Linebreak(1)
    IN  \E p \in {parse_input} : \A j \in first + 1 .. Len(tokens) + 1 :
          \E trees \in {IF At(j) \in {"nl", "eof"} THEN CompleteCommand(first, j) ELSE {}} :
            trees # {} =>
              /\ p.accepted /\ p.at = j /\ trees = {TreeOf(p.heap, p.res)}
              /\ {TreeOf(p.heap, p.funcs[k].body) : k \in DOMAIN p.funcs}
                   = UNION {Functions(t) : t \in trees}
=============================================================================
