------------------------------- MODULE Parser -------------------------------
(***************************************************************************)
(* The parser: one operator per grammar rule (parser/*.c), on the tokens of *)
(* one text.  What the rules share is a record: the position of the lexer,  *)
(* the nodes allocated so far, the list parser->nodes that says what is     *)
(* freed in the end, the entries made in the function table, and the node   *)
(* the last rule returned.                                                  *)
(*                                                                         *)
(* A token is its type; a redirection has its word inside (>f) or takes it  *)
(* from the next token (> f).  Words are told apart by their positions.     *)
(*                                                                         *)
(* The text grows by one token a step.  After each of them the tokens there *)
(* are so far are a complete text for the parser.                           *)
(***************************************************************************)
EXTENDS Integers, Sequences, FiniteSetsExt

CONSTANTS
    Starts      \* beginnings of texts, with how many tokens of which types may follow

Terminators == {"then", "elif", "else", "fi", "do", "done", "}", ")"}
Openers == {"if", "while", "until", "{", "("}
TokenType == {"word", ">w", ">", ";", "nl", "&&", "||", "|", "!", "for", "in"}
               \cup Terminators \cup Openers
Redirections == {">w", ">"}

ASSUME ParserConstants ==
    \A s \in Starts : s.text \in Seq(TokenType) /\ s.more \in Nat /\ s.with \subseteq TokenType

VARIABLES
    tokens,     \* what the lexer has found, without the token EOF at the end
    start       \* the beginning of the text
vars == <<tokens, start>>

-----------------------------------------------------------------------------
(* The token at the lexer's index.  Behind EOF there is none. *)
At(k) == IF k <= Len(tokens) THEN tokens[k] ELSE "eof"
Peek(p) == At(p.at)
PeekTwo(p) == At(p.at + 1)
To(p, k) == [p EXCEPT !.at = k]
Pop(p) == To(p, p.at + 1)

(* The first place from k on where there is no token of this type. *)
Behind(type, k) == Min({j \in k .. k + Len(tokens) : At(j) # type})
SkipNewlines(p) == To(p, Behind("nl", p.at))

Null == 0
NodeType == {"simple", "redir", "function", "block", "if", "while", "until", "|", "&&", "||",
             "!", ";"}
Node == [type : NodeType, words : Seq(Nat), kids : Seq(Nat)]
State == [at : Nat \ {0}, heap : Seq(Node), nodes : Seq(Nat), res : Nat,
          funcs : Seq([name : Nat, body : Nat]), accepted : BOOLEAN]

(* A loop, until a turn changes nothing.  Each turn before pops a token or fails, so
   that as many are enough as there are tokens, EOF included. *)
Repeat(turn, p) ==
    LET loop[n \in 0 .. Len(tokens) + 1] ==
          [q \in State |-> LET r == turn[q]
                           IN  IF n = 0 \/ r = q THEN q ELSE loop[n - 1][r]]
    IN  loop[Len(tokens) + 1][p]

Fail(p) == [p EXCEPT !.res = Null]
Failed(p) == p.res = Null

(* Mutant of ast_append: a node can be appended twice. *)
append_always(nodes, n) == IF nodes = <<Null>> THEN <<n>> ELSE Append(nodes, n)

(* The list starts as one cell without a node. *)
ast_append(nodes, n) ==
    IF nodes = <<Null>> THEN <<n>>
    ELSE IF \E k \in DOMAIN nodes : nodes[k] = n THEN nodes
    ELSE Append(nodes, n)

Keep(p) == [p EXCEPT !.nodes = ast_append(@, p.res)]

(* A new node, returned; its fields are set now or while its rule goes on. *)
New(p, type, words, kids) ==
    [p EXCEPT !.heap = Append(@, [type |-> type, words |-> words, kids |-> kids]),
              !.res = Len(p.heap) + 1]

(* What was returned is entered in the list, unless its rule failed. *)
Kept(p) == IF Failed(p) THEN p ELSE Keep(p)

(* build_operator_node on what two rules returned, and its entry in the list. *)
Operator(p, type, kids) == Keep(New(p, type, << >>, kids))
Join(left, type, right) ==
    IF Failed(right) THEN right ELSE Operator(right, type, <<left.res, right.res>>)

-----------------------------------------------------------------------------
(* Mutant of parse_redirection: the next token is the word and is popped, EOF
   and ; too. *)
pop_any_word(p) ==
    LET inside == Peek(p) = ">w"
    IN  Keep(New(To(p, IF inside THEN p.at + 1 ELSE p.at + 2), "redir",
                 IF inside THEN <<p.at>> ELSE <<p.at, p.at + 1>>, << >>))

(* Any token but EOF and ; is taken for the word of a redirection and popped; of
   those two the value is the word. *)
parse_redirection(p) ==
    LET inside == Peek(p) = ">w"
        stays == inside \/ PeekTwo(p) \in {"eof", ";"}
    IN  Keep(New(To(p, IF stays THEN p.at + 1 ELSE p.at + 2), "redir",
                 IF inside THEN <<p.at>> ELSE <<p.at, p.at + 1>>, << >>))

(* Redirections up to a token that is none: handle_prefix, and the loop at the
   end of parse_command. *)
handle_prefix(p) ==
    Repeat([q \in State |-> IF Peek(q) \in Redirections THEN parse_redirection(q) ELSE q], p)

(* A command's words, then its redirections, which are the nodes allocated last.
   The options and the other words go to two lists that are read in this order. *)
Filled(p, n, words) ==
    [p EXCEPT !.heap[n] = [type |-> @.type, words |-> words,
                           kids |-> [k \in 1 .. Len(p.heap) - n |-> n + k]],
              !.res = n]
add_simple_commande(p) ==
    LET new == New(p, "simple", << >>, << >>)
        end == Behind("word", p.at)
    IN  Filled(handle_prefix(To(new, end)), new.res, [k \in 1 .. end - p.at |-> p.at + k - 1])

-----------------------------------------------------------------------------
(* The rules that contain each other are called through `inner`, a record of the
   two a compound command has inside: the list behind a keyword and what is behind
   elif. *)

(* The next child of node n is what p returned; n is what a rule returns in the end. *)
AddKid(n, p) == [p EXCEPT !.heap[n].kids = Append(@, p.res)]
Child(n, p) ==
    IF Failed(p) THEN p ELSE AddKid(n, Keep(p))
Result(n, p) == IF Failed(p) THEN p ELSE [p EXCEPT !.res = n]

(* A list behind a keyword, which is popped and, but for parse_condition, not
   looked at. *)
ListIn(inner, n, p) == IF Failed(p) THEN p ELSE Child(n, inner.list[Pop(p)])
parse_condition(inner, n, type, p) == IF Peek(p) = type THEN ListIn(inner, n, p) ELSE Fail(p)
Close(type, p) == IF Peek(p) = type /\ ~Failed(p) THEN Pop(p) ELSE Fail(p)

parse_rule_else(inner, n, p) ==
    IF Failed(p) THEN p
    ELSE IF Peek(p) = "elif" THEN Child(n, inner.branches[Keep(New(p, "if", << >>, << >>))])
    ELSE IF Peek(p) = "else" THEN ListIn(inner, n, p)
    ELSE p

(* if and elif up to what follows their commands.  The node that was allocated for
   them is in p.res. *)
parse_branches(inner, p) ==
    Result(p.res, parse_rule_else(inner, p.res, ListIn(inner, p.res, ListIn(inner, p.res, p))))
parse_rule_if(inner, p) == Close("fi", parse_branches(inner, p))

parse_rule_wu(inner, p) ==
    Result(p.res,
           Close("done", parse_condition(inner, p.res, "do", ListIn(inner, p.res, p))))

parse_block_cmd(inner, p) ==
    Result(p.res, Close(IF Peek(p) = "{" THEN "}" ELSE ")", ListIn(inner, p.res, p)))

parse_shell_command(inner, p) ==
    LET type == Peek(p)
        Allocated(t) == Keep(New(p, t, << >>, << >>))
    IN  IF type = "if" THEN parse_rule_if(inner, Allocated(type))
        ELSE IF type \in {"while", "until"} THEN parse_rule_wu(inner, Allocated(type))
        ELSE IF type \in {"{", "("} THEN parse_block_cmd(inner, Allocated("block"))
        ELSE Fail(p)

-----------------------------------------------------------------------------
(* The body is entered in the table under the name before the node is built. *)
Defined(name, p) ==
    IF Failed(p) THEN p
    ELSE New([Keep(p) EXCEPT !.funcs = Append(@, [name |-> name, body |-> p.res])],
             "function", << >>, <<p.res>>)
parse_func(inner, p) ==
    IF At(p.at + 2) # ")" THEN Fail(To(p, p.at + 2))
    ELSE Defined(p.at, parse_shell_command(inner, SkipNewlines(To(p, p.at + 3))))

(* A compound command that was parsed is returned at once.  All else, failures
   too, goes on to the redirections, each of which replaces what was there. *)
AfterFailure(p) == IF Failed(p) THEN handle_prefix(p) ELSE p
parse_command(inner, p) ==
    IF Peek(p) \in Openers THEN AfterFailure(parse_shell_command(inner, p))
    ELSE handle_prefix(IF Peek(p) # "word" THEN Fail(p)
                       ELSE IF PeekTwo(p) = "(" THEN Keep(parse_func(inner, p))
                       ELSE add_simple_commande(p))

(* command | command ..., where newlines may follow the |. *)
Pipes(inner, p) ==
    Repeat([q \in State |->
              IF Failed(q) \/ Peek(q) # "|" THEN q
              ELSE Join(q, "|", Kept(parse_command(inner, SkipNewlines(Pop(q)))))], p)

Negated(p) == IF Failed(p) THEN p ELSE Operator(p, "!", <<p.res, Null>>)
parse_pipeline(inner, p) ==
    LET neg == Peek(p) = "!"
        all == Pipes(inner, Kept(parse_command(inner, IF neg THEN Pop(p) ELSE p)))
    IN  IF neg THEN Negated(all) ELSE all

(* Mutant of Conditions: one operator at most. *)
conditions_once(inner, p) ==
    IF Failed(p) \/ Peek(p) \notin {"&&", "||"} THEN p
    ELSE Join(p, Peek(p), Kept(parse_pipeline(inner, Pop(p))))

Conditions(inner, p) ==
    Repeat([q \in State |->
              IF Failed(q) \/ Peek(q) \notin {"&&", "||"} THEN q
              ELSE Join(q, Peek(q), Kept(parse_pipeline(inner, Pop(q))))], p)

parse_and_or(inner, p) == Conditions(inner, Kept(parse_pipeline(inner, p)))

-----------------------------------------------------------------------------
(* Separator and and_or, until a token that closes a compound command. *)
NextTerm(inner, p) ==
    IF Peek(p) \in Terminators THEN New(p, ";", << >>, <<p.res, Null>>)
    ELSE Join(p, ";", Kept(parse_and_or(inner, p)))
Terms(inner, p) ==
    Repeat([q \in State |->
              IF Failed(q) \/ Peek(q) \in Terminators THEN q
              ELSE IF Peek(q) \in {";", "nl"} THEN NextTerm(inner, SkipNewlines(Pop(q)))
              ELSE Fail(q)], p)

parse_compound_list(inner, p) == Terms(inner, Kept(parse_and_or(inner, SkipNewlines(p))))

(* What can be inside a compound command when no more than n are inside each other;
   each of them begins with a token of its own. *)
Inside[n \in 0 .. Len(tokens)] ==
    [list |-> [p \in State |->
                 IF n = 0 THEN Fail(p) ELSE parse_compound_list(Inside[n - 1], p)],
     branches |-> [p \in State |->
                     IF n = 0 THEN Fail(p) ELSE parse_branches(Inside[n - 1], p)]]
Inner == Inside[Len(tokens)]

-----------------------------------------------------------------------------
(* Mutant of Items: the list goes on without what is in front of the ; *)
items_lost(p) ==
    Repeat([q \in State |->
              IF Failed(q) \/ Peek(q) # ";" THEN q
              ELSE IF PeekTwo(q) \in {"eof", "nl"} THEN Pop(q)
              ELSE Kept(parse_and_or(Inner, Pop(q)))], p)

(* ; may end the list. *)
Items(p) ==
    Repeat([q \in State |->
              IF Failed(q) \/ Peek(q) # ";" THEN q
              ELSE IF PeekTwo(q) \in {"eof", "nl"} THEN Operator(Pop(q), ";", <<q.res, Null>>)
              ELSE Join(q, ";", parse_and_or(Inner, Pop(q)))], p)

EndOfLine(p) == IF Peek(p) \in {"nl", "eof"} THEN p ELSE Fail(p)
parse_list(p) == EndOfLine(Items(Kept(parse_and_or(Inner, p))))

Begin == [at |-> 1, heap |-> << >>, nodes |-> <<Null>>, funcs |-> << >>, res |-> Null,
          accepted |-> FALSE]

(* A text without commands is accepted, and has no tree. *)
Accept(p) == [p EXCEPT !.accepted = ~Failed(p)]
parse_input ==
    LET p == SkipNewlines(Begin)
    IN  IF Peek(p) = "eof" THEN [p EXCEPT !.accepted = TRUE] ELSE Accept(parse_list(p))

-----------------------------------------------------------------------------
(* The rules have looked at no token behind the one after the last position. *)
IsOpen(p) == p.at >= Len(tokens)

Longest == Len(start.text) + start.more

Init == start \in Starts /\ tokens = start.text

NextToken ==
    /\ Len(tokens) < Longest /\ IsOpen(parse_input)
    /\ \E t \in start.with : tokens' = Append(tokens, t)
    /\ UNCHANGED start

Complete == (Len(tokens) = Longest \/ ~IsOpen(parse_input)) /\ UNCHANGED vars

Next == NextToken \/ Complete

Spec == Init /\ [][Next]_vars

-----------------------------------------------------------------------------
(* The children the executor follows without a test. *)
Needed(node) ==
    CASE node.type \in {"simple", "redir"} -> {}
      [] node.type \in {"function", "block", ";", "!"} -> {1}
      [] OTHER -> {1, 2}

HasChildren(node) == \A c \in Needed(node) : c \in DOMAIN node.kids /\ node.kids[c] # Null

(* Node n is the child of a node, the body of a function or the tree of the text. *)
Used(p, n) ==
    \/ \E m \in DOMAIN p.heap : \E k \in DOMAIN p.heap[m].kids : p.heap[m].kids[k] = n
    \/ \E k \in DOMAIN p.funcs : p.funcs[k].body = n
    \/ p.res = n

(* What parse hands to the executor, whatever the text: a node that has the children
   ast_exec follows (the assumption ParserAssumption of Exec), and so has every node
   that is the child of another, the body of a function or the tree of the text; and
   no rule reads a token behind EOF. *)
TypeOK ==
    /\ tokens \in Seq(TokenType) /\ start \in Starts
    /\ \E p \in {parse_input} :
         /\ p \in State /\ p.at \in 1 .. Len(tokens) + 1
         /\ p.res \in {Null} \cup DOMAIN p.heap
         /\ \A k \in DOMAIN p.funcs : p.funcs[k].body \in DOMAIN p.heap
         /\ \A n \in DOMAIN p.heap : \A k \in DOMAIN p.heap[n].kids :
              p.heap[n].kids[k] \in {Null} \cup DOMAIN p.heap
         /\ \A n \in DOMAIN p.heap : Used(p, n) => HasChildren(p.heap[n])

(* node_free, at the end of a program and after a syntax error, frees every node
   that was allocated and none twice; and no node has two parents, so that what
   redirections save in it belongs to one command, nor has the tree that is returned
   one (ast_append, and its calls in all rules). *)
OwnedOnce ==
    \E p \in {parse_input} :
      LET Kid(n, k) == p.heap[n].kids[k]
      IN  /\ \A j, k \in DOMAIN p.nodes : p.nodes[j] = p.nodes[k] /\ p.nodes[j] # Null => j = k
          /\ {p.nodes[k] : k \in DOMAIN p.nodes} \ {Null} = DOMAIN p.heap
          /\ \A m \in DOMAIN p.heap : \A j \in DOMAIN p.heap[m].kids : Kid(m, j) # Null =>
               /\ Kid(m, j) # p.res
               /\ \A n \in DOMAIN p.heap : \A k \in DOMAIN p.heap[n].kids :
                    Kid(m, j) = Kid(n, k) => m = n /\ j = k
=============================================================================
