----------------------------- MODULE MCExpansion -----------------------------
(* Words for TLC, and what POSIX says they expand to. *)
EXTENDS Expansion, TLC

CONSTANTS
    MaxLength,      \* length of the words over all characters
    MaxAdjacent,    \* length of the words over the characters of expansions
    MaxCommand      \* length of the commands and what follows them

Words(chars, max) == UNION {[1 .. k -> chars] : k \in 1 .. max}
MCSource == Words({"$", "{", "}", "(", ")", "x", " "}, MaxLength)
              \cup Words({"$", "{", "}", "x"}, MaxAdjacent)
              \cup {<<"$", "(">> \o w : w \in Words({"x", " ", ")", "$"}, MaxCommand)}

(* A script where x is v, and one where x=$y$x has given x the value $x: an
   assignment expands the first $ only. *)
MCEnv == {(<<"x">> :> <<"v">>) @@ (<<"x", "x">> :> <<"l", "o", "n", "g">>)
             @@ (<<"x", "x", "x">> :> Null) @@ (<<"$">> :> <<"9">>),
          <<"x">> :> <<"$", "x">>}
MCChar == {"$", "{", "}", "(", ")", "x", " ", "v", "l", "o", "n", "g", "9", "\n"}

(* Nothing; an empty line; lines; text without a newline; a full buffer. *)
MCOutput == {<< >>, <<"\n">>, <<"x", "\n">>, <<"$", "x", "\n">>, <<"x", "v">>,
             [i \in 1 .. BufferSize |-> "x"]}

(* Parameter expansion, XCU 2.6.2, for names made of x: the text that w
   expands to. *)
RECURSIVE Posix(_)
Posix(w) ==
    LET run(s) == IF \A i \in DOMAIN s : s[i] = "x" THEN Len(s)
                  ELSE (CHOOSE i \in DOMAIN s : s[i] # "x" /\ \A j \in 1 .. i - 1 : s[j] = "x") - 1
        plain == run(From(w, 2))
        braced == run(From(w, 3))
    IN IF w = << >> THEN << >>
       ELSE IF w[1] = "$" /\ plain > 0
            THEN ValueOf(SubSeq(w, 2, 1 + plain)) \o Posix(From(w, 2 + plain))
       ELSE IF w[1] = "$" /\ CharAt(w, 2) = "{" /\ braced > 0 /\ CharAt(w, 3 + braced) = "}"
            THEN ValueOf(SubSeq(w, 3, 2 + braced)) \o Posix(From(w, 4 + braced))
       ELSE <<w[1]>> \o Posix(Tail(w))

(* Every value of the script is plain text, and w uses no missing one. *)
Plain(w) ==
    /\ \A n \in DOMAIN env : ~Within(env[n], "$")
    /\ ~Within(Posix(w), "null")

(* text $name $name ..., and text ${name}. *)
Tail1(w) == From(w, strcspn(w, "$") + 1)
Adjacent(w) ==
    /\ Within(w, "$") /\ \A i \in DOMAIN Tail1(w) : Tail1(w)[i] \in {"$", "x"}
    /\ \A i \in DOMAIN w : w[i] = "$" => CharAt(w, i + 1) = "x"
Braced(w) ==
    LET t == Tail1(w)
    IN /\ Len(t) > 3 /\ t[2] = "{" /\ t[Len(t)] = "}"
       /\ \A i \in 3 .. Len(t) - 1 : t[i] = "x"

(* The text before each $, expanded, is shorter than what is still to come, and
   both fit the buffer. *)
Short(w) ==
    \A i \in DOMAIN w : w[i] = "$" =>
        LET before == Len(Posix(SubSeq(w, 1, i - 1)))
        IN before < Len(w) + 1 - i /\ before + Len(w) + 1 - i < BufferSize

(* A word of variables next to each other, or of one in braces at the end,
   expands to what POSIX says, as long as the text before each is short
   (expand_variable, and the loop of to_command). *)
ShortWordsExpand ==
    caller = "to_command" /\ state # "expanding" /\ (Adjacent(source) \/ Braced(source))
      /\ Plain(source) /\ Short(source) /\ Len(Posix(source)) < BufferSize
      => state = "done" /\ word = Posix(source)

(* $(command) runs that command and no other, and becomes its output without the last
   character, whose own $ to_command expands again.  It stops the shell when the command
   was created and wrote nothing, as $(true), or was not created; it becomes the empty
   text only when waitpid did not return the command (expand_substitution, exec_word). *)
RunsItsCommand ==
    LET n == Len(source)
        c == SubSeq(source, 3, n - 1)
    IN state # "expanding" /\ n > 3 /\ source = <<"$", "(">> \o c \o <<")">>
         /\ ~Within(c, "$") /\ ~Within(c, ")") /\ Plain(<< >>)
         => \/ ran = << >> /\ (state = "stopped" \/ (state = "done" /\ word = << >>))
            \/ \E out \in Output \cup {Lost} :
                 /\ ran = <<<<c, out>>>>
                 /\ state = "stopped" <=> out = << >>
                 /\ out = Lost => word = << >>
                 /\ out \notin {Lost, << >>} =>
                      LET text == SubSeq(out, 1, Len(out) - 1)
                      IN word = IF caller = "assignment" THEN text ELSE Posix(text)
=============================================================================
