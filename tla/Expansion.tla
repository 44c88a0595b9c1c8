------------------------------ MODULE Expansion ------------------------------
(***************************************************************************)
(* The expansion of one word of a command or of the value of an assignment: *)
(* expansion/expansion.c, and the loop around it in to_command of           *)
(* exec/exec.c.  The word is rewritten in place, one $ at a time, and the    *)
(* property is about the text that comes out, so words are sequences of     *)
(* characters here.  A call that passes or follows a null pointer, or        *)
(* writes past the end of a buffer, stops the shell.                        *)
(*                                                                         *)
(* How the command of $(...) runs is in module Substitution; here it has    *)
(* one of the outcomes of that module.                                      *)
(***************************************************************************)
EXTENDS Integers, Sequences

CONSTANTS
    Char,       \* the characters of words, values and outputs
    Source,     \* the words a script may contain
    Env,        \* what the variables and special parameters may expand to
    Output,     \* what read may return of the output of a command
    BufferSize  \* BUFFER_SIZE

Space == " "
Null == <<"null">>  \* no string
Crash == <<"crash">>    \* strcat of no string: UID is not in the environment
Lost == <<"lost">>  \* the output of a command that waitpid did not return

(* Words are sequences of characters, and read fills the buffer of exec_word at most. *)
ASSUME ExpansionAssumption ==
    /\ BufferSize \in Nat \ {0} /\ "$" \in Char
    /\ Source \subseteq Seq(Char)
    /\ \A e \in Env : \A n \in DOMAIN e : e[n] \in Seq(Char) \cup {Null}
    /\ \A o \in Output : o \in Seq(Char) /\ Len(o) <= BufferSize

VARIABLES
    source,     \* the word as the lexer gave it
    env,        \* what each name expands to
    caller,     \* to_command, or simple_cmd_exec for an assignment
    word,       \* what has become of it
    state,      \* "expanding", "done", "failed" (a bad substitution), "stopped"
    ran         \* the commands substituted, with their outputs
vars == <<source, env, caller, word, state, ran>>

Init ==
    /\ source \in Source /\ env \in Env /\ caller \in {"to_command", "assignment"}
    \* the value of an assignment ends at its first blank
    /\ caller = "assignment" => \A i \in DOMAIN source : source[i] # Space
    /\ word = source /\ state = "expanding" /\ ran = << >>

-----------------------------------------------------------------------------
(* The functions of string.h on a word. *)
From(w, i) == SubSeq(w, i, Len(w))
Within(w, c) == \E i \in DOMAIN w : w[i] = c
strcspn(w, c) ==
    IF Within(w, c) THEN (CHOOSE i \in DOMAIN w : w[i] = c /\ \A j \in 1 .. i - 1 : w[j] # c) - 1
    ELSE Len(w)
SkipAll(w, c) ==
    From(w, CHOOSE i \in 1 .. Len(w) + 1 : /\ \A j \in 1 .. i - 1 : w[j] = c
                                           /\ i \in DOMAIN w => w[i] # c)
strtok_r(w, c) ==
    LET s == SkipAll(w, c)
        n == strcspn(s, c)
    IN IF s = << >> THEN [token |-> Null, rest |-> << >>]
       ELSE [token |-> SubSeq(s, 1, n), rest |-> From(s, n + 2)]

CharAt(w, i) == IF i \in DOMAIN w THEN w[i] ELSE "end"

contains_expansions(w) == Within(w, "$") /\ CharAt(w, strcspn(w, "$") + 2) # Space

(* Mutant of get_word: $$ is passed by one character only. *)
get_word_one_short(w) ==
    LET braced == strtok_r(From(w, 3), "}")
    IN CASE CharAt(w, 2) = "$" -> [token |-> <<"$">>, rest |-> From(w, 2)]
         [] CharAt(w, 2) = "{" -> IF braced.token # Null /\ Within(braced.token, "$")
                                  THEN [braced EXCEPT !.token = Null] ELSE braced
         [] OTHER -> strtok_r(w, "$")

(* The name after the $ that w begins with.  A name in braces ends at the }, any
   other one at the next $, which is lost, or at the end of the word. *)
get_word(w) ==
    LET braced == strtok_r(From(w, 3), "}")
    IN CASE CharAt(w, 2) = "$" -> [token |-> <<"$">>, rest |-> From(w, 3)]
         [] CharAt(w, 2) = "{" -> IF braced.token # Null /\ Within(braced.token, "$")
                                  THEN [braced EXCEPT !.token = Null] ELSE braced
         [] OTHER -> strtok_r(w, "$")

ValueOf(name) == IF name \in DOMAIN env THEN env[name] ELSE << >>

(* Mutant of expand_variable: the $ before the rest is forgotten. *)
expand_lost_dollar(w) ==
    LET n == strcspn(w, "$")
        name == get_word(From(w, n + 1))
    IN IF n >= Len(w) - n THEN SubSeq(w, 1, n)
       ELSE IF name.token = Null \/ Within(name.token, Space) THEN Null
       ELSE IF ValueOf(name.token) = Null THEN Crash
       ELSE SubSeq(w, 1, n) \o ValueOf(name.token) \o name.rest

(* expand_variable.  A $ is expanded only when the text before it is shorter
   than what begins with it, and is dropped otherwise.  What follows the name
   gets a $ in front of it. *)
expand_variable(w) ==
    LET n == strcspn(w, "$")
        before == SubSeq(w, 1, n)
        name == get_word(From(w, n + 1))
    IN IF n >= Len(w) - n THEN before
       ELSE IF name.token = Null \/ Within(name.token, Space) THEN Null
       ELSE IF ValueOf(name.token) = Null THEN Crash
       ELSE before \o ValueOf(name.token)
                   \o (IF name.rest = << >> THEN << >> ELSE <<"$">> \o name.rest)

(* Mutant of CommandOf: the command keeps its closing parenthesis. *)
CommandWithCloser(w) ==
    IF w[1] # "$" THEN Null ELSE SubSeq(w, 3, 1 + strcspn(From(w, 2), "$"))

(* expand_substitution: strtok has put an end of string at the second $ of the
   word, or at the first when the word does not begin with it. *)
CommandOf(w) ==
    IF w[1] # "$" THEN Null
    ELSE strtok_r(SubSeq(w, 3, 1 + strcspn(From(w, 2), "$")), ")").token

IsSubstitution(w) == Within(w, "$") /\ CharAt(w, strcspn(w, "$") + 2) = "("

-----------------------------------------------------------------------------
Expanding == state = "expanding" /\ (contains_expansions(word) \/ caller = "assignment")

(* An assignment expands its value once. *)
After == IF caller = "assignment" THEN "done" ELSE "expanding"

(* The loop of to_command is over. *)
Expanded ==
    /\ state = "expanding" /\ caller = "to_command" /\ ~contains_expansions(word)
    /\ state' = "done"
    /\ UNCHANGED <<source, env, caller, word, ran>>

(* expansion_handler returns a word without $ as it is. *)
KeepWord ==
    /\ Expanding /\ ~Within(word, "$")
    /\ state' = After
    /\ UNCHANGED <<source, env, caller, word, ran>>

(* Mutant of ExpandVariable: the end of the string is not counted. *)
ExpandVariableOffByOne ==
    /\ Expanding /\ Within(word, "$") /\ ~IsSubstitution(word)
    /\ LET new == expand_variable(word)
       IN CASE new = Crash \/ (new = Null /\ caller = "assignment") ->
                    state' = "stopped" /\ word' = word
            [] new = Null /\ caller # "assignment" -> state' = "failed" /\ word' = word
            [] new \notin {Null, Crash} ->
                    IF Len(new) > BufferSize THEN state' = "stopped" /\ word' = word
                    ELSE word' = new /\ state' = After
    /\ UNCHANGED <<source, env, caller, ran>>

ExpandVariable ==
    /\ Expanding /\ Within(word, "$") /\ ~IsSubstitution(word)
    /\ LET new == expand_variable(word)
       IN CASE \* strdup of the null value of an assignment
               new = Crash \/ (new = Null /\ caller = "assignment") ->
                    state' = "stopped" /\ word' = word
            [] new = Null /\ caller # "assignment" -> state' = "failed" /\ word' = word
            [] new \notin {Null, Crash} ->
                    IF Len(new) >= BufferSize THEN state' = "stopped" /\ word' = word
                    ELSE word' = new /\ state' = After
    /\ UNCHANGED <<source, env, caller, ran>>

(* output[nbread - 1] = '\0': the last character becomes the end of the string. *)
WithoutLast(out) == SubSeq(out, 1, Len(out) - 1)

(* The command ran and wrote out.  When it wrote nothing the end of the string goes
   before the buffer. *)
Written(out) ==
    IF out = << >> THEN state' = "stopped" /\ word' = word
    ELSE word' = WithoutLast(out) /\ state' = After

(* waitpid returned another child, or none because SIGCHLD is ignored: exec_word fails,
   and expand_substitution goes on with the empty text. *)
NotWaitedFor == word' = << >> /\ state' = After

(* What follows the substitution in the word is dropped. *)
ExpandSubstitution ==
    /\ Expanding /\ IsSubstitution(word)
    /\ LET c == CommandOf(word)
       IN \/ c = Null /\ state' = "stopped" /\ UNCHANGED <<word, ran>>
          \/ c # Null /\ \E out \in Output : ran' = Append(ran, <<c, out>>) /\ Written(out)
          \/ c # Null /\ ran' = Append(ran, <<c, Lost>>) /\ NotWaitedFor
          \* fork fails
          \/ c # Null /\ ran' = ran /\ (Written(<< >>) \/ NotWaitedFor)
    /\ UNCHANGED <<source, env, caller>>

Finished == state # "expanding" /\ UNCHANGED vars

Next == Expanded \/ KeepWord \/ ExpandVariable \/ ExpandSubstitution \/ Finished
Spec == Init /\ [][Next]_vars

-----------------------------------------------------------------------------
TypeOK ==
    /\ caller \in {"to_command", "assignment"}
    /\ state \in {"expanding", "done", "failed", "stopped"}
    /\ env \in Env /\ word \in Seq(Char)
    /\ Len(word) < BufferSize \/ word = source

(* As long as no value and no output of a command contains a $, each turn of the loop
   of to_command shortens what begins with the first $, although expand_variable puts
   a $ back: the loop ends for every word, the malformed ones too. *)
Remaining(w) == Len(w) - strcspn(w, "$")
TurnsShorten ==
    [][(\A n \in DOMAIN env : ~Within(env[n], "$"))
         /\ (IsSubstitution(word) => ~Within(word', "$")) /\ state' = "expanding"
         => Remaining(word') < Remaining(word)]_vars
=============================================================================
