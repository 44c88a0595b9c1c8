------------------------------- MODULE Session -------------------------------
(***************************************************************************)
(* Programs and the functions they define: run_program, which main calls    *)
(* once and the builtin . for every file it reads, the parser's entry of a  *)
(* function in the table (parse_func), the table (others/hash_map.c), and   *)
(* the call of a function (sub_exec_cmd).                                   *)
(*                                                                         *)
(* A program owns its tokens and its syntax tree until run_program returns; *)
(* the table keeps pointers to both.  A pointer is written as the program   *)
(* and the item of its text it points into.  What the C library does with a *)
(* freed string or tree is a choice: a lookup may take a freed key for any  *)
(* name, and a freed body does nothing or stops the shell.                  *)
(*                                                                         *)
(* Only the first line of a text is here: parse_input parses no other.      *)
(***************************************************************************)
EXTENDS Integers, Sequences, FiniteSets

CONSTANTS
    Name,           \* function names
    Hash,           \* hash(), a number for each name
    Buckets,        \* the 3 of init_map
    File,           \* texts
    Content,        \* [form, items]: what a text is and what is on its line
    Main,           \* the texts main may be given
    MaxPrograms     \* bound on the runs of run_program

(* The forms of a text: well formed, with a quote that is not closed, with a $( or
   ${ that is not closed, with a syntax error after the items, or longer than
   lexer_print writes down. *)
Unlexed == {"quote", "var"}
Forms == Unlexed \cup {"good", "grammar", "long"}
Commands == [op : {"call"}, name : Name] \cup [op : {"dot"}, file : File] \cup [op : {"plain"}]
Definitions == [op : {"def"}, name : Name, body : Seq(Commands)]

ASSUME SessionAssumption ==
    /\ Hash \in [Name -> Nat] /\ Buckets \in Nat \ {0} /\ MaxPrograms \in Nat \ {0}
    /\ Main \subseteq File
    /\ Content \in [File -> [form : Forms, items : Seq(Commands \cup Definitions)]]
    /\ \A f \in File : Content[f].form \in Unlexed => Content[f].items = << >>

VARIABLES
    programs,   \* the text of each program, in the order they began
    alive,      \* the programs whose tokens, or tokens and tree, are allocated
    table,      \* hash_func: the list of entries of each bucket
    stack,      \* the programs and functions being executed, the innermost first
    list,       \* variables_list: "live" or "freed"
    status,     \* "running", "done", or "stopped" by an illegal access
    latest,     \* history: the last definition of each name that was parsed
    retired     \* history: the programs that were freed and had defined a function
vars == <<programs, alive, table, stack, list, status, latest, retired>>

Undefined == [name |-> "none", prog |-> 0, item |-> 0]
Program(p) == [prog |-> p, item |-> 0, pc |-> "load", at |-> 1]

Init ==
    /\ \E f \in Main : programs = <<f>>
    /\ alive = {} /\ table = [b \in 0 .. Buckets - 1 |-> << >>]
    /\ stack = <<Program(1)>> /\ list = "live" /\ status = "running"
    /\ latest = [n \in Name |-> Undefined] /\ retired = {}

-----------------------------------------------------------------------------
Running == status = "running" /\ stack # << >>
Top == Head(stack)
Text(p) == Content[programs[p]]
Line(f) == IF f.item = 0 THEN Text(f.prog).items ELSE Text(f.prog).items[f.item].body
Item == Line(Top)[Top.at]
AtProgram(pc) == Running /\ Top.item = 0 /\ Top.pc = pc
AtCommand(op) == Running /\ Top.pc = "run" /\ Top.at \in DOMAIN Line(Top) /\ Item.op = op
Over == Top.at \notin DOMAIN Line(Top)

GoTo(pc, at) == stack' = <<[Top EXCEPT !.pc = pc, !.at = at]>> \o Tail(stack)
Defines(p) == \E i \in DOMAIN Text(p).items : Text(p).items[i].op = "def"

(* lexer_destroy and parser_free, at the end of run_program. *)
Release(p) ==
    /\ alive' = alive \ {p} /\ stack' = Tail(stack)
    /\ retired' = IF Defines(p) THEN retired \cup {p} ELSE retired

(* lexer_load gives up: variables_list is freed, with everything in it lost.  The
   rules for quotes have destroyed the tokens before (reduce2, reduce4); the rule for
   $ has not (reduce3), and nobody has a pointer to them any more. *)
LexFails ==
    /\ AtProgram("load") /\ Text(Top.prog).form \in Unlexed
    /\ alive' = IF Text(Top.prog).form = "var" THEN alive \cup {Top.prog} ELSE alive
    /\ list' = "freed" /\ stack' = Tail(stack)
    /\ UNCHANGED <<programs, table, status, latest, retired>>

(* lexer_print writes the text into a buffer of 1024 characters; what is written
   behind it may stop the shell, or do no harm (Lex). *)
PrintOverflows ==
    /\ AtProgram("load") /\ Text(Top.prog).form = "long"
    /\ status' = "stopped"
    /\ UNCHANGED <<programs, alive, table, stack, list, latest, retired>>

Lex ==
    /\ AtProgram("load") /\ Text(Top.prog).form \notin Unlexed
    /\ alive' = alive \cup {Top.prog} /\ GoTo("parse", 1)
    /\ UNCHANGED <<programs, table, list, status, latest, retired>>

-----------------------------------------------------------------------------
(* hash_map.c.  Keys are compared as pointers by hash_map_insert: the key of a
   new token is equal to the key of an entry when malloc has given it the memory
   of a token that was freed. *)
Bucket(n) == Hash[n] % Buckets
Readable(e) == e.prog \in alive
SameAddress(e) == ~Readable(e)

(* Mutant of hash_map_insert: a new entry goes to the end of the list. *)
InsertLast(e) ==
    LET b == Bucket(e.name)
    IN \/ table' = [table EXCEPT ![b] = Append(@, e)]
       \/ \E i \in DOMAIN table[b] :
            SameAddress(table[b][i]) /\ table' = [table EXCEPT ![b][i] = e]

hash_map_insert(e) ==
    LET b == Bucket(e.name)
    IN \/ table' = [table EXCEPT ![b] = <<e>> \o @]
       \/ \E i \in DOMAIN table[b] :
            SameAddress(table[b][i]) /\ table' = [table EXCEPT ![b][i] = e]

(* The entries hash_map_get may return: strcmp decides for the keys that are
   still there, and may say anything of the others. *)
hash_map_get(n) ==
    LET l == table[Bucket(n)]
        Hit(i) == Readable(l[i]) /\ l[i].name = n
    IN {l[i] : i \in {i \in DOMAIN l : /\ Readable(l[i]) => l[i].name = n
                                       /\ \A j \in 1 .. i - 1 : ~Hit(j)}}
         \cup (IF \E i \in DOMAIN l : Hit(i) THEN {} ELSE {Undefined})

(* parse_func enters the function when it has parsed its body, before anything
   of the program is executed. *)
ParseFunction ==
    /\ AtProgram("parse") /\ ~Over /\ Item.op = "def"
    /\ LET e == [name |-> Item.name, prog |-> Top.prog, item |-> Top.at]
       IN hash_map_insert(e) /\ latest' = [latest EXCEPT ![e.name] = e]
    /\ GoTo("parse", Top.at + 1)
    /\ UNCHANGED <<programs, alive, list, status, retired>>

ParseCommand ==
    /\ AtProgram("parse") /\ ~Over /\ Item.op # "def"
    /\ GoTo("parse", Top.at + 1)
    /\ UNCHANGED <<programs, alive, table, list, status, latest, retired>>

(* Mutant of Parsed: the first item is before the line. *)
ParsedFromZero ==
    /\ AtProgram("parse") /\ Over /\ Text(Top.prog).form # "grammar"
    /\ GoTo("run", 0)
    /\ UNCHANGED <<programs, alive, table, list, status, latest, retired>>

(* Mutant of Parsed: the program is freed before it is executed. *)
ParsedAndFreed ==
    /\ AtProgram("parse") /\ Over /\ Text(Top.prog).form # "grammar"
    /\ GoTo("run", 1)
    /\ alive' = alive \ {Top.prog}
    /\ UNCHANGED <<programs, table, list, status, latest, retired>>

Parsed ==
    /\ AtProgram("parse") /\ Over /\ Text(Top.prog).form # "grammar"
    /\ GoTo("run", 1)
    /\ UNCHANGED <<programs, alive, table, list, status, latest, retired>>

(* parse frees the nodes of a program with a syntax error; the functions parsed
   before the error stay in the table. *)
ParseFails ==
    /\ AtProgram("parse") /\ Over /\ Text(Top.prog).form = "grammar"
    /\ Release(Top.prog)
    /\ UNCHANGED <<programs, table, list, status, latest>>

-----------------------------------------------------------------------------
(* A command that is no function and not . , or a definition, which ast_exec
   passes over. *)
Plain ==
    /\ AtCommand("plain") \/ AtCommand("def")
    /\ GoTo("run", Top.at + 1)
    /\ UNCHANGED <<programs, alive, table, list, status, latest, retired>>

(* my_dot of a file that cannot be opened or read. *)
DotFails ==
    /\ AtCommand("dot")
    /\ GoTo("run", Top.at + 1)
    /\ UNCHANGED <<programs, alive, table, list, status, latest, retired>>

Dot ==
    /\ AtCommand("dot") /\ Len(programs) < MaxPrograms
    /\ programs' = Append(programs, Item.file)
    /\ stack' = <<Program(Len(programs) + 1), [Top EXCEPT !.at = @ + 1]>> \o Tail(stack)
    /\ UNCHANGED <<alive, table, list, status, latest, retired>>

Call ==
    /\ AtCommand("call")
    /\ \E e \in hash_map_get(Item.name) :
         /\ e # Undefined /\ Readable(e)
         /\ stack' = <<[prog |-> e.prog, item |-> e.item, pc |-> "run", at |-> 1],
                       [Top EXCEPT !.at = @ + 1]>> \o Tail(stack)
    /\ UNCHANGED <<programs, alive, table, list, status, latest, retired>>

(* ast_exec of a node that was freed, or no function of that name: run_command
   looks for a command. *)
CallNothing ==
    /\ AtCommand("call")
    /\ \E e \in hash_map_get(Item.name) : e = Undefined \/ ~Readable(e)
    /\ GoTo("run", Top.at + 1)
    /\ UNCHANGED <<programs, alive, table, list, status, latest, retired>>

CallFreed ==
    /\ AtCommand("call")
    /\ \E e \in hash_map_get(Item.name) : e # Undefined /\ ~Readable(e)
    /\ status' = "stopped"
    /\ UNCHANGED <<programs, alive, table, stack, list, latest, retired>>

(* Mutant of ReturnFromFunction: the body is freed after the call. *)
ReturnAndFree ==
    /\ Running /\ Top.item # 0 /\ Over
    /\ stack' = Tail(stack) /\ alive' = alive \ {Top.prog}
    /\ UNCHANGED <<programs, table, list, status, latest, retired>>

ReturnFromFunction ==
    /\ Running /\ Top.item # 0 /\ Over
    /\ stack' = Tail(stack)
    /\ UNCHANGED <<programs, alive, table, list, status, latest, retired>>

ReturnFromProgram ==
    /\ AtProgram("run") /\ Over
    /\ Release(Top.prog)
    /\ UNCHANGED <<programs, table, list, status, latest>>

(* Every return of ast_exec, of parse and of run_program uses variables_list. *)
UseFreedList ==
    /\ status = "running" /\ list = "freed"
    /\ status' = "stopped"
    /\ UNCHANGED <<programs, alive, table, stack, list, latest, retired>>

(* main frees the variables and the table. *)
MainReturns ==
    /\ status = "running" /\ stack = << >>
    /\ list' = "freed" /\ status' = "done"
    /\ table' = [b \in 0 .. Buckets - 1 |-> << >>]
    /\ UNCHANGED <<programs, alive, stack, latest, retired>>

Finished == status # "running" /\ UNCHANGED vars

Next ==
    \/ LexFails \/ PrintOverflows \/ Lex
    \/ ParseFunction \/ ParseCommand \/ Parsed \/ ParseFails
    \/ Plain \/ DotFails \/ Dot \/ Call \/ CallNothing \/ CallFreed
    \/ ReturnFromFunction \/ ReturnFromProgram \/ UseFreedList \/ MainReturns \/ Finished

Spec == Init /\ [][Next]_vars

-----------------------------------------------------------------------------
TypeOK ==
    /\ programs \in Seq(File) /\ Len(programs) \in 1 .. MaxPrograms
    /\ alive \subseteq DOMAIN programs /\ retired \subseteq DOMAIN programs
    /\ \A b \in DOMAIN table : \A i \in DOMAIN table[b] :
         LET e == table[b][i]
         IN /\ Bucket(e.name) = b /\ e.prog \in DOMAIN programs
            /\ Text(e.prog).items[e.item].op = "def"
    /\ \A i \in DOMAIN stack :
         /\ stack[i].prog \in DOMAIN programs /\ stack[i].pc \in {"load", "parse", "run"}
         /\ stack[i].at \in 1 .. Len(Line(stack[i])) + 1
    /\ list \in {"live", "freed"} /\ status \in {"running", "done", "stopped"}

(* run_program frees nothing too early: a program that has been loaded and not left is
   allocated, and no function is executed whose program is not.  And it forgets nothing
   else than the tokens of a text in which a $( or ${ is not closed (run_program,
   sub_exec_cmd). *)
Loaded == {stack[i].prog : i \in {i \in DOMAIN stack : stack[i].item = 0 /\ stack[i].pc # "load"}}
AliveWhileNeeded ==
    /\ Loaded \subseteq alive
    /\ \A i \in DOMAIN stack : stack[i].item # 0 => stack[i].prog \in alive
    /\ \A p \in alive \ Loaded : Text(p).form = "var"

(* Until a program that defined a function is freed, hash_map_get returns the
   definition parsed last, whatever else is in the bucket, and nothing for a
   name without definition. *)
LatestFound ==
    status = "running" /\ retired = {} => \A n \in Name : hash_map_get(n) = {latest[n]}

(* The shell stops only after a text that does not lex, one too long to be
   printed, or the end of a program that defined a function: the body of a
   function stays allocated at least until its program ends (run_program). *)
StopsOnlyAfterBadText ==
    status = "stopped" =>
        \/ retired # {}
        \/ \E p \in DOMAIN programs : Text(p).form \in Unlexed \cup {"long"}
=============================================================================
