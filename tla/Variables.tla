------------------------------ MODULE Variables ------------------------------
(***************************************************************************)
(* The variables of the shell, as ast/variable.c keeps them: a doubly      *)
(* linked list of cells, and the commands that work on it: an assignment   *)
(* (exec/exec.c), unset, cd (built_in/) and the expansion of a name.  After *)
(* each, ast_exec stores the status in the variable "?".  getcwd succeeds.  *)
(*                                                                         *)
(* A cell is named by the order of its malloc.  Using a null pointer or a   *)
(* freed cell stops the shell, which is built with -fsanitize=address.     *)
(***************************************************************************)
EXTENDS Integers, Sequences, FiniteSets

CONSTANTS
    UserName,   \* the names a script assigns
    UserValue,  \* the values it gives them
    Dir,        \* the directories that exist, by their full names
    Environs,   \* the environments it is started in: functions from some names
    MaxCells    \* the cells allocated in a run

NULL == 0
Name == {"0", "?", "OLDPWD", "PWD", "UID"} \cup UserName
Status == {"0", "1", "127", "-1"}
Value == {"", "42sh"} \cup Status \cup UserValue \cup Dir

ASSUME VariablesAssumption ==
    /\ MaxCells \in Nat /\ MaxCells >= 4
    /\ "-" \notin Dir
    /\ Environs \subseteq UNION {[names -> Value] : names \in SUBSET {"HOME", "OLDPWD", "UID"}}

VARIABLES
    list,       \* the list, and the cells that are allocated
    cwd,        \* the current directory
    rc,         \* the status of the command that has just run, or "none"
    cmd,        \* that command, with its arguments
    seen,       \* what the expansion in it returned
    alive,      \* FALSE when the shell has been stopped by an illegal access
    environ     \* what getenv sees, which nothing changes
vars == <<list, cwd, rc, cmd, seen, alive, environ>>

-----------------------------------------------------------------------------
(* The operations of ast/variable.c.  They return a list whose field alive
   says whether the shell survived. *)

(* The loop over head = head->next, up to a cell of that name. *)
get_variable(l, n) ==
    LET from[c \in 0 .. Len(l.cells)] ==
        IF c = NULL THEN NULL
        ELSE IF l.cells[c].name = n THEN c ELSE from[l.cells[c].next]
    IN from[l.head]

Reached(l) ==
    LET from[c \in 0 .. Len(l.cells)] ==
        IF c = NULL THEN {} ELSE {c} \cup from[l.cells[c].next]
    IN from[l.head]

Has(l, n) == get_variable(l, n) # NULL

(* Mutant of ValueOf: the name instead of the value. *)
NameOf(l, n) == l.cells[get_variable(l, n)].name

ValueOf(l, n) == l.cells[get_variable(l, n)].value

(* A variable IFS is destroyed and then written to. *)
add_variable(l, n, v) ==
    LET c == Len(l.cells) + 1
        item == [name |-> n, value |-> v, next |-> NULL, prev |-> l.tail]
        cells == IF l.tail # NULL THEN [l.cells EXCEPT ![l.tail].next = c] ELSE l.cells
    IN IF n = "IFS" THEN [l EXCEPT !.alive = FALSE]
       ELSE [l EXCEPT !.cells = Append(cells, item), !.live = @ \cup {c}, !.tail = c,
                      !.head = IF @ = NULL THEN c ELSE @, !.size = @ + 1]

(* Mutant of SetVariable: no update of the variable that is there. *)
AlwaysAdd(l, n, v) == add_variable(l, n, v)

(* update_variable, and add_variable when there is no such name. *)
SetVariable(l, n, v) ==
    IF Has(l, n) THEN [l EXCEPT !.cells[get_variable(l, n)].value = v]
    ELSE add_variable(l, n, v)

Freed == [name |-> "", value |-> "", next |-> NULL, prev |-> NULL]

(* Mutant of remove_variable: only one of the two links is changed. *)
RemoveForwardOnly(l, n) ==
    LET c == get_variable(l, n)
        prev == l.cells[c].prev
        next == l.cells[c].next
    IN IF c = NULL THEN l
       ELSE IF prev = NULL \/ next = NULL THEN [l EXCEPT !.alive = FALSE]
       ELSE [l EXCEPT !.cells[prev].next = next,
                      !.cells[c] = Freed, !.live = @ \ {c}, !.size = @ - 1]

(* head->prev->next = head->next; head->next->prev = head->prev: the first
   needs a cell before it, the second one after it. *)
remove_variable(l, n) ==
    LET c == get_variable(l, n)
        prev == l.cells[c].prev
        next == l.cells[c].next
    IN IF c = NULL THEN l
       ELSE IF prev = NULL \/ next = NULL THEN [l EXCEPT !.alive = FALSE]
       ELSE [l EXCEPT !.cells[prev].next = next, !.cells[next].prev = prev,
                      !.cells[c] = Freed, !.live = @ \ {c}, !.size = @ - 1]

EmptyList == [cells |-> <<>>, live |-> {}, head |-> NULL, tail |-> NULL,
              size |-> 0, alive |-> TRUE]

init_variables_list(dir) ==
    LET zero == add_variable(EmptyList, "0", "42sh")
        mark == add_variable(zero, "?", "0")
        old == add_variable(mark, "OLDPWD", "")
    IN add_variable(old, "PWD", dir)

NoCommand == [op |-> "none", args |-> <<>>]

Init ==
    /\ cwd \in Dir /\ environ \in Environs
    /\ list = init_variables_list(cwd)
    /\ seen = "" /\ rc = "none" /\ cmd = NoCommand /\ alive = TRUE

-----------------------------------------------------------------------------
Runs(op, args) ==
    /\ alive /\ rc = "none"
    /\ cmd' = [op |-> op, args |-> args] /\ UNCHANGED environ
Room == Len(list.cells) < MaxCells

Stops == alive' = FALSE /\ UNCHANGED <<list, cwd, seen, rc>>
Keeps(status) == rc' = status /\ UNCHANGED <<list, cwd, seen, alive>>
Becomes(l) ==
    IF l.alive THEN list' = l /\ rc' = "0" /\ UNCHANGED <<cwd, seen, alive>> ELSE Stops

(* The value of "?" is a number: a string that replaces it frees that number. *)
Assign(n, v) ==
    /\ Runs("assign", <<n, v>>) /\ Room
    /\ IF n = "?" /\ Has(list, n) THEN Stops ELSE Becomes(SetVariable(list, n, v))

(* x= without a value; x=1 with another word behind it, and a name with an expansion. *)
AssignNothing ==
    /\ Runs("assign", <<>>)
    /\ Keeps("0") \/ Keeps("127")

(* A value whose expansion fails is a null pointer, which strdup reads; = alone has no
   name to copy. *)
AssignFails(n) == Runs("assign", <<n>>) /\ Stops

(* Mutant of RemoveAll: the first argument only. *)
RemoveFirst(l, args) == remove_variable(l, args[1])

(* The loop over cmd[i], until the shell stops. *)
RemoveAll(l, args) ==
    LET after[k \in 0 .. Len(args)] ==
        IF k = 0 THEN l
        ELSE IF after[k - 1].alive THEN remove_variable(after[k - 1], args[k])
        ELSE after[k - 1]
    IN after[Len(args)]

(* my_unset removes its arguments in turn, "-v" among them; with "-f" it does
   nothing, and without arguments it compares a null pointer. *)
my_unset(args) ==
    /\ Runs("unset", args)
    /\ IF args = <<>> THEN Stops
       ELSE Becomes(IF args[1] = "-f" THEN list ELSE RemoveAll(list, args))

(* Mutant of Arrive: PWD and OLDPWD the wrong way round. *)
ArriveSwapped(d, status) ==
    /\ cwd' = d /\ rc' = status
    /\ list' = SetVariable(SetVariable(list, "OLDPWD", d), "PWD", cwd)
    /\ UNCHANGED <<seen, alive>>

(* The end of my_cd, in the directory d. *)
Arrive(d, status) ==
    /\ cwd' = d /\ rc' = status
    /\ list' = SetVariable(SetVariable(list, "PWD", d), "OLDPWD", cwd)
    /\ UNCHANGED <<seen, alive>>

(* cd with two arguments, before anything is looked up. *)
CdTooMany(d) == Runs("cd", <<d, d>>) /\ Keeps("1")

(* cd with the name of a directory: when it is not there ("1") or chdir fails
   ("-1"), the variables are updated all the same. *)
my_cd(d) ==
    /\ Runs("cd", <<d>>) /\ Room
    /\ IF Has(list, "OLDPWD")
       THEN Arrive(d, "0") \/ Arrive(cwd, "1") \/ Arrive(cwd, "-1")
       ELSE Stops

(* cd alone: the HOME of the environment, never that of the list. *)
CdHome ==
    /\ Runs("cd", <<>>) /\ Room
    /\ IF Has(list, "OLDPWD")
       THEN \/ "HOME" \notin DOMAIN environ /\ Keeps("1")
            \/ /\ "HOME" \in DOMAIN environ
               /\ \/ environ["HOME"] \in Dir /\ Arrive(environ["HOME"], "0")
                  \/ Arrive(cwd, "-1")
       ELSE Stops

(* cd -: it returns before the variables are updated when OLDPWD is empty ("1"), and
   when chdir fails ("-1"): an OLDPWD that a script has set need not be a directory. *)
CdBack ==
    /\ Runs("cd", <<"-">>) /\ Room
    /\ IF Has(list, "OLDPWD")
       THEN LET old == ValueOf(list, "OLDPWD")
            IN \/ old = "" /\ Keeps("1")
               \/ old # "" /\ Keeps("-1")
               \/ old \in Dir \ {""} /\ Arrive(old, "0")
       ELSE Stops

(* get_special_var for a name that is not in the list.  Without the variable "?" it
   reads through a null pointer, and strcat gets the null pointer of getenv. *)
NullWhenAbsent == {"?"} \cup ({"OLDPWD", "UID"} \ DOMAIN environ)
Special(n) ==
    IF n \in {"OLDPWD", "UID"} THEN environ[n] ELSE IF n = "PWD" THEN cwd ELSE ""

(* expand_variable. *)
Expand(n) ==
    /\ Runs("echo", <<n>>)
    /\ IF ~Has(list, n) /\ n \in NullWhenAbsent THEN Stops
       ELSE /\ seen' = IF Has(list, n) THEN ValueOf(list, n) ELSE Special(n)
            /\ rc' = "0" /\ UNCHANGED <<list, cwd, alive>>

(* update_question_mark, which does nothing when there is no "?". *)
update_question_mark ==
    /\ alive /\ rc # "none"
    /\ list' = IF Has(list, "?") THEN SetVariable(list, "?", rc) ELSE list
    /\ rc' = "none" /\ cmd' = NoCommand /\ seen' = ""
    /\ UNCHANGED <<cwd, alive, environ>>

Crashed == ~alive /\ UNCHANGED vars

Args == {<<>>} \cup {<<n>> : n \in Name} \cup ({"-v", "-f", "0"} \cup UserName) \X Name

Assignable == UserName \cup {"?", "OLDPWD"}

Next ==
    \/ \E n \in Assignable, v \in UserValue : Assign(n, v)
    \/ \E n \in Assignable : AssignFails(n)
    \/ AssignNothing
    \/ \E args \in Args : my_unset(args)
    \/ \E d \in Dir : CdTooMany(d) \/ my_cd(d)
    \/ CdHome \/ CdBack
    \/ \E n \in Name : Expand(n)
    \/ update_question_mark
    \/ Crashed
Spec == Init /\ [][Next]_vars

-----------------------------------------------------------------------------
Word == Name \cup Value \cup {"-", "-v", "-f"}

TypeOK ==
    /\ list.cells \in Seq([name : Name \cup {""}, value : Value,
                           next : 0 .. MaxCells, prev : 0 .. MaxCells])
    /\ Len(list.cells) <= MaxCells
    /\ list.live \subseteq DOMAIN list.cells
    /\ {list.head, list.tail} \subseteq 0 .. MaxCells
    /\ list.size \in 0 .. MaxCells
    /\ cwd \in Dir /\ seen \in Value /\ rc \in {"none"} \cup Status /\ alive \in BOOLEAN
    /\ environ \in Environs
    /\ cmd \in [op : {"none", "assign", "unset", "cd", "echo"}, args : Seq(Word)]

(* However assignments, unsets and cds follow each other, the two directions
   of the list agree, it reaches exactly the cells that are allocated, its size
   counts them, and no name is twice in it (ast/variable.c). *)
ListSound ==
    LET cell(c) == list.cells[c]
    IN alive =>
        /\ Reached(list) = list.live
        /\ list.size = Cardinality(list.live)
        /\ cell(list.head).prev = NULL /\ cell(list.tail).next = NULL
        /\ \A c \in list.live :
             /\ c # list.tail => cell(c).next \in list.live /\ cell(cell(c).next).prev = c
             /\ \A d \in list.live \ {c} : cell(c).name # cell(d).name

(* Unless a script sets it, PWD is the current directory, also after a cd that
   fails and after PWD was removed and created again (built_in/cd.c). *)
PwdIsCurrent ==
    alive /\ Has(list, "PWD") /\ "PWD" \notin UserName => ValueOf(list, "PWD") = cwd

(* Every command does to the list what VarMap says that it does to a map, with the
   arguments that it was given, and stops the shell exactly when VarMap says so. *)
Listed == {list.cells[c].name : c \in Reached(list)}
Env == [n \in Listed |-> ValueOf(list, n)]
Map == INSTANCE VarMap WITH env <- Env, newest <- list.cells[list.tail].name
ImplementsMap == Map!Spec
=============================================================================
