---------------------------- MODULE Redirection ----------------------------
(***************************************************************************)
(* The descriptors of the shell while it executes simple commands with     *)
(* redirections: simple_cmd_exec in exec/exec.c and all of                 *)
(* redirection/redirection.c.                                              *)
(*                                                                         *)
(* One process only: the shell.  A function call, and a file read with the *)
(* builtin . (built_in/dot.c), make simple_cmd_exec re-enter itself through *)
(* ast_exec, so the C stack is a variable.  The redirection nodes belong to *)
(* the syntax tree, not to the call: what a handler stores in a node        *)
(* (save_io_number) is still there when the same node is executed again, by *)
(* a loop or by a recursive call.  The words of the commands here contain   *)
(* no command substitution: that opens and closes a pipe of its own, which  *)
(* is Substitution's subject.                                              *)
(*                                                                         *)
(* stdout is a buffered stream.  A builtin prints into the buffer; the     *)
(* text reaches whatever descriptor 1 names when the buffer is flushed.    *)
(***************************************************************************)
EXTENDS Integers, Sequences

CONSTANTS
    MaxFd,      \* descriptors are 0 .. MaxFd-1 (RLIMIT_NOFILE)
    Path,       \* words naming files
    Terminal,   \* the terminal the shell was started on
    Closed,     \* what an unused slot of the descriptor table holds
    Atoi,       \* atoi() of a redirection's word
    Redir,      \* redirection nodes of the syntax tree
    Type,       \* their type, an enum redirection_type
    IoNumber,   \* their io_number, -1 when the source gives none
    Word,       \* their word
    Cmd,        \* simple commands (and bare redirections) of the tree
    Kind,       \* what simple_cmd_exec finds a command to be
    Prefix,     \* the redirections of a command, in source order
    Bodies,     \* the command sequences a call of a function may execute, or
                \* a file that . reads
    MaxDepth,   \* bound on nested calls
    MaxCommands \* bound on the commands one script executes

FD == 0 .. MaxFd - 1

SavingTypes == {"FD_OUT", "FD_OUT_APPEND", "FD_OUT_NO_CLOBBER", "FD_IN", "FD_IO"}
DupTypes == {"FD_DUP_OUT", "FD_DUP_IN"}
Kinds == {"assignment", "badsubst", "builtin", "dot", "external", "function", "bare"}
Empty == ""  \* the word of an operator the input ends after
Words == Path \cup {Empty, "-"}

ASSUME SystemAssumption ==
    /\ MaxFd \in Nat /\ MaxFd > 2
    /\ MaxDepth \in Nat /\ MaxCommands \in Nat
    /\ Terminal \notin Words /\ Closed \notin Words /\ Terminal # Closed
    /\ Atoi \in [Words -> Nat]

ASSUME TreeAssumption ==
    /\ Type \in [Redir -> SavingTypes \cup DupTypes]
    /\ IoNumber \in [Redir -> Nat \cup {-1}]
    /\ Word \in [Redir -> Words]
    /\ Kind \in [Cmd -> Kinds]
    /\ Prefix \in [Cmd -> Seq(Redir)]
    /\ Bodies \in [Cmd -> SUBSET Seq(Cmd)]

VARIABLES
    fds,        \* the descriptor table: descriptor -> open file or Closed
    save,       \* save_io_number of every redirection node
    stack,      \* activations of simple_cmd_exec, the innermost first
    pending,    \* files that were on descriptor 1 when the text now in the
                \* stdout buffer was printed
    executed    \* commands executed so far, for the bound
vars == <<fds, save, stack, pending, executed>>

OpenFile == (Words \ {Empty}) \cup {Terminal}
Table == [FD -> OpenFile \cup {Closed}]

(* An activation: entry is a copy of the descriptor table at the call, kept
   for the properties only. *)
Frame == [cmd : Cmd, pc : {"redirect", "body", "flush", "reset"},
          i : Nat \ {0}, rest : Seq(Cmd), entry : Table]

TypeOK ==
    /\ fds \in Table
    /\ save \in [Redir -> FD \cup {-1}]
    /\ stack \in Seq(Frame)
    /\ pending \subseteq OpenFile \cup {Closed}
    /\ executed \in Nat

Init ==
    /\ fds = [d \in FD |-> IF d <= 2 THEN Terminal ELSE Closed]
    /\ save = [r \in Redir |-> -1]
    /\ stack = << >>
    /\ pending = {}
    /\ executed = 0

-----------------------------------------------------------------------------
(* System calls on a table t. *)

Free(t) == {d \in FD : t[d] = Closed}
Lowest(S) == CHOOSE d \in S : \A e \in S : d <= e
IsOpen(t, d) == d \in FD /\ t[d] # Closed

-----------------------------------------------------------------------------
(* The handlers.  Each is the set of its outcomes: the table it leaves, the
   save_io_number it stores in the node, its return code, and whether the
   failure was close() reporting an I/O error. *)

Outcome(t, s, rc) == [fds |-> t, save |-> s, rc |-> rc]

(* The descriptor a redirection acts on; also what new_value holds, which
   every handler sets to it first. *)
Default(r) == IF Type[r] \in {"FD_IN", "FD_DUP_IN", "FD_IO"} THEN 0 ELSE 1
Io(r) == IF IoNumber[r] = -1 THEN Default(r) ELSE IoNumber[r]

(* Mutant of Installed: io is saved after it was replaced. *)
InstalledSavedLate(t, r, f, s) ==
    [t EXCEPT ![Io(r)] = Word[r], ![s] = Word[r], ![f] = Closed]

(* Mutant of Installed: close(io) instead of close(f). *)
InstalledWrongClose(t, r, f, s) ==
    [t EXCEPT ![f] = Word[r], ![s] = t[Io(r)], ![Io(r)] = Closed]

(* open() gave f; io was saved in s; dup2(f, io) and close(f) worked. *)
Installed(t, r, f, s) ==
    LET saved == [t EXCEPT ![f] = Word[r], ![s] = IF Io(r) = f THEN Word[r] ELSE t[Io(r)]]
    IN  [saved EXCEPT ![Io(r)] = Word[r], ![f] = Closed]

(* fd_out and fd_in.  open() may fail for any path and must fail when the
   table is full.  dup(io) is checked; dup2 onto an open io cannot fail. *)
FdFile(t, r, s0) ==
    {Outcome(t, s0, 1)}
      \cup
    IF Free(t) = {} THEN {} ELSE
      LET f == Lowest(Free(t))
          opened == [t EXCEPT ![f] = Word[r]]
          s == Lowest(Free(opened))
      IN  IF ~IsOpen(opened, Io(r)) \/ Free(opened) = {}
          THEN {Outcome(t, -1, 1)}
          ELSE {Outcome(Installed(t, r, f, s), s, 0),
                \* close(f) failed: close(new_out), close(save)
                Outcome([t EXCEPT ![Io(r)] = Closed], s, 1)}

(* fd_io.  The save is not checked: an io that is not open, or a full table,
   leaves -1 in the node and the redirection goes on. *)
FdIo(t, r, s0) ==
    {Outcome(t, s0, 1)}
      \cup
    IF Free(t) = {} THEN {} ELSE
      LET f == Lowest(Free(t))
          opened == [t EXCEPT ![f] = Word[r]]
          s == IF IsOpen(opened, Io(r)) /\ Free(opened) # {}
               THEN Lowest(Free(opened)) ELSE -1
          saved == IF s = -1 THEN opened ELSE [opened EXCEPT ![s] = opened[Io(r)]]
      IN  IF Io(r) \notin FD
          THEN {Outcome(t, -1, 1)}
          ELSE {Outcome([saved EXCEPT ![Io(r)] = Word[r], ![f] = Closed], s, 0),
                \* close(f) failed: close(new_in); the save stays open
                Outcome([saved EXCEPT ![Io(r)] = Closed, ![f] = Closed], s, 1)}

(* fd_dup_in_out.  "-" closes io and goes on with atoi("-").  Nothing is
   saved.  Only a descriptor on a terminal is accepted as the source. *)
FdDupInOut(t, r, s0) ==
    LET t1 == IF Word[r] = "-" /\ Io(r) \in FD THEN [t EXCEPT ![Io(r)] = Closed] ELSE t
        n == Atoi[Word[r]]
    IN  IF IsOpen(t1, n) /\ t1[n] = Terminal /\ Io(r) \in FD
        THEN {Outcome([t1 EXCEPT ![Io(r)] = Terminal], s0, 0)}
        ELSE {Outcome(t1, s0, 1)}

(* Mutant of RedirectionExecHandler: no check of the empty word. *)
HandlerWithoutCheck(t, r, s0) ==
    CASE Type[r] \in DupTypes -> FdDupInOut(t, r, s0)
      [] Type[r] = "FD_IO"     -> FdIo(t, r, s0)
      [] OTHER                 -> FdFile(t, r, s0)

RedirectionExecHandler(t, r, s0) ==
    CASE Word[r] = Empty              -> {Outcome(t, s0, 2)}
      [] Word[r] # Empty /\ Type[r] \in DupTypes  -> FdDupInOut(t, r, s0)
      [] Word[r] # Empty /\ Type[r] = "FD_IO"     -> FdIo(t, r, s0)
      [] OTHER                     -> FdFile(t, r, s0)

-----------------------------------------------------------------------------
Running == stack # << >>
Top == Head(stack)
Call(c) == [cmd |-> c, pc |-> "redirect", i |-> 1, rest |-> << >>, entry |-> fds]
GoTo(label) == stack' = <<[Top EXCEPT !.pc = label, !.i = 1]>> \o Tail(stack)
Return == stack' = Tail(stack)

(* At the dispatch: every redirection of the command has been applied. *)
AtRedirection == Running /\ Top.pc = "redirect" /\ Top.i <= Len(Prefix[Top.cmd])
AtDispatch(kind) ==
    /\ Running /\ Top.pc = "redirect" /\ Top.i > Len(Prefix[Top.cmd])
    /\ Kind[Top.cmd] = kind

(* ast_exec reaches a simple command, from the top level ... *)
Execute(c) ==
    /\ ~Running /\ executed < MaxCommands
    /\ executed' = executed + 1
    /\ stack' = <<Call(c)>>
    /\ UNCHANGED <<fds, save, pending>>

(* One turn of the loop over the prefix.  A handler flushes stdout unless the
   word is empty.  A failure returns at once: nothing is reset. *)
ApplyRedirection ==
    /\ AtRedirection
    /\ LET r == Prefix[Top.cmd][Top.i]
       IN  \E o \in RedirectionExecHandler(fds, r, save[r]) :
             /\ fds' = o.fds
             /\ save' = [save EXCEPT ![r] = o.save]
             /\ pending' = IF Word[r] = Empty THEN pending ELSE {}
             /\ IF o.rc = 0
                THEN stack' = <<[Top EXCEPT !.i = @ + 1]>> \o Tail(stack)
                ELSE Return
    /\ UNCHANGED executed

(* A variable assignment returns without a reset, and so does a bare
   redirection, which ast_exec hands to the handler without simple_cmd_exec. *)
LeaveWithoutReset ==
    /\ AtDispatch("assignment") \/ AtDispatch("bare")
    /\ Return
    /\ UNCHANGED <<fds, save, pending, executed>>

(* to_command returned NULL. *)
BadSubstitution ==
    /\ AtDispatch("badsubst")
    /\ GoTo("flush")
    /\ UNCHANGED <<fds, save, pending, executed>>

(* A builtin other than . prints nothing, or prints on stdout: the text stays
   in the buffer, or part of it was written already. *)
RunBuiltin ==
    /\ AtDispatch("builtin")
    /\ pending' \in {pending, pending \cup {fds[1]}}
    /\ GoTo("flush")
    /\ UNCHANGED <<fds, save, executed>>

(* fork, execvp, waitpid: the child has a copy of the table and of the
   buffer; the shell's own do not change. *)
RunCommand ==
    /\ AtDispatch("external")
    /\ GoTo("flush")
    /\ UNCHANGED <<fds, save, pending, executed>>

(* C would recurse until the process runs out of stack; MaxDepth bounds it. *)
Enter(body) ==
    /\ body \in Bodies[Top.cmd]
    /\ body = << >> \/ Len(stack) < MaxDepth
    /\ stack' = <<[Top EXCEPT !.pc = "body", !.rest = body]>> \o Tail(stack)

(* A function: ast_exec(func_ast) runs one of the paths of its body. *)
EnterFunction ==
    /\ AtDispatch("function")
    /\ \E body \in Bodies[Top.cmd] : Enter(body)
    /\ UNCHANGED <<fds, save, pending, executed>>

(* The nodes of a text that is parsed hold no save yet. *)
Parsed(body) ==
    LET nodes == UNION {{Prefix[body[k]][j] : j \in DOMAIN Prefix[body[k]]} : k \in DOMAIN body}
    IN  [r \in Redir |-> IF r \in nodes THEN -1 ELSE save[r]]

(* A file reads itself, directly or not: each reading would have nodes of its
   own, which have no name here, so such a reading is left out. *)
ReadsItself(body) == \E k \in DOMAIN stack, j \in DOMAIN body : stack[k].cmd = body[j]

(* my_dot: run_program parses what the file holds and executes it.  The file
   was opened and closed before, which needs a free descriptor.  A file that does
   not lex or parse, and an empty one, are a body without commands. *)
EnterFile ==
    /\ AtDispatch("dot") /\ Free(fds) # {}
    /\ \E body \in Bodies[Top.cmd] :
         /\ ~ReadsItself(body)
         /\ Enter(body)
         /\ save' = Parsed(body)
    /\ UNCHANGED <<fds, pending, executed>>

(* Too few or too many arguments, or a file that open() refuses, as it does
   when the table is full. *)
DotRefused ==
    /\ AtDispatch("dot")
    /\ GoTo("flush")
    /\ UNCHANGED <<fds, save, pending, executed>>

(* read() fails, of a directory for instance: the file stays open. *)
DotUnreadable ==
    /\ AtDispatch("dot") /\ Free(fds) # {}
    /\ \E file \in Path \ {Empty} : fds' = [fds EXCEPT ![Lowest(Free(fds))] = file]
    /\ GoTo("flush")
    /\ UNCHANGED <<save, pending, executed>>

(* ... or from the body of a function or a file. *)
ExecuteInBody ==
    /\ Running /\ Top.pc = "body" /\ Top.rest # << >>
    /\ executed' = executed + 1
    /\ stack' = <<Call(Head(Top.rest)), [Top EXCEPT !.rest = Tail(@)]>> \o Tail(stack)
    /\ UNCHANGED <<fds, save, pending>>

LeaveBody ==
    /\ Running /\ Top.pc = "body" /\ Top.rest = << >>
    /\ GoTo("flush")
    /\ UNCHANGED <<fds, save, pending, executed>>

(* Mutant of FlushForReset: reset_fd without fflush. *)
ResetWithoutFlush ==
    /\ Running /\ Top.pc = "flush"
    /\ GoTo("reset")
    /\ UNCHANGED <<fds, save, pending, executed>>

(* reset_fd: flush first ... *)
FlushForReset ==
    /\ Running /\ Top.pc = "flush"
    /\ pending' = {}
    /\ GoTo("reset")
    /\ UNCHANGED <<fds, save, executed>>

(* ... then one turn per redirection, in source order.  The second dup2 of the
   code has -1 as its source and does nothing.  The save is not closed. *)
ResetStep ==
    /\ Running /\ Top.pc = "reset" /\ Top.i <= Len(Prefix[Top.cmd])
    /\ LET r == Prefix[Top.cmd][Top.i]
       IN  fds' = IF IsOpen(fds, save[r]) THEN [fds EXCEPT ![Io(r)] = fds[save[r]]]
                  ELSE fds
    /\ stack' = <<[Top EXCEPT !.i = @ + 1]>> \o Tail(stack)
    /\ UNCHANGED <<save, pending, executed>>

ResetDone ==
    /\ Running /\ Top.pc = "reset" /\ Top.i > Len(Prefix[Top.cmd])
    /\ Return
    /\ UNCHANGED <<fds, save, pending, executed>>

(* The script has no more commands. *)
Finished ==
    /\ ~Running /\ executed >= MaxCommands
    /\ UNCHANGED vars

Next ==
    \/ \E c \in Cmd : Execute(c)
    \/ ApplyRedirection \/ LeaveWithoutReset \/ BadSubstitution
    \/ RunBuiltin \/ RunCommand
    \/ EnterFunction \/ EnterFile \/ DotRefused \/ DotUnreadable
    \/ ExecuteInBody \/ LeaveBody
    \/ FlushForReset \/ ResetStep \/ ResetDone
    \/ Finished

Spec == Init /\ [][Next]_vars

-----------------------------------------------------------------------------
(* What a builtin prints reaches the file descriptor 1 named when it printed,
   whatever redirections and resets happen before the buffer is flushed. *)
OutputOnTarget == pending \subseteq {fds[1]}

(* fork() copies the stdout buffer: were text pending in it, the child and the
   shell would both write it.  run_command forks with an empty buffer; of the
   forks of exec_pipe and exec_word this says nothing. *)
NothingPendingAtFork == AtDispatch("external") => pending = {}

(* Handlers and reset_fd close only what they opened.  A descriptor that is
   open is closed by n>&- and n<&-, or when close() fails, and then it is the
   redirected one. *)
ClosesOnlyOnRequest ==
    [][\A d \in FD : fds[d] # Closed /\ fds'[d] = Closed =>
          /\ AtRedirection
          /\ LET r == Prefix[Top.cmd][Top.i]
             IN  d = Io(r) /\ (Word[r] = "-" \/ stack' = Tail(stack))]_vars

(* A command whose redirections all save what they replace, with a check, and
   replace different descriptors, and that runs no other commands: it is not a
   function, nor . with a file. *)
Straight(c) ==
    /\ Kind[c] \in {"badsubst", "builtin", "external"}
    /\ \A k \in 1 .. Len(Prefix[c]) :
          /\ Type[Prefix[c][k]] \in SavingTypes \ {"FD_IO"}
          /\ \A l \in 1 .. Len(Prefix[c]) :
                k # l => Io(Prefix[c][k]) # Io(Prefix[c][l])

OpenAtEntry(f) == \A k \in 1 .. Len(Prefix[f.cmd]) : IsOpen(f.entry, Io(Prefix[f.cmd][k]))
ResetFinished == Running /\ Top.pc = "reset" /\ Top.i > Len(Prefix[Top.cmd])

(* When such a command has run, every descriptor that was open at its start
   is on its file again, and all it leaves behind is one open copy of each
   replaced descriptor, the saves nobody closes. *)
RestoreSound ==
    ResetFinished /\ Straight(Top.cmd) /\ OpenAtEntry(Top) =>
      \A d \in FD :
        IF Top.entry[d] # Closed THEN fds[d] = Top.entry[d]
        ELSE fds[d] # Closed <=> \E k \in 1 .. Len(Prefix[Top.cmd]) :
                                   d = save[Prefix[Top.cmd][k]]

(* The saves are there to put back every descriptor the command replaced
   ("sauvegarde de io_fd", redirection.c:45), whatever its redirections. *)
ResetRestores ==
    ResetFinished => \A d \in FD : Top.entry[d] # Closed => fds[d] = Top.entry[d]
=============================================================================
