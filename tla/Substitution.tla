---------------------------- MODULE Substitution ----------------------------
(***************************************************************************)
(* The command of $(...), as exec_word in expansion/expansion.c runs it:   *)
(* the shell forks a child that becomes /bin/sh with a pipe as its output,  *)
(* waits for it, and then reads the pipe, once, into a buffer.             *)
(*                                                                         *)
(* The child writes `first` bytes and may leave a background job that       *)
(* writes `late` bytes.  The shell may have been started with SIGCHLD       *)
(* ignored, and may have a child of its own already, the first command of   *)
(* a pipeline whose second fork failed, which nobody waits for.            *)
(*                                                                         *)
(* Expansion_proofs extends this module and Expansion: the two have no     *)
(* name in common.                                                         *)
(***************************************************************************)
EXTENDS Integers

CONSTANTS
    ReadSize,   \* BUFFER_SIZE, what one read returns at most
    Capacity,   \* what the pipe holds before a writer blocks
    MaxOutput   \* bound on what a command writes

ASSUME SubstitutionAssumption ==
    /\ ReadSize \in Nat \ {0} /\ Capacity \in Nat /\ Capacity >= ReadSize
    /\ MaxOutput \in Nat

VARIABLES
    first, late,    \* what the child and the background job write in all
    ignored,        \* SIGCHLD is ignored: children that end are not kept
    orphan,         \* the child the shell has already
    pc,             \* where the shell is in exec_word
    held,           \* the ends of the pipe the shell holds
    child, job,     \* the state of the two processes
    todo, jobTodo,  \* what they have still to write
    buffer,         \* what the pipe holds
    nbread,         \* what read returned
    text            \* the length of the text that is appended to the word
world == <<first, late, ignored>>
shell == <<pc, held, nbread, text>>
writers == <<world, orphan, child, job, todo, jobTodo>>
substVars == <<world, orphan, pc, held, child, job, todo, jobTodo, buffer, nbread, text>>

SubstTypeOK ==
    /\ {first, late, todo, jobTodo} \subseteq 0 .. MaxOutput
    /\ pc \in {"pipe", "fork", "wait", "waitany", "closewrite", "read", "closeread", "append",
               "done", "stopped", "failed"}
    /\ held \subseteq {"read", "write"} /\ ignored \in BOOLEAN
    /\ {child, job} \subseteq {"none", "run", "exited", "sigpipe"}
    /\ orphan \in {"none", "run", "exited", "reaped"}
    /\ buffer \in 0 .. Capacity /\ nbread \in 0 .. ReadSize /\ text \in 0 .. ReadSize

SubstInit ==
    /\ first \in 0 .. MaxOutput /\ late \in 0 .. MaxOutput
    /\ ignored \in BOOLEAN /\ orphan \in {"none", "run"}
    /\ pc = "pipe" /\ held = {} /\ nbread = 0 /\ text = 0 /\ buffer = 0
    /\ child = "none" /\ job = "none" /\ todo = first /\ jobTodo = late

-----------------------------------------------------------------------------
Least(a, b) == IF a <= b THEN a ELSE b
Goto(from, to) == pc = from /\ pc' = to

(* The result of pipe() is not looked at; here it works. *)
Pipe ==
    /\ Goto("pipe", "fork")
    /\ held' = {"read", "write"}
    /\ UNCHANGED <<nbread, text, buffer>> /\ UNCHANGED writers

(* When fork fails pid is -1 and no child is created. *)
Fork ==
    /\ \/ Goto("fork", "wait") /\ child' = "run"
       \/ Goto("fork", "waitany") /\ child' = child
    /\ UNCHANGED <<held, nbread, text, world, orphan, job, todo, jobTodo, buffer>>

(* Mutant of Wait: the shell reads at once. *)
NoWait ==
    /\ Goto("wait", "closewrite")
    /\ UNCHANGED <<held, nbread, text, buffer>> /\ UNCHANGED writers

(* The shell does nothing before the child has ended.  With SIGCHLD ignored
   waitpid fails then: exec_word returns at once, and its caller goes on. *)
Wait ==
    /\ child = "exited"
    /\ IF ignored THEN Goto("wait", "failed") ELSE Goto("wait", "closewrite")
    /\ UNCHANGED <<held, nbread, text, buffer>> /\ UNCHANGED writers

(* After a failed fork waitpid(-1) waits for any child.  Without one it returns
   -1, which is pid: exec_word goes on as if the command had ended.  With one
   it returns that child. *)
WaitAny ==
    /\ orphan # "run"
    /\ IF orphan = "exited" /\ ~ignored
       THEN Goto("waitany", "failed") /\ orphan' = "reaped"
       ELSE Goto("waitany", "closewrite") /\ orphan' = orphan
    /\ UNCHANGED <<held, nbread, text, world, child, job, todo, jobTodo, buffer>>

(* Mutant of CloseWrite: the shell keeps the end it does not use. *)
KeepWrite ==
    /\ Goto("closewrite", "read")
    /\ UNCHANGED <<held, nbread, text, buffer>> /\ UNCHANGED writers

CloseWrite ==
    /\ Goto("closewrite", "read")
    /\ held' = held \ {"write"}
    /\ UNCHANGED <<nbread, text, buffer>> /\ UNCHANGED writers

(* Mutant of Read: it asks for one unit more than the buffer has. *)
ReadTooMuch ==
    /\ Goto("read", "closeread")
    /\ buffer > 0 \/ ("run" \notin {child, job} /\ "write" \notin held)
    /\ nbread' = Least(buffer, ReadSize + 1)
    /\ buffer' = buffer - nbread'
    /\ UNCHANGED <<held, text>> /\ UNCHANGED writers

(* read() returns what is there, and waits only while the pipe is empty and a
   process could still write. *)
Read ==
    /\ Goto("read", "closeread")
    /\ buffer > 0 \/ ("run" \notin {child, job} /\ "write" \notin held)
    /\ nbread' = Least(buffer, ReadSize)
    /\ buffer' = buffer - nbread'
    /\ UNCHANGED <<held, text>> /\ UNCHANGED writers

(* Mutant of CloseRead: the read end stays open. *)
KeepRead ==
    /\ Goto("closeread", "append")
    /\ UNCHANGED <<held, nbread, text, buffer>> /\ UNCHANGED writers

CloseRead ==
    /\ Goto("closeread", "append")
    /\ held' = held \ {"read"}
    /\ UNCHANGED <<nbread, text, buffer>> /\ UNCHANGED writers

(* Mutant of AppendText: output[nbread] = '\0'. *)
AppendLastByte ==
    /\ IF nbread > 0 THEN Goto("append", "done") ELSE Goto("append", "stopped")
    /\ text' = nbread
    /\ UNCHANGED <<held, nbread, buffer>> /\ UNCHANGED writers

(* output[nbread - 1] = '\0': the last byte is taken to be a newline.  When
   there was none this is a write before the buffer, and the build with
   -fsanitize=address stops the shell. *)
AppendText ==
    /\ IF nbread > 0 THEN Goto("append", "done") /\ text' = nbread - 1
       ELSE Goto("append", "stopped") /\ text' = text
    /\ UNCHANGED <<held, nbread, buffer>> /\ UNCHANGED writers

ExecWord ==
    \/ Pipe \/ Fork \/ Wait \/ WaitAny \/ CloseWrite \/ Read \/ CloseRead \/ AppendText

-----------------------------------------------------------------------------
(* The child, and a job it starts with & that inherits its output. *)
ChildWrite ==
    /\ child = "run" /\ todo > 0 /\ buffer < Capacity
    /\ todo' = todo - 1 /\ buffer' = buffer + 1
    /\ UNCHANGED <<world, orphan, child, job, jobTodo>> /\ UNCHANGED shell

ChildSpawn ==
    /\ child = "run" /\ job = "none" /\ late > 0
    /\ job' = "run"
    /\ UNCHANGED <<world, orphan, child, todo, jobTodo, buffer>> /\ UNCHANGED shell

ChildExit ==
    /\ child = "run" /\ todo = 0 /\ (late > 0 => job # "none")
    /\ child' = "exited"
    /\ UNCHANGED <<world, orphan, job, todo, jobTodo, buffer>> /\ UNCHANGED shell

JobStep ==
    /\ job = "run"
    /\ \/ /\ jobTodo > 0 /\ "read" \in held /\ buffer < Capacity
          /\ jobTodo' = jobTodo - 1 /\ buffer' = buffer + 1 /\ job' = job
       \/ /\ jobTodo > 0 /\ "read" \notin held
          /\ job' = "sigpipe" /\ UNCHANGED <<jobTodo, buffer>>
       \/ /\ jobTodo = 0
          /\ job' = "exited" /\ UNCHANGED <<jobTodo, buffer>>
    /\ UNCHANGED <<world, orphan, child, todo>> /\ UNCHANGED shell

ChildStep == ChildWrite \/ ChildSpawn \/ ChildExit

OrphanExit ==
    /\ orphan = "run" /\ orphan' = "exited"
    /\ UNCHANGED <<world, child, job, todo, jobTodo, buffer>> /\ UNCHANGED shell

Returned == pc \in {"done", "stopped", "failed"}

SubstFinished ==
    /\ Returned /\ "run" \notin {job, orphan}
    /\ UNCHANGED substVars

SubstNext == ExecWord \/ ChildStep \/ JobStep \/ OrphanExit \/ SubstFinished

SubstSpec ==
    /\ SubstInit /\ [][SubstNext]_substVars
    /\ WF_substVars(ExecWord) /\ WF_substVars(ChildStep) /\ WF_substVars(JobStep)
    /\ WF_substVars(OrphanExit)

-----------------------------------------------------------------------------
(* A command without background job: the text is what it wrote, up to the size
   of the buffer and without the last byte, although all of it was written
   before anybody read.  That is the output itself when it fits and ends with a
   newline; of any other output a byte is missing, abc gives ab.  The illegal
   write of AppendText happens only when nothing at all was written or no
   command was created, so that no output is lost to it (exec_word). *)
TextComplete ==
    /\ pc = "done" /\ late = 0 => text = Least(first, ReadSize) - 1
    /\ pc = "stopped" => child = "none" \/ (first = 0 /\ late = 0)

(* When it returns the shell holds neither end of the pipe: a script may
   substitute in a loop.  The exception is a waitpid that did not return the
   command it was for: SIGCHLD is ignored, or fork failed and another child was
   there (exec_word). *)
ReturnsEmptyHanded ==
    Returned =>
        \/ held = {}
        \/ pc = "failed" /\ (ignored \/ (child = "none" /\ orphan = "reaped"))

(* exec_word returns when the pipe can hold everything that is written before
   it reads, also when a background job holds the pipe open. *)
SmallOutputReturns == first + late <= Capacity => <>Returned

(* "Build a new string with subtitution commands extended": the string is
   built, whatever the command writes. *)
SubstitutionReturns == <>Returned
=============================================================================
