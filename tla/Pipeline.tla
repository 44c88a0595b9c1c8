------------------------------ MODULE Pipeline ------------------------------
(***************************************************************************)
(* A pipeline of N commands, as exec_pipe in exec/exec.c runs it.  The     *)
(* tree is left-associative: the pipe of level p connects the commands p   *)
(* and p + 1, and exec_pipe of level p is executed by the shell when p is  *)
(* the last level and by the left child of level p + 1 otherwise.          *)
(*                                                                         *)
(* A process is a runner, which executes exec_pipe for one level, or a     *)
(* stage, which stands for the child that calls ast_exec on a command and  *)
(* for the command itself.  A command copies its input to its output until *)
(* the end of its input; it may stop earlier, or be killed.                *)
(***************************************************************************)
EXTENDS Integers

CONSTANTS
    N,          \* commands in the pipeline
    Capacity,   \* what a pipe holds before a writer blocks
    Items,      \* what the first command writes
    Status      \* statuses a command may exit with

ASSUME PipelineAssumption ==
    /\ N \in Nat /\ N >= 2
    /\ Capacity \in Nat \ {0} /\ Items \in Nat
    /\ 0 \in Status

Level == 1 .. N - 1
Stage == 1 .. N
Shell == N - 1                      \* the runner that is the shell itself
Proc == ({"runner"} \X Level) \cup ({"stage"} \X Stage)
R(p) == <<p, "read">>               \* fd[0] and fd[1] of level p
W(p) == <<p, "write">>
End == Level \X {"read", "write"}

VARIABLES
    rpc,        \* where the runner of a level is in exec_pipe
    res,        \* its *res
    stage,      \* the state of a command
    code,       \* the status it exited with
    ends,       \* the pipe ends a process holds, under any descriptor
    buffer,     \* what a pipe holds
    todo,       \* what a command has still to write
    eof         \* a command has seen the end of its input
vars == <<rpc, res, stage, code, ends, buffer, todo, eof>>

RunnerStates == {"none", "setup", "pipe", "fork1", "closewrite", "fork2", "closeread",
                 "wait1", "wait2", "done", "exited"}
StageStates == {"none", "setup", "run", "exited", "sigpipe", "killed"}

TypeOK ==
    /\ rpc \in [Level -> RunnerStates]
    /\ res \in [Level -> Status]
    /\ stage \in [Stage -> StageStates]
    /\ code \in [Stage -> Status]
    /\ ends \in [Proc -> SUBSET End]
    /\ buffer \in [Level -> 0 .. Capacity]
    /\ todo \in [Stage -> Nat]
    /\ eof \in [Stage -> BOOLEAN]

Init ==
    /\ rpc = [p \in Level |-> IF p = Shell THEN "pipe" ELSE "none"]
    /\ res = [p \in Level |-> 0]
    /\ stage = [s \in Stage |-> "none"]
    /\ code = [s \in Stage |-> 0]
    /\ ends = [q \in Proc |-> {}]
    /\ buffer = [p \in Level |-> 0]
    /\ todo = [s \in Stage |-> IF s = 1 THEN Items ELSE 0]
    /\ eof = [s \in Stage |-> FALSE]

-----------------------------------------------------------------------------
Runner(p) == <<"runner", p>>
Command(s) == <<"stage", s>>
Left(p) == IF p = 1 THEN Command(1) ELSE Runner(p - 1)
Right(p) == Command(p + 1)

Held(end) == \E q \in Proc : end \in ends[q]
StageEnded(s) == stage[s] \in {"exited", "sigpipe", "killed"}
LeftEnded(p) == IF p = 1 THEN StageEnded(1) ELSE rpc[p - 1] = "exited"

UnchangedData == UNCHANGED <<code, buffer, todo, eof>>
Goto(p, label) == rpc' = [rpc EXCEPT ![p] = label]

(* exec_pipe returns -1 with *res untouched, the 0 of exec_op. *)
GiveUp(p, held) ==
    /\ Goto(p, "done")
    /\ ends' = [ends EXCEPT ![Runner(p)] = held]
    /\ UNCHANGED <<res, stage>> /\ UnchangedData

(* The left child that runs exec_pipe itself: close(fd[0]), dup2. *)
RunnerSetup(p) ==
    /\ rpc[p] = "setup"
    /\ Goto(p, "pipe")
    /\ ends' = [ends EXCEPT ![Runner(p)] = @ \ {R(p + 1)}]
    /\ UNCHANGED <<res, stage>> /\ UnchangedData

Pipe(p) ==
    /\ rpc[p] = "pipe"
    /\ \/ /\ Goto(p, "fork1")
          /\ ends' = [ends EXCEPT ![Runner(p)] = @ \cup {R(p), W(p)}]
          /\ UNCHANGED <<res, stage>> /\ UnchangedData
       \/ GiveUp(p, ends[Runner(p)])

(* The first fork: the child gets a copy of every end the parent holds, those
   of the outer levels too. *)
ForkLeft(p) ==
    /\ rpc[p] = "fork1"
    /\ \/ /\ rpc' = [q \in Level |-> IF q = p THEN "closewrite"
                                     ELSE IF q = p - 1 THEN "setup" ELSE rpc[q]]
          /\ stage' = IF p = 1 THEN [stage EXCEPT ![1] = "setup"] ELSE stage
          /\ ends' = [ends EXCEPT ![Left(p)] = ends[Runner(p)]]
          /\ UNCHANGED res /\ UnchangedData
       \/ GiveUp(p, ends[Runner(p)] \ {R(p), W(p)})

(* Mutant of CloseWrite: the parent keeps the write end. *)
KeepWrite(p) ==
    /\ rpc[p] = "closewrite"
    /\ Goto(p, "fork2")
    /\ UNCHANGED <<res, stage, ends>> /\ UnchangedData

(* Mutant of CloseWrite: both ends are closed before the second fork. *)
CloseBoth(p) ==
    /\ rpc[p] = "closewrite"
    /\ Goto(p, "fork2")
    /\ ends' = [ends EXCEPT ![Runner(p)] = @ \ {R(p), W(p)}]
    /\ UNCHANGED <<res, stage>> /\ UnchangedData

CloseWrite(p) ==
    /\ rpc[p] = "closewrite"
    /\ Goto(p, "fork2")
    /\ ends' = [ends EXCEPT ![Runner(p)] = @ \ {W(p)}]
    /\ UNCHANGED <<res, stage>> /\ UnchangedData

(* Mutant of ForkRight: the failure path closes nothing. *)
ForkRightLeak(p) ==
    /\ rpc[p] = "fork2"
    /\ \/ /\ Goto(p, "closeread")
          /\ stage' = [stage EXCEPT ![p + 1] = "setup"]
          /\ ends' = [ends EXCEPT ![Right(p)] = ends[Runner(p)]]
          /\ UNCHANGED res /\ UnchangedData
       \/ GiveUp(p, ends[Runner(p)])

(* The second fork.  When it fails nobody waits for the first child. *)
ForkRight(p) ==
    /\ rpc[p] = "fork2"
    /\ \/ /\ Goto(p, "closeread")
          /\ stage' = [stage EXCEPT ![p + 1] = "setup"]
          /\ ends' = [ends EXCEPT ![Right(p)] = ends[Runner(p)]]
          /\ UNCHANGED res /\ UnchangedData
       \/ GiveUp(p, ends[Runner(p)] \ {R(p)})

CloseRead(p) ==
    /\ rpc[p] = "closeread"
    /\ Goto(p, "wait1")
    /\ ends' = [ends EXCEPT ![Runner(p)] = @ \ {R(p)}]
    /\ UNCHANGED <<res, stage>> /\ UnchangedData

WaitLeft(p) ==
    /\ rpc[p] = "wait1" /\ LeftEnded(p)
    /\ Goto(p, "wait2")
    /\ UNCHANGED <<res, stage, ends>> /\ UnchangedData

(* Mutant of WaitRight: the whole of the status word, without WEXITSTATUS. *)
WaitRightRaw(p) ==
    /\ rpc[p] = "wait2" /\ StageEnded(p + 1)
    /\ Goto(p, "done")
    /\ res' = [res EXCEPT ![p] = IF stage[p + 1] = "exited" THEN 256 * code[p + 1] ELSE @]
    /\ UNCHANGED <<stage, ends>> /\ UnchangedData

(* Mutant of WaitRight: the status of the left command. *)
WaitRightLeft(p) ==
    /\ rpc[p] = "wait2" /\ StageEnded(p + 1)
    /\ Goto(p, "done")
    /\ res' = [res EXCEPT ![p] = IF stage[p] = "exited" THEN code[p] ELSE @]
    /\ UNCHANGED <<stage, ends>> /\ UnchangedData

(* Only a child that exited has a status; a killed one leaves *res at 0. *)
WaitRight(p) ==
    /\ rpc[p] = "wait2" /\ StageEnded(p + 1)
    /\ Goto(p, "done")
    /\ res' = [res EXCEPT ![p] = IF stage[p + 1] = "exited" THEN code[p + 1] ELSE @]
    /\ UNCHANGED <<stage, ends>> /\ UnchangedData

(* The left child of the next level: close(fd[1]), exit. *)
RunnerExit(p) ==
    /\ p # Shell /\ rpc[p] = "done"
    /\ Goto(p, "exited")
    /\ ends' = [ends EXCEPT ![Runner(p)] = {}]
    /\ UNCHANGED <<res, stage>> /\ UnchangedData

RunnerStep(p) ==
    \/ RunnerSetup(p) \/ Pipe(p) \/ ForkLeft(p) \/ CloseWrite(p) \/ ForkRight(p)
    \/ CloseRead(p) \/ WaitLeft(p) \/ WaitRight(p) \/ RunnerExit(p)

-----------------------------------------------------------------------------
(* Mutant of StageSetup: the first child closes the wrong end. *)
SetupWrongEnd(s) ==
    /\ stage[s] = "setup"
    /\ stage' = [stage EXCEPT ![s] = "run"]
    /\ ends' = [ends EXCEPT ![Command(s)] = @ \ (IF s = 1 THEN {W(1)} ELSE {R(s - 1)})]
    /\ UNCHANGED <<rpc, res>> /\ UnchangedData

(* The first child closes the end it does not use; the second tries to close
   fd[1], which its parent had closed already. *)
StageSetup(s) ==
    /\ stage[s] = "setup"
    /\ stage' = [stage EXCEPT ![s] = "run"]
    /\ ends' = [ends EXCEPT ![Command(s)] = @ \ (IF s = 1 THEN {R(1)} ELSE {W(s - 1)})]
    /\ UNCHANGED <<rpc, res>> /\ UnchangedData

EndStage(s, how, rc) ==
    /\ stage' = [stage EXCEPT ![s] = how]
    /\ code' = [code EXCEPT ![s] = rc]
    /\ ends' = [ends EXCEPT ![Command(s)] = {}]
    /\ UNCHANGED <<rpc, res, buffer, todo, eof>>

(* write() blocks on a full pipe and raises SIGPIPE when nobody can read. *)
Write(s) ==
    /\ stage[s] = "run" /\ s < N /\ todo[s] > 0
    /\ \/ /\ Held(R(s)) /\ buffer[s] < Capacity
          /\ buffer' = [buffer EXCEPT ![s] = @ + 1]
          /\ todo' = [todo EXCEPT ![s] = @ - 1]
          /\ UNCHANGED <<rpc, res, stage, code, ends, eof>>
       \/ ~Held(R(s)) /\ EndStage(s, "sigpipe", 0)

Read(s) ==
    /\ stage[s] = "run" /\ s > 1 /\ todo[s] = 0 /\ ~eof[s]
    /\ \/ /\ buffer[s - 1] > 0
          /\ buffer' = [buffer EXCEPT ![s - 1] = @ - 1]
          /\ todo' = [todo EXCEPT ![s] = IF s = N THEN 0 ELSE 1]
          /\ UNCHANGED eof
       \/ /\ buffer[s - 1] = 0 /\ ~Held(W(s - 1))
          /\ eof' = [eof EXCEPT ![s] = TRUE]
          /\ UNCHANGED <<buffer, todo>>
    /\ UNCHANGED <<rpc, res, stage, code, ends>>

Exit(s) ==
    /\ stage[s] = "run" /\ todo[s] = 0 /\ (s = 1 \/ eof[s])
    /\ \E rc \in Status : EndStage(s, "exited", rc)

(* A command need not read all its input; anybody may send it a signal. *)
Quit(s) ==
    /\ stage[s] = "run"
    /\ \/ \E rc \in Status : EndStage(s, "exited", rc)
       \/ EndStage(s, "killed", 0)

StageStep(s) == StageSetup(s) \/ Write(s) \/ Read(s) \/ Exit(s)

(* exec_pipe has returned in the shell, and no child is left. *)
Finished ==
    /\ rpc[Shell] = "done"
    /\ \A s \in Stage : stage[s] = "none" \/ StageEnded(s)
    /\ \A p \in Level \ {Shell} : rpc[p] \in {"none", "exited"}
    /\ UNCHANGED vars

Next ==
    \/ \E p \in Level : RunnerStep(p)
    \/ \E s \in Stage : StageStep(s) \/ Quit(s)
    \/ Finished

(* Every process is scheduled; nobody has to quit early. *)
Fairness ==
    /\ \A p \in Level : WF_vars(RunnerStep(p))
    /\ \A s \in Stage : WF_vars(StageStep(s))
Spec == Init /\ [][Next]_vars /\ Fairness

-----------------------------------------------------------------------------
(* A runner that waits, and one that has returned, holds neither end of its
   pipe, whichever call failed: its children would wait for ever for the end
   of their input, and the shell would run out of descriptors. *)
WaitsEmptyHanded ==
    \A p \in Level : rpc[p] \in {"wait1", "wait2", "done"} =>
        ends[Runner(p)] \cap {R(p), W(p)} = {}

(* A command sees the end of its input only when everything written to it has
   been read, its left child has ended, and no command before it still runs:
   each of them holds a copy of the write end. *)
NoEarlyEof ==
    \A s \in Stage : eof[s] =>
        /\ buffer[s - 1] = 0
        /\ LeftEnded(s - 1)
        /\ \A t \in 1 .. s - 1 : stage[t] = "none" \/ StageEnded(t)

(* A writer is killed by SIGPIPE only when its reader has ended or could not be
   created, never because it was scheduled before its reader existed. *)
NoSpuriousSigpipe ==
    \A s \in Stage : stage[s] = "sigpipe" =>
        StageEnded(s + 1) \/ (stage[s + 1] = "none" /\ rpc[s] \in {"done", "exited"})

(* exec_pipe returns the status of its right command, after both its children
   have ended; when that command was killed or never ran it returns 0. *)
ReturnsStatusOfRight ==
    \A p \in Level : rpc[p] \in {"done", "exited"} =>
        IF stage[p + 1] = "none" THEN res[p] = 0
        ELSE /\ LeftEnded(p) /\ StageEnded(p + 1)
             /\ res[p] = IF stage[p + 1] = "exited" THEN code[p + 1] ELSE 0

(* The pipeline returns, and every process it created ends, whoever stops
   reading, is killed or cannot be forked. *)
PipelineReturns == <>(rpc[Shell] = "done")
ChildrenEnd ==
    \A s \in Stage : stage[s] = "setup" ~> StageEnded(s)
=============================================================================
