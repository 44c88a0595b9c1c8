-------------------------------- MODULE Exec --------------------------------
(***************************************************************************)
(* The executor of the syntax tree: ast_exec, exec_op, shell_cmd_exec,     *)
(* exec_if, exec_w and exec_u in exec/exec.c, which call each other        *)
(* recursively.  The C stack is a variable: one frame per active call of   *)
(* ast_exec, with the point its handler has reached and the local variable *)
(* that survives further calls.                                            *)
(*                                                                         *)
(* A simple command ends with any status.  What it does to descriptors is  *)
(* in module Redirection, how a pipeline runs is in module Pipeline.       *)
(***************************************************************************)
EXTENDS Integers, Sequences

CONSTANTS
    Node,       \* nodes of the syntax tree
    Null,       \* an absent child
    tree,       \* [type, l, r, x]: the type of a node and its children
    Roots,      \* the nodes a run may start from
    Status,     \* statuses a command may end with
    MaxDepth,   \* bound on the frames
    MaxLog      \* bound on the commands executed

LeafTypes == {"simple", "assign", "redir", "function", "pipe"}
InnerTypes == {"call", ";", "!", "||", "&&", "if", "while", "until", "block"}

ASSUME TreeAssumption ==
    /\ Null \notin Node
    /\ tree \in [Node -> [type : LeafTypes \cup InnerTypes,
                          l : Node \cup {Null}, r : Node \cup {Null}, x : Node \cup {Null}]]
    /\ Roots \subseteq Node

(* The shapes the parser builds.  The branches of the executor for the children
   that are never absent are dead code and are left out. *)
ASSUME ParserAssumption ==
    \A n \in Node :
        /\ tree[n].type \in InnerTypes => tree[n].l # Null
        /\ tree[n].type \in {"||", "&&", "if", "while", "until"} => tree[n].r # Null

ASSUME BoundAssumption ==
    /\ {0, 1, 127} \subseteq Status /\ Status \subseteq Int
    /\ MaxDepth \in Nat /\ MaxLog \in Nat

VARIABLES
    root,       \* the tree the parser built
    stack,      \* active calls of ast_exec, the innermost first
    ret,        \* what the last call of ast_exec returned
    qmark,      \* the variable ?
    split,      \* assignment nodes whose word strtok_r has cut at the =
    log         \* the commands executed: node, $? at its start, its status
vars == <<root, stack, ret, qmark, split, log>>

PCs == {"start", "left", "right", "else"}
Frame == [node : Node, pc : PCs, rc : Status]
Entry == [node : Node, qmark : Status, rc : Status]

TypeOK ==
    /\ root \in Roots
    /\ stack \in Seq(Frame)
    /\ ret \in Status /\ qmark \in Status
    /\ split \subseteq Node
    /\ log \in Seq(Entry)

NewFrame(n) == [node |-> n, pc |-> "start", rc |-> 0]

(* parse() stores the 1 that parse_input returns on success in ?, so the first
   command does not see the 0 that init_variables_list puts there. *)
Init ==
    /\ root \in Roots /\ stack = <<NewFrame(root)>>
    /\ ret = 0 /\ qmark = 1
    /\ split = {} /\ log = << >>

-----------------------------------------------------------------------------
Running == stack # << >>
Top == Head(stack)
T == tree[Top.node]
At(type, pc) == Running /\ T.type = type /\ Top.pc = pc

(* Call ast_exec on a child and go on at pc with the result in ret; the local
   variable of the caller becomes rc. *)
Call(child, pc, rc) ==
    /\ Len(stack) < MaxDepth
    /\ stack' = <<NewFrame(child), [Top EXCEPT !.pc = pc, !.rc = rc]>> \o Tail(stack)
    /\ UNCHANGED <<root, ret, qmark, split, log>>

(* The handler is done: ast_exec stores its result in ? and returns it. *)
Leave(rc) ==
    /\ stack' = Tail(stack)
    /\ ret' = rc /\ qmark' = rc
    /\ UNCHANGED root

Return(rc) == Leave(rc) /\ UNCHANGED <<split, log>>

(* A command that ends with status rc. *)
Execute(rc) ==
    /\ Len(log) < MaxLog
    /\ log' = Append(log, [node |-> Top.node, qmark |-> qmark, rc |-> rc])
    /\ Leave(rc)

-----------------------------------------------------------------------------
(* A command other than an assignment or a function call; a bare redirection;
   a pipeline, whose commands run in children with copies of everything.  The
   trees of a file that . reads are executed by calls of their own. *)
ExecSimple ==
    /\ At("simple", "start") \/ At("redir", "start") \/ At("pipe", "start")
    /\ \E rc \in Status : Execute(rc)
    /\ UNCHANGED split

(* A function definition was entered in the function table by the parser.  No
   branch of ast_exec is for it. *)
ExecFunction ==
    /\ At("function", "start")
    /\ Execute(0)
    /\ UNCHANGED split

(* name=value.  A redirection before it may fail.  Otherwise strtok_r cuts the
   word of the node itself, and the name is accepted or not. *)
ExecAssignment ==
    /\ At("assign", "start") /\ Top.node \notin split
    /\ \/ /\ \E rc \in Status \ {0} : Execute(rc)
          /\ UNCHANGED split
       \/ /\ \E rc \in {0, 127} : Execute(rc)
          /\ split' = split \cup {Top.node}

(* The same node once more: its word has no = any longer and is a command. *)
ExecSplitAssignment ==
    /\ At("assign", "start") /\ Top.node \in split
    /\ \E rc \in Status : Execute(rc)
    /\ UNCHANGED split

(* A command that names a function: the body is executed, unless a redirection
   or an expansion of its words fails first. *)
ExecCall ==
    \/ /\ At("call", "start")
       /\ \/ Call(T.l, "left", 0)
          \/ /\ \E rc \in Status \ {0} : Execute(rc)
             /\ UNCHANGED split
    \/ At("call", "left") /\ Return(ret)

(* exec_op. *)
ExecSemicolon ==
    \/ At(";", "start") /\ Call(T.l, "left", 0)
    \/ At(";", "left") /\ T.r # Null /\ Call(T.r, "right", 0)
    \/ At(";", "left") /\ T.r = Null /\ Return(ret)
    \/ At(";", "right") /\ Return(ret)

(* Mutant of ExecNeg: the arithmetic negation. *)
NegArithmetic ==
    \/ At("!", "start") /\ Call(T.l, "left", 0)
    \/ At("!", "left") /\ Return(-ret)

ExecNeg ==
    \/ At("!", "start") /\ Call(T.l, "left", 0)
    \/ At("!", "left") /\ Return(IF ret = 0 THEN 1 ELSE 0)

(* Mutant of ExecOr: the test of && in its place. *)
OrSwapped ==
    \/ At("||", "start") /\ Call(T.l, "left", 0)
    \/ At("||", "left") /\ ret # 0 /\ Return(ret)
    \/ At("||", "left") /\ ret = 0 /\ Call(T.r, "right", 0)
    \/ At("||", "right") /\ Return(ret)

ExecOr ==
    \/ At("||", "start") /\ Call(T.l, "left", 0)
    \/ At("||", "left") /\ ret = 0 /\ Return(ret)
    \/ At("||", "left") /\ ret # 0 /\ Call(T.r, "right", 0)
    \/ At("||", "right") /\ Return(ret)

ExecAnd ==
    \/ At("&&", "start") /\ Call(T.l, "left", 0)
    \/ At("&&", "left") /\ ret # 0 /\ Return(ret)
    \/ At("&&", "left") /\ ret = 0 /\ Call(T.r, "right", 0)
    \/ At("&&", "right") /\ Return(ret)

(* Mutant of ExecIf: the condition is executed in the place of the branch. *)
IfWrongChild ==
    \/ At("if", "start") /\ Call(T.l, "left", 0)
    \/ At("if", "left") /\ ret = 0 /\ Call(T.l, "right", 0)
    \/ At("if", "left") /\ ret # 0 /\ Return(0)
    \/ At("if", "right") /\ Return(ret)

(* exec_if: rc is 0 unless a branch runs. *)
ExecIf ==
    \/ At("if", "start") /\ Call(T.l, "left", 0)
    \/ At("if", "left") /\ ret = 0 /\ Call(T.r, "right", 0)
    \/ At("if", "left") /\ ret # 0 /\ T.x # Null /\ Call(T.x, "else", 0)
    \/ At("if", "left") /\ ret # 0 /\ T.x = Null /\ Return(0)
    \/ (At("if", "right") \/ At("if", "else")) /\ Return(ret)

(* exec_w and exec_u: body, in rc, is the status of the last turn. *)
ExecLoop ==
    \E type \in {"while", "until"} :
       LET again == (ret = 0) <=> (type = "while")
       IN  \/ At(type, "start") /\ Call(T.l, "left", 0)
           \/ At(type, "left") /\ again /\ Call(T.r, "right", Top.rc)
           \/ At(type, "right") /\ Call(T.l, "left", ret)
           \/ At(type, "left") /\ ~again /\ Return(Top.rc)

(* { } and ( ) alike: no process is created for either. *)
ExecBlock ==
    \/ At("block", "start") /\ Call(T.l, "left", 0)
    \/ At("block", "left") /\ Return(ret)

(* The program has ended, or a bound of the model is reached. *)
Stopped ==
    /\ ~Running \/ Len(log) = MaxLog \/ Len(stack) = MaxDepth
    /\ UNCHANGED vars

Next ==
    \/ ExecSimple \/ ExecFunction \/ ExecAssignment \/ ExecSplitAssignment \/ ExecCall
    \/ ExecSemicolon \/ ExecNeg \/ ExecOr \/ ExecAnd
    \/ ExecIf \/ ExecLoop \/ ExecBlock
    \/ Stopped

Spec == Init /\ [][Next]_vars

-----------------------------------------------------------------------------
(* The child a caller waits for when it has reached pc. *)
Callee(f) ==
    LET t == tree[f.node]
    IN  CASE f.pc = "start" -> Null
          [] f.pc = "left" -> t.l
          [] f.pc = "right" -> t.r
          [] f.pc = "else" -> t.x

(* The active calls are a path of the tree from its root, each call the one
   its caller waits for; a leaf is innermost. *)
CallChain ==
    /\ Running => stack[Len(stack)].node = root
    /\ \A k \in 1 .. Len(stack) - 1 : stack[k].node = Callee(stack[k + 1])

(* A node that is an assignment is one every time it is executed ("return true
   if the command is a variable assignment", exec.c:183). *)
AssignmentStays ==
    \A k \in 1 .. Len(stack) :
        tree[stack[k].node].type = "assign" /\ stack[k].pc = "start" =>
            stack[k].node \notin split
=============================================================================
