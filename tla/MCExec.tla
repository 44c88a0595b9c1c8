------------------------------- MODULE MCExec -------------------------------
(* Syntax trees for TLC, and what a shell is meant to do with them. *)
EXTENDS Exec

None == "none"
Leaf(type) == [type |-> type, l |-> None, r |-> None, x |-> None]
Inner(type, l, r, x) == [type |-> type, l |-> l, r |-> r, x |-> x]

MCTree ==
    [a |-> Leaf("simple"), b |-> Leaf("simple"), c |-> Leaf("simple"),
     red |-> Leaf("redir"), pipe |-> Leaf("pipe"), set |-> Leaf("assign"),
     def |-> Leaf("function"),
     \* a && ! b || c
     neg |-> Inner("!", "b", None, None),
     and |-> Inner("&&", "a", "neg", None),
     logic |-> Inner("||", "and", "c", None),
     \* if a; then > red; elif a | b; then b && c; fi; f() ...; x=1;
     both |-> Inner("&&", "b", "c", None),
     elif |-> Inner("if", "pipe", "both", None),
     cond |-> Inner("if", "a", "red", "elif"),
     seq1 |-> Inner(";", "cond", "def", None),
     seq2 |-> Inner(";", "seq1", "set", None),
     branch |-> Inner(";", "seq2", None, None),
     \* while until a; do b; done; do x=1; done
     inner |-> Inner("until", "a", "b", None),
     loop |-> Inner("while", "inner", "set", None),
     \* f() { if a; then f; else b; fi; }; { f; c; }
     again |-> Inner("call", "body", None, None),
     test |-> Inner("if", "a", "again", "b"),
     body |-> Inner("block", "test", None, None),
     call |-> Inner("call", "body", None, None),
     tail |-> Inner(";", "call", "c", None),
     recursion |-> Inner("block", "tail", None, None)]

MCNode == DOMAIN MCTree
MCRoots == {"logic", "branch", "loop", "recursion"}
MCStatus == {0, 1, 127}

(* What POSIX says a shell does (XCU 2.8.2 and 2.9), as a check of the log from
   entry k on: the commands that run, in order, the $? each of them sees, and
   the status of the whole.  The log may end before the program does. *)
Reached(rc, k) == [verdict |-> "done", rc |-> rc, k |-> k]
Unfinished == [verdict |-> "unfinished", rc |-> 0, k |-> 0]
Wrong == [verdict |-> "wrong", rc |-> 0, k |-> 0]
IsDone(r) == r.verdict = "done"

Command(n, k, q) ==
    IF k > Len(log) THEN Unfinished
    ELSE IF log[k].node = n /\ log[k].qmark = q THEN Reached(log[k].rc, k + 1)
    ELSE Wrong

RECURSIVE Meaning(_, _, _), Turns(_, _, _, _)
Meaning(n, k, q) ==
    LET t == tree[n]
        left == Meaning(t.l, k, q)
        right == Meaning(t.r, left.k, left.rc)
    IN  CASE t.type \in LeafTypes -> Command(n, k, q)
          [] t.type = "call" -> IF k <= Len(log) /\ log[k].node = n
                                THEN Command(n, k, q) ELSE left
          [] t.type = "block" -> left
          [] t.type = ";" -> IF IsDone(left) /\ t.r # None THEN right ELSE left
          [] t.type = "!" -> IF IsDone(left)
                             THEN [left EXCEPT !.rc = IF @ = 0 THEN 1 ELSE 0] ELSE left
          [] t.type = "&&" -> IF IsDone(left) /\ left.rc = 0 THEN right ELSE left
          [] t.type = "||" -> IF IsDone(left) /\ left.rc # 0 THEN right ELSE left
          [] t.type = "if" -> IF ~IsDone(left) THEN left
                              ELSE IF left.rc = 0 THEN right
                              ELSE IF t.x = None THEN Reached(0, left.k)
                              ELSE Meaning(t.x, left.k, left.rc)
          [] OTHER -> Turns(n, k, q, 0)
Turns(n, k, q, last) ==
    LET t == tree[n]
        left == Meaning(t.l, k, q)
        right == Meaning(t.r, left.k, left.rc)
    IN  IF ~IsDone(left) THEN left
        ELSE IF (left.rc = 0) # (t.type = "while") THEN Reached(last, left.k)
        ELSE IF ~IsDone(right) THEN right
        ELSE Turns(n, right.k, right.rc, right.rc)

(* The executor runs the commands POSIX asks for, in that order, each seeing
   in $? the status of what ended last, and returns the status of the whole.
   One thing differs: $? starts as 1. *)
FollowsReference ==
    LET r == Meaning(root, 1, 1)
    IN  /\ r.verdict # "wrong"
        /\ ~Running => r = Reached(ret, Len(log) + 1)
=============================================================================
