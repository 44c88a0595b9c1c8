----------------------------- MODULE Exec_proofs -----------------------------
(* Proofs about Exec, for every syntax tree the parser builds. *)
EXTENDS Exec, TLAPS

IInv == TypeOK /\ CallChain

-----------------------------------------------------------------------------
(* What a handler does to the stack, a sequence whose head is the innermost call. *)
LEMMA Popped ==
    ASSUME NEW S, NEW s \in Seq(S), s # << >>
    PROVE  /\ Tail(s) \in Seq(S) /\ Len(Tail(s)) = Len(s) - 1 /\ Len(s) \in Nat
           /\ \A k \in 1 .. Len(s) - 1 : Tail(s)[k] = s[k + 1]
OBVIOUS

LEMMA Pushed ==
    ASSUME NEW S, NEW s \in Seq(S), s # << >>, NEW a \in S, NEW b \in S
    PROVE  LET t == <<a, b>> \o Tail(s)
           IN  /\ t \in Seq(S) /\ Len(t) = Len(s) + 1 /\ t # << >>
               /\ t[1] = a /\ t[2] = b
               /\ \A k \in 2 .. Len(s) : t[k + 1] = s[k]
<1>1. Tail(s) \in Seq(S) /\ Len(Tail(s)) = Len(s) - 1 /\ Len(s) \in Nat /\ Len(s) >= 1
  OBVIOUS
<1>2. \A k \in 1 .. Len(s) - 1 : Tail(s)[k] = s[k + 1]
  OBVIOUS
<1>. DEFINE t == <<a, b>> \o Tail(s)
<1>3. t \in Seq(S) /\ Len(t) = Len(s) + 1 /\ t[1] = a /\ t[2] = b
  BY <1>1
<1>4. ASSUME NEW k \in 2 .. Len(s) PROVE t[k + 1] = s[k]
  BY <1>1, <1>2
<1>. QED
  BY <1>1, <1>3, <1>4

-----------------------------------------------------------------------------
LEMMA TopTyped ==
    ASSUME TypeOK, Running
    PROVE  /\ Top \in Frame /\ Top = stack[1] /\ Len(stack) \in Nat /\ Len(stack) >= 1
           /\ Top.node \in Node /\ Top.pc \in PCs /\ Top.rc \in Status
           /\ T \in [type : LeafTypes \cup InnerTypes,
                     l : Node \cup {Null}, r : Node \cup {Null}, x : Node \cup {Null}]
<1>1. Len(stack) \in Nat /\ Len(stack) >= 1 /\ Top \in Frame /\ Top = stack[1]
  BY DEF TypeOK, Running, Top
<1>2. Top.node \in Node /\ Top.pc \in PCs /\ Top.rc \in Status
  BY <1>1 DEF Frame
<1>3. T \in [type : LeafTypes \cup InnerTypes,
              l : Node \cup {Null}, r : Node \cup {Null}, x : Node \cup {Null}]
  BY <1>2, TreeAssumption DEF T
<1>. QED
  BY <1>1, <1>2, <1>3

(* A handler calls ast_exec on the child its new pc stands for. *)
LEMMA CallKeeps ==
    ASSUME IInv, Running, NEW child \in Node, NEW caller \in Frame,
           caller.node = Top.node, child = Callee(caller),
           stack' = <<NewFrame(child), caller>> \o Tail(stack),
           UNCHANGED <<root, ret, qmark, split, log>>
    PROVE  IInv'
<1>1. /\ Len(stack) \in Nat /\ Len(stack) >= 1 /\ caller.node = stack[1].node
      /\ stack \in Seq(Frame) /\ stack # << >>
  BY TopTyped DEF IInv, TypeOK, Running
<1>2. NewFrame(child) \in Frame /\ NewFrame(child).node = child
  BY BoundAssumption DEF NewFrame, Frame, PCs
<1>3. /\ stack' \in Seq(Frame) /\ Len(stack') = Len(stack) + 1
      /\ stack'[1] = NewFrame(child) /\ stack'[2] = caller
      /\ \A k \in 2 .. Len(stack) : stack'[k + 1] = stack[k]
  BY <1>1, <1>2, Pushed
<1>4. TypeOK'
  BY <1>3 DEF IInv, TypeOK
<1>5. /\ stack[Len(stack)].node = root /\ root' = root
      /\ \A k \in 1 .. Len(stack) - 1 : stack[k].node = Callee(stack[k + 1])
  BY DEF IInv, CallChain
<1>6. stack'[Len(stack')].node = root'
  <2>1. CASE Len(stack) = 1
    BY <1>1, <1>3, <1>5, <2>1
  <2>2. CASE Len(stack) # 1
    BY <1>1, <1>3, <1>5, <2>2
  <2>. QED
    BY <2>1, <2>2
<1>7. ASSUME NEW k \in 1 .. Len(stack') - 1
      PROVE  stack'[k].node = Callee(stack'[k + 1])
  <2>1. CASE k = 1
    BY <1>2, <1>3, <2>1
  <2>2. CASE k = 2
    <3>1. 1 \in 1 .. Len(stack) - 1 /\ 2 \in 2 .. Len(stack)
      BY <1>1, <1>3, <2>2
    <3>2. stack[1].node = Callee(stack[2]) /\ stack'[3] = stack[2]
      BY <1>3, <1>5, <3>1
    <3>. QED
      BY <1>1, <1>3, <2>2, <3>2
  <2>3. CASE k > 2
    <3>1. k - 1 \in 2 .. Len(stack) /\ k \in 2 .. Len(stack) /\ k - 1 \in 1 .. Len(stack) - 1
      BY <1>1, <1>3, <2>3
    <3>2. stack[k - 1].node = Callee(stack[k])
      BY <1>5, <3>1
    <3>3. stack'[k] = stack[k - 1] /\ stack'[k + 1] = stack[k]
      BY <1>3, <3>1
    <3>. QED
      BY <3>2, <3>3
  <2>. QED
    BY <2>1, <2>2, <2>3, <1>1, <1>3
<1>8. CallChain'
  <2>1. \A k \in 1 .. Len(stack') - 1 : stack'[k].node = Callee(stack'[k + 1])
    BY <1>7
  <2>. QED
    BY <1>6, <2>1 DEF CallChain, Callee
<1>. QED
  BY <1>4, <1>8 DEF IInv

(* A handler that is done, with a status to store in ?. *)
LEMMA LeaveKeeps ==
    ASSUME IInv, Running, NEW rc \in Status, Leave(rc), split' \subseteq Node, log' \in Seq(Entry)
    PROVE  IInv'
<1>1. /\ stack' \in Seq(Frame) /\ Len(stack') = Len(stack) - 1 /\ Len(stack) \in Nat
      /\ \A k \in 1 .. Len(stack) - 1 : stack'[k] = stack[k + 1]
  BY Popped DEF IInv, TypeOK, Running, Leave
<1>2. TypeOK'
  BY <1>1 DEF IInv, TypeOK, Leave
<1>3. ASSUME NEW k \in 1 .. Len(stack') - 1
      PROVE  stack'[k].node = Callee(stack'[k + 1])
  <2>1. k + 1 \in 1 .. Len(stack) - 1 /\ k \in 1 .. Len(stack) - 1
    BY <1>1
  <2>2. stack[k + 1].node = Callee(stack[k + 2])
    BY <2>1 DEF IInv, CallChain
  <2>. QED
    BY <1>1, <2>1, <2>2
<1>4. ASSUME stack' # << >> PROVE stack'[Len(stack')].node = root'
  <2>1. Len(stack') \in 1 .. Len(stack) - 1
    BY <1>1, <1>4
  <2>. QED
    BY <1>1, <2>1 DEF IInv, CallChain, Running, Leave
<1>5. CallChain'
  <2>1. \A k \in 1 .. Len(stack') - 1 : stack'[k].node = Callee(stack'[k + 1])
    BY <1>3
  <2>. QED
    BY <1>4, <2>1 DEF CallChain, Callee, Running
<1>. QED
  BY <1>2, <1>5 DEF IInv

LEMMA ReturnKeeps ==
    ASSUME IInv, Running, NEW rc \in Status, Return(rc)
    PROVE  IInv'
<1>1. Leave(rc) /\ split' \subseteq Node /\ log' \in Seq(Entry)
  BY DEF Return, IInv, TypeOK
<1>. QED
  BY <1>1, LeaveKeeps

LEMMA ExecuteKeeps ==
    ASSUME IInv, Running, NEW rc \in Status, Execute(rc), split' \subseteq Node
    PROVE  IInv'
<1>1. [node |-> Top.node, qmark |-> qmark, rc |-> rc] \in Entry
  BY TopTyped DEF Entry, IInv, TypeOK
<1>2. Leave(rc) /\ log' \in Seq(Entry)
  BY <1>1 DEF Execute, IInv, TypeOK
<1>. QED
  BY <1>2, LeaveKeeps

LEMMA NewCaller ==
    ASSUME NEW f \in Frame, NEW pc, NEW rc
    PROVE  [f EXCEPT !.pc = pc, !.rc = rc] = [node |-> f.node, pc |-> pc, rc |-> rc]
<1>1. ASSUME NEW g, g = [node |-> f.node, pc |-> pc, rc |-> f.rc]
      PROVE  [g EXCEPT !.rc = rc] = [node |-> f.node, pc |-> pc, rc |-> rc]
  BY <1>1
<1>2. [f EXCEPT !.pc = pc] = [node |-> f.node, pc |-> pc, rc |-> f.rc]
  BY DEF Frame
<1>. QED
  BY <1>1, <1>2

(* The same for a call of one of the three children. *)
LEMMA ChildKeeps ==
    ASSUME IInv, Running, NEW rc \in Status,
           \/ T.l # Null /\ Call(T.l, "left", rc)
           \/ T.r # Null /\ Call(T.r, "right", rc)
           \/ T.x # Null /\ Call(T.x, "else", rc)
    PROVE  IInv'
<1>1. Top.node \in Node /\ Top \in Frame
  BY TopTyped DEF IInv
<1>2. T.l \in Node \cup {Null} /\ T.r \in Node \cup {Null} /\ T.x \in Node \cup {Null}
  BY TopTyped DEF IInv
<1>. DEFINE caller(pc) == [node |-> Top.node, pc |-> pc, rc |-> rc]
<1>3. ASSUME NEW pc \in PCs PROVE caller(pc) \in Frame /\ caller(pc).node = Top.node
  BY <1>1 DEF Frame
<1>4. ASSUME NEW child, NEW pc \in PCs, Call(child, pc, rc)
      PROVE  /\ stack' = <<NewFrame(child), caller(pc)>> \o Tail(stack)
             /\ UNCHANGED <<root, ret, qmark, split, log>>
  BY <1>1, <1>4, NewCaller DEF Call
<1>5. {"left", "right", "else"} \subseteq PCs
  BY DEF PCs
<1>6. /\ Callee(caller("left")) = T.l /\ Callee(caller("right")) = T.r
      /\ Callee(caller("else")) = T.x
  BY DEF Callee, T
<1>. HIDE DEF caller
<1>7. CASE T.l # Null /\ Call(T.l, "left", rc)
  BY <1>2, <1>3, <1>4, <1>5, <1>6, <1>7, CallKeeps
<1>8. CASE T.r # Null /\ Call(T.r, "right", rc)
  BY <1>2, <1>3, <1>4, <1>5, <1>6, <1>8, CallKeeps
<1>9. CASE T.x # Null /\ Call(T.x, "else", rc)
  BY <1>2, <1>3, <1>4, <1>5, <1>6, <1>9, CallKeeps
<1>. QED
  BY <1>7, <1>8, <1>9

-----------------------------------------------------------------------------
(* A handler passes on what its child returned, or a status of its own. *)
LEMMA Statuses ==
    ASSUME IInv
    PROVE  0 \in Status /\ 1 \in Status /\ 127 \in Status /\ ret \in Status
BY BoundAssumption DEF IInv, TypeOK

LEMMA HasLeft ==
    ASSUME IInv, NEW type \in InnerTypes, NEW pc, At(type, pc)
    PROVE  Running /\ T.l # Null
<1>1. Running /\ T.type \in InnerTypes
  BY DEF At
<1>2. Top.node \in Node
  BY <1>1, TopTyped DEF IInv
<1>. QED
  BY <1>1, <1>2, ParserAssumption DEF T

LEMMA HasRight ==
    ASSUME IInv, NEW type \in {"||", "&&", "if", "while", "until"}, NEW pc, At(type, pc)
    PROVE  T.r # Null
<1>1. Running /\ T.type \in {"||", "&&", "if", "while", "until"}
  BY DEF At
<1>2. Top.node \in Node
  BY <1>1, TopTyped DEF IInv
<1>. QED
  BY <1>1, <1>2, ParserAssumption DEF T

LEMMA Inner ==
    /\ {"||", "&&", "if", "while", "until"} \subseteq InnerTypes
    /\ {"call", ";", "!", "block"} \subseteq InnerTypes
BY DEF InnerTypes

(* The commands, which call nothing. *)
LEMMA CommandKeeps ==
    ASSUME IInv, ExecSimple \/ ExecFunction \/ ExecAssignment \/ ExecSplitAssignment
    PROVE  IInv'
<1>1. Running
  BY DEF ExecSimple, ExecFunction, ExecAssignment, ExecSplitAssignment, At
<1>2. split \subseteq Node /\ Top.node \in Node
  BY <1>1, TopTyped DEF IInv, TypeOK
<1>3. ASSUME NEW rc \in Status, Execute(rc), split' = split \/ split' = split \cup {Top.node}
      PROVE  IInv'
  BY <1>1, <1>2, <1>3, ExecuteKeeps
<1>4. CASE ExecSimple
  BY <1>3, <1>4 DEF ExecSimple
<1>5. CASE ExecFunction
  BY <1>3, <1>5, Statuses DEF ExecFunction
<1>6. CASE ExecAssignment
  BY <1>3, <1>6, Statuses DEF ExecAssignment
<1>7. CASE ExecSplitAssignment
  BY <1>3, <1>7 DEF ExecSplitAssignment
<1>. QED
  BY <1>4, <1>5, <1>6, <1>7

LEMMA CallStepKeeps ==
    ASSUME IInv, ExecCall
    PROVE  IInv'
<1>1. CASE At("call", "start") /\ Call(T.l, "left", 0)
  BY <1>1, HasLeft, Inner, Statuses, ChildKeeps
<1>2. CASE At("call", "start") /\ \E rc \in Status \ {0} : Execute(rc) /\ UNCHANGED split
  BY <1>2, ExecuteKeeps DEF At, IInv, TypeOK
<1>3. CASE At("call", "left") /\ Return(ret)
  BY <1>3, Statuses, ReturnKeeps DEF At
<1>. QED
  BY <1>1, <1>2, <1>3 DEF ExecCall

(* The operators and the compound commands. *)
LEMMA ListKeeps ==
    ASSUME IInv, ExecSemicolon \/ ExecNeg \/ ExecBlock
    PROVE  IInv'
<1>1. ASSUME NEW type \in {";", "!", "block"}, At(type, "start"), Call(T.l, "left", 0)
      PROVE  IInv'
  BY <1>1, HasLeft, Inner, Statuses, ChildKeeps
<1>2. ASSUME NEW type \in {";", "!", "block"}, NEW pc, At(type, pc), NEW rc \in Status, Return(rc)
      PROVE  IInv'
  BY <1>2, ReturnKeeps DEF At
<1>3. ASSUME At(";", "left"), T.r # Null, Call(T.r, "right", 0)
      PROVE  IInv'
  BY <1>3, Statuses, ChildKeeps DEF At
<1>4. CASE ExecSemicolon
  BY <1>1, <1>2, <1>3, <1>4, Statuses DEF ExecSemicolon
<1>5. CASE ExecNeg
  BY <1>1, <1>2, <1>5, Statuses DEF ExecNeg
<1>6. CASE ExecBlock
  BY <1>1, <1>2, <1>6, Statuses DEF ExecBlock
<1>. QED
  BY <1>4, <1>5, <1>6

LEMMA BranchKeeps ==
    ASSUME IInv, ExecOr \/ ExecAnd \/ ExecIf \/ ExecLoop
    PROVE  IInv'
<1>. DEFINE Types == {"||", "&&", "if", "while", "until"}
<1>1. ASSUME NEW type \in Types, NEW pc, At(type, pc), NEW rc \in Status,
             \/ Call(T.l, "left", rc)
             \/ Call(T.r, "right", rc)
             \/ T.x # Null /\ Call(T.x, "else", rc)
      PROVE  IInv'
  BY <1>1, HasLeft, HasRight, Inner, ChildKeeps
<1>2. ASSUME NEW type \in Types, NEW pc, At(type, pc), NEW rc \in Status, Return(rc)
      PROVE  IInv'
  BY <1>2, ReturnKeeps DEF At
<1>3. Running /\ Top.rc \in Status
  <2>1. Running
    BY DEF ExecOr, ExecAnd, ExecIf, ExecLoop, At
  <2>. QED
    BY <2>1, TopTyped DEF IInv
<1>4. CASE ExecOr
  BY <1>1, <1>2, <1>4, Statuses DEF ExecOr
<1>5. CASE ExecAnd
  BY <1>1, <1>2, <1>5, Statuses DEF ExecAnd
<1>6. CASE ExecIf
  BY <1>1, <1>2, <1>6, Statuses DEF ExecIf
<1>7. CASE ExecLoop
  BY <1>1, <1>2, <1>3, <1>7, Statuses DEF ExecLoop
<1>. QED
  BY <1>4, <1>5, <1>6, <1>7

LEMMA InitIInv == Init => IInv
<1>. SUFFICES ASSUME Init PROVE IInv
  OBVIOUS
<1>1. root \in Node /\ root \in Roots
  BY TreeAssumption DEF Init
<1>2. NewFrame(root) \in Frame /\ NewFrame(root).node = root
  BY <1>1, BoundAssumption DEF NewFrame, Frame, PCs
<1>3. stack \in Seq(Frame) /\ Len(stack) = 1 /\ stack[1].node = root
  BY <1>2 DEF Init
<1>4. TypeOK
  BY <1>1, <1>3, BoundAssumption DEF TypeOK, Init
<1>5. CallChain
  BY <1>3 DEF CallChain
<1>. QED
  BY <1>4, <1>5 DEF IInv

LEMMA NextIInv == IInv /\ [Next]_vars => IInv'
<1>. SUFFICES ASSUME IInv, [Next]_vars PROVE IInv'
  OBVIOUS
<1>1. CASE UNCHANGED vars
  BY <1>1 DEF IInv, TypeOK, CallChain, Callee, Running, vars
<1>. QED
  BY <1>1, CommandKeeps, CallStepKeeps, ListKeeps, BranchKeeps DEF Next, Stopped

LEMMA Invariant == Spec => []IInv
BY InitIInv, NextIInv, PTL DEF Spec

(* The executor's state is of its types for every tree: it returns statuses, and
   follows no child that is not there (ast_exec and all handlers). *)
THEOREM TypeCorrect == Spec => []TypeOK
<1>1. IInv => TypeOK
  BY DEF IInv
<1>. QED
  BY <1>1, Invariant, PTL

(* The active calls of ast_exec are a path of the tree, for every tree. *)
THEOREM CallsAreAPath == Spec => []CallChain
<1>1. IInv => CallChain
  BY DEF IInv
<1>. QED
  BY <1>1, Invariant, PTL
=============================================================================
